--------------------------- MODULE VnetLoopProofs ---------------------------
(***************************************************************************)
(* vnetloop.c for any number of readers, packets and packet lengths: the    *)
(* statistics that a reader gets are consistent, and the counters agree     *)
(* with what was sent, delivered and freed.                                 *)
(***************************************************************************)
EXTENDS VnetLoop, TLAPS

(* The counters that the packet under way changes.                          *)
Counted == IF copied THEN Field ELSE {"tx_packets", "tx_bytes"}

(* Where vnetloop_xmit is says what it has still to count, and by how much  *)
(* the counters are ahead of the last complete update.                      *)
Xmit ==
    /\ at \in {"idle", "rx", "free"} => todo = {}
    /\ at = "begin" => todo = Counted
    /\ at = "update" => todo \subseteq Counted
    /\ at # "update" => priv = total
    /\ at = "update" => \A f \in Field :
          priv[f] = IF f \in Counted \ todo THEN total[f] + Amount(f) ELSE total[f]
    /\ at # "idle" => len \in Lens /\ freed < MaxPackets
    /\ at = "rx" => copied

(* The sequence counter is odd exactly during an update, in the build that  *)
(* has one.                                                                 *)
Sync ==
    /\ build = "64bit" => syncp = 0
    /\ build = "32bit" => (syncp % 2 = 1 <=> at = "update")

(* The counters after the last complete update, packet by packet.           *)
Sums ==
    /\ total["tx_packets"] = IF at \in {"rx", "free"} THEN freed + 1 ELSE freed
    /\ total["rx_packets"] = IF at = "rx" THEN delivered + 1 ELSE delivered
    /\ total["rx_packets"] <= total["tx_packets"]
    /\ total["rx_bytes"] + ETH_HLEN * total["rx_packets"] <= total["tx_bytes"]
    /\ total["rx_packets"] = total["tx_packets"] =>
          total["rx_bytes"] + ETH_HLEN * total["rx_packets"] = total["tx_bytes"]

Reading(r) == call[r].at \in {"read", "retry"}

(* A reader's copy of a counter is no older than its call and no newer than *)
(* now.  While the sequence counter is what it was when the copying began,  *)
(* no update has begun, so the copies are those of one moment.              *)
Copies(r) ==
    LET c == call[r] IN
    /\ c = Idle <=> c.at = "idle"
    /\ c.at # "idle" => total \in window[r]
    /\ c.at = "read" => c.left # {}
    /\ c.at \in {"retry", "done"} => c.left = {}
    /\ c.at \in {"read", "retry", "done"} => \A f \in Field \ c.left :
          /\ c.stats[f] <= priv[f]
          /\ \E w \in window[r] : w[f] <= c.stats[f]
    /\ Reading(r) =>
          /\ c.start <= syncp /\ c.start % 2 = 0
          /\ build = "32bit" /\ c.start = syncp =>
                \A f \in Field \ c.left : c.stats[f] = total[f]
    /\ c.at = "done" /\ build = "32bit" => c.stats \in window[r]

IInv == TypeOK /\ Xmit /\ Sync /\ Sums /\ \A r \in Reader : Copies(r)

-----------------------------------------------------------------------------
USE VnetLoopAssumption
USE DEF Field

CallType == [at : {"idle", "fetch", "read", "retry", "done"},
             start : Nat, left : SUBSET Field, stats : Stats]

(* The amounts are natural numbers: a packet is not shorter than its header. *)
LEMMA AmountIsNat ==
    ASSUME len \in Lens, NEW f \in Field
    PROVE  Amount(f) \in Nat
<1>1. len \in Nat /\ len >= ETH_HLEN /\ len - ETH_HLEN \in Nat
  OBVIOUS
<1>2. CASE f \in {"tx_packets", "rx_packets"}
  BY <1>2 DEF Amount
<1>3. CASE f = "tx_bytes"
  BY <1>1, <1>3 DEF Amount
<1>4. CASE f = "rx_bytes"
  BY <1>1, <1>4 DEF Amount
<1> QED
  BY <1>2, <1>3, <1>4

(* What a reader has copied survives a step of vnetloop_xmit, which only    *)
(* adds to the counters and to the window, and which in the 32-bit build    *)
(* changes the total only together with the sequence counter.               *)
LEMMA CopiesStay ==
    ASSUME TypeOK, TypeOK', NEW r \in Reader, Copies(r), call' = call, build' = build,
           window[r] \subseteq window'[r],
           call[r] # Idle => total' \in window'[r],
           \A f \in Field : priv[f] <= priv'[f],
           syncp <= syncp',
           build = "32bit" /\ syncp' = syncp => total' = total
    PROVE  Copies(r)'
<1> DEFINE c == call[r]
<1>1. /\ c.start \in Nat /\ c.left \subseteq Field /\ syncp \in Nat /\ syncp' \in Nat
      /\ \A f \in Field : c.stats[f] \in Nat /\ priv[f] \in Nat /\ priv'[f] \in Nat
  <2>1. call[r] \in CallType
    BY DEF TypeOK, CallType
  <2> QED
    BY <2>1 DEF TypeOK, CallType, Stats
<1>2. c.at \in {"read", "retry", "done"} => \A f \in Field \ c.left :
          /\ c.stats[f] <= priv'[f]
          /\ \E w \in window'[r] : w[f] <= c.stats[f]
  BY <1>1 DEF Copies
<1>3. Reading(r) => /\ c.start <= syncp' /\ c.start % 2 = 0
                    /\ build = "32bit" /\ c.start = syncp' =>
                          \A f \in Field \ c.left : c.stats[f] = total'[f]
  <2> SUFFICES ASSUME Reading(r)
               PROVE  /\ c.start <= syncp' /\ c.start % 2 = 0
                      /\ build = "32bit" /\ c.start = syncp' =>
                            \A f \in Field \ c.left : c.stats[f] = total'[f]
    OBVIOUS
  <2>1. c.start <= syncp /\ c.start % 2 = 0
    BY DEF Copies
  <2>2. c.start <= syncp'
    BY <1>1, <2>1
  <2>3. c.start = syncp' => syncp' = syncp /\ c.start = syncp
    BY <1>1, <2>1
  <2> QED
    BY <2>1, <2>2, <2>3 DEF Copies
<1>4. Reading(r)' <=> Reading(r)
  BY DEF Reading
<1> QED
  BY <1>2, <1>3, <1>4 DEF Copies

(* The header times the packets, one packet later.                          *)
LEMMA OneMoreHeader ==
    \A n \in Nat : ETH_HLEN * n \in Nat /\ ETH_HLEN * (n + 1) = ETH_HLEN * n + ETH_HLEN
  OBVIOUS

(* The initial state.                                                       *)
LEMMA InitIInv == Init => IInv
<1> SUFFICES ASSUME Init PROVE IInv
  OBVIOUS
<1>1. Zero \in Stats /\ \A f \in Field : Zero[f] = 0
  BY DEF Zero, Stats
<1>2. TypeOK
  <2>1. Idle \in CallType
    BY <1>1 DEF Idle, CallType
  <2>2. call \in [Reader -> CallType]
    BY <2>1 DEF Init
  <2>3. window \in [Reader -> SUBSET Stats]
    BY DEF Init
  <2>4. 0 \in 0 .. MaxPackets
    OBVIOUS
  <2>5. delivered \in 0 .. MaxPackets /\ freed \in 0 .. MaxPackets /\ syncp \in Nat
    BY <2>4 DEF Init
  <2>6. /\ build \in {"32bit", "64bit"} /\ queue \in BOOLEAN /\ priv \in Stats /\ total \in Stats
        /\ at = "idle" /\ len = 0 /\ copied \in BOOLEAN /\ todo \subseteq Field
    BY <1>1, Zenon DEF Init
  <2> QED
    BY <2>2, <2>3, <2>5, <2>6, Zenon DEF TypeOK, CallType
<1>3. Xmit /\ Sync /\ Sums
  BY <1>1 DEF Init, Xmit, Sync, Sums
<1>4. \A r \in Reader : Copies(r)
  BY DEF Init, Copies, Idle, Reading
<1> QED
  BY <1>2, <1>3, <1>4 DEF IInv

-----------------------------------------------------------------------------
(* Steps of vnetloop_xmit.                                                  *)

(* Opening and stopping the device.                                         *)
LEMMA OpenStopKeepIInv ==
    ASSUME IInv, vnetloop_open \/ vnetloop_stop
    PROVE  IInv'
<1>1. UNCHANGED <<build, xmit, readers>> /\ queue' \in BOOLEAN
  BY DEF vnetloop_open, vnetloop_stop
<1>2. TypeOK'
  BY <1>1 DEF IInv, TypeOK, xmit, readers
<1>3. (Xmit /\ Sync /\ Sums)'
  BY <1>1 DEF IInv, Xmit, Sync, Sums, Counted, Amount, xmit
<1>4. (\A r \in Reader : Copies(r))'
  BY <1>1 DEF IInv, Copies, Reading, xmit, readers
<1> QED
  BY <1>2, <1>3, <1>4 DEF IInv

(* A step that leaves the counters, their sequence counter and the readers. *)
LEMMA CountersStay ==
    ASSUME IInv, TypeOK', UNCHANGED <<build, priv, syncp, total, readers>>
    PROVE  (\A r \in Reader : Copies(r))'
  BY DEF IInv, Copies, Reading, readers

(* A packet enters vnetloop_xmit.                                           *)
LEMMA XmitKeepsIInv ==
    ASSUME IInv, vnetloop_xmit
    PROVE  IInv'
<1>1. TypeOK'
  BY DEF IInv, TypeOK, vnetloop_xmit, readers
<1>2. (\A r \in Reader : Copies(r))'
  BY <1>1, CountersStay DEF vnetloop_xmit
<1>3. (Xmit /\ Sync /\ Sums)'
  BY DEF IInv, TypeOK, Xmit, Sync, Sums, Counted, vnetloop_xmit
<1> QED
  BY <1>1, <1>2, <1>3 DEF IInv

(* u64_stats_update_begin: the sequence becomes odd.                        *)
LEMMA UpdateBeginKeepsIInv ==
    ASSUME IInv, UpdateBegin
    PROVE  IInv'
<1>1. TypeOK'
  BY DEF IInv, TypeOK, UpdateBegin, readers
<1>2. Xmit'
  BY DEF IInv, Xmit, Counted, UpdateBegin, Amount
<1>3. Sync'
  BY DEF IInv, TypeOK, Sync, UpdateBegin
<1>4. Sums'
  BY DEF IInv, Sums, UpdateBegin
<1>5. ASSUME NEW r \in Reader PROVE Copies(r)'
  <2>1. /\ call' = call /\ build' = build /\ window' = window
        /\ priv' = priv /\ total' = total /\ syncp <= syncp'
    BY DEF IInv, TypeOK, UpdateBegin, readers
  <2>2. call[r] # Idle => total' \in window'[r]
    BY <2>1 DEF IInv, Copies
  <2>3. \A f \in Field : priv[f] <= priv'[f]
    BY <2>1 DEF IInv, TypeOK, Stats
  <2>4. Copies(r) /\ TypeOK
    BY DEF IInv
  <2> QED
    BY <1>1, <2>1, <2>2, <2>3, <2>4, CopiesStay
<1> QED
  BY <1>1, <1>2, <1>3, <1>4, <1>5 DEF IInv

(* One counter is added to, in any order.                                   *)
LEMMA UpdateFieldKeepsIInv ==
    ASSUME IInv, UpdateField
    PROVE  IInv'
<1>1. PICK f \in todo : priv' = [priv EXCEPT ![f] = @ + Amount(f)] /\ todo' = todo \ {f}
  BY DEF UpdateField
<1>2. /\ UNCHANGED <<build, queue, at, len, copied, delivered, freed, syncp, total, call, window>>
      /\ at = "update"
  BY DEF UpdateField, readers
<1>3. f \in Field /\ len \in Lens /\ f \in Counted
  BY <1>2 DEF IInv, TypeOK, Xmit
<1>4. Amount(f) \in Nat
  BY <1>3, AmountIsNat
<1>5. priv \in Stats /\ priv' \in Stats /\ \A g \in Field : priv[g] <= priv'[g]
  BY <1>1, <1>3, <1>4 DEF IInv, TypeOK, Stats
<1>6. TypeOK'
  BY <1>1, <1>2, <1>5 DEF IInv, TypeOK
<1>7. Xmit'
  <2>1. Counted' = Counted /\ \A g \in Field : Amount(g)' = Amount(g)
    BY <1>2 DEF Counted, Amount
  <2>2. ASSUME NEW g \in Field
        PROVE  priv'[g] = IF g \in Counted \ todo' THEN total[g] + Amount(g) ELSE total[g]
    <3>1. priv[g] = IF g \in Counted \ todo THEN total[g] + Amount(g) ELSE total[g]
      BY <1>2 DEF IInv, Xmit
    <3>2. priv'[g] = IF g = f THEN priv[f] + Amount(f) ELSE priv[g]
      BY <1>1, <1>5 DEF Stats
    <3> QED
      BY <1>1, <1>3, <3>1, <3>2
  <2>3. at' = "update" /\ todo' \subseteq Counted /\ len' \in Lens /\ freed' < MaxPackets
    BY <1>1, <1>2 DEF IInv, Xmit
  <2> QED
    BY <1>2, <2>1, <2>2, <2>3 DEF Xmit
<1>8. (Sync /\ Sums)'
  BY <1>2 DEF IInv, Sync, Sums
<1>9. ASSUME NEW r \in Reader PROVE Copies(r)'
  <2>1. call[r] # Idle => total' \in window'[r]
    BY <1>2 DEF IInv, Copies
  <2>2. Copies(r) /\ TypeOK /\ syncp <= syncp'
    BY <1>2 DEF IInv, TypeOK
  <2> QED
    BY <1>2, <1>5, <1>6, <2>1, <2>2, CopiesStay
<1> QED
  BY <1>6, <1>7, <1>8, <1>9 DEF IInv

(* What the packet under way adds to the totals when its update ends.       *)
LEMMA UpdateEndSums ==
    ASSUME IInv, UpdateEnd
    PROVE  Sums'
<1>1. at = "update" /\ todo = {} /\ total' = priv /\ copied' = copied
      /\ delivered' = delivered /\ freed' = freed
      /\ at' = IF copied THEN "rx" ELSE "free"
  BY DEF UpdateEnd
<1>2. len \in Lens /\ len \in Nat /\ len >= ETH_HLEN /\ len - ETH_HLEN \in Nat
  BY <1>1 DEF IInv, Xmit
<1>3. total \in Stats /\ priv \in Stats /\ delivered \in Nat /\ freed \in Nat
  BY DEF IInv, TypeOK
<1>4. PICK tp \in Nat, tb \in Nat, rp \in Nat, rb \in Nat :
         /\ tp = total["tx_packets"] /\ tb = total["tx_bytes"]
         /\ rp = total["rx_packets"] /\ rb = total["rx_bytes"]
  BY <1>3 DEF Stats
<1>5. /\ tp = freed /\ rp = delivered /\ rp <= tp
      /\ rb + ETH_HLEN * rp <= tb
      /\ rp = tp => rb + ETH_HLEN * rp = tb
  BY <1>1, <1>4 DEF IInv, Sums
<1>6. /\ priv["tx_packets"] = tp + 1
      /\ priv["tx_bytes"] = tb + len
  <2>1. {"tx_packets", "tx_bytes"} \subseteq Counted
    BY DEF Counted
  <2>2. /\ priv["tx_packets"] = total["tx_packets"] + Amount("tx_packets")
        /\ priv["tx_bytes"] = total["tx_bytes"] + Amount("tx_bytes")
    BY <1>1, <2>1 DEF IInv, Xmit
  <2>3. Amount("tx_packets") = 1 /\ Amount("tx_bytes") = len
    BY DEF Amount
  <2> QED
    BY <1>4, <2>2, <2>3
<1>7. /\ ETH_HLEN * rp \in Nat
      /\ ETH_HLEN * (rp + 1) = ETH_HLEN * rp + ETH_HLEN
  BY OneMoreHeader
<1>8. CASE copied
  <2>1. /\ priv["rx_packets"] = total["rx_packets"] + Amount("rx_packets")
        /\ priv["rx_bytes"] = total["rx_bytes"] + Amount("rx_bytes")
    BY <1>1, <1>8 DEF IInv, Xmit, Counted
  <2>2. Amount("rx_packets") = 1 /\ Amount("rx_bytes") = len - ETH_HLEN
    BY DEF Amount
  <2>3. priv["rx_packets"] = rp + 1 /\ priv["rx_bytes"] = rb + (len - ETH_HLEN)
    BY <1>4, <2>1, <2>2
  <2>4. PICK h \in Nat : h = ETH_HLEN * rp /\ ETH_HLEN * (rp + 1) = h + ETH_HLEN
    BY <1>7
  <2>5. /\ rb + h <= tb => (rb + (len - ETH_HLEN)) + (h + ETH_HLEN) <= tb + len
        /\ rb + h = tb => (rb + (len - ETH_HLEN)) + (h + ETH_HLEN) = tb + len
    BY <1>2
  <2>6. /\ priv["rx_bytes"] + ETH_HLEN * priv["rx_packets"] <= priv["tx_bytes"]
        /\ rp = tp => priv["rx_bytes"] + ETH_HLEN * priv["rx_packets"] = priv["tx_bytes"]
    BY <1>5, <1>6, <2>3, <2>4, <2>5
  <2>7. /\ priv["rx_packets"] <= priv["tx_packets"]
        /\ priv["rx_packets"] = priv["tx_packets"] => rp = tp
        /\ priv["tx_packets"] = freed + 1 /\ priv["rx_packets"] = delivered + 1
    BY <1>5, <1>6, <2>3
  <2> QED
    BY <1>1, <1>8, <2>6, <2>7 DEF Sums
<1>9. CASE ~copied
  <2>1. /\ priv["rx_packets"] = total["rx_packets"]
        /\ priv["rx_bytes"] = total["rx_bytes"]
    BY <1>1, <1>9 DEF IInv, Xmit, Counted
  <2>2. PICK h \in Nat : h = ETH_HLEN * rp
    BY <1>7
  <2>3. rb + h <= tb => rb + h <= tb + len
    BY <1>2
  <2>4. priv["rx_bytes"] + ETH_HLEN * priv["rx_packets"] <= priv["tx_bytes"]
    BY <1>4, <1>5, <1>6, <2>1, <2>2, <2>3
  <2>5. /\ priv["rx_packets"] <= priv["tx_packets"]
        /\ priv["rx_packets"] # priv["tx_packets"]
        /\ priv["tx_packets"] = freed + 1 /\ priv["rx_packets"] = delivered
    <3>1. rp <= tp + 1 /\ rp # tp + 1
      BY <1>5
    <3>2. priv["rx_packets"] = rp
      BY <1>4, <2>1
    <3> QED
      BY <1>5, <1>6, <3>1, <3>2
  <2> QED
    BY <1>1, <1>9, <2>4, <2>5 DEF Sums
<1> QED
  BY <1>8, <1>9

(* The end of an update: a new total, which every reader's window takes in. *)
LEMMA UpdateEndKeepsIInv ==
    ASSUME IInv, UpdateEnd
    PROVE  IInv'
<1>1. /\ at = "update" /\ todo = {} /\ total' = priv
      /\ at' = IF copied THEN "rx" ELSE "free"
      /\ syncp' = IF build = "32bit" THEN syncp + 1 ELSE syncp
      /\ window' = [r \in Reader |-> IF call[r] = Idle THEN {} ELSE window[r] \cup {priv}]
      /\ UNCHANGED <<build, queue, len, copied, todo, delivered, freed, priv, call>>
  BY DEF UpdateEnd
<1>2. TypeOK'
  <2>1. window' \in [Reader -> SUBSET Stats]
    BY <1>1 DEF IInv, TypeOK
  <2>2. syncp' \in Nat /\ total' \in Stats /\ at' \in {"rx", "free"}
    BY <1>1 DEF IInv, TypeOK
  <2> QED
    BY <1>1, <2>1, <2>2 DEF IInv, TypeOK
<1>3. Xmit'
  BY <1>1 DEF IInv, TypeOK, Xmit
<1>4. Sync'
  BY <1>1 DEF IInv, TypeOK, Sync
<1>5. ASSUME NEW r \in Reader PROVE Copies(r)'
  <2>1. CASE call[r] = Idle
    <3>1. call'[r] = Idle
      BY <1>1, <2>1
    <3> QED
      BY <3>1 DEF Copies, Reading, Idle
  <2>2. CASE call[r] # Idle
    <3>1. window'[r] = window[r] \cup {priv}
      BY <1>1, <2>2
    <3>2. \A f \in Field : priv[f] <= priv'[f]
      BY <1>1 DEF IInv, TypeOK, Stats
    <3>3. syncp <= syncp' /\ (build = "32bit" => syncp' # syncp)
      BY <1>1 DEF IInv, TypeOK
    <3>4. Copies(r) /\ TypeOK
      BY DEF IInv
    <3> QED
      BY <1>1, <1>2, <3>1, <3>2, <3>3, <3>4, CopiesStay
  <2> QED
    BY <2>1, <2>2
<1> QED
  BY <1>2, <1>3, <1>4, <1>5, UpdateEndSums DEF IInv

(* The packet is delivered, after the counters have counted it.             *)
LEMMA NetifRxKeepsIInv ==
    ASSUME IInv, netif_rx
    PROVE  IInv'
<1>1. delivered' \in 0 .. MaxPackets
  <2>1. /\ total["rx_packets"] = delivered + 1 /\ total["tx_packets"] = freed + 1
        /\ total["rx_packets"] <= total["tx_packets"]
    BY DEF IInv, Sums, netif_rx
  <2>2. freed \in Nat /\ delivered \in Nat /\ freed < MaxPackets /\ delivered' = delivered + 1
    BY DEF IInv, TypeOK, Xmit, netif_rx
  <2> QED
    BY <2>1, <2>2
<1>2. TypeOK'
  BY <1>1 DEF IInv, TypeOK, netif_rx, readers
<1>3. (\A r \in Reader : Copies(r))'
  BY <1>2, CountersStay DEF netif_rx
<1>4. (Xmit /\ Sync /\ Sums)'
  BY DEF IInv, TypeOK, Xmit, Sync, Sums, netif_rx
<1> QED
  BY <1>2, <1>3, <1>4 DEF IInv

(* The packet is freed, after the counters have counted it.                 *)
LEMMA FreeSkbKeepsIInv ==
    ASSUME IInv, FreeSkb
    PROVE  IInv'
<1>1. TypeOK'
  <2>1. freed \in 0 .. MaxPackets /\ freed < MaxPackets /\ freed' = freed + 1
    BY DEF IInv, TypeOK, Xmit, FreeSkb
  <2>2. freed' \in 0 .. MaxPackets
    BY <2>1
  <2>3. len' = 0 /\ at' = "idle" /\ copied' = FALSE
    BY DEF FreeSkb
  <2> QED
    BY <2>2, <2>3 DEF IInv, TypeOK, FreeSkb, readers
<1>2. (\A r \in Reader : Copies(r))'
  BY <1>1, CountersStay DEF FreeSkb
<1>3. (Xmit /\ Sync /\ Sums)'
  BY DEF IInv, TypeOK, Xmit, Sync, Sums, FreeSkb
<1> QED
  BY <1>1, <1>2, <1>3 DEF IInv

-----------------------------------------------------------------------------
(* Steps of vnetloop_get_stats64: only one reader's call changes.           *)

(* A step that changes only the call and the window of reader r.            *)
LEMMA OneReader ==
    ASSUME IInv, NEW r \in Reader, NEW c \in CallType, NEW w \in SUBSET Stats,
           call' = [call EXCEPT ![r] = c], window' = [window EXCEPT ![r] = w],
           UNCHANGED <<build, queue, xmit>>, Copies(r)'
    PROVE  IInv'
<1>1. TypeOK'
  <2>1. call' \in [Reader -> CallType] /\ window' \in [Reader -> SUBSET Stats]
    BY DEF IInv, TypeOK, CallType
  <2> QED
    BY <2>1 DEF IInv, TypeOK, CallType, xmit
<1>2. (Xmit /\ Sync /\ Sums)'
  BY DEF IInv, Xmit, Sync, Sums, Counted, Amount, xmit
<1>3. ASSUME NEW s \in Reader, s # r PROVE Copies(s)'
  <2>1. call'[s] = call[s] /\ window'[s] = window[s]
    BY <1>3 DEF IInv, TypeOK
  <2> QED
    BY <2>1 DEF IInv, Copies, Reading, xmit
<1> QED
  BY <1>1, <1>2, <1>3 DEF IInv

(* The parts of a reader's call, and its window.                            *)
LEMMA CallParts ==
    ASSUME IInv, NEW r \in Reader
    PROVE  /\ call[r] \in CallType /\ window[r] \subseteq Stats
           /\ call[r].start \in Nat /\ call[r].left \subseteq Field
           /\ call[r].stats \in Stats
           /\ priv \in Stats /\ total \in Stats /\ syncp \in Nat
<1>1. call[r] \in CallType /\ window[r] \subseteq Stats
  BY DEF IInv, TypeOK, CallType
<1> QED
  BY <1>1 DEF IInv, TypeOK, CallType

(* A reader calls vnetloop_get_stats64.                                     *)
LEMMA GetStats64KeepsIInv ==
    ASSUME IInv, NEW r \in Reader, vnetloop_get_stats64(r)
    PROVE  IInv'
<1> DEFINE c == [at |-> "fetch", start |-> 0, left |-> {}, stats |-> Zero]
<1>1. c \in CallType /\ {total} \in SUBSET Stats
  BY CallParts DEF CallType, Zero, Stats
<1>2. /\ call' = [call EXCEPT ![r] = c] /\ window' = [window EXCEPT ![r] = {total}]
      /\ UNCHANGED <<build, queue, xmit>>
  BY DEF vnetloop_get_stats64
<1>3. call'[r] = c /\ window'[r] = {total} /\ total' = total
  BY <1>2 DEF IInv, TypeOK, xmit
<1>4. Copies(r)'
  BY <1>3 DEF Copies, Reading, Idle
<1> QED
  BY <1>1, <1>2, <1>4, OneReader

(* u64_stats_fetch_begin: the reader sees an even sequence.                 *)
LEMMA FetchBeginKeepsIInv ==
    ASSUME IInv, NEW r \in Reader, FetchBegin(r)
    PROVE  IInv'
<1> DEFINE c == [at |-> "read", start |-> syncp, left |-> Field, stats |-> call[r].stats]
<1>1. c \in CallType
  BY CallParts DEF CallType
<1>2. /\ call' = [call EXCEPT ![r] = c] /\ window' = window
      /\ UNCHANGED <<build, queue, xmit>> /\ call[r].at = "fetch" /\ syncp % 2 = 0
  BY DEF FetchBegin
<1>3. /\ call'[r] = c /\ window' = [window EXCEPT ![r] = window[r]]
      /\ window[r] \in SUBSET Stats
  BY <1>2, CallParts DEF IInv, TypeOK
<1>4. Copies(r)'
  <2>1. total \in window[r]
    BY <1>2 DEF IInv, Copies
  <2>2. UNCHANGED <<build, priv, total, syncp, window>> /\ syncp <= syncp
    BY <1>2, CallParts DEF xmit
  <2> QED
    BY <1>2, <1>3, <2>1, <2>2 DEF Copies, Reading, Idle
<1> QED
  BY <1>1, <1>2, <1>3, <1>4, OneReader

(* The counter copied is not less than the last total; with the sequence    *)
(* counter even, it is the last total.                                      *)
LEMMA ReadFieldKeepsIInv ==
    ASSUME IInv, NEW r \in Reader, ReadField(r)
    PROVE  IInv'
<1>1. PICK f \in call[r].left :
         call' = [call EXCEPT ![r] = [at |-> IF call[r].left = {f} THEN "retry" ELSE "read",
                                      start |-> call[r].start, left |-> call[r].left \ {f},
                                      stats |-> [call[r].stats EXCEPT ![f] = priv[f]]]]
  BY DEF ReadField
<1> DEFINE old == call[r]
           c == [at |-> IF old.left = {f} THEN "retry" ELSE "read", start |-> old.start,
                 left |-> old.left \ {f}, stats |-> [old.stats EXCEPT ![f] = priv[f]]]
<1>2. old.at = "read" /\ UNCHANGED <<build, queue, xmit, window>>
  BY DEF ReadField
<1>3. f \in Field /\ priv[f] \in Nat /\ total[f] \in Nat
  BY <1>1, CallParts DEF Stats
<1>4. c.stats \in Stats /\ \A g \in Field : c.stats[g] = IF g = f THEN priv[f] ELSE old.stats[g]
  BY <1>3, CallParts DEF Stats
<1>5. c \in CallType
  <2>1. c.left \subseteq Field /\ c.start \in Nat /\ c.at \in {"retry", "read"}
    BY CallParts
  <2> QED
    BY <1>4, <2>1 DEF CallType
<1>6. call'[r] = c
  BY <1>1 DEF IInv, TypeOK
<1>7. UNCHANGED <<build, priv, total, syncp, window>>
  BY <1>2 DEF xmit
<1>8. /\ total \in window[r] /\ old.start <= syncp /\ old.start % 2 = 0
      /\ \A g \in Field \ old.left : /\ old.stats[g] <= priv[g]
                                     /\ \E w \in window[r] : w[g] <= old.stats[g]
      /\ build = "32bit" /\ old.start = syncp =>
            \A g \in Field \ old.left : old.stats[g] = total[g]
  BY <1>2 DEF IInv, Copies, Reading
<1>9. total[f] <= priv[f]
  <2>1. CASE at = "update"
    <3>1. Amount(f) \in Nat
      BY <1>3, <2>1, AmountIsNat DEF IInv, Xmit
    <3> QED
      BY <1>3, <2>1, <3>1 DEF IInv, Xmit
  <2>2. CASE at # "update"
    BY <1>3, <2>2 DEF IInv, Xmit
  <2> QED
    BY <2>1, <2>2
<1>10. build = "32bit" /\ old.start = syncp => priv[f] = total[f]
  BY <1>8, CallParts DEF IInv, Sync, Xmit
<1>11. Copies(r)'
  <2>1. \A g \in Field \ c.left : /\ c.stats[g] <= priv[g]
                                  /\ \E w \in window[r] : w[g] <= c.stats[g]
    <3> SUFFICES ASSUME NEW g \in Field \ c.left
                 PROVE  c.stats[g] <= priv[g] /\ \E w \in window[r] : w[g] <= c.stats[g]
      OBVIOUS
    <3>1. CASE g = f
      BY <1>3, <1>4, <1>8, <1>9, <3>1
    <3>2. CASE g # f
      <4>1. g \in Field \ old.left /\ c.stats[g] = old.stats[g]
        BY <1>4, <3>2
      <4> QED
        BY <1>8, <4>1
    <3> QED
      BY <3>1, <3>2
  <2>2. build = "32bit" /\ c.start = syncp => \A g \in Field \ c.left : c.stats[g] = total[g]
    BY <1>4, <1>8, <1>10
  <2>3. /\ c.at \in {"read", "retry"} /\ c.start = old.start
        /\ c.at = "read" => c.left # {}
        /\ c.at = "retry" => c.left = {}
    BY <1>1
  <2> HIDE DEF c
  <2> QED
    BY <1>6, <1>7, <1>8, <2>1, <2>2, <2>3 DEF Copies, Reading, Idle
<1>12. window' = [window EXCEPT ![r] = window[r]] /\ window[r] \in SUBSET Stats
  BY <1>2, CallParts DEF IInv, TypeOK
<1> QED
  BY <1>1, <1>2, <1>5, <1>11, <1>12, OneReader

(* Four copies made while the sequence counter stood still are the total.   *)
LEMMA FetchRetryKeepsIInv ==
    ASSUME IInv, NEW r \in Reader, FetchRetry(r)
    PROVE  IInv'
<1> DEFINE old == call[r]
           c == [at |-> IF syncp = old.start THEN "done" ELSE "fetch", start |-> old.start,
                 left |-> old.left, stats |-> old.stats]
<1>1. /\ old.at = "retry" /\ UNCHANGED <<build, queue, xmit, window>>
      /\ call' = [call EXCEPT ![r] = c]
  BY DEF FetchRetry
<1>2. c \in CallType
  BY CallParts DEF CallType
<1>3. /\ call'[r] = c /\ window' = [window EXCEPT ![r] = window[r]]
      /\ window[r] \in SUBSET Stats
  BY <1>1, CallParts DEF IInv, TypeOK
<1>4. UNCHANGED <<build, priv, total, syncp, window>>
  BY <1>1 DEF xmit
<1>5. /\ total \in window[r] /\ old.left = {}
      /\ \A g \in Field : /\ old.stats[g] <= priv[g]
                          /\ \E w \in window[r] : w[g] <= old.stats[g]
      /\ build = "32bit" /\ old.start = syncp => \A g \in Field : old.stats[g] = total[g]
  BY <1>1 DEF IInv, Copies, Reading
<1>6. build = "32bit" /\ old.start = syncp => old.stats = total
  BY <1>5, CallParts DEF Stats
<1>7. Copies(r)'
  <2>1. /\ c.at \in {"done", "fetch"} /\ c.left = {} /\ c.stats = old.stats
        /\ c.at = "done" => old.start = syncp
    BY <1>5
  <2> HIDE DEF c
  <2> QED
    BY <1>3, <1>4, <1>5, <1>6, <2>1 DEF Copies, Reading, Idle
<1> QED
  BY <1>1, <1>2, <1>3, <1>7, OneReader

(* vnetloop_get_stats64 returns.                                            *)
LEMMA StatsReturnsKeepsIInv ==
    ASSUME IInv, NEW r \in Reader, StatsReturns(r)
    PROVE  IInv'
<1>1. Idle \in CallType /\ {} \in SUBSET Stats
  BY DEF CallType, Zero, Stats, Idle
<1>2. /\ call' = [call EXCEPT ![r] = Idle] /\ window' = [window EXCEPT ![r] = {}]
      /\ UNCHANGED <<build, queue, xmit>>
  BY DEF StatsReturns
<1>3. call'[r] = Idle
  BY <1>2 DEF IInv, TypeOK
<1>4. Copies(r)'
  BY <1>3 DEF Copies, Reading, Idle
<1> QED
  BY <1>1, <1>2, <1>4, OneReader

-----------------------------------------------------------------------------
(* Every step of the specification keeps the invariant.                     *)
LEMMA Inductive == IInv /\ [Next]_vars => IInv'
<1> SUFFICES ASSUME IInv, [Next]_vars PROVE IInv'
  OBVIOUS
<1>1. CASE vnetloop_open \/ vnetloop_stop
  BY <1>1, OpenStopKeepIInv
<1>2. CASE vnetloop_xmit
  BY <1>2, XmitKeepsIInv
<1>3. CASE Send
  BY <1>3, UpdateBeginKeepsIInv, UpdateFieldKeepsIInv, UpdateEndKeepsIInv,
     NetifRxKeepsIInv, FreeSkbKeepsIInv DEF Send
<1>4. CASE \E r \in Reader : vnetloop_get_stats64(r) \/ GetStats(r)
  BY <1>4, GetStats64KeepsIInv, FetchBeginKeepsIInv, ReadFieldKeepsIInv,
     FetchRetryKeepsIInv, StatsReturnsKeepsIInv DEF GetStats
<1>5. CASE UNCHANGED vars
  <2>1. TypeOK'
    BY <1>5 DEF IInv, TypeOK, vars
  <2>2. (Xmit /\ Sync /\ Sums)'
    BY <1>5 DEF IInv, Xmit, Sync, Sums, Counted, Amount, vars
  <2>3. (\A r \in Reader : Copies(r))'
    BY <1>5 DEF IInv, Copies, Reading, vars
  <2> QED
    BY <2>1, <2>2, <2>3 DEF IInv
<1> QED
  BY <1>1, <1>2, <1>3, <1>4, <1>5 DEF Next

(* A reader of the statistics gets, in the build with the sequence counter, *)
(* four values that the counters had together during its call, and in both  *)
(* builds values that are neither older than its call nor ahead of the      *)
(* counters, however its copying interleaves with vnetloop_xmit.            *)
THEOREM ReadersGetOneMoment == Spec => []StatsAreConsistent
<1>1. IInv => StatsAreConsistent
  <2> SUFFICES ASSUME IInv, NEW r \in Reader, call[r].at = "done"
               PROVE  /\ build = "32bit" => call[r].stats \in window[r]
                      /\ \A f \in Field : /\ call[r].stats[f] <= priv[f]
                                          /\ \E w \in window[r] : w[f] <= call[r].stats[f]
    BY DEF StatsAreConsistent
  <2>1. Copies(r)
    BY DEF IInv
  <2> QED
    BY <2>1 DEF Copies
<1> QED
  BY <1>1, InitIInv, Inductive, PTL DEF Spec

(* Between packets the counters of vnetloop_priv agree with the packets     *)
(* freed and delivered, for any packets and any failures of skb_copy.       *)
THEOREM CountersAgree == Spec => []CountersAddUp
<1>1. IInv => CountersAddUp
  <2> SUFFICES ASSUME IInv PROVE CountersAddUp
    OBVIOUS
  <2>1. TypeOK
    BY DEF IInv
  <2>2. at = "idle" => priv = total
    BY DEF IInv, Xmit
  <2>3. at = "idle" =>
          /\ total["tx_packets"] = freed /\ total["rx_packets"] = delivered
          /\ total["rx_bytes"] + ETH_HLEN * total["rx_packets"] <= total["tx_bytes"]
          /\ delivered = freed =>
                total["rx_bytes"] + ETH_HLEN * total["rx_packets"] = total["tx_bytes"]
    BY DEF IInv, Sums
  <2> QED
    BY <2>1, <2>2, <2>3 DEF CountersAddUp
<1> QED
  BY <1>1, InitIInv, Inductive, PTL DEF Spec
=============================================================================
