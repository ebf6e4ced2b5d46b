------------------------------ MODULE VnetLoop ------------------------------
(***************************************************************************)
(* examples/vnetloop.c: a network device that hands every packet sent       *)
(* through it back to the receive path, and the counters that               *)
(* vnetloop_get_stats64 reads while packets are being sent.  The device has *)
(* one queue, whose lock the core holds around vnetloop_xmit.               *)
(*                                                                          *)
(* u64_stats_sync (external) is a sequence counter in the 32-bit build and  *)
(* nothing at all in the 64-bit build.  Between its barriers the compiler   *)
(* and the processor may reorder the loads and stores of the counters.      *)
(***************************************************************************)
EXTENDS Naturals, FiniteSets

CONSTANTS
    Reader,          \* threads that ask for the statistics
    Lens,            \* lengths of packets, with their header
    ETH_HLEN,        \* the length of the header
    MaxPackets       \* bound: packets sent

ASSUME VnetLoopAssumption ==
    /\ ETH_HLEN \in Nat
    /\ \A len \in Lens : len \in Nat /\ len >= ETH_HLEN
    /\ MaxPackets \in Nat

VARIABLES
    build,           \* "32bit" or "64bit"
    queue,           \* the interface is up and its queue started
    priv,            \* struct vnetloop_priv: the counters
    syncp,           \* its sequence counter; odd: an update is under way
    at,              \* where vnetloop_xmit is
    len,             \* the length of its packet
    copied,          \* skb_copy succeeded
    todo,            \* the counters it has still to update
    call,            \* the vnetloop_get_stats64 of each reader
    delivered,       \* packets handed to netif_rx
    freed,           \* packets freed by vnetloop_xmit
    total,           \* the counters after the last complete update
    window           \* the values of total since each reader's call began

vars == <<build, queue, priv, syncp, at, len, copied, todo, call, delivered, freed,
          total, window>>

Field == {"tx_packets", "tx_bytes", "rx_packets", "rx_bytes"}
Zero  == [f \in Field |-> 0]
Stats == [Field -> Nat]

Idle == [at |-> "idle", start |-> 0, left |-> {}, stats |-> Zero]

TypeOK ==
    /\ build \in {"32bit", "64bit"}
    /\ queue \in BOOLEAN
    /\ priv \in Stats /\ total \in Stats
    /\ syncp \in Nat
    /\ at \in {"idle", "begin", "update", "rx", "free"}
    /\ len \in Lens \cup {0}
    /\ copied \in BOOLEAN
    /\ todo \subseteq Field
    /\ call \in [Reader -> [at : {"idle", "fetch", "read", "retry", "done"},
                            start : Nat, left : SUBSET Field, stats : Stats]]
    /\ delivered \in 0 .. MaxPackets /\ freed \in 0 .. MaxPackets
    /\ window \in [Reader -> SUBSET Stats]

Init ==
    /\ build \in {"32bit", "64bit"}
    /\ queue = FALSE
    /\ priv = Zero /\ total = Zero
    /\ syncp = 0
    /\ at = "idle" /\ len = 0 /\ copied = FALSE /\ todo = {}
    /\ call = [r \in Reader |-> Idle]
    /\ delivered = 0 /\ freed = 0
    /\ window = [r \in Reader |-> {}]

readers == <<call, window>>
xmit    == <<at, len, copied, todo, delivered, freed, priv, syncp, total>>

-----------------------------------------------------------------------------
vnetloop_open ==
    /\ ~queue
    /\ queue' = TRUE
    /\ UNCHANGED <<build, xmit, readers>>

(* The core deactivates the queue and waits for the packet under way before *)
(* it calls vnetloop_stop.                                                  *)
vnetloop_stop ==
    /\ queue /\ at = "idle"
    /\ queue' = FALSE
    /\ UNCHANGED <<build, xmit, readers>>

-----------------------------------------------------------------------------
(* vnetloop_xmit                                                            *)

(* skb_copy may fail; then only the transmit counters will be updated.      *)
vnetloop_xmit ==
    /\ queue /\ at = "idle" /\ freed < MaxPackets
    /\ at' = "begin"
    /\ len' \in Lens
    /\ copied' \in BOOLEAN
    /\ todo' = IF copied' THEN Field ELSE {"tx_packets", "tx_bytes"}
    /\ UNCHANGED <<build, queue, delivered, freed, priv, syncp, total, readers>>

UpdateBegin ==
    /\ at = "begin" /\ at' = "update"
    /\ syncp' = IF build = "32bit" THEN syncp + 1 ELSE syncp
    /\ UNCHANGED <<build, queue, len, copied, todo, delivered, freed, priv, total, readers>>

(* Mutant: the received bytes count the header, which eth_type_trans has    *)
(* taken off.                                                               *)
AmountWithHeader(f) ==
    CASE f \in {"tx_packets", "rx_packets"} -> 1
      [] f \in {"tx_bytes", "rx_bytes"}     -> len

Amount(f) ==
    CASE f \in {"tx_packets", "rx_packets"} -> 1
      [] f = "tx_bytes"                     -> len
      [] f = "rx_bytes"                     -> len - ETH_HLEN

UpdateField ==
    /\ at = "update"
    /\ \E f \in todo : priv' = [priv EXCEPT ![f] = @ + Amount(f)] /\ todo' = todo \ {f}
    /\ UNCHANGED <<build, queue, at, len, copied, delivered, freed, syncp, total, readers>>

UpdateEnd ==
    /\ at = "update" /\ todo = {}
    /\ at' = IF copied THEN "rx" ELSE "free"
    /\ syncp' = IF build = "32bit" THEN syncp + 1 ELSE syncp
    /\ total' = priv
    /\ window' = [r \in Reader |-> IF call[r] = Idle THEN {} ELSE window[r] \cup {priv}]
    /\ UNCHANGED <<build, queue, len, copied, todo, delivered, freed, priv, call>>

netif_rx ==
    /\ at = "rx" /\ at' = "free"
    /\ delivered' = delivered + 1
    /\ UNCHANGED <<build, queue, len, copied, todo, freed, priv, syncp, total, readers>>

FreeSkb ==
    /\ at = "free" /\ at' = "idle"
    /\ freed' = freed + 1
    /\ len' = 0 /\ copied' = FALSE
    /\ UNCHANGED <<build, queue, todo, delivered, priv, syncp, total, readers>>

-----------------------------------------------------------------------------
(* vnetloop_get_stats64                                                     *)

vnetloop_get_stats64(r) ==
    /\ call[r] = Idle
    /\ call' = [call EXCEPT ![r] = [at |-> "fetch", start |-> 0, left |-> {}, stats |-> Zero]]
    /\ window' = [window EXCEPT ![r] = {total}]
    /\ UNCHANGED <<build, queue, xmit>>

(* u64_stats_fetch_begin waits for the end of an update.                    *)
FetchBegin(r) ==
    /\ call[r].at = "fetch"
    /\ syncp % 2 = 0
    /\ call' = [call EXCEPT ![r] = [at |-> "read", start |-> syncp, left |-> Field,
                                    stats |-> @.stats]]
    /\ UNCHANGED <<build, queue, xmit, window>>

ReadField(r) ==
    /\ call[r].at = "read"
    /\ \E f \in call[r].left :
          call' = [call EXCEPT ![r] = [at |-> IF @.left = {f} THEN "retry" ELSE "read",
                                       start |-> @.start, left |-> @.left \ {f},
                                       stats |-> [@.stats EXCEPT ![f] = priv[f]]]]
    /\ UNCHANGED <<build, queue, xmit, window>>

(* Mutant: fetched once, right or wrong.                                    *)
FetchRetryNot(r) ==
    /\ call[r].at = "retry"
    /\ call' = [call EXCEPT ![r] = [at |-> "done", start |-> @.start, left |-> @.left,
                                    stats |-> @.stats]]
    /\ UNCHANGED <<build, queue, xmit, window>>

(* u64_stats_fetch_retry.                                                   *)
FetchRetry(r) ==
    /\ call[r].at = "retry"
    /\ call' = [call EXCEPT ![r] = [at |-> IF syncp = @.start THEN "done" ELSE "fetch",
                                    start |-> @.start, left |-> @.left, stats |-> @.stats]]
    /\ UNCHANGED <<build, queue, xmit, window>>

StatsReturns(r) ==
    /\ call[r].at = "done"
    /\ call' = [call EXCEPT ![r] = Idle]
    /\ window' = [window EXCEPT ![r] = {}]
    /\ UNCHANGED <<build, queue, xmit>>

Send == UpdateBegin \/ UpdateField \/ UpdateEnd \/ netif_rx \/ FreeSkb

GetStats(r) == FetchBegin(r) \/ ReadField(r) \/ FetchRetry(r) \/ StatsReturns(r)

Next ==
    \/ vnetloop_open \/ vnetloop_stop \/ vnetloop_xmit \/ Send
    \/ \E r \in Reader : vnetloop_get_stats64(r) \/ GetStats(r)

Spec == Init /\ [][Next]_vars

-----------------------------------------------------------------------------
(* Properties                                                               *)

(* In the build with the sequence counter, the four values a reader gets    *)
(* are values that the counters had together, after some whole number of    *)
(* packets and at some moment of the reader's call.  In both builds each    *)
(* value is current: at least what the counter was after the last packet    *)
(* sent before the call, and at most what it is now.                        *)
StatsAreConsistent ==
    \A r \in Reader : call[r].at = "done" =>
        /\ build = "32bit" => call[r].stats \in window[r]
        /\ \A f \in Field : /\ call[r].stats[f] <= priv[f]
                            /\ \E w \in window[r] : w[f] <= call[r].stats[f]

(* Between packets the counters agree with what has happened: every packet  *)
(* was counted and freed, those received were delivered, and a packet       *)
(* received is a header shorter than it was when sent.                      *)
CountersAddUp ==
    /\ TypeOK
    /\ at = "idle" =>
          /\ priv = total
          /\ priv["tx_packets"] = freed /\ priv["rx_packets"] = delivered
          /\ priv["rx_bytes"] + ETH_HLEN * priv["rx_packets"] <= priv["tx_bytes"]
          /\ delivered = freed =>
                priv["rx_bytes"] + ETH_HLEN * priv["rx_packets"] = priv["tx_bytes"]

=============================================================================
