--------------------------- MODULE Chardev2Proofs ---------------------------
(***************************************************************************)
(* chardev2.c for any number of processes, any buffer size and any strings: *)
(* no interleaving of read, write and ioctl calls leaves message[] unless   *)
(* the caller names a place behind it, one process at a time is in an       *)
(* ioctl, and what a client fetches is the message that was set last,       *)
(* whole, unless a write() has interfered.                                  *)
(***************************************************************************)
EXTENDS Chardev2, TLAPS

(* What the indices of a process p are worth at each point of its handler.  *)
(* A read that starts inside message[] stays inside: "put" is reached only  *)
(* from a byte that is not the NUL at BUF_LEN, and stays below it although  *)
(* the byte may have changed since; likewise for a client that has fetched  *)
(* a byte other than NUL.                                                   *)
Indices(p) ==
    /\ at[p] = "write" => frame[p].pos <= BUF_LEN
    /\ at[p] \in {"out", "call"} => frame[p].pos = 0
    /\ frame[p].by # "pread" => frame[p].start <= BUF_LEN
    /\ at[p] = "put" => frame[p].left > 0
    /\ at[p] = "put" /\ frame[p].start <= BUF_LEN => frame[p].pos < BUF_LEN
    /\ at[p] = "test" /\ frame[p].start <= BUF_LEN => frame[p].pos <= BUF_LEN
    /\ at[p] \in {"put", "test"} => frame[p].pos = frame[p].start + Len(frame[p].out)
    /\ at[p] \notin {"put", "test", "leave"} => frame[p].out = <<>>
    /\ p \in Client => n[p] <= BUF_LEN
    /\ p \in Client /\ at[p] \in {"write", "eof", "put", "test"} => call[p] # "GET_NTH_BYTE"
    /\ p \in Client /\ at[p] = "leave" /\ call[p] = "GET_NTH_BYTE" /\ frame[p].seen # 0 =>
          n[p] < BUF_LEN

(* The inductive invariant: NeverPastTheEnd alone is not inductive, since   *)
(* it does not know that a "put" follows a test.                            *)
IInv == TypeOK /\ message[BUF_LEN] = 0 /\ \A p \in Proc : Indices(p)

-----------------------------------------------------------------------------
(* get_user delivers a byte of the string or its NUL.                        *)
LEMMA ByteAtType ==
    ASSUME NEW s \in Strings \cup {<<>>}, NEW i \in Nat
    PROVE  ByteAt(s, i) \in Bytes
<1>1. CASE s \in Strings /\ i < Len(s)
  <2>1. s \in Seq(Nat \ {0})
    BY <1>1, Chardev2Assumption
  <2>2. i + 1 \in DOMAIN s
    BY <1>1, <2>1
  <2> QED
    BY <1>1, <2>2 DEF ByteAt, Bytes
<1>2. CASE s = <<>>
  BY <1>2 DEF ByteAt, Bytes
<1> QED
  BY <1>1, <1>2 DEF ByteAt, Bytes

-----------------------------------------------------------------------------
(* The updates that the handlers make keep a frame a frame.                  *)

(* An idle process has a frame.                                              *)
LEMMA NoFrameType == NoFrame \in Frame
<1>1. 0 \in Bytes /\ <<>> \in Seq(Bytes)
  BY DEF Bytes
<1> QED
  BY <1>1, Chardev2Assumption DEF NoFrame, Frame

(* device_write and the entry of device_read and device_ioctl.               *)
LEMMA SetPosLeft ==
    ASSUME NEW f \in Frame, NEW x \in Nat, NEW l \in Nat
    PROVE  /\ [f EXCEPT !.pos = x, !.left = l] \in Frame
           /\ [f EXCEPT !.pos = x] \in Frame
           /\ [f EXCEPT !.left = l] \in Frame
BY DEF Frame

(* The test of device_read and IOCTL_GET_NTH_BYTE.                           *)
LEMMA SetSeen ==
    ASSUME NEW f \in Frame, NEW b \in Bytes
    PROVE  [f EXCEPT !.seen = b] \in Frame
BY DEF Frame

(* put_user of device_read.                                                  *)
LEMMA SetOut ==
    ASSUME NEW f \in Frame, NEW z \in Seq(Bytes), NEW x \in Nat, NEW l \in Nat
    PROVE  [f EXCEPT !.out = z, !.pos = x, !.left = l] \in Frame
BY DEF Frame

(* A system call passes a string.                                            *)
LEMMA SetArg ==
    ASSUME NEW f \in Frame, NEW s \in Strings, NEW l \in Nat
    PROVE  /\ [f EXCEPT !.arg = s] \in Frame
           /\ [f EXCEPT !.arg = s, !.left = l] \in Frame
BY DEF Frame

(* read() and pread() pass a length and an offset.                           *)
LEMMA SetRead ==
    ASSUME NEW f \in Frame, NEW l \in Nat, NEW c \in {"read", "pread"}, NEW o \in Nat
    PROVE  [f EXCEPT !.left = l, !.by = c, !.start = o] \in Frame
BY DEF Frame

(* A load gives a byte; inside message[] it is the one that stands there.    *)
LEMMA PeekType ==
    ASSUME TypeOK, NEW i \in Nat
    PROVE  /\ Peek(i) \subseteq Bytes
           /\ i <= BUF_LEN => Peek(i) = {message[i]}
BY Chardev2Assumption DEF TypeOK, Peek

-----------------------------------------------------------------------------
(* device_write: the loop stops at BUF_LEN, so that the last byte of         *)
(* message[] is never written.                                               *)
LEMMA WriteByteKeeps ==
    ASSUME IInv, NEW p \in Proc, WriteByte(p)
    PROVE  IInv'
<1> DEFINE g == frame[p]
           i == g.pos + 1
           l == g.left - 1
           h == [g EXCEPT !.pos = i, !.left = l]
<1>0. g \in Frame /\ BUF_LEN \in Nat
  BY Chardev2Assumption DEF IInv, TypeOK
<1>1. g.pos < BUF_LEN /\ g.left > 0 /\ at[p] = "write"
  BY DEF WriteByte, Goes
<1>2. i \in Nat /\ i <= BUF_LEN /\ l \in Nat
  BY <1>0, <1>1 DEF Frame
<1>3. h \in Frame
  <2> HIDE DEF g, i, l
  <2> QED
    BY <1>0, <1>2, SetPosLeft
<1>4. frame' = [frame EXCEPT ![p] = h]
  BY DEF TypeOK, WriteByte, IInv
<1>5. h.out = <<>> /\ h.pos = i /\ h.by = g.by /\ h.start = g.start
  BY <1>0, <1>1 DEF Frame, IInv, Indices
<1>6. message' \in [0 .. BUF_LEN -> Bytes] /\ message'[BUF_LEN] = 0
  <2>1. ByteAt(g.arg, g.pos) \in Bytes
    <3>1. g.arg \in Strings \cup {<<>>} /\ g.pos \in Nat
      BY <1>0 DEF Frame
    <3> HIDE DEF g
    <3> QED
      BY <3>1, ByteAtType
  <2>2. message' = [message EXCEPT ![g.pos] = ByteAt(g.arg, g.pos)]
    BY DEF WriteByte
  <2>3. g.pos \in 0 .. BUF_LEN /\ g.pos # BUF_LEN
    BY <1>0, <1>1 DEF Frame
  <2> QED
    BY <2>1, <2>2, <2>3, <1>0 DEF IInv, TypeOK
<1>7. /\ at' = [at EXCEPT ![p] = "write"] /\ UNCHANGED <<already_open, call, offset, n>>
      /\ latest' \in {Mixed, latest}
  BY DEF WriteByte, Goes
<1> HIDE DEF h, i
<1> QED
  BY <1>1, <1>2, <1>3, <1>4, <1>5, <1>6, <1>7 DEF IInv, TypeOK, Indices, At, Inside

(* The return of device_write or device_read, with the offset o it leaves.   *)
LEMMA ReturnsKeeps ==
    ASSUME IInv, NEW p \in Proc, NEW from \in {"write", "eof", "test"}, Returns(p, from),
           NEW o \in 0 .. BUF_LEN, offset' = [offset EXCEPT ![p] = o],
           UNCHANGED <<already_open, message, call, n, latest>>
    PROVE  IInv'
<1>1. CASE p \in Client
  <2>1. at[p] = from /\ at' = [at EXCEPT ![p] = "leave"] /\ frame' = frame
    BY <1>1 DEF Returns, Goes
  <2> QED
    BY <1>1, <2>1 DEF IInv, TypeOK, Indices, At, Inside
<1>2. CASE p \notin Client
  <2>1. at' = [at EXCEPT ![p] = "out"] /\ frame' = [frame EXCEPT ![p] = NoFrame]
    BY <1>2 DEF Returns, Goes, Set
  <2>2. NoFrame.out = <<>> /\ NoFrame.pos = 0 /\ NoFrame.start = 0 /\ BUF_LEN \in Nat
    BY Chardev2Assumption DEF NoFrame
  <2> QED
    BY <1>2, <2>1, <2>2, NoFrameType DEF IInv, TypeOK, Indices, At, Inside
<1> QED
  BY <1>1, <1>2

(* The returns of the two handlers: f_pos ends up where the message pointer  *)
(* of read() was, or stays.                                                  *)
LEMMA WriteOrReadReturnsKeeps ==
    ASSUME IInv, NEW p \in Proc, WriteReturns(p) \/ ReadReturns(p)
    PROVE  IInv'
<1>0. offset[p] \in 0 .. BUF_LEN /\ offset = [offset EXCEPT ![p] = offset[p]]
  BY DEF IInv, TypeOK
<1>1. CASE WriteReturns(p)
  BY <1>0, <1>1, ReturnsKeeps DEF WriteReturns
<1>2. CASE ReadReturns(p) /\ frame[p].by # "read"
  BY <1>0, <1>2, ReturnsKeeps DEF ReadReturns, Position
<1>3. CASE ReadReturns(p) /\ frame[p].by = "read"
  <2>1. /\ at[p] = "test" /\ frame[p] \in Frame
        /\ offset' = [offset EXCEPT ![p] = frame[p].start + Len(frame[p].out)]
    BY <1>3 DEF ReadReturns, Returns, Goes, IInv, TypeOK, Position, Set
  <2>2. frame[p].pos = frame[p].start + Len(frame[p].out) /\ frame[p].pos <= BUF_LEN
    BY <1>3, <2>1 DEF IInv, Indices
  <2>3. frame[p].pos \in 0 .. BUF_LEN
    BY <2>1, <2>2, Chardev2Assumption DEF Frame
  <2>4. offset' = [offset EXCEPT ![p] = frame[p].pos]
    BY <2>1, <2>2
  <2> QED
    BY <1>3, <2>3, <2>4, ReturnsKeeps DEF ReadReturns
<1> QED
  BY <1>1, <1>2, <1>3

(* The first test of device_read.                                            *)
LEMMA ReadEofKeeps ==
    ASSUME IInv, NEW p \in Proc, ReadEof(p)
    PROVE  IInv'
<1> DEFINE h == [frame[p] EXCEPT !.pos = frame[p].start]
<1>0. /\ frame[p] \in Frame /\ offset[p] \in 0 .. BUF_LEN /\ 0 \in 0 .. BUF_LEN
      /\ frame[p].start \in Nat /\ BUF_LEN \in Nat /\ message[BUF_LEN] = 0 /\ TypeOK
      /\ UNCHANGED <<already_open, message, call, n, latest>>
      /\ offset = [offset EXCEPT ![p] = offset[p]]
  BY Chardev2Assumption DEF ReadEof, IInv, TypeOK, Frame
<1>1. PICK b \in Peek(frame[p].start) :
         IF b = 0 THEN Returns(p, "eof") /\ Position(p, 0)
         ELSE /\ Goes(p, "eof", "test") /\ UNCHANGED offset
              /\ frame' = [frame EXCEPT ![p].pos = frame[p].start]
  BY DEF ReadEof
<1>2. CASE b = 0
  <2>1. CASE frame[p].by = "read"
    BY <1>0, <1>1, <1>2, <2>1, ReturnsKeeps DEF Position, Set
  <2>2. CASE frame[p].by # "read"
    BY <1>0, <1>1, <1>2, <2>2, ReturnsKeeps DEF Position
  <2> QED
    BY <2>1, <2>2
<1>3. CASE b # 0
  <2>1. /\ at[p] = "eof" /\ at' = [at EXCEPT ![p] = "test"]
        /\ frame' = [frame EXCEPT ![p] = h] /\ offset' = offset
    BY <1>1, <1>3 DEF Goes, IInv, TypeOK
  <2>2. h \in Frame
    BY <1>0, SetPosLeft
  <2>3. frame[p].out = <<>>
    BY <2>1 DEF IInv, Indices
  <2>4. h.pos = h.start /\ h.out = <<>> /\ h.by = frame[p].by /\ h.start = frame[p].start
    BY <1>0, <2>3 DEF Frame
  <2> HIDE DEF h
  <2>5. h.pos = h.start + Len(h.out)
    BY <1>0, <2>4
  <2> QED
    BY <1>0, <2>1, <2>2, <2>4, <2>5 DEF IInv, TypeOK, Indices, At, Inside
<1> QED
  BY <1>2, <1>3

(* The test of the loop of device_read: a byte that is not NUL stands before *)
(* the last byte of message[], or behind it.                                 *)
LEMMA ReadTestKeeps ==
    ASSUME IInv, NEW p \in Proc, ReadTest(p)
    PROVE  IInv'
<1>1. frame[p] \in Frame /\ frame[p].pos \in Nat /\ frame[p].left \in Nat /\ TypeOK
  BY DEF IInv, TypeOK, Frame
<1>2. /\ at[p] = "test" /\ at' = [at EXCEPT ![p] = "put"]
      /\ frame[p].left > 0
      /\ UNCHANGED <<already_open, message, call, offset, n, latest>>
  BY DEF ReadTest, Goes
<1>3. PICK b \in Peek(frame[p].pos) \ {0} : frame' = [frame EXCEPT ![p].seen = b]
  BY DEF ReadTest
<1> DEFINE h == [frame[p] EXCEPT !.seen = b]
<1>4. b \in Bytes
  BY <1>1, <1>3, PeekType
<1>5. frame' = [frame EXCEPT ![p] = h]
  BY <1>3 DEF IInv, TypeOK
<1>6. h \in Frame
  BY <1>1, <1>4, SetSeen
<1>7. /\ h.pos = frame[p].pos /\ h.left = frame[p].left /\ h.out = frame[p].out
      /\ h.start = frame[p].start /\ h.by = frame[p].by
  BY <1>1 DEF Frame
<1>8. frame[p].start <= BUF_LEN => frame[p].pos < BUF_LEN
  <2>1. frame[p].pos = BUF_LEN => b = 0
    BY <1>1, <1>3, PeekType DEF IInv
  <2>2. frame[p].start <= BUF_LEN => frame[p].pos <= BUF_LEN
    BY <1>2 DEF IInv, Indices
  <2> QED
    BY <1>1, <1>3, <2>1, <2>2, Chardev2Assumption
<1> HIDE DEF h
<1> QED
  BY <1>2, <1>5, <1>6, <1>7, <1>8 DEF IInv, TypeOK, Indices, At, Inside

(* put_user: the byte may be a NUL by now, the index is still where it was.  *)
LEMMA ReadPutKeeps ==
    ASSUME IInv, NEW p \in Proc, ReadPut(p)
    PROVE  IInv'
<1> DEFINE g == frame[p]
           x == g.pos + 1
           l == g.left - 1
<1>1. /\ at[p] = "put" /\ at' = [at EXCEPT ![p] = "test"]
      /\ UNCHANGED <<already_open, message, call, offset, n, latest>>
  BY DEF ReadPut, Goes
<1>2. g \in Frame /\ g.pos \in Nat /\ g.seen \in Bytes /\ g.out \in Seq(Bytes) /\ g.start \in Nat /\ TypeOK
  BY DEF IInv, TypeOK, Frame
<1>3. x \in Nat /\ l \in Nat /\ (g.start <= BUF_LEN => x <= BUF_LEN)
  BY <1>1, <1>2, Chardev2Assumption DEF IInv, Indices, Frame
<1>4. PICK b \in {g.seen} \cup Peek(g.pos) :
         frame' = [frame EXCEPT ![p].out = Append(@, b), ![p].pos = @ + 1, ![p].left = @ - 1]
  BY Zenon DEF ReadPut
<1> DEFINE z == Append(g.out, b)
           h == [g EXCEPT !.out = z, !.pos = x, !.left = l]
<1>5. b \in Bytes
  BY <1>2, <1>4, PeekType
<1>6. z \in Seq(Bytes) /\ Len(z) = Len(g.out) + 1 /\ Len(g.out) \in Nat
  BY <1>2, <1>5
<1>7. x = g.start + Len(z)
  <2>1. g.pos = g.start + Len(g.out)
    BY <1>1 DEF IInv, Indices
  <2> HIDE DEF g, z
  <2> QED
    BY <1>2, <1>6, <2>1
<1> HIDE DEF x, l, z
<1>8. h \in Frame
  BY <1>2, <1>3, <1>6, SetOut
<1>9. h.pos = x /\ h.out = z /\ h.start = g.start /\ h.by = g.by
  BY <1>2 DEF Frame
<1>10. frame' = [frame EXCEPT ![p] = h]
  BY <1>4 DEF IInv, TypeOK, x, l, z
<1> HIDE DEF h
<1> QED
  BY <1>1, <1>3, <1>7, <1>8, <1>9, <1>10 DEF IInv, TypeOK, Indices, At, Inside

(* IOCTL_GET_NTH_BYTE: a byte other than NUL has a successor in the array.   *)
LEMMA NthByteKeeps ==
    ASSUME IInv, NEW p \in Proc, NthByte(p)
    PROVE  IInv'
<1>1. frame[p] \in Frame /\ n[p] \in Nat /\ TypeOK
  BY DEF IInv, TypeOK
<1>2. /\ at[p] = "nth" /\ at' = [at EXCEPT ![p] = "leave"]
      /\ UNCHANGED <<already_open, message, call, offset, n, latest>>
  BY DEF NthByte, Goes
<1>3. PICK b \in Peek(n[p]) : frame' = [frame EXCEPT ![p].seen = b]
  BY DEF NthByte
<1> DEFINE h == [frame[p] EXCEPT !.seen = b]
<1>4. frame' = [frame EXCEPT ![p] = h]
  BY <1>3 DEF IInv, TypeOK
<1>5. b \in Bytes
  BY <1>1, <1>3, PeekType
<1>6. h \in Frame /\ h.seen = b /\ h.start = frame[p].start /\ h.by = frame[p].by
  BY <1>1, <1>5, SetSeen DEF Frame
<1>7. p \in Client /\ b # 0 => n[p] < BUF_LEN
  <2>1. n[p] = BUF_LEN => b = 0
    BY <1>1, <1>3, PeekType DEF IInv
  <2> QED
    BY <1>1, <2>1, Chardev2Assumption DEF IInv, Indices
<1> HIDE DEF h
<1> QED
  BY <1>2, <1>4, <1>6, <1>7 DEF IInv, TypeOK, Indices, At, Inside

(* A process that is killed leaves everything but its own frame.             *)
LEMMA FaultKeeps ==
    ASSUME IInv, NEW p \in Proc, Fault(p)
    PROVE  IInv'
<1>1. PICK a \in {"killed", "stuck"} : at' = [at EXCEPT ![p] = a]
  BY DEF Fault, Goes
<1>2. /\ frame' = [frame EXCEPT ![p] = NoFrame]
      /\ UNCHANGED <<already_open, message, call, offset, n, latest>>
  BY DEF Fault, Set
<1>3. NoFrame.out = <<>> /\ NoFrame.pos = 0 /\ NoFrame.start = 0 /\ BUF_LEN \in Nat
  BY Chardev2Assumption DEF NoFrame
<1> QED
  BY <1>1, <1>2, <1>3, NoFrameType DEF IInv, TypeOK, Indices, At, Inside

(* The end of device_ioctl: ioctl_get_nth_byte goes on to the next byte only *)
(* from a byte that is not NUL.                                              *)
LEMMA LeaveIoctlKeeps ==
    ASSUME IInv, NEW p \in Proc, LeaveIoctl(p)
    PROVE  IInv'
<1> DEFINE done == p \notin Client \/ call[p] = "GET_MSG"
           more == call[p] = "GET_NTH_BYTE" /\ frame[p].seen # 0
           k == IF done THEN 0 ELSE IF more THEN n[p] + 1 ELSE n[p]
           a == IF done THEN "out" ELSE "call"
           c == IF done THEN FirstCall(p)
                ELSE IF call[p] = "SET_MSG" \/ more THEN "GET_NTH_BYTE" ELSE "GET_MSG"
<1>1. /\ at[p] = "leave" /\ at' = [at EXCEPT ![p] = a]
      /\ already_open' = 0 /\ UNCHANGED <<message, offset>>
      /\ frame' = [frame EXCEPT ![p] = NoFrame] /\ call' = [call EXCEPT ![p] = c]
      /\ n' = [n EXCEPT ![p] = k]
      /\ latest' \in {frame[p].arg, latest}
  BY DEF LeaveIoctl, Goes, Set, ReleaseDevice
<1>2. k \in Nat /\ (p \in Client => k <= BUF_LEN)
  <2>1. n[p] \in Nat /\ (p \in Client => n[p] <= BUF_LEN /\ (more => n[p] < BUF_LEN))
    BY <1>1 DEF IInv, TypeOK, Indices
  <2> QED
    BY <2>1, Chardev2Assumption
<1>3. latest' \in Strings \cup {<<>>, Mixed}
  BY <1>1 DEF IInv, TypeOK, Frame
<1>4. /\ a \in {"out", "call"} /\ c \in {"SET_MSG", "GET_NTH_BYTE", "GET_MSG"}
      /\ NoFrame.out = <<>> /\ NoFrame.pos = 0 /\ NoFrame.start = 0 /\ BUF_LEN \in Nat
  BY Chardev2Assumption DEF NoFrame, FirstCall
<1> HIDE DEF k, a, c
<1> QED
  BY <1>1, <1>2, <1>3, <1>4, NoFrameType DEF IInv, TypeOK, Indices, At, Inside

(* The entry of device_ioctl.                                                *)
LEMMA IoctlKeeps ==
    ASSUME IInv, NEW p \in Proc, device_ioctl(p)
    PROVE  IInv'
<1>0. /\ frame[p] \in Frame /\ UNCHANGED <<message, offset>>
      /\ latest' \in {latest, <<>>}
      /\ already_open = 0 => UNCHANGED <<call, n>>
  BY DEF device_ioctl, Switch, IInv, TypeOK
<1>1. ASSUME NEW l \in Nat, NEW a \in {"write", "eof"}, at[p] = "call",
             at' = [at EXCEPT ![p] = a], frame' = [frame EXCEPT ![p].left = l],
             call[p] # "GET_NTH_BYTE", already_open = 0, already_open' = 1
      PROVE  IInv'
  <2> DEFINE h == [frame[p] EXCEPT !.left = l]
  <2>1. h \in Frame
    <3>1. 0 \in 0 .. BUF_LEN
      BY Chardev2Assumption
    <3> QED
      BY <1>0, <1>1, <3>1, SetPosLeft
  <2>2. h.out = <<>> /\ h.pos = 0 /\ h.start = frame[p].start /\ h.by = frame[p].by /\ BUF_LEN \in Nat
    BY <1>0, <1>1, Chardev2Assumption DEF Frame, IInv, Indices
  <2>3. frame' = [frame EXCEPT ![p] = h]
    BY <1>1 DEF IInv, TypeOK
  <2>4. /\ at' = [at EXCEPT ![p] = a] /\ call[p] # "GET_NTH_BYTE" /\ already_open' = 1
        /\ UNCHANGED <<call, n>>
    BY <1>0, <1>1
  <2> HIDE DEF h
  <2> QED
    BY <1>0, <2>1, <2>2, <2>3, <2>4 DEF IInv, TypeOK, Indices, At, Inside
<1>2. CASE already_open = 0 /\ call[p] = "SET_MSG"
  <2>1. frame[p].arg \in Strings \cup {<<>>}
    BY <1>0 DEF Frame
  <2>2. SetLen(frame[p].arg) \in Nat
    <3>1. ASSUME NEW s \in Strings PROVE Len(s) \in Nat
      BY Chardev2Assumption
    <3> QED
      BY <2>1, <3>1, Chardev2Assumption DEF SetLen
  <2>3. /\ at[p] = "call" /\ at' = [at EXCEPT ![p] = "write"] /\ already_open' = 1
        /\ frame' = [frame EXCEPT ![p].left = SetLen(frame[p].arg)]
    BY <1>2 DEF device_ioctl, Switch, Goes
  <2> QED
    BY <1>1, <1>2, <2>2, <2>3
<1>3. CASE already_open = 0 /\ call[p] = "GET_MSG"
  <2>1. /\ at[p] = "call" /\ at' = [at EXCEPT ![p] = "eof"] /\ already_open' = 1
        /\ frame' = [frame EXCEPT ![p].left = GET_LEN]
    BY <1>3 DEF device_ioctl, Switch, Goes
  <2> QED
    BY <1>1, <1>3, <2>1, Chardev2Assumption
<1>4. CASE already_open = 0 /\ call[p] = "GET_NTH_BYTE"
  <2>1. /\ at[p] = "call" /\ at' = [at EXCEPT ![p] = "nth"] /\ already_open' = 1
        /\ frame' = frame
    BY <1>4 DEF device_ioctl, Switch, Goes
  <2> QED
    BY <1>0, <1>4, <2>1 DEF IInv, TypeOK, Indices, At, Inside
<1>5. CASE already_open = 1
  <2>1. /\ at' = [at EXCEPT ![p] = "out"] /\ already_open' = 1
        /\ frame' = [frame EXCEPT ![p] = NoFrame]
        /\ call' = [call EXCEPT ![p] = FirstCall(p)] /\ n' = [n EXCEPT ![p] = 0]
    BY <1>5 DEF device_ioctl, Goes, Set
  <2>2. /\ NoFrame.out = <<>> /\ NoFrame.pos = 0 /\ NoFrame.start = 0 /\ BUF_LEN \in Nat
        /\ FirstCall(p) \in {"SET_MSG", "GET_NTH_BYTE"}
    BY Chardev2Assumption DEF NoFrame, FirstCall
  <2> QED
    BY <1>0, <2>1, <2>2, NoFrameType DEF IInv, TypeOK, Indices, At, Inside
<1> QED
  BY <1>2, <1>3, <1>4, <1>5 DEF IInv, TypeOK

(* User space starts a client, a read(), a write() or an ioctl.              *)
LEMMA UserKeeps ==
    ASSUME IInv, NEW p \in Proc, ClientStart(p) \/ RawWrite(p) \/ RawRead(p) \/ RawNth(p)
    PROVE  IInv'
<1>0. /\ frame[p] \in Frame /\ at[p] = "out" /\ frame[p].out = <<>> /\ frame[p].pos = 0
      /\ frame[p].by # "pread" => frame[p].start <= BUF_LEN
  BY DEF ClientStart, RawWrite, RawRead, RawNth, Goes, IInv, TypeOK, Indices
<1>1. ASSUME NEW h \in Frame, h.out = <<>>, h.pos = 0, h.by # "pread" => h.start <= BUF_LEN,
             frame' = [frame EXCEPT ![p] = h],
             NEW a \in {"call", "write", "eof"}, at' = [at EXCEPT ![p] = a],
             a # "call" => p \in Raw,
             NEW k \in Nat, n' = [n EXCEPT ![p] = k], p \in Client => k <= BUF_LEN,
             UNCHANGED <<already_open, message, call, offset, latest>>
      PROVE  IInv'
  <2>1. (p \in Raw => p \notin Client) /\ BUF_LEN \in Nat
    BY Chardev2Assumption
  <2>3. TypeOK'
    BY <1>1 DEF IInv, TypeOK, At, Inside
  <2>4. Indices(p)'
    BY <1>1, <2>1 DEF IInv, TypeOK, Indices
  <2>5. ASSUME NEW q \in Proc, q # p PROVE Indices(q)'
    BY <1>1, <2>5 DEF IInv, TypeOK, Indices
  <2> QED
    BY <1>1, <2>3, <2>4, <2>5 DEF IInv
<1>n. n[p] \in Nat /\ n = [n EXCEPT ![p] = n[p]] /\ (p \in Client => n[p] <= BUF_LEN)
  BY DEF IInv, TypeOK, Indices
<1>2. CASE ClientStart(p)
  <2>1. PICK s \in Strings : frame' = [frame EXCEPT ![p].arg = s]
    BY <1>2 DEF ClientStart
  <2> DEFINE h == [frame[p] EXCEPT !.arg = s]
  <2>2. h \in Frame /\ h.out = <<>> /\ h.pos = 0 /\ h.by = frame[p].by /\ h.start = frame[p].start
    BY <1>0, SetArg DEF Frame
  <2>3. frame' = [frame EXCEPT ![p] = h]
    BY <2>1 DEF IInv, TypeOK
  <2>4. /\ at' = [at EXCEPT ![p] = "call"] /\ n' = n
        /\ UNCHANGED <<already_open, message, call, offset, latest>>
    BY <1>2 DEF ClientStart, Goes
  <2> HIDE DEF h
  <2> QED
    BY <1>0, <1>1, <1>n, <2>2, <2>3, <2>4
<1>3. CASE RawWrite(p)
  <2>1. PICK s \in Strings : frame' = [frame EXCEPT ![p].arg = s, ![p].left = Len(s)]
    BY <1>3 DEF RawWrite
  <2>2. Len(s) \in Nat
    BY Chardev2Assumption
  <2> DEFINE l == Len(s)
             h == [frame[p] EXCEPT !.arg = s, !.left = l]
  <2> HIDE DEF l
  <2>3. h \in Frame /\ h.out = <<>> /\ h.pos = 0 /\ h.by = frame[p].by /\ h.start = frame[p].start
    BY <1>0, <2>2, SetArg DEF Frame, l
  <2>4. frame' = [frame EXCEPT ![p] = h]
    BY <2>1 DEF IInv, TypeOK, l
  <2>5. /\ p \in Raw /\ at' = [at EXCEPT ![p] = "write"] /\ n' = n
        /\ UNCHANGED <<already_open, message, call, offset, latest>>
    BY <1>3 DEF RawWrite, Goes
  <2> HIDE DEF h
  <2> QED
    BY <1>0, <1>1, <1>n, <2>3, <2>4, <2>5
<1>4. CASE RawRead(p)
  <2>1. PICK len \in ReadLens, c \in {"read", "pread"}, o \in Nat :
           /\ frame' = [frame EXCEPT ![p].left = len, ![p].by = c, ![p].start = o]
           /\ c = "read" => o <= BUF_LEN
    <3>1. PICK len \in ReadLens :
             \/ frame' = [frame EXCEPT ![p].left = len, ![p].by = "read", ![p].start = offset[p]]
             \/ \E o \in Offsets :
                   frame' = [frame EXCEPT ![p].left = len, ![p].by = "pread", ![p].start = o]
      BY <1>4 DEF RawRead
    <3>2. offset[p] \in Nat /\ offset[p] <= BUF_LEN
      BY Chardev2Assumption DEF IInv, TypeOK
    <3>3. \A o \in Offsets : o \in Nat
      BY Chardev2Assumption
    <3> QED
      BY <3>1, <3>2, <3>3
  <2> DEFINE h == [frame[p] EXCEPT !.left = len, !.by = c, !.start = o]
  <2>2. len \in Nat
    BY Chardev2Assumption
  <2>3. h \in Frame /\ h.out = <<>> /\ h.pos = 0 /\ h.by = c /\ h.start = o
    BY <1>0, <2>2, SetRead DEF Frame
  <2>4. frame' = [frame EXCEPT ![p] = h]
    BY <2>1 DEF IInv, TypeOK
  <2>5. /\ p \in Raw /\ at' = [at EXCEPT ![p] = "eof"] /\ n' = n
        /\ UNCHANGED <<already_open, message, call, offset, latest>>
    BY <1>4 DEF RawRead, Goes
  <2>6. h.by # "pread" => h.start <= BUF_LEN
    BY <2>1, <2>3
  <2> HIDE DEF h
  <2> QED
    BY <1>1, <1>n, <2>3, <2>4, <2>5, <2>6
<1>5. CASE RawNth(p)
  <2>1. PICK k \in Nat : n' = [n EXCEPT ![p] = k]
    BY <1>5, Chardev2Assumption DEF RawNth, Set
  <2>2. /\ p \in Raw /\ at' = [at EXCEPT ![p] = "call"] /\ frame' = frame
        /\ UNCHANGED <<already_open, message, call, offset, latest>>
    BY <1>5 DEF RawNth, Goes
  <2>3. frame' = [frame EXCEPT ![p] = frame[p]] /\ p \notin Client
    BY <2>2, Chardev2Assumption DEF IInv, TypeOK
  <2> QED
    BY <1>0, <1>1, <2>1, <2>2, <2>3
<1> QED
  BY <1>2, <1>3, <1>4, <1>5

-----------------------------------------------------------------------------
(* IInv holds in every state of every behaviour of chardev2.c.               *)
LEMMA Inductive == Spec => []IInv
<1>1. Init => IInv
  <2> SUFFICES ASSUME Init PROVE IInv
    OBVIOUS
  <2>1. /\ 0 \in Bytes /\ 0 \in 0 .. BUF_LEN /\ BUF_LEN \in 0 .. BUF_LEN /\ BUF_LEN \in Nat
        /\ NoFrame.out = <<>> /\ NoFrame.pos = 0 /\ NoFrame.start = 0
        /\ \A p \in Proc : FirstCall(p) \in {"SET_MSG", "GET_NTH_BYTE", "GET_MSG"}
    BY Chardev2Assumption DEF Bytes, NoFrame, FirstCall
  <2> QED
    BY <2>1, NoFrameType DEF Init, IInv, TypeOK, Indices, At, Inside
<1>2. IInv /\ [Next]_vars => IInv'
  <2> SUFFICES ASSUME IInv, [Next]_vars PROVE IInv'
    OBVIOUS
  <2>1. CASE UNCHANGED vars
    BY <2>1 DEF vars, IInv, TypeOK, Indices
  <2>2. ASSUME NEW p \in Proc, Handler(p) PROVE IInv'
    BY <2>2, WriteByteKeeps, WriteOrReadReturnsKeeps, ReadEofKeeps, ReadTestKeeps,
       ReadPutKeeps, NthByteKeeps, FaultKeeps, LeaveIoctlKeeps DEF Handler
  <2>3. ASSUME NEW p \in Proc, device_ioctl(p) PROVE IInv'
    BY <2>3, IoctlKeeps
  <2>4. ASSUME NEW p \in Proc, ClientStart(p) \/ RawWrite(p) \/ RawRead(p) \/ RawNth(p)
        PROVE  IInv'
    BY <2>4, UserKeeps
  <2> QED
    BY <2>1, <2>2, <2>3, <2>4 DEF Next
<1> QED
  BY <1>1, <1>2, PTL DEF Spec

(* For any number of clients and of other processes, any buffer size, any    *)
(* strings and whatever parameters and offsets user space names: the last    *)
(* byte of message[] stays NUL, writes and f_pos stay in the array, the loop *)
(* of ioctl_get_nth_byte ends in it, and a read that starts in it ends in    *)
(* it; only a pread() that is started behind it reads there, and only a      *)
(* parameter that is not that loop's makes ioctl_get_nth_byte do so.         *)
THEOREM StaysInBuffer == Spec => []NeverPastTheEnd
<1>1. ASSUME IInv PROVE NeverPastTheEnd
  <2>1. ASSUME NEW p \in Proc, at[p] \in {"put", "test"}, frame[p].pos > BUF_LEN
        PROVE  frame[p].by = "pread" /\ frame[p].start > BUF_LEN
    <3>1. frame[p].start \in Nat /\ frame[p].pos \in Nat /\ BUF_LEN \in Nat
      BY <1>1, Chardev2Assumption DEF IInv, TypeOK, Frame
    <3>2. ~(frame[p].start <= BUF_LEN)
      BY <1>1, <2>1, <3>1 DEF IInv, Indices
    <3> QED
      BY <1>1, <3>1, <3>2 DEF IInv, TypeOK, Frame, Indices
  <2>2. ASSUME NEW p \in Proc
        PROVE  /\ offset[p] <= BUF_LEN
               /\ p \in Client => n[p] <= BUF_LEN
               /\ at[p] = "write" => frame[p].pos <= BUF_LEN
    BY <1>1, Chardev2Assumption DEF IInv, TypeOK, Indices
  <2> QED
    BY <1>1, <2>1, <2>2 DEF IInv, NeverPastTheEnd
<1> QED
  BY <1>1, Inductive, PTL

(* Types, and with them the bounds of the buffer positions, hold always.     *)
THEOREM TypeCorrect == Spec => []TypeOK
<1>1. IInv => TypeOK
  BY DEF IInv
<1> QED
  BY <1>1, Inductive, PTL

-----------------------------------------------------------------------------
(* already_open: the process that holds it is alone in device_ioctl.  One    *)
(* that was killed there holds it for good.                                  *)
Holding(p) == InIoctl(p) \/ at[p] = "stuck"

Exclusion ==
    /\ \A p, q \in Proc : Holding(p) /\ Holding(q) => p = q
    /\ already_open = 0 => \A p \in Proc : ~Holding(p)
    /\ \A p \in Raw : call[p] = "GET_NTH_BYTE"

(* In the handlers a client is in an ioctl.                                  *)
Busy == Inside \cup {"leave"}

(* A step of one process takes already_open, gives it back, or does neither. *)
LEMMA ExclusionMove ==
    ASSUME TypeOK, Exclusion, NEW p \in Proc, NEW a, NEW c,
           at' = [at EXCEPT ![p] = a], call' = [call EXCEPT ![p] = c],
           p \in Raw => c = "GET_NTH_BYTE",
           \/ already_open' = already_open /\ (Holding(p)' => Holding(p))
           \/ already_open = 0 /\ already_open' = 1
           \/ already_open' = 0 /\ Holding(p) /\ ~Holding(p)'
    PROVE  Exclusion'
<1>1. \A q \in Proc \ {p} : Holding(q)' <=> Holding(q)
  BY DEF TypeOK, Holding, InIoctl
<1>2. \A q \in Raw : call'[q] = "GET_NTH_BYTE"
  BY DEF TypeOK, Exclusion, Proc
<1> QED
  BY <1>1, <1>2 DEF Exclusion

(* The steps that begin a call.                                              *)
LEMMA ExclusionStarts ==
    ASSUME TypeOK, Exclusion, NEW p \in Proc,
           ClientStart(p) \/ RawWrite(p) \/ RawRead(p) \/ RawNth(p)
    PROVE  Exclusion'
<1>1. /\ at[p] = "out" /\ already_open' = already_open /\ call' = call
      /\ \/ at' = [at EXCEPT ![p] = "call"]
         \/ p \in Raw /\ at' = [at EXCEPT ![p] = "write"]
         \/ p \in Raw /\ at' = [at EXCEPT ![p] = "eof"]
  <2>1. CASE ClientStart(p)
    BY <2>1 DEF ClientStart, Goes
  <2>2. CASE RawWrite(p)
    BY <2>2 DEF RawWrite, Goes
  <2>3. CASE RawRead(p)
    BY <2>3 DEF RawRead, Goes
  <2>4. CASE RawNth(p)
    BY <2>4 DEF RawNth, Goes
  <2> QED
    BY <2>1, <2>2, <2>3, <2>4
<1>2. call' = [call EXCEPT ![p] = call[p]] /\ (p \in Raw => call[p] = "GET_NTH_BYTE")
  BY <1>1 DEF TypeOK, Exclusion
<1>3. ~Holding(p)'
  BY <1>1, Chardev2Assumption DEF TypeOK, Holding, InIoctl, Inside
<1> QED
  BY <1>1, <1>2, <1>3, ExclusionMove

(* device_ioctl: only atomic_cmpxchg takes already_open.                     *)
LEMMA ExclusionIoctl ==
    ASSUME TypeOK, Exclusion, NEW p \in Proc, device_ioctl(p)
    PROVE  Exclusion'
<1>1. p \in Raw => call[p] = "GET_NTH_BYTE" /\ FirstCall(p) = "GET_NTH_BYTE"
  BY Chardev2Assumption DEF Exclusion, FirstCall
<1>2. CASE already_open = 0
  <2>1. already_open' = 1 /\ call' = [call EXCEPT ![p] = call[p]]
    BY <1>2 DEF device_ioctl, TypeOK
  <2>2. \E a \in {"write", "eof", "nth"} : at' = [at EXCEPT ![p] = a]
    BY <1>2 DEF device_ioctl, Switch, Goes
  <2> QED
    BY <1>1, <1>2, <2>1, <2>2, ExclusionMove
<1>3. CASE already_open = 1
  <2>1. /\ already_open' = already_open /\ call' = [call EXCEPT ![p] = FirstCall(p)]
        /\ at' = [at EXCEPT ![p] = "out"]
    BY <1>3 DEF device_ioctl, Goes, Set
  <2>2. ~Holding(p)'
    BY <2>1 DEF TypeOK, Holding, InIoctl, Inside
  <2> QED
    BY <1>1, <2>1, <2>2, ExclusionMove
<1> QED
  BY <1>2, <1>3 DEF TypeOK

(* The handlers: only the end of device_ioctl gives already_open back.       *)
LEMMA ExclusionHandler ==
    ASSUME TypeOK, Exclusion, NEW p \in Proc, Handler(p)
    PROVE  Exclusion'
<1>1. p \in Raw => call[p] = "GET_NTH_BYTE" /\ FirstCall(p) = "GET_NTH_BYTE"
  BY Chardev2Assumption DEF Exclusion, FirstCall
<1>2. CASE LeaveIoctl(p)
  <2>1. PICK a \in {"out", "call"} :
           /\ at[p] = "leave" /\ at' = [at EXCEPT ![p] = a] /\ already_open' = 0
    BY <1>2 DEF LeaveIoctl, Goes, ReleaseDevice
  <2>2. PICK c : call' = [call EXCEPT ![p] = c] /\ (p \in Raw => c = "GET_NTH_BYTE")
    BY <1>1, <1>2, Chardev2Assumption DEF LeaveIoctl, Set
  <2>3. Holding(p) /\ ~Holding(p)'
    BY <2>1 DEF TypeOK, Holding, InIoctl, Inside
  <2> QED
    BY <2>1, <2>2, <2>3, ExclusionMove
<1>3. CASE ~LeaveIoctl(p)
  <2>1. /\ already_open' = already_open /\ call' = call
        /\ \/ at[p] = "nth" /\ \E a \in {"leave", "stuck"} : at' = [at EXCEPT ![p] = a]
           \/ at[p] \in Inside /\ at' = [at EXCEPT ![p] = "killed"]
           \/ at[p] \in Inside /\ at' = [at EXCEPT ![p] = IF p \in Client THEN "leave" ELSE "out"]
           \/ at[p] \in Inside /\ \E a \in {"write", "test", "put"} : at' = [at EXCEPT ![p] = a]
    <3>1. CASE WriteByte(p)
      BY <3>1 DEF WriteByte, Goes, Inside
    <3>2. CASE WriteReturns(p)
      BY <3>2 DEF WriteReturns, Returns, Goes, Inside
    <3>3. CASE ReadEof(p)
      BY <3>3 DEF ReadEof, Returns, Goes, Inside
    <3>4. CASE ReadTest(p)
      BY <3>4 DEF ReadTest, Goes, Inside
    <3>5. CASE ReadPut(p)
      BY <3>5 DEF ReadPut, Goes, Inside
    <3>6. CASE ReadReturns(p)
      BY <3>6 DEF ReadReturns, Returns, Goes, Inside
    <3>7. CASE NthByte(p)
      BY <3>7 DEF NthByte, Goes
    <3>8. CASE Fault(p)
      BY <3>8 DEF Fault, Goes, Inside
    <3> QED
      BY <1>3, <3>1, <3>2, <3>3, <3>4, <3>5, <3>6, <3>7, <3>8 DEF Handler
  <2>2. call' = [call EXCEPT ![p] = call[p]]
    BY <2>1 DEF TypeOK
  <2>3. Holding(p)' => Holding(p)
    BY <2>1, Chardev2Assumption DEF TypeOK, Holding, InIoctl, Inside, Proc
  <2>4. PICK a : at' = [at EXCEPT ![p] = a]
    BY <2>1
  <2> QED
    BY <1>1, <2>1, <2>2, <2>3, <2>4, ExclusionMove
<1> QED
  BY <1>2, <1>3

(* Every step keeps the holder of already_open alone in device_ioctl.        *)
LEMMA ExclusionStep ==
    ASSUME TypeOK, Exclusion, [Next]_vars
    PROVE  Exclusion'
<1>1. CASE UNCHANGED vars
  BY <1>1 DEF vars, Exclusion, Holding, InIoctl
<1>2. CASE Next
  BY <1>2, ExclusionStarts, ExclusionIoctl, ExclusionHandler DEF Next
<1> QED
  BY <1>1, <1>2

(* At first nobody is in device_ioctl.                                       *)
LEMMA ExclusionInit == Init => Exclusion
BY Chardev2Assumption DEF Init, Exclusion, Holding, InIoctl, Inside, Proc, FirstCall

(* device_ioctl talks to one process at a time, for any number of them and   *)
(* whatever those do meanwhile that read and write.                          *)
THEOREM IoctlIsExclusive == Spec => []OneProcessAtATime
<1>1. Init => Exclusion
  BY ExclusionInit
<1>2. TypeOK /\ Exclusion /\ [Next]_vars => Exclusion'
  BY ExclusionStep
<1>3. Exclusion => OneProcessAtATime
  BY DEF Exclusion, OneProcessAtATime, Holding
<1> QED
  BY <1>1, <1>2, <1>3, TypeCorrect, PTL DEF Spec

-----------------------------------------------------------------------------
(* IOCTL_GET_MSG returns the latest message.  The length that is copied, and *)
(* message[] when it holds the string s and a NUL.                           *)
Cut(s) == IF Len(s) < BUF_LEN THEN Len(s) ELSE BUF_LEN

Holds(s) == \A i \in 0 .. Cut(s) : message[i] = IF i < Cut(s) THEN s[i + 1] ELSE 0

(* A client is in IOCTL_SET_MSG, with a string that replaces the message.    *)
Setting(p) == call[p] = "SET_MSG" /\ at[p] \in {"write", "leave"} /\ frame[p].arg # <<>>

(* Unless a client is setting it the message is the latest one.              *)
Whole == latest # Mixed /\ (\A p \in Client : ~Setting(p)) => Holds(latest)

(* Where a client is with its copy, whatever the other processes do, ...     *)
Frames(p) ==
    /\ frame[p].by = "ioctl" /\ frame[p].start = 0
    /\ at[p] \in {"out", "call"} => frame[p].pos = 0
    /\ at[p] = "write" => /\ call[p] = "SET_MSG"
                          /\ frame[p].pos + frame[p].left = SetLen(frame[p].arg)
    /\ at[p] \in {"eof", "test", "put"} => call[p] = "GET_MSG"
    /\ at[p] = "nth" => call[p] = "GET_NTH_BYTE"
    /\ call[p] = "SET_MSG" /\ at[p] \in {"call", "write", "leave"} => frame[p].arg \in Strings
    /\ at[p] = "eof" => frame[p].left = GET_LEN
    /\ at[p] \in {"test", "put"} => frame[p].pos + frame[p].left = GET_LEN

(* ... and what it has copied if nobody has used write() meanwhile.          *)
Copied(p) ==
    /\ at[p] = "write" => \A i \in 0 .. frame[p].pos - 1 : message[i] = ByteAt(frame[p].arg, i)
    /\ at[p] = "leave" /\ call[p] = "SET_MSG" /\ frame[p].arg # <<>> => Holds(frame[p].arg)
    /\ at[p] \in {"test", "put"} =>
          /\ frame[p].pos <= Cut(latest)
          /\ \A i \in 1 .. frame[p].pos : frame[p].out[i] = latest[i]
    /\ at[p] = "put" => frame[p].seen = message[frame[p].pos] /\ frame[p].seen # 0
    /\ at[p] = "leave" /\ call[p] = "GET_MSG" => frame[p].out = SubSeq(latest, 1, Cut(latest))

LInv ==
    /\ Whole
    /\ \A p \in Client : Frames(p) /\ (latest # Mixed => Copied(p))

(* What holds of a client does not depend on what others do, unless they     *)
(* change the message while it is in the ioctl and latest does not say so.   *)
LEMMA OtherCopies ==
    ASSUME NEW q \in Client, Frames(q), latest # Mixed => Copied(q),
           at'[q] = at[q], call'[q] = call[q], frame'[q] = frame[q],
           \/ latest' = Mixed
           \/ message' = message /\ latest' = latest
           \/ at[q] \notin Busy
    PROVE  Frames(q)' /\ (latest' # Mixed => Copied(q)')
<1>1. Frames(q)'
  BY DEF Frames
<1>2. CASE message' = message /\ latest' = latest
  BY <1>1, <1>2 DEF Copied, Holds
<1>3. CASE at[q] \notin Busy
  BY <1>1, <1>3 DEF Copied, Busy, Inside
<1> QED
  BY <1>1, <1>2, <1>3

(* The message stays the latest one while nobody changes either.             *)
LEMMA WholeStays ==
    ASSUME Whole, message' = message, latest' = latest,
           \A q \in Client : Setting(q) => Setting(q)'
    PROVE  Whole'
BY DEF Whole, Holds

(* A step of a process that is not a client.                                 *)
LEMMA Bystander ==
    ASSUME LInv, latest' = Mixed \/ (message' = message /\ latest' = latest),
           \A q \in Client : /\ at'[q] = at[q] /\ call'[q] = call[q]
                             /\ frame'[q] = frame[q]
    PROVE  LInv'
<1>1. \A q \in Client : Setting(q) => Setting(q)'
  BY DEF Setting
<1>2. Whole'
  <2>1. CASE latest' = Mixed
    BY <2>1 DEF Whole
  <2>2. CASE message' = message /\ latest' = latest
    BY <1>1, <2>2, WholeStays DEF LInv
  <2> QED
    BY <2>1, <2>2
<1>3. ASSUME NEW q \in Client PROVE Frames(q)' /\ (latest' # Mixed => Copied(q)')
  BY OtherCopies DEF LInv
<1> QED
  BY <1>2, <1>3 DEF LInv

(* A step of the client p.  If it changes the message or latest it is in an  *)
(* ioctl, where it is alone.                                                 *)
OthersStay(p) ==
    \A q \in Client \ {p} : /\ at'[q] = at[q] /\ call'[q] = call[q]
                            /\ frame'[q] = frame[q]

Alone(p) == \A q \in Client \ {p} : at[q] \notin Busy

(* A step of the client p: what has to be shown of its own frame.           *)
LEMMA Mover ==
    ASSUME LInv, NEW p \in Client, OthersStay(p),
           Alone(p) \/ (message' = message /\ latest' = latest),
           Whole', Frames(p)', latest' # Mixed => Copied(p)'
    PROVE  LInv'
<1>1. ASSUME NEW q \in Client \ {p} PROVE Frames(q)' /\ (latest' # Mixed => Copied(q)')
  BY OtherCopies DEF LInv, OthersStay, Alone
<1> QED
  BY <1>1 DEF LInv

(* A step that leaves the message and latest alone, and does not end an      *)
(* IOCTL_SET_MSG.                                                            *)
LEMMA Looker ==
    ASSUME LInv, NEW p \in Client, OthersStay(p), message' = message, latest' = latest,
           Setting(p) => Setting(p)', Frames(p)', latest' # Mixed => Copied(p)'
    PROVE  LInv'
<1>1. \A q \in Client : Setting(q) => Setting(q)'
  BY DEF Setting, OthersStay
<1>2. Whole'
  BY <1>1, WholeStays DEF LInv
<1> QED
  BY <1>2, Mover

-----------------------------------------------------------------------------
(* The steps of a process that is not a client: it reads, writes, or asks    *)
(* for a byte.                                                               *)
LEMMA RawMove ==
    ASSUME TypeOK, LInv, NEW p \in Proc, p \notin Client, NEW a, NEW f, NEW c,
           at' = [at EXCEPT ![p] = a], frame' = [frame EXCEPT ![p] = f],
           call' = [call EXCEPT ![p] = c],
           latest' = Mixed \/ (message' = message /\ latest' = latest)
    PROVE  LInv'
BY Bystander DEF TypeOK, Proc

(* read(), pread() and write() begin, or an ioctl does.                      *)
LEMMA RawStarts ==
    ASSUME TypeOK, Exclusion, LInv, NEW p \in Proc, p \notin Client,
           ClientStart(p) \/ RawWrite(p) \/ RawRead(p) \/ RawNth(p) \/ device_ioctl(p)
    PROVE  LInv'
<1>1. p \in Raw /\ call[p] = "GET_NTH_BYTE" /\ ~ClientStart(p)
  BY DEF Proc, Exclusion, ClientStart
<1>2. call = [call EXCEPT ![p] = call[p]] /\ frame = [frame EXCEPT ![p] = frame[p]]
  BY DEF TypeOK
<1>3. CASE RawWrite(p)
  <2>1. PICK s \in Strings : frame' = [frame EXCEPT ![p].arg = s, ![p].left = Len(s)]
    BY <1>3 DEF RawWrite
  <2> DEFINE l == Len(s)
             h == [frame[p] EXCEPT !.arg = s, !.left = l]
  <2> HIDE DEF l
  <2>2. frame' = [frame EXCEPT ![p] = h]
    BY <2>1 DEF TypeOK, l
  <2> HIDE DEF h
  <2> QED
    BY <1>2, <1>3, <2>2, RawMove DEF RawWrite, Goes
<1>4. CASE RawRead(p)
  <2>1. PICK len, c, o :
           frame' = [frame EXCEPT ![p].left = len, ![p].by = c, ![p].start = o]
    BY <1>4 DEF RawRead
  <2> DEFINE h == [frame[p] EXCEPT !.left = len, !.by = c, !.start = o]
  <2>2. frame' = [frame EXCEPT ![p] = h]
    BY <2>1 DEF TypeOK
  <2> HIDE DEF h
  <2> QED
    BY <1>2, <1>4, <2>2, RawMove DEF RawRead, Goes
<1>5. CASE RawNth(p)
  BY <1>2, <1>5, RawMove DEF RawNth, Goes
<1>6. CASE device_ioctl(p)
  <2>1. message' = message /\ latest' = latest
    BY <1>1, <1>6 DEF device_ioctl, Switch
  <2>2. CASE at' = [at EXCEPT ![p] = "nth"] /\ frame' = frame /\ call' = call
    BY <1>2, <2>1, <2>2, RawMove
  <2>3. CASE /\ at' = [at EXCEPT ![p] = "out"] /\ frame' = [frame EXCEPT ![p] = NoFrame]
             /\ call' = [call EXCEPT ![p] = FirstCall(p)]
    BY <2>1, <2>3, RawMove
  <2> QED
    BY <1>1, <1>6, <2>2, <2>3 DEF device_ioctl, Switch, Goes, Set
<1> QED
  BY <1>1, <1>3, <1>4, <1>5, <1>6

(* The handlers that serve them.                                             *)
LEMMA RawHandler ==
    ASSUME TypeOK, Exclusion, LInv, NEW p \in Proc, p \notin Client, Handler(p)
    PROVE  LInv'
<1>1. p \in Raw /\ call[p] = "GET_NTH_BYTE"
  BY DEF Proc, Exclusion
<1>2. call = [call EXCEPT ![p] = call[p]] /\ frame = [frame EXCEPT ![p] = frame[p]]
  BY DEF TypeOK
<1>3. CASE WriteByte(p)
  <2> DEFINE x == frame[p].pos + 1
             l == frame[p].left - 1
             h == [frame[p] EXCEPT !.pos = x, !.left = l]
  <2> HIDE DEF x, l
  <2>1. frame' = [frame EXCEPT ![p] = h]
    BY <1>3 DEF WriteByte, TypeOK, x, l
  <2> HIDE DEF h
  <2>2. at' = [at EXCEPT ![p] = "write"] /\ call' = call /\ latest' = Mixed
    BY <1>1, <1>3 DEF WriteByte, Goes
  <2> QED
    BY <1>2, <2>1, <2>2, RawMove
<1>4. CASE WriteReturns(p)
  BY <1>2, <1>4, RawMove DEF WriteReturns, Returns, Goes, Set
<1>5. CASE ReadEof(p)
  <2>1. message' = message /\ latest' = latest /\ call' = call
    BY <1>5 DEF ReadEof
  <2>2. CASE Returns(p, "eof")
    BY <1>2, <2>1, <2>2, RawMove DEF Returns, Goes, Set
  <2>3. CASE Goes(p, "eof", "test") /\ frame' = [frame EXCEPT ![p].pos = frame[p].start]
    <3> DEFINE h == [frame[p] EXCEPT !.pos = frame[p].start]
    <3>1. frame' = [frame EXCEPT ![p] = h]
      BY <2>3 DEF TypeOK
    <3> HIDE DEF h
    <3> QED
      BY <1>2, <2>1, <2>3, <3>1, RawMove DEF Goes
  <2> QED
    BY <1>5, <2>2, <2>3 DEF ReadEof
<1>6. CASE ReadTest(p)
  <2>1. PICK b : frame' = [frame EXCEPT ![p].seen = b]
    BY <1>6 DEF ReadTest
  <2> DEFINE h == [frame[p] EXCEPT !.seen = b]
  <2>2. frame' = [frame EXCEPT ![p] = h]
    BY <2>1 DEF TypeOK
  <2> HIDE DEF h
  <2> QED
    BY <1>2, <1>6, <2>2, RawMove DEF ReadTest, Goes
<1>7. CASE ReadPut(p)
  <2>1. PICK b : frame' = [frame EXCEPT ![p].out = Append(@, b), ![p].pos = @ + 1, ![p].left = @ - 1]
    BY <1>7, Zenon DEF ReadPut
  <2> DEFINE x == frame[p].pos + 1
             l == frame[p].left - 1
             z == Append(frame[p].out, b)
             h == [frame[p] EXCEPT !.out = z, !.pos = x, !.left = l]
  <2> HIDE DEF x, l, z
  <2>2. frame' = [frame EXCEPT ![p] = h]
    BY <2>1 DEF TypeOK, x, l, z
  <2> HIDE DEF h
  <2> QED
    BY <1>2, <1>7, <2>2, RawMove DEF ReadPut, Goes
<1>8. CASE ReadReturns(p)
  BY <1>2, <1>8, RawMove DEF ReadReturns, Returns, Goes, Set
<1>9. CASE NthByte(p)
  <2>1. PICK b : frame' = [frame EXCEPT ![p].seen = b]
    BY <1>9 DEF NthByte
  <2> DEFINE h == [frame[p] EXCEPT !.seen = b]
  <2>2. frame' = [frame EXCEPT ![p] = h]
    BY <2>1 DEF TypeOK
  <2> HIDE DEF h
  <2> QED
    BY <1>2, <1>9, <2>2, RawMove DEF NthByte, Goes
<1>10. CASE Fault(p)
  <2>1. PICK a \in {"killed", "stuck"} : at' = [at EXCEPT ![p] = a]
    BY <1>10 DEF Fault, Goes
  <2> QED
    BY <1>2, <1>10, <2>1, RawMove DEF Fault, Set
<1>11. CASE LeaveIoctl(p)
  <2>1. message' = message /\ latest' = latest
    BY <1>1, <1>11 DEF LeaveIoctl
  <2>2. frame' = [frame EXCEPT ![p] = NoFrame]
    BY <1>11 DEF LeaveIoctl, Set
  <2>3. PICK a, c : at' = [at EXCEPT ![p] = a] /\ call' = [call EXCEPT ![p] = c]
    BY <1>11 DEF LeaveIoctl, Goes, Set
  <2> QED
    BY <2>1, <2>2, <2>3, RawMove
<1> QED
  BY <1>3, <1>4, <1>5, <1>6, <1>7, <1>8, <1>9, <1>10, <1>11 DEF Handler

-----------------------------------------------------------------------------
(* The steps of a client.                                                    *)

(* In an ioctl the client is alone, and the message is whole unless it is    *)
(* the one that sets it.                                                     *)
LEMMA AloneInside ==
    ASSUME Exclusion, NEW p \in Client, at[p] \in Busy
    PROVE  Alone(p)
BY DEF Exclusion, Alone, Holding, InIoctl, Busy, Inside, Proc

(* A client in an ioctl that does not set finds the latest message whole:   *)
(* nobody else is setting it.                                               *)
LEMMA WholeInside ==
    ASSUME Exclusion, LInv, NEW p \in Client, at[p] \in Busy, ~Setting(p), latest # Mixed
    PROVE  Holds(latest)
<1>1. ASSUME NEW q \in Client PROVE ~Setting(q)
  <2>1. CASE q = p
    BY <2>1
  <2>2. CASE q # p
    BY <2>2, AloneInside DEF Setting, Alone, Busy, Inside
  <2> QED
    BY <2>1, <2>2
<1> QED
  BY <1>1 DEF LInv, Whole

(* A step of p leaves the variables of the other clients alone.              *)
LEMMA OnlyMoves ==
    ASSUME TypeOK, NEW p \in Client, NEW a, NEW f, NEW c,
           at' = [at EXCEPT ![p] = a], frame' = [frame EXCEPT ![p] = f],
           call' = [call EXCEPT ![p] = c]
    PROVE  /\ OthersStay(p)
           /\ at'[p] = a /\ frame'[p] = f /\ call'[p] = c
BY DEF TypeOK, OthersStay, Proc

(* userspace_ioctl starts.                                                   *)
LEMMA StartCopies ==
    ASSUME IInv, LInv, NEW p \in Client, ClientStart(p)
    PROVE  LInv'
<1>1. PICK s \in Strings : frame' = [frame EXCEPT ![p].arg = s]
  BY DEF ClientStart
<1> DEFINE h == [frame[p] EXCEPT !.arg = s]
<1>2. frame[p] \in Frame /\ TypeOK
  BY DEF IInv, TypeOK, Proc
<1>3. h.arg = s /\ h.pos = frame[p].pos /\ h.by = frame[p].by /\ h.start = frame[p].start
  BY <1>2 DEF Frame
<1>4. /\ frame' = [frame EXCEPT ![p] = h] /\ at' = [at EXCEPT ![p] = "call"]
      /\ call' = [call EXCEPT ![p] = call[p]] /\ at[p] = "out"
      /\ message' = message /\ latest' = latest
  BY <1>1, <1>2 DEF ClientStart, Goes, TypeOK
<1> HIDE DEF h
<1>5. OthersStay(p) /\ at'[p] = "call" /\ frame'[p] = h /\ call'[p] = call[p]
  BY <1>2, <1>4, OnlyMoves
<1>6. Frames(p)'
  BY <1>3, <1>4, <1>5 DEF LInv, Frames
<1>7. Copied(p)' /\ ~Setting(p)
  BY <1>4, <1>5 DEF Copied, Setting
<1> QED
  BY <1>4, <1>5, <1>6, <1>7, Looker

(* The entry of device_ioctl, or its -EBUSY.                                 *)
LEMMA IoctlCopies ==
    ASSUME IInv, Exclusion, LInv, NEW p \in Client, device_ioctl(p)
    PROVE  LInv'
<1>0. /\ frame[p] \in Frame /\ TypeOK /\ at[p] = "call" /\ message' = message
      /\ Frames(p) /\ ~Setting(p) /\ frame[p].by = "ioctl" /\ frame[p].start = 0
  BY DEF IInv, TypeOK, Proc, device_ioctl, Switch, Goes, LInv, Setting, Frames
<1>1. CASE already_open = 1
  <2>1. /\ at' = [at EXCEPT ![p] = "out"] /\ frame' = [frame EXCEPT ![p] = NoFrame]
        /\ call' = [call EXCEPT ![p] = FirstCall(p)]
        /\ latest' = latest /\ NoFrame.pos = 0 /\ NoFrame.by = "ioctl" /\ NoFrame.start = 0
    BY <1>1 DEF device_ioctl, Goes, Set, NoFrame
  <2>2. OthersStay(p) /\ at'[p] = "out" /\ frame'[p] = NoFrame
    BY <1>0, <2>1, OnlyMoves
  <2>3. Frames(p)' /\ Copied(p)'
    BY <1>0, <2>1, <2>2 DEF Frames, Copied
  <2> QED
    BY <1>0, <2>1, <2>2, <2>3, Looker
<1>2. ASSUME already_open = 0 PROVE call' = [call EXCEPT ![p] = call[p]]
  BY <1>0, <1>2 DEF device_ioctl, TypeOK
<1>3. CASE already_open = 0 /\ call[p] = "GET_NTH_BYTE"
  <2>1. /\ at' = [at EXCEPT ![p] = "nth"] /\ frame' = [frame EXCEPT ![p] = frame[p]] /\ latest' = latest
    BY <1>0, <1>3 DEF device_ioctl, Switch, Goes, TypeOK
  <2>2. OthersStay(p) /\ at'[p] = "nth" /\ frame'[p] = frame[p] /\ call'[p] = call[p]
    <3>1. call' = [call EXCEPT ![p] = call[p]] /\ TypeOK
      BY <1>0, <1>2, <1>3
    <3> QED
      BY <2>1, <3>1, OnlyMoves
  <2>3. Frames(p)' /\ Copied(p)'
    BY <1>0, <1>3, <2>2 DEF Frames, Copied
  <2> QED
    BY <1>0, <2>1, <2>2, <2>3, Looker
<1>4. CASE already_open = 0 /\ call[p] = "GET_MSG"
  <2> DEFINE h == [frame[p] EXCEPT !.left = GET_LEN]
  <2>1. /\ at' = [at EXCEPT ![p] = "eof"] /\ frame' = [frame EXCEPT ![p] = h] /\ latest' = latest
    BY <1>0, <1>4 DEF device_ioctl, Switch, Goes, TypeOK
  <2>2. h.left = GET_LEN /\ h.by = "ioctl" /\ h.start = 0
    BY <1>0 DEF Frame
  <2> HIDE DEF h
  <2>3. OthersStay(p) /\ at'[p] = "eof" /\ frame'[p] = h /\ call'[p] = call[p]
    <3>1. call' = [call EXCEPT ![p] = call[p]] /\ TypeOK
      BY <1>0, <1>2, <1>4
    <3> QED
      BY <2>1, <3>1, OnlyMoves
  <2>4. Frames(p)' /\ Copied(p)'
    BY <1>0, <1>4, <2>2, <2>3 DEF Frames, Copied
  <2> QED
    BY <1>0, <2>1, <2>3, <2>4, Looker
<1>5. CASE already_open = 0 /\ call[p] = "SET_MSG"
  <2> DEFINE l == SetLen(frame[p].arg)
             h == [frame[p] EXCEPT !.left = l]
  <2> HIDE DEF l
  <2>1. /\ at' = [at EXCEPT ![p] = "write"] /\ frame' = [frame EXCEPT ![p] = h]
        /\ latest' = IF frame[p].arg = <<>> THEN latest ELSE <<>>
    BY <1>0, <1>5 DEF device_ioctl, Switch, Goes, TypeOK, l
  <2>2. h.left = l /\ h.pos = frame[p].pos /\ h.arg = frame[p].arg /\ h.by = "ioctl" /\ h.start = 0
    BY <1>0 DEF Frame
  <2> HIDE DEF h
  <2>3. OthersStay(p) /\ at'[p] = "write" /\ frame'[p] = h /\ call'[p] = call[p]
    <3>1. call' = [call EXCEPT ![p] = call[p]] /\ TypeOK
      BY <1>0, <1>2, <1>5
    <3> QED
      BY <2>1, <3>1, OnlyMoves
  <2>4. h.pos = 0 /\ h.arg \in Strings /\ l \in Nat
    <3>1. frame[p].pos = 0 /\ frame[p].arg \in Strings
      BY <1>0, <1>5 DEF Frames
    <3>2. Len(frame[p].arg) \in Nat
      BY <3>1, Chardev2Assumption
    <3> QED
      BY <2>2, <3>1, <3>2, Chardev2Assumption DEF l, SetLen
  <2>5. h.pos + h.left = SetLen(h.arg)
    BY <2>2, <2>4 DEF l
  <2>6. Frames(p)'
    BY <1>0, <1>5, <2>2, <2>3, <2>4, <2>5 DEF Frames
  <2>7. Copied(p)'
    BY <2>3, <2>4, <1>5 DEF Copied
  <2>8. CASE h.arg = <<>>
    <3>1. latest' = latest
      BY <2>1, <2>2, <2>8
    <3> QED
      BY <1>0, <2>3, <2>6, <2>7, <3>1, Looker
  <2>9. CASE h.arg # <<>>
    <3>1. Whole'
      BY <1>5, <2>3, <2>9 DEF Whole, Setting
    <3>2. Alone(p)
      BY <1>5 DEF Exclusion, Alone, Holding, InIoctl, Busy, Inside, Proc
    <3> QED
      BY <2>3, <2>6, <2>7, <3>1, <3>2, Mover
  <2> QED
    BY <2>8, <2>9
<1> QED
  BY <1>1, <1>3, <1>4, <1>5 DEF IInv, TypeOK, Proc

(* The length of a string that is not empty, and what is cut from it.        *)
LEMMA Lengths ==
    ASSUME NEW s \in Strings \cup {<<>>}
    PROVE  /\ Len(s) \in Nat /\ Cut(s) \in 0 .. BUF_LEN /\ Cut(s) <= Len(s)
           /\ \A i \in 1 .. Len(s) : s[i] # 0
           /\ s # <<>> => Len(s) > 0
           /\ s \in Seq(Nat)
<1>1. s \in Seq(Nat \ {0})
  <2>1. <<>> \in Seq(Nat \ {0})
    OBVIOUS
  <2> QED
    BY <2>1, Chardev2Assumption
<1>2. PICK m \in Nat : m = Len(s)
  BY <1>1
<1>3. Cut(s) = IF m < BUF_LEN THEN m ELSE BUF_LEN
  BY <1>2 DEF Cut
<1>4. Cut(s) \in 0 .. BUF_LEN /\ Cut(s) <= m
  BY <1>3, Chardev2Assumption
<1>5. \A i \in 1 .. Len(s) : s[i] \in Nat \ {0}
  BY <1>1
<1>6. s # <<>> => Len(s) > 0
  BY <1>1
<1>7. s \in Seq(Nat)
  BY <1>1, <1>5
<1> QED
  BY <1>2, <1>4, <1>5, <1>6, <1>7

(* device_write, for IOCTL_SET_MSG.                                          *)
LEMMA WriteByteCopies ==
    ASSUME IInv, Exclusion, LInv, NEW p \in Client, WriteByte(p)
    PROVE  LInv'
<1> DEFINE g == frame[p]
           i == g.pos + 1
           l == g.left - 1
           h == [g EXCEPT !.pos = i, !.left = l]
           b == ByteAt(g.arg, g.pos)
<1>1. g \in Frame /\ TypeOK /\ Frames(p) /\ BUF_LEN \in Nat
  BY Chardev2Assumption DEF IInv, TypeOK, LInv, Proc
<1>2. /\ at[p] = "write" /\ g.left > 0 /\ g.pos < BUF_LEN
      /\ message' = [message EXCEPT ![g.pos] = b]
      /\ at' = [at EXCEPT ![p] = "write"] /\ call' = [call EXCEPT ![p] = call[p]]
      /\ latest' = latest
  BY <1>1, Chardev2Assumption DEF WriteByte, Goes, TypeOK
<1>3. frame' = [frame EXCEPT ![p] = h]
  BY <1>1 DEF TypeOK, WriteByte
<1>4. /\ h.pos = i /\ h.left = l /\ h.arg = g.arg /\ h.by = g.by /\ h.start = g.start
      /\ g.pos \in 0 .. BUF_LEN /\ g.left \in Nat
  BY <1>1, <1>2 DEF Frame, IInv, Indices, Proc
<1> HIDE DEF h
<1>5. OthersStay(p) /\ at'[p] = "write" /\ frame'[p] = h /\ call'[p] = call[p]
  BY <1>1, <1>2, <1>3, OnlyMoves
<1>6. Frames(p)'
  <2>1. i + l = g.pos + g.left
    BY <1>4
  <2> HIDE DEF i, l, g
  <2> QED
    BY <1>1, <1>2, <1>4, <1>5, <2>1 DEF Frames, g
<1>7. ASSUME latest' # Mixed PROVE Copied(p)'
  <2>1. \A k \in 0 .. g.pos - 1 : message[k] = ByteAt(g.arg, k)
    BY <1>2, <1>7 DEF LInv, Copied
  <2>2. g.pos \in 0 .. BUF_LEN /\ message \in [0 .. BUF_LEN -> Bytes]
    BY <1>1, <1>4 DEF TypeOK
  <2> HIDE DEF g
  <2>3. \A k \in 0 .. i - 1 : message'[k] = ByteAt(g.arg, k)
    BY <1>1, <1>2, <2>1, <2>2
  <2> HIDE DEF i
  <2> QED
    BY <1>4, <1>5, <2>3 DEF Copied
<1>8. Whole'
  <2>1. call[p] = "SET_MSG" /\ g.arg \in Strings /\ g.pos + g.left = SetLen(g.arg)
    BY <1>1, <1>2 DEF Frames
  <2>2. g.arg # <<>>
    <3> HIDE DEF g
    <3> QED
      BY <1>2, <1>4, <2>1 DEF SetLen
  <2>3. Setting(p)'
    BY <1>4, <1>5, <2>1, <2>2 DEF Setting
  <2> QED
    BY <2>3 DEF Whole
<1>9. Alone(p)
  BY <1>2, AloneInside DEF Busy, Inside
<1> QED
  BY <1>5, <1>6, <1>7, <1>8, <1>9, Mover

(* The loop of device_write ends with the string and its NUL in message[],   *)
(* or with the first BUF_LEN bytes of it, in front of the NUL at its end.    *)
LEMMA WriteReturnsCopies ==
    ASSUME IInv, LInv, NEW p \in Client, WriteReturns(p)
    PROVE  LInv'
<1> DEFINE g == frame[p]
<1>1. g \in Frame /\ TypeOK /\ Frames(p) /\ BUF_LEN \in Nat /\ message[BUF_LEN] = 0
  BY Chardev2Assumption DEF IInv, TypeOK, LInv, Proc
<1>2. /\ at[p] = "write" /\ (g.left = 0 \/ g.pos = BUF_LEN)
      /\ at' = [at EXCEPT ![p] = "leave"] /\ call' = [call EXCEPT ![p] = call[p]]
      /\ frame' = [frame EXCEPT ![p] = g] /\ message' = message /\ latest' = latest
  BY <1>1 DEF WriteReturns, Returns, Goes, TypeOK
<1>3. OthersStay(p) /\ at'[p] = "leave" /\ frame'[p] = g /\ call'[p] = call[p]
  <2> HIDE DEF g
  <2> QED
    BY <1>1, <1>2, OnlyMoves
<1>4. call[p] = "SET_MSG" /\ g.arg \in Strings /\ g.pos + g.left = SetLen(g.arg)
  BY <1>1, <1>2 DEF Frames
<1>5. Frames(p)'
  BY <1>1, <1>3, <1>4 DEF Frames
<1>6. ASSUME latest' # Mixed, g.arg # <<>> PROVE Holds(g.arg)'
  <2>1. \A k \in 0 .. g.pos - 1 : message[k] = ByteAt(g.arg, k)
    BY <1>2, <1>6 DEF LInv, Copied
  <2>2. g.pos \in 0 .. BUF_LEN /\ g.left \in Nat
    BY <1>1, <1>2 DEF Frame, IInv, Indices, Proc
  <2>3. PICK m \in Nat : m = Len(g.arg) /\ m > 0
    BY <1>4, <1>6, Lengths
  <2>4. PICK c \in 0 .. BUF_LEN : c = Cut(g.arg) /\ c = IF m < BUF_LEN THEN m ELSE BUF_LEN
    BY <1>4, <2>3, Lengths DEF Cut
  <2>5. g.pos + g.left = IF m < BUF_LEN THEN m + 1 ELSE BUF_LEN
    BY <1>4, <1>6, <2>3 DEF SetLen
  <2>6. \A k \in 0 .. g.pos - 1 : message[k] = IF k < m THEN g.arg[k + 1] ELSE 0
    BY <2>1, <2>3 DEF ByteAt
  <2>7. \A k \in 0 .. c : message[k] = IF k < c THEN g.arg[k + 1] ELSE 0
    <3> HIDE DEF g
    <3>1. g.pos = IF m < BUF_LEN THEN m + 1 ELSE BUF_LEN
      BY <1>1, <1>2, <2>2, <2>3, <2>5
    <3>2. \A k \in 0 .. c : k < c => k \in 0 .. g.pos - 1 /\ k < m
      BY <1>1, <2>2, <2>3, <2>4, <3>1
    <3>3. message[c] = 0
      BY <1>1, <2>2, <2>3, <2>4, <2>6, <3>1
    <3>4. \A k \in 0 .. c : ~(k < c) => k = c
      BY <2>4
    <3> QED
      BY <2>6, <3>2, <3>3, <3>4
  <2> QED
    BY <1>2, <1>3, <2>4, <2>7 DEF Holds
<1>7. ASSUME latest' # Mixed PROVE Copied(p)'
  BY <1>3, <1>4, <1>6, <1>7 DEF Copied
<1>8. Setting(p) => Setting(p)'
  BY <1>3, <1>4 DEF Setting
<1> QED
  BY <1>2, <1>3, <1>5, <1>7, <1>8, Looker

(* A fetched byte is the first NUL of the message, or one of the string.     *)
LEMMA FirstNul ==
    ASSUME NEW s \in Strings \cup {<<>>}, Holds(s), NEW i \in 0 .. Cut(s)
    PROVE  /\ message[i] = 0 <=> i = Cut(s)
           /\ i < Cut(s) => message[i] = s[i + 1]
<1>1. PICK c \in Nat : c = Cut(s) /\ c <= Len(s) /\ Len(s) \in Nat
  BY Lengths, Chardev2Assumption
<1>2. i < c => i + 1 \in 1 .. Len(s)
  BY <1>1
<1>3. i < c => s[i + 1] # 0
  BY <1>2, Lengths
<1> QED
  BY <1>1, <1>3 DEF Holds

(* What a client has put is the latest message up to its position.           *)
LEMMA OutIsPrefix ==
    ASSUME NEW s \in Strings \cup {<<>>}, NEW z \in Seq(Bytes), Len(z) = Cut(s),
           \A i \in 1 .. Cut(s) : z[i] = s[i]
    PROVE  z = SubSeq(s, 1, Cut(s))
<1>1. PICK c \in Nat : c = Cut(s) /\ c <= Len(s) /\ Len(s) \in Nat /\ s \in Seq(Nat)
  BY Lengths, Chardev2Assumption
<1>2. SubSeq(s, 1, c) = [i \in 1 .. c |-> s[i]]
  BY <1>1
<1>3. z = [i \in 1 .. Len(z) |-> z[i]]
  OBVIOUS
<1> QED
  BY <1>1, <1>2, <1>3

(* The first test of device_read, for IOCTL_GET_MSG.                         *)
LEMMA ReadEofCopies ==
    ASSUME IInv, Exclusion, LInv, NEW p \in Client, ReadEof(p)
    PROVE  LInv'
<1> DEFINE g == frame[p]
<1>1. g \in Frame /\ TypeOK /\ Frames(p) /\ g.out = <<>> /\ at[p] = "eof"
  BY DEF IInv, TypeOK, LInv, Proc, Indices, ReadEof, Returns, Goes
<1>2. g.start = 0 /\ g.by = "ioctl" /\ g.left = GET_LEN /\ call[p] = "GET_MSG" /\ Peek(0) = {message[0]}
  BY <1>1, PeekType, Chardev2Assumption DEF Frames
<1>3. /\ call' = [call EXCEPT ![p] = call[p]] /\ message' = message /\ latest' = latest
      /\ ~Setting(p)
  BY <1>1, <1>2 DEF ReadEof, TypeOK, Setting
<1>4. ASSUME latest # Mixed
      PROVE  /\ Holds(latest) /\ latest \in Strings \cup {<<>>} /\ 0 \in 0 .. Cut(latest)
             /\ Cut(latest) \in Nat
  <2>1. Holds(latest) /\ latest \in Strings \cup {<<>>}
    BY <1>1, <1>3, <1>4, WholeInside DEF Busy, Inside, TypeOK
  <2> QED
    BY <2>1, Lengths, Chardev2Assumption
<1>5. CASE message[0] = 0
  <2>1. at' = [at EXCEPT ![p] = "leave"] /\ frame' = [frame EXCEPT ![p] = g]
    BY <1>1, <1>2, <1>5 DEF ReadEof, Returns, Goes, TypeOK
  <2>2. OthersStay(p) /\ at'[p] = "leave" /\ frame'[p] = g /\ call'[p] = call[p]
    <3> HIDE DEF g
    <3> QED
      BY <1>1, <1>3, <2>1, OnlyMoves
  <2>3. Frames(p)'
    BY <1>1, <1>2, <2>2 DEF Frames
  <2>4. ASSUME latest # Mixed PROVE Copied(p)'
    <3>1. Cut(latest) = 0
      BY <1>2, <1>4, <1>5, <2>4, FirstNul
    <3>2. g.out = SubSeq(latest, 1, Cut(latest))
      <4> HIDE DEF g
      <4>1. g.out \in Seq(Bytes) /\ Len(g.out) = 0
        BY <1>1
      <4> QED
        BY <1>4, <2>4, <3>1, <4>1, OutIsPrefix
    <3> QED
      BY <1>2, <1>3, <2>2, <3>2 DEF Copied
  <2> QED
    BY <1>3, <2>2, <2>3, <2>4, Looker
<1>6. CASE message[0] # 0
  <2> DEFINE h == [g EXCEPT !.pos = 0]
  <2>1. at' = [at EXCEPT ![p] = "test"] /\ frame' = [frame EXCEPT ![p] = h]
    BY <1>1, <1>2, <1>6 DEF ReadEof, Goes, TypeOK
  <2>2. h.pos = 0 /\ h.left = GET_LEN /\ h.by = "ioctl" /\ h.start = 0
    BY <1>1, <1>2 DEF Frame
  <2> HIDE DEF h
  <2>3. OthersStay(p) /\ at'[p] = "test" /\ frame'[p] = h /\ call'[p] = call[p]
    BY <1>1, <1>3, <2>1, OnlyMoves
  <2>4. h.pos + h.left = GET_LEN
    BY <2>2, Chardev2Assumption
  <2>5. Frames(p)'
    BY <1>1, <1>2, <2>2, <2>3, <2>4 DEF Frames
  <2>6. ASSUME latest # Mixed PROVE Copied(p)'
    BY <1>3, <1>4, <2>2, <2>3, <2>6 DEF Copied
  <2> QED
    BY <1>3, <2>3, <2>5, <2>6, Looker
<1> QED
  BY <1>5, <1>6

(* A client in the loop of device_read: where it is, and the message.        *)
LEMMA Reading ==
    ASSUME IInv, Exclusion, LInv, NEW p \in Client, at[p] \in {"test", "put"}
    PROVE  /\ frame[p] \in Frame /\ TypeOK /\ Frames(p) /\ call[p] = "GET_MSG" /\ ~Setting(p)
           /\ frame[p].pos \in 0 .. BUF_LEN /\ frame[p].left \in Nat /\ frame[p].out \in Seq(Bytes)
           /\ frame[p].pos = Len(frame[p].out) /\ frame[p].pos + frame[p].left = GET_LEN
           /\ Peek(frame[p].pos) = {message[frame[p].pos]}
           /\ latest # Mixed =>
                /\ Holds(latest) /\ latest \in Strings \cup {<<>>}
                /\ Copied(p) /\ frame[p].pos \in 0 .. Cut(latest)
<1>1. frame[p] \in Frame /\ TypeOK /\ Frames(p) /\ call[p] = "GET_MSG" /\ ~Setting(p)
  BY DEF IInv, TypeOK, LInv, Proc, Frames, Setting
<1>2. frame[p].pos \in 0 .. BUF_LEN /\ frame[p].left \in Nat /\ frame[p].out \in Seq(Bytes)
  BY <1>1, Chardev2Assumption DEF Frame, IInv, Indices, Proc, Frames
<1>3. frame[p].pos = frame[p].start + Len(frame[p].out) /\ frame[p].start = 0
  BY <1>1 DEF IInv, Indices, Proc, Frames
<1>4. Len(frame[p].out) \in Nat
  BY <1>2
<1>5. frame[p].pos + frame[p].left = GET_LEN
  BY <1>1 DEF Frames
<1>6. ASSUME latest # Mixed
      PROVE  /\ Holds(latest) /\ latest \in Strings \cup {<<>>}
             /\ Copied(p) /\ frame[p].pos \in 0 .. Cut(latest)
  <2>1. Holds(latest) /\ latest \in Strings \cup {<<>>}
    BY <1>1, <1>6, WholeInside DEF Busy, Inside, TypeOK
  <2>2. Copied(p) /\ frame[p].pos <= Cut(latest)
    BY <1>6 DEF LInv, Copied
  <2>3. Cut(latest) \in Nat
    BY <2>1, Lengths, Chardev2Assumption
  <2> QED
    BY <1>2, <2>1, <2>2, <2>3
<1>7. Peek(frame[p].pos) = {message[frame[p].pos]}
  BY <1>1, <1>2, PeekType
<1> QED
  BY <1>1, <1>2, <1>3, <1>4, <1>5, <1>6, <1>7

(* The test of the loop of device_read.                                      *)
LEMMA ReadTestCopies ==
    ASSUME IInv, Exclusion, LInv, NEW p \in Client, ReadTest(p)
    PROVE  LInv'
<1> DEFINE g == frame[p]
           b == message[g.pos]
           h == [g EXCEPT !.seen = b]
<1>0. at[p] = "test"
  BY DEF ReadTest, Goes
<1>1. /\ g \in Frame /\ TypeOK /\ Frames(p) /\ call[p] = "GET_MSG" /\ ~Setting(p)
      /\ latest # Mixed => Copied(p)
      /\ Peek(g.pos) = {b}
  BY <1>0, Reading
<1>2. /\ b # 0 /\ at' = [at EXCEPT ![p] = "put"] /\ frame' = [frame EXCEPT ![p] = h]
      /\ call' = [call EXCEPT ![p] = call[p]] /\ message' = message /\ latest' = latest
  BY <1>1 DEF ReadTest, Goes, TypeOK
<1> HIDE DEF b
<1>3. /\ h.pos = g.pos /\ h.left = g.left /\ h.out = g.out /\ h.seen = b
      /\ h.by = g.by /\ h.start = g.start
  BY <1>1 DEF Frame
<1> HIDE DEF h
<1>4. OthersStay(p) /\ at'[p] = "put" /\ frame'[p] = h /\ call'[p] = call[p]
  BY <1>1, <1>2, OnlyMoves
<1>5. Frames(p)'
  BY <1>0, <1>1, <1>3, <1>4 DEF Frames
<1>6. ASSUME latest # Mixed PROVE Copied(p)'
  <2>1. h.pos <= Cut(latest) /\ \A i \in 1 .. h.pos : h.out[i] = latest[i]
    BY <1>0, <1>1, <1>3, <1>6 DEF Copied
  <2>2. h.seen = message'[h.pos] /\ h.seen # 0
    BY <1>2, <1>3 DEF b
  <2> QED
    BY <1>2, <1>4, <2>1, <2>2 DEF Copied
<1> QED
  BY <1>1, <1>2, <1>4, <1>5, <1>6, Looker

(* put_user: nobody has changed the byte that was tested.                    *)
LEMMA ReadPutCopies ==
    ASSUME IInv, Exclusion, LInv, NEW p \in Client, ReadPut(p)
    PROVE  LInv'
<1> DEFINE g == frame[p]
           x == g.pos + 1
           l == g.left - 1
<1>0. at[p] = "put" /\ g.left > 0
  BY DEF ReadPut, Goes, IInv, Indices, Proc
<1>1. /\ g \in Frame /\ TypeOK /\ Frames(p) /\ call[p] = "GET_MSG" /\ ~Setting(p)
      /\ g.pos \in 0 .. BUF_LEN /\ g.left \in Nat /\ g.out \in Seq(Bytes)
      /\ g.pos = Len(g.out) /\ g.pos + g.left = GET_LEN
  BY <1>0, Reading
<1>2. PICK b \in {g.seen} \cup Peek(g.pos) :
         frame' = [frame EXCEPT ![p].out = Append(@, b), ![p].pos = @ + 1, ![p].left = @ - 1]
  BY Zenon DEF ReadPut
<1>b. b \in {g.seen, message[g.pos]}
  BY <1>0, <1>2, Reading
<1> DEFINE z == Append(g.out, b)
           h == [g EXCEPT !.out = z, !.pos = x, !.left = l]
<1>3. x + l = GET_LEN
  BY <1>0, <1>1, Chardev2Assumption
<1>4. b \in Bytes
  BY <1>1, <1>b DEF TypeOK, Frame
<1>5. z \in Seq(Bytes) /\ z[x] = b /\ \A i \in 1 .. g.pos : z[i] = g.out[i]
  <2> HIDE DEF g
  <2> QED
    BY <1>1, <1>4
<1> HIDE DEF x, l, z
<1>6. h.pos = x /\ h.out = z /\ h.left = l /\ h.by = g.by /\ h.start = g.start
  BY <1>1 DEF Frame
<1>7. frame' = [frame EXCEPT ![p] = h]
  BY <1>1, <1>2 DEF TypeOK, x, l, z
<1> HIDE DEF h
<1>8. /\ at' = [at EXCEPT ![p] = "test"]
      /\ call' = [call EXCEPT ![p] = call[p]] /\ message' = message /\ latest' = latest
  BY <1>1 DEF ReadPut, Goes, TypeOK
<1>9. OthersStay(p) /\ at'[p] = "test" /\ frame'[p] = h /\ call'[p] = call[p]
  <2>1. TypeOK
    BY <1>1
  <2> QED
    BY <2>1, <1>7, <1>8, OnlyMoves
<1>10. Frames(p)'
  BY <1>1, <1>3, <1>6, <1>9 DEF Frames
<1>11. ASSUME latest # Mixed PROVE Copied(p)'
  <2>1. /\ Holds(latest) /\ latest \in Strings \cup {<<>>}
        /\ Copied(p) /\ g.pos \in 0 .. Cut(latest)
    BY <1>0, <1>11, Reading
  <2>2. b = message[g.pos] /\ b # 0 /\ \A i \in 1 .. g.pos : g.out[i] = latest[i]
    BY <1>0, <1>b, <2>1 DEF Copied
  <2>3. PICK c \in Nat : c = Cut(latest)
    BY <2>1, Lengths, Chardev2Assumption
  <2>4. g.pos # c /\ (g.pos < c => message[g.pos] = latest[g.pos + 1])
    <3> HIDE DEF g
    <3> QED
      BY <2>1, <2>2, <2>3, FirstNul
  <2>5. x <= c /\ b = latest[x] /\ x \in Nat
    BY <1>1, <2>1, <2>2, <2>3, <2>4 DEF x
  <2>6. \A i \in 1 .. x : z[i] = latest[i]
    <3>1. \A i \in 1 .. x : i = x \/ i \in 1 .. g.pos
      BY <1>1 DEF x
    <3> QED
      BY <1>5, <2>2, <2>5, <3>1
  <2> QED
    BY <1>6, <1>8, <1>9, <2>3, <2>5, <2>6 DEF Copied
<1> QED
  BY <1>1, <1>8, <1>9, <1>10, <1>11, Looker

(* The end of the loop of device_read: it has met the NUL.                   *)
LEMMA ReadReturnsCopies ==
    ASSUME IInv, Exclusion, LInv, NEW p \in Client, ReadReturns(p)
    PROVE  LInv'
<1> DEFINE g == frame[p]
<1>0. at[p] = "test" /\ (g.left = 0 \/ message[g.pos] = 0)
  BY Reading DEF ReadReturns, Returns, Goes
<1>1. /\ g \in Frame /\ TypeOK /\ Frames(p) /\ call[p] = "GET_MSG" /\ ~Setting(p)
      /\ g.pos \in 0 .. BUF_LEN /\ g.left \in Nat /\ g.out \in Seq(Bytes)
      /\ g.pos = Len(g.out) /\ g.pos + g.left = GET_LEN
  BY <1>0, Reading
<1>2. /\ at' = [at EXCEPT ![p] = "leave"] /\ frame' = [frame EXCEPT ![p] = g]
      /\ call' = [call EXCEPT ![p] = call[p]] /\ message' = message /\ latest' = latest
  BY <1>1 DEF ReadReturns, Returns, Goes, TypeOK
<1>3. message[g.pos] = 0
  BY <1>0, <1>1, Chardev2Assumption
<1> HIDE DEF g
<1>4. OthersStay(p) /\ at'[p] = "leave" /\ frame'[p] = g /\ call'[p] = call[p]
  BY <1>1, <1>2, OnlyMoves
<1>5. Frames(p)'
  BY <1>1, <1>4 DEF Frames, g
<1>6. ASSUME latest # Mixed PROVE Copied(p)'
  <2>1. /\ Holds(latest) /\ latest \in Strings \cup {<<>>}
        /\ Copied(p) /\ g.pos \in 0 .. Cut(latest)
    BY <1>0, <1>6, Reading DEF g
  <2>2. g.pos = Cut(latest)
    BY <1>3, <2>1, FirstNul
  <2>3. \A i \in 1 .. g.pos : g.out[i] = latest[i]
    BY <1>0, <2>1 DEF Copied, g
  <2>4. g.out = SubSeq(latest, 1, Cut(latest))
    BY <1>1, <2>1, <2>2, <2>3, OutIsPrefix
  <2> QED
    BY <1>1, <1>2, <1>4, <2>4 DEF Copied
<1> QED
  BY <1>1, <1>2, <1>4, <1>5, <1>6, Looker

(* IOCTL_GET_NTH_BYTE.                                                       *)
LEMMA NthByteCopies ==
    ASSUME IInv, LInv, NEW p \in Client, NthByte(p)
    PROVE  LInv'
<1>1. frame[p] \in Frame /\ TypeOK /\ Frames(p) /\ at[p] = "nth"
  BY DEF IInv, TypeOK, LInv, Proc, NthByte, Goes
<1>2. call[p] = "GET_NTH_BYTE" /\ ~Setting(p)
  BY <1>1 DEF Frames, Setting
<1>n. PICK b : frame' = [frame EXCEPT ![p].seen = b]
  BY DEF NthByte
<1> DEFINE h == [frame[p] EXCEPT !.seen = b]
<1>h. h.by = "ioctl" /\ h.start = 0
  BY <1>1 DEF Frame, Frames
<1>3. /\ at' = [at EXCEPT ![p] = "leave"] /\ frame' = [frame EXCEPT ![p] = h]
      /\ call' = [call EXCEPT ![p] = call[p]] /\ message' = message /\ latest' = latest
  BY <1>1, <1>n DEF NthByte, Goes, TypeOK
<1> HIDE DEF h
<1>4. OthersStay(p) /\ at'[p] = "leave" /\ frame'[p] = h /\ call'[p] = call[p]
  BY <1>1, <1>3, OnlyMoves
<1>5. Frames(p)' /\ Copied(p)'
  BY <1>1, <1>2, <1>4, <1>h DEF Frames, Copied
<1> QED
  BY <1>2, <1>3, <1>4, <1>5, Looker

(* The end of device_ioctl: a string that was set is the latest message.     *)
LEMMA LeaveIoctlCopies ==
    ASSUME IInv, Exclusion, LInv, NEW p \in Client, LeaveIoctl(p)
    PROVE  LInv'
<1> DEFINE g == frame[p]
           more == call[p] = "GET_NTH_BYTE" /\ g.seen # 0
           done == p \notin Client \/ call[p] = "GET_MSG"
           a == IF done THEN "out" ELSE "call"
           c == IF done THEN FirstCall(p)
                ELSE IF call[p] = "SET_MSG" \/ more THEN "GET_NTH_BYTE" ELSE "GET_MSG"
<1>1. /\ TypeOK /\ Frames(p) /\ at[p] = "leave" /\ message' = message
      /\ NoFrame.pos = 0 /\ NoFrame.by = "ioctl" /\ NoFrame.start = 0
  BY DEF IInv, TypeOK, LInv, Proc, LeaveIoctl, Goes, NoFrame
<1>2. /\ at' = [at EXCEPT ![p] = a] /\ frame' = [frame EXCEPT ![p] = NoFrame]
      /\ call' = [call EXCEPT ![p] = c]
      /\ latest' = IF call[p] = "SET_MSG" /\ g.arg # <<>> /\ latest # Mixed THEN g.arg ELSE latest
  BY DEF LeaveIoctl, Goes, Set
<1>3. a = "out" \/ (a = "call" /\ c # "SET_MSG")
  OBVIOUS
<1> HIDE DEF a, c
<1>4. OthersStay(p) /\ at'[p] = a /\ frame'[p] = NoFrame /\ call'[p] = c
  BY <1>1, <1>2, OnlyMoves
<1>5. Frames(p)' /\ Copied(p)'
  BY <1>1, <1>3, <1>4 DEF Frames, Copied
<1>6. Alone(p)
  BY <1>1, AloneInside DEF Busy
<1>7. Whole'
  <2>1. CASE call[p] = "SET_MSG" /\ g.arg # <<>> /\ latest # Mixed
    <3>1. Holds(g.arg) /\ latest' = g.arg
      BY <1>1, <1>2, <2>1 DEF LInv, Copied
    <3> HIDE DEF g
    <3> QED
      BY <1>1, <3>1 DEF Whole, Holds
  <2>2. CASE ~(call[p] = "SET_MSG" /\ g.arg # <<>> /\ latest # Mixed)
    <3>1. latest' = latest
      BY <1>2, <2>2
    <3>2. CASE latest = Mixed
      BY <3>1, <3>2 DEF Whole
    <3>3. CASE latest # Mixed
      <4>1. ~Setting(p)
        BY <2>2, <3>3 DEF Setting
      <4>2. Holds(latest)
        BY <1>1, <3>3, <4>1, WholeInside DEF Busy
      <4> QED
        BY <1>1, <3>1, <4>2 DEF Whole, Holds
    <3> QED
      BY <3>2, <3>3
  <2> QED
    BY <2>1, <2>2
<1> QED
  BY <1>4, <1>5, <1>6, <1>7, Mover

(* A client never loads from behind message[].                               *)
LEMMA NoFault ==
    ASSUME IInv, LInv, NEW p \in Client
    PROVE  ~Fault(p)
<1>1. p \in Proc /\ TypeOK /\ Indices(p) /\ frame[p].start = 0 /\ BUF_LEN \in Nat
  BY Chardev2Assumption DEF IInv, LInv, Frames, Proc
<1>2. frame[p].pos \in Nat /\ n[p] \in Nat
  BY <1>1 DEF TypeOK, Frame
<1> QED
  BY <1>1, <1>2 DEF Indices, Fault

-----------------------------------------------------------------------------
(* For any clients, any processes that read and write meanwhile or ask for   *)
(* bytes anywhere, any buffer size and any strings, the empty one included:  *)
(* IOCTL_GET_MSG returns the string of the last IOCTL_SET_MSG that was given *)
(* one that is not empty, unless write() has put bytes in the message.       *)
THEOREM FetchesLatest == Spec => []LatestMessage
<1>1. Init => LInv
  <2> SUFFICES ASSUME Init PROVE LInv
    OBVIOUS
  <2>1. /\ Cut(<<>>) = 0 /\ 0 \in 0 .. BUF_LEN
        /\ NoFrame.pos = 0 /\ NoFrame.by = "ioctl" /\ NoFrame.start = 0
    BY Chardev2Assumption DEF Cut, NoFrame
  <2>2. Holds(<<>>)
    BY <2>1 DEF Init, Holds
  <2>3. ASSUME NEW p \in Client PROVE Frames(p) /\ Copied(p)
    BY <2>1 DEF Init, Frames, Copied, Proc
  <2> QED
    BY <2>2, <2>3 DEF LInv, Whole, Init
<1>2. Init => Exclusion
  BY ExclusionInit
<1>3. IInv /\ Exclusion /\ [Next]_vars => Exclusion'
  BY ExclusionStep DEF IInv
<1>4. IInv /\ Exclusion /\ LInv /\ [Next]_vars => LInv'
  <2> SUFFICES ASSUME IInv, Exclusion, LInv, [Next]_vars PROVE LInv'
    OBVIOUS
  <2>1. CASE UNCHANGED vars
    BY <2>1, Bystander DEF vars
  <2>2. ASSUME NEW p \in Proc, p \notin Client,
               \/ ClientStart(p) \/ RawWrite(p) \/ RawRead(p) \/ RawNth(p)
               \/ device_ioctl(p) \/ Handler(p)
        PROVE  LInv'
    BY <2>2, RawStarts, RawHandler DEF IInv
  <2>3. ASSUME NEW p \in Client, ClientStart(p) \/ device_ioctl(p) PROVE LInv'
    BY <2>3, StartCopies, IoctlCopies
  <2>4. ASSUME NEW p \in Client, RawWrite(p) \/ RawRead(p) \/ RawNth(p) PROVE LInv'
    BY <2>4, Chardev2Assumption DEF RawWrite, RawRead, RawNth
  <2>5. ASSUME NEW p \in Client, Handler(p) PROVE LInv'
    BY <2>5, WriteByteCopies, WriteReturnsCopies, ReadEofCopies, ReadTestCopies,
       ReadPutCopies, ReadReturnsCopies, NthByteCopies, LeaveIoctlCopies, NoFault DEF Handler
  <2> QED
    BY <2>1, <2>2, <2>3, <2>4, <2>5 DEF Next
<1>5. LInv => LatestMessage
  BY DEF LInv, Copied, LatestMessage, Cut
<1> QED
  BY <1>1, <1>2, <1>3, <1>4, <1>5, Inductive, PTL DEF Spec
=============================================================================
