-------------------------- MODULE SingleOpenProofs --------------------------
(***************************************************************************)
(* chardev.c and static_key.c for any number of processes, threads, opens   *)
(* and read lengths: they implement ExclusiveFile, and every read returns a *)
(* piece of the message made by its own open.                               *)
(***************************************************************************)
EXTENDS SingleOpen, SequenceTheorems, TLAPS

-----------------------------------------------------------------------------
(* Exclusion                                                                *)

At == {"out", "asking", "refused", "opening", "open", "closing"}

(* The flag is set exactly while some process is between its                *)
(* compare-and-exchange and the end of device_release, and only one is.     *)
Exclusion ==
    /\ at \in [Proc -> At]
    /\ already_open \in {0, 1}
    /\ already_open = 1 <=> \E p \in Proc : Owns(p)
    /\ \A p, q \in Proc : Owns(p) /\ Owns(q) => p = q

(* What a step does to the flag and to the places of the processes: most    *)
(* steps do nothing, the others move one process.                           *)
Moves(p) ==
    \/ OpenCall(p) \/ CmpXchg(p) \/ ReturnEbusy(p) \/ MakeMessage(p)
    \/ CloseCall(p) \/ device_release(p)

(* Reads and writes leave the flag and the places of the openers.           *)
LEMMA OtherStepsStay ==
    ASSUME NEW p \in Proc,
           device_write(p) \/ \E t \in Thread : ReadCall(p, t) \/ Reading(p, t)
    PROVE  UNCHANGED <<at, already_open>>
BY DEF device_write, ReadCall, Reading, ReadEof, ReadStart, PutByte, ReadReturns

(* The compare-and-exchange lets nobody in while the flag is set, and the   *)
(* flag is cleared only by the one owner.                                   *)
LEMMA ExclusionStep ==
    ASSUME Exclusion, [Next]_vars
    PROVE  Exclusion'
<1> USE DEF Exclusion, Owns, At, Goes
<1>1. ASSUME NEW p \in Proc, Moves(p)
      PROVE  Exclusion'
  <2>1. CASE OpenCall(p)
    BY <2>1 DEF OpenCall
  <2>2. CASE CmpXchg(p)
    BY <2>2 DEF CmpXchg
  <2>3. CASE ReturnEbusy(p)
    BY <2>3 DEF ReturnEbusy
  <2>4. CASE MakeMessage(p)
    BY <2>4 DEF MakeMessage
  <2>5. CASE CloseCall(p)
    BY <2>5 DEF CloseCall
  <2>6. CASE device_release(p)
    BY <2>6 DEF device_release
  <2> QED
    BY <1>1, <2>1, <2>2, <2>3, <2>4, <2>5, <2>6 DEF Moves
<1>2. CASE UNCHANGED <<at, already_open>>
  BY <1>2
<1> QED
  BY <1>1, <1>2, OtherStepsStay DEF Next, Moves, vars

(* Nobody has a device open that has just been loaded.                      *)
LEMMA InitExclusion == Init => Exclusion
BY DEF Init, Exclusion, Owns, At

(* So one process at a time owns the device, always.                        *)
LEMMA AlwaysExclusion == Spec => []Exclusion
BY InitExclusion, ExclusionStep, PTL DEF Spec

-----------------------------------------------------------------------------
(* Refinement                                                               *)

(* The process that has the device is the abstract owner.                   *)
LEMMA OwnerIsHolder ==
    ASSUME Exclusion, NEW p \in Proc, Owns(p)
    PROVE  owner = p
<1>1. \A q \in Proc : Owns(q) <=> q = p
  BY DEF Exclusion
<1> QED
  BY <1>1 DEF owner

(* The flag says whether the abstract file has an owner.                    *)
LEMMA FlagIsOwner ==
    ASSUME Exclusion
    PROVE  already_open = 0 <=> owner = NoProc
<1>1. CASE \E p \in Proc : Owns(p)
  BY <1>1, OwnerIsHolder, SingleOpenAssumption DEF Exclusion
<1>2. CASE ~ \E p \in Proc : Owns(p)
  BY <1>2 DEF Exclusion, owner
<1> QED
  BY <1>1, <1>2

(* A step that moves one process moves that caller only.                    *)
LEMMA CallerMoves ==
    ASSUME Exclusion, NEW p \in Proc, NEW from, NEW to \in At, Goes(p, from, to)
    PROVE  /\ caller' = [caller EXCEPT ![p] = callerOf(p)']
           /\ at[p] = from /\ at'[p] = to
           /\ caller[p] = callerOf(p)
<1>1. \A q \in Proc \ {p} : callerOf(q)' = callerOf(q)
  BY DEF Goes, Exclusion, callerOf, Owns
<1>2. at[p] = from /\ at'[p] = to
  BY DEF Goes, Exclusion
<1> QED
  BY <1>1, <1>2 DEF caller

(* A process that owns the file neither before nor after its step leaves    *)
(* the owner alone, and so does one that owns it before and after.          *)
LEMMA OwnerStays ==
    ASSUME Exclusion, Exclusion', NEW p \in Proc, NEW from, NEW to, Goes(p, from, to),
           Owns(p) <=> Owns(p)'
    PROVE  owner' = owner
<1>1. \A q \in Proc : Owns(q)' <=> Owns(q)
  BY DEF Goes, Exclusion, Owns
<1>2. (CHOOSE q \in Proc : Owns(q)') = (CHOOSE q \in Proc : Owns(q))
  BY <1>1
<1> QED
  BY <1>1, <1>2 DEF owner

(* Each move of a process is the abstract step of the same meaning; making  *)
(* the message and calling close() are invisible.                           *)
LEMMA MoveRefines ==
    ASSUME Exclusion, Exclusion', NEW p \in Proc, Moves(p)
    PROVE  [Exclusive!Next]_<<owner, caller>>
<1> USE DEF Exclusive!Goes
<1>1. CASE OpenCall(p)
  <2>1. Goes(p, "out", "asking")
    BY <1>1 DEF OpenCall
  <2>2. caller' = [caller EXCEPT ![p] = "asking"] /\ caller[p] = "idle"
    BY <2>1, CallerMoves DEF callerOf, Owns, At
  <2>3. owner' = owner
    BY <2>1, OwnerStays, CallerMoves DEF Owns, At
  <2> QED
    BY <2>2, <2>3 DEF Exclusive!Next, Exclusive!Ask
<1>2. CASE CmpXchg(p) /\ already_open = 0
  <2>1. Goes(p, "asking", "opening")
    BY <1>2 DEF CmpXchg
  <2>2. caller' = [caller EXCEPT ![p] = "owning"] /\ caller[p] = "asking"
    BY <2>1, CallerMoves DEF callerOf, Owns, At
  <2>3. owner = NoProc
    BY <1>2, FlagIsOwner
  <2>4. Owns(p)'
    BY <2>1, CallerMoves DEF Owns, At
  <2>5. owner' = p
    <3>1. \A q \in Proc : Owns(q)' <=> q = p
      BY <2>4 DEF Exclusion
    <3> QED
      BY <3>1 DEF owner
  <2> QED
    BY <2>2, <2>3, <2>5 DEF Exclusive!Next, Exclusive!Grant
<1>3. CASE CmpXchg(p) /\ already_open = 1
  <2>1. Goes(p, "asking", "refused")
    BY <1>3 DEF CmpXchg
  <2>2. caller' = [caller EXCEPT ![p] = "refused"] /\ caller[p] = "asking"
    BY <2>1, CallerMoves DEF callerOf, Owns, At
  <2>3. owner # NoProc
    BY <1>3, FlagIsOwner
  <2>4. owner' = owner
    BY <2>1, OwnerStays, CallerMoves DEF Owns, At
  <2> QED
    BY <2>2, <2>3, <2>4 DEF Exclusive!Next, Exclusive!Refuse
<1>4. CASE ReturnEbusy(p)
  <2>1. Goes(p, "refused", "out")
    BY <1>4 DEF ReturnEbusy
  <2>2. caller' = [caller EXCEPT ![p] = "idle"] /\ caller[p] = "refused"
    BY <2>1, CallerMoves DEF callerOf, Owns, At
  <2>3. owner' = owner
    BY <2>1, OwnerStays, CallerMoves DEF Owns, At
  <2> QED
    BY <2>2, <2>3 DEF Exclusive!Next, Exclusive!Return
<1>5. CASE MakeMessage(p) \/ CloseCall(p)
  <2>1. PICK from \in {"opening", "open"}, to \in {"open", "closing"} : Goes(p, from, to)
    BY <1>5 DEF MakeMessage, CloseCall
  <2>2. caller' = [caller EXCEPT ![p] = "owning"] /\ caller[p] = "owning"
    BY <2>1, CallerMoves DEF callerOf, Owns, At
  <2>3. owner' = owner
    BY <2>1, OwnerStays, CallerMoves DEF Owns, At
  <2> QED
    BY <2>2, <2>3 DEF caller
<1>6. CASE device_release(p)
  <2>1. Goes(p, "closing", "out")
    BY <1>6 DEF device_release
  <2>2. caller' = [caller EXCEPT ![p] = "idle"] /\ caller[p] = "owning"
    BY <2>1, CallerMoves DEF callerOf, Owns, At
  <2>3. owner = p
    BY <2>1, OwnerIsHolder, CallerMoves DEF Owns, At
  <2>4. owner' = NoProc
    <3>1. ~ \E q \in Proc : Owns(q)'
      BY <1>6 DEF device_release, Exclusion
    <3> QED
      BY <3>1 DEF owner
  <2> QED
    BY <2>2, <2>3, <2>4 DEF Exclusive!Next, Exclusive!Release
<1> QED
  BY <1>1, <1>2, <1>3, <1>4, <1>5, <1>6 DEF Moves, Exclusion

(* chardev.c and static_key.c implement the exclusive file for any set of   *)
(* processes and threads: the compare-and-exchange is the grant or the      *)
(* refusal, and the store of device_release, made when the last call on the *)
(* file has ended, is the release.                                          *)
THEOREM Refinement == Spec => ImplementsExclusiveFile
<1>1. Init => Exclusive!Init
  BY DEF Init, Exclusive!Init, owner, caller, callerOf, Owns
<1>2. Exclusion /\ Exclusion' /\ [Next]_vars => [Exclusive!Next]_<<owner, caller>>
  <2> SUFFICES ASSUME Exclusion, Exclusion', [Next]_vars
               PROVE  [Exclusive!Next]_<<owner, caller>>
    OBVIOUS
  <2>1. CASE UNCHANGED <<at, already_open>>
    BY <2>1 DEF owner, caller, callerOf, Owns
  <2>2. ASSUME NEW p \in Proc, Moves(p)
        PROVE  [Exclusive!Next]_<<owner, caller>>
    BY <2>2, MoveRefines
  <2> QED
    BY <2>1, <2>2, OtherStepsStay DEF Next, Moves, vars
<1> QED
  BY <1>1, <1>2, AlwaysExclusion, PTL
     DEF Spec, ImplementsExclusiveFile, Exclusive!Spec, Exclusive!vars

-----------------------------------------------------------------------------
(* What a read returns                                                      *)

CallType == [at : {"idle", "eof", "copy"}, left : Nat, start : Buffer, out : Seq(Nat)]

(* A read() under way has put a piece of the message made by the open, from *)
(* where it started.  As long as no two reads have overlapped, it started   *)
(* where the bytes read so far end.                                         *)
CallOf(p, t) ==
    LET c == call[p][t] IN
    c # Idle => /\ c.at # "idle"
                /\ c.at = "eof" => c.out = <<>>
                /\ c.start + Len(c.out) <= Len(made[p])
                /\ c.out = SubSeq(made[p], c.start + 1, c.start + Len(c.out))
                /\ got[p] # Mixed => /\ c.start = f_pos[p]
                                     /\ \A u \in Thread \ {t} : call[p][u] = Idle

(* Of a process that has no open file nothing is left.  For one that has,   *)
(* msg[] holds the text made by its open, which has no NUL inside, followed *)
(* by a NUL: nobody else makes a message as long as it is open.             *)
FileOf(p) ==
    /\ at[p] \notin {"open", "closing"} =>
          /\ f_pos[p] = 0 /\ made[p] = <<>> /\ got[p] = <<>>
          /\ \A t \in Thread : call[p][t] = Idle
    /\ at[p] \in {"open", "closing"} =>
          /\ made[p] \in Seq(Nat \ {0})
          /\ Len(made[p]) <= BUF_LEN
          /\ \A i \in 0 .. Len(made[p]) - 1 : msg[i] = made[p][i + 1]
          /\ msg[Len(made[p])] = 0
          /\ f_pos[p] <= Len(made[p])
          /\ got[p] # Mixed => got[p] = SubSeq(made[p], 1, f_pos[p])
          /\ \A t \in Thread : CallOf(p, t)

(* The position that a read writes back is inside msg[] because of FileOf,  *)
(* so the types cannot be had without it.                                   *)
IInv == TypeOK /\ Exclusion /\ \A p \in Proc : FileOf(p)

USE DEF CallType, Buffer, BUF_LEN

(* The texts have at least one byte, at most BUF_LEN, and no NUL.           *)
LEMMA TextIsText ==
    ASSUME TypeOK, NEW e \in BOOLEAN
    PROVE  Text(counter, e) \in Seq(Nat \ {0}) /\ Len(Text(counter, e)) \in 1 .. BUF_LEN
<1>1. counter \in Nat
  BY SingleOpenAssumption DEF TypeOK
<1>2. CASE driver = "chardev"
  <2> DEFINE two == << 2 * counter + 1, 2 * counter + 2 >>
  <2>1. two \in Seq(Nat \ {0}) /\ Len(two) = 2
    BY <1>1
  <2> QED
    BY <1>2, <2>1 DEF Text
<1>3. CASE driver # "chardev"
  <2>1. <<1, 2>> \in Seq(Nat \ {0}) /\ Len(<<1, 2>>) = 2
    OBVIOUS
  <2>2. <<3, 4, 5>> \in Seq(Nat \ {0}) /\ Len(<<3, 4, 5>>) = 3
    OBVIOUS
  <2>3. Text(counter, e) = <<1, 2>> \/ Text(counter, e) = <<3, 4, 5>>
    BY <1>3, Zenon DEF Text
  <2>4. CASE Text(counter, e) = <<1, 2>>
    BY <2>1, <2>4
  <2>5. CASE Text(counter, e) = <<3, 4, 5>>
    BY <2>2, <2>5
  <2> QED
    BY <2>3, <2>4, <2>5
<1> QED
  BY <1>2, <1>3

(* A step that touches neither msg[] nor anything of q keeps FileOf(q).     *)
LEMMA FileFrame ==
    ASSUME NEW q \in Proc, FileOf(q), msg' = msg, at'[q] = at[q], f_pos'[q] = f_pos[q],
           call'[q] = call[q], made'[q] = made[q], got'[q] = got[q]
    PROVE  FileOf(q)'
BY DEF FileOf, CallOf

(* Bytes 1 .. a of the text followed by the piece after a are 1 .. b.       *)
LEMMA PieceAfterPiece ==
    ASSUME NEW s \in Seq(Nat \ {0}), NEW a \in 0 .. Len(s), NEW b \in a .. Len(s)
    PROVE  SubSeq(s, 1, a) \o SubSeq(s, a + 1, b) = SubSeq(s, 1, b)
BY ConcatAdjacentSubSeq

(* A piece with the next byte appended is the piece one longer.             *)
LEMMA PieceAndByte ==
    ASSUME NEW s \in Seq(Nat \ {0}), NEW a \in 0 .. Len(s) - 1, NEW b \in a .. Len(s) - 1
    PROVE  Append(SubSeq(s, a + 1, b), s[b + 1]) = SubSeq(s, a + 1, b + 1)
<1>1. SubSeq(s, a + 1, b) \in Seq(Nat \ {0}) /\ s[b + 1] \in Nat \ {0}
  <2>1. \A i \in a + 1 .. b + 1 : s[i] \in Nat \ {0}
    OBVIOUS
  <2> QED
    BY <2>1, SubSeqProperties
<1>2. SubSeq(s, a + 1, b + 1) = SubSeq(s, a + 1, b) \o <<s[b + 1]>>
  BY SubSeqRecursiveSecond
<1> QED
  BY <1>1, <1>2, AppendIsConcat

(* What has been read is never taken for the mark of overlapping reads.     *)
LEMMA PieceNotMixed ==
    ASSUME NEW s \in Seq(Nat \ {0}), NEW b \in 0 .. Len(s)
    PROVE  SubSeq(s, 1, b) # Mixed
<1>1. SubSeq(s, 1, b) \in Seq(Nat \ {0})
  BY SubSeqProperties
<1>2. ASSUME NEW u \in Seq(Nat \ {0}), u = Mixed
      PROVE  FALSE
  <2>1. 1 \in 1 .. Len(u) /\ u[1] = 0
    BY <1>2 DEF Mixed
  <2>2. u[1] \in Nat \ {0}
    BY <2>1, ElementOfSeq
  <2> QED
    BY <2>1, <2>2
<1> QED
  BY <1>1, <1>2, Zenon

-----------------------------------------------------------------------------
(* Steps that move a process.  Only MakeMessage writes msg[], and then no   *)
(* process has the file open: the caller is the owner and is not there yet. *)
LEMMA MoveKeepsFiles ==
    ASSUME IInv, NEW p \in Proc, Moves(p)
    PROVE  TypeOK' /\ \A q \in Proc : FileOf(q)'
<1> USE DEF IInv, Goes
<1>0. at[p] \in At /\ at \in [Proc -> At]
  BY DEF Exclusion
<1>1. CASE OpenCall(p) \/ CmpXchg(p) \/ ReturnEbusy(p) \/ CloseCall(p)
  <2>1. /\ UNCHANGED <<driver, msg, counter, fkey, f_pos, call, made, got>>
        /\ \E to \in At : at' = [at EXCEPT ![p] = to]
        /\ at[p] \in {"open", "closing"} <=> at'[p] \in {"open", "closing"}
        /\ already_open' \in {0, 1}
    BY <1>0, <1>1 DEF OpenCall, CmpXchg, ReturnEbusy, CloseCall, At, Exclusion
  <2>2. TypeOK'
    BY <1>0, <2>1 DEF TypeOK, At
  <2>3. FileOf(p)'
    BY <2>1 DEF FileOf, CallOf
  <2>4. \A q \in Proc \ {p} : FileOf(q)'
    BY <1>0, <2>1, FileFrame
  <2> QED
    BY <2>2, <2>3, <2>4
<1>2. CASE MakeMessage(p)
  <2>1. PICK text \in Seq(Nat \ {0}) :
           text = Text(counter, fkey) /\ Len(text) \in 1 .. BUF_LEN
    BY TextIsText DEF TypeOK
  <2>2. /\ at[p] = "opening" /\ at' = [at EXCEPT ![p] = "open"]
        /\ counter < MaxOpens /\ counter' = counter + 1
        /\ msg' = [i \in Buffer |-> IF i < Len(text) THEN text[i + 1]
                                    ELSE IF i = Len(text) THEN 0 ELSE msg[i]]
        /\ made' = [made EXCEPT ![p] = text]
        /\ UNCHANGED <<driver, already_open, fkey, f_pos, call, got>>
    BY <1>2, <2>1 DEF MakeMessage, Sprintf
  <2>3. text \in Seq(Nat) /\ \A i \in 1 .. Len(text) : text[i] \in Nat \ {0}
    BY <2>1
  <2>4. TypeOK'
    <3>1. msg' \in [Buffer -> Nat]
      <4>1. \A i \in Buffer : i < Len(text) => text[i + 1] \in Nat
        BY <2>1, <2>3
      <4> QED
        BY <2>2, <4>1 DEF TypeOK
    <3>2. counter' \in 0 .. MaxOpens
      BY <2>2, SingleOpenAssumption DEF TypeOK
    <3>3. made' \in [Proc -> Seq(Nat)]
      BY <2>2, <2>3 DEF TypeOK
    <3> QED
      BY <2>2, <3>1, <3>2, <3>3 DEF TypeOK
  <2>5. FileOf(p)'
    <3>1. f_pos'[p] = 0 /\ got'[p] = <<>> /\ \A t \in Thread : call'[p][t] = Idle
      BY <2>2 DEF FileOf
    <3>2. made'[p] = text /\ at'[p] = "open"
      BY <2>2 DEF TypeOK
    <3>3. ASSUME NEW i \in 0 .. Len(text) - 1
          PROVE  msg'[i] = text[i + 1]
      <4>1. \A n \in 1 .. BUF_LEN : i \in 0 .. n - 1 => i \in Buffer /\ i < n
        OBVIOUS
      <4>2. i \in Buffer /\ i < Len(text)
        BY <2>1, <4>1
      <4> QED
        BY <2>2, <4>2
    <3>4. msg'[Len(text)] = 0
      BY <2>1, <2>2
    <3>5. SubSeq(text, 1, 0) = <<>>
      BY SubSeqEmpty
    <3> QED
      BY <2>1, <3>1, <3>2, <3>3, <3>4, <3>5 DEF FileOf, CallOf
  <2>6. ASSUME NEW q \in Proc \ {p}
        PROVE  FileOf(q)'
    <3>1. at[q] \notin {"open", "closing"} /\ at'[q] = at[q]
      BY <2>2 DEF Exclusion, Owns
    <3> QED
      BY <2>2, <3>1 DEF FileOf
  <2> QED
    BY <2>4, <2>5, <2>6
<1>3. CASE device_release(p)
  <2>1. /\ \A t \in Thread : call[p][t] = Idle
        /\ at[p] = "closing" /\ at' = [at EXCEPT ![p] = "out"]
        /\ already_open' = 0
        /\ f_pos' = [f_pos EXCEPT ![p] = 0]
        /\ made' = [made EXCEPT ![p] = <<>>]
        /\ got' = [got EXCEPT ![p] = <<>>]
        /\ UNCHANGED <<driver, msg, counter, fkey, call>>
    BY <1>3 DEF device_release, FileFreed
  <2>2. TypeOK'
    BY <2>1 DEF TypeOK
  <2>3. FileOf(p)'
    BY <2>1 DEF FileOf, TypeOK
  <2>4. \A q \in Proc \ {p} : FileOf(q)'
    BY <2>1, FileFrame
  <2> QED
    BY <2>2, <2>3, <2>4
<1> QED
  BY <1>1, <1>2, <1>3 DEF Moves

-----------------------------------------------------------------------------
(* Steps of a read(): they change the call of one thread, the position of   *)
(* its file and what has been read, and nothing else.                       *)
ReadStep(p, t, c, pos, bytes) ==
    /\ call' = [call EXCEPT ![p][t] = c]
    /\ f_pos' = [f_pos EXCEPT ![p] = pos]
    /\ got' = [got EXCEPT ![p] = bytes]
    /\ UNCHANGED <<driver, already_open, msg, counter, fkey, at, made>>

(* Such a step keeps the types and the other files.                         *)
LEMMA ReadStepFrame ==
    ASSUME IInv, NEW p \in Proc, NEW t \in Thread, NEW c \in CallType,
           NEW pos \in Buffer, NEW bytes \in Seq(Nat), ReadStep(p, t, c, pos, bytes)
    PROVE  /\ TypeOK'
           /\ \A q \in Proc \ {p} : FileOf(q)'
           /\ call'[p][t] = c /\ \A u \in Thread \ {t} : call'[p][u] = call[p][u]
           /\ f_pos'[p] = pos /\ got'[p] = bytes
<1>1. call'[p] = [call[p] EXCEPT ![t] = c] /\ \A q \in Proc \ {p} : call'[q] = call[q]
  BY DEF ReadStep, IInv, TypeOK
<1>2. call[p] \in [Thread -> CallType]
  BY DEF IInv, TypeOK
<1>3. TypeOK'
  <2>1. call' \in [Proc -> [Thread -> CallType]]
    BY <1>1, <1>2 DEF ReadStep, IInv, TypeOK
  <2>2. f_pos' \in [Proc -> Buffer] /\ got' \in [Proc -> Seq(Nat)]
    BY DEF ReadStep, IInv, TypeOK
  <2> QED
    BY <2>1, <2>2 DEF ReadStep, IInv, TypeOK
<1>4. ASSUME NEW q \in Proc \ {p}
      PROVE  FileOf(q)'
  <2>1. f_pos'[q] = f_pos[q] /\ got'[q] = got[q]
    BY DEF ReadStep, IInv, TypeOK
  <2> QED
    BY <1>1, <2>1, FileFrame DEF ReadStep, IInv
<1>5. f_pos'[p] = pos /\ got'[p] = bytes
  BY DEF ReadStep, IInv, TypeOK
<1> QED
  BY <1>1, <1>2, <1>3, <1>4, <1>5

(* The record of a read() has its fields.                                   *)
LEMMA CallFields ==
    ASSUME IInv, NEW p \in Proc, NEW t \in Thread
    PROVE  /\ call[p][t] \in CallType
           /\ call[p][t].at \in {"idle", "eof", "copy"} /\ call[p][t].left \in Nat
           /\ call[p][t].start \in Buffer /\ call[p][t].out \in Seq(Nat)
           /\ f_pos[p] \in Buffer /\ got[p] \in Seq(Nat)
<1>1. call[p][t] \in CallType
  BY DEF IInv, TypeOK
<1> QED
  BY <1>1 DEF IInv, TypeOK

(* A thread that is in a read() is in one of an open file.                  *)
LEMMA CallIsOpen ==
    ASSUME IInv, NEW p \in Proc, NEW t \in Thread, call[p][t].at # "idle"
    PROVE  /\ at[p] \in {"open", "closing"}
           /\ call[p][t] # Idle
           /\ CallOf(p, t)
<1>1. Idle.at = "idle"
  BY DEF Idle
<1> QED
  BY <1>1 DEF IInv, FileOf

(* The byte that a read() looks at is one of the message or its NUL.        *)
LEMMA ByteOfMessage ==
    ASSUME IInv, NEW p \in Proc, at[p] \in {"open", "closing"},
           NEW i \in 0 .. Len(made[p])
    PROVE  /\ i < Len(made[p]) => msg[i] = made[p][i + 1] /\ made[p][i + 1] \in Nat \ {0}
           /\ i = Len(made[p]) => msg[i] = 0
<1>1. made[p] \in Seq(Nat \ {0}) /\ Len(made[p]) \in Nat
  BY DEF IInv, FileOf
<1>2. ASSUME i < Len(made[p])
      PROVE  msg[i] = made[p][i + 1] /\ made[p][i + 1] \in Nat \ {0}
  <2>1. i \in 0 .. Len(made[p]) - 1 /\ i + 1 \in 1 .. Len(made[p])
    BY <1>1, <1>2
  <2>2. made[p][i + 1] \in Nat \ {0}
    BY <1>1, <2>1, ElementOfSeq
  <2> QED
    BY <2>1, <2>2 DEF IInv, FileOf
<1> QED
  BY <1>2 DEF IInv, FileOf

(* A read() that starts while another thread is in one marks what is read   *)
(* as mixed; otherwise it starts where the last one ended.                  *)
LEMMA ReadCallKeepsFiles ==
    ASSUME IInv, NEW p \in Proc, NEW t \in Thread, ReadCall(p, t)
    PROVE  TypeOK' /\ \A q \in Proc : FileOf(q)'
<1>1. PICK len \in ReadLens :
         call' = [call EXCEPT ![p][t] = [at |-> "eof", left |-> len,
                                         start |-> f_pos[p], out |-> <<>>]]
  BY DEF ReadCall
<1>2. PICK c \in CallType : /\ call' = [call EXCEPT ![p][t] = c]
                            /\ c.at = "eof" /\ c.start = f_pos[p] /\ c.out = <<>>
  <2>1. len \in Nat /\ f_pos[p] \in Buffer
    BY SingleOpenAssumption DEF IInv, TypeOK
  <2> DEFINE c == [at |-> "eof", left |-> len, start |-> f_pos[p], out |-> <<>>]
  <2>2. call' = [call EXCEPT ![p][t] = c]
    BY <1>1
  <2>3. c \in CallType
    BY <2>1
  <2> QED
    BY <2>2, <2>3
<1>3. PICK bytes \in Seq(Nat) : /\ got' = [got EXCEPT ![p] = bytes]
                                /\ bytes # Mixed => ~Busy(p) /\ bytes = got[p]
  <2>1. got[p] \in Seq(Nat) /\ Mixed \in Seq(Nat)
    BY DEF IInv, TypeOK, Mixed
  <2>2. CASE Busy(p)
    <3>1. got' = [got EXCEPT ![p] = Mixed]
      BY <2>2 DEF ReadCall
    <3> QED
      BY <2>1, <3>1
  <2>3. CASE ~Busy(p)
    <3>1. got' = [got EXCEPT ![p] = got[p]]
      BY <2>3 DEF ReadCall
    <3> QED
      BY <2>1, <2>3, <3>1
  <2> QED
    BY <2>2, <2>3
<1>4. ReadStep(p, t, c, f_pos[p], bytes)
  BY <1>2, <1>3 DEF ReadCall, ReadStep, IInv, TypeOK
<1>5. at[p] = "open" /\ f_pos[p] \in Buffer
  BY DEF ReadCall, IInv, TypeOK
<1>6. /\ TypeOK' /\ \A q \in Proc \ {p} : FileOf(q)'
      /\ call'[p][t] = c /\ \A u \in Thread \ {t} : call'[p][u] = call[p][u]
      /\ f_pos'[p] = f_pos[p] /\ got'[p] = bytes
  BY <1>4, <1>5, ReadStepFrame
<1>7. bytes # Mixed => \A u \in Thread : call[p][u] = Idle
  BY <1>3 DEF Busy
<1>8. CallOf(p, t)'
  <2>1. SubSeq(made[p], f_pos[p] + 1, f_pos[p]) = <<>>
    BY <1>5, SubSeqEmpty
  <2>2. f_pos[p] <= Len(made[p]) /\ made' = made
    BY <1>4, <1>5 DEF IInv, FileOf, ReadStep
  <2>3. Len(c.out) = 0 /\ c.start + Len(c.out) = f_pos[p]
    BY <1>2, <1>5
  <2> QED
    BY <1>2, <1>6, <1>7, <2>1, <2>2, <2>3 DEF CallOf
<1>9. ASSUME NEW u \in Thread \ {t}
      PROVE  CallOf(p, u)'
  <2>1. CASE bytes = Mixed
    BY <1>4, <1>5, <1>6, <2>1 DEF CallOf, IInv, FileOf, ReadStep
  <2>2. CASE bytes # Mixed
    BY <1>6, <1>7, <2>2 DEF CallOf
  <2> QED
    BY <2>1, <2>2
<1>10. FileOf(p)'
  BY <1>3, <1>4, <1>5, <1>6, <1>8, <1>9 DEF FileOf, ReadStep, IInv
<1> QED
  BY <1>6, <1>10

(* The end of a read() writes the position back.  If reads have not         *)
(* overlapped this was the only one, so the position and the bytes read     *)
(* move on together.                                                        *)
LEMMA ReadEndKeepsFile ==
    ASSUME IInv, NEW p \in Proc, NEW t \in Thread, call[p][t].at # "idle",
           NEW pos \in Buffer, NEW bytes \in Seq(Nat), ReadStep(p, t, Idle, pos, bytes),
           pos <= Len(made[p]),
           got[p] = Mixed => bytes = Mixed,
           got[p] # Mixed => bytes = SubSeq(made[p], 1, pos)
    PROVE  TypeOK' /\ \A q \in Proc : FileOf(q)'
<1>1. at[p] \in {"open", "closing"} /\ call[p][t] # Idle /\ CallOf(p, t)
  BY CallIsOpen
<1>2. Idle \in CallType
  BY DEF Idle
<1>3. /\ TypeOK' /\ \A q \in Proc \ {p} : FileOf(q)'
      /\ call'[p][t] = Idle /\ \A u \in Thread \ {t} : call'[p][u] = call[p][u]
      /\ f_pos'[p] = pos /\ got'[p] = bytes
  BY <1>2, ReadStepFrame
<1>4. got[p] # Mixed => \A u \in Thread \ {t} : call[p][u] = Idle
  BY <1>1 DEF CallOf
<1>5. ASSUME NEW u \in Thread
      PROVE  CallOf(p, u)'
  <2>1. CASE u = t
    BY <1>3, <2>1 DEF CallOf
  <2>2. CASE u # t /\ got[p] # Mixed
    BY <1>3, <1>4, <2>2 DEF CallOf
  <2>3. CASE u # t /\ got[p] = Mixed
    <3>1. CallOf(p, u) /\ call'[p][u] = call[p][u] /\ got'[p] = Mixed
      BY <1>1, <1>3, <2>3 DEF IInv, FileOf
    <3> QED
      BY <3>1 DEF CallOf, ReadStep
  <2> QED
    BY <2>1, <2>2, <2>3
<1>6. FileOf(p)'
  BY <1>1, <1>3, <1>5 DEF FileOf, IInv, ReadStep
<1> QED
  BY <1>3, <1>6

(* The steps inside a read() that go on with it, one byte or none further.  *)
LEMMA ReadGoesOnKeepsFile ==
    ASSUME IInv, NEW p \in Proc, NEW t \in Thread, call[p][t].at # "idle",
           NEW c \in CallType, ReadStep(p, t, c, f_pos[p], got[p]),
           c.at = "copy", c.start = call[p][t].start,
           c.start + Len(c.out) <= Len(made[p]),
           c.out = SubSeq(made[p], c.start + 1, c.start + Len(c.out))
    PROVE  TypeOK' /\ \A q \in Proc : FileOf(q)'
<1>1. at[p] \in {"open", "closing"} /\ call[p][t] # Idle /\ CallOf(p, t)
  BY CallIsOpen
<1>2. f_pos[p] \in Buffer /\ got[p] \in Seq(Nat)
  BY CallFields
<1>3. /\ TypeOK' /\ \A q \in Proc \ {p} : FileOf(q)'
      /\ call'[p][t] = c /\ \A u \in Thread \ {t} : call'[p][u] = call[p][u]
      /\ f_pos'[p] = f_pos[p] /\ got'[p] = got[p] /\ made'[p] = made[p]
  <2>1. made' = made
    BY DEF ReadStep
  <2> QED
    BY <1>2, <2>1, ReadStepFrame
<1>4. CallOf(p, t)'
  BY <1>1, <1>3 DEF CallOf
<1>5. ASSUME NEW u \in Thread \ {t}
      PROVE  CallOf(p, u)'
  <2>1. got[p] # Mixed => call[p][u] = Idle
    BY <1>1 DEF CallOf
  <2>2. CallOf(p, u)
    BY <1>1 DEF IInv, FileOf
  <2> QED
    BY <1>3, <2>1, <2>2 DEF CallOf
<1>6. FileOf(p)'
  <2>1. \A u \in Thread : CallOf(p, u)'
    BY <1>4, <1>5
  <2>2. at' = at /\ msg' = msg /\ FileOf(p)
    BY DEF IInv, ReadStep
  <2> QED
    BY <1>1, <1>3, <2>1, <2>2 DEF FileOf
<1> QED
  BY <1>3, <1>6

(* A read() at the end of the message, one that begins to copy, one that    *)
(* puts a byte and one that returns.                                        *)
LEMMA ReadingKeepsFiles ==
    ASSUME IInv, NEW p \in Proc, NEW t \in Thread, Reading(p, t)
    PROVE  TypeOK' /\ \A q \in Proc : FileOf(q)'
<1> DEFINE c == call[p][t]
<1>1. /\ c \in CallType
      /\ c.at \in {"idle", "eof", "copy"} /\ c.left \in Nat /\ c.start \in Buffer
      /\ c.out \in Seq(Nat) /\ f_pos[p] \in Buffer /\ got[p] \in Seq(Nat)
  BY CallFields
<1>2. c.at # "idle"
  BY DEF Reading, ReadEof, AtEof, ReadStart, PutByte, ReadReturns
<1>3. at[p] \in {"open", "closing"} /\ c # Idle /\ CallOf(p, t)
  BY <1>2, CallIsOpen
<1>4. /\ c.start + Len(c.out) <= Len(made[p])
      /\ c.out = SubSeq(made[p], c.start + 1, c.start + Len(c.out))
      /\ c.at = "eof" => c.out = <<>>
      /\ got[p] # Mixed => c.start = f_pos[p]
  BY <1>3 DEF CallOf
<1>5. /\ made[p] \in Seq(Nat \ {0}) /\ Len(made[p]) <= BUF_LEN /\ Len(made[p]) \in Nat
      /\ got[p] # Mixed => got[p] = SubSeq(made[p], 1, f_pos[p])
  BY <1>3 DEF IInv, FileOf
<1>6. call = [call EXCEPT ![p][t] = c] /\ f_pos = [f_pos EXCEPT ![p] = f_pos[p]]
         /\ got = [got EXCEPT ![p] = got[p]]
  BY DEF IInv, TypeOK
<1>7. PICK a \in Nat, n \in Nat, m \in 0 .. BUF_LEN :
         a = c.start /\ n = Len(c.out) /\ m = Len(made[p]) /\ a + n <= m
  <2>1. Len(c.out) \in Nat /\ c.start \in Nat
    BY <1>1
  <2>2. \A k \in Nat : k <= BUF_LEN => k \in 0 .. BUF_LEN
    OBVIOUS
  <2> QED
    BY <1>4, <1>5, <2>1, <2>2
<1>8. a + n <= m /\ a <= m
  BY <1>7
<1>9. Mixed \in Seq(Nat) /\ <<>> \in Seq(Nat)
  BY DEF Mixed
<1>10. CASE ReadEof(p, t)
  <2>1. PICK bytes \in {Mixed, <<>>} :
           /\ got' = [got EXCEPT ![p] = bytes]
           /\ got[p] = Mixed => bytes = Mixed
           /\ got[p] # Mixed => bytes = <<>>
    BY <1>10, Zenon DEF ReadEof
  <2>2. ReadStep(p, t, Idle, 0, bytes)
    BY <1>10, <2>1 DEF ReadEof, EndsAt, ReadStep
  <2>3. SubSeq(made[p], 1, 0) = <<>>
    BY SubSeqEmpty
  <2>4. bytes \in Seq(Nat)
    BY <1>9, <2>1
  <2>5. 0 \in Buffer /\ 0 <= m
    OBVIOUS
  <2> QED
    BY <1>2, <1>7, <2>1, <2>2, <2>3, <2>4, <2>5, ReadEndKeepsFile
<1>11. CASE ReadStart(p, t)
  <2> DEFINE d == [at |-> "copy", left |-> c.left, start |-> c.start, out |-> c.out]
  <2>1. ReadStep(p, t, d, f_pos[p], got[p])
    BY <1>6, <1>11 DEF ReadStart, ReadStep
  <2>2. d \in CallType
    BY <1>1
  <2> QED
    BY <1>2, <1>4, <2>1, <2>2, ReadGoesOnKeepsFile
<1>12. CASE PutByte(p, t)
  <2> DEFINE d == [at |-> "copy", left |-> c.left - 1, start |-> c.start,
                   out |-> Append(c.out, NextByte(p, t))]
  <2>1. ReadStep(p, t, d, f_pos[p], got[p])
    BY <1>6, <1>12 DEF PutByte, ReadStep
  <2>2. a + n < m /\ NextByte(p, t) = made[p][a + n + 1] /\ NextByte(p, t) \in Nat
    <3>1. NextByte(p, t) = msg[a + n] /\ NextByte(p, t) # 0
      BY <1>7, <1>12 DEF PutByte, NextByte
    <3>2. a + n \in 0 .. Len(made[p])
      BY <1>7
    <3>3. a + n # m
      BY <1>3, <1>7, <3>1, <3>2, ByteOfMessage
    <3>4. a + n < m
      BY <1>8, <3>3
    <3> QED
      BY <1>3, <1>7, <3>1, <3>2, <3>4, ByteOfMessage
  <2>3. PICK out \in Seq(Nat) : out = Append(c.out, NextByte(p, t)) /\ Len(out) = n + 1
    <3>1. Append(c.out, NextByte(p, t)) \in Seq(Nat)
             /\ Len(Append(c.out, NextByte(p, t))) = Len(c.out) + 1
      BY <1>1, <2>2, AppendProperties
    <3> QED
      BY <1>7, <3>1
  <2>4. d \in CallType
    BY <1>1, <1>12, <2>3 DEF PutByte
  <2>5. out = SubSeq(made[p], a + 1, a + n + 1)
    <3>1. a \in 0 .. m - 1 /\ a + n \in a .. m - 1
      BY <2>2
    <3>2. c.out = SubSeq(made[p], a + 1, a + n)
      BY <1>4, <1>7
    <3> QED
      BY <1>5, <1>7, <2>2, <2>3, <3>1, <3>2, PieceAndByte
  <2>6. a + (n + 1) <= m /\ a + (n + 1) = a + n + 1
    BY <2>2
  <2>7. d.at = "copy" /\ d.start = a /\ d.out = out
    BY <1>7, <2>3
  <2>8. d.start + Len(d.out) <= Len(made[p])
    BY <1>7, <2>3, <2>6, <2>7
  <2>9. d.out = SubSeq(made[p], d.start + 1, d.start + Len(d.out))
    BY <2>3, <2>5, <2>6, <2>7
  <2> HIDE DEF d
  <2> QED
    BY <1>2, <1>7, <2>1, <2>4, <2>7, <2>8, <2>9, ReadGoesOnKeepsFile
<1>13. CASE ReadReturns(p, t)
  <2>1. PICK bytes : /\ got' = [got EXCEPT ![p] = bytes]
                     /\ got[p] = Mixed => bytes = Mixed
                     /\ got[p] # Mixed => bytes = got[p] \o c.out
    BY <1>13, Zenon DEF ReadReturns
  <2>2. ReadStep(p, t, Idle, a + n, bytes)
    BY <1>7, <1>13, <2>1 DEF ReadReturns, EndsAt, ReadStep
  <2>3. a + n \in Buffer /\ a + n <= m
    BY <1>8
  <2>4. bytes \in Seq(Nat)
    <3>1. got[p] \o c.out \in Seq(Nat)
      BY <1>1, ConcatProperties
    <3> QED
      BY <1>9, <2>1, <3>1
  <2>5. got[p] # Mixed => bytes = SubSeq(made[p], 1, a + n)
    <3> SUFFICES ASSUME got[p] # Mixed
                 PROVE  got[p] \o c.out = SubSeq(made[p], 1, a + n)
      BY <2>1
    <3>1. a \in 0 .. Len(made[p]) /\ a + n \in a .. Len(made[p])
      BY <1>7
    <3>2. got[p] = SubSeq(made[p], 1, a) /\ c.out = SubSeq(made[p], a + 1, a + n)
      BY <1>4, <1>5, <1>7
    <3> QED
      BY <1>5, <3>1, <3>2, PieceAfterPiece
  <2> QED
    BY <1>2, <1>7, <2>1, <2>2, <2>3, <2>4, <2>5, ReadEndKeepsFile
<1> QED
  BY <1>10, <1>11, <1>12, <1>13 DEF Reading

(* Writing a command leaves the message alone, whatever the key becomes.    *)
LEMMA WriteKeepsFiles ==
    ASSUME IInv, NEW p \in Proc, device_write(p)
    PROVE  TypeOK' /\ \A q \in Proc : FileOf(q)'
<1>1. fkey' \in BOOLEAN
  <2>1. \A command \in Commands : KeyAfter(command) \subseteq BOOLEAN
    BY DEF Commands, KeyAfter, IInv, TypeOK
  <2> QED
    BY <2>1 DEF device_write
<1>2. UNCHANGED <<driver, already_open, msg, counter, at, f_pos, call, made, got>>
  BY DEF device_write
<1>3. TypeOK'
  BY <1>1, <1>2, Zenon DEF IInv, TypeOK
<1>4. \A q \in Proc : FileOf(q)'
  BY <1>2, FileFrame DEF IInv
<1> QED
  BY <1>3, <1>4

(* Before the first open.                                                   *)
LEMMA InitIInv == Init => IInv
<1> SUFFICES ASSUME Init PROVE IInv
  OBVIOUS
<1>1. Exclusion
  BY InitExclusion
<1>2. Idle \in CallType
  BY DEF Idle
<1>3. TypeOK
  <2>1. driver \in {"chardev", "static_key"} /\ fkey \in BOOLEAN
    BY Zenon DEF Init
  <2>2. counter \in 0 .. MaxOpens /\ already_open \in {0, 1}
    BY SingleOpenAssumption DEF Init
  <2>3. call \in [Proc -> [Thread -> CallType]]
    BY <1>2 DEF Init
  <2>4. msg \in [Buffer -> Nat] /\ f_pos \in [Proc -> Buffer]
    BY DEF Init
  <2>5. made \in [Proc -> Seq(Nat)] /\ got \in [Proc -> Seq(Nat)]
    BY DEF Init
  <2> QED
    BY <1>1, <2>1, <2>2, <2>3, <2>4, <2>5 DEF TypeOK, Exclusion, At
<1>4. \A p \in Proc : FileOf(p)
  BY DEF Init, FileOf
<1> QED
  BY <1>1, <1>3, <1>4 DEF IInv

(* IInv holds in every state of every behaviour of the two drivers.         *)
LEMMA Inductive == Spec => []IInv
<1>1. IInv /\ [Next]_vars => IInv'
  <2> SUFFICES ASSUME IInv, [Next]_vars PROVE IInv'
    OBVIOUS
  <2>1. Exclusion'
    BY ExclusionStep DEF IInv
  <2>2. CASE UNCHANGED vars
    <3>1. \A q \in Proc : FileOf(q)'
      BY <2>2, FileFrame DEF vars, IInv
    <3>2. TypeOK'
      BY <2>2 DEF vars, IInv, TypeOK
    <3> QED
      BY <2>1, <3>1, <3>2 DEF IInv
  <2>3. ASSUME NEW p \in Proc, Moves(p)
        PROVE  IInv'
    BY <2>1, <2>3, MoveKeepsFiles DEF IInv
  <2>4. ASSUME NEW p \in Proc, device_write(p)
        PROVE  IInv'
    BY <2>1, <2>4, WriteKeepsFiles DEF IInv
  <2>5. ASSUME NEW p \in Proc, NEW t \in Thread, ReadCall(p, t) \/ Reading(p, t)
        PROVE  IInv'
    BY <2>1, <2>5, ReadCallKeepsFiles, ReadingKeepsFiles DEF IInv
  <2> QED
    BY <2>2, <2>3, <2>4, <2>5 DEF Next, Moves
<1> QED
  BY <1>1, InitIInv, PTL DEF Spec

(* Every read() of chardev.c and static_key.c returns a piece of the        *)
(* message made by its own open, at a position inside it, and a process     *)
(* that reads to the end without overlapping reads has read all of it: for  *)
(* any processes, threads, read lengths and commands.                       *)
THEOREM ReadersGetTheirMessage == Spec => []ReadsOwnMessage
<1>1. ASSUME IInv, NEW p \in Proc, NEW t \in Thread, call[p][t] # Idle
      PROVE  /\ call[p][t].start <= Len(made[p])
             /\ call[p][t].out = SubSeq(made[p], call[p][t].start + 1,
                                        call[p][t].start + Len(call[p][t].out))
             /\ AtEof(p, t) /\ got[p] # Mixed => got[p] = made[p]
  <2> DEFINE c == call[p][t]
  <2>1. at[p] \in {"open", "closing"} /\ c.at # "idle" /\ CallOf(p, t)
    BY <1>1 DEF IInv, FileOf, CallOf
  <2>2. c.start \in Nat /\ Len(c.out) \in Nat /\ Len(made[p]) \in Nat
           /\ made[p] \in Seq(Nat \ {0})
    <3>1. made[p] \in Seq(Nat \ {0})
      BY <1>1, <2>1 DEF IInv, FileOf
    <3>2. c.start \in Buffer /\ c.out \in Seq(Nat)
      BY <1>1, CallFields
    <3> QED
      BY <3>1, <3>2
  <2>3. c.start + Len(c.out) <= Len(made[p])
           /\ c.out = SubSeq(made[p], c.start + 1, c.start + Len(c.out))
    BY <1>1, <2>1 DEF CallOf
  <2>4. \A i, j, k \in Nat : i + j <= k => i <= k /\ i \in 0 .. k
    OBVIOUS
  <2>5. c.start <= Len(made[p]) /\ c.start \in 0 .. Len(made[p])
    BY <2>2, <2>3, <2>4
  <2>6. ASSUME AtEof(p, t), got[p] # Mixed
        PROVE  got[p] = made[p]
    <3>1. msg[c.start] = 0
      BY <2>6 DEF AtEof
    <3>2. ~(c.start < Len(made[p]))
      BY <1>1, <2>1, <2>5, <3>1, ByteOfMessage
    <3>3. c.start = Len(made[p])
      BY <2>2, <2>5, <3>2
    <3>4. got[p] = SubSeq(made[p], 1, c.start)
      BY <1>1, <2>1, <2>6 DEF CallOf, IInv, FileOf
    <3> QED
      BY <2>2, <3>3, <3>4, SubSeqFull
  <2> QED
    BY <2>3, <2>5, <2>6
<1>2. IInv => ReadsOwnMessage
  BY <1>1 DEF ReadsOwnMessage, IInv
<1> QED
  BY <1>2, Inductive, PTL
=============================================================================
