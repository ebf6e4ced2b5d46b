---------------------------- MODULE SleepProofs ----------------------------
(***************************************************************************)
(* sleep.c for any number of processes, any message size and any input:     *)
(* exclusive access, no lost wake-up, and the implementation of             *)
(* ExclusiveFile.                                                           *)
(***************************************************************************)
EXTENDS Sleep, TLAPS

USE DEF PC, InOpen, Blocked, InWaitEvent

(* Every step of a process keeps the variables in their types: msgLen never *)
(* reaches MESSAGE_LENGTH, already_open is 0 or 1.                          *)
LEMMA TypeStep ==
    ASSUME TypeOK, [Next]_vars
    PROVE  TypeOK'
<1> USE SleepAssumption DEF TypeOK, Goes, Delivered, fileVars, ReadResult
<1>1. CASE UNCHANGED vars
  BY <1>1 DEF vars
<1>2. ASSUME NEW p \in Proc, Step(p)
      PROVE  TypeOK'
  <2>1. CASE TryWithoutBlocking(p) \/ LoopCondition(p)
    BY <2>1 DEF TryWithoutBlocking, LoopCondition, CmpXchg
  <2>2. CASE ReturnEagain(p) \/ EnterLoop(p)
    BY <2>2 DEF ReturnEagain, EnterLoop
  <2>3. CASE WaitEvent(p) \/ ScheduleReturns(p)
    BY <2>3 DEF WaitEvent, ScheduleReturns
  <2>4. CASE PrepareToWait(p) \/ Recheck(p)
    BY <2>4 DEF PrepareToWait, Recheck
  <2>5. CASE TestSignal(p)
    BY <2>5 DEF TestSignal
  <2>6. CASE CloseWakes(p)
    BY <2>6 DEF CloseWakes
  <2> QED
    BY <1>2, <2>1, <2>2, <2>3, <2>4, <2>5, <2>6 DEF Step
<1>3. ASSUME NEW p \in Proc, UserCall(p)
      PROVE  TypeOK'
  <2>1. CASE OpenCall(p)
    BY <2>1 DEF OpenCall
  <2>2. CASE CloseClears(p)
    BY <2>2 DEF CloseClears, GivenData, Inherits
  <2>3. CASE module_output(p)
    <3>1. finished' \in BOOLEAN
      BY <2>3 DEF module_output
    <3>2. lastRead' \in [Proc -> ReadResult]
      BY <2>3 DEF module_output
    <3> QED
      BY <2>3, <3>1, <3>2 DEF module_output
  <2>4. CASE module_input(p)
    BY <2>4 DEF module_input
  <2>5. CASE Signal(p)
    BY <2>5 DEF Signal
  <2> QED
    BY <1>3, <2>1, <2>2, <2>3, <2>4, <2>5 DEF UserCall
<1> QED
  BY <1>1, <1>2, <1>3 DEF Next

(* The static initialisers of sleep.c have the types of TypeOK.               *)
LEMMA InitType == Init => TypeOK
<1> SUFFICES ASSUME Init PROVE TypeOK
  OBVIOUS
<1>1. nonblock \in [Proc -> BOOLEAN] /\ finished \in BOOLEAN /\ leftOver \in BOOLEAN
  BY Zenon DEF Init
<1>2. already_open \in {0, 1} /\ msgLen \in 0 .. (MESSAGE_LENGTH - 1)
  BY SleepAssumption DEF Init
<1>3. pc \in [Proc -> PC] /\ lastRead \in [Proc -> ReadResult]
  BY DEF Init, ReadResult
<1>4. waitq \subseteq Proc /\ pending \in [Proc -> SUBSET {"private", "shared"}]
  BY DEF Init
<1> QED
  BY <1>1, <1>2, <1>3, <1>4 DEF TypeOK

-----------------------------------------------------------------------------
(* The inductive invariant.  MutualExclusion needs TypeOK only to know what  *)
(* pc' and already_open' are; NoLostWakeup needs both, because already_open  *)
(* falls to 0 only in the module_close of the one owner, which moves it to   *)
(* "wake".                                                                   *)
IInv == TypeOK /\ MutualExclusion /\ NoLostWakeup

(* A step inside module_open or module_close keeps the file exclusive and     *)
(* loses no wake-up, whatever the other processes are at.                     *)
LEMMA StepKeepsSafety ==
    ASSUME IInv, NEW p \in Proc, Step(p)
    PROVE  MutualExclusion' /\ NoLostWakeup'
<1> USE DEF IInv, TypeOK, MutualExclusion, NoLostWakeup, Goes
<1>1. CASE TryWithoutBlocking(p) \/ LoopCondition(p)
  BY <1>1 DEF TryWithoutBlocking, LoopCondition, CmpXchg
<1>2. CASE ReturnEagain(p) \/ EnterLoop(p)
  BY <1>2 DEF ReturnEagain, EnterLoop
<1>3. CASE WaitEvent(p) \/ ScheduleReturns(p)
  BY <1>3 DEF WaitEvent, ScheduleReturns
<1>4. CASE PrepareToWait(p)
  BY <1>4 DEF PrepareToWait
<1>5. CASE Recheck(p)
  BY <1>5 DEF Recheck
<1>6. CASE TestSignal(p)
  BY <1>6 DEF TestSignal
<1>7. CASE CloseWakes(p)
  BY <1>7 DEF CloseWakes
<1> QED
  BY <1>1, <1>2, <1>3, <1>4, <1>5, <1>6, <1>7 DEF Step

(* Neither does a system call that enters a handler, nor a signal.            *)
LEMMA UserCallKeepsSafety ==
    ASSUME IInv, NEW p \in Proc, UserCall(p)
    PROVE  MutualExclusion' /\ NoLostWakeup'
<1> USE DEF IInv, TypeOK, MutualExclusion, NoLostWakeup, Goes
<1>1. CASE OpenCall(p)
  BY <1>1 DEF OpenCall
<1>2. CASE CloseClears(p)
  BY <1>2 DEF CloseClears
<1>3. CASE module_output(p) \/ module_input(p) \/ Signal(p)
  <2>1. UNCHANGED <<already_open, waitq, pc>>
    BY <1>3 DEF module_output, module_input, Signal
  <2> QED
    BY <2>1
<1> QED
  BY <1>1, <1>2, <1>3 DEF UserCall

(* IInv holds in every state of every behaviour of sleep.c.                   *)
LEMMA Inductive == Spec => []IInv
<1>1. Init => IInv
  BY InitType DEF Init, IInv, MutualExclusion, NoLostWakeup
<1>2. IInv /\ [Next]_vars => IInv'
  <2> SUFFICES ASSUME IInv, [Next]_vars PROVE IInv'
    OBVIOUS
  <2>1. TypeOK'
    BY TypeStep DEF IInv
  <2>2. CASE UNCHANGED vars
    BY <2>1, <2>2 DEF IInv, MutualExclusion, NoLostWakeup, vars
  <2>3. CASE Next
    BY <2>1, <2>3, StepKeepsSafety, UserCallKeepsSafety DEF Next, IInv
  <2> QED
    BY <2>2, <2>3
<1> QED
  BY <1>1, <1>2, PTL DEF Spec

(* The variables of sleep.c always have their types: in particular the       *)
(* message always leaves room for its terminating NUL.                       *)
THEOREM TypeCorrect == Spec => []TypeOK
<1>1. IInv => TypeOK
  BY DEF IInv
<1> QED
  BY <1>1, Inductive, PTL

(* At most one process has /proc/sleep open, and already_open says whether   *)
(* one has, for any number of openers, waiters and signals.                  *)
THEOREM ExclusiveAccess == Spec => []MutualExclusion
<1>1. IInv => MutualExclusion
  BY DEF IInv
<1> QED
  BY <1>1, Inductive, PTL

(* No process is left asleep on a free file: wait_event's test after         *)
(* queueing and the order of module_close (clear, then wake) close every     *)
(* window.                                                                   *)
THEOREM NoWakeupIsLost == Spec => []NoLostWakeup
<1>1. IInv => NoLostWakeup
  BY DEF IInv
<1> QED
  BY <1>1, Inductive, PTL

-----------------------------------------------------------------------------
(* Refinement.  The owner of the abstract file is the process at "file".     *)

(* The process that has /proc/sleep open is the abstract owner.               *)
LEMMA OwnerIsHolder ==
    ASSUME MutualExclusion, NEW p \in Proc, pc[p] = "file"
    PROVE  owner = p
<1>1. \A q \in Proc : pc[q] = "file" <=> q = p
  BY DEF MutualExclusion
<1> QED
  BY <1>1 DEF owner

(* already_open = 0: the abstract file is free.                               *)
LEMMA NobodyOwns ==
    ASSUME MutualExclusion, already_open = 0
    PROVE  owner = NoProc
BY DEF MutualExclusion, owner

(* already_open = 1: the abstract file has an owner.                          *)
LEMMA SomebodyOwns ==
    ASSUME MutualExclusion, already_open = 1
    PROVE  owner # NoProc
<1>1. PICK p \in Proc : pc[p] = "file"
  BY DEF MutualExclusion
<1> QED
  BY <1>1, OwnerIsHolder, SleepAssumption

(* A step that moves one process and leaves the set of holders alone moves   *)
(* that caller only.                                                         *)
LEMMA CallerMoves ==
    ASSUME TypeOK, NEW p \in Proc, NEW t, pc' = [pc EXCEPT ![p] = t],
           \A q \in Proc \ {p} : nonblock'[q] = nonblock[q]
    PROVE  caller' = [caller EXCEPT ![p] = callerOf(p)']
<1>1. \A q \in Proc \ {p} : callerOf(q)' = callerOf(q)
  BY DEF TypeOK, callerOf
<1> QED
  BY <1>1 DEF caller

(* A step that starts and ends outside "file" does not change the owner.      *)
LEMMA OwnerStays ==
    ASSUME TypeOK, NEW p \in Proc, NEW t, pc' = [pc EXCEPT ![p] = t],
           pc[p] # "file", t # "file"
    PROVE  owner' = owner
<1>1. \A q \in Proc : pc'[q] = "file" <=> pc[q] = "file"
  BY DEF TypeOK
<1>2. (CHOOSE q \in Proc : pc'[q] = "file") = (CHOOSE q \in Proc : pc[q] = "file")
  BY <1>1
<1> QED
  BY <1>1, <1>2 DEF owner

(* The compare-and-exchange is the abstract Grant, or, when it fails, no     *)
(* change unless it decides a refusal.                                       *)
LEMMA CmpXchgRefines ==
    ASSUME TypeOK, MutualExclusion, MutualExclusion', NEW p \in Proc,
           TryWithoutBlocking(p) \/ LoopCondition(p)
    PROVE  [Exclusive!Next]_<<owner, caller>>
<1> USE DEF CmpXchg, Goes
<1>0. PICK from \in {"open", "loop"}, busy \in {"nonblock", "wait"} :
         CmpXchg(p, from, busy) /\ (from = "loop" => busy = "wait")
  BY DEF TryWithoutBlocking, LoopCondition
<1>1. callerOf(p) = "asking" /\ caller[p] = "asking"
  BY <1>0 DEF callerOf, caller
<1>2. nonblock' = nonblock
  BY <1>0
<1>3. CASE already_open = 0
  <2>1. pc' = [pc EXCEPT ![p] = "file"]
    BY <1>0, <1>3
  <2>2. owner = NoProc
    BY <1>3, NobodyOwns
  <2>3. pc'[p] = "file"
    BY <2>1 DEF TypeOK
  <2>4. owner' = p
    <3>1. \A q \in Proc : pc'[q] = "file" <=> q = p
      BY <2>3 DEF MutualExclusion
    <3> QED
      BY <3>1 DEF owner
  <2>5. caller' = [caller EXCEPT ![p] = "owning"]
    BY <1>2, <2>1, <2>3, CallerMoves DEF callerOf
  <2> QED
    BY <1>1, <2>2, <2>4, <2>5 DEF Exclusive!Next, Exclusive!Grant, Exclusive!Goes
<1>4. CASE already_open = 1
  <2>1. pc' = [pc EXCEPT ![p] = busy] /\ pc[p] # "file"
    BY <1>0, <1>4
  <2>2. owner # NoProc /\ owner' = owner
    BY <1>4, <2>1, SomebodyOwns, OwnerStays
  <2>3. caller' = [caller EXCEPT ![p] = callerOf(p)']
    BY <1>2, <2>1, CallerMoves
  <2>4. callerOf(p)' \in {"asking", "refused"}
    BY <2>1 DEF callerOf, TypeOK
  <2>5. CASE callerOf(p)' = "refused"
    BY <1>1, <2>2, <2>3, <2>5 DEF Exclusive!Next, Exclusive!Refuse, Exclusive!Goes
  <2>6. CASE callerOf(p)' = "asking"
    BY <1>1, <2>2, <2>3, <2>6 DEF caller
  <2> QED
    BY <2>4, <2>5, <2>6
<1> QED
  BY <1>3, <1>4 DEF TypeOK

(* The steps of module_open between two attempts and wake_up change neither  *)
(* the owner nor, except for the two error returns, a caller.                *)
LEMMA OtherStepRefines ==
    ASSUME TypeOK, MutualExclusion, NEW p \in Proc, Step(p),
           ~TryWithoutBlocking(p), ~LoopCondition(p)
    PROVE  [Exclusive!Next]_<<owner, caller>>
<1> USE DEF Goes
<1>1. PICK t \in {"user", "loop", "prepare", "recheck", "asleep", "is_sig"} :
         pc' = [pc EXCEPT ![p] = t] /\ pc[p] # "file"
  BY DEF Step, ReturnEagain, EnterLoop, WaitEvent, PrepareToWait, Recheck,
         ScheduleReturns, TestSignal, CloseWakes
<1>2. nonblock' = nonblock
  BY DEF Step, ReturnEagain, EnterLoop, WaitEvent, PrepareToWait, Recheck,
         ScheduleReturns, TestSignal, CloseWakes
<1>3. owner' = owner
  BY <1>1, OwnerStays
<1>4. caller' = [caller EXCEPT ![p] = callerOf(p)']
  BY <1>1, <1>2, CallerMoves
<1>5. pc'[p] = t
  BY <1>1 DEF TypeOK
<1>6. CASE ReturnEagain(p)
  <2>1. caller[p] = "refused" /\ callerOf(p)' = "idle"
    BY <1>6, <1>5 DEF ReturnEagain, caller, callerOf, TypeOK
  <2> QED
    BY <1>3, <1>4, <2>1 DEF Exclusive!Next, Exclusive!Return, Exclusive!Goes
<1>7. CASE TestSignal(p)
  <2>1. caller[p] = "asking" /\ callerOf(p)' \in {"idle", "asking"}
    BY <1>7, <1>5 DEF TestSignal, caller, callerOf, TypeOK
  <2>2. CASE callerOf(p)' = "idle"
    BY <1>3, <1>4, <2>1, <2>2 DEF Exclusive!Next, Exclusive!GiveUp, Exclusive!Goes
  <2>3. CASE callerOf(p)' = "asking"
    BY <1>3, <1>4, <2>1, <2>3 DEF caller
  <2> QED
    BY <2>1, <2>2, <2>3
<1>8. CASE ~ReturnEagain(p) /\ ~TestSignal(p)
  <2>1. callerOf(p)' = callerOf(p)
    BY <1>2, <1>5, <1>8 DEF Step, EnterLoop, WaitEvent, PrepareToWait, Recheck,
         ScheduleReturns, CloseWakes, callerOf, TypeOK
  <2> QED
    BY <1>3, <1>4, <2>1 DEF caller
<1> QED
  BY <1>6, <1>7, <1>8

(* open and close are the abstract Ask and Release; read, write and signals   *)
(* are invisible.                                                             *)
LEMMA UserCallRefines ==
    ASSUME TypeOK, MutualExclusion, MutualExclusion', NEW p \in Proc, UserCall(p)
    PROVE  [Exclusive!Next]_<<owner, caller>>
<1> USE DEF Goes
<1>1. CASE OpenCall(p)
  <2>1. pc' = [pc EXCEPT ![p] = "open"] /\ pc[p] = "user"
    BY <1>1 DEF OpenCall
  <2>2. owner' = owner
    BY <2>1, OwnerStays
  <2>3. \A q \in Proc \ {p} : nonblock'[q] = nonblock[q]
    BY <1>1 DEF OpenCall, TypeOK
  <2>4. caller' = [caller EXCEPT ![p] = callerOf(p)']
    BY <2>1, <2>3, CallerMoves
  <2>5. caller[p] = "idle" /\ callerOf(p)' = "asking"
    BY <2>1 DEF caller, callerOf, TypeOK
  <2> QED
    BY <2>2, <2>4, <2>5 DEF Exclusive!Next, Exclusive!Ask, Exclusive!Goes
<1>2. CASE CloseClears(p)
  <2>1. pc' = [pc EXCEPT ![p] = "wake"] /\ pc[p] = "file" /\ already_open' = 0
    BY <1>2 DEF CloseClears
  <2>2. owner = p
    BY <2>1, OwnerIsHolder
  <2>3. owner' = NoProc
    <3>1. ~ \E q \in Proc : pc'[q] = "file"
      BY <2>1 DEF MutualExclusion
    <3> QED
      BY <3>1 DEF owner
  <2>4. caller' = [caller EXCEPT ![p] = callerOf(p)']
    BY <1>2, <2>1, CallerMoves DEF CloseClears
  <2>5. caller[p] = "owning" /\ callerOf(p)' = "idle"
    BY <2>1 DEF caller, callerOf, TypeOK
  <2> QED
    BY <2>2, <2>3, <2>4, <2>5 DEF Exclusive!Next, Exclusive!Release, Exclusive!Goes
<1>3. CASE module_output(p) \/ module_input(p) \/ Signal(p)
  <2>1. UNCHANGED <<pc, nonblock>>
    BY <1>3 DEF module_output, module_input, Signal
  <2> QED
    BY <2>1 DEF owner, caller, callerOf
<1> QED
  BY <1>1, <1>2, <1>3 DEF UserCall

(* sleep.c implements the exclusive file for any set of processes: a process *)
(* owns the file from the successful compare-and-exchange to the store of    *)
(* module_close, and every other step is a refusal, a withdrawal or          *)
(* invisible.                                                                *)
THEOREM Refinement == Spec => ImplementsExclusiveFile
<1>1. Init => Exclusive!Init
  BY DEF Init, Exclusive!Init, owner, caller, callerOf
<1>2. IInv /\ IInv' /\ [Next]_vars => [Exclusive!Next]_<<owner, caller>>
  <2> SUFFICES ASSUME IInv, IInv', [Next]_vars
               PROVE  [Exclusive!Next]_<<owner, caller>>
    OBVIOUS
  <2>1. CASE UNCHANGED vars
    BY <2>1 DEF vars, owner, caller, callerOf
  <2>2. CASE Next
    BY <2>2, CmpXchgRefines, OtherStepRefines, UserCallRefines DEF Next, IInv
  <2> QED
    BY <2>1, <2>2
<1> QED
  BY <1>1, <1>2, Inductive, PTL DEF Spec, ImplementsExclusiveFile, Exclusive!Spec, Exclusive!vars

-----------------------------------------------------------------------------
(* End of file.  finished is static: it outlives the open file, and says    *)
(* what the latest reader was given; between two readers leftOver does.     *)

(* finished is set exactly while somebody has been given data and not yet   *)
(* an end of file: the process that has the file open, or the last one that *)
(* read it, if the file has not been read since.                            *)
Reads ==
    /\ finished <=> \/ \E p \in Proc : GivenData(p)
                    \/ leftOver /\ \A p \in Proc : lastRead[p] = "none"
    /\ \A p \in Proc : pc[p] # "file" => lastRead[p] = "none"

(* Only module_close and module_output change what Reads is about.           *)
LEMMA OnlyReadAndClose ==
    ASSUME TypeOK, Reads, NEW p \in Proc, Step(p) \/ UserCall(p),
           ~CloseClears(p), ~module_output(p)
    PROVE  Reads' /\ UNCHANGED lastRead
<1>1. CASE module_input(p) \/ Signal(p)
  BY <1>1 DEF module_input, Signal, fileVars, Reads, GivenData
<1>2. CASE Step(p) \/ OpenCall(p)
  <2>1. UNCHANGED <<finished, lastRead, leftOver>> /\ pc[p] # "file"
    BY <1>2 DEF Step, TryWithoutBlocking, LoopCondition, CmpXchg, ReturnEagain, EnterLoop, WaitEvent,
                PrepareToWait, Recheck, ScheduleReturns, TestSignal, CloseWakes, OpenCall, Goes, fileVars
  <2>2. PICK t : pc' = [pc EXCEPT ![p] = t]
    BY <1>2 DEF Step, TryWithoutBlocking, LoopCondition, CmpXchg, ReturnEagain, EnterLoop, WaitEvent,
                PrepareToWait, Recheck, ScheduleReturns, TestSignal, CloseWakes, OpenCall, Goes
  <2>3. \A q \in Proc : pc'[q] # "file" => pc[q] # "file"
    BY <2>1, <2>2 DEF TypeOK
  <2> QED
    BY <2>1, <2>3 DEF Reads, GivenData
<1> QED
  BY <1>1, <1>2 DEF UserCall

(* With the file exclusive, only its owner has read anything, so finished    *)
(* says whether the owner's next read() is an end of file.                   *)
LEMMA OwnerReads ==
    ASSUME MutualExclusion, Reads, NEW p \in Proc, pc[p] = "file"
    PROVE  /\ \A q \in Proc \ {p} : lastRead[q] = "none"
           /\ finished <=> GivenData(p) \/ Inherits(p)
<1>1. \A q \in Proc \ {p} : lastRead[q] = "none"
  BY DEF MutualExclusion, Reads
<1>2. \A q \in Proc \ {p} : ~GivenData(q)
  BY <1>1 DEF GivenData
<1> QED
  BY <1>1, <1>2 DEF Reads, Inherits, GivenData

(* Reads is inductive, given exclusion: a close hands the flag on to the     *)
(* next reader, a read() turns it over.                                      *)
LEMMA ReadsStep ==
    ASSUME IInv, Reads, [Next]_vars
    PROVE  Reads'
<1>0. TypeOK /\ MutualExclusion
  BY DEF IInv
<1>1. CASE UNCHANGED vars
  BY <1>1 DEF vars, Reads, GivenData
<1>2. ASSUME NEW p \in Proc, CloseClears(p) PROVE Reads'
  <2>1. pc[p] = "file" /\ finished' = finished /\ (leftOver' <=> GivenData(p) \/ Inherits(p))
    BY <1>2 DEF CloseClears, Goes
  <2>2. /\ \A q \in Proc \ {p} : lastRead[q] = "none"
        /\ finished <=> GivenData(p) \/ Inherits(p)
    BY <1>0, <2>1, OwnerReads
  <2>3. \A q \in Proc : lastRead'[q] = "none"
    BY <1>0, <1>2, <2>2 DEF CloseClears, TypeOK
  <2>4. \A q \in Proc : ~GivenData(q)'
    BY <2>3 DEF GivenData
  <2> QED
    BY <2>1, <2>2, <2>3, <2>4 DEF Reads
<1>3. ASSUME NEW p \in Proc, module_output(p) PROVE Reads'
  <2>1. pc[p] = "file" /\ pc' = pc /\ finished' = ~finished
    BY <1>3 DEF module_output
  <2>2. \A q \in Proc \ {p} : lastRead[q] = "none"
    BY <1>0, <2>1, OwnerReads
  <2>3. \A q \in Proc \ {p} : lastRead'[q] = "none"
    BY <1>0, <1>3, <2>2 DEF module_output, TypeOK
  <2>4. lastRead'[p] \in {"part", "all", "eof"} /\ (lastRead'[p] = "eof" <=> finished)
    BY <1>0, <1>3 DEF module_output, TypeOK
  <2>5. (\E q \in Proc : GivenData(q)') <=> lastRead'[p] # "eof"
    BY <2>3, <2>4 DEF GivenData
  <2>6. ~ \A q \in Proc : lastRead'[q] = "none"
    BY <2>4
  <2>7. \A q \in Proc : pc'[q] # "file" => lastRead'[q] = "none"
    BY <2>1, <2>3
  <2> QED
    BY <2>1, <2>4, <2>5, <2>6, <2>7, Zenon DEF Reads
<1> QED
  BY <1>0, <1>1, <1>2, <1>3, OnlyReadAndClose DEF Next

(* A read() of /proc/sleep reports end of file exactly after a read() that   *)
(* returned data, all of it or not, through the same open file, or as the    *)
(* first read() after a reader that closed the file without its end of file: *)
(* for any number of processes, any buffers and any moment of closing.       *)
THEOREM EofIsInherited == Spec => EofFollowsData
<1>1. Init => Reads
  BY DEF Init, Reads, GivenData
<1>2. IInv /\ Reads /\ [Next]_vars => Reads'
  BY ReadsStep
<1>3. IInv /\ Reads /\ [Next]_vars =>
         [\A p \in Proc : lastRead'[p] \notin {"none", lastRead[p]} =>
             (lastRead'[p] = "eof" <=> GivenData(p) \/ Inherits(p))]_vars
  <2> SUFFICES ASSUME IInv, Reads, Next, NEW p \in Proc, lastRead'[p] \notin {"none", lastRead[p]}
               PROVE  lastRead'[p] = "eof" <=> GivenData(p) \/ Inherits(p)
    OBVIOUS
  <2>0. TypeOK /\ MutualExclusion
    BY DEF IInv
  <2>1. PICK r \in Proc : Step(r) \/ UserCall(r)
    BY DEF Next
  <2>2. module_output(r) /\ r = p
    <3>1. CASE CloseClears(r)
      BY <2>0, <3>1 DEF CloseClears, TypeOK
    <3>2. CASE module_output(r)
      <4>1. \A q \in Proc \ {r} : lastRead'[q] = lastRead[q]
        BY <2>0, <3>2 DEF module_output, TypeOK
      <4> QED
        BY <3>2, <4>1
    <3>3. CASE ~CloseClears(r) /\ ~module_output(r)
      <4>1. UNCHANGED lastRead
        BY <2>0, <2>1, <3>3, OnlyReadAndClose
      <4> QED
        BY <4>1
    <3> QED
      BY <3>1, <3>2, <3>3
  <2>3. pc[p] = "file" /\ (lastRead'[p] = "eof" <=> finished)
    BY <2>0, <2>2 DEF module_output, TypeOK
  <2> QED
    BY <2>0, <2>3, OwnerReads
<1> QED
  BY <1>1, <1>2, <1>3, Inductive, PTL DEF Spec, EofFollowsData
=============================================================================
