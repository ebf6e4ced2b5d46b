------------------------------- MODULE Sleep -------------------------------
(***************************************************************************)
(* examples/sleep.c: /proc/sleep can be open in one process at a time.  A   *)
(* process that opens it while it is taken sleeps on waitq until the owner  *)
(* closes it, unless it asked for O_NONBLOCK or is interrupted by a signal. *)
(*                                                                          *)
(* Each atomic access to already_open and each critical section of the      *)
(* wait queue is a step of its own, so module_open and module_close of      *)
(* different processes interleave as they do on several CPUs.  The read     *)
(* and write handlers are single steps: only the owner of the file runs     *)
(* them.  The message is abstracted to its length.                          *)
(***************************************************************************)
EXTENDS Naturals

CONSTANTS
    Proc,            \* the processes that use /proc/sleep
    NoProc,          \* "nobody", for the abstract specification
    MESSAGE_LENGTH,  \* size of message[]
    InputLens,       \* the lengths user space passes to write()
    BufLens,         \* the lengths user space passes to read()
    Tgkilled,        \* the processes that get signals of their own thread
    Killed           \* the processes that get signals of the whole process

ASSUME SleepAssumption ==
    /\ NoProc \notin Proc
    /\ MESSAGE_LENGTH \in Nat \ {0}
    /\ InputLens \subseteq Nat
    /\ BufLens \subseteq Nat
    /\ Tgkilled \subseteq Proc /\ Killed \subseteq Proc

VARIABLES
    already_open,    \* atomic_t already_open
    waitq,           \* the tasks on the wait queue
    pc,              \* where each process is
    nonblock,        \* f_flags & O_NONBLOCK of the open in progress
    pending,         \* the unblocked signals of each process, by pending set
    finished,        \* static int finished of module_output
    msgLen,          \* strlen(message)
    lastRead,        \* what the latest read() of each open file returned
    leftOver         \* history: the file was closed between data and its EOF

vars == <<already_open, waitq, pc, nonblock, pending, finished, msgLen, lastRead,
          leftOver>>

-----------------------------------------------------------------------------
(* Program points.  "user": the process does not have the file; "open",     *)
(* "nonblock", "loop", "wait", "prepare", "recheck", "asleep" and "is_sig"  *)
(* are points of module_open; "file": the file is open; "wake": module_close *)
(* has cleared already_open and not yet called wake_up.                      *)

InWaitEvent == {"prepare", "recheck", "asleep"}
Blocked     == {"loop", "wait", "is_sig"} \cup InWaitEvent
InOpen      == {"open", "nonblock"} \cup Blocked
PC          == {"user", "file", "wake"} \cup InOpen

(* read() gave nothing yet, the first len bytes of the output, all of it, or *)
(* the 0 of an end of file.                                                  *)
ReadResult  == {"none", "part", "all", "eof"}

TypeOK ==
    /\ already_open \in {0, 1}
    /\ waitq \subseteq Proc
    /\ pc \in [Proc -> PC]
    /\ nonblock \in [Proc -> BOOLEAN]
    /\ pending \in [Proc -> SUBSET {"private", "shared"}]
    /\ finished \in BOOLEAN
    /\ msgLen \in 0 .. (MESSAGE_LENGTH - 1)
    /\ lastRead \in [Proc -> ReadResult]
    /\ leftOver \in BOOLEAN

Init ==
    /\ already_open = 0
    /\ waitq = {}
    /\ pc = [p \in Proc |-> "user"]
    /\ nonblock = [p \in Proc |-> FALSE]
    /\ pending = [p \in Proc |-> {}]
    /\ finished = FALSE
    /\ msgLen = 0
    /\ lastRead = [p \in Proc |-> "none"]
    /\ leftOver = FALSE

Goes(p, from, to) ==
    /\ pc[p] = from
    /\ pc' = [pc EXCEPT ![p] = to]

(* Pending signals are delivered when a system call returns to user mode.   *)
Delivered(p) == pending' = [pending EXCEPT ![p] = {}]

fileVars == <<finished, msgLen, lastRead, leftOver>>

-----------------------------------------------------------------------------
(* module_open                                                              *)

(* open("/proc/sleep", flags) enters module_open.                           *)
OpenCall(p) ==
    /\ Goes(p, "user", "open")
    /\ \E nb \in BOOLEAN : nonblock' = [nonblock EXCEPT ![p] = nb]
    /\ UNCHANGED <<already_open, waitq, pending, fileVars>>

(* atomic_cmpxchg(&already_open, 0, 1) at program point from: the file is   *)
(* taken if it was free, otherwise the process goes on at point busy.       *)
CmpXchg(p, from, busy) ==
    \/ /\ already_open = 0
       /\ already_open' = 1
       /\ Goes(p, from, "file")
       /\ Delivered(p)
       /\ UNCHANGED <<waitq, nonblock, fileVars>>
    \/ /\ already_open = 1
       /\ Goes(p, from, busy)
       /\ UNCHANGED <<already_open, waitq, nonblock, pending, fileVars>>

(* Mutant: O_NONBLOCK is looked at before the first attempt.                 *)
TryWithoutBlockingFlagFirst(p) ==
    \/ ~nonblock[p] /\ CmpXchg(p, "open", "nonblock")
    \/ /\ nonblock[p]
       /\ Goes(p, "open", "nonblock")
       /\ UNCHANGED <<already_open, waitq, nonblock, pending, fileVars>>

TryWithoutBlocking(p) == CmpXchg(p, "open", "nonblock")

(* O_NONBLOCK: fail with -EAGAIN.                                            *)
ReturnEagain(p) ==
    /\ nonblock[p]
    /\ Goes(p, "nonblock", "user")
    /\ Delivered(p)
    /\ UNCHANGED <<already_open, waitq, nonblock, fileVars>>

EnterLoop(p) ==
    /\ ~nonblock[p]
    /\ Goes(p, "nonblock", "loop")
    /\ UNCHANGED <<already_open, waitq, nonblock, pending, fileVars>>

LoopCondition(p) == CmpXchg(p, "loop", "wait")

(* wait_event_interruptible: no sleep at all if the condition holds.         *)
WaitEvent(p) ==
    /\ Goes(p, "wait", IF already_open = 0 THEN "is_sig" ELSE "prepare")
    /\ UNCHANGED <<already_open, waitq, nonblock, pending, fileVars>>

(* prepare_to_wait_event: queue the task, or dequeue it and give up waiting *)
(* if a signal of either pending set is there (signal_pending).             *)
PrepareToWait(p) ==
    /\ IF pending[p] = {}
       THEN waitq' = waitq \cup {p} /\ Goes(p, "prepare", "recheck")
       ELSE waitq' = waitq \ {p} /\ Goes(p, "prepare", "is_sig")
    /\ UNCHANGED <<already_open, nonblock, pending, fileVars>>

(* Mutant: the process sleeps without testing the condition again.           *)
RecheckNothing(p) ==
    /\ Goes(p, "recheck", "asleep")
    /\ UNCHANGED <<already_open, waitq, nonblock, pending, fileVars>>

(* The condition is tested again after queueing; schedule() otherwise.       *)
Recheck(p) ==
    /\ IF already_open = 0
       THEN waitq' = waitq \ {p} /\ Goes(p, "recheck", "is_sig")
       ELSE waitq' = waitq /\ Goes(p, "recheck", "asleep")
    /\ UNCHANGED <<already_open, nonblock, pending, fileVars>>

(* schedule() returns once wake_up has taken the task off the queue or a     *)
(* signal is pending.                                                        *)
ScheduleReturns(p) ==
    /\ p \notin waitq \/ pending[p] # {}
    /\ Goes(p, "asleep", "prepare")
    /\ UNCHANGED <<already_open, waitq, nonblock, pending, fileVars>>

(* Mutant: the loop never looks for signals.                                 *)
is_sigNever(p) == FALSE

(* current->pending.signal & ~current->blocked: the thread's own set only.   *)
is_sig(p) == "private" \in pending[p]

TestSignal(p) ==
    \/ /\ is_sig(p)
       /\ Goes(p, "is_sig", "user")        \* -EINTR
       /\ Delivered(p)
       /\ UNCHANGED <<already_open, waitq, nonblock, fileVars>>
    \/ /\ ~is_sig(p)
       /\ Goes(p, "is_sig", "loop")
       /\ UNCHANGED <<already_open, waitq, nonblock, pending, fileVars>>

-----------------------------------------------------------------------------
(* module_close, module_output and module_input                             *)

(* The latest read() through p's open file returned data, not end of file.   *)
GivenData(p) == lastRead[p] \in {"part", "all"}

(* The open file has not been read and the one before it was left between    *)
(* its data and its end of file.                                             *)
Inherits(p) == lastRead[p] = "none" /\ leftOver

(* A process may close the file whenever it likes.                           *)
CloseClears(p) ==
    /\ Goes(p, "file", "wake")
    /\ already_open' = 0
    /\ leftOver' = (GivenData(p) \/ Inherits(p))
    /\ lastRead' = [lastRead EXCEPT ![p] = "none"]
    /\ UNCHANGED <<waitq, nonblock, pending, finished, msgLen>>

(* Mutant: module_close does not call wake_up.                               *)
CloseWakesNobody(p) ==
    /\ Goes(p, "wake", "user")
    /\ UNCHANGED <<already_open, waitq, nonblock, pending, fileVars>>

(* wake_up: every waiter is non-exclusive, so all are made runnable and      *)
(* taken off the queue.                                                      *)
CloseWakes(p) ==
    /\ Goes(p, "wake", "user")
    /\ waitq' = {}
    /\ UNCHANGED <<already_open, nonblock, pending, fileVars>>

(* strlen("Last input:") and the trailing newline.                           *)
OutputLen == 11 + msgLen + 1

(* Mutant: finished is not cleared when end of file is reported.             *)
module_outputStuck(p) ==
    /\ pc[p] = "file"
    /\ lastRead' = [lastRead EXCEPT ![p] = IF finished THEN "eof" ELSE "all"]
    /\ finished' = TRUE
    /\ UNCHANGED <<already_open, waitq, pc, nonblock, pending, msgLen, leftOver>>

module_output(p) ==
    /\ pc[p] = "file"
    /\ IF finished
       THEN lastRead' = [lastRead EXCEPT ![p] = "eof"]
       ELSE \E len \in BufLens : lastRead' =
                [lastRead EXCEPT ![p] = IF len < OutputLen THEN "part" ELSE "all"]
    /\ finished' = ~finished
    /\ UNCHANGED <<already_open, waitq, pc, nonblock, pending, msgLen, leftOver>>

(* Mutant: no room is kept for the terminating NUL.                          *)
module_inputOffByOne(p) ==
    /\ pc[p] = "file"
    /\ \E length \in InputLens :
          msgLen' = IF length < MESSAGE_LENGTH THEN length ELSE MESSAGE_LENGTH
    /\ UNCHANGED <<already_open, waitq, pc, nonblock, pending, finished, lastRead,
                   leftOver>>

module_input(p) ==
    /\ pc[p] = "file"
    /\ \E length \in InputLens :
          msgLen' = IF length < MESSAGE_LENGTH - 1 THEN length ELSE MESSAGE_LENGTH - 1
    /\ UNCHANGED <<already_open, waitq, pc, nonblock, pending, finished, lastRead,
                   leftOver>>

-----------------------------------------------------------------------------
(* A signal that the process does not block is sent to it while it is in     *)
(* module_open: kill() queues it in the shared set of the process, tgkill()  *)
(* and the fatal signals of complete_signal() in the set of the thread.      *)
Signal(p) ==
    /\ pc[p] \in InOpen
    /\ \/ p \in Tgkilled /\ pending' = [pending EXCEPT ![p] = @ \cup {"private"}]
       \/ p \in Killed /\ pending' = [pending EXCEPT ![p] = @ \cup {"shared"}]
    /\ UNCHANGED <<already_open, waitq, pc, nonblock, fileVars>>

(* The steps of module_open and module_close that follow the system call.    *)
Step(p) ==
    \/ TryWithoutBlocking(p) \/ ReturnEagain(p) \/ EnterLoop(p)
    \/ LoopCondition(p) \/ WaitEvent(p) \/ PrepareToWait(p) \/ Recheck(p)
    \/ ScheduleReturns(p) \/ TestSignal(p) \/ CloseWakes(p)

(* What user space decides: open, close, read, write, signal.                *)
UserCall(p) ==
    \/ OpenCall(p) \/ CloseClears(p) \/ module_output(p) \/ module_input(p)
    \/ Signal(p)

Next == \E p \in Proc : Step(p) \/ UserCall(p)

Spec == Init /\ [][Next]_vars

(* A process inside a system call keeps running; nothing is assumed about    *)
(* what user space does.                                                     *)
FairSpec == Spec /\ \A p \in Proc : WF_vars(Step(p))

-----------------------------------------------------------------------------
(* Properties                                                               *)

(* already_open is 1 exactly while a process has the file open, and no two  *)
(* processes have it open at once: the compare-and-exchange of module_open  *)
(* and the store of module_close never lose or double a claim, whatever     *)
(* order woken, new and interrupted openers run in.                         *)
MutualExclusion ==
    /\ \A p, q \in Proc : pc[p] = "file" /\ pc[q] = "file" => p = q
    /\ already_open = 1 <=> \E p \in Proc : pc[p] = "file"

(* No process sleeps on a free file: a process that wait_event has put to   *)
(* sleep and that nobody has woken either waits for an owner, who will call *)
(* module_close, or a module_close is about to call wake_up.  It fails if   *)
(* module_close can clear the flag and call wake_up in the window between   *)
(* the sleeper's test of the condition and its schedule().                  *)
NoLostWakeup ==
    \A p \in Proc : pc[p] = "asleep" /\ p \in waitq =>
        \/ already_open = 1
        \/ \E q \in Proc : pc[q] = "wake"

(* When read() reports end of file.  module_output says it does so when "we *)
(* have nothing more to say at this point"; its flag is static, is set by   *)
(* any read that returned data and outlives the open file.  What a reader   *)
(* is promised is exactly this: a read() returns 0 if and only if the one   *)
(* before it through the same open file returned data, even a part of the   *)
(* output the buffer had no room for the rest of, or it is the first one of *)
(* its open file and the file was last left between data and end of file:   *)
(* that reader gets no data at all.  It rests on the exclusion of           *)
(* module_open: a second reader would take the first one's end of file.     *)
EofFollowsData ==
    [][\A p \in Proc :
          lastRead'[p] \notin {"none", lastRead[p]} =>
              (lastRead'[p] = "eof" <=> GivenData(p) \/ Inherits(p))]_vars

(* A process blocked in module_open while the file is free does not stay so *)
(* forever: some process gets the file or nobody is blocked any more.       *)
FreeFileIsTaken ==
    (already_open = 0 /\ \E p \in Proc : pc[p] \in Blocked)
        ~> (already_open = 1 \/ \A p \in Proc : pc[p] \notin Blocked)

(* A signal in the pending set of the thread itself (tgkill(), or a fatal   *)
(* one, which the kernel puts there) ends the wait in module_open: the open *)
(* fails with -EINTR or finds the file already granted, also when signals   *)
(* are pending for the whole process, which is_sig does not see.            *)
SignalInterrupts ==
    \A p \in Proc : (pc[p] \in Blocked /\ "private" \in pending[p]) ~> (pc[p] \notin Blocked)

(* What the comment of module_open says of every signal: "If we woke up     *)
(* because we got a signal we're not blocking, return -EINTR (fail the      *)
(* system call).  This allows processes to be killed or stopped."           *)
AnySignalInterrupts ==
    \A p \in Proc : (pc[p] \in Blocked /\ pending[p] # {}) ~> (pc[p] \notin Blocked)

-----------------------------------------------------------------------------
(* sleep.c implements the exclusive file.                                   *)

owner == IF \E p \in Proc : pc[p] = "file"
         THEN CHOOSE p \in Proc : pc[p] = "file" ELSE NoProc

callerOf(p) == CASE pc[p] = "file" -> "owning"
                 [] pc[p] \in {"user", "wake"} -> "idle"
                 [] pc[p] = "nonblock" /\ nonblock[p] -> "refused"
                 [] OTHER -> "asking"

caller == [p \in Proc |-> callerOf(p)]

Exclusive == INSTANCE ExclusiveFile WITH owner <- owner, caller <- caller

(* Every behaviour of sleep.c is one of the exclusive file: a process gets  *)
(* the file only when nobody owns it, and -EAGAIN is decided only at a      *)
(* moment at which somebody does.                                           *)
ImplementsExclusiveFile == Exclusive!Spec
=============================================================================
