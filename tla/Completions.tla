---------------------------- MODULE Completions ----------------------------
(***************************************************************************)
(* examples/completions.c: the flywheel thread is started first but must    *)
(* spin up only after the crank thread has turned the crank; completions_exit *)
(* waits for both before the module is removed.                             *)
(*                                                                          *)
(* A completion is its count: complete_all makes it All, complete adds one, *)
(* wait_for_completion needs a positive count and takes one unless it is    *)
(* All.                                                                     *)
(***************************************************************************)
EXTENDS Integers

CONSTANTS
    All,              \* UINT_MAX, the count after complete_all
    MaxLoads          \* bound: how often completions_init succeeds

ASSUME CompletionsAssumption ==
    /\ All \in Nat /\ All > 2
    /\ MaxLoads \in Nat

VARIABLES
    loader,           \* completions_init and completions_exit
    thread,           \* where the two kernel threads are
    comp,             \* the counts of crank_comp and flywheel_comp
    loads,            \* how often completions_init has succeeded
    turned,           \* how often "Turn the crank" has been printed
    spun              \* how often "Flywheel spins up" has been printed

log  == <<loads, turned, spun>>
vars == <<loader, thread, comp, loads, turned, spun>>

Worker == {"crank", "flywheel"}

(* Outside the module: "none" (no thread), "created" (not woken yet) and     *)
(* "gone".  The other points are in the text of the module, except "exit":   *)
(* kthread_complete_and_exit, which is in the kernel and takes a pointer to  *)
(* the completion.                                                           *)
ThreadPC == {"none", "created", "wait", "work", "complete_all", "leave", "exit", "gone"}

LoaderPC == {"unloaded", "create_crank", "create_flywheel", "stop_crank",
             "wake_flywheel", "wake_crank", "loaded", "wait_crank", "wait_flywheel"}

TypeOK ==
    /\ loader \in LoaderPC
    /\ thread \in [Worker -> ThreadPC]
    /\ comp \in [Worker -> 0 .. All]
    /\ loads \in 0 .. MaxLoads
    /\ turned \in 0 .. MaxLoads
    /\ spun \in 0 .. MaxLoads

Init ==
    /\ loader = "unloaded"
    /\ thread = [w \in Worker |-> "none"]
    /\ comp = [w \in Worker |-> 0]
    /\ loads = 0 /\ turned = 0 /\ spun = 0

LoaderGoes(from, to) == loader = from /\ loader' = to

ThreadGoes(w, from, to) ==
    /\ thread[w] = from
    /\ thread' = [thread EXCEPT ![w] = to]

complete_all(w) == comp' = [comp EXCEPT ![w] = All]

complete(w) == comp' = [comp EXCEPT ![w] = IF @ = All THEN All ELSE @ + 1]

wait_for_completion(w) ==
    /\ comp[w] > 0
    /\ comp' = [comp EXCEPT ![w] = IF @ = All THEN All ELSE @ - 1]

-----------------------------------------------------------------------------
(* completions_init                                                         *)

(* insmod: the module's data is fresh; init_completion on both.  The threads *)
(* of an earlier load have left.                                            *)
InitCompletions ==
    /\ LoaderGoes("unloaded", "create_crank")
    /\ \A w \in Worker : thread[w] \in {"none", "gone"}
    /\ comp' = [w \in Worker |-> 0]
    /\ thread' = [w \in Worker |-> "none"]
    /\ UNCHANGED log

CreateCrank ==
    \/ /\ LoaderGoes("create_crank", "create_flywheel")
       /\ thread' = [thread EXCEPT !["crank"] = "created"]
       /\ UNCHANGED <<comp, log>>
    \/ /\ LoaderGoes("create_crank", "unloaded")          \* ERROR_THREAD_1
       /\ UNCHANGED <<thread, comp, log>>

CreateFlywheel ==
    \/ /\ loads < MaxLoads
       /\ LoaderGoes("create_flywheel", "wake_flywheel")
       /\ thread' = [thread EXCEPT !["flywheel"] = "created"]
       /\ UNCHANGED <<comp, log>>
    \/ /\ LoaderGoes("create_flywheel", "stop_crank")     \* ERROR_THREAD_2
       /\ UNCHANGED <<thread, comp, log>>

(* kthread_stop of a thread that was never woken: it ends without running    *)
(* its function.                                                            *)
StopCrank ==
    /\ LoaderGoes("stop_crank", "unloaded")
    /\ ThreadGoes("crank", "created", "gone")
    /\ UNCHANGED <<comp, log>>

WakeFlywheel ==
    /\ LoaderGoes("wake_flywheel", "wake_crank")
    /\ ThreadGoes("flywheel", "created", "wait")
    /\ UNCHANGED <<comp, log>>

WakeCrank ==
    /\ LoaderGoes("wake_crank", "loaded")
    /\ ThreadGoes("crank", "created", "work")
    /\ loads' = loads + 1
    /\ UNCHANGED <<comp, turned, spun>>

-----------------------------------------------------------------------------
(* The threads                                                              *)

(* Mutant: the flywheel thread does not wait for the crank.                  *)
FlywheelWaitSkipped ==
    /\ ThreadGoes("flywheel", "wait", "work")
    /\ UNCHANGED <<loader, comp, log>>

FlywheelWait ==
    /\ ThreadGoes("flywheel", "wait", "work")
    /\ wait_for_completion("crank")
    /\ UNCHANGED <<loader, log>>

Work(w) ==
    /\ ThreadGoes(w, "work", "complete_all")
    /\ turned' = IF w = "crank" THEN turned + 1 ELSE turned
    /\ spun' = IF w = "flywheel" THEN spun + 1 ELSE spun
    /\ UNCHANGED <<loader, comp, loads>>

(* Mutant: complete instead of complete_all, and a plain return after it:    *)
(* one token for two waiters.                                                *)
CompleteOne(w) ==
    /\ ThreadGoes(w, "complete_all", "gone")
    /\ complete(w)
    /\ UNCHANGED <<loader, log>>

CompleteAll(w) ==
    /\ ThreadGoes(w, "complete_all", "leave")
    /\ complete_all(w)
    /\ UNCHANGED <<loader, log>>

(* The call of kthread_complete_and_exit leaves the text of the module.      *)
(* completions_exit may have returned by then: nothing waits for this step.  *)
Leave(w) ==
    /\ ThreadGoes(w, "leave", "exit")
    /\ UNCHANGED <<loader, comp, log>>

CompleteAndExit(w) ==
    /\ ThreadGoes(w, "exit", "gone")
    /\ complete(w)
    /\ UNCHANGED <<loader, log>>

ThreadStep(w) ==
    \/ w = "flywheel" /\ FlywheelWait
    \/ Work(w) \/ CompleteAll(w) \/ Leave(w) \/ CompleteAndExit(w)

-----------------------------------------------------------------------------
(* completions_exit                                                         *)

BeginExit ==
    /\ LoaderGoes("loaded", "wait_crank")
    /\ UNCHANGED <<thread, comp, log>>

(* Mutant: only the crank is waited for.                                     *)
WaitCrankOnly ==
    /\ LoaderGoes("wait_crank", "unloaded")
    /\ wait_for_completion("crank")
    /\ UNCHANGED <<thread, log>>

WaitCrank ==
    /\ LoaderGoes("wait_crank", "wait_flywheel")
    /\ wait_for_completion("crank")
    /\ UNCHANGED <<thread, log>>

WaitFlywheel ==
    /\ LoaderGoes("wait_flywheel", "unloaded")
    /\ wait_for_completion("flywheel")
    /\ UNCHANGED <<thread, log>>

LoaderStep ==
    \/ CreateCrank \/ CreateFlywheel \/ StopCrank \/ WakeFlywheel \/ WakeCrank
    \/ WaitCrank \/ WaitFlywheel

Next ==
    \/ InitCompletions \/ BeginExit \/ LoaderStep
    \/ \E w \in Worker : ThreadStep(w)

(* insmod, rmmod and the threads keep running once started; when the module  *)
(* is loaded and removed is the administrator's choice.                      *)
Fairness == WF_vars(LoaderStep) /\ \A w \in Worker : WF_vars(ThreadStep(w))

Spec == Init /\ [][Next]_vars /\ Fairness

-----------------------------------------------------------------------------
(* Properties                                                               *)

(* The flywheel spins up only after the crank has been turned in the same    *)
(* load, although its thread is woken first, and neither thread runs in a    *)
(* load that fails.                                                          *)
CrankFirst == TypeOK /\ spun <= turned /\ turned <= loads

(* When the module is not loaded every load has turned the crank and spun up *)
(* the flywheel exactly once: completions_exit waits for all the work, and a *)
(* failed completions_init leaves no thread behind.  A thread that is still  *)
(* there has nothing left to do but to leave the text of the module.         *)
EachLoadSpinsOnce ==
    loader = "unloaded" =>
        /\ turned = loads /\ spun = loads
        /\ \A w \in Worker : thread[w] \in {"none", "leave", "exit", "gone"}

(* rmmod does not hang: each wait_for_completion of completions_exit is      *)
(* satisfied although the flywheel thread waits on the same object.          *)
ExitReturns == (loader \in {"wait_crank", "wait_flywheel"}) ~> (loader = "unloaded")

=============================================================================
