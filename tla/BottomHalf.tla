----------------------------- MODULE BottomHalf -----------------------------
(***************************************************************************)
(* examples/bottomhalf.c: the interrupt of button 0 turns the LED on, that  *)
(* of button 1 turns it off, and each leaves the slow part of its work to   *)
(* bottomhalf_work_fn on the system workqueue.  The two interrupts run on   *)
(* different CPUs; the work function and bottomhalf_exit run in process     *)
(* context meanwhile.                                                       *)
(***************************************************************************)
EXTENDS Naturals

VARIABLES
    stage,       \* "live", the points of bottomhalf_exit, "out" or "oops"
    isr,         \* where button_isr is, for each interrupt
    led,         \* the value of led_gpio
    pending,     \* bottomhalf_work is queued
    running,     \* bottomhalf_work_fn is running
    owed         \* an interrupt asked for the work, which has not started since

BHVars == <<stage, isr, led, pending, running, owed>>

Irq == {0, 1}

Stage == {"live", "free_irq0", "free_irq1", "led_off", "gpio_free", "out", "oops"}

BHTypeOK ==
    /\ stage \in Stage
    /\ isr \in [Irq -> {"idle", "test", "set", "schedule"}]
    /\ led \in 0 .. 1
    /\ pending \in BOOLEAN
    /\ running \in BOOLEAN
    /\ owed \in BOOLEAN

BHInit ==
    /\ stage = "live"
    /\ isr = [i \in Irq |-> "idle"]
    /\ led = 0
    /\ pending = FALSE
    /\ running = FALSE
    /\ owed = FALSE

IsrGoes(i, from, to) ==
    /\ isr[i] = from
    /\ isr' = [isr EXCEPT ![i] = to]

work == <<pending, running, owed>>

(* The interrupt is requested until bottomhalf_exit has freed it.            *)
Requested(i) ==
    \/ stage \in {"live", "free_irq0"}
    \/ stage = "free_irq1" /\ i = 1

-----------------------------------------------------------------------------
(* button_isr                                                               *)

Interrupt(i) ==
    /\ Requested(i)
    /\ IsrGoes(i, "idle", "test")
    /\ UNCHANGED <<stage, led, work>>

(* gpio_get_value decides whether the LED has to change.                     *)
IsrTest(i) ==
    /\ IsrGoes(i, "test", IF led = i THEN "set" ELSE "schedule")
    /\ UNCHANGED <<stage, led, work>>

(* gpio_set_value: button 0 sets 1, button 1 sets 0.                         *)
IsrSet(i) ==
    /\ IsrGoes(i, "set", "schedule")
    /\ led' = 1 - i
    /\ UNCHANGED <<stage, work>>

(* Mutant: nothing is queued while the work function runs.                   *)
IsrScheduleIfIdle(i) ==
    /\ IsrGoes(i, "schedule", "idle")
    /\ pending' = (pending \/ ~running)
    /\ owed' = TRUE
    /\ UNCHANGED <<stage, led, running>>

(* schedule_work: queue the work unless it is queued already.                *)
IsrSchedule(i) ==
    /\ IsrGoes(i, "schedule", "idle")
    /\ pending' = TRUE
    /\ owed' = TRUE
    /\ UNCHANGED <<stage, led, running>>

-----------------------------------------------------------------------------
(* The workqueue clears the pending mark before it calls the function, and   *)
(* does not run one work item twice at a time.  Nothing in bottomhalf_exit   *)
(* flushes or cancels the work.                                              *)

Loaded == stage \notin {"out", "oops"}

WorkStart ==
    /\ Loaded
    /\ pending /\ ~running
    /\ pending' = FALSE
    /\ running' = TRUE
    /\ owed' = FALSE
    /\ UNCHANGED <<stage, isr, led>>

bottomhalf_work_fn ==
    /\ Loaded
    /\ running
    /\ running' = FALSE
    /\ UNCHANGED <<stage, isr, led, pending, owed>>

(* The work is still queued, or sleeps in its function, when the module is   *)
(* gone: the workqueue calls, or returns to, memory that has been freed.     *)
WorkFault ==
    /\ stage = "out"
    /\ pending \/ running
    /\ stage' = "oops"
    /\ UNCHANGED <<isr, led, work>>

-----------------------------------------------------------------------------
(* bottomhalf_exit                                                          *)

ExitStarts ==
    /\ stage = "live"
    /\ stage' = "free_irq0"
    /\ UNCHANGED <<isr, led, work>>

(* Mutant: free_irq is not the first thing done, so that an interrupt may    *)
(* still run when the LED is turned off.                                     *)
FreeIrqNoWait(i) ==
    /\ stage = IF i = 0 THEN "free_irq0" ELSE "free_irq1"
    /\ stage' = IF i = 0 THEN "free_irq1" ELSE "led_off"
    /\ UNCHANGED <<isr, led, work>>

(* free_irq waits for a running handler.                                     *)
FreeIrq(i) ==
    /\ stage = IF i = 0 THEN "free_irq0" ELSE "free_irq1"
    /\ isr[i] = "idle"
    /\ stage' = IF i = 0 THEN "free_irq1" ELSE "led_off"
    /\ UNCHANGED <<isr, led, work>>

LedOff ==
    /\ stage = "led_off"
    /\ led' = 0
    /\ stage' = "gpio_free"
    /\ UNCHANGED <<isr, work>>

GpioFree ==
    /\ stage = "gpio_free"
    /\ stage' = "out"
    /\ UNCHANGED <<isr, led, work>>

(* The module is loaded again, with fresh data.  With work of the old one    *)
(* left the workqueue gets there first.                                      *)
LoadAgain ==
    /\ stage = "out" /\ ~pending /\ ~running
    /\ stage' = "live"
    /\ led' = 0
    /\ UNCHANGED <<isr, work>>

IsrStep(i) == IsrTest(i) \/ IsrSet(i) \/ IsrSchedule(i)

BHNext ==
    \/ \E i \in Irq : Interrupt(i) \/ IsrStep(i) \/ FreeIrq(i)
    \/ WorkStart \/ bottomhalf_work_fn \/ WorkFault
    \/ ExitStarts \/ LedOff \/ GpioFree \/ LoadAgain

(* A handler runs to its end, and the workqueue runs what is queued.         *)
BHFairness ==
    /\ \A i \in Irq : WF_BHVars(IsrStep(i))
    /\ WF_BHVars(WorkStart \/ bottomhalf_work_fn \/ WorkFault)

BHSpec == BHInit /\ [][BHNext]_BHVars /\ BHFairness

-----------------------------------------------------------------------------
(* Properties                                                               *)

(* The LED is off when the module is out: no handler turns it on again after *)
(* bottomhalf_exit has turned it off.                                        *)
LedOffWhenOut == BHTypeOK /\ (~Loaded => led = 0)

(* Each request for the bottom half is followed by a run of it that starts   *)
(* later, even if the request comes while the work is queued or running,     *)
(* unless the module is removed first: rmmod does not wait for the work, and *)
(* then the fault is the only other end.                                     *)
EveryPressServed == owed ~> (~owed \/ stage = "oops")
=============================================================================
