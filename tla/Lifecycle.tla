----------------------------- MODULE Lifecycle -----------------------------
(***************************************************************************)
(* Loading and removing the drivers of a table, one driver at a time:       *)
(* insmod runs the steps of the init function, any of which may fail and    *)
(* unwind; rmmod runs the exit function; meanwhile interrupts, requests and *)
(* open files enter the handlers as soon as, and as long as, a resource     *)
(* that leads to them is there.                                             *)
(***************************************************************************)
EXTENDS Discipline

CONSTANTS
    Table,           \* the drivers of the repository, by name
    Driver,          \* those that are loaded,
    Leaking,         \* those that leave an interrupt or queued work behind,
    Exposed          \* and those whose handlers may meet a half-made driver

ASSUME DriverAssumption ==
    /\ Driver \subseteq DOMAIN Table
    /\ \A n \in Driver : IsDriver(Table[n])
    /\ Leaking \subseteq Driver
    /\ Exposed \subseteq Driver

VARIABLES
    driver,          \* the driver being loaded or removed
    phase,           \* "out", "init", "undo", "live" or "exit"
    at,              \* the next step of the init function
    held,            \* the resources it holds, in order of acquisition
    todo,            \* what the unwinding or the exit function has to release
    inside           \* a handler is running, or a file is open

LCVars == <<driver, phase, at, held, todo, inside>>

Resources == UNION {Gets(Table[n]) : n \in Driver}

LCTypeOK ==
    /\ driver \in Driver
    /\ phase \in {"out", "init", "undo", "live", "exit"}
    /\ at \in 1 .. (Len(Table[driver].init) + 1)
    /\ held \in Seq(Resources)
    /\ todo \in Seq(Resources)
    /\ inside \in BOOLEAN

d       == Table[driver]
Holds   == Items(held)
Without(i) == [j \in 1 .. Len(held) - 1 |-> held[IF j < i THEN j ELSE j + 1]]

LCInit ==
    /\ driver \in Driver
    /\ phase = "out"
    /\ at = 1
    /\ held = <<>>
    /\ todo = <<>>
    /\ inside = FALSE

-----------------------------------------------------------------------------
(* insmod                                                                   *)

Insmod ==
    /\ phase = "out" /\ ~inside
    /\ phase' = "init"
    /\ at' = 1
    /\ UNCHANGED <<driver, held, todo, inside>>

(* A step of the init function succeeds.  What an earlier load has leaked   *)
(* cannot be acquired again.                                                *)
StepDone ==
    /\ phase = "init" /\ at <= Len(d.init)
    /\ d.init[at].get \notin Holds /\ d.init[at].needs \subseteq Holds
    /\ held' = IF d.init[at].get = None THEN held ELSE Append(held, d.init[at].get)
    /\ at' = at + 1
    /\ UNCHANGED <<driver, phase, todo, inside>>

(* A step fails and nobody looks: device_create of the simple drivers.      *)
StepIgnored ==
    /\ phase = "init" /\ at <= Len(d.init)
    /\ d.init[at].failure = "ignored"
    /\ at' = at + 1
    /\ UNCHANGED <<driver, phase, held, todo, inside>>

(* A step fails: for a reason of its own, or because something is missing.  *)
StepFails ==
    /\ phase = "init" /\ at <= Len(d.init)
    /\ d.init[at].failure = "unwinds"
    /\ d.init[at].needs = {} \/ ~(d.init[at].needs \subseteq Holds)
    /\ phase' = "undo"
    /\ todo' = d.init[at].undo
    /\ UNCHANGED <<driver, at, held, inside>>

InitReturns ==
    /\ phase = "init" /\ at > Len(d.init)
    /\ phase' = "live"
    /\ UNCHANGED <<driver, at, held, todo, inside>>

-----------------------------------------------------------------------------
(* rmmod: refused while an open file pins the module.                       *)

Rmmod ==
    /\ phase = "live"
    /\ d.owner => ~inside
    /\ phase' = "exit"
    /\ todo' = d.exit
    /\ UNCHANGED <<driver, at, held, inside>>

(* One release of the exit function or of the unwinding.  device_destroy of *)
(* a device that could not be created does nothing.                         *)
Release ==
    /\ phase \in {"undo", "exit"} /\ todo # <<>>
    /\ Head(todo) \in d.entries /\ d.waits => ~inside
    /\ IF Head(todo) \in Holds
       THEN \E i \in DOMAIN held : held[i] = Head(todo) /\ held' = Without(i)
       ELSE UNCHANGED held
    /\ todo' = Tail(todo)
    /\ UNCHANGED <<driver, phase, at, inside>>

Removed ==
    /\ phase \in {"undo", "exit"} /\ todo = <<>>
    /\ phase' = "out"
    /\ UNCHANGED <<driver, at, held, todo, inside>>

-----------------------------------------------------------------------------
(* Handlers: an interrupt or a request starts, or a file is opened.  A file *)
(* that pins its module cannot be opened once the module is going away.     *)

EnterHandler ==
    /\ ~inside
    /\ Holds \cap d.entries # {}
    /\ phase = "exit" => ~d.owner
    /\ inside' = TRUE
    /\ UNCHANGED <<driver, phase, at, held, todo>>

LeaveHandler ==
    /\ inside
    /\ inside' = FALSE
    /\ UNCHANGED <<driver, phase, at, held, todo>>

LCNext ==
    \/ Insmod \/ StepDone \/ StepIgnored \/ StepFails \/ InitReturns
    \/ Rmmod \/ Release \/ Removed \/ EnterHandler \/ LeaveHandler

LCSpec == LCInit /\ [][LCNext]_LCVars

-----------------------------------------------------------------------------
(* Properties                                                               *)

(* A failed init function and an exit function leave nothing behind: every  *)
(* resource acquired on the way in, up to the step that failed, has been    *)
(* released ("cleanup what has been setup so far").                         *)
NothingLeft == phase = "out" /\ driver \notin Leaking => held = <<>>

(* Nothing is released that is not held: no label of a goto ladder frees    *)
(* what the failing step had not reached yet, and the exit function frees   *)
(* nothing twice; only what was not checked may be missing.  A ladder frees *)
(* in the exact reverse order of acquisition.                               *)
ReleasesHeld ==
    /\ LCTypeOK
    /\ phase \in {"undo", "exit"} /\ todo # <<>> =>
          \/ Head(todo) \in Holds
          \/ \E i \in DOMAIN d.init :
                d.init[i].get = Head(todo) /\ d.init[i].failure = "ignored"
    /\ phase = "undo" /\ todo # <<>> /\ Head(todo) \in Holds /\ driver \notin Leaking =>
          Head(todo) = held[Len(held)]

(* A handler finds what it uses: the entry to it is registered last and     *)
(* unregistered first.  A leaked interrupt would break this as well.        *)
HandlersFindResources ==
    inside /\ driver \notin Leaking \cup Exposed => d.uses \subseteq Holds

(* No handler, no deferred work and no system call is in the code of the    *)
(* module once it is out of memory, whatever order exit releases in: each   *)
(* entry is taken away by a call that waits, or an open file pins the       *)
(* module.  The exceptions are named: bottomhalf.c, whose queued work       *)
(* nothing waits for, and the drivers in Exposed.                           *)
ModulePinned == phase = "out" /\ driver \notin Leaking \cup Exposed => ~inside
=============================================================================
