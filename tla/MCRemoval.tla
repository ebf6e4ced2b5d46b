----------------------------- MODULE MCRemoval -----------------------------
(* What is left of the deferred work of a module when rmmod returns, for     *)
(* TLC: completions.c, which waits for its threads, beside bottomhalf.c,     *)
(* which does not wait for its work.  The two share nothing, so their steps  *)
(* interleave freely.                                                        *)
(*                                                                           *)
(* BottomHalf starts where bottomhalf_init has returned, and the drivers of  *)
(* the repository, bottomhalf.c among them, come there and back by the rules *)
(* of Discipline: all of them release only what they hold, and in reverse    *)
(* order when they unwind; exactly the array builds and bottomhalf.c do not  *)
(* unwind completely; and exactly those that publish a device early do not   *)
(* guard their handlers.                                                     *)
EXTENDS Completions, BottomHalf

CONSTANT None

D == INSTANCE Drivers

ASSUME DriversKeepTheRules ==
    \A n \in D!AllDrivers : LET e == D!DriverTable[n] IN
        /\ D!IsDriver(e) /\ D!FreesHeld(e)
        /\ D!Complete(e) <=> n \notin D!NotUnwound
        /\ D!InReverse(e)
        /\ D!Guarded(e) <=> n \notin D!EarlyPublished

RemovalInit == Init /\ BHInit

RemovalNext ==
    \/ Next /\ UNCHANGED BHVars
    \/ BHNext /\ UNCHANGED vars

RemovalSpec ==
    /\ RemovalInit
    /\ [][RemovalNext]_<<vars, BHVars>>
    /\ Fairness /\ BHFairness
=============================================================================
