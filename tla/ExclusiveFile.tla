--------------------------- MODULE ExclusiveFile ---------------------------
(***************************************************************************)
(* What a driver with an "already_open" flag promises its callers: at any   *)
(* moment at most one of them owns the file, a caller is refused only at a  *)
(* moment at which somebody else owns it, and a caller that gives up has    *)
(* taken nothing.  sleep.c, chardev.c and static_key.c implement it; how    *)
(* they do (compare-and-exchange, wait queue, signals) is their own matter. *)
(***************************************************************************)
CONSTANTS Proc,      \* the processes that open the file
          NoProc     \* the owner of a file that nobody has open

VARIABLES owner,     \* the process that has the file open, or NoProc
          caller     \* what each process is doing about the file

vars == <<owner, caller>>

CallerState == {"idle", "asking", "refused", "owning"}

TypeOK ==
    /\ owner \in Proc \cup {NoProc}
    /\ caller \in [Proc -> CallerState]

Init ==
    /\ owner = NoProc
    /\ caller = [p \in Proc |-> "idle"]

Goes(p, from, to) ==
    /\ caller[p] = from
    /\ caller' = [caller EXCEPT ![p] = to]

Ask(p)    == Goes(p, "idle", "asking") /\ UNCHANGED owner

Grant(p)  == Goes(p, "asking", "owning") /\ owner = NoProc /\ owner' = p

Refuse(p) == Goes(p, "asking", "refused") /\ owner # NoProc /\ UNCHANGED owner

GiveUp(p) == Goes(p, "asking", "idle") /\ UNCHANGED owner

Return(p) == Goes(p, "refused", "idle") /\ UNCHANGED owner

Release(p) == Goes(p, "owning", "idle") /\ owner = p /\ owner' = NoProc

Next == \E p \in Proc : \/ Ask(p) \/ Grant(p) \/ Refuse(p)
                        \/ GiveUp(p) \/ Return(p) \/ Release(p)

Spec == Init /\ [][Next]_vars
=============================================================================
