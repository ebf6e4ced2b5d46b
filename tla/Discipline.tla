----------------------------- MODULE Discipline -----------------------------
(***************************************************************************)
(* What a driver is, for the modules about loading and removal: the steps   *)
(* of its init function, the releases of its exit function, and the         *)
(* resources through which its handlers are reached.  Then the rules that   *)
(* kernel code keeps so that a driver can be loaded and removed at any      *)
(* time, each a predicate of the text of the two functions alone.           *)
(***************************************************************************)
EXTENDS Naturals, Sequences

CONSTANT None        \* what a step acquires that only configures something

Items(list) == {list[i] : i \in DOMAIN list}

(* The resources of a driver, and the shape of its description: every step   *)
(* acquires another resource, or none.                                       *)
Gets(e) == {e.init[i].get : i \in DOMAIN e.init} \ {None}

InitStep(R) ==
    [get : R \cup {None}, undo : Seq(R), failure : {"unwinds", "ignored", "never"},
     needs : SUBSET R]

IsDriver(e) ==
    /\ e.init \in Seq(InitStep(Gets(e)))
    /\ e.exit \in Seq(Gets(e))
    /\ e.waits \in BOOLEAN /\ e.owner \in BOOLEAN
    /\ \A i, j \in DOMAIN e.init :
          e.init[i].get = e.init[j].get /\ e.init[i].get # None => i = j

(* The steps whose failure is noticed, and those whose failure is not.       *)
Unwinding(e) == {i \in DOMAIN e.init : e.init[i].failure = "unwinds"}
Ignored(e)   == {i \in DOMAIN e.init : e.init[i].failure = "ignored"}

(* What the steps before the i-th may have acquired, and what they have for  *)
(* sure.  The exit function comes after the last step.                       *)
Before(e, i)  == {e.init[j].get : j \in 1 .. i - 1} \ {None}
Checked(e, i) == {e.init[j].get : j \in (1 .. i - 1) \ Ignored(e)} \ {None}
End(e)        == Len(e.init) + 1

-----------------------------------------------------------------------------
(* "cleanup what has been setup so far": the label that a failing step jumps *)
(* to, with those below it, releases all that the steps before may have      *)
(* acquired, and the exit function releases all that the init function may.  *)
Complete(e) ==
    /\ \A i \in Unwinding(e) : Before(e, i) \subseteq Items(e.init[i].undo)
    /\ Before(e, End(e)) \subseteq Items(e.exit)

(* A list of releases, as it stands at a step, names nothing twice, and only *)
(* what the steps before have acquired, or have tried to.                    *)
NamesHeld(e, i, list) ==
    /\ \A a, b \in DOMAIN list : list[a] = list[b] => a = b
    /\ \A a \in DOMAIN list :
          \/ list[a] \in Checked(e, i)
          \/ \E j \in Ignored(e) : e.init[j].get = list[a]

FreesHeld(e) ==
    /\ \A i \in Unwinding(e) : NamesHeld(e, i, e.init[i].undo)
    /\ NamesHeld(e, End(e), e.exit)

(* Resource r is acquired by a later step than resource q.                   *)
Later(e, r, q) ==
    \E i, j \in DOMAIN e.init : j < i /\ e.init[i].get = r /\ e.init[j].get = q

(* A goto ladder releases what was acquired later first.  Two resources that *)
(* the failing step looks for together may stand in any order, for at most   *)
(* one of them is there when it fails.                                       *)
InReverse(e) ==
    \A i \in Unwinding(e) : \A a, b \in DOMAIN e.init[i].undo :
        a < b => LET r == e.init[i].undo[a]
                     q == e.init[i].undo[b]
                 IN  Later(e, r, q) \/ e.init[i].needs = {r, q}

(* An entry to the handlers is acquired after all that they use, and in a    *)
(* list of releases comes before it.                                         *)
EntryFirst(e, list) ==
    \A a, b \in DOMAIN list : list[a] \in e.uses /\ list[b] \in e.entries => b < a

(* Releasing an entry waits for the handlers; or their files pin the module, *)
(* and no step that unwinds comes after an entry.                            *)
Guarded(e) ==
    /\ \A i \in DOMAIN e.init :
          e.init[i].get \in e.entries => e.uses \subseteq Checked(e, i) \cup e.init[i].needs
    /\ \A i \in Unwinding(e) : EntryFirst(e, e.init[i].undo)
    /\ EntryFirst(e, e.exit)
    /\ \/ e.waits
       \/ e.owner /\ \A i \in Unwinding(e) : Before(e, i) \cap e.entries = {}
=============================================================================
