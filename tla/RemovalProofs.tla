--------------------------- MODULE RemovalProofs ---------------------------
(***************************************************************************)
(* Loading and removing modules.  For any table of drivers: a driver whose  *)
(* text keeps the rules of Discipline leaves nothing behind, releases what  *)
(* it holds and in reverse order, and keeps its handlers from a half-made   *)
(* driver and from a removed one.  Then bottomhalf.c, and completions.c for *)
(* any number of loads, failed ones included, and any width of the count.   *)
(***************************************************************************)
EXTENDS Lifecycle, BottomHalf, Completions, TLAPS

-----------------------------------------------------------------------------
(* Loading and removal: Lifecycle.                                          *)

(* Nothing is held twice, and nothing that is not the driver's.  What the    *)
(* steps so far have acquired is there, unless nobody has checked it; so it  *)
(* is while the driver is live.                                              *)
Owned ==
    /\ LCTypeOK
    /\ \A a, b \in DOMAIN held : held[a] = held[b] => a = b
    /\ Holds \subseteq Gets(d)
    /\ phase \in {"init", "live"} => Checked(d, at) \subseteq Holds
    /\ phase = "live" => at = End(d)

(* What is left to release is named once, and is held or was not checked.    *)
StillHeld ==
    phase \in {"undo", "exit"} =>
        /\ \A a, b \in DOMAIN todo : todo[a] = todo[b] => a = b
        /\ \A a \in DOMAIN todo :
              \/ todo[a] \in Holds
              \/ \E j \in Ignored(d) : d.init[j].get = todo[a]

(* The driver holds what the steps so far may have acquired, or what is left *)
(* to release, or nothing.                                                   *)
Accounted ==
    /\ phase \in {"init", "live"} => Holds \subseteq Before(d, at)
    /\ phase \in {"undo", "exit"} => Holds \subseteq Items(todo)
    /\ phase = "out" => held = <<>>

(* What it holds stands in the order of the steps, and what is left of a     *)
(* ladder in the reverse order, but for a pair that the failing step has     *)
(* found to be incomplete.                                                   *)
Ordered ==
    /\ \A a, b \in DOMAIN held : a < b => Later(d, held[b], held[a])
    /\ phase = "undo" =>
          /\ d.init[at].needs = {} \/ ~(d.init[at].needs \subseteq Holds)
          /\ \A a, b \in DOMAIN todo : a < b =>
                Later(d, todo[a], todo[b]) \/ d.init[at].needs = {todo[a], todo[b]}

(* As long as an entry is held all that the handlers use is, and a handler   *)
(* runs only as long as an entry is held; if nobody waits for handlers, none *)
(* runs while the driver is taken apart.                                     *)
Shielded ==
    /\ Holds \cap d.entries # {} => d.uses \subseteq Holds
    /\ phase \in {"undo", "exit"} => EntryFirst(d, todo)
    /\ inside => Holds \cap d.entries # {}
    /\ ~d.waits =>
          /\ d.owner
          /\ phase \in {"undo", "exit"} => ~inside
          /\ phase = "undo" => Holds \cap d.entries = {}

-----------------------------------------------------------------------------
(* The lists of releases and the sequence of what is held.                   *)

(* The first release, and those after it.                                    *)
LEMMA FirstAndRest ==
    ASSUME NEW S, NEW s \in Seq(S), s # <<>>
    PROVE  /\ Head(s) = s[1] /\ Head(s) \in S /\ Tail(s) \in Seq(S)
           /\ DOMAIN s = 1 .. Len(s) /\ Len(s) \in Nat \ {0}
           /\ DOMAIN Tail(s) = 1 .. Len(s) - 1
           /\ \A a \in 1 .. Len(s) - 1 : Tail(s)[a] = s[a + 1]
           /\ Items(s) \subseteq {Head(s)} \cup Items(Tail(s))
<1>1. /\ Head(s) = s[1] /\ Head(s) \in S /\ Tail(s) \in Seq(S)
      /\ DOMAIN s = 1 .. Len(s) /\ Len(s) \in Nat \ {0}
      /\ DOMAIN Tail(s) = 1 .. Len(s) - 1
      /\ \A a \in 1 .. Len(s) - 1 : Tail(s)[a] = s[a + 1]
  OBVIOUS
<1>2. ASSUME NEW a \in DOMAIN s PROVE s[a] \in {Head(s)} \cup Items(Tail(s))
  <2>1. CASE a = 1
    BY <1>1, <2>1
  <2>2. CASE a # 1
    <3>1. a - 1 \in 1 .. Len(s) - 1 /\ (a - 1) + 1 = a
      BY <1>1, <2>2
    <3>2. Tail(s)[a - 1] = s[a]
      BY <1>1, <3>1
    <3> QED
      BY <1>1, <3>1, <3>2 DEF Items
  <2> QED
    BY <2>1, <2>2
<1> QED
  BY <1>1, <1>2 DEF Items

(* What remains of a sequence when the element at k is taken out.            *)
Rest(s, k) == [j \in 1 .. Len(s) - 1 |-> s[IF j < k THEN j ELSE j + 1]]

(* It is a sequence of the other elements, which stand in the same order.    *)
LEMMA TakenOut ==
    ASSUME NEW S, NEW s \in Seq(S), NEW k \in DOMAIN s,
           \A a, b \in DOMAIN s : s[a] = s[b] => a = b
    PROVE  /\ Rest(s, k) \in Seq(S)
           /\ DOMAIN Rest(s, k) = 1 .. Len(s) - 1
           /\ Items(Rest(s, k)) = Items(s) \ {s[k]}
           /\ \A a, b \in DOMAIN Rest(s, k) : a < b =>
                 \E m, n \in DOMAIN s : m < n /\ Rest(s, k)[a] = s[m] /\ Rest(s, k)[b] = s[n]
           /\ \A a, b \in DOMAIN Rest(s, k) : Rest(s, k)[a] = Rest(s, k)[b] => a = b
<1> DEFINE t == Rest(s, k)
           p(j) == IF j < k THEN j ELSE j + 1
<1>1. DOMAIN s = 1 .. Len(s) /\ Len(s) \in Nat /\ k \in 1 .. Len(s)
  OBVIOUS
<1>2. \A j \in 1 .. Len(s) - 1 : p(j) \in 1 .. Len(s) /\ p(j) # k
  BY <1>1
<1>3. DOMAIN t = 1 .. Len(s) - 1 /\ \A j \in 1 .. Len(s) - 1 : t[j] = s[p(j)]
  BY DEF Rest
<1>4. \A a, b \in 1 .. Len(s) - 1 : a < b => p(a) < p(b)
  BY <1>1
<1>5. \A m \in 1 .. Len(s) : m # k => \E j \in 1 .. Len(s) - 1 : p(j) = m
  <2> SUFFICES ASSUME NEW m \in 1 .. Len(s), m # k
               PROVE  \E j \in 1 .. Len(s) - 1 : p(j) = m
    OBVIOUS
  <2>1. CASE m < k
    <3>1. m \in 1 .. Len(s) - 1 /\ p(m) = m
      BY <1>1, <2>1
    <3> QED
      BY <3>1
  <2>2. CASE k < m
    <3>1. m - 1 \in 1 .. Len(s) - 1 /\ p(m - 1) = m
      BY <1>1, <2>2
    <3> QED
      BY <3>1
  <2> QED
    BY <1>1, <2>1, <2>2
<1>6. \A m, n \in 1 .. Len(s) : s[m] = s[n] => m = n
  BY <1>1
<1>7. \A m \in 1 .. Len(s) : s[m] \in S
  BY <1>1
<1> HIDE DEF t, p
<1>8. t \in Seq(S)
  <2>1. t = [j \in 1 .. Len(s) - 1 |-> s[p(j)]]
    BY DEF t, p, Rest
  <2>2. Len(s) - 1 \in Nat
    BY <1>1
  <2>3. \A j \in 1 .. Len(s) - 1 : s[p(j)] \in S
    BY <1>2, <1>7
  <2> QED
    BY <2>1, <2>2, <2>3
<1>9. Items(t) = Items(s) \ {s[k]}
  <2>1. Items(t) \subseteq Items(s) \ {s[k]}
    BY <1>1, <1>2, <1>3, <1>6 DEF Items
  <2>2. ASSUME NEW m \in 1 .. Len(s), s[m] # s[k] PROVE s[m] \in Items(t)
    <3>1. PICK j \in 1 .. Len(s) - 1 : p(j) = m
      BY <1>5, <2>2
    <3>2. t[j] = s[m]
      BY <1>3, <3>1
    <3> QED
      BY <1>3, <3>2 DEF Items
  <2>3. ASSUME NEW x \in Items(s), x # s[k] PROVE x \in Items(t)
    <3>1. PICK m \in 1 .. Len(s) : x = s[m]
      BY <1>1 DEF Items
    <3> QED
      BY <2>2, <2>3, <3>1
  <2> QED
    BY <2>1, <2>3
<1>10. ASSUME NEW a \in DOMAIN t, NEW b \in DOMAIN t, a < b
       PROVE  \E m, n \in DOMAIN s : m < n /\ t[a] = s[m] /\ t[b] = s[n]
  <2>1. /\ p(a) \in DOMAIN s /\ p(b) \in DOMAIN s /\ p(a) < p(b)
        /\ t[a] = s[p(a)] /\ t[b] = s[p(b)]
    BY <1>1, <1>2, <1>3, <1>4, <1>10
  <2> QED
    BY <2>1
<1>11. ASSUME NEW a \in DOMAIN t, NEW b \in DOMAIN t, t[a] = t[b] PROVE a = b
  <2>1. p(a) = p(b)
    BY <1>2, <1>3, <1>6, <1>11
  <2>2. ~(a < b) /\ ~(b < a) /\ a \in Int /\ b \in Int
    <3>1. p(a) \in Int /\ a \in Int /\ b \in Int
      BY <1>2, <1>3
    <3> QED
      BY <1>3, <1>4, <2>1, <3>1
  <2> QED
    BY <2>2
<1> QED
  BY <1>3, <1>8, <1>9, <1>10, <1>11 DEF t

-----------------------------------------------------------------------------
(* The text of a driver.                                                     *)

(* Its steps are numbered from one, and acquire, release and need what is the*)
(* driver's own.                                                             *)
LEMMA Shape ==
    ASSUME NEW e, IsDriver(e)
    PROVE  /\ Len(e.init) \in Nat /\ DOMAIN e.init = 1 .. Len(e.init)
           /\ \A i \in 1 .. Len(e.init) : /\ e.init[i].get \in Gets(e) \cup {None}
                                          /\ e.init[i].undo \in Seq(Gets(e))
                                          /\ e.init[i].needs \subseteq Gets(e)
           /\ e.exit \in Seq(Gets(e))
           /\ None \notin Gets(e)
<1>1. e.init \in Seq(InitStep(Gets(e))) /\ e.exit \in Seq(Gets(e))
  BY DEF IsDriver
<1>2. Len(e.init) \in Nat /\ DOMAIN e.init = 1 .. Len(e.init)
  BY <1>1
<1>3. \A i \in 1 .. Len(e.init) : e.init[i] \in InitStep(Gets(e))
  BY <1>1
<1>4. None \notin Gets(e)
  BY DEF Gets
<1> QED
  BY <1>1, <1>2, <1>3, <1>4 DEF InitStep

(* What the steps have acquired, one step on.                                *)
LEMMA OneStepOn ==
    ASSUME NEW e, IsDriver(e), NEW i \in 1 .. Len(e.init)
    PROVE  /\ Before(e, i + 1) = Before(e, i) \cup ({e.init[i].get} \ {None})
           /\ Checked(e, i + 1) \subseteq Checked(e, i) \cup ({e.init[i].get} \ {None})
           /\ i \in Ignored(e) => Checked(e, i + 1) = Checked(e, i)
<1>1. 1 .. (i + 1) - 1 = (1 .. i - 1) \cup {i} /\ i \notin 1 .. i - 1
  BY Shape
<1> QED
  BY <1>1 DEF Before, Checked

(* Before the first step there is nothing.                                   *)
LEMMA NoneBefore ==
    ASSUME NEW e
    PROVE  Before(e, 1) = {} /\ Checked(e, 1) = {}
<1>1. 1 .. 1 - 1 = {}
  OBVIOUS
<1> QED
  BY <1>1 DEF Before, Checked

(* Of two resources only one is acquired later than the other.               *)
LEMMA LaterOneWay ==
    ASSUME NEW e, IsDriver(e), NEW r \in Gets(e), NEW q \in Gets(e), Later(e, r, q)
    PROVE  ~Later(e, q, r)
<1>1. PICK i, j \in DOMAIN e.init : j < i /\ e.init[i].get = r /\ e.init[j].get = q
  BY DEF Later
<1> SUFFICES ASSUME NEW k \in DOMAIN e.init, NEW m \in DOMAIN e.init,
                    m < k, e.init[k].get = q, e.init[m].get = r
             PROVE  FALSE
  BY DEF Later
<1>2. r # None /\ q # None
  BY DEF Gets
<1>3. m = i /\ k = j
  BY <1>1, <1>2 DEF IsDriver
<1> QED
  BY <1>1, <1>3, Shape

(* The driver does not change, and is one of the table.                      *)
LEMMA SameDriver ==
    ASSUME Owned, [LCNext]_LCVars
    PROVE  driver' = driver /\ d' = d /\ driver \in Driver /\ IsDriver(d)
<1>1. driver' = driver
  BY DEF LCNext, LCVars, Insmod, StepDone, StepIgnored, StepFails, InitReturns, Rmmod,
         Release, Removed, EnterHandler, LeaveHandler
<1>2. driver \in Driver
  BY DEF Owned, LCTypeOK
<1> QED
  BY <1>1, <1>2, DriverAssumption DEF d

(* A release takes one resource out, or nothing.                             *)
LEMMA Released ==
    ASSUME Owned, Release
    PROVE  /\ phase' = phase /\ at' = at /\ inside' = inside /\ todo' = Tail(todo)
           /\ phase \in {"undo", "exit"} /\ todo # <<>>
           /\ held' \in Seq(Resources)
           /\ Holds' = Holds \ {Head(todo)}
           /\ \A a, b \in DOMAIN held' : a < b =>
                 \E m, n \in DOMAIN held : m < n /\ held'[a] = held[m] /\ held'[b] = held[n]
           /\ \A a, b \in DOMAIN held' : held'[a] = held'[b] => a = b
<1>1. /\ phase' = phase /\ at' = at /\ inside' = inside /\ todo' = Tail(todo)
      /\ phase \in {"undo", "exit"} /\ todo # <<>>
  BY DEF Release
<1>2. held \in Seq(Resources) /\ \A a, b \in DOMAIN held : held[a] = held[b] => a = b
  BY DEF Owned, LCTypeOK
<1>3. CASE Head(todo) \in Holds
  <2>1. PICK k \in DOMAIN held : held[k] = Head(todo) /\ held' = Rest(held, k)
    BY <1>3 DEF Release, Without, Rest
  <2>2. Items(held') = Items(held) \ {Head(todo)}
    BY <1>2, <2>1, TakenOut
  <2> QED
    BY <1>1, <1>2, <2>1, <2>2, TakenOut DEF Holds
<1>4. CASE Head(todo) \notin Holds
  <2>1. held' = held
    BY <1>4 DEF Release
  <2> QED
    BY <1>1, <1>2, <1>4, <2>1 DEF Holds
<1> QED
  BY <1>3, <1>4

(* A step that succeeds adds what it acquires, at the end.                   *)
LEMMA Acquired ==
    ASSUME Owned, StepDone
    PROVE  /\ phase = "init" /\ phase' = "init" /\ inside' = inside /\ todo' = todo
           /\ at \in 1 .. Len(d.init) /\ at' = at + 1 /\ d.init[at].needs \subseteq Holds
           /\ held' \in Seq(Resources)
           /\ Holds' = Holds \cup ({d.init[at].get} \ {None})
           /\ \A a, b \in DOMAIN held' : a < b =>
                 \/ a \in DOMAIN held /\ b \in DOMAIN held
                       /\ held'[a] = held[a] /\ held'[b] = held[b]
                 \/ held'[a] \in Holds /\ held'[b] = d.init[at].get
           /\ \A a, b \in DOMAIN held' : held'[a] = held'[b] => a = b
<1> DEFINE g == d.init[at].get
<1>1. /\ phase = "init" /\ phase' = "init" /\ inside' = inside /\ todo' = todo
      /\ at' = at + 1 /\ d.init[at].needs \subseteq Holds /\ at <= Len(d.init)
      /\ g \notin Holds /\ held' = IF g = None THEN held ELSE Append(held, g)
  BY DEF StepDone
<1>2. /\ held \in Seq(Resources) /\ driver \in Driver /\ IsDriver(d)
      /\ \A a, b \in DOMAIN held : held[a] = held[b] => a = b
  BY DriverAssumption DEF Owned, LCTypeOK, d
<1>3. at \in 1 .. Len(d.init)
  BY <1>1, <1>2, Shape DEF Owned, LCTypeOK, d
<1>4. CASE g = None
  <2>1. held' = held
    BY <1>1, <1>4
  <2>2. Holds' = Holds
    BY <2>1 DEF Holds
  <2>3. Holds' = Holds \cup ({g} \ {None})
    BY <1>4, <2>2
  <2> QED
    BY <1>1, <1>2, <1>3, <2>1, <2>3
<1>5. CASE g # None
  <2>1. g \in Gets(d)
    BY <1>2, <1>3, <1>5, Shape
  <2>2. g \in Resources
    BY <1>2, <2>1 DEF Resources, d
  <2> HIDE DEF g
  <2>3. /\ held' = Append(held, g) /\ held' \in Seq(Resources) /\ Len(held) \in Nat
        /\ DOMAIN held = 1 .. Len(held) /\ DOMAIN held' = 1 .. Len(held) + 1
        /\ held'[Len(held) + 1] = g
        /\ \A a \in 1 .. Len(held) : held'[a] = held[a]
    BY <1>1, <1>2, <1>5, <2>2
  <2>4. \A a \in 1 .. Len(held) : held[a] \in Holds
    BY <2>3 DEF Holds, Items
  <2>5. \A a \in 1 .. Len(held) + 1 : a \in 1 .. Len(held) \/ a = Len(held) + 1
    BY <2>3
  <2>6. Holds' = Holds \cup ({g} \ {None})
    BY <1>5, <2>3, <2>5 DEF Holds, Items
  <2>7. ASSUME NEW a \in DOMAIN held', NEW b \in DOMAIN held', a < b
        PROVE  \/ a \in DOMAIN held /\ b \in DOMAIN held
                    /\ held'[a] = held[a] /\ held'[b] = held[b]
               \/ held'[a] \in Holds /\ held'[b] = g
    <3>1. a \in 1 .. Len(held)
      BY <2>3, <2>7
    <3> QED
      BY <2>3, <2>4, <2>5, <3>1
  <2>8. ASSUME NEW a \in DOMAIN held', NEW b \in DOMAIN held', held'[a] = held'[b]
        PROVE  a = b
    BY <1>1, <1>2, <2>3, <2>4, <2>5, <2>8
  <2> QED
    BY <1>1, <1>3, <2>3, <2>6, <2>7, <2>8 DEF g
<1> QED
  BY <1>4, <1>5

-----------------------------------------------------------------------------
(* What is held: types, no duplicates, and what is there for sure.           *)

(* Every step of loading, removal and the handlers keeps Owned.              *)
LEMMA OwnedKept ==
    ASSUME Owned, [LCNext]_LCVars
    PROVE  Owned'
<1>1. /\ driver' = driver /\ d' = d /\ driver \in Driver /\ IsDriver(d)
      /\ Len(d.init) \in Nat /\ Table[driver] = d /\ Gets(d) \subseteq Resources
  BY SameDriver, Shape DEF d, Resources
<1>2. /\ phase \in {"out", "init", "undo", "live", "exit"} /\ at \in 1 .. Len(d.init) + 1
      /\ held \in Seq(Resources) /\ todo \in Seq(Resources) /\ inside \in BOOLEAN
      /\ \A a, b \in DOMAIN held : held[a] = held[b] => a = b
      /\ Holds \subseteq Gets(d)
      /\ phase \in {"init", "live"} => Checked(d, at) \subseteq Holds
      /\ phase = "live" => at = Len(d.init) + 1
  BY DEF Owned, LCTypeOK, d, End
<1>3. SUFFICES /\ phase' \in {"out", "init", "undo", "live", "exit"}
               /\ at' \in 1 .. Len(d.init) + 1
               /\ held' \in Seq(Resources) /\ todo' \in Seq(Resources)
               /\ inside' \in BOOLEAN
               /\ \A a, b \in DOMAIN held' : held'[a] = held'[b] => a = b
               /\ Holds' \subseteq Gets(d)
               /\ phase' \in {"init", "live"} => Checked(d, at') \subseteq Holds'
               /\ phase' = "live" => at' = Len(d.init) + 1
  BY <1>1 DEF Owned, LCTypeOK, d, End
<1>4. CASE Insmod
  <2>1. Holds' = Holds /\ held' = held /\ Checked(d, 1) = {} /\ 1 \in 1 .. Len(d.init) + 1
    BY <1>1, <1>4, NoneBefore DEF Insmod, Holds
  <2> QED
    BY <1>2, <1>4, <2>1 DEF Insmod
<1>5. CASE StepDone
  <2>1. /\ phase = "init" /\ phase' = "init" /\ inside' = inside /\ todo' = todo
        /\ at \in 1 .. Len(d.init) /\ at' = at + 1
        /\ held' \in Seq(Resources) /\ Holds' = Holds \cup ({d.init[at].get} \ {None})
        /\ \A a, b \in DOMAIN held' : held'[a] = held'[b] => a = b
    BY <1>5, Acquired
  <2>2. Checked(d, at + 1) \subseteq Checked(d, at) \cup ({d.init[at].get} \ {None})
    BY <1>1, <2>1, OneStepOn
  <2>3. d.init[at].get \in Gets(d) \cup {None}
    BY <1>1, <2>1, Shape
  <2>4. at + 1 \in 1 .. Len(d.init) + 1
    BY <1>1, <2>1
  <2> QED
    BY <1>2, <2>1, <2>2, <2>3, <2>4
<1>6. CASE StepIgnored
  <2>1. /\ phase = "init" /\ phase' = "init" /\ inside' = inside /\ todo' = todo
        /\ held' = held /\ at' = at + 1 /\ at \in 1 .. Len(d.init)
        /\ at \in Ignored(d)
    BY <1>1, <1>2, <1>6, Shape DEF StepIgnored, Ignored
  <2>2. Checked(d, at + 1) = Checked(d, at) /\ at + 1 \in 1 .. Len(d.init) + 1
    BY <1>1, <2>1, OneStepOn
  <2> QED
    BY <1>2, <2>1, <2>2 DEF Holds
<1>7. CASE StepFails
  <2>1. /\ phase' = "undo" /\ held' = held /\ inside' = inside /\ at' = at
        /\ todo' = d.init[at].undo /\ at \in 1 .. Len(d.init)
    BY <1>1, <1>2, <1>7 DEF StepFails
  <2>2. todo' \in Seq(Gets(d))
    BY <1>1, <2>1, Shape
  <2>3. todo' \in Seq(Resources)
    BY <1>1, <2>2
  <2> QED
    BY <1>2, <2>1, <2>3 DEF Holds
<1>8. CASE InitReturns
  <2>1. /\ phase' = "live" /\ phase = "init" /\ at' = at /\ at = Len(d.init) + 1
        /\ held' = held /\ todo' = todo /\ inside' = inside
    BY <1>1, <1>2, <1>8 DEF InitReturns
  <2> QED
    BY <1>2, <2>1 DEF Holds
<1>9. CASE Rmmod
  <2>1. /\ phase' = "exit" /\ held' = held /\ inside' = inside /\ at' = at
        /\ todo' = d.exit
    BY <1>9 DEF Rmmod
  <2>2. todo' \in Seq(Gets(d))
    BY <1>1, <2>1, Shape
  <2>3. todo' \in Seq(Resources)
    BY <1>1, <2>2
  <2> QED
    BY <1>2, <2>1, <2>3 DEF Holds
<1>10. CASE Release
  <2>1. /\ phase' = phase /\ at' = at /\ inside' = inside /\ todo' = Tail(todo)
        /\ phase \in {"undo", "exit"} /\ todo # <<>>
        /\ held' \in Seq(Resources) /\ Holds' = Holds \ {Head(todo)}
        /\ \A a, b \in DOMAIN held' : held'[a] = held'[b] => a = b
    BY <1>10, Released
  <2>2. Tail(todo) \in Seq(Resources)
    BY <1>2, <2>1, FirstAndRest
  <2> QED
    BY <1>2, <2>1, <2>2
<1>11. CASE Removed
  BY <1>2, <1>11 DEF Removed, Holds
<1>12. CASE EnterHandler \/ LeaveHandler
  <2>1. /\ phase' = phase /\ at' = at /\ held' = held /\ todo' = todo
        /\ inside' \in BOOLEAN
    BY <1>12 DEF EnterHandler, LeaveHandler
  <2> QED
    BY <1>2, <2>1 DEF Holds
<1>13. CASE UNCHANGED LCVars
  BY <1>2, <1>13 DEF LCVars, Holds
<1> QED
  BY <1>4, <1>5, <1>6, <1>7, <1>8, <1>9, <1>10, <1>11, <1>12, <1>13 DEF LCNext

(* So what is held is the driver's own at all times, whatever the table says *)
(* of releases.                                                              *)
LEMMA OwnedHolds == LCSpec => []Owned
<1>1. LCInit => Owned
  <2> SUFFICES ASSUME LCInit PROVE Owned
    OBVIOUS
  <2>1. /\ driver \in Driver /\ phase = "out" /\ at = 1 /\ held = <<>> /\ todo = <<>>
        /\ inside = FALSE /\ IsDriver(d) /\ Len(d.init) \in Nat
    BY DriverAssumption, Shape DEF LCInit, d
  <2>2. Holds = {}
    BY <2>1 DEF Holds, Items
  <2>3. 1 \in 1 .. Len(d.init) + 1 /\ Table[driver] = d
    BY <2>1 DEF d
  <2>4. <<>> \in Seq(Resources) /\ DOMAIN held = {}
    BY <2>1
  <2>5. LCTypeOK
    BY <2>1, <2>3, <2>4 DEF LCTypeOK
  <2> QED
    BY <2>1, <2>2, <2>4, <2>5 DEF Owned
<1>2. Owned /\ [LCNext]_LCVars => Owned'
  BY OwnedKept
<1> QED
  BY <1>1, <1>2, PTL DEF LCSpec

-----------------------------------------------------------------------------
(* Nothing is released that is not held.                                     *)

(* Every step keeps what is left to release held, for a driver whose lists of*)
(* releases name what the steps before have acquired.                        *)
LEMMA StillHeldKept ==
    ASSUME FreesHeld(d), Owned, StillHeld, [LCNext]_LCVars
    PROVE  StillHeld'
<1>1. /\ d' = d /\ IsDriver(d) /\ Len(d.init) \in Nat
      /\ DOMAIN d.init = 1 .. Len(d.init)
  BY SameDriver, Shape
<1>2. SUFFICES ASSUME phase' \in {"undo", "exit"}
               PROVE  /\ \A a, b \in DOMAIN todo' : todo'[a] = todo'[b] => a = b
                      /\ \A a \in DOMAIN todo' :
                            \/ todo'[a] \in Holds'
                            \/ \E j \in Ignored(d) : d.init[j].get = todo'[a]
  BY <1>1 DEF StillHeld
<1>3. CASE StepFails
  <2>1. /\ phase = "init" /\ Holds' = Holds /\ todo' = d.init[at].undo
        /\ at \in Unwinding(d)
    BY <1>1, <1>3 DEF StepFails, Holds, Unwinding, Owned, LCTypeOK, d
  <2>2. NamesHeld(d, at, todo') /\ Checked(d, at) \subseteq Holds
    BY <2>1 DEF FreesHeld, Owned
  <2> QED
    BY <2>1, <2>2 DEF NamesHeld
<1>4. CASE Rmmod
  <2>1. phase = "live" /\ Holds' = Holds /\ todo' = d.exit
    BY <1>4 DEF Rmmod, Holds
  <2>2. NamesHeld(d, End(d), todo') /\ Checked(d, End(d)) \subseteq Holds
    BY <2>1 DEF FreesHeld, Owned
  <2> QED
    BY <2>1, <2>2 DEF NamesHeld
<1>5. CASE Release
  <2>1. /\ phase \in {"undo", "exit"} /\ todo # <<>> /\ todo' = Tail(todo)
        /\ Holds' = Holds \ {Head(todo)} /\ todo \in Seq(Resources)
    BY <1>5, Released DEF Owned, LCTypeOK
  <2>2. /\ \A a, b \in DOMAIN todo : todo[a] = todo[b] => a = b
        /\ \A a \in DOMAIN todo :
              \/ todo[a] \in Holds
              \/ \E j \in Ignored(d) : d.init[j].get = todo[a]
    BY <2>1 DEF StillHeld
  <2>3. /\ Head(todo) = todo[1] /\ DOMAIN todo = 1 .. Len(todo) /\ Len(todo) \in Nat \ {0}
        /\ DOMAIN todo' = 1 .. Len(todo) - 1
        /\ \A a \in 1 .. Len(todo) - 1 : todo'[a] = todo[a + 1]
    BY <2>1, FirstAndRest
  <2>4. \A a \in DOMAIN todo' : a + 1 \in DOMAIN todo /\ todo'[a] # Head(todo)
    BY <2>2, <2>3
  <2>5. \A a, b \in DOMAIN todo' : todo'[a] = todo'[b] => a = b
    BY <2>2, <2>3
  <2>6. ASSUME NEW a \in DOMAIN todo'
        PROVE  \/ todo'[a] \in Holds'
               \/ \E j \in Ignored(d) : d.init[j].get = todo'[a]
    BY <2>1, <2>2, <2>3, <2>4
  <2> QED
    BY <2>5, <2>6
<1>6. CASE EnterHandler \/ LeaveHandler \/ UNCHANGED LCVars
  <2>1. phase \in {"undo", "exit"} /\ todo' = todo /\ Holds' = Holds
    BY <1>2, <1>6 DEF EnterHandler, LeaveHandler, LCVars, Holds
  <2> QED
    BY <2>1 DEF StillHeld
<1> QED
  BY <1>2, <1>3, <1>4, <1>5, <1>6
     DEF LCNext, Insmod, StepDone, StepIgnored, InitReturns, Removed, Owned

-----------------------------------------------------------------------------
(* Nothing is left.                                                          *)

(* Every step keeps what is held accounted for, if releases are complete.    *)
LEMMA AccountedKept ==
    ASSUME Complete(d), Owned, Accounted, [LCNext]_LCVars
    PROVE  Accounted'
<1>1. /\ d' = d /\ IsDriver(d) /\ Len(d.init) \in Nat
      /\ DOMAIN d.init = 1 .. Len(d.init)
  BY SameDriver, Shape
<1>2. /\ phase \in {"init", "live"} => Holds \subseteq Before(d, at)
      /\ phase \in {"undo", "exit"} => Holds \subseteq Items(todo)
      /\ phase = "out" => held = <<>>
  BY DEF Accounted
<1>3. SUFFICES /\ phase' \in {"init", "live"} => Holds' \subseteq Before(d, at')
               /\ phase' \in {"undo", "exit"} => Holds' \subseteq Items(todo')
               /\ phase' = "out" => held' = <<>>
  BY <1>1 DEF Accounted
<1>4. CASE Insmod
  <2>1. held' = <<>> /\ phase' = "init"
    BY <1>2, <1>4 DEF Insmod
  <2>2. Holds' = {}
    BY <2>1 DEF Holds, Items
  <2> QED
    BY <2>1, <2>2
<1>5. CASE StepDone
  <2>1. /\ phase = "init" /\ phase' = "init" /\ at \in 1 .. Len(d.init) /\ at' = at + 1
        /\ Holds' = Holds \cup ({d.init[at].get} \ {None})
    BY <1>5, Acquired
  <2>2. Before(d, at + 1) = Before(d, at) \cup ({d.init[at].get} \ {None})
    BY <1>1, <2>1, OneStepOn
  <2> QED
    BY <1>2, <2>1, <2>2
<1>6. CASE StepIgnored
  <2>1. /\ phase = "init" /\ phase' = "init" /\ at' = at + 1 /\ Holds' = Holds
        /\ at \in 1 .. Len(d.init)
    BY <1>1, <1>6 DEF StepIgnored, Holds, Owned, LCTypeOK, d
  <2>2. Before(d, at + 1) = Before(d, at) \cup ({d.init[at].get} \ {None})
    BY <1>1, <2>1, OneStepOn
  <2> QED
    BY <1>2, <2>1, <2>2
<1>7. CASE StepFails
  <2>1. /\ phase = "init" /\ phase' = "undo" /\ Holds' = Holds
        /\ todo' = d.init[at].undo /\ at \in Unwinding(d)
    BY <1>1, <1>7 DEF StepFails, Holds, Unwinding, Owned, LCTypeOK, d
  <2> QED
    BY <1>2, <2>1 DEF Complete
<1>8. CASE Rmmod
  <2>1. /\ phase = "live" /\ phase' = "exit" /\ Holds' = Holds /\ todo' = d.exit
        /\ at = End(d)
    BY <1>8 DEF Rmmod, Holds, Owned
  <2> QED
    BY <1>2, <2>1 DEF Complete
<1>9. CASE Release
  <2>1. /\ phase \in {"undo", "exit"} /\ phase' = phase /\ todo # <<>>
        /\ todo' = Tail(todo) /\ Holds' = Holds \ {Head(todo)} /\ todo \in Seq(Resources)
    BY <1>9, Released DEF Owned, LCTypeOK
  <2>2. Items(todo) \subseteq {Head(todo)} \cup Items(Tail(todo))
    BY <2>1, FirstAndRest
  <2> QED
    BY <1>2, <2>1, <2>2
<1>10. CASE Removed
  <2>1. /\ phase \in {"undo", "exit"} /\ phase' = "out" /\ todo = <<>> /\ held' = held
        /\ held \in Seq(Resources)
    BY <1>10 DEF Removed, Owned, LCTypeOK
  <2>2. Items(todo) = {}
    BY <2>1 DEF Items
  <2>3. Holds = {}
    BY <1>2, <2>1, <2>2
  <2>4. held = <<>>
    <3> SUFFICES ASSUME held # <<>> PROVE FALSE
      OBVIOUS
    <3>1. 1 \in DOMAIN held
      BY <2>1
    <3> QED
      BY <2>3, <3>1 DEF Holds, Items
  <2> QED
    BY <2>1, <2>4
<1>11. CASE InitReturns
  BY <1>2, <1>11 DEF InitReturns, Holds
<1>12. CASE EnterHandler \/ LeaveHandler \/ UNCHANGED LCVars
  <2>1. phase' = phase /\ at' = at /\ held' = held /\ todo' = todo
    BY <1>12 DEF EnterHandler, LeaveHandler, LCVars
  <2> QED
    BY <1>2, <2>1 DEF Holds
<1> QED
  BY <1>4, <1>5, <1>6, <1>7, <1>8, <1>9, <1>10, <1>11, <1>12 DEF LCNext

-----------------------------------------------------------------------------
(* In reverse order.                                                         *)

(* Every step keeps both orders, if the ladders stand in reverse order.      *)
LEMMA OrderedKept ==
    ASSUME InReverse(d), Owned, Accounted, Ordered, [LCNext]_LCVars
    PROVE  Ordered'
<1>1. /\ d' = d /\ IsDriver(d) /\ Len(d.init) \in Nat
      /\ DOMAIN d.init = 1 .. Len(d.init)
  BY SameDriver, Shape
<1>2. \A a, b \in DOMAIN held : a < b => Later(d, held[b], held[a])
  BY DEF Ordered
<1>3. SUFFICES /\ \A a, b \in DOMAIN held' : a < b => Later(d, held'[b], held'[a])
               /\ phase' = "undo" =>
                     /\ d.init[at'].needs = {} \/ ~(d.init[at'].needs \subseteq Holds')
                     /\ \A a, b \in DOMAIN todo' : a < b =>
                           \/ Later(d, todo'[a], todo'[b])
                           \/ d.init[at'].needs = {todo'[a], todo'[b]}
  BY <1>1 DEF Ordered
<1>4. CASE StepDone
  <2>1. /\ phase = "init" /\ phase' = "init" /\ at \in 1 .. Len(d.init)
        /\ \A a, b \in DOMAIN held' : a < b =>
              \/ a \in DOMAIN held /\ b \in DOMAIN held
                    /\ held'[a] = held[a] /\ held'[b] = held[b]
              \/ held'[a] \in Holds /\ held'[b] = d.init[at].get
    BY <1>4, Acquired
  <2>2. \A q \in Holds : Later(d, d.init[at].get, q)
    <3> SUFFICES ASSUME NEW q \in Holds PROVE Later(d, d.init[at].get, q)
      OBVIOUS
    <3>1. PICK j \in 1 .. at - 1 : d.init[j].get = q
      BY <2>1 DEF Accounted, Before
    <3> QED
      BY <1>1, <2>1, <3>1 DEF Later
  <2> QED
    BY <1>2, <2>1, <2>2
<1>5. CASE StepFails
  <2>1. /\ phase = "init" /\ phase' = "undo" /\ held' = held /\ at' = at
        /\ todo' = d.init[at].undo /\ at \in Unwinding(d)
        /\ d.init[at].needs = {} \/ ~(d.init[at].needs \subseteq Holds)
    BY <1>1, <1>5 DEF StepFails, Unwinding, Owned, LCTypeOK, d
  <2>2. \A a, b \in DOMAIN todo' : a < b =>
            Later(d, todo'[a], todo'[b]) \/ d.init[at].needs = {todo'[a], todo'[b]}
    BY <2>1 DEF InReverse
  <2> QED
    BY <1>2, <2>1, <2>2 DEF Holds
<1>6. CASE Release
  <2>1. /\ phase' = phase /\ at' = at /\ todo' = Tail(todo) /\ todo # <<>>
        /\ todo \in Seq(Resources) /\ Holds' = Holds \ {Head(todo)}
        /\ \A a, b \in DOMAIN held' : a < b =>
              \E m, n \in DOMAIN held : m < n /\ held'[a] = held[m] /\ held'[b] = held[n]
    BY <1>6, Released DEF Owned, LCTypeOK
  <2>2. /\ DOMAIN todo = 1 .. Len(todo) /\ Len(todo) \in Nat \ {0}
        /\ DOMAIN todo' = 1 .. Len(todo) - 1
        /\ \A a \in 1 .. Len(todo) - 1 : todo'[a] = todo[a + 1]
    BY <2>1, FirstAndRest
  <2>3. \A a, b \in DOMAIN held' : a < b => Later(d, held'[b], held'[a])
    BY <1>2, <2>1
  <2>4. ASSUME phase = "undo"
        PROVE  /\ d.init[at].needs = {} \/ ~(d.init[at].needs \subseteq Holds')
               /\ \A a, b \in DOMAIN todo' : a < b =>
                     \/ Later(d, todo'[a], todo'[b])
                     \/ d.init[at].needs = {todo'[a], todo'[b]}
    <3>1. /\ d.init[at].needs = {} \/ ~(d.init[at].needs \subseteq Holds)
          /\ \A a, b \in DOMAIN todo : a < b =>
                Later(d, todo[a], todo[b]) \/ d.init[at].needs = {todo[a], todo[b]}
      BY <2>4 DEF Ordered
    <3>2. \A a, b \in DOMAIN todo' : a < b =>
              /\ a + 1 \in DOMAIN todo /\ b + 1 \in DOMAIN todo /\ a + 1 < b + 1
              /\ todo'[a] = todo[a + 1] /\ todo'[b] = todo[b + 1]
      BY <2>2
    <3> QED
      BY <2>1, <3>1, <3>2
  <2> QED
    BY <2>1, <2>3, <2>4
<1>7. CASE Insmod \/ StepIgnored \/ InitReturns \/ Rmmod \/ Removed
  BY <1>2, <1>7 DEF Insmod, StepIgnored, InitReturns, Rmmod, Removed
<1>8. CASE EnterHandler \/ LeaveHandler \/ UNCHANGED LCVars
  <2>1. phase' = phase /\ at' = at /\ held' = held /\ todo' = todo
    BY <1>8 DEF EnterHandler, LeaveHandler, LCVars
  <2> QED
    BY <2>1 DEF Ordered, Holds
<1> QED
  BY <1>4, <1>5, <1>6, <1>7, <1>8 DEF LCNext

-----------------------------------------------------------------------------
(* Handlers.                                                                 *)

(* Every step keeps the handlers from a driver that is not whole, if entries *)
(* are acquired last and released first.                                     *)
LEMMA ShieldedKept ==
    ASSUME Guarded(d), Owned, Accounted, Shielded, [LCNext]_LCVars
    PROVE  Shielded'
<1>1. /\ d' = d /\ IsDriver(d) /\ Len(d.init) \in Nat
      /\ DOMAIN d.init = 1 .. Len(d.init) /\ d.waits \in BOOLEAN /\ d.owner \in BOOLEAN
  BY SameDriver, Shape DEF IsDriver
<1> DEFINE Entries(H) == H \cap d.entries
<1>2. /\ Entries(Holds) # {} => d.uses \subseteq Holds
      /\ phase \in {"undo", "exit"} => EntryFirst(d, todo)
      /\ inside => Entries(Holds) # {}
      /\ ~d.waits => /\ d.owner
                     /\ phase \in {"undo", "exit"} => ~inside
                     /\ phase = "undo" => Entries(Holds) = {}
  BY DEF Shielded
<1>3. SUFFICES /\ Entries(Holds') # {} => d.uses \subseteq Holds'
               /\ phase' \in {"undo", "exit"} => EntryFirst(d, todo')
               /\ inside' => Entries(Holds') # {}
               /\ ~d.waits => /\ d.owner
                              /\ phase' \in {"undo", "exit"} => ~inside'
                              /\ phase' = "undo" => Entries(Holds') = {}
  BY <1>1 DEF Shielded
<1>4. CASE StepDone
  <2>1. /\ phase = "init" /\ phase' = "init" /\ inside' = inside
        /\ at \in 1 .. Len(d.init) /\ d.init[at].needs \subseteq Holds
        /\ Holds' = Holds \cup ({d.init[at].get} \ {None})
    BY <1>4, Acquired
  <2>2. Checked(d, at) \subseteq Holds
    BY <2>1 DEF Owned
  <2>3. d.init[at].get \in d.entries => d.uses \subseteq Holds
    BY <1>1, <2>1, <2>2 DEF Guarded
  <2>4. Entries(Holds') # {} => d.uses \subseteq Holds'
    BY <1>2, <2>1, <2>3
  <2>5. Entries(Holds) \subseteq Entries(Holds')
    BY <2>1
  <2> QED
    BY <1>2, <2>1, <2>4, <2>5
<1>5. CASE StepFails
  <2>1. /\ phase = "init" /\ phase' = "undo" /\ Holds' = Holds /\ inside' = inside
        /\ todo' = d.init[at].undo /\ at \in Unwinding(d)
    BY <1>1, <1>5 DEF StepFails, Holds, Unwinding, Owned, LCTypeOK, d
  <2>2. EntryFirst(d, todo')
    BY <2>1 DEF Guarded
  <2>3. ~d.waits => Entries(Holds) = {}
    BY <2>1 DEF Guarded, Accounted
  <2> QED
    BY <1>2, <2>1, <2>2, <2>3
<1>6. CASE Rmmod
  <2>1. /\ phase' = "exit" /\ Holds' = Holds /\ inside' = inside /\ todo' = d.exit
        /\ d.owner => ~inside
    BY <1>6 DEF Rmmod, Holds
  <2>2. EntryFirst(d, todo')
    BY <2>1 DEF Guarded
  <2> QED
    BY <1>2, <2>1, <2>2
<1>7. CASE Release
  <2>1. /\ phase' = phase /\ inside' = inside /\ todo' = Tail(todo) /\ todo # <<>>
        /\ todo \in Seq(Resources) /\ Holds' = Holds \ {Head(todo)}
        /\ phase \in {"undo", "exit"}
        /\ Head(todo) \in d.entries /\ d.waits => ~inside
    BY <1>7, Released DEF Owned, LCTypeOK, Release
  <2>2. /\ Head(todo) = todo[1]
        /\ DOMAIN todo = 1 .. Len(todo) /\ Len(todo) \in Nat \ {0}
        /\ DOMAIN todo' = 1 .. Len(todo) - 1
        /\ \A a \in 1 .. Len(todo) - 1 : todo'[a] = todo[a + 1]
    BY <2>1, FirstAndRest
  <2>3. \A a, b \in DOMAIN todo : todo[a] \in d.uses /\ todo[b] \in d.entries => b < a
    BY <1>2, <2>1 DEF EntryFirst
  <2>4. EntryFirst(d, todo')
    <3>1. \A a \in DOMAIN todo' : a + 1 \in DOMAIN todo /\ todo'[a] = todo[a + 1]
                                  /\ a \in Nat
      BY <2>2
    <3>2. ASSUME NEW a \in DOMAIN todo', NEW b \in DOMAIN todo',
                 todo'[a] \in d.uses, todo'[b] \in d.entries
          PROVE  b < a
      <4>1. b + 1 < a + 1
        BY <2>3, <3>1, <3>2
      <4> QED
        BY <3>1, <4>1
    <3> QED
      BY <3>2 DEF EntryFirst
  <2>5. Entries(Holds') # {} => d.uses \subseteq Holds'
    <3> SUFFICES ASSUME NEW x \in Holds', x \in d.entries
                 PROVE  Head(todo) \notin d.uses /\ Entries(Holds) # {}
      BY <1>2, <2>1
    <3>1. x \in Holds /\ x \in Items(todo)
      BY <2>1 DEF Accounted
    <3>2. PICK b \in DOMAIN todo : todo[b] = x
      BY <3>1 DEF Items
    <3>3. 1 \in DOMAIN todo /\ ~(b < 1)
      BY <2>2
    <3> QED
      BY <2>2, <2>3, <3>1, <3>2, <3>3
  <2>6. inside => Entries(Holds') # {}
    <3> SUFFICES ASSUME inside PROVE Entries(Holds') # {}
      OBVIOUS
    <3>1. d.waits
      BY <1>2, <2>1
    <3>2. Head(todo) \notin d.entries
      BY <2>1, <3>1
    <3> QED
      BY <1>2, <2>1, <3>2
  <2>7. Entries(Holds') \subseteq Entries(Holds)
    BY <2>1
  <2> QED
    BY <1>2, <2>1, <2>4, <2>5, <2>6, <2>7
<1>8. CASE Removed
  <2>1. /\ phase \in {"undo", "exit"} /\ phase' = "out" /\ Holds' = Holds
        /\ inside' = inside
    BY <1>8 DEF Removed, Holds
  <2> QED
    BY <1>2, <2>1
<1>9. CASE Insmod \/ StepIgnored \/ InitReturns
  <2>1. phase' \in {"init", "live"} /\ Holds' = Holds /\ inside' = inside
    BY <1>9 DEF Insmod, StepIgnored, InitReturns, Holds
  <2> QED
    BY <1>2, <2>1
<1>10. CASE EnterHandler
  <2>1. /\ phase' = phase /\ Holds' = Holds /\ todo' = todo
        /\ Entries(Holds) # {} /\ (phase = "exit" => ~d.owner)
    BY <1>10 DEF EnterHandler, Holds
  <2> QED
    BY <1>2, <2>1
<1>11. CASE LeaveHandler \/ UNCHANGED LCVars
  <2>1. /\ phase' = phase /\ Holds' = Holds /\ todo' = todo
        /\ inside' => inside
    BY <1>11 DEF LeaveHandler, LCVars, Holds
  <2> QED
    BY <1>2, <2>1
<1> QED
  BY <1>4, <1>5, <1>6, <1>7, <1>8, <1>9, <1>10, <1>11 DEF LCNext

-----------------------------------------------------------------------------
(* The theorems, each for a table whose drivers keep the rules it needs.     *)

(* Accounted, for the drivers that are claimed to unwind completely.         *)
Unleaked == driver \notin Leaking => Accounted

(* What such drivers hold is accounted for at all times.                     *)
LEMMA UnleakedHolds ==
    ASSUME \A n \in Driver \ Leaking : Complete(Table[n])
    PROVE  LCSpec => []Unleaked
<1>1. LCInit => Unleaked
  <2> SUFFICES ASSUME LCInit PROVE Accounted
    BY DEF Unleaked
  <2> QED
    BY DEF LCInit, Accounted
<1>2. Owned /\ Unleaked /\ [LCNext]_LCVars => Unleaked'
  <2> SUFFICES ASSUME Owned, Unleaked, [LCNext]_LCVars, driver' \notin Leaking
               PROVE  Accounted'
    BY DEF Unleaked
  <2>1. driver' = driver /\ driver \in Driver
    BY SameDriver
  <2>2. Complete(d) /\ Accounted
    BY <2>1 DEF d, Unleaked
  <2> QED
    BY <2>2, AccountedKept
<1> QED
  BY <1>1, <1>2, OwnedHolds, PTL DEF LCSpec

(* If every label of the goto ladders, with those below it, and the exit     *)
(* functions release all that may have been acquired, then whichever steps   *)
(* of the init function fail, and however often the driver is loaded and     *)
(* removed, nothing is left behind.                                          *)
THEOREM LoadingLeavesNothing ==
    ASSUME \A n \in Driver \ Leaking : Complete(Table[n])
    PROVE  LCSpec => []NothingLeft
<1>1. Unleaked => NothingLeft
  BY DEF Unleaked, Accounted, NothingLeft
<1> QED
  BY <1>1, UnleakedHolds, PTL

(* Releases are of what is held; those of a ladder come in reverse order.    *)
Disciplined ==
    /\ StillHeld
    /\ driver \notin Leaking => Ordered

(* If the ladders and the exit functions name only what was acquired, and    *)
(* nothing twice, nothing is released that is not held, not even by a driver *)
(* that leaks; and if complete ladders name it in reverse order, each        *)
(* release is that of the resource acquired last, although some of them may  *)
(* be missing.                                                               *)
THEOREM ReleasesAreOrdered ==
    ASSUME \A n \in Driver : FreesHeld(Table[n]),
           \A n \in Driver \ Leaking : Complete(Table[n]) /\ InReverse(Table[n])
    PROVE  LCSpec => []ReleasesHeld
<1>1. LCInit => Disciplined
  <2> SUFFICES ASSUME LCInit PROVE StillHeld /\ Ordered
    BY DEF Disciplined
  <2>1. phase = "out" /\ DOMAIN held = {}
    BY DEF LCInit
  <2> QED
    BY <2>1 DEF StillHeld, Ordered
<1>2. Owned /\ Unleaked /\ Disciplined /\ [LCNext]_LCVars => Disciplined'
  <2> SUFFICES ASSUME Owned, Unleaked, Disciplined, [LCNext]_LCVars PROVE Disciplined'
    OBVIOUS
  <2>1. driver' = driver /\ driver \in Driver
    BY SameDriver
  <2>2. FreesHeld(d) /\ StillHeld
    BY <2>1 DEF d, Disciplined
  <2>3. StillHeld'
    BY <2>2, StillHeldKept
  <2>4. ASSUME driver \notin Leaking PROVE Ordered'
    <3>1. InReverse(d) /\ Accounted /\ Ordered
      BY <2>1, <2>4 DEF d, Unleaked, Disciplined
    <3> QED
      BY <3>1, OrderedKept
  <2> QED
    BY <2>1, <2>3, <2>4 DEF Disciplined
<1>3. Owned /\ Unleaked /\ Disciplined => ReleasesHeld
  <2> SUFFICES ASSUME Owned, Unleaked, Disciplined PROVE ReleasesHeld
    OBVIOUS
  <2>1. /\ LCTypeOK /\ IsDriver(d) /\ held \in Seq(Resources) /\ todo \in Seq(Resources)
        /\ Holds \subseteq Gets(d)
    BY DriverAssumption DEF Owned, LCTypeOK, d
  <2>2. todo # <<>> => /\ 1 \in DOMAIN todo /\ Head(todo) = todo[1]
                       /\ DOMAIN todo = 1 .. Len(todo)
    BY <2>1, FirstAndRest
  <2>3. ASSUME phase \in {"undo", "exit"}, todo # <<>>
        PROVE  \/ Head(todo) \in Holds
               \/ \E i \in DOMAIN d.init :
                     d.init[i].get = Head(todo) /\ d.init[i].failure = "ignored"
    BY <2>2, <2>3 DEF Disciplined, StillHeld, Ignored
  <2>4. ASSUME phase = "undo", todo # <<>>, Head(todo) \in Holds, driver \notin Leaking
        PROVE  Head(todo) = held[Len(held)]
    <3> DEFINE h == Head(todo)
               l == held[Len(held)]
    <3>1. PICK k \in DOMAIN held : held[k] = h
      BY <2>4 DEF Holds, Items
    <3>2. DOMAIN held = 1 .. Len(held) /\ Len(held) \in DOMAIN held
      BY <2>1, <3>1
    <3>3. l \in Holds /\ h \in Gets(d) /\ l \in Gets(d)
      BY <2>1, <2>4, <3>2 DEF Holds, Items
    <3>4. Ordered /\ Holds \subseteq Items(todo)
      BY <2>4 DEF Disciplined, Unleaked, Accounted
    <3>5. PICK b \in DOMAIN todo : todo[b] = l
      BY <3>3, <3>4 DEF Items
    <3>6. CASE b = 1
      BY <2>2, <2>4, <3>5, <3>6
    <3>7. CASE b # 1
      <4>1. 1 < b
        BY <2>2, <2>4, <3>7
      <4>2. Later(d, h, l) \/ d.init[at].needs = {h, l}
        BY <2>2, <2>4, <3>4, <3>5, <4>1 DEF Ordered
      <4>3. d.init[at].needs # {h, l}
        BY <2>4, <3>3, <3>4 DEF Ordered
      <4>4. ~Later(d, l, h)
        BY <2>1, <3>3, <4>2, <4>3, LaterOneWay
      <4>5. ~(k < Len(held))
        BY <3>1, <3>2, <3>4, <4>4 DEF Ordered
      <4> QED
        BY <3>1, <3>2, <4>5
    <3> QED
      BY <3>6, <3>7
  <2> QED
    BY <2>1, <2>3, <2>4 DEF ReleasesHeld
<1>4. LCSpec => []Unleaked
  BY UnleakedHolds
<1> QED
  BY <1>1, <1>2, <1>3, <1>4, OwnedHolds, PTL DEF LCSpec

(* Shielded, for the drivers whose handlers are claimed to be safe.          *)
Protected == driver \notin Leaking \cup Exposed => Shielded

(* The handlers of such drivers are shielded at all times.                   *)
LEMMA ProtectedHolds ==
    ASSUME \A n \in Driver \ Leaking : Complete(Table[n]),
           \A n \in Driver \ (Leaking \cup Exposed) : Guarded(Table[n])
    PROVE  LCSpec => []Protected
<1>1. LCInit => Protected
  <2> SUFFICES ASSUME LCInit, driver \notin Leaking \cup Exposed PROVE Shielded
    BY DEF Protected
  <2>1. phase = "out" /\ ~inside /\ driver \in Driver /\ Holds = {}
    BY DEF LCInit, Holds, Items
  <2>2. Guarded(d)
    BY <2>1 DEF d
  <2> QED
    BY <2>1, <2>2 DEF Shielded, Guarded
<1>2. Owned /\ Unleaked /\ Protected /\ [LCNext]_LCVars => Protected'
  <2> SUFFICES ASSUME Owned, Unleaked, Protected, [LCNext]_LCVars,
                      driver' \notin Leaking \cup Exposed
               PROVE  Shielded'
    BY DEF Protected
  <2>1. driver' = driver /\ driver \in Driver
    BY SameDriver
  <2>2. Guarded(d) /\ Accounted /\ Shielded
    BY <2>1 DEF d, Unleaked, Protected
  <2> QED
    BY <2>2, ShieldedKept
<1>3. LCSpec => []Unleaked
  BY UnleakedHolds
<1> QED
  BY <1>1, <1>2, <1>3, OwnedHolds, PTL DEF LCSpec

(* If an entry is acquired after all that the handlers use and released      *)
(* before it, and either its release waits for them or their files pin the   *)
(* module, then a handler always finds what it uses, whichever step fails    *)
(* and whenever it starts.                                                   *)
THEOREM HandlersAreSafe ==
    ASSUME \A n \in Driver \ Leaking : Complete(Table[n]),
           \A n \in Driver \ (Leaking \cup Exposed) : Guarded(Table[n])
    PROVE  LCSpec => []HandlersFindResources
<1>1. Protected => HandlersFindResources
  BY DEF Protected, Shielded, HandlersFindResources
<1> QED
  BY <1>1, ProtectedHolds, PTL

(* Under the same rules no handler runs in a module that is out of memory.   *)
THEOREM RemovedMeansIdle ==
    ASSUME \A n \in Driver \ Leaking : Complete(Table[n]),
           \A n \in Driver \ (Leaking \cup Exposed) : Guarded(Table[n])
    PROVE  LCSpec => []ModulePinned
<1>1. Protected /\ Unleaked => ModulePinned
  <2> SUFFICES ASSUME Protected, Unleaked, phase = "out",
                      driver \notin Leaking \cup Exposed
               PROVE  ~inside
    BY DEF ModulePinned
  <2>1. held = <<>>
    BY DEF Unleaked, Accounted
  <2>2. Holds = {}
    BY <2>1 DEF Holds, Items
  <2> QED
    BY <2>2 DEF Protected, Shielded
<1> QED
  BY <1>1, ProtectedHolds, UnleakedHolds, PTL

-----------------------------------------------------------------------------
(* bottomhalf.c: a handler runs only while its interrupt is requested, and   *)
(* the LED, once turned off by bottomhalf_exit, stays off.                   *)

BHInv ==
    /\ BHTypeOK
    /\ \A i \in Irq : isr[i] # "idle" => Requested(i)
    /\ stage \in {"gpio_free", "out", "oops"} => led = 0

(* Interrupts, work and removal keep it: free_irq waits for the handler.     *)
LEMMA HandlersEnd ==
    ASSUME BHInv, [BHNext]_BHVars
    PROVE  BHInv'
<1> USE DEF BHInv, BHTypeOK, Stage, Irq, Requested, IsrGoes, work
<1>1. ASSUME NEW i \in Irq, Interrupt(i) \/ IsrStep(i) PROVE BHInv'
  <2>1. Requested(i) /\ stage' = stage /\ led' \in 0 .. 1
        /\ stage \notin {"gpio_free", "out", "oops"}
    BY <1>1 DEF Interrupt, IsrStep, IsrTest, IsrSet, IsrSchedule
  <2>2. \A j \in Irq \ {i} : isr'[j] = isr[j]
    BY <1>1 DEF Interrupt, IsrStep, IsrTest, IsrSet, IsrSchedule
  <2>3. isr' \in [Irq -> {"idle", "test", "set", "schedule"}]
    BY <1>1 DEF Interrupt, IsrStep, IsrTest, IsrSet, IsrSchedule
  <2>4. pending' \in BOOLEAN /\ running' \in BOOLEAN /\ owed' \in BOOLEAN
    BY <1>1 DEF Interrupt, IsrStep, IsrTest, IsrSet, IsrSchedule
  <2> QED
    BY <2>1, <2>2, <2>3, <2>4
<1>2. ASSUME NEW i \in Irq, FreeIrq(i) PROVE BHInv'
  BY <1>2 DEF FreeIrq
<1>3. CASE WorkStart \/ bottomhalf_work_fn \/ WorkFault
  BY <1>3 DEF WorkStart, bottomhalf_work_fn, WorkFault
<1>4. CASE ExitStarts \/ LedOff \/ GpioFree \/ LoadAgain
  BY <1>4 DEF ExitStarts, LedOff, GpioFree, LoadAgain
<1>5. CASE UNCHANGED BHVars
  BY <1>5 DEF BHVars
<1> QED
  BY <1>1, <1>2, <1>3, <1>4, <1>5 DEF BHNext

(* bottomhalf_exit frees both interrupts before it turns the LED off, and    *)
(* free_irq waits for a running handler: none of them turns the LED on again *)
(* while the module goes away, however the handlers, the workqueue and the   *)
(* removals interleave.                                                      *)
THEOREM LedStaysOff == BHSpec => []LedOffWhenOut
<1>1. BHInit => BHInv
  <2> SUFFICES ASSUME BHInit PROVE BHInv
    OBVIOUS
  <2>1. \A i \in Irq : isr[i] = "idle"
    BY DEF BHInit
  <2>2. led \in 0 .. 1 /\ isr \in [Irq -> {"idle", "test", "set", "schedule"}]
    BY DEF BHInit
  <2>3. pending \in BOOLEAN /\ running \in BOOLEAN /\ owed \in BOOLEAN
    BY Zenon DEF BHInit
  <2>4. BHTypeOK
    BY <2>2, <2>3 DEF BHInit, BHTypeOK, Stage
  <2> QED
    BY <2>1, <2>4 DEF BHInit, BHInv
<1>2. BHInv /\ [BHNext]_BHVars => BHInv'
  BY HandlersEnd
<1>3. BHInv => LedOffWhenOut
  BY DEF BHInv, LedOffWhenOut, BHTypeOK, Stage, Loaded
<1> QED
  BY <1>1, <1>2, <1>3, PTL DEF BHSpec

-----------------------------------------------------------------------------
(* completions.c.                                                           *)

Done == {"leave", "exit", "gone"}

(* The points of completions_init at which no thread has been woken.         *)
Preparing == {"create_crank", "create_flywheel", "stop_crank", "wake_flywheel",
              "wake_crank"}

Woken == {"loaded", "wait_crank", "wait_flywheel"}

(* Before the crank thread is woken nobody has been completed, and the       *)
(* flywheel thread, woken first, can only wait.                              *)
BeforeWake ==
    loader \in Preparing =>
        /\ turned = loads /\ spun = loads
        /\ comp = [w \in Worker |-> 0]
        /\ thread["crank"] = IF loader = "create_crank" THEN "none" ELSE "created"
        /\ thread["flywheel"] = IF loader = "wake_flywheel" THEN "created"
                                ELSE IF loader = "wake_crank" THEN "wait" ELSE "none"
        /\ loader \in {"wake_flywheel", "wake_crank"} => loads < MaxLoads

(* Afterwards the count of a completion says whether its thread has done its *)
(* work, and so do the log lines; the flywheel thread is past its wait only  *)
(* when the crank has been completed.                                        *)
AfterWake ==
    loader \in Woken =>
        /\ thread["crank"] \in {"work", "complete_all"} \cup Done
        /\ thread["flywheel"] \in {"wait", "work", "complete_all"} \cup Done
        /\ \A w \in Worker : comp[w] = IF thread[w] \in Done THEN All ELSE 0
        /\ thread["flywheel"] # "wait" => thread["crank"] \in Done
        /\ loader = "wait_flywheel" => thread["crank"] \in Done
        /\ turned = IF thread["crank"] = "work" THEN loads - 1 ELSE loads
        /\ spun = IF thread["flywheel"] \in {"wait", "work"} THEN loads - 1 ELSE loads

(* EachLoadSpinsOnce is what remains of AfterWake when completions_exit has  *)
(* found both counts positive.  The counts of an earlier load do not matter: *)
(* init_completion sets them again.                                          *)
IInv == TypeOK /\ BeforeWake /\ AfterWake /\ EachLoadSpinsOnce

-----------------------------------------------------------------------------
USE CompletionsAssumption
USE DEF Worker, Done, Preparing, Woken, ThreadPC, LoaderPC, IInv, TypeOK, BeforeWake,
        AfterWake, EachLoadSpinsOnce, LoaderGoes, ThreadGoes, log

(* Before the first insmod.                                                  *)
LEMMA InitIInv == Init => IInv
BY DEF Init

(* completions_init, with both of its error paths.                           *)
LEMMA LoadingKeepsIInv ==
    ASSUME IInv,
           InitCompletions \/ CreateCrank \/ CreateFlywheel \/ StopCrank
              \/ WakeFlywheel \/ WakeCrank
    PROVE  IInv'
<1>1. CASE InitCompletions
  BY <1>1 DEF InitCompletions
<1>2. CASE CreateCrank
  BY <1>2 DEF CreateCrank
<1>3. CASE CreateFlywheel
  BY <1>3 DEF CreateFlywheel
<1>4. CASE StopCrank
  BY <1>4 DEF StopCrank
<1>5. CASE WakeFlywheel
  BY <1>5 DEF WakeFlywheel
<1>6. CASE WakeCrank
  BY <1>6 DEF WakeCrank
<1> QED
  BY <1>1, <1>2, <1>3, <1>4, <1>5, <1>6

(* The steps of the two kernel threads, in whatever state rmmod is.          *)
LEMMA ThreadKeepsIInv ==
    ASSUME IInv, NEW w \in Worker, ThreadStep(w)
    PROVE  IInv'
<1>1. CASE FlywheelWait
  BY <1>1 DEF FlywheelWait, wait_for_completion
<1>2. CASE Work(w)
  BY <1>2 DEF Work
<1>3. CASE CompleteAll(w)
  BY <1>3 DEF CompleteAll, complete_all
<1>4. CASE Leave(w)
  BY <1>4 DEF Leave
<1>5. CASE CompleteAndExit(w)
  BY <1>5 DEF CompleteAndExit, complete
<1> QED
  BY <1>1, <1>2, <1>3, <1>4, <1>5 DEF ThreadStep

(* completions_exit: a wait that returns has seen the thread's complete_all. *)
LEMMA ExitKeepsIInv ==
    ASSUME IInv, BeginExit \/ WaitCrank \/ WaitFlywheel
    PROVE  IInv'
<1>1. CASE BeginExit
  BY <1>1 DEF BeginExit
<1>2. CASE WaitCrank
  BY <1>2 DEF WaitCrank, wait_for_completion
<1>3. CASE WaitFlywheel
  BY <1>3 DEF WaitFlywheel, wait_for_completion
<1> QED
  BY <1>1, <1>2, <1>3

(* IInv holds in every state of every behaviour of completions.c.            *)
LEMMA Inductive == Spec => []IInv
<1>1. IInv /\ [Next]_vars => IInv'
  <2> SUFFICES ASSUME IInv, [Next]_vars PROVE IInv'
    OBVIOUS
  <2>1. CASE UNCHANGED vars
    BY <2>1 DEF vars
  <2>2. CASE Next
    BY <2>2, LoadingKeepsIInv, ThreadKeepsIInv, ExitKeepsIInv DEF Next, LoaderStep
  <2> QED
    BY <2>1, <2>2
<1> QED
  BY <1>1, InitIInv, PTL DEF Spec

(* The flywheel never spins up in a load in which the crank has not been     *)
(* turned, although its thread is woken first.                               *)
THEOREM CrankComesFirst == Spec => []CrankFirst
<1>1. IInv => CrankFirst
  BY DEF CrankFirst
<1> QED
  BY <1>1, Inductive, PTL

(* When completions_exit has returned, each thread has done its work exactly *)
(* once for every load, and none is left waiting for a completion that       *)
(* nobody will give.                                                         *)
THEOREM ExitWaitsForAll == Spec => []EachLoadSpinsOnce
<1>1. IInv => EachLoadSpinsOnce
  OBVIOUS
<1> QED
  BY <1>1, Inductive, PTL
=============================================================================
