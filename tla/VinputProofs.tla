---------------------------- MODULE VinputProofs ----------------------------
(***************************************************************************)
(* vinput.c for any number of threads, files, vdevices, types and ids:      *)
(* until something that is gone is used, the registry is sound whatever its *)
(* users do; nothing is left of a type that is unregistered while nobody    *)
(* exports; and nothing that is gone is used as long as users take the care *)
(* that the driver leaves to them.  The last part is about vkbd.c, the type *)
(* that the repository has: the keyboard and what is read agree with the    *)
(* last number written.                                                     *)
(***************************************************************************)
EXTENDS Vinput, Vkbd, SequenceTheorems, WellFoundedInduction, TLAPS

(* The types of the registry, the threads and the files.                    *)
Types ==
    /\ vinput_ids \subseteq Minors
    /\ vinput_devices \subseteq Type
    /\ vinput_vdevices \in Seq(Obj)
    /\ obj \in [Obj -> Vdev \cup {None}]
    /\ private_data \in [File -> Obj \cup {None}]
    /\ at \in [Thread -> At]
    /\ arg \in [Thread -> Type \cup Minors \cup {None}]
    /\ ptr \in [Thread -> Obj \cup {None}]
    /\ next \in [Thread -> Obj \cup {None}]

(* The list has the live vdevices, each once.                               *)
Linked ==
    /\ \A i, j \in DOMAIN vinput_vdevices :
          vinput_vdevices[i] = vinput_vdevices[j] => i = j
    /\ \A o \in Obj : o \in Listed <=> obj[o] # None

(* Their ids are marked in use, and are different.                          *)
Ids ==
    /\ \A o \in Obj : obj[o] # None => obj[o].id \in vinput_ids
    /\ \A o, p \in Obj :
          obj[o] # None /\ obj[p] # None /\ obj[o].id = obj[p].id => o = p

Exporting == {"alloc", "input", "no_input", "dev", "register", "no_register", "no_dev"}

(* A thread in export_store has a type.                                     *)
Args == \A t \in Thread : at[t] \in Exporting => arg[t] \in Type

RInv == Types /\ Linked /\ Ids /\ Args

(* The rest of the types: what is recorded of the users.                    *)
Records ==
    /\ opening \in [File -> Minors \cup {None}]
    /\ careless \subseteq Cares
    /\ harmed \in BOOLEAN

(* A listed vdevice is of a type that is loaded.                            *)
NoneLeft == \A o \in Listed : obj[o].type # None => Loaded(obj[o].type)

(* A thread holds a live vdevice, or none where it has none; the type that  *)
(* it exports stays registered.                                             *)
ThreadOK(t) ==
    /\ at[t] \in {"idle", "alloc"} => ptr[t] = None
    /\ at[t] \notin {"idle", "alloc", "loop"} => ptr[t] # None
    /\ ptr[t] # None => obj[ptr[t]] # None
    /\ at[t] \notin InUnregister => next[t] = None
    /\ at[t] \in Exporting => arg[t] \in vinput_devices
    /\ at[t] \in {"register", "no_register"} =>
          obj[ptr[t]].type # None /\ obj[ptr[t]].dev = TRUE
    /\ at[t] \in {"del", "loop_del"} =>
          obj[ptr[t]].input = "none" /\ obj[ptr[t]].dev = TRUE

(* No two threads hold the same vdevice.                                    *)
Unique == \A t, u \in Thread : ptr[t] # None /\ ptr[t] = ptr[u] => t = u

(* A vdevice is whole unless a thread is making it or taking it apart.      *)
Whole(o) ==
    obj[o] # None
    /\ (\A t \in Thread : ptr[t] = o => at[t] \in {"found", "kill", "loop", "loop_kill"}) =>
        obj[o].input = "registered" /\ obj[o].dev = TRUE /\ obj[o].type # None

(* A thread in vinput_unregister has the driver for itself, and the         *)
(* vdevices before its place in the list are not of its type.               *)
Alone == \A t, u \in Thread : at[t] \in InUnregister /\ u # t => at[u] = "idle"

AtPlace(t, i) ==
    /\ ptr[t] = vinput_vdevices[i]
    /\ next[t] = IF i < Len(vinput_vdevices) THEN vinput_vdevices[i + 1] ELSE None
    /\ \A j \in 1 .. i - 1 : obj[vinput_vdevices[j]].type # arg[t]

LoopOK(t) ==
    at[t] \in InUnregister =>
        /\ arg[t] \in Type /\ arg[t] \notin vinput_devices
        /\ ptr[t] = None => next[t] = None /\ \A o \in Listed : obj[o].type # arg[t]
        /\ ptr[t] # None => \E i \in DOMAIN vinput_vdevices : AtPlace(t, i)
        /\ at[t] \in {"loop_kill", "loop_del"} => obj[ptr[t]].type = arg[t]

(* An open file has a vdevice that nobody is going to remove.               *)
FileOK(f) ==
    private_data[f] # None =>
        /\ obj[private_data[f]] # None
        /\ obj[private_data[f]].input = "registered"
        /\ obj[private_data[f]].type \in vinput_devices
        /\ \A u \in Thread : ptr[u] = private_data[f] => LooksInVain(u) \/ at[u] = "loop"

(* Nobody who removes has been careless.                                    *)
Careful == careless \cap {"known_id", "one_remover", "quiet_type"} = {}

FilesOK == careless = {} => \A f \in File : FileOK(f)

DInv ==
    /\ RInv /\ Unique /\ Alone /\ NoneLeft
    /\ \A t \in Thread : ThreadOK(t) /\ LoopOK(t)
    /\ \A o \in Obj : Whole(o)
    /\ FilesOK

-----------------------------------------------------------------------------
USE VinputAssumption

(* A set of natural numbers that has a member has a least one.              *)
LEMMA LeastMember ==
    ASSUME NEW T \in SUBSET Nat, T # {}
    PROVE  \E x \in T : \A y \in T : x <= y
<1> DEFINE R == OpToRel(<, Nat)
<1>1. IsWellFoundedOn(R, Nat)
  BY NatLessThanWellFounded
<1>2. \A x, y \in Nat : <<x, y>> \in R <=> x < y
  BY DEF OpToRel
<1> HIDE DEF R
<1>3. PICK x \in T : \A y \in T : ~ (<<y, x>> \in R)
  BY <1>1, WFMin
<1>4. \A y \in T : x <= y
  <2> TAKE y \in T
  <2>1. x \in Nat /\ y \in Nat /\ ~ (<<y, x>> \in R)
    BY <1>3
  <2>2. ~ (y < x)
    BY <1>2, <2>1
  <2> QED
    BY <2>1, <2>2
<1> QED
  BY <1>4

(* find_first_zero_bit finds a free id, unless it returns VINPUT_MINORS.    *)
LEMMA FirstZeroBitIsFree ==
    ASSUME vinput_ids \subseteq Minors, IdFound
    PROVE  FirstZeroBit \in Minors /\ FirstZeroBit \notin vinput_ids
<1> DEFINE Zero(i) == i \notin vinput_ids /\ \A j \in Minors \ vinput_ids : i <= j
<1>1. \E i \in 0 .. VINPUT_MINORS : Zero(i)
  <2>1. CASE Minors \ vinput_ids = {}
    <3>1. VINPUT_MINORS \in 0 .. VINPUT_MINORS /\ VINPUT_MINORS \notin vinput_ids
      BY DEF Minors
    <3> QED
      BY <2>1, <3>1
  <2>2. CASE Minors \ vinput_ids # {}
    <3>1. Minors \ vinput_ids \in SUBSET Nat
      BY DEF Minors
    <3>2. PICK x \in Minors \ vinput_ids : \A y \in Minors \ vinput_ids : x <= y
      BY <2>2, <3>1, LeastMember
    <3>3. x \in 0 .. VINPUT_MINORS
      BY <3>2 DEF Minors
    <3> QED
      BY <3>2, <3>3
  <2> QED
    BY <2>1, <2>2
<1>2. FirstZeroBit \in 0 .. VINPUT_MINORS /\ Zero(FirstZeroBit)
  BY <1>1 DEF FirstZeroBit
<1> QED
  BY <1>2 DEF IdFound, Minors

(* The parts of a live vdevice.                                             *)
LEMMA VdevParts ==
    ASSUME Types, NEW o \in Obj, obj[o] # None
    PROVE  /\ obj[o] \in Vdev /\ obj[o].id \in Minors /\ obj[o].type \in Type \cup {None}
           /\ obj[o].input \in {"none", "allocated", "registered"} /\ obj[o].dev \in BOOLEAN
<1>1. obj[o] \in Vdev
  BY DEF Types
<1> QED
  BY <1>1 DEF Vdev

-----------------------------------------------------------------------------
(* The list.                                                                *)

(* The place of a vdevice in the list.                                      *)
LEMMA PlaceInList ==
    ASSUME Types, Linked, NEW o \in Listed
    PROVE  /\ Place(o) \in DOMAIN vinput_vdevices /\ vinput_vdevices[Place(o)] = o
           /\ \A i \in DOMAIN vinput_vdevices : vinput_vdevices[i] = o => i = Place(o)
<1>1. \E i \in DOMAIN vinput_vdevices : vinput_vdevices[i] = o
  BY DEF Listed
<1>2. Place(o) \in DOMAIN vinput_vdevices /\ vinput_vdevices[Place(o)] = o
  BY <1>1 DEF Place
<1> QED
  BY <1>2 DEF Linked

(* The list after list_del.                                                 *)
LEMMA UnlinkedList ==
    ASSUME Types, Linked, NEW o \in Listed, NEW n \in Nat, n = Len(vinput_vdevices),
           vinput_vdevices' = Unlinked(o)
    PROVE  /\ vinput_vdevices' \in Seq(Obj) /\ Len(vinput_vdevices') = n - 1
           /\ n - 1 \in Nat /\ DOMAIN vinput_vdevices' = 1 .. n - 1
           /\ \A i \in 1 .. n - 1 : vinput_vdevices'[i] =
                 IF i < Place(o) THEN vinput_vdevices[i] ELSE vinput_vdevices[i + 1]
           /\ \A i, j \in 1 .. n - 1 : vinput_vdevices'[i] = vinput_vdevices'[j] => i = j
           /\ Listed' = Listed \ {o}
<1> DEFINE s == vinput_vdevices
<1>1. s \in Seq(Obj) /\ DOMAIN s = 1 .. n /\ \A i \in 1 .. n : s[i] \in Obj
  BY LenProperties, ElementOfSeq DEF Types
<1>2. PICK k \in 1 .. n : k = Place(o) /\ s[k] = o
  BY <1>1, PlaceInList
<1>3. n - 1 \in Nat
  BY <1>2
<1>4. s' = [i \in 1 .. n - 1 |-> IF i < k THEN s[i] ELSE s[i + 1]]
  BY <1>2 DEF Unlinked
<1>5. \A i \in 1 .. n - 1 : i \in 1 .. n /\ i + 1 \in 1 .. n
  BY <1>3
<1>6. \A i \in 1 .. n - 1 : s'[i] \in Obj
  BY <1>1, <1>4, <1>5
<1>7. s' \in Seq(Obj) /\ Len(s') = n - 1 /\ DOMAIN s' = 1 .. n - 1
  <2>1. s' \in [1 .. n - 1 -> Obj]
    BY <1>4, <1>6
  <2>2. s' \in Seq(Obj)
    BY <1>3, <2>1, IsASeq
  <2> QED
    BY <1>3, <2>1, <2>2, LenProperties
<1>8. \A i \in 1 .. n - 1 : s'[i] = IF i < k THEN s[i] ELSE s[i + 1]
  BY <1>4
<1>9. \A i, j \in 1 .. n : s[i] = s[j] => i = j
  BY <1>1 DEF Linked
<1> HIDE DEF s
<1>10. ASSUME NEW i \in 1 .. n - 1, NEW j \in 1 .. n - 1, s'[i] = s'[j]
       PROVE  i = j
  <2>1. CASE i < k /\ j < k
    BY <1>5, <1>8, <1>9, <1>10, <2>1
  <2>2. CASE i < k /\ ~(j < k)
    <3>1. s[i] = s[j + 1] /\ i # j + 1
      BY <1>8, <1>10, <2>2
    <3> QED
      BY <1>5, <1>9, <3>1
  <2>3. CASE ~(i < k) /\ j < k
    <3>1. s[i + 1] = s[j] /\ i + 1 # j
      BY <1>8, <1>10, <2>3
    <3> QED
      BY <1>5, <1>9, <3>1
  <2>4. CASE ~(i < k) /\ ~(j < k)
    <3>1. s[i + 1] = s[j + 1]
      BY <1>8, <1>10, <2>4
    <3>2. i + 1 = j + 1
      BY <1>5, <1>9, <3>1
    <3> QED
      BY <3>2
  <2> QED
    BY <2>1, <2>2, <2>3, <2>4
<1>11. Listed' = Listed \ {o}
  <2>1. Listed = {s[i] : i \in 1 .. n} /\ Listed' = {s'[i] : i \in 1 .. n - 1}
    BY <1>1, <1>7 DEF Listed, s
  <2>2. ASSUME NEW i \in 1 .. n - 1 PROVE s'[i] \in Listed \ {o}
    <3>1. CASE i < k
      <4>1. s'[i] = s[i] /\ i # k
        BY <1>8, <3>1
      <4> QED
        BY <1>2, <1>5, <1>9, <2>1, <4>1 DEF s
    <3>2. CASE ~(i < k)
      <4>1. s'[i] = s[i + 1] /\ i + 1 # k
        BY <1>8, <3>2
      <4> QED
        BY <1>2, <1>5, <1>9, <2>1, <4>1 DEF s
    <3> QED
      BY <3>1, <3>2
  <2>3. ASSUME NEW i \in 1 .. n, s[i] # o PROVE s[i] \in Listed'
    <3>1. i # k
      BY <1>2, <2>3 DEF s
    <3>2. CASE i < k
      <4>1. i \in 1 .. n - 1 /\ s'[i] = s[i]
        BY <1>2, <1>8, <3>2
      <4> QED
        BY <2>1, <4>1
    <3>3. CASE i > k
      <4>1. i - 1 \in 1 .. n - 1 /\ ~(i - 1 < k) /\ (i - 1) + 1 = i
        BY <3>3
      <4>2. s'[i - 1] = s[i]
        BY <1>8, <4>1
      <4> QED
        BY <2>1, <4>1, <4>2
    <3> QED
      BY <3>1, <3>2, <3>3
  <2>4. Listed' \subseteq Listed \ {o}
    BY <2>1, <2>2
  <2>5. Listed \ {o} \subseteq Listed'
    BY <2>1, <2>3
  <2> QED
    BY <2>4, <2>5
<1> QED
  BY <1>2, <1>3, <1>7, <1>8, <1>10, <1>11 DEF s

(* A vdevice is taken off the list and freed, and its id given back or not. *)
LEMMA UnlinkKeepsRegistry ==
    ASSUME RInv, NEW o \in Obj, Live(o), vinput_vdevices' = Unlinked(o),
           obj' = [obj EXCEPT ![o] = None],
           vinput_ids \ {obj[o].id} \subseteq vinput_ids', vinput_ids' \subseteq vinput_ids
    PROVE  /\ vinput_vdevices' \in Seq(Obj) /\ vinput_ids' \subseteq Minors
           /\ obj' \in [Obj -> Vdev \cup {None}]
           /\ \A p \in Obj : obj'[p] = IF p = o THEN None ELSE obj[p]
           /\ Listed' = Listed \ {o}
           /\ Linked' /\ Ids'
<1>1. Types /\ Linked /\ Ids
  BY DEF RInv
<1>2. o \in Listed
  BY <1>1 DEF Live, Linked
<1>3. PICK n \in Nat : n = Len(vinput_vdevices)
  BY <1>1, LenProperties DEF Types
<1>4. /\ vinput_vdevices' \in Seq(Obj) /\ DOMAIN vinput_vdevices' = 1 .. n - 1
      /\ \A i, j \in 1 .. n - 1 : vinput_vdevices'[i] = vinput_vdevices'[j] => i = j
      /\ Listed' = Listed \ {o}
  <2>1. PICK q \in Listed, l \in Nat : q = o /\ l = Len(vinput_vdevices)
    BY <1>2, <1>3
  <2>2. vinput_vdevices' = Unlinked(q)
    BY <2>1
  <2>3. /\ vinput_vdevices' \in Seq(Obj) /\ DOMAIN vinput_vdevices' = 1 .. l - 1
        /\ \A i, j \in 1 .. l - 1 : vinput_vdevices'[i] = vinput_vdevices'[j] => i = j
        /\ Listed' = Listed \ {q}
    BY <1>1, <2>1, <2>2, UnlinkedList
  <2> QED
    BY <1>3, <2>1, <2>3
<1>5. \A p \in Obj : obj'[p] = IF p = o THEN None ELSE obj[p]
  BY <1>1 DEF Types
<1>6. obj' \in [Obj -> Vdev \cup {None}] /\ vinput_ids' \subseteq Minors
  BY <1>1 DEF Types
<1>7. Linked'
  BY <1>1, <1>4, <1>5 DEF Linked
<1>8. Ids'
  <2>1. ASSUME NEW p \in Obj, obj'[p] # None PROVE obj'[p].id \in vinput_ids'
    <3>1. p # o /\ obj'[p] = obj[p]
      BY <1>5, <2>1
    <3>2. obj[p].id # obj[o].id /\ obj[p].id \in vinput_ids
      BY <1>1, <2>1, <3>1 DEF Ids, Live
    <3> QED
      BY <3>1, <3>2
  <2> QED
    BY <1>1, <1>5, <2>1 DEF Ids
<1> QED
  BY <1>4, <1>5, <1>6, <1>7, <1>8

(* Fields of a vdevice other than its id are assigned to.                   *)
LEMMA AssignKeepsRegistry ==
    ASSUME RInv, NEW o \in Obj, Live(o), NEW type \in Type \cup {None},
           NEW input \in {"none", "allocated", "registered"}, NEW dev \in BOOLEAN,
           Assign(o, type, input, dev), UNCHANGED <<vinput_ids, vinput_vdevices>>
    PROVE  /\ obj' \in [Obj -> Vdev \cup {None}]
           /\ \A p \in Obj : p # o => obj'[p] = obj[p]
           /\ obj'[o] \in Vdev /\ obj'[o].id = obj[o].id /\ obj'[o].type = type
           /\ obj'[o].input = input /\ obj'[o].dev = dev
           /\ Listed' = Listed
           /\ Linked' /\ Ids'
<1> DEFINE v == [id |-> obj[o].id, type |-> type, input |-> input, dev |-> dev]
<1>1. Types /\ Linked /\ Ids
  BY DEF RInv
<1>2. obj[o].id \in Minors
  BY <1>1, VdevParts DEF Live
<1>3. v \in Vdev
  BY <1>2 DEF Vdev
<1>4. obj' = [obj EXCEPT ![o] = v]
  BY DEF Assign
<1>5. v.id = obj[o].id /\ v.type = type /\ v.input = input /\ v.dev = dev /\ v # None
  BY <1>3
<1> HIDE DEF v
<1>6. \A p \in Obj : obj'[p] = IF p = o THEN v ELSE obj[p]
  BY <1>1, <1>4 DEF Types
<1>7. obj' \in [Obj -> Vdev \cup {None}]
  BY <1>1, <1>3, <1>4 DEF Types
<1>8. Listed' = Listed
  BY DEF Listed
<1>9. Linked'
  BY <1>1, <1>5, <1>6, <1>8 DEF Linked, Live
<1>10. Ids'
  <2>1. \A p \in Obj : obj'[p] # None => obj[p] # None /\ obj'[p].id = obj[p].id
    BY <1>5, <1>6 DEF Live
  <2> QED
    BY <1>1, <2>1 DEF Ids
<1> QED
  BY <1>3, <1>5, <1>6, <1>7, <1>8, <1>9, <1>10

(* A vdevice with a new id is put at the head of the list.                  *)
LEMMA AllocKeepsRegistry ==
    ASSUME RInv, NEW o \in Obj, ~Live(o), IdFound,
           obj' = [obj EXCEPT ![o] = [id |-> FirstZeroBit, type |-> None,
                                      input |-> "none", dev |-> FALSE]],
           vinput_ids' = vinput_ids \cup {FirstZeroBit},
           vinput_vdevices' = <<o>> \o vinput_vdevices
    PROVE  /\ vinput_vdevices' \in Seq(Obj) /\ vinput_ids' \subseteq Minors
           /\ obj' \in [Obj -> Vdev \cup {None}]
           /\ \A p \in Obj : p # o => obj'[p] = obj[p]
           /\ obj'[o] \in Vdev /\ obj'[o].id = FirstZeroBit /\ obj'[o].type = None
           /\ Listed' = Listed \cup {o} /\ obj[o] = None
           /\ FirstZeroBit \notin vinput_ids
           /\ Linked' /\ Ids'
<1> DEFINE v == [id |-> FirstZeroBit, type |-> None, input |-> "none", dev |-> FALSE]
           s == vinput_vdevices
<1>1. Types /\ Linked /\ Ids
  BY DEF RInv
<1>2. FirstZeroBit \in Minors /\ FirstZeroBit \notin vinput_ids
  BY <1>1, FirstZeroBitIsFree DEF Types
<1>3. v \in Vdev
  BY <1>2 DEF Vdev
<1>4. v.id = FirstZeroBit /\ v.type = None /\ v # None
  BY <1>3
<1>5. obj' = [obj EXCEPT ![o] = v] /\ obj[o] = None
  BY DEF Live
<1> HIDE DEF v
<1>6. \A p \in Obj : obj'[p] = IF p = o THEN v ELSE obj[p]
  BY <1>1, <1>5 DEF Types
<1>7. obj' \in [Obj -> Vdev \cup {None}] /\ vinput_ids' \subseteq Minors
  <2>1. obj \in [Obj -> Vdev \cup {None}] /\ vinput_ids \subseteq Minors
    BY <1>1 DEF Types
  <2>2. obj' \in [Obj -> Vdev \cup {None}]
    BY <1>3, <1>5, <2>1
  <2> QED
    BY <1>2, <2>1, <2>2
<1>8. s \in Seq(Obj) /\ <<o>> \in Seq(Obj) /\ Len(<<o>>) = 1 /\ <<o>>[1] = o
  BY <1>1 DEF Types
<1>9. PICK n \in Nat : n = Len(s)
  BY <1>8, LenProperties
<1>10. s' \in Seq(Obj) /\ Len(s') = 1 + n
       /\ \A i \in 1 .. 1 + n : s'[i] = IF i <= 1 THEN <<o>>[i] ELSE s[i - 1]
  BY <1>8, <1>9, ConcatProperties
<1>11. DOMAIN s = 1 .. n /\ DOMAIN s' = 1 .. 1 + n
  BY <1>8, <1>9, <1>10, LenProperties
<1>12. s'[1] = o /\ \A i \in 1 .. n : i + 1 \in 1 .. 1 + n /\ s'[i + 1] = s[i]
  <2>1. 1 \in 1 .. 1 + n
    BY <1>9
  <2>2. \A i \in 1 .. n : i + 1 \in 1 .. 1 + n /\ ~(i + 1 <= 1) /\ (i + 1) - 1 = i
    BY <1>9
  <2> QED
    BY <1>8, <1>10, <2>1, <2>2
<1>13. \A i \in 1 .. 1 + n : i = 1 \/ \E j \in 1 .. n : i = j + 1
  <2> SUFFICES ASSUME NEW i \in 1 .. 1 + n, i # 1 PROVE \E j \in 1 .. n : i = j + 1
    OBVIOUS
  <2>1. i - 1 \in 1 .. n /\ i = (i - 1) + 1
    OBVIOUS
  <2> QED
    BY <2>1
<1>14. Listed = {s[i] : i \in 1 .. n} /\ Listed' = {s'[i] : i \in 1 .. 1 + n}
  BY <1>11 DEF Listed
<1>15. o \notin Listed
  BY <1>1, <1>5 DEF Linked
<1> HIDE DEF s
<1>16. Listed' = Listed \cup {o}
  <2>1. o \in Listed'
    <3>1. 1 \in 1 .. 1 + n
      BY <1>9
    <3> QED
      BY <1>12, <1>14, <3>1
  <2>2. \A i \in 1 .. n : s[i] \in Listed'
    BY <1>12, <1>14
  <2>3. \A i \in 1 .. 1 + n : s'[i] \in Listed \cup {o}
    <3> SUFFICES ASSUME NEW i \in 1 .. 1 + n, i # 1 PROVE s'[i] \in Listed
      BY <1>12
    <3>1. PICK j \in 1 .. n : i = j + 1
      BY <1>13
    <3>2. s'[i] = s[j]
      BY <1>12, <3>1
    <3> QED
      BY <1>14, <3>2
  <2> QED
    BY <1>14, <2>1, <2>2, <2>3
<1>17. \A i, j \in 1 .. 1 + n : s'[i] = s'[j] => i = j
  <2>1. \A i, j \in 1 .. n : s[i] = s[j] => i = j
    BY <1>1, <1>11 DEF Linked, s
  <2>2. \A i \in 1 .. n : s[i] # o
    BY <1>14, <1>15
  <2> SUFFICES ASSUME NEW i \in 1 .. 1 + n, NEW j \in 1 .. 1 + n, s'[i] = s'[j] PROVE i = j
    OBVIOUS
  <2>3. CASE i = 1 \/ j = 1
    <3>1. \A k \in 1 .. 1 + n : k # 1 => s'[k] # o
      <4> SUFFICES ASSUME NEW k \in 1 .. 1 + n, k # 1 PROVE s'[k] # o
        OBVIOUS
      <4>1. PICK l \in 1 .. n : k = l + 1
        BY <1>13
      <4>2. s'[k] = s[l]
        BY <1>12, <4>1
      <4> QED
        BY <2>2, <4>2
    <3> QED
      BY <1>12, <2>3, <3>1
  <2>4. CASE i # 1 /\ j # 1
    <3>1. PICK k \in 1 .. n : i = k + 1
      BY <1>13, <2>4
    <3>2. PICK l \in 1 .. n : j = l + 1
      BY <1>13, <2>4
    <3>3. s[k] = s[l]
      BY <1>12, <3>1, <3>2
    <3> QED
      BY <2>1, <3>1, <3>2, <3>3
  <2> QED
    BY <2>3, <2>4
<1>18. Linked'
  <2>1. \A p \in Obj : p \in Listed' <=> obj'[p] # None
    BY <1>1, <1>4, <1>6, <1>16 DEF Linked
  <2> QED
    BY <1>11, <1>17, <2>1 DEF Linked, s
<1>19. Ids'
  BY <1>1, <1>2, <1>4, <1>6 DEF Ids
<1> QED
  BY <1>2, <1>3, <1>4, <1>5, <1>6, <1>7, <1>10, <1>16, <1>18, <1>19 DEF s

-----------------------------------------------------------------------------
(* Steps of one thread.                                                     *)

Argument == Type \cup Minors \cup {None}
Pointer  == Obj \cup {None}

(* Thread t goes to a place, with its argument and its pointers.            *)
ThreadStep(t, to, a, o, x) ==
    /\ at' = [at EXCEPT ![t] = to]
    /\ arg' = [arg EXCEPT ![t] = a]
    /\ ptr' = [ptr EXCEPT ![t] = o]
    /\ next' = [next EXCEPT ![t] = x]

(* The parts of a thread's state.                                           *)
LEMMA ThreadParts ==
    ASSUME Types, NEW t \in Thread
    PROVE  at[t] \in At /\ arg[t] \in Argument /\ ptr[t] \in Pointer /\ next[t] \in Pointer
  BY DEF Types, Argument, Pointer

(* A step that stays with its argument and its pointers.                    *)
LEMMA GoesStays ==
    ASSUME Types, NEW t \in Thread, NEW from, NEW to, Goes(t, from, to), Stays
    PROVE  ThreadStep(t, to, arg[t], ptr[t], next[t])
  BY DEF Types, Goes, Stays, ThreadStep

(* The handler of a thread returns.                                         *)
LEMMA ReturnsStep ==
    ASSUME NEW t \in Thread, NEW from, Returns(t, from)
    PROVE  ThreadStep(t, "idle", None, None, None) /\ at[t] = from
  BY DEF Returns, Goes, ThreadStep

(* What a step of thread t does to the state of the threads.                *)
LEMMA ThreadStepParts ==
    ASSUME Types, NEW t \in Thread, NEW to \in At, NEW a \in Argument,
           NEW o \in Pointer, NEW x \in Pointer, ThreadStep(t, to, a, o, x)
    PROVE  /\ at' \in [Thread -> At] /\ arg' \in [Thread -> Argument]
           /\ ptr' \in [Thread -> Pointer] /\ next' \in [Thread -> Pointer]
           /\ at'[t] = to /\ arg'[t] = a /\ ptr'[t] = o /\ next'[t] = x
           /\ \A u \in Thread : u # t => /\ at'[u] = at[u] /\ arg'[u] = arg[u]
                                         /\ ptr'[u] = ptr[u] /\ next'[u] = next[u]
  BY DEF Types, ThreadStep, Argument, Pointer

(* A thread's step keeps the registry sound if its effect on the registry   *)
(* does.                                                                    *)
LEMMA ThreadStepKeepsRInv ==
    ASSUME RInv, NEW t \in Thread, NEW to \in At, NEW a \in Argument,
           NEW o \in Pointer, NEW x \in Pointer, ThreadStep(t, to, a, o, x),
           to \in Exporting => a \in Type,
           vinput_ids' \subseteq Minors, vinput_devices' \subseteq Type,
           vinput_vdevices' \in Seq(Obj), obj' \in [Obj -> Vdev \cup {None}],
           private_data' = private_data, Linked', Ids'
    PROVE  RInv'
<1>1. Types /\ Args
  BY DEF RInv
<1>2. /\ at' \in [Thread -> At] /\ arg' \in [Thread -> Argument]
      /\ ptr' \in [Thread -> Pointer] /\ next' \in [Thread -> Pointer]
      /\ at'[t] = to /\ arg'[t] = a
      /\ \A u \in Thread : u # t => at'[u] = at[u] /\ arg'[u] = arg[u]
  BY <1>1, ThreadStepParts
<1>3. Types'
  BY <1>1, <1>2 DEF Types, Argument, Pointer
<1>4. Args'
  BY <1>1, <1>2 DEF Args
<1> QED
  BY <1>3, <1>4 DEF RInv

(* The registry is not touched.                                             *)
LEMMA SameRegistry ==
    ASSUME RInv, UNCHANGED <<vinput_ids, vinput_vdevices, obj>>
    PROVE  /\ vinput_ids' \subseteq Minors /\ vinput_vdevices' \in Seq(Obj)
           /\ obj' \in [Obj -> Vdev \cup {None}] /\ Linked' /\ Ids' /\ Listed' = Listed
<1>1. Types /\ Linked /\ Ids
  BY DEF RInv
<1>2. Listed' = Listed
  BY DEF Listed
<1> QED
  BY <1>1, <1>2 DEF Types, Linked, Ids

(* The elements of the list are vdevices.                                   *)
LEMMA ListElements ==
    ASSUME Types
    PROVE  /\ Listed \subseteq Obj
           /\ \A i \in DOMAIN vinput_vdevices : vinput_vdevices[i] \in Listed
           /\ \A o : After(o) \in Pointer
           /\ vinput_vdevices # <<>> => /\ Head(vinput_vdevices) \in Listed
                                        /\ vinput_vdevices[Len(vinput_vdevices)] \in Listed
<1> DEFINE s == vinput_vdevices
<1>1. s \in Seq(Obj)
  BY DEF Types
<1>2. PICK n \in Nat : n = Len(s) /\ DOMAIN s = 1 .. n
  BY <1>1, LenProperties
<1>3. \A i \in 1 .. n : s[i] \in Obj
  BY <1>1, <1>2, ElementOfSeq
<1>4. Listed \subseteq Obj /\ \A i \in DOMAIN s : s[i] \in Listed
  BY <1>2, <1>3 DEF Listed
<1>5. ASSUME NEW o, o \in Listed, Place(o) < Len(s) PROVE s[Place(o) + 1] \in Obj
  <2>1. \E i \in 1 .. n : s[i] = o
    BY <1>2, <1>5 DEF Listed
  <2>2. PICK k \in 1 .. n : k = Place(o)
    BY <1>2, <2>1 DEF Place
  <2>3. k < n
    BY <1>2, <1>5, <2>2
  <2>4. k + 1 \in 1 .. n
    BY <2>3
  <2> QED
    BY <1>3, <2>2, <2>4
<1>6. \A o : After(o) \in Pointer
  BY <1>5 DEF After, Pointer
<1>7. s # <<>> => Head(s) = s[1] /\ 1 \in 1 .. n /\ n \in 1 .. n
  BY <1>1, <1>2, EmptySeq, HeadTailProperties
<1> QED
  BY <1>2, <1>4, <1>6, <1>7

(* A look-up finds the vdevice with the id, or another one if none has it.  *)
LEMMA LookUpFinds ==
    ASSUME Types, NEW id, NEW o \in LookUp(id)
    PROVE  o \in Listed /\ (obj[o].id = id \/ \A q \in Listed : obj[q].id # id)
<1>1. vinput_vdevices # <<>>
  BY DEF LookUp
<1>2. vinput_vdevices[Len(vinput_vdevices)] \in Listed
  BY <1>1, ListElements
<1>3. CASE {q \in Listed : obj[q].id = id} # {}
  BY <1>1, <1>3 DEF LookUp
<1>4. CASE {q \in Listed : obj[q].id = id} = {}
  BY <1>1, <1>2, <1>4 DEF LookUp
<1> QED
  BY <1>3, <1>4

(* Steps of a thread that leave the list, the ids and the vdevices.         *)
Quiet(t) ==
    \/ \E type \in Type : vinput_unregister(t, type)
    \/ LoopStep(t)
    \/ \E id \in Minors : unexport_store(t, id)
    \/ FoundCheck(t)
    \/ \E type \in Type : export_store(t, type)
    \/ vinput_alloc_vdevice(t) /\ at'[t] = "idle"
    \/ AllocateInput(t) /\ at'[t] = "no_input"
    \/ RegisterVdevice(t) /\ at'[t] = "no_register"

(* They keep the registry sound.                                            *)
LEMMA QuietStep ==
    ASSUME RInv, NEW t \in Thread, Quiet(t)
    PROVE  RInv' /\ UNCHANGED <<vinput_ids, vinput_vdevices, obj>>
<1>1. Types /\ Args
  BY DEF RInv
<1>2. ASSUME NEW to \in At, NEW a \in Argument, NEW o \in Pointer, NEW x \in Pointer,
             ThreadStep(t, to, a, o, x), to \in Exporting => a \in Type,
             vinput_devices' \subseteq Type,
             UNCHANGED <<vinput_ids, vinput_vdevices, obj, private_data>>
      PROVE  RInv' /\ UNCHANGED <<vinput_ids, vinput_vdevices, obj>>
  BY <1>2, SameRegistry, ThreadStepKeepsRInv
<1>3. /\ at[t] \in At /\ arg[t] \in Argument /\ ptr[t] \in Pointer /\ next[t] \in Pointer
      /\ None \in Argument /\ None \in Pointer
      /\ at[t] \in Exporting => arg[t] \in Type
      /\ vinput_devices \subseteq Type
  BY <1>1, ThreadParts DEF Args, Argument, Pointer, Types
<1>4. \A o \in Listed : o \in Pointer
  BY <1>1, ListElements DEF Pointer
<1>5. ASSUME NEW type \in Type, vinput_unregister(t, type)
      PROVE  RInv' /\ UNCHANGED <<vinput_ids, vinput_vdevices, obj>>
  <2> DEFINE curr == IF vinput_vdevices = <<>> THEN None ELSE Head(vinput_vdevices)
             x == IF curr = None THEN None ELSE After(curr)
  <2>1. curr \in Pointer /\ x \in Pointer
    BY <1>1, <1>3, <1>4, ListElements
  <2>2. ThreadStep(t, "loop", type, curr, x)
    BY <1>5 DEF vinput_unregister, Goes, ThreadStep
  <2>3. /\ vinput_devices' \subseteq Type
        /\ UNCHANGED <<vinput_ids, vinput_vdevices, obj, private_data>>
    BY <1>3, <1>5 DEF vinput_unregister
  <2>4. "loop" \in At /\ type \in Argument /\ "loop" \notin Exporting
    BY DEF At, Argument, Exporting
  <2> HIDE DEF curr, x
  <2> QED
    BY <1>2, <2>1, <2>2, <2>3, <2>4
<1>6. ASSUME LoopStep(t)
      PROVE  RInv' /\ UNCHANGED <<vinput_ids, vinput_vdevices, obj>>
  <2>1. /\ vinput_devices' \subseteq Type
        /\ UNCHANGED <<vinput_ids, vinput_vdevices, obj, private_data>>
    BY <1>3, <1>6 DEF LoopStep, registry
  <2>2. /\ "loop" \in At /\ "loop_kill" \in At /\ "idle" \in At
        /\ {"loop", "loop_kill", "idle"} \cap Exporting = {}
    BY DEF At, Exporting
  <2>3. CASE Returns(t, "loop")
    BY <1>2, <1>3, <2>1, <2>2, <2>3, ReturnsStep
  <2>4. CASE Goes(t, "loop", "loop_kill") /\ Stays
    BY <1>1, <1>2, <1>3, <2>1, <2>2, <2>4, GoesStays
  <2>5. CASE Goes(t, "loop", "loop") /\ Advance(t)
    <3> DEFINE x == IF next[t] = None THEN None ELSE After(next[t])
    <3>1. ThreadStep(t, "loop", arg[t], next[t], x)
      BY <1>1, <2>5 DEF Goes, Advance, ThreadStep, Types
    <3>2. x \in Pointer
      BY <1>1, <1>3, ListElements
    <3> HIDE DEF x
    <3> QED
      BY <1>2, <1>3, <2>1, <2>2, <3>1, <3>2
  <2> QED
    BY <1>6, <2>3, <2>4, <2>5 DEF LoopStep
<1>7. ASSUME NEW id \in Minors, unexport_store(t, id)
      PROVE  RInv' /\ UNCHANGED <<vinput_ids, vinput_vdevices, obj>>
  <2>1. PICK o \in Listed : ptr' = [ptr EXCEPT ![t] = o]
    BY <1>1, <1>7, LookUpFinds DEF unexport_store
  <2>2. ThreadStep(t, "found", id, o, next[t])
    BY <1>1, <1>7, <2>1 DEF unexport_store, Goes, ThreadStep, Types
  <2>3. "found" \in At /\ id \in Argument /\ "found" \notin Exporting
    BY DEF At, Argument, Exporting
  <2>4. /\ vinput_devices' \subseteq Type
        /\ UNCHANGED <<vinput_ids, vinput_vdevices, obj, private_data>>
    BY <1>3, <1>7 DEF unexport_store, registry
  <2> QED
    BY <1>2, <1>3, <1>4, <2>2, <2>3, <2>4
<1>8. ASSUME FoundCheck(t)
      PROVE  RInv' /\ UNCHANGED <<vinput_ids, vinput_vdevices, obj>>
  <2>1. /\ vinput_devices' \subseteq Type
        /\ UNCHANGED <<vinput_ids, vinput_vdevices, obj, private_data>>
    BY <1>3, <1>8 DEF FoundCheck, registry
  <2>2. "kill" \in At /\ "idle" \in At /\ {"kill", "idle"} \cap Exporting = {}
    BY DEF At, Exporting
  <2>3. CASE Returns(t, "found")
    BY <1>2, <1>3, <2>1, <2>2, <2>3, ReturnsStep
  <2>4. CASE Goes(t, "found", "kill") /\ Stays
    BY <1>1, <1>2, <1>3, <2>1, <2>2, <2>4, GoesStays
  <2> QED
    BY <1>8, <2>3, <2>4 DEF FoundCheck
<1>9. ASSUME NEW type \in Type, export_store(t, type)
      PROVE  RInv' /\ UNCHANGED <<vinput_ids, vinput_vdevices, obj>>
  <2>1. ThreadStep(t, "alloc", type, ptr[t], next[t])
    BY <1>1, <1>9 DEF export_store, Goes, ThreadStep, Types
  <2>2. "alloc" \in At /\ type \in Argument
    BY DEF At, Argument
  <2>3. /\ vinput_devices' \subseteq Type
        /\ UNCHANGED <<vinput_ids, vinput_vdevices, obj, private_data>>
    BY <1>3, <1>9 DEF export_store, registry
  <2> QED
    BY <1>2, <1>3, <2>1, <2>2, <2>3
<1>10. ASSUME vinput_alloc_vdevice(t), at'[t] = "idle"
       PROVE  RInv' /\ UNCHANGED <<vinput_ids, vinput_vdevices, obj>>
  <2>1. Returns(t, "alloc") /\ UNCHANGED <<registry, obj, private_data>>
    BY <1>1, <1>10 DEF vinput_alloc_vdevice, Goes, Types
  <2>2. /\ vinput_devices' \subseteq Type
        /\ UNCHANGED <<vinput_ids, vinput_vdevices, obj, private_data>>
    BY <1>3, <2>1 DEF registry
  <2>3. "idle" \in At /\ "idle" \notin Exporting
    BY DEF At, Exporting
  <2> QED
    BY <1>2, <1>3, <2>1, <2>2, <2>3, ReturnsStep
<1>11. ASSUME AllocateInput(t), at'[t] = "no_input"
       PROVE  RInv' /\ UNCHANGED <<vinput_ids, vinput_vdevices, obj>>
  <2>1. /\ Goes(t, "input", "no_input") /\ Stays
        /\ UNCHANGED <<registry, obj, private_data>>
    BY <1>1, <1>11 DEF AllocateInput, Goes, Types
  <2>2. /\ vinput_devices' \subseteq Type
        /\ UNCHANGED <<vinput_ids, vinput_vdevices, obj, private_data>>
    BY <1>3, <2>1 DEF registry
  <2>3. "no_input" \in At /\ at[t] \in Exporting
    BY <2>1 DEF At, Exporting, Goes
  <2> QED
    BY <1>1, <1>2, <1>3, <2>1, <2>2, <2>3, GoesStays
<1>12. ASSUME RegisterVdevice(t), at'[t] = "no_register"
       PROVE  RInv' /\ UNCHANGED <<vinput_ids, vinput_vdevices, obj>>
  <2>1. /\ Goes(t, "register", "no_register") /\ Stays
        /\ UNCHANGED <<registry, obj, private_data>>
    BY <1>1, <1>12 DEF RegisterVdevice, Returns, Goes, Types
  <2>2. /\ vinput_devices' \subseteq Type
        /\ UNCHANGED <<vinput_ids, vinput_vdevices, obj, private_data>>
    BY <1>3, <2>1 DEF registry
  <2>3. "no_register" \in At /\ at[t] \in Exporting
    BY <2>1 DEF At, Exporting, Goes
  <2> QED
    BY <1>1, <1>2, <1>3, <2>1, <2>2, <2>3, GoesStays
<1> QED
  BY <1>5, <1>6, <1>7, <1>8, <1>9, <1>10, <1>11, <1>12 DEF Quiet

(* Steps that assign to fields of the thread's own vdevice.                 *)
Assigning(t) ==
    \/ AllocateInput(t) /\ at'[t] = "dev"
    \/ DeviceRegister(t)
    \/ RegisterVdevice(t) /\ at'[t] = "idle"
    \/ Kill(t)
    \/ LoopKill(t)

(* What they do.                                                            *)
LEMMA AssignStep ==
    ASSUME RInv, NEW t \in Thread, Assigning(t)
    PROVE  /\ RInv' /\ ptr[t] \in Obj /\ Live(ptr[t]) /\ Listed' = Listed
           /\ vinput_ids' = vinput_ids /\ vinput_devices' = vinput_devices
           /\ vinput_vdevices' = vinput_vdevices
           /\ private_data' = private_data
           /\ \A o \in Obj : o # ptr[t] => obj'[o] = obj[o]
           /\ obj'[ptr[t]] # None /\ obj'[ptr[t]].id = obj[ptr[t]].id
           /\ \/ /\ ThreadStep(t, at'[t], arg[t], ptr[t], next[t])
                 /\ \/ at[t] = "input" /\ at'[t] = "dev"
                    \/ at[t] = "dev" /\ at'[t] = "register" /\ obj'[ptr[t]].dev = TRUE
                       /\ obj'[ptr[t]].type = arg[t]
                    \/ at[t] = "dev" /\ at'[t] = "no_dev" /\ obj'[ptr[t]].type = arg[t]
                    \/ /\ \/ at[t] = "kill" /\ at'[t] = "del"
                          \/ at[t] = "loop_kill" /\ at'[t] = "loop_del"
                       /\ obj'[ptr[t]].input = "none" /\ obj'[ptr[t]].dev = obj[ptr[t]].dev
              \/ /\ ThreadStep(t, "idle", None, None, None) /\ at[t] = "register"
                 /\ obj'[ptr[t]].input = "registered" /\ obj'[ptr[t]].dev = obj[ptr[t]].dev
           /\ at[t] # "dev" => obj'[ptr[t]].type = obj[ptr[t]].type
<1> DEFINE o == ptr[t]
<1>1. Types /\ Args
  BY DEF RInv
<1>2. Live(o)
  BY DEF Assigning, AllocateInput, DeviceRegister, RegisterVdevice, Kill, LoopKill,
         UnregisterVdevice
<1>3. o \in Obj /\ obj[o] # None
  BY <1>1, <1>2, ThreadParts DEF Live, Pointer
<1>4. /\ obj[o].type \in Type \cup {None} /\ obj[o].dev \in BOOLEAN
      /\ obj[o].input \in {"none", "allocated", "registered"}
  BY <1>1, <1>3, VdevParts
<1>5. /\ vinput_ids' = vinput_ids /\ vinput_devices' = vinput_devices
      /\ vinput_vdevices' = vinput_vdevices /\ private_data' = private_data
  BY DEF Assigning, AllocateInput, DeviceRegister, RegisterVdevice, Kill, LoopKill,
         UnregisterVdevice, registry
<1>6. /\ arg[t] \in Argument /\ o \in Pointer /\ next[t] \in Pointer
      /\ None \in Argument /\ None \in Pointer
      /\ at[t] \in Exporting => arg[t] \in Type
      /\ vinput_devices' \subseteq Type
  BY <1>1, <1>5, ThreadParts DEF Args, Argument, Pointer, Types
<1>7. ASSUME NEW type \in Type \cup {None}, NEW input \in {"none", "allocated", "registered"},
             NEW dev \in BOOLEAN, Assign(o, type, input, dev)
      PROVE  /\ obj' \in [Obj -> Vdev \cup {None}] /\ Linked' /\ Ids' /\ Listed' = Listed
             /\ \A p \in Obj : p # o => obj'[p] = obj[p]
             /\ obj'[o] # None /\ obj'[o].id = obj[o].id
             /\ obj'[o].type = type /\ obj'[o].input = input /\ obj'[o].dev = dev
  BY <1>2, <1>3, <1>5, <1>7, AssignKeepsRegistry
<1>8. ASSUME NEW to \in At, NEW a \in Argument, NEW p \in Pointer, NEW x \in Pointer,
             ThreadStep(t, to, a, p, x), to \in Exporting => a \in Type,
             obj' \in [Obj -> Vdev \cup {None}], Linked', Ids'
      PROVE  RInv' /\ at'[t] = to
  <2>1. vinput_ids' \subseteq Minors /\ vinput_vdevices' \in Seq(Obj)
    BY <1>1, <1>5 DEF Types
  <2>2. RInv'
    BY <1>5, <1>6, <1>8, <2>1, ThreadStepKeepsRInv
  <2>3. at'[t] = to
    BY <1>1, <1>8, ThreadStepParts
  <2> QED
    BY <2>2, <2>3
<1>9. /\ {"dev", "register", "no_dev", "idle", "del", "loop_del"} \subseteq At
      /\ {"input", "dev"} \subseteq Exporting /\ {"idle", "del", "loop_del"} \cap Exporting = {}
  BY DEF At, Exporting
<1>10. CASE AllocateInput(t) /\ at'[t] = "dev"
  <2>1. /\ Goes(t, "input", "dev") /\ Stays
        /\ Assign(o, obj[o].type, "allocated", obj[o].dev)
    BY <1>1, <1>10 DEF AllocateInput, Goes, Types
  <2>2. ThreadStep(t, "dev", arg[t], o, next[t]) /\ at[t] = "input"
    BY <1>1, <2>1, GoesStays DEF Goes
  <2>3. /\ obj' \in [Obj -> Vdev \cup {None}] /\ Linked' /\ Ids' /\ Listed' = Listed
        /\ \A p \in Obj : p # o => obj'[p] = obj[p]
        /\ obj'[o] # None /\ obj'[o].id = obj[o].id /\ obj'[o].type = obj[o].type
    BY <1>4, <1>7, <2>1
  <2>4. RInv'
    BY <1>6, <1>8, <1>9, <2>2, <2>3
  <2> QED
    BY <1>2, <1>3, <1>5, <1>10, <2>2, <2>3, <2>4
<1>11. CASE DeviceRegister(t)
  <2>1. Stays /\ at[t] = "dev" /\ arg[t] \in Type
    BY <1>6, <1>9, <1>11 DEF DeviceRegister, Goes
  <2>2. CASE Goes(t, "dev", "register") /\ Assign(o, arg[t], obj[o].input, TRUE)
    <3>1. ThreadStep(t, "register", arg[t], o, next[t])
      BY <1>1, <2>1, <2>2, GoesStays
    <3>2. /\ obj' \in [Obj -> Vdev \cup {None}] /\ Linked' /\ Ids' /\ Listed' = Listed
          /\ \A p \in Obj : p # o => obj'[p] = obj[p]
          /\ obj'[o] # None /\ obj'[o].id = obj[o].id
          /\ obj'[o].type = arg[t] /\ obj'[o].dev = TRUE
      BY <1>4, <1>7, <2>1, <2>2
    <3>3. RInv' /\ at'[t] = "register"
      BY <1>6, <1>8, <1>9, <2>1, <3>1, <3>2
    <3> QED
      BY <1>2, <1>3, <1>5, <2>1, <3>1, <3>2, <3>3
  <2>3. CASE Goes(t, "dev", "no_dev") /\ Assign(o, arg[t], obj[o].input, obj[o].dev)
    <3>1. ThreadStep(t, "no_dev", arg[t], o, next[t])
      BY <1>1, <2>1, <2>3, GoesStays
    <3>2. /\ obj' \in [Obj -> Vdev \cup {None}] /\ Linked' /\ Ids' /\ Listed' = Listed
          /\ \A p \in Obj : p # o => obj'[p] = obj[p]
          /\ obj'[o] # None /\ obj'[o].id = obj[o].id /\ obj'[o].type = arg[t]
      BY <1>4, <1>7, <2>1, <2>3
    <3>3. RInv' /\ at'[t] = "no_dev"
      BY <1>6, <1>8, <1>9, <2>1, <3>1, <3>2
    <3> QED
      BY <1>2, <1>3, <1>5, <2>1, <3>1, <3>2, <3>3
  <2> QED
    BY <1>11, <2>2, <2>3 DEF DeviceRegister
<1>12. CASE RegisterVdevice(t) /\ at'[t] = "idle"
  <2>1. Returns(t, "register") /\ Assign(o, obj[o].type, "registered", obj[o].dev)
    BY <1>1, <1>12 DEF RegisterVdevice, Goes, Types
  <2>2. ThreadStep(t, "idle", None, None, None) /\ at[t] = "register"
    BY <2>1, ReturnsStep
  <2>3. /\ obj' \in [Obj -> Vdev \cup {None}] /\ Linked' /\ Ids' /\ Listed' = Listed
        /\ \A p \in Obj : p # o => obj'[p] = obj[p]
        /\ obj'[o] # None /\ obj'[o].id = obj[o].id /\ obj'[o].type = obj[o].type
        /\ obj'[o].input = "registered" /\ obj'[o].dev = obj[o].dev
    BY <1>4, <1>7, <2>1
  <2>4. RInv'
    BY <1>6, <1>8, <1>9, <2>2, <2>3
  <2> QED
    BY <1>2, <1>3, <1>5, <2>2, <2>3, <2>4
<1>13. ASSUME NEW from, NEW to \in {"del", "loop_del"}, UnregisterVdevice(t, from, to)
       PROVE  /\ RInv' /\ Listed' = Listed /\ at[t] = from /\ at'[t] = to
              /\ ThreadStep(t, to, arg[t], o, next[t])
              /\ \A p \in Obj : p # o => obj'[p] = obj[p]
              /\ obj'[o] # None /\ obj'[o].id = obj[o].id /\ obj'[o].type = obj[o].type
              /\ obj'[o].input = "none" /\ obj'[o].dev = obj[o].dev
  <2>1. Goes(t, from, to) /\ Stays /\ Assign(o, obj[o].type, "none", obj[o].dev)
    BY <1>13 DEF UnregisterVdevice, Stays
  <2>2. ThreadStep(t, to, arg[t], o, next[t]) /\ at[t] = from
    BY <1>1, <2>1, GoesStays DEF Goes
  <2>3. /\ obj' \in [Obj -> Vdev \cup {None}] /\ Linked' /\ Ids' /\ Listed' = Listed
        /\ \A p \in Obj : p # o => obj'[p] = obj[p]
        /\ obj'[o] # None /\ obj'[o].id = obj[o].id /\ obj'[o].type = obj[o].type
        /\ obj'[o].input = "none" /\ obj'[o].dev = obj[o].dev
    BY <1>4, <1>7, <2>1
  <2>4. RInv' /\ at'[t] = to
    BY <1>6, <1>8, <1>9, <2>2, <2>3
  <2> QED
    BY <2>2, <2>3, <2>4
<1>14. CASE Kill(t)
  BY <1>2, <1>3, <1>5, <1>13, <1>14 DEF Kill
<1>15. CASE LoopKill(t)
  BY <1>2, <1>3, <1>5, <1>13, <1>15 DEF LoopKill
<1> QED
  BY <1>10, <1>11, <1>12, <1>14, <1>15 DEF Assigning

(* Steps that destroy the thread's own vdevice.                             *)
Destroying(t) ==
    FailInputDev(t) \/ FailRegisterVinput(t) \/ FailRegister(t) \/ Del(t) \/ LoopDel(t)

(* What they do.                                                            *)
LEMMA DestroyStep ==
    ASSUME RInv, NEW t \in Thread, Destroying(t)
    PROVE  /\ RInv' /\ ptr[t] \in Obj /\ Live(ptr[t]) /\ Listed' = Listed \ {ptr[t]}
           /\ vinput_devices' = vinput_devices /\ private_data' = private_data
           /\ vinput_vdevices' = Unlinked(ptr[t])
           /\ \A o \in Obj : obj'[o] = IF o = ptr[t] THEN None ELSE obj[o]
           /\ vinput_ids' = IF FailInputDev(t) THEN vinput_ids
                            ELSE vinput_ids \ {obj[ptr[t]].id}
           /\ \/ /\ ThreadStep(t, "idle", None, None, None)
                 /\ at[t] \in {"no_input", "no_register", "no_dev", "del"}
              \/ /\ ThreadStep(t, "loop", arg[t], next[t],
                               IF next[t] = None THEN None ELSE After(next[t]))
                 /\ at[t] = "loop_del"
           /\ FailInputDev(t) <=> at[t] = "no_input"
<1> DEFINE o == ptr[t]
           x == IF next[t] = None THEN None ELSE After(next[t])
<1>1. Types /\ Args /\ Ids
  BY DEF RInv
<1>2. Live(o) /\ vinput_vdevices' = Unlinked(o) /\ obj' = [obj EXCEPT ![o] = None]
      /\ vinput_devices' = vinput_devices /\ private_data' = private_data
  BY DEF Destroying, FailInputDev, FailRegisterVinput, FailRegister, Del, LoopDel, Destroy
<1>3. o \in Obj
  BY <1>1, <1>2, ThreadParts DEF Live, Pointer
<1>4. /\ \/ ThreadStep(t, "idle", None, None, None)
            /\ at[t] \in {"no_input", "no_register", "no_dev", "del"}
         \/ ThreadStep(t, "loop", arg[t], next[t], x) /\ at[t] = "loop_del"
      /\ FailInputDev(t) <=> at[t] = "no_input"
  <2>1. CASE LoopDel(t)
    <3>1. ThreadStep(t, "loop", arg[t], next[t], x) /\ at[t] = "loop_del"
      BY <1>1, <2>1 DEF LoopDel, Goes, Advance, ThreadStep, Types
    <3> QED
      BY <3>1 DEF FailInputDev, Returns, Goes
  <2>2. CASE FailInputDev(t)
    BY <2>2, ReturnsStep DEF FailInputDev
  <2>3. CASE FailRegisterVinput(t)
    <3>1. ThreadStep(t, "idle", None, None, None) /\ at[t] = "no_register"
      BY <2>3, ReturnsStep DEF FailRegisterVinput
    <3> QED
      BY <3>1 DEF FailInputDev, Returns, Goes
  <2>4. CASE FailRegister(t)
    <3>1. ThreadStep(t, "idle", None, None, None) /\ at[t] = "no_dev"
      BY <2>4, ReturnsStep DEF FailRegister
    <3> QED
      BY <3>1 DEF FailInputDev, Returns, Goes
  <2>5. CASE Del(t)
    <3>1. ThreadStep(t, "idle", None, None, None) /\ at[t] = "del"
      BY <2>5, ReturnsStep DEF Del
    <3> QED
      BY <3>1 DEF FailInputDev, Returns, Goes
  <2> QED
    BY <2>1, <2>2, <2>3, <2>4, <2>5 DEF Destroying
<1>5. vinput_ids' = IF FailInputDev(t) THEN vinput_ids ELSE vinput_ids \ {obj[o].id}
  <2>1. CASE FailInputDev(t)
    BY <2>1 DEF FailInputDev
  <2>2. CASE ~FailInputDev(t)
    BY <2>2 DEF Destroying, FailRegisterVinput, FailRegister, Del, LoopDel, Destroy
  <2> QED
    BY <2>1, <2>2
<1>6. /\ vinput_vdevices' \in Seq(Obj) /\ vinput_ids' \subseteq Minors
      /\ obj' \in [Obj -> Vdev \cup {None}]
      /\ \A p \in Obj : obj'[p] = IF p = o THEN None ELSE obj[p]
      /\ Listed' = Listed \ {o} /\ Linked' /\ Ids'
  <2>1. vinput_ids \ {obj[o].id} \subseteq vinput_ids' /\ vinput_ids' \subseteq vinput_ids
    BY <1>5
  <2> QED
    BY <1>2, <1>3, <2>1, UnlinkKeepsRegistry
<1>7. RInv'
  <2>1. /\ arg[t] \in Argument /\ next[t] \in Pointer /\ x \in Pointer
        /\ None \in Argument /\ None \in Pointer /\ vinput_devices' \subseteq Type
        /\ {"idle", "loop"} \subseteq At /\ {"idle", "loop"} \cap Exporting = {}
    BY <1>1, <1>2, ThreadParts, ListElements
       DEF Argument, Pointer, Types, At, Exporting
  <2> HIDE DEF x
  <2>2. CASE ThreadStep(t, "idle", None, None, None)
    BY <1>2, <1>6, <2>1, <2>2, ThreadStepKeepsRInv
  <2>3. CASE ThreadStep(t, "loop", arg[t], next[t], x)
    BY <1>2, <1>6, <2>1, <2>3, ThreadStepKeepsRInv
  <2> QED
    BY <1>4, <2>2, <2>3
<1> QED
  BY <1>2, <1>3, <1>4, <1>5, <1>6, <1>7

(* vinput_alloc_vdevice finds memory and an id.                             *)
LEMMA AllocStep ==
    ASSUME RInv, NEW t \in Thread, vinput_alloc_vdevice(t), at'[t] # "idle"
    PROVE  \E o \in Obj :
              /\ RInv' /\ obj[o] = None /\ obj'[o] # None /\ obj'[o].type = None
              /\ \A p \in Obj : p # o => obj'[p] = obj[p]
              /\ Listed' = Listed \cup {o}
              /\ obj'[o].id \notin vinput_ids /\ vinput_ids' = vinput_ids \cup {obj'[o].id}
              /\ vinput_devices' = vinput_devices /\ private_data' = private_data
              /\ at[t] = "alloc" /\ ThreadStep(t, "input", arg[t], o, next[t])
<1>1. Types /\ Args
  BY DEF RInv
<1>2. ~Returns(t, "alloc")
  BY <1>1 DEF Returns, Goes, Types
<1>3. PICK o \in Obj :
         /\ ~Live(o) /\ IdFound
         /\ Goes(t, "alloc", "input")
         /\ obj' = [obj EXCEPT ![o] = [id |-> FirstZeroBit, type |-> None,
                                       input |-> "none", dev |-> FALSE]]
         /\ ptr' = [ptr EXCEPT ![t] = o]
         /\ vinput_ids' = vinput_ids \cup {FirstZeroBit}
         /\ vinput_vdevices' = <<o>> \o vinput_vdevices
         /\ UNCHANGED <<vinput_devices, private_data, arg, next>>
  BY <1>2 DEF vinput_alloc_vdevice
<1>4. at[t] = "alloc" /\ ThreadStep(t, "input", arg[t], o, next[t])
  BY <1>1, <1>3 DEF Goes, ThreadStep, Types
<1>5. /\ vinput_vdevices' \in Seq(Obj) /\ vinput_ids' \subseteq Minors
      /\ obj' \in [Obj -> Vdev \cup {None}]
      /\ \A p \in Obj : p # o => obj'[p] = obj[p]
      /\ obj'[o] \in Vdev /\ obj'[o].id = FirstZeroBit /\ obj'[o].type = None
      /\ Listed' = Listed \cup {o} /\ obj[o] = None
      /\ FirstZeroBit \notin vinput_ids
      /\ Linked' /\ Ids'
  BY <1>3, AllocKeepsRegistry
<1>6. obj'[o] # None
  BY <1>5
<1>7. RInv'
  <2>1. /\ arg[t] \in Argument /\ next[t] \in Pointer /\ o \in Pointer
        /\ "input" \in At /\ arg[t] \in Type /\ vinput_devices' \subseteq Type
    BY <1>1, <1>3, <1>4, ThreadParts DEF Args, Exporting, Pointer, At, Types
  <2> QED
    BY <1>3, <1>4, <1>5, <2>1, ThreadStepKeepsRInv
<1> QED
  BY <1>3, <1>4, <1>5, <1>6, <1>7

(* Steps that are not a thread's.                                           *)
Outside ==
    \/ \E type \in Type : vinput_register(type)
    \/ \E f \in File : FileNext(f)

(* They leave the list, the ids, the vdevices and the threads.              *)
LEMMA OutsideStep ==
    ASSUME RInv, Outside
    PROVE  RInv' /\ UNCHANGED <<vinput_ids, vinput_vdevices, obj, at, arg, ptr, next>>
<1>1. Types /\ Linked /\ Ids /\ Args
  BY DEF RInv
<1>2. UNCHANGED <<vinput_ids, vinput_vdevices, obj, at, arg, ptr, next>>
  BY DEF Outside, FileNext, vinput_register, vinput_open, OpenCheck, vinput_release, registry
<1>3. vinput_devices' \subseteq Type
  BY <1>1 DEF Outside, FileNext, vinput_register, vinput_open, OpenCheck, vinput_release,
              registry, Types
<1>4. private_data' \in [File -> Obj \cup {None}]
  <2>1. \A id : LookUp(id) \subseteq Obj
    BY <1>1, ListElements, LookUpFinds
  <2>2. ASSUME NEW f \in File, NEW id \in Minors, vinput_open(f, id)
        PROVE  private_data' \in [File -> Obj \cup {None}]
    BY <1>1, <2>1, <2>2 DEF vinput_open, Types
  <2> QED
    BY <1>1, <2>2 DEF Outside, FileNext, vinput_register, OpenCheck, vinput_release, Types
<1>5. Linked' /\ Ids' /\ Args'
  BY <1>1, <1>2, SameRegistry DEF Args
<1>6. Types'
  BY <1>1, <1>2, <1>3, <1>4 DEF Types
<1> QED
  BY <1>2, <1>5, <1>6 DEF RInv

(* What is gone is used, or has been: nothing is followed any further.      *)
Frozen == UNCHANGED <<registry, obj, private_data, opening, at, arg, ptr, next, careless>>

(* Every step of the driver is of one of these kinds.                       *)
LEMMA KindsOfSteps ==
    ASSUME Types, [Next]_vars
    PROVE  \/ Outside \/ Frozen
           \/ \E t \in Thread :
                 \/ Quiet(t) \/ Assigning(t) \/ Destroying(t)
                 \/ vinput_alloc_vdevice(t) /\ at'[t] # "idle"
<1>1. ASSUME NEW t \in Thread, ThreadNext(t)
      PROVE  \/ Quiet(t) \/ Assigning(t) \/ Destroying(t)
             \/ vinput_alloc_vdevice(t) /\ at'[t] # "idle"
  <2>1. Starts(t) \/ Export(t) \/ Unexport(t) \/ Unregister(t)
    BY <1>1 DEF ThreadNext
  <2>2. AllocateInput(t) => at'[t] \in {"dev", "no_input"}
    BY DEF AllocateInput, Goes, Types
  <2>3. RegisterVdevice(t) => at'[t] \in {"idle", "no_register"}
    BY DEF RegisterVdevice, Returns, Goes, Types
  <2> DEFINE Kind == \/ Quiet(t) \/ Assigning(t) \/ Destroying(t)
                     \/ vinput_alloc_vdevice(t) /\ at'[t] # "idle"
  <2>4. ASSUME Export(t) PROVE Kind
    <3>1. AllocateInput(t) => Kind
      BY <2>2 DEF Quiet, Assigning
    <3>2. RegisterVdevice(t) => Kind
      BY <2>3 DEF Quiet, Assigning
    <3>3. vinput_alloc_vdevice(t) => Kind
      BY DEF Quiet
    <3> QED
      BY <2>4, <3>1, <3>2, <3>3 DEF Export, Quiet, Assigning, Destroying
  <2>5. ASSUME Unexport(t) PROVE Kind
    BY <2>5 DEF Unexport, Quiet, Assigning, Destroying
  <2>6. ASSUME Unregister(t) PROVE Kind
    BY <2>6 DEF Unregister, Quiet, Assigning, Destroying
  <2>7. ASSUME Starts(t) PROVE Kind
    BY <2>7 DEF Starts, Quiet
  <2>8. Kind
    <3> HIDE DEF Kind
    <3> QED
      BY <2>1, <2>4, <2>5, <2>6, <2>7
  <2> QED
    BY <2>8
<1>2. CASE Next
  <2>1. \/ \E t \in Thread : ThreadNext(t)
        \/ Outside \/ Frozen
    BY <1>2 DEF Next, Outside, Harm, Frozen, vars, registry
  <2> QED
    BY <1>1, <2>1
<1>3. CASE UNCHANGED vars
  BY <1>3 DEF vars, Frozen, registry
<1> QED
  BY <1>2, <1>3

(* A step records what is not taken care of, and forgets nothing.           *)
LEMMA Recorded ==
    ASSUME Records, [Next]_vars
    PROVE  Records' /\ careless \subseteq careless'
<1>1. careless' \subseteq Cares /\ careless \subseteq careless'
  <2>1. \A taken, c : c \in Cares => Unless(taken, c) \subseteq Cares
    BY DEF Unless
  <2>2. /\ \A id : UnexportCares(id) \subseteq Cares
        /\ \A type : UnregisterCares(type) \subseteq Cares
        /\ \A o : OpenCares(o) \subseteq Cares
    BY DEF Unless, UnexportCares, UnregisterCares, OpenCares, Cares
  <2>3. ASSUME NEW t \in Thread, ThreadNext(t)
        PROVE  careless' \subseteq Cares /\ careless \subseteq careless'
    <3>1. ASSUME NEW type \in Type, export_store(t, type)
          PROVE  careless' \subseteq Cares /\ careless \subseteq careless'
      <4>1. "quiet_type" \in Cares
        BY DEF Cares
      <4> QED
        BY <3>1, <4>1 DEF export_store, Unless, Records
    <3>2. ASSUME NEW type \in Type, vinput_unregister(t, type)
          PROVE  careless' \subseteq Cares /\ careless \subseteq careless'
      BY <2>2, <3>2 DEF vinput_unregister, Records
    <3>3. ASSUME NEW id \in Minors, unexport_store(t, id)
          PROVE  careless' \subseteq Cares /\ careless \subseteq careless'
      BY <2>2, <3>3 DEF unexport_store, Records
    <3>4. CASE UNCHANGED careless
      BY <3>4 DEF Records
    <3> QED
      BY <2>3, <3>1, <3>2, <3>3, <3>4 DEF ThreadNext, Starts
  <2>4. ASSUME NEW f \in File, NEW id \in Minors, vinput_open(f, id)
        PROVE  careless' \subseteq Cares /\ careless \subseteq careless'
    <3>1. PICK o : careless' = careless \cup OpenCares(o)
      BY <2>4 DEF vinput_open
    <3> QED
      BY <2>2, <3>1 DEF Records
  <2>5. CASE UNCHANGED careless
    BY <2>5 DEF Records
  <2> QED
    BY <2>3, <2>4, <2>5
       DEF Next, FileNext, vinput_register, OpenCheck, vinput_release, Harm, vars
<1>2. opening' \in [File -> Minors \cup {None}]
  BY DEF Records, Next, ThreadNext, FileNext, vinput_register, vinput_open, OpenCheck,
         vinput_release, Harm, vars
<1>3. harmed' \in BOOLEAN
  BY DEF Records, Next, Harm, vars
<1> QED
  BY <1>1, <1>2, <1>3 DEF Records

(* The initial state.                                                       *)
LEMMA InitRInv == Init => RInv
<1> SUFFICES ASSUME Init PROVE RInv
  OBVIOUS
<1>1. <<>> \in Seq(Obj) /\ DOMAIN <<>> = {}
  OBVIOUS
<1>2. Types
  BY <1>1 DEF Init, Types, At
<1>3. Listed = {}
  BY <1>1 DEF Init, Listed
<1>4. Linked
  BY <1>1, <1>3 DEF Init, Linked
<1>5. Ids /\ Args
  BY DEF Init, Ids, Args, Exporting
<1> QED
  BY <1>2, <1>4, <1>5 DEF RInv

(* Every step keeps the registry sound, with or without the users' care.    *)
LEMMA RInvIsInductive == RInv /\ [Next]_vars => RInv'
<1> SUFFICES ASSUME RInv, [Next]_vars PROVE RInv'
  OBVIOUS
<1>1. Types
  BY DEF RInv
<1>2. CASE Outside
  BY <1>2, OutsideStep
<1>3. ASSUME NEW t \in Thread, Quiet(t) PROVE RInv'
  BY <1>3, QuietStep
<1>4. ASSUME NEW t \in Thread, Assigning(t) PROVE RInv'
  BY <1>4, AssignStep
<1>5. ASSUME NEW t \in Thread, Destroying(t) PROVE RInv'
  BY <1>5, DestroyStep
<1>6. ASSUME NEW t \in Thread, vinput_alloc_vdevice(t), at'[t] # "idle" PROVE RInv'
  BY <1>6, AllocStep
<1>7. CASE Frozen
  BY <1>7 DEF Frozen, registry, RInv, Types, Linked, Ids, Args, Listed
<1> QED
  BY <1>1, <1>2, <1>3, <1>4, <1>5, <1>6, <1>7, KindsOfSteps

(* The registry is sound: a listed vdevice is live, and its id is marked in *)
(* use and its own.                                                         *)
LEMMA RInvIsSound == RInv /\ Records => RegistrySound
<1> SUFFICES ASSUME RInv, Records PROVE RegistrySound
  OBVIOUS
<1>1. Types /\ Linked /\ Ids
  BY DEF RInv
<1>2. /\ Listed \subseteq Obj
      /\ \A i \in DOMAIN vinput_vdevices : vinput_vdevices[i] \in Listed
  BY <1>1, ListElements
<1>3. \A o \in Listed : Live(o) /\ obj[o].id \in vinput_ids
  BY <1>1, <1>2 DEF Linked, Ids, Live
<1>4. ASSUME NEW i \in DOMAIN vinput_vdevices, NEW j \in DOMAIN vinput_vdevices, i # j
      PROVE  /\ vinput_vdevices[i] # vinput_vdevices[j]
             /\ Live(vinput_vdevices[i]) /\ Live(vinput_vdevices[j])
             /\ obj[vinput_vdevices[i]].id # obj[vinput_vdevices[j]].id
  <2>1. vinput_vdevices[i] # vinput_vdevices[j]
    BY <1>1, <1>4 DEF Linked
  <2>2. PICK o \in Obj, p \in Obj :
           /\ o = vinput_vdevices[i] /\ p = vinput_vdevices[j]
           /\ o \in Listed /\ p \in Listed
    BY <1>2
  <2>3. obj[o].id # obj[p].id
    BY <1>1, <1>3, <2>1, <2>2 DEF Ids, Live
  <2> QED
    BY <1>3, <2>1, <2>2, <2>3
<1>5. TypeOK
  BY <1>1 DEF TypeOK, Types, Records
<1> QED
  BY <1>3, <1>4, <1>5 DEF RegistrySound

(* Nothing is recorded at first.                                            *)
LEMMA InitRecords == Init => Records
  BY DEF Init, Records

(* The registry of vinput.c is sound whatever its users do and whatever     *)
(* step of export_store fails, until something that is gone is used.        *)
THEOREM RegistryIsSound == Spec => []RegistrySound
<1>1. Records /\ [Next]_vars => Records'
  BY Recorded
<1> QED
  BY <1>1, InitRInv, InitRecords, RInvIsInductive, RInvIsSound, PTL DEF Spec

(* Ids are given back, but for that of a vdevice whose input device could   *)
(* not be allocated, until something that is gone is used.                  *)
THEOREM IdsAreGivenBack == Spec => IdsLostOnlyWithoutInput
<1> DEFINE A == /\ LostIds \subseteq LostIds'
                /\ \A i \in LostIds' \ LostIds : \E t \in Thread :
                      at[t] = "no_input" /\ at'[t] = "idle" /\ obj[ptr[t]].id = i
<1>1. RInv /\ [Next]_vars => [A]_vars
  <2> SUFFICES ASSUME RInv, [Next]_vars PROVE A
    OBVIOUS
  <2>1. Types /\ Ids /\ Linked
    BY DEF RInv
  <2>2. Listed \subseteq Obj /\ \A o \in Listed : obj[o] # None
    BY <2>1, ListElements DEF Linked
  <2>3. ASSUME UNCHANGED <<vinput_ids, vinput_vdevices, obj>> PROVE A
    BY <2>3 DEF LostIds, Listed
  <2>4. CASE Outside
    BY <2>3, <2>4, OutsideStep
  <2>5. ASSUME NEW t \in Thread, Quiet(t) PROVE A
    BY <2>3, <2>5, QuietStep
  <2>6. ASSUME NEW t \in Thread, Assigning(t) PROVE A
    <3>1. /\ Listed' = Listed /\ vinput_ids' = vinput_ids
          /\ \A o \in Obj : obj'[o].id = obj[o].id
      BY <2>6, AssignStep
    <3> QED
      BY <2>2, <3>1 DEF LostIds
  <2>7. ASSUME NEW t \in Thread, Destroying(t) PROVE A
    <3>1. /\ ptr[t] \in Obj /\ Live(ptr[t]) /\ Listed' = Listed \ {ptr[t]}
          /\ \A o \in Obj : o # ptr[t] => obj'[o] = obj[o]
      BY <2>7, DestroyStep
    <3>2. ptr[t] \in Listed
      BY <2>1, <3>1 DEF Linked, Live
    <3>3. \A o \in Listed : o # ptr[t] => obj[o].id # obj[ptr[t]].id
      BY <2>1, <2>2, <3>1, <3>2 DEF Ids
    <3>4. CASE FailInputDev(t)
      <4>1. /\ vinput_ids' = vinput_ids /\ at[t] = "no_input"
            /\ ThreadStep(t, "idle", None, None, None)
        BY <2>7, <3>4, DestroyStep
      <4>2. at'[t] = "idle"
        BY <2>1, <4>1 DEF ThreadStep, Types
      <4>3. {obj'[o].id : o \in Listed'} = {obj[o].id : o \in Listed} \ {obj[ptr[t]].id}
        BY <2>2, <3>1, <3>2, <3>3
      <4>4. LostIds \subseteq LostIds' /\ LostIds' \ LostIds \subseteq {obj[ptr[t]].id}
        BY <4>1, <4>3 DEF LostIds
      <4> QED
        BY <4>1, <4>2, <4>4
    <3>5. CASE ~FailInputDev(t)
      <4>1. vinput_ids' = vinput_ids \ {obj[ptr[t]].id}
        BY <2>7, <3>5, DestroyStep
      <4>2. {obj'[o].id : o \in Listed'} = {obj[o].id : o \in Listed} \ {obj[ptr[t]].id}
        BY <2>2, <3>1, <3>2, <3>3
      <4>3. LostIds' = LostIds
        BY <3>2, <4>1, <4>2 DEF LostIds
      <4> QED
        BY <4>3
    <3> QED
      BY <3>4, <3>5
  <2>8. ASSUME NEW t \in Thread, vinput_alloc_vdevice(t), at'[t] # "idle" PROVE A
    <3>1. PICK o \in Obj :
              /\ obj[o] = None /\ \A p \in Obj : p # o => obj'[p] = obj[p]
              /\ Listed' = Listed \cup {o}
              /\ obj'[o].id \notin vinput_ids /\ vinput_ids' = vinput_ids \cup {obj'[o].id}
      BY <2>8, AllocStep
    <3>2. o \notin Listed
      BY <2>2, <3>1
    <3>3. {obj'[p].id : p \in Listed'} = {obj[p].id : p \in Listed} \cup {obj'[o].id}
      BY <2>2, <3>1, <3>2
    <3>4. LostIds' = LostIds
      BY <3>1, <3>3 DEF LostIds
    <3> QED
      BY <3>4
  <2>9. CASE Frozen
    BY <2>3, <2>9 DEF Frozen, registry
  <2> HIDE DEF A
  <2> QED
    BY <2>1, <2>4, <2>5, <2>6, <2>7, <2>8, <2>9, KindsOfSteps
<1>2. Spec => [][~harmed' => A]_vars
  <2> HIDE DEF A
  <2> QED
    BY <1>1, InitRInv, RInvIsInductive, PTL DEF Spec
<1> QED
  BY <1>2 DEF IdsLostOnlyWithoutInput

-----------------------------------------------------------------------------
(* The loop of vinput_unregister and its place in the list.                 *)

(* Thread t makes a step, the others stay where they are.                   *)
OthersStay(t) ==
    \A u \in Thread : u # t => /\ at'[u] = at[u] /\ arg'[u] = arg[u]
                               /\ ptr'[u] = ptr[u] /\ next'[u] = next[u]

(* The element after the one at a place of the list.                        *)
LEMMA AfterPlace ==
    ASSUME Types, Linked, NEW n \in Nat, n = Len(vinput_vdevices), NEW i \in 1 .. n
    PROVE  After(vinput_vdevices[i]) = IF i < n THEN vinput_vdevices[i + 1] ELSE None
<1>1. DOMAIN vinput_vdevices = 1 .. n
  BY LenProperties DEF Types
<1>2. PICK o \in Listed : o = vinput_vdevices[i]
  BY <1>1, ListElements
<1>3. i = Place(o)
  BY <1>1, <1>2, PlaceInList
<1> QED
  BY <1>2, <1>3 DEF After

(* It starts at the head, with the type off the list of types.              *)
LEMMA UnregisterStartsAtHead ==
    ASSUME RInv, NEW t \in Thread, NEW type \in Type, vinput_unregister(t, type)
    PROVE  /\ RInv' /\ UNCHANGED <<vinput_ids, vinput_vdevices, obj, private_data>>
           /\ vinput_devices' = vinput_devices \ {type} /\ OthersStay(t)
           /\ at[t] = "idle" /\ at'[t] = "loop" /\ arg'[t] = type
           /\ LoopOK(t)' /\ (ptr'[t] # None => obj'[ptr'[t]] # None)
<1> DEFINE s == vinput_vdevices
<1>1. Types /\ Linked
  BY DEF RInv
<1>2. RInv' /\ UNCHANGED <<vinput_ids, vinput_vdevices, obj>>
  BY QuietStep DEF Quiet
<1>3. PICK n \in Nat : n = Len(s) /\ DOMAIN s = 1 .. n
  <2>1. s \in Seq(Obj)
    BY <1>1 DEF Types
  <2> QED
    BY <2>1, LenProperties
<1>4. PICK curr \in Pointer, x \in Pointer :
         /\ curr = IF s = <<>> THEN None ELSE Head(s)
         /\ x = IF curr = None THEN None ELSE After(curr)
  <2>1. s # <<>> => Head(s) \in Pointer
    BY <1>1, ListElements DEF Pointer
  <2> QED
    BY <1>1, <2>1, ListElements DEF Pointer
<1>5. /\ vinput_devices' = vinput_devices \ {type} /\ private_data' = private_data
      /\ at[t] = "idle" /\ at'[t] = "loop" /\ arg'[t] = type
      /\ ptr'[t] = curr /\ next'[t] = x /\ OthersStay(t)
  BY <1>1, <1>4 DEF vinput_unregister, Goes, OthersStay, Types
<1>6. /\ s = <<>> => curr = None /\ x = None /\ Listed = {}
      /\ s # <<>> => /\ curr = s[1] /\ 1 \in 1 .. n /\ curr \in Listed /\ curr # None
                     /\ x = IF 1 < n THEN s[1 + 1] ELSE None
  <2>1. CASE s = <<>>
    BY <1>4, <2>1 DEF Listed
  <2>2. CASE s # <<>>
    <3>1. s \in Seq(Obj) /\ Head(s) = s[1] /\ 1 \in 1 .. n
      BY <1>1, <1>3, <2>2, EmptySeq, HeadTailProperties DEF Types
    <3>2. s[1] \in Listed /\ s[1] # None
      BY <1>1, <1>3, <3>1, ListElements
    <3>3. After(s[1]) = IF 1 < n THEN s[1 + 1] ELSE None
      BY <1>1, <1>3, <3>1, AfterPlace
    <3> QED
      BY <1>4, <2>2, <3>1, <3>2, <3>3
  <2> QED
    BY <2>1, <2>2
<1>7. ptr'[t] # None => obj'[ptr'[t]] # None
  BY <1>1, <1>2, <1>5, <1>6, ListElements DEF Linked
<1>8. LoopOK(t)'
  <2>1. type \notin vinput_devices'
    BY <1>5
  <2>2. CASE s = <<>>
    <3>1. Listed' = {} /\ ptr'[t] = None /\ next'[t] = None
      BY <1>2, <1>5, <1>6, <2>2 DEF Listed
    <3> QED
      BY <1>5, <2>1, <3>1 DEF LoopOK
  <2>3. CASE s # <<>>
    <3>1. AtPlace(t, 1)'
      BY <1>2, <1>3, <1>5, <1>6, <2>3 DEF AtPlace
    <3>2. \E i \in DOMAIN s' : AtPlace(t, i)'
      BY <1>2, <1>3, <1>6, <2>3, <3>1
    <3>3. ptr'[t] # None
      BY <1>5, <1>6, <2>3
    <3> QED
      BY <1>5, <2>1, <3>2, <3>3 DEF LoopOK
  <2> QED
    BY <2>2, <2>3
<1> QED
  BY <1>2, <1>5, <1>7, <1>8

(* It ends when it has seen all of the list, has found a vdevice of the     *)
(* type, or goes on to the next one.                                        *)
LEMMA LoopStepKeepsItsPlace ==
    ASSUME RInv, NEW t \in Thread, LoopOK(t), LoopStep(t)
    PROVE  /\ RInv' /\ UNCHANGED <<registry, obj, private_data>> /\ OthersStay(t)
           /\ at[t] = "loop" /\ at'[t] \in {"idle", "loop", "loop_kill"} /\ LoopOK(t)'
           /\ ptr'[t] # None => obj'[ptr'[t]] # None
           /\ at'[t] # "idle" => arg'[t] = arg[t]
           /\ at'[t] = "loop_kill" => ptr'[t] # None
           /\ at'[t] = "idle" => /\ ptr'[t] = None /\ next'[t] = None
                                 /\ \A q \in Listed : obj[q].type # arg[t]
<1> DEFINE s == vinput_vdevices
           o == ptr[t]
<1>1. Types /\ Linked
  BY DEF RInv
<1>2. RInv' /\ UNCHANGED <<vinput_ids, vinput_vdevices, obj>>
  BY QuietStep DEF Quiet
<1>3. UNCHANGED <<registry, obj, private_data>> /\ vinput_devices' = vinput_devices
      /\ at[t] = "loop"
  BY DEF LoopStep, Returns, Goes, registry
<1>4. /\ arg[t] \in Type /\ arg[t] \notin vinput_devices
      /\ o = None => next[t] = None /\ \A q \in Listed : obj[q].type # arg[t]
      /\ o # None => \E i \in DOMAIN s : AtPlace(t, i)
  BY <1>3 DEF LoopOK, InUnregister
<1>5. Listed' = Listed
  BY <1>2 DEF Listed
<1>6. CASE o = None /\ Returns(t, "loop")
  <2>1. at'[t] = "idle" /\ ptr'[t] = None /\ next'[t] = None /\ OthersStay(t)
    BY <1>1, <1>6 DEF Returns, Goes, OthersStay, Types
  <2>2. LoopOK(t)'
    BY <2>1 DEF LoopOK, InUnregister
  <2> QED
    BY <1>2, <1>3, <1>4, <1>6, <2>1, <2>2
<1>7. CASE Live(o) /\ obj[o].type = arg[t] /\ Goes(t, "loop", "loop_kill") /\ Stays
  <2>1. /\ at'[t] = "loop_kill" /\ ptr' = ptr /\ arg' = arg /\ next' = next /\ OthersStay(t)
    BY <1>1, <1>7 DEF Goes, Stays, OthersStay, Types
  <2>2. \A i : AtPlace(t, i) => AtPlace(t, i)'
    BY <1>2, <2>1 DEF AtPlace
  <2>3. LoopOK(t)'
    BY <1>2, <1>3, <1>4, <1>5, <1>7, <2>1, <2>2 DEF LoopOK, Live
  <2>4. ptr'[t] # None /\ obj'[ptr'[t]] # None
    BY <1>2, <1>7, <2>1 DEF Live
  <2> QED
    BY <1>2, <1>3, <2>1, <2>3, <2>4
<1>8. CASE Live(o) /\ obj[o].type # arg[t] /\ Goes(t, "loop", "loop") /\ Advance(t)
  <2>1. /\ at'[t] = "loop" /\ ptr'[t] = next[t] /\ arg' = arg /\ OthersStay(t)
        /\ next'[t] = IF next[t] = None THEN None ELSE After(next[t])
    BY <1>1, <1>8 DEF Goes, Advance, OthersStay, Types
  <2>2. PICK n \in Nat : n = Len(s) /\ DOMAIN s = 1 .. n
    <3>1. s \in Seq(Obj)
      BY <1>1 DEF Types
    <3> QED
      BY <3>1, LenProperties
  <2>3. PICK i \in 1 .. n : AtPlace(t, i)
    BY <1>4, <1>8, <2>2 DEF Live
  <2>4. /\ o = s[i] /\ next[t] = IF i < n THEN s[i + 1] ELSE None
        /\ \A j \in 1 .. i - 1 : obj[s[j]].type # arg[t]
    BY <2>2, <2>3 DEF AtPlace
  <2>5. \A j \in 1 .. i : obj[s[j]].type # arg[t]
    <3> TAKE j \in 1 .. i
    <3>1. CASE j = i
      BY <1>8, <2>4, <3>1
    <3>2. CASE j # i
      <4>1. j \in 1 .. i - 1
        BY <3>2
      <4> QED
        BY <2>4, <4>1
    <3> QED
      BY <3>1, <3>2
  <2>6. CASE i < n
    <3>1. i + 1 \in 1 .. n /\ (i + 1) - 1 = i
      BY <2>6
    <3>2. next[t] = s[i + 1] /\ next[t] # None /\ obj[next[t]] # None
      <4>1. s[i + 1] \in Listed /\ s[i + 1] \in Obj
        BY <1>1, <2>2, <3>1, ListElements
      <4> QED
        BY <1>1, <2>4, <2>6, <4>1 DEF Linked
    <3>3. After(next[t]) = IF i + 1 < n THEN s[(i + 1) + 1] ELSE None
      <4>1. After(s[i + 1]) = IF i + 1 < n THEN s[(i + 1) + 1] ELSE None
        BY <1>1, <2>2, <3>1, AfterPlace
      <4> QED
        BY <3>2, <4>1
    <3>4. AtPlace(t, i + 1)'
      BY <1>2, <2>1, <2>2, <2>5, <3>1, <3>2, <3>3 DEF AtPlace
    <3>5. \E j \in DOMAIN s' : AtPlace(t, j)'
      BY <1>2, <2>2, <3>1, <3>4
    <3>6. LoopOK(t)'
      BY <1>3, <1>4, <2>1, <3>2, <3>5 DEF LoopOK
    <3> QED
      BY <1>2, <1>3, <2>1, <3>2, <3>6
  <2>7. CASE ~(i < n)
    <3>1. i = n /\ next[t] = None /\ ptr'[t] = None /\ next'[t] = None
      BY <2>1, <2>4, <2>7
    <3>2. \A q \in Listed : obj[q].type # arg[t]
      BY <2>2, <2>5, <3>1 DEF Listed
    <3>3. LoopOK(t)'
      BY <1>2, <1>3, <1>4, <1>5, <2>1, <3>1, <3>2 DEF LoopOK
    <3> QED
      BY <1>2, <1>3, <2>1, <3>1, <3>3
  <2> QED
    BY <2>6, <2>7
<1> QED
  BY <1>6, <1>7, <1>8 DEF LoopStep

(* The loop of vinput_unregister has destroyed a vdevice: the next one has  *)
(* moved up to its place.                                                   *)
LEMMA LoopDelKeepsItsPlace ==
    ASSUME RInv, NEW t \in Thread, LoopOK(t), at[t] = "loop_del", ptr[t] # None,
           vinput_devices' = vinput_devices,
           vinput_vdevices' = Unlinked(ptr[t]), Listed' = Listed \ {ptr[t]},
           \A q \in Obj : obj'[q] = IF q = ptr[t] THEN None ELSE obj[q],
           at'[t] = "loop", arg'[t] = arg[t], ptr'[t] = next[t],
           next'[t] = IF next[t] = None THEN None ELSE After(next[t])
    PROVE  LoopOK(t)' /\ (ptr'[t] # None => obj'[ptr'[t]] # None)
<1> DEFINE s == vinput_vdevices
           o == ptr[t]
<1>1. Types /\ Linked
  BY DEF RInv
<1>2. PICK n \in Nat : n = Len(s) /\ DOMAIN s = 1 .. n
  <2>1. s \in Seq(Obj)
    BY <1>1 DEF Types
  <2> QED
    BY <2>1, LenProperties
<1>3. /\ o # None /\ arg[t] \in Type /\ arg[t] \notin vinput_devices
      /\ \E i \in 1 .. n : AtPlace(t, i)
  BY <1>2 DEF LoopOK, InUnregister
<1>4. PICK i \in 1 .. n : AtPlace(t, i)
  BY <1>3
<1>5. /\ o = s[i] /\ next[t] = IF i < n THEN s[i + 1] ELSE None
      /\ \A j \in 1 .. i - 1 : obj[s[j]].type # arg[t]
  BY <1>2, <1>4 DEF AtPlace
<1>6. \A j \in 1 .. n : s[j] \in Listed /\ s[j] \in Obj /\ s[j] # None
  BY <1>1, <1>2, ListElements
<1>7. \A j, k \in 1 .. n : s[j] = s[k] => j = k
  BY <1>1, <1>2 DEF Linked
<1>8. i = Place(o) /\ o \in Listed
  BY <1>1, <1>2, <1>5, <1>6, PlaceInList
<1>9. /\ Len(s') = n - 1 /\ DOMAIN s' = 1 .. n - 1
      /\ \A j \in 1 .. n - 1 : s'[j] = IF j < i THEN s[j] ELSE s[j + 1]
  BY <1>1, <1>2, <1>8, UnlinkedList
<1>10. \A j \in 1 .. n : j # i => s[j] # o /\ obj'[s[j]] = obj[s[j]] /\ obj'[s[j]] # None
  <2> TAKE j \in 1 .. n
  <2> HAVE j # i
  <2>1. s[j] # o
    BY <1>5, <1>7
  <2>2. obj[s[j]] # None
    BY <1>1, <1>6 DEF Linked
  <2> QED
    BY <1>6, <2>1, <2>2
<1> HIDE DEF s, o
<1>11. CASE i < n
  <2>1. i + 1 \in 1 .. n /\ i \in 1 .. n - 1
    BY <1>11
  <2>2. next[t] = s[i + 1] /\ next[t] # None
    BY <1>5, <1>6, <1>11, <2>1
  <2>3. After(next[t]) = IF i + 1 < n THEN s[(i + 1) + 1] ELSE None
    <3>1. After(s[i + 1]) = IF i + 1 < n THEN s[(i + 1) + 1] ELSE None
      BY <1>1, <1>2, <2>1, AfterPlace DEF s
    <3> QED
      BY <2>2, <3>1
  <2>4. ptr'[t] = s'[i]
    BY <1>9, <2>1, <2>2
  <2>5. next'[t] = IF i < n - 1 THEN s'[i + 1] ELSE None
    <3>1. CASE i < n - 1
      <4>1. i + 1 \in 1 .. n - 1 /\ ~(i + 1 < i) /\ i + 1 < n
        BY <3>1
      <4> QED
        BY <1>9, <2>2, <2>3, <3>1, <4>1
    <3>2. CASE ~(i < n - 1)
      <4>1. ~(i + 1 < n)
        BY <3>2
      <4> QED
        BY <2>2, <2>3, <3>2, <4>1
    <3> QED
      BY <3>1, <3>2
  <2>6. \A j \in 1 .. i - 1 : obj'[s'[j]].type # arg'[t]
    <3> TAKE j \in 1 .. i - 1
    <3>1. j \in 1 .. n - 1 /\ j \in 1 .. n /\ j < i /\ j # i
      BY <2>1
    <3>2. s'[j] = s[j] /\ obj'[s[j]] = obj[s[j]]
      BY <1>9, <1>10, <3>1
    <3> QED
      BY <1>5, <3>2
  <2>7. AtPlace(t, i)'
    BY <1>9, <2>4, <2>5, <2>6 DEF AtPlace, s
  <2>8. ptr'[t] # None /\ obj'[ptr'[t]] # None
    <3>1. i + 1 # i
      OBVIOUS
    <3> QED
      BY <1>10, <2>1, <2>2, <3>1
  <2>9. \E j \in DOMAIN s' : AtPlace(t, j)'
    BY <1>9, <2>1, <2>7
  <2>10. LoopOK(t)'
    BY <1>3, <2>8, <2>9 DEF LoopOK, s
  <2> QED
    BY <2>8, <2>10
<1>12. CASE ~(i < n)
  <2>1. i = n /\ next[t] = None
    BY <1>5, <1>12
  <2>2. ptr'[t] = None /\ next'[t] = None
    BY <2>1
  <2>3. ASSUME NEW q \in Listed' PROVE obj'[q].type # arg[t]
    <3>1. PICK j \in 1 .. n : q = s[j]
      BY <1>2, <2>3 DEF Listed, s
    <3>2. q # o
      BY DEF o
    <3>3. j # i
      BY <1>5, <3>1, <3>2
    <3>4. j \in 1 .. i - 1
      BY <2>1, <3>3
    <3> QED
      BY <1>5, <1>10, <3>1, <3>3, <3>4
  <2>4. LoopOK(t)'
    BY <1>3, <2>2, <2>3 DEF LoopOK
  <2> QED
    BY <2>2, <2>4
<1> QED
  BY <1>11, <1>12

-----------------------------------------------------------------------------
(* As long as the care "quiet_type" is taken: threads and files may hold    *)
(* vdevices that were freed, and yet vinput_unregister leaves none of its   *)
(* type.                                                                    *)

(* A thread exports a type that is registered, and where the loop removes a *)
(* vdevice it has one.                                                      *)
Registered(t) ==
    /\ at[t] \in Exporting => arg[t] \in vinput_devices
    /\ at[t] \in {"loop_kill", "loop_del"} => ptr[t] # None

QInv ==
    /\ RInv /\ Alone /\ NoneLeft
    /\ \A t \in Thread : LoopOK(t) /\ Registered(t)

(* While a thread exports or unexports, nobody is in vinput_unregister.     *)
LEMMA NobodyInLoop ==
    ASSUME QInv, NEW t \in Thread, at[t] \notin InUnregister, at[t] # "idle"
    PROVE  \A u \in Thread : at[u] \notin InUnregister
  BY DEF QInv, Alone

(* Then a step that leaves listed vdevices with registered types keeps it.  *)
LEMMA OtherStepKeepsQInv ==
    ASSUME QInv, RInv', NEW t \in Thread, OthersStay(t),
           \A u \in Thread : at[u] \notin InUnregister, at'[t] \notin InUnregister,
           vinput_devices' = vinput_devices,
           at'[t] \in Exporting => arg'[t] \in vinput_devices,
           \A o \in Listed' : \/ o \in Listed /\ obj'[o].type = obj[o].type
                              \/ obj'[o].type \in vinput_devices \cup {None}
    PROVE  QInv'
<1>1. \A u \in Thread : u # t => at'[u] = at[u] /\ arg'[u] = arg[u]
  BY DEF OthersStay
<1>2. \A u \in Thread : at'[u] \notin InUnregister
  BY <1>1
<1>3. \A o \in Listed : obj[o].type # None => obj[o].type \in vinput_devices
  BY DEF QInv, NoneLeft, Loaded
<1>4. Alone' /\ NoneLeft'
  BY <1>2, <1>3 DEF Alone, NoneLeft, Loaded
<1>5. ASSUME NEW u \in Thread PROVE LoopOK(u)' /\ Registered(u)'
  <2>1. LoopOK(u)'
    BY <1>2 DEF LoopOK
  <2>2. at'[u] \notin {"loop_kill", "loop_del"}
    BY <1>2 DEF InUnregister
  <2>3. at'[u] \in Exporting => arg'[u] \in vinput_devices
    BY <1>1 DEF QInv, Registered
  <2> QED
    BY <2>1, <2>2, <2>3 DEF Registered
<1> QED
  BY <1>4, <1>5 DEF QInv

(* A step of the loop keeps it if it keeps the place.                       *)
LEMMA LoopKeepsQInv ==
    ASSUME QInv, RInv', NEW t \in Thread, OthersStay(t),
           at[t] \in InUnregister, at'[t] \in InUnregister, arg'[t] = arg[t],
           vinput_devices' = vinput_devices, LoopOK(t)',
           at'[t] \in {"loop_kill", "loop_del"} => ptr'[t] # None,
           \A o \in Listed' : o \in Listed /\ obj'[o].type = obj[o].type
    PROVE  QInv'
<1>1. \A u \in Thread : u # t => at'[u] = "idle" /\ at[u] = "idle"
  BY DEF OthersStay, QInv, Alone
<1>2. "idle" \notin InUnregister \cup Exporting
  BY DEF InUnregister, Exporting
<1>3. Alone'
  BY <1>1, <1>2 DEF Alone
<1>4. NoneLeft'
  <2> SUFFICES ASSUME NEW o \in Listed', obj'[o].type # None
               PROVE  obj'[o].type \in vinput_devices \/ arg'[t] = obj'[o].type
    BY DEF NoneLeft, Loaded
  <2>1. o \in Listed /\ obj'[o].type = obj[o].type
    OBVIOUS
  <2> QED
    BY <1>1, <1>2, <2>1 DEF QInv, NoneLeft, Loaded
<1>5. ASSUME NEW u \in Thread, u # t PROVE LoopOK(u)' /\ Registered(u)'
  BY <1>1, <1>2, <1>5 DEF LoopOK, Registered
<1>6. Registered(t)'
  BY DEF Registered, InUnregister, Exporting
<1> QED
  BY <1>3, <1>4, <1>5, <1>6 DEF QInv

(* vinput_unregister begins while no other thread is in the driver.         *)
LEMMA UnregisterKeepsQInv ==
    ASSUME "quiet_type" \notin careless', QInv, NEW t \in Thread, NEW type \in Type,
           vinput_unregister(t, type)
    PROVE  QInv'
<1>1. /\ RInv' /\ UNCHANGED <<vinput_vdevices, obj>> /\ OthersStay(t)
      /\ vinput_devices' = vinput_devices \ {type}
      /\ at'[t] = "loop" /\ arg'[t] = type /\ LoopOK(t)'
  BY UnregisterStartsAtHead DEF QInv
<1>2. \A u \in Thread : at[u] = "idle"
  BY DEF vinput_unregister, UnregisterCares, Unless
<1>3. \A u \in Thread : u # t => at'[u] = "idle"
  BY <1>1, <1>2 DEF OthersStay
<1>4. /\ "idle" \notin InUnregister \cup Exporting /\ "loop" \in InUnregister
      /\ "loop" \notin Exporting
  BY DEF InUnregister, Exporting
<1>5. Alone'
  BY <1>3, <1>4 DEF Alone
<1>6. NoneLeft'
  <2> SUFFICES ASSUME NEW o \in Listed, obj[o].type # None
               PROVE  obj[o].type \in vinput_devices' \/ arg'[t] = obj[o].type
    BY <1>1, <1>4 DEF NoneLeft, Loaded, Listed
  <2>1. obj[o].type \in vinput_devices
    BY <1>2, <1>4 DEF QInv, NoneLeft, Loaded
  <2> QED
    BY <1>1, <2>1
<1>7. ASSUME NEW u \in Thread PROVE LoopOK(u)' /\ Registered(u)'
  <2>1. CASE u = t
    BY <1>1, <1>4, <2>1 DEF Registered
  <2>2. CASE u # t
    BY <1>3, <1>4, <2>2 DEF LoopOK, Registered
  <2> QED
    BY <2>1, <2>2
<1> QED
  BY <1>1, <1>5, <1>6, <1>7 DEF QInv

(* The loop goes on, or ends with no vdevice of its type left.              *)
LEMMA LoopStepKeepsQInv ==
    ASSUME QInv, NEW t \in Thread, LoopStep(t)
    PROVE  QInv'
<1>1. /\ RInv' /\ UNCHANGED <<registry, obj, private_data>> /\ OthersStay(t)
      /\ at[t] = "loop" /\ at'[t] \in {"idle", "loop", "loop_kill"} /\ LoopOK(t)'
      /\ at'[t] # "idle" => arg'[t] = arg[t]
      /\ at'[t] = "loop_kill" => ptr'[t] # None
      /\ at'[t] = "idle" => \A q \in Listed : obj[q].type # arg[t]
  BY LoopStepKeepsItsPlace DEF QInv
<1>2. /\ vinput_devices' = vinput_devices
      /\ \A o \in Listed' : o \in Listed /\ obj'[o].type = obj[o].type
  BY <1>1 DEF registry, Listed
<1>3. CASE at'[t] # "idle"
  <2>1. at[t] \in InUnregister /\ at'[t] \in InUnregister /\ at'[t] # "loop_del"
    BY <1>1, <1>3 DEF InUnregister
  <2> QED
    BY <1>1, <1>2, <1>3, <2>1, LoopKeepsQInv
<1>4. CASE at'[t] = "idle"
  <2>1. "idle" \notin InUnregister \cup Exporting \cup {"loop_kill", "loop_del"}
        /\ "loop" \in InUnregister
    BY DEF InUnregister, Exporting
  <2>2. \A u \in Thread : at'[u] = "idle" /\ (at[u] \in InUnregister => u = t)
    BY <1>1, <1>4, <2>1 DEF OthersStay, QInv, Alone
  <2>3. Alone'
    BY <2>1, <2>2 DEF Alone
  <2>4. NoneLeft'
    BY <1>1, <1>2, <1>4, <2>2 DEF QInv, NoneLeft, Loaded
  <2>5. ASSUME NEW u \in Thread PROVE LoopOK(u)' /\ Registered(u)'
    BY <2>1, <2>2 DEF LoopOK, Registered
  <2> QED
    BY <1>1, <2>3, <2>4, <2>5 DEF QInv
<1> QED
  BY <1>3, <1>4

(* The other steps that leave the list and the vdevices.                    *)
LEMMA QuietKeepsQInv ==
    ASSUME "quiet_type" \notin careless', QInv, NEW t \in Thread, Quiet(t)
    PROVE  QInv'
<1>1. RInv /\ Types /\ Registered(t)
  BY DEF QInv, RInv
<1>2. RInv' /\ \A o \in Listed' : o \in Listed /\ obj'[o].type = obj[o].type
  BY <1>1, QuietStep DEF Listed
<1>3. /\ {"found", "alloc", "input", "register"} \cap InUnregister = {}
      /\ {"found", "kill", "idle", "alloc", "no_input", "no_register"} \cap InUnregister = {}
      /\ {"found", "kill", "idle"} \cap Exporting = {}
      /\ {"input", "register"} \subseteq Exporting
  BY DEF InUnregister, Exporting
<1>4. ASSUME OthersStay(t), vinput_devices' = vinput_devices,
             \A u \in Thread : at[u] \notin InUnregister,
             \/ at'[t] \in {"found", "kill", "idle"}
             \/ at'[t] \in {"alloc", "no_input", "no_register"}
                /\ arg'[t] \in vinput_devices
      PROVE  QInv'
  <2>1. at'[t] \notin InUnregister /\ (at'[t] \in Exporting => arg'[t] \in vinput_devices)
    BY <1>3, <1>4
  <2> QED
    BY <1>2, <1>4, <2>1, OtherStepKeepsQInv
<1>5. ASSUME NEW id \in Minors, unexport_store(t, id) PROVE QInv'
  <2>1. OthersStay(t) /\ vinput_devices' = vinput_devices /\ at'[t] = "found"
    BY <1>1, <1>5 DEF unexport_store, Goes, OthersStay, registry, Types
  <2>2. \A u \in Thread : at[u] \notin InUnregister
    BY <1>5 DEF unexport_store, UnexportCares, Unless, NoneUnregisters
  <2> QED
    BY <1>4, <2>1, <2>2
<1>6. ASSUME NEW type \in Type, export_store(t, type) PROVE QInv'
  <2>1. /\ OthersStay(t) /\ vinput_devices' = vinput_devices /\ at'[t] = "alloc"
        /\ arg'[t] \in vinput_devices
    BY <1>1, <1>6 DEF export_store, Goes, OthersStay, registry, Types
  <2>2. \A u \in Thread : at[u] \notin InUnregister
    BY <1>6 DEF export_store, Unless, NoneUnregisters
  <2> QED
    BY <1>4, <2>1, <2>2
<1>7. ASSUME at[t] \in {"found", "alloc", "input", "register"}
      PROVE  \A u \in Thread : at[u] \notin InUnregister
  BY <1>3, <1>7, NobodyInLoop
<1>8. CASE FoundCheck(t)
  <2>1. /\ OthersStay(t) /\ vinput_devices' = vinput_devices /\ at[t] = "found"
        /\ at'[t] \in {"kill", "idle"}
    BY <1>1, <1>8 DEF FoundCheck, Returns, Goes, Stays, OthersStay, registry, Types
  <2> QED
    BY <1>4, <1>7, <2>1
<1>9. CASE vinput_alloc_vdevice(t) /\ at'[t] = "idle"
  <2>1. OthersStay(t) /\ vinput_devices' = vinput_devices /\ at[t] = "alloc"
    BY <1>1, <1>9 DEF vinput_alloc_vdevice, Returns, Goes, OthersStay, registry, Types
  <2> QED
    BY <1>4, <1>7, <1>9, <2>1
<1>10. CASE AllocateInput(t) /\ at'[t] = "no_input"
  <2>1. OthersStay(t) /\ vinput_devices' = vinput_devices /\ at[t] = "input" /\ arg' = arg
    BY <1>1, <1>10 DEF AllocateInput, Goes, Stays, OthersStay, registry, Types
  <2>2. arg'[t] \in vinput_devices
    BY <1>1, <1>3, <2>1 DEF Registered
  <2> QED
    BY <1>4, <1>7, <1>10, <2>1, <2>2
<1>11. CASE RegisterVdevice(t) /\ at'[t] = "no_register"
  <2>1. Goes(t, "register", "no_register") /\ Stays /\ UNCHANGED registry
    BY <1>1, <1>11 DEF RegisterVdevice, Returns, Goes, Types
  <2>2. OthersStay(t) /\ vinput_devices' = vinput_devices /\ at[t] = "register" /\ arg' = arg
    BY <1>1, <2>1 DEF Goes, Stays, OthersStay, registry, Types
  <2>3. arg'[t] \in vinput_devices
    BY <1>1, <1>3, <2>2 DEF Registered
  <2> QED
    BY <1>4, <1>7, <1>11, <2>2, <2>3
<1> QED
  BY <1>5, <1>6, <1>8, <1>9, <1>10, <1>11, UnregisterKeepsQInv, LoopStepKeepsQInv DEF Quiet

(* Steps that assign to a vdevice, which need not be the thread's own any   *)
(* more, give it a type that is registered or leave its type.               *)
LEMMA AssigningKeepsQInv ==
    ASSUME QInv, NEW t \in Thread, Assigning(t)
    PROVE  QInv'
<1>1. RInv /\ Types /\ Registered(t) /\ LoopOK(t)
  BY DEF QInv, RInv
<1>2. PICK o \in Obj : o = ptr[t]
  BY <1>1, AssignStep
<1>3. /\ RInv' /\ Listed' = Listed /\ vinput_devices' = vinput_devices
      /\ vinput_vdevices' = vinput_vdevices
      /\ \A q \in Obj : q # o => obj'[q] = obj[q]
      /\ at[t] # "dev" => obj'[o].type = obj[o].type
  BY <1>1, <1>2, AssignStep
<1>4. /\ arg[t] \in Argument /\ ptr[t] \in Pointer /\ next[t] \in Pointer
      /\ None \in Argument /\ None \in Pointer /\ "idle" \in At
      /\ {"dev", "register", "no_dev", "del", "loop_del"} \subseteq At /\ Listed \subseteq Obj
  BY <1>1, ThreadParts, ListElements DEF Argument, Pointer, At
<1>5. at[t] # "dev" => \A q \in Listed : obj'[q].type = obj[q].type
  BY <1>3, <1>4
<1>6. CASE at[t] = "loop_kill"
  <2>1. ThreadStep(t, "loop_del", arg[t], ptr[t], next[t])
    BY <1>1, <1>6, AssignStep
  <2>2. /\ at'[t] = "loop_del" /\ arg'[t] = arg[t] /\ ptr'[t] = ptr[t]
        /\ next'[t] = next[t] /\ OthersStay(t)
    BY <1>1, <1>4, <2>1, ThreadStepParts DEF OthersStay
  <2>3. at[t] \in InUnregister /\ at'[t] \in InUnregister /\ ptr[t] # None
    BY <1>1, <1>6, <2>2 DEF InUnregister, Registered
  <2>4. \A q \in Listed : obj'[q].type = obj[q].type
    BY <1>5, <1>6
  <2>5. PICK i \in DOMAIN vinput_vdevices : AtPlace(t, i)
    BY <1>1, <2>3 DEF LoopOK
  <2>6. AtPlace(t, i)'
    <3>1. PICK n \in Nat : n = Len(vinput_vdevices) /\ DOMAIN vinput_vdevices = 1 .. n
      <4>1. vinput_vdevices \in Seq(Obj)
        BY <1>1 DEF Types
      <4> QED
        BY <4>1, LenProperties
    <3>2. \A j \in 1 .. i - 1 : vinput_vdevices[j] \in Listed
      <4>1. \A j \in 1 .. i - 1 : j \in DOMAIN vinput_vdevices
        BY <3>1
      <4> QED
        BY <1>1, <4>1, ListElements
    <3> QED
      BY <1>3, <2>2, <2>4, <2>5, <3>2 DEF AtPlace
  <2>7. o \in Listed /\ obj[o].type = arg[t]
    <3>1. obj[o].type = arg[t]
      BY <1>1, <1>2, <1>6, <2>3 DEF LoopOK
    <3>2. vinput_vdevices[i] = o /\ vinput_vdevices[i] \in Listed
      BY <1>1, <1>2, <2>5, ListElements DEF AtPlace
    <3> QED
      BY <3>1, <3>2
  <2>8. LoopOK(t)'
    <3>1. arg'[t] \in Type /\ arg'[t] \notin vinput_devices'
      BY <1>1, <1>3, <2>2, <2>3 DEF LoopOK
    <3>2. \E j \in DOMAIN vinput_vdevices' : AtPlace(t, j)'
      BY <1>3, <2>6
    <3>3. obj'[ptr'[t]].type = arg'[t]
      BY <1>2, <2>2, <2>4, <2>7
    <3> QED
      BY <2>2, <2>3, <3>1, <3>2, <3>3 DEF LoopOK
  <2> QED
    BY <1>3, <2>2, <2>3, <2>4, <2>8, LoopKeepsQInv
<1>7. CASE at[t] # "loop_kill"
  <2>1. \/ /\ ThreadStep(t, at'[t], arg[t], ptr[t], next[t])
           /\ \/ at[t] = "input" /\ at'[t] = "dev"
              \/ at[t] = "dev" /\ at'[t] \in {"register", "no_dev"} /\ obj'[o].type = arg[t]
              \/ at[t] = "kill" /\ at'[t] = "del"
        \/ ThreadStep(t, "idle", None, None, None) /\ at[t] = "register"
    BY <1>1, <1>2, <1>7, AssignStep
  <2>2. OthersStay(t) /\ (at'[t] = "idle" \/ arg'[t] = arg[t])
    BY <1>1, <1>4, <2>1, ThreadStepParts DEF OthersStay
  <2>3. at'[t] \in {"idle", "dev", "register", "no_dev", "del"}
    BY <1>1, <1>4, <2>1, ThreadStepParts
  <2>4. at[t] \notin InUnregister /\ at[t] # "idle" /\ at'[t] \notin InUnregister
    BY <2>1, <2>3 DEF InUnregister
  <2>5. \A u \in Thread : at[u] \notin InUnregister
    BY <2>4, NobodyInLoop
  <2>6. at'[t] \in Exporting => arg'[t] \in vinput_devices
    <3>1. at'[t] \in Exporting => at[t] \in Exporting /\ arg'[t] = arg[t]
      BY <2>1, <2>2, <2>3 DEF Exporting
    <3> QED
      BY <1>1, <3>1 DEF Registered
  <2>7. at[t] = "dev" => obj'[o].type \in vinput_devices
    BY <1>1, <2>1 DEF Registered, Exporting
  <2>8. \A q \in Listed' : \/ q \in Listed /\ obj'[q].type = obj[q].type
                           \/ obj'[q].type \in vinput_devices \cup {None}
    BY <1>3, <1>4, <1>5, <2>7
  <2> QED
    BY <1>3, <2>2, <2>4, <2>5, <2>6, <2>8, OtherStepKeepsQInv
<1> QED
  BY <1>6, <1>7

(* Steps that destroy a vdevice.                                            *)
LEMMA DestroyingKeepsQInv ==
    ASSUME QInv, NEW t \in Thread, Destroying(t)
    PROVE  QInv'
<1>1. RInv /\ Types /\ Registered(t) /\ LoopOK(t)
  BY DEF QInv, RInv
<1>2. /\ RInv' /\ Listed' = Listed \ {ptr[t]} /\ vinput_devices' = vinput_devices
      /\ vinput_vdevices' = Unlinked(ptr[t])
      /\ \A q \in Obj : obj'[q] = IF q = ptr[t] THEN None ELSE obj[q]
  BY <1>1, DestroyStep
<1>3. PICK x \in Pointer : x = IF next[t] = None THEN None ELSE After(next[t])
  BY <1>1, ListElements DEF Pointer
<1>4. /\ arg[t] \in Argument /\ next[t] \in Pointer /\ Listed \subseteq Obj
      /\ None \in Argument /\ None \in Pointer /\ "idle" \in At /\ "loop" \in At
  BY <1>1, ThreadParts, ListElements DEF Argument, Pointer, At
<1>5. \A q \in Listed' : q \in Listed /\ obj'[q].type = obj[q].type
  BY <1>2, <1>4
<1>6. CASE /\ ThreadStep(t, "idle", None, None, None)
           /\ at[t] \in {"no_input", "no_register", "no_dev", "del"}
  <2>1. at'[t] = "idle" /\ OthersStay(t)
    BY <1>1, <1>4, <1>6, ThreadStepParts DEF OthersStay
  <2>2. /\ at[t] \notin InUnregister /\ at[t] # "idle"
        /\ at'[t] \notin InUnregister /\ at'[t] \notin Exporting
    BY <1>6, <2>1 DEF InUnregister, Exporting
  <2> QED
    BY <1>2, <1>5, <2>1, <2>2, NobodyInLoop, OtherStepKeepsQInv
<1>7. CASE ThreadStep(t, "loop", arg[t], next[t], x) /\ at[t] = "loop_del"
  <2>1. /\ at'[t] = "loop" /\ arg'[t] = arg[t] /\ ptr'[t] = next[t] /\ next'[t] = x
        /\ OthersStay(t)
    BY <1>1, <1>3, <1>4, <1>7, ThreadStepParts DEF OthersStay
  <2>2. ptr[t] # None
    BY <1>1, <1>7 DEF Registered
  <2>3. LoopOK(t)'
    BY <1>1, <1>2, <1>3, <1>7, <2>1, <2>2, LoopDelKeepsItsPlace
  <2>4. /\ at[t] \in InUnregister /\ at'[t] \in InUnregister
        /\ at'[t] \notin {"loop_kill", "loop_del"}
    BY <1>7, <2>1 DEF InUnregister
  <2> QED
    BY <1>2, <1>5, <2>1, <2>3, <2>4, LoopKeepsQInv
<1> QED
  BY <1>1, <1>3, <1>6, <1>7, DestroyStep

(* vinput_alloc_vdevice makes a vdevice without a type.                     *)
LEMMA AllocKeepsQInv ==
    ASSUME QInv, NEW t \in Thread, vinput_alloc_vdevice(t), at'[t] # "idle"
    PROVE  QInv'
<1>1. RInv /\ Types /\ Registered(t)
  BY DEF QInv, RInv
<1>2. PICK o \in Obj :
         /\ RInv' /\ obj'[o].type = None
         /\ \A p \in Obj : p # o => obj'[p] = obj[p]
         /\ Listed' = Listed \cup {o} /\ vinput_devices' = vinput_devices
         /\ at[t] = "alloc" /\ ThreadStep(t, "input", arg[t], o, next[t])
  BY <1>1, AllocStep
<1>3. /\ arg[t] \in Argument /\ next[t] \in Pointer /\ o \in Pointer /\ "input" \in At
      /\ Listed \subseteq Obj
  BY <1>1, ThreadParts, ListElements DEF Pointer, At
<1>4. at'[t] = "input" /\ arg'[t] = arg[t] /\ OthersStay(t)
  BY <1>1, <1>2, <1>3, ThreadStepParts DEF OthersStay
<1>5. /\ at[t] \notin InUnregister /\ at[t] # "idle" /\ at'[t] \notin InUnregister
      /\ at[t] \in Exporting
  BY <1>2, <1>4 DEF InUnregister, Exporting
<1>6. \A u \in Thread : at[u] \notin InUnregister
  BY <1>5, NobodyInLoop
<1>7. arg'[t] \in vinput_devices
  BY <1>1, <1>4, <1>5 DEF Registered
<1>8. \A q \in Listed' : \/ q \in Listed /\ obj'[q].type = obj[q].type
                         \/ obj'[q].type \in vinput_devices \cup {None}
  BY <1>2, <1>3
<1> QED
  BY <1>2, <1>4, <1>5, <1>6, <1>7, <1>8, OtherStepKeepsQInv

(* A type is registered, which is not being unregistered.                   *)
LEMMA OutsideKeepsQInv ==
    ASSUME QInv, Outside
    PROVE  QInv'
<1>1. RInv' /\ UNCHANGED <<vinput_ids, vinput_vdevices, obj, at, arg, ptr, next>>
  BY OutsideStep DEF QInv
<1>2. Listed' = Listed
  BY <1>1 DEF Listed
<1>3. /\ vinput_devices \subseteq vinput_devices'
      /\ \A u \in Thread : at[u] \in InUnregister /\ arg[u] \notin vinput_devices =>
            arg[u] \notin vinput_devices'
  BY DEF Outside, FileNext, vinput_register, vinput_open, OpenCheck, vinput_release, registry,
         Loaded
<1>4. Alone' /\ NoneLeft'
  BY <1>1, <1>2, <1>3 DEF QInv, Alone, NoneLeft, Loaded
<1>5. ASSUME NEW u \in Thread PROVE LoopOK(u)' /\ Registered(u)'
  <2>1. LoopOK(u) /\ Registered(u)
    BY DEF QInv
  <2>2. \A i : AtPlace(u, i) => AtPlace(u, i)'
    BY <1>1 DEF AtPlace
  <2>3. LoopOK(u)'
    BY <1>1, <1>2, <1>3, <2>1, <2>2 DEF LoopOK
  <2>4. Registered(u)'
    BY <1>1, <1>3, <2>1 DEF Registered
  <2> QED
    BY <2>3, <2>4
<1> QED
  BY <1>1, <1>4, <1>5 DEF QInv

(* As long as nobody exports or unexports while a type is unregistered.     *)
QuietInv == "quiet_type" \notin careless => QInv

(* Every step keeps it.                                                     *)
LEMMA QuietInvIsInductive ==
    ASSUME QuietInv, Records, [Next]_vars
    PROVE  QuietInv'
<1> SUFFICES ASSUME "quiet_type" \notin careless' PROVE QInv'
  BY DEF QuietInv
<1>1. QInv
  BY Recorded DEF QuietInv
<1>2. Types /\ RInv
  BY <1>1 DEF QInv, RInv
<1>3. CASE Outside
  BY <1>1, <1>3, OutsideKeepsQInv
<1>4. ASSUME NEW t \in Thread, Quiet(t) PROVE QInv'
  BY <1>1, <1>4, QuietKeepsQInv
<1>5. ASSUME NEW t \in Thread, Assigning(t) PROVE QInv'
  BY <1>1, <1>5, AssigningKeepsQInv
<1>6. ASSUME NEW t \in Thread, Destroying(t) PROVE QInv'
  BY <1>1, <1>6, DestroyingKeepsQInv
<1>7. ASSUME NEW t \in Thread, vinput_alloc_vdevice(t), at'[t] # "idle" PROVE QInv'
  BY <1>1, <1>7, AllocKeepsQInv
<1>8. CASE Frozen
  <2>1. RInv'
    BY <1>2, RInvIsInductive
  <2> QED
    BY <1>1, <1>8, <2>1 DEF Frozen, registry, QInv, Alone, NoneLeft, Loaded, LoopOK, AtPlace,
                            Registered, Listed
<1> QED
  BY <1>2, <1>3, <1>4, <1>5, <1>6, <1>7, <1>8, KindsOfSteps

(* As long as nobody has exported or unexported while a type was            *)
(* unregistered, and until something that is gone is used,                  *)
(* vinput_unregister leaves no vdevice of the type, whatever other care     *)
(* users do not take.                                                       *)
THEOREM TypesLeaveNothing == Spec => []AllOfTypeUnregistered
<1>1. Init => QuietInv
  <2> SUFFICES ASSUME Init PROVE QInv
    BY DEF QuietInv
  <2>1. RInv
    BY InitRInv
  <2>2. Listed = {}
    BY DEF Init, Listed
  <2>3. \A t \in Thread : at[t] = "idle"
    BY DEF Init
  <2>4. Alone /\ NoneLeft
    BY <2>2, <2>3 DEF Alone, NoneLeft
  <2>5. \A t \in Thread : LoopOK(t) /\ Registered(t)
    BY <2>3 DEF LoopOK, Registered, InUnregister, Exporting
  <2> QED
    BY <2>1, <2>4, <2>5 DEF QInv
<1>2. QuietInv => AllOfTypeUnregistered
  BY DEF QuietInv, QInv, NoneLeft, AllOfTypeUnregistered
<1>3. QuietInv /\ Records /\ [Next]_vars => QuietInv'
  BY QuietInvIsInductive
<1>4. Records /\ [Next]_vars => Records'
  BY Recorded
<1> QED
  BY <1>1, <1>2, <1>3, <1>4, InitRecords, PTL DEF Spec

-----------------------------------------------------------------------------
(* As long as the removers take care; if those who open do so too, files    *)
(* are all right as well.                                                   *)

Own == {"input", "no_input", "dev", "register", "no_register", "no_dev",
        "kill", "del", "loop_kill", "loop_del"}

(* Where a thread makes, takes apart or removes a vdevice, nobody else has  *)
(* that vdevice.                                                            *)
LEMMA OwnVdevice ==
    ASSUME DInv, NEW t \in Thread, at[t] \in Own
    PROVE  /\ ptr[t] \in Obj /\ obj[ptr[t]] # None
           /\ \A u \in Thread : u # t => ptr[u] # ptr[t] /\ at[u] \notin InUnregister
           /\ careless = {} => \A f \in File : private_data[f] # ptr[t]
<1>1. ThreadOK(t) /\ Unique /\ Alone /\ Types
  BY DEF DInv, RInv
<1>2. ptr[t] # None /\ obj[ptr[t]] # None /\ ptr[t] \in Obj
  BY <1>1, ThreadParts DEF ThreadOK, Own, Pointer
<1>3. \A u \in Thread : u # t => ptr[u] # ptr[t] /\ at[u] \notin InUnregister
  BY <1>1, <1>2 DEF Unique, Alone, Own
<1>4. careless = {} => \A f \in File : private_data[f] # ptr[t]
  BY <1>2 DEF DInv, FilesOK, FileOK, LooksInVain, Own
<1> QED
  BY <1>2, <1>3, <1>4

(* A step of a thread on its own vdevice o.                                 *)
LEMMA OwnStep ==
    ASSUME DInv, NEW t \in Thread, at[t] \in Own, NEW o \in Obj, o = ptr[t],
           OthersStay(t), RInv', careless \subseteq careless',
           vinput_devices' = vinput_devices, private_data' = private_data,
           \A q \in Obj : q # o => obj'[q] = obj[q],
           Listed' \subseteq Listed,
           at[t] = "loop_del" => at'[t] = "loop",
           at[t] # "loop_del" => ptr'[t] \in {o, None},
           at'[t] \in InUnregister <=> at[t] \in InUnregister,
           at'[t] \in InUnregister => arg'[t] = arg[t],
           o \in Listed' => \/ obj'[o].type \in vinput_devices
                            \/ obj'[o].type = obj[o].type,
           ThreadOK(t)', LoopOK(t)', Whole(o)'
    PROVE  DInv'
<1>1. Types /\ Unique /\ Alone /\ NoneLeft
  BY DEF DInv, RInv
<1>2. \A u \in Thread : u # t => /\ at'[u] = at[u] /\ arg'[u] = arg[u]
                                 /\ ptr'[u] = ptr[u] /\ next'[u] = next[u]
  BY DEF OthersStay
<1>3. /\ obj[o] # None
      /\ \A u \in Thread : u # t => ptr[u] # o /\ at[u] \notin InUnregister
      /\ careless = {} => \A f \in File : private_data[f] # o
  BY OwnVdevice
<1>4. at[t] \notin {"idle", "alloc", "loop", "found"}
  BY DEF Own
<1>5. \A u \in Thread : ThreadOK(u) /\ ptr[u] \in Obj \cup {None}
  BY <1>1, ThreadParts DEF DInv, Pointer
<1>6. at[t] = "loop_del" => \A u \in Thread : u # t => at[u] = "idle" /\ ptr[u] = None
  BY <1>1, <1>5 DEF Alone, InUnregister, ThreadOK
<1>7. ASSUME NEW u \in Thread PROVE ThreadOK(u)' /\ LoopOK(u)'
  <2>1. CASE u # t
    <3>1. ThreadOK(u)'
      BY <1>2, <1>3, <1>5, <2>1 DEF ThreadOK
    <3>2. LoopOK(u)'
      BY <1>2, <1>3, <2>1 DEF LoopOK
    <3> QED
      BY <3>1, <3>2
  <2> QED
    BY <2>1
<1>8. Unique'
  <2> SUFFICES ASSUME NEW u \in Thread, NEW w \in Thread, ptr'[u] # None, ptr'[u] = ptr'[w],
                      u # w
               PROVE  FALSE
    BY DEF Unique
  <2>1. CASE ptr'[t] \in {o, None}
    BY <1>1, <1>2, <1>3, <2>1 DEF Unique
  <2>2. CASE at[t] = "loop_del"
    BY <1>2, <1>6, <2>2
  <2> QED
    BY <2>1, <2>2
<1>9. Alone'
  <2> SUFFICES ASSUME NEW u \in Thread, NEW w \in Thread, at'[u] \in InUnregister, w # u
               PROVE  at'[w] = "idle"
    BY DEF Alone
  <2>1. u = t
    BY <1>2, <1>3
  <2> QED
    BY <1>1, <1>2, <2>1 DEF Alone
<1>10. ASSUME NEW q \in Obj PROVE Whole(q)'
  <2>1. CASE q = o
    BY <2>1
  <2>2. CASE q # o
    <3> SUFFICES ASSUME obj'[q] # None,
                        \A u \in Thread : ptr'[u] = q =>
                            at'[u] \in {"found", "kill", "loop", "loop_kill"}
                 PROVE  /\ obj'[q].input = "registered" /\ obj'[q].dev = TRUE
                        /\ obj'[q].type # None
      BY DEF Whole
    <3>1. \A u \in Thread : ptr[u] = q => at[u] \in {"found", "kill", "loop", "loop_kill"}
      BY <1>2, <2>2
    <3> QED
      BY <2>2, <3>1 DEF DInv, Whole
  <2> QED
    BY <2>1, <2>2
<1>11. ASSUME careless' = {}, NEW f \in File PROVE FileOK(f)'
  <2> DEFINE d == private_data[f]
  <2> SUFFICES ASSUME d # None PROVE FileOK(f)'
    BY DEF FileOK
  <2>1. d \in Obj /\ d # o
    BY <1>1, <1>3, <1>11 DEF Types
  <2>2. FileOK(f)
    BY <1>11 DEF DInv, FilesOK
  <2>3. ASSUME NEW u \in Thread, ptr'[u] = d PROVE LooksInVain(u)' \/ at'[u] = "loop"
    <3>1. CASE u = t
      BY <1>2, <2>1, <2>3, <3>1
    <3>2. CASE u # t
      BY <1>2, <2>1, <2>2, <2>3, <3>2 DEF FileOK, LooksInVain, Live
    <3> QED
      BY <3>1, <3>2
  <2> QED
    BY <2>1, <2>2, <2>3 DEF FileOK
<1>12. NoneLeft'
  <2> SUFFICES ASSUME NEW q \in Listed', obj'[q].type # None
               PROVE  \/ obj'[q].type \in vinput_devices
                      \/ \E u \in Thread : at'[u] \in InUnregister /\ arg'[u] = obj'[q].type
    BY DEF NoneLeft, Loaded
  <2>1. q \in Listed /\ q \in Obj
    BY <1>1, ListElements
  <2>2. CASE obj'[q].type \in vinput_devices
    BY <2>2
  <2>3. CASE obj'[q].type = obj[q].type
    <3>1. \/ obj[q].type \in vinput_devices
          \/ \E u \in Thread : at[u] \in InUnregister /\ arg[u] = obj[q].type
      BY <1>1, <2>1, <2>3 DEF NoneLeft, Loaded
    <3>2. \A u \in Thread : at[u] \in InUnregister =>
             at'[u] \in InUnregister /\ arg'[u] = arg[u]
      BY <1>2
    <3> QED
      BY <2>3, <3>1, <3>2
  <2> QED
    BY <2>1, <2>2, <2>3
<1> QED
  BY <1>7, <1>8, <1>9, <1>10, <1>11, <1>12 DEF DInv, FilesOK

(* Assignments to the fields of the thread's own vdevice.                   *)
LEMMA AssigningKeepsDInv ==
    ASSUME DInv, NEW t \in Thread, Assigning(t), careless \subseteq careless'
    PROVE  DInv'
<1>1. RInv /\ Types /\ ThreadOK(t) /\ LoopOK(t) /\ Whole(ptr[t])
  <2>1. RInv /\ Types
    BY DEF DInv, RInv
  <2>2. ptr[t] \in Obj
    BY <2>1, AssignStep
  <2> QED
    BY <2>1, <2>2 DEF DInv
<1>2. PICK o \in Obj : o = ptr[t]
  BY <1>1, AssignStep
<1>3. /\ RInv' /\ Listed' = Listed /\ vinput_devices' = vinput_devices
      /\ vinput_vdevices' = vinput_vdevices /\ private_data' = private_data
      /\ \A q \in Obj : q # o => obj'[q] = obj[q]
      /\ obj'[o] # None
      /\ at[t] # "dev" => obj'[o].type = obj[o].type
  BY <1>1, <1>2, AssignStep
<1>4. /\ arg[t] \in Argument /\ ptr[t] \in Pointer /\ next[t] \in Pointer
      /\ None \in Argument /\ None \in Pointer
  BY <1>1, ThreadParts DEF Argument, Pointer
<1>5. /\ {"dev", "register", "no_dev", "idle", "del", "loop_del"} \subseteq At
      /\ {"input", "dev", "kill", "loop_kill", "register"} \subseteq Own
  BY DEF At, Own
<1>6. at[t] = "dev" => arg[t] \in vinput_devices /\ arg[t] # None
  BY <1>1 DEF ThreadOK, Exporting, Types
<1>7. CASE /\ ThreadStep(t, at'[t], arg[t], ptr[t], next[t])
           /\ \/ at[t] = "input" /\ at'[t] = "dev"
              \/ at[t] = "dev" /\ at'[t] = "register" /\ obj'[o].dev = TRUE
                 /\ obj'[o].type = arg[t]
              \/ at[t] = "dev" /\ at'[t] = "no_dev" /\ obj'[o].type = arg[t]
              \/ /\ \/ at[t] = "kill" /\ at'[t] = "del"
                    \/ at[t] = "loop_kill" /\ at'[t] = "loop_del"
                 /\ obj'[o].input = "none" /\ obj'[o].dev = obj[o].dev
  <2>1. PICK to \in At : to = at'[t]
    BY <1>5, <1>7
  <2>2. ThreadStep(t, to, arg[t], ptr[t], next[t])
    BY <1>7, <2>1
  <2>3. at[t] \in Own
    BY <1>5, <1>7
  <2>4. /\ arg'[t] = arg[t] /\ ptr'[t] = o /\ next'[t] = next[t]
    BY <1>1, <1>2, <1>4, <2>2, ThreadStepParts
  <2>5. to \in InUnregister <=> at[t] \in InUnregister
    BY <1>7, <2>1 DEF InUnregister
  <2>6. ThreadOK(t)'
    <3>1. ASSUME at[t] \in {"kill", "loop_kill"} PROVE obj[o].dev = TRUE
      <4>1. \A u \in Thread : ptr[u] = o => at[u] \in {"found", "kill", "loop", "loop_kill"}
        BY <1>2, <2>3, <3>1, OwnVdevice
      <4> QED
        BY <1>1, <1>2, <4>1, AssignStep DEF Whole, Live
    <3> QED
      BY <1>1, <1>2, <1>3, <1>6, <1>7, <2>1, <2>4, <3>1 DEF ThreadOK, Exporting, InUnregister
  <2>7. LoopOK(t)'
    <3> SUFFICES ASSUME at'[t] \in InUnregister PROVE LoopOK(t)'
      BY DEF LoopOK
    <3>1. at[t] = "loop_kill" /\ at'[t] = "loop_del"
      BY <1>7 DEF InUnregister
    <3>2. /\ arg[t] \in Type /\ arg[t] \notin vinput_devices
          /\ obj[o].type = arg[t]
      BY <1>1, <1>2, <3>1 DEF LoopOK, InUnregister
    <3>3. PICK i \in DOMAIN vinput_vdevices : AtPlace(t, i)
      BY <1>1, <1>2, <1>3, <3>1 DEF LoopOK, InUnregister
    <3>4. \A j \in DOMAIN vinput_vdevices : obj'[vinput_vdevices[j]].type = obj[vinput_vdevices[j]].type
      BY <1>1, <1>3, <3>1, ListElements
    <3>5. \A j \in 1 .. i - 1 : j \in DOMAIN vinput_vdevices
      <4>1. vinput_vdevices \in Seq(Obj)
        BY <1>1 DEF Types
      <4>2. PICK n \in Nat : DOMAIN vinput_vdevices = 1 .. n
        BY <4>1, LenProperties
      <4> QED
        BY <4>2
    <3>6. AtPlace(t, i)'
      BY <1>2, <1>3, <2>4, <3>3, <3>4, <3>5 DEF AtPlace
    <3> QED
      BY <1>2, <1>3, <2>4, <3>1, <3>2, <3>3, <3>6 DEF LoopOK
  <2>8. Whole(o)'
    BY <1>7, <2>4 DEF Whole
  <2>9. \/ obj'[o].type \in vinput_devices
        \/ obj'[o].type = obj[o].type
    BY <1>3, <1>6, <1>7
  <2>10. OthersStay(t) /\ at'[t] = to
    BY <1>1, <1>4, <2>2, ThreadStepParts DEF OthersStay
  <2>11. /\ at[t] # "loop_del" /\ ptr'[t] \in {o, None} /\ Listed' \subseteq Listed
         /\ at'[t] \in InUnregister <=> at[t] \in InUnregister
    BY <1>3, <1>7, <2>1, <2>4, <2>5
  <2> QED
    BY <1>2, <1>3, <2>3, <2>4, <2>6, <2>7, <2>8, <2>9, <2>10, <2>11, OwnStep
<1>8. CASE /\ ThreadStep(t, "idle", None, None, None) /\ at[t] = "register"
           /\ obj'[o].input = "registered" /\ obj'[o].dev = obj[o].dev
  <2>1. at'[t] = "idle" /\ arg'[t] = None /\ ptr'[t] = None /\ next'[t] = None
    BY <1>1, <1>4, <1>5, <1>8, ThreadStepParts
  <2>2. ThreadOK(t)' /\ LoopOK(t)'
    BY <2>1 DEF ThreadOK, LoopOK, Exporting, InUnregister
  <2>3. Whole(o)'
    BY <1>1, <1>2, <1>3, <1>8 DEF Whole, ThreadOK
  <2>4. "idle" \notin InUnregister /\ "register" \notin InUnregister
    BY DEF InUnregister
  <2>5. at[t] \notin InUnregister /\ at'[t] \notin InUnregister
    BY <1>8, <2>1, <2>4
  <2>6. /\ at[t] \in Own /\ at[t] # "loop_del" /\ ptr'[t] \in {o, None}
        /\ Listed' \subseteq Listed /\ obj'[o].type = obj[o].type
    BY <1>3, <1>5, <1>8, <2>1
  <2>7. OthersStay(t)
    BY <1>1, <1>4, <1>5, <1>8, ThreadStepParts DEF OthersStay
  <2> QED
    BY <1>2, <1>3, <2>2, <2>3, <2>5, <2>6, <2>7, OwnStep
<1> QED
  BY <1>1, <1>2, <1>7, <1>8, AssignStep

(* A thread destroys its own vdevice.                                       *)
LEMMA DestroyingKeepsDInv ==
    ASSUME DInv, NEW t \in Thread, Destroying(t), careless \subseteq careless'
    PROVE  DInv'
<1>1. RInv /\ Types
  BY DEF DInv, RInv
<1>2. PICK o \in Obj : o = ptr[t]
  BY <1>1, DestroyStep
<1>3. /\ RInv' /\ Listed' = Listed \ {o} /\ vinput_devices' = vinput_devices
      /\ vinput_vdevices' = Unlinked(ptr[t]) /\ private_data' = private_data
      /\ \A q \in Obj : obj'[q] = IF q = o THEN None ELSE obj[q]
  BY <1>1, <1>2, DestroyStep
<1>4. PICK x \in Pointer : x = IF next[t] = None THEN None ELSE After(next[t])
  BY <1>1, ListElements DEF Pointer
<1>5. /\ arg[t] \in Argument /\ next[t] \in Pointer
      /\ None \in Argument /\ None \in Pointer /\ "idle" \in At /\ "loop" \in At
  BY <1>1, ThreadParts DEF Argument, Pointer, At
<1>6. Whole(o)'
  BY <1>3 DEF Whole
<1>7. CASE /\ ThreadStep(t, "idle", None, None, None)
           /\ at[t] \in {"no_input", "no_register", "no_dev", "del"}
  <2>1. /\ at'[t] = "idle" /\ arg'[t] = None /\ ptr'[t] = None /\ next'[t] = None
        /\ OthersStay(t)
    BY <1>1, <1>5, <1>7, ThreadStepParts DEF OthersStay
  <2>2. ThreadOK(t)' /\ LoopOK(t)'
    BY <2>1 DEF ThreadOK, LoopOK, Exporting, InUnregister
  <2>3. /\ at[t] \in Own /\ at[t] # "loop_del" /\ ptr'[t] \in {o, None}
        /\ at'[t] \notin InUnregister /\ at[t] \notin InUnregister
    BY <1>7, <2>1 DEF Own, InUnregister
  <2>4. Listed' \subseteq Listed /\ o \notin Listed'
        /\ \A q \in Obj : q # o => obj'[q] = obj[q]
    BY <1>3
  <2> QED
    BY <1>2, <1>3, <1>6, <2>1, <2>2, <2>3, <2>4, OwnStep
<1>8. CASE ThreadStep(t, "loop", arg[t], next[t], x) /\ at[t] = "loop_del"
  <2>1. /\ at'[t] = "loop" /\ arg'[t] = arg[t] /\ ptr'[t] = next[t] /\ next'[t] = x
        /\ OthersStay(t)
    BY <1>1, <1>4, <1>5, <1>8, ThreadStepParts DEF OthersStay
  <2>2. ThreadOK(t)' /\ LoopOK(t)'
    <3>1. /\ Listed' = Listed \ {ptr[t]}
          /\ \A q \in Obj : obj'[q] = IF q = ptr[t] THEN None ELSE obj[q]
          /\ next'[t] = IF next[t] = None THEN None ELSE After(next[t])
      BY <1>2, <1>3, <1>4, <2>1
    <3>2. LoopOK(t) /\ ptr[t] # None
      BY <1>2 DEF DInv
    <3>3. LoopOK(t)' /\ (ptr'[t] # None => obj'[ptr'[t]] # None)
      BY <1>1, <1>3, <1>8, <2>1, <3>1, <3>2, LoopDelKeepsItsPlace
    <3> QED
      BY <2>1, <3>3 DEF ThreadOK, InUnregister, Exporting
  <2>3. at[t] \in Own /\ at'[t] \in InUnregister /\ at[t] \in InUnregister
    BY <1>8, <2>1 DEF Own, InUnregister
  <2>4. Listed' \subseteq Listed /\ o \notin Listed'
        /\ \A q \in Obj : q # o => obj'[q] = obj[q]
    BY <1>3
  <2> QED
    BY <1>2, <1>3, <1>6, <1>8, <2>1, <2>2, <2>3, <2>4, OwnStep
<1> QED
  BY <1>1, <1>4, <1>7, <1>8, DestroyStep

(* Places of a thread that neither makes a vdevice nor takes it apart.      *)
Harmless == {"found", "kill", "loop", "loop_kill"}

(* A step that leaves the list, the vdevices and the files.                 *)
LEMMA QuietKeepsDInv ==
    ASSUME DInv, NEW t \in Thread, OthersStay(t), RInv', careless \subseteq careless',
           UNCHANGED <<vinput_vdevices, obj, private_data>>,
           vinput_devices' \subseteq vinput_devices,
           Unique', Alone', NoneLeft', ThreadOK(t)', LoopOK(t)',
           ptr[t] # None /\ at[t] \notin Harmless =>
               ptr'[t] = ptr[t] /\ at'[t] \notin Harmless,
           \A f \in File : careless' = {} /\ private_data[f] # None =>
               /\ obj[private_data[f]].type \in vinput_devices'
               /\ ptr'[t] = private_data[f] => LooksInVain(t)' \/ at'[t] = "loop",
           \A u \in Thread : u # t /\ at[u] \in Exporting => arg[u] \in vinput_devices'
    PROVE  DInv'
<1>1. \A u \in Thread : u # t => /\ at'[u] = at[u] /\ arg'[u] = arg[u]
                                 /\ ptr'[u] = ptr[u] /\ next'[u] = next[u]
  BY DEF OthersStay
<1>2. Listed' = Listed
  BY DEF Listed
<1>3. ASSUME NEW u \in Thread PROVE ThreadOK(u)' /\ LoopOK(u)'
  <2>1. CASE u # t
    <3>1. ThreadOK(u) /\ LoopOK(u)
      BY DEF DInv
    <3>2. ThreadOK(u)'
      BY <1>1, <2>1, <3>1 DEF ThreadOK
    <3>3. \A i : AtPlace(u, i) => AtPlace(u, i)'
      BY <1>1, <2>1 DEF AtPlace
    <3>4. LoopOK(u)'
      BY <1>1, <1>2, <2>1, <3>1, <3>3 DEF LoopOK
    <3> QED
      BY <3>2, <3>4
  <2> QED
    BY <2>1
<1>4. ASSUME NEW q \in Obj PROVE Whole(q)'
  <2> SUFFICES ASSUME obj[q] # None,
                      \A u \in Thread : ptr'[u] = q => at'[u] \in Harmless
               PROVE  \A u \in Thread : ptr[u] = q => at[u] \in Harmless
    BY DEF DInv, Whole, Harmless
  <2> TAKE u \in Thread
  <2>1. CASE u = t
    <3>1. q # None
      OBVIOUS
    <3> QED
      BY <2>1, <3>1
  <2>2. CASE u # t
    BY <1>1, <2>2
  <2> QED
    BY <2>1, <2>2
<1>5. ASSUME careless' = {}, NEW f \in File PROVE FileOK(f)'
  <2> SUFFICES ASSUME private_data[f] # None PROVE FileOK(f)'
    BY DEF FileOK
  <2>1. FileOK(f)
    BY <1>5 DEF DInv, FilesOK
  <2>2. \A u \in Thread : u # t /\ LooksInVain(u) => LooksInVain(u)'
    BY <1>1 DEF LooksInVain, Live
  <2>3. \A u \in Thread : ptr'[u] = private_data[f] => LooksInVain(u)' \/ at'[u] = "loop"
    BY <1>1, <1>5, <2>1, <2>2 DEF FileOK
  <2> QED
    BY <1>5, <2>1, <2>3 DEF FileOK
<1> QED
  BY <1>3, <1>4, <1>5 DEF DInv, FilesOK

(* The state of the others allows for a step of thread t that leaves its    *)
(* vdevice, or has none, and the registered types.                          *)
LEMMA StayingKeepsDInv ==
    ASSUME DInv, NEW t \in Thread, OthersStay(t), RInv', careless \subseteq careless',
           UNCHANGED <<vinput_vdevices, obj, private_data>>,
           vinput_devices' = vinput_devices,
           at[t] \notin InUnregister, at'[t] \notin InUnregister,
           \A u \in Thread : at[u] \notin InUnregister,
           ptr'[t] \in {ptr[t], None}, ThreadOK(t)',
           ptr[t] # None /\ at[t] \notin Harmless =>
               ptr'[t] = ptr[t] /\ at'[t] \notin Harmless,
           ptr'[t] # None => ~LooksInVain(t) /\ at[t] # "loop"
    PROVE  DInv'
<1>1. \A u \in Thread : u # t => /\ at'[u] = at[u] /\ arg'[u] = arg[u]
                                 /\ ptr'[u] = ptr[u] /\ next'[u] = next[u]
  BY DEF OthersStay
<1>2. Types /\ Unique /\ NoneLeft /\ \A u \in Thread : ThreadOK(u)
  BY DEF DInv, RInv
<1>3. Unique'
  BY <1>1, <1>2 DEF Unique
<1>4. Alone' /\ LoopOK(t)'
  BY <1>1 DEF Alone, LoopOK
<1>5. NoneLeft'
  BY <1>1, <1>2 DEF NoneLeft, Loaded, Listed
<1>6. ASSUME careless' = {}, NEW f \in File, private_data[f] # None
      PROVE  /\ obj[private_data[f]].type \in vinput_devices'
             /\ ptr'[t] # private_data[f]
  <2>1. FileOK(f)
    BY <1>6 DEF DInv, FilesOK
  <2> QED
    BY <1>6, <2>1 DEF FileOK
<1>7. \A u \in Thread : at[u] \in Exporting => arg[u] \in vinput_devices'
  BY <1>2 DEF ThreadOK
<1> QED
  BY <1>3, <1>4, <1>5, <1>6, <1>7, QuietKeepsDInv

(* export_store, up to the allocation or to a failure of one of its steps,  *)
(* and the check of the id in unexport_store.                               *)
LEMMA StayStepKeepsDInv ==
    ASSUME Careful', careless \subseteq careless', DInv, NEW t \in Thread,
           \/ \E type \in Type : export_store(t, type)
           \/ vinput_alloc_vdevice(t) /\ at'[t] = "idle"
           \/ AllocateInput(t) /\ at'[t] = "no_input"
           \/ RegisterVdevice(t) /\ at'[t] = "no_register"
           \/ FoundCheck(t)
    PROVE  DInv'
<1>1. RInv /\ Types /\ Alone /\ ThreadOK(t)
  BY DEF DInv, RInv
<1>2. RInv' /\ UNCHANGED <<vinput_ids, vinput_vdevices, obj>>
  BY <1>1, QuietStep DEF Quiet
<1>3. ASSUME at[t] \in {"alloc", "input", "register", "found"}
      PROVE  \A u \in Thread : at[u] \notin InUnregister
  BY <1>1, <1>3 DEF Alone, InUnregister
<1>4. CASE \E type \in Type : export_store(t, type)
  <2>1. PICK type \in Type : export_store(t, type)
    BY <1>4
  <2>2. /\ vinput_devices' = vinput_devices /\ private_data' = private_data
        /\ at[t] = "idle" /\ at'[t] = "alloc" /\ arg'[t] = type /\ type \in vinput_devices
        /\ ptr' = ptr /\ next' = next /\ OthersStay(t)
    BY <1>1, <2>1 DEF export_store, Goes, registry, OthersStay, Types
  <2>3. \A u \in Thread : at[u] \notin InUnregister
    BY <2>1 DEF export_store, Unless, NoneUnregisters, Careful
  <2>4. ptr[t] = None /\ next[t] = None
    BY <1>1, <2>2 DEF ThreadOK, InUnregister
  <2>5. ThreadOK(t)'
    BY <2>2, <2>4 DEF ThreadOK
  <2>6. at'[t] \notin InUnregister /\ at[t] \notin InUnregister /\ ptr'[t] = None
    BY <2>2, <2>4 DEF InUnregister
  <2> QED
    BY <1>2, <2>2, <2>3, <2>4, <2>5, <2>6, StayingKeepsDInv
<1>5. ASSUME NEW from \in {"alloc", "found"}, Returns(t, from),
             UNCHANGED <<vinput_devices, private_data>>
      PROVE  DInv'
  <2>1. /\ at[t] = from /\ at'[t] = "idle" /\ ptr'[t] = None /\ next'[t] = None
        /\ OthersStay(t)
    BY <1>1, <1>5 DEF Returns, Goes, OthersStay, Types
  <2>2. \A u \in Thread : at[u] \notin InUnregister
    BY <1>3, <2>1
  <2>3. ThreadOK(t)'
    BY <2>1 DEF ThreadOK, Exporting
  <2>4. /\ at'[t] \notin InUnregister
        /\ ptr[t] # None => at[t] \in Harmless
    BY <1>1, <2>1 DEF InUnregister, ThreadOK, Harmless
  <2> QED
    BY <1>2, <1>5, <2>1, <2>2, <2>3, <2>4, StayingKeepsDInv
<1>6. ASSUME NEW from \in {"input", "register", "found"}, NEW to, Goes(t, from, to), Stays,
             UNCHANGED <<vinput_devices, private_data>>,
             \/ from = "input" /\ to = "no_input"
             \/ from = "register" /\ to = "no_register"
             \/ from = "found" /\ to = "kill" /\ obj[ptr[t]].id = arg[t]
      PROVE  DInv'
  <2>1. /\ at[t] = from /\ at'[t] = to /\ ptr'[t] = ptr[t] /\ next'[t] = next[t]
        /\ arg'[t] = arg[t] /\ OthersStay(t)
    BY <1>1, <1>6 DEF Goes, Stays, OthersStay, Types
  <2>2. \A u \in Thread : at[u] \notin InUnregister
    BY <1>3, <2>1
  <2>3. ThreadOK(t)'
    BY <1>1, <1>2, <1>6, <2>1 DEF ThreadOK, Exporting, InUnregister
  <2>4. /\ at'[t] \notin InUnregister /\ at[t] \notin InUnregister /\ at[t] # "loop"
        /\ at[t] \notin Harmless => at'[t] \notin Harmless
    BY <1>6, <2>1 DEF InUnregister, Harmless
  <2>5. ~LooksInVain(t)
    BY <1>6, <2>1 DEF LooksInVain
  <2>6. /\ ptr'[t] \in {ptr[t], None} /\ vinput_devices' = vinput_devices
        /\ UNCHANGED <<vinput_vdevices, obj, private_data>>
    BY <1>2, <1>6, <2>1
  <2> QED
    BY <1>2, <2>1, <2>2, <2>3, <2>4, <2>5, <2>6, StayingKeepsDInv
<1>7. CASE vinput_alloc_vdevice(t) /\ at'[t] = "idle"
  <2>1. Returns(t, "alloc") /\ UNCHANGED <<vinput_devices, private_data>>
    BY <1>1, <1>7 DEF vinput_alloc_vdevice, Goes, Types, registry
  <2> QED
    BY <1>5, <2>1
<1>8. CASE AllocateInput(t) /\ at'[t] = "no_input"
  <2>1. Goes(t, "input", "no_input") /\ Stays /\ UNCHANGED <<vinput_devices, private_data>>
    BY <1>1, <1>8 DEF AllocateInput, Goes, Types, registry
  <2> QED
    BY <1>6, <2>1
<1>9. CASE RegisterVdevice(t) /\ at'[t] = "no_register"
  <2>1. /\ Goes(t, "register", "no_register") /\ Stays
        /\ UNCHANGED <<vinput_devices, private_data>>
    BY <1>1, <1>9 DEF RegisterVdevice, Returns, Goes, Types, registry
  <2> QED
    BY <1>6, <2>1
<1>10. CASE FoundCheck(t)
  <2>1. UNCHANGED <<vinput_devices, private_data>>
    BY <1>10 DEF FoundCheck, registry
  <2>2. \/ Returns(t, "found")
        \/ Goes(t, "found", "kill") /\ Stays /\ obj[ptr[t]].id = arg[t]
    BY <1>10 DEF FoundCheck
  <2> QED
    BY <1>5, <1>6, <2>1, <2>2
<1> QED
  BY <1>4, <1>7, <1>8, <1>9, <1>10

(* unexport_store looks up a vdevice that no other thread has and that no   *)
(* file has open, or looks in vain while no other thread is in the driver.  *)
LEMMA UnexportKeepsDInv ==
    ASSUME Careful', DInv, NEW t \in Thread, NEW id \in Minors, unexport_store(t, id)
    PROVE  DInv'
<1>1. RInv /\ Types /\ Unique /\ Linked /\ \A u \in Thread : ThreadOK(u)
  BY DEF DInv, RInv
<1>2. RInv' /\ UNCHANGED <<vinput_ids, vinput_vdevices, obj>>
  BY <1>1, QuietStep DEF Quiet
<1>3. /\ vinput_devices' = vinput_devices /\ private_data' = private_data
      /\ at[t] = "idle" /\ at'[t] = "found" /\ arg'[t] = id /\ next' = next
  BY <1>1 DEF unexport_store, Goes, registry, Types
<1>4. /\ \A u \in Thread : ~LooksInVain(u) /\ Handles(u) # id /\ at[u] \notin InUnregister
      /\ (\E o \in Listed : obj[o].id = id) \/ \A u \in Thread : at[u] = "idle"
      /\ careless' = {} => \A o \in Listed : obj[o].id = id => ~Opened(o)
      /\ careless \subseteq careless'
  <2> DEFINE known == /\ \A u \in Thread : ~LooksInVain(u)
                      /\ \/ \E o \in Listed : obj[o].id = id
                         \/ \A u \in Thread : at[u] = "idle"
             one == \A u \in Thread : Handles(u) # id
             closed == \A o \in Listed : obj[o].id = id => ~Opened(o)
  <2>1. careless' = careless \cup Unless(known, "known_id") \cup Unless(one, "one_remover")
                    \cup Unless(NoneUnregisters, "quiet_type") \cup Unless(closed, "closed")
    BY DEF unexport_store, UnexportCares
  <2>2. known /\ one /\ NoneUnregisters /\ (careless' = {} => closed)
    <3> HIDE DEF known, one, closed
    <3> QED
      BY <2>1 DEF Unless, Careful
  <2> QED
    BY <2>1, <2>2 DEF NoneUnregisters
<1>5. PICK o \in Listed :
         /\ ptr' = [ptr EXCEPT ![t] = o]
         /\ obj[o].id = id \/ \A q \in Listed : obj[q].id # id
  BY <1>1, LookUpFinds DEF unexport_store
<1>6. o \in Obj /\ obj[o] # None /\ o # None
  BY <1>1, ListElements DEF Linked
<1>7. ptr'[t] = o /\ OthersStay(t)
  BY <1>1, <1>3, <1>5, <1>6 DEF unexport_store, Goes, OthersStay, Types
<1>8. \A u \in Thread : u # t => /\ at'[u] = at[u] /\ arg'[u] = arg[u]
                                 /\ ptr'[u] = ptr[u] /\ next'[u] = next[u]
  BY <1>7 DEF OthersStay
<1>9. \A u \in Thread : ptr[u] # o
  <2> SUFFICES ASSUME NEW u \in Thread, ptr[u] = o PROVE FALSE
    OBVIOUS
  <2>1. CASE obj[o].id = id
    <3>1. Live(ptr[u])
      BY <1>6 DEF Live
    <3>2. CASE at[u] = "found"
      BY <1>4, <2>1, <3>1, <3>2 DEF LooksInVain, Handles
    <3>3. CASE at[u] # "found"
      BY <1>4, <2>1, <3>1, <3>3 DEF Handles
    <3> QED
      BY <3>2, <3>3
  <2>2. CASE \A q \in Listed : obj[q].id # id
    <3>1. at[u] = "idle"
      BY <1>4, <2>2
    <3> QED
      BY <1>1, <1>6, <3>1 DEF ThreadOK
  <2> QED
    BY <1>5, <2>1, <2>2
<1>10. Unique'
  BY <1>1, <1>7, <1>8, <1>9 DEF Unique
<1>11. Alone' /\ LoopOK(t)'
  BY <1>3, <1>4, <1>8 DEF Alone, LoopOK, InUnregister
<1>12. NoneLeft'
  BY <1>2, <1>3, <1>4 DEF DInv, NoneLeft, Loaded, Listed
<1>13. ptr[t] = None /\ next[t] = None
  BY <1>1, <1>3 DEF ThreadOK, InUnregister
<1>14. ThreadOK(t)'
  BY <1>2, <1>3, <1>6, <1>7, <1>13 DEF ThreadOK, Exporting
<1>15. ASSUME careless' = {}, NEW f \in File, private_data[f] # None
       PROVE  /\ obj[private_data[f]].type \in vinput_devices'
              /\ ptr'[t] = private_data[f] => LooksInVain(t)' \/ at'[t] = "loop"
  <2>1. FileOK(f)
    BY <1>4, <1>15 DEF DInv, FilesOK
  <2>2. ASSUME private_data[f] = o PROVE LooksInVain(t)'
    <3>1. obj[o].id # id
      BY <1>4, <1>15, <2>2 DEF Opened
    <3> QED
      BY <1>2, <1>3, <1>6, <1>7, <3>1 DEF LooksInVain, Live
  <2> QED
    BY <1>3, <1>7, <1>15, <2>1, <2>2 DEF FileOK
<1>16. \A u \in Thread : at[u] \in Exporting => arg[u] \in vinput_devices'
  BY <1>1, <1>3 DEF ThreadOK
<1> QED
  BY <1>2, <1>3, <1>4, <1>7, <1>10, <1>11, <1>12, <1>13, <1>14, <1>15, <1>16, QuietKeepsDInv

(* vinput_unregister begins while no other thread is in the driver and no   *)
(* file has a vdevice of the type open; its loop starts at the head.        *)
LEMMA UnregisterKeepsDInv ==
    ASSUME Careful', DInv, NEW t \in Thread, NEW type \in Type,
           vinput_unregister(t, type)
    PROVE  DInv'
<1>1. RInv /\ Types /\ Linked /\ NoneLeft /\ \A u \in Thread : ThreadOK(u)
  BY DEF DInv, RInv
<1>2. /\ RInv' /\ UNCHANGED <<vinput_ids, vinput_vdevices, obj, private_data>>
      /\ vinput_devices' = vinput_devices \ {type} /\ OthersStay(t)
      /\ at'[t] = "loop" /\ arg'[t] = type
      /\ LoopOK(t)' /\ (ptr'[t] # None => obj'[ptr'[t]] # None)
  BY <1>1, UnregisterStartsAtHead
<1>3. /\ \A u \in Thread : at[u] = "idle"
      /\ careless' = {} => \A o \in Listed : obj[o].type = type => ~Opened(o)
      /\ careless \subseteq careless'
  <2> DEFINE quiet == \A u \in Thread : at[u] = "idle"
             closed == \A o \in Listed : obj[o].type = type => ~Opened(o)
  <2>1. careless' = careless \cup Unless(quiet, "quiet_type") \cup Unless(closed, "closed")
    BY DEF vinput_unregister, UnregisterCares
  <2>2. quiet /\ (careless' = {} => closed)
    <3> HIDE DEF quiet, closed
    <3> QED
      BY <2>1 DEF Unless, Careful
  <2> QED
    BY <2>1, <2>2
<1>4. \A u \in Thread : ptr[u] = None
  BY <1>1, <1>3 DEF ThreadOK
<1>5. \A u \in Thread : u # t => /\ at'[u] = at[u] /\ arg'[u] = arg[u]
                                 /\ ptr'[u] = ptr[u] /\ next'[u] = next[u]
  BY <1>2 DEF OthersStay
<1>6. ThreadOK(t)'
  BY <1>2 DEF ThreadOK, InUnregister, Exporting
<1>7. Unique' /\ Alone'
  BY <1>3, <1>4, <1>5 DEF Unique, Alone, InUnregister
<1>8. NoneLeft'
  <2> SUFFICES ASSUME NEW o \in Listed, obj[o].type # None
               PROVE  \/ obj[o].type \in vinput_devices'
                      \/ \E u \in Thread : at'[u] \in InUnregister /\ arg'[u] = obj[o].type
    BY <1>2 DEF NoneLeft, Loaded, Listed
  <2>1. obj[o].type \in vinput_devices
    BY <1>1, <1>3 DEF NoneLeft, Loaded, InUnregister
  <2>2. at'[t] \in InUnregister /\ arg'[t] = type
    BY <1>2 DEF InUnregister
  <2> QED
    BY <1>2, <2>1, <2>2
<1>9. ASSUME careless' = {}, NEW f \in File, private_data[f] # None
       PROVE  obj[private_data[f]].type \in vinput_devices'
  <2>1. FileOK(f) /\ private_data[f] \in Obj
    BY <1>1, <1>3, <1>9 DEF DInv, FilesOK, Types
  <2>2. private_data[f] \in Listed
    BY <1>1, <1>9, <2>1 DEF FileOK, Linked
  <2>3. obj[private_data[f]].type # type
    BY <1>3, <1>9, <2>2 DEF Opened
  <2> QED
    BY <1>2, <1>9, <2>1, <2>3 DEF FileOK
<1>10. \A u \in Thread : at[u] \notin Exporting
  BY <1>3 DEF Exporting
<1>11. vinput_devices' \subseteq vinput_devices
  BY <1>2
<1> QED
  BY <1>2, <1>3, <1>4, <1>6, <1>7, <1>8, <1>9, <1>10, <1>11, QuietKeepsDInv

(* The loop of vinput_unregister ends, has found a vdevice of the type, or  *)
(* goes on to the next one.                                                 *)
LEMMA LoopStepKeepsDInv ==
    ASSUME careless \subseteq careless', DInv, NEW t \in Thread, LoopStep(t)
    PROVE  DInv'
<1>1. /\ RInv /\ Types /\ Alone /\ Unique /\ NoneLeft /\ LoopOK(t)
      /\ \A u \in Thread : ThreadOK(u)
  BY DEF DInv, RInv
<1>2. /\ RInv' /\ UNCHANGED <<registry, obj, private_data>> /\ OthersStay(t)
      /\ at[t] = "loop" /\ at'[t] \in {"idle", "loop", "loop_kill"} /\ LoopOK(t)'
      /\ ptr'[t] # None => obj'[ptr'[t]] # None
      /\ at'[t] # "idle" => arg'[t] = arg[t]
      /\ at'[t] = "loop_kill" => ptr'[t] # None
      /\ at'[t] = "idle" => /\ ptr'[t] = None /\ next'[t] = None
                            /\ \A q \in Listed : obj[q].type # arg[t]
  BY <1>1, LoopStepKeepsItsPlace
<1>3. UNCHANGED <<vinput_devices, vinput_vdevices, obj, private_data>> /\ Listed' = Listed
  BY <1>2 DEF registry, Listed
<1>4. \A u \in Thread : u # t => /\ at[u] = "idle" /\ ptr[u] = None
                                 /\ at'[u] = "idle" /\ ptr'[u] = None
  BY <1>1, <1>2 DEF Alone, InUnregister, ThreadOK, OthersStay
<1>5. /\ at[t] \in Harmless /\ at[t] \in InUnregister
      /\ "idle" \notin Exporting \cup InUnregister
      /\ at'[t] # "idle" => at'[t] \in InUnregister
  BY <1>2 DEF Harmless, InUnregister, Exporting
<1>6. ThreadOK(t)'
  BY <1>2 DEF ThreadOK, InUnregister, Exporting
<1>7. Unique' /\ Alone'
  BY <1>4, <1>5 DEF Unique, Alone
<1>8. NoneLeft'
  <2> SUFFICES ASSUME NEW q \in Listed, obj[q].type # None
               PROVE  \/ obj[q].type \in vinput_devices
                      \/ at'[t] \in InUnregister /\ arg'[t] = obj[q].type
    BY <1>3 DEF NoneLeft, Loaded
  <2>1. obj[q].type \in vinput_devices \/ arg[t] = obj[q].type
    BY <1>1, <1>4, <1>5 DEF NoneLeft, Loaded
  <2> QED
    BY <1>2, <1>5, <2>1
<1>9. \A f \in File : careless' = {} /\ private_data[f] # None =>
         obj[private_data[f]].type \in vinput_devices'
  BY <1>3 DEF DInv, FilesOK, FileOK
<1>10. ASSUME careless' = {}, NEW f \in File, private_data[f] # None, ptr'[t] = private_data[f]
       PROVE  at'[t] = "loop"
  <2>1. at'[t] = "loop_kill" => obj'[ptr'[t]].type = arg'[t] /\ arg'[t] \notin vinput_devices'
    BY <1>2, <1>5 DEF LoopOK
  <2> QED
    BY <1>2, <1>3, <1>9, <1>10, <2>1
<1>11. /\ \A u \in Thread : u # t => at[u] \notin Exporting
       /\ vinput_devices' \subseteq vinput_devices
  BY <1>3, <1>4, <1>5
<1> QED
  BY <1>2, <1>3, <1>5, <1>6, <1>7, <1>8, <1>9, <1>10, <1>11, QuietKeepsDInv

(* vinput_alloc_vdevice gives a thread memory that nobody else has.         *)
LEMMA AllocKeepsDInv ==
    ASSUME DInv, NEW t \in Thread, vinput_alloc_vdevice(t), at'[t] # "idle",
           careless \subseteq careless'
    PROVE  DInv'
<1>1. /\ RInv /\ Types /\ Alone /\ Unique /\ NoneLeft
      /\ \A u \in Thread : ThreadOK(u)
  BY DEF DInv, RInv
<1>2. PICK o \in Obj :
         /\ RInv' /\ obj[o] = None /\ obj'[o] # None /\ obj'[o].type = None
         /\ \A q \in Obj : q # o => obj'[q] = obj[q]
         /\ Listed' = Listed \cup {o}
         /\ vinput_devices' = vinput_devices /\ private_data' = private_data
         /\ at[t] = "alloc" /\ ThreadStep(t, "input", arg[t], o, next[t])
  BY <1>1, AllocStep
<1>3. /\ at'[t] = "input" /\ arg'[t] = arg[t] /\ ptr'[t] = o /\ next'[t] = next[t]
      /\ \A u \in Thread : u # t => /\ at'[u] = at[u] /\ arg'[u] = arg[u]
                                    /\ ptr'[u] = ptr[u] /\ next'[u] = next[u]
  <2>1. "input" \in At /\ arg[t] \in Argument /\ o \in Pointer /\ next[t] \in Pointer
    BY <1>1, ThreadParts DEF At, Pointer
  <2> QED
    BY <1>1, <1>2, <2>1, ThreadStepParts
<1>4. o # None /\ ptr[t] = None /\ next[t] = None /\ arg[t] \in vinput_devices
  BY <1>1, <1>2 DEF ThreadOK, InUnregister, Exporting
<1>5. \A u \in Thread : at[u] \notin InUnregister /\ at'[u] \notin InUnregister
  BY <1>1, <1>2, <1>3 DEF Alone, InUnregister
<1>6. \A u \in Thread : ptr[u] # o /\ ptr[u] \in Obj \cup {None}
  BY <1>1, <1>2, <1>4, ThreadParts DEF ThreadOK, Pointer
<1>7. ASSUME NEW u \in Thread PROVE ThreadOK(u)' /\ LoopOK(u)'
  <2>1. CASE u = t
    BY <1>2, <1>3, <1>4, <1>5, <2>1 DEF ThreadOK, LoopOK
  <2>2. CASE u # t
    BY <1>1, <1>2, <1>3, <1>5, <1>6, <2>2 DEF ThreadOK, LoopOK
  <2> QED
    BY <2>1, <2>2
<1>8. Unique' /\ Alone'
  BY <1>1, <1>3, <1>5, <1>6 DEF Unique, Alone
<1>9. NoneLeft'
  <2> SUFFICES ASSUME NEW q \in Listed', obj'[q].type # None
               PROVE  obj'[q].type \in vinput_devices
    BY <1>2 DEF NoneLeft, Loaded
  <2>1. q \in Listed /\ q \in Obj /\ obj'[q] = obj[q]
    BY <1>1, <1>2, ListElements
  <2> QED
    BY <1>1, <1>5, <2>1 DEF NoneLeft, Loaded
<1>10. ASSUME NEW q \in Obj PROVE Whole(q)'
  <2>1. CASE q = o
    BY <1>3, <2>1 DEF Whole
  <2>2. CASE q # o
    BY <1>2, <1>3, <1>4, <2>2 DEF DInv, Whole
  <2> QED
    BY <2>1, <2>2
<1>11. ASSUME careless' = {}, NEW f \in File PROVE FileOK(f)'
  <2> SUFFICES ASSUME private_data[f] # None PROVE FileOK(f)'
    BY <1>2 DEF FileOK
  <2>1. FileOK(f) /\ private_data[f] \in Obj /\ private_data[f] # o
    BY <1>1, <1>2, <1>11 DEF DInv, FilesOK, FileOK, Types
  <2>2. ASSUME NEW u \in Thread, ptr'[u] = private_data[f]
        PROVE  LooksInVain(u)' \/ at'[u] = "loop"
    <3>1. u # t
      BY <1>3, <2>1, <2>2
    <3> QED
      BY <1>2, <1>3, <2>1, <2>2, <3>1 DEF FileOK, LooksInVain, Live
  <2> QED
    BY <1>2, <2>1, <2>2 DEF FileOK
<1> QED
  BY <1>2, <1>7, <1>8, <1>9, <1>10, <1>11 DEF DInv, FilesOK

(* A type is registered, or a file opened or closed.                        *)
LEMMA OutsideKeepsDInv ==
    ASSUME DInv, Outside, careless \subseteq careless'
    PROVE  DInv'
<1>1. /\ RInv /\ Types /\ Linked /\ Alone /\ Unique /\ NoneLeft
      /\ \A u \in Thread : ThreadOK(u) /\ LoopOK(u)
      /\ \A q \in Obj : Whole(q)
  BY DEF DInv, RInv
<1>2. RInv' /\ UNCHANGED <<vinput_ids, vinput_vdevices, obj, at, arg, ptr, next>>
  BY <1>1, OutsideStep
<1>3. Unique' /\ Alone' /\ Listed' = Listed
  BY <1>1, <1>2 DEF Unique, Alone, Listed
<1>4. \A q \in Obj : Whole(q)'
  BY <1>1, <1>2 DEF Whole
<1>5. \A u \in Thread : LooksInVain(u)' <=> LooksInVain(u)
  BY <1>2 DEF LooksInVain, Live
<1>6. \A u \in Thread : \A i : AtPlace(u, i) => AtPlace(u, i)'
  BY <1>2 DEF AtPlace
<1>7. ASSUME NEW type \in Type, vinput_register(type) PROVE DInv'
  <2>1. /\ vinput_devices' = vinput_devices \cup {type} /\ private_data' = private_data
        /\ \A u \in Thread : at[u] \in InUnregister => arg[u] # type
    BY <1>7 DEF vinput_register, Loaded
  <2>2. \A u \in Thread : ThreadOK(u)'
    BY <1>1, <1>2, <2>1 DEF ThreadOK
  <2>3. \A u \in Thread : LoopOK(u)'
    BY <1>1, <1>2, <1>3, <1>6, <2>1 DEF LoopOK
  <2>4. NoneLeft'
    BY <1>1, <1>2, <1>3, <2>1 DEF NoneLeft, Loaded
  <2>5. FilesOK'
    BY <1>2, <1>5, <2>1 DEF DInv, FilesOK, FileOK
  <2> QED
    BY <1>2, <1>3, <1>4, <2>2, <2>3, <2>4, <2>5 DEF DInv
<1>8. ASSUME vinput_devices' = vinput_devices, NEW f \in File,
             \A g \in File : g # f => private_data'[g] = private_data[g],
             careless' = {} => FileOK(f)'
      PROVE  DInv'
  <2>1. \A u \in Thread : ThreadOK(u)'
    BY <1>1, <1>2, <1>8 DEF ThreadOK
  <2>2. \A u \in Thread : LoopOK(u)'
    BY <1>1, <1>2, <1>3, <1>6, <1>8 DEF LoopOK
  <2>3. NoneLeft'
    BY <1>1, <1>2, <1>3, <1>8 DEF NoneLeft, Loaded
  <2>4. ASSUME careless' = {}, NEW g \in File PROVE FileOK(g)'
    <3>1. CASE g # f
      <4>1. FileOK(g)
        BY <2>4 DEF DInv, FilesOK
      <4> QED
        BY <1>2, <1>5, <1>8, <3>1, <4>1 DEF FileOK
    <3> QED
      BY <1>8, <2>4, <3>1
  <2> QED
    BY <1>2, <1>3, <1>4, <2>1, <2>2, <2>3, <2>4 DEF DInv, FilesOK
<1>9. ASSUME NEW f \in File, NEW id \in Minors, vinput_open(f, id) PROVE DInv'
  <2>1. PICK o \in LookUp(id) : /\ private_data' = [private_data EXCEPT ![f] = o]
                                /\ careless' = careless \cup OpenCares(o)
    BY <1>9 DEF vinput_open
  <2>2. /\ vinput_devices' = vinput_devices /\ private_data'[f] = o
        /\ \A g \in File : g # f => private_data'[g] = private_data[g]
    BY <1>1, <1>9, <2>1 DEF vinput_open, registry, Types
  <2>3. o \in Listed /\ o \in Obj /\ obj[o] # None
    BY <1>1, LookUpFinds, ListElements DEF Linked
  <2>4. ASSUME careless' = {} PROVE FileOK(f)'
    <3>1. \A u \in Thread : ptr[u] # o /\ at[u] \notin InUnregister
      BY <2>1, <2>4 DEF OpenCares, Unless, NoneUnregisters
    <3>2. obj[o].input = "registered" /\ obj[o].type # None
      BY <1>1, <2>3, <3>1 DEF Whole
    <3>3. obj[o].type \in vinput_devices
      BY <1>1, <2>3, <3>1, <3>2 DEF NoneLeft, Loaded
    <3> QED
      BY <1>2, <2>2, <2>3, <3>1, <3>2, <3>3 DEF FileOK
  <2> QED
    BY <1>8, <2>2, <2>4
<1>10. ASSUME NEW f \in File, vinput_release(f) PROVE DInv'
  <2>1. /\ vinput_devices' = vinput_devices /\ private_data'[f] = None
        /\ \A g \in File : g # f => private_data'[g] = private_data[g]
    BY <1>1, <1>10 DEF vinput_release, registry, Types
  <2>2. FileOK(f)'
    BY <2>1 DEF FileOK
  <2> QED
    BY <1>8, <2>1, <2>2
<1>11. ASSUME NEW f \in File, OpenCheck(f) PROVE DInv'
  <2>1. /\ vinput_devices' = vinput_devices /\ private_data'[f] \in {private_data[f], None}
        /\ \A g \in File : g # f => private_data'[g] = private_data[g]
    BY <1>1, <1>11 DEF OpenCheck, registry, Types
  <2>2. ASSUME careless' = {} PROVE FileOK(f)'
    <3>1. FileOK(f)
      BY <2>2 DEF DInv, FilesOK
    <3> QED
      BY <1>2, <1>5, <2>1, <3>1 DEF FileOK
  <2> QED
    BY <1>8, <2>1, <2>2
<1> QED
  BY <1>7, <1>9, <1>10, <1>11 DEF Outside, FileNext

(* Nothing is held at first.                                                *)
LEMMA InitDInv == Init => DInv
<1> SUFFICES ASSUME Init PROVE DInv
  OBVIOUS
<1>1. RInv
  BY InitRInv
<1>2. Listed = {}
  BY DEF Init, Listed
<1>3. /\ \A t \in Thread : at[t] = "idle" /\ ptr[t] = None /\ next[t] = None
      /\ \A o \in Obj : obj[o] = None
      /\ \A f \in File : private_data[f] = None
  BY DEF Init
<1>4. Unique /\ Alone /\ NoneLeft
  BY <1>2, <1>3 DEF Unique, Alone, NoneLeft, Loaded, InUnregister
<1>5. \A t \in Thread : ThreadOK(t) /\ LoopOK(t)
  BY <1>3 DEF ThreadOK, LoopOK, InUnregister, Exporting
<1>6. (\A o \in Obj : Whole(o)) /\ FilesOK
  BY <1>3 DEF Whole, FilesOK, FileOK
<1> QED
  BY <1>1, <1>4, <1>5, <1>6 DEF DInv

(* As long as the removers take care ...                                    *)
CarefulInv == Careful => DInv

(* ... every step keeps the vdevices of threads and files live.             *)
LEMMA CarefulInvIsInductive ==
    ASSUME CarefulInv, Records, [Next]_vars
    PROVE  CarefulInv'
<1> SUFFICES ASSUME Careful' PROVE DInv'
  BY DEF CarefulInv
<1>1. careless \subseteq careless'
  BY Recorded
<1>2. DInv
  BY <1>1 DEF CarefulInv, Careful
<1>3. Types /\ RInv
  BY <1>2 DEF DInv, RInv
<1>4. CASE Outside
  BY <1>1, <1>2, <1>4, OutsideKeepsDInv
<1>5. ASSUME NEW t \in Thread, Quiet(t) PROVE DInv'
  BY <1>1, <1>2, <1>5, UnregisterKeepsDInv, LoopStepKeepsDInv, UnexportKeepsDInv,
     StayStepKeepsDInv DEF Quiet
<1>6. ASSUME NEW t \in Thread, Assigning(t) PROVE DInv'
  BY <1>1, <1>2, <1>6, AssigningKeepsDInv
<1>7. ASSUME NEW t \in Thread, Destroying(t) PROVE DInv'
  BY <1>1, <1>2, <1>7, DestroyingKeepsDInv
<1>8. ASSUME NEW t \in Thread, vinput_alloc_vdevice(t), at'[t] # "idle" PROVE DInv'
  BY <1>1, <1>2, <1>8, AllocKeepsDInv
<1>9. CASE Frozen
  <2>1. RInv'
    BY <1>3, RInvIsInductive
  <2>2. /\ Unique' /\ Alone' /\ NoneLeft'
        /\ \A t \in Thread : ThreadOK(t)' /\ LoopOK(t)'
        /\ \A o \in Obj : Whole(o)'
        /\ FilesOK'
    BY <1>2, <1>9 DEF Frozen, registry, DInv, Unique, Alone, NoneLeft, Loaded, ThreadOK,
                      LoopOK, AtPlace, Whole, FilesOK, FileOK, LooksInVain, Live, Listed
  <2> QED
    BY <2>1, <2>2 DEF DInv
<1> QED
  BY <1>3, <1>4, <1>5, <1>6, <1>7, <1>8, <1>9, KindsOfSteps

(* What threads hold is live, and is what they need.                        *)
LEMMA ThreadsHoldNothingFreed ==
    ASSUME DInv, NEW t \in Thread
    PROVE  /\ ptr[t] # None => Live(ptr[t])
           /\ next[t] # None => Live(next[t])
           /\ at[t] \in {"kill", "loop_kill"} =>
                 obj[ptr[t]].input = "registered" /\ obj[ptr[t]].dev
           /\ at[t] \in {"del", "loop_del", "no_register", "no_dev"} => Live(ptr[t])
<1>1. Types /\ Linked /\ Unique /\ Alone
  BY DEF DInv, RInv
<1>2. /\ ptr[t] # None => Live(ptr[t])
      /\ next[t] # None => Live(next[t])
      /\ at[t] \in {"kill", "loop_kill"} =>
            obj[ptr[t]].input = "registered" /\ obj[ptr[t]].dev
      /\ at[t] \in {"del", "loop_del", "no_register", "no_dev"} => Live(ptr[t])
  <2>1. ThreadOK(t) /\ LoopOK(t) /\ ptr[t] \in Obj \cup {None}
    BY <1>1, ThreadParts DEF DInv, Pointer
  <2>2. ptr[t] # None => Live(ptr[t])
    BY <2>1 DEF ThreadOK, Live
  <2>3. at[t] \in {"del", "loop_del", "no_register", "no_dev"} => Live(ptr[t])
    BY <2>1, <2>2 DEF ThreadOK
  <2>4. ASSUME at[t] \in {"kill", "loop_kill"}
        PROVE  obj[ptr[t]].input = "registered" /\ obj[ptr[t]].dev
    <3>1. ptr[t] \in Obj /\ obj[ptr[t]] # None
      BY <2>1, <2>4 DEF ThreadOK
    <3>2. \A u \in Thread : ptr[u] = ptr[t] => at[u] \in Harmless
      BY <1>1, <2>1, <2>4, <3>1 DEF Unique, Harmless
    <3>3. Whole(ptr[t])
      BY <3>1 DEF DInv
    <3> QED
      BY <3>1, <3>2, <3>3 DEF Whole, Harmless
  <2>5. ASSUME next[t] # None PROVE Live(next[t])
    <3>1. at[t] \in InUnregister /\ ptr[t] # None
      BY <2>1, <2>5 DEF ThreadOK, LoopOK
    <3>2. PICK n \in Nat : n = Len(vinput_vdevices) /\ DOMAIN vinput_vdevices = 1 .. n
      <4>1. vinput_vdevices \in Seq(Obj)
        BY <1>1 DEF Types
      <4> QED
        BY <4>1, LenProperties
    <3>3. PICK i \in 1 .. n :
             next[t] = IF i < n THEN vinput_vdevices[i + 1] ELSE None
      BY <2>1, <3>1, <3>2 DEF LoopOK, AtPlace
    <3>4. i + 1 \in 1 .. n /\ next[t] = vinput_vdevices[i + 1]
      BY <2>5, <3>3
    <3>5. next[t] \in Listed /\ next[t] \in Obj
      BY <1>1, <3>2, <3>4, ListElements
    <3> QED
      BY <1>1, <2>5, <3>5 DEF Linked, Live
  <2> QED
    BY <2>2, <2>3, <2>4, <2>5
<1> QED
  BY <1>2

(* Then no thread is about to use what is gone, ...                         *)
LEMMA NoThreadMisuses ==
    ASSUME DInv, NEW t \in Thread
    PROVE  ~Misuses(t)
<1> DEFINE o == ptr[t]
<1>1. ThreadOK(t) /\ NoneLeft /\ Types /\ Linked /\ \A q \in Obj : Whole(q)
  BY DEF DInv, RInv
<1>2. /\ o # None => Live(o)
      /\ next[t] # None => Live(next[t])
      /\ at[t] \in {"kill", "loop_kill"} => obj[o].input = "registered" /\ obj[o].dev
  BY ThreadsHoldNothingFreed
<1>3. at[t] \notin {"idle", "alloc", "loop"} => Live(o)
  BY <1>1, <1>2 DEF ThreadOK
<1>4. ASSUME at[t] \in {"kill", "loop_kill"}
      PROVE  obj[o].input = "registered" /\ Loaded(obj[o].type)
  <2>1. o \in Obj /\ obj[o] # None /\ at[t] \in Own
    BY <1>1, <1>3, <1>4, ThreadParts DEF Live, Pointer, Own
  <2>2. o \in Listed
    BY <1>1, <2>1 DEF Linked
  <2>3. \A u \in Thread : ptr[u] = o => at[u] \in {"found", "kill", "loop", "loop_kill"}
    BY <1>4, <2>1, OwnVdevice
  <2>4. Whole(o)
    BY <1>1, <2>1
  <2>5. obj[o].type # None
    BY <2>1, <2>3, <2>4 DEF Whole
  <2> QED
    BY <1>1, <1>2, <1>4, <2>2, <2>5 DEF NoneLeft
<1>5. at[t] \in {"del", "loop_del"} => obj[o].dev /\ obj[o].input = "none"
  BY <1>1 DEF ThreadOK
<1>6. at[t] = "register" => Loaded(arg[t])
  BY <1>1 DEF ThreadOK, Exporting, Loaded
<1> QED
  BY <1>2, <1>3, <1>4, <1>5, <1>6 DEF Misuses

(* ... and a file neither if those who open take care too.                  *)
LEMMA NoFileMisuses ==
    ASSUME DInv, careless = {}, NEW f \in File
    PROVE  ~FileMisuses(f)
  BY DEF DInv, FilesOK, FileOK, FileMisuses, Live, Loaded

(* Nothing that is gone is used unless somebody was careless.               *)
HarmInv == harmed => careless # {}

(* Every step keeps it: while all cares are taken nobody misuses anything.  *)
LEMMA HarmInvIsInductive ==
    ASSUME HarmInv, CarefulInv, Records, [Next]_vars
    PROVE  HarmInv'
<1> SUFFICES ASSUME harmed', careless' = {} PROVE FALSE
  BY DEF HarmInv
<1>1. careless = {}
  BY Recorded
<1>2. DInv /\ ~harmed
  BY <1>1 DEF CarefulInv, Careful, HarmInv
<1>3. Harm
  BY <1>2 DEF Next, vars
<1> QED
  BY <1>1, <1>2, <1>3, NoThreadMisuses, NoFileMisuses DEF Harm

(* What threads and files hold is live, and is what they need.              *)
LEMMA CarefulHoldsNothingFreed == CarefulInv /\ HarmInv => NoDanglingPointer
<1> SUFFICES ASSUME CarefulInv, HarmInv PROVE NoDanglingPointer
  OBVIOUS
<1>1. ASSUME careless \cap {"known_id", "one_remover", "quiet_type"} = {}, NEW t \in Thread
      PROVE  /\ ptr[t] # None => Live(ptr[t])
             /\ next[t] # None => Live(next[t])
             /\ at[t] \in {"kill", "loop_kill"} =>
                   obj[ptr[t]].input = "registered" /\ obj[ptr[t]].dev
             /\ at[t] \in {"del", "loop_del", "no_register", "no_dev"} => Live(ptr[t])
  BY <1>1, ThreadsHoldNothingFreed DEF CarefulInv, Careful
<1>2. ASSUME careless = {}, NEW f \in File, private_data[f] # None
      PROVE  /\ Live(private_data[f])
             /\ obj[private_data[f]].input = "registered"
             /\ obj[private_data[f]].type \in vinput_devices
  BY <1>2 DEF CarefulInv, Careful, DInv, FilesOK, FileOK, Live
<1> QED
  BY <1>1, <1>2 DEF NoDanglingPointer, HarmInv

(* Nothing that is gone is used unless somebody was careless.  As long as   *)
(* the removers take the care that vinput.c leaves to them, no thread holds *)
(* a vdevice that was freed, nothing is destroyed twice, and what is        *)
(* unregistered was registered; as long as those who open take care too, an *)
(* open file has a registered vdevice of a loaded type.                     *)
THEOREM NothingDangles == Spec => []NoDanglingPointer
<1>1. Init => CarefulInv /\ HarmInv
  BY InitDInv DEF CarefulInv, HarmInv, Init
<1>2. CarefulInv /\ Records /\ [Next]_vars => CarefulInv'
  BY CarefulInvIsInductive
<1>3. HarmInv /\ CarefulInv /\ Records /\ [Next]_vars => HarmInv'
  BY HarmInvIsInductive
<1>4. Records /\ [Next]_vars => Records'
  BY Recorded
<1> QED
  BY <1>1, <1>2, <1>3, <1>4, InitRecords, CarefulHoldsNothingFreed, PTL DEF Spec

-----------------------------------------------------------------------------
(* vkbd.c, the type of virtual device that the repository has, with the     *)
(* read and write handlers of vinput.c: the model of one keyboard.       *)

HIDE VinputAssumption

(* A byte of a text is a number and a place in it.                          *)
TextByte == Int \X Int

ReaderType == [open : BOOLEAN, offset : Nat, out : Seq(TextByte),
               same : BOOLEAN, big : BOOLEAN]

KTypes == VkbdTypeOK /\ reader \in [Reader -> ReaderType]

(* As long as no report has overtaken another, the last of the writers that *)
(* have not reported is the one that stored last_entry, and when there is   *)
(* none the keyboard is as last_entry says.                                 *)
Agreeing ==
    ~overtaken =>
        /\ pending # <<>> => key[pending[Len(pending)]] = last_entry
        /\ pending = <<>> /\ Code(last_entry) \in Keys =>
              (Code(last_entry) \in pressed <=> last_entry > 0)

(* No writer stands twice among them.                                       *)
Once == \A i, j \in 1 .. Len(pending) : pending[i] = pending[j] => i = j

(* What a reader with large buffers has got: nothing, or bytes of numbers,  *)
(* which are the text of last_entry if that is the same since it opened.    *)
Got(r) ==
    LET f == reader[r] IN
    f.big =>
        /\ f.offset = Len(f.out)
        /\ f.out # <<>> => f.open
        /\ \A i \in 1 .. Len(f.out) : f.out[i] # Garbage
        /\ f.out # <<>> /\ f.same => f.out = Text(last_entry)

KInv == KTypes /\ Once /\ Agreeing /\ \A r \in Reader : Got(r)

(* The decimal text of a long has three to five bytes, none of them Garbage. *)
LEMMA TextOfLong ==
    ASSUME NEW k \in Int
    PROVE  /\ Text(k) \in Seq(TextByte)
           /\ Len(Text(k)) \in 3 .. 5
           /\ \A i \in 1 .. Len(Text(k)) : Text(k)[i] # Garbage
<1>1. Digits(k) \in 1 .. 3
  BY DEF Digits
<1> DEFINE d == Digits(k) + 2
<1>2. d \in 3 .. 5
  BY <1>1
<1> HIDE DEF d
<1>3. Text(k) = [i \in 1 .. d |-> <<k, i>>]
  BY DEF Text, d
<1>4. Text(k) \in Seq(TextByte) /\ Len(Text(k)) = d
  BY <1>2, <1>3 DEF TextByte
<1>5. \A i \in 1 .. d : Text(k)[i] # Garbage
  BY <1>2, <1>3 DEF Garbage
<1> QED
  BY <1>2, <1>4, <1>5

(* A write: the writer becomes the last that has not reported.              *)
LEMMA StoreKeeps ==
    ASSUME KInv, NEW w \in Writer, vinput_write(w)
    PROVE  KInv'
<1>1. PICK k \in Numbers \cup {0} : w \notin Pending /\ Store(w, k)
  BY DEF vinput_write, Parsed
<1>2. /\ last_entry' = k /\ key' = [key EXCEPT ![w] = k] /\ pressed' = pressed
      /\ pending' = Append(pending, w)
      /\ overtaken' = IF pending = <<>> THEN FALSE ELSE overtaken
      /\ Remember(k)
  BY <1>1 DEF Store
<1>3. VkbdTypeOK /\ reader \in [Reader -> ReaderType] /\ Numbers \subseteq Int
  BY VkbdAssumption DEF KInv, KTypes
<1>4. /\ pending' \in Seq(Writer) /\ Len(pending') = Len(pending) + 1
      /\ pending'[Len(pending) + 1] = w
      /\ \A i \in 1 .. Len(pending) : pending'[i] = pending[i]
      /\ Len(pending) \in Nat
  BY <1>2, <1>3 DEF VkbdTypeOK
<1>5. Once'
  <2>1. \A i \in 1 .. Len(pending) : pending[i] # w
    BY <1>1, <1>3 DEF Pending, VkbdTypeOK
  <2> QED
    BY <1>4, <2>1 DEF Once, KInv
<1>6. Agreeing'
  <2>1. key'[w] = k /\ pending' # <<>>
    BY <1>2, <1>3, <1>4 DEF VkbdTypeOK
  <2> QED
    BY <1>2, <1>4, <2>1 DEF Agreeing
<1>7. ASSUME NEW r \in Reader PROVE Got(r)' /\ reader'[r] \in ReaderType
  <2>1. Got(r) /\ reader[r] \in ReaderType
    BY <1>3 DEF KInv
  <2>2. CASE reader[r].open
    <3> DEFINE s == reader[r].same /\ k = last_entry
    <3>1. reader'[r] = [reader[r] EXCEPT !.same = s]
      BY <1>2, <2>2 DEF Remember
    <3>2. s \in BOOLEAN /\ (s => reader[r].same /\ k = last_entry)
      OBVIOUS
    <3> HIDE DEF s
    <3>3. /\ reader'[r].open = reader[r].open /\ reader'[r].offset = reader[r].offset
          /\ reader'[r].out = reader[r].out /\ reader'[r].big = reader[r].big
          /\ reader'[r].same = s /\ reader'[r] \in ReaderType
      <4>1. reader'[r] \in ReaderType
        BY <2>1, <3>1, <3>2 DEF ReaderType
      <4> QED
        BY <2>1, <3>1, <4>1 DEF ReaderType
    <3>4. s => Text(last_entry)' = Text(last_entry)
      BY <1>2, <3>2 DEF Text, Digits, Abs
    <3>5. Garbage' = Garbage
      BY DEF Garbage
    <3>6. ASSUME reader'[r].big, reader'[r].same, reader'[r].out # <<>>
          PROVE  reader'[r].out = Text(last_entry)'
      <4>1. reader[r].big /\ reader[r].same /\ reader[r].out # <<>> /\ s
        BY <3>2, <3>3, <3>6
      <4>2. reader[r].out = Text(last_entry)
        BY <2>1, <4>1 DEF Got
      <4> QED
        BY <3>3, <3>4, <4>1, <4>2
    <3>7. reader'[r].big =>
             /\ reader'[r].offset = Len(reader'[r].out)
             /\ reader'[r].out # <<>> => reader'[r].open
             /\ \A i \in 1 .. Len(reader'[r].out) : reader'[r].out[i] # Garbage
      BY <2>1, <3>3 DEF Got
    <3> QED
      BY <3>3, <3>5, <3>6, <3>7, Zenon DEF Got
  <2>3. CASE ~reader[r].open
    <3>1. reader'[r] = reader[r]
      BY <1>2, <2>3 DEF Remember
    <3>2. reader[r].big => reader[r].out = <<>>
      BY <2>1, <2>3 DEF Got
    <3> QED
      BY <2>1, <3>1, <3>2 DEF Got, Garbage
  <2> QED
    BY <2>2, <2>3
<1>8. reader' \in [Reader -> ReaderType]
  <2>1. reader' = [r \in Reader |-> reader'[r]]
    BY <1>2 DEF Remember
  <2> QED
    BY <1>7, <2>1
<1>9. VkbdTypeOK'
  <2>1. overtaken' \in BOOLEAN
    <3>1. CASE pending = <<>>
      BY <1>2, <3>1
    <3>2. CASE pending # <<>>
      BY <1>2, <1>3, <3>2 DEF VkbdTypeOK
    <3> QED
      BY <3>1, <3>2
  <2>2. \A r \in Reader : reader'[r].offset \in Nat /\ reader'[r].same \in BOOLEAN
    BY <1>7 DEF ReaderType
  <2>3. last_entry' \in Numbers \cup {0} /\ key' \in [Writer -> Numbers \cup {0}]
    BY <1>1, <1>2, <1>3 DEF VkbdTypeOK
  <2> QED
    BY <1>2, <1>3, <1>4, <2>1, <2>2, <2>3 DEF VkbdTypeOK
<1> QED
  BY <1>5, <1>6, <1>7, <1>8, <1>9 DEF KInv, KTypes

(* A sequence without its member at i.                                      *)
Without(s, i) == SubSeq(s, 1, i - 1) \o SubSeq(s, i + 1, Len(s))

(* The members behind the one that is removed move up.                      *)
LEMMA Removed ==
    ASSUME NEW S, NEW s \in Seq(S), NEW i \in 1 .. Len(s)
    PROVE  /\ Without(s, i) \in Seq(S) /\ Len(Without(s, i)) = Len(s) - 1
           /\ \A j \in 1 .. Len(s) - 1 :
                 Without(s, i)[j] = IF j < i THEN s[j] ELSE s[j + 1]
<1> DEFINE t == Without(s, i)
           a == SubSeq(s, 1, i - 1)
           b == SubSeq(s, i + 1, Len(s))
<1>1. a \in Seq(S) /\ Len(a) = i - 1 /\ \A j \in 1 .. i - 1 : a[j] = s[j]
  OBVIOUS
<1>2. b \in Seq(S) /\ Len(b) = Len(s) - i /\ \A j \in 1 .. Len(s) - i : b[j] = s[i + j]
  OBVIOUS
<1>3. t = a \o b
  BY DEF Without
<1> HIDE DEF a, b, t
<1>4. a \in Seq(S) /\ b \in Seq(S)
  BY <1>1, <1>2
<1>5. /\ t \in Seq(S) /\ Len(t) = Len(a) + Len(b)
      /\ \A j \in 1 .. Len(a) + Len(b) :
            t[j] = IF j <= Len(a) THEN a[j] ELSE b[j - Len(a)]
  BY <1>3, <1>4, ConcatProperties
<1>6. Len(a) = i - 1 /\ Len(a) + Len(b) = Len(s) - 1
  BY <1>1, <1>2
<1>7. ASSUME NEW j \in 1 .. Len(s) - 1
      PROVE  t[j] = IF j < i THEN s[j] ELSE s[j + 1]
  <2>1. t[j] = IF j <= i - 1 THEN a[j] ELSE b[j - (i - 1)]
    BY <1>5, <1>6
  <2>2. CASE j < i
    <3>1. j \in 1 .. i - 1
      BY <2>2
    <3>2. t[j] = a[j]
      BY <2>1, <3>1
    <3> QED
      BY <1>1, <2>2, <3>1, <3>2
  <2>3. CASE ~(j < i)
    <3>1. j - (i - 1) \in 1 .. Len(s) - i /\ i + (j - (i - 1)) = j + 1
      BY <2>3
    <3>2. PICK d \in 1 .. Len(s) - i : d = j - (i - 1) /\ i + d = j + 1
      BY <3>1
    <3>3. b[d] = s[i + d]
      BY <1>2
    <3>4. t[j] = b[d]
      <4>1. ~(j <= i - 1)
        BY <2>3
      <4> QED
        BY <2>1, <3>2, <4>1
    <3> QED
      BY <2>3, <3>2, <3>3, <3>4
  <2> QED
    BY <2>2, <2>3
<1> QED
  BY <1>5, <1>6, <1>7 DEF t

(* A report: the first of those that have not reported leaves the others in *)
(* their order; any other overtakes.                                        *)
LEMMA ReportKeeps ==
    ASSUME KInv, NEW w \in Writer, Report(w)
    PROVE  KInv'
<1>1. PICK i \in DOMAIN pending :
          /\ pending[i] = w
          /\ pending' = SubSeq(pending, 1, i - 1) \o SubSeq(pending, i + 1, Len(pending))
  BY DEF Report, Leaves
<1>2. /\ last_entry' = last_entry /\ reader' = reader
      /\ key' = [key EXCEPT ![w] = 0]
      /\ overtaken' = (overtaken \/ pending[1] # w)
      /\ InputReport(Code(key[w]), IF key[w] < 0 THEN "release" ELSE "press")
  BY DEF Report
<1>3. VkbdTypeOK /\ reader \in [Reader -> ReaderType] /\ Numbers \subseteq Int /\ Once
  BY VkbdAssumption DEF KInv, KTypes
<1>4. pending \in Seq(Writer) /\ Len(pending) \in Nat /\ i \in 1 .. Len(pending)
  BY <1>1, <1>3 DEF VkbdTypeOK
<1>5. /\ pending' \in Seq(Writer) /\ Len(pending') = Len(pending) - 1
      /\ \A j \in 1 .. Len(pending) - 1 :
            pending'[j] = IF j < i THEN pending[j] ELSE pending[j + 1]
  <2>1. pending' = Without(pending, i)
    BY <1>1 DEF Without
  <2>2. /\ Without(pending, i) \in Seq(Writer)
        /\ Len(Without(pending, i)) = Len(pending) - 1
        /\ \A j \in 1 .. Len(pending) - 1 :
              Without(pending, i)[j] = IF j < i THEN pending[j] ELSE pending[j + 1]
    <3>1. PICK q \in Seq(Writer) : q = pending
      BY <1>4
    <3>2. i \in 1 .. Len(q)
      BY <1>4, <3>1
    <3>3. /\ Without(q, i) \in Seq(Writer) /\ Len(Without(q, i)) = Len(q) - 1
          /\ \A j \in 1 .. Len(q) - 1 :
                Without(q, i)[j] = IF j < i THEN q[j] ELSE q[j + 1]
      BY <3>2, Removed
    <3> QED
      BY <3>1, <3>3
  <2> QED
    BY <2>1, <2>2
<1>6. Once'
  BY <1>3, <1>4, <1>5 DEF Once
<1>7. pressed' \subseteq 1 .. KEY_MAX - 1
  <2>1. KEY_MAX \in Int
    BY VkbdAssumption
  <2>2. Keys \subseteq 1 .. KEY_MAX - 1
    BY <2>1 DEF Keys, KEY_RESERVED
  <2>3. pressed \subseteq 1 .. KEY_MAX - 1
    BY <1>3 DEF VkbdTypeOK
  <2>4. \/ pressed' = pressed
        \/ \E code \in Keys : pressed' = pressed \cup {code} \/ pressed' = pressed \ {code}
    <3>1. CASE Code(key[w]) \in Keys /\ key[w] < 0
      BY <1>2, <3>1 DEF InputReport
    <3>2. CASE Code(key[w]) \in Keys /\ ~(key[w] < 0)
      BY <1>2, <3>2 DEF InputReport
    <3>3. CASE Code(key[w]) \notin Keys
      BY <1>2, <3>3 DEF InputReport
    <3> QED
      BY <3>1, <3>2, <3>3
  <2>5. pressed' \subseteq pressed \cup Keys
    BY <2>4
  <2> QED
    BY <2>2, <2>3, <2>5
<1>8. VkbdTypeOK'
  <2>1. overtaken' \in BOOLEAN
    BY <1>2, <1>3, Zenon DEF VkbdTypeOK
  <2> QED
    BY <1>2, <1>3, <1>5, <1>7, <2>1 DEF VkbdTypeOK
<1>9. Agreeing'
  <2> SUFFICES ASSUME ~overtaken' PROVE Agreeing'
    BY DEF Agreeing
  <2>0. ~overtaken /\ pending[1] = w
    BY <1>2, Zenon
  <2>1. ~overtaken /\ i = 1 /\ pending # <<>>
    BY <1>1, <1>3, <1>4, <2>0 DEF Once
  <2>2. key[pending[Len(pending)]] = last_entry
    BY <2>1 DEF KInv, Agreeing
  <2>3. CASE Len(pending) = 1
    <3>1. key[w] = last_entry /\ last_entry \in Int /\ pending' = <<>>
      BY <1>1, <1>3, <1>5, <2>1, <2>2, <2>3 DEF VkbdTypeOK
    <3>2. ASSUME Code(last_entry) \in Keys
          PROVE  Code(last_entry) \in pressed' <=> last_entry > 0
      <4>1. CASE last_entry < 0
        BY <1>2, <3>1, <3>2, <4>1 DEF InputReport
      <4>2. CASE last_entry = 0
        BY <3>2, <4>2, VkbdAssumption DEF Code, Keys, KEY_RESERVED
      <4>3. CASE last_entry > 0
        BY <1>2, <3>1, <3>2, <4>3 DEF InputReport
      <4> QED
        BY <3>1, <4>1, <4>2, <4>3
    <3>3. Code(last_entry)' = Code(last_entry) /\ Keys' = Keys
      BY <1>2 DEF Code, Negated, Keys, KEY_RESERVED
    <3> QED
      BY <1>2, <3>1, <3>2, <3>3 DEF Agreeing
  <2>4. CASE Len(pending) # 1
    <3>1. Len(pending') >= 1 /\ pending'[Len(pending')] = pending[Len(pending)]
      BY <1>4, <1>5, <2>1, <2>4
    <3>2. pending[Len(pending)] # w /\ pending[Len(pending)] \in Writer
      <4>1. Len(pending) \in 1 .. Len(pending) /\ Len(pending) # i
        BY <1>4, <2>1, <2>4
      <4>2. pending[Len(pending)] \in Writer
        BY <1>4, <4>1
      <4>3. pending[Len(pending)] # pending[i]
        BY <1>3, <1>4, <4>1 DEF Once
      <4> QED
        BY <1>1, <4>2, <4>3
    <3>3. key'[pending[Len(pending)]] = last_entry'
      BY <1>2, <1>3, <2>2, <3>2 DEF VkbdTypeOK
    <3> QED
      BY <3>1, <3>3 DEF Agreeing
  <2> QED
    BY <2>3, <2>4
<1>10. ASSUME NEW r \in Reader PROVE Got(r)'
  BY <1>2 DEF KInv, Got, Garbage, Text
<1> QED
  BY <1>2, <1>3, <1>6, <1>8, <1>9, <1>10 DEF KInv, KTypes

(* What one reader does concerns no other reader, and not the keyboard.     *)
LEMMA ReaderKeeps ==
    ASSUME KInv, NEW r \in Reader, NEW f \in ReaderType,
           reader' = [reader EXCEPT ![r] = f],
           Got(r)',
           UNCHANGED <<last_entry, pressed, key, pending, overtaken>>
    PROVE  KInv'
<1>1. VkbdTypeOK /\ reader \in [Reader -> ReaderType] /\ Once /\ Agreeing
  BY DEF KInv, KTypes
<1>2. reader' \in [Reader -> ReaderType]
  BY <1>1
<1>3. VkbdTypeOK'
  BY <1>1, <1>2 DEF VkbdTypeOK, ReaderType
<1>4. Once' /\ Agreeing'
  BY <1>1 DEF Once, Agreeing, Code, Keys, Negated, KEY_RESERVED
<1>5. ASSUME NEW q \in Reader, q # r PROVE Got(q)'
  <2>1. reader'[q] = reader[q] /\ Got(q)
    BY <1>1, <1>5 DEF KInv
  <2> QED
    BY <2>1 DEF Got, Garbage, Text
<1> QED
  BY <1>2, <1>3, <1>4, <1>5 DEF KInv, KTypes

(* How many bytes a read() returns: it ends in the text or in buff.         *)
LEMMA CopiedBounds ==
    ASSUME NEW len \in 3 .. 5, NEW offset \in Nat, NEW count \in Nat, NEW max \in Nat,
           max >= 5, NEW n,
           n = IF offset > len THEN 0 ELSE IF count + offset > max THEN len - offset ELSE count,
           n > 0
    PROVE  /\ n \in Nat /\ offset <= len /\ offset + n <= max
           /\ count + offset > max => n = len - offset
  OBVIOUS

(* What the reader has got after a read() that returns bytes.               *)
Extended(out, k, offset, count) ==
    out \o SubSeq(Buff(k, count), offset + 1, offset + Copied(k, offset, count))

(* A function on 1 .. m is a sequence.                                      *)
LEMMA IsSequence ==
    ASSUME NEW S, NEW m \in Nat, NEW e, e = [i \in 1 .. m |-> e[i]],
           \A i \in 1 .. m : e[i] \in S
    PROVE  e \in Seq(S) /\ Len(e) = m
<1>1. e \in [1 .. m -> S]
  OBVIOUS
<1> QED
  BY <1>1

(* The n members of a sequence after the first i.                           *)
LEMMA PieceOf ==
    ASSUME NEW S, NEW b \in Seq(S), NEW i \in Nat, NEW n \in Nat, i + n <= Len(b)
    PROVE  /\ SubSeq(b, i + 1, i + n) \in Seq(S)
           /\ Len(SubSeq(b, i + 1, i + n)) = n
           /\ \A j \in 1 .. n : SubSeq(b, i + 1, i + n)[j] = b[i + j]
  OBVIOUS

(* With a large buffer it has got the text up to its end, and no garbage    *)
(* unless it had some.                                                      *)
Completes(out, k, offset, count) ==
    LET n == Copied(k, offset, count)
        new == Extended(out, k, offset, count) IN
    /\ n \in Nat /\ new \in Seq(TextByte)
    /\ count > VINPUT_MAX_LEN /\ offset = Len(out) =>
          /\ offset + n = Len(new) /\ Len(new) = Len(Text(k))
          /\ (\A i \in 1 .. Len(out) : out[i] # Garbage) =>
                \A i \in 1 .. Len(new) : new[i] # Garbage
          /\ out = <<>> => new = Text(k)

(* What a read() that returns bytes appends to what the reader has got.     *)
(* With a large buffer it is the rest of the text.                          *)
LEMMA ReadPiece ==
    ASSUME NEW k \in Int, NEW offset \in Nat, NEW count \in Nat,
           NEW out \in Seq(TextByte), Copied(k, offset, count) > 0,
           VINPUT_MAX_LEN \in Nat, VINPUT_MAX_LEN >= 5
    PROVE  Completes(out, k, offset, count)
<1> DEFINE n == Copied(k, offset, count)
           new == Extended(out, k, offset, count)
           t == Text(k)
           b == Buff(k, count)
           more == SubSeq(b, offset + 1, offset + n)
<1>1. /\ t \in Seq(TextByte) /\ Len(t) \in 3 .. 5
      /\ \A i \in 1 .. Len(t) : t[i] # Garbage
  <2> HIDE DEF b, more, n, new
  <2> QED
    BY TextOfLong
<1>2. n = IF offset > Len(t) THEN 0
          ELSE IF count + offset > VINPUT_MAX_LEN THEN Len(t) - offset ELSE count
  BY DEF Copied
<1>3. \A i \in 1 .. VINPUT_MAX_LEN + 1 :
          b[i] = IF i <= Len(t) /\ i < count THEN t[i] ELSE Garbage
  BY DEF Buff
<1>4. Garbage \in TextByte
  BY DEF Garbage, TextByte
<1>5. new = out \o more
  BY DEF Extended
<1>p. n > 0
  OBVIOUS
<1> HIDE DEF t, b, more, n, new
<1>6. /\ n \in Nat /\ offset <= Len(t) /\ offset + n <= VINPUT_MAX_LEN
      /\ count + offset > VINPUT_MAX_LEN => n = Len(t) - offset
  BY <1>1, <1>2, <1>p, CopiedBounds
<1>8. /\ more \in Seq(TextByte) /\ Len(more) = n
      /\ \A i \in 1 .. n : more[i] = b[offset + i]
  <2>2. b \in Seq(TextByte) /\ Len(b) = VINPUT_MAX_LEN + 1
    <3>1. ASSUME NEW i \in 1 .. VINPUT_MAX_LEN + 1 PROVE b[i] \in TextByte
      BY <1>1, <1>3, <1>4
    <3>2. b = [i \in 1 .. VINPUT_MAX_LEN + 1 |-> b[i]]
      BY DEF b, Buff
    <3>3. VINPUT_MAX_LEN + 1 \in Nat
      OBVIOUS
    <3> QED
      BY <3>1, <3>2, <3>3, IsSequence
  <2>3. offset + n <= Len(b)
    BY <1>6, <2>2
  <2>4. /\ SubSeq(b, offset + 1, offset + n) \in Seq(TextByte)
        /\ Len(SubSeq(b, offset + 1, offset + n)) = n
        /\ \A j \in 1 .. n : SubSeq(b, offset + 1, offset + n)[j] = b[offset + j]
    <3>1. n \in Nat /\ b \in Seq(TextByte)
      BY <1>6, <2>2
    <3> QED
      BY <2>3, <3>1, PieceOf
  <2> QED
    BY <2>4 DEF more
<1>9. /\ new \in Seq(TextByte) /\ Len(new) = Len(out) + n
      /\ \A i \in 1 .. Len(out) + n :
            new[i] = IF i <= Len(out) THEN out[i] ELSE more[i - Len(out)]
  <2>1. /\ out \o more \in Seq(TextByte)
        /\ Len(out \o more) = Len(out) + n
        /\ \A i \in 1 .. Len(out) + n :
              (out \o more)[i] = IF i <= Len(out) THEN out[i] ELSE more[i - Len(out)]
    <3>1. /\ out \o more \in Seq(TextByte)
          /\ Len(out \o more) = Len(out) + Len(more)
          /\ \A i \in 1 .. Len(out) + Len(more) :
                (out \o more)[i] = IF i <= Len(out) THEN out[i] ELSE more[i - Len(out)]
      BY <1>8, ConcatProperties
    <3> QED
      BY <1>8, <3>1
  <2> QED
    BY <1>5, <2>1
<1>10. ASSUME count > VINPUT_MAX_LEN, offset = Len(out)
       PROVE  /\ offset + n = Len(new) /\ Len(new) = Len(t)
              /\ (\A i \in 1 .. Len(out) : out[i] # Garbage) =>
                    \A i \in 1 .. Len(new) : new[i] # Garbage
              /\ out = <<>> => new = t
  <2>1. n = Len(t) - offset /\ Len(new) = Len(t) /\ offset + n = Len(new)
    BY <1>1, <1>6, <1>9, <1>10
  <2>2. ASSUME NEW i \in 1 .. Len(t), i > Len(out) PROVE new[i] = t[i]
    <3>1. i - Len(out) \in 1 .. n /\ offset + (i - Len(out)) = i
      BY <1>1, <1>10, <2>1, <2>2
    <3>2. more[i - Len(out)] = b[i]
      BY <1>8, <3>1
    <3>3. i \in 1 .. Len(out) + n
      BY <1>1, <1>10, <2>1
    <3>4. new[i] = b[i]
      BY <1>9, <2>2, <3>2, <3>3
    <3>5. i \in 1 .. VINPUT_MAX_LEN + 1 /\ i < count
      BY <1>1, <1>10
    <3> QED
      BY <1>3, <3>4, <3>5
  <2>3. ASSUME \A i \in 1 .. Len(out) : out[i] # Garbage,
               NEW i \in 1 .. Len(new)
        PROVE  new[i] # Garbage
    <3>1. CASE i <= Len(out)
      BY <1>9, <2>1, <2>3, <3>1
    <3>2. CASE i > Len(out)
      BY <1>1, <2>1, <2>2, <3>2
    <3> QED
      BY <2>1, <3>1, <3>2
  <2>4. ASSUME out = <<>> PROVE new = t
    <3>1. \A i \in 1 .. Len(t) : new[i] = t[i]
      BY <1>1, <2>2, <2>4
    <3> QED
      BY <1>1, <1>9, <2>1, <3>1
  <2> QED
    BY <2>1, <2>3, <2>4
<1> QED
  BY <1>6, <1>9, <1>10 DEF Completes, t, n, new

(* A reader with a sequence of bytes for what it has got.                   *)
LEMMA OutType ==
    \A f \in ReaderType : \A out \in Seq(TextByte) : [f EXCEPT !.out = out] \in ReaderType
<1>1. ASSUME NEW f \in ReaderType, NEW out \in Seq(TextByte)
      PROVE  [f EXCEPT !.out = out] \in ReaderType
  BY DEF ReaderType
<1> QED
  BY <1>1

(* A reader with a natural number for its position.                         *)
LEMMA OffsetType ==
    \A f \in ReaderType : \A offset \in Nat : [f EXCEPT !.offset = offset] \in ReaderType
<1>1. ASSUME NEW f \in ReaderType, NEW offset \in Nat
      PROVE  [f EXCEPT !.offset = offset] \in ReaderType
  BY DEF ReaderType
<1> QED
  BY <1>1

(* A read() that returns bytes: there is no rest of the text if the reader  *)
(* has got the text of the same number.                                     *)
LEMMA ReadKeeps ==
    ASSUME KInv, NEW r \in Reader, NEW count \in Counts, Read(r, count)
    PROVE  KInv'
<1> DEFINE f == reader[r]
           n == Copied(last_entry, f.offset, count)
           new == Extended(f.out, last_entry, f.offset, count)
           c == f.big /\ count > VINPUT_MAX_LEN
           g == [f EXCEPT !.out = new, !.offset = f.offset + n, !.big = c]
<1>1. /\ reader \in [Reader -> ReaderType] /\ f \in ReaderType /\ Got(r)
      /\ count \in Nat /\ VINPUT_MAX_LEN \in Nat /\ VINPUT_MAX_LEN >= 5
      /\ last_entry \in Int
  BY VkbdAssumption DEF KInv, KTypes, VkbdTypeOK
<1>2. f.open /\ n > 0 /\ UNCHANGED <<last_entry, pressed, key, pending, overtaken>>
  BY DEF Read
<1>3. reader' = [reader EXCEPT ![r] = g]
  BY DEF Read, Extended
<1>4. c \in BOOLEAN /\ (c => f.big /\ count > VINPUT_MAX_LEN)
  OBVIOUS
<1>5. f.offset \in Nat /\ f.out \in Seq(TextByte)
  BY <1>1 DEF ReaderType
<1>6. /\ n \in Nat /\ new \in Seq(TextByte)
      /\ count > VINPUT_MAX_LEN /\ f.offset = Len(f.out) =>
            /\ f.offset + n = Len(new) /\ Len(new) = Len(Text(last_entry))
            /\ (\A i \in 1 .. Len(f.out) : f.out[i] # Garbage) =>
                  \A i \in 1 .. Len(new) : new[i] # Garbage
            /\ f.out = <<>> => new = Text(last_entry)
  <2>1. Copied(last_entry, f.offset, count) > 0
    BY <1>2
  <2>2. Completes(f.out, last_entry, f.offset, count)
    <3> HIDE DEF f, n, new, c, g
    <3> QED
      BY <1>1, <1>5, <2>1, ReadPiece
  <2> QED
    BY <2>2 DEF Completes
<1> HIDE DEF n, new, c
<1>7. g \in ReaderType
  <2> DEFINE m == f.offset + n
             x == [f EXCEPT !.out = new]
             y == [x EXCEPT !.offset = m]
  <2>1. m \in Nat /\ new \in Seq(TextByte) /\ f \in ReaderType
    BY <1>1, <1>5, <1>6
  <2>2. g = [y EXCEPT !.big = c]
    OBVIOUS
  <2> HIDE DEF f, m, g
  <2>3. x \in ReaderType
    <3>1. new \in Seq(TextByte) /\ f \in ReaderType
      BY <2>1, Zenon
    <3> QED
      BY <3>1, OutType, Zenon
  <2> HIDE DEF x
  <2>4. y \in ReaderType
    <3>1. m \in Nat
      BY <2>1, Zenon
    <3> QED
      BY <2>3, <3>1, OffsetType, Zenon
  <2> HIDE DEF y
  <2>5. [y EXCEPT !.big = c] \in ReaderType
    BY <1>4, <2>4 DEF ReaderType
  <2> QED
    BY <2>2, <2>5
<1>8. /\ g.open = f.open /\ g.same = f.same /\ g.big = c
      /\ g.out = new /\ g.offset = f.offset + n
  BY <1>1 DEF ReaderType
<1>9. reader'[r] = g
  BY <1>1, <1>3
<1> HIDE DEF g
<1>10. Text(last_entry)' = Text(last_entry) /\ Garbage' = Garbage
  BY <1>2 DEF Text, Digits, Abs, Garbage
<1>11. ASSUME c
       PROVE  /\ f.offset + n = Len(new)
              /\ \A i \in 1 .. Len(new) : new[i] # Garbage
              /\ f.same => new = Text(last_entry)
  <2>1. f.big /\ count > VINPUT_MAX_LEN
    BY <1>4, <1>11
  <2>2. /\ f.offset = Len(f.out)
        /\ \A i \in 1 .. Len(f.out) : f.out[i] # Garbage
        /\ f.out # <<>> /\ f.same => f.out = Text(last_entry)
    BY <1>1, <2>1 DEF Got
  <2>3. ASSUME f.same PROVE new = Text(last_entry)
    <3>1. f.out # <<>> => f.out = Text(last_entry)
      BY <2>2, <2>3
    <3> HIDE DEF f
    <3>2. f.out # <<>> => Len(f.out) + n = Len(f.out)
      BY <1>6, <2>1, <2>2, <3>1
    <3>3. Len(f.out) \in Nat /\ n > 0 /\ n \in Nat
      BY <1>2, <1>5, <1>6
    <3> QED
      BY <1>6, <2>1, <2>2, <3>2, <3>3
  <2> QED
    BY <1>6, <2>1, <2>2, <2>3
<1>12. Got(r)'
  <2>1. ASSUME g.big
        PROVE  /\ g.offset = Len(g.out)
               /\ g.out # <<>> => g.open
               /\ \A i \in 1 .. Len(g.out) : g.out[i] # Garbage
               /\ g.out # <<>> /\ g.same => g.out = Text(last_entry)
    BY <1>2, <1>8, <1>11, <2>1
  <2> HIDE DEF f
  <2> QED
    BY <1>9, <1>10, <2>1 DEF Got
<1> QED
  BY <1>2, <1>3, <1>7, <1>12, ReaderKeeps

(* The state of a reader that has got nothing, with the file open or not.   *)
LEMMA ClosedType ==
    /\ Closed \in ReaderType /\ Closed.out = <<>> /\ Closed.offset = 0
    /\ [Closed EXCEPT !.open = TRUE] \in ReaderType
    /\ [Closed EXCEPT !.open = TRUE].out = <<>>
    /\ [Closed EXCEPT !.open = TRUE].offset = 0
<1>1. /\ Closed = [open |-> FALSE, offset |-> 0, out |-> <<>>, same |-> TRUE, big |-> TRUE]
      /\ <<>> \in Seq(TextByte)
  BY DEF Closed
<1> QED
  BY <1>1 DEF ReaderType

(* A file that has been opened or closed has returned nothing yet.          *)
LEMMA ReaderStarts ==
    ASSUME KInv, NEW r \in Reader,
           OpenFile(r) \/ \E count \in Counts : ReadEnds(r, count)
    PROVE  KInv'
<1>1. PICK f \in {Closed, [Closed EXCEPT !.open = TRUE]} :
          /\ reader' = [reader EXCEPT ![r] = f]
          /\ UNCHANGED <<last_entry, pressed, key, pending, overtaken>>
  BY DEF OpenFile, ReadEnds
<1>2. f \in ReaderType /\ f.out = <<>> /\ f.offset = 0
  BY <1>1, ClosedType
<1>3. reader'[r] = f
  BY <1>1 DEF KInv, KTypes
<1>4. Got(r)'
  BY <1>2, <1>3 DEF Got
<1> QED
  BY <1>1, <1>2, <1>4, ReaderKeeps

(* The invariant of the keyboard.                                           *)
LEMMA KeyboardInvariant == VkbdSpec => []KInv
<1>1. VkbdInit => KInv
  <2> SUFFICES ASSUME VkbdInit PROVE KInv
    OBVIOUS
  <2> USE DEF VkbdInit
  <2>1. KTypes
    <3>1. reader \in [Reader -> ReaderType]
      BY ClosedType
    <3>2. \A r \in Reader : reader[r].offset \in Nat /\ reader[r].same \in BOOLEAN
      BY <3>1 DEF ReaderType
    <3>3. pending \in Seq(Writer) /\ key \in [Writer -> Numbers \cup {0}]
      OBVIOUS
    <3>4. /\ last_entry \in Numbers \cup {0} /\ overtaken \in BOOLEAN
          /\ pressed \subseteq 1 .. KEY_MAX - 1
      OBVIOUS
    <3>5. VkbdTypeOK
      BY <3>2, <3>3, <3>4, Zenon DEF VkbdTypeOK
    <3> QED
      BY <3>1, <3>5 DEF KTypes
  <2>2. Once
    BY DEF Once
  <2>3. Code(0) \notin Keys
    BY VkbdAssumption DEF Code, Keys, KEY_RESERVED
  <2>4. Agreeing
    BY <2>3 DEF Agreeing
  <2>5. \A r \in Reader : Got(r)
    BY DEF Got, Closed
  <2> QED
    BY <2>1, <2>2, <2>4, <2>5 DEF KInv
<1>2. KInv /\ [VkbdNext]_VkbdVars => KInv'
  <2> SUFFICES ASSUME KInv, [VkbdNext]_VkbdVars PROVE KInv'
    OBVIOUS
  <2>1. ASSUME NEW w \in Writer, vinput_write(w) \/ Report(w) PROVE KInv'
    BY <2>1, StoreKeeps, ReportKeeps
  <2>2. ASSUME NEW r \in Reader, OpenFile(r) \/ Reading(r) PROVE KInv'
    BY <2>2, ReadKeeps, ReaderStarts DEF Reading
  <2>3. CASE UNCHANGED VkbdVars
    <3>1. UNCHANGED <<last_entry, pressed, key, pending, overtaken, reader>>
      BY <2>3 DEF VkbdVars
    <3> QED
      BY <3>1 DEF KInv, KTypes, VkbdTypeOK, Once, Agreeing, Got, Code, Negated, Keys,
                  KEY_RESERVED, Garbage, Text, Digits, Abs
  <2> QED
    BY <2>1, <2>2, <2>3 DEF VkbdNext
<1> QED
  BY <1>1, <1>2, PTL DEF VkbdSpec

(* When every write to the keyboard has returned and no report was          *)
(* overtaken, the key that last_entry names is pressed or released as its   *)
(* sign says, for any writers, numbers and width of an unsigned int.        *)
THEOREM KeyboardIsAsWritten == VkbdSpec => []KeyboardAgrees
<1>1. KInv => KeyboardAgrees
  BY DEF KInv, KTypes, Agreeing, KeyboardAgrees
<1> QED
  BY <1>1, KeyboardInvariant, PTL

(* A reader with large buffers gets the text of last_entry, unless another  *)
(* number is written meanwhile, and no byte that vinput_read has not set.   *)
THEOREM ReadersGetLastEntry == VkbdSpec => []ReadsLastEntry
<1>1. KInv => ReadsLastEntry
  BY DEF KInv, Got, ReadsLastEntry
<1> QED
  BY <1>1, KeyboardInvariant, PTL
=============================================================================
