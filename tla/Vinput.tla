------------------------------- MODULE Vinput -------------------------------
(***************************************************************************)
(* examples/vinput.c: the registry of virtual input devices.  Input device  *)
(* types (vkbd) register with vinput_register; a write to the class         *)
(* attribute export creates a vdevice of a type under the first free id, a  *)
(* write to unexport destroys it, vinput_unregister destroys all of a type, *)
(* and processes open, read and write the vdevices through /dev/vinputN.    *)
(*                                                                          *)
(* Threads run the sysfs and module handlers concurrently: every section    *)
(* under vinput_lock is one step, and so is every call that leaves the      *)
(* driver.  The vdevices are memory: a struct is live from kzalloc to kfree *)
(* and may be reused afterwards.  Nothing keeps the callers from racing; an *)
(* action records in careless what its caller did not take care of.  A step *)
(* that uses what is gone has no defined outcome: it sets harmed, and the   *)
(* behaviour is not followed any further.  An argument that does not parse, *)
(* or names a type that is not registered, changes nothing and is left out. *)
(***************************************************************************)
EXTENDS Integers, Sequences

CONSTANTS
    Thread,          \* threads in export, unexport and vinput_unregister
    File,            \* open files of /dev/vinputN
    Obj,             \* struct vinput allocations
    Type,            \* struct vinput_device: the input device types
    VINPUT_MINORS,   \* number of ids
    None,            \* NULL
    AllocFails       \* TRUE: input_allocate_device may return NULL

(* What the driver leaves to its users, one by one:                         *)
(*   "known_id":    an id that no vdevice has is unexported only when no    *)
(*                  other thread is in the driver, and no vdevice is        *)
(*                  unexported until the lookup has failed;                 *)
(*   "one_remover": a vdevice is not unexported while another thread        *)
(*                  exports or unexports the same id;                       *)
(*   "quiet_type":  a type is not unregistered while a thread exports or    *)
(*                  unexports;                                              *)
(*   "closed":      a vdevice is removed only when no file has it open or   *)
(*                  is opening it;                                          *)
(*   "settled":     a vdevice is opened only when no thread exports or      *)
(*                  unexports it and no type is being unregistered.         *)
Cares == {"known_id", "one_remover", "quiet_type", "closed", "settled"}

Minors == 0 .. (VINPUT_MINORS - 1)

Vdev == [id : Minors, type : Type \cup {None},
         input : {"none", "allocated", "registered"}, dev : BOOLEAN]

ASSUME VinputAssumption ==
    /\ VINPUT_MINORS \in Nat \ {0}
    /\ None \notin Obj \cup Type /\ None \notin Vdev
    /\ AllocFails \in BOOLEAN

VARIABLES
    vinput_ids,      \* the bitmap, as the set of its set bits
    vinput_devices,  \* the registered types
    vinput_vdevices, \* the list of vdevices, head first
    obj,             \* the fields of each live struct vinput; None: not live
    private_data,    \* what each file points to, from the look-up of
                     \* vinput_open on; None: not open
    opening,         \* the minor number while vinput_open runs, or None
    at,              \* where each thread is
    arg,             \* its argument: a type or an id
    ptr,             \* its struct vinput *
    next,            \* the saved next of list_for_each_safe
    careless,        \* the cares that somebody has not taken
    harmed           \* TRUE: something that is gone has been used

vars == <<vinput_ids, vinput_devices, vinput_vdevices, obj, private_data, opening,
          at, arg, ptr, next, careless, harmed>>

At == {"idle",
       "alloc", "input", "no_input", "dev", "register", "no_register", "no_dev",
       "found", "kill", "del",
       "loop", "loop_kill", "loop_del"}

TypeOK ==
    /\ vinput_ids \subseteq Minors
    /\ vinput_devices \subseteq Type
    /\ vinput_vdevices \in Seq(Obj)
    /\ obj \in [Obj -> Vdev \cup {None}]
    /\ private_data \in [File -> Obj \cup {None}]
    /\ opening \in [File -> Minors \cup {None}]
    /\ at \in [Thread -> At]
    /\ arg \in [Thread -> Type \cup Minors \cup {None}]
    /\ ptr \in [Thread -> Obj \cup {None}]
    /\ next \in [Thread -> Obj \cup {None}]
    /\ careless \subseteq Cares
    /\ harmed \in BOOLEAN

Init ==
    /\ vinput_ids = {}
    /\ vinput_devices = {}
    /\ vinput_vdevices = <<>>
    /\ obj = [o \in Obj |-> None]
    /\ private_data = [f \in File |-> None]
    /\ opening = [f \in File |-> None]
    /\ at = [t \in Thread |-> "idle"]
    /\ arg = [t \in Thread |-> None]
    /\ ptr = [t \in Thread |-> None]
    /\ next = [t \in Thread |-> None]
    /\ careless = {}
    /\ harmed = FALSE

registry == <<vinput_ids, vinput_devices, vinput_vdevices>>

Live(o) == o # None /\ obj[o] # None
Listed  == {vinput_vdevices[i] : i \in DOMAIN vinput_vdevices}

Goes(t, from, to) ==
    /\ at[t] = from
    /\ at' = [at EXCEPT ![t] = to]

(* The handler of thread t returns.                                         *)
Returns(t, from) ==
    /\ Goes(t, from, "idle")
    /\ arg' = [arg EXCEPT ![t] = None]
    /\ ptr' = [ptr EXCEPT ![t] = None]
    /\ next' = [next EXCEPT ![t] = None]

Stays == UNCHANGED <<arg, ptr, next>>

(* The place of o in the list.                                              *)
Place(o) == CHOOSE i \in DOMAIN vinput_vdevices : vinput_vdevices[i] = o

(* The element after o, None at the end of the list.                        *)
After(o) ==
    IF o \in Listed /\ Place(o) < Len(vinput_vdevices)
    THEN vinput_vdevices[Place(o) + 1] ELSE None

(* list_del: the list without o.                                            *)
Unlinked(o) ==
    [i \in 1 .. Len(vinput_vdevices) - 1 |->
        IF i < Place(o) THEN vinput_vdevices[i] ELSE vinput_vdevices[i + 1]]

(* The vdevice o, with these fields assigned to.                            *)
Assign(o, type, input, dev) ==
    obj' = [obj EXCEPT ![o] = [id |-> obj[o].id, type |-> type, input |-> input, dev |-> dev]]

(* Mutant: the id is not given back.                                        *)
DestroyKeepsId(o) ==
    /\ Live(o)
    /\ vinput_vdevices' = Unlinked(o)
    /\ obj' = [obj EXCEPT ![o] = None]
    /\ UNCHANGED vinput_ids

(* vinput_destroy_vdevice: off the list, id given back, memory freed.       *)
Destroy(o) ==
    /\ Live(o)
    /\ vinput_vdevices' = Unlinked(o)
    /\ vinput_ids' = vinput_ids \ {obj[o].id}
    /\ obj' = [obj EXCEPT ![o] = None]

-----------------------------------------------------------------------------
(* Who may be working on a vdevice or a type.                               *)

InUnregister == {"loop", "loop_kill", "loop_del"}

Opened(o) == \E f \in File : private_data[f] = o

(* The id that thread u looks up, or of the vdevice that it works on.       *)
Handles(u) == IF at[u] = "found" THEN arg[u]
              ELSE IF Live(ptr[u]) THEN obj[ptr[u]].id ELSE None

(* A thread looks up an id that no vdevice has, and holds the last of them. *)
LooksInVain(u) == at[u] = "found" /\ Live(ptr[u]) /\ obj[ptr[u]].id # arg[u]

NoneUnregisters == \A u \in Thread : at[u] \notin InUnregister

(* The care c is taken, or it is recorded that it is not.                   *)
Unless(taken, c) == IF taken THEN {} ELSE {c}

UnexportCares(id) ==
    Unless(/\ \A u \in Thread : ~LooksInVain(u)
           /\ (\E o \in Listed : obj[o].id = id) \/ \A u \in Thread : at[u] = "idle",
           "known_id")
    \cup Unless(\A u \in Thread : Handles(u) # id, "one_remover")
    \cup Unless(NoneUnregisters, "quiet_type")
    \cup Unless(\A o \in Listed : obj[o].id = id => ~Opened(o), "closed")

UnregisterCares(type) ==
    Unless(\A u \in Thread : at[u] = "idle", "quiet_type")
    \cup Unless(\A o \in Listed : obj[o].type = type => ~Opened(o), "closed")

OpenCares(o) == Unless(NoneUnregisters /\ \A u \in Thread : ptr[u] # o, "settled")

(* The code of a type is there until vinput_unregister has returned.        *)
Loaded(type) ==
    \/ type \in vinput_devices
    \/ \E u \in Thread : at[u] \in InUnregister /\ arg[u] = type

(* The next step of thread t uses a struct that is freed, takes down what   *)
(* has not been set up or has been taken down, or calls into a type that is *)
(* unloaded.                                                                *)
Misuses(t) ==
    LET o == ptr[t] IN
    \/ at[t] \notin {"idle", "alloc", "loop"} /\ ~Live(o)
    \/ at[t] = "loop" /\ o # None /\ ~Live(o)
    \/ /\ at[t] = "loop_del" \/ (at[t] = "loop" /\ Live(o) /\ obj[o].type # arg[t])
       /\ next[t] # None /\ ~Live(next[t])
    \/ /\ at[t] \in {"kill", "loop_kill"} /\ Live(o)
       /\ obj[o].input = "registered" => ~Loaded(obj[o].type)
    \/ /\ at[t] \in {"del", "loop_del"} /\ Live(o)
       /\ obj[o].dev => obj[o].input # "none"
    \/ at[t] = "register" /\ ~Loaded(arg[t])

(* Likewise vinput_open on file f, or vinput_read and vinput_write, which   *)
(* may be called as long as it is open.                                     *)
FileMisuses(f) ==
    LET o == private_data[f] IN
    /\ o # None
    /\ Live(o) => opening[f] = None /\ (obj[o].input = "none" \/ ~Loaded(obj[o].type))

-----------------------------------------------------------------------------
(* vinput_register and vinput_unregister                                    *)

vinput_register(type) ==
    /\ ~Loaded(type)
    /\ vinput_devices' = vinput_devices \cup {type}
    /\ UNCHANGED <<vinput_ids, vinput_vdevices, obj, private_data, opening, at, arg, ptr,
                   next, careless>>

(* The type leaves the list; the loop over the vdevices starts at the head, *)
(* without vinput_lock.                                                     *)
vinput_unregister(t, type) ==
    /\ type \in vinput_devices
    /\ careless' = careless \cup UnregisterCares(type)
    /\ Goes(t, "idle", "loop")
    /\ vinput_devices' = vinput_devices \ {type}
    /\ LET curr == IF vinput_vdevices = <<>> THEN None ELSE Head(vinput_vdevices)
       IN  /\ ptr' = [ptr EXCEPT ![t] = curr]
           /\ next' = [next EXCEPT ![t] = IF curr = None THEN None ELSE After(curr)]
    /\ arg' = [arg EXCEPT ![t] = type]
    /\ UNCHANGED <<vinput_ids, vinput_vdevices, obj, private_data>>

(* Mutant: list_for_each, which reads the next pointer of the current       *)
(* element after the element may have been freed.                           *)
AdvanceUnsafe(t) ==
    /\ ptr' = [ptr EXCEPT ![t] = IF at[t] = "loop" THEN After(ptr[t]) ELSE ptr[t]]
    /\ UNCHANGED <<arg, next>>

(* list_for_each_safe steps to the saved next.                              *)
Advance(t) ==
    /\ ptr' = [ptr EXCEPT ![t] = next[t]]
    /\ next' = [next EXCEPT ![t] = IF next[t] = None THEN None ELSE After(next[t])]
    /\ UNCHANGED arg

LoopStep(t) ==
    LET o == ptr[t] IN
    /\ UNCHANGED <<registry, obj, private_data>>
    /\ \/ /\ o = None
          /\ Returns(t, "loop")
       \/ /\ Live(o) /\ obj[o].type = arg[t]
          /\ Goes(t, "loop", "loop_kill")
          /\ Stays
       \/ /\ Live(o) /\ obj[o].type # arg[t]
          /\ Goes(t, "loop", "loop")
          /\ Advance(t)

-----------------------------------------------------------------------------
(* Removal of one vdevice, by unexport_store or by vinput_unregister        *)

(* vinput_unregister_vdevice; vkbd has no kill operation.                   *)
UnregisterVdevice(t, from, to) ==
    LET o == ptr[t] IN
    /\ Live(o)
    /\ Goes(t, from, to)
    /\ Assign(o, obj[o].type, "none", obj[o].dev)
    /\ UNCHANGED <<registry, private_data, arg, ptr, next>>

LoopKill(t) == UnregisterVdevice(t, "loop_kill", "loop_del")

(* Mutant: the loop stops at the first vdevice of the type.                 *)
LoopDelFirstOnly(t) ==
    /\ Returns(t, "loop_del")
    /\ Destroy(ptr[t])
    /\ UNCHANGED <<vinput_devices, private_data>>

(* device_unregister drops the last reference: vinput_release_dev.          *)
LoopDel(t) ==
    /\ Goes(t, "loop_del", "loop")
    /\ Destroy(ptr[t])
    /\ Advance(t)
    /\ UNCHANGED <<vinput_devices, private_data>>

(* vinput_get_vdevice_by_id scans the list under the lock.  It stops at the *)
(* vdevice with the id, and otherwise at the last one.                      *)
LookUp(id) ==
    LET match == {o \in Listed : obj[o].id = id} IN
    IF vinput_vdevices = <<>> THEN {}
    ELSE IF match # {} THEN match ELSE {vinput_vdevices[Len(vinput_vdevices)]}

(* unexport_store up to the unlock; if the list is empty it fails.          *)
unexport_store(t, id) ==
    /\ careless' = careless \cup UnexportCares(id)
    /\ Goes(t, "idle", "found")
    /\ arg' = [arg EXCEPT ![t] = id]
    /\ \E o \in LookUp(id) : ptr' = [ptr EXCEPT ![t] = o]
    /\ UNCHANGED <<registry, obj, private_data, next>>

(* The id is read once more after the lock is dropped; -ENODEV if it is not *)
(* the one.                                                                 *)
FoundCheck(t) ==
    /\ Live(ptr[t])
    /\ \/ /\ obj[ptr[t]].id = arg[t]
          /\ Goes(t, "found", "kill")
          /\ Stays
       \/ /\ obj[ptr[t]].id # arg[t]
          /\ Returns(t, "found")
    /\ UNCHANGED <<registry, obj, private_data>>

Kill(t) == UnregisterVdevice(t, "kill", "del")

Del(t) ==
    /\ Returns(t, "del")
    /\ Destroy(ptr[t])
    /\ UNCHANGED <<vinput_devices, private_data>>

-----------------------------------------------------------------------------
(* export_store                                                             *)

(* vinput_get_device_by_type.  No reference to the type is taken.           *)
export_store(t, type) ==
    /\ careless' = careless \cup Unless(NoneUnregisters, "quiet_type")
    /\ type \in vinput_devices
    /\ Goes(t, "idle", "alloc")
    /\ arg' = [arg EXCEPT ![t] = type]
    /\ UNCHANGED <<registry, obj, private_data, ptr, next>>

(* find_first_zero_bit: VINPUT_MINORS if all bits are set.                  *)
FirstZeroBit == CHOOSE i \in 0 .. VINPUT_MINORS :
    /\ i \notin vinput_ids
    /\ \A j \in Minors \ vinput_ids : i <= j

IdFound == FirstZeroBit < VINPUT_MINORS

(* Mutant: find_first_zero_bit without set_bit.                             *)
vinput_alloc_vdeviceNoSetBit(t) ==
    \E o \in Obj :
        /\ ~Live(o) /\ IdFound
        /\ Goes(t, "alloc", "input")
        /\ obj' = [obj EXCEPT ![o] = [id |-> FirstZeroBit, type |-> None,
                                      input |-> "none", dev |-> FALSE]]
        /\ ptr' = [ptr EXCEPT ![t] = o]
        /\ vinput_vdevices' = <<o>> \o vinput_vdevices
        /\ UNCHANGED <<vinput_ids, vinput_devices, private_data, arg, next>>

(* vinput_alloc_vdevice up to the unlock: a struct, the first free id and a *)
(* place at the head of the list; -ENOMEM or -ENOBUFS otherwise.            *)
vinput_alloc_vdevice(t) ==
    \/ \E o \in Obj :
          /\ ~Live(o) /\ IdFound
          /\ Goes(t, "alloc", "input")
          /\ obj' = [obj EXCEPT ![o] = [id |-> FirstZeroBit, type |-> None,
                                        input |-> "none", dev |-> FALSE]]
          /\ ptr' = [ptr EXCEPT ![t] = o]
          /\ vinput_ids' = vinput_ids \cup {FirstZeroBit}
          /\ vinput_vdevices' = <<o>> \o vinput_vdevices
          /\ UNCHANGED <<vinput_devices, private_data, arg, next>>
    \/ /\ ~IdFound \/ \A o \in Obj : Live(o)
       /\ Returns(t, "alloc")
       /\ UNCHANGED <<registry, obj, private_data>>

AllocateInput(t) ==
    /\ Live(ptr[t])
    /\ UNCHANGED <<registry, private_data>> /\ Stays
    /\ \/ /\ Goes(t, "input", "dev")
          /\ Assign(ptr[t], obj[ptr[t]].type, "allocated", obj[ptr[t]].dev)
       \/ /\ AllocFails
          /\ Goes(t, "input", "no_input")
          /\ UNCHANGED obj

(* fail_input_dev: off the list and freed; the bit of the id stays set.     *)
FailInputDev(t) ==
    /\ Live(ptr[t])
    /\ Returns(t, "no_input")
    /\ vinput_vdevices' = Unlinked(ptr[t])
    /\ obj' = [obj EXCEPT ![ptr[t]] = None]
    /\ UNCHANGED <<vinput_ids, vinput_devices, private_data>>

(* vinput->type = device; device_register(&vinput->dev).                    *)
DeviceRegister(t) ==
    LET o == ptr[t] IN
    /\ Live(o)
    /\ UNCHANGED <<registry, private_data>> /\ Stays
    /\ \/ /\ Goes(t, "dev", "register")
          /\ Assign(o, arg[t], obj[o].input, TRUE)
       \/ /\ Goes(t, "dev", "no_dev")
          /\ Assign(o, arg[t], obj[o].input, obj[o].dev)

(* vinput_register_vdevice: the type's init registers the input device.     *)
RegisterVdevice(t) ==
    LET o == ptr[t] IN
    /\ Live(o)
    /\ UNCHANGED <<registry, private_data>>
    /\ \/ /\ Returns(t, "register")
          /\ Assign(o, obj[o].type, "registered", obj[o].dev)
       \/ /\ Goes(t, "register", "no_register")
          /\ Stays
          /\ UNCHANGED obj

(* fail_register_vinput: device_unregister destroys the vdevice through     *)
(* vinput_release_dev.                                                      *)
FailRegisterVinput(t) ==
    /\ Returns(t, "no_register")
    /\ Destroy(ptr[t])
    /\ UNCHANGED <<vinput_devices, private_data>>

(* fail_register: the vdevice is destroyed directly.                        *)
FailRegister(t) ==
    /\ Returns(t, "no_dev")
    /\ Destroy(ptr[t])
    /\ UNCHANGED <<vinput_devices, private_data>>

-----------------------------------------------------------------------------
(* /dev/vinputN                                                             *)

(* vinput_open up to the unlock; if the list is empty it fails.             *)
vinput_open(f, id) ==
    /\ private_data[f] = None
    /\ \E o \in LookUp(id) :
          /\ private_data' = [private_data EXCEPT ![f] = o]
          /\ careless' = careless \cup OpenCares(o)
    /\ opening' = [opening EXCEPT ![f] = id]
    /\ UNCHANGED <<registry, obj, at, arg, ptr, next>>

(* The id is read once more after the lock is dropped; -ENODEV if it is not *)
(* the one.                                                                 *)
OpenCheck(f) ==
    LET o == private_data[f] IN
    /\ opening[f] # None /\ Live(o)
    /\ private_data' = [private_data EXCEPT ![f] = IF obj[o].id = opening[f] THEN o ELSE None]
    /\ opening' = [opening EXCEPT ![f] = None]
    /\ UNCHANGED <<registry, obj, at, arg, ptr, next, careless>>

vinput_release(f) ==
    /\ private_data[f] # None /\ opening[f] = None
    /\ private_data' = [private_data EXCEPT ![f] = None]
    /\ UNCHANGED <<registry, obj, opening, at, arg, ptr, next, careless>>

-----------------------------------------------------------------------------
(* The calls of the class attributes and of vinput_unregister begin ...     *)
Starts(t) ==
    \/ \E type \in Type : export_store(t, type) \/ vinput_unregister(t, type)
    \/ \E id \in Minors : unexport_store(t, id)

(* ... and go on.                                                           *)
Export(t) ==
    \/ vinput_alloc_vdevice(t) \/ AllocateInput(t) \/ FailInputDev(t)
    \/ DeviceRegister(t) \/ RegisterVdevice(t) \/ FailRegisterVinput(t)
    \/ FailRegister(t)

Unexport(t)   == FoundCheck(t) \/ Kill(t) \/ Del(t)
Unregister(t) == LoopStep(t) \/ LoopKill(t) \/ LoopDel(t)

ThreadNext(t) ==
    /\ ~Misuses(t)
    /\ \/ Starts(t)
       \/ (Export(t) \/ Unexport(t) \/ Unregister(t)) /\ UNCHANGED careless
    /\ UNCHANGED opening

FileNext(f) ==
    \/ \E id \in Minors : vinput_open(f, id)
    \/ OpenCheck(f) \/ vinput_release(f)

(* The step that uses what is gone.                                         *)
Harm ==
    /\ (\E t \in Thread : Misuses(t)) \/ (\E f \in File : FileMisuses(f))
    /\ harmed' = TRUE
    /\ UNCHANGED <<registry, obj, private_data, opening, at, arg, ptr, next, careless>>

Next ==
    \/ /\ ~harmed
       /\ \/ /\ \/ \E t \in Thread : ThreadNext(t)
                \/ \E type \in Type : vinput_register(type)
                \/ \E f \in File : FileNext(f)
             /\ UNCHANGED harmed
          \/ Harm
    \/ harmed /\ UNCHANGED vars

Spec == Init /\ [][Next]_vars

-----------------------------------------------------------------------------
(* Properties                                                               *)

(* The registry stays consistent under concurrent exports, unexports,       *)
(* unregistrations and failures of every step of export_store, whatever     *)
(* care is taken, until something that is gone is used: a listed vdevice is *)
(* live, no two have the same id, and the id of each is a minor number that *)
(* is marked in use, so that an export never hands out that of a vdevice    *)
(* that exists.                                                             *)
RegistrySound ==
    /\ TypeOK
    /\ ~harmed =>
          /\ \A i, j \in DOMAIN vinput_vdevices :
                i # j => /\ vinput_vdevices[i] # vinput_vdevices[j]
                         /\ Live(vinput_vdevices[i]) /\ Live(vinput_vdevices[j])
                         /\ obj[vinput_vdevices[i]].id # obj[vinput_vdevices[j]].id
          /\ \A o \in Listed : Live(o) /\ obj[o].id \in vinput_ids

(* The ids marked in use that no vdevice has.                               *)
LostIds == vinput_ids \ {obj[o].id : o \in Listed}

(* Until something that is gone is used, an id is lost in one way only, by  *)
(* the failure of input_allocate_device, whose label takes the vdevice off  *)
(* the list and leaves its bit set.  However the other steps of concurrent  *)
(* exports fail and whatever is removed meanwhile, the ids are given back   *)
(* ("resources are freed in the exact reverse order of acquisition"), and a *)
(* lost one stays lost.                                                     *)
IdsLostOnlyWithoutInput ==
    [][~harmed' =>
       /\ LostIds \subseteq LostIds'
       /\ \A i \in LostIds' \ LostIds : \E t \in Thread :
             at[t] = "no_input" /\ at'[t] = "idle" /\ obj[ptr[t]].id = i]_vars

(* Nothing that is gone is used unless somebody was careless in one of the  *)
(* named ways, among all the races of exports, unexports, unregistrations   *)
(* and opens.  As long as the removers take care no thread holds a struct   *)
(* vinput that has been freed, what a thread is about to unregister is      *)
(* registered, and a vdevice that it is about to destroy, on any of the     *)
(* four paths that lead there, has not been destroyed before ("avoid        *)
(* calling vinput_destroy_vdevice() twice").  If those who open take care   *)
(* too, vinput_read and vinput_write, which may run at any time on an open  *)
(* file, find the input device registered and the type loaded.              *)
NoDanglingPointer ==
    /\ harmed => careless # {}
    /\ careless \cap {"known_id", "one_remover", "quiet_type"} = {} =>
          \A t \in Thread :
             /\ ptr[t] # None => Live(ptr[t])
             /\ next[t] # None => Live(next[t])
             /\ at[t] \in {"kill", "loop_kill"} =>
                   obj[ptr[t]].input = "registered" /\ obj[ptr[t]].dev
             /\ at[t] \in {"del", "loop_del", "no_register", "no_dev"} => Live(ptr[t])
    /\ careless = {} =>
          \A f \in File : private_data[f] # None =>
             /\ Live(private_data[f])
             /\ obj[private_data[f]].input = "registered"
             /\ obj[private_data[f]].type \in vinput_devices

(* vinput_unregister unregisters all vdevices of the type: once it has      *)
(* returned none is left, so none refers to the code of an unloaded module, *)
(* if no export and no unexport ran meanwhile.  Only then: an export that   *)
(* has found the type before makes a vdevice of it afterwards.              *)
AllOfTypeUnregistered ==
    ~harmed /\ "quiet_type" \notin careless =>
        \A o \in Listed : obj[o].type # None => Loaded(obj[o].type)

=============================================================================
