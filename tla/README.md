# TLA+ models of the LKMPG example modules

The repository is *The Linux Kernel Module Programming Guide*: `lkmpg.tex` and the
kernel modules under `examples/` that it explains. The programs here are those
modules. They are small, but each runs concurrently with processes, interrupts,
kernel threads and `rmmod`, and each has failure paths that are rarely exercised.
This directory holds TLA+ models of the ones with such behaviour, TLC
configurations that check them on small instances, and TLAPS proofs for every
value of the constants. File names below are relative to `src/examples/`.

`PROJECT.json` is the machine-readable index: which definition models which lines,
the runs, the mutants that show each property can fail, findings, hazards and
theorems.

## 1. Inventory

| Component | State | Operations | Used by / uses | What is hard | What makes it correct |
|---|---|---|---|---|---|
| `sleep.c`, with `other/cat_nonblock.c` | `already_open`, `waitq`, `message`, static `finished` | open (blocking or not), close, read, write | processes, signals, the wait queue | test-then-sleep against clear-then-wake; two kinds of pending signal; a static that outlives the file | one owner, no lost wake-up, end of file exactly after data, signals end the wait |
| `vinput.c`, `vinput.h` | id bitmap, list of types, list of vdevices, the vdevices themselves | `vinput_register`, `vinput_unregister`, export, unexport, open, release, read, write | types such as `vkbd.c`, sysfs, open files | lock dropped between look-up and use, a list walk without the lock, four failure paths of an export | ids and list agree, no use after free, nothing destroyed twice, nothing left of a type |
| `vkbd.c`, with read and write of `vinput.c` | `last_entry` of each vdevice, the keys pressed | init, send, read | `vinput.c`, the input core | two writers, numbers wider than a key code, reads shorter than the text | the keyboard is as the last number says, the text read is that number |
| `completions.c` | two completions, two threads | init, the threads, exit | kernel threads | threads started in one order must work in the other; two waiters on one completion; unload | crank first, exit returns, nobody runs in a removed module |
| `bottomhalf.c`, `intrpt.c`, `bh_threaded.c` | LED, work item, interrupts, GPIO lines | two interrupt handlers, work function, init, exit | hardware, workqueue | handlers on two CPUs, work re-queued while it runs, removal | LED follows the button, each press served, no interrupt outlives the module |
| `chardev2.c`, `chardev.h`, `other/userspace_ioctl.c` | `already_open`, `message`, file offset | read, write, three ioctls | client program, `cat`, `echo` | byte-wise copies race, bounds of the buffer, unchecked indices, busy flag on all paths | whole messages, indices in range, device given back |
| `chardev.c`, `static_key.c` | `already_open`, counter or key, `msg` | open, read, write, release | processes and their threads | single-open protocol, threads sharing a position, unload while open | implements the exclusive file; reads give the message made at open |
| `dht11.c` | the pin, `msg`, what its init acquires | open (a transfer with timeouts and retries), read, release | the sensor, processes | both sides drive one pin; preemption; two openers; retries | pin restored, wrong bits caught, every open returns |
| `vnetloop.c` | four counters, a sequence counter, the queue | open, stop, transmit, statistics | network core | counters read while they change | the values read belong together |
| `led.c`, `ioctl.c`, `blkram.c`, `dma.c`, `hello-sysfs.c` | what their init function acquires, little else | init, exit, handlers | kernel subsystems | failure in the middle of init, publication before initialisation | all released, in reverse order, and handlers find what they use |
| `syscall-steal.c` | an entry of the system call table, `original_call` of each module, the WP bit of each processor | init, exit, the replaced call | the whole system | modules removed in the wrong order, processes inside a module that goes away, migration | table never points to removed code; nobody runs there |
| `procfs1-4.c`, `hello-debugfs*.c`, `kbleds.c`, `sched.c`, `example_tasklet.c`, `kmem_cache.c`, `devicemodel.c`, `devicetree.c` | what their init function acquires; a buffer, a timer, a work item | init, exit, read, write, timer | processes, timer, workqueue | unchecked results, deferred work against removal | all released; nothing runs after removal |
| `hello-1..6.c`, `start.c`, `stop.c`, `print_string.c`, `example_atomic.c`, `example_mutex.c`, `example_rwlock.c`, `example_spinlock.c` | none that outlives load | load, unload | | | |

The interactions are calls from the kernel into the handlers, made concurrently;
shared state is each module's static variables; only `vkbd.c` calls another module
of the repository (`vinput.c`).

## 2. Modules

| Module | Models |
|---|---|
| `ExclusiveFile` | abstract: what a driver with an `already_open` flag promises |
| `Sleep` | `sleep.c`; proofs in `SleepProofs` |
| `Vinput` | `vinput.c`; `MCVinput` for TLC, proofs in `VinputProofs` |
| `Discipline` | what a driver is for the modules about loading, and the rules of kernel code as predicates of the text of its init and exit functions |
| `Drivers` | init and exit functions of 28 modules in 35 builds, as tables |
| `Lifecycle` | loading, failing, unwinding and removing the drivers of any table; `MCLifecycle` takes the one of `Drivers`; proofs in `RemovalProofs` |
| `BottomHalf` | handlers, work and removal of `bottomhalf.c`; proofs in `RemovalProofs` |
| `Completions` | `completions.c`; `MCRemoval` composes it with `BottomHalf` for TLC, proofs in `RemovalProofs` |
| `Chardev2` | `chardev2.c` and its client; `MCChardev2` for TLC, proofs in `Chardev2Proofs` |
| `SyscallSteal` | `syscall-steal.c`; `MCSyscallSteal` for TLC, proofs in `SyscallStealProofs` |
| `SingleOpen` | `chardev.c` and `static_key.c`; implements `ExclusiveFile`; proofs in `SingleOpenProofs` |
| `VnetLoop` | `vnetloop.c`; proofs in `VnetLoopProofs` |
| `Vkbd` | `vkbd.c` with `vinput_read` and `vinput_write`; `MCVkbd` for TLC, proofs at the end of `VinputProofs` |
| `Dht11` | `dht11.c` and its sensor; `MCDht11` for TLC, proofs in `Dht11Proofs` |

Every module keeps the source's names where it can. Operators whose comment begins
with *Mutant* are plausible bugs; no specification uses them, they document what
each property would catch.

**Sleep.** `pc` says where each process is in `module_open` or `module_close`. Each
atomic operation is a step: the compare-and-exchange (`TryWithoutBlocking`,
`LoopCondition`), the parts of `wait_event_interruptible` (`PrepareToWait` queues
the task, `Recheck` tests the condition, `ScheduleReturns` needs a wake-up or a
signal), the test of the pending signals (`TestSignal`), and the two halves of
`module_close` (`CloseClears`, `CloseWakes`). Signals arrive at any time, in the
thread's own pending set or in that shared by the process; the code looks at the
first only. `Tgkilled` and `Killed` say which processes get which kind.
`module_output` and `module_input` are atomic since only the owner of
the file runs them. The message is its length. A process may close the file at any
moment, with or without having read to its end; `leftOver` remembers that it was
closed between data and end of file.

**ExclusiveFile.** Callers ask, are granted, refused or give up, and release. A
grant needs a free file, a refusal one that is owned. `Sleep` implements it under
the mapping `owner`, `caller` at the end of the module: `-EAGAIN` is decided at the
failed compare-and-exchange, not when it is returned.

**Vinput.** Memory is explicit: `obj[o]` holds the fields of a live `struct vinput`,
and a struct is reused after it is freed. Every critical section of `vinput_lock`
is one step, every call out of the driver another, so that unexport is look-up,
test of the id, unregistration, destruction; export has five steps and four
failure paths. `vinput_unregister` walks the list with a saved next pointer and
without the lock, as in the code. A look-up that finds nothing ends with the
last element in hand, whose id is read after the lock is dropped; `unexport_store` and
`FoundCheck`, `vinput_open` and `OpenCheck` are the two halves. Nothing keeps the
callers from racing. The code leaves some races to its users: `Cares` lists them, and an
action whose caller does not take one of these cares goes on and records it in
`careless`. A step that uses a freed struct, an input device that is not set up or has
been taken down, or a type that is unloaded (`Misuses`, `FileMisuses`) has no defined
outcome: it sets `harmed`, and the behaviour is not followed any further. `vinput_read`
and `vinput_write` are covered by this, for they may be called as long as a file is open.

**Completions.** A completion is its count. `complete_all` makes it `All`
(`UINT_MAX`), `complete` adds one and stops there, a wait takes one unless it is
`All`. Points of a thread that are in the text of the module are told apart from
those in the kernel.

**Discipline, Drivers, Lifecycle.** `Drivers` holds a table for each init and exit function:
the resource each step takes, what a failure of the step releases (its `goto` label
and all below), whether the code looks at the result, what the exit function
releases, through which resource user space or hardware can enter, what the
handlers use, and whether `.owner` pins the module. Builds that differ by kernel
version have a table each. A step may be unchecked (`device_create`, all of
debugfs), may depend on an earlier one, or may be a test of several earlier ones
(`kmem_cache.c`). Deferred work is an entry too: a queued work item, tasklet or
timer lets its function run until the exit function has waited for it. The work of
`bottomhalf.c` is an entry that appears with its first interrupt and that no label and
not even the exit function takes away. `Lifecycle`
runs any table: `insmod`, any step failing, unwinding, handlers entering as soon as
the entry exists, `rmmod`. `Discipline` states the rules that a table can keep or
break: every failing step and the exit function release all that may have been
acquired (`Complete`), and only that (`FreesHeld`), a ladder releases in reverse order
(`InReverse`), an entry is acquired after what the handlers use and released before it,
and its release waits for them or their files pin the module (`Guarded`). The rules
are about the text of the functions, the properties of `Lifecycle` about their
behaviour; section 4 proves that the first imply the second.

**BottomHalf.** Each `button_isr` is test, set, schedule; a workqueue item can be
pending and running at once; `FreeIrq` waits for a running handler
(`free_irq` does), the work is not waited for. If the workqueue comes to it, or is in
the middle of it, when the module is out, that is a fault (`WorkFault`), never a run.

**Chardev2.** `frame` is the stack frame of a handler: arguments, remaining length,
position. One byte per step is copied. Clients do what `userspace_ioctl.c` does:
set the message, get it byte by byte, get it whole. Raw processes call `read()`,
`pread()` and `write()`, which do not look at `already_open`, and `IOCTL_GET_NTH_BYTE`
with parameters of their own; `latest` becomes `Mixed` when one of them writes. Neither
an offset nor a parameter is compared with the size of `message[]`: a load behind it
gives any byte (`Peek`) or faults (`Fault`), which kills the process where it is, in an
ioctl with `already_open` set.

**SyscallSteal.** Each module keeps the table entry and replaces it in two steps, and
restores what it kept when it is removed, whether or not the entry is its own (the
code prints an alert and goes on). A process that calls `openat` goes down through
the functions it finds and back up through the same ones. Write protection is a bit
of each processor, the thread's processor may change under it. `trouble` records what
the code does not prevent: a removal out of order, overlapping init or exit functions,
a migration, a call that outlasts the `msleep`. The invariants say that nothing else
leads to harm. How the address of the table is found is abstracted to found or not
found.

**SingleOpen.** One variable says which of the two drivers runs; they differ in the
text made at open and in `device_write`. Each process has two threads, each with a
copy of the file position for the time of a `read()`; a byte is copied per step.
Release is called when the file is closed and the last call on it has ended. A command
that is shorter than the word it is compared with leaves open what the key becomes,
since `command[]` is not initialised.

**VnetLoop.** The transmit path updates the counters in any order between begin and
end of the sequence counter (which exists in the 32-bit build only), and the reader
reads them in any order. `total` and `window` remember the values that the counters
had together.

**Vkbd.** Numbers are longs of small width; the conversion to an unsigned int and the
negation of the smallest long are modelled by what they do. The text of a number is
a sequence of tagged bytes, so that a byte of another number, a byte from another
place and a byte nobody has set can be told apart. The order of the reports is that
in which writers get to `input_report_key`, not that of the lock.

**Dht11.** The sensor is a position in the sequence of levels of a transfer. Waits and
delays are related to it by what lasts longer: a level lasts until those who watch
have noticed it, or else somebody was too slow, which is counted in `slips`; a zero's
high level is over after 50 us, a one's is not; a `mdelay` or `msleep` outlasts a
transfer. When the pin is an output the line may show either side's level. A byte is
shifted together in a variable of `Width` bits, as in a `uint8_t`.

## 3. Runs

Runs that pass:

| Run | Shows | Instance |
|---|---|---|
| `sleep` | no process asleep on a free file; the NUL fits; `read()` reports end of file exactly after data, its own or what the file before has left; `sleep.c` implements `ExclusiveFile`, so one owner at a time; a free file is taken by a waiter; a signal to the thread ends the wait | 3 processes, inputs shorter and longer than the buffer, a read buffer that is too short for the longest output and not for the others, signals to the thread of two processes and to the whole process of one |
| `vinput` | something that is gone is used only after one of the five cares was not taken; while removers take care no thread holds a freed struct or destroys one twice, while all do no open file is left without its device; until the first harm the registry is consistent, nothing is left of a type and ids are given back on every path but `fail_input_dev` | 3 threads, 2 files, 2 structs, 2 types, 2 ids, one kind of carelessness in a behaviour |
| `removal` | crank first; each load does its work once, whatever fails, and leaves no thread with work to do; exit returns; the LED is off after removal; each request for the work is followed by a run or, after rmmod, by a fault. Its assumption `DriversKeepTheRules` has TLC evaluate the rules of `Discipline` on all 35 tables: exactly the array builds and `bottomhalf.c` break `Complete`, exactly `led`, `dht11`, `chardev` and `chardev2` break `Guarded`, and all keep the others, so the theorems of section 4 apply to the drivers of the repository | 3 loads, `All` = 3, 2 interrupts |
| `lifecycle` | with the tables of `Drivers`: no ladder or exit function releases what is not held, ladders release in reverse order; complete unwinding, handlers find their resources, no handler in a removed module | 35 builds |
| `chardev2` | one process in an ioctl at a time; `IOCTL_GET_MSG` gives the latest message whole unless `write()` interferes; only an unchecked `pread()` offset or `IOCTL_GET_NTH_BYTE` parameter leads outside `message[]`, although reads and writes race; the device is given back unless the caller dies of such a parameter | 2 clients, 1 raw process, `BUF_LEN` 2, an empty string and strings below, at and above its size, offset and parameter 3 |
| `syscall_steal` | with removals in order the table leads through all loaded modules, no removed one, to the kernel; nobody is left in removed text; write protection comes back; a call never goes round or to NULL | 3 modules, 1 process, 2 processors |
| `single_open` | both drivers implement `ExclusiveFile`; reads are pieces of the message made at open; close frees the device | 2 processes with 2 threads each, 3 opens |
| `vnetloop` | statistics are a snapshot (32-bit build) and current (both); counters add up | 3 packets of 2 lengths, 1 reader, both builds |
| `vkbd` | keyboard as `last_entry` says unless a report was overtaken; a large read gives the text of `last_entry`; reading ends | 2 writers, 1 reader, 5 numbers and texts that are none |
| `dht11` | pin restored; a wrong bit is caught and a punctual transfer has none; a retry never succeeds; a reader gets its own reading; opens return | 2 processes, 2 attempts, one late look, 2 readings |

Two runs end in a violation, a disagreement between the code and its comment, quoted
under `findings` in `PROJECT.json`:

- `sleep_signal`: `sleep.c:120-122` says that a process that was woken by a signal
  returns `-EINTR`. `sleep.c:124` looks at the thread's pending set only, so a process
  with a signal from `kill()` goes round the loop without sleeping until the owner closes
  the file. `SignalInterrupts` is what does hold.
- `lifecycle_leak`: a failing second `gpio_to_irq` leaves the first interrupt requested on
  kernels before 6.10 (`intrpt.c:149`; `bottomhalf.c:189` and `bh_threaded.c` alike).

More deviations are part of the models, and the properties name them: an open file may
get end of file at its first read and a short read is followed by one (`sleep.c:44, 57`;
`EofFollowsData` says exactly when); a failing `input_allocate_device` loses the id
(`vinput.c:209`; `IdsLostOnlyWithoutInput` says that nothing else does); queued work
outlives the module (`bottomhalf.c:239`; `EveryPressServed` names the fault);
`IOCTL_SET_MSG` is to "set that to be the device's message" (`chardev2.c:135-136`) and
leaves the old one if it is given an empty string (`LatestMessage`); a load behind
`message[]` that faults leaves the device busy for ever (`chardev2.c:168`; `DeviceFreed`).

`sleep.c:197-201` and the guide's chapter on `/proc` say that removal is dangerous while
processes are inside a handler of a `/proc` file. On the kernels the examples are for,
`remove_proc_entry` waits for the calls in progress and refuses new ones: a process that
waits in `module_open` delays `rmmod` and is not left behind. `Lifecycle` models that
(`waits` in the tables of the `/proc` drivers), so `ModulePinned` holds for them.

The passing runs hold under conditions that the code leaves to its surroundings.
Each is a constant or a condition that the property names, and each is needed: without it
TLC reports a violation. In particular each of the five cares of `Vinput`, left out alone,
leads to `harmed`.

| Condition | Without it | Where |
|---|---|---|
| `Sleep!SignalInterrupts`: the signal is in the thread's own set | the run `sleep_signal` | `sleep.c:124` |
| `Vinput`: `one_remover` not in `careless` | two removers of one vdevice both destroy it: `NoDanglingPointer` names it | `vinput.c:310` |
| `Vinput`: `quiet_type` not in `careless` | an export that overlaps `vinput_unregister` leaves a vdevice of a type that is gone, an unexport frees what the loop has saved: `AllOfTypeUnregistered` and `NoDanglingPointer` name it | `vinput.c:254, 369` |
| `Vinput`: `known_id` not in `careless` | the id of the last element is read after the lock is dropped: `NoDanglingPointer` names it | `vinput.c:69` |
| `Vinput`: `closed` not in `careless` | a file keeps a pointer to a freed vdevice, or `vinput_open` reads the id of one: `NoDanglingPointer` names it | `vinput.c:84, 69` |
| `Vinput`: `settled` not in `careless` | a file is opened while its vdevice has no input device yet, or no more: `NoDanglingPointer` names it | `vinput.c:84, 261` |
| `led`, `dht11` in `Lifecycle!Exposed` | the device is published before its GPIO line is requested: `HandlersFindResources` fails | `led.c:136` |
| `chardev`, `chardev2` in `Lifecycle!Exposed` | no `.owner`: removable while open, `ModulePinned` fails | `chardev.c:47`, `chardev2.c:185` |
| the array builds in `Lifecycle!Leaking` | the run `lifecycle_leak` | `intrpt.c:149` |
| `bottomhalf.c` in `Lifecycle!Leaking` | its work is neither flushed nor cancelled: `NothingLeft` and `ModulePinned` fail | `bottomhalf.c:239` |
| `Chardev2`: strings that are not empty | setting an empty one changes nothing; `LatestMessage` does not count them | `chardev2.c:144` |
| `Chardev2`: `pread()` offsets and `IOCTL_GET_NTH_BYTE` parameters up to `BUF_LEN` | the load is outside `message[]` and may fault; `NeverPastTheEnd` and `DeviceFreed` name them | `chardev2.c:68, 168` |
| `SyscallSteal`: `trouble` empty or named in the property | the table leads to removed code, a processor stays unprotected, a process is left in removed text | `syscall-steal.c:257, 281, 293` |
| `VnetLoop`: the 32-bit build for the snapshot | in the 64-bit build there is no sequence counter and the four values need not belong together | `vnetloop.c:79` |
| `Vkbd`: the last report was not overtaken | the reports come in the other order than the stores: `KeyboardAgrees` fails | `vkbd.c:63` |
| `Vkbd`: reads of more than `VINPUT_MAX_LEN` bytes | shorter ones copy bytes of `buff` that nobody has set: `ReadsLastEntry` fails | `vinput.c:105` |
| `SingleOpen`: threads do not read at once (`Mixed`) | the same bytes are read twice; each read is still a piece of the message | `chardev.c:148` |
| `Dht11`: nobody else opens (`alone`), nobody late (`slips`) | readings are replaced or misread; more than one wrong bit can have the right sum | `dht11.c:112, 99` |

`Completions` has one more window, which `EachLoadSpinsOnce` has to allow:
`completions_exit` can return while a thread is between `complete_all` and the call
that leaves the text of the module (`completions.c:19`). A thread there has no work
left to do.

**Bounds.** Three processes or threads give an owner, one that wakes or is woken,
and a newcomer between them; all the races named above need at most that. Two
structs and two ids let one be freed and reused while the other is on the list, with a
free id below or above; two types tell "all of this type" from "all". `OneCareless` cuts
off behaviours with carelessness of two different kinds, any number of times of one kind
is allowed; the theorems have no such bound. A
buffer of two bytes has first, last and terminating byte; the strings are empty, below, at
and above its size, and offset and parameter 3 are the first outside. `MESSAGE_LENGTH` 3
with inputs of 2 and 5 is the same for `sleep.c`; a read buffer of 13 bytes holds the
shortest output of 12 and not the longest of 14.
Three loads let a second and third start from the state the first left. `All` must
only exceed the two waiters. `Lifecycle` and `BottomHalf` are unbounded: their
state is finite as it is. In `Lifecycle` a behaviour loads and removes one driver
again and again; drivers do not interact. Three modules let one be removed from the
middle of a chain; a second process would only repeat what one call does. Three
packets let a reader meet two updates in one attempt and one in the next. In `Vkbd`
16 unsigned ints, longs down to -128 and keys below 3 give a key, its release, the
first code outside the map, a number that wraps to a key and the number whose negation
overflows. In `Dht11` a byte has one bit, so sums of two and three do not fit one; two
attempts are a first and a last; the counters `slips` and `opens` start again when
the device is unused. Deadlock is checked in every run but `syscall_steal`, where each
module is loaded at most once and a process in removed text stops.
Symmetry is used for interchangeable processes and objects in runs of safety
properties only.

**Fairness.** `Sleep!FairSpec` and `Chardev2!FairSpec`: a process inside a handler
is scheduled again (weak fairness of its steps, per process); nothing is assumed of
user space, which need not close, read or send a signal. `SingleOpen!FairSpec`: a
`read()` that has begun and a release that is due go on. `Vkbd!VkbdFairSpec`: a reader
reads to the end of file, as `cat` does. `Dht11!FairSpec`: the sensor goes through its
levels and an open goes on; the timeouts make that enough. `Completions!Fairness`: threads
and the running `insmod` or `rmmod` continue. `BottomHalf!BHFairness`: an interrupt handler
runs to its end and the workqueue gets to what is queued, loaded or not; `rmmod` and
presses are not fair. `Lifecycle`, `Vinput`, `SyscallSteal` and `VnetLoop` have safety properties
only.

## 4. Proofs

Each theorem has the form `Spec => []P` or is a refinement, and holds for every value of
the constants that satisfies the named assumption of the module. The step lemmas have a
case for each action.

**`SleepProofs`**, from `SleepAssumption` (the buffer is not empty, `NoProc` is no
process, lengths are natural numbers), for any set of processes:

- `TypeCorrect`: `TypeOK`, which includes that the message leaves room for its NUL.
  The safety theorems cover signals of both kinds and all read sizes.
- `ExclusiveAccess`, `NoWakeupIsLost`: `MutualExclusion` and `NoLostWakeup`. The
  inductive invariant `IInv` is their conjunction with `TypeOK`. They are inductive
  only together: that a sleeper has an owner to wait for uses that `already_open`
  is set only while some process has the file, and a closing process goes through
  "wake", which stands in for the owner until `wake_up`.
- `Refinement`: `Spec => ImplementsExclusiveFile`. Lemmas `OwnerIsHolder`,
  `NobodyOwns` and `SomebodyOwns` tie the mapped owner to the flag; `CallerMoves`
  and `OwnerStays` describe a step of one process; then each kind of step is an
  abstract step or a stutter.
- `EofIsInherited`: `EofFollowsData`, with no condition on readers or buffers. The
  invariant `Reads` says that the static `finished` is set exactly while the process that
  has the file was given data by its latest read, or nobody has read since the file was
  left in that state (`leftOver`). It needs the exclusion of `IInv`: the flag belongs to
  no process.

**`Chardev2Proofs`**, from `Chardev2Assumption` (buffer not empty, `IOCTL_GET_MSG` asks
for more than the buffer holds, strings without NUL):

- `StaysInBuffer`: `NeverPastTheEnd` for any processes, strings, offsets, parameters and
  sizes. It is not inductive: a byte is put after it was tested, and another process may
  have written the buffer in between. `IInv` adds, per process, what `Indices` says:
  a reader that started inside and is about to put a byte is below `BUF_LEN` (it has seen
  a byte that is not NUL, and the last byte is NUL for ever), its position is where it
  started plus what it has put, only a `pread()` starts outside, and the client's index is
  below `BUF_LEN` after a byte that is not NUL.
- `TypeCorrect`: `TypeOK`, from the same invariant.
- `IoctlIsExclusive`: `OneProcessAtATime` for any number of clients and of raw processes.
  The invariant `Exclusion` says that whoever is between `device_ioctl` and its end, or was
  killed there, is alone, and the flag is set.
- `FetchesLatest`: `LatestMessage`, for all strings, of which empty ones set nothing. On top of
  the two invariants above: outside a `SET_MSG` the buffer holds `latest`, cut to its size,
  with a NUL (`Whole`); a client that sets it has copied a prefix, one that reads it has
  put a prefix (`Frames`, `Copied`). All of it is void once `latest` is `Mixed`.

**`RemovalProofs`** is about loading and removal, in three parts.

- `Lifecycle`, from `DriverAssumption` (the tables have the shape of `Discipline`), for any
  table of drivers of any length. Each theorem takes as hypothesis the rules it needs, for the
  drivers that the property speaks of: `LoadingLeavesNothing` (`NothingLeft`) needs
  `Complete`; `ReleasesAreOrdered` (`ReleasesHeld`) needs `FreesHeld` of all, and `Complete`
  and `InReverse` of those not in `Leaking`; `HandlersAreSafe` (`HandlersFindResources`) and
  `RemovedMeansIdle` (`ModulePinned`) need `Complete` and `Guarded`. None of the properties
  is inductive. `Owned` needs no rule: nothing is held twice, and what the checked steps so
  far have acquired is held. `Accounted` says that what is held is what the steps so far may
  have acquired, then what is left to release; `StillHeld` the converse for the releases to
  come; `Ordered` that what is held stands in the order of the steps and the rest of a ladder
  in reverse, but for the two allocations of `kmem_cache.c` that are tested together and of
  which a failing test has found at most one; `Shielded` that while an entry is held all that
  handlers use is, and that a handler runs only then. The lemmas `TakenOut`, `FirstAndRest`,
  `OneStepOn` and `LaterOneWay` describe the sequences and the text of a driver.
- `LedStaysOff`: `LedOffWhenOut` of `BottomHalf`. `BHInv` adds that a handler runs only while
  its interrupt is requested, which `free_irq`'s waiting gives, and that the LED is off from
  `gpio_set_value` on.
- `CrankComesFirst` (`CrankFirst`) and `ExitWaitsForAll` (`EachLoadSpinsOnce`) of
  `Completions`, from `CompletionsAssumption` (`All` exceeds the two waiters), for any number
  of loads. Neither is inductive. `BeforeWake` fixes the state while the threads are created,
  also along the failure paths; `AfterWake` says that a completion's count is `All` exactly
  when its thread has done its work, so that a wait that returns, of the flywheel thread or
  of the exit function, returns late enough.

**`SingleOpenProofs`**, from `SingleOpenAssumption`, for any processes, threads, opens and
read lengths:

- `Refinement`: both drivers implement `ExclusiveFile`. The flag is set exactly while one
  process is between its compare-and-exchange and the end of `device_release`, and no two
  are (`Exclusion`).
- `ReadersGetTheirMessage`: `ReadsOwnMessage`. `FileOf(p)` says what the file of a process
  and the frames of its threads are worth: the text is the one made at its open, positions
  stay within it, and without `Mixed` the bytes read are those up to the position. The
  types alone are not inductive, since a thread writes back a position that it has kept
  while another thread moved on.

**`VnetLoopProofs`**, from `VnetLoopAssumption` (a packet is not shorter than its header),
for any readers, packets and lengths: `ReadersGetOneMoment` (`StatsAreConsistent`) and
`CountersAgree` (`CountersAddUp`). `Xmit` says by how much the counters are ahead of the
last complete update, `Sync` that the sequence counter is odd exactly during an update of
the 32-bit build, `Sums` how the totals relate, and `Copies(r)` that as long as the sequence
counter is what it was when the reader began, what it has copied are the totals of now. In
the 64-bit build only the bounds of each copy remain.

**`SyscallStealProofs`**, from `SyscallStealAssumption` (finitely many modules, which are not
the kernel's function), for any processes and processors: `TableIsSound`,
`RemovedTextIsLeft`, `ProtectionIsRestored` and `CallsEnd` for the four invariants of the
run. What a call goes through is `Way`, the least set with the first function that is closed
under `original_call`; so there is no recursion in the module, and the lemmas `WayIsLeast`
and its kin do what an induction would. `Kept` (a module keeps what it found before anybody
can find the module) gives the absence of cycles, whatever the order of removals;
`StackSound` carries it to calls that are under way. `Nested` describes the chain if
removals are in order and nothing overlaps: the functions in use are stacked and only the
uppermost is being removed. `Waited` says that those an exit function does not wait for are
not on the way to the module. `Alone` and `Processors` are for the write protection.

**`VinputProofs`**, from `VinputAssumption`, for any threads, files, structs, types and ids:

- `RegistryIsSound` (`RegistrySound`) and `IdsAreGivenBack` (`IdsLostOnlyWithoutInput`) hold
  whatever care is taken. In `RInv` the list has the live structs, each once (`Linked`), their
  ids are in use and different (`Ids`), a thread that exports has a type (`Args`). What comes
  after the use of something that is gone is not defined, so nothing is claimed of it; but
  the theorems cover every race up to that step, and the next says when it can come.
- `NothingDangles` (`NoDanglingPointer`), with no hypothesis. `Recorded` says that `careless`
  only grows and that a step which leaves a care out is in it, so that an invariant may be
  conditional on it: `CarefulInv` is `Careful => DInv`, where `Careful` says that removers took
  the first three cares. `DInv` adds to `RInv` that no two threads hold the same struct
  (`Unique`), that what they hold is live (`ThreadOK`), that a struct is whole unless a thread
  is making it or taking it apart (`Whole`), and, as long as all cares were taken, that nobody
  is about to remove the struct of an open file (`FilesOK`). `NoThreadMisuses` and
  `NoFileMisuses` conclude that there is no step to `harmed`; a carelessness precedes each
  (`HarmInv`).
- `TypesLeaveNothing` (`AllOfTypeUnregistered`) with the one condition that the property names:
  `QuietInv` is `QInv` as long as `quiet_type` was taken, the other cares or not. In `QInv` a
  thread in `vinput_unregister` has the driver for itself (`Alone`), the structs before its
  place in the list are of other types and its saved next pointer is the next of the list
  (`LoopOK`), and a thread exports a type that is registered (`Registered`).
- `KeyboardIsAsWritten` (`KeyboardAgrees`) and `ReadersGetLastEntry` (`ReadsLastEntry`) are
  about `vkbd.c`, from `VkbdAssumption`, for any readers, writers, numbers and widths. As long as no report was overtaken, the last of the writers that have not reported is the
  one that stored `last_entry` (`Agreeing`), and no writer waits twice (`Once`). What a
  reader with large buffers has got is nothing or ends with the text, so that a further read
  returns bytes only if the number has changed (`Got`).

**`Dht11Proofs`**, from `Dht11Assumption` and `PowersOfTwo` (2^(w+1) = 2 * 2^w for the powers
in use: the provers know no exponentiation), for any processes, readings, attempts, late
looks and width of a byte:

- `PinIsRestored`: `PinRestored`, from the types and what each place in `device_open` says
  about the pin (`Pin`).
- `RetriesAreInVain` (`RetryIsInVain`) and `ReadsTheReading` (`ReadsOwnReading`) from `DInv`:
  who else can be inside (`AloneOK`), what the sensor does while one process is alone
  (`SensorOK`), that an attempt after the first finds no sensor that answers (`Vain`), and
  that what is read comes from the process's own reading (`Own`).
- `ReadingsAreRight`: `ReadingIsRight`. `InStep` says that a process that is alone and
  punctual is at the bit that the sensor sends and that the bits so far are those of the
  reading; `Summed` that a process past the check has bytes whose sum is right. That one
  wrong bit changes the sum is arithmetic: bytes are shifted together from their bits, so
  two that differ in one bit differ by a power of two below 2^`Width`
  (lemmas on `Shifts`, where `LeastMember`, the least member of a set of
  numbers, takes the place of induction).

**Only model-checked.** All liveness properties (`FreeFileIsTaken`, `SignalInterrupts`, the
violated `AnySignalInterrupts`,
`ExitReturns`, `EveryPressServed`, `DeviceFreed`, `CloseFreesDevice`, `ReadingEnds`,
`OpenReturns`): fairness is outside the prover's reach. Every invariant that a run checks
is also proved. That the tables of `Drivers` keep the rules of `Discipline` is
evaluated by TLC, table by table; they are constants, so that there is nothing to prove.

## 5. Not modelled

- The handlers of `led.c`, `ioctl.c`, `blkram.c`, `hello-sysfs.c`, `procfs1-4.c`,
  `hello-debugfs-file.c` and the callbacks of `devicemodel.c` and `devicetree.c`: only
  init and exit are modelled. They copy one value or one buffer, log, or (blkram) copy
  one request at a time in the order the block layer gives them.
- The search for the system call table (`syscall-steal.c:164-215`), which reads kernel
  text or symbols of one architecture, and the probe handler, which logs.
- Which LEDs the timer of `kbleds.c` lights; `Lifecycle` has the timer as an entry.
- `example_atomic.c`, `example_mutex.c`, `example_rwlock.c`, `example_spinlock.c`,
  `print_string.c`, `hello-1..6.c`, `start.c`, `stop.c`: straight-line calls of one
  thread at load, and log lines.
- Build files, scripts, the guide's text and the test tooling.
- The kernel itself is modelled from how the modules use it (wait queues,
  completions, workqueues, signals, `free_irq`, sequence counters, the input core,
  the sensor's protocol) and marked external in the map.

## 6. Plan

Done, in order: `Sleep` with its abstract specification and proofs; `Vinput`;
`Completions`; `Drivers` and `Lifecycle`; `BottomHalf`; `Chardev2` and proofs;
`SyscallSteal`; `SingleOpen`; `VnetLoop`; `Vkbd`; `Dht11`; the tables of fourteen more
builds in `Drivers`; the proofs of every safety property that a run checks, for
every value of the constants; `Lifecycle` for every table, with the rules of `Discipline`.

Left, as the code grows: a table in `Drivers` for each new example module, whose rules
`DriversKeepTheRules` then checks, and the handlers of section 5 if they come to share
state.
