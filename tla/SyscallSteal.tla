---------------------------- MODULE SyscallSteal ----------------------------
(***************************************************************************)
(* examples/syscall-steal.c: modules that put a function of their own in    *)
(* the openat entry of the system call table, keep what they found there in *)
(* original_call, and put that back when they are removed.  Several modules *)
(* of this kind are loaded and removed, each at most once and in any order, *)
(* while processes call openat.                                             *)
(*                                                                          *)
(* A function is named by the module it belongs to.  A module's text is     *)
(* there until its exit function has returned; what a process does that     *)
(* runs text that is gone, or a thread that writes the table while its CPU  *)
(* protects it, is undefined and left out, and the invariants say that none *)
(* gets there.  A process comes back through the modules it went through.   *)
(***************************************************************************)
EXTENDS Naturals, Sequences, FiniteSets

CONSTANTS
    Mod,             \* the modules
    Proc,            \* the processes that call openat
    Cpu,             \* the processors, each with its WP bit of cr0
    sys_openat,      \* the kernel's own function
    None             \* NULL

ASSUME SyscallStealAssumption ==
    /\ IsFiniteSet(Mod)
    /\ {sys_openat, None} \cap Mod = {} /\ sys_openat # None
    /\ None \notin Cpu

VARIABLES
    sys_call_table,  \* its entry __NR_openat
    original_call,   \* of each module
    at,              \* where the init or exit function of each module is
    cpu,             \* the processor that it runs on, None: not running
    wp,              \* the processors that protect read-only pages
    stack,           \* the functions a process is in, outermost first
    returning,       \* sys_openat has been reached and the process comes back
    waits,           \* the calls under way when a module began its msleep
    trouble          \* what the code cannot prevent and has happened, below

vars == <<sys_call_table, original_call, at, cpu, wp, stack, returning, waits, trouble>>

(*   "alert":     a module was removed while the table held somebody else;   *)
(*   "overlap":   two modules were in init or exit functions at once;        *)
(*   "migrated":  such a function was moved to another processor;            *)
(*   "long_call": an openat call took longer than the msleep of an exit.     *)
Troubles == {"alert", "overlap", "migrated", "long_call"}

Function == Mod \cup {sys_openat}

(* "new": not loaded; "in": loaded; "gone": out of memory; the others are    *)
(* points of syscall_steal_start and syscall_steal_end.                      *)
Patching == {"start", "saved", "replaced", "end", "restored"}
At       == {"new", "in", "sleep", "gone"} \cup Patching

TypeOK ==
    /\ sys_call_table \in Function
    /\ original_call \in [Mod -> Function \cup {None}]
    /\ at \in [Mod -> At]
    /\ cpu \in [Mod -> Cpu \cup {None}]
    /\ wp \subseteq Cpu
    /\ stack \in [Proc -> Seq(Function \cup {None})]
    /\ returning \in [Proc -> BOOLEAN]
    /\ waits \in [Mod -> SUBSET Proc]
    /\ trouble \subseteq Troubles

Init ==
    /\ sys_call_table = sys_openat
    /\ original_call = [m \in Mod |-> None]
    /\ at = [m \in Mod |-> "new"]
    /\ cpu = [m \in Mod |-> None]
    /\ wp = Cpu
    /\ stack = [p \in Proc |-> <<>>]
    /\ returning = [p \in Proc |-> FALSE]
    /\ waits = [m \in Mod |-> {}]
    /\ trouble = {}

calls == <<stack, returning>>

Goes(m, from, to) ==
    /\ at[m] = from
    /\ at' = [at EXCEPT ![m] = to]

Overlap(m) == IF \E k \in Mod \ {m} : at[k] \in Patching THEN {"overlap"} ELSE {}

-----------------------------------------------------------------------------
(* cr0: bit 16 of the processor that the thread happens to run on           *)

disable_write_protection(m) ==
    \E c \in Cpu : cpu' = [cpu EXCEPT ![m] = c] /\ wp' = wp \ {c}

(* Mutant: write protection stays disabled.                                 *)
enable_write_protectionNot(m) ==
    /\ cpu' = [cpu EXCEPT ![m] = None]
    /\ UNCHANGED wp

enable_write_protection(m) ==
    /\ wp' = wp \cup {cpu[m]}
    /\ cpu' = [cpu EXCEPT ![m] = None]

(* The scheduler moves the thread; cr0 does not follow it.                  *)
Migrate(m) ==
    /\ cpu[m] # None
    /\ \E c \in Cpu \ {cpu[m]} : cpu' = [cpu EXCEPT ![m] = c]
    /\ trouble' = trouble \cup {"migrated"}
    /\ UNCHANGED <<sys_call_table, original_call, at, wp, calls, waits>>

-----------------------------------------------------------------------------
(* syscall_steal_start                                                      *)

(* acquire_sys_call_table finds the table, or the module is not loaded.     *)
syscall_steal_start(m) ==
    /\ \/ /\ Goes(m, "new", "start")
          /\ disable_write_protection(m)
          /\ trouble' = trouble \cup Overlap(m)
       \/ /\ Goes(m, "new", "gone")
          /\ UNCHANGED <<cpu, wp, trouble>>
    /\ UNCHANGED <<sys_call_table, original_call, calls, waits>>

(* Mutant: what is kept is the entry after it has been replaced.            *)
KeepOriginalLate(m) ==
    /\ Goes(m, "start", "saved")
    /\ original_call' = [original_call EXCEPT ![m] = m]
    /\ UNCHANGED <<sys_call_table, cpu, wp, calls, waits, trouble>>

KeepOriginal(m) ==
    /\ Goes(m, "start", "saved")
    /\ original_call' = [original_call EXCEPT ![m] = sys_call_table]
    /\ UNCHANGED <<sys_call_table, cpu, wp, calls, waits, trouble>>

Replace(m) ==
    /\ Goes(m, "saved", "replaced")
    /\ cpu[m] \notin wp
    /\ sys_call_table' = m
    /\ UNCHANGED <<original_call, cpu, wp, calls, waits, trouble>>

StartReturns(m) ==
    /\ Goes(m, "replaced", "in")
    /\ enable_write_protection(m)
    /\ UNCHANGED <<sys_call_table, original_call, calls, waits, trouble>>

-----------------------------------------------------------------------------
(* syscall_steal_end                                                        *)

(* The entry is tested, and an alert given when it is not ours; it is       *)
(* restored in either case.                                                 *)
syscall_steal_end(m) ==
    /\ Goes(m, "in", "end")
    /\ disable_write_protection(m)
    /\ trouble' = trouble \cup Overlap(m)
                  \cup (IF sys_call_table # m THEN {"alert"} ELSE {})
    /\ UNCHANGED <<sys_call_table, original_call, calls, waits>>

(* Mutant: an entry that is not ours is left alone.                         *)
RestoreOurs(m) ==
    /\ Goes(m, "end", "restored")
    /\ cpu[m] \notin wp
    /\ sys_call_table' = IF sys_call_table = m THEN sys_openat ELSE sys_call_table
    /\ UNCHANGED <<original_call, cpu, wp, calls, waits, trouble>>

Restore(m) ==
    /\ Goes(m, "end", "restored")
    /\ cpu[m] \notin wp
    /\ sys_call_table' = original_call[m]
    /\ UNCHANGED <<original_call, cpu, wp, calls, waits, trouble>>

(* Mutant: the exit function does not sleep.                                *)
MsleepNot(m) ==
    /\ Goes(m, "restored", "gone")
    /\ enable_write_protection(m)
    /\ UNCHANGED <<sys_call_table, original_call, calls, waits, trouble>>

Msleep(m) ==
    /\ Goes(m, "restored", "sleep")
    /\ enable_write_protection(m)
    /\ waits' = [waits EXCEPT ![m] = {p \in Proc : stack[p] # <<>>}]
    /\ UNCHANGED <<sys_call_table, original_call, calls, trouble>>

(* msleep(2000) returns after two seconds, whatever the processes do.       *)
EndReturns(m) ==
    /\ Goes(m, "sleep", "gone")
    /\ trouble' = trouble \cup (IF waits[m] # {} THEN {"long_call"} ELSE {})
    /\ waits' = [waits EXCEPT ![m] = {}]
    /\ UNCHANGED <<sys_call_table, original_call, cpu, wp, calls>>

-----------------------------------------------------------------------------
(* Processes                                                                *)

Top(p) == stack[p][Len(stack[p])]

(* The system call entry code looks up the table.                           *)
Openat(p) ==
    /\ stack[p] = <<>>
    /\ stack' = [stack EXCEPT ![p] = <<sys_call_table>>]
    /\ UNCHANGED <<sys_call_table, original_call, at, cpu, wp, returning, waits, trouble>>

(* Report or not, the original function is called with the same arguments.  *)
our_sys_openat(p) ==
    /\ stack[p] # <<>> /\ ~returning[p]
    /\ Top(p) \in Mod /\ at[Top(p)] # "gone"
    /\ stack' = [stack EXCEPT ![p] = Append(@, original_call[Top(p)])]
    /\ UNCHANGED <<sys_call_table, original_call, at, cpu, wp, returning, waits, trouble>>

(* The kernel's function is reached and starts to return.                   *)
KernelOpenat(p) ==
    /\ stack[p] # <<>> /\ ~returning[p]
    /\ Top(p) = sys_openat
    /\ returning' = [returning EXCEPT ![p] = TRUE]
    /\ UNCHANGED <<sys_call_table, original_call, at, cpu, wp, stack, waits, trouble>>

(* The innermost function returns, in the end to user space.                *)
Return(p) ==
    /\ stack[p] # <<>> /\ returning[p]
    /\ Top(p) \in Mod => at[Top(p)] # "gone"
    /\ stack' = [stack EXCEPT ![p] = SubSeq(@, 1, Len(@) - 1)]
    /\ IF Len(stack[p]) = 1
       THEN /\ returning' = [returning EXCEPT ![p] = FALSE]
            /\ waits' = [m \in Mod |-> waits[m] \ {p}]
       ELSE UNCHANGED <<returning, waits>>
    /\ UNCHANGED <<sys_call_table, original_call, at, cpu, wp, trouble>>

Call(p) == our_sys_openat(p) \/ KernelOpenat(p) \/ Return(p)

Load(m) == syscall_steal_start(m) \/ KeepOriginal(m) \/ Replace(m) \/ StartReturns(m)

Unload(m) == syscall_steal_end(m) \/ Restore(m) \/ Msleep(m) \/ EndReturns(m)

Next ==
    \/ \E m \in Mod : Load(m) \/ Unload(m) \/ Migrate(m)
    \/ \E p \in Proc : Openat(p) \/ Call(p)

Spec == Init /\ [][Next]_vars

-----------------------------------------------------------------------------
(* Properties                                                               *)

Gone == {m \in Mod : at[m] = "gone"}

(* The functions that a call of function f goes through, when kept is what   *)
(* the modules keep: the least set with f that has, with a module, the       *)
(* function which the module calls.                                          *)
Closed(S, kept) == \A m \in S \cap Mod : kept[m] \in S

Way(f, kept) ==
    {g \in Function \cup {None} :
        \A S \in SUBSET (Function \cup {None}) : f \in S /\ Closed(S, kept) => g \in S}

(* The functions that a call which starts now goes through.                 *)
OnTheWay == Way(sys_call_table, original_call)

(* As long as every module was the last one to replace the entry when it    *)
(* was removed and no two init or exit functions overlapped ("if B is       *)
(* removed first, everything will be well"), a call goes through every      *)
(* loaded module, through none that is gone, and ends in the kernel.        *)
TableSound ==
    /\ TypeOK
    /\ trouble \cap {"alert", "overlap"} = {} =>
          /\ OnTheWay \cap (Gone \cup {None}) = {}
          /\ {m \in Mod : at[m] = "in"} \subseteq OnTheWay
          /\ sys_openat \in OnTheWay

(* Nor is a process left inside a module that is gone, or about to call     *)
(* into one: what msleep is for, if no call takes longer.                   *)
NobodyInRemovedText ==
    trouble \subseteq {"migrated"} =>
        \A p \in Proc : \A i \in 1 .. Len(stack[p]) : stack[p][i] \notin Gone

(* The table is written with write protection off, and write protection is  *)
(* back on every processor afterwards, as long as the thread stays on its   *)
(* processor and has it for itself.                                         *)
WriteProtection ==
    trouble \cap {"overlap", "migrated"} = {} =>
        wp = Cpu \ {cpu[m] : m \in Mod}

(* Whatever the modules do, a call never runs through the same module twice *)
(* nor through a NULL original_call: a module keeps what it found before    *)
(* anybody can find the module.                                             *)
NoEndlessCall ==
    \A p \in Proc :
        /\ Len(stack[p]) <= Cardinality(Mod) + 1
        /\ \A i \in 1 .. Len(stack[p]) : stack[p][i] # None

=============================================================================
