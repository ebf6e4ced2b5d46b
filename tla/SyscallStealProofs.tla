------------------------- MODULE SyscallStealProofs -------------------------
(***************************************************************************)
(* syscall-steal.c for any finite number of modules, and any processes and  *)
(* processors: when the table and the stacks of the processes are sound,    *)
(* and when the pages of the table are protected again.                     *)
(***************************************************************************)
EXTENDS SyscallSteal, FiniteSetTheorems, SequenceTheorems, TLAPS

Callee == Function \cup {None}
Keeps  == [Mod -> Callee]

(* The functions that have been in the table.                               *)
Found ==
    {sys_openat} \cup
    {m \in Mod : original_call[m] # None /\ at[m] \notin {"new", "start", "saved"}}

(* A module keeps what it found before anybody can find the module, so that *)
(* a call of what it keeps does not come back to it.                        *)
Kept ==
    /\ sys_call_table \in Found
    /\ \A m \in Mod :
          /\ at[m] \in {"new", "start"} => original_call[m] = None
          /\ at[m] \notin {"new", "start", "gone"} => original_call[m] # None
          /\ original_call[m] # None =>
                original_call[m] \in Found /\ m \notin Way(original_call[m], original_call)

(* What a process is in was in the table, and no function calls back to one *)
(* further out.                                                             *)
StackSound(p) ==
    \A i \in 1 .. Len(stack[p]) :
        /\ stack[p][i] \in Found
        /\ \A j \in 1 .. Len(stack[p]) :
              i < j => stack[p][i] \in Mod /\ stack[p][i] \notin Way(stack[p][j], original_call)

(* An init or exit function has a processor while it patches the table.     *)
Alone ==
    "overlap" \notin trouble =>
        \A m, k \in Mod : at[m] \in Patching /\ at[k] \in Patching => m = k

Processors == \A m \in Mod : cpu[m] # None <=> at[m] \in Patching

Live == {m \in Mod : at[m] \in {"replaced", "in", "end"}}

(* Without the first two troubles, the modules whose function is in use are *)
(* stacked on each other, and only the uppermost is being removed.          *)
Nested ==
    trouble \cap {"alert", "overlap"} = {} =>
        /\ OnTheWay = Live \cup {sys_openat}
        /\ \A m \in Mod : /\ at[m] = "saved" => original_call[m] = sys_call_table
                          /\ at[m] = "end" => sys_call_table = m
        /\ \A m \in Live : /\ original_call[m] # sys_call_table
                           /\ \A k \in Live : original_call[k] = original_call[m] => k = m

(* A process that an exit function does not wait for, in its msleep or once *)
(* it is over, is not on the way to the module.                             *)
Clear(m, p) ==
    at[m] \in {"sleep", "gone"} /\ p \notin waits[m] =>
        \A i \in 1 .. Len(stack[p]) : m \notin Way(stack[p][i], original_call)

Waited ==
    /\ \A m \in Mod : at[m] # "sleep" => waits[m] = {}
    /\ trouble \subseteq {"migrated"} => \A m \in Mod, p \in Proc : Clear(m, p)

IInv ==
    /\ TypeOK /\ Kept /\ Alone /\ Processors /\ WriteProtection /\ Nested /\ Waited
    /\ \A p \in Proc : StackSound(p)

-----------------------------------------------------------------------------
USE SyscallStealAssumption

(* A closed set with f has all that a call of f goes through.               *)
LEMMA WayIsLeast ==
    ASSUME NEW kept \in Keeps, NEW f, NEW S \in SUBSET Callee, f \in S, Closed(S, kept)
    PROVE  Way(f, kept) \subseteq S
  BY DEF Way, Callee

(* What a call of f goes through is closed and has f.                       *)
LEMMA WayIsClosed ==
    ASSUME NEW kept \in Keeps, NEW f \in Callee
    PROVE  /\ Way(f, kept) \in SUBSET Callee
           /\ f \in Way(f, kept)
           /\ Closed(Way(f, kept), kept)
  BY DEF Way, Callee, Closed, Keeps

(* A call goes on where the calls of the functions on its way go on.        *)
LEMMA WayGoesOn ==
    ASSUME NEW kept \in Keeps, NEW f \in Callee, NEW g \in Way(f, kept)
    PROVE  Way(g, kept) \subseteq Way(f, kept)
  BY WayIsClosed, WayIsLeast

(* A module that a call does not go through does not matter to it.          *)
LEMMA WayStays ==
    ASSUME NEW kept \in Keeps, NEW f \in Callee, NEW k \in Mod, NEW g \in Callee,
           k \notin Way(f, kept)
    PROVE  Way(f, [kept EXCEPT ![k] = g]) = Way(f, kept)
<1> DEFINE new == [kept EXCEPT ![k] = g]
<1>1. new \in Keeps /\ \A m \in Mod : m # k => new[m] = kept[m]
  BY DEF Keeps
<1> HIDE DEF new
<1>2. Closed(Way(f, kept), new)
  <2>1. Closed(Way(f, kept), kept)
    BY WayIsClosed
  <2> QED
    BY <1>1, <2>1 DEF Closed
<1>3. Way(f, new) \subseteq Way(f, kept)
  BY <1>1, <1>2, WayIsClosed, WayIsLeast
<1>4. Closed(Way(f, new), kept)
  <2>1. Closed(Way(f, new), new)
    BY <1>1, WayIsClosed
  <2> QED
    BY <1>1, <1>3, <2>1 DEF Closed
<1>5. Way(f, kept) \subseteq Way(f, new)
  BY <1>1, <1>4, WayIsClosed, WayIsLeast
<1> QED
  BY <1>3, <1>5 DEF new

(* A call of module m goes through m, and where a call of what m keeps goes. *)
LEMMA WayOfModule ==
    ASSUME NEW kept \in Keeps, NEW m \in Mod
    PROVE  Way(m, kept) = {m} \cup Way(kept[m], kept)
<1> DEFINE S == {m} \cup Way(kept[m], kept)
<1>0. m \in Callee /\ kept[m] \in Callee
  BY DEF Callee, Function, Keeps
<1>1. /\ Way(kept[m], kept) \in SUBSET Callee
      /\ kept[m] \in Way(kept[m], kept)
      /\ Closed(Way(kept[m], kept), kept)
  BY <1>0, WayIsClosed
<1>2. S \in SUBSET Callee /\ m \in S /\ Closed(S, kept)
  BY <1>0, <1>1 DEF Closed
<1>3. Way(m, kept) \subseteq S
  BY <1>2, WayIsLeast
<1>4. m \in Way(m, kept) /\ Closed(Way(m, kept), kept) /\ Way(m, kept) \in SUBSET Callee
  BY <1>0, WayIsClosed
<1>5. Way(kept[m], kept) \subseteq Way(m, kept)
  BY <1>0, <1>4, WayGoesOn DEF Closed
<1> QED
  BY <1>3, <1>4, <1>5

(* A call of the kernel's function goes no further.                         *)
LEMMA WayOfKernel ==
    ASSUME NEW kept \in Keeps
    PROVE  Way(sys_openat, kept) = {sys_openat}
<1>1. {sys_openat} \in SUBSET Callee /\ Closed({sys_openat}, kept) /\ sys_openat \in Callee
  BY DEF Closed, Callee, Function
<1> QED
  BY <1>1, WayIsClosed, WayIsLeast

(* The kernel's function and the modules are found, not NULL.               *)
LEMMA FoundFacts ==
    ASSUME TypeOK, Kept
    PROVE  /\ original_call \in Keeps
           /\ Found \in SUBSET Callee /\ None \notin Found /\ sys_openat \in Found
           /\ Closed(Found, original_call)
           /\ \A f \in Found : Way(f, original_call) \subseteq Found
<1>1. original_call \in Keeps
  BY DEF TypeOK, Keeps, Callee
<1>2. Found \in SUBSET Callee /\ None \notin Found /\ sys_openat \in Found
  BY DEF Found, Callee, Function
<1>3. Closed(Found, original_call)
  BY DEF Found, Closed, Kept
<1>4. \A f \in Found : Way(f, original_call) \subseteq Found
  BY <1>1, <1>2, <1>3, WayIsLeast
<1> QED
  BY <1>1, <1>2, <1>3, <1>4

(* The initial state.                                                       *)
LEMMA InitIInv == Init => IInv
<1> SUFFICES ASSUME Init PROVE IInv
  OBVIOUS
<1>1. TypeOK
  <2>1. <<>> \in Seq(Function \cup {None})
    OBVIOUS
  <2>2. stack \in [Proc -> Seq(Function \cup {None})]
    BY <2>1 DEF Init
  <2> QED
    BY <2>2 DEF Init, TypeOK, Function, At
<1>2. Kept
  BY DEF Init, Kept, Found
<1>3. Alone /\ Processors
  BY DEF Init, Alone, Processors, Patching
<1>4. WriteProtection
  BY DEF Init, WriteProtection
<1>5. Nested
  <2>1. OnTheWay = {sys_openat}
    BY <1>1, WayOfKernel DEF TypeOK, Keeps, Callee, OnTheWay, Init
  <2> QED
    BY <2>1 DEF Init, Nested, Live
<1>6. Waited /\ \A p \in Proc : StackSound(p)
  BY DEF Init, Waited, Clear, StackSound
<1> QED
  BY <1>1, <1>2, <1>3, <1>4, <1>5, <1>6 DEF IInv

-----------------------------------------------------------------------------
(* What a step of an init or exit function leaves as it is.                 *)

(* The modules found stay found, and keep what they keep, while the module  *)
(* that moves does not pass KeepOriginal.                                   *)
LEMMA KeptStays ==
    ASSUME IInv, NEW m \in Mod, NEW to \in At, at' = [at EXCEPT ![m] = to],
           original_call' = original_call,
           to \in {"new", "start"} => at[m] \in {"new", "start"},
           at[m] \in {"new", "start", "gone"} => to \in {"new", "start", "gone"},
           at[m] \notin {"new", "start", "saved"} => to \notin {"new", "start", "saved"},
           sys_call_table' \in Found'
    PROVE  Kept' /\ Found \subseteq Found'
<1>1. \A k \in Mod : at'[k] = IF k = m THEN to ELSE at[k]
  BY DEF IInv, TypeOK
<1>2. Found \subseteq Found'
  BY <1>1 DEF Found
<1>3. Kept
  BY DEF IInv
<1> QED
  BY <1>1, <1>2, <1>3 DEF Kept

(* So do the calls under way.                                               *)
LEMMA StacksStay ==
    ASSUME IInv, stack' = stack, original_call' = original_call, Found \subseteq Found'
    PROVE  (\A p \in Proc : StackSound(p))'
  BY DEF IInv, StackSound

(* One module moves, and "overlap" is noted when a second one starts to.    *)
LEMMA AloneStays ==
    ASSUME IInv, NEW m \in Mod, NEW to \in At, at' = [at EXCEPT ![m] = to],
           trouble \subseteq trouble',
           at[m] \in Patching \/ to \notin Patching \/ Overlap(m) \subseteq trouble'
    PROVE  Alone'
<1>1. \A k \in Mod : at'[k] = IF k = m THEN to ELSE at[k]
  BY DEF IInv, TypeOK
<1>2. Alone
  BY DEF IInv
<1> QED
  BY <1>1, <1>2 DEF Alone, Overlap

(* The thread has a processor exactly while it patches.                     *)
LEMMA ProcessorsStay ==
    ASSUME IInv, NEW m \in Mod, NEW to \in At, at' = [at EXCEPT ![m] = to],
           NEW c \in Cpu \cup {None}, cpu' = [cpu EXCEPT ![m] = c],
           c # None <=> to \in Patching
    PROVE  Processors'
<1>1. \A k \in Mod : at'[k] = IF k = m THEN to ELSE at[k]
  BY DEF IInv, TypeOK
<1>2. \A k \in Mod : cpu'[k] = IF k = m THEN c ELSE cpu[k]
  BY DEF IInv, TypeOK
<1>3. Processors
  BY DEF IInv
<1> QED
  BY <1>1, <1>2, <1>3 DEF Processors

(* disable_write_protection on a processor of its own.                      *)
LEMMA DisableKeepsProtection ==
    ASSUME IInv, NEW m \in Mod, cpu[m] = None, trouble \subseteq trouble',
           NEW c \in Cpu, cpu' = [cpu EXCEPT ![m] = c], wp' = wp \ {c}
    PROVE  WriteProtection'
<1> SUFFICES ASSUME trouble' \cap {"overlap", "migrated"} = {}
             PROVE  wp' = Cpu \ {cpu'[k] : k \in Mod}
  BY DEF WriteProtection
<1>1. wp = Cpu \ {cpu[k] : k \in Mod}
  BY DEF IInv, WriteProtection
<1>2. \A k \in Mod : cpu'[k] = IF k = m THEN c ELSE cpu[k]
  BY DEF IInv, TypeOK
<1> QED
  BY <1>1, <1>2

(* enable_write_protection on the processor where it was disabled.          *)
LEMMA EnableKeepsProtection ==
    ASSUME IInv, NEW m \in Mod, at[m] \in Patching, trouble' = trouble,
           enable_write_protection(m)
    PROVE  WriteProtection'
<1> SUFFICES ASSUME trouble \cap {"overlap", "migrated"} = {}
             PROVE  wp' = Cpu \ {cpu'[k] : k \in Mod}
  BY DEF WriteProtection
<1>1. wp = Cpu \ {cpu[k] : k \in Mod}
  BY DEF IInv, WriteProtection
<1>2. \A k \in Mod : cpu'[k] = IF k = m THEN None ELSE cpu[k]
  BY DEF IInv, TypeOK, enable_write_protection
<1>3. \A k \in Mod : k # m => cpu[k] = None
  BY DEF IInv, Alone, Processors
<1>4. cpu[m] \in Cpu /\ wp' = wp \cup {cpu[m]}
  BY DEF IInv, TypeOK, Processors, enable_write_protection
<1> QED
  BY <1>1, <1>2, <1>3, <1>4

(* A step that neither removes a module from memory nor lets one go to      *)
(* sleep does not matter to those that are out of the table.                *)
LEMMA WaitedStays ==
    ASSUME IInv, NEW m \in Mod, NEW to \in At, at' = [at EXCEPT ![m] = to],
           to \notin {"sleep", "gone"}, at[m] # "sleep",
           UNCHANGED <<original_call, stack, waits>>, trouble \subseteq trouble'
    PROVE  Waited'
<1>1. \A k \in Mod : at'[k] = IF k = m THEN to ELSE at[k]
  BY DEF IInv, TypeOK
<1>2. Waited
  BY DEF IInv
<1> QED
  BY <1>1, <1>2 DEF Waited, Clear

(* Nor, to the modules stacked in the table, one that changes neither it    *)
(* nor which modules are in use.                                            *)
LEMMA NestedStays ==
    ASSUME IInv, NEW m \in Mod, NEW to \in At, at' = [at EXCEPT ![m] = to],
           to \in {"replaced", "in", "end"} <=> at[m] \in {"replaced", "in", "end"},
           to # "saved",
           to = "end" => sys_call_table = m \/ "alert" \in trouble',
           UNCHANGED <<original_call, sys_call_table>>, trouble \subseteq trouble'
    PROVE  Nested'
<1>1. \A k \in Mod : at'[k] = IF k = m THEN to ELSE at[k]
  BY DEF IInv, TypeOK
<1>2. Live' = Live
  BY <1>1 DEF Live
<1>3. OnTheWay' = OnTheWay
  BY DEF OnTheWay
<1>4. Nested
  BY DEF IInv
<1> QED
  BY <1>1, <1>2, <1>3, <1>4 DEF Nested

-----------------------------------------------------------------------------
(* syscall_steal_start finds the table.                                     *)
LEMMA StartKeepsIInv ==
    ASSUME IInv, NEW m \in Mod, syscall_steal_start(m), at'[m] # "gone"
    PROVE  IInv'
<1>1. /\ at[m] = "new" /\ at' = [at EXCEPT ![m] = "start"]
      /\ trouble' = trouble \cup Overlap(m)
      /\ UNCHANGED <<sys_call_table, original_call, stack, returning, waits>>
  BY DEF syscall_steal_start, Goes, calls, IInv, TypeOK
<1>2. PICK c \in Cpu : cpu' = [cpu EXCEPT ![m] = c] /\ wp' = wp \ {c}
  BY DEF syscall_steal_start, Goes, IInv, TypeOK, disable_write_protection
<1>3. cpu[m] = None
  BY <1>1 DEF IInv, Processors, Patching
<1>4. "start" \in At /\ "start" \in Patching
  BY DEF At, Patching
<1>5. TypeOK'
  BY <1>1, <1>2, <1>4 DEF IInv, TypeOK, Overlap, Troubles
<1>6. sys_call_table' \in Found'
  BY <1>1 DEF IInv, TypeOK, Kept, Found
<1>7. Kept' /\ Found \subseteq Found'
  BY <1>1, <1>4, <1>6, KeptStays
<1>8. (\A p \in Proc : StackSound(p))'
  BY <1>1, <1>7, StacksStay
<1>9. Alone'
  BY <1>1, <1>4, AloneStays
<1>10. Processors'
  BY <1>1, <1>2, <1>4, ProcessorsStay
<1>11. WriteProtection'
  BY <1>1, <1>2, <1>3, DisableKeepsProtection
<1>12. Nested'
  BY <1>1, <1>4, NestedStays
<1>13. Waited'
  BY <1>1, <1>4, WaitedStays
<1> QED
  BY <1>5, <1>7, <1>8, <1>9, <1>10, <1>11, <1>12, <1>13 DEF IInv

(* It does not: the module is not loaded, and nobody has found it.          *)
LEMMA NoStartKeepsIInv ==
    ASSUME IInv, NEW m \in Mod, syscall_steal_start(m), at'[m] = "gone"
    PROVE  IInv'
<1>1. /\ at[m] = "new" /\ at' = [at EXCEPT ![m] = "gone"]
      /\ UNCHANGED <<sys_call_table, original_call, stack, returning, waits, cpu, wp, trouble>>
  BY DEF syscall_steal_start, Goes, calls, IInv, TypeOK
<1>2. "gone" \in At /\ "gone" \notin Patching
  BY DEF At, Patching
<1>3. TypeOK'
  BY <1>1, <1>2 DEF IInv, TypeOK
<1>4. sys_call_table' \in Found'
  BY <1>1 DEF IInv, TypeOK, Kept, Found
<1>5. Kept' /\ Found \subseteq Found'
  BY <1>1, <1>2, <1>4, KeptStays
<1>6. (\A p \in Proc : StackSound(p))'
  BY <1>1, <1>5, StacksStay
<1>7. Alone'
  BY <1>1, <1>2, AloneStays
<1>8. \A k \in Mod : at'[k] = IF k = m THEN "gone" ELSE at[k]
  BY <1>1 DEF IInv, TypeOK
<1>9. Processors'
  BY <1>1, <1>2, <1>8 DEF IInv, Processors, Patching
<1>10. WriteProtection'
  BY <1>1 DEF IInv, WriteProtection
<1>11. Nested'
  BY <1>1, <1>2, NestedStays
<1>12. Waited'
  <2>1. m \notin Found
    BY <1>1 DEF Found
  <2>2. ASSUME NEW p \in Proc, NEW i \in 1 .. Len(stack[p])
        PROVE  m \notin Way(stack[p][i], original_call)
    <3>1. stack[p][i] \in Found
      BY DEF IInv, StackSound
    <3> QED
      BY <2>1, <3>1, FoundFacts DEF IInv
  <2>3. Waited /\ waits[m] = {}
    BY <1>1 DEF IInv, Waited
  <2> QED
    BY <1>1, <1>8, <2>2, <2>3 DEF Waited, Clear
<1> QED
  BY <1>3, <1>5, <1>6, <1>7, <1>9, <1>10, <1>11, <1>12 DEF IInv

(* The module keeps what is in the table.  Nobody has found the module, so  *)
(* no call goes another way for it.                                         *)
LEMMA KeepOriginalKeepsIInv ==
    ASSUME IInv, NEW m \in Mod, KeepOriginal(m)
    PROVE  IInv'
<1>1. /\ at[m] = "start" /\ at' = [at EXCEPT ![m] = "saved"]
      /\ original_call' = [original_call EXCEPT ![m] = sys_call_table]
      /\ UNCHANGED <<sys_call_table, stack, returning, waits, cpu, wp, trouble>>
  BY DEF KeepOriginal, Goes, calls
<1>2. "saved" \in At /\ "saved" \in Patching /\ "start" \in Patching
  BY DEF At, Patching
<1>3. TypeOK'
  BY <1>1, <1>2 DEF IInv, TypeOK
<1>4. \A k \in Mod : at'[k] = IF k = m THEN "saved" ELSE at[k]
  BY <1>1 DEF IInv, TypeOK
<1>5. \A k \in Mod : original_call'[k] = IF k = m THEN sys_call_table ELSE original_call[k]
  BY <1>1 DEF IInv, TypeOK
<1>6. Found' = Found /\ m \notin Found
  BY <1>1, <1>4, <1>5 DEF Found
<1>7. TypeOK /\ Kept /\ sys_call_table \in Found
  BY DEF IInv, Kept
<1>8. /\ original_call \in Keeps /\ Found \subseteq Callee /\ None \notin Found
      /\ \A f \in Found : Way(f, original_call) \subseteq Found
  BY <1>7, FoundFacts
<1>9. ASSUME NEW f \in Found
      PROVE  Way(f, original_call') = Way(f, original_call) /\ m \notin Way(f, original_call)
  <2>1. m \notin Way(f, original_call)
    BY <1>6, <1>8
  <2> QED
    BY <1>1, <1>7, <1>8, <2>1, WayStays
<1>10. Kept'
  <2>1. ASSUME NEW k \in Mod, original_call'[k] # None
        PROVE  original_call'[k] \in Found /\ k \notin Way(original_call'[k], original_call')
    <3>1. CASE k = m
      BY <1>5, <1>7, <1>9, <3>1
    <3>2. CASE k # m
      <4>1. original_call'[k] = original_call[k]
        BY <1>5, <3>2
      <4>2. original_call[k] \in Found /\ k \notin Way(original_call[k], original_call)
        BY <1>7, <2>1, <4>1 DEF Kept
      <4> QED
        BY <1>9, <4>1, <4>2
    <3> QED
      BY <3>1, <3>2
  <2>2. ASSUME NEW k \in Mod
        PROVE  /\ at'[k] \in {"new", "start"} => original_call'[k] = None
               /\ at'[k] \notin {"new", "start", "gone"} => original_call'[k] # None
    BY <1>4, <1>5, <1>7, <1>8 DEF Kept
  <2> QED
    BY <1>1, <1>6, <1>7, <2>1, <2>2 DEF Kept
<1>11. (\A p \in Proc : StackSound(p))'
  <2> SUFFICES ASSUME NEW p \in Proc PROVE StackSound(p)'
    OBVIOUS
  <2>1. StackSound(p) /\ stack' = stack
    BY <1>1 DEF IInv
  <2> QED
    BY <1>6, <1>9, <2>1 DEF StackSound
<1>12. Alone'
  BY <1>1, <1>2, AloneStays
<1>13. Processors'
  BY <1>1, <1>2, <1>4 DEF IInv, Processors
<1>14. WriteProtection'
  BY <1>1 DEF IInv, WriteProtection
<1>15. Nested'
  <2>1. OnTheWay' = OnTheWay
    BY <1>1, <1>7, <1>9 DEF OnTheWay
  <2>2. Live' = Live /\ m \notin Live
    BY <1>1, <1>4 DEF Live
  <2>3. Nested
    BY DEF IInv
  <2> QED
    BY <1>1, <1>4, <1>5, <2>1, <2>2, <2>3 DEF Nested, Live
<1>16. Waited'
  <2>1. ASSUME NEW k \in Mod, NEW p \in Proc, Clear(k, p)
        PROVE  Clear(k, p)'
    <3>1. StackSound(p)
      BY DEF IInv
    <3> QED
      BY <1>1, <1>4, <1>9, <2>1, <3>1 DEF Clear, StackSound
  <2>2. Waited
    BY DEF IInv
  <2> QED
    BY <1>1, <1>4, <2>1, <2>2 DEF Waited
<1> QED
  BY <1>3, <1>10, <1>11, <1>12, <1>13, <1>14, <1>15, <1>16 DEF IInv

(* The module is put on top of what it keeps.                               *)
LEMMA ReplaceKeepsIInv ==
    ASSUME IInv, NEW m \in Mod, Replace(m)
    PROVE  IInv'
<1>1. /\ at[m] = "saved" /\ at' = [at EXCEPT ![m] = "replaced"]
      /\ sys_call_table' = m
      /\ UNCHANGED <<original_call, stack, returning, waits, cpu, wp, trouble>>
  BY DEF Replace, Goes, calls
<1>2. "replaced" \in At /\ "replaced" \in Patching /\ "saved" \in Patching
  BY DEF At, Patching
<1>3. TypeOK'
  BY <1>1, <1>2 DEF IInv, TypeOK, Function
<1>4. \A k \in Mod : at'[k] = IF k = m THEN "replaced" ELSE at[k]
  BY <1>1 DEF IInv, TypeOK
<1>5. m \notin Found /\ original_call[m] # None
  BY <1>1 DEF IInv, Kept, Found
<1>6. sys_call_table' \in Found'
  BY <1>1, <1>4, <1>5 DEF Found
<1>7. Kept' /\ Found \subseteq Found'
  BY <1>1, <1>2, <1>6, KeptStays
<1>8. (\A p \in Proc : StackSound(p))'
  BY <1>1, <1>7, StacksStay
<1>9. Alone'
  BY <1>1, <1>2, AloneStays
<1>10. Processors'
  BY <1>1, <1>2, <1>4 DEF IInv, Processors
<1>11. WriteProtection'
  BY <1>1 DEF IInv, WriteProtection
<1>12. Nested'
  <2> SUFFICES ASSUME trouble \cap {"alert", "overlap"} = {}
               PROVE  Nested'
    BY <1>1 DEF Nested
  <2>1. /\ OnTheWay = Live \cup {sys_openat} /\ original_call[m] = sys_call_table
        /\ \A k \in Live : /\ original_call[k] # sys_call_table
                           /\ \A j \in Live : original_call[j] = original_call[k] => j = k
    BY <1>1 DEF IInv, Nested
  <2>2. Live' = Live \cup {m}
    BY <1>4 DEF Live
  <2>3. OnTheWay' = {m} \cup OnTheWay
    <3>1. original_call \in Keeps
      BY FoundFacts DEF IInv
    <3> QED
      BY <1>1, <2>1, <3>1, WayOfModule DEF OnTheWay
  <2>4. \A k \in Mod : original_call[k] # m
    <3>1. \A k \in Mod : original_call[k] = None \/ original_call[k] \in Found
      BY DEF IInv, Kept
    <3> QED
      BY <1>5, <3>1
  <2>5. \A k \in Mod : k # m => at[k] \notin {"saved", "end"}
    BY <1>1, <1>2 DEF IInv, Alone, Patching
  <2>6. Live \subseteq Mod /\ Live' \subseteq Mod
    BY DEF Live
  <2>7. \A k \in Mod : at'[k] \notin {"saved", "end"}
    BY <1>4, <2>5
  <2>8. \A k \in Live' : /\ original_call[k] # m
                         /\ \A j \in Live' : original_call[j] = original_call[k] => j = k
    BY <2>1, <2>2, <2>4, <2>6
  <2> QED
    BY <1>1, <2>1, <2>2, <2>3, <2>7, <2>8 DEF Nested
<1>13. Waited'
  BY <1>1, <1>2, WaitedStays
<1> QED
  BY <1>3, <1>7, <1>8, <1>9, <1>10, <1>11, <1>12, <1>13 DEF IInv

(* syscall_steal_start returns.                                             *)
LEMMA StartReturnsKeepsIInv ==
    ASSUME IInv, NEW m \in Mod, StartReturns(m)
    PROVE  IInv'
<1>1. /\ at[m] = "replaced" /\ at' = [at EXCEPT ![m] = "in"]
      /\ enable_write_protection(m)
      /\ UNCHANGED <<sys_call_table, original_call, stack, returning, waits, trouble>>
  BY DEF StartReturns, Goes, calls
<1>2. "in" \in At /\ "in" \notin Patching /\ "replaced" \in Patching
  BY DEF At, Patching
<1>3. cpu' = [cpu EXCEPT ![m] = None] /\ wp' = wp \cup {cpu[m]} /\ cpu[m] \in Cpu
  BY <1>1, <1>2 DEF enable_write_protection, IInv, Processors, TypeOK
<1>4. TypeOK'
  BY <1>1, <1>2, <1>3 DEF IInv, TypeOK
<1>5. sys_call_table' \in Found'
  BY <1>1 DEF IInv, TypeOK, Kept, Found
<1>6. Kept' /\ Found \subseteq Found'
  BY <1>1, <1>2, <1>5, KeptStays
<1>7. (\A p \in Proc : StackSound(p))'
  BY <1>1, <1>6, StacksStay
<1>8. Alone'
  BY <1>1, <1>2, AloneStays
<1>9. Processors'
  BY <1>1, <1>2, <1>3, ProcessorsStay
<1>10. WriteProtection'
  BY <1>1, <1>2, EnableKeepsProtection
<1>11. Nested'
  BY <1>1, <1>2, NestedStays
<1>12. Waited'
  BY <1>1, <1>2, WaitedStays
<1> QED
  BY <1>4, <1>6, <1>7, <1>8, <1>9, <1>10, <1>11, <1>12 DEF IInv

(* syscall_steal_end finds its module in the table, or gives the alert.     *)
LEMMA EndKeepsIInv ==
    ASSUME IInv, NEW m \in Mod, syscall_steal_end(m)
    PROVE  IInv'
<1>1. /\ at[m] = "in" /\ at' = [at EXCEPT ![m] = "end"]
      /\ trouble' = trouble \cup Overlap(m)
                    \cup (IF sys_call_table # m THEN {"alert"} ELSE {})
      /\ UNCHANGED <<sys_call_table, original_call, stack, returning, waits>>
  BY DEF syscall_steal_end, Goes, calls
<1>2. PICK c \in Cpu : cpu' = [cpu EXCEPT ![m] = c] /\ wp' = wp \ {c}
  BY DEF syscall_steal_end, disable_write_protection
<1>3. cpu[m] = None
  BY <1>1 DEF IInv, Processors, Patching
<1>4. "end" \in At /\ "end" \in Patching
  BY DEF At, Patching
<1>5. TypeOK'
  BY <1>1, <1>2, <1>4 DEF IInv, TypeOK, Overlap, Troubles
<1>6. sys_call_table' \in Found'
  BY <1>1 DEF IInv, TypeOK, Kept, Found
<1>7. Kept' /\ Found \subseteq Found'
  BY <1>1, <1>4, <1>6, KeptStays
<1>8. (\A p \in Proc : StackSound(p))'
  BY <1>1, <1>7, StacksStay
<1>9. Alone'
  BY <1>1, <1>4, AloneStays
<1>10. Processors'
  BY <1>1, <1>2, <1>4, ProcessorsStay
<1>11. WriteProtection'
  BY <1>1, <1>2, <1>3, DisableKeepsProtection
<1>12. Nested'
  BY <1>1, <1>4, NestedStays
<1>13. Waited'
  BY <1>1, <1>4, WaitedStays
<1> QED
  BY <1>5, <1>7, <1>8, <1>9, <1>10, <1>11, <1>12, <1>13 DEF IInv

(* What the module keeps is put back: the module was on top.                *)
LEMMA RestoreKeepsIInv ==
    ASSUME IInv, NEW m \in Mod, Restore(m)
    PROVE  IInv'
<1>1. /\ at[m] = "end" /\ at' = [at EXCEPT ![m] = "restored"]
      /\ sys_call_table' = original_call[m]
      /\ UNCHANGED <<original_call, stack, returning, waits, cpu, wp, trouble>>
  BY DEF Restore, Goes, calls
<1>2. "restored" \in At /\ "restored" \in Patching /\ "end" \in Patching
  BY DEF At, Patching
<1>3. original_call[m] \in Found /\ original_call[m] # None
  BY <1>1 DEF IInv, Kept
<1>4. TypeOK'
  BY <1>1, <1>2, <1>3 DEF IInv, TypeOK
<1>5. \A k \in Mod : at'[k] = IF k = m THEN "restored" ELSE at[k]
  BY <1>1 DEF IInv, TypeOK
<1>6. sys_call_table' \in Found'
  BY <1>1, <1>3, <1>5 DEF Found
<1>7. Kept' /\ Found \subseteq Found'
  BY <1>1, <1>2, <1>6, KeptStays
<1>8. (\A p \in Proc : StackSound(p))'
  BY <1>1, <1>7, StacksStay
<1>9. Alone'
  BY <1>1, <1>2, AloneStays
<1>10. Processors'
  BY <1>1, <1>2, <1>5 DEF IInv, Processors
<1>11. WriteProtection'
  BY <1>1 DEF IInv, WriteProtection
<1>12. Nested'
  <2> SUFFICES ASSUME trouble \cap {"alert", "overlap"} = {}
               PROVE  Nested'
    BY <1>1 DEF Nested
  <2>1. /\ OnTheWay = Live \cup {sys_openat} /\ sys_call_table = m
        /\ \A k \in Live : /\ original_call[k] # sys_call_table
                           /\ \A j \in Live : original_call[j] = original_call[k] => j = k
    BY <1>1 DEF IInv, Nested
  <2>2. Live' = Live \ {m} /\ m \in Live
    BY <1>1, <1>5 DEF Live
  <2>3. OnTheWay' = OnTheWay \ {m}
    <3>1. original_call \in Keeps
      BY FoundFacts DEF IInv
    <3>2. OnTheWay = {m} \cup OnTheWay'
      BY <1>1, <2>1, <3>1, WayOfModule DEF OnTheWay
    <3>3. m \notin OnTheWay'
      BY <1>1, <1>3 DEF IInv, Kept, OnTheWay
    <3> QED
      BY <3>2, <3>3
  <2>4. \A k \in Mod : at'[k] \notin {"saved", "end"}
    BY <1>1, <1>2, <1>5 DEF IInv, Alone, Patching
  <2>5. m # sys_openat
    OBVIOUS
  <2>6. \A k \in Live' : /\ original_call[k] # original_call[m]
                         /\ \A j \in Live' : original_call[j] = original_call[k] => j = k
    BY <2>1, <2>2
  <2> QED
    BY <1>1, <2>1, <2>2, <2>3, <2>4, <2>5, <2>6 DEF Nested
<1>13. Waited'
  BY <1>1, <1>2, WaitedStays
<1> QED
  BY <1>4, <1>7, <1>8, <1>9, <1>10, <1>11, <1>12, <1>13 DEF IInv

(* msleep: the exit function waits for every call under way.                *)
LEMMA MsleepKeepsIInv ==
    ASSUME IInv, NEW m \in Mod, Msleep(m)
    PROVE  IInv'
<1>1. /\ at[m] = "restored" /\ at' = [at EXCEPT ![m] = "sleep"]
      /\ enable_write_protection(m)
      /\ waits' = [waits EXCEPT ![m] = {p \in Proc : stack[p] # <<>>}]
      /\ UNCHANGED <<sys_call_table, original_call, stack, returning, trouble>>
  BY DEF Msleep, Goes, calls
<1>2. "sleep" \in At /\ "sleep" \notin Patching /\ "restored" \in Patching
  BY DEF At, Patching
<1>3. cpu' = [cpu EXCEPT ![m] = None] /\ wp' = wp \cup {cpu[m]} /\ cpu[m] \in Cpu
  BY <1>1, <1>2 DEF enable_write_protection, IInv, Processors, TypeOK
<1>4. TypeOK'
  <2>1. waits' \in [Mod -> SUBSET Proc]
    BY <1>1 DEF IInv, TypeOK
  <2> QED
    BY <1>1, <1>2, <1>3, <2>1 DEF IInv, TypeOK
<1>5. sys_call_table' \in Found'
  BY <1>1 DEF IInv, TypeOK, Kept, Found
<1>6. Kept' /\ Found \subseteq Found'
  BY <1>1, <1>2, <1>5, KeptStays
<1>7. (\A p \in Proc : StackSound(p))'
  BY <1>1, <1>6, StacksStay
<1>8. Alone'
  BY <1>1, <1>2, AloneStays
<1>9. Processors'
  BY <1>1, <1>2, <1>3, ProcessorsStay
<1>10. WriteProtection'
  BY <1>1, <1>2, EnableKeepsProtection
<1>11. Nested'
  BY <1>1, <1>2, NestedStays
<1>12. Waited'
  <2>1. \A k \in Mod : at'[k] = IF k = m THEN "sleep" ELSE at[k]
    BY <1>1 DEF IInv, TypeOK
  <2>2. \A k \in Mod : k # m => waits'[k] = waits[k]
    BY <1>1 DEF IInv, TypeOK
  <2>3. waits'[m] = {p \in Proc : stack[p] # <<>>}
    BY <1>1 DEF IInv, TypeOK
  <2>4. Waited
    BY DEF IInv
  <2>5. ASSUME NEW k \in Mod, NEW p \in Proc, k # m, Clear(k, p) PROVE Clear(k, p)'
    BY <1>1, <2>1, <2>2, <2>5 DEF Clear
  <2>6. ASSUME NEW p \in Proc PROVE Clear(m, p)'
    <3>1. CASE stack[p] = <<>>
      BY <1>1, <3>1 DEF Clear
    <3>2. CASE stack[p] # <<>>
      BY <2>3, <3>2 DEF Clear
    <3> QED
      BY <3>1, <3>2
  <2> QED
    BY <1>1, <2>1, <2>2, <2>4, <2>5, <2>6 DEF Waited
<1> QED
  BY <1>4, <1>6, <1>7, <1>8, <1>9, <1>10, <1>11, <1>12 DEF IInv

(* msleep returns: nobody is left to wait for, or "long_call" is noted.     *)
LEMMA EndReturnsKeepsIInv ==
    ASSUME IInv, NEW m \in Mod, EndReturns(m)
    PROVE  IInv'
<1>1. /\ at[m] = "sleep" /\ at' = [at EXCEPT ![m] = "gone"]
      /\ trouble' = trouble \cup (IF waits[m] # {} THEN {"long_call"} ELSE {})
      /\ waits' = [waits EXCEPT ![m] = {}]
      /\ UNCHANGED <<sys_call_table, original_call, stack, returning, cpu, wp>>
  BY DEF EndReturns, Goes, calls
<1>2. "gone" \in At /\ "gone" \notin Patching /\ "sleep" \notin Patching
  BY DEF At, Patching
<1>3. TypeOK'
  BY <1>1, <1>2 DEF IInv, TypeOK, Troubles
<1>4. \A k \in Mod : at'[k] = IF k = m THEN "gone" ELSE at[k]
  BY <1>1 DEF IInv, TypeOK
<1>5. sys_call_table' \in Found'
  BY <1>1 DEF IInv, TypeOK, Kept, Found
<1>6. Kept' /\ Found \subseteq Found'
  BY <1>1, <1>2, <1>5, KeptStays
<1>7. (\A p \in Proc : StackSound(p))'
  BY <1>1, <1>6, StacksStay
<1>8. Alone'
  BY <1>1, <1>2, AloneStays
<1>9. Processors'
  BY <1>1, <1>2, <1>4 DEF IInv, Processors
<1>10. WriteProtection'
  BY <1>1 DEF IInv, WriteProtection
<1>11. Nested'
  BY <1>1, <1>2, NestedStays
<1>12. Waited'
  <2>1. \A k \in Mod : waits'[k] = IF k = m THEN {} ELSE waits[k]
    BY <1>1 DEF IInv, TypeOK
  <2>2. Waited
    BY DEF IInv
  <2>3. trouble' \subseteq {"migrated"} => waits[m] = {} /\ trouble \subseteq {"migrated"}
    BY <1>1
  <2>4. ASSUME NEW k \in Mod, NEW p \in Proc, Clear(k, p), waits[m] = {} PROVE Clear(k, p)'
    BY <1>1, <1>4, <2>1, <2>4 DEF Clear
  <2> QED
    BY <1>4, <2>1, <2>2, <2>3, <2>4 DEF Waited
<1> QED
  BY <1>3, <1>6, <1>7, <1>8, <1>9, <1>10, <1>11, <1>12 DEF IInv

(* The scheduler moves a thread, and "migrated" is noted.                   *)
LEMMA MigrateKeepsIInv ==
    ASSUME IInv, NEW m \in Mod, Migrate(m)
    PROVE  IInv'
<1>1. PICK c \in Cpu : cpu' = [cpu EXCEPT ![m] = c]
  BY DEF Migrate
<1>2. /\ cpu[m] # None /\ trouble' = trouble \cup {"migrated"}
      /\ UNCHANGED <<sys_call_table, original_call, at, wp, stack, returning, waits>>
  BY DEF Migrate, calls
<1>3. TypeOK'
  BY <1>1, <1>2 DEF IInv, TypeOK, Troubles
<1>4. Kept' /\ (\A p \in Proc : StackSound(p))'
  BY <1>2 DEF IInv, Kept, Found, StackSound
<1>5. Alone' /\ Nested'
  BY <1>2 DEF IInv, Alone, Nested, OnTheWay, Live
<1>6. \A k \in Mod : cpu'[k] = IF k = m THEN c ELSE cpu[k]
  BY <1>1 DEF IInv, TypeOK
<1>7. Processors' /\ WriteProtection'
  BY <1>2, <1>6 DEF IInv, Processors, WriteProtection
<1>8. Waited'
  BY <1>2 DEF IInv, Waited, Clear
<1> QED
  BY <1>3, <1>4, <1>5, <1>7, <1>8 DEF IInv

-----------------------------------------------------------------------------
(* Steps of the processes: they change their own stacks only.               *)

(* What such a step has to show.                                            *)
LEMMA CallKeepsIInv ==
    ASSUME IInv, UNCHANGED <<sys_call_table, original_call, at, cpu, wp, trouble>>,
           TypeOK', (\A p \in Proc : StackSound(p))', Waited'
    PROVE  IInv'
<1>1. Kept'
  BY DEF IInv, Kept, Found
<1>2. (Alone /\ Nested)'
  BY DEF IInv, Alone, Nested, OnTheWay, Live
<1>3. (Processors /\ WriteProtection)'
  BY DEF IInv, Processors, WriteProtection
<1> QED
  BY <1>1, <1>2, <1>3 DEF IInv

(* A process changes its stack to s, and nobody stops waiting for it: the   *)
(* functions of s are to be sound and away from the modules left.           *)
LEMMA StackKeepsIInv ==
    ASSUME IInv, NEW p \in Proc, NEW s \in Seq(Callee), stack' = [stack EXCEPT ![p] = s],
           UNCHANGED <<sys_call_table, original_call, at, cpu, wp, trouble, waits>>,
           returning' \in [Proc -> BOOLEAN],
           \A i \in 1 .. Len(s) :
              /\ s[i] \in Found
              /\ \A j \in 1 .. Len(s) :
                    i < j => s[i] \in Mod /\ s[i] \notin Way(s[j], original_call),
           trouble \subseteq {"migrated"} =>
              \A m \in Mod : at[m] \in {"sleep", "gone"} /\ p \notin waits[m] =>
                  \A i \in 1 .. Len(s) : m \notin Way(s[i], original_call)
    PROVE  IInv'
<1>1. \A q \in Proc : stack'[q] = IF q = p THEN s ELSE stack[q]
  BY DEF IInv, TypeOK
<1>2. TypeOK'
  BY DEF IInv, TypeOK, Callee
<1>3. Found' = Found
  BY DEF Found
<1>4. (\A q \in Proc : StackSound(q))'
  <2> SUFFICES ASSUME NEW q \in Proc PROVE StackSound(q)'
    OBVIOUS
  <2>1. CASE q = p
    BY <1>1, <1>3, <2>1 DEF StackSound
  <2>2. CASE q # p
    <3>1. StackSound(q)
      BY DEF IInv
    <3> QED
      BY <1>1, <1>3, <2>2, <3>1 DEF StackSound
  <2> QED
    BY <2>1, <2>2
<1>5. Waited'
  <2>1. Waited
    BY DEF IInv
  <2>2. ASSUME trouble \subseteq {"migrated"}, NEW m \in Mod, NEW q \in Proc
        PROVE  Clear(m, q)'
    <3>1. CASE q = p
      BY <1>1, <2>2, <3>1 DEF Clear
    <3>2. CASE q # p
      BY <1>1, <2>1, <2>2, <3>2 DEF Waited, Clear
    <3> QED
      BY <3>1, <3>2
  <2> QED
    BY <2>1, <2>2 DEF Waited
<1> QED
  BY <1>2, <1>4, <1>5, CallKeepsIInv

(* A call starts with the function in the table, and goes through modules   *)
(* that are in use only.                                                    *)
LEMMA OpenatKeepsIInv ==
    ASSUME IInv, NEW p \in Proc, Openat(p)
    PROVE  IInv'
<1> DEFINE s == <<sys_call_table>>
<1>1. /\ stack' = [stack EXCEPT ![p] = s] /\ returning' = returning
      /\ UNCHANGED <<sys_call_table, original_call, at, cpu, wp, trouble, waits>>
  BY DEF Openat
<1>2. sys_call_table \in Callee /\ returning' \in [Proc -> BOOLEAN]
  BY <1>1 DEF IInv, TypeOK, Callee
<1>3. s \in Seq(Callee)
  BY <1>2
<1>4. Len(s) = 1 /\ s[1] = sys_call_table
  OBVIOUS
<1>5. sys_call_table \in Found
  BY DEF IInv, Kept
<1>6. \A i \in 1 .. Len(s) : s[i] = sys_call_table /\ \A j \in 1 .. Len(s) : ~(i < j)
  BY <1>4
<1>7. ASSUME trouble \subseteq {"migrated"}, NEW m \in Mod, at[m] \in {"sleep", "gone"}
      PROVE  m \notin Way(sys_call_table, original_call)
  <2>1. OnTheWay = Live \cup {sys_openat}
    BY <1>7 DEF IInv, Nested
  <2>2. m \notin Live /\ m # sys_openat
    BY <1>7 DEF Live
  <2> QED
    BY <2>1, <2>2 DEF OnTheWay
<1> HIDE DEF s
<1>8. \A i \in 1 .. Len(s) :
         /\ s[i] \in Found
         /\ \A j \in 1 .. Len(s) :
               i < j => s[i] \in Mod /\ s[i] \notin Way(s[j], original_call)
  BY <1>5, <1>6
<1>9. trouble \subseteq {"migrated"} =>
         \A m \in Mod : at[m] \in {"sleep", "gone"} /\ p \notin waits[m] =>
             \A i \in 1 .. Len(s) : m \notin Way(s[i], original_call)
  BY <1>6, <1>7
<1> QED
  BY <1>1, <1>2, <1>3, <1>8, <1>9, StackKeepsIInv

(* our_sys_openat calls what its module keeps: on the way already.          *)
LEMMA OurKeepsIInv ==
    ASSUME IInv, NEW p \in Proc, our_sys_openat(p)
    PROVE  IInv'
<1>1. PICK n \in Nat : n = Len(stack[p])
  <2>1. stack[p] \in Seq(Callee)
    BY DEF IInv, TypeOK, Callee
  <2> QED
    BY <2>1
<1>2. PICK m \in Mod : m = stack[p][n]
  BY <1>1 DEF our_sys_openat, Top
<1> DEFINE g == original_call[m]
           s == Append(stack[p], g)
<1>3. /\ stack' = [stack EXCEPT ![p] = s] /\ returning' = returning
      /\ stack[p] # <<>>
      /\ UNCHANGED <<sys_call_table, original_call, at, cpu, wp, trouble, waits>>
  BY <1>1, <1>2 DEF our_sys_openat, Top
<1>4. stack[p] \in Seq(Callee) /\ returning' \in [Proc -> BOOLEAN] /\ g \in Callee
  BY <1>3 DEF IInv, TypeOK, Callee
<1>5. n \in 1 .. n
  BY <1>1, <1>3, <1>4, EmptySeq
<1>6. /\ s \in Seq(Callee) /\ Len(s) = n + 1 /\ s[n + 1] = g
      /\ \A i \in 1 .. n : s[i] = stack[p][i]
  BY <1>1, <1>4, AppendProperties
<1>7. StackSound(p)
  BY DEF IInv
<1>8. m \in Found
  BY <1>1, <1>2, <1>5, <1>7 DEF StackSound
<1>9. g \in Found /\ m \notin Way(g, original_call)
  BY <1>8 DEF IInv, Kept, Found
<1>10. original_call \in Keeps /\ Found \subseteq Callee
  BY FoundFacts DEF IInv
<1>11. Way(m, original_call) = {m} \cup Way(g, original_call)
  BY <1>10, WayOfModule
<1> HIDE DEF g, s
<1>12. ASSUME NEW i \in 1 .. n + 1 PROVE i \in 1 .. n \/ i = n + 1
  OBVIOUS
<1>13. \A i \in 1 .. n : /\ s[i] \in Found
                         /\ \A j \in 1 .. n :
                               i < j => s[i] \in Mod /\ s[i] \notin Way(s[j], original_call)
  BY <1>1, <1>6, <1>7 DEF StackSound
<1>14. ASSUME NEW i \in 1 .. n PROVE s[i] \in Mod /\ s[i] \notin Way(g, original_call)
  <2>1. CASE i = n
    BY <1>2, <1>5, <1>6, <1>9, <2>1
  <2>2. CASE i # n
    <3>1. i < n
      BY <2>2
    <3> QED
      BY <1>2, <1>5, <1>6, <1>11, <1>13, <3>1
  <2> QED
    BY <2>1, <2>2
<1>15. \A i \in 1 .. Len(s) :
         /\ s[i] \in Found
         /\ \A j \in 1 .. Len(s) :
               i < j => s[i] \in Mod /\ s[i] \notin Way(s[j], original_call)
  <2> SUFFICES ASSUME NEW i \in 1 .. n + 1
               PROVE  /\ s[i] \in Found
                      /\ \A j \in 1 .. n + 1 :
                            i < j => s[i] \in Mod /\ s[i] \notin Way(s[j], original_call)
    BY <1>6
  <2>1. s[i] \in Found
    BY <1>6, <1>9, <1>12, <1>13
  <2>2. ASSUME NEW j \in 1 .. n + 1, i < j
        PROVE  s[i] \in Mod /\ s[i] \notin Way(s[j], original_call)
    <3>1. i \in 1 .. n
      BY <2>2
    <3>2. CASE j = n + 1
      BY <1>6, <1>14, <3>1, <3>2
    <3>3. CASE j \in 1 .. n
      BY <1>13, <2>2, <3>1, <3>3
    <3> QED
      BY <1>12, <3>2, <3>3
  <2> QED
    BY <2>1, <2>2
<1>16. ASSUME trouble \subseteq {"migrated"}, NEW k \in Mod,
              at[k] \in {"sleep", "gone"}, p \notin waits[k],
              NEW i \in 1 .. n + 1
       PROVE  k \notin Way(s[i], original_call)
  <2>1. \A j \in 1 .. n : k \notin Way(s[j], original_call)
    BY <1>1, <1>6, <1>16 DEF IInv, Waited, Clear
  <2>2. k \notin Way(g, original_call)
    BY <1>2, <1>5, <1>6, <1>11, <2>1
  <2> QED
    BY <1>6, <1>12, <2>1, <2>2
<1>17. trouble \subseteq {"migrated"} =>
         \A k \in Mod : at[k] \in {"sleep", "gone"} /\ p \notin waits[k] =>
             \A i \in 1 .. Len(s) : k \notin Way(s[i], original_call)
  BY <1>6, <1>16
<1> QED
  BY <1>3, <1>4, <1>6, <1>15, <1>17, StackKeepsIInv

(* The kernel's function is reached.                                        *)
LEMMA KernelKeepsIInv ==
    ASSUME IInv, NEW p \in Proc, KernelOpenat(p)
    PROVE  IInv'
<1>1. UNCHANGED <<sys_call_table, original_call, at, cpu, wp, stack, waits, trouble>>
  BY DEF KernelOpenat
<1>2. TypeOK'
  BY DEF IInv, TypeOK, KernelOpenat
<1>3. (\A q \in Proc : StackSound(q))' /\ Waited'
  BY <1>1 DEF IInv, StackSound, Found, Waited, Clear
<1> QED
  BY <1>1, <1>2, <1>3, CallKeepsIInv

(* A function returns; from the outermost one, the process is waited for no *)
(* longer and its stack is empty.                                           *)
LEMMA ReturnKeepsIInv ==
    ASSUME IInv, NEW p \in Proc, Return(p)
    PROVE  IInv'
<1>1. PICK n \in Nat : n = Len(stack[p])
  <2>1. stack[p] \in Seq(Callee)
    BY DEF IInv, TypeOK, Callee
  <2> QED
    BY <2>1
<1> DEFINE s == SubSeq(stack[p], 1, n - 1)
<1>2. /\ stack' = [stack EXCEPT ![p] = s] /\ stack[p] # <<>>
      /\ UNCHANGED <<sys_call_table, original_call, at, cpu, wp, trouble>>
  BY <1>1 DEF Return
<1>3. stack[p] \in Seq(Callee)
  BY DEF IInv, TypeOK, Callee
<1>4. n # 0
  BY <1>1, <1>2, <1>3, EmptySeq
<1>5. n - 1 \in Nat /\ \A i \in 1 .. n - 1 : i \in 1 .. n
  BY <1>4
<1>6. s \in Seq(Callee) /\ Len(s) = n - 1 /\ \A i \in 1 .. n - 1 : s[i] = stack[p][i]
  <2>1. s \in Seq(Callee) /\ Len(s) = IF 1 <= n - 1 THEN n - 1 - 1 + 1 ELSE 0
    BY <1>1, <1>3, <1>5, SubSeqProperties
  <2>2. \A i \in 1 .. n - 1 : s[i] = stack[p][1 + i - 1]
    BY <1>1, <1>3, <1>5, SubSeqProperties
  <2>3. (IF 1 <= n - 1 THEN n - 1 - 1 + 1 ELSE 0) = n - 1 /\ \A i \in 1 .. n - 1 : 1 + i - 1 = i
    BY <1>5
  <2> QED
    BY <2>1, <2>2, <2>3
<1> HIDE DEF s
<1>7. StackSound(p)
  BY DEF IInv
<1>8. \A i \in 1 .. Len(s) :
         /\ s[i] \in Found
         /\ \A j \in 1 .. Len(s) :
               i < j => s[i] \in Mod /\ s[i] \notin Way(s[j], original_call)
  BY <1>1, <1>5, <1>6, <1>7 DEF StackSound
<1>9. CASE n # 1
  <2>1. returning' = returning /\ waits' = waits
    BY <1>1, <1>9 DEF Return
  <2>2. trouble \subseteq {"migrated"} =>
         \A k \in Mod : at[k] \in {"sleep", "gone"} /\ p \notin waits[k] =>
             \A i \in 1 .. Len(s) : k \notin Way(s[i], original_call)
    BY <1>1, <1>5, <1>6 DEF IInv, Waited, Clear
  <2>3. returning' \in [Proc -> BOOLEAN]
    BY <2>1 DEF IInv, TypeOK
  <2> QED
    BY <1>2, <1>6, <1>8, <2>1, <2>2, <2>3, StackKeepsIInv
<1>10. CASE n = 1
  <2>1. /\ returning' = [returning EXCEPT ![p] = FALSE]
        /\ waits' = [m \in Mod |-> waits[m] \ {p}]
    BY <1>1, <1>10 DEF Return
  <2>2. \A q \in Proc : stack'[q] = IF q = p THEN s ELSE stack[q]
    BY <1>2 DEF IInv, TypeOK
  <2>3. Len(s) = 0
    BY <1>6, <1>10
  <2>4. 1 .. Len(s) = {}
    BY <2>3
  <2>5. TypeOK'
    <3>1. waits' \in [Mod -> SUBSET Proc]
      BY <2>1 DEF IInv, TypeOK
    <3>2. returning' \in [Proc -> BOOLEAN]
      BY <2>1 DEF IInv, TypeOK
    <3>3. stack' \in [Proc -> Seq(Callee)]
      BY <1>2, <1>6 DEF IInv, TypeOK, Callee
    <3> QED
      BY <1>2, <3>1, <3>2, <3>3 DEF IInv, TypeOK, Callee
  <2>6. (\A q \in Proc : StackSound(q))'
    <3> SUFFICES ASSUME NEW q \in Proc PROVE StackSound(q)'
      OBVIOUS
    <3>1. CASE q = p
      BY <2>2, <2>4, <3>1 DEF StackSound
    <3>2. CASE q # p
      <4>1. StackSound(q)
        BY DEF IInv
      <4> QED
        BY <1>2, <2>2, <3>2, <4>1 DEF StackSound, Found
    <3> QED
      BY <3>1, <3>2
  <2>7. Waited'
    <3>1. Waited
      BY DEF IInv
    <3>2. ASSUME NEW m \in Mod, NEW q \in Proc, Clear(m, q) PROVE Clear(m, q)'
      <4>1. CASE q = p
        BY <2>2, <2>4, <4>1 DEF Clear
      <4>2. CASE q # p
        BY <1>2, <2>1, <2>2, <3>2, <4>2 DEF Clear
      <4> QED
        BY <4>1, <4>2
    <3> QED
      BY <1>2, <2>1, <3>1, <3>2 DEF Waited
  <2> QED
    BY <1>2, <2>5, <2>6, <2>7, CallKeepsIInv
<1> QED
  BY <1>9, <1>10

-----------------------------------------------------------------------------
(* Every step of the specification keeps the invariant.                     *)
LEMMA Inductive == IInv /\ [Next]_vars => IInv'
<1> SUFFICES ASSUME IInv, [Next]_vars PROVE IInv'
  OBVIOUS
<1>1. CASE \E m \in Mod : Load(m) \/ Unload(m) \/ Migrate(m)
  BY <1>1, StartKeepsIInv, NoStartKeepsIInv, KeepOriginalKeepsIInv, ReplaceKeepsIInv,
     StartReturnsKeepsIInv, EndKeepsIInv, RestoreKeepsIInv, MsleepKeepsIInv,
     EndReturnsKeepsIInv, MigrateKeepsIInv DEF Load, Unload
<1>2. CASE \E p \in Proc : Openat(p) \/ Call(p)
  BY <1>2, OpenatKeepsIInv, OurKeepsIInv, KernelKeepsIInv, ReturnKeepsIInv DEF Call
<1>3. CASE UNCHANGED vars
  <2>1. TypeOK'
    BY <1>3 DEF IInv, TypeOK, vars
  <2>2. (\A p \in Proc : StackSound(p))' /\ Waited'
    BY <1>3 DEF IInv, StackSound, Found, Waited, Clear, vars
  <2> QED
    BY <1>3, <2>1, <2>2, CallKeepsIInv DEF vars
<1> QED
  BY <1>1, <1>2, <1>3 DEF Next

(* As long as no alert was given and no two init or exit functions          *)
(* overlapped, a call goes through the modules that are loaded, through     *)
(* none that was removed, and ends in the kernel's sys_openat.              *)
THEOREM TableIsSound == Spec => []TableSound
<1>1. IInv => TableSound
  <2> SUFFICES ASSUME IInv PROVE TableSound
    OBVIOUS
  <2>1. ASSUME trouble \cap {"alert", "overlap"} = {}
        PROVE  /\ OnTheWay \cap (Gone \cup {None}) = {}
               /\ {m \in Mod : at[m] = "in"} \subseteq OnTheWay
               /\ sys_openat \in OnTheWay
    <3>1. OnTheWay = Live \cup {sys_openat}
      BY <2>1 DEF IInv, Nested
    <3> QED
      BY <3>1 DEF Live, Gone
  <2> QED
    BY <2>1 DEF TableSound, IInv
<1> QED
  BY <1>1, InitIInv, Inductive, PTL DEF Spec

(* If besides no call outlasts the msleep of an exit function, no process   *)
(* is inside a module that was removed.                                     *)
THEOREM RemovedTextIsLeft == Spec => []NobodyInRemovedText
<1>1. IInv => NobodyInRemovedText
  <2> SUFFICES ASSUME IInv, trouble \subseteq {"migrated"}, NEW p \in Proc,
                      NEW i \in 1 .. Len(stack[p])
               PROVE  stack[p][i] \notin Gone
    BY DEF NobodyInRemovedText
  <2> SUFFICES ASSUME NEW m \in Mod, at[m] = "gone", m = stack[p][i] PROVE FALSE
    BY DEF Gone
  <2>1. waits[m] = {} /\ Clear(m, p)
    BY DEF IInv, Waited
  <2>2. m \notin Way(m, original_call)
    BY <2>1 DEF Clear
  <2>3. original_call \in Keeps /\ m \in Callee
    BY DEF IInv, TypeOK, Keeps, Callee, Function
  <2> QED
    BY <2>2, <2>3, WayIsClosed
<1> QED
  BY <1>1, InitIInv, Inductive, PTL DEF Spec

(* Write protection is off on the processors where an init or exit function *)
(* patches the table and on no other, unless such functions overlap or are  *)
(* moved to another processor.                                              *)
THEOREM ProtectionIsRestored == Spec => []WriteProtection
<1>1. IInv => WriteProtection
  BY DEF IInv
<1> QED
  BY <1>1, InitIInv, Inductive, PTL DEF Spec

(* In whatever order any number of modules are loaded and removed, a call   *)
(* runs through no module twice and never calls a NULL original_call.       *)
THEOREM CallsEnd == Spec => []NoEndlessCall
<1>1. IInv => NoEndlessCall
  <2> SUFFICES ASSUME IInv, NEW p \in Proc
               PROVE  /\ Len(stack[p]) <= Cardinality(Mod) + 1
                      /\ \A i \in 1 .. Len(stack[p]) : stack[p][i] # None
    BY DEF NoEndlessCall
  <2>1. StackSound(p) /\ stack[p] \in Seq(Callee) /\ TypeOK /\ Kept
    BY DEF IInv, TypeOK, Callee
  <2>2. PICK n \in Nat : n = Len(stack[p])
    BY <2>1
  <2>3. /\ Found \subseteq Callee /\ None \notin Found /\ original_call \in Keeps
        /\ Cardinality(Mod) \in Nat
    BY <2>1, FoundFacts, FS_CardinalityType
  <2>4. \A i \in 1 .. n : stack[p][i] \in Found
    BY <2>1, <2>2 DEF StackSound
  <2>5. n <= Cardinality(Mod) + 1
    <3> SUFFICES ASSUME ~(n <= Cardinality(Mod) + 1) PROVE FALSE
      OBVIOUS
    <3>1. /\ 1 \in Int /\ n - 1 \in Int /\ 1 <= n - 1 /\ (n - 1) - 1 + 1 = n - 1
          /\ Cardinality(Mod) < n - 1
      BY <2>3
    <3>2. IsFiniteSet(1 .. n - 1) /\ Cardinality(1 .. n - 1) = n - 1
      BY <3>1, FS_Interval
    <3> DEFINE f == [i \in 1 .. n - 1 |-> stack[p][i]]
    <3>3. \A i \in 1 .. n - 1 : i \in 1 .. n /\ n \in 1 .. n /\ i < n
      BY <3>1
    <3>4. f \in [1 .. n - 1 -> Mod]
      BY <2>1, <2>2, <3>3 DEF StackSound
    <3>5. PICK i \in 1 .. n - 1, j \in 1 .. n - 1 : i # j /\ f[i] = f[j]
      <4>1. IsFiniteSet(Mod) /\ Cardinality(Mod) < Cardinality(1 .. n - 1)
        BY <3>1, <3>2
      <4> HIDE DEF f
      <4> QED
        BY <3>2, <3>4, <4>1, FS_PigeonHole
    <3>6. PICK a \in 1 .. n, b \in 1 .. n : a < b /\ stack[p][a] = stack[p][b]
      <4>1. i \in 1 .. n /\ j \in 1 .. n /\ stack[p][i] = stack[p][j]
        BY <3>3, <3>5
      <4>2. i < j \/ j < i
        BY <3>5
      <4> QED
        BY <4>1, <4>2
    <3>7. stack[p][b] \notin Way(stack[p][b], original_call)
      BY <2>1, <2>2, <3>6 DEF StackSound
    <3>8. stack[p][b] \in Callee
      BY <2>3, <2>4
    <3> QED
      BY <2>3, <3>7, <3>8, WayIsClosed
  <2> QED
    BY <2>2, <2>3, <2>4, <2>5
<1> QED
  BY <1>1, InitIInv, Inductive, PTL DEF Spec
=============================================================================
