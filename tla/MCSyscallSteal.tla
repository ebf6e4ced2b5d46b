--------------------------- MODULE MCSyscallSteal ---------------------------
(* An instance of SyscallSteal for TLC: three modules, so that one can be   *)
(* removed from the middle.                                                 *)
EXTENDS SyscallSteal, TLC

(* Modules, processes and processors are interchangeable.                   *)
SyscallStealSymmetry ==
    Permutations(Mod) \cup Permutations(Proc) \cup Permutations(Cpu)
=============================================================================
