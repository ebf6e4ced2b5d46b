----------------------------- MODULE MCVinput -----------------------------
(* Instances of Vinput for TLC.                                             *)
EXTENDS Vinput, FiniteSets, TLC

(* Threads, files, allocations and types are interchangeable; the ids are   *)
(* not, since the first free one is taken.                                  *)
VinputSymmetry == Permutations(Thread) \cup Permutations(Obj)
                  \cup Permutations(File) \cup Permutations(Type)

(* Bound: one of the cares is not taken in a behaviour, any number of times.*)
OneCareless == Cardinality(careless) <= 1
=============================================================================
