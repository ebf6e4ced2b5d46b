---------------------------- MODULE MCLifecycle ----------------------------
(* Lifecycle for TLC, with the drivers of the repository.                   *)
EXTENDS Lifecycle, Drivers
=============================================================================
