-------------------------- MODULE MCProcessGroup --------------------------
(* A leader and two descendants.                                           *)
EXTENDS ProcessGroup
============================================================================
