----------------------------- MODULE MCAuthGate -----------------------------
(* AuthGate for TLC.                                                       *)
EXTENDS AuthGate, TLC

Symmetry == Permutations(Requests) \cup Permutations(Identities)
=============================================================================
