------------------------ MODULE MCSessionAdmission ------------------------
(* Instances of SessionAdmission for TLC.                                  *)
EXTENDS SessionAdmission, TLC

\* Requests and identities are interchangeable, and so are connections.
Symmetry ==
  Permutations(Requests) \cup Permutations(Connections) \cup Permutations(Identities)
============================================================================
