----------------------------- MODULE MCFrontend -----------------------------
(* Frontend for TLC.                                                       *)
EXTENDS Frontend
=============================================================================
