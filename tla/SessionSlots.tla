---------------------------- MODULE SessionSlots ----------------------------
(***************************************************************************)
(* What admission promises an operator: a terminal may start only while    *)
(* both configured limits leave room, it runs for one identity, and its    *)
(* slot is free again when it has stopped.  Nothing about tickets,         *)
(* reservations, expiry or shutdown.                                       *)
(***************************************************************************)
EXTENDS Integers, FiniteSets

CONSTANTS Sessions, Identities, MaxSessions, MaxSessionsPerUser, None

VARIABLE runs   \* the identity each session runs for; None when it does not

Running == {s \in Sessions : runs[s] # None}
RunningFor(u) == {s \in Sessions : runs[s] = u}

Init == runs = [s \in Sessions |-> None]

Start(s, u) ==
  /\ runs[s] = None
  /\ Cardinality(Running) < MaxSessions
  /\ Cardinality(RunningFor(u)) < MaxSessionsPerUser
  /\ runs' = [runs EXCEPT ![s] = u]

End(s) ==
  /\ runs[s] # None
  /\ runs' = [runs EXCEPT ![s] = None]

Next == \E s \in Sessions : End(s) \/ \E u \in Identities : Start(s, u)

Spec == Init /\ [][Next]_runs
============================================================================
