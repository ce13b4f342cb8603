--------------------------- MODULE ProcessGroup ---------------------------
(***************************************************************************)
(* How PtyChild (pty_backend.rs) gets rid of a process group: it watches   *)
(* the leader without reaping it, signals the group while the unreaped     *)
(* leader pins the group's number, reaps the leader, and probes until the  *)
(* number is gone.  terminate_until_proven (session.rs) retries it.        *)
(*                                                                         *)
(* The kernel is external: processes of the group fork and exit when they  *)
(* like, a SIGKILL takes effect later but stops its target from forking,   *)
(* and the number of an empty group whose leader was reaped may be given   *)
(* to somebody else.  SIGHUP may be ignored, so its only modelled effect   *)
(* is whom it reached.  A process that leaves the group is out of reach of *)
(* the code and of the model.                                              *)
(***************************************************************************)
EXTENDS Integers

CONSTANTS
  Leader,     \* the process the backend spawned
  Others,     \* processes that may join its group by fork
  Setuid,     \* processes that may execute a program of another user
  MaxReuse    \* bound: how often the number is given away

Processes == {Leader} \cup Others

ASSUME GroupAssumption ==
  Leader \notin Others /\ Setuid \subseteq Processes /\ MaxReuse \in Nat

VARIABLES
  cleanup,    \* PtyChild.cleanup_state
  step,       \* where terminate is
  alive,      \* running processes of the group
  doomed,     \* those with a pending SIGKILL
  immune,     \* those the daemon may not signal any more
  leader,     \* "unreaped" or "reaped"
  owner,      \* who the group's number names: "ours", "nobody", "stranger"
  reuses,     \* how often a stranger got the number
  reached     \* owners that received a signal other than 0

vars == <<cleanup, step, alive, doomed, immune, leader, owner, reuses, reached>>

CleanupStates == {"Running", "ExitObservedUnreaped", "FinalSignalAttempted", "Reaped"}
Unsignalled == {"Running", "ExitObservedUnreaped"}

Exited == Leader \notin alive

----------------------------------------------------------------------------
(* The kernel.                                                             *)

\* The number is pinned by an unreaped leader or any process of the group.
Owner(processes, reaped) ==
  IF processes # {} \/ reaped = "unreaped" THEN "ours" ELSE "nobody"

Exits(p) ==
  /\ p \in alive
  /\ alive' = alive \ {p} /\ doomed' = doomed \ {p} /\ immune' = immune \ {p}
  /\ owner' = Owner(alive', leader)
  /\ UNCHANGED <<cleanup, step, leader, reuses, reached>>

\* A child has the credentials of its parent.
Forks(p, q) ==
  /\ p \in alive \ doomed /\ q \in Others \ alive
  /\ alive' = alive \cup {q}
  /\ immune' = IF p \in immune THEN immune \cup {q} ELSE immune
  /\ UNCHANGED <<cleanup, step, doomed, leader, owner, reuses, reached>>

\* The process executes a program with other credentials.
ChangesUser(p) ==
  /\ p \in Setuid \cap (alive \ doomed)
  /\ immune' = immune \cup {p}
  /\ UNCHANGED <<cleanup, step, alive, doomed, leader, owner, reuses, reached>>

NumberReused ==
  /\ owner = "nobody" /\ reuses < MaxReuse
  /\ owner' = "stranger" /\ reuses' = reuses + 1
  /\ UNCHANGED <<immune, cleanup, step, alive, doomed, leader, reached>>

StrangerGone ==
  /\ owner = "stranger" /\ owner' = "nobody"
  /\ UNCHANGED <<immune, cleanup, step, alive, doomed, leader, reuses, reached>>

----------------------------------------------------------------------------
(* PtyChild.                                                               *)

\* killpg with a signal other than 0; ESRCH is no error.
Signal == reached' = reached \cup ({owner} \ {"nobody"})

\* Mutant: the exit is collected when it is observed (no WNOWAIT).
ObserveAndReap ==
  /\ cleanup = "Running" /\ Exited /\ step \in {"watching", "grace"}
  /\ cleanup' = "ExitObservedUnreaped"
  /\ leader' = "reaped"
  /\ owner' = Owner(alive, "reaped")
  /\ UNCHANGED <<immune, step, alive, doomed, reuses, reached>>
\* poll_exit_observed, from the supervisor or in the grace period.
Observe ==
  /\ cleanup = "Running" /\ Exited /\ step \in {"watching", "grace"}
  /\ cleanup' = "ExitObservedUnreaped"
  /\ UNCHANGED <<immune, step, alive, doomed, leader, owner, reuses, reached>>

\* Mutant: every attempt begins with the signals.
BeginWithSignals ==
  /\ step \in {"watching", "failed"}
  /\ Signal
  /\ step' = "grace"
  /\ UNCHANGED <<immune, cleanup, alive, doomed, leader, owner, reuses>>
\* Mutant: an attempt after the final signal has nothing to do.
BeginUnlessSignalled ==
  /\ step \in {"watching", "failed"} /\ cleanup \in Unsignalled
  /\ Signal
  /\ step' = "grace"
  /\ UNCHANGED <<immune, cleanup, alive, doomed, leader, owner, reuses>>
\* terminate_with: SIGHUP first, unless the final signal was already sent.
Begin ==
  /\ step \in {"watching", "failed"}
  /\ \/ /\ cleanup \in Unsignalled
        /\ Signal
        /\ step' = "grace"
     \/ /\ cleanup \notin Unsignalled
        /\ step' = "waiting"
        /\ UNCHANGED reached
  /\ UNCHANGED <<immune, cleanup, alive, doomed, leader, owner, reuses>>

\* waitid fails in the grace period: the attempt ends before the final signal.
ObserveFails ==
  /\ step = "grace" /\ cleanup = "Running"
  /\ step' = "failed"
  /\ UNCHANGED <<immune, cleanup, alive, doomed, leader, owner, reuses, reached>>

\* Mutant: a leader that exited by itself needs no SIGKILL.
FinalSignalUnlessExited ==
  /\ step = "grace"
  /\ cleanup' = "FinalSignalAttempted"
  /\ IF cleanup = "Running" THEN Signal /\ doomed' = alive \ immune
     ELSE UNCHANGED <<reached, doomed>>
  /\ step' = "waiting"
  /\ UNCHANGED <<immune, alive, leader, owner, reuses>>
\* The grace period is over: SIGKILL to the group, once.
FinalSignal ==
  /\ step = "grace"
  /\ cleanup' = "FinalSignalAttempted"
  /\ Signal
  /\ doomed' = alive \ immune
  /\ step' = "waiting"
  /\ UNCHANGED <<immune, alive, leader, owner, reuses>>

\* wait_after_final_signal: the leader is reaped, now or by an earlier attempt.
Reap ==
  /\ step = "waiting" /\ Exited
  /\ leader' = "reaped"
  /\ cleanup' = "Reaped"
  /\ owner' = IF leader = "reaped" THEN owner ELSE Owner(alive, "reaped")
  /\ step' = "probing"
  /\ UNCHANGED <<immune, alive, doomed, reuses, reached>>

\* Mutant: a group that may not be signalled counts as absent.
AbsentUnlessPermitted == owner = "nobody" \/ (owner = "ours" /\ alive \subseteq immune)
\* killpg(0) reports ESRCH; EPERM means the group is there.
Absent == owner = "nobody"

\* wait_for_group_absence.
Probe ==
  /\ step = "probing" /\ Absent
  /\ step' = "proven"
  /\ UNCHANGED <<immune, cleanup, alive, doomed, leader, owner, reuses, reached>>

\* The grace period of the wait or of the probes runs out, or a call fails.
TimesOut ==
  /\ step \in {"waiting", "probing"}
  /\ step' = "failed"
  /\ UNCHANGED <<immune, cleanup, alive, doomed, leader, owner, reuses, reached>>

Init ==
  /\ cleanup = "Running" /\ step = "watching"
  /\ alive = {Leader} /\ doomed = {} /\ immune = {} /\ leader = "unreaped"
  /\ owner = "ours" /\ reuses = 0 /\ reached = {}

Kernel ==
  \/ \E p \in Processes : Exits(p) \/ ChangesUser(p) \/ \E q \in Others : Forks(p, q)
  \/ NumberReused \/ StrangerGone

Next ==
  \/ Kernel
  \/ Observe \/ Begin \/ ObserveFails \/ FinalSignal \/ Reap \/ Probe \/ TimesOut

Spec == Init /\ [][Next]_vars

\* A killed process dies, a stranger does not keep the number for ever, waitid
\* does not fail for ever, and a reap or a probe that can succeed is in the end
\* not preempted by its timeout.  terminate_until_proven retries without end.
Fairness ==
  /\ \A p \in Processes : WF_vars(p \in doomed /\ Exits(p))
  /\ WF_vars(StrangerGone)
  /\ WF_vars(step = "failed" /\ Begin)
  /\ SF_vars(FinalSignal) /\ SF_vars(Reap) /\ SF_vars(Probe)

FairSpec == Spec /\ Fairness

----------------------------------------------------------------------------
(* Properties.                                                             *)

TypeOK ==
  /\ cleanup \in CleanupStates
  /\ step \in {"watching", "grace", "waiting", "probing", "failed", "proven"}
  /\ alive \subseteq Processes /\ doomed \subseteq alive /\ immune \subseteq alive
  /\ leader \in {"unreaped", "reaped"} /\ owner \in {"ours", "nobody", "stranger"}
  /\ reuses \in 0..MaxReuse /\ reached \subseteq {"ours", "stranger"}

\* No SIGHUP or SIGKILL ever reaches a group that merely inherited the number:
\* signals are sent only while the unreaped leader pins it, across failed
\* attempts, retries and reaps.
StrangersAreSafe == "stranger" \notin reached

\* After the one SIGKILL nobody in the group whom the daemon may signal escapes
\* it, even if the leader had exited long before: no process can fork past it.
FinalSignalIsEnough ==
  cleanup \notin Unsignalled => alive \ immune \subseteq doomed

\* Success means that no process of the group is left, of whatever user, and the
\* leader is reaped: the slot of the session may be given away.
ProvenMeansGone == step = "proven" => alive = {} /\ leader = "reaped"

\* Once termination has begun the group is proven absent, unless a process of
\* another user, whom no signal reaches, stays in it for ever.
CleanupFinishes == [](step = "grace" => <>(step = "proven" \/ [](immune # {})))
============================================================================
