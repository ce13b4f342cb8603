------------------------ MODULE ProcessGroupProofs ------------------------
(***************************************************************************)
(* The safety of process-group cleanup for every set of processes, every   *)
(* choice of those that change user and any number of reuses.              *)
(*                                                                         *)
(* None of the three properties is inductive.  The invariant below adds    *)
(* why they hold: signals are sent only in states in which the leader is   *)
(* unreaped (NumberIsPinned), and an unreaped leader or a living process   *)
(* keeps the number ours.                                                  *)
(***************************************************************************)
EXTENDS ProcessGroup, TLAPS

\* The leader is unreaped as long as signals may still be sent; it, or any
\* process of the group, keeps the number; probes follow the reap.
NumberIsPinned ==
  /\ cleanup \in Unsignalled => leader = "unreaped"
  /\ step = "grace" => cleanup \in Unsignalled
  /\ step \in {"waiting", "probing"} => cleanup \notin Unsignalled
  /\ leader = "unreaped" \/ alive # {} => owner = "ours"
  /\ step = "probing" => leader = "reaped"

Inv ==
  /\ TypeOK /\ NumberIsPinned
  /\ StrangersAreSafe /\ FinalSignalIsEnough /\ ProvenMeansGone

\* PtyChild starts in a state that satisfies the invariant: one unreaped leader,
\* nothing signalled.
LEMMA GroupInit == Init => Inv
BY GroupAssumption DEF Init, Inv, TypeOK, NumberIsPinned, StrangersAreSafe, FinalSignalIsEnough,
   ProvenMeansGone, CleanupStates, Unsignalled, Processes

\* What the kernel does on its own keeps the invariant: a pinned number is not
\* reused, and a process with a pending SIGKILL does not fork.
LEMMA KernelKeeps == Inv /\ Kernel => Inv'
<1> SUFFICES ASSUME Inv, Kernel PROVE Inv'
  OBVIOUS
<1> USE GroupAssumption DEF Inv, TypeOK, NumberIsPinned, StrangersAreSafe, FinalSignalIsEnough,
        ProvenMeansGone, CleanupStates, Unsignalled, Processes
<1>1. ASSUME NEW p \in Processes, Exits(p) PROVE Inv'
  BY <1>1 DEF Exits, Owner
<1>2. ASSUME NEW p \in Processes, NEW q \in Others, Forks(p, q) PROVE Inv'
  BY <1>2 DEF Forks
<1>3. ASSUME NEW p \in Processes, ChangesUser(p) PROVE Inv'
  BY <1>3 DEF ChangesUser
<1>4. CASE NumberReused
  BY <1>4 DEF NumberReused
<1>5. CASE StrangerGone
  BY <1>5 DEF StrangerGone
<1> QED
  BY <1>1, <1>2, <1>3, <1>4, <1>5 DEF Kernel

\* Every step of PtyChild keeps the invariant.
LEMMA CleanupKeeps ==
  Inv /\ (Observe \/ Begin \/ ObserveFails \/ FinalSignal \/ Reap \/ Probe \/ TimesOut) => Inv'
<1> SUFFICES ASSUME Inv, Observe \/ Begin \/ ObserveFails \/ FinalSignal \/ Reap \/ Probe \/ TimesOut
             PROVE  Inv'
  OBVIOUS
<1> USE GroupAssumption DEF Inv, TypeOK, NumberIsPinned, StrangersAreSafe, FinalSignalIsEnough,
        ProvenMeansGone, CleanupStates, Unsignalled, Processes
<1>1. CASE Observe
  BY <1>1 DEF Observe, Exited
<1>2. CASE Begin
  BY <1>2 DEF Begin, Signal
<1>3. CASE ObserveFails
  BY <1>3 DEF ObserveFails
<1>4. CASE FinalSignal
  BY <1>4 DEF FinalSignal, Signal
<1>5. CASE Reap
  BY <1>5 DEF Reap, Exited, Owner
<1>6. CASE Probe
  BY <1>6 DEF Probe, Absent
<1>7. CASE TimesOut
  BY <1>7 DEF TimesOut
<1> QED
  BY <1>1, <1>2, <1>3, <1>4, <1>5, <1>6, <1>7

\* The invariant of process-group cleanup.
THEOREM GroupInvariance == Spec => []Inv
<1>1. Inv /\ [Next]_vars => Inv'
  <2> SUFFICES ASSUME Inv, [Next]_vars PROVE Inv'
    OBVIOUS
  <2>1. CASE Next
    BY <2>1, KernelKeeps, CleanupKeeps DEF Next
  <2>2. CASE UNCHANGED vars
    BY <2>2 DEF vars, Inv, TypeOK, NumberIsPinned, StrangersAreSafe, FinalSignalIsEnough,
       ProvenMeansGone
  <2> QED
    BY <2>1, <2>2
<1> QED
  BY GroupInit, <1>1, PTL DEF Spec

\* No signal ever reaches a group that merely inherited the number.
THEOREM SignalsStayHome == Spec => []StrangersAreSafe
BY GroupInvariance, PTL DEF Inv

\* Nobody who may be signalled survives the single SIGKILL.
THEOREM OneKillIsEnough == Spec => []FinalSignalIsEnough
BY GroupInvariance, PTL DEF Inv

\* A successful terminate leaves no process of the group.
THEOREM ProofOfAbsence == Spec => []ProvenMeansGone
BY GroupInvariance, PTL DEF Inv
============================================================================
