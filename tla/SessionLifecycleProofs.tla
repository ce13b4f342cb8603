----------------------- MODULE SessionLifecycleProofs -----------------------
(***************************************************************************)
(* Proofs about SessionLifecycle, for any capacities, any timeouts and any *)
(* amount of output: the slot outlives the session, the audit records      *)
(* bracket it, the end it reports is the one it had, an idle timeout means *)
(* that it was quiet, and it is the session SessionAdmission counts on.    *)
(***************************************************************************)
EXTENDS SessionLifecycle, SequenceTheorems, TLAPS

Started == <<"Created", "Running">>
Closed == <<"Created", "Running", "Closed">>

\* TypeOK in three parts: finite sets, bounded counters, records.
ModeTypes ==
  /\ pc \in Pcs /\ outcome \in CloseReasons \cup Refusals \cup {None}
  /\ caller \in {"awaiting", "session", "ended", "refused", "dropped"}
  /\ closeReq \in BridgeReasons \cup {"HandleDropped", "ManagerShutdown", None}
  /\ admission \in {"none", "authenticated", "rejected"}
  /\ leader \in {"running", "exited", "killed"} /\ group \in {"present", "absent"}
  /\ retried \in {"no", "yes"} /\ cancel \in {"off", "on"}
  /\ reader \in {"off", "reading", "sending", "ended"}
  /\ writer \in {"off", "waiting", "writing", "ended"}
  /\ workerEvents \in SUBSET {"reader", "writer"}
  /\ activity \in {"seen", "unseen"} /\ audit \in {"available", "failed"}
  /\ final \in CloseReasons \cup {None} /\ reservation \in {"held", "dropped"}

CounterTypes ==
  /\ pty \in 0..PtyBuffer /\ output \in 0..OutputCapacity /\ commands \in 0..InputCapacity
  /\ written \in 0..MaxOutput /\ delivered \in 0..MaxOutput
  /\ quiet \in 0..IdleTimeout /\ admissionLeft \in 0..AdmissionTimeout
  /\ idleLeft \in 0..IdleTimeout /\ absoluteLeft \in 0..AbsoluteTimeout

Ended == <<"started", "ended">>

RecordTypes ==
  /\ trail \in {<<>>, <<"denied">>, <<"started">>, Ended}
  /\ events \in {<<>>, Started, Closed}

\* What has been recorded and announced at each point of the supervisor.
Recording ==
  /\ pc \in {"connecting", "recording"} => trail = <<>>
  /\ pc \in {"connecting", "recording", "handoff"} => events = <<>>
  /\ pc = "handoff" => trail = <<"started">>
  /\ pc \in {"sending", "running", "settling", "terminating", "joining", "completing"} =>
       trail = <<"started">> /\ events = Started
  /\ pc \in {"rejecting", "refusing"} =>
       /\ trail \in {<<>>, <<"started">>} /\ events \in {<<>>, Started}
       /\ outcome # "Unwound" => trail = <<>>
  /\ events # <<>> => trail \in {<<"started">>, Ended}
  /\ pc \in {"refused", "completed", "gone"} /\ trail = <<"started">> => audit = "failed"

\* Who waits for what, and what run_connecting or run_supervisor has decided.
Deciding ==
  /\ pc \in {"connecting", "recording", "handoff", "sending", "rejecting", "refusing"} =>
       caller \in {"awaiting", "dropped"}
  /\ pc = "refused" => caller \in {"refused", "dropped"}
  /\ pc \in {"running", "settling", "terminating", "completing", "completed"} =>
       caller \in {"session", "dropped"}
  /\ pc = "joining" => caller \in {IF outcome = "Unwound" THEN "awaiting" ELSE "session", "dropped"}
  /\ pc = "gone" => caller \in {"dropped"} \cup (IF final = None THEN {"refused"} ELSE {"session", "ended"})
  /\ pc \in {"connecting", "recording", "handoff", "sending", "running", "settling"} => outcome = None
  /\ pc \in {"rejecting", "refusing"} => outcome \in Refusals
  /\ pc = "joining" => outcome \in CloseReasons \cup {"Unwound"}
  /\ pc \in {"terminating", "completing", "completed"} => outcome \in CloseReasons

\* The final snapshot repeats the outcome, once the session is complete.
Reporting ==
  /\ final # None => pc \in {"completed", "gone"} /\ final = outcome /\ events = Closed
  /\ pc = "completed" => final # None

\* Group, workers and slot go in this order.
Ordering ==
  /\ pc \in {"refusing", "refused", "joining", "completing", "completed", "gone"} => group = "absent"
  /\ pc \in {"refusing", "refused", "completing", "completed", "gone"} => ~Working
  /\ events = <<>> => reader = "off" /\ writer = "off" /\ output = 0 /\ delivered = 0
  /\ reservation = "dropped" => pc \in {"refused", "completed", "gone"}
  /\ pc = "gone" => reservation = "dropped"

\* An outcome is true when it is decided, and stays so.
TrueOutcome ==
  /\ outcome \in BridgeReasons \cup {"HandleDropped", "ManagerShutdown"} => closeReq = outcome
  /\ outcome = "ChildExited" => leader = "exited"
  /\ outcome = "Absolute" => absoluteLeft = 0

\* No chunk is counted twice.
Counting == delivered + output + pty + (IF reader = "sending" THEN 1 ELSE 0) <= written

\* The idle deadline in force is no earlier than the last activity the supervisor
\* has seen allows.
IdleDeadline ==
  pc \in {"sending", "running"} /\ activity = "seen" => idleLeft + quiet >= IdleTimeout

LifeInv ==
  /\ ModeTypes /\ CounterTypes /\ RecordTypes
  /\ Recording /\ Deciding /\ Reporting /\ Ordering /\ TrueOutcome /\ Counting /\ IdleDeadline

\* The capacities, bounds and timeouts are natural numbers.
LEMMA Naturals ==
  /\ OutputCapacity \in Nat /\ InputCapacity \in Nat /\ PtyBuffer \in Nat /\ MaxOutput \in Nat
  /\ AdmissionTimeout \in Nat /\ IdleTimeout \in Nat /\ AbsoluteTimeout \in Nat
  /\ EventCapacity \in Nat /\ EventCapacity >= 3
BY BoundsAssumption, CapacityAssumption

\* Append to a single record.
LEMMA AppendToOne ==
  ASSUME NEW S, NEW a \in S, NEW b \in S
  PROVE  Append(<<a>>, b) = <<a, b>>
<1>1. <<a>> \in Seq(S) /\ <<a, b>> \in Seq(S) /\ Len(<<a>>) = 1
  OBVIOUS
<1>2. /\ Append(<<a>>, b) \in Seq(S) /\ Len(Append(<<a>>, b)) = 2
      /\ Append(<<a>>, b)[1] = a /\ Append(<<a>>, b)[2] = b
  BY <1>1
<1>3. \A i \in 1..2 : Append(<<a>>, b)[i] = <<a, b>>[i]
  BY <1>2
<1>4. QED
  BY <1>1, <1>2, <1>3, SeqEqual

\* ... and to a pair.
LEMMA AppendToTwo ==
  ASSUME NEW S, NEW a \in S, NEW b \in S, NEW c \in S
  PROVE  Append(<<a, b>>, c) = <<a, b, c>>
<1>1. <<a, b>> \in Seq(S) /\ <<a, b, c>> \in Seq(S) /\ Len(<<a, b>>) = 2
  OBVIOUS
<1>2. /\ Append(<<a, b>>, c) \in Seq(S) /\ Len(Append(<<a, b>>, c)) = 3
      /\ Append(<<a, b>>, c)[1] = a /\ Append(<<a, b>>, c)[2] = b /\ Append(<<a, b>>, c)[3] = c
  BY <1>1
<1>3. \A i \in 1..3 : Append(<<a, b>>, c)[i] = <<a, b, c>>[i]
  BY <1>2
<1>4. QED
  BY <1>1, <1>2, <1>3, SeqEqual

\* The records and events a session appends, and that they are told apart.
LEMMA Sequels ==
  /\ Append(<<>>, "started") = <<"started">> /\ Append(<<>>, "denied") = <<"denied">>
  /\ Append(<<"started">>, "ended") = Ended
  /\ <<>> \o <<"Created", "Running">> = Started /\ Append(Started, "Closed") = Closed
  /\ Len(Started) = 2
  /\ <<>> # <<"started">> /\ <<>> # <<"denied">> /\ <<>> # Ended
  /\ <<"started">> # <<"denied">> /\ <<"started">> # Ended /\ <<"denied">> # Ended
  /\ <<>> # Started /\ <<>> # Closed /\ Started # Closed
<1>1. Append(<<>>, "started") = <<"started">> /\ Append(<<>>, "denied") = <<"denied">>
  OBVIOUS
<1> DEFINE S == {"started", "ended", "Created", "Running", "Closed"}
<1>a. "started" \in S /\ "ended" \in S /\ "Created" \in S /\ "Running" \in S /\ "Closed" \in S
  OBVIOUS
<1> HIDE DEF S
<1>6. Append(<<"started">>, "ended") = Ended /\ Append(Started, "Closed") = Closed
  BY <1>a, AppendToOne, AppendToTwo DEF Started, Closed, Ended
<1>2. <<>> \o <<"Created", "Running">> = Started /\ Len(Started) = 2
  BY DEF Started
<1>3. /\ <<>> # <<"started">> /\ <<>> # <<"denied">> /\ <<>> # Ended
      /\ <<"started">> # <<"denied">> /\ <<"started">> # Ended /\ <<"denied">> # Ended
  BY DEF Ended
<1>4. <<>> # Started /\ <<>> # Closed /\ Started # Closed
  BY DEF Started, Closed
<1>5. QED
  BY <1>2, <1>6, SMTT(40)

\* The parts of the invariant contain the type invariant.
LEMMA LifeTypes == LifeInv => TypeOK
BY DEF LifeInv, ModeTypes, CounterTypes, RecordTypes, TypeOK, Started, Closed, Ended

\* The invariant holds when run_connecting starts.
LEMMA LifeInit == Init => LifeInv
BY Naturals, ReasonsAssumption DEF Init, LifeInv, ModeTypes, CounterTypes, RecordTypes,
                                   Recording, Deciding, Reporting, Ordering, TrueOutcome,
                                   Counting, IdleDeadline, Pcs, CloseReasons

\* Every operation of the handle's owner and of the manager keeps the invariant.
LEMMA CallerStep == LifeInv /\ CallerNext => LifeInv'
<1> SUFFICES ASSUME LifeInv, CallerNext PROVE LifeInv'
  OBVIOUS
<1> USE DEF LifeInv, process, workers, timers, reports
<1>1. ASSUME NEW reason \in BridgeReasons, HandleCloses(reason) PROVE LifeInv'
  <2>1. ModeTypes'
    BY <1>1 DEF HandleCloses, Requested, ModeTypes
  <2>2. TrueOutcome'
    BY <1>1, ReasonsAssumption DEF HandleCloses, Requested, TrueOutcome, CloseReasons
  <2>3. CounterTypes' /\ RecordTypes' /\ Recording' /\ Deciding' /\ Reporting' /\ Ordering' /\ Counting' /\ IdleDeadline'
    BY <1>1 DEF HandleCloses, CounterTypes, RecordTypes, Recording, Deciding, Reporting,
                Ordering, Counting, IdleDeadline, Working
  <2>4. QED
    BY <2>1, <2>2, <2>3
<1>2. CASE ManagerCloses
  <2>1. ModeTypes'
    BY <1>2 DEF ManagerCloses, Requested, ModeTypes
  <2>2. TrueOutcome'
    BY <1>2, ReasonsAssumption DEF ManagerCloses, Requested, TrueOutcome, CloseReasons
  <2>3. CounterTypes' /\ RecordTypes' /\ Recording' /\ Deciding' /\ Reporting' /\ Ordering' /\ Counting' /\ IdleDeadline'
    BY <1>2 DEF ManagerCloses, CounterTypes, RecordTypes, Recording, Deciding, Reporting,
                Ordering, Counting, IdleDeadline, Working
  <2>4. QED
    BY <2>1, <2>2, <2>3
<1>3. CASE CallerDrops
  <2>1. ModeTypes'
    BY <1>3 DEF CallerDrops, Requested, ModeTypes
  <2>2. Deciding'
    BY <1>3 DEF CallerDrops, Deciding
  <2>3. TrueOutcome'
    BY <1>3, ReasonsAssumption DEF CallerDrops, Requested, TrueOutcome, CloseReasons
  <2>4. CounterTypes' /\ RecordTypes' /\ Recording' /\ Reporting' /\ Ordering' /\ Counting' /\ IdleDeadline'
    BY <1>3 DEF CallerDrops, CounterTypes, RecordTypes, Recording, Reporting, Ordering,
                Counting, IdleDeadline, Working
  <2>5. QED
    BY <2>1, <2>2, <2>3, <2>4
<1>4. CASE HandleReads
  <2>1. CounterTypes'
    BY <1>4, Naturals DEF HandleReads, CounterTypes, Counting
  <2>2. Ordering'
    BY <1>4 DEF HandleReads, Ordering, Working
  <2>3. Counting'
    BY <1>4 DEF HandleReads, Counting, CounterTypes
  <2>4. ModeTypes' /\ RecordTypes' /\ Recording' /\ Deciding' /\ Reporting' /\ TrueOutcome' /\ IdleDeadline'
    BY <1>4 DEF HandleReads, ModeTypes, RecordTypes, Recording, Deciding, Reporting,
                TrueOutcome, IdleDeadline
  <2>5. QED
    BY <2>1, <2>2, <2>3, <2>4
<1>5. CASE HandleReadsEnd
  <2>1. ModeTypes'
    BY <1>5 DEF HandleReadsEnd, ModeTypes
  <2>2. Deciding'
    BY <1>5 DEF HandleReadsEnd, OutputClosed, Deciding
  <2>3. CounterTypes' /\ RecordTypes' /\ Recording' /\ Reporting' /\ Ordering' /\ TrueOutcome' /\ Counting' /\ IdleDeadline'
    BY <1>5 DEF HandleReadsEnd, CounterTypes, RecordTypes, Recording, Reporting, Ordering,
                TrueOutcome, Counting, IdleDeadline, Working
  <2>4. QED
    BY <2>1, <2>2, <2>3
<1>6. CASE HandleSends
  <2>1. CounterTypes'
    BY <1>6, Naturals DEF HandleSends, CounterTypes
  <2>2. ModeTypes' /\ RecordTypes' /\ Recording' /\ Deciding' /\ Reporting' /\ Ordering' /\ TrueOutcome' /\ Counting' /\ IdleDeadline'
    BY <1>6 DEF HandleSends, ModeTypes, RecordTypes, Recording, Deciding, Reporting, Ordering,
                TrueOutcome, Counting, IdleDeadline, Working
  <2>3. QED
    BY <2>1, <2>2
<1>7. QED
  BY <1>1, <1>2, <1>3, <1>4, <1>5, <1>6 DEF CallerNext

\* Every step of the supervisor task keeps the invariant.
LEMMA SupervisorStep == LifeInv /\ SupervisorNext => LifeInv'
<1> SUFFICES ASSUME LifeInv, SupervisorNext PROVE LifeInv'
  OBVIOUS
<1> USE DEF LifeInv, process, workers, timers, reports
<1>1. CASE Connecting
  <2>1. ModeTypes'
    BY <1>1 DEF Connecting, Outcome, ModeTypes, Pcs, Refusals
  <2>2. Recording'
    BY <1>1 DEF Connecting, Outcome, Recording
  <2>3. Deciding'
    BY <1>1 DEF Connecting, Outcome, Deciding, Refusals
  <2>4. Reporting'
    BY <1>1 DEF Connecting, Outcome, Reporting
  <2>5. Ordering'
    BY <1>1 DEF Connecting, Outcome, Ordering
  <2>6. TrueOutcome'
    BY <1>1, ReasonsAssumption DEF Connecting, Outcome, TrueOutcome, CloseReasons, Refusals
  <2>7. IdleDeadline'
    BY <1>1 DEF Connecting, Outcome, IdleDeadline
  <2>8. CounterTypes' /\ RecordTypes' /\ Counting'
    BY <1>1 DEF Connecting, Outcome, CounterTypes, RecordTypes, Counting
  <2>9. QED
    BY <2>1, <2>2, <2>3, <2>4, <2>5, <2>6, <2>7, <2>8
<1>2. CASE RecordStart
  <2>1. ModeTypes'
    BY <1>2 DEF RecordStart, ModeTypes, Pcs, Refusals
  <2>2. RecordTypes'
    BY <1>2 DEF RecordStart, RecordTypes, Recording
  <2>3. Recording'
    BY <1>2 DEF RecordStart, Recording
  <2>4. Deciding'
    BY <1>2 DEF RecordStart, Deciding, Refusals
  <2>5. Reporting'
    BY <1>2 DEF RecordStart, Reporting
  <2>6. Ordering'
    BY <1>2 DEF RecordStart, Ordering
  <2>7. TrueOutcome'
    BY <1>2, ReasonsAssumption DEF RecordStart, TrueOutcome, CloseReasons, Refusals
  <2>8. IdleDeadline'
    BY <1>2 DEF RecordStart, IdleDeadline
  <2>9. CounterTypes' /\ Counting'
    BY <1>2 DEF RecordStart, CounterTypes, Counting
  <2>10. QED
    BY <2>1, <2>2, <2>3, <2>4, <2>5, <2>6, <2>7, <2>8, <2>9
<1>3. CASE Handoff
  <2>1. ModeTypes'
    BY <1>3 DEF Handoff, ModeTypes, Pcs
  <2>2. CounterTypes'
    BY <1>3, Naturals DEF Handoff, CounterTypes
  <2>3. RecordTypes'
    BY <1>3, Sequels DEF Handoff, RecordTypes, Recording
  <2>4. Recording'
    BY <1>3, Sequels DEF Handoff, Recording
  <2>5. Deciding'
    BY <1>3 DEF Handoff, Deciding
  <2>6. Reporting'
    BY <1>3 DEF Handoff, Reporting
  <2>7. Ordering'
    BY <1>3 DEF Handoff, Ordering
  <2>8. TrueOutcome'
    BY <1>3, ReasonsAssumption DEF Handoff, TrueOutcome, Deciding, CloseReasons
  <2>9. Counting'
    BY <1>3 DEF Handoff, Counting, CounterTypes
  <2>10. IdleDeadline'
    BY <1>3, Naturals DEF Handoff, IdleDeadline, CounterTypes
  <2>11. QED
    BY <2>1, <2>2, <2>3, <2>4, <2>5, <2>6, <2>7, <2>8, <2>9, <2>10
<1>4. CASE SendResult
  <2>1. ModeTypes'
    BY <1>4 DEF SendResult, Requested, ModeTypes, Pcs
  <2>2. Recording'
    BY <1>4 DEF SendResult, Recording
  <2>3. Deciding'
    BY <1>4 DEF SendResult, Deciding
  <2>4. Reporting'
    BY <1>4 DEF SendResult, Reporting
  <2>5. Ordering'
    BY <1>4 DEF SendResult, Ordering
  <2>6. TrueOutcome'
    BY <1>4, ReasonsAssumption DEF SendResult, Requested, TrueOutcome, CloseReasons
  <2>7. IdleDeadline'
    BY <1>4 DEF SendResult, IdleDeadline
  <2>8. CounterTypes' /\ RecordTypes' /\ Counting'
    BY <1>4 DEF SendResult, CounterTypes, RecordTypes, Counting
  <2>9. QED
    BY <2>1, <2>2, <2>3, <2>4, <2>5, <2>6, <2>7, <2>8
<1>5. CASE Refuse
  <2>1. ModeTypes'
    BY <1>5 DEF Refuse, ModeTypes, Pcs
  <2>2. RecordTypes'
    BY <1>5, Sequels DEF Refuse, RefusalTrail, Recorded, RecordTypes, Recording
  <2>3. Recording'
    <3>1. pc' = "refused" /\ audit' = audit
      BY <1>5 DEF Refuse
    <3>2. CASE outcome = "Unwound"
      BY <1>5, Sequels DEF Refuse, RefusalTrail, Recorded, Recording, ModeTypes
    <3>3. CASE outcome # "Unwound"
      <4>1. trail = <<>> /\ events = <<>>
        BY <1>5, <3>3, Sequels DEF Refuse, Recording
      <4>2. events' = <<>> /\ trail' \in {<<>>, <<"denied">>}
        BY <1>5, <4>1 DEF Refuse, RefusalTrail, Recorded
      <4>3. QED
        BY <3>1, <4>2 DEF Recording
    <3>4. QED
      BY <3>2, <3>3
  <2>4. Deciding'
    BY <1>5 DEF Refuse, Deciding
  <2>5. Reporting'
    BY <1>5 DEF Refuse, Reporting
  <2>6. Ordering'
    BY <1>5 DEF Refuse, Ordering, Working
  <2>7. IdleDeadline'
    BY <1>5 DEF Refuse, IdleDeadline
  <2>8. CounterTypes' /\ TrueOutcome' /\ Counting'
    BY <1>5 DEF Refuse, CounterTypes, TrueOutcome, Counting
  <2>9. QED
    BY <2>1, <2>2, <2>3, <2>4, <2>5, <2>6, <2>7, <2>8
<1>6. CASE Supervise
  <2>1. ModeTypes'
    BY <1>6 DEF Supervise, Ending, ModeTypes, Pcs, CloseReasons
  <2>2. Recording'
    BY <1>6 DEF Supervise, Ending, Recording
  <2>3. Deciding'
    BY <1>6 DEF Supervise, Ending, Deciding, ModeTypes, CloseReasons
  <2>4. Reporting'
    BY <1>6 DEF Supervise, Ending, Reporting
  <2>5. Ordering'
    BY <1>6 DEF Supervise, Ending, Ordering
  <2>6. TrueOutcome'
    BY <1>6, ReasonsAssumption DEF Supervise, Ending, TrueOutcome, ModeTypes
  <2>7. IdleDeadline'
    BY <1>6 DEF Supervise, Ending, IdleDeadline
  <2>8. CounterTypes' /\ RecordTypes' /\ Counting'
    BY <1>6 DEF Supervise, Ending, CounterTypes, RecordTypes, Counting
  <2>9. QED
    BY <2>1, <2>2, <2>3, <2>4, <2>5, <2>6, <2>7, <2>8
<1>7. CASE SeesActivity
  <2>1. ModeTypes'
    BY <1>7 DEF SeesActivity, ModeTypes
  <2>2. CounterTypes'
    BY <1>7, Naturals DEF SeesActivity, CounterTypes
  <2>3. IdleDeadline'
    BY <1>7, Naturals DEF SeesActivity, IdleDeadline, CounterTypes
  <2>4. RecordTypes' /\ Recording' /\ Deciding' /\ Reporting' /\ Ordering' /\ TrueOutcome' /\ Counting'
    BY <1>7 DEF SeesActivity, RecordTypes, Recording, Deciding, Reporting, Ordering,
                TrueOutcome, Counting
  <2>5. QED
    BY <2>1, <2>2, <2>3, <2>4
<1>8. CASE IdleExpires
  <2>1. ModeTypes'
    BY <1>8 DEF IdleExpires, Ending, ModeTypes, Pcs, CloseReasons
  <2>2. Recording'
    BY <1>8 DEF IdleExpires, Ending, Recording
  <2>3. Deciding'
    BY <1>8 DEF IdleExpires, Ending, Deciding, CloseReasons
  <2>4. Reporting'
    BY <1>8 DEF IdleExpires, Ending, Reporting
  <2>5. Ordering'
    BY <1>8 DEF IdleExpires, Ending, Ordering
  <2>6. TrueOutcome'
    BY <1>8, ReasonsAssumption DEF IdleExpires, Ending, TrueOutcome
  <2>7. IdleDeadline'
    BY <1>8 DEF IdleExpires, Ending, IdleDeadline
  <2>8. CounterTypes' /\ RecordTypes' /\ Counting'
    BY <1>8 DEF IdleExpires, Ending, CounterTypes, RecordTypes, Counting
  <2>9. QED
    BY <2>1, <2>2, <2>3, <2>4, <2>5, <2>6, <2>7, <2>8
<1>9. CASE SeesWorkerEnd
  <2>1. ModeTypes'
    BY <1>9 DEF SeesWorkerEnd, ModeTypes, Pcs
  <2>2. Recording'
    BY <1>9 DEF SeesWorkerEnd, Recording
  <2>3. Deciding'
    BY <1>9 DEF SeesWorkerEnd, Deciding
  <2>4. Reporting'
    BY <1>9 DEF SeesWorkerEnd, Reporting
  <2>5. Ordering'
    BY <1>9 DEF SeesWorkerEnd, Ordering
  <2>6. IdleDeadline'
    BY <1>9 DEF SeesWorkerEnd, IdleDeadline
  <2>7. CounterTypes' /\ RecordTypes' /\ TrueOutcome' /\ Counting'
    BY <1>9 DEF SeesWorkerEnd, CounterTypes, RecordTypes, TrueOutcome, Counting
  <2>8. QED
    BY <2>1, <2>2, <2>3, <2>4, <2>5, <2>6, <2>7
<1>10. CASE Settle
  <2>1. ModeTypes'
    BY <1>10 DEF Settle, Ending, ModeTypes, Pcs, CloseReasons
  <2>2. Recording'
    BY <1>10 DEF Settle, Ending, Recording
  <2>3. Deciding'
    BY <1>10 DEF Settle, Ending, Deciding, CloseReasons
  <2>4. Reporting'
    BY <1>10 DEF Settle, Ending, Reporting
  <2>5. Ordering'
    BY <1>10 DEF Settle, Ending, Ordering
  <2>6. TrueOutcome'
    BY <1>10, ReasonsAssumption DEF Settle, Ending, TrueOutcome
  <2>7. IdleDeadline'
    BY <1>10 DEF Settle, Ending, IdleDeadline
  <2>8. CounterTypes' /\ RecordTypes' /\ Counting'
    BY <1>10 DEF Settle, Ending, CounterTypes, RecordTypes, Counting
  <2>9. QED
    BY <2>1, <2>2, <2>3, <2>4, <2>5, <2>6, <2>7, <2>8
<1>11. CASE TerminateProves
  <2>1. ModeTypes'
    BY <1>11 DEF TerminateProves, ModeTypes, Pcs, CloseReasons
  <2>2. Recording'
    BY <1>11, Sequels DEF TerminateProves, Recording
  <2>3. Deciding'
    BY <1>11, Sequels, ReasonsAssumption
       DEF TerminateProves, Deciding, Recording, CloseReasons, Refusals
  <2>4. Reporting'
    BY <1>11 DEF TerminateProves, Reporting
  <2>5. Ordering'
    BY <1>11 DEF TerminateProves, Ordering, Working
  <2>6. TrueOutcome'
    BY <1>11, ReasonsAssumption DEF TerminateProves, TrueOutcome
  <2>7. IdleDeadline'
    BY <1>11 DEF TerminateProves, IdleDeadline
  <2>8. CounterTypes' /\ RecordTypes' /\ Counting'
    BY <1>11 DEF TerminateProves, CounterTypes, RecordTypes, Counting
  <2>9. QED
    BY <2>1, <2>2, <2>3, <2>4, <2>5, <2>6, <2>7, <2>8
<1>12. CASE JoinWorkers
  <2>1. ModeTypes'
    BY <1>12 DEF JoinWorkers, ModeTypes, Pcs
  <2>2. Recording'
    BY <1>12 DEF JoinWorkers, Recording
  <2>3. Deciding'
    BY <1>12 DEF JoinWorkers, Deciding, Refusals
  <2>4. Reporting'
    BY <1>12 DEF JoinWorkers, Reporting
  <2>5. Ordering'
    BY <1>12, Sequels DEF JoinWorkers, Ordering, Recording, Working
  <2>6. Counting'
    BY <1>12 DEF JoinWorkers, Counting, CounterTypes
  <2>7. IdleDeadline'
    BY <1>12 DEF JoinWorkers, IdleDeadline
  <2>8. CounterTypes' /\ RecordTypes' /\ TrueOutcome'
    BY <1>12 DEF JoinWorkers, CounterTypes, RecordTypes, TrueOutcome
  <2>9. QED
    BY <2>1, <2>2, <2>3, <2>4, <2>5, <2>6, <2>7, <2>8
<1>13. CASE Complete
  <2>1. ModeTypes'
    BY <1>13 DEF Complete, ModeTypes, Deciding, Pcs
  <2>2. RecordTypes'
    BY <1>13, Sequels DEF Complete, Recorded, RecordTypes, Recording
  <2>3. Recording'
    <3>1. events = Started
      BY <1>13 DEF Complete, Recording
    <3>2. Len(events) = 2 /\ Append(events, "Closed") = Closed
      BY <3>1, Sequels
    <3>3. events' = Closed
      BY <1>13, <3>2, Naturals DEF Complete
    <3>4. pc' = "completed" /\ trail' = Recorded("ended") /\ audit' = audit
      BY <1>13 DEF Complete
    <3>5. trail' = Ended \/ (trail' = <<"started">> /\ audit = "failed")
      BY <1>13, Sequels DEF Complete, Recorded, Recording, ModeTypes
    <3>6. QED
      BY <3>4, <3>5, Sequels DEF Recording
  <2>4. Deciding'
    BY <1>13 DEF Complete, Deciding
  <2>5. Reporting'
    <3>1. events = Started
      BY <1>13 DEF Complete, Recording
    <3>2. Len(events) = 2 /\ Append(events, "Closed") = Closed
      BY <3>1, Sequels
    <3>3. events' = Closed
      BY <1>13, <3>2, Naturals DEF Complete
    <3>4. pc' = "completed" /\ final' = outcome /\ outcome' = outcome /\ outcome \in CloseReasons
      BY <1>13 DEF Complete, Deciding
    <3>5. QED
      BY <3>3, <3>4, ReasonsAssumption DEF Reporting
  <2>6. Ordering'
    BY <1>13 DEF Complete, Ordering, Working
  <2>7. IdleDeadline'
    BY <1>13 DEF Complete, IdleDeadline
  <2>8. CounterTypes' /\ TrueOutcome' /\ Counting'
    BY <1>13 DEF Complete, CounterTypes, TrueOutcome, Counting
  <2>9. QED
    BY <2>1, <2>2, <2>3, <2>4, <2>5, <2>6, <2>7, <2>8
<1>14. CASE Release
  <2>1. ModeTypes'
    BY <1>14 DEF Release, ModeTypes
  <2>2. Ordering'
    BY <1>14 DEF Release, Ordering, Working
  <2>3. CounterTypes' /\ RecordTypes' /\ Recording' /\ Deciding' /\ Reporting' /\ TrueOutcome' /\ Counting' /\ IdleDeadline'
    BY <1>14 DEF Release, CounterTypes, RecordTypes, Recording, Deciding, Reporting,
                 TrueOutcome, Counting, IdleDeadline
  <2>4. QED
    BY <2>1, <2>2, <2>3
<1>15. CASE TaskEnds
  <2>1. ModeTypes'
    BY <1>15 DEF TaskEnds, ModeTypes, Pcs
  <2>2. Recording'
    BY <1>15 DEF TaskEnds, Recording
  <2>3. Deciding'
    BY <1>15 DEF TaskEnds, Deciding, Reporting
  <2>4. Reporting'
    BY <1>15 DEF TaskEnds, Reporting
  <2>5. Ordering'
    BY <1>15 DEF TaskEnds, Ordering, Working
  <2>6. IdleDeadline'
    BY <1>15 DEF TaskEnds, IdleDeadline
  <2>7. CounterTypes' /\ RecordTypes' /\ TrueOutcome' /\ Counting'
    BY <1>15 DEF TaskEnds, CounterTypes, RecordTypes, TrueOutcome, Counting
  <2>8. QED
    BY <2>1, <2>2, <2>3, <2>4, <2>5, <2>6, <2>7
<1>16. QED
  BY <1>1, <1>2, <1>3, <1>4, <1>5, <1>6, <1>7, <1>8, <1>9, <1>10, <1>11, <1>12, <1>13, <1>14, <1>15
     DEF SupervisorNext

\* Every step of the reader and of the writer keeps the invariant.
LEMMA WorkerStep == LifeInv /\ WorkerNext => LifeInv'
<1> SUFFICES ASSUME LifeInv, WorkerNext PROVE LifeInv'
  OBVIOUS
<1> USE DEF LifeInv, process, workers, timers, reports
<1>1. CASE ReaderReads
  <2>1. ModeTypes'
    BY <1>1 DEF ReaderReads, ModeTypes
  <2>2. CounterTypes'
    BY <1>1, Naturals DEF ReaderReads, CounterTypes
  <2>3. Ordering'
    BY <1>1 DEF ReaderReads, Ordering, Working
  <2>4. Counting'
    BY <1>1 DEF ReaderReads, Counting, CounterTypes
  <2>5. RecordTypes' /\ Recording' /\ Deciding' /\ Reporting' /\ TrueOutcome' /\ IdleDeadline'
    BY <1>1 DEF ReaderReads, RecordTypes, Recording, Deciding, Reporting, TrueOutcome,
                IdleDeadline
  <2>6. QED
    BY <2>1, <2>2, <2>3, <2>4, <2>5
<1>2. CASE ReaderSends
  <2>1. ModeTypes'
    BY <1>2 DEF ReaderSends, Active, ModeTypes
  <2>2. CounterTypes'
    BY <1>2, Naturals DEF ReaderSends, Active, CounterTypes
  <2>3. Ordering'
    BY <1>2 DEF ReaderSends, Ordering, Working
  <2>4. Counting'
    BY <1>2 DEF ReaderSends, Counting, CounterTypes
  <2>5. IdleDeadline'
    BY <1>2 DEF ReaderSends, Active, IdleDeadline
  <2>6. RecordTypes' /\ Recording' /\ Deciding' /\ Reporting' /\ TrueOutcome'
    BY <1>2 DEF ReaderSends, RecordTypes, Recording, Deciding, Reporting, TrueOutcome
  <2>7. QED
    BY <2>1, <2>2, <2>3, <2>4, <2>5, <2>6
<1>3. CASE ReaderEnds
  <2>1. ModeTypes'
    BY <1>3 DEF ReaderEnds, ModeTypes
  <2>2. Ordering'
    BY <1>3 DEF ReaderEnds, Ordering, Working
  <2>3. Counting'
    BY <1>3 DEF ReaderEnds, Counting, CounterTypes
  <2>4. CounterTypes' /\ RecordTypes' /\ Recording' /\ Deciding' /\ Reporting' /\ TrueOutcome' /\ IdleDeadline'
    BY <1>3 DEF ReaderEnds, CounterTypes, RecordTypes, Recording, Deciding, Reporting,
                TrueOutcome, IdleDeadline
  <2>5. QED
    BY <2>1, <2>2, <2>3, <2>4
<1>4. CASE WriterTakes
  <2>1. ModeTypes'
    BY <1>4 DEF WriterTakes, ModeTypes
  <2>2. CounterTypes'
    BY <1>4, Naturals DEF WriterTakes, CounterTypes
  <2>3. Ordering'
    BY <1>4 DEF WriterTakes, Ordering, Working
  <2>4. RecordTypes' /\ Recording' /\ Deciding' /\ Reporting' /\ TrueOutcome' /\ Counting' /\ IdleDeadline'
    BY <1>4 DEF WriterTakes, RecordTypes, Recording, Deciding, Reporting, TrueOutcome,
                Counting, IdleDeadline
  <2>5. QED
    BY <2>1, <2>2, <2>3, <2>4
<1>5. CASE WriterWrites
  <2>1. ModeTypes'
    BY <1>5 DEF WriterWrites, Active, ModeTypes
  <2>2. CounterTypes'
    BY <1>5, Naturals DEF WriterWrites, Active, CounterTypes
  <2>3. Ordering'
    BY <1>5 DEF WriterWrites, Ordering, Working
  <2>4. IdleDeadline'
    BY <1>5 DEF WriterWrites, Active, IdleDeadline
  <2>5. RecordTypes' /\ Recording' /\ Deciding' /\ Reporting' /\ TrueOutcome' /\ Counting'
    BY <1>5 DEF WriterWrites, RecordTypes, Recording, Deciding, Reporting, TrueOutcome, Counting
  <2>6. QED
    BY <2>1, <2>2, <2>3, <2>4, <2>5
<1>6. CASE WriterEnds
  <2>1. ModeTypes'
    BY <1>6 DEF WriterEnds, ModeTypes
  <2>2. Ordering'
    BY <1>6 DEF WriterEnds, Ordering, Working
  <2>3. CounterTypes' /\ RecordTypes' /\ Recording' /\ Deciding' /\ Reporting' /\ TrueOutcome' /\ Counting' /\ IdleDeadline'
    BY <1>6 DEF WriterEnds, CounterTypes, RecordTypes, Recording, Deciding, Reporting,
                TrueOutcome, Counting, IdleDeadline
  <2>4. QED
    BY <2>1, <2>2, <2>3
<1>7. QED
  BY <1>1, <1>2, <1>3, <1>4, <1>5, <1>6 DEF WorkerNext

\* What the process, the clock, the sink and an unwind do keeps the invariant.
LEMMA EnvStep == LifeInv /\ Environment => LifeInv'
<1> SUFFICES ASSUME LifeInv, Environment PROVE LifeInv'
  OBVIOUS
<1> USE DEF LifeInv, process, workers, timers, reports
<1>1. ASSUME NEW lines \in SUBSET LogLines, Classify(lines) PROVE LifeInv'
  <2>1. ModeTypes'
    BY <1>1 DEF Classify, Classification, ModeTypes
  <2>2. CounterTypes' /\ RecordTypes' /\ Recording' /\ Deciding' /\ Reporting' /\ Ordering' /\ TrueOutcome' /\ Counting' /\ IdleDeadline'
    BY <1>1 DEF Classify, CounterTypes, RecordTypes, Recording, Deciding, Reporting, Ordering,
                TrueOutcome, Counting, IdleDeadline, Working
  <2>3. QED
    BY <2>1, <2>2
<1>2. CASE UnwindConnecting
  <2>1. ModeTypes'
    BY <1>2 DEF UnwindConnecting, ModeTypes, Pcs, Refusals
  <2>2. Recording'
    BY <1>2 DEF UnwindConnecting, Recording
  <2>3. Deciding'
    BY <1>2 DEF UnwindConnecting, Deciding, Refusals
  <2>4. Reporting'
    BY <1>2 DEF UnwindConnecting, Reporting
  <2>5. Ordering'
    BY <1>2 DEF UnwindConnecting, Ordering
  <2>6. TrueOutcome'
    BY <1>2, ReasonsAssumption DEF UnwindConnecting, TrueOutcome, CloseReasons, Refusals
  <2>7. IdleDeadline'
    BY <1>2 DEF UnwindConnecting, IdleDeadline
  <2>8. CounterTypes' /\ RecordTypes' /\ Counting'
    BY <1>2 DEF UnwindConnecting, CounterTypes, RecordTypes, Counting
  <2>9. QED
    BY <2>1, <2>2, <2>3, <2>4, <2>5, <2>6, <2>7, <2>8
<1>3. CASE UnwindRunning
  <2>1. ModeTypes'
    BY <1>3 DEF UnwindRunning, Ending, ModeTypes, Pcs, CloseReasons
  <2>2. Recording'
    BY <1>3 DEF UnwindRunning, Ending, Recording
  <2>3. Deciding'
    BY <1>3 DEF UnwindRunning, Ending, Deciding, CloseReasons
  <2>4. Reporting'
    BY <1>3 DEF UnwindRunning, Ending, Reporting
  <2>5. Ordering'
    BY <1>3 DEF UnwindRunning, Ending, Ordering
  <2>6. TrueOutcome'
    BY <1>3, ReasonsAssumption DEF UnwindRunning, Ending, TrueOutcome
  <2>7. IdleDeadline'
    BY <1>3 DEF UnwindRunning, Ending, IdleDeadline
  <2>8. CounterTypes' /\ RecordTypes' /\ Counting'
    BY <1>3 DEF UnwindRunning, Ending, CounterTypes, RecordTypes, Counting
  <2>9. QED
    BY <2>1, <2>2, <2>3, <2>4, <2>5, <2>6, <2>7, <2>8
<1>4. CASE WaitFails
  <2>1. ModeTypes'
    BY <1>4 DEF WaitFails, Ending, ModeTypes, Pcs, CloseReasons
  <2>2. Recording'
    BY <1>4 DEF WaitFails, Ending, Recording
  <2>3. Deciding'
    BY <1>4 DEF WaitFails, Ending, Deciding, CloseReasons
  <2>4. Reporting'
    BY <1>4 DEF WaitFails, Ending, Reporting
  <2>5. Ordering'
    BY <1>4 DEF WaitFails, Ending, Ordering
  <2>6. TrueOutcome'
    BY <1>4, ReasonsAssumption DEF WaitFails, Ending, TrueOutcome
  <2>7. IdleDeadline'
    BY <1>4 DEF WaitFails, Ending, IdleDeadline
  <2>8. CounterTypes' /\ RecordTypes' /\ Counting'
    BY <1>4 DEF WaitFails, Ending, CounterTypes, RecordTypes, Counting
  <2>9. QED
    BY <2>1, <2>2, <2>3, <2>4, <2>5, <2>6, <2>7, <2>8
<1>5. CASE TerminateFails
  <2>1. ModeTypes'
    BY <1>5 DEF TerminateFails, ModeTypes
  <2>2. CounterTypes' /\ RecordTypes' /\ Recording' /\ Deciding' /\ Reporting' /\ Ordering' /\ TrueOutcome' /\ Counting' /\ IdleDeadline'
    BY <1>5 DEF TerminateFails, CounterTypes, RecordTypes, Recording, Deciding, Reporting,
                Ordering, TrueOutcome, Counting, IdleDeadline
  <2>3. QED
    BY <2>1, <2>2
<1>6. CASE ProcessWrites
  <2>1. CounterTypes'
    BY <1>6, Naturals DEF ProcessWrites, CounterTypes
  <2>2. Counting'
    BY <1>6 DEF ProcessWrites, Counting, CounterTypes
  <2>3. ModeTypes' /\ RecordTypes' /\ Recording' /\ Deciding' /\ Reporting' /\ Ordering' /\ TrueOutcome' /\ IdleDeadline'
    BY <1>6 DEF ProcessWrites, ModeTypes, RecordTypes, Recording, Deciding, Reporting,
                Ordering, TrueOutcome, IdleDeadline, Working
  <2>4. QED
    BY <2>1, <2>2, <2>3
<1>7. CASE ProcessExits
  <2>1. ModeTypes'
    BY <1>7 DEF ProcessExits, ModeTypes
  <2>2. TrueOutcome'
    BY <1>7 DEF ProcessExits, TrueOutcome
  <2>3. CounterTypes' /\ RecordTypes' /\ Recording' /\ Deciding' /\ Reporting' /\ Ordering' /\ Counting' /\ IdleDeadline'
    BY <1>7 DEF ProcessExits, CounterTypes, RecordTypes, Recording, Deciding, Reporting,
                Ordering, Counting, IdleDeadline, Working
  <2>4. QED
    BY <2>1, <2>2, <2>3
<1>8. CASE Tick
  <2>1. CounterTypes'
    BY <1>8, Naturals DEF Tick, Min, Less, CounterTypes
  <2>2. TrueOutcome'
    BY <1>8 DEF Tick, Less, TrueOutcome
  <2>3. IdleDeadline'
    BY <1>8, Naturals DEF Tick, Min, Less, IdleDeadline, CounterTypes
  <2>4. ModeTypes' /\ RecordTypes' /\ Recording' /\ Deciding' /\ Reporting' /\ Ordering' /\ Counting'
    BY <1>8 DEF Tick, ModeTypes, RecordTypes, Recording, Deciding, Reporting, Ordering, Counting
  <2>5. QED
    BY <2>1, <2>2, <2>3, <2>4
<1>9. CASE AuditFails
  <2>1. ModeTypes'
    BY <1>9 DEF AuditFails, ModeTypes
  <2>2. Recording'
    BY <1>9 DEF AuditFails, Recording
  <2>3. CounterTypes' /\ RecordTypes' /\ Deciding' /\ Reporting' /\ Ordering' /\ TrueOutcome' /\ Counting' /\ IdleDeadline'
    BY <1>9 DEF AuditFails, CounterTypes, RecordTypes, Deciding, Reporting, Ordering,
                TrueOutcome, Counting, IdleDeadline, Working
  <2>4. QED
    BY <2>1, <2>2, <2>3
<1>10. QED
  BY <1>1, <1>2, <1>3, <1>4, <1>5, <1>6, <1>7, <1>8, <1>9 DEF Environment

\* The invariant holds in every behaviour.
THEOREM LifeInvariant == Spec => []LifeInv
<1>1. LifeInv /\ [Next]_vars => LifeInv'
  <2> SUFFICES ASSUME LifeInv, [Next]_vars PROVE LifeInv'
    OBVIOUS
  <2>1. CASE Next
    BY <2>1, CallerStep, SupervisorStep, WorkerStep, EnvStep DEF Next
  <2>2. CASE UNCHANGED vars
    BY <2>2 DEF vars, process, workers, timers, reports, LifeInv, ModeTypes, CounterTypes,
                RecordTypes, Recording, Deciding, Reporting, Ordering, TrueOutcome, Counting,
                IdleDeadline, Working
  <2>3. QED
    BY <2>1, <2>2
<1>2. QED
  BY LifeInit, <1>1, PTL DEF Spec

\* Every variable keeps its type; the lifecycle channel never overflows, and no chunk
\* is counted twice.
THEOREM TypeCorrect == Spec => []TypeOK
BY LifeInvariant, LifeTypes, PTL

\* On every path through run_connecting and run_supervisor the reservation is dropped
\* only when the process group was proven absent and both workers are over.
THEOREM SlotOutlivesItsSession == Spec => []SlotOutlivesSession
<1>1. LifeInv => SlotOutlivesSession
  BY DEF LifeInv, Ordering, SlotOutlivesSession
<1>2. QED
  BY <1>1, LifeInvariant, PTL

\* session_started precedes the handle, the workers and every byte of output, and
\* session_ended precedes the release of the slot unless the sink failed.
THEOREM RecordsBracket == Spec => []RecordsBracketTheSession
<1>1. LifeInv => RecordsBracketTheSession
  <2> SUFFICES ASSUME LifeInv PROVE RecordsBracketTheSession
    OBVIOUS
  <2> USE DEF LifeInv
  <2>1. events # <<>> => trail # <<>> /\ trail[1] = "started"
    BY Sequels DEF Recording
  <2>2. caller \in {"session", "ended"} => events # <<>>
    <3> SUFFICES ASSUME caller \in {"session", "ended"} PROVE events # <<>>
      OBVIOUS
    <3>1. CASE pc \in {"completed", "gone"}
      BY <3>1, Sequels DEF Deciding, Reporting
    <3>2. CASE pc \notin {"completed", "gone"}
      BY <3>2, Sequels DEF Deciding, Recording, ModeTypes, Pcs
    <3>3. QED
      BY <3>1, <3>2
  <2>3. Working \/ output + delivered > 0 => events # <<>>
    BY DEF Ordering, Working
  <2>4. StartedSessionsEnd
    BY DEF StartedSessionsEnd, Ordering, Recording
  <2>5. QED
    BY <2>1, <2>2, <2>3, <2>4 DEF RecordsBracketTheSession, NothingBeforeTheStartRecord
<1>2. QED
  BY <1>1, LifeInvariant, PTL

\* The final snapshot tells the truth: the first requested reason, an exit the process
\* made by itself, a deadline that had passed; and a reader that sees Closed finds the
\* snapshot and the Closed event.
THEOREM EndIsTrue == Spec => []ReportedEndIsTrue
<1>1. LifeInv => ReportedEndIsTrue
  <2> SUFFICES ASSUME LifeInv PROVE ReportedEndIsTrue
    OBVIOUS
  <2> USE DEF LifeInv
  <2>1. final # None => final = outcome
    BY DEF Reporting
  <2>2. /\ final \in BridgeReasons \cup {"HandleDropped", "ManagerShutdown"} => closeReq = final
        /\ final = "ChildExited" => leader = "exited"
        /\ final = "Absolute" => absoluteLeft = 0
    BY <2>1, ReasonsAssumption DEF TrueOutcome, CloseReasons
  <2>3. caller = "ended" => final # None /\ events = Closed
    BY DEF Deciding, Reporting, ModeTypes, Pcs
  <2>4. Closed # <<>> /\ Closed[Len(Closed)] = "Closed"
    BY DEF Closed
  <2>5. QED
    BY <2>2, <2>3, <2>4 DEF ReportedEndIsTrue
<1>2. QED
  BY <1>1, LifeInvariant, PTL

\* The supervisor decides "Idle" only when a whole idle timeout passed without activity:
\* the deadline in force is never earlier than the last activity it has seen allows, and
\* it looks at the activity channel before the timer.
THEOREM IdleIsQuiet == Spec => IdleMeansQuiet
<1>1. LifeInv /\ [Next]_vars => (outcome' = "Idle" /\ outcome # "Idle" => quiet >= IdleTimeout)
  <2> SUFFICES ASSUME LifeInv, [Next]_vars, outcome' = "Idle", outcome # "Idle"
               PROVE  quiet >= IdleTimeout
    OBVIOUS
  <2> USE DEF LifeInv
  <2>1. IdleExpires
    <3>1. closeReq # "Idle"
      BY ReasonsAssumption DEF ModeTypes, CloseReasons
    <3>2. ~(CallerNext \/ WorkerNext)
      BY DEF CallerNext, HandleCloses, ManagerCloses, CallerDrops, HandleReads,
             HandleReadsEnd, HandleSends, WorkerNext, ReaderReads, ReaderSends, ReaderEnds,
             WriterTakes, WriterWrites, WriterEnds
    <3>3. ~Environment
      BY DEF Environment, Classify, UnwindConnecting, UnwindRunning, WaitFails, Ending,
             TerminateFails, ProcessWrites, ProcessExits, Tick, AuditFails
    <3>4. ~(UNCHANGED vars)
      BY DEF vars
    <3>5. SupervisorNext => IdleExpires
      BY <3>1 DEF SupervisorNext, Connecting, Outcome, RecordStart, Handoff, SendResult,
                  Refuse, Supervise, Ending, SeesActivity, SeesWorkerEnd, Settle,
                  TerminateProves, JoinWorkers, Complete, Release, TaskEnds
    <3>6. QED
      BY <3>2, <3>3, <3>4, <3>5 DEF Next
  <2>2. idleLeft + quiet >= IdleTimeout /\ idleLeft = 0
    BY <2>1 DEF IdleExpires, IdleDeadline
  <2>3. QED
    BY <2>2 DEF CounterTypes
<1>2. QED
  BY <1>1, LifeInvariant, PTL DEF Spec, IdleMeansQuiet

\* Every reason a session can end with is one that happened to it.
THEOREM ReasonsTrue == Spec => ReasonsAreTrue
BY EndIsTrue, IdleIsQuiet DEF ReasonsAreTrue

----------------------------------------------------------------------------
(* The session as SessionAdmission sees it.                                *)

Connects == {"connecting", "recording"}
Runs == {"handoff", "sending", "running", "settling"}
Terminates == {"rejecting", "terminating"}
Finishes == {"refusing", "joining", "completing"}
Finished == {"refused", "completed"}

\* Until an attempt to terminate proves it absent, the group counts as present.
GroupInv == pc \in Connects \cup Runs \cup Terminates => group = "present"

\* Only the supervisor moves the session on; whoever else steps leaves its point, its
\* group and its slot alone.
LEMMA OthersStandStill ==
  ASSUME CallerNext \/ WorkerNext \/ (\E lines \in SUBSET LogLines : Classify(lines))
           \/ TerminateFails \/ ProcessWrites \/ ProcessExits \/ Tick \/ UNCHANGED vars
  PROVE  UNCHANGED <<pc, group, reservation, audit>>
<1>1. CASE CallerNext
  BY <1>1 DEF CallerNext, HandleCloses, ManagerCloses, CallerDrops, HandleReads,
              HandleReadsEnd, HandleSends, process, reports
<1>2. CASE WorkerNext
  BY <1>2 DEF WorkerNext, ReaderReads, ReaderSends, ReaderEnds, WriterTakes, WriterWrites,
              WriterEnds, process, reports
<1>3. CASE (\E lines \in SUBSET LogLines : Classify(lines)) \/ TerminateFails
             \/ ProcessWrites \/ ProcessExits \/ Tick
  BY <1>3 DEF Classify, TerminateFails, ProcessWrites, ProcessExits, Tick, process, reports
<1>4. CASE UNCHANGED vars
  BY <1>4 DEF vars, process, reports
<1>5. QED
  BY <1>1, <1>2, <1>3, <1>4

\* The steps of the supervisor, by the point they leave and the point they reach.
LEMMA Moves ==
  ASSUME [Next]_vars
  PROVE  \/ UNCHANGED <<pc, group, reservation, audit>>
         \/ /\ UNCHANGED <<pc, group, reservation>>
            /\ AuditFails
         \/ /\ UNCHANGED <<group, reservation, audit>>
            /\ \/ pc \in Connects /\ pc' = "recording"
               \/ pc \in Connects /\ pc' = "handoff" /\ audit = "available"
               \/ pc \in Runs /\ pc' \in Runs
               \/ pc \in Connects \cup Runs /\ pc' \in Terminates
               \/ pc \in Finishes /\ pc' \in Finishes \cup Finished
               \/ pc \in Finished /\ pc' = "gone" /\ reservation = "dropped"
         \/ /\ UNCHANGED <<reservation, audit>>
            /\ pc \in Terminates /\ pc' \in Finishes /\ group' = "absent"
         \/ /\ UNCHANGED <<pc, group, audit>>
            /\ pc \in Finished /\ reservation = "held" /\ reservation' = "dropped"
<1> USE DEF Connects, Runs, Terminates, Finishes, Finished
<1>1. CASE Connecting \/ RecordStart \/ Handoff \/ SendResult \/ UnwindConnecting
  BY <1>1 DEF Connecting, Outcome, RecordStart, Handoff, SendResult, UnwindConnecting,
              process, reports
<1>2. CASE Supervise \/ SeesActivity \/ IdleExpires \/ SeesWorkerEnd \/ Settle
             \/ UnwindRunning \/ WaitFails
  BY <1>2 DEF Supervise, SeesActivity, IdleExpires, SeesWorkerEnd, Settle, UnwindRunning,
              WaitFails, Ending, process, reports
<1>3. CASE Refuse \/ JoinWorkers \/ Complete
  BY <1>3 DEF Refuse, JoinWorkers, Complete, process, reports
<1>4. CASE TerminateProves
  BY <1>4 DEF TerminateProves, reports
<1>5. CASE Release \/ TaskEnds
  BY <1>5 DEF Release, TaskEnds, process, reports
<1>6. CASE AuditFails
  BY <1>6 DEF AuditFails, process, reports
<1>7. CASE CallerNext \/ WorkerNext \/ (\E lines \in SUBSET LogLines : Classify(lines))
             \/ TerminateFails \/ ProcessWrites \/ ProcessExits \/ Tick \/ UNCHANGED vars
  BY <1>7, OthersStandStill
<1>8. QED
  BY <1>1, <1>2, <1>3, <1>4, <1>5, <1>6, <1>7 DEF Next, SupervisorNext, Environment

\* The group is present until its absence is proven.
LEMMA GroupStep == GroupInv /\ [Next]_vars => GroupInv'
BY Moves DEF GroupInv, Connects, Runs, Terminates, Finishes, Finished

\* The stage of a session at each point of its supervisor.
StageInv ==
  /\ pc \in Connects => Stage = "connecting" /\ reservation = "held"
  /\ pc \in Runs => Stage = "running" /\ reservation = "held"
  /\ pc \in Terminates => Stage = "terminating" /\ reservation = "held"
  /\ pc \in Finishes => Stage = "proven" /\ reservation = "held"
  /\ pc \in Finished => Stage = IF reservation = "held" THEN "proven" ELSE "released"
  /\ pc = "gone" => Stage = "done" /\ reservation = "dropped"

\* Group and slot give the session its stage.
LEMMA Stages == LifeInv /\ GroupInv => StageInv
<1>1. LifeInv =>
        /\ pc \in Finishes \cup Finished \cup {"gone"} => group = "absent"
        /\ reservation \in {"held", "dropped"}
        /\ reservation = "dropped" => pc \in Finished \cup {"gone"}
        /\ pc = "gone" => reservation = "dropped"
  BY DEF LifeInv, Ordering, ModeTypes, Finishes, Finished
<1>2. QED
  BY <1>1 DEF GroupInv, StageInv, Stage, Connects, Runs, Terminates, Finishes, Finished

\* A step that leaves stage, slot, registration and sink alone is invisible.
LEMMA Invisible ==
  ASSUME Stage' = Stage, reservation' = reservation, audit' = audit,
         pc' = "gone" <=> pc = "gone"
  PROVE  UNCHANGED Visible
BY DEF Visible

\* A change of the stage alone is a step of the supervisor of SessionAdmission.
LEMMA StageMoves ==
  ASSUME NEW from, NEW to, Stage = from, Stage' = to, reservation' = reservation,
         audit' = audit, pc # "gone", pc' # "gone"
  PROVE  Adm!SupervisorStep("session", from, to)
BY DEF Adm!SupervisorStep, Adm!MoveConn, Adm!registry, Adm!shutdown, Slot

\* Every step of the session is one SessionAdmission expects, or invisible to it.
LEMMA AdmissionStep ==
  ASSUME StageInv, StageInv', [Next]_vars
  PROVE  Supervision \/ UNCHANGED Visible
<1>1. CASE UNCHANGED <<pc, group, reservation, audit>>
  BY <1>1, Invisible DEF Stage
<1>2. CASE UNCHANGED <<pc, group, reservation>> /\ AuditFails
  <2>1. Adm!AuditFails
    BY <1>2 DEF AuditFails, Adm!AuditFails, Adm!registry, Adm!shutdown, Slot, Stage
  <2>2. QED
    BY <2>1 DEF Supervision
<1>3. CASE UNCHANGED <<group, reservation, audit>> /\ pc \in Connects /\ pc' = "handoff"
             /\ audit = "available"
  <2>1. Adm!SupervisorStep("session", "connecting", "running")
    BY <1>3, StageMoves DEF StageInv, Connects, Runs
  <2>2. QED
    BY <1>3, <2>1 DEF Supervision, Adm!Admit
<1>4. CASE UNCHANGED <<group, reservation, audit>> /\ pc \in Connects \cup Runs
             /\ pc' \in Terminates
  <2>1. \/ Adm!SupervisorStep("session", "connecting", "terminating")
        \/ Adm!SupervisorStep("session", "running", "terminating")
    BY <1>4, StageMoves DEF StageInv, Connects, Runs, Terminates
  <2>2. QED
    BY <2>1 DEF Supervision, Adm!Stop
<1>5. CASE UNCHANGED <<reservation, audit>> /\ pc \in Terminates /\ pc' \in Finishes
  <2>1. Adm!SupervisorStep("session", "terminating", "proven")
    BY <1>5, StageMoves DEF StageInv, Terminates, Finishes
  <2>2. QED
    BY <2>1 DEF Supervision, Adm!Prove
<1>6. CASE UNCHANGED <<pc, group, audit>> /\ pc \in Finished /\ reservation = "held"
             /\ reservation' = "dropped"
  <2>1. Stage = "proven" /\ Stage' = "released" /\ pc # "gone" /\ pc' # "gone"
    BY <1>6 DEF StageInv, Finished
  <2>2. Adm!Release("session")
    BY <1>6, <2>1 DEF Adm!Release, Adm!OwnConn, Adm!Drop, Adm!Dropped, Adm!LeaseIds,
                     Adm!registry, Adm!shutdown, Slot
  <2>3. QED
    BY <2>2 DEF Supervision
<1>7. CASE UNCHANGED <<group, reservation, audit>> /\ pc \in Finished /\ pc' = "gone"
             /\ reservation = "dropped"
  <2>1. Stage = "released" /\ Stage' = "done" /\ pc # "gone"
    BY <1>7 DEF StageInv, Finished
  <2>2. Adm!Deregister("session")
    BY <1>7, <2>1 DEF Adm!Deregister, Adm!MoveConn, Slot
  <2>3. QED
    BY <2>2 DEF Supervision
<1>8. CASE UNCHANGED <<group, reservation, audit>>
            /\ \/ pc \in Connects /\ pc' = "recording"
               \/ pc \in Runs /\ pc' \in Runs
               \/ pc \in Finishes /\ pc' \in Finishes \cup Finished
  <2>1. Stage' = Stage
    BY <1>8 DEF StageInv, Connects, Runs, Finishes, Finished
  <2>2. QED
    BY <1>8, <2>1, Invisible DEF Connects, Runs, Finishes, Finished
<1>9. QED
  BY <1>1, <1>2, <1>3, <1>4, <1>5, <1>6, <1>7, <1>8, Moves

\* The session SessionAdmission counts on is this one: every step of supervisor, workers,
\* client, process, timers and sink is one of its steps of a supervisor, in its order, or
\* changes nothing it sees.
THEOREM SessionKeepsToAdmission == Spec => KeepsToAdmission
<1>1. Init => GroupInv /\ Stage = "connecting" /\ Adm!SessionHoldsLiveLease
  BY DEF Init, GroupInv, Stage, Slot, Adm!SessionHoldsLiveLease, Adm!LeaseIds, Adm!LiveLease
<1>2. StageInv /\ StageInv' /\ [Next]_vars => (Visible' # Visible => Supervision)
  BY AdmissionStep
<1>3. QED
  BY <1>1, <1>2, GroupStep, Stages, LifeInvariant, PTL DEF Spec, KeepsToAdmission

\* The variables of SessionAdmission change only with what is visible of the session.
LEMMA NothingElseIsSeen ==
  ASSUME UNCHANGED Visible PROVE UNCHANGED Adm!vars
<1>1. Stage' = Stage /\ reservation' = reservation /\ audit' = audit
      /\ (pc' = "gone" <=> pc = "gone")
  BY DEF Visible
<1>2. QED
  BY <1>1 DEF Adm!vars, Adm!registry, Adm!shutdown, Slot

\* The refinement in the form of a specification: the session, seen through the variables
\* of SessionAdmission, takes steps of a supervisor there and no others.
THEOREM SupervisorImplemented == Spec => [][Supervision]_(Adm!vars)
<1>1. UNCHANGED vars => UNCHANGED Visible
  BY DEF vars, process, reports, Visible, Stage
<1>2. [Visible' # Visible => Supervision]_vars => [Supervision]_(Adm!vars)
  BY <1>1, NothingElseIsSeen
<1>3. QED
  BY <1>2, SessionKeepsToAdmission, PTL DEF KeepsToAdmission
=============================================================================
