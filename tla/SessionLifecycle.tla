------------------------- MODULE SessionLifecycle -------------------------
(***************************************************************************)
(* The life of one session, from the spawn of its process group to the     *)
(* release of its reservation: the supervisor task of session.rs           *)
(* (run_connecting, run_supervisor, complete_supervisor and the recovery   *)
(* from an unwind), the reader and writer workers with their bounded       *)
(* channels, the Session handle and the audit records.                     *)
(*                                                                         *)
(* One poll of a biased select is one step.  Timers count down in ticks,   *)
(* so that time never ends.  Chunks and commands are counted, not named.   *)
(* The process group is what PtyChild::terminate shows of it: an attempt   *)
(* fails, or proves the group absent.                                      *)
(***************************************************************************)
EXTENDS Integers, Sequences

CONSTANTS
  BridgeReasons,     \* reasons the owner of the handle may close with
  OutputCapacity,    \* OUTPUT_CHANNEL_CAPACITY
  InputCapacity,     \* INPUT_CHANNEL_CAPACITY
  EventCapacity,     \* LIFECYCLE_CHANNEL_CAPACITY
  AdmissionTimeout,  \* SSH_ADMISSION_TIMEOUT, in ticks
  IdleTimeout,       \* limits.idle_timeout
  AbsoluteTimeout,   \* limits.absolute_timeout
  PtyBuffer,         \* bound: chunks the kernel holds for the PTY master
  MaxOutput,         \* bound: chunks the process writes
  None               \* "no value"

ASSUME BoundsAssumption ==
  /\ {OutputCapacity, InputCapacity, EventCapacity, PtyBuffer, MaxOutput} \subseteq Nat
  /\ {AdmissionTimeout, IdleTimeout, AbsoluteTimeout} \subseteq Nat

VARIABLES
  pc,         \* the supervisor task
  outcome,    \* why it is ending: a ConnectingOutcome or a SessionCloseReason
  caller,     \* start_admitted's caller, then the owner of the Session
  closeReq,   \* the close watch channel
  admission,  \* the SshDiagnosticClass in the admission channel
  leader,     \* the process: running, exited by itself, or killed
  group,      \* its process group: present, or proven absent
  retried,    \* an attempt to terminate failed
  cancel,     \* the cancel watch channel
  reader,     \* read_output
  writer,     \* write_input
  workerEvents, \* worker_event channel
  pty,        \* chunks written by the process and not yet read
  output,     \* output channel
  commands,   \* command channel
  written, delivered,   \* chunks the process wrote, chunks Session::read returned
  activity,   \* the activity watch channel: is there a value not yet seen
  quiet,      \* age of the last activity, up to IdleTimeout
  admissionLeft, idleLeft, absoluteLeft,   \* the three sleeps
  audit,      \* the sink: "available" or "failed"
  trail,      \* the records this session left in the audit log
  events,     \* the lifecycle channel, never drained by the bridge
  final,      \* the final watch channel
  reservation \* "held" or "dropped"

process == <<leader, group>>
workers == <<reader, writer, workerEvents, pty, output, commands, written, delivered>>
timers  == <<quiet, admissionLeft, idleLeft, absoluteLeft>>
reports == <<trail, events, final, reservation>>
vars == <<pc, outcome, caller, closeReq, admission, process, retried, cancel, workers,
          activity, timers, audit, reports>>

CloseReasons == BridgeReasons \cup
  {"HandleDropped", "ManagerShutdown", "ChildExited", "Absolute", "Idle",
   "BackendFailure", "SupervisorUnwind"}
Refusals == {"Rejected", "Closed", "CallerDropped", "AuditUnavailable", "Unwound"}

\* The lifecycle channel takes the three events of a session.
ASSUME CapacityAssumption == EventCapacity >= 3

\* The reasons of the handle's owner are none of the supervisor's own, and no
\* reason is a ConnectingOutcome.
ASSUME ReasonsAssumption ==
  /\ BridgeReasons \cap
       {"HandleDropped", "ManagerShutdown", "ChildExited", "Absolute", "Idle",
        "BackendFailure", "SupervisorUnwind"} = {}
  /\ CloseReasons \cap Refusals = {}
  /\ None \notin CloseReasons \cup Refusals

Pcs == {"connecting", "recording", "handoff", "sending", "rejecting", "refusing",
        "refused", "running", "settling", "terminating", "joining", "completing",
        "completed", "gone"}

Min(a, b) == IF a < b THEN a ELSE b
Less(n) == IF n = 0 THEN 0 ELSE n - 1

----------------------------------------------------------------------------
(* Requests to close.                                                      *)

\* Mutant: the last reason wins.
RequestedLast(reason) == reason
\* request_close: the first reason stays.
Requested(reason) == IF closeReq = None THEN reason ELSE closeReq

\* Session::close, transport_dropped or close_from_bridge.
HandleCloses(reason) ==
  /\ caller = "session"
  /\ closeReq' = Requested(reason)
  /\ UNCHANGED <<pc, outcome, caller, admission, process, retried, cancel, workers,
                 activity, timers, audit, reports>>

\* SessionManager::shutdown, as long as the registry has the supervisor.
ManagerCloses ==
  /\ pc # "gone"
  /\ closeReq' = Requested("ManagerShutdown")
  /\ UNCHANGED <<pc, outcome, caller, admission, process, retried, cancel, workers,
                 activity, timers, audit, reports>>

\* The caller of start_admitted is cancelled before it gets its answer, or the
\* Session is dropped (impl Drop for Session).
CallerDrops ==
  /\ caller \in {"awaiting", "session", "ended"}
  /\ caller' = "dropped"
  /\ closeReq' = IF caller # "awaiting" /\ final = None THEN Requested("HandleDropped")
                 ELSE closeReq
  /\ UNCHANGED <<pc, outcome, admission, process, retried, cancel, workers, activity,
                 timers, audit, reports>>

----------------------------------------------------------------------------
(* Connecting.                                                             *)

\* What the lines of OpenSSH's log say; more of them than the classifier takes,
\* or bytes it cannot read, are "unreadable".
LogLines == {"unreadable", "host-key", "authenticated", "failure"}

\* classify_diagnostics: trouble with the host key comes before a success, a
\* success before any other failure.
Classification(lines) ==
  IF "authenticated" \in lines /\ lines \cap {"unreadable", "host-key"} = {}
    THEN "authenticated" ELSE "rejected"

\* drain_client_log reads the first lines that say something, or the end of the
\* log without any; a local target was authenticated from the start.
Classify(lines) ==
  /\ admission = "none" /\ cancel = "off"
  /\ admission' = Classification(lines)
  /\ UNCHANGED <<pc, outcome, caller, closeReq, process, retried, cancel, workers,
                 activity, timers, audit, reports>>

Outcome(to, why) ==
  /\ pc = "connecting"
  /\ pc' = to
  /\ outcome' = why
  /\ cancel' = IF to = "rejecting" THEN "on" ELSE cancel
  /\ UNCHANGED <<caller, closeReq, admission, process, retried, workers, activity,
                 timers, audit, reports>>

\* Mutant: no deadline for an SSH client that never reports anything.
ConnectingForever ==
  \/ closeReq # None /\ Outcome("rejecting", "Closed")
  \/ closeReq = None /\ caller = "dropped" /\ Outcome("rejecting", "CallerDropped")
  \/ /\ closeReq = None /\ caller = "awaiting"
     /\ \/ admission = "authenticated" /\ Outcome("recording", None)
        \/ admission = "rejected" /\ Outcome("rejecting", "Rejected")
        \/ admission = "none" /\ leader = "exited" /\ Outcome("rejecting", "Rejected")
\* run_connecting's biased select.
Connecting ==
  \/ closeReq # None /\ Outcome("rejecting", "Closed")
  \/ closeReq = None /\ caller = "dropped" /\ Outcome("rejecting", "CallerDropped")
  \/ /\ closeReq = None /\ caller = "awaiting"
     /\ \/ admission = "authenticated" /\ Outcome("recording", None)
        \/ admission = "rejected" /\ Outcome("rejecting", "Rejected")
        \/ /\ admission = "none"
           /\ leader = "exited" \/ admissionLeft = 0
           /\ Outcome("rejecting", "Rejected")

\* session_started is persisted before anything is handed over; a sink that
\* failed, or an identifier that could not be drawn, refuses the session.
RecordStart ==
  /\ pc = "recording"
  /\ \/ /\ audit = "available"
        /\ trail' = Append(trail, "started")
        /\ pc' = "handoff"
        /\ UNCHANGED <<outcome, cancel>>
     \/ /\ pc' = "rejecting"
        /\ outcome' = "AuditUnavailable"
        /\ cancel' = "on"
        /\ UNCHANGED trail
  /\ UNCHANGED <<caller, closeReq, admission, process, retried, workers, activity,
                 timers, audit, events, final, reservation>>

\* created_at, the Created and Running events, the two workers.
Handoff ==
  /\ pc = "handoff"
  /\ pc' = "sending"
  /\ events' = events \o <<"Created", "Running">>
  /\ reader' = "reading" /\ writer' = "waiting"
  /\ idleLeft' = IdleTimeout /\ absoluteLeft' = AbsoluteTimeout
  /\ UNCHANGED <<outcome, caller, closeReq, admission, process, retried, cancel,
                 workerEvents, pty, output, commands, written, delivered, activity, quiet,
                 admissionLeft, audit, trail, final, reservation>>

\* result_tx.send(Ok(session)): with no receiver left the Session is dropped.
SendResult ==
  /\ pc = "sending"
  /\ pc' = "running"
  /\ \/ /\ caller = "awaiting"
        /\ caller' = "session"
        /\ UNCHANGED closeReq
     \/ /\ caller = "dropped"
        /\ closeReq' = Requested("HandleDropped")
        /\ UNCHANGED caller
  /\ UNCHANGED <<outcome, admission, process, retried, cancel, workers, activity, timers,
                 audit, reports>>

\* The task unwinds before the handle is sent (recover_connecting_unwind).
UnwindConnecting ==
  /\ pc \in {"connecting", "recording", "handoff", "sending"}
  /\ pc' = "rejecting"
  /\ outcome' = "Unwound"
  /\ cancel' = "on"
  /\ UNCHANGED <<caller, closeReq, admission, process, retried, workers, activity,
                 timers, audit, reports>>

\* A record the session leaves if the sink still takes it.
Recorded(record) == IF audit = "available" THEN Append(trail, record) ELSE trail

\* Mutant: an unwind after the start record leaves no record.
RefusalTrailSkipsUnwind ==
  IF outcome \in {"Rejected", "CallerDropped"} THEN Recorded("denied") ELSE trail
\* The record a session that was never handed over leaves behind.
RefusalTrail ==
  IF outcome \in {"Rejected", "CallerDropped"} THEN Recorded("denied")
  ELSE IF outcome = "Unwound" /\ trail = <<"started">> THEN Recorded("ended") ELSE trail

\* The process is gone: the denial is recorded, the caller gets its error.
Refuse ==
  /\ pc = "refusing"
  /\ pc' = "refused"
  /\ trail' = RefusalTrail
  /\ events' = IF outcome = "Unwound" /\ events # <<>> THEN Append(events, "Closed") ELSE events
  /\ caller' = IF caller = "awaiting" THEN "refused" ELSE caller
  /\ UNCHANGED <<outcome, closeReq, admission, process, retried, cancel, workers, activity,
                 timers, audit, final, reservation>>

----------------------------------------------------------------------------
(* The workers.                                                            *)

Active == activity' = "unseen" /\ quiet' = 0

ReaderReads ==
  /\ reader = "reading" /\ cancel = "off" /\ pty > 0
  /\ reader' = "sending"
  /\ pty' = pty - 1
  /\ UNCHANGED <<pc, outcome, caller, closeReq, admission, process, retried, cancel,
                 writer, workerEvents, output, commands, written, delivered, activity,
                 timers, audit, reports>>

\* output.send has room: activity only now, when the chunk is queued.
ReaderSends ==
  /\ reader = "sending" /\ cancel = "off" /\ caller # "dropped"
  /\ output < OutputCapacity
  /\ output' = output + 1
  /\ reader' = "reading"
  /\ Active
  /\ UNCHANGED <<pc, outcome, caller, closeReq, admission, process, retried, cancel,
                 writer, workerEvents, pty, commands, written, delivered, admissionLeft,
                 idleLeft, absoluteLeft, audit, reports>>

\* Cancelled, end of the terminal (the kernel returns what it holds first), or
\* nobody left to read: a chunk in hand is dropped.
ReaderEnds ==
  /\ \/ reader = "reading" /\ (cancel = "on" \/ pty = 0)
     \/ reader = "sending" /\ (cancel = "on" \/ caller = "dropped")
  /\ reader' = "ended"
  /\ workerEvents' = workerEvents \cup {"reader"}
  /\ UNCHANGED <<pc, outcome, caller, closeReq, admission, process, retried, cancel,
                 writer, pty, output, commands, written, delivered, activity, timers, audit,
                 reports>>

\* A command is taken; an empty input needs no write.
WriterTakes ==
  /\ writer = "waiting" /\ cancel = "off" /\ commands > 0
  /\ commands' = commands - 1
  /\ writer' \in {"writing", "waiting"}
  /\ UNCHANGED <<pc, outcome, caller, closeReq, admission, process, retried, cancel,
                 reader, workerEvents, pty, output, written, delivered, activity, timers,
                 audit, reports>>

\* write_all and flush, or resize, succeed: activity.
WriterWrites ==
  /\ writer = "writing" /\ cancel = "off"
  /\ writer' = "waiting"
  /\ Active
  /\ UNCHANGED <<pc, outcome, caller, closeReq, admission, process, retried, cancel,
                 reader, workerEvents, pty, output, commands, written, delivered,
                 admissionLeft, idleLeft, absoluteLeft, audit, reports>>

\* Cancelled, no sender left, or a failed write.
WriterEnds ==
  /\ \/ writer = "waiting" /\ (cancel = "on" \/ (caller = "dropped" /\ commands = 0))
     \/ writer = "writing"
  /\ writer' = "ended"
  /\ workerEvents' = workerEvents \cup {"writer"}
  /\ UNCHANGED <<pc, outcome, caller, closeReq, admission, process, retried, cancel,
                 reader, pty, output, commands, written, delivered, activity, timers, audit,
                 reports>>

\* Session::read returns a chunk.
HandleReads ==
  /\ caller = "session" /\ output > 0
  /\ output' = output - 1
  /\ delivered' = delivered + 1
  /\ UNCHANGED <<pc, outcome, caller, closeReq, admission, process, retried, cancel,
                 reader, writer, workerEvents, pty, commands, written, activity, timers,
                 audit, reports>>

\* run_connecting keeps a sender of the output channel until it returns, after
\* complete_supervisor.
OutputClosed == pc = "gone"

\* Session::read returns Closed.
HandleReadsEnd ==
  /\ caller = "session" /\ output = 0 /\ OutputClosed
  /\ caller' = "ended"
  /\ UNCHANGED <<pc, outcome, closeReq, admission, process, retried, cancel, workers,
                 activity, timers, audit, reports>>

\* Session::write or Session::resize.
HandleSends ==
  /\ caller = "session" /\ writer # "ended" /\ commands < InputCapacity
  /\ commands' = commands + 1
  /\ UNCHANGED <<pc, outcome, caller, closeReq, admission, process, retried, cancel,
                 reader, writer, workerEvents, pty, output, written, delivered, activity,
                 timers, audit, reports>>

----------------------------------------------------------------------------
(* Supervision.                                                            *)

Ending(to, why) ==
  /\ pc' = to
  /\ outcome' = why
  /\ cancel' = "on"
  /\ UNCHANGED <<caller, closeReq, admission, process, retried, workers, activity,
                 timers, audit, reports>>

\* Mutant: no absolute deadline.
SuperviseForever ==
  /\ pc = "running"
  /\ \/ leader = "exited" /\ Ending("terminating", "ChildExited")
     \/ closeReq # None /\ Ending("terminating", closeReq)
\* run_supervisor's biased select.  The exit of the process is polled every
\* 10 ms and the absolute deadline by a timer, so a later branch may be ready
\* first; close, activity and idle are decided in that order by the same poll.
Supervise ==
  /\ pc = "running"
  /\ \/ absoluteLeft = 0 /\ Ending("terminating", "Absolute")
     \/ leader = "exited" /\ Ending("terminating", "ChildExited")
     \/ closeReq # None /\ Ending("terminating", closeReq)

\* waitid itself fails.
WaitFails == pc = "running" /\ Ending("terminating", "BackendFailure")

\* Mutant: the deadline is not moved.
SeesActivityOnly ==
  /\ pc = "running" /\ closeReq = None /\ activity = "unseen"
  /\ activity' = "seen"
  /\ UNCHANGED <<pc, outcome, caller, closeReq, admission, process, retried, cancel,
                 workers, timers, audit, reports>>
\* The idle deadline moves to the last activity plus the timeout.
SeesActivity ==
  /\ pc = "running" /\ closeReq = None /\ activity = "unseen"
  /\ activity' = "seen"
  /\ idleLeft' = IdleTimeout - quiet
  /\ UNCHANGED <<pc, outcome, caller, closeReq, admission, process, retried, cancel,
                 workers, quiet, admissionLeft, absoluteLeft, audit, reports>>

IdleExpires ==
  /\ pc = "running" /\ closeReq = None /\ activity = "seen" /\ idleLeft = 0
  /\ Ending("terminating", "Idle")

\* A worker ended: the process gets CHILD_EXIT_SETTLE to be seen exiting.
SeesWorkerEnd ==
  /\ pc = "running" /\ closeReq = None /\ activity = "seen" /\ workerEvents # {}
  /\ pc' = "settling"
  /\ UNCHANGED <<outcome, caller, closeReq, admission, process, retried, cancel, workers,
                 activity, timers, audit, reports>>

Settle ==
  /\ pc = "settling"
  /\ \/ leader = "exited" /\ Ending("terminating", "ChildExited")
     \/ Ending("terminating", "BackendFailure")

\* run_supervisor unwinds (supervise catches it).
UnwindRunning == pc \in {"running", "settling"} /\ Ending("terminating", "SupervisorUnwind")

\* terminate_until_proven: a failed attempt is retried without end.
TerminateFails ==
  /\ pc \in {"rejecting", "terminating"}
  /\ retried' = "yes"
  /\ UNCHANGED <<pc, outcome, caller, closeReq, admission, process, cancel, workers,
                 activity, timers, audit, reports>>

\* Mutant: the second attempt is the last, whatever it shows.
TerminateOnceMore ==
  /\ \/ pc = "rejecting" /\ pc' = IF events = <<>> THEN "refusing" ELSE "joining"
     \/ pc = "terminating" /\ pc' = "joining"
  /\ group' = IF retried = "yes" THEN group ELSE "absent"
  /\ leader' = IF leader = "running" THEN "killed" ELSE leader
  /\ outcome' = IF pc = "terminating" /\ retried = "yes" /\ outcome # "SupervisorUnwind"
                THEN "BackendFailure" ELSE outcome
  /\ UNCHANGED <<caller, closeReq, admission, retried, cancel, workers, activity, timers,
                 audit, reports>>
\* ... until one proves the group absent; run_supervisor then reports a retried
\* cleanup as a backend failure.
TerminateProves ==
  /\ \/ pc = "rejecting" /\ pc' = IF events = <<>> THEN "refusing" ELSE "joining"
     \/ pc = "terminating" /\ pc' = "joining"
  /\ group' = "absent"
  /\ leader' = IF leader = "running" THEN "killed" ELSE leader
  /\ outcome' = IF pc = "terminating" /\ retried = "yes" /\ outcome # "SupervisorUnwind"
                THEN "BackendFailure" ELSE outcome
  /\ UNCHANGED <<caller, closeReq, admission, retried, cancel, workers, activity, timers,
                 audit, reports>>

\* Mutant: workers are not waited for.
JoinNothing ==
  /\ pc = "joining"
  /\ pc' = IF outcome = "Unwound" THEN "refusing" ELSE "completing"
  /\ UNCHANGED <<outcome, caller, closeReq, admission, process, retried, cancel, workers,
                 activity, timers, audit, reports>>
\* join_worker: a worker that does not end within a second is aborted.
JoinWorkers ==
  /\ pc = "joining"
  /\ pc' = IF outcome = "Unwound" THEN "refusing" ELSE "completing"
  /\ reader' = "ended" /\ writer' = "ended"
  /\ UNCHANGED <<outcome, caller, closeReq, admission, process, retried, cancel,
                 workerEvents, pty, output, commands, written, delivered, activity, timers,
                 audit, reports>>

\* complete_supervisor: session_ended, the final snapshot, the Closed event.
Complete ==
  /\ pc = "completing"
  /\ pc' = "completed"
  /\ trail' = Recorded("ended")
  /\ final' = outcome
  /\ events' = IF Len(events) < EventCapacity THEN Append(events, "Closed") ELSE events
  /\ UNCHANGED <<outcome, caller, closeReq, admission, process, retried, cancel, workers,
                 activity, timers, audit, reservation>>

\* The reservation goes last; then the task ends and leaves the registry.
Release ==
  /\ pc \in {"refused", "completed"}
  /\ reservation = "held"
  /\ reservation' = "dropped"
  /\ UNCHANGED <<pc, outcome, caller, closeReq, admission, process, retried, cancel,
                 workers, activity, timers, audit, trail, events, final>>

TaskEnds ==
  /\ pc \in {"refused", "completed"} /\ reservation = "dropped"
  /\ pc' = "gone"
  /\ UNCHANGED <<outcome, caller, closeReq, admission, process, retried, cancel, workers,
                 activity, timers, audit, reports>>

----------------------------------------------------------------------------
(* The environment: the process, the clock, the audit sink.                *)

ProcessWrites ==
  /\ leader = "running" /\ pty < PtyBuffer /\ written < MaxOutput
  /\ pty' = pty + 1 /\ written' = written + 1
  /\ UNCHANGED <<pc, outcome, caller, closeReq, admission, process, retried, cancel,
                 reader, writer, workerEvents, output, commands, delivered, activity,
                 timers, audit, reports>>

ProcessExits ==
  /\ leader = "running"
  /\ leader' = IF pc \in {"rejecting", "terminating"} THEN "killed" ELSE "exited"
  /\ UNCHANGED <<pc, outcome, caller, closeReq, admission, group, retried, cancel, workers,
                 activity, timers, audit, reports>>

\* Time is followed while a deadline can still fire.
Tick ==
  /\ pc \in {"connecting", "sending", "running"}
  /\ quiet' = Min(quiet + 1, IdleTimeout)
  /\ admissionLeft' = IF pc = "connecting" THEN Less(admissionLeft) ELSE admissionLeft
  /\ idleLeft' = Less(idleLeft)
  /\ absoluteLeft' = Less(absoluteLeft)
  /\ UNCHANGED <<pc, outcome, caller, closeReq, admission, process, retried, cancel,
                 workers, activity, audit, reports>>

AuditFails ==
  /\ audit = "available"
  /\ audit' = "failed"
  /\ UNCHANGED <<pc, outcome, caller, closeReq, admission, process, retried, cancel,
                 workers, activity, timers, reports>>

Init ==
  /\ pc = "connecting" /\ outcome = None /\ caller = "awaiting" /\ closeReq = None
  /\ admission \in {"none", "authenticated"}
  /\ leader = "running" /\ group = "present" /\ retried = "no" /\ cancel = "off"
  /\ reader = "off" /\ writer = "off" /\ workerEvents = {}
  /\ pty = 0 /\ output = 0 /\ commands = 0 /\ written = 0 /\ delivered = 0
  /\ activity = "seen" /\ quiet = 0
  /\ admissionLeft = AdmissionTimeout /\ idleLeft = 0 /\ absoluteLeft = 0
  /\ audit = "available" /\ trail = <<>> /\ events = <<>>
  /\ final = None /\ reservation = "held"

CallerNext ==
  \/ \E reason \in BridgeReasons : HandleCloses(reason)
  \/ ManagerCloses \/ CallerDrops \/ HandleReads \/ HandleReadsEnd \/ HandleSends

SupervisorNext ==
  \/ Connecting \/ RecordStart \/ Handoff \/ SendResult \/ Refuse
  \/ Supervise \/ SeesActivity \/ IdleExpires \/ SeesWorkerEnd \/ Settle
  \/ TerminateProves \/ JoinWorkers \/ Complete \/ Release \/ TaskEnds

WorkerNext ==
  \/ ReaderReads \/ ReaderSends \/ ReaderEnds
  \/ WriterTakes \/ WriterWrites \/ WriterEnds

Environment ==
  \/ \E lines \in SUBSET LogLines : Classify(lines)
  \/ UnwindConnecting \/ UnwindRunning \/ WaitFails \/ TerminateFails
  \/ ProcessWrites \/ ProcessExits \/ Tick \/ AuditFails

Next == CallerNext \/ SupervisorNext \/ WorkerNext \/ Environment

Spec == Init /\ [][Next]_vars

\* The runtime polls the supervisor, which looks at the absolute deadline, the
\* exit and the close channel whatever else is ready; time passes; a retried
\* SIGKILL in the end removes the group.  Nothing is owed by the client, the
\* process or the workers: a stalled reader or writer is aborted.
Fairness ==
  /\ WF_vars(Tick) /\ WF_vars(Supervise) /\ WF_vars(TerminateProves)
  /\ WF_vars(Connecting \/ RecordStart \/ Handoff \/ SendResult \/ Refuse \/ Settle
             \/ JoinWorkers \/ Complete \/ Release \/ TaskEnds)

FairSpec == Spec /\ Fairness

----------------------------------------------------------------------------
(* Properties.                                                             *)

TypeOK ==
  /\ pc \in Pcs /\ outcome \in CloseReasons \cup Refusals \cup {None}
  /\ caller \in {"awaiting", "session", "ended", "refused", "dropped"}
  /\ closeReq \in BridgeReasons \cup {"HandleDropped", "ManagerShutdown", None}
  /\ admission \in {"none", "authenticated", "rejected"}
  /\ leader \in {"running", "exited", "killed"} /\ group \in {"present", "absent"}
  /\ retried \in {"no", "yes"} /\ cancel \in {"off", "on"}
  /\ reader \in {"off", "reading", "sending", "ended"}
  /\ writer \in {"off", "waiting", "writing", "ended"}
  /\ workerEvents \in SUBSET {"reader", "writer"}
  /\ pty \in 0..PtyBuffer /\ output \in 0..OutputCapacity /\ commands \in 0..InputCapacity
  /\ written \in 0..MaxOutput /\ delivered \in 0..MaxOutput
  /\ activity \in {"seen", "unseen"} /\ quiet \in 0..IdleTimeout
  /\ admissionLeft \in 0..AdmissionTimeout
  /\ idleLeft \in 0..IdleTimeout /\ absoluteLeft \in 0..AbsoluteTimeout
  /\ audit \in {"available", "failed"}
  /\ trail \in {<<>>, <<"denied">>, <<"started">>, <<"started", "ended">>}
  /\ events \in {<<>>, <<"Created", "Running">>, <<"Created", "Running", "Closed">>}
  /\ final \in CloseReasons \cup {None} /\ reservation \in {"held", "dropped"}

Working == reader \in {"reading", "sending"} \/ writer \in {"waiting", "writing"}

\* The slot of a session is free for another only when its process group was
\* proven absent and both workers are over, whatever path led there: refusal,
\* unwind, timeout or close.
SlotOutlivesSession == reservation = "dropped" => group = "absent" /\ ~Working

\* The audit log tells the truth about admission: a handle, a worker or a byte
\* of output exists only after session_started was written, and no session is
\* recorded both as denied and as started.
NothingBeforeTheStartRecord ==
  (caller \in {"session", "ended"} \/ Working \/ output + delivered > 0) =>
    trail # <<>> /\ trail[1] = "started"

\* Every session_started has its session_ended before the slot is released,
\* even after an unwind, unless the sink failed in between.
StartedSessionsEnd ==
  reservation = "dropped" /\ trail = <<"started">> => audit = "failed"

\* The audit records bracket the session, on the paths of run_connecting and of
\* complete_supervisor alike: nothing of it before its start, its end before its slot
\* is released.
RecordsBracketTheSession == NothingBeforeTheStartRecord /\ StartedSessionsEnd

\* What a session reports of its end is true: a requested close is the first that
\* was requested, an exit is one the process made by itself, a timeout is one whose
\* deadline had passed; and when Session::read returns Closed, the end of the output,
\* the final snapshot and the Closed event are there.
ReportedEndIsTrue ==
  /\ final \in BridgeReasons \cup {"HandleDropped", "ManagerShutdown"} => closeReq = final
  /\ final = "ChildExited" => leader = "exited"
  /\ final = "Absolute" => absoluteLeft = 0
  /\ caller = "ended" => final # None /\ events # <<>> /\ events[Len(events)] = "Closed"

\* A session is closed for idleness only when nothing was read from or written
\* to its terminal for a whole idle timeout.
IdleMeansQuiet ==
  [][outcome' = "Idle" /\ outcome # "Idle" => quiet >= IdleTimeout]_vars

\* Whatever request_close, the exit, the timers and the workers do at once, the reason a
\* session ends with happened to it: ReportedEndIsTrue for those that leave a trace in
\* its state, IdleMeansQuiet for the one that does not.
ReasonsAreTrue == []ReportedEndIsTrue /\ IdleMeansQuiet

\* Where SessionAdmission sees this session: as long as the group may exist it is
\* connecting, running or terminating; then the reservation and the registration go.
Stage ==
  IF group = "present"
    THEN IF pc \in {"connecting", "recording"} THEN "connecting"
         ELSE IF pc \in {"handoff", "sending", "running", "settling"} THEN "running"
         ELSE "terminating"
  ELSE IF reservation = "held" THEN "proven"
  ELSE IF pc = "gone" THEN "done" ELSE "released"
Slot == IF reservation = "held" THEN "session" ELSE None

\* SessionAdmission with this one connection, after its spawn and before any shutdown.
Adm == INSTANCE SessionAdmission WITH
  Identities <- {"user"}, Requests <- {}, Connections <- {"session"},
  MaxSessions <- 1, MaxSessionsPerUser <- 1, TicketCapacity <- 0, TTL <- 0, MaxTime <- 0,
  now <- 0, ledger <- "open", entries <- <<>>, req <- <<>>, admission <- {},
  leases <- [i \in {"session"} |->
               IF reservation = "held"
                 THEN [identity |-> "user", state |-> "live", expires_at |-> 0] ELSE None],
  conn <- [c \in {"session"} |->
             [pc |-> Stage, identity |-> "user", ticket |-> None, seen |-> 0, res |-> Slot]],
  active <- IF pc = "gone" THEN {} ELSE {"session"}, closeAsked <- {}, gate <- "open",
  sdPc <- "idle", sdTargets <- {}, permits <- IF pc = "gone" THEN 1 ELSE 0

\* All that its variables depend on.
Visible == <<Stage, reservation, audit, pc = "gone">>

\* What a supervisor does to its session in SessionAdmission.
Supervision ==
  \/ Adm!Admit("session") \/ Adm!Stop("session") \/ Adm!Prove("session")
  \/ Adm!Release("session") \/ Adm!Deregister("session") \/ Adm!AuditFails

\* The session is the one SessionAdmission counts on: it begins as Spawn leaves it, and
\* whatever its workers, its client, its process, its timers or a panic do, it is
\* admitted only with its start on record, stopped once, proven gone, released and
\* deregistered, each in a step of its own and in this order.
KeepsToAdmission ==
  /\ Stage = "connecting" /\ Adm!SessionHoldsLiveLease
  /\ [][Visible' # Visible => Supervision]_vars

\* A caller waiting for its session is answered: with a handle, or an error once
\* the process that was spawned for it is gone.
CallerIsAnswered == caller = "awaiting" ~> caller # "awaiting"

\* Every session ends and gives its slot back, even if its client never reads,
\* its process never exits and nobody asks: the absolute timeout sees to it.
EverySessionEnds == <>(pc = "gone" /\ reservation = "dropped")

\* Chunks that were read from the terminal and reached neither the queue nor
\* the client.
Lost == written - (delivered + output + pty + IF reader = "sending" THEN 1 ELSE 0)

\* "When a queue is full, the producer MUST pause or apply upstream backpressure
\* rather than grow memory without bound or discard unreported terminal data":
\* with the output queue full and its client still there, a session whose
\* process exited by itself would not have thrown away a chunk that read_output
\* had taken from the terminal.
ExitedOutputIsKept ==
  final = "ChildExited" /\ caller = "session" /\ output = OutputCapacity => Lost = 0
============================================================================
