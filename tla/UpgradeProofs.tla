--------------------------- MODULE UpgradeProofs ----------------------------
(***************************************************************************)
(* Of one WebSocket (modules Upgrade and Bridge), for every capacity of    *)
(* the queues, every amount of output and of messages, every set of first  *)
(* messages, every deadline and every failure of the audit sink: a refused *)
(* connection leaves one denial record, whoever writes it; what            *)
(* write_socket sends is in order and ends with the close; a client that   *)
(* only listens has all output before the exit; a bridge that is over      *)
(* leaves neither a session nor a task behind; and both ends read alike    *)
(* what crosses the socket.                                                *)
(***************************************************************************)
EXTENDS Upgrade, SequenceTheorems, TLAPS

-----------------------------------------------------------------------------
(* The refusals of accept_upgrade.                                          *)

\* accept_upgrade has decided nothing yet.
Undecided == {"request", "handshake", "redeeming", "starting"}

\* Errors of start_reserved_with_remote the session manager has recorded.
RecordedErrors == {"SshPolicyDenied", "SpawnUnavailable", "SshHostKeyFailed",
                   "SshConnectionFailed", "SshAuthenticationFailed", "SshFailed"}

\* All its errors.
Errors == Unrecorded \cup RecordedErrors \cup {"AuditUnavailable"}

\* The records the session manager leaves behind with an error: its own denial, or
\* none where it leaves the record to accept_upgrade or could not write it.
ManagersRecord(error) ==
    IF error \in Unrecorded \cup {"AuditUnavailable"} THEN records = <<>> ELSE Len(records) = 1

RecordsMatch ==
    Len(records) = IF refusal.failure.cause = "AuditUnavailable" THEN 0 ELSE 1

\* What holds at each point of accept_upgrade: nothing is recorded before a refusal,
\* a denial about to be recorded is not about the audit sink, and an error of the
\* session manager comes with the record it has written, if any.
RefusalInv ==
    /\ refusal = [reason |-> refusal.reason, failure |-> refusal.failure]
    /\ up \in Undecided \cup {"denying", "refused", "telling", "bridge", "over"}
    /\ up \in Undecided \cup {"denying", "bridge"} => records = <<>> /\ told = <<>>
    /\ up = "denying" => refusal.failure.cause # "AuditUnavailable"
    /\ up = "refused" => result \in Errors /\ ManagersRecord(result) /\ told = <<>>
    /\ up = "telling" => RecordsMatch
    /\ up = "over" /\ told # <<>> => RecordsMatch

\* safe_session_error reports the error it was given.
LEMMA CauseIsKept ==
    ASSUME NEW error \in Errors
    PROVE  safe_session_error(error).cause = error
<1>1. error \in {"ManagerClosed", "ReservationUnavailable", "TargetUnavailable",
                 "BackendUnavailable", "SshPolicyDenied", "SpawnUnavailable",
                 "SshHostKeyFailed", "SshConnectionFailed", "SshAuthenticationFailed",
                 "SshFailed", "AuditUnavailable"}
  BY DEF Errors, Unrecorded, RecordedErrors
<1>2. QED
  BY <1>1 DEF safe_session_error, Failure

\* accept_upgrade records a denial exactly for the errors the session manager did not
\* record and could have (DenialOf).
LEMMA DenialsComplement ==
    ASSUME NEW error \in Errors
    PROVE  DenialOf(error) # "none" <=> error \in Unrecorded
<1>1. CASE error \in Unrecorded
  <2>1. error \in {"ManagerClosed", "ReservationUnavailable", "TargetUnavailable",
                   "BackendUnavailable"}
    BY <1>1 DEF Unrecorded
  <2>2. DenialOf(error) \in {"TicketExpired", "TargetUnavailable", "SessionUnavailable"}
    BY <2>1 DEF DenialOf
  <2>3. QED
    BY <1>1, <2>2
<1>2. CASE error \notin Unrecorded
  <2>1. /\ error # "ReservationUnavailable" /\ error # "TargetUnavailable"
        /\ error \notin {"ManagerClosed", "BackendUnavailable"}
    BY <1>2 DEF Unrecorded
  <2>2. DenialOf(error) = "none"
    BY <2>1 DEF DenialOf
  <2>3. QED
    BY <1>2, <2>2
<1>3. QED
  BY <1>1, <1>2

\* One record after none is one record.
LEMMA AppendOne ==
    ASSUME NEW reason
    PROVE  Len(Append(<<>>, reason)) = 1
<1>1. <<>> \in Seq({reason}) /\ reason \in {reason}
  OBVIOUS
<1>2. QED
  BY <1>1

\* A connection begins without records (upgrade_websocket).
LEMMA RefusalInit == UpgradeInit => RefusalInv
<1>1. SUFFICES ASSUME UpgradeInit PROVE RefusalInv
  OBVIOUS
<1>2. records = <<>> /\ told = <<>> /\ up = "request"
  BY <1>1 DEF UpgradeInit
<1>3. refusal = [reason |-> "none", failure |-> [cause |-> "none"]]
  BY <1>1 DEF UpgradeInit
<1>4. /\ refusal.reason = "none"
      /\ refusal.failure = [cause |-> "none"]
  BY <1>3
<1>5. QED
  BY <1>2, <1>3, <1>4 DEF RefusalInv, Undecided

\* No step of the client, of accept_upgrade, of the session manager, of the sink or of
\* the bridge disturbs the count of records.
LEMMA RefusalStep == RefusalInv /\ [UpgradeNext]_allVars => RefusalInv'
<1> SUFFICES ASSUME RefusalInv, [UpgradeNext]_allVars PROVE RefusalInv'
  OBVIOUS
<1>1. ASSUME UNCHANGED upVars PROVE RefusalInv'
  BY <1>1 DEF upVars, RefusalInv, RecordsMatch, ManagersRecord
<1>2. ASSUME up \in Undecided, up' = "denying", UNCHANGED <<records, told>>,
             refusal' = [reason |-> refusal'.reason, failure |-> refusal'.failure],
             refusal'.failure.cause # "AuditUnavailable"
      PROVE  RefusalInv'
  BY <1>2 DEF RefusalInv, Undecided, RecordsMatch
<1>3. safe_ticket_error.cause = "Ticket" /\ protocol_failure.cause = "TooLarge"
  BY DEF safe_ticket_error, protocol_failure, Failure
<1>4. CASE UpgradeRequest
  BY <1>4 DEF UpgradeRequest, RefusalInv, Undecided, RecordsMatch
<1>5. CASE Tick
  BY <1>5 DEF Tick, RefusalInv, Undecided, RecordsMatch
<1>6. CASE HandshakeTimesOut \/ TooLarge \/ FirstBinary
  BY <1>2, <1>3, <1>6 DEF HandshakeTimesOut, TooLarge, FirstBinary, Denies, Undecided
<1>7. ASSUME NEW text \in Texts, FirstText(text) PROVE RefusalInv'
  <2>1. CASE parse_handshake(text).ok
    BY <1>7, <2>1 DEF FirstText, RefusalInv, Undecided, RecordsMatch
  <2>2. CASE ~ parse_handshake(text).ok
    <3>1. PICK failure \in {safe_ticket_error, protocol_failure} :
              Denies("TicketMalformed", failure)
      BY <1>7, <2>2 DEF FirstText
    <3>2. QED
      BY <1>2, <1>3, <1>7, <3>1 DEF FirstText, Denies, Undecided
  <2>3. QED
    BY <2>1, <2>2
<1>8. CASE ClientGone
  BY <1>8 DEF ClientGone, RefusalInv, Undecided, RecordsMatch
<1>9. CASE SinkFails
  BY <1>9 DEF SinkFails, RefusalInv, Undecided, RecordsMatch, ManagersRecord
<1>10. CASE RecordTicketDenial
  <2>1. CASE Recorded(refusal.reason) /\ Tells(refusal.failure)
    <3>1. Len(records') = 1
      BY <1>10, <2>1, AppendOne DEF RecordTicketDenial, Recorded, RefusalInv
    <3>2. up' = "telling" /\ refusal' = refusal
      BY <2>1 DEF Tells, RefusalInv
    <3>3. refusal.failure.cause # "AuditUnavailable"
      BY <1>10 DEF RecordTicketDenial, RefusalInv
    <3>4. QED
      BY <3>1, <3>2, <3>3 DEF RefusalInv, Undecided, RecordsMatch
  <2>2. CASE NotRecorded /\ Tells(safe_session_error("AuditUnavailable"))
    <3>1. safe_session_error("AuditUnavailable").cause = "AuditUnavailable"
      BY CauseIsKept DEF Errors
    <3>2. records' = <<>>
      BY <1>10, <2>2 DEF RecordTicketDenial, NotRecorded, RefusalInv
    <3>3. /\ up' = "telling"
          /\ refusal' = [reason |-> refusal.reason,
                         failure |-> safe_session_error("AuditUnavailable")]
      BY <2>2 DEF Tells, RefusalInv
    <3>4. QED
      BY <3>1, <3>2, <3>3 DEF RefusalInv, Undecided, RecordsMatch
  <2>3. QED
    BY <1>10, <2>1, <2>2 DEF RecordTicketDenial
<1>11. CASE Redeem
  <2>1. CASE up' = "starting" /\ UNCHANGED <<refusal, records, told>>
    BY <1>11, <2>1 DEF Redeem, RefusalInv, Undecided, RecordsMatch
  <2>2. CASE \E reason \in {"TicketMalformed", "TicketUnknown", "TicketExpired",
                            "TicketWrongIdentity"} : Denies(reason, safe_ticket_error)
    BY <1>2, <1>3, <1>11, <2>2 DEF Redeem, Denies, Undecided
  <2>3. QED
    BY <1>11, <2>1, <2>2 DEF Redeem
<1>12. ASSUME NEW error \in Unrecorded, StartRefused(error) PROVE RefusalInv'
  BY <1>12 DEF StartRefused, RefusalInv, Undecided, RecordsMatch, Errors, ManagersRecord
<1>13. ASSUME NEW denial \in ssh_denial, StartDenied(denial[1], denial[2]) PROVE RefusalInv'
  <2>1. /\ denial[1] \in Errors
        /\ denial[1] \notin Unrecorded \cup {"AuditUnavailable"}
    <3>1. denial[1] \in RecordedErrors
      BY DEF ssh_denial, RecordedErrors
    <3>2. QED
      BY <3>1 DEF Errors, RecordedErrors, Unrecorded
  <2>2. up' = "refused" /\ records = <<>> /\ told' = <<>> /\ refusal' = refusal
    BY <1>13 DEF StartDenied, RefusalInv, Undecided
  <2>3. CASE Recorded(denial[2]) /\ result' = denial[1]
    <3>1. Len(records') = 1
      BY <2>1, <2>2, <2>3, AppendOne DEF Recorded
    <3>2. QED
      BY <2>1, <2>2, <2>3, <3>1 DEF RefusalInv, Undecided, RecordsMatch, ManagersRecord
  <2>4. CASE NotRecorded /\ result' = "AuditUnavailable"
    BY <2>2, <2>4 DEF NotRecorded, RefusalInv, Undecided, RecordsMatch, Errors, ManagersRecord
  <2>5. QED
    BY <1>13, <2>3, <2>4 DEF StartDenied
<1>14. CASE StartUnaudited
  BY <1>14 DEF StartUnaudited, NotRecorded, RefusalInv, Undecided, RecordsMatch, Errors, ManagersRecord
<1>15. CASE StartSucceeds
  BY <1>15 DEF StartSucceeds, RefusalInv, Undecided, RecordsMatch
<1>16. CASE SessionRefused
  <2>1. /\ result \in Errors /\ ManagersRecord(result)
        /\ UNCHANGED told
    BY <1>16 DEF SessionRefused, RefusalInv
  <2>2. ASSUME NEW error \in Errors, Tells(safe_session_error(error)),
               Len(records') = IF error = "AuditUnavailable" THEN 0 ELSE 1
        PROVE  RefusalInv'
    <3>1. /\ up' = "telling"
          /\ refusal' = [reason |-> refusal.reason, failure |-> safe_session_error(error)]
      BY <2>2 DEF Tells, RefusalInv
    <3>2. refusal'.failure.cause = error
      BY <3>1, CauseIsKept
    <3>3. QED
      BY <2>2, <3>1, <3>2 DEF RefusalInv, Undecided, RecordsMatch
  <2>3. CASE /\ DenialOf(result) = "none" /\ Tells(safe_session_error(result))
             /\ UNCHANGED records
    <3>1. result \notin Unrecorded
      BY <2>1, <2>3, DenialsComplement
    <3>2. QED
      BY <2>1, <2>2, <2>3, <3>1 DEF ManagersRecord
  <2>4. CASE DenialOf(result) # "none"
    <3>1. result \in Unrecorded /\ result # "AuditUnavailable"
      BY <2>1, <2>4, DenialsComplement DEF Unrecorded
    <3>2. records = <<>>
      BY <2>1, <3>1 DEF ManagersRecord
    <3>3. CASE Recorded(DenialOf(result)) /\ Tells(safe_session_error(result))
      <4>1. Len(records') = 1
        BY <3>1, <3>2, <3>3, AppendOne DEF Recorded
      <4>2. QED
        BY <2>1, <2>2, <3>1, <3>3, <4>1
    <3>4. CASE NotRecorded /\ Tells(safe_session_error("AuditUnavailable"))
      BY <2>1, <2>2, <3>2, <3>4 DEF NotRecorded, Errors
    <3>5. QED
      BY <1>16, <2>4, <3>3, <3>4 DEF SessionRefused
  <2>5. QED
    BY <1>16, <2>3, <2>4 DEF SessionRefused
<1>17. CASE Tell
  BY <1>17 DEF Tell, RefusalInv, Undecided, RecordsMatch
<1>18. QED
  <2>1. CASE UNCHANGED allVars \/ Ping \/ ClientLeaves \/ Bridged(Next)
    BY <1>1, <2>1 DEF allVars, Ping, ClientLeaves, Bridged
  <2>2. CASE Start
    BY <1>12, <1>13, <1>14, <1>15, <2>2 DEF Start
  <2>3. CASE Accept
    BY <1>6, <1>10, <1>11, <1>16, <2>2, <2>3 DEF Accept
  <2>4. QED
    BY <1>4, <1>5, <1>6, <1>7, <1>8, <1>9, <1>17, <2>1, <2>3 DEF UpgradeNext

\* Every refusal is told with exactly one denial on record, and with none only as
\* "session unavailable" (accept_upgrade, record_denial, ssh_denial).
THEOREM OneRecordPerRefusal == UpgradeSpec => []RefusalsAreRecorded
<1>1. RefusalInv => RefusalsAreRecorded
  BY DEF RefusalInv, RefusalsAreRecorded, RecordsMatch, Undecided
<1>2. QED
  BY RefusalInit, RefusalStep, <1>1, PTL DEF UpgradeSpec

----------------------------------------------------------------------------
(* Types of the bridge.                                                    *)

Looping == {"loop", "writing", "settling", "requesting", "closing", "pushing"}
Reporting == {"reporting", "leaving", "joining", "ended"}
Controls == {"pong", "exit", "error", "close", "frame"}
Terminations == Faults \cup {"Terminal", "Backpressured", "Transport", "InternalFailure"}
Reports == {<<>>, <<"frame">>, <<"close", "frame">>, <<"exit", "close", "frame">>, <<"error", "close", "frame">>}

BridgeTypes ==
  /\ pc \in Looping \cup {"finishing", "awaiting"} \cup Reporting
  /\ IF pc \in Looping THEN why = None ELSE why \in Terminations
  /\ todo \in Reports
  /\ reader \in {"reading", "ponging", "forwarding", "failing", "ended"}
  /\ reader \in {"forwarding", "failing"} => held \in Decoded
  /\ held \in Decoded \cup {None} /\ messages \in 0..MaxMessages
  /\ writer \in {"waiting", "sending", "closing", "ended"} /\ frame \in Frames \cup {None}
  /\ writer = "sending" => frame \in Frames
  /\ inbound \in Seq(Decoded) /\ Len(inbound) <= QueueCapacity
  /\ outbound \in Seq(Frames) /\ Len(outbound) <= QueueCapacity
  /\ cancel \in {"off", "on"} /\ stop \in {"off", "on"} /\ link \in {"up", "down"}
  /\ session \in {"running", "ending", "closed"}
  /\ final \in Requests \cup {"ChildExited", "Timeout", "BackendFailure", None}
  /\ request \in Requests \cup {None}
  /\ taken \in 0..MaxOutput /\ produced \in 0..MaxOutput /\ taken <= produced
  /\ pc = "pushing" => taken >= 1
  /\ commands \in 0..InputCapacity
  /\ sent \in Seq(Frames)

\* The capacities are natural numbers.
LEMMA BridgeNaturals ==
  /\ QueueCapacity \in Nat /\ OutputCapacity \in Nat /\ InputCapacity \in Nat
  /\ MaxOutput \in Nat /\ MaxMessages \in Nat
BY BridgeAssumption

\* The frames the tasks put into the queue.
LEMMA FramesAre ==
  /\ \A k \in Controls : Ctl(k) \in Frames
  /\ \A n \in 1..MaxOutput : Out(n) \in Frames
BY DEF Frames, Controls

\* A queue with one more element, and one without its first.
LEMMA Queueing ==
  ASSUME NEW S, NEW q \in Seq(S)
  PROVE  /\ \A e \in S : Append(q, e) \in Seq(S) /\ Len(Append(q, e)) = Len(q) + 1
         /\ q # <<>> => Head(q) \in S /\ Tail(q) \in Seq(S) /\ Len(Tail(q)) = Len(q) - 1
         /\ Len(q) \in Nat
BY AppendProperties, HeadTailProperties

\* What finish_bridge has to report, piece by piece.
LEMMA ReportsAre ==
  /\ \A t \in Reports :
       /\ t \in Seq({"exit", "error", "close", "frame"}) /\ Len(t) <= 3
       /\ t # <<>> => Head(t) \in {"exit", "error", "close", "frame"} /\ Tail(t) \in Reports
       /\ t # <<>> /\ Head(t) \in {"exit", "error"} => Tail(t) = <<"close", "frame">>
       /\ t # <<>> /\ Head(t) = "close" => t = <<"close", "frame">> /\ Tail(t) = <<"frame">>
       /\ t # <<>> /\ Head(t) = "frame" => t = <<"frame">> /\ Tail(t) = <<>>
       /\ t # <<>> /\ Head(t) = "exit" => t = <<"exit", "close", "frame">>
       /\ t # <<>> /\ Head(t) = "error" => t = <<"error", "close", "frame">>
  /\ \A c \in {<<"exit", "close">>, <<"error", "close">>, <<"close">>} : c \o <<"frame">> \in Reports \ {<<"frame">>, <<>>}
<1> DEFINE T(t) ==
       /\ t \in Seq({"exit", "error", "close", "frame"}) /\ Len(t) <= 3
       /\ t # <<>> => Head(t) \in {"exit", "error", "close", "frame"} /\ Tail(t) \in Reports
       /\ t # <<>> /\ Head(t) \in {"exit", "error"} => Tail(t) = <<"close", "frame">>
       /\ t # <<>> /\ Head(t) = "close" => t = <<"close", "frame">> /\ Tail(t) = <<"frame">>
       /\ t # <<>> /\ Head(t) = "frame" => t = <<"frame">> /\ Tail(t) = <<>>
       /\ t # <<>> /\ Head(t) = "exit" => t = <<"exit", "close", "frame">>
       /\ t # <<>> /\ Head(t) = "error" => t = <<"error", "close", "frame">>
<1>1. T(<<>>)
  OBVIOUS
<1>2. T(<<"frame">>)
  BY DEF Reports
<1>3. T(<<"close", "frame">>)
  BY DEF Reports
<1>4. T(<<"exit", "close", "frame">>) /\ T(<<"error", "close", "frame">>)
  BY DEF Reports
<1>5. /\ <<"exit", "close">> \o <<"frame">> = <<"exit", "close", "frame">>
      /\ <<"error", "close">> \o <<"frame">> = <<"error", "close", "frame">>
      /\ <<"close">> \o <<"frame">> = <<"close", "frame">>
  <2> DEFINE S == {"exit", "error", "close", "frame"}
  <2>1. ASSUME NEW a \in S PROVE <<a, "close">> \o <<"frame">> = <<a, "close", "frame">>
    <3>1. <<a, "close">> \in Seq(S) /\ Len(<<a, "close">>) = 2 /\ <<"frame">> \in Seq(S) /\ Len(<<"frame">>) = 1
      OBVIOUS
    <3>2. <<a, "close", "frame">> \in Seq(S) /\ Len(<<a, "close", "frame">>) = 3
      OBVIOUS
    <3>3. \A i \in 1..3 : (<<a, "close">> \o <<"frame">>)[i] = <<a, "close", "frame">>[i]
      BY <3>1, ConcatProperties
    <3>4. <<a, "close">> \o <<"frame">> \in Seq(S) /\ Len(<<a, "close">> \o <<"frame">>) = 3
      BY <3>1, ConcatProperties
    <3> HIDE DEF S
    <3>5. QED
      BY <3>2, <3>3, <3>4, SeqEqual
  <2>2. <<"close">> \o <<"frame">> = <<"close", "frame">>
    <3>1. <<"close">> \in Seq(S) /\ Len(<<"close">>) = 1 /\ <<"frame">> \in Seq(S) /\ Len(<<"frame">>) = 1
      OBVIOUS
    <3>2. <<"close", "frame">> \in Seq(S) /\ Len(<<"close", "frame">>) = 2
      OBVIOUS
    <3>3. \A i \in 1..2 : (<<"close">> \o <<"frame">>)[i] = <<"close", "frame">>[i]
      BY <3>1, ConcatProperties
    <3>4. <<"close">> \o <<"frame">> \in Seq(S) /\ Len(<<"close">> \o <<"frame">>) = 2
      BY <3>1, ConcatProperties
    <3> HIDE DEF S
    <3>5. QED
      BY <3>2, <3>3, <3>4, SeqEqual
  <2>3. QED
    BY <2>1, <2>2
<1>6. QED
  BY <1>1, <1>2, <1>3, <1>4, <1>5 DEF Reports

\* BridgeTypes contains the type invariant.
LEMMA BridgeTypesAreTypes == BridgeTypes => TypeOK
<1> SUFFICES ASSUME BridgeTypes PROVE TypeOK
  OBVIOUS
<1>1. /\ \A S : \A q \in Seq(S) : ToSet(q) \subseteq S
  BY DEF ToSet
<1>2. Len(todo) <= 3 /\ ToSet(todo) \subseteq {"exit", "error", "close", "frame"}
  <2>1. todo \in Seq({"exit", "error", "close", "frame"}) /\ Len(todo) <= 3
    BY ReportsAre DEF BridgeTypes
  <2>2. QED
    BY <1>1, <2>1
<1>3. /\ ToSet(inbound) \subseteq Decoded /\ ToSet(outbound) \subseteq Frames /\ ToSet(sent) \subseteq Frames
  BY <1>1 DEF BridgeTypes
<1>4. produced \in taken..MaxOutput
  BY BridgeNaturals DEF BridgeTypes
<1>5. QED
  BY <1>2, <1>3, <1>4 DEF BridgeTypes, TypeOK, Looping, Reporting, Terminations

\* Every task of the bridge, the session and the transport keep the types.
LEMMA BridgeTypesNext == BridgeTypes /\ [Next]_vars => BridgeTypes'
<1> SUFFICES ASSUME BridgeTypes, [Next]_vars PROVE BridgeTypes'
  OBVIOUS
<1> USE BridgeNaturals DEF vars, bridgeVars, readerVars, writerVars, sessionVars
<1>1. Len(inbound) \in Nat /\ Len(outbound) \in Nat
  BY Queueing DEF BridgeTypes
<1>2. ASSUME NEW termination \in Terminations, Terminate(termination), pc \in Looping,
             inbound' = inbound \/ (inbound # <<>> /\ inbound' = Tail(inbound))
      PROVE  BridgeTypes'
  <2>1. inbound' \in Seq(Decoded) /\ Len(inbound') <= QueueCapacity
    <3>1. CASE inbound' = inbound
      BY <3>1 DEF BridgeTypes
    <3>2. CASE inbound # <<>> /\ inbound' = Tail(inbound)
      BY <1>1, <3>2, Queueing DEF BridgeTypes
    <3>3. QED
      BY <1>2, <3>1, <3>2
  <2>2. QED
    BY <1>2, <2>1 DEF Terminate, BridgeTypes, Looping, Reporting
<1>3. CASE Cancelled
  BY <1>2, <1>3 DEF Cancelled, Terminations, Looping
<1>4. CASE TakeMessage
  <2>1. inbound # <<>> /\ inbound' = Tail(inbound) /\ pc = "loop"
    BY <1>4 DEF TakeMessage
  <2>2. inbound' \in Seq(Decoded) /\ Len(inbound') <= QueueCapacity
    BY <1>1, <2>1, Queueing DEF BridgeTypes
  <2>3. CASE Head(inbound) \in Faults /\ Terminate(Head(inbound))
    BY <1>2, <2>1, <2>3 DEF Terminations, Looping
  <2>4. CASE ~(Head(inbound) \in Faults /\ Terminate(Head(inbound)))
    BY <1>4, <2>2, <2>4 DEF TakeMessage, BridgeTypes, Looping, Reporting
  <2>5. QED
    BY <2>3, <2>4
<1>5. CASE TakeOutput
  <2>1. CASE Terminate("Terminal")
    BY <1>2, <1>5, <2>1 DEF TakeOutput, Terminations, Looping
  <2>2. CASE ~Terminate("Terminal")
    BY <1>5, <2>2, SMTT(40) DEF TakeOutput, BridgeTypes, Looping, Reporting
  <2>3. QED
    BY <2>1, <2>2
<1>6. CASE Write
  <2>1. CASE Terminate("InternalFailure")
    BY <1>2, <1>6, <2>1 DEF Write, Terminations, Looping
  <2>2. CASE ~Terminate("InternalFailure")
    BY <1>6, <2>2, SMTT(40) DEF Write, BridgeTypes, Looping, Reporting
  <2>3. QED
    BY <2>1, <2>2
<1>7. CASE Settle \/ AwaitClose
  BY <1>2, <1>7 DEF Settle, AwaitClose, Terminations, Looping
<1>8. CASE RequestClose
  <2>1. CASE Terminate("InternalFailure")
    BY <1>2, <1>8, <2>1 DEF RequestClose, Terminations, Looping
  <2>2. CASE ~Terminate("InternalFailure")
    BY <1>8, <2>2, SMTT(40) DEF RequestClose, Requested, Requests, BridgeTypes, Looping, Reporting
  <2>3. QED
    BY <2>1, <2>2
<1>9. CASE Push
  <2>1. CASE \E termination \in {"Transport", "Backpressured"} : Terminate(termination)
    BY <1>2, <1>9, <2>1 DEF Push, Terminations, Looping
  <2>2. CASE Room /\ pc' = "loop" /\ outbound' = Append(outbound, Out(taken))
             /\ UNCHANGED <<why, todo, readerVars, writerVars, sessionVars, cancel, stop, link>>
    <3>1. Out(taken) \in Frames
      BY <1>9, FramesAre DEF Push, BridgeTypes
    <3>2. outbound' \in Seq(Frames) /\ Len(outbound') <= QueueCapacity
      BY <1>1, <2>2, <3>1, Queueing DEF BridgeTypes, Room
    <3>3. QED
      BY <1>9, <2>2, <3>2 DEF Push, BridgeTypes, Looping, Reporting
  <2>3. QED
    BY <1>9, <2>1, <2>2 DEF Push
<1>10. CASE Finish
  <2>1. request' \in Requests \cup {None}
    <3>1. why \in Terminations
      BY <1>10 DEF Finish, BridgeTypes, Looping
    <3>2. why \notin {"Terminal", "Backpressured"} =>
            (IF why = "Transport" THEN "TransportDropped" ELSE why) \in Requests
      BY <3>1 DEF Terminations, Requests
    <3>3. QED
      BY <1>10, <3>2 DEF Finish, Requested, BridgeTypes
  <2>2. QED
    BY <1>10, <2>1 DEF Finish, BridgeTypes, Looping, Reporting
<1>11. CASE Awaited
  <2>1. todo' \in Reports
    <3>1. CASE why = "Transport"
      BY <1>11, <3>1 DEF Awaited, BridgeTypes
    <3>2. CASE why # "Transport"
      <4>1. PICK c \in {<<"exit", "close">>, <<"error", "close">>, <<"close">>} : todo' = c \o <<"frame">>
        <5>1. TerminalControls \in {<<"exit", "close">>, <<"error", "close">>, <<"close">>}
          BY DEF TerminalControls
        <5>2. QED
          BY <1>11, <3>2, <5>1 DEF Awaited
      <4>2. QED
        BY <4>1, ReportsAre
    <3>3. QED
      BY <3>1, <3>2
  <2>2. QED
    BY <1>11, <2>1 DEF Awaited, BridgeTypes, Looping, Reporting
<1>12. CASE Report
  <2>1. todo # <<>> => Head(todo) \in Controls /\ Tail(todo) \in Reports
    BY ReportsAre DEF BridgeTypes, Controls
  <2>2. CASE todo # <<>> /\ Room /\ outbound' = Append(outbound, Ctl(Head(todo))) /\ todo' = Tail(todo) /\ UNCHANGED pc
    <3>1. outbound' \in Seq(Frames) /\ Len(outbound') <= QueueCapacity
      BY <1>1, <2>1, <2>2, FramesAre, Queueing DEF BridgeTypes, Room
    <3>2. QED
      BY <1>12, <2>1, <2>2, <3>1 DEF Report, BridgeTypes
  <2>3. CASE todo' = <<>> /\ pc' = "leaving" /\ UNCHANGED outbound
    BY <1>12, <2>3 DEF Report, BridgeTypes, Looping, Reporting, Reports
  <2>4. QED
    BY <1>12, <2>2, <2>3 DEF Report
<1>13. CASE Leave
  BY <1>13 DEF Leave, BridgeTypes, Looping, Reporting
<1>14. CASE Join
  BY <1>14 DEF Join, BridgeTypes, Looping, Reporting
<1>15. ASSUME NEW m \in {"ping", "tooLarge"} \cup Decoded, ReaderReceives(m) PROVE BridgeTypes'
  <2>1. "ProtocolViolation" \in Decoded
    BY BridgeAssumption DEF Decoded
  <2>2. QED
    BY <1>15, <2>1 DEF ReaderReceives, BridgeTypes
<1>16. CASE ReaderPongs
  <2>1. outbound' \in Seq(Frames) /\ Len(outbound') <= QueueCapacity
    BY <1>1, <1>16, FramesAre, Queueing DEF ReaderPongs, BridgeTypes, Room, Controls
  <2>2. QED
    BY <1>16, <2>1 DEF ReaderPongs, BridgeTypes
<1>17. CASE ReaderForwards
  <2>1. inbound' \in Seq(Decoded) /\ Len(inbound') <= QueueCapacity
    BY <1>1, <1>17, Queueing DEF ReaderForwards, BridgeTypes
  <2>2. QED
    BY <1>17, <2>1 DEF ReaderForwards, BridgeTypes
<1>18. CASE ReaderLosesLink \/ ReaderStops
  BY <1>18, SMTT(40) DEF ReaderLosesLink, ReaderStops, BridgeTypes
<1>19. CASE WriterTakes
  <2>1. Head(outbound) \in Frames /\ Tail(outbound) \in Seq(Frames) /\ Len(Tail(outbound)) <= QueueCapacity
    BY <1>1, <1>19, Queueing DEF WriterTakes, BridgeTypes
  <2>2. QED
    BY <1>19, <2>1 DEF WriterTakes, BridgeTypes
<1>20. CASE WriterSends
  <2>1. sent' \in Seq(Frames)
    BY <1>20, Queueing DEF WriterSends, BridgeTypes
  <2>2. QED
    BY <1>20, <2>1 DEF WriterSends, BridgeTypes
<1>21. CASE WriterFails \/ WriterStops \/ WriterCloses
  BY <1>21, SMTT(40) DEF WriterFails, WriterStops, WriterCloses, BridgeTypes
<1>22. CASE SessionOutputs \/ SessionReadsCommand
  <2>1. /\ produced' \in 0..MaxOutput /\ taken <= produced' /\ commands' \in 0..InputCapacity
        /\ UNCHANGED <<bridgeVars, readerVars, writerVars, session, final, request, taken, inbound,
                       outbound, cancel, stop, link>>
    BY <1>22, SMTT(40) DEF SessionOutputs, SessionReadsCommand, BridgeTypes
  <2>2. QED
    BY <2>1 DEF BridgeTypes
<1>23. CASE SessionCloses \/ LinkBreaks \/ UNCHANGED vars
  BY <1>23, SMTT(40) DEF SessionCloses, LinkBreaks, BridgeTypes
<1>24. ASSUME NEW r \in Requests \cup {"ChildExited", "Timeout", "BackendFailure"}, SessionEnds(r) PROVE BridgeTypes'
  BY <1>24 DEF SessionEnds, BridgeTypes
<1>25. QED
  BY <1>3, <1>4, <1>5, <1>6, <1>7, <1>8, <1>9, <1>10, <1>11, <1>12, <1>13, <1>14, <1>15, <1>16, <1>17,
     <1>18, <1>19, <1>20, <1>21, <1>22, <1>23, <1>24 DEF Next, BridgeNext, ReaderNext, WriterNext

----------------------------------------------------------------------------
(* What ends, and when.                                                    *)

\* The session is over before anything is reported, and a bridge that could not
\* pass output on has seen its end; a client that said nothing is heard saying
\* nothing, and its session ends "Terminal" only behind its last chunk.
EndInv ==
  /\ pc \in Reporting => Closed
  /\ why = "Backpressured" => Closed
  /\ pc = "ended" => reader = "ended" /\ writer = "ended"
  /\ writer = "closing" => cancel = "on"
  /\ messages = 0 =>
       /\ inbound = <<>> /\ reader \notin {"ponging", "forwarding", "failing"}
       /\ pc \notin {"writing", "settling", "requesting", "closing"}
       /\ why = "Terminal" => taken = produced /\ Closed

\* Nothing outlives the bridge.
LEMMA EndInvNext == BridgeTypes /\ EndInv /\ [Next]_vars => EndInv'
<1> SUFFICES ASSUME BridgeTypes, EndInv, [Next]_vars PROVE EndInv'
  OBVIOUS
<1> USE BridgeNaturals DEF vars, bridgeVars, readerVars, writerVars, sessionVars, Closed, Reporting
<1>2. pc \in Looping => why = None
  BY DEF BridgeTypes
<1>3. ASSUME NEW termination \in Terminations, Terminate(termination),
             termination = "Backpressured" => Closed,
             messages = 0 => inbound' = <<>>,
             messages = 0 /\ termination = "Terminal" => taken = produced /\ Closed
      PROVE  EndInv'
  BY <1>3 DEF Terminate, EndInv
<1>4. \A f \in Faults : f \in Terminations /\ f \notin {"Backpressured", "Terminal"}
  BY BridgeAssumption DEF Terminations
<1>5. CASE Cancelled
  BY <1>3, <1>5 DEF Cancelled, Terminations, EndInv
<1>6. CASE TakeMessage
  <2>1. messages # 0
    BY <1>6 DEF TakeMessage, EndInv
  <2>2. CASE Head(inbound) \in Faults /\ Terminate(Head(inbound))
    BY <1>3, <1>4, <2>1, <2>2
  <2>3. CASE ~(Head(inbound) \in Faults /\ Terminate(Head(inbound)))
    BY <1>6, <2>1, <2>3 DEF TakeMessage, EndInv
  <2>4. QED
    BY <2>2, <2>3
<1>7. CASE TakeOutput
  <2>1. CASE taken = produced /\ Closed /\ Terminate("Terminal")
    BY <1>3, <1>7, <2>1 DEF TakeOutput, Terminations, EndInv
  <2>2. CASE ~(taken = produced /\ Closed /\ Terminate("Terminal"))
    <3>1. why = None
      BY <1>2, <1>7 DEF TakeOutput, Looping
    <3>2. /\ pc' = "pushing"
          /\ UNCHANGED <<why, reader, held, messages, writer, session, inbound, cancel, produced>>
      BY <1>7, <2>2 DEF TakeOutput
    <3>3. why # "Terminal"
      BY <3>1, NoneAssumption
    <3>4. QED
      BY <3>2, <3>3 DEF EndInv
  <2>3. QED
    BY <2>1, <2>2
<1>8. CASE Write \/ Settle \/ RequestClose \/ AwaitClose
  <2>1. messages # 0
    BY <1>8 DEF Write, Settle, RequestClose, AwaitClose, EndInv
  <2>2. CASE \E termination \in {"InternalFailure", "Terminal"} : Terminate(termination)
    BY <1>3, <2>1, <2>2 DEF Terminations
  <2>3. CASE ~\E termination \in {"InternalFailure", "Terminal"} : Terminate(termination)
    BY <1>8, <2>1, <2>3 DEF Write, Settle, RequestClose, AwaitClose, EndInv
  <2>4. QED
    BY <2>2, <2>3
<1>9. CASE Push
  <2>1. CASE Terminate("Transport") \/ (Closed /\ Terminate("Backpressured"))
    BY <1>3, <1>9, <2>1 DEF Push, Terminations, EndInv
  <2>2. CASE ~(Terminate("Transport") \/ (Closed /\ Terminate("Backpressured")))
    BY <1>9, <2>2 DEF Push, EndInv
  <2>3. QED
    BY <2>1, <2>2
<1>10. CASE Finish
  BY <1>10 DEF Finish, EndInv
<1>11. CASE Awaited \/ Report \/ Leave
  BY <1>11 DEF Awaited, Report, Leave, EndInv
<1>12. CASE Join
  BY <1>12 DEF Join, EndInv
<1>13. ASSUME NEW m, ReaderReceives(m) PROVE EndInv'
  <2>1. messages' # 0
    BY <1>13 DEF ReaderReceives, BridgeTypes
  <2>2. QED
    BY <1>13, <2>1 DEF ReaderReceives, EndInv
<1>14. CASE ReaderNext
  BY <1>14 DEF ReaderNext, ReaderPongs, ReaderForwards, ReaderLosesLink, ReaderStops, EndInv
<1>15. CASE WriterNext \/ WriterSends
  BY <1>15 DEF WriterNext, WriterTakes, WriterFails, WriterStops, WriterCloses, WriterSends, EndInv
<1>16. CASE SessionOutputs \/ SessionReadsCommand \/ SessionCloses \/ LinkBreaks \/ UNCHANGED vars
  BY <1>16 DEF SessionOutputs, SessionReadsCommand, SessionCloses, LinkBreaks, EndInv
<1>17. ASSUME NEW r, SessionEnds(r) PROVE EndInv'
  BY <1>17 DEF SessionEnds, EndInv
<1>18. QED
  BY <1>5, <1>6, <1>7, <1>8, <1>9, <1>10, <1>11, <1>12, <1>13, <1>14, <1>15, <1>16, <1>17
     DEF Next, BridgeNext

----------------------------------------------------------------------------
(* What write_socket sends.                                                *)

\* All that was sent, is being sent and waits to be sent, in this order.
Queued == IF writer = "sending" THEN Append(sent, frame) \o outbound ELSE sent \o outbound
Alive == writer \in {"waiting", "sending"}

IsOut(f) == f[1] = "out"

\* Frame b may come after frame a; pongs of a reader that has not looked at
\* stop_input yet may be queued even behind the close frame.
MayFollow(a, b) ==
  /\ a = Ctl("frame") => b = Ctl("pong")
  /\ a = Ctl("close") => b \in {Ctl("pong"), Ctl("frame")}
  /\ a \in {Ctl("exit"), Ctl("error")} => b \in {Ctl("pong"), Ctl("close"), Ctl("frame")}
Ordered(s) == \A i, j \in 1..Len(s) : i < j => MayFollow(s[i], s[j])

\* Only output and pongs so far; no frame of kind k.
Bare(s) == \A i \in 1..Len(s) : IsOut(s[i]) \/ s[i] = Ctl("pong")
Lacks(s, k) == \A i \in 1..Len(s) : s[i] # Ctl(k)

\* The chunks in s are exactly the first n.
Upto(s, n) ==
  /\ \A i \in 1..Len(s) : IsOut(s[i]) => s[i][2] <= n
  /\ \A m \in 1..n : \E i \in 1..Len(s) : s[i] = Out(m)

\* What the queue holds while somebody sends it: in order and without gaps; bare
\* until something is reported, and then lacking what is still to be reported; all
\* chunks taken, but the one being pushed, unless the bridge dropped one and ended.
QueueInv ==
  Alive =>
    /\ Ordered(Queued) /\ Gapless(Queued)
    /\ pc \notin Reporting => Bare(Queued)
    /\ pc = "reporting" =>
         /\ todo \in {<<"exit", "close", "frame">>, <<"error", "close", "frame">>} => Bare(Queued)
         /\ todo = <<"close", "frame">> => Lacks(Queued, "close") /\ Lacks(Queued, "frame")
         /\ todo = <<"frame">> => Lacks(Queued, "frame")
    /\ pc \in Looping \ {"pushing"} \/ why = "Terminal" => Upto(Queued, taken)
    /\ pc = "pushing" => Upto(Queued, taken - 1)
    /\ ~Lacks(Queued, "exit") => why = "Terminal"

\* Nothing is sent behind the close frame, and an exit only behind all output, to a
\* client that only listens.
SentInv ==
  /\ Ordered(sent) /\ Gapless(sent)
  /\ \A i \in 1..Len(sent) : sent[i] = Ctl("frame") => i = Len(sent) /\ writer = "ended"
  /\ Sent("exit") => why = "Terminal" /\ Closed
  /\ Sent("exit") /\ messages = 0 => \A n \in 1..produced : \E i \in DOMAIN sent : sent[i] = Out(n)
  /\ todo = <<"exit", "close", "frame">> => why = "Terminal"

\* The frames are pairs; output is not a control.
LEMMA FramesDiffer ==
  /\ \A f \in Frames : IsOut(f) \/ \E k \in Controls : f = Ctl(k)
  /\ \A k \in Controls : ~IsOut(Ctl(k))
  /\ \A n : IsOut(Out(n)) /\ Out(n)[2] = n
  /\ \A f \in Frames : IsOut(f) => f[2] \in 1..MaxOutput /\ f = Out(f[2])
  /\ \A k, l \in Controls : Ctl(k) = Ctl(l) => k = l
BY DEF Frames, Controls, IsOut, Ctl, Out

\* The first frame of the queue is the next to send.
LEMMA HeadFirst ==
  ASSUME NEW S, NEW s \in Seq(S), NEW o \in Seq(S), o # <<>>
  PROVE  Append(s, Head(o)) \o Tail(o) = s \o o
<1>1. Head(o) \in S /\ Tail(o) \in Seq(S) /\ Len(Tail(o)) = Len(o) - 1 /\ Len(o) \in Nat
      /\ Len(s) \in Nat /\ \A i \in 1..Len(Tail(o)) : Tail(o)[i] = o[i + 1]
  BY HeadTailProperties
<1>2. Append(s, Head(o)) \in Seq(S) /\ Len(Append(s, Head(o))) = Len(s) + 1
      /\ (\A i \in 1..Len(s) : Append(s, Head(o))[i] = s[i]) /\ Append(s, Head(o))[Len(s) + 1] = Head(o)
  BY <1>1, AppendProperties
<1> DEFINE a == Append(s, Head(o))
           l == a \o Tail(o)
           r == s \o o
<1>3. r \in Seq(S) /\ Len(r) = Len(s) + Len(o)
      /\ \A i \in 1..(Len(s) + Len(o)) : r[i] = IF i <= Len(s) THEN s[i] ELSE o[i - Len(s)]
  BY ConcatProperties
<1> HIDE DEF a, r
<1>4. l \in Seq(S) /\ Len(l) = Len(s) + Len(o)
      /\ \A i \in 1..(Len(s) + Len(o)) : l[i] = IF i <= Len(a) THEN a[i] ELSE Tail(o)[i - Len(a)]
  <2>1. a \in Seq(S) /\ Len(a) = Len(s) + 1
    BY <1>2 DEF a
  <2>2. Len(a) + Len(Tail(o)) = Len(s) + Len(o)
    BY <1>1, <2>1
  <2>3. l \in Seq(S) /\ Len(l) = Len(a) + Len(Tail(o))
        /\ \A i \in 1..(Len(a) + Len(Tail(o))) : l[i] = IF i <= Len(a) THEN a[i] ELSE Tail(o)[i - Len(a)]
    BY <1>1, <2>1, ConcatProperties
  <2>4. QED
    BY <2>2, <2>3
<1> HIDE DEF l
<1>5. ASSUME NEW i \in 1..(Len(s) + Len(o)) PROVE l[i] = r[i]
  <2>0. Len(a) = Len(s) + 1 /\ (\A x \in 1..Len(s) : a[x] = s[x]) /\ a[Len(s) + 1] = Head(o) /\ Head(o) = o[1]
    BY <1>2 DEF a
  <2>1. CASE i <= Len(s)
    BY <1>1, <1>3, <1>4, <2>0, <2>1
  <2>2. CASE i = Len(s) + 1
    BY <1>1, <1>3, <1>4, <2>0, <2>2
  <2>3. CASE i > Len(s) + 1
    <3>1. l[i] = Tail(o)[i - (Len(s) + 1)]
      BY <1>1, <1>4, <2>0, <2>3
    <3>2. i - (Len(s) + 1) \in 1..Len(Tail(o)) /\ (i - (Len(s) + 1)) + 1 = i - Len(s)
      BY <1>1, <2>3
    <3>3. Tail(o)[i - (Len(s) + 1)] = o[i - Len(s)]
      BY <1>1, <3>2
    <3>4. r[i] = o[i - Len(s)]
      BY <1>1, <1>3, <2>3
    <3>5. QED
      BY <3>1, <3>3, <3>4
  <2>4. QED
    BY <1>1, <2>1, <2>2, <2>3
<1>6. l = r
  BY <1>3, <1>4, <1>5, SeqEqual
<1>7. QED
  BY <1>6 DEF l, r, a

\* A frame put into the queue comes last.
LEMMA LastLast ==
  ASSUME NEW S, NEW s \in Seq(S), NEW o \in Seq(S), NEW e \in S
  PROVE  s \o Append(o, e) = Append(s \o o, e)
<1>1. <<e>> \in Seq(S)
  OBVIOUS
<1>2. Append(o, e) = o \o <<e>> /\ s \o o \in Seq(S)
  BY AppendIsConcat, ConcatProperties
<1>3. Append(s \o o, e) = (s \o o) \o <<e>>
  BY <1>2, AppendIsConcat
<1>4. QED
  BY <1>1, <1>2, <1>3, ConcatAssociative

\* What the queue is after a frame was put into it, taken from it, or sent.
LEMMA QueuedAfter ==
  ASSUME BridgeTypes, Alive
  PROVE  /\ Queued \in Seq(Frames)
         /\ \A f \in Frames : UNCHANGED <<writer, frame, sent>> /\ outbound' = Append(outbound, f)
              => Queued' = Append(Queued, f)
         /\ WriterTakes => Queued' = Queued
         /\ WriterSends => Queued = sent' \o outbound /\ (writer' = "waiting" => Queued' = Queued)
         /\ UNCHANGED <<writer, frame, sent, outbound>> => Queued' = Queued
<1> DEFINE s == IF writer = "sending" THEN Append(sent, frame) ELSE sent
<1>1. s \in Seq(Frames) /\ outbound \in Seq(Frames) /\ sent \in Seq(Frames) /\ Queued = s \o outbound
  BY AppendProperties DEF BridgeTypes, Queued
<1>2. Queued \in Seq(Frames)
  BY <1>1, ConcatProperties
<1>3. ASSUME NEW f \in Frames, UNCHANGED <<writer, frame, sent>>, outbound' = Append(outbound, f)
      PROVE  Queued' = Append(Queued, f)
  <2>1. Queued' = s \o Append(outbound, f)
    BY <1>3 DEF Queued
  <2> HIDE DEF s
  <2>2. QED
    BY <1>1, <2>1, LastLast
<1>4. ASSUME WriterTakes PROVE Queued' = Queued
  <2>1. Queued = sent \o outbound
    BY <1>4 DEF WriterTakes, Queued
  <2>2. Queued' = Append(sent, Head(outbound)) \o Tail(outbound)
    BY <1>4 DEF WriterTakes, Queued
  <2>3. QED
    BY <1>1, <1>4, <2>1, <2>2, HeadFirst DEF WriterTakes
<1>5. ASSUME WriterSends PROVE Queued = sent' \o outbound /\ (writer' = "waiting" => Queued' = Queued)
  BY <1>5 DEF WriterSends, Queued
<1>6. ASSUME UNCHANGED <<writer, frame, sent, outbound>> PROVE Queued' = Queued
  BY <1>6 DEF Queued
<1>7. QED
  BY <1>2, <1>3, <1>4, <1>5, <1>6

\* A frame that may follow everything keeps the order.
LEMMA OrderedAppend ==
  ASSUME NEW s \in Seq(Frames), NEW f \in Frames, Ordered(s),
         \A i \in 1..Len(s) : MayFollow(s[i], f)
  PROVE  Ordered(Append(s, f))
<1>1. Len(s) \in Nat /\ Len(Append(s, f)) = Len(s) + 1 /\ Append(s, f)[Len(s) + 1] = f
      /\ \A i \in 1..Len(s) : Append(s, f)[i] = s[i]
  BY AppendProperties
<1>2. ASSUME NEW i \in 1..(Len(s) + 1), NEW j \in 1..(Len(s) + 1), i < j
      PROVE  MayFollow(Append(s, f)[i], Append(s, f)[j])
  <2>1. i \in 1..Len(s) /\ (j \in 1..Len(s) \/ j = Len(s) + 1)
    BY <1>1, <1>2
  <2>2. QED
    BY <1>1, <1>2, <2>1 DEF Ordered
<1>3. QED
  BY <1>1, <1>2 DEF Ordered

\* The next chunk, or a control, leaves no gap.
LEMMA GaplessAppend ==
  ASSUME NEW s \in Seq(Frames), NEW f \in Frames, Gapless(s),
         IsOut(f) => Upto(s, f[2] - 1)
  PROVE  Gapless(Append(s, f))
<1>1. Len(s) \in Nat /\ Len(Append(s, f)) = Len(s) + 1 /\ Append(s, f)[Len(s) + 1] = f
      /\ (\A i \in 1..Len(s) : Append(s, f)[i] = s[i]) /\ DOMAIN Append(s, f) = 1..(Len(s) + 1)
      /\ DOMAIN s = 1..Len(s)
  BY AppendProperties
<1> DEFINE a == Append(s, f)
<1> HIDE DEF a
<1>2. ASSUME NEW j \in 1..(Len(s) + 1), IsOut(a[j])
      PROVE  /\ \A i \in 1..(j - 1) : IsOut(a[i]) => a[i][2] < a[j][2]
             /\ \A n \in 1..(a[j][2] - 1) : \E i \in 1..(j - 1) : a[i] = Out(n)
  <2>1. CASE j \in 1..Len(s)
    <3>1. a[j] = s[j] /\ \A i \in 1..(j - 1) : a[i] = s[i] /\ i \in 1..Len(s)
      BY <1>1, <2>1 DEF a
    <3>2. /\ \A i \in 1..(j - 1) : IsOut(s[i]) => s[i][2] < s[j][2]
          /\ \A n \in 1..(s[j][2] - 1) : \E i \in 1..(j - 1) : s[i] = Out(n)
      BY <1>1, <1>2, <2>1, <3>1 DEF Gapless, IsOut
    <3>3. QED
      BY <3>1, <3>2
  <2>2. CASE j = Len(s) + 1
    <3>1. a[j] = f /\ \A i \in 1..Len(s) : a[i] = s[i]
      BY <1>1, <2>2 DEF a
    <3>2. j - 1 = Len(s)
      BY <1>1, <2>2
    <3>3. f[2] \in 1..MaxOutput /\ \A i \in 1..Len(s) : IsOut(s[i]) => s[i][2] \in 1..MaxOutput
      BY <1>2, <3>1, FramesDiffer
    <3>4. Upto(s, f[2] - 1)
      BY <1>2, <3>1
    <3>5. ASSUME NEW i \in 1..Len(s), IsOut(s[i]) PROVE s[i][2] < f[2]
      <4>1. s[i][2] <= f[2] - 1
        BY <3>4, <3>5 DEF Upto
      <4>2. s[i][2] \in Nat /\ f[2] \in Nat
        BY <3>3, <3>5, BridgeNaturals, SMTT(40)
      <4>3. QED
        BY <4>1, <4>2
    <3>6. ASSUME NEW n \in 1..(f[2] - 1) PROVE \E i \in 1..Len(s) : s[i] = Out(n)
      BY <3>4 DEF Upto
    <3>7. QED
      BY <3>1, <3>2, <3>5, <3>6
  <2>3. QED
    BY <1>1, <2>1, <2>2
<1>3. QED
  BY <1>1, <1>2 DEF Gapless, IsOut, a

\* The chunks in a queue after one more frame.
LEMMA UptoAppend ==
  ASSUME NEW s \in Seq(Frames), NEW f \in Frames
  PROVE  /\ \A n \in Nat : ~IsOut(f) /\ Upto(s, n) => Upto(Append(s, f), n)
         /\ \A n \in Nat \ {0} : f = Out(n) /\ Upto(s, n - 1) => Upto(Append(s, f), n)
         /\ \A k : Lacks(s, k) /\ f # Ctl(k) => Lacks(Append(s, f), k)
         /\ Bare(s) /\ (IsOut(f) \/ f = Ctl("pong")) => Bare(Append(s, f))
         /\ \A k : Lacks(Append(s, f), k) => Lacks(s, k)
<1>1. Len(s) \in Nat /\ Len(Append(s, f)) = Len(s) + 1 /\ Append(s, f)[Len(s) + 1] = f
      /\ \A i \in 1..Len(s) : Append(s, f)[i] = s[i]
  BY AppendProperties
<1> DEFINE a == Append(s, f)
<1>2. Len(s) \in Nat /\ Len(a) = Len(s) + 1 /\ a[Len(s) + 1] = f
      /\ \A i \in 1..Len(s) : a[i] = s[i]
  BY <1>1
<1> HIDE DEF a
<1>3. \A i \in 1..Len(a) : i \in 1..Len(s) \/ i = Len(s) + 1
  BY <1>2
<1>4. \A i \in 1..Len(s) : i \in 1..Len(a)
  BY <1>2
<1>5. ASSUME NEW n \in Nat, ~IsOut(f), Upto(s, n) PROVE Upto(a, n)
  BY <1>2, <1>3, <1>4, <1>5 DEF Upto
<1>6. ASSUME NEW n \in Nat \ {0}, f = Out(n), Upto(s, n - 1) PROVE Upto(a, n)
  <2>1. \A i \in 1..Len(s) : IsOut(s[i]) => s[i][2] \in 1..MaxOutput
    BY FramesDiffer
  <2>2. ASSUME NEW i \in 1..Len(a), IsOut(a[i]) PROVE a[i][2] <= n
    <3>1. CASE i \in 1..Len(s)
      BY <1>2, <1>6, <2>1, <2>2, <3>1, BridgeNaturals DEF Upto
    <3>2. CASE i = Len(s) + 1
      BY <1>2, <1>6, <3>2, FramesDiffer
    <3>3. QED
      BY <1>3, <3>1, <3>2
  <2>3. ASSUME NEW m \in 1..n PROVE \E i \in 1..Len(a) : a[i] = Out(m)
    <3>1. CASE m = n
      BY <1>2, <1>6, <3>1
    <3>2. CASE m \in 1..(n - 1)
      BY <1>2, <1>4, <1>6, <3>2 DEF Upto
    <3>3. QED
      BY <3>1, <3>2
  <2>4. QED
    BY <2>2, <2>3 DEF Upto
<1>7. ASSUME NEW k, Lacks(s, k), f # Ctl(k) PROVE Lacks(a, k)
  BY <1>2, <1>3, <1>7 DEF Lacks
<1>8. ASSUME Bare(s), IsOut(f) \/ f = Ctl("pong") PROVE Bare(a)
  BY <1>2, <1>3, <1>8 DEF Bare
<1>9. ASSUME NEW k, Lacks(a, k) PROVE Lacks(s, k)
  BY <1>2, <1>4, <1>9 DEF Lacks
<1>10. QED
  BY <1>5, <1>6, <1>7, <1>8, <1>9 DEF a

\* What holds of a queue holds of what was sent of it.
LEMMA PrefixKeeps ==
  ASSUME NEW s \in Seq(Frames), NEW o \in Seq(Frames), Ordered(s \o o), Gapless(s \o o)
  PROVE  /\ Ordered(s) /\ Gapless(s)
         /\ \A i \in 1..Len(s) : i \in 1..Len(s \o o) /\ (s \o o)[i] = s[i]
<1> DEFINE q == s \o o
<1>1. Len(q) = Len(s) + Len(o) /\ Len(s) \in Nat /\ Len(o) \in Nat /\ DOMAIN q = 1..Len(q) /\ DOMAIN s = 1..Len(s)
      /\ \A i \in 1..(Len(s) + Len(o)) : q[i] = IF i <= Len(s) THEN s[i] ELSE o[i - Len(s)]
  BY ConcatProperties
<1> HIDE DEF q
<1>2. \A i \in 1..Len(s) : i \in 1..Len(q) /\ q[i] = s[i]
  BY <1>1
<1>3. Ordered(s)
  BY <1>2 DEF Ordered, q
<1>4. Gapless(s)
  <2>1. ASSUME NEW j \in 1..Len(s), s[j][1] = "out"
        PROVE  /\ \A i \in 1..(j - 1) : s[i][1] = "out" => s[i][2] < s[j][2]
               /\ \A n \in 1..(s[j][2] - 1) : \E i \in 1..(j - 1) : s[i] = Out(n)
    <3>1. q[j] = s[j] /\ j \in DOMAIN q /\ \A i \in 1..(j - 1) : q[i] = s[i]
      BY <1>1, <1>2
    <3>2. /\ \A i \in 1..(j - 1) : q[i][1] = "out" => q[i][2] < q[j][2]
          /\ \A n \in 1..(q[j][2] - 1) : \E i \in 1..(j - 1) : q[i] = Out(n)
      BY <2>1, <3>1 DEF Gapless, q
    <3>3. QED
      BY <3>1, <3>2
  <2>2. QED
    BY <1>1, <2>1 DEF Gapless
<1>5. QED
  BY <1>2, <1>3, <1>4 DEF q

\* The writer's side: sent is always a prefix of what was queued.
LEMMA SentInvNext == BridgeTypes /\ EndInv /\ QueueInv /\ SentInv /\ [Next]_vars => SentInv'
<1> SUFFICES ASSUME BridgeTypes, EndInv, QueueInv, SentInv, [Next]_vars PROVE SentInv'
  OBVIOUS
<1> USE BridgeNaturals DEF vars, bridgeVars, readerVars, writerVars, sessionVars
<1>1. CASE WriterSends
  <2>1. Alive /\ writer = "sending" /\ sent' = Append(sent, frame) /\ frame \in Frames
        /\ UNCHANGED <<why, todo, messages, session, produced>>
    BY <1>1 DEF WriterSends, Alive, BridgeTypes
  <2>2. sent' \in Seq(Frames) /\ outbound \in Seq(Frames) /\ Queued = sent' \o outbound
    BY <1>1, <2>1, QueuedAfter, AppendProperties DEF BridgeTypes
  <2>3. Ordered(Queued) /\ Gapless(Queued)
    BY <2>1 DEF QueueInv
  <2>4. Ordered(sent') /\ Gapless(sent') /\ \A i \in 1..Len(sent') : i \in 1..Len(Queued) /\ Queued[i] = sent'[i]
    BY <2>2, <2>3, PrefixKeeps
  <2>5. Len(sent') = Len(sent) + 1 /\ Len(sent) \in Nat /\ sent'[Len(sent) + 1] = frame
        /\ (\A i \in 1..Len(sent) : sent'[i] = sent[i]) /\ DOMAIN sent' = 1..Len(sent')
    BY <2>1, <2>2, AppendProperties DEF BridgeTypes
  <2>6. ASSUME NEW i \in 1..Len(sent'), sent'[i] = Ctl("frame") PROVE i = Len(sent') /\ writer' = "ended"
    <3>1. i \notin 1..Len(sent)
      BY <2>1, <2>5, <2>6 DEF SentInv
    <3>2. i = Len(sent) + 1 /\ frame = Ctl("frame")
      BY <2>5, <2>6, <3>1
    <3>3. QED
      BY <1>1, <2>5, <3>2 DEF WriterSends
  <2>7. ASSUME NEW e \in 1..Len(sent'), sent'[e] = Ctl("exit")
        PROVE  /\ why = "Terminal" /\ Closed
               /\ messages = 0 => \A n \in 1..produced : \E i \in 1..Len(sent') : sent'[i] = Out(n)
    <3>1. e \in 1..Len(Queued) /\ Queued[e] = Ctl("exit")
      BY <2>4, <2>7
    <3>2. why = "Terminal"
      BY <2>1, <3>1 DEF QueueInv, Lacks
    <3>3. Ctl("exit") # Ctl("pong") /\ ~IsOut(Ctl("exit"))
      BY FramesDiffer DEF Controls
    <3>4. pc \in Reporting
      BY <2>1, <3>1, <3>3 DEF QueueInv, Bare
    <3>5. Closed
      BY <3>4 DEF EndInv
    <3>6. ASSUME messages = 0, NEW n \in 1..produced PROVE \E i \in 1..Len(sent') : sent'[i] = Out(n)
      <4>1. taken = produced /\ Upto(Queued, taken)
        BY <2>1, <3>2, <3>6 DEF EndInv, QueueInv
      <4>2. PICK j \in 1..Len(Queued) : Queued[j] = Out(n)
        BY <4>1 DEF Upto
      <4>3. Out(n) \notin {Ctl("pong"), Ctl("close"), Ctl("frame"), Ctl("exit")}
        BY FramesDiffer DEF Controls
      <4>4. ~(e < j)
        BY <2>3, <3>1, <4>2, <4>3 DEF Ordered, MayFollow
      <4>5. j <= e /\ j \in 1..Len(sent')
        BY <2>5, <4>4
      <4>6. QED
        BY <2>4, <4>2, <4>5
    <3>7. QED
      BY <3>2, <3>5, <3>6
  <2>8. Sent("exit")' => \E e \in 1..Len(sent') : sent'[e] = Ctl("exit")
    BY <2>5 DEF Sent
  <2>9. QED
    BY <2>1, <2>4, <2>5, <2>6, <2>7, <2>8 DEF SentInv, Closed
<1>2. ASSUME sent' = sent, writer = "ended" => writer' = "ended",
             Sent("exit") => why' = why /\ session' = session /\ produced' = produced,
             messages' = 0 => messages = 0,
             todo' = <<"exit", "close", "frame">> => why' = "Terminal"
      PROVE  SentInv'
  BY <1>2 DEF SentInv, Sent, Closed
<1>3. Sent("exit") => Closed /\ pc \notin Looping
  <2>1. pc \in Looping => why # "Terminal"
    BY NoneAssumption DEF BridgeTypes
  <2>2. QED
    BY <2>1 DEF SentInv
<1>4. /\ messages' = 0 => messages = 0
      /\ Sent("exit") => session' = session /\ produced' = produced
      /\ writer = "ended" => writer' = "ended"
  <2>1. CASE BridgeNext
    BY <2>1 DEF BridgeNext, Cancelled, TakeMessage, TakeOutput, Write, Settle, RequestClose, AwaitClose,
       Push, Finish, Awaited, Report, Leave, Join, Terminate
  <2>2. CASE ReaderNext \/ WriterNext \/ WriterSends
    BY <2>2 DEF ReaderNext, ReaderPongs, ReaderForwards, ReaderLosesLink, ReaderStops, WriterNext, WriterTakes,
       WriterFails, WriterStops, WriterCloses, WriterSends
  <2>3. ASSUME NEW m, ReaderReceives(m) PROVE messages' # 0 /\ UNCHANGED <<session, produced, writer>>
    BY <2>3 DEF ReaderReceives, BridgeTypes
  <2>4. CASE SessionOutputs \/ SessionReadsCommand \/ SessionCloses \/ LinkBreaks
             \/ \E r \in Requests \cup {"ChildExited", "Timeout", "BackendFailure"} : SessionEnds(r)
    BY <1>3, <2>4 DEF SessionOutputs, SessionReadsCommand, SessionCloses, LinkBreaks, SessionEnds, Closed
  <2>5. CASE UNCHANGED vars
    BY <2>5
  <2>6. QED
    BY <2>1, <2>2, <2>3, <2>4, <2>5 DEF Next
<1>5. CASE Awaited
  <2>1. why' = why /\ sent' = sent
    BY <1>5 DEF Awaited
  <2>2. todo' = <<"exit", "close", "frame">> => why' = "Terminal"
    <3>1. CASE why = "Transport"
      BY <1>5, <3>1 DEF Awaited, SentInv
    <3>2. CASE why \notin {"Transport", "Terminal"}
      <4>1. todo' = <<"error", "close">> \o <<"frame">>
        BY <1>5, <3>2 DEF Awaited
      <4>2. <<"error", "close">> \o <<"frame">> # <<"exit", "close", "frame">>
        <5>1. <<"error", "close">> \in Seq({"error", "close", "frame"}) /\ <<"frame">> \in Seq({"error", "close", "frame"})
              /\ Len(<<"error", "close">>) = 2 /\ Len(<<"frame">>) = 1 /\ <<"error", "close">>[1] = "error"
          OBVIOUS
        <5>2. (<<"error", "close">> \o <<"frame">>)[1] = "error"
          BY <5>1, ConcatProperties
        <5>3. <<"exit", "close", "frame">>[1] = "exit"
          OBVIOUS
        <5>4. QED
          BY <5>2, <5>3
      <4>3. QED
        BY <4>1, <4>2
    <3>3. QED
      BY <2>1, <3>1, <3>2
  <2>3. QED
    BY <1>2, <1>4, <2>1, <2>2
<1>6. CASE Report
  <2>1. why' = why /\ sent' = sent
    BY <1>6 DEF Report
  <2>2. todo' = <<"exit", "close", "frame">> => why' = "Terminal"
    <3>1. todo' = <<>> \/ (todo # <<>> /\ todo' = Tail(todo))
      BY <1>6 DEF Report
    <3>2. todo' \in {<<>>, <<"frame">>, <<"close", "frame">>}
      BY <3>1, ReportsAre DEF BridgeTypes
    <3>3. <<"exit", "close", "frame">> \notin {<<>>, <<"frame">>, <<"close", "frame">>}
      OBVIOUS
    <3>4. QED
      BY <3>2, <3>3
  <2>3. QED
    BY <1>2, <1>4, <2>1, <2>2
<1>7. ASSUME ~WriterSends, ~Awaited, ~Report
      PROVE  sent' = sent /\ todo' = todo /\ (why' = why \/ pc \in Looping)
  <2>1. CASE BridgeNext
    BY <1>7, <2>1 DEF BridgeNext, Cancelled, TakeMessage, TakeOutput, Write, Settle, RequestClose, AwaitClose,
       Push, Finish, Leave, Join, Terminate, Looping
  <2>2. CASE ReaderNext \/ WriterNext
    BY <2>2 DEF ReaderNext, ReaderPongs, ReaderForwards, ReaderLosesLink, ReaderStops, WriterNext, WriterTakes,
       WriterFails, WriterStops, WriterCloses
  <2>3. ASSUME NEW m, ReaderReceives(m) PROVE UNCHANGED <<sent, todo, why>>
    BY <2>3 DEF ReaderReceives
  <2>4. CASE SessionOutputs \/ SessionReadsCommand \/ SessionCloses \/ LinkBreaks
             \/ \E r \in Requests \cup {"ChildExited", "Timeout", "BackendFailure"} : SessionEnds(r)
    BY <2>4 DEF SessionOutputs, SessionReadsCommand, SessionCloses, LinkBreaks, SessionEnds
  <2>5. CASE UNCHANGED vars
    BY <2>5
  <2>6. QED
    BY <1>7, <2>1, <2>2, <2>3, <2>4, <2>5 DEF Next
<1>8. ASSUME ~WriterSends, ~Awaited, ~Report PROVE SentInv'
  <2>1. todo' = <<"exit", "close", "frame">> => why' = "Terminal"
    <3>1. todo = <<"exit", "close", "frame">> => why = "Terminal" /\ pc \notin Looping
      BY NoneAssumption DEF SentInv, BridgeTypes
    <3>2. QED
      BY <1>7, <1>8, <3>1
  <2>2. QED
    BY <1>2, <1>3, <1>4, <1>7, <1>8, <2>1
<1>9. QED
  BY <1>1, <1>5, <1>6, <1>8

\* The queue after a frame the bridge or the reader adds.
LEMMA QueueGrows ==
  ASSUME BridgeTypes, Alive, Ordered(Queued), Gapless(Queued), NEW f \in Frames,
         \A i \in 1..Len(Queued) : MayFollow(Queued[i], f), IsOut(f) => Upto(Queued, f[2] - 1),
         UNCHANGED <<writer, frame, sent>>, outbound' = Append(outbound, f)
  PROVE  Queued \in Seq(Frames) /\ Queued' = Append(Queued, f) /\ Ordered(Queued') /\ Gapless(Queued')
<1>1. Queued \in Seq(Frames) /\ Queued' = Append(Queued, f)
  BY QueuedAfter
<1>2. Ordered(Append(Queued, f)) /\ Gapless(Append(Queued, f))
  BY <1>1, OrderedAppend, GaplessAppend
<1>3. QED
  BY <1>1, <1>2

\* In a queue with nothing but output and pongs any frame may come next.
LEMMA BareLacks ==
  ASSUME NEW s, Bare(s)
  PROVE  /\ \A k \in Controls \ {"pong"} : Lacks(s, k)
         /\ \A f : \A i \in 1..Len(s) : MayFollow(s[i], f)
<1>1. ASSUME NEW i \in 1..Len(s), NEW k \in Controls \ {"pong"} PROVE s[i] # Ctl(k)
  <2>1. ~IsOut(Ctl(k)) /\ Ctl(k) # Ctl("pong")
    BY FramesDiffer DEF Controls
  <2>2. QED
    BY <2>1 DEF Bare
<1>2. QED
  BY <1>1 DEF Lacks, MayFollow, Controls

\* The queue's side: every task that adds to the queue keeps its order.
LEMMA QueueInvNext == BridgeTypes /\ EndInv /\ QueueInv /\ SentInv /\ [Next]_vars => QueueInv'
<1> SUFFICES ASSUME BridgeTypes, EndInv, QueueInv, SentInv, [Next]_vars, Alive' PROVE QueueInv'
  BY DEF QueueInv
<1> USE DEF vars, bridgeVars, readerVars, writerVars, sessionVars
<1>1. Alive
  <2>1. CASE BridgeNext
    BY <2>1 DEF Alive, BridgeNext, Cancelled, TakeMessage, TakeOutput, Write, Settle, RequestClose,
       AwaitClose, Push, Finish, Awaited, Report, Leave, Join, Terminate
  <2>2. CASE ReaderNext \/ WriterNext \/ WriterSends
    BY <2>2 DEF Alive, ReaderNext, ReaderPongs, ReaderForwards, ReaderLosesLink, ReaderStops, WriterNext,
       WriterTakes, WriterFails, WriterStops, WriterCloses, WriterSends
  <2>3. ASSUME NEW m, ReaderReceives(m) PROVE Alive
    BY <2>3 DEF Alive, ReaderReceives
  <2>4. CASE SessionOutputs \/ SessionReadsCommand \/ SessionCloses \/ LinkBreaks
             \/ \E r \in Requests \cup {"ChildExited", "Timeout", "BackendFailure"} : SessionEnds(r)
    BY <2>4 DEF Alive, SessionOutputs, SessionReadsCommand, SessionCloses, LinkBreaks, SessionEnds
  <2>5. CASE UNCHANGED vars
    BY <2>5 DEF Alive
  <2>6. QED
    BY <2>1, <2>2, <2>3, <2>4, <2>5 DEF Next
<1>2. /\ Ordered(Queued) /\ Gapless(Queued)
      /\ pc \notin Reporting => Bare(Queued)
      /\ pc = "reporting" =>
           /\ todo \in {<<"exit", "close", "frame">>, <<"error", "close", "frame">>} => Bare(Queued)
           /\ todo = <<"close", "frame">> => Lacks(Queued, "close") /\ Lacks(Queued, "frame")
           /\ todo = <<"frame">> => Lacks(Queued, "frame")
      /\ pc \in Looping \ {"pushing"} \/ why = "Terminal" => Upto(Queued, taken)
      /\ pc = "pushing" => Upto(Queued, taken - 1)
      /\ ~Lacks(Queued, "exit") => why = "Terminal"
  BY <1>1 DEF QueueInv
<1>3. Queued \in Seq(Frames) /\ taken \in Nat /\ (UNCHANGED <<writer, frame, sent, outbound>> => Queued' = Queued)
  BY <1>1, QueuedAfter, BridgeNaturals DEF BridgeTypes
<1>4. /\ \A p \in Looping \cup {"finishing", "awaiting"} : p \notin Reporting /\ p # "reporting"
      /\ "reporting" \in Reporting /\ "reporting" \notin Looping
      /\ \A p \in Looping : p \notin {"finishing", "awaiting"}
  BY DEF Looping, Reporting
<1>5. Bare(Queued) => Lacks(Queued, "exit") /\ Lacks(Queued, "close") /\ Lacks(Queued, "frame")
  BY BareLacks DEF Controls
<1>6. ASSUME Queued' = Queued, UNCHANGED <<pc, why, todo, taken>> PROVE QueueInv'
  BY <1>2, <1>6 DEF QueueInv
<1>7. ASSUME NEW termination, Terminate(termination), pc \in Looping, termination = "Terminal" => pc # "pushing"
      PROVE  QueueInv'
  <2>1. Queued' = Queued /\ pc' = "finishing" /\ taken' = taken /\ todo' = todo /\ why' = termination
    BY <1>3, <1>7 DEF Terminate
  <2>2. Bare(Queued) /\ (termination = "Terminal" => Upto(Queued, taken))
    BY <1>2, <1>4, <1>7
  <2>3. QED
    BY <1>2, <1>4, <1>5, <2>1, <2>2 DEF QueueInv, Looping
<1>8. ASSUME Queued' = Queued, pc \in Looping \ {"pushing"}, pc' \in Looping \ {"pushing"},
             UNCHANGED <<why, todo, taken>>
      PROVE  QueueInv'
  BY <1>2, <1>4, <1>5, <1>8 DEF QueueInv
<1>9. CASE Cancelled \/ Settle \/ AwaitClose
  BY <1>7, <1>9 DEF Cancelled, Settle, AwaitClose, Looping
<1>10. CASE TakeMessage
  <2>1. CASE Terminate(Head(inbound))
    BY <1>7, <1>10, <2>1 DEF TakeMessage, Looping
  <2>2. CASE ~Terminate(Head(inbound))
    BY <1>3, <1>8, <1>10, <2>2 DEF TakeMessage, Looping
  <2>3. QED
    BY <2>1, <2>2
<1>11. CASE Write \/ RequestClose
  <2>1. CASE Terminate("InternalFailure")
    BY <1>7, <1>11, <2>1 DEF Write, RequestClose, Looping
  <2>2. CASE ~Terminate("InternalFailure")
    BY <1>3, <1>8, <1>11, <2>2 DEF Write, RequestClose, Looping
  <2>3. QED
    BY <2>1, <2>2
<1>12. CASE TakeOutput
  <2>1. CASE Terminate("Terminal")
    BY <1>7, <1>12, <2>1 DEF TakeOutput, Looping
  <2>2. CASE ~Terminate("Terminal")
    <3>1. Queued' = Queued /\ pc = "loop" /\ pc' = "pushing" /\ taken' = taken + 1 /\ UNCHANGED <<why, todo>>
      BY <1>3, <1>12, <2>2 DEF TakeOutput
    <3>2. taken' - 1 = taken /\ why = None /\ why # "Terminal"
      BY <1>3, <3>1, NoneAssumption DEF BridgeTypes, Looping
    <3>3. Upto(Queued, taken) /\ Bare(Queued)
      BY <1>2, <1>4, <3>1 DEF Looping
    <3>4. QED
      BY <1>2, <1>4, <1>5, <3>1, <3>2, <3>3 DEF QueueInv, Looping
  <2>3. QED
    BY <2>1, <2>2
<1>13. CASE Push
  <2>1. CASE \E termination \in {"Transport", "Backpressured"} : Terminate(termination)
    BY <1>7, <1>13, <2>1 DEF Push, Looping
  <2>2. CASE pc' = "loop" /\ outbound' = Append(outbound, Out(taken))
             /\ UNCHANGED <<why, todo, readerVars, writerVars, sessionVars, cancel, stop, link>>
    <3>1. pc = "pushing" /\ Bare(Queued) /\ Upto(Queued, taken - 1) /\ why = None /\ why # "Terminal"
      BY <1>2, <1>4, <1>13, NoneAssumption DEF Push, Looping, BridgeTypes
    <3>2. taken \in Nat \ {0} /\ Out(taken) \in Frames
      BY <3>1, BridgeNaturals, FramesAre DEF BridgeTypes
    <3>3. IsOut(Out(taken)) /\ Out(taken)[2] = taken
      BY FramesDiffer
    <3>4. \A i \in 1..Len(Queued) : MayFollow(Queued[i], Out(taken))
      BY <3>1, BareLacks
    <3>5. Queued' = Append(Queued, Out(taken)) /\ Ordered(Queued') /\ Gapless(Queued')
      BY <1>1, <1>2, <2>2, <3>1, <3>2, <3>3, <3>4, QueueGrows
    <3>6. Upto(Queued', taken) /\ Bare(Queued')
      BY <1>3, <3>1, <3>2, <3>3, <3>5, UptoAppend
    <3>7. Lacks(Queued', "exit")
      BY <3>6, BareLacks DEF Controls
    <3>8. QED
      BY <1>4, <2>2, <3>1, <3>5, <3>6, <3>7 DEF QueueInv, Looping
  <2>3. QED
    BY <1>13, <2>1, <2>2 DEF Push
<1>14. CASE Finish
  <2>1. Queued' = Queued /\ pc = "finishing" /\ pc' \in {"joining", "awaiting"} /\ UNCHANGED <<why, todo, taken>>
    BY <1>3, <1>14 DEF Finish
  <2>2. Bare(Queued) /\ pc' \notin Looping /\ pc' # "reporting" /\ pc' # "pushing"
    BY <1>2, <1>4, <2>1 DEF Looping
  <2>3. QED
    BY <1>2, <2>1, <2>2 DEF QueueInv
<1>15. CASE Awaited
  <2>1. Queued' = Queued /\ pc = "awaiting" /\ pc' \in {"joining", "reporting"} /\ UNCHANGED <<why, taken>>
    BY <1>3, <1>15 DEF Awaited
  <2>2. Bare(Queued) /\ pc' \notin Looping /\ pc' # "pushing" /\ pc' \in Reporting
    BY <1>2, <1>4, <2>1 DEF Looping, Reporting
  <2>3. QED
    BY <1>2, <1>5, <2>1, <2>2 DEF QueueInv
<1>16. CASE Report
  <2>0. pc = "reporting" /\ UNCHANGED <<why, taken, writer, frame, sent>>
    BY <1>16 DEF Report
  <2>1. CASE pc' = "leaving" /\ UNCHANGED outbound
    <3>1. Queued' = Queued /\ pc' \in Reporting /\ pc' \notin Looping /\ pc' # "reporting" /\ pc' # "pushing"
      BY <1>3, <2>0, <2>1 DEF Reporting, Looping
    <3>2. QED
      BY <1>2, <2>0, <3>1 DEF QueueInv
  <2>2. CASE todo # <<>> /\ outbound' = Append(outbound, Ctl(Head(todo))) /\ todo' = Tail(todo) /\ UNCHANGED pc
    <3> DEFINE k == Head(todo)
               f == Ctl(Head(todo))
    <3>1. k \in Controls \ {"pong"} /\ f \in Frames /\ ~IsOut(f)
      <4>1. k \in {"exit", "error", "close", "frame"}
        BY <2>2, ReportsAre DEF BridgeTypes
      <4>2. QED
        BY <4>1, FramesAre, FramesDiffer DEF Controls
    <3>2. /\ k \in {"exit", "error"} => todo \in {<<"exit", "close", "frame">>, <<"error", "close", "frame">>}
                                        /\ todo' = <<"close", "frame">> /\ (k = "exit" => why = "Terminal")
          /\ k = "close" => todo = <<"close", "frame">> /\ todo' = <<"frame">>
          /\ k = "frame" => todo = <<"frame">> /\ todo' = <<>>
      BY <2>2, ReportsAre DEF BridgeTypes, SentInv
    <3>3. /\ <<"close", "frame">> \notin {<<"exit", "close", "frame">>, <<"error", "close", "frame">>, <<"frame">>, <<>>}
          /\ <<"frame">> \notin {<<"exit", "close", "frame">>, <<"error", "close", "frame">>, <<>>}
          /\ <<>> \notin {<<"exit", "close", "frame">>, <<"error", "close", "frame">>}
      OBVIOUS
    <3>4. \A l \in Controls : Ctl(l) = f => l = k
      BY <3>1, FramesDiffer
    <3>5. \A i \in 1..Len(Queued) : MayFollow(Queued[i], f)
      <4>1. CASE k \in {"exit", "error"}
        BY <1>2, <2>0, <3>2, <4>1, BareLacks
      <4>2. CASE k = "close"
        BY <1>2, <2>0, <3>2, <4>2 DEF Lacks, MayFollow
      <4>3. CASE k = "frame"
        BY <1>2, <2>0, <3>2, <4>3 DEF Lacks, MayFollow
      <4>4. QED
        BY <3>1, <4>1, <4>2, <4>3 DEF Controls
    <3>6. Queued' = Append(Queued, f) /\ Ordered(Queued') /\ Gapless(Queued')
      BY <1>1, <1>2, <2>0, <2>2, <3>1, <3>5, QueueGrows
    <3>7. /\ \A l : Lacks(Queued, l) /\ f # Ctl(l) => Lacks(Queued', l)
          /\ Upto(Queued, taken) => Upto(Queued', taken)
      BY <1>3, <3>1, <3>6, UptoAppend
    <3> HIDE DEF k, f
    <3>8. k \in {"exit", "error"} => Lacks(Queued', "close") /\ Lacks(Queued', "frame")
      BY <1>2, <1>5, <2>0, <3>2, <3>4, <3>7 DEF Controls
    <3>9. k = "close" => Lacks(Queued', "frame")
      BY <1>2, <2>0, <3>2, <3>4, <3>7 DEF Controls
    <3>10. ~Lacks(Queued', "exit") => why = "Terminal"
      BY <1>2, <3>2, <3>4, <3>7 DEF Controls
    <3>11. pc' = "reporting" /\ pc' \in Reporting /\ pc' \notin Looping /\ pc' # "pushing"
      BY <1>4, <2>0, <2>2
    <3>12. /\ todo' \in {<<"exit", "close", "frame">>, <<"error", "close", "frame">>} => Bare(Queued')
           /\ todo' = <<"close", "frame">> => Lacks(Queued', "close") /\ Lacks(Queued', "frame")
           /\ todo' = <<"frame">> => Lacks(Queued', "frame")
      BY <3>1, <3>2, <3>3, <3>8, <3>9 DEF Controls
    <3>13. QED
      BY <1>2, <2>0, <3>6, <3>7, <3>10, <3>11, <3>12 DEF QueueInv
  <2>3. QED
    BY <1>16, <2>1, <2>2 DEF Report
<1>17. CASE Leave \/ Join
  <2>1. Queued' = Queued
    BY <1>3, <1>17 DEF Leave, Join, Alive
  <2>2. pc' \in Reporting /\ pc' \notin Looping /\ pc' # "reporting" /\ pc' # "pushing" /\ UNCHANGED <<why, taken>>
    BY <1>17 DEF Leave, Join, Reporting, Looping
  <2>3. QED
    BY <1>2, <2>1, <2>2 DEF QueueInv
<1>18. CASE ReaderPongs
  <2>1. outbound' = Append(outbound, Ctl("pong")) /\ UNCHANGED <<pc, why, todo, taken, writer, frame, sent>>
    BY <1>18 DEF ReaderPongs
  <2>2. Ctl("pong") \in Frames /\ ~IsOut(Ctl("pong")) /\ \A l \in Controls : Ctl("pong") = Ctl(l) => l = "pong"
    BY FramesAre, FramesDiffer DEF Controls
  <2>3. \A i \in 1..Len(Queued) : MayFollow(Queued[i], Ctl("pong"))
    BY DEF MayFollow
  <2>4. Queued' = Append(Queued, Ctl("pong")) /\ Ordered(Queued') /\ Gapless(Queued')
    BY <1>1, <1>2, <2>1, <2>2, <2>3, QueueGrows
  <2>5. /\ \A l \in Controls \ {"pong"} : Lacks(Queued, l) => Lacks(Queued', l)
        /\ \A n \in Nat : Upto(Queued, n) => Upto(Queued', n)
        /\ Bare(Queued) => Bare(Queued')
    BY <1>3, <2>2, <2>4, UptoAppend
  <2>6. pc = "pushing" => taken - 1 \in Nat
    BY BridgeNaturals DEF BridgeTypes
  <2>7. QED
    BY <1>2, <1>3, <2>1, <2>4, <2>5, <2>6 DEF QueueInv, Controls
<1>19. CASE WriterTakes \/ WriterSends
  <2>1. Queued' = Queued
    BY <1>1, <1>19, QueuedAfter DEF WriterSends, Alive
  <2>2. QED
    BY <1>6, <1>19, <2>1 DEF WriterTakes, WriterSends
<1>20. CASE WriterFails \/ WriterStops \/ WriterCloses
  BY <1>20 DEF WriterFails, WriterStops, WriterCloses, Alive
<1>21. CASE ReaderForwards \/ ReaderLosesLink \/ ReaderStops
  BY <1>3, <1>6, <1>21 DEF ReaderForwards, ReaderLosesLink, ReaderStops
<1>22. ASSUME NEW m, ReaderReceives(m) PROVE QueueInv'
  BY <1>3, <1>6, <1>22 DEF ReaderReceives
<1>23. CASE SessionOutputs \/ SessionReadsCommand \/ SessionCloses \/ LinkBreaks
            \/ \E r \in Requests \cup {"ChildExited", "Timeout", "BackendFailure"} : SessionEnds(r)
  BY <1>3, <1>6, <1>23 DEF SessionOutputs, SessionReadsCommand, SessionCloses, LinkBreaks, SessionEnds
<1>24. CASE UNCHANGED vars
  BY <1>3, <1>6, <1>24
<1>25. QED
  BY <1>9, <1>10, <1>11, <1>12, <1>13, <1>14, <1>15, <1>16, <1>17, <1>18, <1>19, <1>20, <1>21, <1>22, <1>23,
     <1>24 DEF Next, BridgeNext, ReaderNext, WriterNext

\* At first nothing is queued and nothing has ended.
LEMMA BridgeInit == Init => BridgeTypes /\ EndInv /\ QueueInv /\ SentInv
<1> SUFFICES ASSUME Init PROVE BridgeTypes /\ EndInv /\ QueueInv /\ SentInv
  OBVIOUS
<1>1. BridgeTypes
  BY BridgeNaturals, BridgeAssumption DEF Init, BridgeTypes, Looping, Reports
<1>2. EndInv
  BY NoneAssumption DEF Init, EndInv, Reporting
<1>3. Queued = <<>>
  <2>1. sent \o outbound = <<>>
    BY ConcatEmptySeq DEF Init
  <2>2. QED
    BY <2>1 DEF Init, Queued
<1>4. Ordered(<<>>) /\ Gapless(<<>>) /\ Bare(<<>>) /\ Upto(<<>>, 0) /\ Lacks(<<>>, "exit")
  BY DEF Ordered, Gapless, Bare, Upto, Lacks
<1>5. QueueInv
  BY <1>3, <1>4 DEF QueueInv, Init, Reporting
<1>6. SentInv
  <2>1. sent = <<>> /\ Len(sent) = 0 /\ ~Sent("exit") /\ todo # <<"exit", "close", "frame">>
    BY DEF Init, Sent
  <2>2. QED
    BY <1>4, <2>1 DEF SentInv
<1>7. QED
  BY <1>1, <1>2, <1>5, <1>6

\* The inductive invariant of the bridge.
BridgeInv == BridgeTypes /\ EndInv /\ QueueInv /\ SentInv

\* What the runs check of the bridge follows from it.
LEMMA BridgeInvShows ==
  BridgeInv => TypeOK /\ SentInOrder /\ BridgeOutlivesSession /\ SilentClientGetsEverything
<1> SUFFICES ASSUME BridgeInv PROVE TypeOK /\ SentInOrder /\ BridgeOutlivesSession /\ SilentClientGetsEverything
  OBVIOUS
<1>1. TypeOK
  BY BridgeTypesAreTypes DEF BridgeInv
<1>2. DOMAIN sent = 1..Len(sent) /\ Len(sent) \in Nat
  BY DEF BridgeInv, BridgeTypes
<1>3. CloseIsLast
  <2>1. ASSUME NEW i \in 1..Len(sent), NEW j \in 1..Len(sent), i < j PROVE sent[i] # Ctl("frame") /\ MayFollow(sent[i], sent[j])
    <3>0. Len(sent) \in Nat
      BY <1>2
    <3>1. i # Len(sent)
      BY <2>1, <3>0
    <3>2. sent[i] # Ctl("frame")
      BY <3>1 DEF BridgeInv, SentInv
    <3>3. Ordered(sent)
      BY DEF BridgeInv, SentInv
    <3>4. QED
      BY <2>1, <3>2, <3>3 DEF Ordered
  <2>2. QED
    BY <1>2, <2>1 DEF CloseIsLast, MayFollow
<1>4. OutputHasNoGaps /\ SilentClientGetsEverything
  BY DEF BridgeInv, SentInv, OutputHasNoGaps, SilentClientGetsEverything
<1>5. BridgeOutlivesSession
  BY DEF BridgeInv, EndInv, BridgeOutlivesSession, Reporting
<1>6. QED
  BY <1>1, <1>3, <1>4, <1>5 DEF SentInOrder

-----------------------------------------------------------------------------
(* The bridge within its connection.                                       *)

\* What accept_upgrade does before it calls bridge is no step of the bridge, but for a
\* client that leaves.
LEMMA UpgradeStepsTheBridge == [UpgradeNext]_allVars => [Next]_vars
<1> SUFFICES ASSUME [UpgradeNext]_allVars PROVE [Next]_vars
  OBVIOUS
<1>1. CASE Bridged(Next) \/ ClientLeaves
  BY <1>1 DEF Bridged, ClientLeaves, Next
<1>2. CASE \/ UpgradeRequest \/ Ping \/ Tick \/ TooLarge \/ FirstBinary \/ ClientGone \/ Tell \/ SinkFails
           \/ UNCHANGED allVars
  BY <1>2 DEF UpgradeRequest, Ping, Tick, TooLarge, FirstBinary, ClientGone, Tell, SinkFails, Denies, allVars
<1>3. ASSUME NEW text \in Texts, FirstText(text) PROVE [Next]_vars
  <2>1. UNCHANGED vars
    BY <1>3 DEF FirstText, Denies
  <2>2. QED
    BY <2>1
<1>4. CASE Accept
  <2>1. UNCHANGED vars
    BY <1>4 DEF Accept, HandshakeTimesOut, RecordTicketDenial, Redeem, Start, SessionRefused, Denies,
       StartRefused, StartDenied, StartUnaudited, StartSucceeds
  <2>2. QED
    BY <2>1
<1>5. QED
  BY <1>1, <1>2, <1>3, <1>4 DEF UpgradeNext

\* The invariant of the bridge holds of every connection.
THEOREM BridgeInvariant == UpgradeSpec => []BridgeInv
<1>1. UpgradeInit => BridgeInv
  BY BridgeInit DEF UpgradeInit, BridgeInv
<1>2. BridgeInv /\ [UpgradeNext]_allVars => BridgeInv'
  BY UpgradeStepsTheBridge, BridgeTypesNext, EndInvNext, QueueInvNext, SentInvNext DEF BridgeInv
<1>3. QED
  BY <1>1, <1>2, PTL DEF UpgradeSpec

\* The frames the client receives are in order, whatever the reader, the session and
\* the bridge put into the queue and whenever: output without gaps, then what
\* finish_bridge reports, and nothing but pongs and the close frame behind the close.
THEOREM FramesInOrder == UpgradeSpec => []SentInOrder
  BY BridgeInvariant, BridgeInvShows, PTL

\* A bridge that has ended leaves a session that is closed and no task on the socket
\* (finish_bridge, join_task).
THEOREM NothingOutlivesTheBridge == UpgradeSpec => []BridgeOutlivesSession
  BY BridgeInvariant, BridgeInvShows, PTL

\* To a client that only listens an exit status comes behind all output the session
\* had queued (bridge, terminal_controls).
THEOREM ListenersHearAll == UpgradeSpec => []SilentClientGetsEverything
  BY BridgeInvariant, BridgeInvShows, PTL

-----------------------------------------------------------------------------
(* The texts of module Codec.                                               *)

\* An object whose fields are listed, none of them twice.
Proper(object) ==
    /\ Len(object.fields) \in Nat /\ DOMAIN object.fields = 1 .. Len(object.fields)
    /\ ~ Twice(object)

\* Get finds the field.
LEMMA GetAt ==
    ASSUME NEW object, Proper(object), NEW i \in DOMAIN object.fields
    PROVE  Get(object, object.fields[i].key) = object.fields[i].value
<1> DEFINE j == CHOOSE k \in DOMAIN object.fields : object.fields[k].key = object.fields[i].key
<1>1. j \in DOMAIN object.fields /\ object.fields[j].key = object.fields[i].key
  OBVIOUS
<1> HIDE DEF j
<1>2. i \in Nat /\ j \in Nat
  BY <1>1 DEF Proper
<1>3. ~ (i < j) /\ ~ (j < i)
  BY <1>1 DEF Proper, Twice
<1>4. i = j
  BY <1>2, <1>3
<1>5. QED
  BY <1>4 DEF Get, j

\* A proper object holds what Get finds under its keys, and nothing else.
LEMMA InsideIsGet ==
    ASSUME NEW object, object.is = "object", Proper(object)
    PROVE  /\ Inside(object) = {Get(object, key) : key \in Keys(object)}
           /\ \A key \in Keys(object) : Get(object, key) \in Inside(object)
<1>1. \A i \in DOMAIN object.fields : Get(object, object.fields[i].key) = object.fields[i].value
  BY GetAt
<1>2. QED
  BY <1>1 DEF Inside, Keys

-----------------------------------------------------------------------------
(* What the two readers ask of a text.                                      *)

\* What parse_control and parseControl both ask.
Parses(text) ==
    /\ text.bytes <= MAX_CONTROL_BYTES /\ text.unicode /\ text.whole
    /\ ~ DuplicateDetector(text.value) /\ text.value.is = "object"

\* parse_control and parseControl accept the same texts, but for lone surrogates.
LEMMA Parsed ==
    ASSUME NEW text
    PROVE  /\ parse_control(text).ok <=> Parses(text) /\ ~ Surrogates(text.value)
           /\ parse_control(text).ok => parse_control(text) = Ok(text.value)
           /\ parseControl(text).ok <=> Parses(text)
           /\ parseControl(text).ok => parseControl(text) = Ok(text.value)
<1>1. /\ parse_control(text).ok <=> Parses(text) /\ ~ Surrogates(text.value)
      /\ parse_control(text).ok => parse_control(text) = Ok(text.value)
  BY DEF parse_control, Require, Parses, Ok, Err
<1>2. /\ parseControl(text).ok <=> Parses(text)
      /\ parseControl(text).ok => parseControl(text) = Ok(text.value)
  BY DEF parseControl, Require, Parses, Ok, Err
<1>3. QED
  BY <1>1, <1>2

Typed(object) ==
    /\ {"version", "type"} \subseteq Keys(object) /\ Get(object, "version").value = PROTOCOL_VERSION
    /\ Get(object, "type").is = "string"

\* header and Header accept the same objects, but for how the version is written.
LEMMA Headed ==
    ASSUME NEW object
    PROVE  /\ header(object).ok <=> Typed(object) /\ as_u64(Get(object, "version"))
           /\ header(object).ok => header(object) = Ok(Get(object, "type"))
           /\ Header(object).ok <=> Typed(object) /\ isInteger(Get(object, "version"))
           /\ Header(object).ok => Header(object) = Ok(Get(object, "type"))
<1>1. /\ header(object).ok <=> Typed(object) /\ as_u64(Get(object, "version"))
      /\ header(object).ok => header(object) = Ok(Get(object, "type"))
  BY DEF header, string_field, Require, Typed, Ok, Err
<1>2. /\ Header(object).ok <=> Typed(object) /\ isInteger(Get(object, "version"))
      /\ Header(object).ok => Header(object) = Ok(Get(object, "type"))
  BY DEF Header, string_field, Require, Typed, Ok, Err
<1>3. QED
  BY <1>1, <1>2

-----------------------------------------------------------------------------
(* What the messages of the server look like.                               *)

\* An exit status, but for how its number is written.
StatusShape(value) ==
    /\ value.is = "object" /\ "kind" \in Keys(value) /\ Get(value, "kind").is = "string"
    /\ LET kind == Get(value, "kind").text
       IN  \/ kind = "unavailable" /\ Keys(value) = {"kind"}
           \/ /\ kind \in {"code", "signal"} /\ Keys(value) = {"kind", kind}
              /\ Get(value, kind).value \in StatusRange(kind)

StatusMeaning(value) ==
    LET kind == Get(value, "kind").text
    IN  [kind |-> kind, number |-> IF kind = "unavailable" THEN 0 ELSE Get(value, kind).value]

\* The number of a status, if it has one.
StatusNumber(value) == {Get(value, key) : key \in Keys(value) \ {"kind"}}

\* parse_exit_status accepts what has the shape, with integers written as such.
LEMMA StatusRead ==
    ASSUME NEW value
    PROVE  /\ parse_exit_status(value).ok <=>
                  StatusShape(value) /\ \A number \in StatusNumber(value) : as_u64(number)
           /\ parse_exit_status(value).ok => parse_exit_status(value) = Ok(StatusMeaning(value))
<1> DEFINE kind == Get(value, "kind")
<1>1. CASE ~ (value.is = "object" /\ "kind" \in Keys(value) /\ kind.is = "string")
  BY <1>1 DEF parse_exit_status, string_field, AndThen, Require, Ok, Err, StatusShape
<1>2. CASE value.is = "object" /\ "kind" \in Keys(value) /\ kind.is = "string"
  <2>1. parse_exit_status(value) =
            CASE kind.text \in {"code", "signal"} ->
                    exact_keys(value, {"kind", kind.text},
                    Require(/\ as_u64(Get(value, kind.text))
                            /\ Get(value, kind.text).value \in StatusRange(kind.text),
                            "invalid-field",
                            Ok([kind |-> kind.text, number |-> Get(value, kind.text).value])))
              [] kind.text = "unavailable" ->
                    exact_keys(value, {"kind"}, Ok([kind |-> "unavailable", number |-> 0]))
              [] OTHER -> Err("invalid-field")
    BY <1>2 DEF parse_exit_status, string_field, AndThen, Require, Ok
  <2>2. CASE kind.text \in {"code", "signal"}
    <3>1. parse_exit_status(value) =
              exact_keys(value, {"kind", kind.text},
              Require(/\ as_u64(Get(value, kind.text))
                      /\ Get(value, kind.text).value \in StatusRange(kind.text),
                      "invalid-field",
                      Ok([kind |-> kind.text, number |-> Get(value, kind.text).value])))
      BY <2>1, <2>2
    <3>2. kind.text # "kind" /\ kind.text # "unavailable"
      BY <2>2
    <3>3. Keys(value) = {"kind", kind.text} => StatusNumber(value) = {Get(value, kind.text)}
      BY <3>2 DEF StatusNumber
    <3>4. StatusMeaning(value) = [kind |-> kind.text, number |-> Get(value, kind.text).value]
      BY <3>2 DEF StatusMeaning
    <3>5. StatusShape(value) <=>
              Keys(value) = {"kind", kind.text} /\ Get(value, kind.text).value \in StatusRange(kind.text)
      BY <1>2, <2>2, <3>2 DEF StatusShape
    <3> HIDE DEF kind
    <3>6. CASE Keys(value) # {"kind", kind.text}
      BY <3>1, <3>5, <3>6 DEF exact_keys, Require, Err
    <3>7. CASE Keys(value) = {"kind", kind.text}
      <4>1. (\A number \in StatusNumber(value) : as_u64(number)) <=> as_u64(Get(value, kind.text))
        BY <3>3, <3>7, Zenon
      <4>2. parse_exit_status(value) =
                Require(/\ as_u64(Get(value, kind.text))
                        /\ Get(value, kind.text).value \in StatusRange(kind.text),
                        "invalid-field", Ok(StatusMeaning(value)))
        BY <3>1, <3>4, <3>7 DEF exact_keys, Require
      <4>3. QED
        BY <3>5, <3>7, <4>1, <4>2 DEF Require, Ok, Err, as_u64
    <3>8. QED
      BY <3>6, <3>7
  <2>3. CASE kind.text = "unavailable"
    <3>1. parse_exit_status(value) = exact_keys(value, {"kind"}, Ok([kind |-> "unavailable", number |-> 0]))
      BY <2>1, <2>3
    <3>2. Keys(value) = {"kind"} => StatusNumber(value) = {}
      BY DEF StatusNumber
    <3>3. StatusMeaning(value) = [kind |-> "unavailable", number |-> 0]
      BY <2>3 DEF StatusMeaning
    <3>4. StatusShape(value) <=> Keys(value) = {"kind"}
      BY <1>2, <2>3 DEF StatusShape
    <3> HIDE DEF kind
    <3>5. CASE Keys(value) # {"kind"}
      BY <3>1, <3>4, <3>5 DEF exact_keys, Require, Err
    <3>6. CASE Keys(value) = {"kind"}
      <4>1. parse_exit_status(value) = Ok(StatusMeaning(value))
        BY <3>1, <3>3, <3>6 DEF exact_keys, Require
      <4>2. QED
        BY <3>2, <3>4, <3>6, <4>1 DEF Ok
    <3>7. QED
      BY <3>5, <3>6
  <2>4. CASE kind.text \notin {"code", "signal", "unavailable"}
    <3>1. parse_exit_status(value) = Err("invalid-field")
      BY <2>1, <2>4
    <3>2. QED
      BY <2>4, <3>1 DEF StatusShape, Err
  <2>5. QED
    BY <2>2, <2>3, <2>4
<1>3. QED
  BY <1>1, <1>2

\* parseExitStatus, likewise.
LEMMA StatusReadByPage ==
    ASSUME NEW value
    PROVE  /\ parseExitStatus(value).ok <=>
                  StatusShape(value) /\ \A number \in StatusNumber(value) : isInteger(number)
           /\ parseExitStatus(value).ok => parseExitStatus(value) = Ok(StatusMeaning(value))
<1> DEFINE kind == Get(value, "kind")
<1>1. CASE ~ (value.is = "object" /\ "kind" \in Keys(value) /\ kind.is = "string")
  BY <1>1 DEF parseExitStatus, string_field, AndThen, Require, Ok, Err, StatusShape
<1>2. CASE value.is = "object" /\ "kind" \in Keys(value) /\ kind.is = "string"
  <2>1. parseExitStatus(value) =
            CASE kind.text \in {"code", "signal"} ->
                    exact_keys(value, {"kind", kind.text},
                    Require(/\ isInteger(Get(value, kind.text))
                            /\ Get(value, kind.text).value \in StatusRange(kind.text),
                            "invalid-field",
                            Ok([kind |-> kind.text, number |-> Get(value, kind.text).value])))
              [] kind.text = "unavailable" ->
                    exact_keys(value, {"kind"}, Ok([kind |-> "unavailable", number |-> 0]))
              [] OTHER -> Err("invalid-field")
    BY <1>2 DEF parseExitStatus, string_field, AndThen, Require, Ok
  <2>2. CASE kind.text \in {"code", "signal"}
    <3>1. parseExitStatus(value) =
              exact_keys(value, {"kind", kind.text},
              Require(/\ isInteger(Get(value, kind.text))
                      /\ Get(value, kind.text).value \in StatusRange(kind.text),
                      "invalid-field",
                      Ok([kind |-> kind.text, number |-> Get(value, kind.text).value])))
      BY <2>1, <2>2
    <3>2. kind.text # "kind" /\ kind.text # "unavailable"
      BY <2>2
    <3>3. Keys(value) = {"kind", kind.text} => StatusNumber(value) = {Get(value, kind.text)}
      BY <3>2 DEF StatusNumber
    <3>4. StatusMeaning(value) = [kind |-> kind.text, number |-> Get(value, kind.text).value]
      BY <3>2 DEF StatusMeaning
    <3>5. StatusShape(value) <=>
              Keys(value) = {"kind", kind.text} /\ Get(value, kind.text).value \in StatusRange(kind.text)
      BY <1>2, <2>2, <3>2 DEF StatusShape
    <3> HIDE DEF kind
    <3>6. CASE Keys(value) # {"kind", kind.text}
      BY <3>1, <3>5, <3>6 DEF exact_keys, Require, Err
    <3>7. CASE Keys(value) = {"kind", kind.text}
      <4>1. (\A number \in StatusNumber(value) : isInteger(number)) <=> isInteger(Get(value, kind.text))
        BY <3>3, <3>7, Zenon
      <4>2. parseExitStatus(value) =
                Require(/\ isInteger(Get(value, kind.text))
                        /\ Get(value, kind.text).value \in StatusRange(kind.text),
                        "invalid-field", Ok(StatusMeaning(value)))
        BY <3>1, <3>4, <3>7 DEF exact_keys, Require
      <4>3. QED
        BY <3>5, <3>7, <4>1, <4>2 DEF Require, Ok, Err, isInteger
    <3>8. QED
      BY <3>6, <3>7
  <2>3. CASE kind.text = "unavailable"
    <3>1. parseExitStatus(value) = exact_keys(value, {"kind"}, Ok([kind |-> "unavailable", number |-> 0]))
      BY <2>1, <2>3
    <3>2. Keys(value) = {"kind"} => StatusNumber(value) = {}
      BY DEF StatusNumber
    <3>3. StatusMeaning(value) = [kind |-> "unavailable", number |-> 0]
      BY <2>3 DEF StatusMeaning
    <3>4. StatusShape(value) <=> Keys(value) = {"kind"}
      BY <1>2, <2>3 DEF StatusShape
    <3> HIDE DEF kind
    <3>5. CASE Keys(value) # {"kind"}
      BY <3>1, <3>4, <3>5 DEF exact_keys, Require, Err
    <3>6. CASE Keys(value) = {"kind"}
      <4>1. parseExitStatus(value) = Ok(StatusMeaning(value))
        BY <3>1, <3>3, <3>6 DEF exact_keys, Require
      <4>2. QED
        BY <3>2, <3>4, <3>6, <4>1 DEF Ok
    <3>7. QED
      BY <3>5, <3>6
  <2>4. CASE kind.text \notin {"code", "signal", "unavailable"}
    <3>1. parseExitStatus(value) = Err("invalid-field")
      BY <2>1, <2>4
    <3>2. QED
      BY <2>4, <3>1 DEF StatusShape, Err
  <2>5. QED
    BY <2>2, <2>3, <2>4
<1>3. QED
  BY <1>1, <1>2

\* A message of the server, but for how its numbers are written.
ServerShape(object) ==
    LET type == Get(object, "type").text
    IN  \/ /\ type = "exit-status" /\ Keys(object) = {"version", "type", "status"}
           /\ StatusShape(Get(object, "status"))
        \/ /\ type = "error" /\ Keys(object) = {"version", "type", "code", "message"}
           /\ Get(object, "code").is = "string" /\ Get(object, "message").is = "string"
           /\ valid_error_code(Get(object, "code")) /\ valid_error_message(Get(object, "message"))
        \/ /\ type = "close" /\ Keys(object) = {"version", "type", "reason"}
           /\ Get(object, "reason").is = "string" /\ Get(object, "reason").text \in CloseReasons

ServerMeaning(object) ==
    LET type == Get(object, "type").text
    IN  CASE type = "exit-status" ->
                [type |-> "exit-status", status |-> StatusMeaning(Get(object, "status"))]
          [] type = "error" ->
                [type |-> "error", code |-> Get(object, "code"), message |-> Get(object, "message")]
          [] type = "close" -> [type |-> "close", reason |-> Get(object, "reason").text]

\* The numbers of a message of the server.
ServerNumbers(object) ==
    {Get(object, "version")} \cup
    IF Get(object, "type").text = "exit-status" THEN StatusNumber(Get(object, "status")) ELSE {}

\* decode_server_control accepts what has the shape, no lone surrogate and integers
\* written as such.
LEMMA ServerRead ==
    ASSUME NEW text
    PROVE  LET object == text.value
               rust == decode_server_control(text)
           IN  /\ rust.ok <=> /\ Parses(text) /\ ~ Surrogates(object) /\ Typed(object)
                              /\ ServerShape(object)
                              /\ \A number \in ServerNumbers(object) : as_u64(number)
               /\ rust.ok => rust = Ok(ServerMeaning(object))
<1> DEFINE object == text.value
           rust == decode_server_control(text)
           type == Get(object, "type").text
           Reads == Typed(object) /\ as_u64(Get(object, "version"))
<1>1. CASE ~ (Parses(text) /\ ~ Surrogates(object))
  <2>1. ~ parse_control(text).ok
    BY <1>1, Parsed
  <2>2. ~ rust.ok
    BY <2>1 DEF decode_server_control, AndThen
  <2>3. QED
    BY <1>1, <2>2
<1>2. CASE Parses(text) /\ ~ Surrogates(object) /\ ~ Reads
  <2>1. parse_control(text) = Ok(object) /\ ~ header(object).ok
    BY <1>2, Parsed, Headed
  <2>2. ~ rust.ok
    BY <2>1 DEF decode_server_control, AndThen, Ok
  <2>3. QED
    BY <1>2, <2>2 DEF ServerNumbers
<1>3. CASE Parses(text) /\ ~ Surrogates(object) /\ Reads
  <2>1. parse_control(text) = Ok(object) /\ header(object) = Ok(Get(object, "type"))
    BY <1>3, Parsed, Headed
  <2>2. CASE type = "exit-status"
    <3>1. rust = exact_keys(object, {"version", "type", "status"},
                 AndThen(parse_exit_status(Get(object, "status")), LAMBDA status :
                         Ok([type |-> "exit-status", status |-> status])))
      BY <2>1, <2>2 DEF decode_server_control, AndThen, Ok
    <3>2. CASE Keys(object) # {"version", "type", "status"}
      BY <2>2, <3>1, <3>2 DEF exact_keys, Require, Err, ServerShape
    <3>3. CASE Keys(object) = {"version", "type", "status"}
      <4> DEFINE status == parse_exit_status(Get(object, "status"))
      <4>1. ServerShape(object) <=> StatusShape(Get(object, "status"))
        BY <2>2, <3>3 DEF ServerShape
      <4>2. (\A number \in ServerNumbers(object) : as_u64(number)) <=>
                \A number \in StatusNumber(Get(object, "status")) : as_u64(number)
        BY <1>3, <2>2, Zenon DEF ServerNumbers
      <4>3. rust = AndThen(status, LAMBDA s : Ok([type |-> "exit-status", status |-> s]))
        BY <3>1, <3>3 DEF exact_keys, Require
      <4>4. CASE status.ok
        <5>1. status = Ok(StatusMeaning(Get(object, "status")))
          BY <4>4, StatusRead
        <5>2. ServerMeaning(object) =
                  [type |-> "exit-status", status |-> StatusMeaning(Get(object, "status"))]
          BY <2>2 DEF ServerMeaning
        <5> HIDE DEF object, rust, status
        <5>3. rust = Ok(ServerMeaning(object))
          BY <4>3, <5>1, <5>2 DEF AndThen, Ok
        <5>4. QED
          BY <1>3, <4>1, <4>2, <4>4, <5>3, StatusRead DEF Ok, object, rust, status
      <4>5. CASE ~ status.ok
        <5>1. ~ rust.ok
          BY <4>3, <4>5 DEF AndThen
        <5>2. QED
          BY <4>1, <4>2, <4>5, <5>1, StatusRead
      <4>6. QED
        BY <4>4, <4>5
    <3>4. QED
      BY <3>2, <3>3
  <2>3. CASE type = "error"
    <3>1. rust = exact_keys(object, {"version", "type", "code", "message"},
                 AndThen(string_field(object, "code"), LAMBDA code :
                 AndThen(string_field(object, "message"), LAMBDA message :
                         ErrorMessage(code, message))))
      BY <2>1, <2>3 DEF decode_server_control, AndThen, Ok
    <3>2. ServerNumbers(object) = {Get(object, "version")}
      BY <2>3 DEF ServerNumbers
    <3>3. CASE Keys(object) # {"version", "type", "code", "message"}
      BY <2>3, <3>1, <3>3 DEF exact_keys, Require, Err, ServerShape
    <3>4. CASE Keys(object) = {"version", "type", "code", "message"}
      <4> DEFINE code == Get(object, "code")
                 message == Get(object, "message")
      <4>1. ServerShape(object) <=> /\ code.is = "string" /\ message.is = "string"
                                    /\ valid_error_code(code) /\ valid_error_message(message)
        BY <2>3, <3>4 DEF ServerShape
      <4>2. ServerMeaning(object) = [type |-> "error", code |-> code, message |-> message]
        BY <2>3 DEF ServerMeaning
      <4> HIDE DEF code, message
      <4>3. rust = AndThen(string_field(object, "code"), LAMBDA c :
                   AndThen(string_field(object, "message"), LAMBDA m : ErrorMessage(c, m)))
        BY <3>1, <3>4 DEF exact_keys, Require
      <4>4. CASE ~ ServerShape(object)
        <5>1. ~ rust.ok
          BY <3>4, <4>1, <4>3, <4>4 DEF string_field, ErrorMessage, AndThen, Require, Ok, Err, code, message
        <5>2. QED
          BY <4>4, <5>1
      <4>5. CASE ServerShape(object)
        <5>1. rust = Ok(ServerMeaning(object))
          BY <3>4, <4>1, <4>2, <4>3, <4>5 DEF string_field, ErrorMessage, AndThen, Require, Ok, Err, code, message
        <5>2. QED
          BY <1>3, <3>2, <4>5, <5>1 DEF Ok
      <4>6. QED
        BY <4>4, <4>5
    <3>5. QED
      BY <3>3, <3>4
  <2>4. CASE type = "close"
    <3>1. rust = Require(Keys(object) # {"version", "type"}, "invalid-direction",
                 exact_keys(object, {"version", "type", "reason"},
                 AndThen(string_field(object, "reason"), LAMBDA reason :
                 Require(reason.text \in CloseReasons, "invalid-field",
                         Ok([type |-> "close", reason |-> reason.text])))))
      BY <2>1, <2>4 DEF decode_server_control, AndThen, Ok
    <3>2. ServerNumbers(object) = {Get(object, "version")}
      BY <2>4 DEF ServerNumbers
    <3>3. CASE Keys(object) # {"version", "type", "reason"}
      <4> DEFINE then == AndThen(string_field(object, "reason"), LAMBDA reason :
                         Require(reason.text \in CloseReasons, "invalid-field",
                                 Ok([type |-> "close", reason |-> reason.text])))
                 keys == Keys(object)
      <4>1. ~ rust.ok
        <5>1. rust = Require(keys # {"version", "type"}, "invalid-direction",
                             exact_keys(object, {"version", "type", "reason"}, then))
          BY <3>1
        <5>2. ~ ({"version", "type", "reason"} \subseteq keys /\ keys \subseteq {"version", "type", "reason"})
          BY <3>3
        <5> HIDE DEF then, rust, object
        <5>3. ~ exact_keys(object, {"version", "type", "reason"}, then).ok
          BY <5>2 DEF exact_keys, Require, Err
        <5> HIDE DEF keys
        <5>4. QED
          BY <5>1, <5>3 DEF Require, Err
      <4>2. ~ ServerShape(object)
        BY <2>4, <3>3 DEF ServerShape
      <4>3. QED
        BY <4>1, <4>2
    <3>4. CASE Keys(object) = {"version", "type", "reason"}
      <4> DEFINE reason == Get(object, "reason")
      <4>1. ServerShape(object) <=> reason.is = "string" /\ reason.text \in CloseReasons
        BY <2>4, <3>4 DEF ServerShape
      <4>2. ServerMeaning(object) = [type |-> "close", reason |-> reason.text]
        BY <2>4 DEF ServerMeaning
      <4> HIDE DEF reason
      <4>3. rust = AndThen(string_field(object, "reason"), LAMBDA r :
                   Require(r.text \in CloseReasons, "invalid-field",
                           Ok([type |-> "close", reason |-> r.text])))
        BY <3>1, <3>4 DEF exact_keys, Require
      <4>4. CASE ~ ServerShape(object)
        <5>1. ~ rust.ok
          BY <3>4, <4>1, <4>3, <4>4 DEF string_field, AndThen, Require, Ok, Err, reason
        <5>2. QED
          BY <4>4, <5>1
      <4>5. CASE ServerShape(object)
        <5>1. rust = Ok(ServerMeaning(object))
          BY <3>4, <4>1, <4>2, <4>3, <4>5 DEF string_field, AndThen, Require, Ok, Err, reason
        <5>2. QED
          BY <1>3, <3>2, <4>5, <5>1 DEF Ok
      <4>6. QED
        BY <4>4, <4>5
    <3>5. QED
      BY <3>3, <3>4
  <2>5. CASE type \notin {"exit-status", "error", "close"}
    <3>1. ~ rust.ok
      BY <2>1, <2>5 DEF decode_server_control, AndThen, Ok, Err
    <3>2. QED
      BY <2>5, <3>1 DEF ServerShape
  <2>6. QED
    BY <2>2, <2>3, <2>4, <2>5
<1>4. QED
  BY <1>1, <1>2, <1>3

\* The page also refuses an error whose message has a lone surrogate.
Writable(object) ==
    Get(object, "type").text = "error" => "surrogate" \notin Get(object, "message").chars

\* Two fields do not have three keys.
LEMMA TwoFields ==
    ASSUME NEW object, DOMAIN object.fields = 1 .. Len(object.fields),
           Keys(object) = {"version", "type", "reason"}
    PROVE  Len(object.fields) # 2
<1>1. SUFFICES ASSUME Len(object.fields) = 2 PROVE FALSE
  OBVIOUS
<1>2. DOMAIN object.fields = {1, 2}
  BY <1>1
<1> DEFINE a == object.fields[1].key
           b == object.fields[2].key
<1>3. \A key \in Keys(object) : key = a \/ key = b
  BY <1>2 DEF Keys
<1> HIDE DEF a, b
<1>4. /\ "version" = a \/ "version" = b
      /\ "type" = a \/ "type" = b
      /\ "reason" = a \/ "reason" = b
  BY <1>3
<1>5. QED
  BY <1>4

\* decodeServerControl accepts what has the shape, and any way to write an integer;
\* of lone surrogates it sees the ones in the message of an error.
LEMMA PageRead ==
    ASSUME NEW text, IsText(text)
    PROVE  LET object == text.value
               page == decodeServerControl(text)
           IN  /\ page.ok <=> /\ Parses(text) /\ Typed(object)
                              /\ ServerShape(object) /\ Writable(object)
                              /\ \A number \in ServerNumbers(object) : isInteger(number)
               /\ page.ok => page = Ok(ServerMeaning(object))
<1> DEFINE object == text.value
           page == decodeServerControl(text)
           type == Get(object, "type").text
           Reads == Typed(object) /\ isInteger(Get(object, "version"))
<1>1. CASE ~ Parses(text)
  <2>1. ~ parseControl(text).ok
    BY <1>1, Parsed
  <2>2. ~ page.ok
    BY <2>1 DEF decodeServerControl, AndThen
  <2>3. QED
    BY <1>1, <2>2
<1>2. CASE Parses(text) /\ ~ Reads
  <2>1. parseControl(text) = Ok(object) /\ ~ Header(object).ok
    BY <1>2, Parsed, Headed
  <2>2. ~ page.ok
    BY <2>1 DEF decodeServerControl, AndThen, Ok
  <2>3. QED
    BY <1>2, <2>2 DEF ServerNumbers
<1>3. CASE Parses(text) /\ Reads
  <2>1. parseControl(text) = Ok(object) /\ Header(object) = Ok(Get(object, "type"))
    BY <1>3, Parsed, Headed
  <2>2. CASE type = "exit-status"
    <3>1. page = exact_keys(object, {"version", "type", "status"},
                 AndThen(parseExitStatus(Get(object, "status")), LAMBDA status :
                         Ok([type |-> "exit-status", status |-> status])))
      BY <2>1, <2>2 DEF decodeServerControl, AndThen, Ok
    <3>2. CASE Keys(object) # {"version", "type", "status"}
      BY <2>2, <3>1, <3>2 DEF exact_keys, Require, Err, ServerShape
    <3>3. CASE Keys(object) = {"version", "type", "status"}
      <4> DEFINE status == parseExitStatus(Get(object, "status"))
      <4>1. ServerShape(object) <=> StatusShape(Get(object, "status"))
        BY <2>2, <3>3 DEF ServerShape
      <4>2. Writable(object)
        BY <2>2 DEF Writable
      <4>3. (\A number \in ServerNumbers(object) : isInteger(number)) <=>
                \A number \in StatusNumber(Get(object, "status")) : isInteger(number)
        BY <1>3, <2>2, Zenon DEF ServerNumbers
      <4>4. page = AndThen(status, LAMBDA s : Ok([type |-> "exit-status", status |-> s]))
        BY <3>1, <3>3 DEF exact_keys, Require
      <4>5. CASE status.ok
        <5>1. status = Ok(StatusMeaning(Get(object, "status")))
          BY <4>5, StatusReadByPage
        <5>2. ServerMeaning(object) =
                  [type |-> "exit-status", status |-> StatusMeaning(Get(object, "status"))]
          BY <2>2 DEF ServerMeaning
        <5> HIDE DEF object, page, status
        <5>3. page = Ok(ServerMeaning(object))
          BY <4>4, <5>1, <5>2 DEF AndThen, Ok
        <5>4. QED
          BY <1>3, <4>1, <4>3, <4>5, <4>2, <5>3, StatusReadByPage DEF Ok, object, page, status
      <4>6. CASE ~ status.ok
        <5>1. ~ page.ok
          BY <4>4, <4>6 DEF AndThen
        <5>2. QED
          BY <4>1, <4>3, <4>6, <5>1, StatusReadByPage
      <4>7. QED
        BY <4>5, <4>6
    <3>4. QED
      BY <3>2, <3>3
  <2>3. CASE type = "error"
    <3>1. page = exact_keys(object, {"version", "type", "code", "message"},
                 AndThen(string_field(object, "code"), LAMBDA code :
                 AndThen(string_field(object, "message"), LAMBDA message :
                 Require(validateError(code, message), "invalid-field",
                         Ok([type |-> "error", code |-> code, message |-> message])))))
      BY <2>1, <2>3 DEF decodeServerControl, AndThen, Ok
    <3>2. ServerNumbers(object) = {Get(object, "version")}
      BY <2>3 DEF ServerNumbers
    <3>3. CASE Keys(object) # {"version", "type", "code", "message"}
      <4> DEFINE then == AndThen(string_field(object, "code"), LAMBDA code :
                         AndThen(string_field(object, "message"), LAMBDA message :
                         Require(validateError(code, message), "invalid-field",
                                 Ok([type |-> "error", code |-> code, message |-> message]))))
      <4>1. page = exact_keys(object, {"version", "type", "code", "message"}, then)
        BY <3>1
      <4> HIDE DEF then
      <4>2. ~ page.ok
        BY <3>3, <4>1 DEF exact_keys, Require, Err
      <4>3. ~ ServerShape(object)
        BY <2>3, <3>3 DEF ServerShape
      <4>4. QED
        BY <4>2, <4>3
    <3>4. CASE Keys(object) = {"version", "type", "code", "message"}
      <4> DEFINE code == Get(object, "code")
                 message == Get(object, "message")
                 Good == /\ code.is = "string" /\ message.is = "string"
                         /\ validateError(code, message)
      <4>1. ServerShape(object) /\ Writable(object) <=> Good
        <5>1. ServerShape(object) <=> /\ code.is = "string" /\ message.is = "string"
                                      /\ valid_error_code(code) /\ valid_error_message(message)
          BY <2>3, <3>4 DEF ServerShape
        <5>2. Writable(object) <=> "surrogate" \notin message.chars
          BY <2>3 DEF Writable
        <5> HIDE DEF code, message
        <5>3. validateError(code, message) <=> /\ valid_error_code(code) /\ valid_error_message(message)
                                               /\ "surrogate" \notin message.chars
          BY DEF validateError, valid_error_code, valid_error_message
        <5>4. QED
          BY <5>1, <5>2, <5>3
      <4>2. ServerMeaning(object) = [type |-> "error", code |-> code, message |-> message]
        BY <2>3 DEF ServerMeaning
      <4>3. string_field(object, "code") = Require(code.is = "string", "invalid-field", Ok(code))
        BY <3>4 DEF string_field, Require
      <4>4. string_field(object, "message") = Require(message.is = "string", "invalid-field", Ok(message))
        BY <3>4 DEF string_field, Require
      <4> HIDE DEF code, message
      <4>5. page = AndThen(string_field(object, "code"), LAMBDA c :
                   AndThen(string_field(object, "message"), LAMBDA m :
                   Require(validateError(c, m), "invalid-field",
                           Ok([type |-> "error", code |-> c, message |-> m]))))
        BY <3>1, <3>4 DEF exact_keys, Require
      <4> HIDE DEF object, page
      <4>6. /\ page.ok <=> Good
            /\ page.ok => page = Ok([type |-> "error", code |-> code, message |-> message])
        <5>1. CASE code.is # "string"
          BY <4>3, <4>5, <5>1 DEF AndThen, Require, Err
        <5>2. CASE code.is = "string" /\ message.is # "string"
          BY <4>3, <4>4, <4>5, <5>2 DEF AndThen, Require, Ok, Err
        <5>3. CASE code.is = "string" /\ message.is = "string"
          <6>1. page = Require(validateError(code, message), "invalid-field",
                               Ok([type |-> "error", code |-> code, message |-> message]))
            <7>1. string_field(object, "code") = Ok(code) /\ string_field(object, "message") = Ok(message)
              BY <4>3, <4>4, <5>3 DEF Require
            <7>2. /\ string_field(object, "code").ok /\ string_field(object, "code").value = code
                  /\ string_field(object, "message").ok /\ string_field(object, "message").value = message
              BY <7>1 DEF Ok
            <7> DEFINE c == string_field(object, "code")
                       m == string_field(object, "message")
            <7>3. page = IF c.ok THEN IF m.ok THEN Require(validateError(c.value, m.value), "invalid-field",
                                                Ok([type |-> "error", code |-> c.value, message |-> m.value]))
                                      ELSE m
                         ELSE c
              BY <4>5 DEF AndThen
            <7>4. QED
              BY <7>2, <7>3, Zenon
          <6>2. QED
            BY <5>3, <6>1 DEF Require, Ok, Err
        <5>4. QED
          BY <5>1, <5>2, <5>3
      <4>7. (\A number \in ServerNumbers(object) : isInteger(number)) <=> isInteger(Get(object, "version"))
        BY <3>2, Zenon
      <4> HIDE DEF Good
      <4>8. QED
        BY <1>3, <4>1, <4>2, <4>6, <4>7 DEF object, page
    <3>5. QED
      BY <3>3, <3>4
  <2>4. CASE type = "close"
    <3>1. page = Require(Len(object.fields) # 2, "invalid-direction",
                 exact_keys(object, {"version", "type", "reason"},
                 AndThen(string_field(object, "reason"), LAMBDA reason :
                 Require(reason.text \in CloseReasons, "invalid-field",
                         Ok([type |-> "close", reason |-> reason.text])))))
      BY <2>1, <2>4 DEF decodeServerControl, AndThen, Ok
    <3>2. ServerNumbers(object) = {Get(object, "version")}
      BY <2>4 DEF ServerNumbers
    <3>3. CASE Keys(object) # {"version", "type", "reason"}
      <4> DEFINE then == AndThen(string_field(object, "reason"), LAMBDA reason :
                         Require(reason.text \in CloseReasons, "invalid-field",
                                 Ok([type |-> "close", reason |-> reason.text])))
                 keys == Keys(object)
      <4>1. ~ page.ok
        <5>1. page = Require(Len(object.fields) # 2, "invalid-direction",
                             exact_keys(object, {"version", "type", "reason"}, then))
          BY <3>1
        <5>2. ~ ({"version", "type", "reason"} \subseteq keys /\ keys \subseteq {"version", "type", "reason"})
          BY <3>3
        <5> HIDE DEF then, page, object
        <5>3. ~ exact_keys(object, {"version", "type", "reason"}, then).ok
          BY <5>2 DEF exact_keys, Require, Err
        <5> HIDE DEF keys
        <5>4. QED
          BY <5>1, <5>3 DEF Require, Err
      <4>2. ~ ServerShape(object)
        BY <2>4, <3>3 DEF ServerShape
      <4>3. QED
        BY <4>1, <4>2
    <3>4. CASE Keys(object) = {"version", "type", "reason"}
      <4> DEFINE reason == Get(object, "reason")
      <4>1. ServerShape(object) <=> reason.is = "string" /\ reason.text \in CloseReasons
        BY <2>4, <3>4 DEF ServerShape
      <4>2. ServerMeaning(object) = [type |-> "close", reason |-> reason.text]
        BY <2>4 DEF ServerMeaning
      <4>3. Writable(object)
        BY <2>4 DEF Writable
      <4>4. Len(object.fields) # 2
        BY <1>3, <3>4, TwoFields
      <4> HIDE DEF reason
      <4>5. page = AndThen(string_field(object, "reason"), LAMBDA r :
                   Require(r.text \in CloseReasons, "invalid-field",
                           Ok([type |-> "close", reason |-> r.text])))
        BY <3>1, <3>4, <4>4 DEF exact_keys, Require
      <4>6. CASE ~ ServerShape(object)
        <5>1. ~ page.ok
          BY <3>4, <4>1, <4>5, <4>6 DEF string_field, AndThen, Require, Ok, Err, reason
        <5>2. QED
          BY <4>6, <5>1
      <4>7. CASE ServerShape(object)
        <5>1. page = Ok(ServerMeaning(object))
          BY <3>4, <4>1, <4>2, <4>5, <4>7 DEF string_field, AndThen, Require, Ok, Err, reason
        <5>2. QED
          BY <1>3, <3>2, <4>7, <4>3, <5>1 DEF Ok
      <4>8. QED
        BY <4>6, <4>7
    <3>5. QED
      BY <3>3, <3>4
  <2>5. CASE type \notin {"exit-status", "error", "close"}
    <3>1. ~ page.ok
      BY <2>1, <2>5 DEF decodeServerControl, AndThen, Ok, Err
    <3>2. QED
      BY <2>5, <3>1 DEF ServerShape
  <2>6. QED
    BY <2>2, <2>3, <2>4, <2>5
<1>4. QED
  BY <1>1, <1>2, <1>3

-----------------------------------------------------------------------------
(* The two readers agree.                                                   *)

\* Every object of a text without duplicate keys is proper.
LEMMA ProperParts ==
    ASSUME NEW text, IsText(text), ~ DuplicateDetector(text.value),
           NEW object \in Values(text.value), object.is = "object"
    PROVE  Proper(object)
  BY DEF IsText, DuplicateDetector, Proper

\* The values of a value: itself, what it holds, and what that holds.
LEMMA ValuesNest ==
    ASSUME NEW value
    PROVE  /\ value \in Values(value)
           /\ Inside(value) \subseteq Values(value)
           /\ \A inner \in Inside(value) : Inside(inner) \subseteq Values(value)
           /\ \A any \in Values(value) :
                 any = value \/ any \in Inside(value) \/ \E inner \in Inside(value) : any \in Inside(inner)
  BY DEF Values

\* Only an object holds values.
LEMMA NothingInside ==
    ASSUME NEW value, value.is # "object"
    PROVE  Inside(value) = {}
  BY DEF Inside

\* Words of the protocol are letters and hyphens.
LEMMA WordsAreClean ==
    ASSUME NEW text, IsText(text), NEW value \in Values(text.value), value.is = "string",
           value.text \in ProtocolWords
    PROVE  "surrogate" \notin value.chars
  BY DEF IsText

\* The values of a text of the server: the object, what it holds, what a status holds.
LEMMA ServerParts ==
    ASSUME NEW text, IsText(text), Parses(text), ServerShape(text.value)
    PROVE  LET object == text.value
               status == Get(object, "status")
               type == Get(object, "type").text
           IN  /\ \A key \in Keys(object) : Get(object, key) \in Values(object)
               /\ type = "exit-status" => \A key \in Keys(status) : Get(status, key) \in Values(object)
               /\ \A value \in Values(object) :
                     \/ value = object
                     \/ \E key \in Keys(object) : value = Get(object, key)
                     \/ \E key \in Keys(object) : value \in Inside(Get(object, key))
               /\ type = "exit-status" => Inside(status) = {Get(status, key) : key \in Keys(status)}
<1> DEFINE object == text.value
           status == Get(object, "status")
           type == Get(object, "type").text
<1>1. object \in Values(object) /\ object.is = "object" /\ Proper(object)
  BY ProperParts, ValuesNest DEF Parses
<1>2. /\ Inside(object) = {Get(object, key) : key \in Keys(object)}
      /\ \A key \in Keys(object) : Get(object, key) \in Inside(object)
  BY <1>1, InsideIsGet
<1>3. \A key \in Keys(object) : Get(object, key) \in Values(object)
  BY <1>2, ValuesNest
<1>4. ASSUME type = "exit-status"
      PROVE  /\ Inside(status) = {Get(status, key) : key \in Keys(status)}
             /\ \A key \in Keys(status) : Get(status, key) \in Values(object)
  <2>1. "status" \in Keys(object) /\ status.is = "object"
    BY <1>4 DEF ServerShape, StatusShape
  <2>2. status \in Inside(object) /\ status \in Values(object)
    BY <1>2, <1>3, <2>1
  <2>3. Proper(status)
    BY <2>1, <2>2, ProperParts DEF Parses
  <2>4. /\ Inside(status) = {Get(status, key) : key \in Keys(status)}
        /\ \A key \in Keys(status) : Get(status, key) \in Inside(status)
    BY <2>1, <2>3, InsideIsGet
  <2>5. Inside(status) \subseteq Values(object)
    BY <2>2, ValuesNest
  <2> HIDE DEF status, object
  <2>6. QED
    BY <2>4, <2>5
<1>5. ASSUME NEW value \in Values(object)
      PROVE  \/ value = object
             \/ \E key \in Keys(object) : value = Get(object, key)
             \/ \E key \in Keys(object) : value \in Inside(Get(object, key))
  <2>1. value = object \/ value \in Inside(object) \/ \E inner \in Inside(object) : value \in Inside(inner)
    BY ValuesNest
  <2> HIDE DEF object
  <2>2. QED
    BY <1>2, <2>1
<1>6. QED
  BY <1>3, <1>4, <1>5

\* A status has its kind and at most the number named after it.
LEMMA StatusKeys ==
    ASSUME NEW value, StatusShape(value), NEW key \in Keys(value)
    PROVE  key = "kind" \/ Get(value, key) \in StatusNumber(value)
  BY DEF StatusNumber

\* No lone surrogate is in a text of the server that the page reads.
LEMMA ServerTextIsClean ==
    ASSUME NEW text, IsText(text), Parses(text), Typed(text.value), ServerShape(text.value),
           Writable(text.value), \A number \in ServerNumbers(text.value) : isInteger(number)
    PROVE  ~ Surrogates(text.value)
<1> DEFINE object == text.value
           status == Get(object, "status")
           type == Get(object, "type").text
           Clean(value) == value.is = "string" => "surrogate" \notin value.chars
<1>1. SUFFICES ASSUME NEW value \in Values(object) PROVE Clean(value)
  BY DEF Surrogates
<1>2. ASSUME NEW word \in Values(object), word.text \in ProtocolWords PROVE Clean(word)
  BY <1>2, WordsAreClean
<1>3. type \in {"exit-status", "error", "close"}
  BY DEF ServerShape
<1>4. /\ {"version", "type"} \subseteq Keys(object)
      /\ Clean(Get(object, "version")) /\ Get(object, "version").is = "number"
  BY DEF Typed, ServerNumbers, isInteger
<1>5. Clean(Get(object, "type")) /\ Get(object, "type").is = "string"
  <2>1. Get(object, "type") \in Values(object) /\ type \in ProtocolWords
    BY <1>3, <1>4, ServerParts DEF ProtocolWords
  <2>2. QED
    BY <1>2, <2>1 DEF Typed
<1>6. CASE type = "exit-status"
  <2>1. Keys(object) = {"version", "type", "status"} /\ StatusShape(status) /\ status.is = "object"
    BY <1>6 DEF ServerShape, StatusShape
  <2>2. Inside(Get(object, "version")) = {} /\ Inside(Get(object, "type")) = {}
    BY <1>4, <1>5, NothingInside
  <2>3. ASSUME NEW key \in Keys(status) PROVE Clean(Get(status, key))
    <3>1. CASE key = "kind"
      <4>1. Get(status, "kind") \in Values(object)
        BY <1>6, <2>3, <3>1, ServerParts
      <4>2. Get(status, "kind").text \in ProtocolWords
        BY <2>1 DEF StatusShape, ProtocolWords
      <4>3. QED
        BY <1>2, <3>1, <4>1, <4>2
    <3>2. CASE key # "kind"
      <4>1. Get(status, key) \in ServerNumbers(object)
        BY <1>6, <2>1, <2>3, <3>2, StatusKeys DEF ServerNumbers
      <4>2. QED
        BY <4>1 DEF isInteger
    <3>3. QED
      BY <3>1, <3>2
  <2>4. \A inner \in Inside(status) : Clean(inner)
    BY <1>6, <2>3, ServerParts
  <2>5. \/ value = object
        \/ \E key \in Keys(object) : value = Get(object, key)
        \/ \E key \in Keys(object) : value \in Inside(Get(object, key))
    BY ServerParts
  <2>6. object.is = "object"
    BY DEF Parses
  <2> HIDE DEF object, Clean
  <2>7. Clean(object) /\ Clean(status)
    BY <2>1, <2>6 DEF Clean
  <2>8. QED
    BY <1>4, <1>5, <2>1, <2>2, <2>4, <2>5, <2>7
<1>7. CASE type = "error" \/ type = "close"
  <2>1. ASSUME NEW key \in Keys(object), key \notin {"version", "type"}
        PROVE  Clean(Get(object, key)) /\ Get(object, key).is = "string"
    <3>1. CASE type = "error"
      <4>1. /\ key \in {"code", "message"}
            /\ Get(object, "code").is = "string" /\ Get(object, "message").is = "string"
            /\ valid_error_code(Get(object, "code")) /\ "surrogate" \notin Get(object, "message").chars
        BY <2>1, <3>1 DEF ServerShape, Writable
      <4>2. "surrogate" \notin Get(object, "code").chars
        BY <4>1 DEF valid_error_code
      <4>3. QED
        BY <4>1, <4>2
    <3>2. CASE type = "close"
      <4>1. key = "reason" /\ Get(object, "reason").is = "string" /\ Get(object, "reason").text \in CloseReasons
        BY <2>1, <3>2 DEF ServerShape
      <4>2. Get(object, "reason") \in Values(object)
        BY <2>1, <4>1, ServerParts
      <4>3. QED
        BY <1>2, <4>1, <4>2 DEF ProtocolWords
    <3>3. QED
      BY <1>7, <3>1, <3>2
  <2>2. \A key \in Keys(object) : Clean(Get(object, key)) /\ Inside(Get(object, key)) = {}
    <3>1. ASSUME NEW key \in Keys(object) PROVE Clean(Get(object, key)) /\ Get(object, key).is # "object"
      BY <1>4, <1>5, <2>1
    <3>2. QED
      BY <3>1, NothingInside
  <2>3. \/ value = object
        \/ \E key \in Keys(object) : value = Get(object, key)
        \/ \E key \in Keys(object) : value \in Inside(Get(object, key))
    BY ServerParts
  <2>4. object.is = "object"
    BY DEF Parses
  <2> HIDE DEF object, Clean
  <2>5. Clean(object)
    BY <2>4 DEF Clean
  <2>6. QED
    BY <2>2, <2>3, <2>5
<1>8. QED
  BY <1>3, <1>6, <1>7

\* decode_client_control takes a resize, or a close without a reason.
LEMMA ClientRead ==
    ASSUME NEW text, decode_client_control(text).ok
    PROVE  /\ Typed(text.value)
           /\ \/ Get(text.value, "type").text = "resize"
              \/ Get(text.value, "type").text = "close" /\ "reason" \notin Keys(text.value)
<1> DEFINE object == text.value
           rust == decode_client_control(text)
           type == Get(object, "type").text
<1>1. parse_control(text).ok
  BY DEF decode_client_control, AndThen
<1>2. parse_control(text) = Ok(object)
  BY <1>1, Parsed
<1>3. header(object).ok
  BY <1>2 DEF decode_client_control, AndThen, Ok
<1>4. Typed(object) /\ header(object) = Ok(Get(object, "type"))
  BY <1>3, Headed
<1>5. CASE type \notin {"resize", "close"}
  <2>1. ~ rust.ok
    BY <1>2, <1>4, <1>5 DEF decode_client_control, AndThen, Ok, Err
  <2>2. QED
    BY <2>1
<1>6. CASE type = "close" /\ "reason" \in Keys(object)
  <2>1. ~ rust.ok
    BY <1>2, <1>4, <1>6 DEF decode_client_control, AndThen, Ok, Err, Require
  <2>2. QED
    BY <2>1
<1>7. QED
  BY <1>4, <1>5, <1>6

\* parse_handshake takes an object with one key.
LEMMA TicketRead ==
    ASSUME NEW text, parse_handshake(text).ok
    PROVE  Keys(text.value) = {"ticket"}
  BY DEF parse_handshake, Require, Err

\* The number of a status that has the shape is not negative.
LEMMA StatusNumbersAreNatural ==
    ASSUME NEW value, StatusShape(value), NEW number \in StatusNumber(value)
    PROVE  number.value >= 0
<1>1. PICK key \in Keys(value) \ {"kind"} : number = Get(value, key)
  BY DEF StatusNumber
<1>2. Get(value, key).value \in StatusRange(Get(value, "kind").text)
  BY DEF StatusShape
<1>3. QED
  BY <1>1, <1>2 DEF StatusRange

\* What the daemon reads as a message of the server the page reads too; what the page
\* reads the daemon does too unless a number is written with a point or an exponent;
\* and they read the same message.
THEOREM ReadersAgree ==
    ASSUME NEW text, IsText(text)
    PROVE  LET rust == decode_server_control(text)
               page == decodeServerControl(text)
           IN  /\ rust.ok => page.ok /\ rust = page
               /\ page.ok /\ Plainly(text.value) => rust.ok
<1> DEFINE object == text.value
           status == Get(object, "status")
           rust == decode_server_control(text)
           page == decodeServerControl(text)
<1>1. ASSUME rust.ok PROVE page.ok /\ rust = page
  <2>1. /\ Parses(text) /\ ~ Surrogates(object) /\ Typed(object) /\ ServerShape(object)
        /\ \A number \in ServerNumbers(object) : as_u64(number)
        /\ rust = Ok(ServerMeaning(object))
    BY <1>1, ServerRead
  <2>2. \A number \in ServerNumbers(object) : isInteger(number)
    BY <2>1 DEF as_u64, isInteger
  <2>3. Writable(object)
    <3>1. SUFFICES ASSUME Get(object, "type").text = "error"
                   PROVE  "surrogate" \notin Get(object, "message").chars
      BY DEF Writable
    <3>2. "message" \in Keys(object) /\ Get(object, "message").is = "string"
      BY <2>1, <3>1 DEF ServerShape
    <3>3. Get(object, "message") \in Values(object)
      BY <2>1, <3>2, ServerParts
    <3>4. QED
      BY <2>1, <3>2, <3>3 DEF Surrogates
  <2>4. page.ok /\ page = Ok(ServerMeaning(object))
    BY <2>1, <2>2, <2>3, PageRead
  <2>5. QED
    BY <2>1, <2>4
<1>2. ASSUME page.ok, Plainly(object) PROVE rust.ok
  <2>1. /\ Parses(text) /\ Typed(object) /\ ServerShape(object) /\ Writable(object)
        /\ \A number \in ServerNumbers(object) : isInteger(number)
    BY <1>2, PageRead
  <2>2. ~ Surrogates(object)
    BY <2>1, ServerTextIsClean
  <2>3. ASSUME NEW number \in ServerNumbers(object) PROVE as_u64(number)
    <3>1. number \in Values(object) /\ number.value >= 0
      <4>1. CASE number = Get(object, "version")
        <5>1. "version" \in Keys(object) /\ number.value = 1
          BY <2>1, <4>1 DEF Typed, PROTOCOL_VERSION
        <5>2. number \in Values(object)
          BY <2>1, <4>1, <5>1, ServerParts
        <5>3. QED
          BY <5>1, <5>2
      <4>2. CASE number # Get(object, "version")
        <5>1. Get(object, "type").text = "exit-status" /\ number \in StatusNumber(status)
          BY <2>3, <4>2 DEF ServerNumbers
        <5>2. StatusShape(status)
          BY <2>1, <5>1 DEF ServerShape
        <5>3. PICK key \in Keys(status) : number = Get(status, key)
          BY <5>1 DEF StatusNumber
        <5>4. number \in Values(object)
          BY <2>1, <5>1, <5>3, ServerParts
        <5>5. QED
          BY <5>1, <5>2, <5>4, StatusNumbersAreNatural
      <4>3. QED
        BY <4>1, <4>2
    <3>2. number.is = "number"
      BY <2>1, <2>3 DEF isInteger
    <3>3. number.written = "integer"
      BY <1>2, <3>1, <3>2 DEF Plainly
    <3>4. QED
      BY <3>1, <3>2, <3>3 DEF as_u64
  <2>4. QED
    BY <2>1, <2>2, <2>3, ServerRead
<1>3. QED
  BY <1>1, <1>2

\* A text is a ticket, a message of the client or one of the server.
LEMMA EachTextHasOneMeaning ==
    ASSUME NEW text, IsText(text)
    PROVE  OneMeaning(text)
<1> DEFINE object == text.value
<1>1. ASSUME decode_server_control(text).ok
      PROVE  Typed(object) /\ ServerShape(object)
  BY <1>1, ServerRead
<1>2. ~ (parse_handshake(text).ok /\ Typed(object))
  BY TicketRead, SMTT(40) DEF Typed
<1>3. ~ (parse_handshake(text).ok /\ decode_client_control(text).ok)
  BY <1>2, ClientRead
<1>4. ~ (decode_server_control(text).ok /\ decode_client_control(text).ok)
  <2>1. SUFFICES ASSUME decode_server_control(text).ok, decode_client_control(text).ok PROVE FALSE
    OBVIOUS
  <2>2. \/ Get(object, "type").text = "resize"
        \/ Get(object, "type").text = "close" /\ "reason" \notin Keys(object)
    BY <2>1, ClientRead
  <2>3. QED
    BY <1>1, <2>1, <2>2 DEF ServerShape
<1>5. /\ decode_server_control(text).ok => /\ decodeServerControl(text).ok
                                           /\ decode_server_control(text) = decodeServerControl(text)
      /\ decodeServerControl(text).ok /\ Plainly(object) => decode_server_control(text).ok
  BY ReadersAgree
<1>6. QED
  BY <1>1, <1>2, <1>3, <1>4, <1>5 DEF OneMeaning

-----------------------------------------------------------------------------
(* The two writers are read.                                                *)

\* The field lists Control puts together.
LEMMA Concatenations ==
    ASSUME NEW a, NEW b, NEW c, NEW d
    PROVE  /\ <<a, b>> \o <<c>> = <<a, b, c>>
           /\ <<a, b>> \o <<c, d>> = <<a, b, c, d>>
           /\ <<a>> \o <<b>> = <<a, b>>
           /\ <<a>> \o <<>> = <<a>>
<1> DEFINE S == {a, b, c, d}
<1>1. <<a, b>> \in Seq(S) /\ <<c>> \in Seq(S) /\ <<c, d>> \in Seq(S) /\ <<a>> \in Seq(S) /\ <<b>> \in Seq(S)
  OBVIOUS
<1>2. <<a, b>> \o <<c>> = <<a, b, c>>
  <2> DEFINE s == <<a, b>> \o <<c>>
             t == <<a, b, c>>
  <2>1. Len(<<a, b>>) = 2 /\ Len(<<c>>) = 1 /\ Len(t) = 3 /\ t \in Seq(S)
    OBVIOUS
  <2>2. /\ s \in Seq(S) /\ Len(s) = 3
        /\ \A i \in 1 .. 3 : s[i] = IF i <= 2 THEN <<a, b>>[i] ELSE <<c>>[i - 2]
    BY <1>1, <2>1, ConcatProperties
  <2>3. \A i \in 1 .. 3 : i \in {1, 2, 3}
    OBVIOUS
  <2> HIDE DEF s
  <2>4. s[1] = t[1] /\ s[2] = t[2] /\ s[3] = t[3]
    BY <2>2
  <2> HIDE DEF t
  <2>5. \A i \in 1 .. Len(s) : s[i] = t[i]
    BY <2>2, <2>3, <2>4
  <2>6. s = t
    BY <2>1, <2>2, <2>5, SeqEqual
  <2>7. QED
    BY <2>6 DEF s, t
<1>3. <<a, b>> \o <<c, d>> = <<a, b, c, d>>
  <2> DEFINE s == <<a, b>> \o <<c, d>>
             t == <<a, b, c, d>>
  <2>1. Len(<<a, b>>) = 2 /\ Len(<<c, d>>) = 2 /\ Len(t) = 4 /\ t \in Seq(S)
    OBVIOUS
  <2>2. /\ s \in Seq(S) /\ Len(s) = 4
        /\ \A i \in 1 .. 4 : s[i] = IF i <= 2 THEN <<a, b>>[i] ELSE <<c, d>>[i - 2]
    BY <1>1, <2>1, ConcatProperties
  <2>3. \A i \in 1 .. 4 : i \in {1, 2, 3, 4}
    OBVIOUS
  <2> HIDE DEF s
  <2>4. s[1] = t[1] /\ s[2] = t[2] /\ s[3] = t[3] /\ s[4] = t[4]
    BY <2>2
  <2> HIDE DEF t
  <2>5. \A i \in 1 .. Len(s) : s[i] = t[i]
    BY <2>2, <2>3, <2>4
  <2>6. s = t
    BY <2>1, <2>2, <2>5, SeqEqual
  <2>7. QED
    BY <2>6 DEF s, t
<1>4. <<a>> \o <<b>> = <<a, b>>
  <2> DEFINE s == <<a>> \o <<b>>
             t == <<a, b>>
  <2>1. Len(<<a>>) = 1 /\ Len(<<b>>) = 1 /\ Len(t) = 2 /\ t \in Seq(S)
    OBVIOUS
  <2>2. /\ s \in Seq(S) /\ Len(s) = 2
        /\ \A i \in 1 .. 2 : s[i] = IF i <= 1 THEN <<a>>[i] ELSE <<b>>[i - 1]
    BY <1>1, <2>1, ConcatProperties
  <2>3. \A i \in 1 .. 2 : i \in {1, 2}
    OBVIOUS
  <2> HIDE DEF s
  <2>4. s[1] = t[1] /\ s[2] = t[2]
    BY <2>2
  <2> HIDE DEF t
  <2>5. \A i \in 1 .. Len(s) : s[i] = t[i]
    BY <2>2, <2>3, <2>4
  <2>6. s = t
    BY <2>1, <2>2, <2>5, SeqEqual
  <2>7. QED
    BY <2>6 DEF s, t
<1>5. <<a>> \o <<>> = <<a>>
  BY <1>1, ConcatEmptySeq
<1>6. QED
  BY <1>2, <1>3, <1>4, <1>5

\* Objects of one to four fields.
LEMMA ProperObject ==
    ASSUME NEW fields, Len(fields) \in Nat, DOMAIN fields = 1 .. Len(fields),
           \A i, j \in DOMAIN fields : fields[i].key = fields[j].key => i = j
    PROVE  /\ Object(fields).is = "object" /\ Proper(Object(fields))
           /\ \A key : key \in Keys(Object(fields)) <=> \E i \in DOMAIN fields : key = fields[i].key
           /\ \A value : value \in Inside(Object(fields)) <=> \E i \in DOMAIN fields : value = fields[i].value
           /\ \A i \in DOMAIN fields : Get(Object(fields), fields[i].key) = fields[i].value
<1> DEFINE object == Object(fields)
<1>1. object.is = "object" /\ object.fields = fields
  BY DEF Object
<1> HIDE DEF object
<1>2. Proper(object)
  BY <1>1 DEF Proper, Twice
<1>3. /\ \A key : key \in Keys(object) <=> \E i \in DOMAIN fields : key = fields[i].key
      /\ \A value : value \in Inside(object) <=> \E i \in DOMAIN fields : value = fields[i].value
  BY <1>1 DEF Keys, Inside
<1>4. \A i \in DOMAIN fields : Get(object, fields[i].key) = fields[i].value
  BY <1>1, <1>2, GetAt
<1>5. QED
  BY <1>1, <1>2, <1>3, <1>4 DEF object

\* What is said of an object of one to four fields.
HoldsOne(object, k1, v1) ==
    /\ object.is = "object" /\ Proper(object) /\ Keys(object) = {k1} /\ Inside(object) = {v1}
    /\ Get(object, k1) = v1

HoldsTwo(object, k1, v1, k2, v2) ==
    /\ object.is = "object" /\ Proper(object) /\ Keys(object) = {k1, k2} /\ Inside(object) = {v1, v2}
    /\ Get(object, k1) = v1 /\ Get(object, k2) = v2

HoldsThree(object, k1, v1, k2, v2, k3, v3) ==
    /\ object.is = "object" /\ Proper(object) /\ Keys(object) = {k1, k2, k3} /\ Inside(object) = {v1, v2, v3}
    /\ Get(object, k1) = v1 /\ Get(object, k2) = v2 /\ Get(object, k3) = v3

HoldsFour(object, k1, v1, k2, v2, k3, v3, k4, v4) ==
    /\ object.is = "object" /\ Proper(object) /\ Keys(object) = {k1, k2, k3, k4} /\ Inside(object) = {v1, v2, v3, v4}
    /\ Get(object, k1) = v1 /\ Get(object, k2) = v2 /\ Get(object, k3) = v3 /\ Get(object, k4) = v4

\* An object of one field, written out.
LEMMA OneField ==
    ASSUME NEW k1, NEW v1
    PROVE  HoldsOne(Object(<<Field(k1, v1)>>), k1, v1)
<1> DEFINE fields == <<Field(k1, v1)>>
           made == Object(fields)
<1>1. Len(fields) \in Nat /\ DOMAIN fields = 1 .. Len(fields) /\ DOMAIN fields = {1}
  OBVIOUS
<1>2. /\ fields[1].key = k1 /\ fields[1].value = v1
  BY DEF Field
<1> HIDE DEF fields
<1>3. \A i, j \in DOMAIN fields : fields[i].key = fields[j].key => i = j
  BY <1>1, <1>2
<1>4. /\ made.is = "object" /\ Proper(made)
      /\ \A key : key \in Keys(made) <=> \E i \in DOMAIN fields : key = fields[i].key
      /\ \A value : value \in Inside(made) <=> \E i \in DOMAIN fields : value = fields[i].value
      /\ \A i \in DOMAIN fields : Get(made, fields[i].key) = fields[i].value
  BY <1>1, <1>3, ProperObject, Zenon
<1> HIDE DEF made
<1>5. Keys(made) = {k1}
  <2>1. \A key : (\E i \in DOMAIN fields : key = fields[i].key) <=> key = k1
    BY <1>1, <1>2
  <2>2. \A key : key \in Keys(made) <=> key = k1
    BY <1>4, <2>1, Zenon
  <2>3. QED
    BY <2>2, Zenon
<1>6. Inside(made) = {v1}
  <2>1. \A value : (\E i \in DOMAIN fields : value = fields[i].value) <=> value = v1
    BY <1>1, <1>2
  <2>2. \A value : value \in Inside(made) <=> value = v1
    BY <1>4, <2>1
  <2>3. QED
    BY <2>2, Zenon
<1>7. Get(made, k1) = v1
  BY <1>1, <1>2, <1>4
<1>8. made.is = "object" /\ Proper(made)
  BY <1>4
<1>9. QED
  BY <1>5, <1>6, <1>7, <1>8, Zenon DEF made, fields, HoldsOne

\* Of two fields.
LEMMA TwoFieldObject ==
    ASSUME NEW k1, NEW v1, NEW k2, NEW v2,
           k1 # k2
    PROVE  HoldsTwo(Object(<<Field(k1, v1), Field(k2, v2)>>), k1, v1, k2, v2)
<1> DEFINE fields == <<Field(k1, v1), Field(k2, v2)>>
           made == Object(fields)
<1>1. Len(fields) \in Nat /\ DOMAIN fields = 1 .. Len(fields) /\ DOMAIN fields = {1, 2}
  OBVIOUS
<1>2. /\ fields[1].key = k1 /\ fields[1].value = v1
      /\ fields[2].key = k2 /\ fields[2].value = v2
  BY DEF Field
<1> HIDE DEF fields
<1>3. \A i, j \in DOMAIN fields : fields[i].key = fields[j].key => i = j
  BY <1>1, <1>2
<1>4. /\ made.is = "object" /\ Proper(made)
      /\ \A key : key \in Keys(made) <=> \E i \in DOMAIN fields : key = fields[i].key
      /\ \A value : value \in Inside(made) <=> \E i \in DOMAIN fields : value = fields[i].value
      /\ \A i \in DOMAIN fields : Get(made, fields[i].key) = fields[i].value
  BY <1>1, <1>3, ProperObject, Zenon
<1> HIDE DEF made
<1>5. Keys(made) = {k1, k2}
  <2>1. \A key : (\E i \in DOMAIN fields : key = fields[i].key) <=> key = k1 \/ key = k2
    BY <1>1, <1>2
  <2>2. \A key : key \in Keys(made) <=> key = k1 \/ key = k2
    BY <1>4, <2>1, Zenon
  <2>3. QED
    BY <2>2, Zenon
<1>6. Inside(made) = {v1, v2}
  <2>1. \A value : (\E i \in DOMAIN fields : value = fields[i].value) <=> value = v1 \/ value = v2
    BY <1>1, <1>2
  <2>2. \A value : value \in Inside(made) <=> value = v1 \/ value = v2
    BY <1>4, <2>1, Zenon
  <2>3. QED
    BY <2>2, Zenon
<1>7. Get(made, k1) = v1 /\ Get(made, k2) = v2
  BY <1>1, <1>2, <1>4
<1>8. made.is = "object" /\ Proper(made)
  BY <1>4
<1>9. QED
  BY <1>5, <1>6, <1>7, <1>8, Zenon DEF made, fields, HoldsTwo

\* Of three.
LEMMA ThreeFieldObject ==
    ASSUME NEW k1, NEW v1, NEW k2, NEW v2, NEW k3, NEW v3,
           k1 # k2, k1 # k3, k2 # k3
    PROVE  HoldsThree(Object(<<Field(k1, v1), Field(k2, v2), Field(k3, v3)>>), k1, v1, k2, v2, k3, v3)
<1> DEFINE fields == <<Field(k1, v1), Field(k2, v2), Field(k3, v3)>>
           made == Object(fields)
<1>1. Len(fields) \in Nat /\ DOMAIN fields = 1 .. Len(fields) /\ DOMAIN fields = {1, 2, 3}
  OBVIOUS
<1>2. /\ fields[1].key = k1 /\ fields[1].value = v1
      /\ fields[2].key = k2 /\ fields[2].value = v2
      /\ fields[3].key = k3 /\ fields[3].value = v3
  BY DEF Field
<1> HIDE DEF fields
<1>3. \A i, j \in DOMAIN fields : fields[i].key = fields[j].key => i = j
  BY <1>1, <1>2
<1>4. /\ made.is = "object" /\ Proper(made)
      /\ \A key : key \in Keys(made) <=> \E i \in DOMAIN fields : key = fields[i].key
      /\ \A value : value \in Inside(made) <=> \E i \in DOMAIN fields : value = fields[i].value
      /\ \A i \in DOMAIN fields : Get(made, fields[i].key) = fields[i].value
  BY <1>1, <1>3, ProperObject, Zenon
<1> HIDE DEF made
<1>5. Keys(made) = {k1, k2, k3}
  <2>1. \A key : (\E i \in DOMAIN fields : key = fields[i].key) <=> key = k1 \/ key = k2 \/ key = k3
    BY <1>1, <1>2
  <2>2. \A key : key \in Keys(made) <=> key = k1 \/ key = k2 \/ key = k3
    BY <1>4, <2>1, Zenon
  <2>3. QED
    BY <2>2, Zenon
<1>6. Inside(made) = {v1, v2, v3}
  <2>1. \A value : (\E i \in DOMAIN fields : value = fields[i].value) <=> value = v1 \/ value = v2 \/ value = v3
    BY <1>1, <1>2
  <2>2. \A value : value \in Inside(made) <=> value = v1 \/ value = v2 \/ value = v3
    BY <1>4, <2>1, Zenon
  <2>3. QED
    BY <2>2, Zenon
<1>7. Get(made, k1) = v1 /\ Get(made, k2) = v2 /\ Get(made, k3) = v3
  BY <1>1, <1>2, <1>4
<1>8. made.is = "object" /\ Proper(made)
  BY <1>4
<1>9. QED
  BY <1>5, <1>6, <1>7, <1>8, Zenon DEF made, fields, HoldsThree

\* And of four.
LEMMA FourFieldObject ==
    ASSUME NEW k1, NEW v1, NEW k2, NEW v2, NEW k3, NEW v3, NEW k4, NEW v4,
           k1 # k2, k1 # k3, k1 # k4, k2 # k3, k2 # k4, k3 # k4
    PROVE  HoldsFour(Object(<<Field(k1, v1), Field(k2, v2), Field(k3, v3), Field(k4, v4)>>), k1, v1, k2, v2, k3, v3, k4, v4)
<1> DEFINE fields == <<Field(k1, v1), Field(k2, v2), Field(k3, v3), Field(k4, v4)>>
           made == Object(fields)
<1>1. Len(fields) \in Nat /\ DOMAIN fields = 1 .. Len(fields) /\ DOMAIN fields = {1, 2, 3, 4}
  OBVIOUS
<1>2. /\ fields[1].key = k1 /\ fields[1].value = v1
      /\ fields[2].key = k2 /\ fields[2].value = v2
      /\ fields[3].key = k3 /\ fields[3].value = v3
      /\ fields[4].key = k4 /\ fields[4].value = v4
  BY DEF Field
<1> HIDE DEF fields
<1>3. \A i, j \in DOMAIN fields : fields[i].key = fields[j].key => i = j
  BY <1>1, <1>2, ZenonT(60)
<1>4. /\ made.is = "object" /\ Proper(made)
      /\ \A key : key \in Keys(made) <=> \E i \in DOMAIN fields : key = fields[i].key
      /\ \A value : value \in Inside(made) <=> \E i \in DOMAIN fields : value = fields[i].value
      /\ \A i \in DOMAIN fields : Get(made, fields[i].key) = fields[i].value
  BY <1>1, <1>3, ProperObject, Zenon
<1> HIDE DEF made
<1>5. Keys(made) = {k1, k2, k3, k4}
  <2>1. \A key : (\E i \in DOMAIN fields : key = fields[i].key) <=> key = k1 \/ key = k2 \/ key = k3 \/ key = k4
    BY <1>1, <1>2
  <2>2. \A key : key \in Keys(made) <=> key = k1 \/ key = k2 \/ key = k3 \/ key = k4
    BY <1>4, <2>1, Zenon
  <2>3. QED
    BY <2>2, Zenon
<1>6. Inside(made) = {v1, v2, v3, v4}
  <2>1. \A value : (\E i \in DOMAIN fields : value = fields[i].value) <=> value = v1 \/ value = v2 \/ value = v3 \/ value = v4
    BY <1>1, <1>2
  <2>2. \A value : value \in Inside(made) <=> value = v1 \/ value = v2 \/ value = v3 \/ value = v4
    BY <1>4, <2>1, Zenon
  <2>3. QED
    BY <2>2, Zenon
<1>7. Get(made, k1) = v1 /\ Get(made, k2) = v2 /\ Get(made, k3) = v3 /\ Get(made, k4) = v4
  BY <1>1, <1>2, <1>4
<1>8. made.is = "object" /\ Proper(made)
  BY <1>4
<1>9. QED
  BY <1>5, <1>6, <1>7, <1>8, Zenon DEF made, fields, HoldsFour

\* What the writers put together: proper objects, and strings without surrogates that are
\* spelled as module Codec says.
Sound(value) ==
    /\ value.is = "object" => Proper(value)
    /\ value.is = "string" => /\ "surrogate" \notin value.chars
                              /\ value.text \in ProtocolWords => value.chars \subseteq {"lower", "hyphen"}

\* A text of sound values passes parse_control and parseControl.
LEMMA WrittenTexts ==
    ASSUME NEW text, text.value.is = "object", text.unicode, text.whole,
           text.bytes <= MAX_CONTROL_BYTES, \A value \in Values(text.value) : Sound(value)
    PROVE  IsText(text) /\ Parses(text) /\ ~ Surrogates(text.value)
<1>1. IsText(text)
  BY DEF IsText, Sound, Proper
<1>2. Parses(text)
  BY DEF Parses, DuplicateDetector, Sound, Proper
<1>3. ~ Surrogates(text.value)
  BY DEF Surrogates, Sound
<1>4. QED
  BY <1>1, <1>2, <1>3

\* The strings and numbers the writers write are sound.
LEMMA PlainValues ==
    ASSUME NEW value
    PROVE  /\ Sound(String(value)) /\ String(value).is = "string" /\ String(value).text = value
           /\ Sound(Number(value)) /\ Number(value).is = "number" /\ Number(value).value = value
           /\ Number(value).written = "integer"
           /\ Inside(String(value)) = {} /\ Inside(Number(value)) = {}
  BY DEF Sound, String, Number, Inside

\* All values of an object that nests one deep.
LEMMA SoundObject ==
    ASSUME NEW object, object.is = "object", Proper(object),
           \A value \in Inside(object) : Sound(value) /\ \A inner \in Inside(value) : Sound(inner)
    PROVE  \A value \in Values(object) : Sound(value)
<1>1. Sound(object)
  BY DEF Sound
<1>2. QED
  BY <1>1, ValuesNest

\* A written text is read once its shape is right.
LEMMA PageReadsWritten ==
    ASSUME NEW text, text.value.is = "object", text.unicode, text.whole,
           text.bytes <= MAX_CONTROL_BYTES, \A value \in Values(text.value) : Sound(value),
           Typed(text.value), ServerShape(text.value), Writable(text.value),
           \A number \in ServerNumbers(text.value) : isInteger(number)
    PROVE  decodeServerControl(text) = Ok(ServerMeaning(text.value))
  BY WrittenTexts, PageRead

\* The page reads every error the daemon can write: a code and a message that
\* valid_error_code and valid_error_message allow, as Rust strings.
THEOREM ErrorsAreRead ==
    ASSUME NEW code, NEW message, code.is = "string", message.is = "string",
           valid_error_code(code), valid_error_message(message), Sound(code), Sound(message)
    PROVE  PageReads([type |-> "error", code |-> code, message |-> message])
<1> DEFINE control == [type |-> "error", code |-> code, message |-> message]
           object == Object(<<Field("version", Number(1)), Field("type", String("error")),
                              Field("code", code), Field("message", message)>>)
           bytes == 80 + code.len + 4 * message.len
           text == [Text(object) EXCEPT !.bytes = bytes]
<1>1. Control("error", <<Field("code", code), Field("message", message)>>) = Text(object)
  <2>1. <<Field("version", Number(1)), Field("type", String("error"))>>
            \o <<Field("code", code), Field("message", message)>>
        = <<Field("version", Number(1)), Field("type", String("error")),
            Field("code", code), Field("message", message)>>
    BY Concatenations, ZenonT(60)
  <2>2. QED
    BY <2>1, Zenon DEF Control, PROTOCOL_VERSION
<1>2. bytes <= MAX_CONTROL_BYTES
  <2>1. code.len \in 1 .. 64 /\ message.len \in 1 .. 256
    BY DEF valid_error_code, valid_error_message
  <2> DEFINE m == code.len
             n == message.len
  <2> HIDE DEF m, n
  <2>2. m \in Int /\ n \in Int /\ m <= 64 /\ n <= 256
    BY <2>1 DEF m, n
  <2>3. 80 + m + 4 * n <= 4096
    BY <2>2
  <2>4. bytes = 80 + m + 4 * n
    BY DEF m, n
  <2> HIDE DEF bytes
  <2>5. QED
    BY <2>3, <2>4 DEF MAX_CONTROL_BYTES
<1>3. encode_server_control(control) = Ok(text)
  <2>1. control.type = "error" /\ control.code = code /\ control.message = message
    OBVIOUS
  <2>2. ErrorMessage(code, message) = Ok(control)
    BY DEF ErrorMessage, Require
  <2> HIDE DEF control, object
  <2>3. Ok(control).ok /\ Ok(control).value = control
    BY DEF Ok
  <2>4. encode_server_control(control) =
            LET written == Control("error", <<Field("code", code), Field("message", message)>>)
                size == written.bytes + code.len + 4 * message.len
            IN  Require(size <= MAX_CONTROL_BYTES, "control-too-large", Ok([written EXCEPT !.bytes = size]))
    BY <2>1, <2>2, <2>3 DEF encode_server_control, AndThen
  <2> HIDE DEF bytes
  <2>5. Text(object).bytes = 80
    BY DEF Text
  <2> HIDE DEF text
  <2>6. QED
    BY <1>1, <1>2, <2>4, <2>5 DEF Require, bytes, text
<1>4. /\ object.is = "object" /\ Proper(object)
      /\ Keys(object) = {"version", "type", "code", "message"}
      /\ Inside(object) = {Number(1), String("error"), code, message}
      /\ Get(object, "version") = Number(1) /\ Get(object, "type") = String("error")
      /\ Get(object, "code") = code /\ Get(object, "message") = message
  <2>1. HoldsFour(object, "version", Number(1), "type", String("error"), "code", code, "message", message)
    BY FourFieldObject, Zenon
  <2> HIDE DEF object
  <2>2. QED
    BY <2>1, Zenon DEF HoldsFour
<1> HIDE DEF object
<1>5. \A value \in Values(object) : Sound(value)
  <2>1. \A value \in Inside(object) : Sound(value) /\ Inside(value) = {}
    BY <1>4, PlainValues, NothingInside
  <2>2. QED
    BY <1>4, <2>1, SoundObject
<1>6. Typed(object)
  BY <1>4, PlainValues DEF Typed, PROTOCOL_VERSION
<1>7. ServerShape(object) /\ Writable(object) /\ ServerMeaning(object) = control
  <2>1. Get(object, "type").text = "error"
    BY <1>4, PlainValues
  <2>2. ServerShape(object)
    BY <1>4, <2>1 DEF ServerShape
  <2>3. Writable(object)
    BY <1>4 DEF Writable, Sound
  <2>4. ServerMeaning(object) = control
    BY <1>4, <2>1 DEF ServerMeaning
  <2>5. QED
    BY <2>2, <2>3, <2>4
<1>8. \A number \in ServerNumbers(object) : isInteger(number)
  BY <1>4, PlainValues DEF ServerNumbers, isInteger
<1>9. decodeServerControl(text) = Ok(control)
  <2>1. text.value = object /\ text.unicode /\ text.whole /\ text.bytes <= MAX_CONTROL_BYTES
    BY <1>2 DEF Text
  <2> HIDE DEF text, control
  <2>2. QED
    BY <1>4, <1>5, <1>6, <1>7, <1>8, <2>1, PageReadsWritten
<1> HIDE DEF text, control
<1>10. Ok(text).ok /\ Ok(text).value = text
  BY DEF Ok
<1>11. PageReads(control)
  BY <1>3, <1>9, <1>10 DEF PageReads
<1>12. QED
  BY <1>11 DEF control

\* And every reason to close.
LEMMA ClosesAreRead ==
    ASSUME NEW reason \in CloseReasons
    PROVE  PageReads([type |-> "close", reason |-> reason])
<1> DEFINE control == [type |-> "close", reason |-> reason]
           object == Object(<<Field("version", Number(1)), Field("type", String("close")),
                              Field("reason", String(reason))>>)
           text == Text(object)
<1>1. Control("close", <<Field("reason", String(reason))>>) = text
  BY Concatenations, Zenon DEF Control, PROTOCOL_VERSION
<1>2. text.value = object /\ text.unicode /\ text.whole /\ text.bytes <= MAX_CONTROL_BYTES
  BY DEF Text, MAX_CONTROL_BYTES
<1>3. encode_server_control(control) = Ok(text)
  <2>1. control.type = "close" /\ control.reason = reason
    OBVIOUS
  <2> HIDE DEF control, text
  <2>2. QED
    BY <1>1, <2>1 DEF encode_server_control
<1>4. /\ object.is = "object" /\ Proper(object)
      /\ Keys(object) = {"version", "type", "reason"}
      /\ Inside(object) = {Number(1), String("close"), String(reason)}
      /\ Get(object, "version") = Number(1) /\ Get(object, "type") = String("close")
      /\ Get(object, "reason") = String(reason)
  <2>1. HoldsThree(object, "version", Number(1), "type", String("close"), "reason", String(reason))
    BY ThreeFieldObject, Zenon
  <2> HIDE DEF object
  <2>2. QED
    BY <2>1, Zenon DEF HoldsThree
<1> HIDE DEF object, text
<1>5. \A value \in Values(object) : Sound(value)
  <2>1. \A value \in Inside(object) : Sound(value) /\ Inside(value) = {}
    BY <1>4, PlainValues
  <2>2. QED
    BY <1>4, <2>1, SoundObject
<1>6. Typed(object)
  BY <1>4, PlainValues DEF Typed, PROTOCOL_VERSION
<1>7. ServerShape(object) /\ Writable(object) /\ ServerMeaning(object) = control
  <2>1. Get(object, "type").text = "close" /\ Get(object, "reason").is = "string"
        /\ Get(object, "reason").text = reason
    BY <1>4, PlainValues
  <2>2. ServerShape(object)
    BY <1>4, <2>1 DEF ServerShape
  <2>3. Writable(object)
    BY <2>1 DEF Writable
  <2>4. ServerMeaning(object) = control
    BY <2>1 DEF ServerMeaning
  <2>5. QED
    BY <2>2, <2>3, <2>4
<1>8. \A number \in ServerNumbers(object) : isInteger(number)
  BY <1>4, PlainValues DEF ServerNumbers, isInteger
<1> HIDE DEF control
<1>9. decodeServerControl(text) = Ok(control)
  BY <1>2, <1>4, <1>5, <1>6, <1>7, <1>8, PageReadsWritten
<1>10. Ok(text).ok /\ Ok(text).value = text
  BY DEF Ok
<1>11. PageReads(control)
  BY <1>3, <1>9, <1>10 DEF PageReads
<1>12. QED
  BY <1>11 DEF control

\* A status the daemon writes is read, whatever its kind.
LEMMA StatusesAreRead ==
    ASSUME NEW inner, NEW status, inner.is = "object", Proper(inner),
           \A value \in Inside(inner) : Sound(value) /\ Inside(value) = {},
           StatusShape(inner), StatusMeaning(inner) = status,
           \A number \in StatusNumber(inner) : isInteger(number),
           encode_server_control([type |-> "exit-status", status |-> status])
               = Ok(Control("exit-status", <<Field("status", inner)>>))
    PROVE  PageReads([type |-> "exit-status", status |-> status])
<1> DEFINE control == [type |-> "exit-status", status |-> status]
           object == Object(<<Field("version", Number(1)), Field("type", String("exit-status")),
                              Field("status", inner)>>)
           text == Text(object)
<1>1. Control("exit-status", <<Field("status", inner)>>) = text
  <2>1. <<Field("version", Number(1)), Field("type", String("exit-status"))>> \o <<Field("status", inner)>>
        = <<Field("version", Number(1)), Field("type", String("exit-status")), Field("status", inner)>>
    BY Concatenations, Zenon
  <2>2. QED
    BY <2>1, Zenon DEF Control, PROTOCOL_VERSION
<1>2. encode_server_control(control) = Ok(text)
  BY <1>1
<1>3. text.value = object /\ text.unicode /\ text.whole /\ text.bytes <= MAX_CONTROL_BYTES
  BY DEF Text, MAX_CONTROL_BYTES
<1>4. /\ object.is = "object" /\ Proper(object) /\ Keys(object) = {"version", "type", "status"}
      /\ Inside(object) = {Number(1), String("exit-status"), inner}
      /\ Get(object, "version") = Number(1) /\ Get(object, "type") = String("exit-status")
      /\ Get(object, "status") = inner
  <2>1. HoldsThree(object, "version", Number(1), "type", String("exit-status"), "status", inner)
    BY ThreeFieldObject, Zenon
  <2> HIDE DEF object
  <2>2. QED
    BY <2>1, Zenon DEF HoldsThree
<1> HIDE DEF object, text
<1>5. \A value \in Values(object) : Sound(value)
  <2>1. \A value \in Inside(object) : Sound(value) /\ \A any \in Inside(value) : Sound(any)
    <3>1. Sound(inner) /\ \A any \in Inside(inner) : Sound(any)
      BY DEF Sound
    <3>2. Sound(Number(1)) /\ Inside(Number(1)) = {}
      BY PlainValues
    <3>3. Sound(String("exit-status")) /\ Inside(String("exit-status")) = {}
      BY PlainValues
    <3>4. QED
      BY <1>4, <3>1, <3>2, <3>3
  <2>2. QED
    BY <1>4, <2>1, SoundObject
<1>6. Typed(object)
  BY <1>4, PlainValues DEF Typed, PROTOCOL_VERSION
<1>7. ServerShape(object) /\ Writable(object) /\ ServerMeaning(object) = control
  <2>1. Get(object, "type").text = "exit-status"
    BY <1>4, PlainValues
  <2>2. ServerShape(object)
    BY <1>4, <2>1 DEF ServerShape
  <2>3. Writable(object)
    BY <2>1 DEF Writable
  <2>4. ServerMeaning(object) = control
    BY <1>4, <2>1 DEF ServerMeaning
  <2>5. QED
    BY <2>2, <2>3, <2>4
<1>8. \A number \in ServerNumbers(object) : isInteger(number)
  <2>1. isInteger(Number(1))
    BY PlainValues DEF isInteger
  <2>2. ServerNumbers(object) = {Number(1)} \cup StatusNumber(inner)
    BY <1>4, PlainValues DEF ServerNumbers
  <2>3. QED
    BY <2>1, <2>2
<1> HIDE DEF control
<1>9. decodeServerControl(text) = Ok(control)
  BY <1>3, <1>4, <1>5, <1>6, <1>7, <1>8, PageReadsWritten
<1>10. Ok(text).ok /\ Ok(text).value = text
  BY DEF Ok
<1>11. PageReads(control)
  BY <1>2, <1>9, <1>10 DEF PageReads
<1>12. QED
  BY <1>11 DEF control

\* Every exit code and every signal.
LEMMA NumbersAreRead ==
    ASSUME NEW kind \in {"code", "signal"}, NEW n \in StatusRange(kind)
    PROVE  PageReads([type |-> "exit-status", status |-> [kind |-> kind, number |-> n]])
<1> DEFINE control == [type |-> "exit-status", status |-> [kind |-> kind, number |-> n]]
           inner == Object(<<Field("kind", String(kind)), Field(kind, Number(n))>>)
<1>1. <<Field("kind", String(kind))>> \o <<Field(kind, Number(n))>>
      = <<Field("kind", String(kind)), Field(kind, Number(n))>>
  BY Concatenations, Zenon
<1>2. encode_server_control(control) = Ok(Control("exit-status", <<Field("status", inner)>>))
  <2>1. control.type = "exit-status" /\ control.status.kind = kind /\ control.status.number = n
    OBVIOUS
  <2> DEFINE listed == <<Field("kind", String(kind))>> \o <<Field(kind, Number(n))>>
  <2>2. Object(listed) = inner
    BY <1>1, Zenon
  <2> HIDE DEF control, inner
  <2>3. kind # "unavailable"
    OBVIOUS
  <2>4. encode_server_control(control) =
            Require(kind = "signal" => n \in StatusRange(kind), "invalid-field",
                    Ok(Control("exit-status", <<Field("status", Object(listed))>>)))
    BY <2>1, <2>3 DEF encode_server_control
  <2> HIDE DEF listed
  <2>5. QED
    BY <2>2, <2>4 DEF Require
<1>3. /\ inner.is = "object" /\ Proper(inner) /\ Keys(inner) = {"kind", kind}
      /\ Inside(inner) = {String(kind), Number(n)}
      /\ Get(inner, "kind") = String(kind) /\ Get(inner, kind) = Number(n)
  <2>1. kind # "kind"
    OBVIOUS
  <2>2. HoldsTwo(inner, "kind", String(kind), kind, Number(n))
    BY <2>1, TwoFieldObject, Zenon
  <2> HIDE DEF inner
  <2>3. QED
    BY <2>2, Zenon DEF HoldsTwo
<1>4. \A value \in Inside(inner) : Sound(value) /\ Inside(value) = {}
  BY <1>3, PlainValues
<1>5. StatusShape(inner) /\ StatusMeaning(inner) = [kind |-> kind, number |-> n]
  <2>1. Get(inner, "kind").is = "string" /\ Get(inner, "kind").text = kind /\ Get(inner, kind).value = n
    BY <1>3, PlainValues
  <2> HIDE DEF inner
  <2>2. StatusShape(inner)
    BY <1>3, <2>1 DEF StatusShape
  <2>3. StatusMeaning(inner) = [kind |-> kind, number |-> n]
    BY <2>1 DEF StatusMeaning
  <2>4. QED
    BY <2>2, <2>3
<1>6. \A number \in StatusNumber(inner) : isInteger(number)
  <2>1. StatusNumber(inner) = {Number(n)}
    BY <1>3 DEF StatusNumber
  <2>2. isInteger(Number(n))
    BY PlainValues DEF isInteger
  <2>3. QED
    BY <2>1, <2>2
<1> HIDE DEF inner
<1>7. QED
  BY <1>2, <1>3, <1>4, <1>5, <1>6, StatusesAreRead

\* And the status of a program whose exit is not known.
LEMMA UnavailableIsRead ==
    PageReads([type |-> "exit-status", status |-> [kind |-> "unavailable", number |-> 0]])
<1> DEFINE control == [type |-> "exit-status", status |-> [kind |-> "unavailable", number |-> 0]]
           inner == Object(<<Field("kind", String("unavailable"))>>)
<1>1. <<Field("kind", String("unavailable"))>> \o <<>> = <<Field("kind", String("unavailable"))>>
  BY Concatenations, Zenon
<1>2. encode_server_control(control) = Ok(Control("exit-status", <<Field("status", inner)>>))
  <2>1. control.type = "exit-status" /\ control.status.kind = "unavailable"
    OBVIOUS
  <2> DEFINE listed == <<Field("kind", String("unavailable"))>> \o <<>>
  <2>2. Object(listed) = inner
    BY <1>1, Zenon
  <2> HIDE DEF control, inner
  <2>3. encode_server_control(control) = Ok(Control("exit-status", <<Field("status", Object(listed))>>))
    BY <2>1 DEF encode_server_control, Require
  <2>4. QED
    BY <2>2, <2>3
<1>3. /\ inner.is = "object" /\ Proper(inner) /\ Keys(inner) = {"kind"}
      /\ Inside(inner) = {String("unavailable")} /\ Get(inner, "kind") = String("unavailable")
  <2>1. HoldsOne(inner, "kind", String("unavailable"))
    BY OneField, Zenon
  <2> HIDE DEF inner
  <2>2. QED
    BY <2>1, Zenon DEF HoldsOne
<1>4. \A value \in Inside(inner) : Sound(value) /\ Inside(value) = {}
  BY <1>3, PlainValues
<1>5. StatusShape(inner) /\ StatusMeaning(inner) = [kind |-> "unavailable", number |-> 0]
  <2>1. Get(inner, "kind").is = "string" /\ Get(inner, "kind").text = "unavailable"
    BY <1>3, PlainValues
  <2> HIDE DEF inner
  <2>2. QED
    BY <1>3, <2>1 DEF StatusShape, StatusMeaning
<1>6. \A number \in StatusNumber(inner) : isInteger(number)
  BY <1>3 DEF StatusNumber
<1> HIDE DEF inner
<1>7. QED
  BY <1>2, <1>3, <1>4, <1>5, <1>6, StatusesAreRead

\* The daemon reads every size the page sends.
LEMMA SizesAreRead ==
    ASSUME NEW cols, NEW rows
    PROVE  DaemonReads([type |-> "resize", cols |-> cols, rows |-> rows])
<1> DEFINE resize == [type |-> "resize", cols |-> cols, rows |-> rows]
           object == Object(<<Field("version", Number(1)), Field("type", String("resize")),
                              Field("cols", Number(cols)), Field("rows", Number(rows))>>)
           text == Text(object)
<1>1. Control("resize", <<Field("cols", Number(cols)), Field("rows", Number(rows))>>) = text
  <2>1. <<Field("version", Number(1)), Field("type", String("resize"))>>
            \o <<Field("cols", Number(cols)), Field("rows", Number(rows))>>
        = <<Field("version", Number(1)), Field("type", String("resize")),
            Field("cols", Number(cols)), Field("rows", Number(rows))>>
    BY Concatenations, ZenonT(60)
  <2>2. QED
    BY <2>1, Zenon DEF Control, PROTOCOL_VERSION
<1>2. text.value = object /\ text.unicode /\ text.whole /\ text.bytes <= MAX_CONTROL_BYTES
  BY DEF Text, MAX_CONTROL_BYTES
<1>3. /\ object.is = "object" /\ Proper(object) /\ Keys(object) = {"version", "type", "cols", "rows"}
      /\ Inside(object) = {Number(1), String("resize"), Number(cols), Number(rows)}
      /\ Get(object, "version") = Number(1) /\ Get(object, "type") = String("resize")
      /\ Get(object, "cols") = Number(cols) /\ Get(object, "rows") = Number(rows)
  <2>1. HoldsFour(object, "version", Number(1), "type", String("resize"),
                  "cols", Number(cols), "rows", Number(rows))
    BY FourFieldObject, Zenon
  <2> HIDE DEF object
  <2>2. QED
    BY <2>1, Zenon DEF HoldsFour
<1>4. encodeClientControl(resize) =
          Require({cols, rows} \subseteq 1 .. MAX_DIMENSION, "invalid-field", Ok(text))
  <2>1. resize.type = "resize" /\ resize.cols = cols /\ resize.rows = rows
    OBVIOUS
  <2> HIDE DEF resize, text
  <2>2. QED
    BY <1>1, <2>1 DEF encodeClientControl
<1>5. CASE ~ ({cols, rows} \subseteq 1 .. MAX_DIMENSION)
  <2> HIDE DEF text
  <2>1. ~ encodeClientControl(resize).ok
    BY <1>4, <1>5 DEF Require, Err
  <2>2. QED
    BY <2>1 DEF DaemonReads
<1>6. CASE {cols, rows} \subseteq 1 .. MAX_DIMENSION
  <2> HIDE DEF object, text
  <2>1. \A value \in Values(object) : Sound(value)
    <3>1. \A value \in Inside(object) : Sound(value) /\ Inside(value) = {}
      BY <1>3, PlainValues
    <3>2. QED
      BY <1>3, <3>1, SoundObject
  <2>2. parse_control(text) = Ok(object)
    <3>1. Parses(text) /\ ~ Surrogates(object)
      BY <1>2, <1>3, <2>1, WrittenTexts
    <3>2. QED
      BY <1>2, <3>1, Parsed
  <2>3. header(object) = Ok(String("resize"))
    <3>1. Typed(object) /\ as_u64(Get(object, "version"))
      BY <1>3, PlainValues DEF Typed, PROTOCOL_VERSION, as_u64
    <3>2. QED
      BY <1>3, <3>1, Headed
  <2>4. dimension(Get(object, "cols")) /\ dimension(Get(object, "rows"))
    <3>1. cols \in 1 .. MAX_DIMENSION /\ rows \in 1 .. MAX_DIMENSION
      BY <1>6
    <3>2. cols >= 0 /\ rows >= 0
      BY <3>1 DEF MAX_DIMENSION
    <3>3. QED
      BY <1>3, <3>1, <3>2, PlainValues DEF dimension, as_u64
  <2>5. Get(object, "cols").value = cols /\ Get(object, "rows").value = rows
    BY <1>3, PlainValues
  <2>6. decode_client_control(text) = Ok(resize)
    <3>1. decode_client_control(text) =
              exact_keys(object, {"version", "type", "cols", "rows"},
              Require(dimension(Get(object, "cols")) /\ dimension(Get(object, "rows")),
                      "invalid-field",
                      Ok([type |-> "resize", cols |-> Get(object, "cols").value,
                          rows |-> Get(object, "rows").value])))
      <4>1. String("resize").text = "resize"
        BY PlainValues
      <4>2. QED
        BY <2>2, <2>3, <4>1 DEF decode_client_control, AndThen, Ok
    <3> DEFINE read == Require(dimension(Get(object, "cols")) /\ dimension(Get(object, "rows")),
                               "invalid-field",
                               Ok([type |-> "resize", cols |-> Get(object, "cols").value,
                                   rows |-> Get(object, "rows").value]))
    <3>2. read = Ok(resize)
      BY <2>4, <2>5 DEF Require
    <3>3. decode_client_control(text) = exact_keys(object, {"version", "type", "cols", "rows"}, read)
      BY <3>1
    <3> HIDE DEF read, resize
    <3>4. QED
      BY <1>3, <3>2, <3>3 DEF exact_keys, Require
  <2>7. encodeClientControl(resize) = Ok(text)
    BY <1>4, <1>6 DEF Require
  <2>8. Ok(text).value = text
    BY DEF Ok
  <2> HIDE DEF resize
  <2>9. DaemonReads(resize)
    BY <2>6, <2>7, <2>8 DEF DaemonReads
  <2>10. QED
    BY <2>9 DEF resize
<1>7. QED
  BY <1>5, <1>6

-----------------------------------------------------------------------------
(* Texts of a connection.                                                   *)

\* A failure whose two controls the page reads.
Sayable(failure) ==
    PageReads(failure.controls[1]) /\ PageReads(failure.controls[2])

\* The first message is one of Texts; what is told is what the failure has, in order.
TextInv ==
    /\ first = <<>> \/ \E text \in Texts : first = <<text>>
    /\ LET controls == refusal.failure.controls
       IN  told = <<>> \/ told = <<controls[1]>> \/ told = <<controls[1], controls[2]>>
    /\ up \in {"denying", "telling"} \/ told # <<>> => Sayable(refusal.failure)

\* Both controls of every BridgeFailure are ones the page reads.
LEMMA FailuresAreSayable ==
    ASSUME NEW cause, NEW code, NEW reason \in CloseReasons, NEW frameCode
    PROVE  Sayable(Failure(cause, code, reason, frameCode))
<1> DEFINE failure == Failure(cause, code, reason, frameCode)
<1>1. /\ failure.controls[1] = [type |-> "error", code |-> String(code), message |-> String(code)]
      /\ failure.controls[2] = [type |-> "close", reason |-> reason]
  BY DEF Failure
<1>2. valid_error_code(String(code)) /\ valid_error_message(String(code))
  BY DEF String, valid_error_code, valid_error_message
<1>3. PageReads([type |-> "error", code |-> String(code), message |-> String(code)])
  BY <1>2, PlainValues, ErrorsAreRead
<1>4. PageReads([type |-> "close", reason |-> reason])
  BY ClosesAreRead
<1>5. QED
  BY <1>1, <1>3, <1>4, Zenon DEF Sayable

\* Whatever accept_upgrade answers can be said.
LEMMA AnswersAreSayable ==
    /\ Sayable(safe_ticket_error) /\ Sayable(protocol_failure)
    /\ \A error \in Errors : Sayable(safe_session_error(error))
<1>1. {"policy", "protocol-error", "internal-error"} \subseteq CloseReasons
  BY DEF CloseReasons
<1>2. Sayable(safe_ticket_error) /\ Sayable(protocol_failure)
  BY <1>1, FailuresAreSayable DEF safe_ticket_error, protocol_failure
<1>3. ASSUME NEW error \in Errors PROVE Sayable(safe_session_error(error))
  <2>1. PICK code \in {"session-denied", "session-unavailable", "ssh-host-key-failed",
                       "ssh-connection-failed", "ssh-authentication-failed", "ssh-policy-denied",
                       "ssh-failed"}, reason \in CloseReasons, frameCode \in {1008, 1011} :
            safe_session_error(error) = Failure(error, code, reason, frameCode)
    <3>1. error \in {"ManagerClosed", "ReservationUnavailable", "TargetUnavailable",
                     "BackendUnavailable", "SshPolicyDenied", "SpawnUnavailable",
                     "SshHostKeyFailed", "SshConnectionFailed", "SshAuthenticationFailed",
                     "SshFailed", "AuditUnavailable"}
      BY DEF Errors, Unrecorded, RecordedErrors
    <3>2. QED
      BY <1>1, <3>1 DEF safe_session_error
  <2>2. QED
    BY <2>1, FailuresAreSayable
<1>4. QED
  BY <1>2, <1>3

\* A connection begins without a message.
LEMMA TextInit == UpgradeInit => TextInv
  BY DEF UpgradeInit, TextInv

\* One control told, and a second.
LEMMA AppendSecond ==
    ASSUME NEW a, NEW b
    PROVE  Append(<<>>, a) = <<a>> /\ Append(<<a>>, b) = <<a, b>>
<1> DEFINE s == Append(<<a>>, b)
           t == <<a, b>>
<1>1. Append(<<>>, a) = <<a>>
  OBVIOUS
<1>2. <<a>> \in Seq({a, b}) /\ t \in Seq({a, b}) /\ Len(<<a>>) = 1 /\ Len(t) = 2
  OBVIOUS
<1>3. s \in Seq({a, b}) /\ Len(s) = 2 /\ s[1] = a /\ s[2] = b
  BY <1>2, AppendProperties
<1>4. t[1] = a /\ t[2] = b
  OBVIOUS
<1> HIDE DEF s, t
<1>5. \A i \in 1 .. Len(s) : s[i] = t[i]
  BY <1>3, <1>4
<1>6. s = t
  BY <1>2, <1>3, <1>5, SeqEqual
<1>7. QED
  BY <1>1, <1>6 DEF s, t

\* No step puts another text first or tells what the page does not read.
LEMMA TextStep == RefusalInv /\ TextInv /\ [UpgradeNext]_allVars => TextInv'
<1> SUFFICES ASSUME RefusalInv, TextInv, [UpgradeNext]_allVars PROVE TextInv'
  OBVIOUS
<1>1. ASSUME UNCHANGED <<first, told, refusal>>, up' \notin {"denying", "telling"} \/ up' = up
      PROVE  TextInv'
  BY <1>1 DEF TextInv
<1>2. ASSUME up' \in {"denying", "telling"}, told' = <<>>, Sayable(refusal'.failure),
             first' = <<>> \/ \E text \in Texts : first' = <<text>>
      PROVE  TextInv'
  BY <1>2 DEF TextInv
<1>3. first = <<>> \/ \E text \in Texts : first = <<text>>
  BY DEF TextInv
<1>4. ASSUME NEW reason, NEW failure, Sayable(failure), Denies(reason, failure), up \in Undecided,
             first' = <<>> \/ \E text \in Texts : first' = <<text>>
      PROVE  TextInv'
  <2>1. told' = <<>> /\ up' = "denying" /\ refusal'.failure = failure
    BY <1>4 DEF Denies, RefusalInv
  <2>2. QED
    BY <1>2, <1>4, <2>1
<1>5. ASSUME NEW failure, Sayable(failure), Tells(failure), UNCHANGED <<first, told>>, told = <<>>
      PROVE  TextInv'
  <2>1. up' = "telling" /\ refusal'.failure = failure
    BY <1>5 DEF Tells, RefusalInv
  <2>2. QED
    BY <1>2, <1>3, <1>5, <2>1
<1>6. CASE UpgradeRequest \/ Tick \/ ClientGone \/ SinkFails \/ Ping \/ ClientLeaves
           \/ Bridged(Next) \/ UNCHANGED allVars
  BY <1>1, <1>6 DEF UpgradeRequest, Tick, ClientGone, SinkFails, Ping, ClientLeaves, Bridged, upVars, allVars
<1>7. CASE HandshakeTimesOut \/ TooLarge \/ FirstBinary
  <2>1. PICK failure \in {safe_ticket_error, protocol_failure} : Denies("TicketMalformed", failure)
    BY <1>7 DEF HandshakeTimesOut, TooLarge, FirstBinary
  <2>2. up \in Undecided /\ first' = first
    BY <1>7 DEF HandshakeTimesOut, TooLarge, FirstBinary, Undecided
  <2>3. QED
    BY <1>3, <1>4, <2>1, <2>2, AnswersAreSayable
<1>8. ASSUME NEW text \in Texts, FirstText(text) PROVE TextInv'
  <2>1. first' = <<text>> /\ up \in Undecided
    BY <1>8 DEF FirstText, Undecided
  <2>2. CASE parse_handshake(text).ok
    <3>1. up' = "redeeming" /\ UNCHANGED <<told, refusal>> /\ told = <<>>
      BY <1>8, <2>1, <2>2 DEF FirstText, RefusalInv
    <3>2. QED
      BY <2>1, <3>1 DEF TextInv
  <2>3. CASE ~ parse_handshake(text).ok
    <3>1. PICK failure \in {safe_ticket_error, protocol_failure} : Denies("TicketMalformed", failure)
      BY <1>8, <2>3 DEF FirstText
    <3>2. QED
      BY <1>4, <2>1, <3>1, AnswersAreSayable
  <2>4. QED
    BY <2>2, <2>3
<1>9. CASE RecordTicketDenial
  <2>1. told = <<>> /\ UNCHANGED <<first, told>> /\ Sayable(refusal.failure)
    BY <1>9 DEF RecordTicketDenial, RefusalInv, TextInv
  <2>2. PICK failure \in {refusal.failure, safe_session_error("AuditUnavailable")} : Tells(failure)
    BY <1>9 DEF RecordTicketDenial
  <2>3. Sayable(failure)
    BY <2>1, AnswersAreSayable DEF Errors
  <2>4. QED
    BY <1>5, <2>1, <2>2, <2>3
<1>10. CASE Redeem
  <2>1. CASE up' = "starting" /\ UNCHANGED <<first, refusal, told>>
    BY <1>1, <2>1
  <2>2. ASSUME NEW reason, Denies(reason, safe_ticket_error), UNCHANGED first PROVE TextInv'
    BY <1>3, <1>4, <1>10, <2>2, AnswersAreSayable DEF Redeem, Undecided
  <2>3. QED
    BY <1>10, <2>1, <2>2 DEF Redeem
<1>11. CASE Start
  <2>1. ASSUME up' = "refused", UNCHANGED <<first, told, refusal>> PROVE TextInv'
    BY <1>1, <2>1
  <2>2. ASSUME NEW error \in Unrecorded, StartRefused(error) PROVE TextInv'
    BY <2>1, <2>2 DEF StartRefused
  <2>3. ASSUME NEW denial \in ssh_denial, StartDenied(denial[1], denial[2]) PROVE TextInv'
    BY <2>1, <2>3 DEF StartDenied
  <2>4. CASE StartUnaudited
    BY <2>1, <2>4 DEF StartUnaudited
  <2>5. CASE StartSucceeds
    <3>1. up' = "bridge" /\ first' = <<>> /\ UNCHANGED <<told, refusal>> /\ told = <<>>
      BY <2>5 DEF StartSucceeds, RefusalInv, Undecided
    <3>2. QED
      BY <3>1 DEF TextInv
  <2>6. QED
    BY <1>11, <2>2, <2>3, <2>4, <2>5 DEF Start
<1>12. CASE SessionRefused
  <2>1. told = <<>> /\ UNCHANGED <<first, told>> /\ result \in Errors
    BY <1>12 DEF SessionRefused, RefusalInv
  <2>2. PICK error \in {result, "AuditUnavailable"} : Tells(safe_session_error(error))
    BY <1>12 DEF SessionRefused
  <2>3. Sayable(safe_session_error(error))
    BY <2>1, AnswersAreSayable DEF Errors
  <2>4. QED
    BY <1>5, <2>1, <2>2, <2>3
<1>13. CASE Tell
  <2> DEFINE controls == refusal.failure.controls
  <2>1. UNCHANGED <<first, refusal>> /\ Sayable(refusal.failure)
    BY <1>13 DEF Tell, TextInv
  <2>2. told' = <<>> \/ told' = <<controls[1]>> \/ told' = <<controls[1], controls[2]>>
    <3>1. CASE told = <<>>
      BY <1>13, <3>1, AppendSecond DEF Tell
    <3>2. CASE told = <<controls[1]>>
      BY <1>13, <3>2, AppendSecond DEF Tell
    <3>3. CASE told = <<controls[1], controls[2]>>
      BY <1>13, <3>3 DEF Tell
    <3>4. QED
      BY <3>1, <3>2, <3>3 DEF TextInv
  <2>3. QED
    BY <1>3, <2>1, <2>2 DEF TextInv
<1>14. CASE Accept
  BY <1>7, <1>9, <1>10, <1>11, <1>12, <1>14 DEF Accept
<1>15. QED
  BY <1>6, <1>7, <1>8, <1>13, <1>14 DEF UpgradeNext

\* The connection's invariant says what the run checks.
LEMMA TextInvShows == TextInv => TextsMeanOneThing
<1> SUFFICES ASSUME TextInv PROVE TextsMeanOneThing
  OBVIOUS
<1>1. \A text \in ToSet(first) : OneMeaning(text)
  <2>1. ASSUME NEW text \in ToSet(first) PROVE text \in Texts
    BY DEF TextInv, ToSet
  <2>2. QED
    BY <2>1, TextsAssumption, EachTextHasOneMeaning
<1>2. \A control \in ToSet(told) : PageReads(control)
  <2> DEFINE controls == refusal.failure.controls
  <2>1. \/ told = <<>>
        \/ PageReads(controls[1]) /\ PageReads(controls[2])
           /\ (told = <<controls[1]>> \/ told = <<controls[1], controls[2]>>)
    BY DEF TextInv, Sayable
  <2>2. ASSUME NEW control \in ToSet(told)
        PROVE  told # <<>> /\ (control = controls[1] \/ control = controls[2])
    <3>1. PICK i \in DOMAIN told : control = told[i]
      BY <2>2 DEF ToSet
    <3>2. QED
      BY <2>1, <3>1
  <2>3. QED
    BY <2>1, <2>2
<1>3. ASSUME NEW status \in Statuses PROVE PageReads([type |-> "exit-status", status |-> status])
  <2>1. \/ \E n \in StatusRange("code") : status = [kind |-> "code", number |-> n]
        \/ \E n \in StatusRange("signal") : status = [kind |-> "signal", number |-> n]
        \/ status = [kind |-> "unavailable", number |-> 0]
    BY DEF Statuses, StatusRange
  <2>2. QED
    BY <2>1, NumbersAreRead, UnavailableIsRead
<1>4. \A cols, rows \in Sizes : DaemonReads([type |-> "resize", cols |-> cols, rows |-> rows])
  BY SizesAreRead
<1>5. QED
  BY <1>1, <1>2, <1>3, <1>4 DEF TextsMeanOneThing

\* Both ends read every text alike: for every set of first messages, whatever the
\* daemon says in a refusal or of an exit and every size a page sends (protocol.rs,
\* protocol.ts, parse_handshake, send_failure).
THEOREM OneMeaningForBoth == UpgradeSpec => []TextsMeanOneThing
<1>1. UpgradeInit => RefusalInv /\ TextInv
  BY RefusalInit, TextInit
<1>2. (RefusalInv /\ TextInv) /\ [UpgradeNext]_allVars => (RefusalInv /\ TextInv)'
  BY RefusalStep, TextStep
<1>3. QED
  BY <1>1, <1>2, TextInvShows, PTL DEF UpgradeSpec

-----------------------------------------------------------------------------
(* Types of a connection.                                                   *)

\* What the types of accept_upgrade add to those of the bridge.
ClockInv == left \in 0 .. HANDSHAKE_DEADLINE /\ sink \in {"ok", "failed"}

\* Nothing moves the deadline but time, and nothing mends the sink.
LEMMA ClockStep == ClockInv /\ [UpgradeNext]_allVars => ClockInv'
<1> SUFFICES ASSUME ClockInv, [UpgradeNext]_allVars PROVE ClockInv'
  OBVIOUS
<1>1. left' \in 0 .. HANDSHAKE_DEADLINE
  <2>1. ASSUME left' \in {left, 0} PROVE left' \in 0 .. HANDSHAKE_DEADLINE
    BY <2>1, DeadlineAssumption DEF ClockInv
  <2>2. CASE \/ UpgradeRequest \/ TooLarge \/ FirstBinary \/ ClientGone \/ ClientLeaves \/ Ping \/ Tell
             \/ SinkFails \/ Bridged(Next) \/ UNCHANGED allVars
    <3>1. left' = left
      BY <2>2 DEF UpgradeRequest, TooLarge, FirstBinary, ClientGone, ClientLeaves, Ping, Tell, SinkFails,
                  Denies, Bridged, upVars, allVars
    <3>2. QED
      BY <2>1, <3>1
  <2>3. CASE Tick
    BY <2>3, DeadlineAssumption DEF Tick, ClockInv
  <2>4. ASSUME NEW text \in Texts, FirstText(text) PROVE left' \in 0 .. HANDSHAKE_DEADLINE
    <3>1. left' = left
      BY <2>4 DEF FirstText, Denies
    <3>2. QED
      BY <2>1, <3>1
  <2>5. CASE HandshakeTimesOut \/ RecordTicketDenial \/ Redeem \/ SessionRefused
    <3>1. left' = left
      BY <2>5 DEF HandshakeTimesOut, RecordTicketDenial, Redeem, SessionRefused, Denies
    <3>2. QED
      BY <2>1, <3>1
  <2>6. CASE Start
    <3>1. left' = left \/ left' = 0
      BY <2>6 DEF Start, StartRefused, StartDenied, StartUnaudited, StartSucceeds
    <3>2. QED
      BY <2>1, <3>1
  <2>7. QED
    BY <2>2, <2>3, <2>4, <2>5, <2>6 DEF UpgradeNext, Accept
<1>2. sink' \in {"ok", "failed"}
  BY DEF ClockInv, UpgradeNext, UpgradeRequest, Tick, TooLarge, FirstBinary, ClientGone, ClientLeaves,
         Ping, Tell, SinkFails, Accept, HandshakeTimesOut, RecordTicketDenial, Redeem, Start,
         SessionRefused, Denies, StartRefused, StartDenied, StartUnaudited, StartSucceeds, FirstText,
         Bridged, Recorded, NotRecorded, upVars, allVars
<1>3. QED
  BY <1>1, <1>2 DEF ClockInv

\* Type correctness of a connection and its bridge.
THEOREM UpgradeTypes == UpgradeSpec => []UpgradeTypeOK
<1>1. UpgradeInit => RefusalInv /\ TextInv /\ ClockInv
  BY RefusalInit, TextInit, DeadlineAssumption DEF UpgradeInit, ClockInv
<1>2. (RefusalInv /\ TextInv /\ ClockInv) /\ [UpgradeNext]_allVars => (RefusalInv /\ TextInv /\ ClockInv)'
  BY RefusalStep, TextStep, ClockStep
<1>3. BridgeInv /\ RefusalInv /\ TextInv /\ ClockInv => UpgradeTypeOK
  <2>1. SUFFICES ASSUME BridgeInv, RefusalInv, TextInv, ClockInv PROVE UpgradeTypeOK
    OBVIOUS
  <2>2. TypeOK
    BY <2>1, BridgeInvShows
  <2>3. /\ Len(<<>>) = 0 /\ \A one : Len(<<one>>) = 1
        /\ \A one, two : Len(<<one, two>>) = 2
    OBVIOUS
  <2> DEFINE m == Len(first)
             n == Len(told)
  <2>4. m \in {0, 1}
    BY <2>1, <2>3 DEF TextInv
  <2>5. n \in {0, 1, 2}
    <3> DEFINE controls == refusal.failure.controls
    <3>1. told = <<>> \/ told = <<controls[1]>> \/ told = <<controls[1], controls[2]>>
      BY <2>1 DEF TextInv
    <3> HIDE DEF controls
    <3>2. QED
      BY <2>3, <3>1
  <2> HIDE DEF m, n
  <2>6. m <= 1 /\ n <= 2
    BY <2>4, <2>5
  <2>7. up \in {"request", "handshake", "denying", "redeeming", "starting", "refused", "telling",
               "bridge", "over"}
    BY <2>1 DEF RefusalInv, Undecided
  <2>8. QED
    BY <2>1, <2>2, <2>6, <2>7 DEF UpgradeTypeOK, ClockInv, m, n
<1>4. QED
  BY <1>1, <1>2, <1>3, BridgeInvariant, PTL DEF UpgradeSpec
=============================================================================
