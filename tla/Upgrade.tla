------------------------------ MODULE Upgrade -------------------------------
(***************************************************************************)
(* One WebSocket from the upgrade to its end: upgrade_websocket            *)
(* (server.rs), accept_upgrade (websocket.rs) with its deadline, the first *)
(* message, the ticket, the start of the session (session.rs) and the      *)
(* denial records of both, then the bridge of module Bridge.               *)
(*                                                                         *)
(* Redemption and start are what SessionAdmission and SessionLifecycle say *)
(* of them: any of their outcomes.  The audit sink may fail at any time.   *)
(***************************************************************************)
EXTENDS Bridge, Codec

CONSTANTS
    Texts,              \* first messages a client may send as text
    Sizes,              \* dimensions a page may have
    HANDSHAKE_DEADLINE  \* in ticks

\* The words of the protocol; they have letters and hyphens, whoever writes them.
ProtocolWords == CloseReasons \cup {"resize", "close", "exit-status", "error",
                                    "code", "signal", "unavailable"}

\* A text as module Codec describes it: its objects list their fields, and what is
\* said of a string that is a word of the protocol is true of that word.
IsText(text) ==
    \A value \in Values(text.value) :
        /\ value.is = "object" => /\ Len(value.fields) \in Nat
                                  /\ DOMAIN value.fields = 1 .. Len(value.fields)
        /\ value.is = "string" /\ value.text \in ProtocolWords => value.chars \subseteq {"lower", "hyphen"}

ASSUME TextsAssumption == \A text \in Texts : IsText(text)

ASSUME DeadlineAssumption == HANDSHAKE_DEADLINE \in Nat

VARIABLES
    up,        \* where accept_upgrade is
    left,      \* ticks to the deadline of the first message
    first,     \* the first message
    result,    \* the error of start_reserved_with_remote
    refusal,   \* the denial to record and the failure to send
    records,   \* denial records of this connection
    told,      \* controls sent by send_failure
    sink       \* the audit log: "ok" or "failed"

upVars == <<up, left, first, result, refusal, records, told, sink>>
allVars == <<vars, upVars>>

\* A BridgeFailure: the error control, the close reason and the close frame's code.
Failure(cause, code, reason, websocket_code) ==
    [cause |-> cause, frame |-> websocket_code,
     controls |-> <<[type |-> "error", code |-> String(code), message |-> String(code)],
                    [type |-> "close", reason |-> reason]>>]

safe_ticket_error == Failure("Ticket", "authorization-denied", "policy", 1008)
protocol_failure == Failure("TooLarge", "protocol-error", "protocol-error", 1009)

safe_session_error(error) ==
    CASE error \in {"TargetUnavailable", "ManagerClosed", "ReservationUnavailable"} ->
            Failure(error, "session-denied", "policy", 1008)
      [] error \in {"SpawnUnavailable", "BackendUnavailable", "AuditUnavailable"} ->
            Failure(error, "session-unavailable", "internal-error", 1011)
      [] error = "SshHostKeyFailed" ->
            Failure(error, "ssh-host-key-failed", "internal-error", 1011)
      [] error = "SshConnectionFailed" ->
            Failure(error, "ssh-connection-failed", "internal-error", 1011)
      [] error = "SshAuthenticationFailed" ->
            Failure(error, "ssh-authentication-failed", "policy", 1008)
      [] error = "SshPolicyDenied" -> Failure(error, "ssh-policy-denied", "policy", 1008)
      [] error = "SshFailed" -> Failure(error, "ssh-failed", "internal-error", 1011)

-----------------------------------------------------------------------------
(* Audit records.                                                           *)

Recorded(reason) == sink = "ok" /\ records' = Append(records, reason) /\ UNCHANGED sink

\* The sink has failed or fails now, or there is no entropy or no clock.
NotRecorded == sink' \in {sink, "failed"} /\ UNCHANGED records

\* Another thread's record fails.
SinkFails ==
    /\ up \notin {"bridge", "over"} /\ sink = "ok"
    /\ sink' = "failed"
    /\ UNCHANGED <<vars, up, left, first, result, refusal, records, told>>

Tells(failure) == up' = "telling" /\ refusal' = [refusal EXCEPT !.failure = failure]

-----------------------------------------------------------------------------
(* The upgrade and the first message.                                       *)

\* upgrade_websocket: a query, a subprotocol or AuthGate refuses, or it is granted.
UpgradeRequest ==
    /\ up = "request"
    /\ up' \in {"handshake", "over"}
    /\ UNCHANGED <<vars, left, first, result, refusal, records, told, sink>>

Tick ==
    /\ up = "handshake" /\ left > 0
    /\ left' = left - 1
    /\ UNCHANGED <<vars, up, first, result, refusal, records, told, sink>>

\* Pings and pongs are passed over; the deadline stands.
Ping ==
    /\ up = "handshake" /\ link = "up"
    /\ UNCHANGED allVars

\* deny_ticket and the two branches for messages that are too large.
Denies(reason, failure) ==
    /\ up' = "denying"
    /\ refusal' = [reason |-> reason, failure |-> failure]
    /\ UNCHANGED <<vars, left, result, records, told, sink>>

HandshakeTimesOut ==
    /\ up = "handshake" /\ left = 0
    /\ Denies("TicketMalformed", safe_ticket_error) /\ UNCHANGED first

\* The first message: beyond max_message_size, binary, or a text.
TooLarge ==
    /\ up = "handshake" /\ link = "up"
    /\ Denies("TicketMalformed", protocol_failure) /\ UNCHANGED first

FirstBinary ==
    /\ up = "handshake" /\ link = "up"
    /\ Denies("TicketMalformed", safe_ticket_error) /\ UNCHANGED first

FirstText(text) ==
    /\ up = "handshake" /\ link = "up"
    /\ first' = <<text>>
    /\ LET ticket == parse_handshake(text)
       IN  \/ /\ ticket.ok /\ up' = "redeeming"
              /\ UNCHANGED <<vars, left, result, refusal, records, told, sink>>
           \/ /\ ~ ticket.ok
              /\ Denies("TicketMalformed", IF ticket.code = "TooLarge" THEN protocol_failure
                                           ELSE safe_ticket_error)

\* A close frame, an error or the end of the stream: nothing is owed to anybody.
ClientGone ==
    /\ up = "handshake" /\ link = "down"
    /\ up' = "over"
    /\ UNCHANGED <<vars, left, first, result, refusal, records, told, sink>>

ClientLeaves ==
    /\ up \notin {"request", "bridge", "over"} /\ LinkBreaks
    /\ UNCHANGED upVars

\* record_ticket_denial, and what deny_ticket answers.
RecordTicketDenial ==
    /\ up = "denying"
    /\ \/ Recorded(refusal.reason) /\ Tells(refusal.failure)
       \/ NotRecorded /\ Tells(safe_session_error("AuditUnavailable"))
    /\ UNCHANGED <<vars, left, first, result, told>>

\* TicketStore::redeem, refusing with one of its errors; "Malformed" is its own check
\* of the token.
Redeem ==
    /\ up = "redeeming"
    /\ \/ /\ up' = "starting"
          /\ UNCHANGED <<vars, left, first, result, refusal, records, told, sink>>
       \/ /\ \E reason \in {"TicketMalformed", "TicketUnknown", "TicketExpired",
                            "TicketWrongIdentity"} : Denies(reason, safe_ticket_error)
          /\ UNCHANGED first

-----------------------------------------------------------------------------
(* start_reserved_with_remote.                                              *)

\* Errors the session manager returns without a record of its own.
Unrecorded == {"ManagerClosed", "ReservationUnavailable", "TargetUnavailable", "BackendUnavailable"}

\* record_backend_resolution_denial, the failed spawn, and ssh_denial: what the
\* session manager records before it returns an error.
ssh_denial ==
    {<<"SshPolicyDenied", "SshUserPolicyDenied">>, <<"SpawnUnavailable", "SessionUnavailable">>,
     <<"SshHostKeyFailed", "UnknownHostKey">>, <<"SshHostKeyFailed", "HostKeyMismatch">>,
     <<"SshConnectionFailed", "SshConnectionFailed">>,
     <<"SshAuthenticationFailed", "SshAuthenticationFailed">>, <<"SshFailed", "SshFailed">>}

StartRefused(error) ==
    /\ up = "starting"
    /\ up' = "refused" /\ result' = error
    /\ UNCHANGED <<vars, left, first, refusal, records, told, sink>>

StartDenied(error, reason) ==
    /\ up = "starting"
    /\ up' = "refused"
    /\ \/ Recorded(reason) /\ result' = error
       \/ NotRecorded /\ result' = "AuditUnavailable"
    /\ UNCHANGED <<vars, left, first, refusal, told>>

\* session_started is not written.
StartUnaudited ==
    /\ up = "starting"
    /\ up' = "refused" /\ result' = "AuditUnavailable"
    /\ NotRecorded
    /\ UNCHANGED <<vars, left, first, refusal, told>>

\* The session is handed over and accept_upgrade goes on as bridge.
StartSucceeds ==
    /\ up = "starting" /\ sink = "ok"
    /\ up' = "bridge"
    /\ left' = 0 /\ first' = <<>>
    /\ UNCHANGED <<vars, result, refusal, records, told, sink>>

\* Mutant: every error of the session is recorded here.
DenialOfEverything(error) ==
    CASE error = "ReservationUnavailable" -> "TicketExpired"
      [] error = "TargetUnavailable" -> "TargetUnavailable"
      [] error \in {"SpawnUnavailable", "AuditUnavailable"} -> "none"
      [] OTHER -> "SessionUnavailable"

\* What accept_upgrade has record_session_denial record; "none" where the session
\* manager did, or could not.
DenialOf(error) ==
    CASE error = "ReservationUnavailable" -> "TicketExpired"
      [] error = "TargetUnavailable" -> "TargetUnavailable"
      [] error \in {"ManagerClosed", "BackendUnavailable"} -> "SessionUnavailable"
      [] OTHER -> "none"

SessionRefused ==
    /\ up = "refused"
    /\ LET reason == DenialOf(result)
       IN  \/ reason = "none" /\ Tells(safe_session_error(result)) /\ UNCHANGED <<records, sink>>
           \/ reason # "none" /\ Recorded(reason) /\ Tells(safe_session_error(result))
           \/ reason # "none" /\ NotRecorded /\ Tells(safe_session_error("AuditUnavailable"))
    /\ UNCHANGED <<vars, left, first, result, told>>

\* send_failure: the error, the close, the close frame; a failed send is ignored.
Tell ==
    /\ up = "telling"
    /\ IF Len(told) < 2
       THEN told' = Append(told, refusal.failure.controls[Len(told) + 1]) /\ UNCHANGED up
       ELSE up' = "over" /\ UNCHANGED told
    /\ UNCHANGED <<vars, left, first, result, refusal, records, sink>>

-----------------------------------------------------------------------------
UpgradeInit ==
    /\ Init
    /\ up = "request" /\ left = HANDSHAKE_DEADLINE /\ first = <<>>
    /\ result = "none"
    /\ refusal = [reason |-> "none", failure |-> [cause |-> "none"]]
    /\ records = <<>> /\ told = <<>> /\ sink \in {"ok", "failed"}

\* A step of the bridge, once accept_upgrade has called it.
Bridged(A) == up = "bridge" /\ A /\ UNCHANGED upVars

\* start_reserved_with_remote returns.
Start ==
    \/ \E error \in Unrecorded : StartRefused(error)
    \/ \E denial \in ssh_denial : StartDenied(denial[1], denial[2])
    \/ StartUnaudited \/ StartSucceeds

\* What accept_upgrade does of itself, once it has a message or the deadline is over.
Accept == HandshakeTimesOut \/ RecordTicketDenial \/ Redeem \/ Start \/ SessionRefused

UpgradeNext ==
    \/ UpgradeRequest \/ Ping \/ Tick \/ TooLarge \/ FirstBinary \/ ClientGone \/ ClientLeaves
    \/ \E text \in Texts : FirstText(text)
    \/ Accept \/ Tell \/ SinkFails
    \/ Bridged(Next)

\* Time passes, the runtime polls the tasks, and a session that is started or asked to
\* close gets there (CallerIsAnswered and EverySessionEnds of SessionLifecycle).  The
\* client owes nothing, and the transport need never take a frame.
UpgradeSpec ==
    /\ UpgradeInit /\ [][UpgradeNext]_allVars
    /\ WF_allVars(Tick) /\ WF_allVars(Accept)
    /\ WF_allVars(Bridged(BridgeNext)) /\ WF_allVars(Bridged(ReaderNext))
    /\ WF_allVars(Bridged(WriterNext))
    /\ WF_allVars(Bridged(\E r \in Requests : SessionEnds(r)))
    /\ WF_allVars(Bridged(SessionCloses))

-----------------------------------------------------------------------------
(* Properties.                                                              *)

UpgradeTypeOK ==
    /\ TypeOK
    /\ up \in {"request", "handshake", "denying", "redeeming", "starting", "refused", "telling",
               "bridge", "over"}
    /\ left \in 0 .. HANDSHAKE_DEADLINE
    /\ Len(first) <= 1 /\ Len(told) <= 2 /\ sink \in {"ok", "failed"}

\* A client that is refused hears of it once exactly one denial is on record, written
\* by the session manager or by accept_upgrade and never by both; with none, it is told
\* that the session is unavailable (record_denial and ssh_denial in session.rs,
\* record_ticket_denial and record_session_denial in websocket.rs).
RefusalsAreRecorded ==
    up = "telling" \/ told # <<>> =>
        Len(records) = IF refusal.failure.cause = "AuditUnavailable" THEN 0 ELSE 1

\* No number in the text is written with a point or an exponent.
Plainly(value) == \A inner \in Values(value) : inner.is = "number" => inner.written = "integer"

Statuses == {[kind |-> "code", number |-> n] : n \in {0, 255}}
            \cup {[kind |-> "signal", number |-> n] : n \in {1, 127}}
            \cup {[kind |-> "unavailable", number |-> 0]}

\* A text is a ticket, a message of the client or one of the server and not two of
\* them, and the two programs read it alike as long as its numbers are plain.
OneMeaning(text) ==
    LET rust == decode_server_control(text)
        page == decodeServerControl(text)
    IN  /\ Plainly(text.value) => (rust.ok <=> page.ok) /\ (rust.ok => rust.value = page.value)
        /\ ~ (parse_handshake(text).ok /\ decode_client_control(text).ok)
        /\ ~ (rust.ok /\ (parse_handshake(text).ok \/ decode_client_control(text).ok))

PageReads(control) ==
    LET text == encode_server_control(control)
    IN  text.ok /\ decodeServerControl(text.value) = Ok(control)

DaemonReads(resize) ==
    LET text == encodeClientControl(resize)
    IN  text.ok => decode_client_control(text.value) = Ok(resize)

\* What crosses the socket means one thing to both ends (protocol.rs, protocol.ts,
\* parse_handshake): whatever text comes first, what the daemon says in a refusal or of
\* an exit, and the size a page sends.
TextsMeanOneThing ==
    up # "bridge" =>
        /\ \A text \in ToSet(first) : OneMeaning(text)
        /\ \A control \in ToSet(told) : PageReads(control)
        /\ \A status \in Statuses : PageReads([type |-> "exit-status", status |-> status])
        /\ \A cols, rows \in Sizes : DaemonReads([type |-> "resize", cols |-> cols, rows |-> rows])

\* A client that says nothing, or only sends pings, does not keep a socket: the first
\* message has a deadline that nothing moves, and what follows it comes to a bridge or
\* a refusal (accept_upgrade).  A bridge whose session is over or that was cancelled
\* ends, but for a client that stops reading in the very end (bridge, finish_bridge).
ConnectionEnds ==
    /\ up = "handshake" ~> up \in {"telling", "bridge", "over"}
    /\ BridgeEnds
=============================================================================
