----------------------------- MODULE AuthGate -----------------------------
(***************************************************************************)
(* The way of a request through the authority API (server.rs): the audit   *)
(* and origin checks of the middleware, the provisional failure slot of    *)
(* its peer, the cookie, a new browser session (BrowserSessionStore in     *)
(* auth.rs), the budget of session requests and the audit record without   *)
(* which nothing is answered (AuditLog).  Handlers run on several threads; *)
(* every lock they take is a step, the release of a slot going with the    *)
(* decision that causes it.  The daemon may die and start again.           *)
(*                                                                         *)
(* Both limiters are what RateLimiter establishes: exact counts per        *)
(* window.  Behind Issue lie the reservation and ticket of                 *)
(* SessionAdmission.                                                       *)
(***************************************************************************)
EXTENDS AuditLog, Integers, Sequences, FiniteSets, SequencesExt

CONSTANTS
  Requests,      \* requests
  Peers,         \* peer addresses
  Trusted,       \* the ones the provider listens to
  Identities,    \* identities the provider knows
  FailureLimit,  \* authentication_failures_per_window
  SessionLimit,  \* session_requests_per_window
  MaxSessions,   \* MAX_SESSIONS of the store
  MaxTokens,     \* bound: browser sessions established
  MaxWindows,    \* bound: windows of a peer
  Unknown, Twice, \* no cookie or one nobody was given; two cookie headers
  None           \* "no value"

ASSUME GateAssumption ==
  /\ Trusted \subseteq Peers
  /\ {FailureLimit, SessionLimit, MaxSessions} \subseteq Nat \ {0}
  /\ {MaxTokens, MaxWindows} \subseteq Nat

VARIABLES
  log,        \* the whole records in the audit file: <<request, note>>
  bucket,     \* per peer: window and count of the failure limiter
  committed,  \* failures committed: <<peer, window, request>> (history)
  spent,      \* session requests of an identity in the current window
  store,      \* BrowserSessionStore, oldest first: <<token, identity>>
  tokens,     \* tokens generated so far; a token is its number
  req         \* the requests

vars == <<logVars, log, bucket, committed, spent, store, tokens, req>>

Kinds == {"identity", "targets", "sessions", "ws"}
Idle == [pc |-> "idle", kind |-> None, peer |-> None, cookie |-> None, window |-> 0,
         who |-> None, token |-> None, note |-> None, answer |-> None]

\* What is left of an answered request: its record, the answer and the cookie.
Answered(q, answer) == [Idle EXCEPT !.pc = "done", !.token = q.token, !.note = q.note, !.answer = answer]

\* The request goes on at pc, or ends with an answer.
Goes(r, pc) == req' = [req EXCEPT ![r].pc = pc]
Ends(r, answer) == req' = [req EXCEPT ![r] = Answered(@, answer)]

\* It writes a record and, once that is written, gives the answer.
Records(q, note, answer) == [q EXCEPT !.pc = "record", !.note = note, !.answer = answer]

----------------------------------------------------------------------------
\* enforce_authority_origin; upgrade_websocket checks its request first.
Arrive(r, kind, peer, cookie) ==
  LET q == [Idle EXCEPT !.kind = kind, !.peer = peer, !.cookie = cookie] IN
  /\ req[r].pc = "idle" /\ sink # "closed"
  /\ \/ sink = "failed" /\ Ends(r, "unavailable")
     \/ sink = "ok" /\ req' = [req EXCEPT ![r] = Records(q, "origin-denied", "forbidden")]
     \/ sink = "ok" /\ kind = "ws" /\ Ends(r, "invalid")
     \/ sink = "ok" /\ req' = [req EXCEPT ![r] = [q EXCEPT !.pc = "begin"]]
  /\ UNCHANGED <<logVars, log, bucket, committed, spent, store, tokens>>

\* What begin leaves of the count: the attempt holds a failure slot.
Claimed(count) == count + 1

\* Mutant: one attempt too many.
ExhaustedLate(count) == count > FailureLimit
\* No slot is left in the window.
Exhausted(count) == count >= FailureLimit

\* begin_authentication_attempt; the window may have elapsed.  A peer without a bucket
\* may find the table full of others (LIMITER_KEY_CAPACITY).
Begin(r) ==
  \E turned \in {0, 1}, full \in BOOLEAN :
    LET p == req[r].peer
        b == IF turned = 1 THEN [window |-> bucket[p].window + 1, count |-> 0] ELSE bucket[p]
    IN /\ req[r].pc = "begin"
       /\ b.window <= MaxWindows
       /\ full => b.count = 0
       /\ IF full \/ Exhausted(b.count)
            THEN /\ req' = [req EXCEPT ![r] = Records(@, "authentication-rate-limited", "limited")]
                 /\ bucket' = [bucket EXCEPT ![p] = b]
            ELSE /\ req' = [req EXCEPT ![r] = [@ EXCEPT !.pc = "held", !.window = b.window]]
                 /\ bucket' = [bucket EXCEPT ![p] = [b EXCEPT !.count = Claimed(@)]]
       /\ UNCHANGED <<logVars, log, committed, spent, store, tokens>>

\* Attempt::commit.
Commit(r) == committed' = committed \cup {<<req[r].peer, req[r].window, r>>} /\ UNCHANGED bucket

\* Mutant: the slot is given back to whatever window there is.
RollbackInAnyWindow(r) ==
  /\ bucket' = [bucket EXCEPT ![req[r].peer].count = IF @ > 0 THEN @ - 1 ELSE 0]
  /\ UNCHANGED committed
\* Attempt::rollback: only in the window the slot was taken in.
Rollback(r) ==
  /\ bucket' = IF bucket[req[r].peer].window = req[r].window
                 THEN [bucket EXCEPT ![req[r].peer].count = IF @ > 0 THEN @ - 1 ELSE 0] ELSE bucket
  /\ UNCHANGED committed

\* BrowserSessionStore::authenticate: the identity a cookie stands for.
Lookup(cookie) == {store[i][2] : i \in {j \in DOMAIN store : store[j][1] = cookie}}

\* AuthProvider::authenticate: cookies are looked up for a trusted peer only.
Accepted(peer, cookie) == IF peer \in Trusted THEN Lookup(cookie) ELSE {}

\* AuthProvider::establish: the identities a request may claim in its header.
Provided(peer) == IF peer \in Trusted THEN Identities ELSE {}

\* The provider accepts the cookie.  "accepted" stands for what a request for the
\* targets then gets, the list or a refusal of its body, and for an upgrade.
Authenticated(r) ==
  \E who \in Accepted(req[r].peer, req[r].cookie) :
    /\ req[r].pc = "held"
    /\ Rollback(r)
    /\ req' = [req EXCEPT ![r] =
         CASE req[r].kind = "identity" -> [Records(@, "authenticated", "no-content") EXCEPT !.who = who]
           [] req[r].kind = "sessions" -> [@ EXCEPT !.pc = "spend", !.who = who]
           [] OTHER -> Answered(@, "accepted")]
    /\ UNCHANGED <<logVars, log, spent, store, tokens>>

\* It rejects the cookie or the peer: a failure, unless the request asks for a
\* new session with at most one cookie header.
Rejected(r) ==
  /\ req[r].pc = "held" /\ Accepted(req[r].peer, req[r].cookie) = {}
  /\ \/ /\ req[r].kind = "identity" /\ req[r].cookie # Twice
        /\ Goes(r, "establish") /\ UNCHANGED <<bucket, committed>>
     \/ /\ req[r].kind # "identity" \/ req[r].cookie = Twice
        /\ Commit(r)
        /\ req' = [req EXCEPT ![r] = Records(@, "identity-required", "unauthorized")]
  /\ UNCHANGED <<logVars, log, spent, store, tokens>>

\* A full store drops its oldest session.
Evicted == IF Len(store) >= MaxSessions THEN Tail(store) ELSE store

\* BrowserSessionStore::establish.
Stored(token, who) == Append(Evicted, <<token, who>>)

\* A new session, then the release of the failure slot.
Establish(r, who) ==
  /\ req[r].pc = "establish" /\ who \in Provided(req[r].peer) /\ tokens < MaxTokens
  /\ tokens' = tokens + 1
  /\ store' = Stored(tokens', who)
  /\ Rollback(r)
  /\ req' = [req EXCEPT ![r] = [Records(@, "authenticated", "cookie") EXCEPT !.who = who, !.token = tokens']]
  /\ UNCHANGED <<logVars, log, spent>>

\* The provider has no identity for the request, or no token could be made,
\* which may have cost the oldest session.
EstablishFails(r) ==
  /\ req[r].pc = "establish"
  /\ store' \in {store} \cup {Evicted : who \in Provided(req[r].peer)}
  /\ Commit(r)
  /\ req' = [req EXCEPT ![r] = Records(@, "identity-unavailable", "no-identity")]
  /\ UNCHANGED <<logVars, log, spent, tokens>>

\* create_session: the budget of the identity, spent at once; a new identity may find
\* the table full.
Spend(r) ==
  LET who == req[r].who IN
  /\ req[r].pc = "spend"
  /\ \/ /\ spent[who] = 0 \/ spent[who] >= SessionLimit
        /\ req' = [req EXCEPT ![r] = Records(@, "session-rate-limited", "limited")]
        /\ UNCHANGED spent
     \/ /\ spent[who] < SessionLimit
        /\ Goes(r, "issue")
        /\ spent' = [spent EXCEPT ![who] = @ + 1]
  /\ UNCHANGED <<logVars, log, bucket, committed, store, tokens>>

\* The window of an identity's session requests is over.
SessionWindowTurns(who) ==
  /\ spent[who] > 0
  /\ spent' = [spent EXCEPT ![who] = 0]
  /\ UNCHANGED <<logVars, log, bucket, committed, store, tokens, req>>

\* Mutant: a ticket is issued on the word of the middleware.
TicketWithoutGuard == TRUE
\* authority_guard.
AuthorityGuard == sink = "ok"

\* A ticket under the guard; before it a malformed body or a manager that is closing
\* ("invalid"), an unknown target or a full ledger or ticket store ("denied") end the
\* request.
Issue(r) ==
  /\ req[r].pc = "issue"
  /\ \/ Ends(r, "invalid")
     \/ req' = [req EXCEPT ![r] = Records(@, "session-denied", "denied")]
     \/ AuthorityGuard /\ Ends(r, "ticket")
     \/ ~AuthorityGuard /\ Ends(r, "unavailable")
  /\ UNCHANGED <<logVars, log, bucket, committed, spent, store, tokens>>

\* Mutant: the answer does not depend on the record.
AnswerAnyway(q) == q.answer
\* The answer of a request whose record could not be written.
Unrecorded(q) == "unavailable"

\* audit_denial, record_authentication_success: the record is written, or the
\* write fails or had failed before, or there is no identifier or time to record.
Record(r) ==
  /\ req[r].pc = "record"
  /\ \/ /\ RecordWritten
        /\ log' = log \cup {<<r, req[r].note>>}
        /\ Ends(r, req[r].answer)
     \/ RecordFails /\ Ends(r, Unrecorded(req[r])) /\ UNCHANGED log
     \/ UNCHANGED <<logVars, log>> /\ Ends(r, Unrecorded(req[r]))
  /\ UNCHANGED <<bucket, committed, spent, store, tokens>>

\* The record of a session could not be written (SessionLifecycle).
SessionRecordFails ==
  /\ RecordFails
  /\ UNCHANGED <<log, bucket, committed, spent, store, tokens, req>>

\* Everything but the file is lost; requests on their way get no answer.
Crash ==
  /\ Dies
  /\ bucket' = [p \in Peers |-> [window |-> 0, count |-> 0]] /\ committed' = {}
  /\ spent' = [i \in Identities |-> 0] /\ store' = <<>>
  /\ req' = [r \in Requests |->
       IF req[r].pc \in {"idle", "done"} THEN req[r] ELSE Answered(req[r], "unanswered")]
  /\ UNCHANGED <<log, tokens>>

\* start opens the audit log before it binds the listener.
Restart == Open /\ UNCHANGED <<log, bucket, committed, spent, store, tokens, req>>

Init ==
  /\ LogInit /\ log = {}
  /\ bucket = [p \in Peers |-> [window |-> 0, count |-> 0]] /\ committed = {}
  /\ spent = [i \in Identities |-> 0]
  /\ store = <<>> /\ tokens = 0
  /\ req = [r \in Requests |-> Idle]

\* What a browser can present: tokens it was given, which it keeps.
Given == {req[r].token : r \in {x \in Requests : req[x].pc = "done" /\ req[x].answer = "cookie"}}
Cookies == {Unknown, Twice} \cup Given

Next ==
  \/ \E r \in Requests :
       \/ \E k \in Kinds, p \in Peers, c \in Cookies : Arrive(r, k, p, c)
       \/ Begin(r) \/ Authenticated(r) \/ Rejected(r) \/ EstablishFails(r)
       \/ Spend(r) \/ Issue(r) \/ Record(r)
       \/ \E who \in Identities : Establish(r, who)
  \/ \E who \in Identities : SessionWindowTurns(who)
  \/ SessionRecordFails \/ Crash \/ Restart

Spec == Init /\ [][Next]_vars

----------------------------------------------------------------------------
(* Properties.                                                             *)

Notes == {"origin-denied", "authentication-rate-limited", "authenticated", "identity-required",
          "identity-unavailable", "session-rate-limited", "session-denied"}
Answers == {"unavailable", "forbidden", "invalid", "limited", "no-content", "accepted",
            "unauthorized", "cookie", "no-identity", "denied", "ticket", "unanswered"}

Request ==
  [pc : {"idle", "begin", "held", "establish", "record", "spend", "issue", "done"},
   kind : Kinds \cup {None}, peer : Peers \cup {None}, cookie : {None, Unknown, Twice} \cup 1..MaxTokens,
   window : 0..MaxWindows, who : Identities \cup {None}, token : 1..MaxTokens \cup {None},
   note : Notes \cup {None}, answer : Answers \cup {None}]

TypeOK ==
  /\ LogTypeOK /\ log \subseteq Requests \X Notes
  /\ bucket \in [Peers -> [window : 0..MaxWindows, count : Nat]]
  /\ committed \subseteq Peers \X (0..MaxWindows) \X Requests
  /\ spent \in [Identities -> 0..SessionLimit]
  /\ Len(store) <= MaxSessions /\ ToSet(store) \subseteq (1..MaxTokens) \X Identities
  /\ tokens \in 0..MaxTokens /\ req \in [Requests -> Request]

\* The answers given on a record, each with the records that may stand for it.
Audited ==
  {<<"forbidden", "origin-denied">>, <<"limited", "authentication-rate-limited">>,
   <<"unauthorized", "identity-required">>, <<"no-identity", "identity-unavailable">>,
   <<"no-content", "authenticated">>, <<"cookie", "authenticated">>,
   <<"limited", "session-rate-limited">>, <<"denied", "session-denied">>}

\* The answers the handlers give without one: a ticket, whose redemption is recorded
\* when it starts a session or is refused; a target list or an upgrade; the refusal of a
\* malformed request, and of a session by a manager that is closing.
Unaudited == {"ticket", "accepted", "invalid"}

\* What the file holds of a request, now and after any restart.
Noted(r) == {note \in Notes : <<r, note>> \in log}

\* An identity is confirmed or given, and an origin, a peer, a cookie or a session
\* refused, only with the record of just that in the file, one for each answer; an
\* answer that needs no record leaves none.  So the file and the answers never tell
\* different stories, however writes fail and the daemon restarts: a request whose
\* record is missing hears that the audit is unavailable, or nothing.
AnswersAreRecorded ==
  \A r \in Requests :
    req[r].pc = "done" /\ req[r].answer \notin {"unavailable", "unanswered"} =>
      \/ req[r].answer \in Unaudited /\ Noted(r) = {}
      \/ \E note \in Notes : <<req[r].answer, note>> \in Audited /\ Noted(r) = {note}

\* "permanently denies new authority after a runtime audit failure": no step
\* after it hands out a cookie or a ticket.
NoAuthorityAfterFailure ==
  [][sink = "failed" => \A r \in Requests :
       req'[r].answer \in {"cookie", "no-content", "ticket"} /\ req'[r].pc = "done" => req[r].pc = "done"]_vars

\* "concurrent failures" do not "all pass a separate pre-check", and no slot is
\* lost: what a window counts are its failures and the attempts still under way,
\* however and in whichever window an attempt ends, and never more than the limit.
SlotsAreAccounted ==
  \A p \in Peers :
    LET b == bucket[p]
        failed == {f \in committed : f[1] = p /\ f[2] = b.window}
        underway == {r \in Requests : req[r].pc \in {"held", "establish"} /\ req[r].peer = p /\ req[r].window = b.window}
    IN b.count = Cardinality(failed) + Cardinality(underway) /\ b.count <= FailureLimit
============================================================================
