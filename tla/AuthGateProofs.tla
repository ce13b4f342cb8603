-------------------------- MODULE AuthGateProofs --------------------------
(***************************************************************************)
(* Proofs about AuthGate, under any interleaving of requests, crashes and  *)
(* restarts: a torn audit record stays the last one, every answer has its  *)
(* record, nobody gains authority once the sink has failed, and no slot of *)
(* a peer's failure window is lost or counted twice.                       *)
(***************************************************************************)
EXTENDS AuthGate, FiniteSetTheorems, SequenceTheorems, TLAPS

\* While the writer accepts records there is nothing torn to write behind.
LogInv == LogTypeOK /\ TornRecordIsLast /\ (sink = "ok" => tail = "whole")

\* One step of the writer, or of anything that leaves it alone, keeps LogInv.
LEMMA LogStep == LogInv /\ [LogNext]_logVars => LogInv'
<1> SUFFICES ASSUME LogInv, [LogNext]_logVars PROVE LogInv'
  OBVIOUS
<1> USE DEF LogInv, LogTypeOK, TornRecordIsLast
<1>1. CASE RecordWritten
  BY <1>1 DEF RecordWritten, Appended
<1>2. CASE RecordFails
  BY <1>2 DEF RecordFails, Appended, Sticky
<1>3. CASE Dies
  BY <1>3 DEF Dies, Appended
<1>4. CASE Open
  BY <1>4 DEF Open, CompleteTail
<1>5. CASE UNCHANGED logVars
  BY <1>5 DEF logVars
<1> QED BY <1>1, <1>2, <1>3, <1>4, <1>5 DEF LogNext

\* The server uses the audit file only through the operations of its writer,
\* whatever the handlers, the sessions and the crashes do in between.
LEMMA GateUsesTheWriter == [Next]_vars => [LogNext]_logVars
<1> SUFFICES ASSUME [Next]_vars PROVE [LogNext]_logVars
  OBVIOUS
<1>1. ASSUME NEW r \in Requests, NEW k \in Kinds, NEW p \in Peers, NEW c \in Cookies, Arrive(r, k, p, c)
      PROVE  [LogNext]_logVars
  BY <1>1, SMTT(40) DEF Arrive
<1>2. ASSUME NEW r \in Requests, Begin(r) \/ Authenticated(r) \/ Rejected(r) \/ EstablishFails(r)
      PROVE  [LogNext]_logVars
  BY <1>2 DEF Begin, Authenticated, Rejected, EstablishFails
<1>3. ASSUME NEW r \in Requests, Spend(r) \/ Issue(r)
      PROVE  [LogNext]_logVars
  BY <1>3 DEF Spend, Issue
<1>4. ASSUME NEW r \in Requests, Record(r)
      PROVE  [LogNext]_logVars
  BY <1>4 DEF Record, LogNext
<1>5. ASSUME NEW r \in Requests, NEW who \in Identities, Establish(r, who)
      PROVE  [LogNext]_logVars
  BY <1>5 DEF Establish
<1>6. ASSUME NEW who \in Identities, SessionWindowTurns(who)
      PROVE  [LogNext]_logVars
  BY <1>6 DEF SessionWindowTurns
<1>7. CASE SessionRecordFails \/ Crash \/ Restart
  BY <1>7 DEF SessionRecordFails, Crash, Restart, LogNext
<1>8. CASE UNCHANGED vars
  BY <1>8 DEF vars
<1> QED BY <1>1, <1>2, <1>3, <1>4, <1>5, <1>6, <1>7, <1>8 DEF Next

\* Nothing is ever appended behind a torn record: not by a thread that comes
\* after the failed write, not by a daemon started on the file.
THEOREM TornRecordsStayLast == Spec => []TornRecordIsLast
<1>1. Init => LogInv
  BY DEF Init, LogInit, LogInv, LogTypeOK, TornRecordIsLast
<1>2. LogInv /\ [Next]_vars => LogInv'
  BY LogStep, GateUsesTheWriter
<1>3. LogInv => TornRecordIsLast
  BY DEF LogInv
<1> QED BY <1>1, <1>2, <1>3, PTL DEF Spec

----------------------------------------------------------------------------
(* Types.                                                                  *)

Pcs == {"idle", "begin", "held", "establish", "record", "spend", "issue", "done"}

\* A request has a peer while it may hold a slot, an identity while it spends that
\* identity's budget, and a note and an answer once it has something to record.
Sound(q) ==
  /\ q.pc \in {"begin", "held", "establish"} => q.peer \in Peers
  /\ q.pc = "spend" => q.who \in Identities
  /\ q.pc = "record" => q.note \in Notes /\ q.answer \in Answers
  /\ q.pc \notin {"record", "done"} => q.note = None /\ q.answer = None

GateTypes ==
  /\ LogTypeOK /\ log \subseteq Requests \X Notes
  /\ bucket \in [Peers -> [window : 0..MaxWindows, count : Nat]]
  /\ committed \subseteq Peers \X (0..MaxWindows) \X Requests
  /\ spent \in [Identities -> 0..SessionLimit]
  /\ store \in Seq((1..MaxTokens) \X Identities) /\ Len(store) <= MaxSessions
  /\ tokens \in 0..MaxTokens /\ req \in [Requests -> Request]
  /\ \A r \in Requests : Sound(req[r])

\* The limits are natural numbers, and let one in.
LEMMA GateNaturals ==
  /\ FailureLimit \in Nat /\ FailureLimit >= 1 /\ SessionLimit \in Nat /\ SessionLimit >= 1
  /\ MaxSessions \in Nat /\ MaxSessions >= 1 /\ MaxTokens \in Nat /\ MaxWindows \in Nat
BY GateAssumption

\* GateTypes contains the type invariant.
LEMMA GateTypesAreTypes == GateTypes => TypeOK
<1>1. GateTypes => ToSet(store) \subseteq (1..MaxTokens) \X Identities
  BY DEF GateTypes, ToSet
<1>2. QED
  BY <1>1 DEF GateTypes, TypeOK

\* Only request r changes, and becomes q.
Becomes(r, q) ==
  /\ req' \in [Requests -> Request]
  /\ \A x \in Requests \ {r} : req'[x] = req[x]
  /\ req'[r] = q

\* What the handlers leave of a request.
LEMMA Handled ==
  ASSUME GateTypes, NEW r \in Requests
  PROVE  /\ \A pc \in Pcs : Goes(r, pc) => Becomes(r, [req[r] EXCEPT !.pc = pc])
         /\ \A a \in Answers : Ends(r, a) => Becomes(r, Answered(req[r], a))
         /\ \A n \in Notes, a \in Answers :
              req' = [req EXCEPT ![r] = Records(@, n, a)] => Becomes(r, Records(req[r], n, a))
         /\ \A q \in Request : req' = [req EXCEPT ![r] = q] => Becomes(r, q)
<1>0. req \in [Requests -> Request] /\ req[r] \in Request
  BY DEF GateTypes
<1>1. ASSUME NEW q \in Request, req' = [req EXCEPT ![r] = q] PROVE Becomes(r, q)
  BY <1>0, <1>1 DEF Becomes
<1>2. ASSUME NEW pc \in Pcs, Goes(r, pc) PROVE Becomes(r, [req[r] EXCEPT !.pc = pc])
  <2>1. [req[r] EXCEPT !.pc = pc] \in Request
    BY <1>0 DEF Request, Pcs
  <2>2. QED
    BY <1>0, <1>1, <1>2, <2>1 DEF Goes
<1>3. ASSUME NEW a \in Answers, Ends(r, a) PROVE Becomes(r, Answered(req[r], a))
  <2>1. Idle \in Request
    BY GateNaturals DEF Idle, Request
  <2>2. Answered(req[r], a) \in Request
    BY <1>0, <2>1, ZenonT(60) DEF Answered, Request
  <2>3. QED
    BY <1>0, <1>1, <1>3, <2>2 DEF Ends
<1>4. ASSUME NEW n \in Notes, NEW a \in Answers, req' = [req EXCEPT ![r] = Records(@, n, a)]
      PROVE  Becomes(r, Records(req[r], n, a))
  <2>1. Records(req[r], n, a) \in Request
    BY <1>0 DEF Records, Request
  <2>2. QED
    BY <1>0, <1>1, <1>4, <2>1
<1>5. QED
  BY <1>1, <1>2, <1>3, <1>4

\* The fields of a request that was answered, or that is being recorded.
LEMMA Fields ==
  ASSUME NEW q \in Request, NEW n \in Notes, NEW a \in Answers
  PROVE  /\ Answered(q, a).pc = "done" /\ Answered(q, a).answer = a
         /\ Answered(q, a).note = q.note /\ Answered(q, a).token = q.token
         /\ Records(q, n, a).pc = "record" /\ Records(q, n, a).note = n
         /\ Records(q, n, a).answer = a /\ Records(q, n, a) \in Request
BY ZenonT(60) DEF Answered, Idle, Records, Request

Rows == req \in [Requests -> Request] /\ \A r \in Requests : Sound(req[r])

\* An answered request is sound, one that records something too, and the others
\* still are.
LEMMA RowsKept ==
  ASSUME GateTypes, NEW r \in Requests
  PROVE  /\ \A a \in Answers : Ends(r, a) => Rows'
         /\ \A q \in Request : \A n \in Notes, a \in Answers :
              req' = [req EXCEPT ![r] = Records(q, n, a)] => Rows'
         /\ \A q \in Request : Sound(q) /\ req' = [req EXCEPT ![r] = q] => Rows'
<1>1. ASSUME NEW q \in Request, Sound(q), Becomes(r, q) PROVE Rows'
  BY <1>1 DEF GateTypes, Becomes, Rows
<1>2. ASSUME NEW a \in Answers, Ends(r, a) PROVE Rows'
  <2>1. Becomes(r, Answered(req[r], a))
    BY <1>2, Handled
  <2>2. Answered(req[r], a) \in Request /\ Answered(req[r], a).pc = "done"
    <3>1. req[r] \in Request /\ "authenticated" \in Notes
      BY DEF GateTypes, Notes
    <3>2. Answered(req[r], a).pc = "done"
      BY <3>1, Fields
    <3>3. QED
      BY <2>1, <3>2 DEF Becomes
  <2>3. QED
    BY <1>1, <2>1, <2>2 DEF Sound
<1>3. ASSUME NEW q \in Request, NEW n \in Notes, NEW a \in Answers,
             req' = [req EXCEPT ![r] = Records(q, n, a)]
      PROVE  Rows'
  <2>1. Records(q, n, a) \in Request /\ Sound(Records(q, n, a))
    BY Fields DEF Sound
  <2>2. QED
    BY <1>1, <1>3, <2>1, Handled
<1>4. QED
  BY <1>1, <1>2, <1>3, Handled

\* The browser sessions stay well typed, and within the limit of the store.
LEMMA StoreTypes ==
  ASSUME GateTypes
  PROVE  /\ Evicted \in Seq((1..MaxTokens) \X Identities) /\ Len(Evicted) < MaxSessions
         /\ \A token \in 1..MaxTokens, who \in Identities :
              /\ Stored(token, who) \in Seq((1..MaxTokens) \X Identities)
              /\ Len(Stored(token, who)) <= MaxSessions
         /\ \A peer, cookie : Accepted(peer, cookie) \subseteq Identities
<1> DEFINE E == (1..MaxTokens) \X Identities
<1>1. store \in Seq(E) /\ Len(store) <= MaxSessions /\ Len(store) \in Nat
  BY DEF GateTypes
<1>2. Evicted \in Seq(E) /\ Len(Evicted) < MaxSessions
  <2>1. CASE Len(store) >= MaxSessions
    <3>1. store # <<>>
      BY <1>1, <2>1, GateNaturals
    <3>2. Tail(store) \in Seq(E) /\ Len(Tail(store)) = Len(store) - 1
      BY <1>1, <3>1, HeadTailProperties
    <3>3. QED
      BY <1>1, <2>1, <3>2, GateNaturals DEF Evicted
  <2>2. CASE ~(Len(store) >= MaxSessions)
    BY <1>1, <2>2, GateNaturals DEF Evicted
  <2>3. QED
    BY <2>1, <2>2
<1>3. ASSUME NEW token \in 1..MaxTokens, NEW who \in Identities
      PROVE  Stored(token, who) \in Seq(E) /\ Len(Stored(token, who)) <= MaxSessions
  <2>1. <<token, who>> \in E
    OBVIOUS
  <2>2. Append(Evicted, <<token, who>>) \in Seq(E)
        /\ Len(Append(Evicted, <<token, who>>)) = Len(Evicted) + 1
    BY <1>2, <2>1, AppendProperties
  <2>3. Len(Evicted) \in Nat
    BY <1>2
  <2>4. QED
    BY <1>2, <2>2, <2>3, GateNaturals DEF Stored
<1>4. \A peer, cookie : Accepted(peer, cookie) \subseteq Identities
  BY <1>1 DEF Accepted, Lookup
<1>5. QED
  BY <1>2, <1>3, <1>4

\* The peer's bucket becomes b, as it is when the attempt is refused, counted up when
\* it had room.
Turned(r, b) ==
  /\ Exhausted(b.count) \/ b.count = 0
  /\ req' = [req EXCEPT ![r] = Records(@, "authentication-rate-limited", "limited")]
  /\ bucket' = [bucket EXCEPT ![req[r].peer] = b]
Taken(r, b) ==
  /\ ~Exhausted(b.count)
  /\ req' = [req EXCEPT ![r] = [@ EXCEPT !.pc = "held", !.window = b.window]]
  /\ bucket' = [bucket EXCEPT ![req[r].peer] = [b EXCEPT !.count = Claimed(@)]]

\* Begin goes on with the bucket of the peer or with a new window of it.
LEMMA BeginTakes ==
  ASSUME GateTypes, NEW r \in Requests, Begin(r), req[r].peer \in Peers
  PROVE  \E b \in [window : 0..MaxWindows, count : Nat] :
           /\ Turned(r, b) \/ Taken(r, b)
           /\ b = bucket[req[r].peer] \/ b = [window |-> bucket[req[r].peer].window + 1, count |-> 0]
<1> DEFINE p == req[r].peer
<1>1. bucket[p] \in [window : 0..MaxWindows, count : Nat]
  BY DEF GateTypes
<1>2. PICK turned \in {0, 1} :
        LET b == IF turned = 1 THEN [window |-> bucket[p].window + 1, count |-> 0] ELSE bucket[p]
        IN  b.window <= MaxWindows /\ (Turned(r, b) \/ Taken(r, b))
  BY ZenonT(60) DEF Begin, Turned, Taken
<1>3. CASE turned = 1
  <2> DEFINE b == [window |-> bucket[p].window + 1, count |-> 0]
  <2>1. b.window <= MaxWindows /\ (Turned(r, b) \/ Taken(r, b))
    BY <1>2, <1>3
  <2>2. b \in [window : 0..MaxWindows, count : Nat]
    BY <1>1, <2>1, GateNaturals
  <2>3. QED
    BY <2>1, <2>2
<1>4. CASE turned = 0
  BY <1>1, <1>2, <1>4
<1>5. QED
  BY <1>3, <1>4

\* Every handler, and a crash, keeps the types.
LEMMA GateTypesNext == GateTypes /\ [Next]_vars => GateTypes'
<1> SUFFICES ASSUME GateTypes, [Next]_vars PROVE GateTypes'
  OBVIOUS
<1> USE GateNaturals
<1>1. LogTypeOK'
  BY GateUsesTheWriter DEF GateTypes, LogTypeOK, LogNext, logVars, RecordWritten, RecordFails, Dies,
     Open, Appended, Sticky
<1>2. \A r \in Requests : req[r] \in Request /\ Sound(req[r])
  BY DEF GateTypes
<1>3. ASSUME NEW r \in Requests, NEW k \in Kinds, NEW p \in Peers, NEW c \in Cookies, Arrive(r, k, p, c)
      PROVE  GateTypes'
  <2> DEFINE q == [Idle EXCEPT !.kind = k, !.peer = p, !.cookie = c]
  <2>1. c \in {None, Unknown, Twice} \cup 1..MaxTokens
    BY <1>2 DEF Cookies, Given, Request
  <2>2. Idle \in Request /\ Idle.note = None /\ Idle.answer = None
    BY DEF Idle, Request
  <2>3. q \in Request /\ q.peer = p /\ q.note = None /\ q.answer = None
    BY <2>1, <2>2, ZenonT(60) DEF Request
  <2>4. [q EXCEPT !.pc = "begin"] \in Request /\ Sound([q EXCEPT !.pc = "begin"])
    BY <2>3, ZenonT(60) DEF Request, Sound
  <2> HIDE DEF q
  <2>5. Rows'
    <3>1. CASE Ends(r, "unavailable") \/ Ends(r, "invalid")
      BY <3>1, RowsKept DEF Answers
    <3>2. CASE req' = [req EXCEPT ![r] = Records(q, "origin-denied", "forbidden")]
      BY <2>3, <3>2, RowsKept DEF Answers, Notes
    <3>3. CASE req' = [req EXCEPT ![r] = [q EXCEPT !.pc = "begin"]]
      BY <2>4, <3>3, RowsKept
    <3>4. QED
      BY <1>3, <3>1, <3>2, <3>3 DEF Arrive, q
  <2>6. QED
    BY <1>1, <1>3, <2>5 DEF Arrive, GateTypes, Rows
<1>4. ASSUME NEW r \in Requests, Begin(r) PROVE GateTypes'
  <2>1. req[r].peer \in Peers /\ req[r].note = None /\ req[r].answer = None /\ req[r] \in Request
    BY <1>2, <1>4 DEF Begin, Sound
  <2> DEFINE p == req[r].peer
  <2>2. PICK b \in [window : 0..MaxWindows, count : Nat] :
          \/ /\ req' = [req EXCEPT ![r] = Records(@, "authentication-rate-limited", "limited")]
             /\ bucket' = [bucket EXCEPT ![p] = b]
          \/ /\ req' = [req EXCEPT ![r] = [@ EXCEPT !.pc = "held", !.window = b.window]]
             /\ bucket' = [bucket EXCEPT ![p] = [b EXCEPT !.count = Claimed(@)]]
    BY <1>4, <2>1, BeginTakes DEF Turned, Taken
  <2>3. Rows'
    <3>1. CASE req' = [req EXCEPT ![r] = Records(@, "authentication-rate-limited", "limited")]
      BY <2>1, <3>1, RowsKept DEF Answers, Notes
    <3>2. CASE req' = [req EXCEPT ![r] = [@ EXCEPT !.pc = "held", !.window = b.window]]
      <4>1. [req[r] EXCEPT !.pc = "held", !.window = b.window] \in Request
        BY <2>1 DEF Request
      <4>2. Sound([req[r] EXCEPT !.pc = "held", !.window = b.window])
        BY <2>1 DEF Request, Sound
      <4>3. QED
        BY <3>2, <4>1, <4>2, RowsKept
    <3>3. QED
      BY <2>2, <3>1, <3>2
  <2>4. bucket' \in [Peers -> [window : 0..MaxWindows, count : Nat]]
    <3>1. [b EXCEPT !.count = Claimed(@)] \in [window : 0..MaxWindows, count : Nat]
      BY DEF Claimed
    <3>2. PICK c \in [window : 0..MaxWindows, count : Nat] : bucket' = [bucket EXCEPT ![p] = c]
      BY <2>2, <3>1
    <3>3. QED
      BY <2>1, <3>2 DEF GateTypes
  <2>5. QED
    BY <1>1, <1>4, <2>3, <2>4 DEF Begin, GateTypes, Rows
<1>5. ASSUME NEW r \in Requests, req[r].pc \in {"held", "establish"}
      PROVE  /\ Rollback(r) => bucket' \in [Peers -> [window : 0..MaxWindows, count : Nat]]
                               /\ committed' = committed
             /\ Commit(r) => /\ bucket' = bucket
                             /\ committed' \subseteq Peers \X (0..MaxWindows) \X Requests
  <2>1. req[r].peer \in Peers /\ req[r].window \in 0..MaxWindows
    BY <1>2, <1>5 DEF Sound, Request
  <2>2. ASSUME Rollback(r)
        PROVE  bucket' \in [Peers -> [window : 0..MaxWindows, count : Nat]]
    <3>1. bucket[req[r].peer] \in [window : 0..MaxWindows, count : Nat]
      BY <2>1 DEF GateTypes
    <3> DEFINE n == IF bucket[req[r].peer].count > 0 THEN bucket[req[r].peer].count - 1 ELSE 0
    <3>2. /\ n \in Nat
          /\ bucket' = bucket \/ bucket' = [bucket EXCEPT ![req[r].peer].count = n]
      BY <2>1, <2>2, <3>1 DEF Rollback, GateTypes
    <3> HIDE DEF n
    <3>3. [bucket[req[r].peer] EXCEPT !.count = n] \in [window : 0..MaxWindows, count : Nat]
      BY <3>1, <3>2
    <3>4. QED
      BY <2>1, <3>2, <3>3 DEF GateTypes
  <2>3. ASSUME Commit(r) PROVE committed' \subseteq Peers \X (0..MaxWindows) \X Requests
    BY <2>1, <2>3 DEF GateTypes, Commit
  <2>4. QED
    BY <2>2, <2>3 DEF Rollback, Commit
<1>6. ASSUME NEW r \in Requests, Authenticated(r) PROVE GateTypes'
  <2>1. PICK who \in Identities :
          req' = [req EXCEPT ![r] =
            CASE req[r].kind = "identity" -> [Records(@, "authenticated", "no-content") EXCEPT !.who = who]
              [] req[r].kind = "sessions" -> [@ EXCEPT !.pc = "spend", !.who = who]
              [] OTHER -> Answered(@, "accepted")]
    BY <1>6, StoreTypes DEF Authenticated
  <2>2. Rows'
    <3>1. CASE req[r].kind = "identity"
      <4>1. req' = [req EXCEPT ![r] = [Records(@, "authenticated", "no-content") EXCEPT !.who = who]]
        BY <2>1, <3>1
      <4>2. Records(req[r], "authenticated", "no-content") \in Request
            /\ Sound(Records(req[r], "authenticated", "no-content"))
        BY <1>2, Fields DEF Notes, Answers, Sound
      <4>3. [Records(req[r], "authenticated", "no-content") EXCEPT !.who = who] \in Request
            /\ Sound([Records(req[r], "authenticated", "no-content") EXCEPT !.who = who])
        BY <4>2 DEF Request, Sound
      <4>4. QED
        BY <4>1, <4>3, RowsKept
    <3>2. CASE req[r].kind = "sessions"
      <4>1. req' = [req EXCEPT ![r] = [@ EXCEPT !.pc = "spend", !.who = who]]
        BY <2>1, <3>2
      <4>2. [req[r] EXCEPT !.pc = "spend", !.who = who] \in Request
            /\ Sound([req[r] EXCEPT !.pc = "spend", !.who = who])
        BY <1>2, <1>6, ZenonT(60) DEF Authenticated, Request, Sound
      <4>3. QED
        BY <4>1, <4>2, RowsKept
    <3>3. CASE req[r].kind \notin {"identity", "sessions"}
      <4>1. Ends(r, "accepted")
        BY <2>1, <3>3 DEF Ends
      <4>2. QED
        BY <4>1, RowsKept DEF Answers
    <3>4. QED
      BY <3>1, <3>2, <3>3
  <2>3. QED
    BY <1>1, <1>5, <1>6, <2>2 DEF Authenticated, GateTypes, Rows
<1>7. ASSUME NEW r \in Requests, Rejected(r) PROVE GateTypes'
  <2>1. CASE Goes(r, "establish")
    <3>1. [req[r] EXCEPT !.pc = "establish"] \in Request /\ Sound([req[r] EXCEPT !.pc = "establish"])
      BY <1>2, <1>7 DEF Rejected, Request, Sound
    <3>2. Rows'
      BY <2>1, <3>1, RowsKept DEF Goes
    <3>3. QED
      BY <1>1, <1>5, <1>7, <3>2 DEF Rejected, GateTypes, Rows
  <2>2. CASE req' = [req EXCEPT ![r] = Records(@, "identity-required", "unauthorized")]
    <3>1. Rows'
      BY <1>2, <2>2, RowsKept DEF Answers, Notes
    <3>2. QED
      BY <1>1, <1>5, <1>7, <3>1 DEF Rejected, GateTypes, Rows
  <2>3. QED
    BY <1>7, <2>1, <2>2 DEF Rejected
<1>8. ASSUME NEW r \in Requests, NEW who \in Identities, Establish(r, who) PROVE GateTypes'
  <2>1. tokens' \in 1..MaxTokens
    BY <1>8 DEF Establish, GateTypes
  <2>2. Records(req[r], "authenticated", "cookie") \in Request
        /\ Sound(Records(req[r], "authenticated", "cookie"))
    BY <1>2, Fields DEF Notes, Answers, Sound
  <2>0. PICK n \in 1..MaxTokens : n = tokens'
    BY <2>1
  <2> DEFINE q == [Records(req[r], "authenticated", "cookie") EXCEPT !.who = who, !.token = n]
  <2>3. q \in Request /\ Sound(q)
    <3>1. q \in Request
      BY <2>2 DEF Request
    <3>2. q.pc = Records(req[r], "authenticated", "cookie").pc
          /\ q.note = Records(req[r], "authenticated", "cookie").note
          /\ q.answer = Records(req[r], "authenticated", "cookie").answer
      BY <2>2 DEF Request
    <3>3. Records(req[r], "authenticated", "cookie").pc = "record"
      BY <1>2, Fields DEF Notes, Answers
    <3>4. QED
      BY <2>2, <3>1, <3>2, <3>3 DEF Sound
  <2>4. req' = [req EXCEPT ![r] = q]
    BY <1>8, <2>0 DEF Establish
  <2> HIDE DEF q
  <2>5. Rows'
    BY <2>3, <2>4, RowsKept
  <2>6. store' \in Seq((1..MaxTokens) \X Identities) /\ Len(store') <= MaxSessions
    BY <1>8, <2>1, StoreTypes DEF Establish
  <2>7. QED
    BY <1>1, <1>5, <1>8, <2>1, <2>5, <2>6, SMTT(40) DEF Establish, GateTypes, Rows
<1>9. ASSUME NEW r \in Requests, EstablishFails(r) PROVE GateTypes'
  <2>1. Rows'
    BY <1>2, <1>9, RowsKept DEF EstablishFails, Answers, Notes
  <2>2. store' \in Seq((1..MaxTokens) \X Identities) /\ Len(store') <= MaxSessions
    <3>1. store' = store \/ store' = Evicted
      BY <1>9 DEF EstablishFails
    <3>2. Len(Evicted) \in Nat
      BY StoreTypes
    <3>3. QED
      BY <3>1, <3>2, StoreTypes DEF GateTypes
  <2>3. QED
    BY <1>1, <1>5, <1>9, <2>1, <2>2 DEF EstablishFails, GateTypes, Rows
<1>10. ASSUME NEW r \in Requests, Spend(r) PROVE GateTypes'
  <2>1. req[r].who \in Identities
    BY <1>2, <1>10 DEF Spend, Sound
  <2>2. CASE /\ req' = [req EXCEPT ![r] = Records(@, "session-rate-limited", "limited")]
             /\ UNCHANGED spent
    <3>1. Rows'
      BY <1>2, <1>10, <2>2, RowsKept DEF Spend, Answers, Notes
    <3>2. QED
      BY <1>1, <1>10, <2>2, <3>1 DEF Spend, GateTypes, Rows
  <2>3. CASE /\ spent[req[r].who] < SessionLimit
             /\ Goes(r, "issue")
             /\ spent' = [spent EXCEPT ![req[r].who] = @ + 1]
    <3>1. [req[r] EXCEPT !.pc = "issue"] \in Request /\ Sound([req[r] EXCEPT !.pc = "issue"])
      BY <1>2, <1>10 DEF Spend, Request, Sound
    <3>2. Rows'
      BY <1>10, <2>3, <3>1, RowsKept DEF Spend, Goes
    <3>3. spent' \in [Identities -> 0..SessionLimit]
      BY <2>1, <2>3 DEF GateTypes
    <3>4. QED
      BY <1>1, <1>10, <3>2, <3>3 DEF Spend, GateTypes, Rows
  <2>4. QED
    BY <1>10, <2>2, <2>3 DEF Spend
<1>11. ASSUME NEW r \in Requests, Issue(r) PROVE GateTypes'
  <2>1. Rows'
    BY <1>2, <1>11, RowsKept DEF Issue, Answers, Notes
  <2>2. QED
    BY <1>1, <1>11, <2>1 DEF Issue, GateTypes, Rows
<1>12. ASSUME NEW r \in Requests, Record(r) PROVE GateTypes'
  <2>1. req[r].note \in Notes /\ req[r].answer \in Answers
    BY <1>2, <1>12 DEF Record, Sound
  <2>2. Rows'
    BY <1>12, <2>1, RowsKept DEF Record, Unrecorded, Answers
  <2>3. log' \subseteq Requests \X Notes
    BY <1>12, <2>1 DEF Record, GateTypes
  <2>4. QED
    BY <1>1, <1>12, <2>2, <2>3 DEF Record, GateTypes, Rows
<1>13. ASSUME NEW who \in Identities, SessionWindowTurns(who) PROVE GateTypes'
  BY <1>1, <1>13 DEF SessionWindowTurns, GateTypes
<1>14. CASE SessionRecordFails \/ Restart
  BY <1>1, <1>14 DEF SessionRecordFails, Restart, GateTypes
<1>15. CASE Crash
  <2>1. \A r \in Requests : Answered(req[r], "unanswered") \in Request
                            /\ Sound(Answered(req[r], "unanswered"))
    <3>1. Idle \in Request
      BY DEF Idle, Request
    <3>2. ASSUME NEW r \in Requests PROVE Answered(req[r], "unanswered") \in Request
      BY <1>2, <3>1, ZenonT(60) DEF Answered, Request, Answers
    <3>3. QED
      BY <1>2, <3>2, Fields DEF Sound, Notes, Answers
  <2>2. Rows'
    BY <1>2, <1>15, <2>1 DEF Crash, Rows
  <2>3. QED
    BY <1>1, <1>15, <2>2 DEF Crash, GateTypes, Rows
<1>16. CASE UNCHANGED vars
  BY <1>1, <1>16 DEF vars, GateTypes
<1>17. QED
  BY <1>3, <1>4, <1>6, <1>7, <1>8, <1>9, <1>10, <1>11, <1>12, <1>13, <1>14, <1>15, <1>16 DEF Next

\* The types hold initially.
LEMMA GateTypesInit == Init => GateTypes
<1> SUFFICES ASSUME Init PROVE GateTypes
  OBVIOUS
<1> USE GateNaturals
<1>1. Idle \in Request /\ Sound(Idle)
  BY DEF Idle, Request, Sound
<1>2. store \in Seq((1..MaxTokens) \X Identities) /\ Len(store) = 0
  BY DEF Init
<1>3. LogTypeOK
  BY DEF Init, LogInit, LogTypeOK
<1>4. bucket \in [Peers -> [window : 0..MaxWindows, count : Nat]]
  BY DEF Init
<1>5. QED
  BY <1>1, <1>2, <1>3, <1>4 DEF Init, GateTypes

\* The server keeps its types, crashes and restarts included.
THEOREM TypeCorrect == Spec => []TypeOK
<1>1. QED
  BY GateTypesInit, GateTypesNext, GateTypesAreTypes, PTL DEF Spec

----------------------------------------------------------------------------
(* Answers and records.                                                    *)

\* What a step makes of a request that has no answer yet: it goes on, with what it
\* wants to record and to answer if that is next; it ends with an answer that needs no
\* record, a ticket under the guard; or its record decides.
Moves(r) ==
  /\ req' \in [Requests -> Request] /\ req[r].pc # "done"
  /\ \A x \in Requests \ {r} : req'[x] = req[x]
  /\ \/ /\ req'[r].pc # "done"
        /\ req'[r].pc = "record" => <<req'[r].answer, req'[r].note>> \in Audited
     \/ /\ req'[r].pc = "done" /\ req'[r].answer \in Unaudited \cup {"unavailable"}
        /\ req'[r].answer = "ticket" => sink = "ok"
     \/ Record(r)

\* A request that ends without a record gets an answer that needs none.
LEMMA EndsUnaudited ==
  ASSUME GateTypes, NEW r \in Requests, req[r].pc # "done",
         NEW a \in Unaudited \cup {"unavailable"}, a = "ticket" => sink = "ok", Ends(r, a)
  PROVE  Moves(r)
<1>1. a \in Answers
  BY DEF Unaudited, Answers
<1>2. Becomes(r, Answered(req[r], a))
  BY <1>1, Handled
<1>3. req[r] \in Request /\ "authenticated" \in Notes
  BY DEF GateTypes, Notes
<1>4. Answered(req[r], a).answer = a /\ Answered(req[r], a).pc = "done"
  BY <1>1, <1>3, Fields
<1>5. QED
  BY <1>2, <1>4 DEF Becomes, Moves

\* A request that goes on is not answered by the step, and what it is going to record
\* is what it is going to answer.
LEMMA GoesOn ==
  ASSUME GateTypes, NEW r \in Requests, NEW q \in Request, req' = [req EXCEPT ![r] = q],
         req[r].pc # "done", q.pc # "done",
         q.pc = "record" => <<q.answer, q.note>> \in Audited
  PROVE  Moves(r)
<1>1. QED
  BY Handled DEF Becomes, Moves

\* One request at a time moves, and no record is lost; a crash is for all.
LEMMA StepMoves ==
  ASSUME GateTypes, Next
  PROVE  \/ Crash
         \/ log' = log /\ req' = req
         \/ \E r \in Requests : Moves(r) /\ (log' = log \/ Record(r))
<1>1. \A r \in Requests : req[r] \in Request
  BY DEF GateTypes
<1>2. ASSUME NEW r \in Requests, NEW q \in Request, NEW n \in Notes, NEW a \in Answers,
             req' = [req EXCEPT ![r] = Records(q, n, a)],
             req[r].pc # "done", <<a, n>> \in Audited
      PROVE  Moves(r)
  <2>1. /\ Records(q, n, a) \in Request /\ Records(q, n, a).pc # "done"
        /\ Records(q, n, a).answer = a /\ Records(q, n, a).note = n
    BY Fields
  <2>2. QED
    BY <1>2, <2>1, GoesOn
<1>3. ASSUME NEW r \in Requests, NEW k \in Kinds, NEW p \in Peers, NEW c \in Cookies, Arrive(r, k, p, c)
      PROVE  Moves(r)
  <2> DEFINE q == [Idle EXCEPT !.kind = k, !.peer = p, !.cookie = c]
  <2>1. c \in {None, Unknown, Twice} \cup 1..MaxTokens
    BY <1>1 DEF Cookies, Given, Request
  <2>2. Idle \in Request
    BY GateNaturals DEF Idle, Request
  <2>3. q \in Request
    BY <2>1, <2>2 DEF Request
  <2>4. [q EXCEPT !.pc = "begin"] \in Request /\ [q EXCEPT !.pc = "begin"].pc = "begin"
    BY <2>3, ZenonT(60) DEF Request
  <2> HIDE DEF q
  <2> req[r].pc # "done"
    BY <1>3 DEF Arrive
  <2>5. CASE Ends(r, "unavailable") \/ Ends(r, "invalid")
    BY <2>5, EndsUnaudited DEF Unaudited
  <2>6. CASE req' = [req EXCEPT ![r] = Records(q, "origin-denied", "forbidden")]
    BY <1>2, <2>3, <2>6 DEF Notes, Answers, Audited
  <2>7. CASE req' = [req EXCEPT ![r] = [q EXCEPT !.pc = "begin"]]
    BY <2>4, <2>7, GoesOn
  <2>8. QED
    BY <1>3, <2>5, <2>6, <2>7 DEF Arrive, q
<1>4. ASSUME NEW r \in Requests, Begin(r) PROVE Moves(r)
  <2>1. req[r].peer \in Peers
    BY <1>4 DEF Begin, GateTypes, Sound
  <2>2. PICK b \in [window : 0..MaxWindows, count : Nat] : Turned(r, b) \/ Taken(r, b)
    BY <1>4, <2>1, BeginTakes
  <2> req[r].pc # "done"
    BY <1>4 DEF Begin
  <2>3. CASE req' = [req EXCEPT ![r] = Records(@, "authentication-rate-limited", "limited")]
    BY <1>1, <1>2, <2>3 DEF Notes, Answers, Audited
  <2>4. CASE req' = [req EXCEPT ![r] = [@ EXCEPT !.pc = "held", !.window = b.window]]
    <3>1. [req[r] EXCEPT !.pc = "held", !.window = b.window] \in Request
          /\ [req[r] EXCEPT !.pc = "held", !.window = b.window].pc = "held"
      BY <1>1, ZenonT(60) DEF Request
    <3>2. QED
      BY <2>4, <3>1, GoesOn
  <2>5. QED
    BY <2>2, <2>3, <2>4 DEF Turned, Taken
<1>5. ASSUME NEW r \in Requests, Authenticated(r) PROVE Moves(r)
  <2>1. PICK who \in Identities :
          req' = [req EXCEPT ![r] =
            CASE req[r].kind = "identity" -> [Records(@, "authenticated", "no-content") EXCEPT !.who = who]
              [] req[r].kind = "sessions" -> [@ EXCEPT !.pc = "spend", !.who = who]
              [] OTHER -> Answered(@, "accepted")]
    BY <1>5, StoreTypes DEF Authenticated
  <2> req[r].pc # "done"
    BY <1>5 DEF Authenticated
  <2>2. CASE req[r].kind = "identity"
    <3> DEFINE q == [Records(req[r], "authenticated", "no-content") EXCEPT !.who = who]
    <3>1. req' = [req EXCEPT ![r] = q]
      BY <2>1, <2>2
    <3>2. Records(req[r], "authenticated", "no-content") \in Request
          /\ Records(req[r], "authenticated", "no-content").pc = "record"
          /\ Records(req[r], "authenticated", "no-content").note = "authenticated"
          /\ Records(req[r], "authenticated", "no-content").answer = "no-content"
      BY <1>1, Fields DEF Notes, Answers
    <3>3. q \in Request /\ q.pc # "done" /\ q.answer = "no-content" /\ q.note = "authenticated"
      BY <3>2 DEF Request
    <3> HIDE DEF q
    <3>4. QED
      BY <3>1, <3>3, GoesOn DEF Audited
  <2>3. CASE req[r].kind = "sessions"
    <3> DEFINE q == [req[r] EXCEPT !.pc = "spend", !.who = who]
    <3>1. req' = [req EXCEPT ![r] = q]
      BY <2>1, <2>3
    <3>2. q \in Request /\ q.pc = "spend"
      BY <1>1, ZenonT(60) DEF Request
    <3> HIDE DEF q
    <3>3. QED
      BY <3>1, <3>2, GoesOn
  <2>4. CASE req[r].kind \notin {"identity", "sessions"}
    <3>1. Ends(r, "accepted")
      BY <2>1, <2>4 DEF Ends
    <3>2. QED
      BY <3>1, EndsUnaudited DEF Unaudited
  <2>5. QED
    BY <2>2, <2>3, <2>4
<1>6. ASSUME NEW r \in Requests, req[r].pc # "done", NEW pc \in Pcs \ {"done", "record"}, Goes(r, pc)
      PROVE  Moves(r)
  <2>1. [req[r] EXCEPT !.pc = pc] \in Request /\ [req[r] EXCEPT !.pc = pc].pc = pc
    BY <1>1 DEF Request, Pcs
  <2>2. QED
    BY <1>6, <2>1, GoesOn DEF Goes
<1>7. ASSUME NEW r \in Requests, Rejected(r) \/ EstablishFails(r) \/ Spend(r) PROVE Moves(r)
  <2>1. \/ Goes(r, "establish") \/ Goes(r, "issue")
        \/ req' = [req EXCEPT ![r] = Records(@, "identity-required", "unauthorized")]
        \/ req' = [req EXCEPT ![r] = Records(@, "identity-unavailable", "no-identity")]
        \/ req' = [req EXCEPT ![r] = Records(@, "session-rate-limited", "limited")]
    BY <1>7 DEF Rejected, EstablishFails, Spend
  <2>2. req[r].pc # "done"
    BY <1>7 DEF Rejected, EstablishFails, Spend
  <2>3. QED
    BY <1>1, <1>2, <1>6, <2>1, <2>2 DEF Notes, Answers, Pcs, Audited
<1>8. ASSUME NEW r \in Requests, NEW who \in Identities, Establish(r, who) PROVE Moves(r)
  <2>1. PICK n \in 1..MaxTokens : n = tokens'
    BY <1>8, GateNaturals DEF Establish, GateTypes
  <2>2. Records(req[r], "authenticated", "cookie") \in Request
        /\ Records(req[r], "authenticated", "cookie").pc = "record"
        /\ Records(req[r], "authenticated", "cookie").note = "authenticated"
        /\ Records(req[r], "authenticated", "cookie").answer = "cookie"
    BY <1>1, Fields DEF Notes, Answers
  <2> DEFINE q == [Records(req[r], "authenticated", "cookie") EXCEPT !.who = who, !.token = n]
  <2>3. q \in Request /\ q.pc # "done" /\ q.answer = "cookie" /\ q.note = "authenticated"
    BY <2>2 DEF Request
  <2>4. req' = [req EXCEPT ![r] = q] /\ req[r].pc # "done"
    BY <1>8, <2>1 DEF Establish
  <2> HIDE DEF q
  <2>5. QED
    BY <2>3, <2>4, GoesOn DEF Audited
<1>9. ASSUME NEW r \in Requests, Issue(r) PROVE Moves(r)
  <2> req[r].pc # "done"
    BY <1>9 DEF Issue
  <2>1. CASE Ends(r, "invalid") \/ (AuthorityGuard /\ Ends(r, "ticket")) \/ Ends(r, "unavailable")
    BY <2>1, EndsUnaudited DEF AuthorityGuard, Unaudited
  <2>2. CASE req' = [req EXCEPT ![r] = Records(@, "session-denied", "denied")]
    BY <1>1, <1>2, <2>2 DEF Notes, Answers, Audited
  <2>3. QED
    BY <1>9, <2>1, <2>2 DEF Issue
<1>10. ASSUME NEW r \in Requests, Record(r) PROVE Moves(r)
  <2>1. req[r].answer \in Answers
    BY <1>10 DEF Record, GateTypes, Sound
  <2>2. \E a \in Answers : Ends(r, a)
    BY <1>10, <2>1 DEF Record, Unrecorded, Answers
  <2>3. \E q \in Request : Becomes(r, q)
    BY <2>2, Handled, SMTT(40) DEF Becomes
  <2>4. QED
    BY <1>10, <2>3 DEF Becomes, Moves, Record
<1>11. ASSUME NEW r \in Requests, Begin(r) \/ Authenticated(r) \/ Rejected(r) \/ EstablishFails(r) \/ Spend(r) \/ Issue(r)
       PROVE  log' = log
  BY <1>11 DEF Begin, Authenticated, Rejected, EstablishFails, Spend, Issue
<1>12. ASSUME NEW r \in Requests, NEW k \in Kinds, NEW p \in Peers, NEW c \in Cookies, Arrive(r, k, p, c)
       PROVE  log' = log
  BY <1>12 DEF Arrive
<1>13. ASSUME NEW r \in Requests, NEW who \in Identities, Establish(r, who)
       PROVE  log' = log
  BY <1>13 DEF Establish
<1>14. ASSUME NEW who \in Identities, SessionWindowTurns(who) PROVE req' = req /\ log' = log
  BY <1>14 DEF SessionWindowTurns
<1>15. ASSUME SessionRecordFails \/ Restart PROVE req' = req /\ log' = log
  BY <1>15 DEF SessionRecordFails, Restart
<1>16. QED
  BY <1>3, <1>4, <1>5, <1>7, <1>8, <1>9, <1>10, <1>11, <1>12, <1>13, <1>14, <1>15 DEF Next

\* A crash answers nothing but what was answered.
LEMMA CrashAnswers ==
  ASSUME GateTypes, Crash, NEW r \in Requests
  PROVE  log' = log /\ (req'[r] = req[r] \/ (req'[r].pc = "done" /\ req'[r].answer = "unanswered"))
<1>1. req[r] \in Request /\ "authenticated" \in Notes /\ "unanswered" \in Answers
  BY DEF GateTypes, Notes, Answers
<1>2. Answered(req[r], "unanswered").answer = "unanswered" /\ Answered(req[r], "unanswered").pc = "done"
  BY <1>1, Fields
<1>3. QED
  BY <1>2 DEF Crash

\* A request that has a record to write ends with the record in the file and its
\* answer, or with neither.
LEMMA RecordAnswers ==
  ASSUME GateTypes, NEW r \in Requests, Record(r)
  PROVE  /\ req'[r].pc = "done"
         /\ \/ /\ sink = "ok" /\ log' = log \cup {<<r, req[r].note>>}
               /\ req'[r].answer = req[r].answer
            \/ log' = log /\ req'[r].answer = "unavailable"
<1>1. req[r] \in Request /\ req[r].note \in Notes /\ req[r].answer \in Answers
  BY DEF GateTypes, Record, Sound
<1>2. CASE RecordWritten /\ log' = log \cup {<<r, req[r].note>>} /\ Ends(r, req[r].answer)
  <2>1. req'[r] = Answered(req[r], req[r].answer)
    BY <1>1, <1>2, Handled DEF Becomes
  <2>2. req'[r].pc = "done" /\ req'[r].answer = req[r].answer
    BY <1>1, <2>1, Fields
  <2>3. QED
    BY <1>2, <2>2 DEF RecordWritten
<1>3. CASE Ends(r, Unrecorded(req[r])) /\ log' = log
  <2>1. "unavailable" \in Answers
    BY DEF Answers
  <2>2. req'[r] = Answered(req[r], "unavailable")
    BY <1>3, <2>1, Handled DEF Becomes, Unrecorded
  <2>3. QED
    BY <1>1, <1>3, <2>1, <2>2, Fields
<1>4. QED
  BY <1>2, <1>3 DEF Record

\* A request without an answer has left no record; the one it is about to leave is
\* of the answer it is about to give; and the answers given agree with the file.
RecordInv ==
  /\ \A r \in Requests : req[r].pc # "done" => Noted(r) = {}
  /\ \A r \in Requests : req[r].pc = "record" => <<req[r].answer, req[r].note>> \in Audited
  /\ AnswersAreRecorded

\* A request that moves has its answer and its record settled together.
LEMMA MovesRecord ==
  ASSUME GateTypes, RecordInv, NEW r \in Requests, Moves(r), log' = log \/ Record(r)
  PROVE  RecordInv'
<1>1. \A x \in Requests \ {r} : req'[x] = req[x]
  BY DEF Moves
<1>2. Noted(r) = {}
  BY DEF Moves, RecordInv
<1>3. CASE log' = log
  <2>1. \A x \in Requests : Noted(x)' = Noted(x)
    BY <1>3 DEF Noted
  <2>2. CASE /\ req'[r].pc # "done"
             /\ req'[r].pc = "record" => <<req'[r].answer, req'[r].note>> \in Audited
    BY <1>1, <1>2, <2>1, <2>2 DEF RecordInv, AnswersAreRecorded
  <2>3. CASE req'[r].pc = "done" /\ req'[r].answer \in Unaudited \cup {"unavailable"}
    BY <1>1, <1>2, <2>1, <2>3 DEF RecordInv, AnswersAreRecorded
  <2>4. CASE Record(r)
    <3>1. req[r].pc = "record" /\ req'[r].pc = "done" /\ req'[r].answer \in {"unavailable", req[r].answer}
      BY <2>4, RecordAnswers DEF Record
    <3>2. req'[r].answer = "unavailable"
      <4>1. CASE log' = log \cup {<<r, req[r].note>>}
        BY <1>2, <1>3, <2>4, <4>1 DEF Noted, GateTypes, Record, Sound
      <4>2. QED
        BY <2>4, <4>1, RecordAnswers
    <3>3. QED
      BY <1>1, <2>1, <3>1, <3>2 DEF RecordInv, AnswersAreRecorded
  <2>5. QED
    BY <2>2, <2>3, <2>4 DEF Moves
<1>4. CASE Record(r) /\ log' = log \cup {<<r, req[r].note>>} /\ req'[r].answer = req[r].answer
  <2>1. req[r].note \in Notes /\ <<req[r].answer, req[r].note>> \in Audited
    BY <1>4 DEF Record, GateTypes, Sound, RecordInv
  <2>2. Noted(r)' = {req[r].note}
    BY <1>2, <1>4, <2>1 DEF Noted
  <2>3. \A x \in Requests \ {r} : Noted(x)' = Noted(x)
    BY <1>4 DEF Noted
  <2>4. req'[r].pc = "done"
    BY <1>4, RecordAnswers
  <2>5. \E note \in Notes : <<req'[r].answer, note>> \in Audited /\ Noted(r)' = {note}
    BY <1>4, <2>1, <2>2
  <2>6. QED
    BY <1>1, <2>3, <2>4, <2>5 DEF RecordInv, AnswersAreRecorded
<1>5. QED
  BY <1>3, <1>4, RecordAnswers

\* What a request was answered and what the file holds of it agree for ever: a
\* confirmed or new identity and every recorded refusal have their one record, the
\* answers of Unaudited have none.  Nothing is claimed of a request that heard that
\* the audit is unavailable, or heard nothing.
THEOREM EveryAnswerIsRecorded == Spec => []AnswersAreRecorded
<1>1. Init => RecordInv
  BY DEF Init, RecordInv, AnswersAreRecorded, Idle, Noted
<1>2. GateTypes /\ RecordInv /\ [Next]_vars => RecordInv'
  <2> SUFFICES ASSUME GateTypes, RecordInv, [Next]_vars PROVE RecordInv'
    OBVIOUS
  <2>1. CASE log' = log /\ req' = req
    BY <2>1 DEF RecordInv, AnswersAreRecorded, Noted
  <2>2. CASE Crash
    <3>1. log' = log /\ \A r \in Requests :
            req'[r] = req[r] \/ (req'[r].pc = "done" /\ req'[r].answer = "unanswered")
      BY <2>2, CrashAnswers DEF Crash
    <3>2. \A r \in Requests : Noted(r)' = Noted(r)
      BY <3>1 DEF Noted
    <3>3. QED
      BY <3>1, <3>2 DEF RecordInv, AnswersAreRecorded
  <2>3. ASSUME NEW r \in Requests, Moves(r), log' = log \/ Record(r) PROVE RecordInv'
    BY <2>3, MovesRecord
  <2>4. QED
    BY <2>1, <2>2, <2>3, StepMoves DEF vars
<1>3. RecordInv => AnswersAreRecorded
  BY DEF RecordInv
<1>4. QED
  BY <1>1, <1>2, <1>3, GateTypesInit, GateTypesNext, PTL DEF Spec

\* Once a write to the audit file has failed, no step gives anyone a cookie, a
\* confirmed identity or a ticket: those need a record written, or the guard.
THEOREM FailureEndsAuthority == Spec => NoAuthorityAfterFailure
<1> DEFINE Quiet == sink = "failed" => \A r \in Requests :
      req'[r].answer \in {"cookie", "no-content", "ticket"} /\ req'[r].pc = "done" => req[r].pc = "done"
<1>1. GateTypes /\ [Next]_vars => [Quiet]_vars
  <2> SUFFICES ASSUME GateTypes, Next PROVE Quiet
    BY DEF vars
  <2>1. CASE Crash
    BY <2>1, CrashAnswers
  <2>2. CASE req' = req
    BY <2>2
  <2>3. ASSUME NEW r \in Requests, Moves(r) PROVE Quiet
    BY <2>3, RecordAnswers DEF Moves, Unaudited
  <2>4. QED
    BY <2>1, <2>2, <2>3, StepMoves
<1>2. QED
  BY <1>1, GateTypesInit, GateTypesNext, PTL DEF Spec, NoAuthorityAfterFailure

----------------------------------------------------------------------------
(* Failure slots.                                                          *)

Busy == {r \in Requests : req[r].pc \in {"held", "establish"}}
Underway(p, w) == {r \in Busy : req[r].peer = p /\ req[r].window = w}
Failed(p, w) == {f \in committed : f[1] = p /\ f[2] = w}

\* The counts are those of finite sets; no attempt and no failure is of a window
\* still to come, and no request under way has already been counted as a failure.
SlotInv ==
  /\ IsFiniteSet(Busy) /\ IsFiniteSet(committed)
  /\ \A p \in Peers :
       /\ bucket[p].count = Cardinality(Failed(p, bucket[p].window)) + Cardinality(Underway(p, bucket[p].window))
       /\ bucket[p].count <= FailureLimit
  /\ \A f \in committed : f[2] <= bucket[f[1]].window
  /\ \A r \in Busy : req[r].window <= bucket[req[r].peer].window
  /\ \A r \in Requests : req[r].pc \in {"idle", "begin", "held", "establish"} => \A f \in committed : f[3] # r

\* SlotInv counts what SlotsAreAccounted counts.
LEMMA SlotInvAccounts == SlotInv => SlotsAreAccounted
<1> SUFFICES ASSUME SlotInv, NEW p \in Peers
             PROVE  LET b == bucket[p]
                        failed == {f \in committed : f[1] = p /\ f[2] = b.window}
                        underway == {r \in Requests : req[r].pc \in {"held", "establish"} /\ req[r].peer = p /\ req[r].window = b.window}
                    IN b.count = Cardinality(failed) + Cardinality(underway) /\ b.count <= FailureLimit
  BY DEF SlotsAreAccounted
<1>1. Underway(p, bucket[p].window) =
        {r \in Requests : req[r].pc \in {"held", "establish"} /\ req[r].peer = p /\ req[r].window = bucket[p].window}
  BY DEF Underway, Busy
<1>2. QED
  BY <1>1 DEF SlotInv, Failed

\* Every count is of a finite set.
LEMMA SlotsFinite ==
  ASSUME SlotInv, NEW p, NEW w
  PROVE  /\ IsFiniteSet(Underway(p, w)) /\ Cardinality(Underway(p, w)) \in Nat
         /\ IsFiniteSet(Failed(p, w)) /\ Cardinality(Failed(p, w)) \in Nat
<1>1. Underway(p, w) \in SUBSET Busy /\ Failed(p, w) \in SUBSET committed
  BY DEF Underway, Failed
<1>2. IsFiniteSet(Underway(p, w)) /\ IsFiniteSet(Failed(p, w))
  BY <1>1, FS_Subset DEF SlotInv
<1>3. QED
  BY <1>2, FS_CardinalityType

\* A step that neither starts nor ends an attempt leaves the accounts alone.
LEMMA SlotsUntouched ==
  ASSUME GateTypes, SlotInv, UNCHANGED <<bucket, committed>>,
         \A x \in Requests :
           /\ x \in Busy' <=> x \in Busy
           /\ x \in Busy => req'[x].peer = req[x].peer /\ req'[x].window = req[x].window
           /\ req'[x].pc \in {"idle", "begin", "held", "establish"}
                => req[x].pc \in {"idle", "begin", "held", "establish"}
  PROVE  SlotInv'
<1>1. Busy' = Busy
  BY DEF Busy
<1>2. \A p, w : Underway(p, w)' = Underway(p, w) /\ Failed(p, w)' = Failed(p, w)
  BY <1>1 DEF Underway, Failed, Busy
<1>3. ASSUME NEW p \in Peers
      PROVE  /\ Failed(p, bucket[p].window)' = Failed(p, bucket[p].window)
             /\ Underway(p, bucket[p].window)' = Underway(p, bucket[p].window)
  BY <1>1 DEF Underway, Failed, Busy
<1>4. QED
  BY <1>1, <1>3 DEF SlotInv, Busy

\* An attempt that begins takes a slot of the window it is in, which may be new.
LEMMA SlotTaken ==
  ASSUME GateTypes, SlotInv, NEW r \in Requests, Begin(r) PROVE SlotInv'
<1> DEFINE p == req[r].peer
<1>1. req[r] \in Request /\ req[r].pc = "begin" /\ p \in Peers /\ r \notin Busy /\ committed' = committed
  BY DEF GateTypes, Begin, Sound, Busy
<1>2. bucket \in [Peers -> [window : 0..MaxWindows, count : Nat]]
  BY DEF GateTypes
<1>3. PICK b \in [window : 0..MaxWindows, count : Nat] :
        /\ Turned(r, b) \/ Taken(r, b)
        /\ b = bucket[p] \/ b = [window |-> bucket[p].window + 1, count |-> 0]
  BY <1>1, BeginTakes
<1>4. b.window \in Nat /\ bucket[p].window \in Nat /\ bucket[p].window <= b.window
  BY <1>1, <1>2, <1>3, GateNaturals
<1>5. b.count = Cardinality(Failed(p, b.window)) + Cardinality(Underway(p, b.window))
  <2>1. CASE b = bucket[p]
    BY <1>1, <2>1 DEF SlotInv
  <2>2. CASE b = [window |-> bucket[p].window + 1, count |-> 0]
    <3>1. bucket[p].window < b.window /\ b.count = 0
      BY <1>4, <2>2
    <3>2. Failed(p, b.window) = {}
      BY <1>4, <3>1 DEF Failed, SlotInv
    <3>3. Underway(p, b.window) = {}
      BY <1>4, <3>1 DEF Underway, SlotInv
    <3>4. QED
      BY <3>1, <3>2, <3>3, FS_EmptySet
  <2>3. QED
    BY <1>3, <2>1, <2>2
<1>6. CASE Turned(r, b)
  <2>1. Becomes(r, Records(req[r], "authentication-rate-limited", "limited"))
    BY <1>1, <1>6, Handled DEF Turned, Notes, Answers
  <2>2. req'[r].pc = "record" /\ \A x \in Requests \ {r} : req'[x] = req[x]
    BY <1>1, <2>1, Fields DEF Becomes, Notes, Answers
  <2>3. Busy' = Busy /\ \A x \in Busy : req'[x] = req[x]
    BY <1>1, <2>2 DEF Busy
  <2>4. bucket'[p] = b /\ \A x \in Peers \ {p} : bucket'[x] = bucket[x]
    BY <1>1, <1>2, <1>6 DEF Turned
  <2>5. ASSUME NEW x \in Peers
        PROVE  /\ Failed(x, bucket[x].window)' = Failed(x, bucket'[x].window)
               /\ Underway(x, bucket[x].window)' = Underway(x, bucket'[x].window)
    BY <1>1, <2>3 DEF Failed, Underway
  <2>6. b.count <= FailureLimit
    BY <1>1, <1>3, GateNaturals DEF SlotInv
  <2>7. ASSUME NEW x \in Peers
        PROVE  /\ bucket'[x].count =
                    Cardinality(Failed(x, bucket[x].window)') + Cardinality(Underway(x, bucket[x].window)')
               /\ bucket'[x].count <= FailureLimit
    <3>1. CASE x = p
      BY <1>5, <2>4, <2>5, <2>6, <3>1
    <3>2. CASE x # p
      BY <2>4, <2>5, <3>2 DEF SlotInv
    <3>3. QED
      BY <3>1, <3>2
  <2>8. \A f \in committed' : f[2] <= bucket'[f[1]].window
    <3>1. \A f \in committed : f[1] \in Peers /\ f[2] \in Nat /\ f[2] <= bucket[f[1]].window
      BY GateNaturals DEF GateTypes, SlotInv
    <3>2. QED
      BY <1>1, <1>4, <2>4, <3>1
  <2>9. \A x \in Busy' : req'[x].window <= bucket'[req'[x].peer].window
    <3>1. \A x \in Busy : req[x].peer \in Peers /\ req[x].window \in Nat
                          /\ req[x].window <= bucket[req[x].peer].window
      BY GateNaturals DEF GateTypes, SlotInv, Busy, Sound, Request
    <3>2. QED
      BY <1>4, <2>3, <2>4, <3>1
  <2>10. /\ IsFiniteSet(Busy') /\ IsFiniteSet(committed')
         /\ \A x \in Requests : req'[x].pc \in {"idle", "begin", "held", "establish"} =>
              \A f \in committed' : f[3] # x
    BY <1>1, <2>2, <2>3 DEF SlotInv
  <2>11. QED
    BY <2>7, <2>8, <2>9, <2>10 DEF SlotInv
<1>7. CASE Taken(r, b)
  <2> DEFINE q == [req[r] EXCEPT !.pc = "held", !.window = b.window]
             c == [b EXCEPT !.count = Claimed(@)]
  <2>1. q \in Request /\ q.pc = "held" /\ q.peer = p /\ q.window = b.window
    BY <1>1 DEF Request
  <2>2. Becomes(r, q)
    <3>1. req' = [req EXCEPT ![r] = q]
      BY <1>7 DEF Taken
    <3>2. QED
      BY <2>1, <3>1, Handled
  <2>3. c.window = b.window /\ c.count = b.count + 1
    BY DEF Claimed
  <2>4. bucket'[p] = c /\ \A x \in Peers \ {p} : bucket'[x] = bucket[x]
    BY <1>1, <1>2, <1>7 DEF Taken
  <2> HIDE DEF c, q
  <2>5. b.count < FailureLimit
    BY <1>7, GateNaturals DEF Taken, Exhausted
  <2>6. Busy' = Busy \cup {r}
    BY <1>1, <2>1, <2>2 DEF Busy, Becomes
  <2>7. \A x \in Busy : req'[x] = req[x]
    BY <1>1, <2>2 DEF Busy, Becomes
  <2>8. req'[r].pc = "held" /\ req'[r].peer = p /\ req'[r].window = b.window
    BY <2>1, <2>2 DEF Becomes
  <2>9. IsFiniteSet(Busy') /\ IsFiniteSet(committed')
    BY <1>1, <2>6, FS_AddElement DEF SlotInv
  <2>10. ASSUME NEW x \in Peers \ {p}
         PROVE  /\ Failed(x, bucket[x].window)' = Failed(x, bucket[x].window)
                /\ Underway(x, bucket[x].window)' = Underway(x, bucket[x].window)
    <3>1. bucket'[x] = bucket[x]
      BY <2>4
    <3>2. Failed(x, bucket[x].window)' = Failed(x, bucket[x].window)
      BY <1>1, <3>1 DEF Failed
    <3>3. QED
      BY <2>6, <2>7, <2>8, <3>1, <3>2 DEF Underway
  <2>11. Failed(p, bucket[p].window)' = Failed(p, b.window)
    BY <1>1, <2>3, <2>4, <2>8 DEF Failed
  <2>12. Underway(p, bucket[p].window)' = Underway(p, b.window) \cup {r}
    BY <2>3, <2>4, <2>6, <2>7, <2>8 DEF Underway
  <2>13. Cardinality(Underway(p, b.window) \cup {r}) = Cardinality(Underway(p, b.window)) + 1
    <3>1. r \notin Underway(p, b.window)
      BY <1>1 DEF Underway
    <3>2. IsFiniteSet(Underway(p, b.window))
      BY SlotsFinite
    <3>3. QED
      BY <3>1, <3>2, FS_AddElement
  <2>14. /\ bucket'[p].count = Cardinality(Failed(p, b.window)) + Cardinality(Underway(p, b.window) \cup {r})
         /\ bucket'[p].count <= FailureLimit
    <3>1. Cardinality(Failed(p, b.window)) \in Nat /\ Cardinality(Underway(p, b.window)) \in Nat
      BY SlotsFinite
    <3>2. bucket'[p].count = b.count + 1
      BY <2>3, <2>4
    <3>3. QED
      BY <1>5, <2>5, <2>13, <3>1, <3>2, GateNaturals
  <2>15. ASSUME NEW x \in Peers
         PROVE  /\ bucket'[x].count =
                     Cardinality(Failed(x, bucket[x].window)') + Cardinality(Underway(x, bucket[x].window)')
                /\ bucket'[x].count <= FailureLimit
    <3>1. CASE x = p
      BY <2>8, <2>11, <2>12, <2>14, <3>1
    <3>2. CASE x # p
      BY <2>4, <2>10, <3>2 DEF SlotInv
    <3>3. QED
      BY <3>1, <3>2
  <2>16. /\ bucket'[p].window = b.window
         /\ \A x \in Peers \ {p} : bucket'[x].window = bucket[x].window
    BY <2>3, <2>4
  <2>17. \A f \in committed' : f[2] <= bucket'[f[1]].window
    <3>1. \A f \in committed : f[1] \in Peers /\ f[2] \in Nat /\ f[2] <= bucket[f[1]].window
      BY GateNaturals DEF GateTypes, SlotInv
    <3>2. QED
      BY <1>1, <1>4, <2>16, <3>1
  <2>18. \A x \in Busy' : req'[x].window <= bucket'[req'[x].peer].window
    <3>1. \A x \in Busy : req[x].peer \in Peers /\ req[x].window \in Nat
                          /\ req[x].window <= bucket[req[x].peer].window
      BY GateNaturals DEF GateTypes, SlotInv, Busy, Sound, Request
    <3>2. QED
      BY <1>4, <2>6, <2>7, <2>8, <2>16, <3>1
  <2>19. \A x \in Requests : req'[x].pc \in {"idle", "begin", "held", "establish"} =>
           \A f \in committed' : f[3] # x
    BY <1>1, <2>2 DEF Becomes, SlotInv
  <2>20. QED
    BY <2>9, <2>15, <2>17, <2>18, <2>19 DEF SlotInv
<1>8. QED
  BY <1>3, <1>6, <1>7

\* What is left when request r stops being under way.
Leaves(r) ==
  /\ r \in Busy /\ req' \in [Requests -> Request]
  /\ \A x \in Requests \ {r} : req'[x] = req[x]
  /\ req'[r].pc \notin {"idle", "begin", "held", "establish"}

\* The sets of the attempts under way after r has left.
LEMMA LeavesBusy ==
  ASSUME NEW r \in Requests, Leaves(r)
  PROVE  /\ Busy' = Busy \ {r}
         /\ \A x \in Busy' : req'[x] = req[x]
BY DEF Leaves, Busy

\* A slot given back is taken off the count of the window it was taken in, and of
\* no other.
LEMMA SlotReturned ==
  ASSUME GateTypes, SlotInv, NEW r \in Requests, Leaves(r), Rollback(r) PROVE SlotInv'
<1> DEFINE p == req[r].peer
           w == req[r].window
<1>1. p \in Peers /\ w \in Nat /\ r \in Busy /\ committed' = committed
  BY GateNaturals DEF Leaves, Busy, GateTypes, Sound, Request, Rollback
<1>2. \A x \in Peers : bucket[x] \in [window : 0..MaxWindows, count : Nat]
  BY DEF GateTypes
<1>3. Busy' = Busy \ {r} /\ \A x \in Busy' : req'[x] = req[x]
  BY LeavesBusy
<1>4. IsFiniteSet(Busy') /\ IsFiniteSet(committed')
  BY <1>1, <1>3, FS_RemoveElement DEF SlotInv
<1>5. /\ \A x \in Peers : bucket'[x].window = bucket[x].window
      /\ \A x \in Peers \ {p} : bucket'[x].count = bucket[x].count
      /\ bucket[p].window # w => bucket'[p].count = bucket[p].count
      /\ bucket[p].window = w =>
           bucket'[p].count = IF bucket[p].count > 0 THEN bucket[p].count - 1 ELSE 0
  <2>1. CASE bucket[p].window # w
    <3>1. bucket' = bucket
      BY <2>1 DEF Rollback
    <3>2. QED
      BY <2>1, <3>1
  <2>2. CASE bucket[p].window = w
    <3> DEFINE n == IF bucket[p].count > 0 THEN bucket[p].count - 1 ELSE 0
    <3>1. bucket' = [bucket EXCEPT ![p].count = n]
      BY <2>2, <1>1 DEF Rollback, GateTypes
    <3> HIDE DEF n
    <3>2. bucket'[p] = [bucket[p] EXCEPT !.count = n] /\ \A x \in Peers \ {p} : bucket'[x] = bucket[x]
      BY <1>1, <3>1 DEF GateTypes
    <3>3. bucket'[p].count = n /\ bucket'[p].window = bucket[p].window
      BY <1>1, <1>2, <3>2
    <3>4. QED
      BY <2>2, <3>2, <3>3 DEF n
  <2>3. QED
    BY <2>1, <2>2
<1>6. ASSUME NEW x \in Peers
      PROVE  /\ Failed(x, bucket[x].window)' = Failed(x, bucket[x].window)
             /\ Underway(x, bucket[x].window)' = Underway(x, bucket[x].window) \ {r}
  <2>1. bucket'[x].window = bucket[x].window
    BY <1>5
  <2>2. QED
    BY <1>1, <1>3, <2>1 DEF Failed, Underway
<1>7. ASSUME NEW x \in Peers
      PROVE  /\ bucket'[x].count = Cardinality(Failed(x, bucket[x].window)') + Cardinality(Underway(x, bucket[x].window)')
             /\ bucket'[x].count <= FailureLimit
  <2> DEFINE F == Failed(x, bucket[x].window)
             U == Underway(x, bucket[x].window)
  <2>1. /\ bucket[x].count = Cardinality(F) + Cardinality(U)
        /\ bucket[x].count <= FailureLimit
    BY DEF SlotInv
  <2>2. Cardinality(F) \in Nat /\ Cardinality(U) \in Nat /\ IsFiniteSet(U)
    BY SlotsFinite
  <2>3. Failed(x, bucket[x].window)' = F /\ Underway(x, bucket[x].window)' = U \ {r}
    BY <1>6
  <2>4. CASE x = p /\ bucket[p].window = w
    <3>1. r \in U
      BY <1>1, <2>4 DEF Underway
    <3>2. Cardinality(U \ {r}) = Cardinality(U) - 1 /\ Cardinality(U) # 0
      BY <2>2, <3>1, FS_RemoveElement, FS_EmptySet
    <3> HIDE DEF F, U
    <3>3. bucket'[x].count = bucket[x].count - 1
      BY <1>5, <2>1, <2>2, <2>4, <3>2
    <3>4. QED
      BY <2>1, <2>2, <2>3, <3>2, <3>3, GateNaturals
  <2>5. CASE ~(x = p /\ bucket[p].window = w)
    <3>1. r \notin U
      BY <2>5 DEF Underway
    <3>2. U \ {r} = U
      BY <3>1
    <3> HIDE DEF F, U
    <3>3. bucket'[x].count = bucket[x].count
      BY <1>5, <2>5
    <3>4. QED
      BY <2>1, <2>3, <3>2, <3>3
  <2>6. QED
    BY <2>4, <2>5
<1>8. \A f \in committed' : f[2] <= bucket'[f[1]].window
  <2>1. \A f \in committed : f[1] \in Peers
    BY DEF GateTypes
  <2>2. QED
    BY <1>1, <1>5, <2>1 DEF SlotInv
<1>9. \A x \in Busy' : req'[x].window <= bucket'[req'[x].peer].window
  <2>1. \A x \in Busy : req[x].peer \in Peers
    BY DEF GateTypes, Busy, Sound
  <2>2. QED
    BY <1>3, <1>5, <2>1 DEF SlotInv
<1>10. \A x \in Requests : req'[x].pc \in {"idle", "begin", "held", "establish"} =>
         \A f \in committed' : f[3] # x
  BY <1>1 DEF Leaves, SlotInv
<1>11. QED
  BY <1>4, <1>7, <1>8, <1>9, <1>10 DEF SlotInv

\* A slot that becomes a failure stays on the count of its window.
LEMMA SlotCommitted ==
  ASSUME GateTypes, SlotInv, NEW r \in Requests, Leaves(r), Commit(r) PROVE SlotInv'
<1> DEFINE p == req[r].peer
           w == req[r].window
           g == <<p, w, r>>
<1>1. /\ p \in Peers /\ w \in Nat /\ r \in Busy /\ bucket' = bucket
      /\ committed' = committed \cup {g} /\ g \notin committed
  <2>1. \A f \in committed : f[3] # r
    BY DEF Leaves, Busy, SlotInv
  <2>2. g \notin committed
    BY <2>1
  <2>3. QED
    BY <2>2, GateNaturals DEF Leaves, Busy, GateTypes, Sound, Request, Commit
<1>2. Busy' = Busy \ {r} /\ \A x \in Busy' : req'[x] = req[x]
  BY LeavesBusy
<1>3. IsFiniteSet(Busy') /\ IsFiniteSet(committed')
  BY <1>1, <1>2, FS_RemoveElement, FS_AddElement DEF SlotInv
<1>4. ASSUME NEW x \in Peers
      PROVE  /\ bucket'[x].count = Cardinality(Failed(x, bucket[x].window)') + Cardinality(Underway(x, bucket[x].window)')
             /\ bucket'[x].count <= FailureLimit
  <2> DEFINE F == Failed(x, bucket[x].window)
             U == Underway(x, bucket[x].window)
  <2>1. /\ bucket[x].count = Cardinality(F) + Cardinality(U)
        /\ bucket[x].count <= FailureLimit /\ bucket'[x].count = bucket[x].count
    BY <1>1 DEF SlotInv
  <2>2. Cardinality(F) \in Nat /\ Cardinality(U) \in Nat /\ IsFiniteSet(U) /\ IsFiniteSet(F)
    BY SlotsFinite
  <2>3. Underway(x, bucket[x].window)' = U \ {r}
    BY <1>1, <1>2 DEF Underway
  <2>4. CASE x = p /\ bucket[p].window = w
    <3>1. r \in U /\ g \notin F
      BY <1>1, <2>4 DEF Underway, Failed
    <3>2. Failed(x, bucket[x].window)' = F \cup {g}
      BY <1>1, <2>4 DEF Failed
    <3>3. Cardinality(U \ {r}) = Cardinality(U) - 1
      BY <2>2, <3>1, FS_RemoveElement
    <3>4. Cardinality(F \cup {g}) = Cardinality(F) + 1
      BY <2>2, <3>1, FS_AddElement
    <3> HIDE DEF F, U
    <3>5. QED
      BY <2>1, <2>2, <2>3, <3>2, <3>3, <3>4
  <2>5. CASE ~(x = p /\ bucket[p].window = w)
    <3>1. U \ {r} = U
      BY <2>5 DEF Underway
    <3>2. Failed(x, bucket[x].window)' = F
      BY <1>1, <2>5 DEF Failed
    <3> HIDE DEF F, U
    <3>3. QED
      BY <2>1, <2>3, <3>1, <3>2
  <2>6. QED
    BY <2>4, <2>5
<1>5. \A f \in committed' : f[2] <= bucket'[f[1]].window
  BY <1>1 DEF SlotInv
<1>6. \A x \in Busy' : req'[x].window <= bucket'[req'[x].peer].window
  BY <1>1, <1>2 DEF SlotInv
<1>7. \A x \in Requests : req'[x].pc \in {"idle", "begin", "held", "establish"} =>
         \A f \in committed' : f[3] # x
  BY <1>1 DEF Leaves, SlotInv
<1>8. QED
  BY <1>3, <1>4, <1>5, <1>6, <1>7 DEF SlotInv

\* A request that has nothing to do with the slots.
LEMMA SlotsBeside ==
  ASSUME GateTypes, SlotInv, NEW r \in Requests, NEW q \in Request, Becomes(r, q),
         UNCHANGED <<bucket, committed>>, r \notin Busy, q.pc \notin {"held", "establish"},
         q.pc \in {"idle", "begin"} => req[r].pc \in {"idle", "begin"}
  PROVE  SlotInv'
BY SlotsUntouched DEF Becomes, Busy

\* A request that records something has left: its slot, if it had one, is free.
LEMMA RecordingLeaves ==
  ASSUME GateTypes, NEW r \in Requests, r \in Busy, NEW q \in Request, Becomes(r, q),
         q.pc \notin {"idle", "begin", "held", "establish"}
  PROVE  Leaves(r)
BY DEF Becomes, Leaves

\* Every step keeps the accounts: attempts begin, end in success or in failure, in
\* their own window or in a later one, and a crash forgets them all.
LEMMA SlotInvNext == GateTypes /\ SlotInv /\ [Next]_vars => SlotInv'
<1> SUFFICES ASSUME GateTypes, SlotInv, [Next]_vars PROVE SlotInv'
  OBVIOUS
<1>1. \A r \in Requests : req[r] \in Request /\ Sound(req[r])
  BY DEF GateTypes
<1>2. ASSUME NEW r \in Requests, NEW q \in Request, NEW n \in Notes, NEW a \in Answers
      PROVE  Records(q, n, a) \in Request /\ Records(q, n, a).pc = "record"
             /\ Answered(req[r], a).pc = "done"
  BY <1>1, Fields
<1>3. ASSUME NEW r \in Requests, NEW a \in Answers, Ends(r, a), r \notin Busy, UNCHANGED <<bucket, committed>>
      PROVE  SlotInv'
  <2>1. Becomes(r, Answered(req[r], a)) /\ Answered(req[r], a) \in Request
    BY <1>3, Handled DEF Becomes
  <2>2. Answered(req[r], a).pc = "done"
    BY <1>1, <1>2 DEF Notes
  <2>3. QED
    BY <1>3, <2>1, <2>2, SlotsBeside
<1>4. ASSUME NEW r \in Requests, NEW q \in Request, NEW n \in Notes, NEW a \in Answers,
             req' = [req EXCEPT ![r] = Records(q, n, a)], r \notin Busy, UNCHANGED <<bucket, committed>>
      PROVE  SlotInv'
  <2>1. Becomes(r, Records(q, n, a)) /\ Records(q, n, a).pc = "record" /\ Records(q, n, a) \in Request
    BY <1>2, <1>4, Handled
  <2>2. QED
    BY <1>4, <2>1, SlotsBeside
<1>5. ASSUME NEW r \in Requests, NEW n \in Notes, NEW a \in Answers, r \in Busy,
             req' = [req EXCEPT ![r] = Records(@, n, a)]
      PROVE  Leaves(r)
  <2>1. Becomes(r, Records(req[r], n, a)) /\ Records(req[r], n, a).pc = "record"
        /\ Records(req[r], n, a) \in Request
    BY <1>1, <1>2, <1>5, Handled
  <2>2. QED
    BY <1>5, <2>1, RecordingLeaves
<1>6. ASSUME NEW r \in Requests, NEW k \in Kinds, NEW p \in Peers, NEW c \in Cookies, Arrive(r, k, p, c)
      PROVE  SlotInv'
  <2> DEFINE q == [Idle EXCEPT !.kind = k, !.peer = p, !.cookie = c]
  <2>1. c \in {None, Unknown, Twice} \cup 1..MaxTokens
    BY <1>1 DEF Cookies, Given, Request
  <2>2. Idle \in Request
    BY GateNaturals DEF Idle, Request
  <2>3. q \in Request
    BY <2>1, <2>2 DEF Request
  <2>4. [q EXCEPT !.pc = "begin"] \in Request /\ [q EXCEPT !.pc = "begin"].pc = "begin"
    BY <2>3, ZenonT(60) DEF Request
  <2> HIDE DEF q
  <2>5. req[r].pc = "idle" /\ r \notin Busy /\ UNCHANGED <<bucket, committed>>
    BY <1>6 DEF Arrive, Busy
  <2>6. CASE Ends(r, "unavailable") \/ Ends(r, "invalid")
    BY <1>3, <2>5, <2>6, SMTT(40) DEF Answers
  <2>7. CASE req' = [req EXCEPT ![r] = Records(q, "origin-denied", "forbidden")]
    BY <1>4, <2>3, <2>5, <2>7 DEF Notes, Answers
  <2>8. CASE req' = [req EXCEPT ![r] = [q EXCEPT !.pc = "begin"]]
    <3>1. Becomes(r, [q EXCEPT !.pc = "begin"])
      BY <2>4, <2>8, Handled
    <3>2. QED
      BY <2>4, <2>5, <3>1, SlotsBeside
  <2>9. QED
    BY <1>6, <2>6, <2>7, <2>8 DEF Arrive, q
<1>7. ASSUME NEW r \in Requests, Authenticated(r) PROVE SlotInv'
  <2>1. PICK who \in Identities :
          req' = [req EXCEPT ![r] =
            CASE req[r].kind = "identity" -> [Records(@, "authenticated", "no-content") EXCEPT !.who = who]
              [] req[r].kind = "sessions" -> [@ EXCEPT !.pc = "spend", !.who = who]
              [] OTHER -> Answered(@, "accepted")]
    BY <1>7, StoreTypes DEF Authenticated
  <2>2. r \in Busy /\ Rollback(r)
    BY <1>7 DEF Authenticated, Busy
  <2>3. CASE req[r].kind = "identity"
    <3> DEFINE q == [Records(req[r], "authenticated", "no-content") EXCEPT !.who = who]
    <3>1. req' = [req EXCEPT ![r] = q]
      BY <2>1, <2>3
    <3>2. Records(req[r], "authenticated", "no-content") \in Request
          /\ Records(req[r], "authenticated", "no-content").pc = "record"
      BY <1>1, Fields DEF Notes, Answers
    <3>3. q \in Request /\ q.pc = "record"
      BY <3>2 DEF Request
    <3>4. Becomes(r, q)
      BY <3>1, <3>3, Handled
    <3>5. QED
      BY <2>2, <3>3, <3>4, RecordingLeaves, SlotReturned
  <2>4. CASE req[r].kind = "sessions"
    <3> DEFINE q == [req[r] EXCEPT !.pc = "spend", !.who = who]
    <3>1. req' = [req EXCEPT ![r] = q]
      BY <2>1, <2>4
    <3>2. q \in Request /\ q.pc = "spend"
      BY <1>1, ZenonT(60) DEF Request
    <3>3. Becomes(r, q)
      BY <3>1, <3>2, Handled
    <3>4. QED
      BY <2>2, <3>2, <3>3, RecordingLeaves, SlotReturned
  <2>5. CASE req[r].kind \notin {"identity", "sessions"}
    <3>1. Ends(r, "accepted") /\ "accepted" \in Answers /\ "authenticated" \in Notes
      BY <2>1, <2>5 DEF Ends, Answers, Notes
    <3>2. Becomes(r, Answered(req[r], "accepted")) /\ Answered(req[r], "accepted") \in Request
      BY <3>1, Handled DEF Becomes
    <3>3. Answered(req[r], "accepted").pc = "done"
      BY <1>1, <3>1, Fields
    <3>4. QED
      BY <2>2, <3>2, <3>3, RecordingLeaves, SlotReturned
  <2>6. QED
    BY <2>3, <2>4, <2>5
<1>8. ASSUME NEW r \in Requests, Rejected(r) PROVE SlotInv'
  <2>1. r \in Busy
    BY <1>8 DEF Rejected, Busy
  <2>2. CASE Goes(r, "establish") /\ UNCHANGED <<bucket, committed>>
    <3>1. Becomes(r, [req[r] EXCEPT !.pc = "establish"])
      BY <2>2, Handled DEF Pcs
    <3>2. /\ [req[r] EXCEPT !.pc = "establish"].pc = "establish"
          /\ [req[r] EXCEPT !.pc = "establish"].peer = req[r].peer
          /\ [req[r] EXCEPT !.pc = "establish"].window = req[r].window
      BY <1>1 DEF Request
    <3>3. req'[r].pc = "establish" /\ req'[r].peer = req[r].peer /\ req'[r].window = req[r].window
      BY <3>1, <3>2 DEF Becomes
    <3>4. \A x \in Requests \ {r} : req'[x] = req[x]
      BY <3>1 DEF Becomes
    <3>5. req[r].pc = "held"
      BY <1>8 DEF Rejected
    <3>6. QED
      BY <2>2, <3>3, <3>4, <3>5, SlotsUntouched DEF Busy
  <2>3. CASE Commit(r) /\ req' = [req EXCEPT ![r] = Records(@, "identity-required", "unauthorized")]
    BY <1>5, <2>1, <2>3, SlotCommitted DEF Notes, Answers
  <2>4. QED
    BY <1>8, <2>2, <2>3 DEF Rejected
<1>9. ASSUME NEW r \in Requests, NEW who \in Identities, Establish(r, who) PROVE SlotInv'
  <2>1. PICK n \in 1..MaxTokens : n = tokens'
    BY <1>9, GateNaturals DEF Establish, GateTypes
  <2>2. Records(req[r], "authenticated", "cookie") \in Request
        /\ Records(req[r], "authenticated", "cookie").pc = "record"
    BY <1>1, Fields DEF Notes, Answers
  <2> DEFINE q == [Records(req[r], "authenticated", "cookie") EXCEPT !.who = who, !.token = n]
  <2>3. q \in Request /\ q.pc = "record"
    BY <2>2 DEF Request
  <2>4. req' = [req EXCEPT ![r] = q]
    BY <1>9, <2>1 DEF Establish
  <2>5. Becomes(r, q)
    BY <2>3, <2>4, Handled
  <2>6. r \in Busy /\ Rollback(r)
    BY <1>9 DEF Establish, Busy
  <2>7. QED
    BY <2>3, <2>5, <2>6, RecordingLeaves, SlotReturned
<1>10. ASSUME NEW r \in Requests, EstablishFails(r) PROVE SlotInv'
  <2>1. r \in Busy /\ Commit(r) /\ req' = [req EXCEPT ![r] = Records(@, "identity-unavailable", "no-identity")]
    BY <1>10 DEF EstablishFails, Busy
  <2>2. QED
    BY <1>5, <2>1, SlotCommitted DEF Notes, Answers
<1>11. ASSUME NEW r \in Requests, Spend(r) PROVE SlotInv'
  <2>1. req[r].pc = "spend" /\ r \notin Busy /\ UNCHANGED <<bucket, committed>>
    BY <1>11 DEF Spend, Busy
  <2>2. CASE req' = [req EXCEPT ![r] = Records(@, "session-rate-limited", "limited")]
    BY <1>1, <1>4, <2>1, <2>2 DEF Notes, Answers
  <2>3. CASE Goes(r, "issue")
    <3>1. Becomes(r, [req[r] EXCEPT !.pc = "issue"])
      BY <2>3, Handled DEF Pcs
    <3>2. [req[r] EXCEPT !.pc = "issue"] \in Request /\ [req[r] EXCEPT !.pc = "issue"].pc = "issue"
      BY <1>1 DEF Request
    <3>3. QED
      BY <2>1, <3>1, <3>2, SlotsBeside
  <2>4. QED
    BY <1>11, <2>2, <2>3 DEF Spend
<1>12. ASSUME NEW r \in Requests, Issue(r) PROVE SlotInv'
  <2>1. r \notin Busy /\ UNCHANGED <<bucket, committed>>
    BY <1>12 DEF Issue, Busy
  <2>2. CASE req' = [req EXCEPT ![r] = Records(@, "session-denied", "denied")]
    BY <1>1, <1>4, <2>1, <2>2 DEF Notes, Answers
  <2>3. CASE Ends(r, "invalid") \/ Ends(r, "ticket") \/ Ends(r, "unavailable")
    BY <1>3, <2>1, <2>3 DEF Answers
  <2>4. QED
    BY <1>12, <2>2, <2>3 DEF Issue
<1>13. ASSUME NEW r \in Requests, Record(r) PROVE SlotInv'
  <2>1. r \notin Busy /\ UNCHANGED <<bucket, committed>> /\ req[r].answer \in Answers
    BY <1>1, <1>13 DEF Record, Busy, Sound
  <2>2. \E a \in Answers : Ends(r, a)
    BY <1>13, <2>1 DEF Record, Unrecorded, Answers
  <2>3. QED
    BY <1>3, <2>1, <2>2
<1>14. ASSUME \/ \E who \in Identities : SessionWindowTurns(who)
              \/ SessionRecordFails \/ Restart \/ UNCHANGED vars
       PROVE  SlotInv'
  <2>1. UNCHANGED <<bucket, committed, req>>
    BY <1>14 DEF SessionWindowTurns, SessionRecordFails, Restart, vars
  <2>2. QED
    BY <2>1, SlotsUntouched DEF Busy
<1>15. CASE Crash
  <2>1. \A x \in Requests : req'[x].pc \in {"idle", "done"}
    <3>1. \A x \in Requests : Answered(req[x], "unanswered").pc = "done"
      BY <1>1, <1>2 DEF Notes, Answers
    <3>2. QED
      BY <1>15, <3>1 DEF Crash
  <2>2. Busy' = {} /\ committed' = {}
    BY <1>15, <2>1 DEF Busy, Crash
  <2>3. \A p \in Peers : bucket'[p].count = 0
    BY <1>15 DEF Crash
  <2>4. ASSUME NEW p \in Peers PROVE Failed(p, bucket[p].window)' = {} /\ Underway(p, bucket[p].window)' = {}
    BY <2>2 DEF Failed, Underway
  <2>5. ASSUME NEW p \in Peers
        PROVE  /\ bucket'[p].count =
                    Cardinality(Failed(p, bucket[p].window)') + Cardinality(Underway(p, bucket[p].window)')
               /\ bucket'[p].count <= FailureLimit
    <3>1. Cardinality(Failed(p, bucket[p].window)') = 0 /\ Cardinality(Underway(p, bucket[p].window)') = 0
      BY <2>4, FS_EmptySet
    <3>2. QED
      BY <2>3, <3>1, GateNaturals
  <2>6. IsFiniteSet(Busy') /\ IsFiniteSet(committed')
    BY <2>2, FS_EmptySet
  <2>7. QED
    BY <2>2, <2>5, <2>6 DEF SlotInv
<1>16. QED
  BY <1>6, <1>7, <1>8, <1>9, <1>10, <1>11, <1>12, <1>13, <1>14, <1>15, SlotTaken DEF Next

\* In every window of every peer, whatever the order in which attempts begin, end
\* and meet the end of the window, the limiter counts exactly the failures and the
\* attempts under way, and never beyond its limit.
THEOREM NoSlotIsLost == Spec => []SlotsAreAccounted
<1>1. Init => SlotInv
  <2> SUFFICES ASSUME Init PROVE SlotInv
    OBVIOUS
  <2>1. Busy = {} /\ committed = {}
    BY DEF Init, Busy, Idle
  <2>2. \A p \in Peers : bucket[p].count = 0
    BY DEF Init
  <2>3. \A p, w : Failed(p, w) = {} /\ Underway(p, w) = {}
    BY <2>1 DEF Failed, Underway
  <2>4. QED
    BY <2>1, <2>2, <2>3, FS_EmptySet, GateNaturals DEF SlotInv
<1>2. QED
  BY <1>1, GateTypesInit, GateTypesNext, SlotInvNext, SlotInvAccounts, PTL DEF Spec
============================================================================
