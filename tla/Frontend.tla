----------------------------- MODULE Frontend -----------------------------
(***************************************************************************)
(* The browser's TerminalConnectionController (frontend/src/connection.ts) *)
(* with the ResizeCoalescer and the BoundedTerminalWriter it owns          *)
(* (terminal-io.ts), behind the one button and the page events of main.ts. *)
(*                                                                         *)
(* Every callback runs to completion; what interleaves is their order:     *)
(* answers of fetches, socket events, timers, the terminal's events and    *)
(* drains, the user.  Each belongs to the generation that caused it, and a *)
(* socket has the number of its generation.                                *)
(***************************************************************************)
EXTENDS Integers, Sequences, SequencesExt

CONSTANTS
  Sizes,          \* sizes of the terminal
  OutputLimit,    \* OUTPUT_QUEUE_LIMIT, in frames
  MaxGeneration,  \* bound: generations
  MaxTyped,       \* bound: inputs of the user
  MaxResizes,     \* bound: changes of the size
  MaxFrames,      \* bound: frames of output
  None            \* "no value"

ASSUME FrontendAssumption ==
  /\ Sizes # {} /\ None \notin Sizes \cup 1..MaxGeneration
  /\ None \notin [last : Sizes, pending : Sizes \cup {None}, timer : {"on", "off"}]
  /\ {OutputLimit, MaxTyped, MaxResizes, MaxFrames} \subseteq Nat
  /\ MaxGeneration \in Nat \ {0}

VARIABLES
  generation,
  phase, shown,      \* the snapshot: its phase and its exit status
  targets,           \* "none" or "some"
  exitStatus,        \* exitStatus of the current connection
  calls,             \* unanswered fetches: <<kind, generation>>
  socket,            \* the current socket
  state,             \* readyState of every socket
  sent,              \* what every socket was given
  readOnly,          \* sockets opened for a read-only target
  timers, timer,     \* scheduled connection timers, and the handle kept of one
  listeners,         \* terminal listeners: <<kind, generation>>
  disposers,         \* the ones inputDisposers knows
  coalescer,         \* [last, pending, timer] of the current ResizeCoalescer
  flushes,           \* its scheduled timers, by generation
  output,            \* frames held by the current BoundedTerminalWriter
  drains,            \* drain callbacks the terminal owes, by generation
  size, page,        \* of the terminal; "shown" or "hidden"
  typed, resizes, frames   \* counters of the bounds

snapshotVars == <<phase, shown, targets, exitStatus>>
socketVars == <<socket, state, sent, readOnly, timers, timer>>
terminalVars == <<listeners, disposers, coalescer, flushes, output, drains>>
worldVars == <<size, page, typed, resizes, frames>>
vars == <<generation, snapshotVars, calls, socketVars, terminalVars, worldVars>>

Generations == 1..MaxGeneration
Failures == {"denied", "timed-out", "internal-error"}
Pending == {"requesting-authorization", "connecting"}

Size(s) == <<"resize", s>>
Message(kind) == <<kind, None>>

IsCurrent(g) == g = generation

----------------------------------------------------------------------------
(* Teardown.                                                               *)

\* Mutant: the handle is dropped, the timer stays scheduled.
ClearedNothing == timers
\* The scheduled timers after clearConnectionTimer.
Cleared == timers \ {timer}

\* replaceConnection: everything the old generation owns goes, its socket
\* included; an orderly end tells the server.  The next generation may start
\* with a connection timer.
Replace(orderly, withTimer) ==
  /\ generation < MaxGeneration
  /\ generation' = generation + 1
  /\ listeners' = listeners \ disposers /\ disposers' = {}
  /\ flushes' = IF coalescer # None /\ coalescer.timer = "on" THEN flushes \ {generation} ELSE flushes
  /\ coalescer' = None /\ output' = 0
  /\ timers' = IF withTimer THEN Cleared \cup {generation + 1} ELSE Cleared
  /\ timer' = IF withTimer THEN generation + 1 ELSE None
  /\ IF socket = None THEN UNCHANGED <<state, sent>>
     ELSE /\ state' = [state EXCEPT ![socket] = "closed"]
          /\ sent' = IF orderly /\ state[socket] = "open"
                       THEN [sent EXCEPT ![socket] = Append(@, Message("close"))] ELSE sent
  /\ socket' = None /\ exitStatus' = None
  /\ UNCHANGED <<readOnly, drains>>

\* finish.
Finish(p) ==
  /\ Replace(FALSE, FALSE)
  /\ phase' = p /\ shown' = exitStatus
  /\ UNCHANGED <<targets>>

----------------------------------------------------------------------------
(* start, connect, close.                                                  *)

Start ==
  /\ generation = 0
  /\ Replace(FALSE, FALSE)
  /\ phase' = "establishing-identity" /\ shown' = None
  /\ calls' = calls \cup {<<"identity", generation'>>}
  /\ UNCHANGED <<targets, worldVars>>

\* The answer to establishIdentity.
IdentityAnswered(g) ==
  /\ <<"identity", g>> \in calls
  /\ \/ /\ calls' = (calls \ {<<"identity", g>>}) \cup (IF IsCurrent(g) THEN {<<"targets", g>>} ELSE {})
        /\ UNCHANGED <<generation, snapshotVars, socketVars, terminalVars>>
     \/ /\ calls' = calls \ {<<"identity", g>>}
        /\ IF IsCurrent(g) THEN \E p \in Failures : Finish(p)
           ELSE UNCHANGED <<generation, snapshotVars, socketVars, terminalVars>>
  /\ UNCHANGED worldVars

\* The answer to fetchTargets: targets, none, or an error.
TargetsAnswered(g) ==
  /\ <<"targets", g>> \in calls
  /\ calls' = calls \ {<<"targets", g>>}
  /\ \/ /\ IsCurrent(g)
        /\ targets' = "some" /\ phase' = "ready" /\ shown' = None
        /\ UNCHANGED <<generation, exitStatus, socketVars, terminalVars>>
     \/ IsCurrent(g) /\ \E p \in Failures : Finish(p)
     \/ ~IsCurrent(g) /\ UNCHANGED <<generation, snapshotVars, socketVars, terminalVars>>
  /\ UNCHANGED worldVars

\* The button; the page offers only configured targets.  The bound leaves room
\* for the end of the connection.
Connect ==
  /\ generation + 1 < MaxGeneration
  /\ page = "shown" /\ targets = "some" /\ phase \notin Pending \cup {"active", "establishing-identity"}
  /\ Replace(TRUE, TRUE)
  /\ phase' = "requesting-authorization" /\ shown' = None
  /\ calls' = calls \cup {<<"grant", generation'>>}
  /\ UNCHANGED <<targets, worldVars>>

\* Mutant: a grant is used although the connection was replaced meanwhile.
GrantUsed(g) == TRUE
\* The check of the continuation of requestSessionGrant.
GrantIsCurrent(g) == IsCurrent(g)

\* The connection timer stays scheduled until the socket opens.
TimersAfterGrant == timers

\* A grant: its target may not be the one asked for, and the constructor of the
\* socket may throw.
GrantArrives(g) ==
  /\ <<"grant", g>> \in calls
  /\ calls' = calls \ {<<"grant", g>>}
  /\ \/ ~GrantIsCurrent(g) /\ UNCHANGED <<generation, snapshotVars, socketVars, terminalVars>>
     \/ GrantIsCurrent(g) /\ Finish("internal-error")
     \/ \E ro \in SUBSET {g} :
          /\ GrantIsCurrent(g)
          /\ socket' = g /\ state' = [state EXCEPT ![g] = "connecting"]
          /\ readOnly' = readOnly \cup ro /\ timers' = TimersAfterGrant
          /\ phase' = "connecting" /\ shown' = None
          /\ UNCHANGED <<generation, targets, exitStatus, sent, timer, terminalVars>>
  /\ UNCHANGED worldVars

GrantFails(g) ==
  /\ <<"grant", g>> \in calls
  /\ calls' = calls \ {<<"grant", g>>}
  /\ IF IsCurrent(g) THEN \E p \in Failures : Finish(p)
     ELSE UNCHANGED <<generation, snapshotVars, socketVars, terminalVars>>
  /\ UNCHANGED worldVars

\* Mutant: the deadline is only about the authorization; a socket gets another.
TimerRearms(g) ==
  /\ g \in timers
  /\ \/ IsCurrent(g) /\ socket = None /\ Finish("timed-out")
     \/ IsCurrent(g) /\ socket # None /\ UNCHANGED <<generation, snapshotVars, socketVars, terminalVars>>
  /\ UNCHANGED <<calls, worldVars>>
\* The deadline of a connection.
TimerFires(g) ==
  /\ g \in timers
  /\ IF IsCurrent(g) THEN Finish("timed-out")
     ELSE timers' = timers \ {g} /\ UNCHANGED <<generation, snapshotVars, socket, state, sent, readOnly,
                                                timer, terminalVars>>
  /\ UNCHANGED <<calls, worldVars>>

\* close, by the button or, once, by pagehide; the exit status is read after
\* the replacement has cleared it.
Close ==
  /\ page = "shown"
  /\ \/ phase \in Pending \cup {"active"} /\ UNCHANGED page
     \/ page' = "hidden"
  /\ generation > 0
  /\ Replace(TRUE, FALSE)
  /\ phase' = "user-closed" /\ shown' = exitStatus'
  /\ UNCHANGED <<targets, calls, size, typed, resizes, frames>>

----------------------------------------------------------------------------
(* The socket.                                                             *)

\* onopen sends the ticket, activate the size.
FirstMessages == <<Message("ticket"), Size(size)>>

\* onopen and activate.
SocketOpens(g) ==
  /\ state[g] = "connecting" /\ socket = g
  /\ timers' = Cleared /\ timer' = None
  /\ state' = [state EXCEPT ![g] = "open"]
  /\ sent' = [sent EXCEPT ![g] = FirstMessages]
  /\ coalescer' = [last |-> size, pending |-> None, timer |-> "off"]
  /\ output' = 0
  /\ LET own == {<<"resize", g>>} \cup (IF g \in readOnly THEN {} ELSE {<<"data", g>>})
     IN  listeners' = listeners \cup own /\ disposers' = disposers \cup own
  /\ phase' = "active" /\ shown' = None
  /\ UNCHANGED <<generation, targets, exitStatus, calls, socket, readOnly, flushes, drains, worldVars>>

\* onclose or onerror; only the current socket has handlers.
SocketLost(g) ==
  /\ socket = g
  /\ Finish("transport-disconnected")
  /\ UNCHANGED <<calls, worldVars>>

\* A close of the server makes the socket refuse data before onclose is called.
SocketStartsClosing(g) ==
  /\ socket = g /\ state[g] = "open"
  /\ state' = [state EXCEPT ![g] = "closing"]
  /\ UNCHANGED <<generation, snapshotVars, calls, socket, sent, readOnly, timers, timer, terminalVars, worldVars>>

ExitStatusArrives(g) ==
  /\ socket = g /\ state[g] = "open"
  /\ exitStatus' = "status" /\ shown' = "status"
  /\ UNCHANGED <<generation, phase, targets, calls, socketVars, terminalVars, worldVars>>

\* #receiveControl: the phases of error codes; ssh-failed stands for five.
ErrorPhases == {"denied", "ssh-failed", "protocol-error", "internal-error"}

\* closePhase: the phase a close reason leads to.
ClosePhases == {"user-closed", "exited", "timed-out", "denied", "protocol-error",
                "transport-disconnected", "internal-error"}

\* What becomes of a frame decodeServerControl throws on.
Undecodable == {"protocol-error"}

\* An error or a close control, or a frame that cannot be decoded.
ControlArrives(g) ==
  /\ socket = g /\ state[g] = "open"
  /\ \E p \in ErrorPhases \cup ClosePhases \cup Undecodable : Finish(p)
  /\ UNCHANGED <<calls, worldVars>>

\* The check of enqueue.
HasRoom == output < OutputLimit

\* A binary frame: enqueue and pump, or overflow.
OutputArrives(g) ==
  /\ socket = g /\ state[g] = "open" /\ frames < MaxFrames
  /\ frames' = frames + 1
  /\ IF HasRoom
       THEN /\ output' = output + 1
            /\ drains' = IF output = 0 THEN Append(drains, g) ELSE drains
            /\ UNCHANGED <<generation, snapshotVars, socketVars, listeners, disposers, coalescer, flushes>>
       ELSE Finish("internal-error")
  /\ UNCHANGED <<calls, size, page, typed, resizes>>

----------------------------------------------------------------------------
(* The terminal.                                                           *)

\* Mutant: a drain counts for whatever writer there is.
DrainsAny(g) == TRUE
\* The callback belongs to a writer that was not disposed.
DrainsCurrent(g) == IsCurrent(g)

\* The terminal has written the frame it was given: pump.
Drained ==
  /\ drains # <<>>
  /\ IF DrainsCurrent(Head(drains)) /\ output > 0
       THEN /\ output' = output - 1
            /\ drains' = IF output > 1 THEN Append(Tail(drains), generation) ELSE Tail(drains)
       ELSE drains' = Tail(drains) /\ UNCHANGED output
  /\ UNCHANGED <<generation, snapshotVars, calls, socketVars, listeners, disposers, coalescer, flushes, worldVars>>

\* onData and sendBinary; a full socket buffer ends the connection.
Types ==
  /\ page = "shown" /\ typed < MaxTyped
  /\ typed' = typed + 1
  /\ \E l \in listeners :
       /\ l[1] = "data"
       /\ \/ /\ IsCurrent(l[2]) /\ state[l[2]] = "open"
             /\ sent' = [sent EXCEPT ![l[2]] = Append(@, Message("input"))]
             /\ UNCHANGED <<generation, snapshotVars, socket, state, readOnly, timers, timer, terminalVars>>
          \/ IsCurrent(l[2]) /\ state[l[2]] = "open" /\ Finish("internal-error")
          \/ /\ ~IsCurrent(l[2]) \/ state[l[2]] # "open"
             /\ UNCHANGED <<generation, snapshotVars, socketVars, terminalVars>>
  /\ UNCHANGED <<calls, size, page, resizes, frames>>

\* ResizeCoalescer.offer.
Offer(s) ==
  IF s \in {coalescer.last, coalescer.pending} THEN coalescer
  ELSE [coalescer EXCEPT !.pending = s, !.timer = "on"]

\* fit changes the size: the listener offers it.
Resizes(s) ==
  /\ page = "shown" /\ s # size /\ resizes < MaxResizes
  /\ size' = s /\ resizes' = resizes + 1
  /\ IF <<"resize", generation>> \in listeners
       THEN /\ coalescer' = Offer(s)
            /\ flushes' = IF Offer(s).timer = "on" THEN flushes \cup {generation} ELSE flushes
       ELSE UNCHANGED <<coalescer, flushes>>
  /\ UNCHANGED <<generation, snapshotVars, calls, socketVars, listeners, disposers, output, drains,
                 page, typed, frames>>

\* The callback of the coalescer's timer, and its send.
Flush(g) ==
  /\ g \in flushes
  /\ flushes' = flushes \ {g}
  /\ IF IsCurrent(g) /\ coalescer # None
       THEN /\ coalescer' = [last |-> coalescer.pending, pending |-> None, timer |-> "off"]
            /\ sent' = IF state[g] = "open" THEN [sent EXCEPT ![g] = Append(@, Size(coalescer.pending))] ELSE sent
       ELSE UNCHANGED <<coalescer, sent>>
  /\ UNCHANGED <<generation, snapshotVars, calls, socket, state, readOnly, timers, timer, listeners,
                 disposers, output, drains, worldVars>>

----------------------------------------------------------------------------
Init ==
  /\ generation = 0 /\ phase = "establishing-identity" /\ shown = None /\ targets = "none"
  /\ exitStatus = None /\ calls = {}
  /\ socket = None /\ state = [g \in Generations |-> "none"] /\ sent = [g \in Generations |-> <<>>]
  /\ readOnly = {} /\ timers = {} /\ timer = None
  /\ listeners = {} /\ disposers = {} /\ coalescer = None /\ flushes = {} /\ output = 0 /\ drains = <<>>
  /\ size \in Sizes /\ page = "shown" /\ typed = 0 /\ resizes = 0 /\ frames = 0

Timeouts == \E g \in Generations : TimerFires(g)
UserNext == Start \/ Connect \/ Close \/ Types \/ \E s \in Sizes : Resizes(s)
NetworkNext ==
  \E g \in Generations :
    \/ IdentityAnswered(g) \/ TargetsAnswered(g) \/ GrantArrives(g) \/ GrantFails(g)
    \/ SocketOpens(g) \/ SocketLost(g) \/ SocketStartsClosing(g)
    \/ ExitStatusArrives(g) \/ ControlArrives(g) \/ OutputArrives(g)

Next == UserNext \/ NetworkNext \/ Timeouts \/ Drained \/ \E g \in Generations : Flush(g)

Spec == Init /\ [][Next]_vars

\* Only the timers of the browser are owed; server, user and terminal are not.
FairSpec == Spec /\ WF_vars(Timeouts)

----------------------------------------------------------------------------
(* Properties.                                                             *)

TypeOK ==
  /\ generation \in 0..MaxGeneration
  /\ phase \in Failures \cup Pending \cup {"establishing-identity", "ready", "active", "exited", "ssh-failed",
                "user-closed", "transport-disconnected", "protocol-error"}
  /\ {shown, exitStatus} \subseteq {"status", None} /\ targets \in {"none", "some"}
  /\ calls \subseteq {"identity", "targets", "grant"} \X Generations
  /\ socket \in Generations \cup {None}
  /\ state \in [Generations -> {"none", "connecting", "open", "closing", "closed"}]
  /\ \A g \in Generations : ToSet(sent[g]) \subseteq {Size(s) : s \in Sizes} \cup {Message(k) : k \in {"ticket", "input", "close"}}
  /\ readOnly \subseteq Generations /\ timers \subseteq Generations /\ timer \in Generations \cup {None}
  /\ listeners \subseteq {"resize", "data"} \X Generations /\ disposers \subseteq listeners
  /\ coalescer \in {None} \cup [last : Sizes, pending : Sizes \cup {None}, timer : {"on", "off"}]
  /\ flushes \subseteq Generations /\ output \in 0..OutputLimit /\ ToSet(drains) \subseteq Generations
  /\ size \in Sizes /\ page \in {"shown", "hidden"}

\* "Repeated connect/close cycles must leave one current handler set and zero
\* timers from prior generations": whatever an earlier generation started is
\* gone, its socket included.
OnlyTheCurrentGenerationLives ==
  /\ timers \cup flushes \subseteq {generation}
  /\ \A l \in listeners : l[2] = generation
  /\ \A g \in Generations : state[g] \in {"connecting", "open", "closing"} => g = generation /\ socket = g

\* What the page shows is what there is: a connection exactly in the phases that
\* promise one, a deadline exactly while one is pending.
PhaseMatchesConnection ==
  /\ phase = "active" <=> socket # None /\ state[socket] \in {"open", "closing"}
  /\ phase = "connecting" <=> socket # None /\ state[socket] = "connecting"
  /\ phase \in Pending <=> timers # {}

\* Every socket carries the ticket first and once; a close is the last message,
\* and nothing but input and sizes comes between.
TicketOpensEverySocket ==
  \A g \in Generations : \A i \in DOMAIN sent[g] :
    /\ sent[g][i] = Message("ticket") <=> i = 1
    /\ sent[g][i] = Message("close") => i = Len(sent[g])

\* A drain that arrives late never frees room of a later connection: the frames
\* the writer counts are owed by exactly one callback of its own generation.
OutputIsAccounted ==
  LET owed == {i \in DOMAIN drains : drains[i] = generation}
  IN  IF output > 0 THEN \E i \in DOMAIN drains : owed = {i} ELSE owed = {}

\* One connection at a time: nothing of an earlier generation lives (connection.ts,
\* dispose), and each socket is opened by its ticket and closed once.
OneConnectionAtATime == OnlyTheCurrentGenerationLives /\ TicketOpensEverySocket

\* Phase, deadline and counted output are those of the connection there is, whichever
\* callback comes late (connection.ts, terminal-io.ts).
PageMatchesConnection == PhaseMatchesConnection /\ OutputIsAccounted

\* A connection attempt is over at the latest with its deadline, whatever
\* server and socket do.
AttemptsEnd == phase \in Pending ~> phase \notin Pending

\* "resize coalescing ... sends only the latest distinct size": when no size
\* waits to be sent, the server was told the one the terminal has.
LatestSizeIsSent ==
  coalescer # None /\ coalescer.timer = "off" => coalescer.last = size
============================================================================
