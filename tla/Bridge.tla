------------------------------ MODULE Bridge ------------------------------
(***************************************************************************)
(* The bridge between one WebSocket and one running session (websocket.rs  *)
(* from bridge to finish_bridge): the bridge task, read_socket and         *)
(* write_socket, the two bounded queues between them, and the cancel and   *)
(* stop_input channels.                                                    *)
(*                                                                         *)
(* The session is what its handle shows: output chunks, a bounded command  *)
(* queue that closes when the session starts to end, the final snapshot,   *)
(* and requests to close, the first of which counts (SessionLifecycle has  *)
(* the inside).  Both ends of the socket may stall at any time.            *)
(***************************************************************************)
EXTENDS Integers, Sequences, SequencesExt

CONSTANTS
  QueueCapacity,   \* BRIDGE_CHANNEL_CAPACITY
  OutputCapacity,  \* OUTPUT_CHANNEL_CAPACITY of the session
  InputCapacity,   \* INPUT_CHANNEL_CAPACITY of the session
  Faults,          \* close reasons of client messages the bridge rejects
  MaxOutput,       \* bound: chunks of output
  MaxMessages,     \* bound: messages of the client
  None             \* "no value"

ASSUME BridgeAssumption ==
  /\ {QueueCapacity, OutputCapacity, InputCapacity} \subseteq Nat \ {0}
  /\ {MaxOutput, MaxMessages} \subseteq Nat
  /\ "ProtocolViolation" \in Faults /\ Faults \subseteq {"ProtocolViolation", "PolicyViolation"}

ASSUME NoneAssumption == None \notin {"Terminal", "Backpressured", "Transport", "InternalFailure"} \cup Faults

VARIABLES
  pc,         \* the bridge task
  why,        \* its Termination
  todo,       \* controls finish_bridge has still to queue
  reader,     \* read_socket
  held,       \* the message read_socket is forwarding
  writer,     \* write_socket
  frame,      \* the frame write_socket is sending
  inbound, outbound,   \* the two queues
  cancel, stop,        \* the cancel and stop_input watch channels: "off" or "on"
  session,    \* the session: "running", "ending", "closed"
  final,      \* why it ends; visible once it is closed
  request,    \* the first reason it was asked to close for
  produced, taken,     \* chunks the session queued, chunks Session::read returned
  commands,   \* its command queue
  link,       \* the transport: "up" or "down"
  messages,   \* messages the client has sent
  sent        \* frames the transport took

bridgeVars == <<pc, why, todo>>
readerVars == <<reader, held, messages>>
writerVars == <<writer, frame, sent>>
sessionVars == <<session, final, request, produced, taken, commands>>
vars == <<bridgeVars, readerVars, writerVars, sessionVars, inbound, outbound, cancel, stop, link>>

\* A frame of the socket; output carries the number of its chunk.
Out(n) == <<"out", n>>
Ctl(kind) == <<kind, 0>>

Closed == session = "closed"

\* mpsc::Sender::send completes.
Room == Len(outbound) < QueueCapacity

----------------------------------------------------------------------------
(* read_socket.                                                            *)

\* What decode_client_binary and decode_client_control make of a message; an
\* input stands for a resize too.
Decoded == {"input", "close"} \cup Faults

\* Ping, text or binary message, or one the WebSocket layer found too large.
ReaderReceives(m) ==
  /\ reader = "reading" /\ cancel = "off" /\ stop = "off" /\ link = "up"
  /\ messages < MaxMessages
  /\ messages' = messages + 1
  /\ \/ m = "ping" /\ reader' = "ponging" /\ UNCHANGED held
     \/ m = "tooLarge" /\ reader' = "failing" /\ held' = "ProtocolViolation"
     \/ m \in Decoded /\ reader' = "forwarding" /\ held' = m
  /\ UNCHANGED <<bridgeVars, writerVars, sessionVars, inbound, outbound, cancel, stop, link>>

ReaderPongs ==
  /\ reader = "ponging" /\ cancel = "off" /\ writer # "ended" /\ Room
  /\ outbound' = Append(outbound, Ctl("pong"))
  /\ reader' = "reading"
  /\ UNCHANGED <<bridgeVars, held, messages, writerVars, sessionVars, inbound, cancel, stop, link>>

ReaderForwards ==
  /\ reader \in {"forwarding", "failing"} /\ cancel = "off"
  /\ Len(inbound) < QueueCapacity
  /\ inbound' = Append(inbound, held)
  /\ held' = None
  /\ reader' = IF reader = "failing" THEN "ended" ELSE "reading"
  /\ UNCHANGED <<bridgeVars, messages, writerVars, sessionVars, outbound, cancel, stop, link>>

\* A close frame, an error or the end of the stream.
ReaderLosesLink ==
  /\ reader = "reading" /\ cancel = "off" /\ stop = "off" /\ link = "down"
  /\ cancel' = "on" /\ reader' = "ended"
  /\ UNCHANGED <<bridgeVars, held, messages, writerVars, sessionVars, inbound, outbound, stop, link>>

\* Only a reader that waits for a message looks at stop_input.
ReaderStops ==
  /\ \/ reader \in {"reading", "ponging", "forwarding", "failing"} /\ cancel = "on"
     \/ reader = "reading" /\ stop = "on"
     \/ reader = "ponging" /\ writer = "ended"
  /\ reader' = "ended" /\ held' = None
  /\ UNCHANGED <<bridgeVars, messages, writerVars, sessionVars, inbound, outbound, cancel, stop, link>>

----------------------------------------------------------------------------
(* write_socket.                                                           *)

WriterTakes ==
  /\ writer = "waiting" /\ cancel = "off" /\ outbound # <<>>
  /\ frame' = Head(outbound) /\ outbound' = Tail(outbound)
  /\ writer' = "sending"
  /\ UNCHANGED <<bridgeVars, readerVars, sent, sessionVars, inbound, cancel, stop, link>>

\* The transport takes the frame; the close frame is the last.
WriterSends ==
  /\ writer = "sending" /\ cancel = "off" /\ link = "up"
  /\ sent' = Append(sent, frame)
  /\ writer' = IF frame = Ctl("frame") THEN "ended" ELSE "waiting"
  /\ frame' = None
  /\ UNCHANGED <<bridgeVars, readerVars, sessionVars, inbound, outbound, cancel, stop, link>>

\* Cancelled while sending, or the transport failed.
WriterFails ==
  /\ writer = "sending" /\ (cancel = "on" \/ link = "down")
  /\ cancel' = "on"
  /\ writer' = "closing" /\ frame' = None
  /\ UNCHANGED <<bridgeVars, readerVars, sent, sessionVars, inbound, outbound, stop, link>>

\* Cancelled while waiting.
WriterStops ==
  /\ writer = "waiting" /\ cancel = "on"
  /\ writer' = "closing"
  /\ UNCHANGED <<bridgeVars, readerVars, frame, sent, sessionVars, inbound, outbound, cancel, stop, link>>

\* close_or_cancel: done, or given up after SOCKET_CLOSE_TIMEOUT.
WriterCloses ==
  /\ writer = "closing"
  /\ writer' = "ended"
  /\ UNCHANGED <<bridgeVars, readerVars, frame, sent, sessionVars, inbound, outbound, cancel, stop, link>>

----------------------------------------------------------------------------
(* The bridge task.                                                        *)

\* The loop ends; stop_input is raised in any case.
Terminate(termination) ==
  /\ why' = termination
  /\ pc' = "finishing"
  /\ stop' = "on"
  /\ UNCHANGED <<todo, readerVars, writerVars, sessionVars, outbound, cancel, link>>

Requested(reason) == request' = IF request = None THEN reason ELSE request

\* The biased select: cancel, then a client message, then output.
Cancelled ==
  /\ pc = "loop" /\ cancel = "on"
  /\ Terminate("Transport") /\ UNCHANGED inbound

\* handle_client_message: a rejected message, an input or resize, a close.
TakeMessage ==
  /\ pc = "loop" /\ cancel = "off" /\ inbound # <<>>
  /\ inbound' = Tail(inbound)
  /\ \/ Head(inbound) \in Faults /\ Terminate(Head(inbound))
     \/ /\ Head(inbound) = "input" /\ pc' = "writing"
        /\ UNCHANGED <<why, todo, readerVars, writerVars, sessionVars, outbound, cancel, stop, link>>
     \/ /\ Head(inbound) = "close" /\ pc' = "requesting"
        /\ stop' = "on"
        /\ UNCHANGED <<why, todo, readerVars, writerVars, sessionVars, outbound, cancel, link>>

\* Mutant: a session that is over has nothing more to say.
TakeOutputUnlessClosed ==
  /\ pc = "loop" /\ cancel = "off" /\ inbound = <<>>
  /\ \/ /\ ~Closed /\ taken < produced
        /\ taken' = taken + 1 /\ pc' = "pushing"
        /\ UNCHANGED <<why, todo, readerVars, writerVars, session, final, request, produced, commands,
                       outbound, cancel, stop, link>>
     \/ Closed /\ Terminate("Terminal")
  /\ UNCHANGED inbound
\* Session::read returns a chunk, or, after the last one, Closed.  The reader
\* ends only with cancel raised or behind a fault it has queued, so the branch of
\* the loop for an inbound queue that ended is never taken.
TakeOutput ==
  /\ pc = "loop" /\ cancel = "off" /\ inbound = <<>>
  /\ \/ /\ taken < produced
        /\ taken' = taken + 1 /\ pc' = "pushing"
        /\ UNCHANGED <<why, todo, readerVars, writerVars, session, final, request, produced, commands,
                       outbound, cancel, stop, link>>
     \/ taken = produced /\ Closed /\ Terminate("Terminal")
  /\ UNCHANGED inbound

\* Session::write or resize under cancellable_session; a session that no longer
\* takes commands is waited for (resolve_session_operation).  A session that is
\* ending takes them until its writer is gone.
Write ==
  /\ pc = "writing"
  /\ \/ cancel = "on" /\ Terminate("InternalFailure")
     \/ /\ cancel = "off" /\ ~Closed /\ commands < InputCapacity
        /\ commands' = commands + 1 /\ pc' = "loop"
        /\ UNCHANGED <<why, todo, readerVars, writerVars, session, final, request, produced, taken,
                       outbound, cancel, stop, link>>
     \/ /\ cancel = "off" /\ session # "running" /\ pc' = "settling"
        /\ UNCHANGED <<why, todo, readerVars, writerVars, sessionVars, outbound, cancel, stop, link>>
  /\ UNCHANGED inbound

Settle ==
  /\ pc = "settling" /\ Closed
  /\ Terminate("Terminal") /\ UNCHANGED inbound

\* Session::close under cancellable_session: the request, then the wait.
RequestClose ==
  /\ pc = "requesting"
  /\ \/ cancel = "on" /\ Terminate("InternalFailure")
     \/ /\ cancel = "off" /\ pc' = "closing" /\ Requested("Explicit")
        /\ UNCHANGED <<why, todo, readerVars, writerVars, session, final, produced, taken, commands,
                       outbound, cancel, stop, link>>
  /\ UNCHANGED inbound

AwaitClose ==
  /\ pc = "closing"
  /\ \/ cancel = "on" /\ Terminate("InternalFailure")
     \/ cancel = "off" /\ Closed /\ Terminate("Terminal")
  /\ UNCHANGED inbound

\* Mutant: a chunk the session outlived is skipped and the loop goes on.
PushOrSkip ==
  /\ pc = "pushing"
  /\ \/ cancel = "on" /\ Terminate("Transport")
     \/ /\ cancel = "off" /\ (Room \/ Closed) /\ pc' = "loop"
        /\ outbound' = IF Room THEN Append(outbound, Out(taken)) ELSE outbound
        /\ UNCHANGED <<why, todo, readerVars, writerVars, sessionVars, cancel, stop, link>>
  /\ UNCHANGED inbound
\* Mutant: a chunk that finds no room is not raced with the end of the session.
PushWaits ==
  /\ pc = "pushing"
  /\ \/ cancel = "on" /\ Terminate("Transport")
     \/ /\ cancel = "off" /\ Room /\ pc' = "loop"
        /\ outbound' = Append(outbound, Out(taken))
        /\ UNCHANGED <<why, todo, readerVars, writerVars, sessionVars, cancel, stop, link>>
  /\ UNCHANGED inbound
\* send_bounded raced with the end of the session: room first, then the end.
Push ==
  /\ pc = "pushing"
  /\ \/ cancel = "on" /\ Terminate("Transport")
     \/ /\ cancel = "off" /\ Room /\ pc' = "loop"
        /\ outbound' = Append(outbound, Out(taken))
        /\ UNCHANGED <<why, todo, readerVars, writerVars, sessionVars, cancel, stop, link>>
     \/ cancel = "off" /\ ~Room /\ Closed /\ Terminate("Backpressured")
  /\ UNCHANGED inbound

\* terminal_controls; "Timeout" stands for every reason that is only a close.  A child
\* that exited always comes with its outcome (session.rs, run_supervisor).
TerminalControls ==
  CASE final = "ChildExited" -> <<"exit", "close">>
    [] final \in {"BackendFailure", "InternalFailure"} -> <<"error", "close">>
    [] OTHER -> <<"close">>

\* Mutant: the end of the session is not waited for.
FinishAtOnce ==
  /\ pc = "finishing"
  /\ pc' = IF why \in {"Backpressured", "Transport"} THEN "joining" ELSE "awaiting"
  /\ cancel' = IF why \in {"Backpressured", "Transport"} THEN "on" ELSE cancel
  /\ IF why \in {"Terminal", "Backpressured"} THEN UNCHANGED request
     ELSE Requested(IF why = "Transport" THEN "TransportDropped" ELSE why)
  /\ UNCHANGED <<why, todo, readerVars, writerVars, session, final, produced, taken, commands,
                 inbound, outbound, stop, link>>
\* finish_bridge: a failure or a lost transport closes the session first.
Finish ==
  /\ pc = "finishing" /\ pc' = IF why = "Backpressured" THEN "joining" ELSE "awaiting"
  /\ cancel' = IF why = "Backpressured" THEN "on" ELSE cancel
  /\ IF why \in {"Terminal", "Backpressured"} THEN UNCHANGED request
     ELSE Requested(IF why = "Transport" THEN "TransportDropped" ELSE why)
  /\ UNCHANGED <<why, todo, readerVars, writerVars, session, final, produced, taken, commands,
                 inbound, outbound, stop, link>>

\* wait_closed: then the controls, or, without a transport, only the joins.
Awaited ==
  /\ pc = "awaiting" /\ Closed
  /\ \/ /\ why = "Transport" /\ cancel' = "on" /\ pc' = "joining"
        /\ UNCHANGED todo
     \/ /\ why # "Transport" /\ pc' = "reporting" /\ UNCHANGED cancel
        /\ todo' = (IF why = "Terminal" THEN TerminalControls ELSE <<"error", "close">>) \o <<"frame">>
  /\ UNCHANGED <<why, readerVars, writerVars, sessionVars, inbound, outbound, stop, link>>

\* The controls and the close frame are queued without a deadline; a cancel or
\* the end of the writer ends the attempt.
Report ==
  /\ pc = "reporting"
  /\ \/ /\ todo # <<>> /\ cancel = "off" /\ writer # "ended" /\ Room
        /\ outbound' = Append(outbound, Ctl(Head(todo)))
        /\ todo' = Tail(todo)
        /\ UNCHANGED pc
     \/ /\ cancel = "on" \/ writer = "ended" \/ todo = <<>>
        /\ todo' = <<>> /\ pc' = "leaving"
        /\ UNCHANGED outbound
  /\ UNCHANGED <<why, readerVars, writerVars, sessionVars, inbound, cancel, stop, link>>

\* The writer has finished, or TASK_JOIN_TIMEOUT has passed: cancel.
Leave ==
  /\ pc = "leaving"
  /\ cancel' = "on" /\ pc' = "joining"
  /\ UNCHANGED <<why, todo, readerVars, writerVars, sessionVars, inbound, outbound, stop, link>>

\* join_task: a task that does not end in time is aborted.  The socket is gone
\* with its two halves, the Session is dropped.
Join ==
  /\ pc = "joining"
  /\ pc' = "ended"
  /\ reader' = "ended" /\ held' = None /\ writer' = "ended" /\ frame' = None
  /\ link' = "down"
  /\ UNCHANGED <<why, todo, messages, sent, sessionVars, inbound, outbound, cancel, stop>>

----------------------------------------------------------------------------
(* The session and the transport.                                          *)

SessionOutputs ==
  /\ session = "running" /\ produced < MaxOutput /\ produced - taken < OutputCapacity
  /\ produced' = produced + 1
  /\ UNCHANGED <<bridgeVars, readerVars, writerVars, session, final, request, taken, commands,
                 inbound, outbound, cancel, stop, link>>

SessionReadsCommand ==
  /\ session = "running" /\ commands > 0
  /\ commands' = commands - 1
  /\ UNCHANGED <<bridgeVars, readerVars, writerVars, session, final, request, produced, taken,
                 inbound, outbound, cancel, stop, link>>

\* By itself or as requested; from here on commands are refused.
SessionEnds(reason) ==
  /\ session = "running"
  /\ reason \in {"ChildExited", "Timeout", "BackendFailure"} \/ (reason = request /\ request # None)
  /\ session' = "ending" /\ final' = reason
  /\ UNCHANGED <<bridgeVars, readerVars, writerVars, request, produced, taken, commands, inbound,
                 outbound, cancel, stop, link>>

SessionCloses ==
  /\ session = "ending"
  /\ session' = "closed"
  /\ UNCHANGED <<bridgeVars, readerVars, writerVars, final, request, produced, taken, commands,
                 inbound, outbound, cancel, stop, link>>

LinkBreaks ==
  /\ link = "up"
  /\ link' = "down"
  /\ UNCHANGED <<bridgeVars, readerVars, writerVars, sessionVars, inbound, outbound, cancel, stop>>

Requests == Faults \cup {"Explicit", "TransportDropped", "InternalFailure"}

Init ==
  /\ pc = "loop" /\ why = None /\ todo = <<>>
  /\ reader = "reading" /\ held = None /\ messages = 0
  /\ writer = "waiting" /\ frame = None /\ sent = <<>>
  /\ inbound = <<>> /\ outbound = <<>> /\ cancel = "off" /\ stop = "off"
  /\ session = "running" /\ final = None /\ request = None
  /\ produced = 0 /\ taken = 0 /\ commands = 0 /\ link = "up"

ReaderNext == ReaderPongs \/ ReaderForwards \/ ReaderLosesLink \/ ReaderStops
WriterNext == WriterTakes \/ WriterFails \/ WriterStops \/ WriterCloses
BridgeNext ==
  \/ Cancelled \/ TakeMessage \/ TakeOutput \/ Write \/ Settle \/ RequestClose \/ AwaitClose
  \/ Push \/ Finish \/ Awaited \/ Report \/ Leave \/ Join

Next ==
  \/ BridgeNext \/ ReaderNext \/ WriterNext \/ WriterSends
  \/ \E m \in {"ping", "tooLarge"} \cup Decoded : ReaderReceives(m)
  \/ SessionOutputs \/ SessionReadsCommand \/ SessionCloses \/ LinkBreaks
  \/ \E r \in Requests \cup {"ChildExited", "Timeout", "BackendFailure"} : SessionEnds(r)

Spec == Init /\ [][Next]_vars

----------------------------------------------------------------------------
(* Properties.                                                             *)

Frames == {Ctl(k) : k \in {"pong", "exit", "error", "close", "frame"}} \cup {Out(n) : n \in 1..MaxOutput}

TypeOK ==
  /\ pc \in {"loop", "writing", "settling", "requesting", "closing", "pushing", "finishing", "awaiting",
             "reporting", "leaving", "joining", "ended"}
  /\ why \in Faults \cup {"Terminal", "Backpressured", "Transport", "InternalFailure", None}
  /\ Len(todo) <= 3 /\ ToSet(todo) \subseteq {"exit", "error", "close", "frame"}
  /\ reader \in {"reading", "ponging", "forwarding", "failing", "ended"}
  /\ held \in Decoded \cup {None} /\ messages \in 0..MaxMessages
  /\ writer \in {"waiting", "sending", "closing", "ended"} /\ frame \in Frames \cup {None}
  /\ Len(inbound) <= QueueCapacity /\ ToSet(inbound) \subseteq Decoded
  /\ Len(outbound) <= QueueCapacity /\ ToSet(outbound) \subseteq Frames
  /\ cancel \in {"off", "on"} /\ stop \in {"off", "on"} /\ link \in {"up", "down"}
  /\ session \in {"running", "ending", "closed"}
  /\ final \in Requests \cup {"ChildExited", "Timeout", "BackendFailure", None}
  /\ request \in Requests \cup {None}
  /\ taken \in 0..MaxOutput /\ produced \in taken..MaxOutput /\ commands \in 0..InputCapacity
  /\ ToSet(sent) \subseteq Frames

Sent(k) == \E i \in DOMAIN sent : sent[i] = Ctl(k)

\* "A server close is the final typed lifecycle notification": after it the
\* client sees at most pongs and the close frame, after that frame nothing; an
\* exit status or an error comes directly before it, unless a pong got between.
CloseIsLast ==
  \A i, j \in DOMAIN sent : i < j =>
    /\ sent[i] # Ctl("frame")
    /\ sent[i] = Ctl("close") => sent[j] \in {Ctl("pong"), Ctl("frame")}
    /\ sent[i] \in {Ctl("exit"), Ctl("error")} => sent[j] \in {Ctl("pong"), Ctl("close"), Ctl("frame")}

\* Chunks come in the order of their numbers, none before all that precede it.
Gapless(frames) ==
  \A j \in DOMAIN frames : frames[j][1] = "out" =>
    /\ \A i \in 1..(j - 1) : frames[i][1] = "out" => frames[i][2] < frames[j][2]
    /\ \A n \in 1..(frames[j][2] - 1) : \E i \in 1..(j - 1) : frames[i] = Out(n)

\* What the client receives of the output is a prefix of it: no path drops a
\* chunk and sends a later one.
OutputHasNoGaps == Gapless(sent)

\* What write_socket sends is in order, whoever queued it: the output without gaps,
\* then the controls of finish_bridge, and the close as their end.
SentInOrder == OutputHasNoGaps /\ CloseIsLast

\* When the bridge is over so is everything it started: the session has its
\* final state, whatever ended the bridge, and no socket task is left.
BridgeOutlivesSession ==
  pc = "ended" => Closed /\ reader = "ended" /\ writer = "ended"

\* finish_bridge waits for room to report, behind a frame the transport does not take.
Stalled == pc = "reporting" /\ writer = "sending" /\ link = "up" /\ cancel = "off" /\ ~Room

\* A bridge whose session is over ends, whatever the client does, with one exception:
\* finish_bridge queues its last controls without a deadline, and a client that stays
\* connected and reads nothing, in mid-frame with a full queue behind it, holds the
\* bridge as long as it likes.  A bridge that was cancelled ends.
BridgeEnds ==
  /\ Closed ~> (pc = "ended" \/ []Stalled)
  /\ cancel = "on" ~> pc = "ended"

\* To a client that only listens an exit status comes after all output the
\* session had queued, however the two ends race and the queues stand.  (An input
\* that meets a closed command queue cuts the output short.)
SilentClientGetsEverything ==
  Sent("exit") /\ messages = 0 => \A n \in 1..produced : \E i \in DOMAIN sent : sent[i] = Out(n)
============================================================================
