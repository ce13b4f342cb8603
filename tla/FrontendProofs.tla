-------------------------- MODULE FrontendProofs --------------------------
(***************************************************************************)
(* The connection controller of the page (module Frontend), for every      *)
(* number of generations, every set of sizes and every limit of the output *)
(* queue: nothing of an earlier generation lives, every socket carries its *)
(* ticket first and its close last, and the phase, the deadline and the    *)
(* counted output are those of the connection there is, in whatever order  *)
(* answers, socket events, timers and drains arrive.                       *)
(***************************************************************************)
EXTENDS Frontend, SequenceTheorems, TLAPS

Phases == Failures \cup Pending \cup {"establishing-identity", "ready", "active", "exited", "ssh-failed",
                                      "user-closed", "transport-disconnected", "protocol-error"}
States == {"none", "connecting", "open", "closing", "closed"}
Messages == {Size(s) : s \in Sizes} \cup {Message(k) : k \in {"ticket", "input", "close"}}
Coalescers == [last : Sizes, pending : Sizes \cup {None}, timer : {"on", "off"}]

\* Types, and for the terminal: a coalescer whose timer runs has a size to send.
PageTypes ==
  /\ generation \in 0..MaxGeneration /\ phase \in Phases
  /\ shown \in {"status", None} /\ exitStatus \in {"status", None} /\ targets \in {"none", "some"}
  /\ calls \subseteq {"identity", "targets", "grant"} \X Generations
  /\ socket \in Generations \cup {None} /\ state \in [Generations -> States]
  /\ sent \in [Generations -> Seq(Messages)]
  /\ readOnly \subseteq Generations /\ timers \subseteq Generations /\ timer \in Generations \cup {None}
  /\ listeners \subseteq {"resize", "data"} \X Generations
  /\ coalescer \in {None} \cup Coalescers
  /\ coalescer # None /\ coalescer.timer = "on" => coalescer.pending \in Sizes
  /\ flushes \subseteq Generations /\ output \in 0..OutputLimit /\ drains \in Seq(Generations)
  /\ size \in Sizes /\ page \in {"shown", "hidden"}

\* An answer that is awaited belongs to the current generation or to an earlier one;
\* the current one awaits at most one, in the phase that asked.
CallsInv ==
  /\ \A k, g : <<k, g>> \in calls => g <= generation
  /\ \A k : <<k, generation>> \in calls =>
       phase = IF k = "grant" THEN "requesting-authorization" ELSE "establishing-identity"
  /\ \A k, l : <<k, generation>> \in calls /\ <<l, generation>> \in calls => k = l

\* The socket there is, and no other, is alive; later ones were never used.
SocketInv ==
  /\ socket # None => socket = generation /\ state[socket] \in {"connecting", "open", "closing"}
  /\ \A g \in Generations : state[g] \in {"connecting", "open", "closing"} => socket = g
  /\ \A g \in Generations : g >= generation /\ g # socket => state[g] = "none"
  /\ phase = "active" <=> socket # None /\ state[socket] \in {"open", "closing"}
  /\ phase = "connecting" <=> socket # None /\ state[socket] = "connecting"

\* The one timer is the one the controller has kept.
TimerInv ==
  /\ timers = IF phase \in Pending THEN {generation} ELSE {}
  /\ phase \in Pending => timer = generation

\* The terminal belongs to an active connection.
TerminalInv ==
  /\ disposers = listeners
  /\ \A l \in listeners : l[2] = generation
  /\ coalescer = None => listeners = {} /\ flushes = {}
  /\ flushes \subseteq {generation}
  /\ flushes # {} => coalescer.timer = "on"
  /\ phase # "active" => coalescer = None /\ output = 0

\* What a socket was given.
Given(s, st) ==
  /\ \A i \in 1..Len(s) : /\ s[i] = Message("ticket") <=> i = 1
                          /\ s[i] = Message("close") => i = Len(s) /\ st = "closed"
  /\ st = "open" => Len(s) > 0
SentInv == \A g \in Generations : Given(sent[g], state[g])

\* The one drain the current writer waits for.
DrainInv ==
  /\ \A i \in 1..Len(drains) : drains[i] <= generation
  /\ output = 0 => \A i \in 1..Len(drains) : drains[i] # generation
  /\ output > 0 => \E i \in 1..Len(drains) : \A j \in 1..Len(drains) : drains[j] = generation <=> j = i

\* The inductive invariant of the controller.
PageInv == PageTypes /\ CallsInv /\ SocketInv /\ TimerInv /\ TerminalInv /\ SentInv /\ DrainInv

\* The bounds are natural numbers, and "no value" is no generation.
LEMMA PageNaturals ==
  /\ MaxGeneration \in Nat \ {0} /\ OutputLimit \in Nat /\ MaxTyped \in Nat /\ MaxResizes \in Nat /\ MaxFrames \in Nat
  /\ Generations = 1..MaxGeneration /\ None \notin Generations /\ None \notin Coalescers /\ None \notin Sizes
BY FrontendAssumption DEF Generations, Coalescers

\* The messages of a socket differ by their kind.
LEMMA MessagesDiffer ==
  /\ \A s : Size(s) # Message("ticket") /\ Size(s) # Message("close")
  /\ Message("ticket") # Message("close") /\ Message("input") \notin {Message("ticket"), Message("close")}
  /\ \A k \in {"ticket", "input", "close"} : Message(k) \in Messages
  /\ \A s \in Sizes : Size(s) \in Messages
BY DEF Size, Message, Messages

\* A socket that is open is given one more message, and is closed with its close.
LEMMA GivenMore ==
  ASSUME NEW s \in Seq(Messages), Given(s, "open"), NEW m \in Messages, m # Message("ticket")
  PROVE  /\ Append(s, m) \in Seq(Messages)
         /\ m # Message("close") => Given(Append(s, m), "open")
         /\ Given(Append(s, m), "closed")
<1>1. Len(s) \in Nat /\ Len(s) > 0 /\ Append(s, m) \in Seq(Messages) /\ Len(Append(s, m)) = Len(s) + 1
      /\ Append(s, m)[Len(s) + 1] = m /\ \A i \in 1..Len(s) : Append(s, m)[i] = s[i]
  BY AppendProperties DEF Given
<1> DEFINE a == Append(s, m)
<1>2. Len(a) = Len(s) + 1 /\ a[Len(s) + 1] = m /\ (\A i \in 1..Len(s) : a[i] = s[i])
  BY <1>1
<1> HIDE DEF a
<1>3. \A i \in 1..Len(a) : i \in 1..Len(s) \/ (i = Len(s) + 1 /\ i = Len(a) /\ i # 1)
  BY <1>1, <1>2
<1>4. \A i \in 1..Len(a) : a[i] = Message("ticket") <=> i = 1
  BY <1>1, <1>2, <1>3 DEF Given
<1>5. \A i \in 1..Len(a) : a[i] = Message("close") => i = Len(a) /\ m = Message("close")
  <2>1. "open" # "closed"
    OBVIOUS
  <2>2. \A i \in 1..Len(s) : s[i] # Message("close")
    BY <2>1 DEF Given
  <2>3. QED
    BY <1>2, <1>3, <2>2
<1>6. QED
  BY <1>1, <1>2, <1>4, <1>5 DEF Given, a

\* A socket that is not given anything changes its state, but is not opened.
LEMMA GivenNothing ==
  ASSUME NEW s, NEW st, Given(s, st), NEW st2, st = "closed" => st2 = "closed", st2 = "open" => st = "open"
  PROVE  Given(s, st2)
BY DEF Given

\* A new generation owns what it was given and nothing else: replaceConnection with the
\* snapshot its caller sets.
LEMMA ReplaceKeeps ==
  ASSUME PageInv, NEW orderly \in BOOLEAN, NEW withTimer \in BOOLEAN, Replace(orderly, withTimer),
         phase' \in Phases \ {"active", "connecting"},
         withTimer <=> phase' = "requesting-authorization",
         shown' \in {"status", None}, targets' \in {"none", "some"},
         calls' \subseteq {"identity", "targets", "grant"} \X Generations,
         \A c \in calls' : \/ c \in calls
                           \/ c = <<"grant", generation'>> /\ withTimer
                           \/ c = <<"identity", generation'>> /\ phase' = "establishing-identity",
         size' \in Sizes, page' \in {"shown", "hidden"}
  PROVE  PageInv'
<1> USE PageNaturals
<1>1. generation \in Nat /\ generation' = generation + 1 /\ generation' \in 0..MaxGeneration
      /\ generation' \in Generations /\ generation' # generation
  BY DEF Replace, PageInv, PageTypes
<1>2. Cleared = {}
  BY DEF PageInv, TimerInv, Cleared
<1>3. /\ timers' = IF phase' \in Pending THEN {generation'} ELSE {}
      /\ phase' \in Pending => timer' = generation'
      /\ timer' \in Generations \cup {None} /\ timers' \subseteq Generations
  <2>1. phase' \in Pending <=> withTimer
    BY DEF Pending
  <2>2. CASE withTimer
    <3>1. timers' = {generation'} /\ timer' = generation'
      BY <1>1, <1>2, <2>2 DEF Replace
    <3>2. QED
      BY <1>1, <2>1, <2>2, <3>1
  <2>3. CASE ~withTimer
    <3>1. timers' = {} /\ timer' = None
      BY <1>2, <2>3 DEF Replace
    <3>2. QED
      BY <2>1, <2>3, <3>1
  <2>4. QED
    BY <2>2, <2>3
<1>4. socket' = None /\ state' \in [Generations -> States] /\ sent' \in [Generations -> Seq(Messages)]
      /\ SentInv' /\ \A g \in Generations : state'[g] \notin {"connecting", "open", "closing"}
  <2>1. CASE socket = None
    BY <2>1 DEF Replace, PageInv, PageTypes, SentInv, SocketInv
  <2>2. CASE socket # None
    <3>1. socket \in Generations /\ state' = [state EXCEPT ![socket] = "closed"] /\ socket' = None
      BY <2>2 DEF Replace, PageInv, PageTypes
    <3>2. state' \in [Generations -> States] /\ state'[socket] = "closed"
          /\ \A g \in Generations \ {socket} : state'[g] = state[g] /\ state[g] \notin {"connecting", "open", "closing"}
      BY <3>1 DEF PageInv, PageTypes, States, SocketInv
    <3>3. Given(sent[socket], state[socket]) /\ sent[socket] \in Seq(Messages) /\ sent \in [Generations -> Seq(Messages)]
      BY <3>1 DEF PageInv, PageTypes, SentInv
    <3>4. sent' \in [Generations -> Seq(Messages)] /\ Given(sent'[socket], "closed")
          /\ \A g \in Generations \ {socket} : sent'[g] = sent[g]
      <4>1. CASE orderly /\ state[socket] = "open"
        <5>1. sent' = [sent EXCEPT ![socket] = Append(@, Message("close"))]
          BY <2>2, <4>1 DEF Replace
        <5>2. Append(sent[socket], Message("close")) \in Seq(Messages)
              /\ Given(Append(sent[socket], Message("close")), "closed")
          BY <3>3, <4>1, GivenMore, MessagesDiffer
        <5>3. QED
          BY <3>1, <3>3, <5>1, <5>2
      <4>2. CASE ~(orderly /\ state[socket] = "open")
        <5>1. sent' = sent
          BY <2>2, <4>2 DEF Replace
        <5>2. QED
          BY <3>1, <3>3, <5>1, GivenNothing
      <4>3. QED
        BY <4>1, <4>2
    <3>5. SentInv'
      BY <3>2, <3>4 DEF SentInv, PageInv
    <3>6. QED
      BY <3>1, <3>2, <3>4, <3>5
  <2>3. QED
    BY <2>1, <2>2
<1>5. SocketInv'
  <2>1. ASSUME NEW g \in Generations, g >= generation' PROVE state'[g] = "none"
    <3>1. g >= generation /\ g # generation
      BY <1>1, <2>1
    <3>2. g # socket
      BY <3>1 DEF PageInv, SocketInv
    <3>3. state[g] = "none"
      BY <3>1, <3>2 DEF PageInv, SocketInv
    <3>4. state'[g] = state[g]
      BY <3>2 DEF Replace, PageInv, PageTypes
    <3>5. QED
      BY <3>3, <3>4
  <2>2. QED
    BY <1>4, <2>1 DEF SocketInv
<1>6. listeners' = {} /\ disposers' = {} /\ coalescer' = None /\ output' = 0 /\ flushes' = {} /\ exitStatus' = None
      /\ UNCHANGED <<readOnly, drains>>
  BY DEF Replace, PageInv, TerminalInv
<1>7. TerminalInv'
  BY <1>6 DEF TerminalInv
<1>8. DrainInv'
  <2>1. Len(drains) \in Nat /\ \A i \in 1..Len(drains) : drains[i] \in Nat
    BY SMTT(40) DEF PageInv, PageTypes
  <2>2. \A i \in 1..Len(drains) : drains[i] <= generation' /\ drains[i] # generation'
    BY <1>1, <2>1 DEF PageInv, DrainInv
  <2>3. QED
    BY <1>6, <2>2 DEF DrainInv
<1>9. CallsInv'
  <2>1. ASSUME NEW k, NEW g, <<k, g>> \in calls PROVE g <= generation /\ g \in Nat /\ g <= generation' /\ g # generation'
    <3>1. g <= generation /\ g \in Generations
      BY <2>1 DEF PageInv, CallsInv, PageTypes
    <3>2. QED
      BY <1>1, <3>1
  <2>2. ASSUME NEW k, NEW g, <<k, g>> \in calls'
        PROVE  /\ g <= generation'
               /\ g = generation' => /\ k \in {"grant", "identity"}
                                     /\ phase' = IF k = "grant" THEN "requesting-authorization" ELSE "establishing-identity"
    <3>1. CASE <<k, g>> \in calls
      BY <2>1, <3>1
    <3>2. CASE <<k, g>> = <<"grant", generation'>> /\ withTimer
      BY <1>1, <3>2
    <3>3. CASE <<k, g>> = <<"identity", generation'>> /\ phase' = "establishing-identity"
      BY <1>1, <3>3
    <3>4. QED
      BY <2>2, <3>1, <3>2, <3>3
  <2>3. QED
    <3>1. \A k, l : <<k, generation'>> \in calls' /\ <<l, generation'>> \in calls' => k = l
      BY <2>2
    <3>2. QED
      BY <2>2, <3>1 DEF CallsInv
<1>10. PageTypes'
  BY <1>1, <1>3, <1>4, <1>6, SMTT(40) DEF PageTypes, PageInv
<1>11. TimerInv'
  BY <1>3 DEF TimerInv
<1>12. QED
  BY <1>4, <1>5, <1>7, <1>8, <1>9, <1>10, <1>11 DEF PageInv

\* finish, whatever phase it ends in.
LEMMA FinishKeeps ==
  ASSUME PageInv, NEW p \in Phases \ (Pending \cup {"active"}), Finish(p), calls' \subseteq calls,
         size' \in Sizes, page' \in {"shown", "hidden"}
  PROVE  PageInv'
<1>1. /\ shown' \in {"status", None} /\ targets' \in {"none", "some"}
      /\ calls' \subseteq {"identity", "targets", "grant"} \X Generations
      /\ phase' \in Phases \ {"active", "connecting"} /\ phase' # "requesting-authorization"
  BY DEF Finish, PageInv, PageTypes, Pending
<1>2. Replace(FALSE, FALSE)
  BY DEF Finish
<1>3. \A c \in calls' : c \in calls
  OBVIOUS
<1>4. QED
  BY <1>1, <1>2, <1>3, ReplaceKeeps

\* An answer that is too late, or that changes nothing but the calls.
LEMMA CallsShrink ==
  ASSUME PageInv, calls' \subseteq calls, UNCHANGED <<generation, snapshotVars, socketVars, terminalVars, size, page>>
  PROVE  PageInv'
<1> USE DEF snapshotVars, socketVars, terminalVars
<1>1. PageTypes' /\ CallsInv'
  BY DEF PageInv, PageTypes, CallsInv
<1>2. SocketInv' /\ TimerInv' /\ TerminalInv' /\ SentInv' /\ DrainInv'
  BY DEF PageInv, SocketInv, TimerInv, TerminalInv, SentInv, DrainInv
<1>3. QED
  BY <1>1, <1>2 DEF PageInv

\* The phases a connection ends in promise no connection.
LEMMA EndPhases ==
  \A p \in Failures \cup ErrorPhases \cup ClosePhases \cup Undecodable \cup {"transport-disconnected"} :
    p \in Phases \ (Pending \cup {"active"})
BY DEF Failures, ErrorPhases, ClosePhases, Undecodable, Phases, Pending

\* Every callback, whichever generation it belongs to, keeps the invariant.
LEMMA PageInvNext == PageInv /\ [Next]_vars => PageInv'
<1> SUFFICES ASSUME PageInv, [Next]_vars PROVE PageInv'
  OBVIOUS
<1> USE PageNaturals DEF vars, snapshotVars, socketVars, terminalVars, worldVars
<1>1. generation \in Nat /\ size \in Sizes /\ page \in {"shown", "hidden"} /\ phase \in Phases
  BY DEF PageInv, PageTypes
<1>2. ASSUME NEW p \in Failures \cup ErrorPhases \cup ClosePhases \cup Undecodable \cup {"transport-disconnected"},
             Finish(p), calls' \subseteq calls, UNCHANGED <<size, page>>
      PROVE  PageInv'
  BY <1>1, <1>2, EndPhases, FinishKeeps
<1>3. CASE Start
  <2>1. generation' = generation + 1 /\ generation' \in Generations
    BY <1>1, <1>3 DEF Start, Replace
  <2>2. phase' = "establishing-identity" /\ phase' \in Phases \ {"active", "connecting"} /\ phase' # "requesting-authorization"
        /\ shown' \in {"status", None} /\ targets' \in {"none", "some"} /\ UNCHANGED <<size, page>>
    BY <1>3 DEF Start, Phases, PageInv, PageTypes
  <2>3. calls' = calls \cup {<<"identity", generation'>>}
    BY <1>3 DEF Start
  <2>4. calls' \subseteq {"identity", "targets", "grant"} \X Generations
    BY <2>1, <2>3 DEF PageInv, PageTypes
  <2>5. Replace(FALSE, FALSE)
    BY <1>3 DEF Start
  <2>6. \A c \in calls' : c \in calls \/ (c = <<"identity", generation'>> /\ phase' = "establishing-identity")
    BY <2>2, <2>3
  <2>7. QED
    BY <1>1, <2>2, <2>4, <2>5, <2>6, ReplaceKeeps
<1>4. CASE Connect
  <2>1. generation' = generation + 1 /\ generation' \in Generations
    BY <1>1, <1>4 DEF Connect, Replace
  <2>2. phase' = "requesting-authorization" /\ phase' \in Phases \ {"active", "connecting"}
        /\ shown' \in {"status", None} /\ targets' \in {"none", "some"} /\ UNCHANGED <<size, page>>
    BY <1>4 DEF Connect, Phases, Pending, PageInv, PageTypes
  <2>3. calls' = calls \cup {<<"grant", generation'>>}
    BY <1>4 DEF Connect
  <2>4. calls' \subseteq {"identity", "targets", "grant"} \X Generations
    BY <2>1, <2>3 DEF PageInv, PageTypes
  <2>5. Replace(TRUE, TRUE)
    BY <1>4 DEF Connect
  <2>6. \A c \in calls' : c \in calls \/ (c = <<"grant", generation'>> /\ TRUE)
    BY <2>3
  <2>7. QED
    BY <1>1, <2>2, <2>4, <2>5, <2>6, ReplaceKeeps
<1>5. CASE Close
  <2>1. phase' \in Phases \ {"active", "connecting"} /\ phase' # "requesting-authorization" /\ shown' \in {"status", None}
    BY <1>5 DEF Close, Phases, Replace
  <2>2. targets' \in {"none", "some"} /\ calls' \subseteq {"identity", "targets", "grant"} \X Generations /\ calls' = calls
        /\ size' \in Sizes /\ page' \in {"shown", "hidden"}
    BY <1>1, <1>5 DEF Close, PageInv, PageTypes
  <2>3. Replace(TRUE, FALSE)
    BY <1>5 DEF Close
  <2>4. QED
    BY <2>1, <2>2, <2>3, ReplaceKeeps
<1>6. ASSUME NEW g \in Generations, IdentityAnswered(g) PROVE PageInv'
  <2>1. CASE calls' \subseteq calls /\ UNCHANGED <<generation, snapshotVars, socketVars, terminalVars, size, page>>
    BY <2>1, CallsShrink
  <2>2. CASE calls' \subseteq calls /\ \E p \in Failures : Finish(p)
    BY <1>2, <1>6, <2>2 DEF IdentityAnswered
  <2>3. CASE IsCurrent(g) /\ calls' = (calls \ {<<"identity", g>>}) \cup {<<"targets", g>>}
             /\ UNCHANGED <<generation, snapshotVars, socketVars, terminalVars, size, page>>
    <3>1. g = generation /\ phase = "establishing-identity"
      BY <1>6, <2>3 DEF IsCurrent, IdentityAnswered, PageInv, CallsInv
    <3>2. CallsInv'
      <4>1. ASSUME NEW k, NEW h, <<k, h>> \in calls' PROVE <<k, h>> \in calls \/ (k = "targets" /\ h = generation)
        BY <2>3, <3>1, <4>1
      <4>2. <<"identity", generation>> \notin calls' /\ generation' = generation /\ phase' = phase
        BY <2>3, <3>1
      <4>3. \A k : <<k, generation>> \in calls' => k = "targets"
        BY <1>6, <3>1, <4>1, <4>2 DEF IdentityAnswered, PageInv, CallsInv
      <4>4. \A k, h : <<k, h>> \in calls' => h <= generation
        BY <1>1, <4>1 DEF PageInv, CallsInv
      <4>5. QED
        BY <3>1, <4>2, <4>3, <4>4 DEF CallsInv
    <3>3. PageTypes'
      BY <2>3, SMTT(40) DEF PageInv, PageTypes
    <3>4. SocketInv' /\ TimerInv' /\ TerminalInv' /\ SentInv' /\ DrainInv'
      BY <2>3 DEF PageInv, SocketInv, TimerInv, TerminalInv, SentInv, DrainInv
    <3>5. QED
      BY <3>2, <3>3, <3>4 DEF PageInv
  <2>4. QED
    BY <1>6, <2>1, <2>2, <2>3 DEF IdentityAnswered
<1>7. ASSUME NEW g \in Generations, TargetsAnswered(g) PROVE PageInv'
  <2>1. CASE ~IsCurrent(g) /\ UNCHANGED <<generation, snapshotVars, socketVars, terminalVars>>
    BY <1>7, <2>1, CallsShrink DEF TargetsAnswered
  <2>2. CASE \E p \in Failures : Finish(p)
    BY <1>2, <1>7, <2>2 DEF TargetsAnswered
  <2>3. CASE IsCurrent(g) /\ targets' = "some" /\ phase' = "ready" /\ shown' = None
             /\ UNCHANGED <<generation, exitStatus, socketVars, terminalVars>>
    <3>1. g = generation /\ phase = "establishing-identity" /\ calls' = calls \ {<<"targets", g>>} /\ <<"targets", g>> \in calls
      BY <1>7, <2>3 DEF IsCurrent, TargetsAnswered, PageInv, CallsInv
    <3>2. CallsInv'
      <4>1. \A k : <<k, generation>> \notin calls'
        BY <3>1 DEF PageInv, CallsInv
      <4>2. QED
        BY <2>3, <3>1, <4>1 DEF PageInv, CallsInv
    <3>3. PageTypes'
      BY <1>7, <2>3, <3>1 DEF TargetsAnswered, PageInv, PageTypes, Phases
    <3>4. SocketInv' /\ TimerInv' /\ TerminalInv'
      BY <2>3, <3>1 DEF PageInv, SocketInv, TimerInv, TerminalInv, Pending
    <3>5. SentInv' /\ DrainInv'
      BY <2>3 DEF PageInv, SentInv, DrainInv
    <3>6. QED
      BY <3>2, <3>3, <3>4, <3>5 DEF PageInv
  <2>4. QED
    BY <1>7, <2>1, <2>2, <2>3 DEF TargetsAnswered
<1>8. ASSUME NEW g \in Generations, GrantArrives(g) PROVE PageInv'
  <2>1. CASE UNCHANGED <<generation, snapshotVars, socketVars, terminalVars>>
    BY <1>8, <2>1, CallsShrink DEF GrantArrives
  <2>2. CASE Finish("internal-error")
    BY <1>2, <1>8, <2>2 DEF GrantArrives, Failures
  <2>3. ASSUME NEW ro \in SUBSET {g}, GrantIsCurrent(g),
               socket' = g, state' = [state EXCEPT ![g] = "connecting"],
               readOnly' = readOnly \cup ro, timers' = TimersAfterGrant, phase' = "connecting", shown' = None,
               UNCHANGED <<generation, targets, exitStatus, sent, timer, terminalVars>>
        PROVE  PageInv'
    <3>1. g = generation /\ <<"grant", generation>> \in calls /\ calls' = calls \ {<<"grant", g>>} /\ UNCHANGED <<size, page>>
      BY <1>8, <2>3 DEF GrantIsCurrent, IsCurrent, GrantArrives
    <3>2. phase = "requesting-authorization" /\ phase # "active" /\ phase # "connecting"
      BY <3>1 DEF PageInv, CallsInv
    <3>3. socket = None
      BY <3>2 DEF PageInv, SocketInv
    <3>4. CallsInv'
      BY <2>3, <3>1 DEF PageInv, CallsInv
    <3>5. PageTypes'
      BY <2>3, <3>1 DEF PageInv, PageTypes, Phases, Pending, States, TimersAfterGrant
    <3>6. SocketInv'
      <4>1. \A h \in Generations : state'[h] = IF h = g THEN "connecting" ELSE state[h]
        BY <2>3 DEF PageInv, PageTypes
      <4>2. \A h \in Generations : state[h] \notin {"connecting", "open", "closing"}
        BY <3>3 DEF PageInv, SocketInv
      <4>3. socket' = g /\ g = generation' /\ socket' # None /\ state'[socket'] = "connecting" /\ phase' = "connecting"
        BY <2>3, <3>1, <4>1
      <4>4. \A h \in Generations : h >= generation' /\ h # socket' => state'[h] = "none"
        BY <2>3, <3>3, <4>1 DEF PageInv, SocketInv
      <4>5. QED
        BY <4>1, <4>2, <4>3, <4>4 DEF SocketInv
    <3>7. TimerInv'
      BY <2>3, <3>2 DEF PageInv, TimerInv, TimersAfterGrant, Pending
    <3>8. TerminalInv' /\ DrainInv'
      BY <2>3, <3>2 DEF PageInv, TerminalInv, DrainInv
    <3>9. SentInv'
      <4>1. state[g] = "none"
        BY <1>1, <3>1, <3>3 DEF PageInv, SocketInv
      <4>2. \A h \in Generations : state'[h] = IF h = g THEN "connecting" ELSE state[h]
        BY <2>3 DEF PageInv, PageTypes
      <4>3. Given(sent[g], "connecting")
        BY <4>1, GivenNothing DEF PageInv, SentInv
      <4>4. QED
        BY <2>3, <4>2, <4>3 DEF PageInv, SentInv
    <3>10. QED
      BY <3>4, <3>5, <3>6, <3>7, <3>8, <3>9 DEF PageInv
  <2>4. QED
    BY <1>8, <2>1, <2>2, <2>3 DEF GrantArrives
<1>9. ASSUME NEW g \in Generations, GrantFails(g) PROVE PageInv'
  <2>1. CASE UNCHANGED <<generation, snapshotVars, socketVars, terminalVars>>
    BY <1>9, <2>1, CallsShrink DEF GrantFails
  <2>2. CASE \E p \in Failures : Finish(p)
    BY <1>2, <1>9, <2>2 DEF GrantFails
  <2>3. QED
    BY <1>9, <2>1, <2>2 DEF GrantFails
<1>10. ASSUME NEW g \in Generations, TimerFires(g) PROVE PageInv'
  <2>1. IsCurrent(g)
    BY <1>10 DEF TimerFires, IsCurrent, PageInv, TimerInv
  <2>2. QED
    BY <1>2, <1>10, <2>1 DEF TimerFires, Failures
<1>11. ASSUME NEW g \in Generations, SocketOpens(g) PROVE PageInv'
  <2>1. socket = g /\ g = generation /\ phase = "connecting" /\ state[g] = "connecting" /\ g # None
    BY <1>11 DEF SocketOpens, PageInv, SocketInv
  <2>2. \A h \in Generations : state'[h] = IF h = g THEN "open" ELSE state[h]
    BY <1>11 DEF SocketOpens, PageInv, PageTypes
  <2>3. \A h \in Generations : sent'[h] = IF h = g THEN FirstMessages ELSE sent[h]
    BY <1>11 DEF SocketOpens, PageInv, PageTypes
  <2>4. FirstMessages \in Seq(Messages) /\ Given(FirstMessages, "open")
    <3>1. Message("ticket") \in Messages /\ Size(size) \in Messages /\ Message("ticket") # Message("close")
          /\ Size(size) # Message("ticket") /\ Size(size) # Message("close")
      BY <1>1, MessagesDiffer
    <3>2. FirstMessages = <<Message("ticket"), Size(size)>>
      BY DEF FirstMessages
    <3>3. QED
      BY <3>1, <3>2 DEF Given
  <2>5. listeners = {} /\ flushes = {} /\ coalescer = None /\ output = 0 /\ disposers = {}
    BY <2>1 DEF PageInv, TerminalInv
  <2>6. Cleared = {}
    BY <2>1 DEF PageInv, TimerInv, Cleared, Pending
  <2>7. coalescer' = [last |-> size, pending |-> None, timer |-> "off"] /\ coalescer' \in Coalescers /\ coalescer' # None
    BY <1>1, <1>11 DEF SocketOpens, Coalescers
  <2>8. /\ generation' = generation /\ socket' = g /\ phase' = "active" /\ shown' = None /\ timers' = {} /\ timer' = None
        /\ output' = 0 /\ UNCHANGED <<targets, exitStatus, calls, readOnly, flushes, drains, size, page>>
        /\ state' \in [Generations -> States] /\ disposers' = listeners'
        /\ listeners' \subseteq {"resize", "data"} \X {g}
    BY <1>11, <2>1, <2>5, <2>6 DEF SocketOpens, PageInv, PageTypes, States
  <2>9. sent' \in [Generations -> Seq(Messages)]
    BY <1>11, <2>4 DEF SocketOpens, PageInv, PageTypes
  <2>10. PageTypes'
    <3>1. listeners' \subseteq {"resize", "data"} \X Generations
      BY <2>8
    <3>2. coalescer'.timer # "on"
      BY <2>7
    <3>3. phase' \in Phases /\ output' \in 0..OutputLimit /\ socket' \in Generations /\ timers' \subseteq Generations
      BY <2>8 DEF Phases
    <3>4. /\ generation' \in 0..MaxGeneration /\ exitStatus' \in {"status", None} /\ targets' \in {"none", "some"}
          /\ calls' \subseteq {"identity", "targets", "grant"} \X Generations /\ readOnly' \subseteq Generations
          /\ flushes' \subseteq Generations /\ drains' \in Seq(Generations) /\ size' \in Sizes /\ page' \in {"shown", "hidden"}
      BY <2>8 DEF PageInv, PageTypes
    <3>5. QED
      BY <2>7, <2>8, <2>9, <3>1, <3>2, <3>3, <3>4 DEF PageTypes
  <2>11. CallsInv'
    <3>1. \A k : <<k, generation>> \notin calls
      BY <2>1 DEF PageInv, CallsInv
    <3>2. QED
      BY <2>8, <3>1 DEF PageInv, CallsInv
  <2>12. SocketInv'
    <3>1. state'[g] = "open" /\ socket' # None
      BY <2>1, <2>2, <2>8
    <3>2. QED
      BY <2>1, <2>2, <2>8, <3>1 DEF PageInv, SocketInv
  <2>13. TimerInv'
    BY <2>8 DEF TimerInv, Pending
  <2>14. TerminalInv'
    BY <2>1, <2>5, <2>7, <2>8 DEF TerminalInv
  <2>15. SentInv'
    BY <2>2, <2>3, <2>4 DEF PageInv, SentInv
  <2>16. DrainInv'
    BY <2>5, <2>8 DEF PageInv, DrainInv
  <2>17. QED
    BY <2>10, <2>11, <2>12, <2>13, <2>14, <2>15, <2>16 DEF PageInv
<1>12. ASSUME NEW g \in Generations, SocketLost(g) \/ ControlArrives(g) PROVE PageInv'
  BY <1>2, <1>12 DEF SocketLost, ControlArrives
<1>13. ASSUME NEW g \in Generations, SocketStartsClosing(g) PROVE PageInv'
  <2>1. socket = g /\ state[g] = "open" /\ \A h \in Generations : state'[h] = IF h = g THEN "closing" ELSE state[h]
    BY <1>13 DEF SocketStartsClosing, PageInv, PageTypes
  <2>2. state' \in [Generations -> States] /\ UNCHANGED <<generation, snapshotVars, calls, socket, sent, readOnly, timers, timer, terminalVars, worldVars>>
    BY <1>13 DEF SocketStartsClosing, PageInv, PageTypes, States
  <2>3. PageTypes' /\ CallsInv'
    BY <2>2, SMTT(40) DEF PageInv, PageTypes, CallsInv
  <2>4. TimerInv' /\ TerminalInv' /\ DrainInv'
    BY <2>2 DEF PageInv, TimerInv, TerminalInv, DrainInv
  <2>5. SocketInv'
    BY <2>1, <2>2 DEF PageInv, SocketInv
  <2>6. SentInv'
    <3>1. Given(sent[g], "closing")
      BY <2>1, GivenNothing DEF PageInv, SentInv
    <3>2. QED
      BY <2>1, <2>2, <3>1 DEF PageInv, SentInv
  <2>7. QED
    BY <2>3, <2>4, <2>5, <2>6 DEF PageInv
<1>14. ASSUME NEW g \in Generations, ExitStatusArrives(g) PROVE PageInv'
  <2>1. exitStatus' = "status" /\ shown' = "status" /\ UNCHANGED <<generation, phase, targets, calls, socketVars, terminalVars, worldVars>>
    BY <1>14 DEF ExitStatusArrives
  <2>2. PageTypes' /\ CallsInv'
    BY <2>1 DEF PageInv, PageTypes, CallsInv
  <2>3. SocketInv' /\ TimerInv' /\ TerminalInv' /\ SentInv' /\ DrainInv'
    BY <2>1 DEF PageInv, SocketInv, TimerInv, TerminalInv, SentInv, DrainInv
  <2>4. QED
    BY <2>2, <2>3 DEF PageInv
<1>15. ASSUME NEW g \in Generations, OutputArrives(g) PROVE PageInv'
  <2>1. socket = g /\ g = generation /\ g # None /\ state[g] = "open" /\ phase = "active"
    BY <1>15 DEF OutputArrives, PageInv, SocketInv
  <2>2. CASE ~HasRoom
    BY <1>2, <1>15, <2>2 DEF OutputArrives, Failures
  <2>3. CASE HasRoom
    <3>1. /\ output' = output + 1 /\ drains' = IF output = 0 THEN Append(drains, g) ELSE drains
          /\ UNCHANGED <<generation, snapshotVars, socketVars, listeners, disposers, coalescer, flushes, calls, size, page>>
      BY <1>15, <2>3 DEF OutputArrives
    <3>2. output \in Nat /\ output' \in 0..OutputLimit /\ output' > 0 /\ drains \in Seq(Generations) /\ Len(drains) \in Nat
      BY <2>3, <3>1 DEF HasRoom, PageInv, PageTypes
    <3>3. drains' \in Seq(Generations) /\ DrainInv'
      <4>1. CASE output = 0
        <5>1. drains' = Append(drains, generation) /\ \A i \in 1..Len(drains) : drains[i] # generation /\ drains[i] <= generation
          BY <2>1, <3>1, <4>1 DEF PageInv, DrainInv
        <5>2. drains' \in Seq(Generations) /\ Len(drains') = Len(drains) + 1 /\ drains'[Len(drains) + 1] = generation
              /\ \A i \in 1..Len(drains) : drains'[i] = drains[i]
          BY <2>1, <3>2, <5>1, AppendProperties
        <5>3. \A j \in 1..Len(drains') : drains'[j] = generation <=> j = Len(drains) + 1
          BY <3>2, <5>1, <5>2
        <5>4. \A j \in 1..Len(drains') : drains'[j] <= generation
          BY <1>1, <3>2, <5>1, <5>2
        <5>5. Len(drains) + 1 \in 1..Len(drains')
          BY <3>2, <5>2
        <5>6. \E i \in 1..Len(drains') : \A j \in 1..Len(drains') : drains'[j] = generation <=> j = i
          BY <5>3, <5>5
        <5>7. output' # 0 /\ generation' = generation
          BY <3>1, <3>2
        <5>8. QED
          BY <5>2, <5>4, <5>6, <5>7 DEF DrainInv
      <4>2. CASE output # 0
        <5>1. drains' = drains /\ output > 0
          BY <3>1, <3>2, <4>2
        <5>2. QED
          BY <3>1, <3>2, <5>1, SMTT(40) DEF PageInv, DrainInv
      <4>3. QED
        BY <4>1, <4>2
    <3>4. PageTypes' /\ CallsInv'
      BY <3>1, <3>2, <3>3 DEF PageInv, PageTypes, CallsInv
    <3>5. SocketInv' /\ TimerInv' /\ SentInv'
      BY <3>1 DEF PageInv, SocketInv, TimerInv, SentInv
    <3>6. TerminalInv'
      BY <2>1, <3>1 DEF PageInv, TerminalInv
    <3>7. QED
      BY <3>3, <3>4, <3>5, <3>6 DEF PageInv
  <2>4. QED
    BY <2>2, <2>3
<1>16. CASE Drained
  <2>1. /\ drains # <<>> /\ drains \in Seq(Generations) /\ Len(drains) \in Nat \ {0} /\ Head(drains) = drains[1]
        /\ Tail(drains) \in Seq(Generations) /\ Len(Tail(drains)) = Len(drains) - 1
        /\ \A i \in 1..Len(Tail(drains)) : Tail(drains)[i] = drains[i + 1]
    <3>1. drains # <<>> /\ drains \in Seq(Generations)
      BY <1>16 DEF Drained, PageInv, PageTypes
    <3>2. QED
      BY <3>1, HeadTailProperties
  <2> DEFINE t == Tail(drains)
  <2>2. /\ t \in Seq(Generations) /\ Len(t) = Len(drains) - 1 /\ Len(t) \in Nat /\ \A i \in 1..Len(t) : t[i] = drains[i + 1]
        /\ \A i \in 1..Len(t) : t[i] <= generation
    <3>1. t \in Seq(Generations) /\ Len(t) = Len(drains) - 1 /\ \A i \in 1..Len(t) : t[i] = drains[i + 1]
      BY <2>1
    <3>2. Len(t) \in Nat /\ \A i \in 1..Len(t) : i + 1 \in 1..Len(drains)
      BY <2>1, <3>1
    <3>3. QED
      BY <3>1, <3>2 DEF PageInv, DrainInv
  <2>3. output \in Nat /\ output \in 0..OutputLimit /\ generation \in 0..MaxGeneration
    BY DEF PageInv, PageTypes
  <2>4. UNCHANGED <<generation, snapshotVars, calls, socketVars, listeners, disposers, coalescer, flushes, worldVars>>
    BY <1>16 DEF Drained
  <2>5. CASE Head(drains) = generation /\ output > 0
    <3>1. output' = output - 1 /\ drains' = IF output > 1 THEN Append(t, generation) ELSE t
      BY <1>16, <2>5 DEF Drained, DrainsCurrent, IsCurrent
    <3>2. PICK i \in 1..Len(drains) : \A j \in 1..Len(drains) : drains[j] = generation <=> j = i
      BY <2>5 DEF PageInv, DrainInv
    <3>3. i = 1
      BY <2>1, <2>5, <3>2
    <3>4. \A j \in 1..Len(t) : t[j] # generation
      <4>1. \A j \in 1..Len(t) : j + 1 \in 1..Len(drains) /\ j + 1 # 1
        BY <2>1, <2>2
      <4>2. QED
        BY <2>2, <3>2, <3>3, <4>1
    <3>5. generation \in Generations
      BY <2>1, <2>5
    <3> HIDE DEF t
    <3>6. drains' \in Seq(Generations) /\ output' \in 0..OutputLimit /\ DrainInv'
      <4>1. CASE output > 1
        <5>1. drains' = Append(t, generation) /\ output' > 0
          BY <2>3, <3>1, <4>1
        <5>2. drains' \in Seq(Generations) /\ Len(drains') = Len(t) + 1 /\ drains'[Len(t) + 1] = generation
              /\ \A j \in 1..Len(t) : drains'[j] = t[j]
          BY <2>2, <3>5, <5>1, AppendProperties
        <5>3. \A j \in 1..Len(drains') : (drains'[j] = generation <=> j = Len(t) + 1) /\ drains'[j] <= generation
          <6>1. \A j \in 1..Len(drains') : j \in 1..Len(t) \/ j = Len(t) + 1
            BY <2>2, <5>2, SMTT(40)
          <6>2. \A j \in 1..Len(t) : j # Len(t) + 1
            BY <2>2
          <6>3. generation <= generation
            BY <1>1
          <6>4. QED
            BY <2>2, <3>4, <5>2, <6>1, <6>2, <6>3
        <5>4. Len(t) + 1 \in 1..Len(drains')
          BY <2>2, <5>2
        <5>5. output' \in 0..OutputLimit /\ output' # 0
          BY <2>3, <3>1, <5>1
        <5>6. QED
          BY <2>4, <5>2, <5>3, <5>4, <5>5 DEF DrainInv
      <4>2. CASE ~(output > 1)
        <5>1. drains' = t /\ output' = 0
          BY <2>3, <2>5, <3>1, <4>2
        <5>2. QED
          BY <2>2, <2>4, <3>4, <5>1 DEF DrainInv
      <4>3. QED
        BY <4>1, <4>2
    <3>7. PageTypes' /\ CallsInv'
      BY <2>4, <3>6 DEF PageInv, PageTypes, CallsInv
    <3>8. SocketInv' /\ TimerInv' /\ SentInv'
      BY <2>4 DEF PageInv, SocketInv, TimerInv, SentInv
    <3>9. phase = "active"
      BY <2>3, <2>5 DEF PageInv, TerminalInv
    <3>10. TerminalInv'
      BY <2>4, <3>9 DEF PageInv, TerminalInv
    <3>11. QED
      BY <3>6, <3>7, <3>8, <3>10 DEF PageInv
  <2>6. CASE ~(Head(drains) = generation /\ output > 0)
    <3>1. output' = output /\ drains' = t
      BY <1>16, <2>6 DEF Drained, DrainsCurrent, IsCurrent
    <3>2. DrainInv'
      <4>1. CASE output = 0
        <5>1. \A j \in 1..Len(t) : j + 1 \in 1..Len(drains)
          BY <2>1, <2>2
        <5>2. \A j \in 1..Len(t) : t[j] # generation
          BY <2>2, <4>1, <5>1 DEF PageInv, DrainInv
        <5> HIDE DEF t
        <5>3. QED
          BY <2>2, <2>4, <3>1, <4>1, <5>2 DEF DrainInv
      <4>2. CASE output > 0
        <5>1. PICK i \in 1..Len(drains) : \A j \in 1..Len(drains) : drains[j] = generation <=> j = i
          BY <4>2 DEF PageInv, DrainInv
        <5>2. i # 1
          BY <2>1, <2>6, <4>2, <5>1
        <5>3. i - 1 \in 1..Len(t) /\ \A j \in 1..Len(t) : j + 1 \in 1..Len(drains) /\ (j + 1 = i <=> j = i - 1)
          BY <2>1, <2>2, <5>2
        <5>4. \A j \in 1..Len(t) : t[j] = generation <=> j = i - 1
          BY <2>2, <5>1, <5>3, SMTT(40)
        <5> HIDE DEF t
        <5>5. output' # 0
          BY <2>3, <3>1, <4>2
        <5>6. QED
          BY <2>2, <2>4, <3>1, <5>3, <5>4, <5>5 DEF DrainInv
      <4>3. QED
        BY <2>3, <4>1, <4>2
    <3>3. PageTypes' /\ CallsInv'
      BY <2>2, <2>4, <3>1 DEF PageInv, PageTypes, CallsInv
    <3>4. SocketInv' /\ TimerInv' /\ SentInv' /\ TerminalInv'
      BY <2>4, <3>1 DEF PageInv, SocketInv, TimerInv, SentInv, TerminalInv
    <3>5. QED
      BY <3>2, <3>3, <3>4 DEF PageInv
  <2>7. QED
    BY <2>5, <2>6
<1>17. ASSUME NEW g \in Generations, NEW m \in Messages \ {Message("ticket"), Message("close")}, state[g] = "open",
              sent' = [sent EXCEPT ![g] = Append(@, m)] \/ sent' = sent, state' = state
       PROVE  sent' \in [Generations -> Seq(Messages)] /\ SentInv'
  <2>1. Append(sent[g], m) \in Seq(Messages) /\ Given(Append(sent[g], m), state[g])
    BY <1>17, GivenMore DEF PageInv, PageTypes, SentInv
  <2>2. CASE sent' = sent
    BY <1>17, <2>2 DEF PageInv, PageTypes, SentInv
  <2>3. CASE sent' = [sent EXCEPT ![g] = Append(@, m)]
    <3>1. sent \in [Generations -> Seq(Messages)]
      BY DEF PageInv, PageTypes
    <3>2. sent' \in [Generations -> Seq(Messages)]
      BY <2>1, <2>3, <3>1
    <3>3. \A h \in Generations : sent'[h] = IF h = g THEN Append(sent[g], m) ELSE sent[h]
      BY <2>3, <3>1
    <3>4. QED
      BY <1>17, <2>1, <3>2, <3>3 DEF PageInv, SentInv
  <2>4. QED
    BY <1>17, <2>2, <2>3
<1>18. CASE Types
  <2>1. PICK l \in listeners :
          \/ /\ IsCurrent(l[2]) /\ state[l[2]] = "open"
             /\ sent' = [sent EXCEPT ![l[2]] = Append(@, Message("input"))]
             /\ UNCHANGED <<generation, snapshotVars, socket, state, readOnly, timers, timer, terminalVars>>
          \/ Finish("internal-error")
          \/ UNCHANGED <<generation, snapshotVars, socketVars, terminalVars>>
    BY <1>18 DEF Types
  <2>2. UNCHANGED <<calls, size, page>>
    BY <1>18 DEF Types
  <2>3. CASE Finish("internal-error")
    BY <1>2, <2>2, <2>3 DEF Failures
  <2>4. CASE UNCHANGED <<generation, snapshotVars, socketVars, terminalVars>>
    BY <2>2, <2>4, CallsShrink
  <2>5. CASE /\ IsCurrent(l[2]) /\ state[l[2]] = "open"
             /\ sent' = [sent EXCEPT ![l[2]] = Append(@, Message("input"))]
             /\ UNCHANGED <<generation, snapshotVars, socket, state, readOnly, timers, timer, terminalVars>>
    <3>1. l[2] \in Generations
      BY DEF PageInv, PageTypes
    <3>2. Message("input") \in Messages \ {Message("ticket"), Message("close")}
      BY MessagesDiffer
    <3>3. sent' \in [Generations -> Seq(Messages)] /\ SentInv'
      BY <1>17, <2>5, <3>1, <3>2
    <3>4. PageTypes' /\ CallsInv'
      BY <2>2, <2>5, <3>3 DEF PageInv, PageTypes, CallsInv
    <3>5. SocketInv' /\ TimerInv' /\ TerminalInv' /\ DrainInv'
      BY <2>5 DEF PageInv, SocketInv, TimerInv, TerminalInv, DrainInv
    <3>6. QED
      BY <3>3, <3>4, <3>5 DEF PageInv
  <2>6. QED
    BY <2>1, <2>3, <2>4, <2>5
<1>19. ASSUME NEW s \in Sizes, Resizes(s) PROVE PageInv'
  <2>1. size' = s /\ UNCHANGED <<generation, snapshotVars, calls, socketVars, listeners, disposers, output, drains, page>>
    BY <1>19 DEF Resizes
  <2>2. CASE <<"resize", generation>> \in listeners
    <3>1. coalescer # None /\ coalescer \in Coalescers
      BY <2>2 DEF PageInv, TerminalInv, PageTypes
    <3>2. coalescer' = Offer(s) /\ flushes' = IF Offer(s).timer = "on" THEN flushes \cup {generation} ELSE flushes
      BY <1>19, <2>2 DEF Resizes
    <3>3. coalescer' \in Coalescers /\ (coalescer'.timer = "on" => coalescer'.pending \in Sizes)
          /\ (coalescer'.timer # "on" => coalescer' = coalescer)
      <4>1. CASE s \in {coalescer.last, coalescer.pending}
        BY <3>1, <3>2, <4>1 DEF Offer, PageInv, PageTypes
      <4>2. CASE s \notin {coalescer.last, coalescer.pending}
        <5>1. coalescer' = [coalescer EXCEPT !.pending = s, !.timer = "on"]
          BY <3>2, <4>2 DEF Offer
        <5>2. QED
          BY <3>1, <5>1 DEF Coalescers
      <4>3. QED
        BY <4>1, <4>2
    <3>4. generation \in Generations
      BY <2>2 DEF PageInv, PageTypes
    <3>5. flushes' \subseteq Generations /\ flushes' \subseteq {generation} /\ (flushes' # {} => coalescer'.timer = "on")
      <4>1. flushes' \subseteq {generation}
        BY <3>2 DEF PageInv, TerminalInv
      <4>2. coalescer'.timer # "on" => flushes' = {}
        BY <3>2, <3>3 DEF PageInv, TerminalInv
      <4>3. QED
        BY <3>4, <4>1, <4>2
    <3>6. coalescer' # None /\ phase = "active"
      BY <3>1, <3>3 DEF PageInv, TerminalInv
    <3>7. PageTypes' /\ CallsInv'
      BY <2>1, <3>3, <3>5 DEF PageInv, PageTypes, CallsInv
    <3>8. TerminalInv'
      BY <2>1, <3>5, <3>6 DEF PageInv, TerminalInv
    <3>9. SocketInv' /\ TimerInv' /\ SentInv' /\ DrainInv'
      BY <2>1 DEF PageInv, SocketInv, TimerInv, SentInv, DrainInv
    <3>10. QED
      BY <3>7, <3>8, <3>9 DEF PageInv
  <2>3. CASE <<"resize", generation>> \notin listeners
    <3>1. UNCHANGED <<coalescer, flushes>>
      BY <1>19, <2>3 DEF Resizes
    <3>2. PageTypes' /\ CallsInv'
      BY <2>1, <3>1 DEF PageInv, PageTypes, CallsInv
    <3>3. SocketInv' /\ TimerInv' /\ TerminalInv' /\ SentInv' /\ DrainInv'
      BY <2>1, <3>1 DEF PageInv, SocketInv, TimerInv, TerminalInv, SentInv, DrainInv
    <3>4. QED
      BY <3>2, <3>3 DEF PageInv
  <2>4. QED
    BY <2>2, <2>3
<1>20. ASSUME NEW g \in Generations, Flush(g) PROVE PageInv'
  <2>1. g = generation /\ g \in flushes /\ flushes' = {} /\ coalescer # None /\ coalescer.timer = "on"
    BY <1>20 DEF Flush, PageInv, TerminalInv
  <2>2. /\ coalescer' = [last |-> coalescer.pending, pending |-> None, timer |-> "off"]
        /\ sent' = IF state[g] = "open" THEN [sent EXCEPT ![g] = Append(@, Size(coalescer.pending))] ELSE sent
        /\ UNCHANGED <<generation, snapshotVars, calls, socket, state, readOnly, timers, timer, listeners,
                       disposers, output, drains, worldVars>>
    BY <1>20, <2>1 DEF Flush, IsCurrent
  <2>3. coalescer.pending \in Sizes
    BY <2>1 DEF PageInv, PageTypes
  <2>4. coalescer' \in Coalescers /\ coalescer'.timer # "on" /\ coalescer' # None
    BY <2>2, <2>3 DEF Coalescers
  <2>5. sent' \in [Generations -> Seq(Messages)] /\ SentInv'
    <3>1. CASE state[g] = "open"
      BY <1>17, <2>2, <2>3, <3>1, MessagesDiffer
    <3>2. CASE state[g] # "open"
      BY <2>2, <3>2 DEF PageInv, PageTypes, SentInv
    <3>3. QED
      BY <3>1, <3>2
  <2>6. PageTypes' /\ CallsInv'
    BY <2>1, <2>2, <2>4, <2>5 DEF PageInv, PageTypes, CallsInv
  <2>7. phase = "active"
    BY <2>1 DEF PageInv, TerminalInv
  <2>8. TerminalInv'
    BY <2>1, <2>2, <2>4, <2>7 DEF PageInv, TerminalInv
  <2>9. SocketInv' /\ TimerInv' /\ DrainInv'
    BY <2>2 DEF PageInv, SocketInv, TimerInv, DrainInv
  <2>10. QED
    BY <2>5, <2>6, <2>8, <2>9 DEF PageInv
<1>21. CASE UNCHANGED vars
  BY <1>21, CallsShrink
<1>22. QED
  BY <1>3, <1>4, <1>5, <1>6, <1>7, <1>8, <1>9, <1>10, <1>11, <1>12, <1>13, <1>14, <1>15, <1>16, <1>18, <1>19,
     <1>20, <1>21 DEF Next, UserNext, NetworkNext, Timeouts

\* Before the page starts there is nothing.
LEMMA PageInvInit == Init => PageInv
<1> SUFFICES ASSUME Init PROVE PageInv
  OBVIOUS
<1> USE PageNaturals DEF Init
<1>1. PageTypes
  BY DEF PageTypes, Phases, States
<1>2. CallsInv /\ SocketInv /\ TimerInv /\ TerminalInv
  BY DEF CallsInv, SocketInv, TimerInv, TerminalInv, Pending
<1>3. SentInv /\ DrainInv
  BY DEF SentInv, Given, DrainInv
<1>4. QED
  BY <1>1, <1>2, <1>3 DEF PageInv

\* The invariant holds of every behaviour of the page.
THEOREM PageInvariant == Spec => []PageInv
  BY PageInvInit, PageInvNext, PTL DEF Spec

\* Whatever an earlier generation started is gone with it, its socket, timers and
\* listeners included, and every socket carries the ticket first and once and the close
\* last (connection.ts, replaceConnection; "zero timers from prior generations").
THEOREM OneConnection == Spec => []OneConnectionAtATime
<1>1. PageInv => OneConnectionAtATime
  <2> SUFFICES ASSUME PageInv PROVE OneConnectionAtATime
    OBVIOUS
  <2> USE PageNaturals
  <2>1. timers \cup flushes \subseteq {generation} /\ \A l \in listeners : l[2] = generation
    BY DEF PageInv, TimerInv, TerminalInv
  <2>2. \A g \in Generations : state[g] \in {"connecting", "open", "closing"} => g = generation /\ socket = g
    BY DEF PageInv, SocketInv
  <2>3. TicketOpensEverySocket
    <3>1. \A g \in Generations : DOMAIN sent[g] = 1..Len(sent[g])
      BY DEF PageInv, PageTypes
    <3>2. QED
      BY <3>1 DEF PageInv, SentInv, Given, TicketOpensEverySocket
  <2>4. QED
    BY <2>1, <2>2, <2>3 DEF OneConnectionAtATime, OnlyTheCurrentGenerationLives
<1>2. QED
  BY <1>1, PageInvariant, PTL

\* What the page shows, its deadline and the output it counts are those of the
\* connection there is, whichever answer, timer or drain comes late (connection.ts,
\* terminal-io.ts).
THEOREM PageIsTrue == Spec => []PageMatchesConnection
<1>1. PageInv => PageMatchesConnection
  <2> SUFFICES ASSUME PageInv PROVE PageMatchesConnection
    OBVIOUS
  <2>1. PhaseMatchesConnection
    BY DEF PageInv, SocketInv, TimerInv, PhaseMatchesConnection
  <2>2. OutputIsAccounted
    <3>1. DOMAIN drains = 1..Len(drains) /\ output \in Nat
      BY PageNaturals DEF PageInv, PageTypes
    <3>2. CASE output > 0
      <4>1. PICK i \in 1..Len(drains) : \A j \in 1..Len(drains) : drains[j] = generation <=> j = i
        BY <3>2 DEF PageInv, DrainInv
      <4>2. {j \in DOMAIN drains : drains[j] = generation} = {i}
        BY <3>1, <4>1
      <4>3. QED
        BY <3>1, <3>2, <4>2 DEF OutputIsAccounted
    <3>3. CASE output = 0
      BY <3>1, <3>3 DEF PageInv, DrainInv, OutputIsAccounted
    <3>4. QED
      BY <3>1, <3>2, <3>3
  <2>3. QED
    BY <2>1, <2>2 DEF PageMatchesConnection
<1>2. QED
  BY <1>1, PageInvariant, PTL
===========================================================================
