------------------------- MODULE SessionAdmission -------------------------
(***************************************************************************)
(* How ttygated admits a terminal: the capacity ledger and the manager's   *)
(* admission gate (session.rs), the one-time ticket store (ticket.rs), the *)
(* two handlers that drive them (create_session in server.rs and           *)
(* accept_upgrade in websocket.rs) and SessionManager::shutdown.           *)
(*                                                                         *)
(* A request is one run of create_session; a connection is one run of      *)
(* accept_upgrade (or one direct call of SessionManager::start) together   *)
(* with the supervisor task it registers, on which it only waits.  Lease   *)
(* ids come from a 64-bit counter that cannot wrap in the life of a        *)
(* process, so a reservation is named by the call that made it, and a      *)
(* token by the request it was issued to.  Every action is the code        *)
(* between two points where another thread can be observed: a mutex        *)
(* section, or the stretch between two awaits.                             *)
(***************************************************************************)
EXTENDS Integers, FiniteSets

CONSTANTS
  Identities,          \* identities the auth provider can vouch for
  Requests,            \* runs of create_session
  Connections,         \* runs of accept_upgrade / SessionManager::start
  MaxSessions,         \* limits.max_sessions
  MaxSessionsPerUser,  \* limits.max_sessions_per_user
  TicketCapacity,      \* TICKET_CAPACITY
  TTL,                 \* TICKET_TTL, in clock ticks
  MaxTime,             \* bound: the clock stops here
  None                 \* "no value"

LeaseIds == Requests \cup Connections

ASSUME CallersAssumption ==
  /\ IsFiniteSet(Requests) /\ IsFiniteSet(Connections)
  /\ Requests \cap Connections = {}
  /\ None \notin LeaseIds \cup Identities

ASSUME LimitsAssumption ==
  /\ MaxSessions \in Nat /\ MaxSessionsPerUser \in Nat
  /\ TicketCapacity \in Nat /\ TTL \in Nat /\ MaxTime \in Nat

Lease == [identity: Identities, state: {"pending", "live"}, expires_at: Nat]
Entry == [identity: Identities, expires_at: Nat]

ASSUME NoneAssumption == None \notin Lease \cup Entry

VARIABLES
  now,           \* the monotonic clock both stores read
  audit,         \* AuditWriterState.failed: "available", or "failed" for good
  leases,        \* CapacityState.leases; a live lease has no deadline (0)
  ledger,        \* CapacityState.closed: "open" or "closed"
  entries,       \* TicketStore.entries; the entry of r owns reservation r
  req,           \* create_session: pc, the identity, the TicketExpiry it drew
  conn,          \* accept_upgrade, then its supervisor: pc, the identity, the
                 \* token presented (None for SessionManager::start), the clock
                 \* as redeem read it, the Reservation owned
  admission,     \* holders of the admission read guard
  active,        \* SupervisorRegistryState.active
  closeAsked,    \* supervisors whose close channel holds a reason
  gate,          \* SupervisorRegistryState.shutting_down: "open" or "closed"
  sdPc,          \* where SessionManager::shutdown is
  sdTargets,     \* the close senders it collected and has not used yet
  permits        \* permits stored in the `completed` Notify: at most one

registry == <<active, closeAsked, gate>>
shutdown == <<sdPc, sdTargets, permits>>
vars == <<now, audit, leases, ledger, entries, req, conn, admission, registry, shutdown>>

ReqPcs  == {"idle", "reserve", "issue", "issued", "limited", "denied"}
ConnPcs == {"idle", "redeem", "start", "activate", "spawn", "connecting",
            "running", "terminating", "proven", "released", "done", "denied"}
SdPcs   == {"idle", "waiting", "closing", "draining", "parked", "returned"}

Req  == [pc: ReqPcs, identity: Identities \cup {None}, expiry: Nat]
Conn == [pc: ConnPcs, identity: Identities \cup {None}, ticket: Requests \cup {None},
         seen: Nat, res: LeaseIds \cup {None}]

IdleReq  == [pc |-> "idle", identity |-> None, expiry |-> 0]
IdleConn == [pc |-> "idle", identity |-> None, ticket |-> None, seen |-> 0, res |-> None]

----------------------------------------------------------------------------
(* The capacity ledger.                                                    *)

Leases == {i \in LeaseIds : leases[i] # None}
LeasesOf(u) == {i \in Leases : leases[i].identity = u}

\* purge_expired_leases: the table once expired pending leases are gone.
Expired(i) == leases[i] # None /\ leases[i].state = "pending" /\ leases[i].expires_at <= now
\* Mutant: the purge forgets to look at the state of the lease.
PurgedWhateverState ==
  [i \in LeaseIds |-> IF leases[i] # None /\ leases[i].expires_at <= now THEN None ELSE leases[i]]
Purged == [i \in LeaseIds |-> IF Expired(i) THEN None ELSE leases[i]]
Unexpired == {i \in Leases : ~Expired(i)}

\* Mutant: expired leases counted.
AtLimitBeforePurge(u) ==
  Cardinality(Leases) >= MaxSessions \/ Cardinality(LeasesOf(u)) >= MaxSessionsPerUser
\* The two limits reserve_with_state checks after the purge.
AtLimit(u) ==
  \/ Cardinality(Unexpired) >= MaxSessions
  \/ Cardinality({i \in Unexpired : leases[i].identity = u}) >= MaxSessionsPerUser

\* reserve_with_state: the purge, then the new lease i.
Insert(i, lease) == leases' = [Purged EXCEPT ![i] = lease]

PendingLease(u, expiry) == [identity |-> u, state |-> "pending", expires_at |-> expiry]
LiveLease(u) == [identity |-> u, state |-> "live", expires_at |-> 0]

\* Mutant: the drop forgets the table.
DroppedNothing(t, S) == t
\* Reservation::drop of every id in S, on the table t.
Dropped(t, S) == [i \in LeaseIds |-> IF i \in S THEN None ELSE t[i]]
Drop(S) == leases' = Dropped(leases, S)

----------------------------------------------------------------------------
(* create_session: middleware, reservation, ticket.                        *)

\* Origin, authentication, rate limit and target checks passed; the audit
\* sink was available; next_expiry() is drawn before the reservation.
BeginRequest(r, u) ==
  /\ req[r].pc = "idle"
  /\ audit = "available"
  /\ req' = [req EXCEPT ![r] = [pc |-> "reserve", identity |-> u, expiry |-> now + TTL]]
  /\ UNCHANGED <<now, audit, leases, ledger, entries, conn, admission, registry, shutdown>>

\* The handler of r goes on, or returns with this outcome.
MoveReq(r, pc) == req' = [req EXCEPT ![r].pc = pc]
ReturnReq(r, outcome) == req' = [req EXCEPT ![r] = [@ EXCEPT !.pc = outcome, !.expiry = 0]]

\* The client went away while the handler awaited the admission gate.
CancelRequest(r) ==
  /\ req[r].pc = "reserve"
  /\ ReturnReq(r, "denied")
  /\ UNCHANGED <<now, audit, leases, ledger, entries, conn, admission, registry, shutdown>>

\* Mutant: shutdown never gives the write guard back.
GateNeverReopens == sdPc = "idle"
\* tokio's RwLock is fair: a queued writer holds new readers back.
GateOpen == sdPc # "waiting"

\* SessionManager::reserve; the read guard is held for this step only.
Reserve(r) ==
  /\ req[r].pc = "reserve"
  /\ GateOpen
  /\ \/ /\ gate = "closed" \/ req[r].expiry <= now
        /\ ReturnReq(r, "denied")
        /\ UNCHANGED leases
     \/ /\ gate = "open" /\ req[r].expiry > now
        /\ ledger = "closed" \/ AtLimit(req[r].identity)
        /\ ReturnReq(r, IF ledger = "closed" THEN "denied" ELSE "limited")
        /\ leases' = Purged
     \/ /\ gate = "open" /\ req[r].expiry > now
        /\ ledger = "open" /\ ~AtLimit(req[r].identity)
        /\ MoveReq(r, "issue")
        /\ Insert(r, PendingLease(req[r].identity, req[r].expiry))
  /\ UNCHANGED <<now, audit, ledger, entries, conn, admission, registry, shutdown>>

\* The tokens in the store, and those issue_at retains.
Tokens == {t \in Requests : entries[t] # None}
Stale == {t \in Tokens : entries[t].expires_at <= now}
\* Mutant: entries are read but not removed.
RemovedNothing(S) == entries
Removed(S) == [t \in Requests |-> IF t \in S THEN None ELSE entries[t]]

\* The ticket is issued under the audit authority guard, or the reservation
\* is dropped: the sink failed, the deadline passed, the store is full, or no
\* unique token could be generated.  Dropping an expired entry drops the
\* reservation inside it.
Issue(r) ==
  /\ req[r].pc = "issue"
  /\ \/ /\ audit = "failed" \/ req[r].expiry <= now
        /\ ReturnReq(r, "denied")
        /\ Drop({r})
        /\ UNCHANGED entries
     \/ /\ audit = "available" /\ req[r].expiry > now
        /\ ReturnReq(r, "denied")               \* AtCapacity or Generation
        /\ entries' = Removed(Stale)
        /\ Drop(Stale \cup {r})
     \/ /\ audit = "available" /\ req[r].expiry > now
        /\ Cardinality(Tokens \ Stale) < TicketCapacity
        /\ ReturnReq(r, "issued")
        /\ entries' = [Removed(Stale) EXCEPT ![r] =
                         [identity |-> req[r].identity, expires_at |-> req[r].expiry]]
        /\ Drop(Stale)
  /\ UNCHANGED <<now, audit, ledger, conn, admission, registry, shutdown>>

\* TicketStore::clear drops every entry with its reservation.
ClearTickets ==
  /\ Tokens # {}
  /\ entries' = Removed(Tokens)
  /\ Drop(Tokens)
  /\ UNCHANGED <<now, audit, ledger, req, conn, admission, registry, shutdown>>

----------------------------------------------------------------------------
(* accept_upgrade: handshake, redemption, start_reserved.                  *)

\* A WebSocket authenticated as u presents token t; redeem reads the clock
\* before it takes the store's lock.
Connect(c, u, t) ==
  /\ conn[c].pc = "idle"
  /\ conn' = [conn EXCEPT ![c] = [pc |-> "redeem", identity |-> u, ticket |-> t,
                                  seen |-> now, res |-> None]]
  /\ UNCHANGED <<now, audit, leases, ledger, entries, req, admission, registry, shutdown>>

\* SessionManager::start, without a ticket.
StartDirect(c, u) ==
  /\ conn[c].pc = "idle"
  /\ conn' = [conn EXCEPT ![c] = [pc |-> "start", identity |-> u, ticket |-> None,
                                  seen |-> 0, res |-> None]]
  /\ UNCHANGED <<now, audit, leases, ledger, entries, req, admission, registry, shutdown>>

\* The connection goes on; it goes on owning reservation i; it returns without
\* a session, dropping what it still owned.
MoveConn(c, pc) == conn' = [conn EXCEPT ![c].pc = pc]
OwnConn(c, pc, i) == conn' = [conn EXCEPT ![c] = [@ EXCEPT !.pc = pc, !.seen = 0, !.res = i]]
ReturnConn(c) == conn' = [conn EXCEPT ![c] = [IdleConn EXCEPT !.pc = "denied"]]

\* The token names an entry that had not expired when the clock was read, and
\* the entry is the presenter's own.
Valid(c) ==
  LET t == conn[c].ticket IN entries[t] # None /\ entries[t].expires_at > conn[c].seen
\* Mutant: the identity is not compared.
OwnTicketUnchecked(c) == TRUE
OwnTicket(c) == entries[conn[c].ticket].identity = conn[c].identity

\* TicketStore::redeem: unknown; expired, and removed with its reservation;
\* another identity's, and left alone; or granted.
Redeem(c) ==
  /\ conn[c].pc = "redeem"
  /\ LET t == conn[c].ticket IN
     \/ /\ entries[t] = None
        /\ ReturnConn(c)
        /\ UNCHANGED <<leases, entries>>
     \/ /\ entries[t] # None /\ ~Valid(c)
        /\ entries' = Removed({t})
        /\ Drop({t})
        /\ ReturnConn(c)
     \/ /\ Valid(c) /\ ~OwnTicket(c)
        /\ ReturnConn(c)
        /\ UNCHANGED <<leases, entries>>
     \/ /\ Valid(c) /\ OwnTicket(c)
        /\ entries' = Removed({t})
        /\ OwnConn(c, "start", t)
        /\ UNCHANGED leases
  /\ UNCHANGED <<now, audit, ledger, req, admission, registry, shutdown>>

\* start_reserved and start take the admission read guard; a manager that is
\* shutting down refuses and the reservation is dropped.
EnterAdmission(c) ==
  /\ conn[c].pc = "start"
  /\ GateOpen
  /\ \/ /\ gate = "closed"
        /\ ReturnConn(c)
        /\ Drop({conn[c].res})
        /\ UNCHANGED admission
     \/ /\ gate = "open"
        /\ MoveConn(c, "activate")
        /\ admission' = admission \cup {c}
        /\ UNCHANGED leases
  /\ UNCHANGED <<now, audit, ledger, entries, req, registry, shutdown>>

\* Reservation::activate succeeds on an open ledger whose lease, after the
\* purge, is still there, pending, and this identity's.
Activatable(c) ==
  LET i == conn[c].res IN
    /\ ledger = "open"
    /\ leases[i] # None /\ ~Expired(i)
    /\ leases[i].identity = conn[c].identity /\ leases[i].state # "live"

\* A ticketed start activates its reservation; its error drops it.
Activate(c) ==
  /\ conn[c].pc = "activate" /\ conn[c].res # None
  /\ \/ /\ Activatable(c)
        /\ Insert(conn[c].res, LiveLease(conn[c].identity))
        /\ MoveConn(c, "spawn")
        /\ UNCHANGED admission
     \/ /\ ~Activatable(c)
        /\ leases' = Dropped(Purged, {conn[c].res})
        /\ ReturnConn(c)
        /\ admission' = admission \ {c}
  /\ UNCHANGED <<now, audit, ledger, entries, req, registry, shutdown>>

\* A direct start reserves a live lease of its own.
ReserveLive(c) ==
  /\ conn[c].pc = "activate" /\ conn[c].res = None
  /\ \/ /\ ledger = "closed" \/ AtLimit(conn[c].identity)
        /\ leases' = Purged
        /\ ReturnConn(c)
        /\ admission' = admission \ {c}
     \/ /\ ledger = "open" /\ ~AtLimit(conn[c].identity)
        /\ Insert(c, LiveLease(conn[c].identity))
        /\ OwnConn(c, "spawn", c)
        /\ UNCHANGED admission
  /\ UNCHANGED <<now, audit, ledger, entries, req, registry, shutdown>>

\* resolve_backend_target or backend.spawn fails and the reservation is
\* dropped, or the process group exists and its supervisor is registered
\* before the read guard is released.
Spawn(c) ==
  /\ conn[c].pc = "spawn"
  /\ admission' = admission \ {c}
  /\ \/ /\ ReturnConn(c)
        /\ Drop({conn[c].res})
        /\ UNCHANGED active
     \/ /\ MoveConn(c, "connecting")
        /\ active' = active \cup {c}
        /\ UNCHANGED leases
  /\ UNCHANGED <<now, audit, ledger, entries, req, closeAsked, gate, shutdown>>

----------------------------------------------------------------------------
(* The supervisor task, as seen from admission.                            *)

SupervisorStep(c, from, to) ==
  /\ conn[c].pc = from
  /\ MoveConn(c, to)
  /\ UNCHANGED <<now, audit, leases, ledger, entries, req, admission, registry, shutdown>>

\* Authenticated, and session_started is persisted.
Admit(c) == audit = "available" /\ SupervisorStep(c, "connecting", "running")

\* Mutant: the reservation is dropped before the group is proven gone.
StopReleases(c) ==
  /\ conn[c].pc \in {"connecting", "running"}
  /\ MoveConn(c, "terminating")
  /\ Drop({conn[c].res})
  /\ UNCHANGED <<now, audit, ledger, entries, req, admission, registry, shutdown>>
\* The session ends for any reason: rejection, child exit, timeout, close.
Stop(c) ==
  SupervisorStep(c, "connecting", "terminating") \/ SupervisorStep(c, "running", "terminating")

\* ... in particular because its close channel holds a reason.
ObserveClose(c) == c \in closeAsked /\ Stop(c)

\* terminate_until_proven returned: the process group is absent.
Prove(c) == SupervisorStep(c, "terminating", "proven")

\* complete_supervisor drops the reservation last.
Release(c) ==
  /\ conn[c].pc = "proven"
  /\ OwnConn(c, "released", None)
  /\ Drop({conn[c].res})
  /\ UNCHANGED <<now, audit, ledger, entries, req, admission, registry, shutdown>>

\* Mutants: the waiter is not notified; notifications are counted.
DeregisterSilently(c) ==
  /\ conn[c].pc = "released"
  /\ MoveConn(c, "done")
  /\ active' = active \ {c}
  /\ closeAsked' = closeAsked \ {c}
  /\ UNCHANGED <<now, audit, leases, ledger, entries, req, admission, gate, shutdown>>
\* SupervisorCompletion::drop, when the task ends.
Deregister(c) ==
  /\ conn[c].pc = "released"
  /\ MoveConn(c, "done")
  /\ active' = active \ {c}
  /\ closeAsked' = closeAsked \ {c}
  /\ permits' = 1
  /\ UNCHANGED <<now, audit, leases, ledger, entries, req, admission, gate, sdPc,
                 sdTargets>>

----------------------------------------------------------------------------
(* SessionManager::shutdown; a second caller waits on its mutex.           *)

ShutdownStep(from, to) ==
  /\ sdPc = from /\ sdPc' = to
  /\ UNCHANGED <<now, audit, entries, req, conn, admission, active>>

\* Queue for the admission write guard.
ShutdownCall ==
  /\ ShutdownStep("idle", "waiting")
  /\ UNCHANGED <<leases, ledger, closeAsked, gate, sdTargets, permits>>

\* Mutant: shutdown does not wait for the callers inside the gate.
ShutdownCloseUngated ==
  /\ ShutdownStep("waiting", "closing")
  /\ gate' = "closed" /\ ledger' = "closed"
  /\ Drop({i \in Leases : leases[i].state = "pending"})
  /\ sdTargets' = active
  /\ UNCHANGED <<closeAsked, permits>>
\* Write guard held: close the gate and the ledger, drop pending leases
\* (close_pending), collect the close senders, release the guard.
ShutdownClose ==
  /\ admission = {}
  /\ ShutdownStep("waiting", "closing")
  /\ gate' = "closed"
  /\ ledger' = "closed"
  /\ Drop({i \in Leases : leases[i].state = "pending"})
  /\ sdTargets' = active
  /\ UNCHANGED <<closeAsked, permits>>

\* request_close(ManagerShutdown) on one collected sender; a supervisor that
\* has finished meanwhile does not notice.
ShutdownAsk ==
  \E c \in sdTargets :
    /\ ShutdownStep("closing", "closing")
    /\ closeAsked' = closeAsked \cup ({c} \cap active)
    /\ sdTargets' = sdTargets \ {c}
    /\ UNCHANGED <<leases, ledger, gate, permits>>

ShutdownAsked ==
  /\ sdTargets = {}
  /\ ShutdownStep("closing", "draining")
  /\ UNCHANGED <<leases, ledger, closeAsked, gate, sdTargets, permits>>

\* notified() is created, then the registry is looked at.
ShutdownLook ==
  /\ ShutdownStep("draining", IF active = {} THEN "returned" ELSE "parked")
  /\ UNCHANGED <<leases, ledger, closeAsked, gate, sdTargets, permits>>

ShutdownWake ==
  /\ permits = 1
  /\ ShutdownStep("parked", "draining")
  /\ permits' = 0
  /\ UNCHANGED <<leases, ledger, closeAsked, gate, sdTargets>>

----------------------------------------------------------------------------
(* The environment.                                                        *)

Tick ==
  /\ now < MaxTime
  /\ now' = now + 1
  /\ UNCHANGED <<audit, leases, ledger, entries, req, conn, admission, registry, shutdown>>

\* A write to the audit file fails; the sink stays failed.
AuditFails ==
  /\ audit = "available"
  /\ audit' = "failed"
  /\ UNCHANGED <<now, leases, ledger, entries, req, conn, admission, registry, shutdown>>

Init ==
  /\ now = 0 /\ audit = "available"
  /\ leases = [i \in LeaseIds |-> None] /\ ledger = "open"
  /\ entries = [r \in Requests |-> None]
  /\ req = [r \in Requests |-> IdleReq]
  /\ conn = [c \in Connections |-> IdleConn]
  /\ admission = {} /\ active = {} /\ closeAsked = {}
  /\ gate = "open"
  /\ sdPc = "idle" /\ sdTargets = {} /\ permits = 0

RequestNext(r) ==
  \/ \E u \in Identities : BeginRequest(r, u)
  \/ CancelRequest(r) \/ Reserve(r) \/ Issue(r)

ConnectionNext(c) ==
  \/ \E u \in Identities : StartDirect(c, u) \/ \E t \in Requests : Connect(c, u, t)
  \/ Redeem(c) \/ EnterAdmission(c) \/ Activate(c) \/ ReserveLive(c) \/ Spawn(c)
  \/ Admit(c) \/ Stop(c) \/ Prove(c) \/ Release(c) \/ Deregister(c)

ShutdownNext ==
  \/ ShutdownCall \/ ShutdownClose \/ ShutdownAsk \/ ShutdownAsked \/ ShutdownLook \/ ShutdownWake

Next ==
  \/ \E r \in Requests : RequestNext(r)
  \/ \E c \in Connections : ConnectionNext(c)
  \/ ShutdownNext \/ ClearTickets \/ Tick \/ AuditFails

Spec == Init /\ [][Next]_vars

\* The runtime keeps polling a task that can make progress.  Clients, ticket
\* holders, the clock, the sink and the caller of shutdown owe nothing; a
\* session ends of its own accord only if its close channel was written.
Fairness ==
  /\ \A r \in Requests : WF_vars(Reserve(r)) /\ WF_vars(Issue(r))
  /\ \A c \in Connections :
       WF_vars(\/ Redeem(c) \/ EnterAdmission(c) \/ Activate(c) \/ ReserveLive(c) \/ Spawn(c)
               \/ ObserveClose(c) \/ Prove(c) \/ Release(c) \/ Deregister(c))
  /\ WF_vars(ShutdownClose \/ ShutdownAsk \/ ShutdownAsked \/ ShutdownLook \/ ShutdownWake)

FairSpec == Spec /\ Fairness

----------------------------------------------------------------------------
(* Properties.                                                             *)

TypeOK ==
  /\ now \in Nat /\ audit \in {"available", "failed"} /\ ledger \in {"open", "closed"}
  /\ leases \in [LeaseIds -> Lease \cup {None}]
  /\ entries \in [Requests -> Entry \cup {None}]
  /\ req \in [Requests -> Req]
  /\ conn \in [Connections -> Conn]
  /\ admission \in SUBSET Connections /\ active \in SUBSET Connections
  /\ closeAsked \in SUBSET Connections /\ sdTargets \in SUBSET Connections
  /\ gate \in {"open", "closed"} /\ sdPc \in SdPcs /\ permits \in 0..1

\* Connections whose process group exists or has not been proven absent.
ProcessGroups == {c \in Connections : conn[c].pc \in {"connecting", "running", "terminating"}}

\* Connections whose supervisor task, or whose caller about to register it,
\* still owns a live lease.
LeasedPcs == {"spawn", "connecting", "running", "terminating", "proven"}

\* Connections the ticket store granted a reservation to and that were not
\* refused afterwards.
GrantedPcs == ConnPcs \ {"idle", "redeem", "denied"}

\* The table of leases never exceeds max_sessions, nor max_sessions_per_user
\* for one identity, whatever mixture of pending and live leases it holds.
LeasesWithinLimits ==
  /\ Cardinality(Leases) <= MaxSessions
  /\ \A u \in Identities : Cardinality(LeasesOf(u)) <= MaxSessionsPerUser

\* The process groups that exist never exceed the configured limits, in total
\* and for each identity: a slot is only reused once the group that used it is
\* proven gone, and nothing (purge, expiry, shutdown, a refused activation, a
\* dropped ticket) frees the slot of a running session.
ProcessesWithinLimits ==
  /\ Cardinality(ProcessGroups) <= MaxSessions
  /\ \A u \in Identities :
       Cardinality({c \in ProcessGroups : conn[c].identity = u}) <= MaxSessionsPerUser

\* A Reservation has one owner: a request between reserve and issue_at, the
\* entry of a ticket, or a connection; never two of them, so no drop can free
\* somebody else's slot.
ReservationOwnedOnce ==
  /\ \A c, d \in Connections : conn[c].res = conn[d].res /\ conn[c].res # None => c = d
  /\ \A r \in Requests : \A c \in Connections :
       (req[r].pc \in {"idle", "reserve", "issue"} \/ r \in Tokens) => conn[c].res # r
  /\ \A r \in Tokens : req[r].pc = "issued"

\* No slot leaks: a lease in the table always has an owner whose drop will
\* remove it.
NoLeaseLeaks ==
  \A i \in Leases :
    \/ i \in Requests /\ req[i].pc = "issue"
    \/ i \in Tokens
    \/ \E c \in Connections : conn[c].res = i

\* Every session, from activation until its group is proven gone, has its own
\* live lease in the table, counted against its own identity.
SessionHoldsLiveLease ==
  \A c \in Connections : conn[c].pc \in LeasedPcs =>
    /\ conn[c].res \in LeaseIds
    /\ leases[conn[c].res] = LiveLease(conn[c].identity)

\* Leases and owners match, both ways: activate, the drop of a reservation and the
\* purge of another caller (session.rs, CapacityState) leave neither a lease without
\* an owner nor a session without its lease.
LeasesAreAccounted == NoLeaseLeaks /\ SessionHoldsLiveLease

\* One ticket lets at most one connection through, and only one that
\* authenticated as the identity the ticket was issued to.
TicketGrantsOneOwner ==
  \A c \in Connections : conn[c].pc \in GrantedPcs /\ conn[c].ticket # None =>
    /\ req[conn[c].ticket].pc = "issued"
    /\ req[conn[c].ticket].identity = conn[c].identity
    /\ \A d \in Connections :
         conn[d].pc \in GrantedPcs /\ conn[d].ticket = conn[c].ticket => c = d

\* Once shutdown has returned no supervisor, process group or lease is left,
\* nor a caller inside the gate that could still create one.
ShutdownLeavesNothing ==
  sdPc = "returned" => active = {} /\ ProcessGroups = {} /\ Leases = {} /\ admission = {}

\* A request is refused for capacity only while a full limit's worth of leases
\* is live or still redeemable: an expired reservation never costs anyone a
\* session, whoever still holds it.
LimitRefusalJustified ==
  [][\A r \in Requests : req[r].pc = "reserve" /\ req'[r].pc = "limited" =>
       LET usable == {i \in Leases : leases[i].state = "live" \/ leases[i].expires_at > now} IN
         \/ Cardinality(usable) >= MaxSessions
         \/ Cardinality({i \in usable : leases[i].identity = req[r].identity}) >= MaxSessionsPerUser]_vars

\* Seen through its process groups alone, admission is the slot pool of
\* SessionSlots: a spawn is a Start inside both limits, a proven cleanup an End,
\* and every other step is invisible.
Slots == INSTANCE SessionSlots WITH
  Sessions <- Connections,
  runs <- [c \in Connections |-> IF c \in ProcessGroups THEN conn[c].identity ELSE None]

ImplementsSlots == Slots!Spec

\* SessionManager::shutdown returns: callers inside the gate leave it, every
\* registered supervisor is told to close and finishes, and the last one to
\* finish wakes the waiter.
ShutdownReturns == sdPc = "waiting" ~> sdPc = "returned"

\* No handler is left waiting at the admission gate or with a reservation in
\* its hands, shutdown or not.
CallersAreAnswered ==
  /\ \A r \in Requests : req[r].pc = "reserve" ~> req[r].pc \notin {"reserve", "issue"}
  /\ \A c \in Connections :
       conn[c].pc \in {"redeem", "start"} ~> conn[c].pc \notin {"redeem", "start", "activate", "spawn"}
============================================================================
