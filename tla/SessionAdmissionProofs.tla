----------------------- MODULE SessionAdmissionProofs -----------------------
(***************************************************************************)
(* Proofs about SessionAdmission, for any number of requests, connections  *)
(* and identities and any limits: the limits hold and a refusal for them   *)
(* is justified, a reservation has one owner and a ticket grants one, each *)
(* lease is accounted for, a shutdown leaves nothing, and the handlers     *)
(* implement SessionSlots.                                                 *)
(***************************************************************************)
EXTENDS SessionAdmission, FiniteSetTheorems, TLAPS

\* A handler past its first step knows an authenticated identity, and a
\* redemption a token.
CallersKnown ==
  /\ \A r \in Requests : req[r].pc # "idle" => req[r].identity \in Identities
  /\ \A c \in Connections : conn[c].pc \notin {"idle", "denied"} => conn[c].identity \in Identities
  /\ \A c \in Connections : conn[c].pc = "redeem" => conn[c].ticket \in Requests

\* Who owns which reservation; a lease made by a direct start belongs to it.
Ownership ==
  /\ ReservationOwnedOnce
  /\ \A c \in Connections : conn[c].res \in Connections => conn[c].res = c
  /\ \A c \in Connections : conn[c].pc \in {"idle", "redeem", "released", "done", "denied"}
                              => conn[c].res = None

AdmissionInv == TypeOK /\ CallersKnown /\ Ownership /\ SessionHoldsLiveLease /\ LeasesWithinLimits

----------------------------------------------------------------------------
(* Counting leases.                                                        *)

\* One element more adds at most one to the cardinality.
LEMMA AddOne ==
  ASSUME NEW S, NEW x, IsFiniteSet(S)
  PROVE  /\ IsFiniteSet(S \cup {x})
         /\ Cardinality(S) \in Nat /\ Cardinality(S \cup {x}) \in Nat
         /\ Cardinality(S \cup {x}) <= Cardinality(S) + 1
<1>1. Cardinality(S) \in Nat
  BY FS_CardinalityType
<1>2. /\ IsFiniteSet(S \cup {x})
      /\ Cardinality(S \cup {x}) = IF x \in S THEN Cardinality(S) ELSE Cardinality(S) + 1
  BY FS_AddElement
<1> QED
  BY <1>1, <1>2

\* The ledger holds finitely many leases, in all and of each identity.
LEMMA LeasesFinite ==
  ASSUME TypeOK
  PROVE  /\ IsFiniteSet(LeaseIds)
         /\ IsFiniteSet(Leases) /\ Cardinality(Leases) \in Nat
         /\ \A u : IsFiniteSet(LeasesOf(u)) /\ Cardinality(LeasesOf(u)) \in Nat
<1>1. IsFiniteSet(LeaseIds)
  BY CallersAssumption, FS_Union DEF LeaseIds
<1>2. Leases \in SUBSET LeaseIds /\ \A u : LeasesOf(u) \in SUBSET LeaseIds
  BY DEF Leases, LeasesOf
<1> QED
  BY <1>1, <1>2, FS_Subset, FS_CardinalityType

\* A step that adds no lease and changes the identity of none keeps the limits.
LEMMA ShrinkKeepsLimits ==
  ASSUME TypeOK, LeasesWithinLimits,
         \A i \in LeaseIds :
           leases'[i] # None => leases[i] # None /\ leases'[i].identity = leases[i].identity
  PROVE  LeasesWithinLimits'
<1>1. Leases' \in SUBSET Leases
  BY DEF Leases
<1>2. \A u : LeasesOf(u)' \in SUBSET LeasesOf(u)
  BY DEF Leases, LeasesOf
<1>3. Cardinality(Leases') <= Cardinality(Leases) /\ Cardinality(Leases') \in Nat
  BY <1>1, LeasesFinite, FS_Subset, FS_CardinalityType
<1>4. \A u \in Identities : /\ Cardinality(LeasesOf(u)') <= Cardinality(LeasesOf(u))
                            /\ Cardinality(LeasesOf(u)') \in Nat
  BY <1>2, LeasesFinite, FS_Subset, FS_CardinalityType
<1> QED
  BY <1>3, <1>4, LeasesFinite, LimitsAssumption DEF LeasesWithinLimits

\* reserve_with_state inserts only below both limits.
LEMMA InsertKeepsLimits ==
  ASSUME TypeOK, LeasesWithinLimits, NEW i \in LeaseIds, NEW l \in Lease,
         ~AtLimit(l.identity), Insert(i, l)
  PROVE  LeasesWithinLimits'
<1> DEFINE UnexpiredOf(u) == {j \in Unexpired : leases[j].identity = u}
<1>1. /\ Unexpired \in SUBSET Leases
      /\ \A u : UnexpiredOf(u) \in SUBSET LeasesOf(u)
  BY DEF Unexpired, LeasesOf
<1>2. /\ IsFiniteSet(Unexpired) /\ Cardinality(Unexpired) \in Nat
      /\ \A u : /\ IsFiniteSet(UnexpiredOf(u)) /\ Cardinality(UnexpiredOf(u)) \in Nat
                /\ Cardinality(UnexpiredOf(u)) <= Cardinality(LeasesOf(u))
  BY <1>1, LeasesFinite, FS_Subset, FS_CardinalityType
<1>3. \A j \in LeaseIds : leases'[j] = IF j = i THEN l ELSE IF Expired(j) THEN None ELSE leases[j]
  BY DEF Insert, Purged
<1>4. Leases' = Unexpired \cup {i}
  BY <1>3, NoneAssumption DEF Leases, Unexpired, Expired
<1>5. \A u : LeasesOf(u)' \in SUBSET (UnexpiredOf(u) \cup (IF u = l.identity THEN {i} ELSE {}))
  BY <1>3 DEF Leases, LeasesOf, Unexpired, Expired
<1>6. Cardinality(Leases') <= Cardinality(Unexpired) + 1 /\ Cardinality(Leases') \in Nat
  BY <1>2, <1>4, AddOne
<1>7. Cardinality(Unexpired) < MaxSessions /\ Cardinality(UnexpiredOf(l.identity)) < MaxSessionsPerUser
  <2>1. /\ Cardinality(Unexpired) \in Nat
        /\ Cardinality(UnexpiredOf(l.identity)) \in Nat
    BY <1>2
  <2>2. /\ ~(Cardinality(Unexpired) >= MaxSessions)
        /\ ~(Cardinality(UnexpiredOf(l.identity)) >= MaxSessionsPerUser)
    BY DEF AtLimit
  <2> HIDE DEF UnexpiredOf
  <2> QED
    BY <2>1, <2>2, LimitsAssumption
<1>8. ASSUME NEW u \in Identities PROVE Cardinality(LeasesOf(u)') <= MaxSessionsPerUser
  <2>1. CASE u = l.identity
    <3>1. LeasesOf(u)' \in SUBSET (UnexpiredOf(u) \cup {i})
      BY <1>5, <2>1
    <3>2. /\ IsFiniteSet(UnexpiredOf(u) \cup {i})
          /\ Cardinality(UnexpiredOf(u) \cup {i}) <= Cardinality(UnexpiredOf(u)) + 1
          /\ Cardinality(UnexpiredOf(u) \cup {i}) \in Nat
      BY <1>2, AddOne
    <3>3. /\ Cardinality(LeasesOf(u)') <= Cardinality(UnexpiredOf(u) \cup {i})
          /\ Cardinality(LeasesOf(u)') \in Nat
      BY <3>1, <3>2, FS_Subset, FS_CardinalityType
    <3> HIDE DEF UnexpiredOf
    <3> QED
      BY <1>2, <1>7, <2>1, <3>2, <3>3, LimitsAssumption
  <2>2. CASE u # l.identity
    <3>1. LeasesOf(u)' \in SUBSET UnexpiredOf(u)
      BY <1>5, <2>2
    <3>2. /\ Cardinality(LeasesOf(u)') <= Cardinality(UnexpiredOf(u))
          /\ Cardinality(LeasesOf(u)') \in Nat
      BY <1>2, <3>1, FS_Subset, FS_CardinalityType
    <3> HIDE DEF UnexpiredOf
    <3> QED
      BY <1>2, <3>2, LeasesFinite, LimitsAssumption DEF LeasesWithinLimits
  <2> QED BY <2>1, <2>2
<1> QED
  BY <1>2, <1>6, <1>7, <1>8, LimitsAssumption DEF LeasesWithinLimits

----------------------------------------------------------------------------
(* Types.                                                                  *)

\* The daemon starts with an empty ledger, no ticket and no caller.
LEMMA TypeInit == Init => TypeOK /\ CallersKnown
BY LimitsAssumption DEF Init, TypeOK, CallersKnown, Req, Conn, IdleReq, IdleConn, ReqPcs, ConnPcs, SdPcs

\* The tables the ledger and the store can be left with are well typed.
LEMMA TableTypes ==
  ASSUME TypeOK
  PROVE  /\ Purged \in [LeaseIds -> Lease \cup {None}]
         /\ \A S : Dropped(leases, S) \in [LeaseIds -> Lease \cup {None}]
         /\ \A S : Dropped(Purged, S) \in [LeaseIds -> Lease \cup {None}]
         /\ \A i \in LeaseIds : \A l \in Lease :
              [Purged EXCEPT ![i] = l] \in [LeaseIds -> Lease \cup {None}]
         /\ \A S : Removed(S) \in [Requests -> Entry \cup {None}]
         /\ \A r \in Requests : \A e \in Entry : \A S :
              [Removed(S) EXCEPT ![r] = e] \in [Requests -> Entry \cup {None}]
<1>1. Purged \in [LeaseIds -> Lease \cup {None}]
  BY DEF TypeOK, Purged
<1>2. \A S : Dropped(leases, S) \in [LeaseIds -> Lease \cup {None}]
  BY DEF TypeOK, Dropped
<1>3. \A S : Dropped(Purged, S) \in [LeaseIds -> Lease \cup {None}]
  BY <1>1 DEF Dropped
<1>4. \A S : Removed(S) \in [Requests -> Entry \cup {None}]
  BY DEF TypeOK, Removed
<1> HIDE DEF Purged, Dropped, Removed
<1> QED
  BY <1>1, <1>2, <1>3, <1>4

\* The leases and the entries the handlers write are well typed.
LEMMA RecordTypes ==
  /\ \A u \in Identities : /\ LiveLease(u) \in Lease /\ LiveLease(u) # None
                            /\ LiveLease(u).identity = u /\ LiveLease(u).state = "live"
  /\ \A u \in Identities : \A e \in Nat :
       /\ PendingLease(u, e) \in Lease /\ PendingLease(u, e).identity = u
       /\ [identity |-> u, expires_at |-> e] \in Entry
BY NoneAssumption DEF LiveLease, PendingLease, Lease, Entry

\* What a handler's step leaves behind, field by field.
ReqAt(r, pc) ==
  /\ req' \in [Requests -> Req]
  /\ \A q \in Requests \ {r} : req'[q] = req[q]
  /\ req'[r].pc = pc

ReqMoved(r, pc) == ReqAt(r, pc) /\ req'[r].identity = req[r].identity

ConnAt(c, pc, res) ==
  /\ conn' \in [Connections -> Conn]
  /\ \A d \in Connections \ {c} : conn'[d] = conn[d]
  /\ conn'[c].pc = pc /\ conn'[c].res = res

ConnMoved(c, pc, res) ==
  /\ ConnAt(c, pc, res)
  /\ conn'[c].identity = conn[c].identity /\ conn'[c].ticket = conn[c].ticket

\* What a step of a request handler changes of its own record.
LEMMA ReqEffects ==
  ASSUME TypeOK, NEW r \in Requests, NEW pc \in ReqPcs
  PROVE  /\ MoveReq(r, pc) => ReqMoved(r, pc)
         /\ ReturnReq(r, pc) => ReqMoved(r, pc)
<1> USE DEF TypeOK, Req, ReqAt, ReqMoved
<1>1. ASSUME MoveReq(r, pc) PROVE ReqMoved(r, pc)
  BY <1>1 DEF MoveReq
<1>2. ASSUME ReturnReq(r, pc) PROVE ReqMoved(r, pc)
  <2>1. [req[r] EXCEPT !.pc = pc, !.expiry = 0] \in Req
    BY DEF Req
  <2> QED
    BY <1>2, <2>1 DEF ReturnReq
<1> QED
  BY <1>1, <1>2

\* What a step of a connection changes of its own record.
LEMMA ConnEffects ==
  ASSUME TypeOK, NEW c \in Connections
  PROVE  /\ \A pc \in ConnPcs : MoveConn(c, pc) => ConnMoved(c, pc, conn[c].res)
         /\ \A pc \in ConnPcs : \A i \in LeaseIds \cup {None} :
              OwnConn(c, pc, i) => ConnMoved(c, pc, i)
         /\ ReturnConn(c) => ConnAt(c, "denied", None)
<1> USE DEF TypeOK, Conn, ConnAt, ConnMoved
<1>1. ASSUME NEW pc \in ConnPcs, MoveConn(c, pc) PROVE ConnMoved(c, pc, conn[c].res)
  BY <1>1 DEF MoveConn
<1>2. ASSUME NEW pc \in ConnPcs, NEW i \in LeaseIds \cup {None}, OwnConn(c, pc, i)
      PROVE  ConnMoved(c, pc, i)
  BY <1>2 DEF OwnConn
<1>3. ASSUME ReturnConn(c) PROVE ConnAt(c, "denied", None)
  BY <1>3 DEF ReturnConn, IdleConn, ConnPcs
<1> QED
  BY <1>1, <1>2, <1>3

\* Every step of a handler, of a session and of shutdown keeps the types.
LEMMA TypeNext ==
  ASSUME TypeOK, CallersKnown, [Next]_vars
  PROVE  TypeOK' /\ CallersKnown'
<1> USE CallersAssumption, LimitsAssumption
<1> USE DEF registry, shutdown
<1>1. ASSUME NEW r \in Requests, \E u \in Identities : BeginRequest(r, u) PROVE TypeOK' /\ CallersKnown'
  <2>1. req' \in [Requests -> Req] /\ conn' \in [Connections -> Conn]
    BY <1>1 DEF TypeOK, CallersKnown, Req, Conn, ReqPcs, ConnPcs, IdleConn, BeginRequest
  <2>2. CallersKnown'
    BY <1>1 DEF TypeOK, CallersKnown, Req, Conn, ReqPcs, ConnPcs, IdleConn, BeginRequest
  <2> QED
    BY <1>1, <2>1, <2>2 DEF TypeOK, SdPcs, BeginRequest
<1>2. ASSUME NEW r \in Requests, CancelRequest(r) PROVE TypeOK' /\ CallersKnown'
  <2>1. req' \in [Requests -> Req] /\ conn' \in [Connections -> Conn]
    BY <1>2, ReqEffects DEF TypeOK, CallersKnown, ReqPcs, ReqMoved, ReqAt, LeaseIds, CancelRequest
  <2>2. CallersKnown'
    BY <1>2, ReqEffects DEF TypeOK, CallersKnown, ReqPcs, ReqMoved, ReqAt, LeaseIds, CancelRequest
  <2> QED
    BY <1>2, <2>1, <2>2 DEF TypeOK, SdPcs, CancelRequest
<1>3. ASSUME NEW r \in Requests, Reserve(r) PROVE TypeOK' /\ CallersKnown'
  <2>1. req' \in [Requests -> Req] /\ conn' \in [Connections -> Conn]
    BY <1>3, ReqEffects DEF TypeOK, CallersKnown, ReqPcs, ReqMoved, ReqAt, LeaseIds, Reserve
  <2>2. CallersKnown'
    BY <1>3, ReqEffects DEF TypeOK, CallersKnown, ReqPcs, ReqMoved, ReqAt, LeaseIds, Reserve
  <2>3. leases' \in [LeaseIds -> Lease \cup {None}] /\ entries' \in [Requests -> Entry \cup {None}]
    <3>1. req[r].identity \in Identities /\ req[r].expiry \in Nat /\ r \in LeaseIds
      BY <1>3 DEF TypeOK, CallersKnown, Req, LeaseIds, Reserve
    <3>2. PendingLease(req[r].identity, req[r].expiry) \in Lease
      BY <3>1, RecordTypes
    <3> QED
      BY <1>3, <3>1, <3>2, TableTypes DEF TypeOK, Reserve, Insert
  <2> QED
    BY <1>3, <2>1, <2>2, <2>3 DEF TypeOK, SdPcs, Reserve
<1>4. ASSUME NEW r \in Requests, Issue(r) PROVE TypeOK' /\ CallersKnown'
  <2>1. req' \in [Requests -> Req] /\ conn' \in [Connections -> Conn]
    BY <1>4, ReqEffects DEF TypeOK, CallersKnown, ReqPcs, ReqMoved, ReqAt, LeaseIds, Issue
  <2>2. CallersKnown'
    BY <1>4, ReqEffects DEF TypeOK, CallersKnown, ReqPcs, ReqMoved, ReqAt, LeaseIds, Issue
  <2>3. leases' \in [LeaseIds -> Lease \cup {None}] /\ entries' \in [Requests -> Entry \cup {None}]
    <3>1. req[r].identity \in Identities /\ req[r].expiry \in Nat /\ r \in LeaseIds
      BY <1>4 DEF TypeOK, CallersKnown, Req, LeaseIds, Issue
    <3>2. [identity |-> req[r].identity, expires_at |-> req[r].expiry] \in Entry
      BY <3>1, RecordTypes
    <3> QED
      BY <1>4, <3>1, <3>2, TableTypes DEF TypeOK, Issue, Drop
  <2> QED
    BY <1>4, <2>1, <2>2, <2>3 DEF TypeOK, SdPcs, Issue
<1>5. ASSUME NEW c \in Connections, \E u \in Identities : StartDirect(c, u) PROVE TypeOK' /\ CallersKnown'
  <2>1. req' \in [Requests -> Req] /\ conn' \in [Connections -> Conn]
    BY <1>5 DEF TypeOK, CallersKnown, Req, Conn, ReqPcs, ConnPcs, IdleConn, StartDirect
  <2>2. CallersKnown'
    BY <1>5 DEF TypeOK, CallersKnown, Req, Conn, ReqPcs, ConnPcs, IdleConn, StartDirect
  <2> QED
    BY <1>5, <2>1, <2>2 DEF TypeOK, SdPcs, StartDirect
<1>6. ASSUME NEW c \in Connections, \E u \in Identities : \E t \in Requests : Connect(c, u, t) PROVE TypeOK' /\ CallersKnown'
  <2>1. req' \in [Requests -> Req] /\ conn' \in [Connections -> Conn]
    BY <1>6 DEF TypeOK, CallersKnown, Req, Conn, ReqPcs, ConnPcs, IdleConn, Connect
  <2>2. CallersKnown'
    BY <1>6 DEF TypeOK, CallersKnown, Req, Conn, ReqPcs, ConnPcs, IdleConn, Connect
  <2> QED
    BY <1>6, <2>1, <2>2 DEF TypeOK, SdPcs, Connect
<1>7. ASSUME NEW c \in Connections, Redeem(c) PROVE TypeOK' /\ CallersKnown'
  <2>1. req' \in [Requests -> Req] /\ conn' \in [Connections -> Conn]
    BY <1>7, ConnEffects DEF TypeOK, CallersKnown, ConnPcs, ConnMoved, ConnAt, LeaseIds, Redeem
  <2>2. CallersKnown'
    BY <1>7, ConnEffects, SMTT(40) DEF TypeOK, CallersKnown, ConnPcs, ConnMoved, ConnAt, LeaseIds, Redeem
  <2>3. leases' \in [LeaseIds -> Lease \cup {None}] /\ entries' \in [Requests -> Entry \cup {None}]
    BY <1>7, TableTypes, RecordTypes DEF TypeOK, CallersKnown, Req, Conn, Redeem, Drop, LeaseIds
  <2> QED
    BY <1>7, <2>1, <2>2, <2>3 DEF TypeOK, SdPcs, Redeem
<1>8. ASSUME NEW c \in Connections, EnterAdmission(c) PROVE TypeOK' /\ CallersKnown'
  <2>1. req' \in [Requests -> Req] /\ conn' \in [Connections -> Conn]
    BY <1>8, ConnEffects DEF TypeOK, CallersKnown, ConnPcs, ConnMoved, ConnAt, LeaseIds, EnterAdmission
  <2>2. CallersKnown'
    BY <1>8, ConnEffects, SMTT(40) DEF TypeOK, CallersKnown, ConnPcs, ConnMoved, ConnAt, LeaseIds, EnterAdmission
  <2>3. leases' \in [LeaseIds -> Lease \cup {None}] /\ entries' \in [Requests -> Entry \cup {None}]
    BY <1>8, TableTypes, RecordTypes DEF TypeOK, CallersKnown, Req, Conn, EnterAdmission, Drop, LeaseIds
  <2> QED
    BY <1>8, <2>1, <2>2, <2>3 DEF TypeOK, SdPcs, EnterAdmission
<1>9. ASSUME NEW c \in Connections, Activate(c) PROVE TypeOK' /\ CallersKnown'
  <2>1. req' \in [Requests -> Req] /\ conn' \in [Connections -> Conn]
    BY <1>9, ConnEffects DEF TypeOK, CallersKnown, ConnPcs, ConnMoved, ConnAt, LeaseIds, Activate
  <2>2. CallersKnown'
    BY <1>9, ConnEffects, SMTT(40) DEF TypeOK, CallersKnown, ConnPcs, ConnMoved, ConnAt, LeaseIds, Activate
  <2>3. leases' \in [LeaseIds -> Lease \cup {None}] /\ entries' \in [Requests -> Entry \cup {None}]
    BY <1>9, TableTypes, RecordTypes, SMTT(40) DEF TypeOK, CallersKnown, Req, Conn, Activate, Insert, LeaseIds
  <2> QED
    BY <1>9, <2>1, <2>2, <2>3 DEF TypeOK, SdPcs, Activate
<1>10. ASSUME NEW c \in Connections, ReserveLive(c) PROVE TypeOK' /\ CallersKnown'
  <2>1. req' \in [Requests -> Req] /\ conn' \in [Connections -> Conn]
    BY <1>10, ConnEffects DEF TypeOK, CallersKnown, ConnPcs, ConnMoved, ConnAt, LeaseIds, ReserveLive
  <2>2. CallersKnown'
    BY <1>10, ConnEffects, SMTT(40) DEF TypeOK, CallersKnown, ConnPcs, ConnMoved, ConnAt, LeaseIds, ReserveLive
  <2>3. leases' \in [LeaseIds -> Lease \cup {None}] /\ entries' \in [Requests -> Entry \cup {None}]
    BY <1>10, TableTypes, RecordTypes DEF TypeOK, CallersKnown, Req, Conn, ReserveLive, Insert, LeaseIds
  <2> QED
    BY <1>10, <2>1, <2>2, <2>3 DEF TypeOK, SdPcs, ReserveLive
<1>11. ASSUME NEW c \in Connections, Spawn(c) PROVE TypeOK' /\ CallersKnown'
  <2>1. req' \in [Requests -> Req] /\ conn' \in [Connections -> Conn]
    BY <1>11, ConnEffects DEF TypeOK, CallersKnown, ConnPcs, ConnMoved, ConnAt, LeaseIds, Spawn
  <2>2. CallersKnown'
    BY <1>11, ConnEffects, SMTT(40) DEF TypeOK, CallersKnown, ConnPcs, ConnMoved, ConnAt, LeaseIds, Spawn
  <2>3. leases' \in [LeaseIds -> Lease \cup {None}] /\ entries' \in [Requests -> Entry \cup {None}]
    BY <1>11, TableTypes, RecordTypes DEF TypeOK, CallersKnown, Req, Conn, Spawn, Drop, LeaseIds
  <2> QED
    BY <1>11, <2>1, <2>2, <2>3 DEF TypeOK, SdPcs, Spawn
<1>12. ASSUME NEW c \in Connections, Admit(c) PROVE TypeOK' /\ CallersKnown'
  <2>1. req' \in [Requests -> Req] /\ conn' \in [Connections -> Conn]
    BY <1>12, ConnEffects DEF TypeOK, CallersKnown, ConnPcs, ConnMoved, ConnAt, LeaseIds, Admit, SupervisorStep
  <2>2. CallersKnown'
    BY <1>12, ConnEffects, SMTT(40) DEF TypeOK, CallersKnown, ConnPcs, ConnMoved, ConnAt, LeaseIds, Admit, SupervisorStep
  <2> QED
    BY <1>12, <2>1, <2>2 DEF TypeOK, SdPcs, Admit, SupervisorStep
<1>13. ASSUME NEW c \in Connections, Stop(c) PROVE TypeOK' /\ CallersKnown'
  <2>1. req' \in [Requests -> Req] /\ conn' \in [Connections -> Conn]
    BY <1>13, ConnEffects DEF TypeOK, CallersKnown, ConnPcs, ConnMoved, ConnAt, LeaseIds, Stop, SupervisorStep
  <2>2. CallersKnown'
    BY <1>13, ConnEffects, SMTT(40) DEF TypeOK, CallersKnown, ConnPcs, ConnMoved, ConnAt, LeaseIds, Stop, SupervisorStep
  <2> QED
    BY <1>13, <2>1, <2>2 DEF TypeOK, SdPcs, Stop, SupervisorStep
<1>14. ASSUME NEW c \in Connections, Prove(c) PROVE TypeOK' /\ CallersKnown'
  <2>1. req' \in [Requests -> Req] /\ conn' \in [Connections -> Conn]
    BY <1>14, ConnEffects DEF TypeOK, CallersKnown, ConnPcs, ConnMoved, ConnAt, LeaseIds, Prove, SupervisorStep
  <2>2. CallersKnown'
    BY <1>14, ConnEffects, SMTT(40) DEF TypeOK, CallersKnown, ConnPcs, ConnMoved, ConnAt, LeaseIds, Prove, SupervisorStep
  <2> QED
    BY <1>14, <2>1, <2>2 DEF TypeOK, SdPcs, Prove, SupervisorStep
<1>15. ASSUME NEW c \in Connections, Release(c) PROVE TypeOK' /\ CallersKnown'
  <2>1. req' \in [Requests -> Req] /\ conn' \in [Connections -> Conn]
    BY <1>15, ConnEffects DEF TypeOK, CallersKnown, ConnPcs, ConnMoved, ConnAt, LeaseIds, Release
  <2>2. CallersKnown'
    BY <1>15, ConnEffects, ZenonT(60) DEF TypeOK, CallersKnown, ConnPcs, ConnMoved, ConnAt, LeaseIds, Release
  <2>3. leases' \in [LeaseIds -> Lease \cup {None}] /\ entries' \in [Requests -> Entry \cup {None}]
    BY <1>15, TableTypes, RecordTypes DEF TypeOK, CallersKnown, Req, Conn, Release, Drop, LeaseIds
  <2> QED
    BY <1>15, <2>1, <2>2, <2>3 DEF TypeOK, SdPcs, Release
<1>16. ASSUME NEW c \in Connections, Deregister(c) PROVE TypeOK' /\ CallersKnown'
  <2>1. req' \in [Requests -> Req] /\ conn' \in [Connections -> Conn]
    BY <1>16, ConnEffects DEF TypeOK, CallersKnown, ConnPcs, ConnMoved, ConnAt, LeaseIds, Deregister
  <2>2. CallersKnown'
    BY <1>16, ConnEffects, SMTT(40) DEF TypeOK, CallersKnown, ConnPcs, ConnMoved, ConnAt, LeaseIds, Deregister
  <2> QED
    BY <1>16, <2>1, <2>2 DEF TypeOK, SdPcs, Deregister
<1>17. ASSUME ShutdownNext PROVE TypeOK' /\ CallersKnown'
  <2>1. req' \in [Requests -> Req] /\ conn' \in [Connections -> Conn]
    BY <1>17 DEF TypeOK, CallersKnown, LeaseIds, ShutdownNext, ShutdownStep, ShutdownCall, ShutdownClose, ShutdownAsk, ShutdownAsked, ShutdownLook, ShutdownWake
  <2>2. CallersKnown'
    BY <1>17 DEF TypeOK, CallersKnown, LeaseIds, ShutdownNext, ShutdownStep, ShutdownCall, ShutdownClose, ShutdownAsk, ShutdownAsked, ShutdownLook, ShutdownWake
  <2>3. leases' \in [LeaseIds -> Lease \cup {None}] /\ entries' \in [Requests -> Entry \cup {None}]
    BY <1>17, TableTypes, RecordTypes DEF TypeOK, CallersKnown, Req, Conn, ShutdownNext, ShutdownStep, ShutdownCall, ShutdownClose, ShutdownAsk, ShutdownAsked, ShutdownLook, ShutdownWake, Drop, LeaseIds
  <2> QED
    BY <1>17, <2>1, <2>2, <2>3 DEF TypeOK, SdPcs, ShutdownNext, ShutdownStep, ShutdownCall, ShutdownClose, ShutdownAsk, ShutdownAsked, ShutdownLook, ShutdownWake
<1>18. ASSUME ClearTickets PROVE TypeOK' /\ CallersKnown'
  <2>1. req' \in [Requests -> Req] /\ conn' \in [Connections -> Conn]
    BY <1>18 DEF TypeOK, CallersKnown, LeaseIds, ClearTickets
  <2>2. CallersKnown'
    BY <1>18 DEF TypeOK, CallersKnown, LeaseIds, ClearTickets
  <2>3. leases' \in [LeaseIds -> Lease \cup {None}] /\ entries' \in [Requests -> Entry \cup {None}]
    BY <1>18, TableTypes, RecordTypes DEF TypeOK, CallersKnown, Req, Conn, ClearTickets, Drop, LeaseIds
  <2> QED
    BY <1>18, <2>1, <2>2, <2>3 DEF TypeOK, SdPcs, ClearTickets
<1>19. ASSUME Tick PROVE TypeOK' /\ CallersKnown'
  <2>1. req' \in [Requests -> Req] /\ conn' \in [Connections -> Conn]
    BY <1>19 DEF TypeOK, CallersKnown, LeaseIds, Tick
  <2>2. CallersKnown'
    BY <1>19 DEF TypeOK, CallersKnown, LeaseIds, Tick
  <2> QED
    BY <1>19, <2>1, <2>2 DEF TypeOK, SdPcs, Tick
<1>20. ASSUME AuditFails PROVE TypeOK' /\ CallersKnown'
  <2>1. req' \in [Requests -> Req] /\ conn' \in [Connections -> Conn]
    BY <1>20 DEF TypeOK, CallersKnown, LeaseIds, AuditFails
  <2>2. CallersKnown'
    BY <1>20 DEF TypeOK, CallersKnown, LeaseIds, AuditFails
  <2> QED
    BY <1>20, <2>1, <2>2 DEF TypeOK, SdPcs, AuditFails
<1>21. ASSUME UNCHANGED vars PROVE TypeOK' /\ CallersKnown'
  BY <1>21 DEF TypeOK, CallersKnown, vars
<1> QED
  BY <1>1, <1>2, <1>3, <1>4, <1>5, <1>6, <1>7, <1>8, <1>9, <1>10, <1>11, <1>12, <1>13, <1>14, <1>15, <1>16, <1>17, <1>18, <1>19, <1>20, <1>21 DEF Next, RequestNext, ConnectionNext

----------------------------------------------------------------------------
(* Ownership and limits.                                                  *)

\* A step on the ledger adds no lease, and keeps every live one outside S.
NoGrowth ==
  \A i \in LeaseIds :
    leases'[i] # None => leases[i] # None /\ leases'[i].identity = leases[i].identity

LiveKept(S) ==
  \A i \in LeaseIds \ S :
    leases[i] # None /\ leases[i].state = "live" => leases'[i] = leases[i]

\* What each operation of the ledger adds, keeps and removes.
LEMMA LedgerEffects ==
  ASSUME TypeOK
  PROVE  /\ leases' = leases => NoGrowth /\ LiveKept({})
         /\ leases' = Purged => NoGrowth /\ LiveKept({})
         /\ \A S : Drop(S) => NoGrowth /\ LiveKept(S)
         /\ \A S : leases' = Dropped(Purged, S) => NoGrowth /\ LiveKept(S)
         /\ \A i \in LeaseIds : \A l \in Lease :
              Insert(i, l) => LiveKept({i}) /\ leases'[i] = l
         /\ \A i \in LeaseIds : \A l \in Lease :
              Insert(i, l) /\ leases[i] # None /\ l.identity = leases[i].identity => NoGrowth
<1> USE DEF TypeOK, NoGrowth, LiveKept, Purged, Dropped, Expired
<1>1. leases' = leases => NoGrowth /\ LiveKept({})
  OBVIOUS
<1>2. leases' = Purged => NoGrowth /\ LiveKept({})
  OBVIOUS
<1>3. \A S : Drop(S) => NoGrowth /\ LiveKept(S)
  BY DEF Drop
<1>4. \A S : leases' = Dropped(Purged, S) => NoGrowth /\ LiveKept(S)
  OBVIOUS
<1>5. \A i \in LeaseIds : \A l \in Lease :
        Insert(i, l) => LiveKept({i}) /\ leases'[i] = l
  BY DEF Insert
<1>6. \A i \in LeaseIds : \A l \in Lease :
        Insert(i, l) /\ leases[i] # None /\ l.identity = leases[i].identity => NoGrowth
  BY DEF Insert
<1> QED
  BY <1>1, <1>2, <1>3, <1>4, <1>5, <1>6

\* Which tokens each operation of the ticket store leaves.
LEMMA StoreEffects ==
  ASSUME TypeOK
  PROVE  /\ Tokens \in SUBSET Requests
         /\ entries' = entries => Tokens' = Tokens
         /\ \A S : entries' = Removed(S) => Tokens' = Tokens \ S
         /\ \A S : \A r \in Requests : \A e \in Entry :
              entries' = [Removed(S) EXCEPT ![r] = e] => Tokens' = (Tokens \ S) \cup {r}
<1> USE NoneAssumption DEF TypeOK, Tokens, Removed
<1>1. entries' = entries => Tokens' = Tokens
  OBVIOUS
<1>2. \A S : entries' = Removed(S) => Tokens' = Tokens \ S
  OBVIOUS
<1>3. \A S : \A r \in Requests : \A e \in Entry :
        entries' = [Removed(S) EXCEPT ![r] = e] => Tokens' = (Tokens \ S) \cup {r}
  OBVIOUS
<1> QED
  BY <1>1, <1>2, <1>3

\* A reservation passes from the request to the ticket to the connection, and has one
\* owner throughout.
LEMMA OwnershipNext ==
  ASSUME AdmissionInv, [Next]_vars
  PROVE  Ownership'
<1> USE CallersAssumption
<1> USE DEF registry, shutdown
<1>1. ASSUME NEW r \in Requests, \E u \in Identities : BeginRequest(r, u) PROVE Ownership'
  <2>1. ReqAt(r, "reserve") /\ conn' = conn /\ Tokens' = Tokens /\ req[r].pc = "idle"
    BY <1>1, LimitsAssumption, StoreEffects DEF AdmissionInv, TypeOK, Req, Conn, ReqPcs, ConnPcs, ReqAt, ConnAt, LeaseIds, BeginRequest
  <2> QED
    BY <2>1, StoreEffects DEF AdmissionInv, Ownership, ReservationOwnedOnce, ReqAt
<1>2. ASSUME NEW r \in Requests, CancelRequest(r) PROVE Ownership'
  <2>1. ReqAt(r, "denied") /\ conn' = conn /\ Tokens' = Tokens /\ req[r].pc = "reserve"
    BY <1>2, ReqEffects, StoreEffects DEF AdmissionInv, TypeOK, ReqPcs, ReqMoved, LeaseIds, CancelRequest
  <2> QED
    BY <2>1, StoreEffects DEF AdmissionInv, Ownership, ReservationOwnedOnce, ReqAt
<1>3. ASSUME NEW r \in Requests, Reserve(r) PROVE Ownership'
  <2>1. /\ \E pc \in {"denied", "limited", "issue"} : ReqAt(r, pc)
        /\ conn' = conn /\ Tokens' = Tokens /\ req[r].pc = "reserve"
    BY <1>3, ReqEffects, StoreEffects DEF AdmissionInv, TypeOK, ReqPcs, ReqMoved, LeaseIds, Reserve
  <2> QED
    BY <2>1, StoreEffects DEF AdmissionInv, Ownership, ReservationOwnedOnce, ReqAt
<1>4. ASSUME NEW r \in Requests, Issue(r) PROVE Ownership'
  <2>1. /\ req[r].pc = "issue" /\ conn' = conn
        /\ \/ ReqAt(r, "denied") /\ Tokens' \in SUBSET Tokens
           \/ ReqAt(r, "issued") /\ Tokens' \in SUBSET (Tokens \cup {r})
    <3>1. /\ \A o \in {"denied", "issued"} : ReturnReq(r, o) => ReqAt(r, o)
          /\ [identity |-> req[r].identity, expires_at |-> req[r].expiry] \in Entry
      BY <1>4, ReqEffects, RecordTypes DEF AdmissionInv, TypeOK, CallersKnown, Req, ReqPcs, ReqMoved, Issue
    <3> QED
      BY <1>4, <3>1, StoreEffects DEF AdmissionInv, Issue
  <2> QED
    BY <2>1, StoreEffects DEF AdmissionInv, Ownership, ReservationOwnedOnce, ReqAt
<1>5. ASSUME NEW c \in Connections, \E u \in Identities : StartDirect(c, u) PROVE Ownership'
  <2>1. ConnAt(c, "start", None) /\ req' = req /\ Tokens' = Tokens
    BY <1>5, LimitsAssumption, StoreEffects DEF AdmissionInv, TypeOK, Req, Conn, ReqPcs, ConnPcs, ReqAt, ConnAt, LeaseIds, StartDirect
  <2> QED
    BY <2>1, StoreEffects DEF AdmissionInv, Ownership, ReservationOwnedOnce, ConnAt, LeaseIds
<1>6. ASSUME NEW c \in Connections, \E u \in Identities : \E t \in Requests : Connect(c, u, t) PROVE Ownership'
  <2>1. ConnAt(c, "redeem", None) /\ req' = req /\ Tokens' = Tokens
    BY <1>6, LimitsAssumption, StoreEffects DEF AdmissionInv, TypeOK, Req, Conn, ReqPcs, ConnPcs, ReqAt, ConnAt, LeaseIds, Connect
  <2> QED
    BY <2>1, StoreEffects DEF AdmissionInv, Ownership, ReservationOwnedOnce, ConnAt, LeaseIds
<1>7. ASSUME NEW c \in Connections, Redeem(c) PROVE Ownership'
  <2>1. /\ req' = req
        /\ \/ ConnAt(c, "denied", None) /\ Tokens' \in SUBSET Tokens
           \/ \E t \in Tokens : ConnAt(c, "start", t) /\ Tokens' = Tokens \ {t}
    BY <1>7, ConnEffects, StoreEffects DEF AdmissionInv, TypeOK, ConnPcs, ConnMoved, Tokens, CallersKnown, LeaseIds, Redeem, Valid
  <2>2. CASE ConnAt(c, "denied", None) /\ Tokens' \in SUBSET Tokens
    BY <2>1, <2>2, StoreEffects DEF AdmissionInv, Ownership, ReservationOwnedOnce, ConnAt, LeaseIds
  <2>3. ASSUME NEW t \in Tokens, ConnAt(c, "start", t), Tokens' = Tokens \ {t} PROVE Ownership'
    <3>1. t \in Requests /\ t \notin Connections /\ req[t].pc = "issued"
      BY StoreEffects DEF AdmissionInv, Ownership, ReservationOwnedOnce
    <3>2. \A d \in Connections : conn[d].res # t
      BY <3>1 DEF AdmissionInv, Ownership, ReservationOwnedOnce
    <3> QED
      BY <2>1, <2>3, <3>1, <3>2 DEF AdmissionInv, Ownership, ReservationOwnedOnce, ConnAt, LeaseIds
  <2> QED
    BY <2>1, <2>2, <2>3
<1>8. ASSUME NEW c \in Connections, EnterAdmission(c) PROVE Ownership'
  <2>1. /\ req' = req /\ Tokens' = Tokens /\ conn[c].pc = "start"
        /\ ConnAt(c, "denied", None) \/ ConnAt(c, "activate", conn[c].res)
    BY <1>8, ConnEffects, StoreEffects DEF AdmissionInv, TypeOK, ConnPcs, ConnMoved, LeaseIds, EnterAdmission
  <2> QED
    BY <2>1, StoreEffects DEF AdmissionInv, Ownership, ReservationOwnedOnce, ConnAt, LeaseIds
<1>9. ASSUME NEW c \in Connections, Activate(c) PROVE Ownership'
  <2>1. /\ req' = req /\ Tokens' = Tokens
        /\ ConnAt(c, "denied", None) \/ ConnAt(c, "spawn", conn[c].res)
    BY <1>9, ConnEffects, StoreEffects DEF AdmissionInv, TypeOK, ConnPcs, ConnMoved, LeaseIds, Activate
  <2> QED
    BY <2>1, StoreEffects DEF AdmissionInv, Ownership, ReservationOwnedOnce, ConnAt, LeaseIds
<1>10. ASSUME NEW c \in Connections, ReserveLive(c) PROVE Ownership'
  <2>1. /\ req' = req /\ Tokens' = Tokens
        /\ ConnAt(c, "denied", None) \/ ConnAt(c, "spawn", c)
    BY <1>10, ConnEffects, StoreEffects DEF AdmissionInv, TypeOK, ConnPcs, ConnMoved, LeaseIds, ReserveLive
  <2> QED
    BY <2>1, StoreEffects DEF AdmissionInv, Ownership, ReservationOwnedOnce, ConnAt, LeaseIds
<1>11. ASSUME NEW c \in Connections, Spawn(c) PROVE Ownership'
  <2>1. /\ req' = req /\ Tokens' = Tokens
        /\ ConnAt(c, "denied", None) \/ ConnAt(c, "connecting", conn[c].res)
    BY <1>11, ConnEffects, StoreEffects DEF AdmissionInv, TypeOK, ConnPcs, ConnMoved, LeaseIds, Spawn
  <2> QED
    BY <2>1, StoreEffects DEF AdmissionInv, Ownership, ReservationOwnedOnce, ConnAt, LeaseIds
<1>12. ASSUME NEW c \in Connections, Admit(c) PROVE Ownership'
  <2>1. req' = req /\ Tokens' = Tokens /\ ConnAt(c, "running", conn[c].res)
    BY <1>12, ConnEffects, StoreEffects DEF AdmissionInv, TypeOK, ConnPcs, ConnMoved, LeaseIds, Admit, SupervisorStep
  <2> QED
    BY <2>1, StoreEffects DEF AdmissionInv, Ownership, ReservationOwnedOnce, ConnAt, LeaseIds
<1>13. ASSUME NEW c \in Connections, Stop(c) PROVE Ownership'
  <2>1. req' = req /\ Tokens' = Tokens /\ ConnAt(c, "terminating", conn[c].res)
    BY <1>13, ConnEffects, StoreEffects DEF AdmissionInv, TypeOK, ConnPcs, ConnMoved, LeaseIds, Stop, SupervisorStep
  <2> QED
    BY <2>1, StoreEffects DEF AdmissionInv, Ownership, ReservationOwnedOnce, ConnAt, LeaseIds
<1>14. ASSUME NEW c \in Connections, Prove(c) PROVE Ownership'
  <2>1. req' = req /\ Tokens' = Tokens /\ ConnAt(c, "proven", conn[c].res)
    BY <1>14, ConnEffects, StoreEffects DEF AdmissionInv, TypeOK, ConnPcs, ConnMoved, LeaseIds, Prove, SupervisorStep
  <2> QED
    BY <2>1, StoreEffects DEF AdmissionInv, Ownership, ReservationOwnedOnce, ConnAt, LeaseIds
<1>15. ASSUME NEW c \in Connections, Release(c) PROVE Ownership'
  <2>1. req' = req /\ Tokens' = Tokens /\ ConnAt(c, "released", None)
    BY <1>15, ConnEffects, StoreEffects DEF AdmissionInv, TypeOK, ConnPcs, ConnMoved, LeaseIds, Release
  <2> QED
    BY <2>1, StoreEffects DEF AdmissionInv, Ownership, ReservationOwnedOnce, ConnAt, LeaseIds
<1>16. ASSUME NEW c \in Connections, Deregister(c) PROVE Ownership'
  <2>1. req' = req /\ Tokens' = Tokens /\ ConnAt(c, "done", conn[c].res) /\ conn[c].pc = "released"
    BY <1>16, ConnEffects, StoreEffects DEF AdmissionInv, TypeOK, ConnPcs, ConnMoved, LeaseIds, Deregister
  <2> QED
    BY <2>1, StoreEffects DEF AdmissionInv, Ownership, ReservationOwnedOnce, ConnAt, LeaseIds
<1>17. ASSUME ShutdownNext PROVE Ownership'
  <2>1. req' = req /\ conn' = conn /\ Tokens' = Tokens
    BY <1>17, StoreEffects DEF AdmissionInv, TypeOK, LeaseIds, ShutdownNext, ShutdownStep, ShutdownCall, ShutdownClose, ShutdownAsk, ShutdownAsked, ShutdownLook, ShutdownWake
  <2> QED
    BY <2>1, StoreEffects DEF AdmissionInv, Ownership, ReservationOwnedOnce
<1>18. ASSUME ClearTickets PROVE Ownership'
  <2>1. req' = req /\ conn' = conn /\ Tokens' \in SUBSET Tokens
    BY <1>18, StoreEffects DEF AdmissionInv, TypeOK, LeaseIds, ClearTickets
  <2> QED
    BY <2>1, StoreEffects DEF AdmissionInv, Ownership, ReservationOwnedOnce
<1>19. ASSUME Tick PROVE Ownership'
  <2>1. req' = req /\ conn' = conn /\ Tokens' = Tokens
    BY <1>19, StoreEffects DEF AdmissionInv, TypeOK, LeaseIds, Tick
  <2> QED
    BY <2>1, StoreEffects DEF AdmissionInv, Ownership, ReservationOwnedOnce
<1>20. ASSUME AuditFails PROVE Ownership'
  <2>1. req' = req /\ conn' = conn /\ Tokens' = Tokens
    BY <1>20, StoreEffects DEF AdmissionInv, TypeOK, LeaseIds, AuditFails
  <2> QED
    BY <2>1, StoreEffects DEF AdmissionInv, Ownership, ReservationOwnedOnce
<1>21. ASSUME UNCHANGED vars PROVE Ownership'
  BY <1>21 DEF AdmissionInv, Ownership, ReservationOwnedOnce, Tokens, vars
<1> QED
  BY <1>1, <1>2, <1>3, <1>4, <1>5, <1>6, <1>7, <1>8, <1>9, <1>10, <1>11, <1>12, <1>13, <1>14, <1>15, <1>16, <1>17, <1>18, <1>19, <1>20, <1>21 DEF Next, RequestNext, ConnectionNext

\* The sessions of a step's after-state still have their leases when the step keeps
\* the live leases outside S and every leased connection either was leased
\* before, outside S, or has just been given its lease.
LEMMA LeasesFollowSessions ==
  ASSUME AdmissionInv, NEW S, LiveKept(S),
         \A d \in Connections : conn'[d].pc \in LeasedPcs =>
           \/ /\ conn[d].pc \in LeasedPcs /\ conn[d].res \notin S
              /\ conn'[d].res = conn[d].res /\ conn'[d].identity = conn[d].identity
           \/ conn'[d].res \in LeaseIds /\ leases'[conn'[d].res] = LiveLease(conn'[d].identity)
  PROVE  SessionHoldsLiveLease'
<1>1. \A d \in Connections : conn[d].pc \in LeasedPcs =>
        /\ conn[d].res \in LeaseIds /\ leases[conn[d].res] = LiveLease(conn[d].identity)
        /\ leases[conn[d].res] # None /\ leases[conn[d].res].state = "live"
  BY RecordTypes DEF AdmissionInv, SessionHoldsLiveLease, CallersKnown, LeasedPcs
<1> QED
  BY <1>1 DEF SessionHoldsLiveLease, LiveKept

\* Dropping the reservation of one connection touches no other's.
LEMMA OthersOwnOthers ==
  ASSUME AdmissionInv
  PROVE  \A c, d \in Connections : d # c /\ conn[d].pc \in LeasedPcs => conn[d].res # conn[c].res
BY CallersAssumption
   DEF AdmissionInv, Ownership, ReservationOwnedOnce, SessionHoldsLiveLease

\* A session that is registered keeps its live lease until it is removed.
LEMMA SessionLeaseNext ==
  ASSUME AdmissionInv, [Next]_vars
  PROVE  SessionHoldsLiveLease'
<1> USE CallersAssumption
<1> USE DEF registry, shutdown
\* A reservation a request or a ticket owns is no connection's.
<1>0. \A r \in Requests : \A d \in Connections :
        req[r].pc \in {"reserve", "issue"} \/ r \in Tokens => conn[d].res # r
  BY DEF AdmissionInv, Ownership, ReservationOwnedOnce
<1>1. ASSUME NEW r \in Requests, \E u \in Identities : BeginRequest(r, u) PROVE SessionHoldsLiveLease'
  <2>1. LiveKept({}) /\ conn' = conn
    BY <1>1, LedgerEffects DEF AdmissionInv, BeginRequest
  <2> QED
    BY <2>1, LeasesFollowSessions
<1>2. ASSUME NEW r \in Requests, CancelRequest(r) PROVE SessionHoldsLiveLease'
  <2>1. LiveKept({}) /\ conn' = conn
    BY <1>2, LedgerEffects DEF AdmissionInv, CancelRequest
  <2> QED
    BY <2>1, LeasesFollowSessions
<1>3. ASSUME NEW r \in Requests, Reserve(r) PROVE SessionHoldsLiveLease'
  <2>1. PendingLease(req[r].identity, req[r].expiry) \in Lease /\ r \in LeaseIds
    BY <1>3, RecordTypes DEF AdmissionInv, TypeOK, CallersKnown, Req, Reserve, LeaseIds
  <2>2. (LiveKept({}) \/ LiveKept({r})) /\ conn' = conn /\ req[r].pc = "reserve"
    BY <1>3, <2>1, LedgerEffects DEF AdmissionInv, Reserve
  <2> QED
    BY <1>0, <2>2, LeasesFollowSessions
<1>4. ASSUME NEW r \in Requests, Issue(r) PROVE SessionHoldsLiveLease'
  <2>1. PICK S : LiveKept(S) /\ conn' = conn /\ S \in SUBSET (Tokens \cup {r})
    BY <1>4, LedgerEffects DEF AdmissionInv, Issue, Stale
  <2>2. \A d \in Connections : conn[d].res \notin S
    BY <1>0, <2>1, <1>4, StoreEffects DEF AdmissionInv, Issue
  <2> QED
    BY <2>1, <2>2, LeasesFollowSessions
<1>5. ASSUME NEW c \in Connections, \E u \in Identities : StartDirect(c, u) PROVE SessionHoldsLiveLease'
  <2>1. LiveKept({}) /\ ConnAt(c, "start", None)
    BY <1>5, LedgerEffects, LimitsAssumption DEF AdmissionInv, TypeOK, Conn, ConnPcs, ConnAt, StartDirect
  <2> QED
    BY <2>1, LeasesFollowSessions DEF ConnAt, LeasedPcs
<1>6. ASSUME NEW c \in Connections, \E u \in Identities : \E t \in Requests : Connect(c, u, t) PROVE SessionHoldsLiveLease'
  <2>1. LiveKept({}) /\ ConnAt(c, "redeem", None)
    BY <1>6, LedgerEffects, LimitsAssumption DEF AdmissionInv, TypeOK, Conn, ConnPcs, ConnAt, Connect
  <2> QED
    BY <2>1, LeasesFollowSessions DEF ConnAt, LeasedPcs
<1>7. ASSUME NEW c \in Connections, Redeem(c) PROVE SessionHoldsLiveLease'
  <2>1. \E pc \in {"denied", "start"} : \E i : ConnAt(c, pc, i)
    BY <1>7, ConnEffects DEF AdmissionInv, TypeOK, CallersKnown, ConnPcs, ConnMoved, LeaseIds, Redeem
  <2>2. PICK S : LiveKept(S) /\ S \in SUBSET Tokens
    BY <1>7, LedgerEffects DEF AdmissionInv, CallersKnown, Tokens, Redeem
  <2>3. \A d \in Connections : conn[d].res \notin S
    BY <1>0, <2>2, StoreEffects DEF AdmissionInv
  <2> QED
    BY <2>1, <2>2, <2>3, LeasesFollowSessions DEF ConnAt, LeasedPcs
<1>8. ASSUME NEW c \in Connections, EnterAdmission(c) PROVE SessionHoldsLiveLease'
  <2>1. \E pc \in {"denied", "activate"} : \E i : ConnAt(c, pc, i)
    BY <1>8, ConnEffects DEF AdmissionInv, ConnPcs, ConnMoved, EnterAdmission
  <2>2. PICK S : LiveKept(S) /\ S \in SUBSET {conn[c].res}
    BY <1>8, LedgerEffects DEF AdmissionInv, EnterAdmission
  <2> QED
    BY <2>1, <2>2, OthersOwnOthers, LeasesFollowSessions DEF ConnAt, LeasedPcs
<1>9. ASSUME NEW c \in Connections, Activate(c) PROVE SessionHoldsLiveLease'
  <2>1. CASE ~Activatable(c)
    <3>1. ConnAt(c, "denied", None) /\ LiveKept({conn[c].res})
      BY <1>9, <2>1, ConnEffects, LedgerEffects DEF AdmissionInv, Activate
    <3> QED
      BY <3>1, OthersOwnOthers, LeasesFollowSessions DEF ConnAt, LeasedPcs
  <2>2. CASE Activatable(c)
    <3>1. ConnMoved(c, "spawn", conn[c].res)
      BY <1>9, <2>2, ConnEffects DEF AdmissionInv, ConnPcs, Activate
    <3>2. conn[c].res \in LeaseIds /\ LiveLease(conn[c].identity) \in Lease
      BY <1>9, RecordTypes DEF AdmissionInv, TypeOK, Conn, CallersKnown, Activate
    <3>3. /\ LiveKept({conn[c].res})
          /\ leases'[conn[c].res] = LiveLease(conn[c].identity)
      BY <1>9, <2>2, <3>2, LedgerEffects DEF AdmissionInv, Activate
    <3> QED
      BY <3>1, <3>2, <3>3, OthersOwnOthers, LeasesFollowSessions DEF ConnMoved, ConnAt
  <2> QED
    BY <2>1, <2>2
<1>10. ASSUME NEW c \in Connections, ReserveLive(c) PROVE SessionHoldsLiveLease'
  <2>1. CASE leases' = Purged /\ ReturnConn(c)
    <3>1. ConnAt(c, "denied", None) /\ LiveKept({})
      BY <2>1, ConnEffects, LedgerEffects DEF AdmissionInv
    <3> QED
      BY <3>1, LeasesFollowSessions DEF ConnAt, LeasedPcs
  <2>2. CASE Insert(c, LiveLease(conn[c].identity)) /\ OwnConn(c, "spawn", c)
    <3>1. ConnMoved(c, "spawn", c)
      BY <2>2, ConnEffects DEF AdmissionInv, ConnPcs, LeaseIds
    <3>2. c \in LeaseIds /\ LiveLease(conn[c].identity) \in Lease
      BY <1>10, RecordTypes DEF AdmissionInv, LeaseIds, CallersKnown, ReserveLive
    <3>3. LiveKept({c}) /\ leases'[c] = LiveLease(conn[c].identity)
      BY <2>2, <3>2, LedgerEffects DEF AdmissionInv
    <3>4. \A d \in Connections : d # c => conn[d].res # c
      BY DEF AdmissionInv, Ownership
    <3> QED
      BY <3>1, <3>2, <3>3, <3>4, LeasesFollowSessions DEF ConnMoved, ConnAt
  <2> QED
    BY <1>10, <2>1, <2>2 DEF ReserveLive
<1>11. ASSUME NEW c \in Connections, Spawn(c) PROVE SessionHoldsLiveLease'
  <2>1. CASE ReturnConn(c) /\ Drop({conn[c].res})
    <3>1. ConnAt(c, "denied", None) /\ LiveKept({conn[c].res})
      BY <2>1, ConnEffects, LedgerEffects DEF AdmissionInv
    <3> QED
      BY <3>1, OthersOwnOthers, LeasesFollowSessions DEF ConnAt, LeasedPcs
  <2>2. CASE MoveConn(c, "connecting") /\ leases' = leases
    <3>1. ConnMoved(c, "connecting", conn[c].res) /\ LiveKept({})
      BY <2>2, ConnEffects, LedgerEffects DEF AdmissionInv, ConnPcs
    <3> QED
      BY <1>11, <3>1, LeasesFollowSessions DEF ConnMoved, ConnAt, LeasedPcs, Spawn
  <2> QED
    BY <1>11, <2>1, <2>2 DEF Spawn
<1>12. ASSUME NEW c \in Connections, Admit(c) PROVE SessionHoldsLiveLease'
  <2>1. LiveKept({}) /\ ConnMoved(c, "running", conn[c].res) /\ conn[c].pc \in LeasedPcs
    BY <1>12, ConnEffects, LedgerEffects DEF AdmissionInv, ConnPcs, LeasedPcs, Admit, SupervisorStep
  <2> QED
    BY <2>1, LeasesFollowSessions DEF ConnMoved, ConnAt
<1>13. ASSUME NEW c \in Connections, Stop(c) PROVE SessionHoldsLiveLease'
  <2>1. LiveKept({}) /\ ConnMoved(c, "terminating", conn[c].res) /\ conn[c].pc \in LeasedPcs
    BY <1>13, ConnEffects, LedgerEffects DEF AdmissionInv, ConnPcs, LeasedPcs, Stop, SupervisorStep
  <2> QED
    BY <2>1, LeasesFollowSessions DEF ConnMoved, ConnAt
<1>14. ASSUME NEW c \in Connections, Prove(c) PROVE SessionHoldsLiveLease'
  <2>1. LiveKept({}) /\ ConnMoved(c, "proven", conn[c].res) /\ conn[c].pc \in LeasedPcs
    BY <1>14, ConnEffects, LedgerEffects DEF AdmissionInv, ConnPcs, LeasedPcs, Prove, SupervisorStep
  <2> QED
    BY <2>1, LeasesFollowSessions DEF ConnMoved, ConnAt
<1>15. ASSUME NEW c \in Connections, Release(c) PROVE SessionHoldsLiveLease'
  <2>1. LiveKept({conn[c].res}) /\ ConnMoved(c, "released", None)
    BY <1>15, ConnEffects, LedgerEffects DEF AdmissionInv, ConnPcs, Release
  <2> QED
    BY <2>1, OthersOwnOthers, LeasesFollowSessions DEF ConnMoved, ConnAt, LeasedPcs
<1>16. ASSUME NEW c \in Connections, Deregister(c) PROVE SessionHoldsLiveLease'
  <2>1. LiveKept({}) /\ ConnMoved(c, "done", conn[c].res)
    BY <1>16, ConnEffects, LedgerEffects DEF AdmissionInv, ConnPcs, Deregister
  <2> QED
    BY <2>1, LeasesFollowSessions DEF ConnMoved, ConnAt, LeasedPcs
<1>17. ASSUME ShutdownNext PROVE SessionHoldsLiveLease'
  <2>1. conn' = conn
    BY <1>17 DEF ShutdownNext, ShutdownStep, ShutdownCall, ShutdownClose, ShutdownAsk, ShutdownAsked,
             ShutdownLook, ShutdownWake
  <2>2. leases' = leases \/ Drop({i \in Leases : leases[i].state = "pending"})
    BY <1>17 DEF ShutdownNext, ShutdownStep, ShutdownCall, ShutdownClose, ShutdownAsk, ShutdownAsked,
             ShutdownLook, ShutdownWake
  <2>3. LiveKept({})
    BY <2>2, LedgerEffects DEF AdmissionInv, LiveKept
  <2> QED
    BY <2>1, <2>3, LeasesFollowSessions
<1>18. ASSUME ClearTickets PROVE SessionHoldsLiveLease'
  <2>1. LiveKept(Tokens) /\ conn' = conn
    BY <1>18, LedgerEffects DEF AdmissionInv, ClearTickets
  <2>2. \A d \in Connections : conn[d].res \notin Tokens
    BY <1>0, StoreEffects DEF AdmissionInv
  <2> QED
    BY <2>1, <2>2, LeasesFollowSessions
<1>19. ASSUME Tick PROVE SessionHoldsLiveLease'
  <2>1. LiveKept({}) /\ conn' = conn
    BY <1>19, LedgerEffects DEF AdmissionInv, Tick
  <2> QED
    BY <2>1, LeasesFollowSessions
<1>20. ASSUME AuditFails PROVE SessionHoldsLiveLease'
  <2>1. LiveKept({}) /\ conn' = conn
    BY <1>20, LedgerEffects DEF AdmissionInv, AuditFails
  <2> QED
    BY <2>1, LeasesFollowSessions
<1>21. ASSUME UNCHANGED vars PROVE SessionHoldsLiveLease'
  <2>1. LiveKept({}) /\ conn' = conn
    BY <1>21, LedgerEffects DEF AdmissionInv, vars
  <2> QED
    BY <2>1, LeasesFollowSessions
<1> QED
  BY <1>1, <1>2, <1>3, <1>4, <1>5, <1>6, <1>7, <1>8, <1>9, <1>10, <1>11, <1>12, <1>13, <1>14, <1>15, <1>16, <1>17, <1>18, <1>19, <1>20, <1>21 DEF Next, RequestNext, ConnectionNext

\* Leases are added only below the limits, and only by a reservation.
LEMMA LimitsNext ==
  ASSUME AdmissionInv, [Next]_vars
  PROVE  LeasesWithinLimits'
<1>1. ASSUME NEW r \in Requests, Reserve(r) PROVE LeasesWithinLimits'
  <2>1. PendingLease(req[r].identity, req[r].expiry) \in Lease /\ r \in LeaseIds
        /\ PendingLease(req[r].identity, req[r].expiry).identity = req[r].identity
    BY <1>1, RecordTypes DEF AdmissionInv, TypeOK, CallersKnown, Req, Reserve, LeaseIds
  <2>2. CASE NoGrowth
    BY <2>2, ShrinkKeepsLimits DEF AdmissionInv, NoGrowth
  <2>3. CASE /\ ~AtLimit(req[r].identity)
             /\ Insert(r, PendingLease(req[r].identity, req[r].expiry))
    BY <2>1, <2>3, InsertKeepsLimits DEF AdmissionInv
  <2> QED
    BY <1>1, <2>2, <2>3, LedgerEffects DEF AdmissionInv, Reserve
<1>2. ASSUME NEW c \in Connections, Activate(c) PROVE LeasesWithinLimits'
  <2>1. conn[c].res \in LeaseIds /\ LiveLease(conn[c].identity) \in Lease
        /\ LiveLease(conn[c].identity).identity = conn[c].identity
    BY <1>2, RecordTypes DEF AdmissionInv, TypeOK, Conn, CallersKnown, Activate
  <2>2. NoGrowth
    BY <1>2, <2>1, LedgerEffects DEF AdmissionInv, Activate, Activatable
  <2> QED
    BY <2>2, ShrinkKeepsLimits DEF AdmissionInv, NoGrowth
<1>3. ASSUME NEW c \in Connections, ReserveLive(c) PROVE LeasesWithinLimits'
  <2>1. c \in LeaseIds /\ LiveLease(conn[c].identity) \in Lease
        /\ LiveLease(conn[c].identity).identity = conn[c].identity
    BY <1>3, RecordTypes DEF AdmissionInv, CallersKnown, ReserveLive, LeaseIds
  <2>2. CASE leases' = Purged
    BY <2>2, LedgerEffects, ShrinkKeepsLimits DEF AdmissionInv, NoGrowth
  <2>3. CASE ~AtLimit(conn[c].identity) /\ Insert(c, LiveLease(conn[c].identity))
    BY <2>1, <2>3, InsertKeepsLimits DEF AdmissionInv
  <2> QED
    BY <1>3, <2>2, <2>3 DEF ReserveLive
<1>4. ASSUME leases' = leases \/ \E S : Drop(S) PROVE LeasesWithinLimits'
  BY <1>4, LedgerEffects, ShrinkKeepsLimits DEF AdmissionInv, NoGrowth
<1>5. ASSUME NEW r \in Requests, RequestNext(r), ~Reserve(r)
      PROVE  leases' = leases \/ \E S : Drop(S)
  BY <1>5 DEF RequestNext, BeginRequest, CancelRequest, Issue
<1>6. ASSUME NEW c \in Connections, ConnectionNext(c), ~Activate(c), ~ReserveLive(c)
      PROVE  leases' = leases \/ \E S : Drop(S)
  BY <1>6 DEF ConnectionNext, StartDirect, Connect, Redeem, EnterAdmission, Spawn, Admit, Stop,
              Prove, SupervisorStep, Release, Deregister
<1>7. ASSUME ShutdownNext \/ ClearTickets \/ Tick \/ AuditFails \/ UNCHANGED vars
      PROVE  leases' = leases \/ \E S : Drop(S)
  BY <1>7 DEF ShutdownNext, ShutdownStep, ShutdownCall, ShutdownClose, ShutdownAsk, ShutdownAsked,
              ShutdownLook, ShutdownWake, ClearTickets, Tick, AuditFails, vars
<1> QED
  BY <1>1, <1>2, <1>3, <1>4, <1>5, <1>6, <1>7 DEF Next

\* The inductive invariant: types, who owns which reservation, and the leases
\* behind running sessions, together with the bound on the table.
THEOREM AdmissionInvariance == Spec => []AdmissionInv
<1>1. Init => AdmissionInv
  <2> SUFFICES ASSUME Init PROVE AdmissionInv
    OBVIOUS
  <2>1. TypeOK /\ CallersKnown
    BY TypeInit
  <2>2. Ownership /\ SessionHoldsLiveLease
    BY CallersAssumption DEF Init, Ownership, ReservationOwnedOnce, SessionHoldsLiveLease,
       Tokens, IdleReq, IdleConn, LeasedPcs, LeaseIds
  <2>3. Leases = {} /\ \A u : LeasesOf(u) = {}
    BY DEF Init, Leases, LeasesOf
  <2>4. LeasesWithinLimits
    BY <2>3, FS_EmptySet, LimitsAssumption DEF LeasesWithinLimits
  <2> QED
    BY <2>1, <2>2, <2>4 DEF AdmissionInv
<1>2. AdmissionInv /\ [Next]_vars => AdmissionInv'
  BY TypeNext, OwnershipNext, SessionLeaseNext, LimitsNext DEF AdmissionInv
<1> QED
  BY <1>1, <1>2, PTL DEF Spec

\* Every variable keeps the type the code gives it, in every reachable state.
THEOREM TypeCorrect == Spec => []TypeOK
BY AdmissionInvariance, PTL DEF AdmissionInv

\* The table of leases respects max_sessions and max_sessions_per_user.
THEOREM LeaseLimits == Spec => []LeasesWithinLimits
BY AdmissionInvariance, PTL DEF AdmissionInv

\* No reservation ever has two owners (request, ticket entry, connection).
THEOREM SingleOwner == Spec => []ReservationOwnedOnce
BY AdmissionInvariance, PTL DEF AdmissionInv, Ownership

----------------------------------------------------------------------------
(* From leases to processes.                                               *)

Leased == {c \in Connections : conn[c].pc \in LeasedPcs}
LeasedFor(u) == {c \in Leased : conn[c].identity = u}

\* Connections with a lease are no more than the leases: their reservations
\* are distinct entries of the table.
LEMMA LeasedWithinLimits ==
  ASSUME AdmissionInv
  PROVE  /\ IsFiniteSet(Leased) /\ Cardinality(Leased) <= MaxSessions
         /\ \A u \in Identities : /\ IsFiniteSet(LeasedFor(u))
                                   /\ Cardinality(LeasedFor(u)) <= MaxSessionsPerUser
<1> DEFINE res(S) == [c \in S |-> conn[c].res]
<1>1. \A c \in Leased : /\ conn[c].res \in Leases
                         /\ leases[conn[c].res].identity = conn[c].identity
  BY RecordTypes DEF AdmissionInv, SessionHoldsLiveLease, CallersKnown, Leased, LeasedPcs, Leases
<1>2. \A c, d \in Leased : conn[c].res = conn[d].res => c = d
  BY OthersOwnOthers DEF Leased
<1>3. res(Leased) \in Injection(Leased, Leases)
  BY <1>1, <1>2 DEF Injection, IsInjective
<1>4. IsFiniteSet(Leased) /\ Cardinality(Leased) <= Cardinality(Leases) /\ Cardinality(Leased) \in Nat
  BY <1>3, LeasesFinite, FS_Injection, FS_CardinalityType DEF AdmissionInv
<1>5. ASSUME NEW u \in Identities
      PROVE  /\ IsFiniteSet(LeasedFor(u))
             /\ Cardinality(LeasedFor(u)) <= Cardinality(LeasesOf(u))
             /\ Cardinality(LeasedFor(u)) \in Nat
  <2>1. res(LeasedFor(u)) \in Injection(LeasedFor(u), LeasesOf(u))
    BY <1>1, <1>2 DEF Injection, IsInjective, LeasedFor, LeasesOf
  <2> QED
    BY <2>1, LeasesFinite, FS_Injection, FS_CardinalityType DEF AdmissionInv
<1> QED
  BY <1>4, <1>5, LeasesFinite, LimitsAssumption DEF AdmissionInv, LeasesWithinLimits

\* The processes that exist never exceed either limit: this is what the lease
\* table is for, and it holds whatever expires, is dropped or is shut down.
THEOREM ProcessLimits == Spec => []ProcessesWithinLimits
<1>1. AdmissionInv => ProcessesWithinLimits
  <2> SUFFICES ASSUME AdmissionInv PROVE ProcessesWithinLimits
    OBVIOUS
  <2>1. ProcessGroups \in SUBSET Leased
    BY DEF ProcessGroups, Leased, LeasedPcs
  <2>2. \A u \in Identities :
          {c \in ProcessGroups : conn[c].identity = u} \in SUBSET LeasedFor(u)
    BY <2>1 DEF LeasedFor
  <2>3. Cardinality(ProcessGroups) <= Cardinality(Leased)
        /\ Cardinality(ProcessGroups) \in Nat /\ Cardinality(Leased) \in Nat
    BY <2>1, LeasedWithinLimits, FS_Subset, FS_CardinalityType
  <2>4. ASSUME NEW u \in Identities
        PROVE  Cardinality({c \in ProcessGroups : conn[c].identity = u}) <= MaxSessionsPerUser
    <3> DEFINE G == {c \in ProcessGroups : conn[c].identity = u}
    <3>1. G \in SUBSET LeasedFor(u)
      BY <2>2
    <3> HIDE DEF G
    <3>2. Cardinality(G) <= Cardinality(LeasedFor(u))
          /\ Cardinality(G) \in Nat /\ Cardinality(LeasedFor(u)) \in Nat
      BY <3>1, LeasedWithinLimits, FS_Subset, FS_CardinalityType
    <3>3. Cardinality(G) <= MaxSessionsPerUser
      BY <3>2, LeasedWithinLimits, LimitsAssumption
    <3> QED
      BY <3>3 DEF G
  <2> QED
    BY <2>3, <2>4, LeasedWithinLimits, LimitsAssumption DEF ProcessesWithinLimits
<1> QED
  BY <1>1, AdmissionInvariance, PTL

----------------------------------------------------------------------------
(* How a connection moves.                                                 *)

\* Connection c goes from p to q with its identity and its ticket.
Advances(c, p, q) == conn[c].pc = p /\ \E i : ConnMoved(c, q, i)

\* The steps of one connection: it begins, advances, or returns without a session.
ConnectionMoves(c) ==
  \/ conn[c].pc = "idle" /\ ConnAt(c, "start", None) /\ conn'[c].ticket = None
  \/ conn[c].pc = "idle" /\ ConnAt(c, "redeem", None)
  \/ conn[c].pc \in {"redeem", "start", "activate", "spawn"} /\ ConnAt(c, "denied", None)
  \/ Advances(c, "redeem", "start") /\ Valid(c) /\ OwnTicket(c) /\ entries' = Removed({conn[c].ticket})
  \/ Advances(c, "start", "activate") \/ Advances(c, "activate", "spawn")
  \/ Advances(c, "spawn", "connecting") \/ Advances(c, "connecting", "running")
  \/ Advances(c, "connecting", "terminating") \/ Advances(c, "running", "terminating")
  \/ Advances(c, "terminating", "proven") \/ Advances(c, "proven", "released")
  \/ Advances(c, "released", "done")

\* A connection changes only by its own steps, and only in these ways.
LEMMA MovesOfConnections ==
  ASSUME TypeOK, CallersKnown, [Next]_vars
  PROVE  \/ UNCHANGED conn
         \/ UNCHANGED req /\ \E c \in Connections : ConnectionNext(c) /\ ConnectionMoves(c)
<1>1. ASSUME NEW c \in Connections, ConnectionNext(c) PROVE ConnectionMoves(c)
  <2> USE DEF Advances, ConnectionMoves
  <2>0. /\ \A pc \in ConnPcs : MoveConn(c, pc) => \E i : ConnMoved(c, pc, i)
        /\ \A pc \in ConnPcs : \A i \in LeaseIds \cup {None} : OwnConn(c, pc, i) => \E j : ConnMoved(c, pc, j)
        /\ ReturnConn(c) => ConnAt(c, "denied", None)
    BY ConnEffects
  <2>1. CASE \E u \in Identities : StartDirect(c, u)
    BY <2>1, LimitsAssumption DEF StartDirect, ConnAt, TypeOK, Conn, ConnPcs
  <2>2. CASE \E u \in Identities : \E t \in Requests : Connect(c, u, t)
    BY <2>2, LimitsAssumption DEF Connect, ConnAt, TypeOK, Conn, ConnPcs
  <2>3. CASE Redeem(c)
    BY <2>0, <2>3 DEF Redeem, ConnPcs, CallersKnown, LeaseIds
  <2>4. CASE EnterAdmission(c)
    BY <2>0, <2>4 DEF EnterAdmission, ConnPcs
  <2>5. CASE Activate(c) \/ ReserveLive(c)
    BY <2>0, <2>5 DEF Activate, ReserveLive, ConnPcs, LeaseIds
  <2>6. CASE Spawn(c)
    BY <2>0, <2>6 DEF Spawn, ConnPcs
  <2>7. CASE Admit(c) \/ Stop(c) \/ Prove(c)
    BY <2>0, <2>7 DEF Admit, Stop, Prove, SupervisorStep, ConnPcs
  <2>8. CASE Release(c) \/ Deregister(c)
    BY <2>0, <2>8 DEF Release, Deregister, ConnPcs
  <2>9. QED
    BY <1>1, <2>1, <2>2, <2>3, <2>4, <2>5, <2>6, <2>7, <2>8 DEF ConnectionNext
<1>2. ASSUME NEW c \in Connections, ConnectionNext(c) PROVE UNCHANGED req
  BY <1>2 DEF ConnectionNext, StartDirect, Connect, Redeem, EnterAdmission, Activate, ReserveLive,
              Spawn, Admit, Stop, Prove, SupervisorStep, Release, Deregister
<1>3. ASSUME NEW r \in Requests, RequestNext(r) PROVE UNCHANGED conn
  BY <1>3 DEF RequestNext, BeginRequest, CancelRequest, Reserve, Issue
<1>4. ASSUME ShutdownNext \/ ClearTickets \/ Tick \/ AuditFails \/ UNCHANGED vars
      PROVE  UNCHANGED conn
  BY <1>4 DEF ShutdownNext, ShutdownStep, ShutdownCall, ShutdownClose, ShutdownAsk, ShutdownAsked,
              ShutdownLook, ShutdownWake, ClearTickets, Tick, AuditFails, vars
<1>5. QED
  BY <1>1, <1>2, <1>3, <1>4 DEF Next

----------------------------------------------------------------------------
(* Refinement: the slot pool of SessionSlots.                              *)

Runs == [c \in Connections |-> IF c \in ProcessGroups THEN conn[c].identity ELSE None]

\* A connection with a process group is known to the slot pool by its identity.
LEMMA RunsOfGroups ==
  ASSUME AdmissionInv
  PROVE  /\ {s \in Connections : Runs[s] # None} = ProcessGroups
         /\ \A u \in Identities :
              {s \in Connections : Runs[s] = u} = {c \in ProcessGroups : conn[c].identity = u}
<1>1. \A c \in ProcessGroups : conn[c].identity \in Identities /\ conn[c].identity # None
  BY CallersAssumption DEF AdmissionInv, CallersKnown, ProcessGroups
<1>2. ProcessGroups \in SUBSET Connections
  BY DEF ProcessGroups
<1>3. \A u \in Identities : u # None
  BY CallersAssumption
<1>4. QED
  BY <1>1, <1>2, <1>3 DEF Runs

\* The slot a spawn takes is one it already holds a lease for, so that both limits
\* leave room for it.
LEMMA SpawnHasRoom ==
  ASSUME AdmissionInv, NEW c \in Connections, conn[c].pc = "spawn"
  PROVE  /\ Cardinality(ProcessGroups) < MaxSessions
         /\ conn[c].identity \in Identities
         /\ Cardinality({d \in ProcessGroups : conn[d].identity = conn[c].identity})
              < MaxSessionsPerUser
<1> DEFINE G == {d \in ProcessGroups : conn[d].identity = conn[c].identity}
           u == conn[c].identity
<1>1. u \in Identities
  BY DEF AdmissionInv, CallersKnown
<1>2. /\ ProcessGroups \cup {c} \in SUBSET Leased /\ c \notin ProcessGroups
      /\ G \cup {c} \in SUBSET LeasedFor(u) /\ c \notin G
      /\ ProcessGroups \in SUBSET Leased /\ G \in SUBSET LeasedFor(u)
  BY DEF ProcessGroups, Leased, LeasedFor, LeasedPcs
<1> HIDE DEF G
<1>3. IsFiniteSet(ProcessGroups) /\ IsFiniteSet(G)
  BY <1>1, <1>2, LeasedWithinLimits, FS_Subset
<1>4. /\ Cardinality(ProcessGroups \cup {c}) = Cardinality(ProcessGroups) + 1
      /\ Cardinality(G \cup {c}) = Cardinality(G) + 1
      /\ Cardinality(ProcessGroups) \in Nat /\ Cardinality(G) \in Nat
  BY <1>2, <1>3, FS_AddElement, FS_CardinalityType
<1>5. /\ Cardinality(ProcessGroups \cup {c}) <= Cardinality(Leased)
      /\ Cardinality(G \cup {c}) <= Cardinality(LeasedFor(u))
      /\ Cardinality(Leased) \in Nat /\ Cardinality(LeasedFor(u)) \in Nat
  BY <1>1, <1>2, LeasedWithinLimits, FS_Subset, FS_CardinalityType
<1>6. Cardinality(Leased) <= MaxSessions /\ Cardinality(LeasedFor(u)) <= MaxSessionsPerUser
  BY <1>1, LeasedWithinLimits
<1>7. Cardinality(ProcessGroups) < MaxSessions /\ Cardinality(G) < MaxSessionsPerUser
  BY <1>4, <1>5, <1>6, LimitsAssumption
<1>8. QED
  BY <1>1, <1>7 DEF G

\* The slot pool counts as this module does.
LEMMA SameCardinality == \A S : Slots!Cardinality(S) = Cardinality(S)
BY DEF Cardinality, Slots!Cardinality

\* Admission, with its tickets, leases, gate and shutdown, implements the slot pool:
\* backend.spawn is a Start inside both limits, a proven cleanup an End, and no other
\* step of any handler is seen.
THEOREM SlotsImplemented == Spec => ImplementsSlots
<1> USE DEF Slots!Running, Slots!RunningFor
<1>1. Init => Slots!Init
  BY DEF Init, Slots!Init, ProcessGroups, IdleConn
<1>2. AdmissionInv /\ [Next]_vars => [Slots!Next]_Runs
  <2> SUFFICES ASSUME AdmissionInv, [Next]_vars PROVE Slots!Next \/ Runs' = Runs
    BY DEF Runs
  <2>1. CASE UNCHANGED conn
    BY <2>1 DEF Runs, ProcessGroups
  <2>2. ASSUME NEW c \in Connections, ConnectionMoves(c)
        PROVE  Slots!Next \/ Runs' = Runs
    <3>0. /\ c \in ProcessGroups <=> conn[c].pc \in {"connecting", "running", "terminating"}
          /\ \A q, i : ConnAt(c, q, i) =>
               /\ c \in ProcessGroups' <=> q \in {"connecting", "running", "terminating"}
               /\ \A d \in Connections \ {c} :
                    d \in ProcessGroups' <=> d \in ProcessGroups
               /\ \A d \in Connections \ {c} : conn'[d].identity = conn[d].identity
      BY DEF ProcessGroups, ConnAt
    <3>1. CASE Advances(c, "spawn", "connecting")
      <4>1. Runs' = [Runs EXCEPT ![c] = conn[c].identity] /\ Runs[c] = None
        BY <3>0, <3>1 DEF Advances, ConnMoved, ConnAt, Runs
      <4>2. /\ Cardinality(Slots!Running) < MaxSessions
            /\ Cardinality(Slots!RunningFor(conn[c].identity)) < MaxSessionsPerUser
            /\ conn[c].identity \in Identities
        BY <3>1, SpawnHasRoom, RunsOfGroups DEF Advances, Runs
      <4>3. Slots!Start(c, conn[c].identity)
        BY <4>1, <4>2, SameCardinality DEF Slots!Start, Runs
      <4>4. \E u \in Identities : Slots!Start(c, u)
        BY <4>2, <4>3 DEF Slots!Start
      <4>5. QED
        BY <4>4, Zenon DEF Slots!Next
    <3>2. CASE Advances(c, "terminating", "proven")
      <4>1. Runs' = [Runs EXCEPT ![c] = None]
        BY <3>0, <3>2 DEF Advances, ConnMoved, ConnAt, Runs
      <4>2. Runs[c] # None
        BY <3>2, RunsOfGroups DEF Advances, ProcessGroups
      <4>3. Slots!End(c)
        BY <4>1, <4>2 DEF Slots!End, Runs
      <4>4. QED
        BY <4>3 DEF Slots!Next
    <3>3. CASE \/ Advances(c, "connecting", "running") \/ Advances(c, "connecting", "terminating")
               \/ Advances(c, "running", "terminating")
      <4>1. \A d \in Connections : /\ d \in ProcessGroups' <=> d \in ProcessGroups
                                   /\ conn'[d].identity = conn[d].identity
        BY <3>0, <3>3 DEF Advances, ConnMoved, ConnAt
      <4>2. QED
        BY <4>1 DEF Runs
    <3>4. CASE c \notin ProcessGroups /\ c \notin ProcessGroups' /\ \E q, i : ConnAt(c, q, i)
      BY <3>0, <3>4 DEF Runs
    <3>5. QED
      BY <2>2, <3>0, <3>1, <3>2, <3>3, <3>4 DEF ConnectionMoves, Advances, ConnMoved
  <2>3. QED
    BY <2>1, <2>2, MovesOfConnections DEF AdmissionInv
<1>3. QED
  BY <1>1, <1>2, AdmissionInvariance, PTL DEF Spec, ImplementsSlots, Slots!Spec, Runs

----------------------------------------------------------------------------
(* Tickets.                                                                *)

Granted(c) == conn[c].pc \in GrantedPcs /\ conn[c].ticket # None

\* A ticket in the store is still its request's; the ticket of a connection that was
\* let through is in the store no more.
Redemption ==
  /\ \A t \in Tokens : entries[t].identity = req[t].identity
  /\ \A c \in Connections : Granted(c) =>
       conn[c].ticket \in Requests /\ conn[c].ticket \notin Tokens
  /\ TicketGrantsOneOwner

\* An issued request never moves again, and a token comes into the store only when
\* its request is issued, with the identity of the request.
LEMMA StoreMoves ==
  ASSUME AdmissionInv, [Next]_vars
  PROVE  /\ \A r \in Requests : req[r].pc = "issued" => req'[r] = req[r]
         /\ \A t \in Tokens' \cap Tokens : entries'[t] = entries[t]
         /\ \A t \in Tokens' \ Tokens : /\ req[t].pc = "issue" /\ req'[t].pc = "issued"
                                        /\ entries'[t].identity = req'[t].identity
<1> DEFINE Goal == /\ \A r \in Requests : req[r].pc = "issued" => req'[r] = req[r]
                   /\ \A t \in Tokens' \cap Tokens : entries'[t] = entries[t]
                   /\ \A t \in Tokens' \ Tokens : /\ req[t].pc = "issue" /\ req'[t].pc = "issued"
                                                  /\ entries'[t].identity = req'[t].identity
<1>0. Tokens \in SUBSET Requests /\ Tokens' \in SUBSET Requests
  BY DEF Tokens
<1>1. ASSUME NEW S, entries' = entries \/ entries' = Removed(S)
      PROVE  /\ \A t \in Tokens' \cap Tokens : entries'[t] = entries[t]
             /\ Tokens' \ Tokens = {}
  BY <1>1 DEF Tokens, Removed
<1>2. ASSUME NEW r \in Requests, RequestNext(r), ~Issue(r) PROVE Goal
  <2>1. entries' = entries /\ \A q \in Requests \ {r} : req'[q] = req[q]
    BY <1>2, LimitsAssumption DEF AdmissionInv, TypeOK, RequestNext, BeginRequest, CancelRequest,
       Reserve, MoveReq, ReturnReq
  <2>2. req[r].pc # "issued"
    BY <1>2 DEF RequestNext, BeginRequest, CancelRequest, Reserve
  <2>3. QED
    BY <1>1, <2>1, <2>2
<1>3. ASSUME NEW r \in Requests, Issue(r) PROVE Goal
  <2>1. CASE ReturnReq(r, "denied") /\ \E S : entries' = entries \/ entries' = Removed(S)
    <3>1. \A q \in Requests \ {r} : req'[q] = req[q]
      BY <2>1 DEF AdmissionInv, TypeOK, ReturnReq
    <3>2. QED
      BY <1>1, <1>3, <2>1, <3>1 DEF Issue
  <2>2. CASE /\ ReturnReq(r, "issued")
             /\ entries' = [Removed(Stale) EXCEPT ![r] =
                              [identity |-> req[r].identity, expires_at |-> req[r].expiry]]
    <3>1. ReqMoved(r, "issued") /\ req[r].pc = "issue"
      BY <1>3, <2>2, ReqEffects DEF AdmissionInv, Issue, ReqPcs
    <3>2. /\ entries'[r].identity = req[r].identity
          /\ \A t \in Requests \ {r} : entries'[t] = IF t \in Stale THEN None ELSE entries[t]
      BY <2>2 DEF Removed
    <3>3. r \notin Tokens
      BY <3>1 DEF AdmissionInv, Ownership, ReservationOwnedOnce
    <3>4. \A t \in Tokens' \ {r} : t \in Tokens /\ entries'[t] = entries[t]
      BY <1>0, <3>2 DEF Tokens
    <3>5. QED
      BY <1>0, <3>1, <3>2, <3>3, <3>4 DEF ReqMoved, ReqAt
  <2>3. QED
    BY <1>3, <2>1, <2>2 DEF Issue
<1>4. ASSUME NEW c \in Connections, ConnectionNext(c) PROVE Goal
  <2>1. req' = req /\ \E S : entries' = entries \/ entries' = Removed(S)
    BY <1>4 DEF ConnectionNext, StartDirect, Connect, Redeem, EnterAdmission, Activate, ReserveLive,
                Spawn, Admit, Stop, Prove, SupervisorStep, Release, Deregister
  <2>2. QED
    BY <1>1, <2>1
<1>5. ASSUME ShutdownNext \/ ClearTickets \/ Tick \/ AuditFails \/ UNCHANGED vars PROVE Goal
  <2>1. req' = req /\ \E S : entries' = entries \/ entries' = Removed(S)
    BY <1>5 DEF ShutdownNext, ShutdownStep, ShutdownCall, ShutdownClose, ShutdownAsk,
                ShutdownAsked, ShutdownLook, ShutdownWake, ClearTickets, Tick, AuditFails, vars
  <2>2. QED
    BY <1>1, <2>1
<1>6. Goal
  BY <1>2, <1>3, <1>4, <1>5 DEF Next
<1>7. QED
  BY <1>6

\* Redeeming takes the ticket out of the store in the step that lets its connection
\* through, so no second presenter finds it.
LEMMA RedemptionNext ==
  ASSUME AdmissionInv, Redemption, [Next]_vars
  PROVE  Redemption'
<1>0. /\ \A t \in Tokens : t \in Requests /\ req[t].pc = "issued"
      /\ \A t \in Tokens' : t \in Requests
      /\ \A c \in Connections : Granted(c) => /\ req[conn[c].ticket].pc = "issued"
                                              /\ conn[c].ticket \in Requests
  BY DEF Tokens, AdmissionInv, Ownership, ReservationOwnedOnce, Redemption, TicketGrantsOneOwner,
         Granted
<1>1. \A t \in Tokens' : entries'[t].identity = req'[t].identity
  <2>1. \A t \in Tokens' \cap Tokens : entries'[t] = entries[t] /\ req'[t] = req[t]
    BY <1>0, StoreMoves
  <2>2. QED
    BY <2>1, StoreMoves DEF Redemption
\* Tickets that were granted before the step.
<1>2. ASSUME NEW c \in Connections, Granted(c)
      PROVE  /\ conn[c].ticket \in Requests /\ conn[c].ticket \notin Tokens'
             /\ req'[conn[c].ticket] = req[conn[c].ticket]
             /\ req[conn[c].ticket].pc = "issued"
             /\ req[conn[c].ticket].identity = conn[c].identity
  <2>1. /\ conn[c].ticket \in Requests /\ conn[c].ticket \notin Tokens
        /\ req[conn[c].ticket].pc = "issued" /\ req[conn[c].ticket].identity = conn[c].identity
    BY <1>2 DEF Redemption, TicketGrantsOneOwner, Granted
  <2>2. QED
    BY <2>1, StoreMoves
<1>3. CASE UNCHANGED conn
  <2>1. \A c \in Connections : Granted(c)' <=> Granted(c)
    BY <1>3 DEF Granted
  <2>2. \A c \in Connections : Granted(c)' =>
          conn'[c].ticket \in Requests /\ conn'[c].ticket \notin Tokens'
    BY <1>2, <1>3, <2>1
  <2>3. TicketGrantsOneOwner'
    BY <1>2, <1>3 DEF TicketGrantsOneOwner, Redemption, Granted
  <2>4. QED
    BY <1>1, <2>2, <2>3 DEF Redemption
<1>4. ASSUME NEW c \in Connections, ConnectionMoves(c), UNCHANGED req
      PROVE  Redemption'
  <2>1. \A d \in Connections \ {c} : conn'[d] = conn[d]
    BY <1>4 DEF ConnectionMoves, Advances, ConnMoved, ConnAt
  <2>2. CASE ~Granted(c)'
    <3>1. \A d \in Connections : Granted(d)' => Granted(d) /\ conn'[d] = conn[d]
      BY <2>1, <2>2 DEF Granted
    <3>2. \A d \in Connections : Granted(d)' =>
            conn'[d].ticket \in Requests /\ conn'[d].ticket \notin Tokens'
      BY <1>2, <3>1
    <3>3. TicketGrantsOneOwner'
      BY <1>2, <3>1 DEF TicketGrantsOneOwner, Redemption, Granted
    <3>4. QED
      BY <1>1, <3>2, <3>3 DEF Redemption
  <2>3. CASE Granted(c)' /\ Granted(c) /\ conn'[c].ticket = conn[c].ticket
             /\ conn'[c].identity = conn[c].identity
    <3>1. \A d \in Connections : Granted(d)' =>
            Granted(d) /\ conn'[d].ticket = conn[d].ticket /\ conn'[d].identity = conn[d].identity
      BY <2>1, <2>3 DEF Granted
    <3>2. \A d \in Connections : Granted(d)' =>
            conn'[d].ticket \in Requests /\ conn'[d].ticket \notin Tokens'
      BY <1>2, <3>1
    <3>3. TicketGrantsOneOwner'
      BY <1>2, <3>1 DEF TicketGrantsOneOwner, Redemption, Granted
    <3>4. QED
      BY <1>1, <3>2, <3>3 DEF Redemption
  <2>4. CASE /\ Advances(c, "redeem", "start") /\ Valid(c) /\ OwnTicket(c)
             /\ entries' = Removed({conn[c].ticket})
    <3> DEFINE t == conn[c].ticket
    <3>1. t \in Tokens /\ t \in Requests /\ conn'[c].ticket = t /\ conn'[c].identity = conn[c].identity
      BY <2>4 DEF Advances, ConnMoved, Valid, AdmissionInv, CallersKnown, Tokens
    <3>2. t \notin Tokens'
      BY <2>4, StoreEffects DEF AdmissionInv
    <3>3. req'[t].pc = "issued" /\ req'[t].identity = conn[c].identity
      BY <1>0, <1>4, <2>4, <3>1 DEF OwnTicket, Redemption
    <3>4. \A d \in Connections \ {c} : Granted(d)' => Granted(d) /\ conn'[d] = conn[d] /\ conn[d].ticket # t
      BY <2>1, <3>1 DEF Granted, Redemption
    <3>5. \A d \in Connections : Granted(d)' =>
            conn'[d].ticket \in Requests /\ conn'[d].ticket \notin Tokens'
      BY <1>2, <3>1, <3>2, <3>4
    <3>6. TicketGrantsOneOwner'
      BY <1>2, <1>4, <3>1, <3>3, <3>4 DEF TicketGrantsOneOwner, Redemption, Granted
    <3>7. QED
      BY <1>1, <3>5, <3>6 DEF Redemption
  <2>5. QED
    BY <1>4, <2>2, <2>3, <2>4
       DEF ConnectionMoves, Advances, ConnMoved, ConnAt, Granted, GrantedPcs, ConnPcs
<1>5. QED
  BY <1>3, <1>4, MovesOfConnections DEF AdmissionInv

\* A ticket lets at most one connection through, one that authenticated as the
\* identity the ticket was issued to, whatever races with its redemption.
THEOREM OneGrantPerTicket == Spec => []TicketGrantsOneOwner
<1>1. Init => Redemption
  BY DEF Init, Redemption, TicketGrantsOneOwner, Granted, GrantedPcs, Tokens, IdleConn
<1>2. QED
  BY <1>1, RedemptionNext, AdmissionInvariance, PTL DEF Spec, Redemption

----------------------------------------------------------------------------
(* Leases and their owners.                                                *)

\* Somebody's drop will remove reservation i; somebody who has not activated it.
Owned(i) ==
  \/ i \in Requests /\ req[i].pc = "issue"
  \/ i \in Tokens
  \/ \E c \in Connections : conn[c].res = i

OwnedPending(i) ==
  \/ i \in Requests /\ req[i].pc = "issue"
  \/ i \in Tokens
  \/ \E c \in Connections : conn[c].res = i /\ conn[c].pc \in {"start", "activate"}

PendingUntilActivated == \A i \in Leases : OwnedPending(i) => leases[i].state = "pending"

OwnersInv == NoLeaseLeaks /\ PendingUntilActivated

\* The ledger loses the leases of S, and gains at most those of T.
Changes(S, T) ==
  \A i \in LeaseIds : leases'[i] # None => i \in T \/ (i \notin S /\ leases'[i] = leases[i])

\* The leases each operation of the ledger may change.
LEMMA LedgerChanges ==
  ASSUME TypeOK
  PROVE  /\ leases' = leases \/ leases' = Purged => Changes({}, {})
         /\ \A S : Drop(S) \/ leases' = Dropped(Purged, S) => Changes(S, {})
         /\ \A i \in LeaseIds : \A l \in Lease :
              Insert(i, l) => Changes({}, {i}) /\ leases'[i] = l
<1> USE DEF TypeOK, Changes, Purged, Dropped
<1>1. leases' = leases \/ leases' = Purged => Changes({}, {})
  OBVIOUS
<1>2. \A S : Drop(S) \/ leases' = Dropped(Purged, S) => Changes(S, {})
  BY DEF Drop
<1>3. \A i \in LeaseIds : \A l \in Lease : Insert(i, l) => Changes({}, {i}) /\ leases'[i] = l
  BY DEF Insert
<1>4. QED
  BY <1>1, <1>2, <1>3

\* A step keeps leases and owners together when every lease it leaves behind keeps its
\* owner and is activated by none, and every lease it adds has an owner.
LEMMA OwnersFollow ==
  ASSUME OwnersInv, NEW S, NEW T, Changes(S, T),
         \A i \in T : Owned(i)' /\ (OwnedPending(i)' => leases'[i].state = "pending"),
         \A i \in LeaseIds \ S : (Owned(i) => Owned(i)') /\ (OwnedPending(i)' => OwnedPending(i))
  PROVE  OwnersInv'
BY DEF OwnersInv, NoLeaseLeaks, PendingUntilActivated, Leases, Changes, Owned

\* The two relations as they are after a step of request r, or of connection c.
LEMMA OwnersAfterRequest ==
  ASSUME AdmissionInv, NEW r \in Requests, NEW pc, ReqAt(r, pc), UNCHANGED conn, NEW i \in LeaseIds
  PROVE  /\ i # r => ((i \in Requests /\ req'[i].pc = "issue") <=> (i \in Requests /\ req[i].pc = "issue"))
         /\ Owned(i)' <=> \/ i \in Requests /\ (IF i = r THEN pc ELSE req[i].pc) = "issue"
                          \/ i \in Tokens'
                          \/ \E c \in Connections : conn[c].res = i
         /\ OwnedPending(i)' <=>
              \/ i \in Requests /\ (IF i = r THEN pc ELSE req[i].pc) = "issue"
              \/ i \in Tokens'
              \/ \E c \in Connections : conn[c].res = i /\ conn[c].pc \in {"start", "activate"}
BY DEF Owned, OwnedPending, ReqAt

\* The owners of a lease after a step of one connection.
LEMMA OwnersAfterConnection ==
  ASSUME AdmissionInv, NEW c \in Connections, NEW pc, NEW res, ConnAt(c, pc, res), UNCHANGED req,
         NEW i \in LeaseIds
  PROVE  /\ Owned(i)' <=> \/ i \in Requests /\ req[i].pc = "issue"
                          \/ i \in Tokens'
                          \/ res = i
                          \/ \E d \in Connections \ {c} : conn[d].res = i
         /\ OwnedPending(i)' <=>
              \/ i \in Requests /\ req[i].pc = "issue"
              \/ i \in Tokens'
              \/ res = i /\ pc \in {"start", "activate"}
              \/ \E d \in Connections \ {c} : conn[d].res = i /\ conn[d].pc \in {"start", "activate"}
BY DEF Owned, OwnedPending, ConnAt

\* Every handler's step keeps leases and owners together.
LEMMA OwnersNext ==
  ASSUME AdmissionInv, OwnersInv, [Next]_vars
  PROVE  OwnersInv'
<1> USE CallersAssumption
\* A reservation a request or a ticket owns is no connection's, and two connections own two.
<1>0. /\ \A r \in Requests : \A d \in Connections :
           req[r].pc \in {"idle", "reserve", "issue"} \/ r \in Tokens => conn[d].res # r
      /\ \A r \in Requests : req[r].pc \in {"idle", "reserve", "issue"} => r \notin Tokens
      /\ \A r \in Tokens : r \in Requests /\ r \in LeaseIds /\ req[r].pc = "issued"
      /\ Tokens' \in SUBSET Requests
      /\ \A c, d \in Connections : conn[c].res = conn[d].res /\ conn[c].res # None => c = d
      /\ \A i \in LeaseIds : i # None
  BY DEF AdmissionInv, Ownership, ReservationOwnedOnce, Tokens, LeaseIds
<1>1. ASSUME NEW r \in Requests, (\E u \in Identities : BeginRequest(r, u)) \/ CancelRequest(r)
      PROVE  OwnersInv'
  <2>1. Changes({}, {}) /\ UNCHANGED conn /\ Tokens' = Tokens /\ req[r].pc \in {"idle", "reserve"}
    BY <1>1, LedgerChanges, StoreEffects DEF AdmissionInv, BeginRequest, CancelRequest
  <2>2. \E pc \in {"reserve", "denied"} : ReqAt(r, pc)
    BY <1>1, ReqEffects, LimitsAssumption, SMTT(40)
       DEF AdmissionInv, TypeOK, Req, ReqPcs, ReqAt, ReqMoved, BeginRequest, CancelRequest
  <2>3. QED
    BY <2>1, <2>2, OwnersAfterRequest, OwnersFollow DEF Owned, OwnedPending
<1>2. ASSUME NEW r \in Requests, Reserve(r) PROVE OwnersInv'
  <2>1. UNCHANGED conn /\ Tokens' = Tokens /\ req[r].pc = "reserve"
    BY <1>2, StoreEffects DEF AdmissionInv, Reserve
  <2>2. CASE \E pc \in {"denied", "limited"} : ReturnReq(r, pc) /\ (leases' = leases \/ leases' = Purged)
    <3>1. Changes({}, {}) /\ \E pc \in {"denied", "limited"} : ReqAt(r, pc)
      BY <2>2, LedgerChanges, ReqEffects DEF AdmissionInv, ReqPcs, ReqMoved
    <3>2. QED
      BY <2>1, <3>1, OwnersAfterRequest, OwnersFollow DEF Owned, OwnedPending
  <2>3. CASE MoveReq(r, "issue") /\ Insert(r, PendingLease(req[r].identity, req[r].expiry))
    <3>1. PendingLease(req[r].identity, req[r].expiry) \in Lease /\ r \in LeaseIds
      BY <2>1, RecordTypes DEF AdmissionInv, TypeOK, CallersKnown, Req, LeaseIds
    <3>2. PendingLease(req[r].identity, req[r].expiry).state = "pending"
      BY DEF PendingLease
    <3>3. Changes({}, {r}) /\ leases'[r].state = "pending" /\ ReqAt(r, "issue")
      BY <2>3, <3>1, <3>2, LedgerChanges, ReqEffects DEF AdmissionInv, ReqPcs, ReqMoved
    <3>4. \A i \in LeaseIds : i # r => (Owned(i) => Owned(i)') /\ (OwnedPending(i)' => OwnedPending(i))
      BY <2>1, <3>3, OwnersAfterRequest DEF Owned, OwnedPending
    <3>5. Owned(r)'
      BY <3>3 DEF Owned, ReqAt
    <3>6. QED
      BY <3>3, <3>4, <3>5 DEF OwnersInv, NoLeaseLeaks, PendingUntilActivated, Leases, Changes, Owned
  <2>4. QED
    BY <1>2, <2>2, <2>3 DEF Reserve
<1>3. ASSUME NEW r \in Requests, Issue(r) PROVE OwnersInv'
  <2>1. UNCHANGED conn /\ req[r].pc = "issue" /\ r \in LeaseIds /\ Stale \in SUBSET Tokens
    BY <1>3 DEF Issue, LeaseIds, Stale
  <2>2. CASE ReturnReq(r, "denied") /\ Drop({r}) /\ UNCHANGED entries
    <3>1. Changes({r}, {}) /\ ReqAt(r, "denied") /\ Tokens' = Tokens
      BY <2>2, LedgerChanges, ReqEffects, StoreEffects DEF AdmissionInv, ReqPcs, ReqMoved
    <3>2. QED
      BY <2>1, <3>1, OwnersAfterRequest, OwnersFollow DEF Owned, OwnedPending
  <2>3. CASE ReturnReq(r, "denied") /\ entries' = Removed(Stale) /\ Drop(Stale \cup {r})
    <3>1. Changes(Stale \cup {r}, {}) /\ ReqAt(r, "denied") /\ Tokens' = Tokens \ Stale
      BY <2>3, LedgerChanges, ReqEffects, StoreEffects DEF AdmissionInv, ReqPcs, ReqMoved
    <3>2. QED
      BY <2>1, <3>1, OwnersAfterRequest, OwnersFollow DEF Owned, OwnedPending
  <2>4. CASE /\ ReturnReq(r, "issued") /\ Drop(Stale)
             /\ entries' = [Removed(Stale) EXCEPT ![r] =
                              [identity |-> req[r].identity, expires_at |-> req[r].expiry]]
    <3>1. [identity |-> req[r].identity, expires_at |-> req[r].expiry] \in Entry
      BY <2>1, RecordTypes DEF AdmissionInv, TypeOK, CallersKnown, Req
    <3>2. Changes(Stale, {}) /\ ReqAt(r, "issued") /\ Tokens' = (Tokens \ Stale) \cup {r}
      BY <2>4, <3>1, LedgerChanges, ReqEffects, StoreEffects DEF AdmissionInv, ReqPcs, ReqMoved
    <3>3. QED
      BY <2>1, <3>2, OwnersAfterRequest, OwnersFollow DEF Owned, OwnedPending
  <2>5. QED
    BY <1>3, <2>2, <2>3, <2>4 DEF Issue
<1>4. ASSUME NEW c \in Connections, UNCHANGED req, Tokens' = Tokens, Changes({}, {}),
             NEW pc, ConnAt(c, pc, conn[c].res),
             pc \in {"start", "activate"} => conn[c].pc = "start" \/ conn[c].res = None
      PROVE  OwnersInv'
  BY <1>0, <1>4, OwnersAfterConnection, OwnersFollow DEF Owned, OwnedPending
<1>5. ASSUME NEW c \in Connections, UNCHANGED req, Tokens' = Tokens, Changes({conn[c].res}, {}),
             NEW pc, ConnAt(c, pc, None)
      PROVE  OwnersInv'
  BY <1>0, <1>5, OwnersAfterConnection, OwnersFollow DEF Owned, OwnedPending
<1>6. ASSUME NEW c \in Connections,
             \E u \in Identities : StartDirect(c, u) \/ \E t \in Requests : Connect(c, u, t)
      PROVE  OwnersInv'
  <2>1. UNCHANGED req /\ Tokens' = Tokens /\ Changes({}, {}) /\ conn[c].res = None
    BY <1>6, LedgerChanges, StoreEffects DEF AdmissionInv, StartDirect, Connect, Ownership
  <2>2. \E pc \in {"start", "redeem"} : ConnAt(c, pc, conn[c].res)
    BY <1>6, <2>1, LimitsAssumption DEF AdmissionInv, TypeOK, Conn, ConnPcs, ConnAt, StartDirect, Connect
  <2>3. QED
    BY <1>4, <2>1, <2>2
<1>7. ASSUME NEW c \in Connections, Redeem(c) PROVE OwnersInv'
  <2> DEFINE t == conn[c].ticket
  <2>1. UNCHANGED req /\ conn[c].res = None /\ t \in Requests /\ t \in LeaseIds
    BY <1>7 DEF Redeem, AdmissionInv, Ownership, CallersKnown, LeaseIds
  <2>2. CASE ReturnConn(c) /\ UNCHANGED <<leases, entries>>
    BY <1>4, <2>1, <2>2, LedgerChanges, StoreEffects, ConnEffects DEF AdmissionInv
  <2>3. CASE entries' = Removed({t}) /\ Drop({t}) /\ ReturnConn(c)
    <3>1. Changes({t}, {}) /\ Tokens' = Tokens \ {t} /\ ConnAt(c, "denied", None)
      BY <2>3, LedgerChanges, StoreEffects, ConnEffects DEF AdmissionInv
    <3>2. QED
      BY <1>0, <2>1, <3>1, OwnersAfterConnection, OwnersFollow DEF Owned, OwnedPending
  <2>4. CASE Valid(c) /\ entries' = Removed({t}) /\ OwnConn(c, "start", t) /\ UNCHANGED leases
    <3>1. /\ Changes({}, {}) /\ Tokens' = Tokens \ {t} /\ ConnAt(c, "start", t) /\ t \in Tokens
      BY <2>1, <2>4, LedgerChanges, StoreEffects, ConnEffects
         DEF AdmissionInv, ConnPcs, ConnMoved, Valid, Tokens
    <3>2. QED
      BY <1>0, <2>1, <3>1, OwnersAfterConnection, OwnersFollow DEF Owned, OwnedPending
  <2>5. QED
    BY <1>7, <2>2, <2>3, <2>4 DEF Redeem
<1>8. ASSUME NEW c \in Connections, EnterAdmission(c) PROVE OwnersInv'
  <2>1. UNCHANGED req /\ Tokens' = Tokens /\ conn[c].pc = "start"
    BY <1>8, StoreEffects DEF AdmissionInv, EnterAdmission
  <2>2. \/ ConnAt(c, "denied", None) /\ Changes({conn[c].res}, {})
        \/ ConnAt(c, "activate", conn[c].res) /\ Changes({}, {})
    BY <1>8, ConnEffects, LedgerChanges DEF AdmissionInv, ConnPcs, ConnMoved, EnterAdmission
  <2>3. QED
    BY <1>4, <1>5, <2>1, <2>2
<1>9. ASSUME NEW c \in Connections, Activate(c) PROVE OwnersInv'
  <2>1. UNCHANGED req /\ Tokens' = Tokens /\ conn[c].res \in LeaseIds /\ conn[c].res # None
    BY <1>9, StoreEffects DEF AdmissionInv, TypeOK, Conn, Activate
  <2>2. CASE ReturnConn(c) /\ leases' = Dropped(Purged, {conn[c].res})
    BY <1>5, <2>1, <2>2, ConnEffects, LedgerChanges DEF AdmissionInv
  <2>3. CASE Insert(conn[c].res, LiveLease(conn[c].identity)) /\ MoveConn(c, "spawn")
    <3>1. LiveLease(conn[c].identity) \in Lease
      BY <1>9, RecordTypes DEF AdmissionInv, CallersKnown, Activate
    <3>2. Changes({}, {conn[c].res}) /\ ConnAt(c, "spawn", conn[c].res)
      BY <2>1, <2>3, <3>1, LedgerChanges, ConnEffects DEF AdmissionInv, ConnPcs, ConnMoved
    <3> PICK own \in LeaseIds : own = conn[c].res
      BY <2>1
    <3>3. Owned(own)' /\ ~OwnedPending(own)'
      BY <1>0, <2>1, <3>2, OwnersAfterConnection
    <3>4. \A i \in LeaseIds : i # own =>
            (Owned(i) => Owned(i)') /\ (OwnedPending(i)' => OwnedPending(i))
      BY <2>1, <3>2, OwnersAfterConnection DEF Owned, OwnedPending
    <3>5. QED
      BY <3>2, <3>3, <3>4 DEF OwnersInv, NoLeaseLeaks, PendingUntilActivated, Leases, Changes, Owned
  <2>4. QED
    BY <1>9, <2>2, <2>3 DEF Activate
<1>10. ASSUME NEW c \in Connections, ReserveLive(c) PROVE OwnersInv'
  <2>1. UNCHANGED req /\ Tokens' = Tokens /\ conn[c].res = None /\ c \in LeaseIds
    BY <1>10, StoreEffects DEF AdmissionInv, ReserveLive, LeaseIds
  <2>2. CASE ReturnConn(c) /\ leases' = Purged
    BY <1>4, <2>1, <2>2, ConnEffects, LedgerChanges DEF AdmissionInv
  <2>3. CASE Insert(c, LiveLease(conn[c].identity)) /\ OwnConn(c, "spawn", c)
    <3>1. LiveLease(conn[c].identity) \in Lease
      BY <1>10, RecordTypes DEF AdmissionInv, CallersKnown, ReserveLive
    <3>2. Changes({}, {c}) /\ ConnAt(c, "spawn", c)
      BY <2>1, <2>3, <3>1, LedgerChanges, ConnEffects DEF AdmissionInv, ConnPcs, ConnMoved
    <3>3. \A d \in Connections : conn[d].res # c
      BY <2>1, <1>0 DEF AdmissionInv, Ownership
    <3>4. Owned(c)' /\ ~OwnedPending(c)'
      BY <1>0, <2>1, <3>2, <3>3, OwnersAfterConnection
    <3>5. \A i \in LeaseIds : i # c =>
            (Owned(i) => Owned(i)') /\ (OwnedPending(i)' => OwnedPending(i))
      BY <1>0, <2>1, <3>2, OwnersAfterConnection DEF Owned, OwnedPending
    <3>6. QED
      BY <3>2, <3>4, <3>5 DEF OwnersInv, NoLeaseLeaks, PendingUntilActivated, Leases, Changes, Owned
  <2>4. QED
    BY <1>10, <2>2, <2>3 DEF ReserveLive
<1>11. ASSUME NEW c \in Connections, Spawn(c) \/ Release(c) PROVE OwnersInv'
  <2>1. UNCHANGED req /\ Tokens' = Tokens
    BY <1>11, StoreEffects DEF AdmissionInv, Spawn, Release
  <2>2. \/ \E pc \in {"denied", "released"} : ConnAt(c, pc, None) /\ Changes({conn[c].res}, {})
        \/ ConnAt(c, "connecting", conn[c].res) /\ Changes({}, {})
    BY <1>11, ConnEffects, LedgerChanges DEF AdmissionInv, ConnPcs, ConnMoved, Spawn, Release
  <2>3. QED
    BY <1>4, <1>5, <2>1, <2>2
<1>12. ASSUME NEW c \in Connections, Admit(c) \/ Stop(c) \/ Prove(c) \/ Deregister(c) PROVE OwnersInv'
  <2>1. UNCHANGED req /\ Tokens' = Tokens /\ Changes({}, {})
    BY <1>12, StoreEffects, LedgerChanges
       DEF AdmissionInv, Admit, Stop, Prove, SupervisorStep, Deregister
  <2>2. \E pc \in {"running", "terminating", "proven", "done"} : ConnAt(c, pc, conn[c].res)
    BY <1>12, ConnEffects DEF AdmissionInv, ConnPcs, ConnMoved, Admit, Stop, Prove, SupervisorStep, Deregister
  <2>3. QED
    BY <1>4, <2>1, <2>2
<1>13. ASSUME ShutdownNext \/ ClearTickets \/ Tick \/ AuditFails \/ UNCHANGED vars PROVE OwnersInv'
  <2>1. UNCHANGED <<req, conn>>
    BY <1>13 DEF ShutdownNext, ShutdownStep, ShutdownCall, ShutdownClose, ShutdownAsk,
                 ShutdownAsked, ShutdownLook, ShutdownWake, ClearTickets, Tick, AuditFails, vars
  <2>2. \/ UNCHANGED entries /\ (UNCHANGED leases \/ \E S : Drop(S))
        \/ entries' = Removed(Tokens) /\ Drop(Tokens)
    BY <1>13 DEF ShutdownNext, ShutdownStep, ShutdownCall, ShutdownClose, ShutdownAsk,
                 ShutdownAsked, ShutdownLook, ShutdownWake, ClearTickets, Tick, AuditFails, vars
  <2>3. \/ Tokens' = Tokens /\ \E S : Changes(S, {})
        \/ Tokens' = {} /\ Changes(Tokens, {})
    BY <2>2, LedgerChanges, StoreEffects DEF AdmissionInv
  <2>4. QED
    BY <2>1, <2>3, OwnersFollow DEF Owned, OwnedPending
<1>14. QED
  BY <1>1, <1>2, <1>3, <1>6, <1>7, <1>8, <1>9, <1>10, <1>11, <1>12, <1>13
     DEF Next, RequestNext, ConnectionNext

\* No lease is left without an owner, and no session without its lease.
THEOREM LeasesAccounted == Spec => []LeasesAreAccounted
<1>1. Init => OwnersInv
  BY DEF Init, OwnersInv, NoLeaseLeaks, PendingUntilActivated, Leases
<1>2. QED
  BY <1>1, OwnersNext, AdmissionInvariance, PTL
     DEF Spec, OwnersInv, AdmissionInv, LeasesAreAccounted

----------------------------------------------------------------------------
(* Shutdown.                                                               *)

\* Who is inside the gate and who is registered, the order in which shutdown closes,
\* and what a closed gate keeps out.
GateInv ==
  /\ admission = {c \in Connections : conn[c].pc \in {"activate", "spawn"}}
  /\ active = {c \in Connections :
                 conn[c].pc \in {"connecting", "running", "terminating", "proven", "released"}}
  /\ gate = "closed" <=> sdPc \in {"closing", "draining", "parked", "returned"}
  /\ ledger = gate
  /\ gate = "closed" => admission = {} /\ \A i \in Leases : leases[i].state = "live"
  /\ sdPc = "returned" => active = {}

\* No lease is added: what is left was there, unchanged.
Shrinks == \A i \in LeaseIds : leases'[i] # None => leases'[i] = leases[i]

\* With the ledger closed no step adds a lease.
LEMMA ClosedLedgerShrinks ==
  ASSUME AdmissionInv, [Next]_vars, ledger = "closed"
  PROVE  Shrinks
<1>1. leases' = leases \/ leases' = Purged \/ (\E S : Drop(S) \/ leases' = Dropped(Purged, S)) => Shrinks
  BY LedgerChanges DEF AdmissionInv, Changes, Shrinks
<1>2. ASSUME NEW r \in Requests, RequestNext(r) PROVE Shrinks
  BY <1>1, <1>2 DEF RequestNext, BeginRequest, CancelRequest, Reserve, Issue
<1>3. ASSUME NEW c \in Connections, ConnectionNext(c) PROVE Shrinks
  BY <1>1, <1>3 DEF ConnectionNext, StartDirect, Connect, Redeem, EnterAdmission, Activate,
     Activatable, ReserveLive, Spawn, Admit, Stop, Prove, SupervisorStep, Release, Deregister
<1>4. ASSUME ShutdownNext \/ ClearTickets \/ Tick \/ AuditFails \/ UNCHANGED vars PROVE Shrinks
  BY <1>1, <1>4 DEF ShutdownNext, ShutdownStep, ShutdownCall, ShutdownClose, ShutdownAsk,
     ShutdownAsked, ShutdownLook, ShutdownWake, ClearTickets, Tick, AuditFails, vars
<1>5. QED
  BY <1>2, <1>3, <1>4 DEF Next

\* A step of a request or of the environment, or of a connection, keeps the order.
LEMMA GateNext ==
  ASSUME AdmissionInv, GateInv, [Next]_vars
  PROVE  GateInv'
<1>0. /\ ledger \in {"open", "closed"} /\ gate \in {"open", "closed"}
      /\ ledger = "closed" => \A i \in Leases' : leases'[i] = leases[i] /\ i \in Leases
  BY ClosedLedgerShrinks DEF AdmissionInv, TypeOK, Leases, Shrinks
<1>1. CASE UNCHANGED <<conn, admission, active, gate, ledger, sdPc>>
  BY <1>0, <1>1 DEF GateInv
<1>2. ASSUME NEW c \in Connections, ConnectionNext(c) PROVE GateInv'
  <2> USE DEF registry, shutdown
  <2>1. UNCHANGED <<gate, ledger, sdPc>>
    BY <1>2 DEF ConnectionNext, StartDirect, Connect, Redeem, EnterAdmission, Activate, ReserveLive,
       Spawn, Admit, Stop, Prove, SupervisorStep, Release, Deregister
  <2>2. ASSUME NEW pc, NEW res, ConnAt(c, pc, res),
               admission' = IF pc \in {"activate", "spawn"} THEN admission \cup {c} ELSE admission \ {c},
               active' = IF pc \in {"connecting", "running", "terminating", "proven", "released"}
                         THEN active \cup {c} ELSE active \ {c},
               gate = "closed" => c \notin admission' /\ (c \in active' => c \in active)
        PROVE  GateInv'
    <3>1. /\ admission' = {d \in Connections : conn'[d].pc \in {"activate", "spawn"}}
          /\ active' = {d \in Connections : conn'[d].pc \in
                          {"connecting", "running", "terminating", "proven", "released"}}
      BY <2>2 DEF GateInv, ConnAt
    <3>2. gate = "closed" => admission' = {} /\ (active = {} => active' = {})
      BY <2>2 DEF GateInv
    <3>3. QED
      BY <1>0, <2>1, <3>1, <3>2 DEF GateInv
  <2>3. /\ \A pc \in ConnPcs : MoveConn(c, pc) => ConnAt(c, pc, conn[c].res)
        /\ \A pc \in ConnPcs : \A i \in LeaseIds \cup {None} : OwnConn(c, pc, i) => ConnAt(c, pc, i)
        /\ ReturnConn(c) => ConnAt(c, "denied", None)
    BY ConnEffects DEF AdmissionInv, ConnMoved
  <2>4. /\ c \in admission <=> conn[c].pc \in {"activate", "spawn"}
        /\ c \in active <=>
             conn[c].pc \in {"connecting", "running", "terminating", "proven", "released"}
        /\ gate = "closed" => c \notin admission
    BY DEF GateInv
  <2>5. CASE \E u \in Identities : StartDirect(c, u) \/ \E t \in Requests : Connect(c, u, t)
    <3>1. /\ \E pc \in {"start", "redeem"} : ConnAt(c, pc, None)
          /\ conn[c].pc = "idle" /\ UNCHANGED <<admission, active>>
      BY <2>5, LimitsAssumption DEF AdmissionInv, TypeOK, Conn, ConnPcs, ConnAt, StartDirect, Connect
    <3>2. QED
      BY <2>2, <2>4, <3>1
  <2>6. CASE Redeem(c)
    <3>1. /\ \E pc \in {"start", "denied"} : \E i : ConnAt(c, pc, i)
          /\ conn[c].pc = "redeem" /\ UNCHANGED <<admission, active>>
      BY <2>3, <2>6 DEF Redeem, ConnPcs, AdmissionInv, CallersKnown, LeaseIds
    <3>2. QED
      BY <2>2, <2>4, <3>1
  <2>7. CASE EnterAdmission(c)
    <3>1. CASE ConnAt(c, "denied", None) /\ UNCHANGED admission
      BY <2>2, <2>4, <2>7, <3>1 DEF EnterAdmission
    <3>2. CASE gate = "open" /\ ConnAt(c, "activate", conn[c].res) /\ admission' = admission \cup {c}
      BY <2>2, <2>4, <2>7, <3>2 DEF EnterAdmission
    <3>3. QED
      BY <2>3, <2>7, <3>1, <3>2 DEF EnterAdmission, ConnPcs
  <2>8. CASE Activate(c) \/ ReserveLive(c)
    <3>1. CASE ConnAt(c, "denied", None) /\ admission' = admission \ {c}
      BY <2>2, <2>4, <2>8, <3>1 DEF Activate, ReserveLive
    <3>2. CASE (\E i : ConnAt(c, "spawn", i)) /\ UNCHANGED admission
      BY <2>2, <2>4, <2>8, <3>2 DEF Activate, ReserveLive
    <3>3. QED
      BY <2>3, <2>8, <3>1, <3>2 DEF Activate, ReserveLive, ConnPcs, LeaseIds
  <2>9. CASE Spawn(c)
    <3>1. CASE ConnAt(c, "denied", None) /\ UNCHANGED active
      BY <2>2, <2>4, <2>9, <3>1 DEF Spawn
    <3>2. CASE ConnAt(c, "connecting", conn[c].res) /\ active' = active \cup {c}
      BY <2>2, <2>4, <2>9, <3>2 DEF Spawn
    <3>3. QED
      BY <2>3, <2>9, <3>1, <3>2 DEF Spawn, ConnPcs
  <2>10. CASE Admit(c) \/ Stop(c) \/ Prove(c) \/ Release(c)
    <3>1. /\ \E pc \in {"running", "terminating", "proven", "released"} : \E i : ConnAt(c, pc, i)
          /\ conn[c].pc \in {"connecting", "running", "terminating", "proven"}
          /\ UNCHANGED <<admission, active>>
      BY <2>3, <2>10 DEF Admit, Stop, Prove, SupervisorStep, Release, ConnPcs
    <3>2. QED
      BY <2>2, <2>4, <3>1
  <2>11. CASE Deregister(c)
    <3>1. ConnAt(c, "done", conn[c].res) /\ conn[c].pc = "released" /\ UNCHANGED admission
          /\ active' = active \ {c}
      BY <2>3, <2>11 DEF Deregister, ConnPcs
    <3>2. QED
      BY <2>2, <2>4, <3>1
  <2>12. QED
    BY <1>2, <2>5, <2>6, <2>7, <2>8, <2>9, <2>10, <2>11 DEF ConnectionNext
<1>3. ASSUME ShutdownNext PROVE GateInv'
  <2>1. UNCHANGED <<conn, admission, active>>
    BY <1>3 DEF ShutdownNext, ShutdownStep, ShutdownCall, ShutdownClose, ShutdownAsk, ShutdownAsked,
       ShutdownLook, ShutdownWake
  <2>2. CASE ShutdownClose
    <3>1. \A i \in Leases' : leases'[i].state = "live"
      <4>1. \A i \in LeaseIds : leases[i] # None => leases[i].state \in {"pending", "live"}
        BY DEF AdmissionInv, TypeOK, Lease
      <4>2. \A i \in Leases' : i \in LeaseIds /\ leases'[i] = leases[i] /\ leases[i] # None
                               /\ leases[i].state # "pending"
        BY <2>2 DEF ShutdownClose, Drop, Dropped, Leases
      <4>3. QED
        BY <4>1, <4>2
    <3>2. QED
      BY <2>1, <2>2, <3>1 DEF ShutdownClose, ShutdownStep, GateInv
  <2>3. CASE ShutdownCall \/ ShutdownAsk \/ ShutdownAsked \/ ShutdownLook \/ ShutdownWake
    <3>1. UNCHANGED <<gate, ledger, leases>>
      BY <2>3 DEF ShutdownCall, ShutdownAsk, ShutdownAsked, ShutdownLook, ShutdownWake
    <3>2. /\ sdPc' \in {"closing", "draining", "parked", "returned"} <=>
               sdPc \in {"closing", "draining", "parked", "returned"}
          /\ sdPc' = "returned" => active = {}
      BY <2>3 DEF ShutdownStep, ShutdownCall, ShutdownAsk, ShutdownAsked, ShutdownLook, ShutdownWake
    <3>3. QED
      BY <2>1, <3>1, <3>2 DEF GateInv, Leases
  <2>4. QED
    BY <1>3, <2>2, <2>3 DEF ShutdownNext
<1>4. ASSUME \/ \E r \in Requests : RequestNext(r)
             \/ ClearTickets \/ Tick \/ AuditFails \/ UNCHANGED vars
      PROVE  UNCHANGED <<conn, admission, active, gate, ledger, sdPc>>
  BY <1>4 DEF RequestNext, BeginRequest, CancelRequest, Reserve, Issue, ClearTickets, Tick,
     AuditFails, vars, registry, shutdown
<1>5. QED
  BY <1>1, <1>2, <1>3, <1>4 DEF Next

\* When SessionManager::shutdown has returned nothing is left of any session, and
\* nobody is inside the gate who could still create one: the closed gate and ledger
\* let no lease be added, a live lease has a supervisor, and none is registered.
THEOREM NothingAfterShutdown == Spec => []ShutdownLeavesNothing
<1>1. Init => GateInv /\ OwnersInv
  BY DEF Init, GateInv, OwnersInv, NoLeaseLeaks, PendingUntilActivated, Leases, IdleConn
<1>2. AdmissionInv /\ OwnersInv /\ GateInv => ShutdownLeavesNothing
  <2> SUFFICES ASSUME AdmissionInv, OwnersInv, GateInv, sdPc = "returned"
               PROVE  active = {} /\ ProcessGroups = {} /\ Leases = {} /\ admission = {}
    BY DEF ShutdownLeavesNothing
  <2>1. active = {} /\ admission = {} /\ gate = "closed"
    BY DEF GateInv
  <2>2. ProcessGroups = {}
    BY <2>1 DEF GateInv, ProcessGroups
  <2>3. ASSUME NEW i \in Leases PROVE FALSE
    <3>1. ~OwnedPending(i)
      BY <2>1, <2>3 DEF GateInv, OwnersInv, PendingUntilActivated
    <3>2. PICK c \in Connections : conn[c].res = i /\ conn[c].pc \notin {"start", "activate"}
      BY <2>3, <3>1 DEF OwnersInv, NoLeaseLeaks, OwnedPending
    <3>3. i # None
      BY CallersAssumption DEF Leases
    <3>4. conn[c].pc \in {"spawn", "connecting", "running", "terminating", "proven"}
      BY <3>2, <3>3 DEF AdmissionInv, Ownership, TypeOK, Conn, ConnPcs
    <3>5. QED
      BY <2>1, <3>4 DEF GateInv
  <2>4. QED
    BY <2>1, <2>2, <2>3
<1>3. QED
  BY <1>1, <1>2, OwnersNext, GateNext, AdmissionInvariance, PTL DEF Spec

\* A request is refused for capacity only when a whole limit's worth of leases is live
\* or can still be redeemed: reserve_with_state purges before it counts.
THEOREM RefusalsForCapacityAreJustified == Spec => LimitRefusalJustified
<1>1. ASSUME AdmissionInv, [Next]_vars, NEW r \in Requests, req[r].pc = "reserve", req'[r].pc = "limited"
      PROVE  LET usable == {i \in Leases : leases[i].state = "live" \/ leases[i].expires_at > now} IN
               \/ Cardinality(usable) >= MaxSessions
               \/ Cardinality({i \in usable : leases[i].identity = req[r].identity}) >= MaxSessionsPerUser
  <2>1. Reserve(r)
    <3>1. PICK q \in Requests : RequestNext(q)
      <4>1. req' # req
        BY <1>1
      <4>2. \A c \in Connections : ~ConnectionNext(c)
        BY <4>1 DEF ConnectionNext, StartDirect, Connect, Redeem, EnterAdmission, Activate,
           ReserveLive, Spawn, Admit, Stop, Prove, SupervisorStep, Release, Deregister
      <4>3. ~(ShutdownNext \/ ClearTickets \/ Tick \/ AuditFails \/ UNCHANGED vars)
        BY <4>1 DEF ShutdownNext, ShutdownStep, ShutdownCall, ShutdownClose, ShutdownAsk,
           ShutdownAsked, ShutdownLook, ShutdownWake, ClearTickets, Tick, AuditFails, vars
      <4>4. QED
        BY <1>1, <4>2, <4>3 DEF Next
    <3>2. q = r
      BY <1>1, <3>1 DEF AdmissionInv, TypeOK, RequestNext, BeginRequest, CancelRequest, Reserve,
         Issue, MoveReq, ReturnReq
    <3>3. QED
      BY <1>1, <3>1, <3>2 DEF AdmissionInv, TypeOK, Req, RequestNext, BeginRequest, CancelRequest,
         Issue, ReturnReq
  <2>2. AtLimit(req[r].identity)
    BY <1>1, <2>1, ZenonT(60) DEF Reserve, MoveReq, ReturnReq, AdmissionInv, TypeOK, Req
  <2>3. {i \in Leases : leases[i].state = "live" \/ leases[i].expires_at > now} = Unexpired
    BY <1>1 DEF AdmissionInv, TypeOK, Lease, Leases, Unexpired, Expired
  <2>4. QED
    BY <2>2, <2>3 DEF AtLimit
<1>2. AdmissionInv /\ [Next]_vars =>
        \A r \in Requests : req[r].pc = "reserve" /\ req'[r].pc = "limited" =>
          LET usable == {i \in Leases : leases[i].state = "live" \/ leases[i].expires_at > now} IN
            \/ Cardinality(usable) >= MaxSessions
            \/ Cardinality({i \in usable : leases[i].identity = req[r].identity}) >= MaxSessionsPerUser
  BY <1>1
<1>3. QED
  BY <1>2, AdmissionInvariance, PTL DEF Spec, LimitRefusalJustified
=============================================================================
