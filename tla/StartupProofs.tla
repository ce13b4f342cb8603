--------------------------- MODULE StartupProofs ----------------------------
(***************************************************************************)
(* Proofs about a start, for every set of configuration files and disks,   *)
(* every list of targets and every number of changes others make.          *)
(*                                                                         *)
(* The first half is about config::parse: a file that passes every check   *)
(* is one of the matrix, and one that is refused for its combination is    *)
(* not.  The second half is the invariant of the start: where it is in its *)
(* program, and what it has then.  A snapshot is a promise about an inode, *)
(* kept on every later disk; the last theorem rests on it.                 *)
(***************************************************************************)
EXTENDS Startup, FiniteSetTheorems, FunctionTheorems, SequenceTheorems, WellFoundedInduction, TLAPS

-----------------------------------------------------------------------------
(* Sequences of complaints.                                                 *)

\* The fields a section of the file is refused for, by itself ...
Sectional == {"syntax", "server.tls.certificate", "server.tls.private_key",
              "server.trusted_proxy.trusted_sources", "server.public_url",
              "auth.identity_header", "auth.user", "audit.path",
              "targets.user", "targets.user_mapping", "targets.command", "targets.command[0]",
              "targets.name", "targets.host", "targets.port", "targets.ssh_executable",
              "targets.identity_file", "targets.known_hosts",
              "limits.max_sessions", "limits.max_sessions_per_user",
              "limits.idle_timeout_seconds", "limits.absolute_timeout_seconds",
              "limits.session_requests_per_window", "limits.session_request_window_seconds",
              "limits.authentication_failures_per_window",
              "limits.authentication_failure_window_seconds"}

\* ... and those that stand for a combination.
Combined == {"server.bind", "auth.provider", "server.transport"}
Fields == Sectional \cup Combined

\* A nonempty set of natural numbers has a least element, which Min is.
LEMMA LeastNatural ==
  ASSUME NEW S, S \subseteq Nat, S # {}
  PROVE  Min(S) \in S /\ \A n \in S : Min(S) <= n
<1> DEFINE R == {ss \in Nat \X Nat : ss[1] < ss[2]}
<1>1. IsWellFoundedOn(R, Nat)
  BY NatLessThanWellFounded DEF OpToRel
<1>2. PICK x \in S : \A y \in S : ~ (<<y, x>> \in R)
  <2> HIDE DEF R
  <2> QED
    BY <1>1, WFMin
<1>3. \A y \in S : x <= y
  <2> SUFFICES ASSUME NEW y \in S, ~ (x <= y) PROVE FALSE
    OBVIOUS
  <2>1. x \in Nat /\ y \in Nat
    OBVIOUS
  <2>2. y < x
    BY <2>1
  <2>3. <<y, x>> \in R
    BY <2>1, <2>2
  <2> QED
    BY <1>2, <2>3
<1>4. QED
  BY <1>2, <1>3 DEF Min

\* A sequence of complaints is empty if its parts are, and else begins as the first
\* part that is not.
LEMMA Chain ==
  ASSUME NEW S, NEW s \in Seq(S), NEW t \in Seq(S)
  PROVE  /\ s \o t \in Seq(S)
         /\ s \o t = <<>> <=> s = <<>> /\ t = <<>>
         /\ s # <<>> => Head(s \o t) = Head(s)
         /\ s = <<>> => s \o t = t
<1>1. s \o t \in Seq(S) /\ (s \o t = <<>> <=> s = <<>> /\ t = <<>>)
  BY ConcatProperties, ConcatEqualIffEmpty
<1>2. ASSUME s # <<>> PROVE Head(s \o t) = Head(s)
  BY <1>1, <1>2, ConcatProperties
<1>3. ASSUME s = <<>> PROVE s \o t = t
  BY <1>3, ConcatEmptySeq
<1>4. QED
  BY <1>1, <1>2, <1>3

\* A single complaint, or none.
LEMMA OneField ==
  ASSUME NEW S
  PROVE  <<>> \in Seq(S) /\ \A f \in S : <<f>> \in Seq(S) /\ <<f>> # <<>> /\ Head(<<f>>) = f
OBVIOUS

\* The first complaint about a list is one about an element, and there is none only
\* if there is none about any.
LEMMA FirstOfList ==
  ASSUME NEW S, NEW lists, DOMAIN lists \subseteq Nat, \A i \in DOMAIN lists : lists[i] \in Seq(S)
  PROVE  /\ FirstComplaint(lists) \in Seq(S)
         /\ FirstComplaint(lists) = <<>> => \A i \in DOMAIN lists : lists[i] = <<>>
<1> DEFINE bad == {i \in DOMAIN lists : lists[i] # <<>>}
<1>1. CASE bad = {}
  BY <1>1, OneField DEF FirstComplaint
<1>2. CASE bad # {}
  <2>1. Min(bad) \in bad
    BY <1>2, LeastNatural
  <2>2. lists[Min(bad)] \in Seq(S) /\ lists[Min(bad)] # <<>>
    BY <2>1
  <2>3. FirstComplaint(lists) = lists[Min(bad)]
    BY <1>2 DEF FirstComplaint
  <2> QED
    BY <2>2, <2>3
<1>3. QED
  BY <1>1, <1>2

-----------------------------------------------------------------------------
(* The sections of the file.                                                *)

\* What CombinationsAsDocumented says of limits.
UsableLimits(l) ==
    /\ 0 < l.max_sessions_per_user /\ l.max_sessions_per_user <= l.max_sessions
    /\ 0 < l.idle_timeout /\ l.idle_timeout <= l.absolute_timeout
    /\ 0 < l.session_requests_per_window /\ 0 < l.session_request_window

\* Limits that validate_limits has nothing against are usable.
LEMMA LimitsComplaints ==
  ASSUME NEW table
  PROVE  /\ validate_limits(table) \in Seq(Sectional)
         /\ validate_limits(table) = <<>> => UsableLimits(Limits(table))
<1> DEFINE l == Limits(table)
           v1 == validation(l.max_sessions \in 1 .. MAX_SESSIONS, "limits.max_sessions")
           v2 == validation(l.max_sessions_per_user \in 1 .. MAX_SESSIONS, "limits.max_sessions_per_user")
           v3 == validation(l.idle_timeout \in 1 .. MAX_TIMEOUT_SECONDS, "limits.idle_timeout_seconds")
           v4 == validation(l.absolute_timeout \in 1 .. MAX_TIMEOUT_SECONDS, "limits.absolute_timeout_seconds")
           v5 == validation(l.session_requests_per_window \in 1 .. MAX_RATE_ALLOWANCE,
                            "limits.session_requests_per_window")
           v6 == validation(l.authentication_failures_per_window \in 1 .. MAX_RATE_ALLOWANCE,
                            "limits.authentication_failures_per_window")
           v7 == validation(l.session_request_window \in 1 .. MAX_TIMEOUT_SECONDS,
                            "limits.session_request_window_seconds")
           v8 == validation(l.authentication_failure_window \in 1 .. MAX_TIMEOUT_SECONDS,
                            "limits.authentication_failure_window_seconds")
           v9 == validation(l.max_sessions_per_user <= l.max_sessions, "limits.max_sessions_per_user")
           v10 == validation(l.idle_timeout <= l.absolute_timeout, "limits.idle_timeout_seconds")
<1>1. /\ v1 \in Seq(Sectional) /\ v2 \in Seq(Sectional) /\ v3 \in Seq(Sectional) /\ v4 \in Seq(Sectional)
      /\ v5 \in Seq(Sectional) /\ v6 \in Seq(Sectional) /\ v7 \in Seq(Sectional) /\ v8 \in Seq(Sectional)
      /\ v9 \in Seq(Sectional) /\ v10 \in Seq(Sectional)
  BY OneField DEF validation, Sectional
<1>2. ASSUME v2 = <<>>, v3 = <<>>, v5 = <<>>, v7 = <<>>, v9 = <<>>, v10 = <<>>
      PROVE  UsableLimits(l)
  BY <1>2 DEF validation, UsableLimits
<1>3. validate_limits(table) = v1 \o v2 \o v3 \o v4 \o v5 \o v6 \o v7 \o v8 \o v9 \o v10
  BY DEF validate_limits
<1> HIDE DEF v1, v2, v3, v4, v5, v6, v7, v8, v9, v10, l
<1>4. /\ validate_limits(table) \in Seq(Sectional)
      /\ validate_limits(table) = <<>> => v2 = <<>> /\ v3 = <<>> /\ v5 = <<>> /\ v7 = <<>> /\ v9 = <<>> /\ v10 = <<>>
  BY <1>1, <1>3, Chain
<1>5. QED
  BY <1>2, <1>4 DEF l

\* The validators of a single string complain about its field or not at all.
LEMMA FieldComplaints ==
  ASSUME NEW S, NEW f \in S, NEW x
  PROVE  /\ validate_nonempty(x, f) \in Seq(S) /\ validate_target_name(x, f) \in Seq(S)
         /\ validate_literal_path(x, f) \in Seq(S) /\ validate_ssh_option_path(x, f) \in Seq(S)
         /\ validate_username(x, f) \in Seq(S)
<1>1. /\ validate_nonempty(x, f) \in Seq(S) /\ validate_target_name(x, f) \in Seq(S)
      /\ validate_literal_path(x, f) \in Seq(S) /\ validate_username(x, f) \in Seq(S)
  BY OneField DEF validate_nonempty, validate_target_name, validate_literal_path, validate_username, validation
<1>2. validate_ssh_option_path(x, f) \in Seq(S)
  BY <1>1, OneField, Chain DEF validate_ssh_option_path, validation
<1>3. QED
  BY <1>1, <1>2

\* convert_auth complains about its own fields.
LEMMA AuthComplaints ==
  ASSUME NEW auth
  PROVE  convert_auth(auth) \in Seq(Sectional)
<1> DEFINE a1 == validation("identity_header" \notin DOMAIN auth, "auth.identity_header")
           a2 == validation("user" \in DOMAIN auth, "auth.user")
           a3 == IF "user" \in DOMAIN auth THEN validate_nonempty(auth.user, "auth.user") ELSE <<>>
           b1 == validation("user" \notin DOMAIN auth, "auth.user")
           b2 == validation("identity_header" \in DOMAIN auth, "auth.identity_header")
           b3 == IF "identity_header" \in DOMAIN auth
                 THEN validation(auth.identity_header.header, "auth.identity_header") ELSE <<>>
<1>1. {"auth.user", "auth.identity_header"} \subseteq Sectional
  BY DEF Sectional
<1>2. a1 \in Seq(Sectional) /\ a2 \in Seq(Sectional) /\ a3 \in Seq(Sectional)
  BY <1>1, OneField, FieldComplaints DEF validation
<1>3. b1 \in Seq(Sectional) /\ b2 \in Seq(Sectional) /\ b3 \in Seq(Sectional)
  BY <1>1, OneField DEF validation
<1>4. convert_auth(auth) = IF auth.provider = "dev" THEN a1 \o a2 \o a3 ELSE b1 \o b2 \o b3
  BY DEF convert_auth
<1> HIDE DEF a1, a2, a3, b1, b2, b3
<1>5. QED
  BY <1>2, <1>3, <1>4, Chain

\* convert_transport complains about its own fields or about two transports, and
\* leaves a proxy with sources.
LEMMA TransportComplaints ==
  ASSUME NEW server,
         "trusted_proxy" \in DOMAIN server /\ "trusted_sources" \in DOMAIN server.trusted_proxy
           => IsSeq(server.trusted_proxy.trusted_sources)
  PROVE  /\ IF "tls" \in DOMAIN server /\ "trusted_proxy" \in DOMAIN server
            THEN convert_transport(server) = <<"server.transport">>
            ELSE convert_transport(server) \in Seq(Sectional)
         /\ convert_transport(server) = <<>> /\ "trusted_proxy" \in DOMAIN server =>
              /\ "tls" \notin DOMAIN server
              /\ DOMAIN server.trusted_proxy.trusted_sources # {}
<1> DEFINE tls == Option(server, "tls")
           proxy == Option(server, "trusted_proxy")
           sources == IF proxy = None THEN None ELSE Option(proxy[1], "trusted_sources")
           Complain(i) ==
            validation(sources[1][i].valid, "server.trusted_proxy.trusted_sources")
            \o validation(sources[1][i].canonical, "server.trusted_proxy.trusted_sources")
            \o validation(\A j \in 1 .. i - 1 : sources[1][j].net # sources[1][i].net,
                          "server.trusted_proxy.trusted_sources")
<1>1. /\ "tls" \in DOMAIN server => tls # None /\ tls[1] = server.tls
      /\ "tls" \notin DOMAIN server => tls = None
      /\ "trusted_proxy" \in DOMAIN server => proxy # None /\ proxy[1] = server.trusted_proxy
      /\ "trusted_proxy" \notin DOMAIN server => proxy = None
  BY DEF Option, None, Some
<1>2. {"server.tls.certificate", "server.tls.private_key", "server.trusted_proxy.trusted_sources"} \subseteq Sectional
  BY DEF Sectional
<1>3. CASE "tls" \in DOMAIN server /\ "trusted_proxy" \in DOMAIN server
  <2>1. convert_transport(server) = <<"server.transport">>
    BY <1>1, <1>3 DEF convert_transport
  <2>2. QED
    BY <1>3, <2>1
<1>4. CASE "tls" \in DOMAIN server /\ "trusted_proxy" \notin DOMAIN server
  <2> DEFINE t1 == validation("certificate" \in DOMAIN tls[1], "server.tls.certificate")
             t2 == validation("private_key" \in DOMAIN tls[1], "server.tls.private_key")
             t3 == IF "certificate" \in DOMAIN tls[1]
                   THEN validate_literal_path(tls[1].certificate, "server.tls.certificate") ELSE <<>>
             t4 == IF "private_key" \in DOMAIN tls[1]
                   THEN validate_literal_path(tls[1].private_key, "server.tls.private_key") ELSE <<>>
  <2>1. convert_transport(server) = t1 \o t2 \o t3 \o t4
    BY <1>1, <1>4 DEF convert_transport
  <2>2. t1 \in Seq(Sectional) /\ t2 \in Seq(Sectional) /\ t3 \in Seq(Sectional) /\ t4 \in Seq(Sectional)
    BY <1>2, OneField, FieldComplaints DEF validation
  <2> HIDE DEF t1, t2, t3, t4
  <2>3. QED
    BY <1>4, <2>1, <2>2, Chain
<1>5. CASE "tls" \notin DOMAIN server /\ "trusted_proxy" \notin DOMAIN server
  BY <1>1, <1>5, OneField DEF convert_transport
<1>6. CASE "tls" \notin DOMAIN server /\ "trusted_proxy" \in DOMAIN server
  <2>1. CASE sources \in {None, Some(<<>>)}
    <3>1. convert_transport(server) = <<"server.trusted_proxy.trusted_sources">>
      BY <1>1, <1>6, <2>1 DEF convert_transport
    <3>2. QED
      BY <1>2, <1>6, <3>1, OneField
  <2>2. CASE sources \notin {None, Some(<<>>)}
    <3> DEFINE list == server.trusted_proxy.trusted_sources
    <3>1. "trusted_sources" \in DOMAIN server.trusted_proxy /\ sources = <<list>>
      BY <1>1, <1>6, <2>2 DEF Option, None, Some
    <3>2. list # <<>> /\ sources[1] = list
      <4> HIDE DEF sources, list
      <4> QED
        BY <2>2, <3>1 DEF Some
    <3>3. IsSeq(list)
      BY <1>6, <3>1
    <3>4. DOMAIN list \subseteq Nat /\ DOMAIN list # {}
      BY <3>2, <3>3 DEF IsSeq
    <3>5. ASSUME NEW i PROVE Complain(i) \in Seq(Sectional)
      <4> DEFINE c1 == validation(sources[1][i].valid, "server.trusted_proxy.trusted_sources")
                 c2 == validation(sources[1][i].canonical, "server.trusted_proxy.trusted_sources")
                 c3 == validation(\A j \in 1 .. i - 1 : sources[1][j].net # sources[1][i].net,
                                  "server.trusted_proxy.trusted_sources")
      <4>1. c1 \in Seq(Sectional) /\ c2 \in Seq(Sectional) /\ c3 \in Seq(Sectional)
        BY <1>2, OneField DEF validation
      <4> HIDE DEF c1, c2, c3
      <4>2. c1 \o c2 \o c3 \in Seq(Sectional)
        BY <4>1, Chain
      <4>3. QED
        BY <4>2 DEF c1, c2, c3
    <3>6. convert_transport(server) = FirstComplaint([i \in DOMAIN sources[1] |-> Complain(i)])
      BY <1>1, <1>6, <2>2 DEF convert_transport
    <3> HIDE DEF Complain, sources
    <3>7. FirstComplaint([i \in DOMAIN list |-> Complain(i)]) \in Seq(Sectional)
      BY <3>4, <3>5, FirstOfList
    <3>8. QED
      BY <1>6, <3>2, <3>4, <3>6, <3>7
  <2>3. QED
    BY <2>1, <2>2
<1>7. QED
  BY <1>3, <1>4, <1>5, <1>6

\* A mapping of users is complained about as such.
LEMMA MappingFields ==
  ASSUME NEW mapping
  PROVE  MappingComplaints(mapping) \in Seq(Sectional)
<1> DEFINE m1 == validation(DOMAIN mapping # {}, "targets.user_mapping")
           m2 == validation(\A who \in DOMAIN mapping :
                               /\ validate_identity(who, "") = <<>>
                               /\ validate_username_value(mapping[who]),
                            "targets.user_mapping")
<1>1. m1 \in Seq(Sectional) /\ m2 \in Seq(Sectional)
  BY OneField DEF validation, Sectional
<1>2. MappingComplaints(mapping) = m1 \o m2
  BY DEF MappingComplaints
<1> HIDE DEF m1, m2
<1>3. QED
  BY <1>1, <1>2, Chain

\* So is a user policy.
LEMMA PolicyFields ==
  ASSUME NEW target, target.user_policy \in {"same-as-auth-user", "fixed", "mapping"}
  PROVE  UserPolicyComplaints(target) \in Seq(Sectional)
<1> DEFINE no_user == validation("user" \notin DOMAIN target, "targets.user")
           no_mapping == validation("user_mapping" \notin DOMAIN target, "targets.user_mapping")
           user == validation("user" \in DOMAIN target, "targets.user")
           mapping == validation("user_mapping" \in DOMAIN target, "targets.user_mapping")
           good_user == IF "user" \in DOMAIN target THEN validate_username(target.user, "targets.user") ELSE <<>>
           good_mapping == IF "user_mapping" \in DOMAIN target THEN MappingComplaints(target.user_mapping) ELSE <<>>
<1>1. {"targets.user", "targets.user_mapping"} \subseteq Sectional
  BY DEF Sectional
<1>2. /\ no_user \in Seq(Sectional) /\ no_mapping \in Seq(Sectional)
      /\ user \in Seq(Sectional) /\ mapping \in Seq(Sectional)
  BY <1>1, OneField DEF validation
<1>3. good_user \in Seq(Sectional) /\ good_mapping \in Seq(Sectional)
  BY <1>1, OneField, FieldComplaints, MappingFields
<1>4. CASE target.user_policy = "same-as-auth-user"
  <2>1. UserPolicyComplaints(target) = no_user \o no_mapping
    BY <1>4 DEF UserPolicyComplaints, reject_stray_policy_fields
  <2> HIDE DEF no_user, no_mapping
  <2>2. QED
    BY <1>2, <2>1, Chain
<1>5. CASE target.user_policy = "fixed"
  <2>1. UserPolicyComplaints(target) = no_mapping \o user \o good_user
    BY <1>5 DEF UserPolicyComplaints
  <2> HIDE DEF no_mapping, user, good_user
  <2>2. QED
    BY <1>2, <1>3, <2>1, Chain
<1>6. CASE target.user_policy = "mapping"
  <2>1. UserPolicyComplaints(target) = no_user \o mapping \o good_mapping
    BY <1>6 DEF UserPolicyComplaints
  <2> HIDE DEF no_user, mapping, good_mapping
  <2>2. QED
    BY <1>2, <1>3, <2>1, Chain
<1>7. QED
  BY <1>4, <1>5, <1>6

\* convert_target complains about the fields of its target.
LEMMA TargetFields ==
  ASSUME NEW target, target.type \in {"pty", "ssh"},
         target.type = "ssh" => target.user_policy \in {"same-as-auth-user", "fixed", "mapping"}
  PROVE  convert_target(target) \in Seq(Sectional)
<1>1. {"targets.command", "targets.command[0]", "targets.name", "targets.host", "targets.port",
       "targets.ssh_executable", "targets.identity_file", "targets.known_hosts"} \subseteq Sectional
  BY DEF Sectional
<1>2. CASE target.type = "pty"
  <2> DEFINE p1 == validate_literal_path(target.command[1], "targets.command[0]")
             p2 == validate_target_name(target.name, "targets.name")
  <2>1. p1 \in Seq(Sectional) /\ p2 \in Seq(Sectional) /\ <<"targets.command">> \in Seq(Sectional)
    BY <1>1, OneField, FieldComplaints
  <2>2. convert_target(target) = IF target.command = <<>> THEN <<"targets.command">> ELSE p1 \o p2
    BY <1>2 DEF convert_target
  <2> HIDE DEF p1, p2
  <2>3. QED
    BY <2>1, <2>2, Chain
<1>3. CASE target.type = "ssh"
  <2> DEFINE p1 == validate_target_name(target.name, "targets.name")
             p2 == validate_nonempty(target.host, "targets.host")
             p3 == validation(target.port # 0, "targets.port")
             p4 == validate_literal_path(target.ssh_executable, "targets.ssh_executable")
             p5 == validate_ssh_option_path(target.identity_file, "targets.identity_file")
             p6 == validate_ssh_option_path(target.known_hosts, "targets.known_hosts")
             p7 == UserPolicyComplaints(target)
  <2>1. /\ p1 \in Seq(Sectional) /\ p2 \in Seq(Sectional) /\ p3 \in Seq(Sectional)
        /\ p4 \in Seq(Sectional) /\ p5 \in Seq(Sectional) /\ p6 \in Seq(Sectional)
    BY <1>1, OneField, FieldComplaints DEF validation
  <2>2. p7 \in Seq(Sectional)
    BY <1>3, PolicyFields
  <2>3. convert_target(target) = p1 \o p2 \o p3 \o p4 \o p5 \o p6 \o p7
    BY <1>3 DEF convert_target
  <2> HIDE DEF p1, p2, p3, p4, p5, p6, p7
  <2>4. QED
    BY <2>1, <2>2, <2>3, Chain
<1>4. QED
  BY <1>2, <1>3

\* The checks of the allowlist are those of a target's fields too.
LEMMA TypedTargetFields ==
  ASSUME NEW target
  PROVE  validate_typed_target(target) \in Seq(Sectional)
<1> DEFINE p0 == validate_target_name(target.name, "targets.name")
           e == validate_literal_path(target.executable, "targets.command[0]")
           p1 == validate_nonempty(target.host, "targets.host")
           p2 == validation(canonical_ssh_host(target.host) # None, "targets.host")
           p3 == validation(target.port # 0, "targets.port")
           p4 == validate_literal_path(target.ssh_executable, "targets.ssh_executable")
           p5 == validate_ssh_option_path(target.identity_file, "targets.identity_file")
           p6 == validate_ssh_option_path(target.known_hosts, "targets.known_hosts")
           p7 == CASE target.user_policy.kind = "fixed" ->
                       validate_username(target.user_policy.user, "targets.user")
                  [] target.user_policy.kind = "mapping" ->
                       MappingComplaints(target.user_policy.mapping)
                  [] OTHER -> <<>>
<1>1. {"targets.command[0]", "targets.name", "targets.host", "targets.port", "targets.user",
       "targets.ssh_executable", "targets.identity_file", "targets.known_hosts"} \subseteq Sectional
  BY DEF Sectional
<1>2. /\ p0 \in Seq(Sectional) /\ e \in Seq(Sectional) /\ p1 \in Seq(Sectional) /\ p2 \in Seq(Sectional)
      /\ p3 \in Seq(Sectional) /\ p4 \in Seq(Sectional) /\ p5 \in Seq(Sectional) /\ p6 \in Seq(Sectional)
  BY <1>1, OneField, FieldComplaints DEF validation
<1>3. p7 \in Seq(Sectional)
  <2>1. CASE target.user_policy.kind = "fixed"
    BY <1>1, <2>1, FieldComplaints
  <2>2. CASE target.user_policy.kind = "mapping"
    BY <2>2, MappingFields
  <2>3. CASE target.user_policy.kind \notin {"fixed", "mapping"}
    BY <2>3, OneField
  <2>4. QED
    BY <2>1, <2>2, <2>3
<1>4. validate_typed_target(target) =
        p0 \o (IF target.type = "pty" THEN e ELSE p1 \o p2 \o p3 \o p4 \o p5 \o p6 \o p7)
  BY DEF validate_typed_target
<1> HIDE DEF p0, e, p1, p2, p3, p4, p5, p6, p7
<1>5. QED
  BY <1>2, <1>3, <1>4, Chain

\* TargetAllowlist::new complains about a target's fields, and accepts no name twice.
LEMMA AllowlistFields ==
  ASSUME NEW targets, DOMAIN targets \subseteq Nat
  PROVE  /\ TargetAllowlist(targets) \in Seq(Sectional)
         /\ TargetAllowlist(targets) = <<>> =>
              \A i \in DOMAIN targets : \A j \in 1 .. i - 1 : targets[j].name # targets[i].name
<1> DEFINE typed(i) == validate_typed_target(targets[i])
           once(i) == validation(\A j \in 1 .. i - 1 : targets[j].name # targets[i].name, "targets.name")
           lists == [i \in DOMAIN targets |-> typed(i) \o once(i)]
<1>1. ASSUME NEW i
      PROVE  /\ typed(i) \in Seq(Sectional) /\ once(i) \in Seq(Sectional)
             /\ once(i) = <<>> => \A j \in 1 .. i - 1 : targets[j].name # targets[i].name
  BY TypedTargetFields, OneField DEF validation, Sectional
<1>2. TargetAllowlist(targets) = FirstComplaint(lists)
  BY DEF TargetAllowlist
<1> HIDE DEF typed, once
<1>3. \A i \in DOMAIN lists : lists[i] \in Seq(Sectional)
  BY <1>1, Chain
<1>4. /\ FirstComplaint(lists) \in Seq(Sectional)
      /\ FirstComplaint(lists) = <<>> => \A i \in DOMAIN lists : lists[i] = <<>>
  <2>1. DOMAIN lists \subseteq Nat
    OBVIOUS
  <2> HIDE DEF lists
  <2>2. QED
    BY <1>3, <2>1, FirstOfList
<1>5. ASSUME FirstComplaint(lists) = <<>>, NEW i \in DOMAIN targets PROVE once(i) = <<>>
  <2>1. typed(i) \o once(i) = <<>>
    BY <1>4, <1>5
  <2>2. QED
    BY <1>1, <2>1, Chain
<1>6. QED
  BY <1>1, <1>2, <1>4, <1>5

-----------------------------------------------------------------------------
(* config::parse.                                                           *)

\* What a configuration that passes validate_startup_contract has.
Contract(c) ==
    /\ OriginOnly(c.public_url)
    /\ c.public_url.scheme = (IF c.transport.kind = "plaintext" THEN "http" ELSE "https")
    /\ c.auth.provider = "dev" => c.bind = "loopback"
    /\ ~ (c.mode = "production" /\ c.auth.provider = "dev")
    /\ c.auth.provider = "trusted-proxy" <=> c.transport.kind = "trusted_proxy"

\* The contract is kept, or the first complaint is about the URL or names a
\* combination that is not in order.
LEMMA ContractComplaints ==
  ASSUME NEW c
  PROVE  LET v == validate_startup_contract(c) IN
         /\ v \in Seq(Fields)
         /\ v = <<>> => Contract(c)
         /\ v # <<>> =>
              \/ Head(v) \in Sectional
              \/ c.auth.provider = "dev" /\ c.bind # "loopback"
              \/ c.bind # "loopback" /\ c.transport.kind = "plaintext"
              \/ c.mode = "production" /\ c.auth.provider = "dev"
              \/ ~ (c.auth.provider = "trusted-proxy" <=> c.transport.kind = "trusted_proxy")
<1> DEFINE v1 == validation(c.public_url.parses, "server.public_url")
           v2 == validation(OriginOnly(c.public_url), "server.public_url")
           v3 == validation(c.public_url.scheme =
                              (IF c.transport.kind = "plaintext" THEN "http" ELSE "https"),
                            "server.public_url")
           v4 == validation(c.auth.provider = "dev" => c.bind = "loopback", "server.bind")
           v5 == validation(~ (/\ c.mode = "production"
                               /\ c.bind # "loopback"
                               /\ c.transport.kind = "plaintext"), "server.transport")
           v6 == validation(~ (c.mode = "production" /\ c.auth.provider = "dev"), "auth.provider")
           v7 == validation((c.auth.provider = "trusted-proxy")
                              <=> (c.transport.kind = "trusted_proxy"), "auth.provider")
           v == validate_startup_contract(c)
<1>1. "server.public_url" \in Sectional /\ {"server.public_url"} \cup Combined \subseteq Fields
  BY DEF Sectional, Fields, Combined
<1>2. /\ v1 \in Seq(Fields) /\ v2 \in Seq(Fields) /\ v3 \in Seq(Fields) /\ v4 \in Seq(Fields)
      /\ v5 \in Seq(Fields) /\ v6 \in Seq(Fields) /\ v7 \in Seq(Fields)
  BY <1>1, OneField DEF validation, Combined
<1>3. /\ v1 # <<>> => Head(v1) \in Sectional
      /\ v2 # <<>> => Head(v2) \in Sectional
      /\ v3 # <<>> => Head(v3) \in Sectional
  BY <1>1, OneField DEF validation
<1>4. ASSUME v2 = <<>>, v3 = <<>>, v4 = <<>>, v6 = <<>>, v7 = <<>> PROVE Contract(c)
  BY <1>4 DEF validation, Contract
<1>5. /\ v4 # <<>> => c.auth.provider = "dev" /\ c.bind # "loopback"
      /\ v5 # <<>> => c.bind # "loopback" /\ c.transport.kind = "plaintext"
      /\ v6 # <<>> => c.mode = "production" /\ c.auth.provider = "dev"
      /\ v7 # <<>> => ~ (c.auth.provider = "trusted-proxy" <=> c.transport.kind = "trusted_proxy")
  BY DEF validation
<1>6. v = v1 \o v2 \o v3 \o v4 \o v5 \o v6 \o v7
  BY DEF validate_startup_contract
<1> HIDE DEF v1, v2, v3, v4, v5, v6, v7, v
<1>7. v \in Seq(Fields) /\ (v = <<>> => v2 = <<>> /\ v3 = <<>> /\ v4 = <<>> /\ v6 = <<>> /\ v7 = <<>>)
  BY <1>2, <1>6, Chain
<1>8. ASSUME v # <<>>, v4 = <<>>, v5 = <<>>, v6 = <<>>, v7 = <<>> PROVE Head(v) \in Sectional
  <2>1. v = v1 \o v2 \o v3
    BY <1>2, <1>6, <1>8, Chain, ConcatEmptySeq
  <2>2. v1 \o v2 \in Seq(Fields)
    BY <1>2, Chain
  <2>3. CASE v1 # <<>>
    BY <1>2, <1>3, <2>1, <2>2, <2>3, Chain
  <2>4. CASE v1 = <<>> /\ v2 # <<>>
    BY <1>2, <1>3, <2>1, <2>4, Chain
  <2>5. CASE v1 = <<>> /\ v2 = <<>>
    BY <1>2, <1>3, <1>8, <2>1, <2>5, Chain
  <2>6. QED
    BY <2>3, <2>4, <2>5
<1>9. QED
  BY <1>4, <1>5, <1>7, <1>8 DEF v

\* What config::load has found of a file it accepts.
Accepted(file) ==
    /\ RawConfig(file) /\ convert_transport(file.server) = <<>>
    /\ UsableLimits(Limits(file.limits))
    /\ TargetAllowlist(ServerConfig(file).targets) = <<>>
    /\ Contract(ServerConfig(file))

\* config::parse accepts only files that pass every check, and names a combination
\* only where it is not one of the matrix.
LEMMA ParsedFile ==
  ASSUME NEW file, RawConfig(file) => RawTypes(file)
  PROVE  /\ Parse(file).ok => Parse(file).config = ServerConfig(file) /\ Accepted(file)
         /\ ~ Parse(file).ok /\ Parse(file).field \in Combined => ~ Matrix(file)
<1> DEFINE s1 == convert_transport(file.server)
           s2 == convert_auth(file.auth)
           s3 == FirstComplaint([i \in DOMAIN file.targets |-> convert_target(file.targets[i])])
           s4 == validate_literal_path(file.audit.path, "audit.path")
           s5 == validate_nonempty(file.server.public_url, "server.public_url")
           s6 == validate_limits(file.limits)
           sections == s1 \o s2 \o s3 \o s4 \o s5 \o s6
           c == ServerConfig(file)
           w1 == TargetAllowlist(c.targets)
           w2 == validate_startup_contract(c)
           whole == w1 \o w2
<1>1. Sectional \cap Combined = {} /\ Sectional \subseteq Fields /\ Combined \subseteq Fields
  BY DEF Sectional, Combined, Fields
<1>2. CASE ~ RawConfig(file)
  <2>1. Parse(file) = Refused(<<"syntax">>)
    BY <1>2 DEF Parse
  <2>2. Parse(file) = [ok |-> FALSE, field |-> "syntax"] /\ "syntax" \in Sectional
    BY <2>1 DEF Refused, Sectional
  <2>3. QED
    BY <1>1, <2>2
<1>3. CASE RawConfig(file)
  <2>1. RawTypes(file)
    BY <1>3
  <2>2. /\ IF "tls" \in DOMAIN file.server /\ "trusted_proxy" \in DOMAIN file.server
           THEN s1 = <<"server.transport">> ELSE s1 \in Seq(Sectional)
        /\ s1 \in Seq(Fields)
    <3>1. "trusted_proxy" \in DOMAIN file.server /\ "trusted_sources" \in DOMAIN file.server.trusted_proxy
            => IsSeq(file.server.trusted_proxy.trusted_sources)
      BY <2>1 DEF RawTypes
    <3>2. IF "tls" \in DOMAIN file.server /\ "trusted_proxy" \in DOMAIN file.server
          THEN s1 = <<"server.transport">> ELSE s1 \in Seq(Sectional)
      BY <3>1, TransportComplaints
    <3>3. <<"server.transport">> \in Seq(Fields)
      BY <1>1, OneField DEF Combined
    <3> HIDE DEF s1
    <3>4. s1 \in Seq(Sectional) => s1 \in Seq(Fields)
      BY <1>1
    <3>5. QED
      BY <3>2, <3>3, <3>4
  <2>3. s2 \in Seq(Sectional)
    BY AuthComplaints
  <2>4. s3 \in Seq(Sectional)
    <3> DEFINE lists == [i \in DOMAIN file.targets |-> convert_target(file.targets[i])]
    <3>1. DOMAIN lists \subseteq Nat
      BY <2>1 DEF RawTypes, IsSeq
    <3>2. \A i \in DOMAIN lists : lists[i] \in Seq(Sectional)
      BY <2>1, TargetFields DEF RawTypes
    <3> HIDE DEF lists
    <3>3. FirstComplaint(lists) \in Seq(Sectional)
      BY <3>1, <3>2, FirstOfList
    <3>4. QED
      BY <3>3 DEF lists
  <2>5. s4 \in Seq(Sectional) /\ s5 \in Seq(Sectional)
    BY FieldComplaints, ZenonT(60) DEF Sectional
  <2>6. s6 \in Seq(Sectional) /\ (s6 = <<>> => UsableLimits(Limits(file.limits)))
    BY LimitsComplaints
  <2>7. Parse(file) = IF sections # <<>> THEN Refused(sections)
                      ELSE IF whole # <<>> THEN Refused(whole) ELSE [ok |-> TRUE, config |-> c]
    BY <1>3 DEF Parse
  <2>8. w1 \in Seq(Sectional)
    <3>1. DOMAIN c.targets \subseteq Nat
      BY <2>1 DEF ServerConfig, RawTypes, IsSeq
    <3>2. QED
      BY <3>1, AllowlistFields
  <2>9. /\ w2 \in Seq(Fields) /\ (w2 = <<>> => Contract(c))
        /\ w2 # <<>> =>
              \/ Head(w2) \in Sectional
              \/ c.auth.provider = "dev" /\ c.bind # "loopback"
              \/ c.bind # "loopback" /\ c.transport.kind = "plaintext"
              \/ c.mode = "production" /\ c.auth.provider = "dev"
              \/ ~ (c.auth.provider = "trusted-proxy" <=> c.transport.kind = "trusted_proxy")
    BY ContractComplaints
  <2>10. /\ "tls" \in DOMAIN file.server /\ "trusted_proxy" \in DOMAIN file.server => ~ Matrix(file)
         /\ /\ "tls" \notin DOMAIN file.server \/ "trusted_proxy" \notin DOMAIN file.server
            /\ \/ c.auth.provider = "dev" /\ c.bind # "loopback"
               \/ c.bind # "loopback" /\ c.transport.kind = "plaintext"
               \/ c.mode = "production" /\ c.auth.provider = "dev"
               \/ ~ (c.auth.provider = "trusted-proxy" <=> c.transport.kind = "trusted_proxy")
            => ~ Matrix(file)
    <3>1. /\ c.bind = file.server.bind /\ c.mode = file.server.mode
          /\ c.transport = ServerTransport(file.server) /\ c.auth = AuthConfig(file.auth)
      BY DEF ServerConfig
    <3>2. c.auth.provider = file.auth.provider
      BY <2>1, <3>1 DEF AuthConfig, RawTypes
    <3>3. /\ c.transport.kind = "plaintext" <=>
               "tls" \notin DOMAIN file.server /\ "trusted_proxy" \notin DOMAIN file.server
          /\ c.transport.kind = "trusted_proxy" <=>
               "tls" \notin DOMAIN file.server /\ "trusted_proxy" \in DOMAIN file.server
      BY <3>1 DEF ServerTransport
    <3> HIDE DEF c
    <3>4. QED
      BY <2>1, <3>1, <3>2, <3>3 DEF Matrix, RawTypes
  <2> HIDE DEF s1, s2, s3, s4, s5, s6, w1, w2, c
  <2>11. /\ s2 \in Seq(Fields) /\ s3 \in Seq(Fields) /\ s4 \in Seq(Fields) /\ s5 \in Seq(Fields)
         /\ s6 \in Seq(Fields) /\ w1 \in Seq(Fields)
    BY <1>1, <2>3, <2>4, <2>5, <2>6, <2>8
  <2>12. sections = <<>> => s1 = <<>> /\ s6 = <<>>
    BY <2>2, <2>11, Chain
  <2>13. CASE sections # <<>>
    <3>1. Parse(file) = [ok |-> FALSE, field |-> Head(sections)]
      BY <2>7, <2>13 DEF Refused
    <3>2. ASSUME "tls" \notin DOMAIN file.server \/ "trusted_proxy" \notin DOMAIN file.server
          PROVE  Head(sections) \in Sectional
      <4>1. sections \in Seq(Sectional)
        BY <2>2, <2>3, <2>4, <2>5, <2>6, <3>2, Chain
      <4> HIDE DEF sections
      <4>2. QED
        BY <2>13, <4>1, HeadTailProperties
    <3> HIDE DEF sections
    <3>3. QED
      BY <1>1, <2>10, <3>1, <3>2
  <2>14. CASE sections = <<>> /\ whole # <<>>
    <3>1. Parse(file) = [ok |-> FALSE, field |-> Head(whole)]
      BY <2>7, <2>14 DEF Refused
    <3>2. "tls" \notin DOMAIN file.server \/ "trusted_proxy" \notin DOMAIN file.server
      BY <2>2, <2>12, <2>14
    <3>3. CASE w1 # <<>>
      <4>1. Head(whole) = Head(w1) /\ Head(w1) \in Sectional
        BY <2>8, <2>9, <2>11, <3>3, Chain, HeadTailProperties
      <4> HIDE DEF whole
      <4>2. QED
        BY <1>1, <3>1, <4>1
    <3>4. CASE w1 = <<>>
      <4>1. whole = w2
        BY <2>9, <2>11, <3>4, Chain
      <4>2. QED
        BY <1>1, <2>9, <2>10, <2>14, <3>1, <3>2, <4>1
    <3>5. QED
      BY <3>3, <3>4
  <2>15. CASE sections = <<>> /\ whole = <<>>
    <3>1. Parse(file) = [ok |-> TRUE, config |-> c]
      BY <2>7, <2>15
    <3>2. s1 = <<>> /\ s6 = <<>> /\ w1 = <<>> /\ w2 = <<>>
      BY <2>9, <2>11, <2>12, <2>15, Chain
    <3>3. QED
      BY <1>3, <2>6, <2>9, <3>1, <3>2 DEF Accepted, s1, w1, c
  <2>16. QED
    BY <2>13, <2>14, <2>15
<1>4. QED
  BY <1>2, <1>3

-----------------------------------------------------------------------------
(* Places in the program of a start.                                        *)

\* One step of a program that has come to its k-th call.
LEMMA Advance ==
  ASSUME NEW S, NEW program \in Seq(S), NEW k \in 1 .. Len(program),
         NEW rest, rest = SubSeq(program, k, Len(program))
  PROVE  /\ rest # <<>> /\ Head(rest) = program[k]
         /\ k < Len(program) => Tail(rest) = SubSeq(program, k + 1, Len(program))
<1>1. Len(rest) = Len(program) - k + 1 /\ rest \in Seq(S)
  BY SubSeqProperties
<1>2. rest # <<>>
  <2>1. Len(rest) > 0
    BY <1>1
  <2>2. Len(<<>>) = 0
    OBVIOUS
  <2>3. QED
    BY ONLY <2>1, <2>2
<1>3. QED
  BY <1>2, HeadTailOfSubSeq

\* The beginning of a program is all of it.
LEMMA Beginning ==
  ASSUME NEW S, NEW program \in Seq(S)
  PROVE  program = SubSeq(program, 1, Len(program))
BY SubSeqProperties

Calls == [op : {"open", "read", "stat", "pair", "recheck", "probe", "await", "keep", "audit_path",
                "audit_dir", "audit_file", "build", "bind", "ready", "log", "exec"},
          role : Roles \cup {"none"}, target : Nat]

\* The five calls of TlsProgram.
LEMMA TlsCalls ==
  /\ TlsProgram \in Seq(Calls) /\ Len(TlsProgram) = 5
  /\ TlsProgram[1] = Call("open", "certificate", 0) /\ TlsProgram[2] = Call("read", "certificate", 0)
  /\ TlsProgram[3] = Call("open", "private_key", 0) /\ TlsProgram[4] = Call("read", "private_key", 0)
  /\ TlsProgram[5] = Call("pair", "none", 0)
BY DEF TlsProgram, Call, Calls, Roles, SshRoles

\* The six calls of Finish.
LEMMA FinishCalls ==
  /\ Finish \in Seq(Calls) /\ Len(Finish) = 6
  /\ Finish[1] = Call("audit_path", "none", 0) /\ Finish[2] = Call("audit_dir", "none", 0)
  /\ Finish[3] = Call("audit_file", "none", 0) /\ Finish[4] = Call("build", "none", 0)
  /\ Finish[5] = Call("bind", "none", 0) /\ Finish[6] = Call("ready", "none", 0)
BY DEF Finish, Call, Calls

\* The eighteen calls of PrepareTarget.
LEMMA TargetCalls ==
  ASSUME NEW i \in Nat
  PROVE  LET p == PrepareTarget(i) IN
         /\ p \in Seq(Calls) /\ Len(p) = 18
         /\ p[1] = Call("open", "executable", i) /\ p[2] = Call("read", "executable", i)
         /\ p[3] = Call("stat", "executable", i) /\ p[4] = Call("open", "known_hosts", i)
         /\ p[5] = Call("read", "known_hosts", i) /\ p[6] = Call("stat", "known_hosts", i)
         /\ p[7] = Call("open", "identity", i) /\ p[8] = Call("read", "identity", i)
         /\ p[9] = Call("stat", "identity", i) /\ p[10] = Call("recheck", "executable", i)
         /\ p[11] = Call("recheck", "known_hosts", i) /\ p[12] = Call("recheck", "identity", i)
         /\ p[13] = Call("probe", "none", i) /\ p[14] = Call("await", "none", i)
         /\ p[15] = Call("recheck", "executable", i) /\ p[16] = Call("recheck", "known_hosts", i)
         /\ p[17] = Call("recheck", "identity", i) /\ p[18] = Call("keep", "none", i)
BY DEF PrepareTarget, Call, Calls, Roles, SshRoles

\* The eight calls of ClientProgram.
LEMMA ClientCalls ==
  LET p == ClientProgram IN
  /\ p \in Seq(Calls) /\ Len(p) = 8
  /\ p[1] = Call("recheck", "executable", 0) /\ p[2] = Call("recheck", "known_hosts", 0)
  /\ p[3] = Call("recheck", "identity", 0) /\ p[4] = Call("log", "none", 0)
  /\ p[5] = Call("recheck", "executable", 0) /\ p[6] = Call("recheck", "known_hosts", 0)
  /\ p[7] = Call("recheck", "identity", 0) /\ p[8] = Call("exec", "none", 0)
BY DEF ClientProgram, Call, Calls, Roles, SshRoles

-----------------------------------------------------------------------------
(* The inductive invariant.                                                 *)

C == config.config
SshIndices == {i \in DOMAIN C.targets : C.targets[i].type = "ssh"}

\* Disks stay disks, and directories directories.
GoodDisk(d) ==
    /\ IsDisk(d)
    /\ \A id \in Ids : \A n \in 1 .. 2 : d[id].file[n].type = "dir" => \A f \in Rewrites[id] : f.type = "dir"

\* The configuration is what config::load made of the file.
BootInv ==
    /\ \E s \in Setups : raw = s.raw
    /\ stage \in {"load", "starting", "blocked", "serving", "failed"}
    /\ stage # "load" => config = Parse(raw)
    /\ stage = "load" => prepared = [name \in {} |-> 0] /\ listener = "closed"
    /\ stage \in {"starting", "serving"} => config.ok
    /\ error \notin {"Origin", "Authentication", "Targets", "PreparedTargetSetMismatch"}

\* The file of a snapshot is as it was when the snapshot was taken.
Current(d, s) == d[s.id].stamp[s.inode] = s.stamp

\* A snapshot was taken of a file that was there, on this disk or an earlier one ...
Stamped(d, s) ==
    /\ s.id \in Ids /\ s.inode \in 1 .. 2 /\ s.stamp \in Nat /\ s.stamp <= d[s.id].stamp[s.inode]
    /\ Current(d, s) => d[s.id].file[s.inode].type # "missing"

\* ... and a content was read from it.
Pinned(d, s, content) ==
    Stamped(d, s) /\ (Current(d, s) => d[s.id].file[s.inode].content = content)

\* A role of the target at hand whose file was read and found unchanged.
Snapped(role) == role \in DOMAIN snaps /\ role \in DOMAIN got /\ Pinned(disk, snaps[role], got[role])

\* The listener's pair, once PairTls has passed it.
TlsDone ==
    C.transport.kind = "direct_tls" =>
        /\ {"certificate", "private_key"} \subseteq DOMAIN got
        /\ got["certificate"].pair = got["private_key"].pair

\* The SSH targets below the i-th, and only they, are prepared.
PreparedBelow(i) ==
    /\ \A j \in SshIndices : j < i =>
          C.targets[j].name \in DOMAIN prepared /\ prepared[C.targets[j].name].target = C.targets[j]
    /\ \A name \in DOMAIN prepared : \E j \in SshIndices : j < i /\ C.targets[j].name = name
AllPrepared ==
    /\ \A j \in SshIndices :
          C.targets[j].name \in DOMAIN prepared /\ prepared[C.targets[j].name].target = C.targets[j]
    /\ \A name \in DOMAIN prepared : \E j \in SshIndices : C.targets[j].name = name

\* An audit file as AuditLog::open leaves it.
AuditOpen ==
    /\ audit.dir \in 1 .. 2
    /\ disk[AuditDir].file[audit.dir].type = "dir"
    /\ audit.file.mode \cap GroupOrOther = {}
    /\ audit.file.size = 0 \/ audit.file.content.newline

\* TlsProgram has come to its k-th call.
InTls(k) ==
    /\ todo = SubSeq(TlsProgram, k, 5)
    /\ C.transport.kind = "direct_tls" /\ prepared = [name \in {} |-> 0] /\ listener = "closed"
    /\ k \in {2, 4} => Stamped(disk, held)
    /\ k > 2 => "certificate" \in DOMAIN got
    /\ k > 4 => "private_key" \in DOMAIN got

\* PrepareTarget has come to its k-th call.
InTarget(i, k) ==
    /\ todo = SubSeq(PrepareTarget(i), k, 18)
    /\ TlsDone /\ PreparedBelow(i) /\ listener = "closed"
    /\ k \in {2, 3, 5, 6, 8, 9} => Stamped(disk, held)
    /\ k = 3 => "executable" \in DOMAIN got /\ Pinned(disk, held, got["executable"])
    /\ k = 6 => "known_hosts" \in DOMAIN got /\ Pinned(disk, held, got["known_hosts"])
    /\ k = 9 => "identity" \in DOMAIN got /\ Pinned(disk, held, got["identity"])
    /\ k > 3 => Snapped("executable")
    /\ k > 6 => Snapped("known_hosts")
    /\ k > 9 => Snapped("identity")

\* Finish has come to its k-th call.
InFinish(k) ==
    /\ todo = SubSeq(Finish, k, 6)
    /\ TlsDone /\ AllPrepared
    /\ listener = IF k = 6 THEN "bound" ELSE "closed"
    /\ k = 3 => held.inode \in 1 .. 2 /\ disk[AuditDir].file[held.inode].type = "dir"
    /\ k > 3 => AuditOpen

\* Where a start is, and what it has then.
StartInv ==
    /\ stage = "starting" =>
         \/ \E k \in 1 .. 5 : InTls(k)
         \/ \E i \in SshIndices : \E k \in 1 .. 18 : InTarget(i, k)
         \/ \E k \in 1 .. 6 : InFinish(k)
    /\ stage = "serving" => TlsDone /\ AllPrepared /\ AuditOpen /\ listener = "bound"
    /\ stage = "blocked" => Now.role \in {"certificate", "private_key"} /\ listener = "closed"
    /\ stage = "failed" => listener = "closed"
    /\ ready => stage = "serving"

\* What was prepared has the bytes that were validated, as long as it is unchanged.
PinsInv == \A name \in DOMAIN prepared : \A r \in SshRoles : Pinned(disk, prepared[name].snaps[r], prepared[name].got[r])

\* A client has passed the checks it no longer has before it.
ClientAt(k) ==
    /\ client.todo = SubSeq(ClientProgram, k, 8)
    /\ k > 1 => "executable" \in client.fresh
    /\ k > 2 => "known_hosts" \in client.fresh
    /\ k > 3 => "identity" \in client.fresh
ClientInv ==
    /\ client.state \in {"none", "starting", "refused", "running"}
    /\ client.state = "starting" =>
         /\ stage = "serving"
         /\ {"state", "name", "todo", "fresh", "log"} \subseteq DOMAIN client
         /\ client.fresh \subseteq SshRoles /\ Matching(disk, client.name) \subseteq client.fresh
         /\ \E k \in 1 .. 8 : ClientAt(k)
    /\ client.state = "running" => client.fresh = SshRoles

BootTypes ==
    /\ held.id \in Ids \cup {"none"}
    /\ DOMAIN got \subseteq Roles /\ DOMAIN snaps \subseteq SshRoles
    /\ probe.state \in {"none", "running", "killed", "reaped"}
    /\ listener \in {"closed", "bound"} /\ ready \in BOOLEAN
    /\ changes \in 0 .. MaxChanges

StartupInv == GoodDisk(disk) /\ BootInv /\ BootTypes /\ StartInv /\ PinsInv /\ ClientInv

-----------------------------------------------------------------------------
(* What a step does to the disk.                                            *)

\* A later disk: stamps grow, a file that was there changes only with its stamp, and a
\* directory is still one.
Later(d, e) ==
    /\ GoodDisk(e)
    /\ \A id \in Ids : \A n \in 1 .. 2 :
          /\ d[id].stamp[n] <= e[id].stamp[n]
          /\ e[id].stamp[n] = d[id].stamp[n] /\ d[id].file[n].type # "missing"
                => e[id].file[n] = d[id].file[n]
          /\ d[id].file[n].type = "dir" => e[id].file[n].type = "dir"

\* Snapshots, and what was read under them, keep on a later disk.
LEMMA LaterKeeps ==
  ASSUME NEW d, NEW e, GoodDisk(d), Later(d, e), NEW s
  PROVE  /\ Stamped(d, s) => Stamped(e, s)
         /\ \A content : Pinned(d, s, content) => Pinned(e, s, content)
<1>1. ASSUME Stamped(d, s)
      PROVE  /\ Stamped(e, s)
             /\ Current(e, s) => Current(d, s) /\ e[s.id].file[s.inode] = d[s.id].file[s.inode]
  <2>1. s.id \in Ids /\ s.inode \in 1 .. 2 /\ s.stamp \in Nat /\ s.stamp <= d[s.id].stamp[s.inode]
    BY <1>1 DEF Stamped
  <2>2. d[s.id].stamp[s.inode] \in Nat /\ e[s.id].stamp[s.inode] \in Nat
    <3>1. d[s.id].stamp \in [1 .. 2 -> Nat]
      BY <2>1 DEF GoodDisk, IsDisk
    <3>2. e[s.id].stamp \in [1 .. 2 -> Nat]
      BY <2>1 DEF Later, GoodDisk, IsDisk
    <3>3. QED
      BY ONLY <2>1, <3>1, <3>2
  <2>3. /\ d[s.id].stamp[s.inode] <= e[s.id].stamp[s.inode]
        /\ e[s.id].stamp[s.inode] = d[s.id].stamp[s.inode] /\ d[s.id].file[s.inode].type # "missing"
             => e[s.id].file[s.inode] = d[s.id].file[s.inode]
    BY <2>1 DEF Later
  <2>4. QED
    BY <1>1, <2>1, <2>2, <2>3 DEF Stamped, Current
<1>2. QED
  BY <1>1 DEF Pinned

\* The snapshot a stat takes of a file that is there.
LEMMA SnapshotStamped ==
  ASSUME GoodDisk(disk), NEW id \in Ids
  PROVE  /\ Here(disk, id) \in 1 .. 2
         /\ Opens(id) => Stamped(disk, Snapshot(id))
<1>1. Here(disk, id) \in 1 .. 2
  BY DEF GoodDisk, IsDisk, Here
<1>2. disk[id].stamp[Here(disk, id)] \in Nat
  <2>1. disk[id].stamp \in [1 .. 2 -> Nat]
    BY DEF GoodDisk, IsDisk
  <2>2. QED
    BY ONLY <1>1, <2>1
<1>3. QED
  BY <1>1, <1>2 DEF Opens, File, Snapshot, SnapshotIn, Stamped, Current

\* A Write leaves a later disk.
LEMMA WriteLater ==
  ASSUME GoodDisk(disk), NEW id \in Ids, NEW n \in 1 .. 2, NEW file \in Rewrites[id],
         NEW e, e = [disk EXCEPT ![id].file[n] = file, ![id].stamp[n] = @ + 1]
  PROVE  Later(disk, e)
<1>1. /\ DOMAIN disk = Ids
      /\ \A x \in Ids : /\ DOMAIN disk[x] = {"parent", "here", "file", "stamp"}
                        /\ disk[x].parent \in Ids \cup {""} /\ disk[x].here \in 1 .. 2
                        /\ DOMAIN disk[x].file = 1 .. 2 /\ disk[x].stamp \in [1 .. 2 -> Nat]
                        /\ \A m \in 1 .. 2 : disk[x].file[m].type \in FileTypes
  BY DEF GoodDisk, IsDisk
<1>2. /\ DOMAIN e = Ids /\ \A x \in Ids \ {id} : e[x] = disk[x]
      /\ DOMAIN e[id] = DOMAIN disk[id] /\ e[id].parent = disk[id].parent /\ e[id].here = disk[id].here
      /\ e[id].file = [disk[id].file EXCEPT ![n] = file]
      /\ e[id].stamp = [disk[id].stamp EXCEPT ![n] = @ + 1]
  BY <1>1
<1>3. /\ \A m \in 1 .. 2 : e[id].file[m] = IF m = n THEN file ELSE disk[id].file[m]
      /\ \A m \in 1 .. 2 : e[id].stamp[m] = IF m = n THEN disk[id].stamp[m] + 1 ELSE disk[id].stamp[m]
      /\ e[id].stamp \in [1 .. 2 -> Nat] /\ DOMAIN e[id].file = 1 .. 2
  <2>1. disk[id].stamp \in [1 .. 2 -> Nat] /\ DOMAIN disk[id].file = 1 .. 2
    BY <1>1
  <2>2. /\ \A m \in 1 .. 2 : e[id].file[m] = IF m = n THEN file ELSE disk[id].file[m]
        /\ DOMAIN e[id].file = 1 .. 2
    BY <1>2, <2>1
  <2>3. e[id].stamp \in [1 .. 2 -> Nat]
    BY <1>2, <2>1
  <2>4. \A m \in 1 .. 2 : e[id].stamp[m] = IF m = n THEN disk[id].stamp[m] + 1 ELSE disk[id].stamp[m]
    BY <1>2, <2>1, SMTT(40)
  <2>5. QED
    BY <2>2, <2>3, <2>4
<1>4. IsDisk(e)
  <2>1. \A m \in 1 .. 2 : e[id].file[m].type \in FileTypes
    BY <1>1, <1>3, RewritesAssumption, ZenonT(60)
  <2>2. QED
    BY <1>1, <1>2, <1>3, <2>1 DEF IsDisk
<1>5. \A f, g \in Rewrites[id] : f.type = "dir" => g.type = "dir"
  BY RewritesAssumption
<1>6. GoodDisk(e)
  <2>1. \A x \in Ids : \A m \in 1 .. 2 : disk[x].file[m].type = "dir" => \A f \in Rewrites[x] : f.type = "dir"
    BY DEF GoodDisk
  <2>2. ASSUME NEW x \in Ids, NEW m \in 1 .. 2, e[x].file[m].type = "dir"
        PROVE  \A f \in Rewrites[x] : f.type = "dir"
    <3>1. CASE x = id /\ m = n
      <4>1. file.type = "dir"
        BY ONLY <1>3, <2>2, <3>1
      <4>2. QED
        BY ONLY <1>5, <3>1, <4>1
    <3>2. CASE x # id \/ m # n
      <4>1. e[x].file[m] = disk[x].file[m]
        BY ONLY <1>2, <1>3, <3>2
      <4>2. QED
        BY ONLY <2>1, <2>2, <4>1
    <3>3. QED
      BY ONLY <3>1, <3>2
  <2>3. QED
    BY <1>4, <2>2 DEF GoodDisk
<1>7. \A m \in 1 .. 2 : disk[id].file[m].type = "dir" => e[id].file[m].type = "dir"
  BY <1>3 DEF GoodDisk
<1>8. \A m \in 1 .. 2 : /\ disk[id].stamp[m] <= e[id].stamp[m]
                        /\ e[id].stamp[m] = disk[id].stamp[m] => e[id].file[m] = disk[id].file[m]
  <2> SUFFICES ASSUME NEW m \in 1 .. 2
               PROVE  /\ disk[id].stamp[m] <= e[id].stamp[m]
                      /\ e[id].stamp[m] = disk[id].stamp[m] => e[id].file[m] = disk[id].file[m]
    OBVIOUS
  <2>1. disk[id].stamp[m] \in Nat
    BY <1>1
  <2>2. CASE m = n
    <3>1. e[id].stamp[m] = disk[id].stamp[m] + 1
      BY <1>3, <2>2
    <3>2. QED
      BY <2>1, <3>1
  <2>3. CASE m # n
    <3>1. e[id].stamp[m] = disk[id].stamp[m] /\ e[id].file[m] = disk[id].file[m]
      BY <1>3, <2>3
    <3>2. QED
      BY <2>1, <3>1
  <2>4. QED
    BY <2>2, <2>3
<1>9. \A x \in Ids \ {id} : \A m \in 1 .. 2 : disk[x].stamp[m] <= e[x].stamp[m]
  <2> SUFFICES ASSUME NEW x \in Ids \ {id}, NEW m \in 1 .. 2 PROVE disk[x].stamp[m] <= e[x].stamp[m]
    OBVIOUS
  <2>1. disk[x].stamp \in [1 .. 2 -> Nat] /\ e[x] = disk[x]
    BY <1>1, <1>2
  <2>2. disk[x].stamp[m] \in Nat
    BY <2>1
  <2>3. QED
    BY <2>1, <2>2
<1>10. QED
  <2>1. ASSUME NEW x \in Ids, NEW m \in 1 .. 2
        PROVE  /\ disk[x].stamp[m] <= e[x].stamp[m]
               /\ e[x].stamp[m] = disk[x].stamp[m] => e[x].file[m] = disk[x].file[m]
               /\ disk[x].file[m].type = "dir" => e[x].file[m].type = "dir"
    <3>1. CASE x = id
      BY ONLY <1>7, <1>8, <3>1
    <3>2. CASE x # id
      BY ONLY <1>2, <1>9, <3>2
    <3>3. QED
      BY ONLY <3>1, <3>2
  <2>2. QED
    BY ONLY <1>6, <2>1 DEF Later

\* So does a Swap.
LEMMA SwapLater ==
  ASSUME GoodDisk(disk), NEW id \in Ids, NEW e, e = [disk EXCEPT ![id].here = 3 - @]
  PROVE  Later(disk, e)
<1>1. /\ DOMAIN disk = Ids
      /\ \A x \in Ids : /\ DOMAIN disk[x] = {"parent", "here", "file", "stamp"}
                        /\ disk[x].parent \in Ids \cup {""} /\ disk[x].here \in 1 .. 2
                        /\ DOMAIN disk[x].file = 1 .. 2 /\ disk[x].stamp \in [1 .. 2 -> Nat]
                        /\ \A m \in 1 .. 2 : disk[x].file[m].type \in FileTypes
  BY DEF GoodDisk, IsDisk
<1>2. /\ DOMAIN e = Ids /\ \A x \in Ids \ {id} : e[x] = disk[x]
      /\ DOMAIN e[id] = DOMAIN disk[id] /\ e[id].parent = disk[id].parent /\ e[id].here = 3 - disk[id].here
      /\ e[id].file = disk[id].file /\ e[id].stamp = disk[id].stamp
  BY <1>1
<1>3. \A x \in Ids : e[x].file = disk[x].file /\ e[x].stamp = disk[x].stamp
  BY <1>2
<1>4. 3 - disk[id].here \in 1 .. 2
  <2>1. disk[id].here \in 1 .. 2
    BY <1>1
  <2>2. QED
    BY <2>1
<1>5. IsDisk(e)
  BY <1>1, <1>2, <1>3, <1>4, ZenonT(60) DEF IsDisk
<1>6. GoodDisk(e)
  BY <1>3, <1>5 DEF GoodDisk
<1>7. \A x \in Ids : \A m \in 1 .. 2 : disk[x].stamp[m] <= e[x].stamp[m]
  <2> SUFFICES ASSUME NEW x \in Ids, NEW m \in 1 .. 2 PROVE disk[x].stamp[m] <= e[x].stamp[m]
    OBVIOUS
  <2>1. disk[x].stamp[m] \in Nat
    BY ONLY <1>1
  <2>2. e[x].stamp = disk[x].stamp
    BY ONLY <1>3
  <2>3. QED
    BY ONLY <2>1, <2>2
<1>8. QED
  BY ONLY <1>3, <1>6, <1>7 DEF Later

\* So does the creation of a missing audit file.
LEMMA CreateLater ==
  ASSUME GoodDisk(disk), NEW id \in Ids, NEW n \in 1 .. 2, NEW e, NEW file,
         file = IF disk[id].file[n].type = "missing" THEN NewAuditFile ELSE disk[id].file[n],
         e = [disk EXCEPT ![id].file[n] = file]
  PROVE  Later(disk, e)
<1>1. /\ DOMAIN disk = Ids
      /\ \A x \in Ids : /\ DOMAIN disk[x] = {"parent", "here", "file", "stamp"}
                        /\ disk[x].parent \in Ids \cup {""} /\ disk[x].here \in 1 .. 2
                        /\ DOMAIN disk[x].file = 1 .. 2 /\ disk[x].stamp \in [1 .. 2 -> Nat]
                        /\ \A m \in 1 .. 2 : disk[x].file[m].type \in FileTypes
  BY DEF GoodDisk, IsDisk
<1>2. /\ DOMAIN e = Ids /\ \A x \in Ids \ {id} : e[x] = disk[x]
      /\ DOMAIN e[id] = DOMAIN disk[id] /\ e[id].parent = disk[id].parent /\ e[id].here = disk[id].here
      /\ e[id].file = [disk[id].file EXCEPT ![n] = file] /\ e[id].stamp = disk[id].stamp
  BY <1>1
<1>3. /\ DOMAIN e[id].file = 1 .. 2
      /\ \A m \in 1 .. 2 : e[id].file[m] = IF m = n THEN file ELSE disk[id].file[m]
  <2>1. DOMAIN disk[id].file = 1 .. 2
    BY <1>1
  <2>2. QED
    BY <1>2, <2>1
<1>4. /\ disk[id].file[n].type # "missing" => file = disk[id].file[n]
      /\ disk[id].file[n].type = "missing" => file.type = "file"
  BY SMTT(40) DEF NewAuditFile
<1>5. IsDisk(e)
  <2>1. "file" \in FileTypes
    BY DEF FileTypes
  <2>2. ASSUME NEW m \in 1 .. 2 PROVE e[id].file[m].type \in FileTypes
    <3>1. disk[id].file[m].type \in FileTypes
      BY ONLY <1>1
    <3>2. e[id].file[m] = disk[id].file[m] \/ e[id].file[m].type = "file"
      BY ONLY <1>3, <1>4
    <3>3. QED
      BY ONLY <2>1, <3>1, <3>2
  <2>3. QED
    BY <1>1, <1>2, <1>3, <2>2 DEF IsDisk
<1>6. \A m \in 1 .. 2 : \/ e[id].file[m] = disk[id].file[m]
                        \/ disk[id].file[m].type = "missing" /\ e[id].file[m].type = "file"
  BY <1>3, <1>4
<1>7. GoodDisk(e)
  <2>1. \A x \in Ids : \A m \in 1 .. 2 : disk[x].file[m].type = "dir" => \A f \in Rewrites[x] : f.type = "dir"
    BY DEF GoodDisk
  <2>2. ASSUME NEW x \in Ids, NEW m \in 1 .. 2, e[x].file[m].type = "dir"
        PROVE  disk[x].file[m].type = "dir"
    <3>1. CASE x = id
      BY ONLY <1>6, <2>2, <3>1
    <3>2. CASE x # id
      BY ONLY <1>2, <2>2, <3>2
    <3>3. QED
      BY ONLY <3>1, <3>2
  <2>3. QED
    BY <1>5, <2>1, <2>2 DEF GoodDisk
<1>8. \A x \in Ids : \A m \in 1 .. 2 : disk[x].stamp[m] <= e[x].stamp[m]
  <2> SUFFICES ASSUME NEW x \in Ids, NEW m \in 1 .. 2 PROVE disk[x].stamp[m] <= e[x].stamp[m]
    OBVIOUS
  <2>1. disk[x].stamp[m] \in Nat
    BY <1>1
  <2>2. e[x].stamp = disk[x].stamp
    BY <1>2
  <2>3. QED
    BY <2>1, <2>2
<1>9. ASSUME NEW x \in Ids, NEW m \in 1 .. 2, disk[x].file[m].type # "missing"
      PROVE  e[x].file[m] = disk[x].file[m]
  <2>1. CASE x = id
    BY ONLY <1>6, <1>9, <2>1
  <2>2. CASE x # id
    BY ONLY <1>2, <2>2
  <2>3. QED
    BY ONLY <2>1, <2>2
<1>10. QED
  <2>1. \A x \in Ids : \A m \in 1 .. 2 :
          /\ disk[x].file[m].type # "missing" => e[x].file[m] = disk[x].file[m]
          /\ disk[x].file[m].type = "dir" => e[x].file[m].type = "dir"
    BY ONLY <1>9
  <2>2. QED
    BY ONLY <1>7, <1>8, <2>1 DEF Later

\* A disk that did not change is a later one.
LEMMA SameLater ==
  ASSUME GoodDisk(disk) PROVE Later(disk, disk)
<1>1. ASSUME NEW x \in Ids, NEW m \in 1 .. 2 PROVE disk[x].stamp[m] <= disk[x].stamp[m]
  <2>1. disk[x].stamp[m] \in Nat
    BY DEF GoodDisk, IsDisk
  <2>2. QED
    BY <2>1
<1>2. QED
  BY <1>1 DEF Later

-----------------------------------------------------------------------------
(* What a start knows of its configuration.                                 *)

\* The targets are a list.
LEMMA TargetList ==
  ASSUME NEW file, RawTypes(file)
  PROVE  \E n \in Nat : DOMAIN ServerConfig(file).targets = 1 .. n
<1>1. file.targets \in Seq({file.targets[i] : i \in DOMAIN file.targets})
  BY DEF RawTypes, IsSeq
<1>2. DOMAIN file.targets = 1 .. Len(file.targets) /\ Len(file.targets) \in Nat
  BY <1>1
<1>3. DOMAIN ServerConfig(file).targets = DOMAIN file.targets
  BY DEF ServerConfig
<1>4. QED
  BY <1>2, <1>3

\* A start that goes on has a configuration that passed every check, made of a list of
\* targets and of paths the disk knows.
LEMMA Configured ==
  ASSUME BootInv, stage \in {"starting", "serving"}
  PROVE  /\ C = ServerConfig(raw) /\ Accepted(raw) /\ RawTypes(raw)
         /\ PathIds(C) \subseteq Ids
         /\ \E n \in Nat : DOMAIN C.targets = 1 .. n
<1>1. PICK s \in Setups : raw = s.raw
  BY DEF BootInv
<1>2. config = Parse(raw) /\ config.ok
  BY DEF BootInv
<1>3. RawConfig(raw) => RawTypes(raw)
  BY <1>1, SetupsAssumption
<1>4. C = ServerConfig(raw) /\ Accepted(raw)
  BY <1>2, <1>3, ParsedFile DEF C
<1>5. PathIds(C) \subseteq Ids
  BY <1>1, <1>2, SetupsAssumption DEF C
<1>6. RawTypes(raw)
  BY <1>3, <1>4 DEF Accepted
<1>7. QED
  BY <1>4, <1>5, <1>6, TargetList

\* The indices of the SSH targets are natural numbers, and there are finitely many.
LEMMA Indices ==
  ASSUME BootInv, stage \in {"starting", "serving"}
  PROVE  SshIndices \subseteq Nat \ {0} /\ IsFiniteSet(SshIndices)
<1>1. PICK n \in Nat : DOMAIN C.targets = 1 .. n
  BY Configured
<1>2. IsFiniteSet(1 .. n)
  BY FS_Interval
<1>3. SshIndices \subseteq 1 .. n
  BY <1>1 DEF SshIndices
<1>4. IsFiniteSet(SshIndices)
  BY <1>2, <1>3, FS_Subset
<1>5. QED
  BY <1>3, <1>4

\* The paths a start opens.
LEMMA Paths ==
  ASSUME BootInv, stage \in {"starting", "serving"}
  PROVE  /\ AuditDir \in Ids /\ AuditId \in Ids
         /\ C.transport.kind = "direct_tls" =>
              C.transport.certificate.id \in Ids /\ C.transport.private_key.id \in Ids
         /\ \A i \in SshIndices : /\ C.targets[i].ssh_executable.id \in Ids
                                  /\ C.targets[i].known_hosts.id \in Ids
                                  /\ C.targets[i].identity_file.id \in Ids
<1>1. PathIds(C) \subseteq Ids
  BY Configured
<1>2. AuditDir \in PathIds(C) /\ AuditId \in PathIds(C)
  BY DEF PathIds, AuditDir, AuditId, C
<1>3. C.transport.kind = "direct_tls" =>
        C.transport.certificate.id \in PathIds(C) /\ C.transport.private_key.id \in PathIds(C)
  BY SMTT(40) DEF PathIds
<1>4. \A i \in SshIndices : {C.targets[i].ssh_executable.id, C.targets[i].known_hosts.id,
                             C.targets[i].identity_file.id} \subseteq PathIds(C)
  BY DEF PathIds, SshIndices
<1>5. QED
  BY <1>1, <1>2, <1>3, <1>4

\* No two targets have a name.
LEMMA NamesDiffer ==
  ASSUME BootInv, stage \in {"starting", "serving"}, NEW i \in SshIndices, NEW j \in SshIndices,
         C.targets[i].name = C.targets[j].name
  PROVE  i = j
<1>1. PICK n \in Nat : DOMAIN C.targets = 1 .. n
  BY Configured
<1>2. TargetAllowlist(C.targets) = <<>>
  BY Configured DEF Accepted
<1>3. i \in 1 .. n /\ j \in 1 .. n
  BY <1>1 DEF SshIndices
<1>4. \A x \in 1 .. n : \A y \in 1 .. x - 1 : C.targets[y].name # C.targets[x].name
  BY <1>1, <1>2, AllowlistFields, SMTT(40)
<1>5. ~ (j \in 1 .. i - 1) /\ ~ (i \in 1 .. j - 1)
  BY <1>3, <1>4
<1>6. QED
  BY <1>3, <1>5

-----------------------------------------------------------------------------
(* Where a start is.                                                        *)

\* The k-th call of TlsProgram is at hand.
LEMMA AtTls ==
  ASSUME NEW k \in 1 .. 5, InTls(k)
  PROVE  /\ todo # <<>> /\ Now = TlsProgram[k]
         /\ k < 5 => Tail(todo) = SubSeq(TlsProgram, k + 1, 5)
<1>1. TlsProgram \in Seq(Calls) /\ Len(TlsProgram) = 5
  BY TlsCalls
<1>2. todo = SubSeq(TlsProgram, k, Len(TlsProgram)) /\ k \in 1 .. Len(TlsProgram)
  BY <1>1 DEF InTls
<1>3. QED
  BY <1>1, <1>2, Advance DEF Now

\* The k-th call of PrepareTarget is at hand.
LEMMA AtTarget ==
  ASSUME NEW i \in Nat, NEW k \in 1 .. 18, InTarget(i, k)
  PROVE  /\ todo # <<>> /\ Now = PrepareTarget(i)[k]
         /\ k < 18 => Tail(todo) = SubSeq(PrepareTarget(i), k + 1, 18)
<1>1. PrepareTarget(i) \in Seq(Calls) /\ Len(PrepareTarget(i)) = 18
  BY TargetCalls
<1>2. todo = SubSeq(PrepareTarget(i), k, Len(PrepareTarget(i))) /\ k \in 1 .. Len(PrepareTarget(i))
  BY <1>1 DEF InTarget
<1>3. QED
  BY <1>1, <1>2, Advance, ZenonT(60) DEF Now

\* The k-th call of Finish is at hand.
LEMMA AtFinish ==
  ASSUME NEW k \in 1 .. 6, InFinish(k)
  PROVE  /\ todo # <<>> /\ Now = Finish[k]
         /\ k < 6 => Tail(todo) = SubSeq(Finish, k + 1, 6)
<1>1. Finish \in Seq(Calls) /\ Len(Finish) = 6
  BY FinishCalls
<1>2. todo = SubSeq(Finish, k, Len(Finish)) /\ k \in 1 .. Len(Finish)
  BY <1>1 DEF InFinish
<1>3. QED
  BY <1>1, <1>2, Advance DEF Now

\* What the k-th call of PrepareTarget does, and for which role.
TargetOp(k) ==
    IF k \in {1, 4, 7} THEN "open" ELSE IF k \in {2, 5, 8} THEN "read"
    ELSE IF k \in {3, 6, 9} THEN "stat" ELSE IF k = 13 THEN "probe"
    ELSE IF k = 14 THEN "await" ELSE IF k = 18 THEN "keep" ELSE "recheck"
TargetRole(k) ==
    IF k \in {13, 14, 18} THEN "none"
    ELSE IF k \in {1, 2, 3, 10, 15} THEN "executable"
    ELSE IF k \in {4, 5, 6, 11, 16} THEN "known_hosts" ELSE "identity"

\* The calls of PrepareTarget, by their place.
LEMMA TargetCallAt ==
  ASSUME NEW i \in Nat, NEW k \in 1 .. 18
  PROVE  PrepareTarget(i)[k] = Call(TargetOp(k), TargetRole(k), i)
<1> DEFINE p == PrepareTarget(i)
<1>1. /\ p[1] = Call("open", "executable", i) /\ p[2] = Call("read", "executable", i)
      /\ p[3] = Call("stat", "executable", i) /\ p[4] = Call("open", "known_hosts", i)
      /\ p[5] = Call("read", "known_hosts", i) /\ p[6] = Call("stat", "known_hosts", i)
      /\ p[7] = Call("open", "identity", i) /\ p[8] = Call("read", "identity", i)
      /\ p[9] = Call("stat", "identity", i)
  BY TargetCalls
<1>2. /\ p[10] = Call("recheck", "executable", i)
      /\ p[11] = Call("recheck", "known_hosts", i) /\ p[12] = Call("recheck", "identity", i)
      /\ p[13] = Call("probe", "none", i) /\ p[14] = Call("await", "none", i)
      /\ p[15] = Call("recheck", "executable", i) /\ p[16] = Call("recheck", "known_hosts", i)
      /\ p[17] = Call("recheck", "identity", i) /\ p[18] = Call("keep", "none", i)
  BY TargetCalls
<1> HIDE DEF p
<1>3. CASE k \in {1, 2, 3, 4, 5, 6, 7, 8, 9}
  BY <1>1, <1>3 DEF TargetOp, TargetRole, p
<1>4. CASE k \in {10, 11, 12, 13, 14, 15, 16, 17, 18}
  BY <1>2, <1>4 DEF TargetOp, TargetRole, p
<1>5. QED
  BY <1>3, <1>4

\* A start is in one of its programs, at the call it does.
LEMMA Places ==
  ASSUME BootInv, StartInv, stage = "starting"
  PROVE  \/ \E k \in 1 .. 5 : InTls(k) /\ Now = TlsProgram[k]
         \/ \E i \in SshIndices : \E k \in 1 .. 18 : InTarget(i, k) /\ Now = PrepareTarget(i)[k]
         \/ \E k \in 1 .. 6 : InFinish(k) /\ Now = Finish[k]
<1>1. SshIndices \subseteq Nat
  BY Indices
<1>2. QED
  BY <1>1, AtTls, AtTarget, AtFinish DEF StartInv

\* The places of the calls that read material.
LEMMA MaterialPlaces ==
  ASSUME BootInv, StartInv, stage = "starting"
  PROVE  /\ Now.op = "open" => \/ \E k \in {1, 3} : InTls(k)
                               \/ \E i \in SshIndices : \E k \in {1, 4, 7} : InTarget(i, k)
         /\ Now.op = "read" => \/ \E k \in {2, 4} : InTls(k)
                               \/ \E i \in SshIndices : \E k \in {2, 5, 8} : InTarget(i, k)
         /\ Now.op = "stat" => \E i \in SshIndices : \E k \in {3, 6, 9} : InTarget(i, k)
         /\ Now.op = "pair" => InTls(5)
         /\ Now.op = "recheck" => \E i \in SshIndices : \E k \in {10, 11, 12, 15, 16, 17} : InTarget(i, k)
         /\ Now.op = "probe" => \E i \in SshIndices : InTarget(i, 13)
         /\ Now.op = "await" => \E i \in SshIndices : InTarget(i, 14)
         /\ Now.op = "keep" => \E i \in SshIndices : InTarget(i, 18)
<1>1. SshIndices \subseteq Nat
  BY Indices
<1>2. ASSUME NEW k \in 1 .. 5, InTls(k), Now = TlsProgram[k]
      PROVE  /\ Now.op \in {"open", "read", "pair"}
             /\ Now.op = "open" => k \in {1, 3}
             /\ Now.op = "read" => k \in {2, 4}
             /\ Now.op = "pair" => k = 5
  <2>1. k \in {1, 2, 3, 4, 5}
    OBVIOUS
  <2>2. QED
    BY <1>2, <2>1, TlsCalls DEF Call
<1>3. ASSUME NEW i \in Nat, NEW k \in 1 .. 18, InTarget(i, k), Now = PrepareTarget(i)[k]
      PROVE  /\ Now.op # "pair"
             /\ Now.op = "open" => k \in {1, 4, 7}
             /\ Now.op = "read" => k \in {2, 5, 8}
             /\ Now.op = "stat" => k \in {3, 6, 9}
             /\ Now.op = "recheck" => k \in {10, 11, 12, 15, 16, 17}
             /\ Now.op = "probe" => k = 13
             /\ Now.op = "await" => k = 14
             /\ Now.op = "keep" => k = 18
  <2>1. Now = Call(TargetOp(k), TargetRole(k), i)
    BY <1>3, TargetCallAt
  <2>2. Now.op = TargetOp(k)
    BY <2>1 DEF Call
  <2>3. QED
    BY <2>2 DEF TargetOp
<1>4. ASSUME NEW k \in 1 .. 6, InFinish(k), Now = Finish[k]
      PROVE  Now.op \in {"audit_path", "audit_dir", "audit_file", "build", "bind", "ready"}
  <2>1. k \in {1, 2, 3, 4, 5, 6}
    OBVIOUS
  <2>2. QED
    BY <1>4, <2>1, FinishCalls DEF Call
<1>5. CASE \E k \in 1 .. 5 : InTls(k) /\ Now = TlsProgram[k]
  BY <1>2, <1>5
<1>6. CASE \E i \in SshIndices : \E k \in 1 .. 18 : InTarget(i, k) /\ Now = PrepareTarget(i)[k]
  BY <1>1, <1>3, <1>6
<1>7. CASE \E k \in 1 .. 6 : InFinish(k) /\ Now = Finish[k]
  BY <1>4, <1>7
<1>8. QED
  BY <1>5, <1>6, <1>7, Places

\* The places of the others.
LEMMA FinishPlaces ==
  ASSUME BootInv, StartInv, stage = "starting"
  PROVE  /\ Now.op = "audit_path" => InFinish(1)
         /\ Now.op = "audit_dir" => InFinish(2)
         /\ Now.op = "audit_file" => InFinish(3)
         /\ Now.op = "build" => InFinish(4)
         /\ Now.op = "bind" => InFinish(5)
         /\ Now.op = "ready" => InFinish(6)
<1> DEFINE Ops == {"audit_path", "audit_dir", "audit_file", "build", "bind", "ready"}
<1>1. SshIndices \subseteq Nat
  BY Indices
<1>2. ASSUME NEW k \in 1 .. 5, InTls(k), Now = TlsProgram[k] PROVE Now.op \notin Ops
  <2>1. k \in {1, 2, 3, 4, 5}
    OBVIOUS
  <2>2. QED
    BY <1>2, <2>1, TlsCalls DEF Call
<1>3. ASSUME NEW i \in Nat, NEW k \in 1 .. 18, InTarget(i, k), Now = PrepareTarget(i)[k]
      PROVE  Now.op \notin Ops
  <2>1. Now = Call(TargetOp(k), TargetRole(k), i)
    BY <1>3, TargetCallAt
  <2>2. Now.op = TargetOp(k)
    BY <2>1 DEF Call
  <2>3. QED
    BY <2>2 DEF TargetOp
<1>4. ASSUME NEW k \in 1 .. 6, InFinish(k), Now = Finish[k]
      PROVE  /\ Now.op = "audit_path" => k = 1
             /\ Now.op = "audit_dir" => k = 2
             /\ Now.op = "audit_file" => k = 3
             /\ Now.op = "build" => k = 4
             /\ Now.op = "bind" => k = 5
             /\ Now.op = "ready" => k = 6
  <2>1. k \in {1, 2, 3, 4, 5, 6}
    OBVIOUS
  <2>2. QED
    BY <1>4, <2>1, FinishCalls DEF Call
<1>5. CASE \E k \in 1 .. 5 : InTls(k) /\ Now = TlsProgram[k]
  BY <1>2, <1>5
<1>6. CASE \E i \in SshIndices : \E k \in 1 .. 18 : InTarget(i, k) /\ Now = PrepareTarget(i)[k]
  BY <1>1, <1>3, <1>6
<1>7. CASE \E k \in 1 .. 6 : InFinish(k) /\ Now = Finish[k]
  BY <1>4, <1>7
<1>8. QED
  BY <1>5, <1>6, <1>7, Places

\* The role and the target of the call at hand, and its path.
LEMMA CallAtHand ==
  ASSUME BootInv, stage = "starting"
  PROVE  /\ \A k \in 1 .. 4 : InTls(k) =>
              /\ Now.role = IF k <= 2 THEN "certificate" ELSE "private_key"
              /\ PathNow.id \in Ids
         /\ \A i \in SshIndices : \A k \in {1, 2, 3, 4, 5, 6, 7, 8, 9, 10, 11, 12, 15, 16, 17} : InTarget(i, k) =>
              /\ Now.target = i
              /\ Now.role = TargetRole(k)
              /\ PathNow.id \in Ids
<1>1. SshIndices \subseteq Nat \ {0}
  BY Indices
<1>2. ASSUME NEW k \in 1 .. 4, InTls(k)
      PROVE  /\ Now.role = IF k <= 2 THEN "certificate" ELSE "private_key"
             /\ PathNow.id \in Ids
  <2>1. Now = TlsProgram[k] /\ k \in {1, 2, 3, 4}
    BY <1>2, AtTls
  <2>2. Now.role = IF k <= 2 THEN "certificate" ELSE "private_key"
    BY <2>1, TlsCalls DEF Call
  <2>3. C.transport.certificate.id \in Ids /\ C.transport.private_key.id \in Ids
    BY <1>2, Paths DEF InTls
  <2>4. QED
    BY <2>2, <2>3 DEF PathNow, PathOf, C
<1>3. ASSUME NEW i \in SshIndices,
             NEW k \in {1, 2, 3, 4, 5, 6, 7, 8, 9, 10, 11, 12, 15, 16, 17}, InTarget(i, k)
      PROVE  /\ Now.target = i
             /\ Now.role = TargetRole(k)
             /\ PathNow.id \in Ids
  <2>1. i \in Nat /\ k \in 1 .. 18 /\ k \notin {13, 14, 18}
    BY <1>1
  <2>2. Now.target = i /\ Now.role = TargetRole(k)
    <3>1. Now = PrepareTarget(i)[k]
      BY <1>3, <2>1, AtTarget
    <3>2. Now = Call(TargetOp(k), TargetRole(k), i)
      BY <2>1, <3>1, TargetCallAt
    <3>3. QED
      BY <3>2 DEF Call
  <2>3. /\ C.targets[i].ssh_executable.id \in Ids /\ C.targets[i].known_hosts.id \in Ids
        /\ C.targets[i].identity_file.id \in Ids
    BY Paths
  <2>4. PathNow = PathOf(Now.role, C.targets[i])
    BY <1>1, <2>2 DEF PathNow, TargetNow, C
  <2>5. QED
    BY <2>1, <2>2, <2>3, <2>4 DEF PathOf, TargetRole
<1>4. QED
  BY <1>2, <1>3

-----------------------------------------------------------------------------
(* What a step that leaves something alone keeps.                           *)

\* The configuration is read only once.
LEMMA ConfigKept ==
  ASSUME config' = config
  PROVE  C' = C /\ SshIndices' = SshIndices /\ AuditDir' = AuditDir
BY DEF C, SshIndices, AuditDir

\* Targets stay prepared.
LEMMA PreparedKept ==
  ASSUME config' = config, prepared' = prepared
  PROVE  /\ \A i : PreparedBelow(i) => PreparedBelow(i)'
         /\ AllPrepared => AllPrepared'
BY ConfigKept DEF PreparedBelow, AllPrepared

\* So does what was prepared, as it was.
LEMMA PinsKept ==
  ASSUME GoodDisk(disk), PinsInv, Later(disk, disk'), prepared' = prepared
  PROVE  PinsInv'
BY LaterKeeps DEF PinsInv

\* A role that was read keeps its snapshot.
LEMMA SnappedKept ==
  ASSUME GoodDisk(disk), Later(disk, disk'), NEW role, Snapped(role),
         role \in DOMAIN got', got'[role] = got[role],
         role \in DOMAIN snaps', snaps'[role] = snaps[role]
  PROVE  Snapped(role)'
BY LaterKeeps DEF Snapped

\* The listener keeps its pair.
LEMMA TlsKept ==
  ASSUME config' = config, TlsDone,
         \A r \in {"certificate", "private_key"} \cap DOMAIN got : r \in DOMAIN got' /\ got'[r] = got[r]
  PROVE  TlsDone'
<1>1. C' = C
  BY ConfigKept
<1>2. CASE C.transport.kind = "direct_tls"
  <2>1. /\ "certificate" \in DOMAIN got /\ "private_key" \in DOMAIN got
        /\ got["certificate"].pair = got["private_key"].pair
    BY <1>2 DEF TlsDone
  <2>2. /\ "certificate" \in DOMAIN got' /\ "private_key" \in DOMAIN got'
        /\ got'["certificate"] = got["certificate"] /\ got'["private_key"] = got["private_key"]
    BY <2>1
  <2>3. QED
    BY <2>1, <2>2 DEF TlsDone
<1>3. QED
  BY <1>1, <1>2 DEF TlsDone

\* The audit file stays open in its directory.
LEMMA AuditKept ==
  ASSUME AuditDir \in Ids, Later(disk, disk'), config' = config
  PROVE  /\ audit' = audit /\ AuditOpen => AuditOpen'
         /\ \A n \in 1 .. 2 : disk[AuditDir].file[n].type = "dir" => disk'[AuditDir].file[n].type = "dir"
<1>1. AuditDir' = AuditDir
  BY ConfigKept
<1>2. \A n \in 1 .. 2 : disk[AuditDir].file[n].type = "dir" => disk'[AuditDir].file[n].type = "dir"
  BY DEF Later
<1>3. QED
  BY <1>1, <1>2 DEF AuditOpen

\* A start that fails keeps the invariant, whatever it was doing.
LEMMA FailStep ==
  ASSUME StartupInv, stage \in {"starting", "blocked"}, Later(disk, disk'),
         stage' = "failed", listener' = "closed",
         error' \notin {"Origin", "Authentication", "Targets", "PreparedTargetSetMismatch"},
         UNCHANGED <<raw, config, prepared, ready, client>>
  PROVE  BootInv' /\ StartInv' /\ PinsInv' /\ ClientInv'
<1>1. ~ ready /\ client.state # "starting"
  BY DEF StartupInv, StartInv, ClientInv
<1>2. BootInv'
  BY DEF StartupInv, BootInv
<1>3. StartInv'
  BY <1>1 DEF StartInv
<1>4. PinsInv'
  BY PinsKept DEF StartupInv
<1>5. ClientInv'
  BY <1>1 DEF StartupInv, ClientInv
<1>6. QED
  BY <1>2, <1>3, <1>4, <1>5

\* A start that goes on keeps what is not about its place.
LEMMA GoStep ==
  ASSUME StartupInv, stage = "starting", UNCHANGED <<raw, config, stage, error, ready, client>>
  PROVE  /\ BootInv' /\ ClientInv'
         /\ \/ \E k \in 1 .. 5 : InTls(k)'
            \/ \E i \in SshIndices : \E k \in 1 .. 18 : InTarget(i, k)'
            \/ \E k \in 1 .. 6 : InFinish(k)'
            => StartInv'
<1>1. ~ ready /\ client.state # "starting"
  BY DEF StartupInv, StartInv, ClientInv
<1>2. BootInv'
  BY DEF StartupInv, BootInv
<1>3. ClientInv'
  BY <1>1 DEF StartupInv, ClientInv
<1>4. SshIndices' = SshIndices
  BY ConfigKept
<1>5. QED
  BY <1>1, <1>2, <1>3, <1>4 DEF StartInv

\* Steps of others, and of the probe's timer, leave a start where it is.
LEMMA FrameStep ==
  ASSUME StartupInv, Later(disk, disk'), UNCHANGED <<boot, held, got, snaps, prepared, doors>>
  PROVE  BootInv' /\ StartInv' /\ PinsInv'
<1>1. /\ UNCHANGED <<raw, config, stage, error, todo, held, got, snaps, prepared, audit, listener, ready>>
      /\ GoodDisk(disk) /\ BootInv /\ StartInv /\ PinsInv
  BY DEF boot, doors, StartupInv
<1>2. BootInv'
  BY <1>1 DEF BootInv
<1>3. PinsInv'
  BY <1>1, PinsKept
<1>4. C' = C /\ SshIndices' = SshIndices
  BY <1>1, ConfigKept
<1>5. /\ TlsDone => TlsDone'
      /\ \A i : PreparedBelow(i) => PreparedBelow(i)'
      /\ AllPrepared => AllPrepared'
  BY <1>1, TlsKept, PreparedKept
<1>6. /\ Stamped(disk, held) => Stamped(disk', held')
      /\ \A content : Pinned(disk, held, content) => Pinned(disk', held', content)
      /\ \A role : Snapped(role) => Snapped(role)'
  <2>1. ASSUME NEW role, Snapped(role) PROVE Snapped(role)'
    <3>1. role \in DOMAIN got /\ role \in DOMAIN snaps
      BY <2>1 DEF Snapped
    <3>2. QED
      BY <1>1, <2>1, <3>1, SnappedKept
  <2>2. QED
    BY <1>1, <2>1, LaterKeeps
<1>7. CASE stage = "starting"
  <2>1. AuditDir \in Ids
    BY <1>1, <1>7, Paths
  <2>2. /\ AuditOpen => AuditOpen'
        /\ \A n \in 1 .. 2 : disk[AuditDir].file[n].type = "dir" => disk'[AuditDir'].file[n].type = "dir"
    BY <1>1, <2>1, AuditKept, ConfigKept
  <2>3. ASSUME NEW k \in 1 .. 5, InTls(k) PROVE InTls(k)'
    BY <1>1, <1>4, <1>6, <2>3 DEF InTls
  <2>4. ASSUME NEW i \in SshIndices, NEW k \in 1 .. 18, InTarget(i, k) PROVE InTarget(i, k)'
    BY <1>1, <1>5, <1>6, <2>4 DEF InTarget
  <2>5. ASSUME NEW k \in 1 .. 6, InFinish(k) PROVE InFinish(k)'
    BY <1>1, <1>5, <2>2, <2>5 DEF InFinish
  <2>6. QED
    BY <1>1, <1>2, <1>3, <1>4, <1>7, <2>3, <2>4, <2>5 DEF StartInv
<1>8. CASE stage = "serving"
  <2>1. AuditDir \in Ids
    BY <1>1, <1>8, Paths
  <2>2. AuditOpen => AuditOpen'
    BY <1>1, <2>1, AuditKept
  <2>3. QED
    BY <1>1, <1>2, <1>3, <1>5, <1>8, <2>2 DEF StartInv
<1>9. CASE stage \notin {"starting", "serving"}
  BY <1>1, <1>2, <1>3, <1>9 DEF StartInv, Now
<1>10. QED
  BY <1>7, <1>8, <1>9

-----------------------------------------------------------------------------
(* Reading the material.                                                    *)

\* A start that reads material listens to nobody yet.
LEMMA NotListening ==
  ASSUME StartInv, stage = "starting", ~ InFinish(6)
  PROVE  listener = "closed"
<1>1. \A k \in 1 .. 5 : InTls(k) => listener = "closed"
  BY DEF InTls
<1>2. \A i \in SshIndices : \A k \in 1 .. 18 : InTarget(i, k) => listener = "closed"
  BY DEF InTarget
<1>3. \A k \in 1 .. 6 : k # 6 /\ InFinish(k) => listener = "closed"
  BY DEF InFinish
<1>4. QED
  BY <1>1, <1>2, <1>3 DEF StartInv

\* The last call of Finish is the notification.
LEMMA LastCall ==
  ASSUME InFinish(6) PROVE Now.op = "ready"
<1>1. Now = Finish[6]
  BY AtFinish
<1>2. QED
  BY <1>1, FinishCalls DEF Call

\* The errors of reading material are its own.
LEMMA MaterialErrors ==
  ASSUME NEW role \in Roles, NEW readable
  PROVE  MaterialError(role, readable) \notin {"Origin", "Authentication", "Targets", "PreparedTargetSetMismatch"}
BY DEF MaterialError, Roles, SshRoles

\* The step of OpenMaterial.
LEMMA OpenStep ==
  ASSUME StartupInv, OpenMaterial PROVE StartupInv'
<1>1. /\ stage = "starting" /\ Now.op = "open"
      /\ UNCHANGED <<got, snaps, prepared, probe, audit, listener, ready, client, disk, changes>>
      /\ GoodDisk(disk) /\ BootInv /\ StartInv /\ PinsInv
  BY DEF OpenMaterial, Doing, Now, doors, world, StartupInv
<1>2. \/ \E k \in {1, 3} : InTls(k)
      \/ \E i \in SshIndices : \E k \in {1, 4, 7} : InTarget(i, k)
  BY <1>1, MaterialPlaces
<1>3. Now.role \in Roles /\ PathNow.id \in Ids
  <2>1. ASSUME NEW k \in {1, 3}, InTls(k) PROVE Now.role \in Roles /\ PathNow.id \in Ids
    <3>1. k \in 1 .. 4
      BY <2>1
    <3>2. QED
      BY <1>1, <2>1, <3>1, CallAtHand DEF Roles
  <2>2. ASSUME NEW i \in SshIndices, NEW k \in {1, 4, 7}, InTarget(i, k)
        PROVE  Now.role \in Roles /\ PathNow.id \in Ids
    BY <1>1, <2>2, CallAtHand DEF Roles, SshRoles, TargetRole
  <2>3. QED
    BY <1>2, <2>1, <2>2
<1>4. Later(disk, disk') /\ GoodDisk(disk')
  BY <1>1, SameLater
<1>5. listener = "closed"
  BY <1>1, NotListening, LastCall
<1>6. CASE held' = Snapshot(PathNow.id) /\ Opens(PathNow.id) /\ Goes
  <2>1. UNCHANGED <<raw, config, stage, error>> /\ todo' = Tail(todo)
    BY <1>6 DEF Goes
  <2>2. Stamped(disk', held')
    BY <1>1, <1>3, <1>6, SnapshotStamped
  <2>3. held'.id \in Ids
    BY <2>2 DEF Stamped
  <2>4. BootTypes'
    BY <1>1, <2>3 DEF StartupInv, BootTypes
  <2>5. C' = C /\ SshIndices' = SshIndices
    BY <2>1, ConfigKept
  <2>6. ASSUME NEW k \in {1, 3}, InTls(k) PROVE \E m \in 1 .. 5 : InTls(m)'
    <3>1. todo' = SubSeq(TlsProgram, k + 1, 5)
      <4>1. k \in 1 .. 5 /\ k < 5
        OBVIOUS
      <4>2. QED
        BY <2>1, <2>6, <4>1, AtTls
    <3>2. InTls(k + 1)'
      BY <1>1, <2>2, <2>5, <2>6, <3>1 DEF InTls
    <3>3. QED
      BY <3>2
  <2>7. ASSUME NEW i \in SshIndices, NEW k \in {1, 4, 7}, InTarget(i, k)
        PROVE  \E m \in 1 .. 18 : InTarget(i, m)'
    <3>1. i \in Nat /\ k \in 1 .. 18 /\ k < 18
      BY <1>1, Indices
    <3>2. todo' = SubSeq(PrepareTarget(i), k + 1, 18)
      BY <2>1, <2>7, <3>1, AtTarget
    <3>3. TlsDone' /\ PreparedBelow(i)'
      BY <1>1, <2>1, <2>7, TlsKept, PreparedKept DEF InTarget
    <3>4. \A role : Snapped(role) => Snapped(role)'
      BY <1>1 DEF Snapped
    <3>5. InTarget(i, k + 1)'
      BY <1>1, <2>2, <2>7, <3>2, <3>3, <3>4, SMTT(40) DEF InTarget
    <3>6. QED
      BY <3>5
  <2>8. BootInv' /\ ClientInv' /\ StartInv'
    BY <1>1, <1>2, <2>1, <2>6, <2>7, GoStep
  <2>9. PinsInv'
    BY <1>1, <1>4, PinsKept
  <2>10. QED
    BY <1>4, <2>4, <2>8, <2>9 DEF StartupInv
<1>7. CASE UNCHANGED held /\ \E readable \in BOOLEAN : Fails(MaterialError(Now.role, readable))
  <2>1. /\ UNCHANGED <<raw, config>> /\ stage' = "failed"
        /\ error' \notin {"Origin", "Authentication", "Targets", "PreparedTargetSetMismatch"}
    BY <1>3, <1>7, MaterialErrors DEF Fails
  <2>2. BootInv' /\ StartInv' /\ PinsInv' /\ ClientInv'
    BY <1>1, <1>4, <1>5, <2>1, FailStep
  <2>3. BootTypes'
    BY <1>1, <1>7 DEF StartupInv, BootTypes
  <2>4. QED
    BY <1>4, <2>2, <2>3 DEF StartupInv
<1>8. CASE /\ WaitsForWriter(Now.role, File(PathNow.id))
           /\ stage' = "blocked" /\ held' = Snapshot(PathNow.id)
           /\ UNCHANGED <<raw, config, error, todo>>
  <2>1. Now.role \in {"certificate", "private_key"}
    BY <1>3, <1>8 DEF WaitsForWriter, Roles
  <2>2. ~ ready /\ client.state # "starting"
    BY <1>1 DEF StartupInv, StartInv, ClientInv
  <2>3. BootInv'
    BY <1>1, <1>8 DEF BootInv
  <2>4. held'.id \in Ids
    BY <1>3, <1>8 DEF Snapshot, SnapshotIn
  <2>5. BootTypes'
    BY <1>1, <2>4 DEF StartupInv, BootTypes
  <2>6. StartInv'
    BY <1>1, <1>5, <1>8, <2>1, <2>2 DEF StartInv, Now
  <2>7. PinsInv'
    BY <1>1, <1>4, PinsKept
  <2>8. ClientInv'
    BY <1>1, <2>2 DEF StartupInv, ClientInv
  <2>9. QED
    BY <1>4, <2>3, <2>5, <2>6, <2>7, <2>8 DEF StartupInv
<1>9. QED
  BY <1>6, <1>7, <1>8 DEF OpenMaterial

\* The step of WriterComes: the start was not listening, and gives up.
LEMMA WriterStep ==
  ASSUME StartupInv, WriterComes PROVE StartupInv'
<1>1. /\ stage = "blocked" /\ Fails(MaterialError(Now.role, TRUE))
      /\ UNCHANGED <<held, got, snaps, prepared, probe, audit, listener, ready, client, disk, changes>>
      /\ GoodDisk(disk) /\ BootTypes /\ StartInv
  BY DEF WriterComes, material, doors, world, StartupInv
<1>2. Now.role \in Roles /\ listener = "closed"
  BY <1>1 DEF StartInv, Roles
<1>3. Later(disk, disk') /\ GoodDisk(disk')
  BY <1>1, SameLater
<1>4. /\ UNCHANGED <<raw, config>> /\ stage' = "failed"
      /\ error' \notin {"Origin", "Authentication", "Targets", "PreparedTargetSetMismatch"}
  BY <1>1, <1>2, MaterialErrors DEF Fails
<1>5. BootInv' /\ StartInv' /\ PinsInv' /\ ClientInv'
  BY <1>1, <1>2, <1>3, <1>4, FailStep
<1>6. BootTypes'
  BY <1>1 DEF BootTypes
<1>7. QED
  BY <1>3, <1>5, <1>6 DEF StartupInv

\* The step of ReadMaterial.
LEMMA ReadStep ==
  ASSUME StartupInv, ReadMaterial PROVE StartupInv'
<1> DEFINE file == disk[held.id].file[held.inode]
<1>1. /\ stage = "starting" /\ Now.op = "read"
      /\ UNCHANGED <<held, snaps, prepared, probe, audit, listener, ready, client, disk, changes>>
      /\ GoodDisk(disk) /\ BootInv /\ StartInv /\ PinsInv /\ BootTypes
  BY DEF ReadMaterial, Doing, Now, doors, world, StartupInv
<1>2. \/ \E k \in {2, 4} : InTls(k)
      \/ \E i \in SshIndices : \E k \in {2, 5, 8} : InTarget(i, k)
  BY <1>1, MaterialPlaces
<1>3. Now.role \in Roles
  <2>1. ASSUME NEW k \in {2, 4}, InTls(k) PROVE Now.role \in Roles
    <3>1. k \in 1 .. 4
      BY <2>1
    <3>2. QED
      BY <1>1, <2>1, <3>1, CallAtHand DEF Roles
  <2>2. ASSUME NEW i \in SshIndices, NEW k \in {2, 5, 8}, InTarget(i, k) PROVE Now.role \in Roles
    BY <1>1, <2>2, CallAtHand DEF Roles, SshRoles, TargetRole
  <2>3. QED
    BY <1>2, <2>1, <2>2
<1>4. Later(disk, disk') /\ GoodDisk(disk')
  BY <1>1, SameLater
<1>5. listener = "closed"
  BY <1>1, NotListening, LastCall
<1>6. CASE got' = Put(got, Now.role, file.content) /\ Goes
  <2>1. UNCHANGED <<raw, config, stage, error>> /\ todo' = Tail(todo)
    BY <1>6 DEF Goes
  <2>2. /\ DOMAIN got' = DOMAIN got \cup {Now.role} /\ got'[Now.role] = file.content
        /\ \A r \in DOMAIN got : r # Now.role => got'[r] = got[r]
    BY <1>6 DEF Put
  <2>3. BootTypes'
    BY <1>1, <1>3, <2>2 DEF BootTypes
  <2>4. C' = C /\ SshIndices' = SshIndices
    BY <2>1, ConfigKept
  <2>5. ASSUME NEW k \in {2, 4}, InTls(k) PROVE \E m \in 1 .. 5 : InTls(m)'
    <3>1. todo' = SubSeq(TlsProgram, k + 1, 5)
      <4>1. k \in 1 .. 5 /\ k < 5
        OBVIOUS
      <4>2. QED
        BY <2>1, <2>5, <4>1, AtTls
    <3>2. Now.role = IF k = 2 THEN "certificate" ELSE "private_key"
      <4>1. k \in 1 .. 4
        OBVIOUS
      <4>2. QED
        BY <1>1, <2>5, <4>1, CallAtHand
    <3>3. InTls(k + 1)'
      BY <1>1, <2>2, <2>4, <2>5, <3>1, <3>2 DEF InTls
    <3>4. QED
      BY <3>3
  <2>6. ASSUME NEW i \in SshIndices, NEW k \in {2, 5, 8}, InTarget(i, k)
        PROVE  \E m \in 1 .. 18 : InTarget(i, m)'
    <3>1. i \in Nat /\ k \in 1 .. 18 /\ k < 18
      BY <1>1, Indices
    <3>2. todo' = SubSeq(PrepareTarget(i), k + 1, 18)
      BY <2>1, <2>6, <3>1, AtTarget
    <3>3. Now.role = TargetRole(k)
      BY <1>1, <2>6, CallAtHand
    <3>4. PreparedBelow(i)' /\ TlsDone'
      <4>1. Now.role \notin {"certificate", "private_key"}
        BY <3>3 DEF TargetRole
      <4>2. QED
        BY <1>1, <2>1, <2>2, <2>6, <4>1, TlsKept, PreparedKept DEF InTarget
    <3>5. \A role : Snapped(role) /\ role # Now.role => Snapped(role)'
      BY <1>1, <2>2 DEF Snapped
    <3>6. Stamped(disk', held') /\ Pinned(disk', held', got'[Now.role])
      BY <1>1, <2>2, <2>6 DEF InTarget, Pinned
    <3>7. InTarget(i, k + 1)'
      <4>1. CASE k = 2
        BY <1>1, <2>2, <2>6, <3>2, <3>3, <3>4, <3>6, <4>1 DEF InTarget, TargetRole
      <4>2. CASE k = 5
        BY <1>1, <2>2, <2>6, <3>2, <3>3, <3>4, <3>5, <3>6, <4>2 DEF InTarget, TargetRole
      <4>3. CASE k = 8
        BY <1>1, <2>2, <2>6, <3>2, <3>3, <3>4, <3>5, <3>6, <4>3 DEF InTarget, TargetRole
      <4>4. QED
        BY <4>1, <4>2, <4>3
    <3>8. QED
      BY <3>7
  <2>7. BootInv' /\ ClientInv' /\ StartInv'
    BY <1>1, <1>2, <2>1, <2>5, <2>6, GoStep
  <2>8. PinsInv'
    BY <1>1, <1>4, PinsKept
  <2>9. QED
    BY <1>4, <2>3, <2>7, <2>8 DEF StartupInv
<1>7. CASE UNCHANGED got /\ Fails(MaterialError(Now.role, TRUE))
  <2>1. /\ UNCHANGED <<raw, config>> /\ stage' = "failed"
        /\ error' \notin {"Origin", "Authentication", "Targets", "PreparedTargetSetMismatch"}
    BY <1>3, <1>7, MaterialErrors DEF Fails
  <2>2. BootInv' /\ StartInv' /\ PinsInv' /\ ClientInv'
    BY <1>1, <1>4, <1>5, <2>1, FailStep
  <2>3. BootTypes'
    BY <1>1, <1>7 DEF BootTypes
  <2>4. QED
    BY <1>4, <2>2, <2>3 DEF StartupInv
<1>8. QED
  BY <1>6, <1>7 DEF ReadMaterial

\* The step of StatAgain.
LEMMA StatStep ==
  ASSUME StartupInv, StatAgain PROVE StartupInv'
<1>1. /\ stage = "starting" /\ Now.op = "stat"
      /\ UNCHANGED <<held, got, prepared, probe, audit, listener, ready, client, disk, changes>>
      /\ GoodDisk(disk) /\ BootInv /\ StartInv /\ PinsInv /\ BootTypes
  BY DEF StatAgain, Doing, Now, doors, world, StartupInv
<1>2. PICK i \in SshIndices : \E k \in {3, 6, 9} : InTarget(i, k)
  BY <1>1, MaterialPlaces
<1>3. PICK k \in {3, 6, 9} : InTarget(i, k)
  BY <1>2
<1>4. Now.role = TargetRole(k) /\ Now.role \in SshRoles
  BY <1>1, <1>3, CallAtHand DEF TargetRole, SshRoles
<1>5. Later(disk, disk') /\ GoodDisk(disk')
  BY <1>1, SameLater
<1>6. listener = "closed"
  BY <1>3 DEF InTarget
<1>7. CASE snaps' = Put(snaps, Now.role, held) /\ Goes
  <2>1. UNCHANGED <<raw, config, stage, error>> /\ todo' = Tail(todo)
    BY <1>7 DEF Goes
  <2>2. /\ DOMAIN snaps' = DOMAIN snaps \cup {Now.role} /\ snaps'[Now.role] = held
        /\ \A r \in DOMAIN snaps : r # Now.role => snaps'[r] = snaps[r]
    BY <1>7 DEF Put
  <2>3. BootTypes'
    BY <1>1, <1>4, <2>2 DEF BootTypes
  <2>4. i \in Nat /\ k \in 1 .. 18 /\ k < 18
    BY <1>1, Indices
  <2>5. todo' = SubSeq(PrepareTarget(i), k + 1, 18)
    BY <1>3, <2>1, <2>4, AtTarget
  <2>6. PreparedBelow(i)' /\ TlsDone'
    BY <1>1, <1>3, <2>1, TlsKept, PreparedKept DEF InTarget
  <2>7. \A role : Snapped(role) /\ role # Now.role => Snapped(role)'
    BY <1>1, <2>2 DEF Snapped
  <2>8. Snapped(TargetRole(k))'
    <3>1. Now.role \in DOMAIN got /\ Pinned(disk, held, got[Now.role])
      BY <1>3, <1>4 DEF InTarget, TargetRole
    <3>2. QED
      BY <1>1, <1>4, <2>2, <3>1 DEF Snapped
  <2>9. InTarget(i, k + 1)'
    <3>1. CASE k = 3
      BY <1>1, <1>3, <2>5, <2>6, <2>8, <3>1 DEF InTarget, TargetRole
    <3>2. CASE k = 6
      BY <1>1, <1>3, <1>4, <2>5, <2>6, <2>7, <2>8, <3>2 DEF InTarget, TargetRole
    <3>3. CASE k = 9
      BY <1>1, <1>3, <1>4, <2>5, <2>6, <2>7, <2>8, <3>3 DEF InTarget, TargetRole
    <3>4. QED
      BY <3>1, <3>2, <3>3
  <2>10. BootInv' /\ ClientInv' /\ StartInv'
    BY <1>1, <2>1, <2>4, <2>9, GoStep, SMTT(40)
  <2>11. PinsInv'
    BY <1>1, <1>5, PinsKept
  <2>12. QED
    BY <1>5, <2>3, <2>10, <2>11 DEF StartupInv
<1>8. CASE UNCHANGED snaps /\ (Fails(MaterialError(Now.role, TRUE)) \/ Fails("CapabilityUnsupported"))
  <2>1. /\ UNCHANGED <<raw, config>> /\ stage' = "failed"
        /\ error' \notin {"Origin", "Authentication", "Targets", "PreparedTargetSetMismatch"}
    BY <1>4, <1>8, MaterialErrors DEF Fails, Roles
  <2>2. BootInv' /\ StartInv' /\ PinsInv' /\ ClientInv'
    BY <1>1, <1>5, <1>6, <2>1, FailStep
  <2>3. BootTypes'
    BY <1>1, <1>8 DEF BootTypes
  <2>4. QED
    BY <1>5, <2>2, <2>3 DEF StartupInv
<1>9. QED
  BY <1>7, <1>8 DEF StatAgain

\* The step of Recheck.
LEMMA RecheckStep ==
  ASSUME StartupInv, Recheck PROVE StartupInv'
<1>1. /\ stage = "starting" /\ Now.op = "recheck"
      /\ UNCHANGED <<held, got, snaps, prepared, probe, audit, listener, ready, client, disk, changes>>
      /\ GoodDisk(disk) /\ BootInv /\ StartInv /\ PinsInv /\ BootTypes
  BY DEF Recheck, Doing, Now, material, doors, world, StartupInv
<1>2. PICK i \in SshIndices : \E k \in {10, 11, 12, 15, 16, 17} : InTarget(i, k)
  BY <1>1, MaterialPlaces
<1>3. PICK k \in {10, 11, 12, 15, 16, 17} : InTarget(i, k)
  BY <1>2
<1>4. Later(disk, disk') /\ GoodDisk(disk')
  BY <1>1, SameLater
<1>5. BootTypes'
  BY <1>1 DEF BootTypes
<1>6. CASE Goes
  <2>1. UNCHANGED <<raw, config, stage, error>> /\ todo' = Tail(todo)
    BY <1>6 DEF Goes
  <2>2. i \in Nat /\ k \in 1 .. 18 /\ k < 18
    BY <1>1, Indices
  <2>3. todo' = SubSeq(PrepareTarget(i), k + 1, 18)
    BY <1>3, <2>1, <2>2, AtTarget
  <2>4. PreparedBelow(i)' /\ TlsDone'
    BY <1>1, <1>3, <2>1, TlsKept, PreparedKept DEF InTarget
  <2>5. \A role : Snapped(role) => Snapped(role)'
    BY <1>1 DEF Snapped
  <2>6. InTarget(i, k + 1)'
    BY <1>1, <1>3, <2>3, <2>4, <2>5 DEF InTarget
  <2>7. BootInv' /\ ClientInv' /\ StartInv'
    BY <1>1, <2>1, <2>2, <2>6, GoStep, SMTT(40)
  <2>8. PinsInv'
    BY <1>1, <1>4, PinsKept
  <2>9. QED
    BY <1>4, <1>5, <2>7, <2>8 DEF StartupInv
<1>7. CASE Fails("MaterialChanged")
  <2>1. /\ UNCHANGED <<raw, config>> /\ stage' = "failed" /\ error' = "MaterialChanged"
    BY <1>7 DEF Fails
  <2>2. listener = "closed"
    BY <1>3 DEF InTarget
  <2>3. BootInv' /\ StartInv' /\ PinsInv' /\ ClientInv'
    BY <1>1, <1>4, <2>1, <2>2, FailStep
  <2>4. QED
    BY <1>4, <1>5, <2>3 DEF StartupInv
<1>8. QED
  BY <1>6, <1>7 DEF Recheck

-----------------------------------------------------------------------------
(* The probe.                                                               *)

\* A step of the probe at the k-th call goes on to the next, or fails.
LEMMA ProbePlace ==
  ASSUME StartupInv, stage = "starting", NEW k \in {13, 14}, NEW i \in SshIndices, InTarget(i, k),
         UNCHANGED <<held, got, snaps, prepared, doors, client, world>>,
         Goes \/ Fails("CapabilityUnsupported")
  PROVE  GoodDisk(disk') /\ BootInv' /\ StartInv' /\ PinsInv' /\ ClientInv'
<1>1. /\ UNCHANGED <<held, got, snaps, prepared, audit, listener, ready, client, disk, changes>>
      /\ GoodDisk(disk) /\ BootInv /\ StartInv /\ PinsInv /\ BootTypes
  BY DEF doors, world, StartupInv
<1>2. Later(disk, disk') /\ GoodDisk(disk')
  BY <1>1, SameLater
<1>3. CASE Goes
  <2>1. UNCHANGED <<raw, config, stage, error>> /\ todo' = Tail(todo)
    BY <1>3 DEF Goes
  <2>2. i \in Nat /\ k \in 1 .. 18 /\ k < 18
    BY <1>1, Indices
  <2>3. todo' = SubSeq(PrepareTarget(i), k + 1, 18)
    BY <2>1, <2>2, AtTarget
  <2>4. PreparedBelow(i)' /\ TlsDone'
    BY <1>1, <2>1, TlsKept, PreparedKept DEF InTarget
  <2>5. \A role : Snapped(role) => Snapped(role)'
    BY <1>1 DEF Snapped
  <2>6. InTarget(i, k + 1)'
    BY <1>1, <2>3, <2>4, <2>5 DEF InTarget
  <2>7. BootInv' /\ ClientInv' /\ StartInv'
    BY <1>1, <2>1, <2>2, <2>6, GoStep, SMTT(40)
  <2>8. PinsInv'
    BY <1>1, <1>2, PinsKept
  <2>9. QED
    BY <1>2, <2>7, <2>8
<1>4. CASE Fails("CapabilityUnsupported")
  <2>1. /\ UNCHANGED <<raw, config>> /\ stage' = "failed" /\ error' = "CapabilityUnsupported"
    BY <1>4 DEF Fails
  <2>2. listener = "closed"
    BY DEF InTarget
  <2>3. BootInv' /\ StartInv' /\ PinsInv' /\ ClientInv'
    BY <1>1, <1>2, <2>1, <2>2, FailStep
  <2>4. QED
    BY <1>2, <2>3
<1>5. QED
  BY <1>3, <1>4

\* The steps that start the probe, take its answer or reap it.
LEMMA ProbeStep ==
  ASSUME StartupInv, StartProbe \/ ProbeAnswers \/ ProbeReaped PROVE StartupInv'
<1>1. BootInv /\ StartInv /\ BootTypes
  BY DEF StartupInv
<1>2. CASE StartProbe
  <2>1. /\ stage = "starting" /\ Now.op = "probe"
        /\ UNCHANGED <<held, got, snaps, prepared, doors, client, world>>
        /\ Goes \/ Fails("CapabilityUnsupported")
        /\ probe'.state = "running" \/ probe' = probe
    BY <1>2 DEF StartProbe, Doing, Now
  <2>2. PICK i \in SshIndices : InTarget(i, 13)
    BY <1>1, <2>1, MaterialPlaces
  <2>3. GoodDisk(disk') /\ BootInv' /\ StartInv' /\ PinsInv' /\ ClientInv'
    BY <2>1, <2>2, ProbePlace
  <2>4. BootTypes'
    BY <1>1, <2>1 DEF BootTypes, doors, world
  <2>5. QED
    BY <2>3, <2>4 DEF StartupInv
<1>3. CASE ProbeAnswers \/ ProbeReaped
  <2>1. /\ stage = "starting" /\ Now.op = "await"
        /\ UNCHANGED <<held, got, snaps, prepared, doors, client, world>>
        /\ Goes \/ Fails("CapabilityUnsupported")
        /\ probe' = [probe EXCEPT !.state = "reaped"]
    BY <1>3 DEF ProbeAnswers, ProbeReaped, Doing, Now
  <2>2. PICK i \in SshIndices : InTarget(i, 14)
    BY <1>1, <2>1, MaterialPlaces
  <2>3. GoodDisk(disk') /\ BootInv' /\ StartInv' /\ PinsInv' /\ ClientInv'
    BY <2>1, <2>2, ProbePlace
  <2>4. probe'.state \in {"none", "running", "killed", "reaped"}
    BY <1>1, <2>1 DEF BootTypes
  <2>5. BootTypes'
    BY <1>1, <2>1, <2>4 DEF BootTypes, doors, world
  <2>6. QED
    BY <2>3, <2>5 DEF StartupInv
<1>4. QED
  BY <1>2, <1>3

-----------------------------------------------------------------------------
(* The loop over the targets.                                               *)

\* FromTarget goes on with the next SSH target, or with Finish after the last.
LEMMA Onward ==
  ASSUME NEW c, DOMAIN c.targets \subseteq Nat, NEW n \in Nat,
         NEW ssh, ssh = {j \in DOMAIN c.targets : c.targets[j].type = "ssh"}
  PROVE  \/ FromTarget(c, n) = Finish /\ \A j \in ssh : j < n
         \/ \E m \in ssh : FromTarget(c, n) = PrepareTarget(m) /\ \A j \in ssh : j < m <=> j < n
<1> DEFINE rest == {j \in DOMAIN c.targets : j >= n /\ c.targets[j].type = "ssh"}
<1>1. rest \subseteq ssh /\ (\A j \in ssh : j \in rest \/ j < n) /\ ssh \subseteq Nat
  OBVIOUS
<1>2. CASE rest = {}
  <2>1. FromTarget(c, n) = Finish
    BY <1>2 DEF FromTarget
  <2>2. QED
    BY <1>1, <1>2, <2>1
<1>3. CASE rest # {}
  <2>1. FromTarget(c, n) = PrepareTarget(Min(rest))
    BY <1>3 DEF FromTarget
  <2>2. PICK m : m = Min(rest)
    OBVIOUS
  <2>3. rest \subseteq Nat
    OBVIOUS
  <2>4. m \in rest /\ \A j \in rest : m <= j
    <3> HIDE DEF rest
    <3> QED
      BY <1>3, <2>2, <2>3, LeastNatural
  <2>5. m \in ssh /\ m \in Nat /\ n <= m
    BY <2>4
  <2>6. \A j \in ssh : j < m <=> j < n
    <3> SUFFICES ASSUME NEW j \in ssh PROVE j < m <=> j < n
      OBVIOUS
    <3>1. j \in Nat /\ (j < n \/ m <= j)
      BY <1>1, <2>4
    <3>2. QED
      BY <2>5, <3>1
  <2>7. QED
    BY <2>1, <2>2, <2>5, <2>6
<1>4. QED
  BY <1>2, <1>3

\* The same, of a start at hand.
LEMMA OnwardHere ==
  ASSUME BootInv, stage = "starting", NEW n \in Nat
  PROVE  \/ FromTarget(C, n) = Finish /\ \A j \in SshIndices : j < n
         \/ \E m \in SshIndices :
               FromTarget(C, n) = PrepareTarget(m) /\ \A j \in SshIndices : j < m <=> j < n
<1>1. DOMAIN C.targets \subseteq Nat
  BY Configured
<1>2. SshIndices = {j \in DOMAIN C.targets : C.targets[j].type = "ssh"}
  BY DEF SshIndices
<1>3. QED
  BY <1>1, <1>2, Onward

\* A program begins at its first call.
LEMMA Begins ==
  /\ TlsProgram = SubSeq(TlsProgram, 1, 5)
  /\ Finish = SubSeq(Finish, 1, 6)
  /\ \A i \in Nat : PrepareTarget(i) = SubSeq(PrepareTarget(i), 1, 18)
<1>1. TlsProgram = SubSeq(TlsProgram, 1, 5)
  BY TlsCalls, Beginning
<1>2. Finish = SubSeq(Finish, 1, 6)
  BY FinishCalls, Beginning
<1>3. ASSUME NEW i \in Nat PROVE PrepareTarget(i) = SubSeq(PrepareTarget(i), 1, 18)
  <2>1. PrepareTarget(i) \in Seq(Calls) /\ Len(PrepareTarget(i)) = 18
    BY TargetCalls
  <2>2. QED
    BY <2>1, Beginning
<1>4. QED
  BY <1>1, <1>2, <1>3

\* The step of PairTls.
LEMMA PairStep ==
  ASSUME StartupInv, PairTls PROVE StartupInv'
<1>1. /\ stage = "starting" /\ Now.op = "pair"
      /\ UNCHANGED <<held, got, snaps, prepared, probe, audit, listener, ready, client, disk, changes>>
      /\ GoodDisk(disk) /\ BootInv /\ StartInv /\ PinsInv /\ BootTypes
  BY DEF PairTls, Doing, Now, material, doors, world, StartupInv
<1>2. InTls(5)
  BY <1>1, MaterialPlaces
<1>3. Later(disk, disk') /\ GoodDisk(disk')
  BY <1>1, SameLater
<1>4. BootTypes'
  BY <1>1 DEF BootTypes
<1> DEFINE e == TlsPairError(got["certificate"], got["private_key"])
<1>5. /\ e \notin {"Origin", "Authentication", "Targets", "PreparedTargetSetMismatch"}
      /\ e = "none" => got["certificate"].pair = got["private_key"].pair
  BY DEF TlsPairError
<1>6. CASE e = "none" /\ GoesOnWith(1)
  <2>1. UNCHANGED <<raw, config, stage, error>> /\ todo' = FromTarget(C, 1)
    BY <1>6 DEF GoesOnWith, C
  <2>2. C' = C /\ SshIndices' = SshIndices
    BY <2>1, ConfigKept
  <2>3. TlsDone'
    BY <1>1, <1>2, <1>5, <1>6, <2>2 DEF TlsDone, InTls
  <2>4. SshIndices \subseteq Nat \ {0}
    BY <1>1, Indices
  <2>5. PreparedBelow(1)'
    <3>1. \A j \in SshIndices : ~ (j < 1)
      <4>1. \A j \in Nat \ {0} : ~ (j < 1)
        OBVIOUS
      <4>2. QED
        BY <2>4, <4>1
    <3>2. DOMAIN prepared' = {}
      BY <1>1, <1>2 DEF InTls
    <3>3. QED
      BY <2>2, <3>1, <3>2 DEF PreparedBelow
  <2>6. \/ FromTarget(C, 1) = Finish /\ \A j \in SshIndices : j < 1
        \/ \E m \in SshIndices : FromTarget(C, 1) = PrepareTarget(m) /\ \A j \in SshIndices : j < m <=> j < 1
    BY <1>1, OnwardHere
  <2>7. listener' = "closed"
    BY <1>1, <1>2 DEF InTls
  <2>8. CASE FromTarget(C, 1) = Finish /\ \A j \in SshIndices : j < 1
    <3>1. AllPrepared'
      BY <2>2, <2>5, <2>8 DEF PreparedBelow, AllPrepared
    <3>2. InFinish(1)'
      BY <2>1, <2>3, <2>7, <2>8, <3>1, Begins DEF InFinish
    <3>3. BootInv' /\ ClientInv' /\ StartInv'
      BY <1>1, <2>1, <3>2, GoStep
    <3>4. QED
      BY <1>1, <1>3, <1>4, <3>3, PinsKept DEF StartupInv
  <2>9. CASE \E m \in SshIndices : FromTarget(C, 1) = PrepareTarget(m) /\ \A j \in SshIndices : j < m <=> j < 1
    <3>1. PICK m \in SshIndices : FromTarget(C, 1) = PrepareTarget(m) /\ \A j \in SshIndices : j < m <=> j < 1
      BY <2>9
    <3>2. PreparedBelow(m)'
      BY <2>2, <2>5, <3>1 DEF PreparedBelow
    <3>3. InTarget(m, 1)'
      BY <2>1, <2>3, <2>4, <2>7, <3>1, <3>2, Begins DEF InTarget
    <3>4. BootInv' /\ ClientInv' /\ StartInv'
      BY <1>1, <2>1, <3>3, GoStep
    <3>5. QED
      BY <1>1, <1>3, <1>4, <3>4, PinsKept DEF StartupInv
  <2>10. QED
    BY <2>6, <2>8, <2>9
<1>7. CASE Fails(e)
  <2>1. UNCHANGED <<raw, config>> /\ stage' = "failed" /\ error' = e
    BY <1>7 DEF Fails
  <2>2. listener = "closed"
    BY <1>2 DEF InTls
  <2>3. BootInv' /\ StartInv' /\ PinsInv' /\ ClientInv'
    BY <1>1, <1>3, <1>5, <2>1, <2>2, FailStep
  <2>4. QED
    BY <1>3, <1>4, <2>3 DEF StartupInv
<1>8. QED
  BY <1>6, <1>7 DEF PairTls

\* The step of Keep.
LEMMA KeepStep ==
  ASSUME StartupInv, Keep PROVE StartupInv'
<1>1. /\ stage = "starting" /\ Now.op = "keep"
      /\ UNCHANGED <<held, probe, audit, listener, ready, client, disk, changes>>
      /\ snaps' = [r \in {} |-> 0] /\ got' = [r \in DOMAIN got \ SshRoles |-> got[r]]
      /\ UNCHANGED <<raw, config, stage, error>>
      /\ GoodDisk(disk) /\ BootInv /\ StartInv /\ PinsInv /\ BootTypes
  BY DEF Keep, Doing, Now, doors, world, GoesOnWith, StartupInv
<1>2. PICK i \in SshIndices : InTarget(i, 18)
  BY <1>1, MaterialPlaces
<1>3. SshIndices \subseteq Nat \ {0} /\ i \in Nat
  BY <1>1, Indices
<1>4. Now.target = i
  <2>1. Now = PrepareTarget(i)[18]
    BY <1>2, <1>3, AtTarget
  <2>2. Now = Call(TargetOp(18), TargetRole(18), i)
    BY <1>3, <2>1, TargetCallAt
  <2>3. QED
    BY <2>2 DEF Call
<1> DEFINE t == C.targets[i]
           entry == [target |-> t, snaps |-> snaps, got |-> [r \in SshRoles |-> got[r]]]
<1>5. prepared' = Put(prepared, t.name, entry) /\ todo' = FromTarget(C, i + 1)
  BY <1>4 DEF Keep, TargetNow, GoesOnWith, C
<1>6. /\ DOMAIN prepared' = DOMAIN prepared \cup {t.name} /\ prepared'[t.name] = entry
      /\ \A name \in DOMAIN prepared : name # t.name => prepared'[name] = prepared[name]
  BY <1>5 DEF Put
<1>7. C' = C /\ SshIndices' = SshIndices
  BY <1>1, ConfigKept
<1>8. TlsDone'
  <2>1. \A r \in {"certificate", "private_key"} \cap DOMAIN got : r \in DOMAIN got' /\ got'[r] = got[r]
    BY <1>1 DEF SshRoles
  <2>2. QED
    BY <1>1, <1>2, <2>1, TlsKept DEF InTarget
<1>9. PreparedBelow(i + 1)'
  <2>1. PreparedBelow(i)
    BY <1>2 DEF InTarget
  <2>2. ASSUME NEW j \in SshIndices, j < i + 1
        PROVE  C.targets[j].name \in DOMAIN prepared' /\ prepared'[C.targets[j].name].target = C.targets[j]
    <3>1. CASE j = i
      BY <1>6, <3>1
    <3>2. CASE j # i
      <4>1. j < i
        BY <1>3, <2>2, <3>2
      <4>2. C.targets[j].name # t.name
        BY <1>1, <3>2, NamesDiffer
      <4>3. C.targets[j].name \in DOMAIN prepared /\ prepared[C.targets[j].name].target = C.targets[j]
        BY <2>1, <4>1 DEF PreparedBelow
      <4>4. QED
        BY <1>6, <4>2, <4>3
    <3>3. QED
      BY <3>1, <3>2
  <2>3. ASSUME NEW name \in DOMAIN prepared'
        PROVE  \E j \in SshIndices : j < i + 1 /\ C.targets[j].name = name
    <3>1. CASE name = t.name
      BY <1>3, <3>1
    <3>2. CASE name \in DOMAIN prepared
      <4>1. PICK j \in SshIndices : j < i /\ C.targets[j].name = name
        BY <2>1, <3>2 DEF PreparedBelow
      <4>2. j < i + 1
        BY <1>3, <4>1
      <4>3. QED
        BY <4>1, <4>2
    <3>3. QED
      BY <1>6, <3>1, <3>2
  <2>4. QED
    BY <1>7, <2>2, <2>3 DEF PreparedBelow
<1>10. PinsInv'
  <2>1. \A r \in SshRoles : Pinned(disk, snaps[r], got[r])
    BY <1>2 DEF InTarget, Snapped, SshRoles
  <2>2. \A r \in SshRoles : Pinned(disk, entry.snaps[r], entry.got[r])
    BY <2>1
  <2>3. ASSUME NEW name \in DOMAIN prepared', NEW r \in SshRoles
        PROVE  Pinned(disk, prepared'[name].snaps[r], prepared'[name].got[r])
    <3>1. CASE name = t.name
      <4> HIDE DEF entry
      <4> QED
        BY <1>6, <2>2, <3>1
    <3>2. CASE name # t.name
      <4>1. name \in DOMAIN prepared /\ prepared'[name] = prepared[name]
        BY <1>6, <3>2
      <4>2. QED
        BY <1>1, <4>1 DEF PinsInv
    <3>3. QED
      BY <3>1, <3>2
  <2>4. QED
    BY <1>1, <2>3 DEF PinsInv
<1>11. BootTypes'
  BY <1>1 DEF BootTypes
<1>12. GoodDisk(disk')
  BY <1>1
<1>13. listener' = "closed"
  BY <1>1, <1>2 DEF InTarget
<1>14. i + 1 \in Nat
  BY <1>3
<1>15. CASE FromTarget(C, i + 1) = Finish /\ \A j \in SshIndices : j < i + 1
  <2>1. AllPrepared'
    BY <1>7, <1>9, <1>15 DEF PreparedBelow, AllPrepared
  <2>2. InFinish(1)'
    BY <1>5, <1>8, <1>13, <1>15, <2>1, Begins DEF InFinish
  <2>3. BootInv' /\ ClientInv' /\ StartInv'
    BY <1>1, <2>2, GoStep
  <2>4. QED
    BY <1>10, <1>11, <1>12, <2>3 DEF StartupInv
<1>16. CASE \E m \in SshIndices :
              FromTarget(C, i + 1) = PrepareTarget(m) /\ \A j \in SshIndices : j < m <=> j < i + 1
  <2>1. PICK m \in SshIndices :
           FromTarget(C, i + 1) = PrepareTarget(m) /\ \A j \in SshIndices : j < m <=> j < i + 1
    BY <1>16
  <2>2. PreparedBelow(m)'
    BY <1>7, <1>9, <2>1 DEF PreparedBelow
  <2>3. InTarget(m, 1)'
    BY <1>3, <1>5, <1>8, <1>13, <2>1, <2>2, Begins DEF InTarget
  <2>4. BootInv' /\ ClientInv' /\ StartInv'
    BY <1>1, <2>3, GoStep
  <2>5. QED
    BY <1>10, <1>11, <1>12, <2>4 DEF StartupInv
<1>17. QED
  BY <1>1, <1>14, <1>15, <1>16, OnwardHere

-----------------------------------------------------------------------------
(* The beginning.                                                           *)

\* The invariant holds before the configuration is read.
LEMMA InitInv ==
  ASSUME Init PROVE StartupInv
<1>1. PICK s \in Setups : raw = s.raw /\ disk = s.disk
  BY DEF Init
<1>2. IsDisk(disk)
  BY <1>1, SetupsAssumption
<1>3. GoodDisk(disk)
  <2>1. ASSUME NEW id \in Ids, NEW n \in 1 .. 2, disk[id].file[n].type = "dir"
        PROVE  \A f \in Rewrites[id] : f.type = "dir"
    BY <1>1, <2>1, RewritesAssumption
  <2>2. QED
    BY <1>2, <2>1 DEF GoodDisk
<1>4. BootInv
  BY <1>1 DEF Init, BootInv
<1>5. BootTypes
  <2>1. changes \in 0 .. MaxChanges
    BY SetupsAssumption DEF Init
  <2>2. held.id = "none" /\ probe.state = "none" /\ DOMAIN got = {} /\ DOMAIN snaps = {}
    BY DEF Init, NoFile
  <2>3. listener = "closed" /\ ready = FALSE
    BY DEF Init
  <2>4. QED
    BY <2>1, <2>2, <2>3 DEF BootTypes
<1>6. StartInv
  BY DEF Init, StartInv
<1>7. PinsInv
  BY DEF Init, PinsInv
<1>8. ClientInv
  BY DEF Init, ClientInv
<1>9. QED
  BY <1>3, <1>4, <1>5, <1>6, <1>7, <1>8 DEF StartupInv

\* The step of Load.
LEMMA LoadStep ==
  ASSUME StartupInv, Load PROVE StartupInv'
<1>1. /\ stage = "load" /\ config' = Parse(raw) /\ raw' = raw
      /\ UNCHANGED <<held, got, snaps, prepared, probe, audit, listener, ready, client, disk, changes>>
      /\ GoodDisk(disk) /\ BootInv /\ StartInv /\ PinsInv /\ BootTypes /\ ClientInv
  BY DEF Load, material, doors, world, StartupInv
<1>2. GoodDisk(disk')
  BY <1>1
<1>3. BootTypes'
  BY <1>1 DEF BootTypes
<1>4. PinsInv'
  BY <1>1 DEF PinsInv
<1>5. ~ ready /\ client.state # "starting" /\ prepared = [name \in {} |-> 0] /\ listener = "closed"
  BY <1>1 DEF StartInv, ClientInv, BootInv
<1>6. ClientInv'
  BY <1>1, <1>5 DEF ClientInv
<1>7. CASE stage' = "failed" /\ error' = "Config"
  <2>1. BootInv'
    BY <1>1, <1>7 DEF BootInv
  <2>2. StartInv'
    BY <1>1, <1>5, <1>7 DEF StartInv
  <2>3. QED
    BY <1>2, <1>3, <1>4, <1>6, <2>1, <2>2 DEF StartupInv
<1>8. CASE config'.ok /\ stage' = "starting" /\ todo' = Program(config'.config) /\ UNCHANGED error
  <2>1. BootInv'
    BY <1>1, <1>8 DEF BootInv
  <2> DEFINE c == config'.config
             ssh == {j \in DOMAIN c.targets : c.targets[j].type = "ssh"}
  <2>2. C' = c /\ SshIndices' = ssh
    BY DEF C, SshIndices
  <2>3. PICK s \in Setups : raw = s.raw
    BY <1>1 DEF BootInv
  <2>4. c = ServerConfig(raw) /\ RawTypes(raw)
    <3>1. RawConfig(raw) => RawTypes(raw)
      BY <2>3, SetupsAssumption
    <3>2. QED
      BY <1>1, <1>8, <3>1, ParsedFile DEF Accepted
  <2>5. PICK n \in Nat : DOMAIN c.targets = 1 .. n
    BY <2>4, TargetList
  <2>6. ssh \subseteq Nat \ {0} /\ DOMAIN c.targets \subseteq Nat
    BY <2>5
  <2>7. CASE c.transport.kind = "direct_tls"
    <3>1. todo' = TlsProgram
      BY <1>8, <2>7 DEF Program
    <3>2. InTls(1)'
      BY <1>1, <1>5, <2>2, <2>7, <3>1, Begins DEF InTls
    <3>3. StartInv'
      BY <1>1, <1>5, <1>8, <3>2 DEF StartInv
    <3>4. QED
      BY <1>2, <1>3, <1>4, <1>6, <2>1, <3>3 DEF StartupInv
  <2>8. CASE c.transport.kind # "direct_tls"
    <3>1. todo' = FromTarget(c, 1)
      BY <1>8, <2>8 DEF Program
    <3>2. TlsDone'
      BY <2>2, <2>8 DEF TlsDone
    <3>3. DOMAIN prepared' = {} /\ listener' = "closed"
      BY <1>1, <1>5
    <3> HIDE DEF c, ssh
    <3>4. \A j \in ssh : ~ (j < 1)
      <4>1. \A j \in Nat \ {0} : ~ (j < 1)
        OBVIOUS
      <4>2. QED
        BY <2>6, <4>1
    <3>5. \/ FromTarget(c, 1) = Finish /\ \A j \in ssh : j < 1
          \/ \E m \in ssh : FromTarget(c, 1) = PrepareTarget(m) /\ \A j \in ssh : j < m <=> j < 1
      <4>1. ssh = {j \in DOMAIN c.targets : c.targets[j].type = "ssh"}
        BY DEF ssh
      <4>2. DOMAIN c.targets \subseteq Nat /\ 1 \in Nat
        BY <2>6
      <4>3. QED
        BY ONLY <4>1, <4>2, Onward, SMT
    <3>6. CASE FromTarget(c, 1) = Finish /\ \A j \in ssh : j < 1
      <4>1. AllPrepared'
        BY <2>2, <3>3, <3>4, <3>6 DEF AllPrepared
      <4>2. InFinish(1)'
        BY <3>1, <3>2, <3>3, <3>6, <4>1, Begins DEF InFinish
      <4>3. StartInv'
        BY <1>1, <1>5, <1>8, <4>2 DEF StartInv
      <4>4. QED
        BY <1>2, <1>3, <1>4, <1>6, <2>1, <4>3 DEF StartupInv
    <3>7. CASE \E m \in ssh : FromTarget(c, 1) = PrepareTarget(m) /\ \A j \in ssh : j < m <=> j < 1
      <4>1. PICK m \in ssh : FromTarget(c, 1) = PrepareTarget(m) /\ \A j \in ssh : j < m <=> j < 1
        BY <3>7
      <4>2. PreparedBelow(m)'
        BY <2>2, <3>3, <3>4, <4>1 DEF PreparedBelow
      <4>3. InTarget(m, 1)'
        BY <2>6, <3>1, <3>2, <3>3, <4>1, <4>2, Begins DEF InTarget
      <4>4. StartInv'
        BY <1>1, <1>5, <1>8, <2>2, <4>3 DEF StartInv
      <4>5. QED
        BY <1>2, <1>3, <1>4, <1>6, <2>1, <4>4 DEF StartupInv
    <3>8. QED
      BY <3>5, <3>6, <3>7
  <2>9. QED
    BY <2>7, <2>8
<1>9. QED
  BY <1>7, <1>8 DEF Load

-----------------------------------------------------------------------------
(* AuditLog::open.                                                          *)

\* The step of ValidateAuditPath.
LEMMA AuditPathStep ==
  ASSUME StartupInv, ValidateAuditPath PROVE StartupInv'
<1>1. /\ stage = "starting" /\ Now.op = "audit_path"
      /\ UNCHANGED <<held, got, snaps, prepared, probe, audit, listener, ready, client, disk, changes>>
      /\ GoodDisk(disk) /\ BootInv /\ StartInv /\ PinsInv /\ BootTypes
  BY DEF ValidateAuditPath, Doing, Now, material, doors, world, StartupInv
<1>2. InFinish(1)
  BY <1>1, FinishPlaces
<1>3. Later(disk, disk') /\ GoodDisk(disk')
  BY <1>1, SameLater
<1>4. BootTypes'
  BY <1>1 DEF BootTypes
<1>5. listener = "closed"
  BY <1>2 DEF InFinish
<1>6. CASE Goes
  <2>1. UNCHANGED <<raw, config, stage, error>> /\ todo' = Tail(todo)
    BY <1>6 DEF Goes
  <2>2. todo' = SubSeq(Finish, 2, 6)
    BY <1>2, <2>1, AtFinish
  <2>3. TlsDone' /\ AllPrepared'
    BY <1>1, <1>2, <2>1, TlsKept, PreparedKept DEF InFinish
  <2>4. InFinish(2)'
    BY <1>1, <1>5, <2>2, <2>3 DEF InFinish
  <2>5. BootInv' /\ ClientInv' /\ StartInv'
    BY <1>1, <2>1, <2>4, GoStep
  <2>6. QED
    BY <1>1, <1>3, <1>4, <2>5, PinsKept DEF StartupInv
<1>7. CASE Fails("DestinationUnavailable") \/ Fails("UnsafeDestination")
  <2>1. /\ UNCHANGED <<raw, config>> /\ stage' = "failed"
        /\ error' \in {"DestinationUnavailable", "UnsafeDestination"}
    BY <1>7 DEF Fails
  <2>2. BootInv' /\ StartInv' /\ PinsInv' /\ ClientInv'
    BY <1>1, <1>3, <1>5, <2>1, FailStep
  <2>3. QED
    BY <1>3, <1>4, <2>2 DEF StartupInv
<1>8. QED
  <2>1. CASE File(AuditDir).type = "missing"
    BY <1>7, <2>1 DEF ValidateAuditPath
  <2>2. CASE File(AuditDir).type = "dir"
    BY <1>6, <1>7, <2>2 DEF ValidateAuditPath
  <2>3. CASE File(AuditDir).type \notin {"missing", "dir"}
    BY <1>7, <2>3 DEF ValidateAuditPath
  <2>4. QED
    BY <2>1, <2>2, <2>3

\* The step of OpenAuditDir.
LEMMA AuditDirStep ==
  ASSUME StartupInv, OpenAuditDir PROVE StartupInv'
<1>1. /\ stage = "starting" /\ Now.op = "audit_dir"
      /\ UNCHANGED <<got, snaps, prepared, probe, audit, listener, ready, client, disk, changes>>
      /\ GoodDisk(disk) /\ BootInv /\ StartInv /\ PinsInv /\ BootTypes
  BY DEF OpenAuditDir, Doing, Now, doors, world, StartupInv
<1>2. InFinish(2)
  BY <1>1, FinishPlaces
<1>3. Later(disk, disk') /\ GoodDisk(disk')
  BY <1>1, SameLater
<1>4. listener = "closed" /\ AuditDir \in Ids
  BY <1>1, <1>2, Paths DEF InFinish
<1>5. CASE File(AuditDir).type = "dir" /\ held' = Snapshot(AuditDir) /\ Goes
  <2>1. UNCHANGED <<raw, config, stage, error>> /\ todo' = Tail(todo)
    BY <1>5 DEF Goes
  <2>2. todo' = SubSeq(Finish, 3, 6)
    <3>1. 2 \in 1 .. 6 /\ 2 < 6 /\ 2 + 1 = 3
      OBVIOUS
    <3>2. QED
      BY <1>2, <2>1, <3>1, AtFinish
  <2>3. TlsDone' /\ AllPrepared'
    BY <1>1, <1>2, <2>1, TlsKept, PreparedKept DEF InFinish
  <2>4. held'.id = AuditDir /\ held'.inode = Here(disk, AuditDir) /\ held'.inode \in 1 .. 2
    BY <1>1, <1>4, <1>5, SnapshotStamped DEF Snapshot, SnapshotIn
  <2>5. disk'[AuditDir'].file[held'.inode].type = "dir"
    BY <1>1, <1>5, <2>1, <2>4, ConfigKept DEF File
  <2>6. InFinish(3)'
    BY <1>1, <1>4, <2>2, <2>3, <2>4, <2>5 DEF InFinish
  <2>7. BootTypes'
    BY <1>1, <1>4, <2>4 DEF BootTypes
  <2>8. BootInv' /\ ClientInv' /\ StartInv'
    BY <1>1, <2>1, <2>6, GoStep
  <2>9. QED
    BY <1>1, <1>3, <2>7, <2>8, PinsKept DEF StartupInv
<1>6. CASE Fails("UnsafeDestination") /\ UNCHANGED held
  <2>1. UNCHANGED <<raw, config>> /\ stage' = "failed" /\ error' = "UnsafeDestination"
    BY <1>6 DEF Fails
  <2>2. BootInv' /\ StartInv' /\ PinsInv' /\ ClientInv'
    BY <1>1, <1>3, <1>4, <2>1, FailStep
  <2>3. BootTypes'
    BY <1>1, <1>6 DEF BootTypes
  <2>4. QED
    BY <1>3, <2>2, <2>3 DEF StartupInv
<1>7. QED
  BY <1>5, <1>6 DEF OpenAuditDir

\* The step of OpenAuditFile.
LEMMA AuditFileStep ==
  ASSUME StartupInv, OpenAuditFile PROVE StartupInv'
<1> DEFINE found == disk[AuditId].file[held.inode]
           file == IF found.type = "missing" THEN NewAuditFile ELSE found
<1>1. /\ stage = "starting" /\ Now.op = "audit_file"
      /\ UNCHANGED <<held, got, snaps, prepared, probe, listener, ready, client, changes>>
      /\ disk' = [disk EXCEPT ![AuditId].file[held.inode] = file]
      /\ GoodDisk(disk) /\ BootInv /\ StartInv /\ PinsInv /\ BootTypes
  BY DEF OpenAuditFile, Doing, Now, material, StartupInv
<1>2. InFinish(3)
  BY <1>1, FinishPlaces
<1>3. listener = "closed" /\ AuditDir \in Ids /\ AuditId \in Ids /\ held.inode \in 1 .. 2
  BY <1>1, <1>2, Paths DEF InFinish
<1>4. file.type \in FileTypes \ {"missing"}
  BY <1>1, <1>3 DEF GoodDisk, IsDisk, FileTypes, NewAuditFile
<1>5. Later(disk, disk') /\ GoodDisk(disk')
  <2>1. PICK id \in Ids, n \in 1 .. 2 : id = AuditId /\ n = held.inode
    BY <1>3
  <2>2. PICK f : f = file
    OBVIOUS
  <2>3. PICK e : e = disk'
    OBVIOUS
  <2>4. /\ f = IF disk[id].file[n].type = "missing" THEN NewAuditFile ELSE disk[id].file[n]
        /\ e = [disk EXCEPT ![id].file[n] = f]
    BY <1>1, <2>1, <2>2, <2>3
  <2>5. Later(disk, e)
    BY <1>1, <2>4, CreateLater
  <2>6. QED
    BY <2>3, <2>5 DEF Later
<1>6. BootTypes'
  BY <1>1 DEF BootTypes
<1> HIDE DEF file
<1>7. CASE /\ file.mode \cap GroupOrOther = {} /\ (file.size = 0 \/ file.content.newline)
           /\ audit' = [dir |-> held.inode, file |-> file] /\ Goes
  <2>1. UNCHANGED <<raw, config, stage, error>> /\ todo' = Tail(todo)
    BY <1>7 DEF Goes
  <2>2. todo' = SubSeq(Finish, 4, 6)
    BY <1>2, <2>1, AtFinish, SMTT(40)
  <2>3. TlsDone' /\ AllPrepared'
    BY <1>1, <1>2, <2>1, TlsKept, PreparedKept DEF InFinish
  <2>4. AuditOpen'
    <3>1. disk'[AuditDir].file[held.inode].type = "dir"
      BY <1>2, <1>3, <1>5, <2>1, AuditKept DEF InFinish
    <3>2. AuditDir' = AuditDir
      BY <2>1, ConfigKept
    <3>3. QED
      BY <1>3, <1>7, <3>1, <3>2 DEF AuditOpen
  <2>5. InFinish(4)'
    BY <1>1, <1>3, <2>2, <2>3, <2>4 DEF InFinish
  <2>6. BootInv' /\ ClientInv' /\ StartInv'
    BY <1>1, <2>1, <2>5, GoStep
  <2>7. QED
    BY <1>1, <1>5, <1>6, <2>6, PinsKept DEF StartupInv
<1>8. CASE Fails("DestinationUnavailable") \/ Fails("UnsafeDestination") \/ Fails("IncompleteExistingLog")
  <2>1. /\ UNCHANGED <<raw, config>> /\ stage' = "failed"
        /\ error' \in {"DestinationUnavailable", "UnsafeDestination", "IncompleteExistingLog"}
    BY <1>8 DEF Fails
  <2>2. BootInv' /\ StartInv' /\ PinsInv' /\ ClientInv'
    BY <1>1, <1>3, <1>5, <2>1, FailStep
  <2>3. QED
    BY <1>5, <1>6, <2>2 DEF StartupInv
<1>9. CASE \/ file.type \in {"symlink", "dir", "fifo"}
           \/ file.type = "file" /\ (file.mode \cap GroupOrOther # {} \/ file.uid # "daemon")
  BY <1>8, <1>9 DEF OpenAuditFile, file
<1>10. CASE file.type = "file" /\ file.mode \cap GroupOrOther = {} /\ file.uid = "daemon"
  <2>1. \/ /\ file.size = 0 \/ file.content.newline
           /\ audit' = [dir |-> held.inode, file |-> file] /\ Goes
        \/ Fails("IncompleteExistingLog")
    BY <1>10 DEF OpenAuditFile, file
  <2>2. QED
    BY <1>7, <1>8, <1>10, <2>1, SMTT(40)
<1>11. QED
  BY <1>4, <1>9, <1>10, SMTT(40) DEF FileTypes

-----------------------------------------------------------------------------
(* The application, the listener, READY.                                    *)

\* The targets that were prepared are those the application asks for.
LEMMA PreparedForAll ==
  ASSUME BootInv, stage = "starting", AllPrepared
  PROVE  PreparedFor(C.targets)
<1>1. IsFiniteSet(SshIndices)
  BY Indices
<1> DEFINE f == [i \in SshIndices |-> C.targets[i].name]
<1>2. f \in [SshIndices -> DOMAIN prepared]
  BY DEF AllPrepared
<1>3. \A i, j \in SshIndices : f[i] = f[j] => i = j
  BY NamesDiffer
<1>4. \A name \in DOMAIN prepared : \E i \in SshIndices : f[i] = name
  BY DEF AllPrepared
<1> HIDE DEF f
<1>5. f \in Bijection(SshIndices, DOMAIN prepared)
  BY <1>2, <1>3, <1>4, Fun_IsBij
<1>6. Cardinality(DOMAIN prepared) = Cardinality(SshIndices)
  BY <1>1, <1>5, FS_Bijection DEF ExistsBijection
<1>7. QED
  BY <1>6 DEF PreparedFor, AllPrepared, SshIndices

\* What config::load accepts and the start prepared, the application takes, but for the
\* development user.
LEMMA BuildErrors ==
  ASSUME BootInv, stage = "starting", AllPrepared
  PROVE  BuildError(C) \in {"none", "Identity"}
<1>1. C = ServerConfig(raw) /\ Accepted(raw) /\ RawTypes(raw)
  BY Configured
<1>2. Contract(C) /\ TargetAllowlist(C.targets) = <<>> /\ convert_transport(raw.server) = <<>>
  BY <1>1 DEF Accepted
<1>3. ValidOrigin(C.public_url)
  BY <1>2 DEF Contract, ValidOrigin
<1>4. ASSUME C.auth.provider = "trusted-proxy"
      PROVE  C.transport.kind = "trusted_proxy" /\ C.transport.trusted_sources # <<>>
  <2>1. C.transport.kind = "trusted_proxy" /\ C.transport = ServerTransport(raw.server)
    BY <1>1, <1>2, <1>4 DEF Contract, ServerConfig
  <2>2. "trusted_proxy" \in DOMAIN raw.server /\ "tls" \notin DOMAIN raw.server
    BY <2>1 DEF ServerTransport
  <2>3. "trusted_proxy" \in DOMAIN raw.server /\ "trusted_sources" \in DOMAIN raw.server.trusted_proxy
           => IsSeq(raw.server.trusted_proxy.trusted_sources)
    BY <1>1 DEF RawTypes
  <2>4. DOMAIN raw.server.trusted_proxy.trusted_sources # {}
    BY <1>2, <2>2, <2>3, TransportComplaints
  <2>5. DOMAIN C.transport.trusted_sources # {}
    BY <2>1, <2>2, <2>4 DEF ServerTransport
  <2>6. QED
    BY <2>1, <2>5
<1>5. PreparedFor(C.targets)
  BY PreparedForAll
<1>6. QED
  BY <1>2, <1>3, <1>4, <1>5 DEF BuildError

\* The step of BuildApplication.
LEMMA BuildStep ==
  ASSUME StartupInv, BuildApplication PROVE StartupInv'
<1>1. /\ stage = "starting" /\ Now.op = "build"
      /\ UNCHANGED <<held, got, snaps, prepared, probe, audit, listener, ready, client, disk, changes>>
      /\ GoodDisk(disk) /\ BootInv /\ StartInv /\ PinsInv /\ BootTypes
  BY DEF BuildApplication, Doing, Now, material, doors, world, StartupInv
<1>2. InFinish(4)
  BY <1>1, FinishPlaces
<1>3. Later(disk, disk') /\ GoodDisk(disk')
  BY <1>1, SameLater
<1>4. BootTypes'
  BY <1>1 DEF BootTypes
<1>5. listener = "closed" /\ AllPrepared
  BY <1>2 DEF InFinish
<1>6. BuildError(C) \in {"none", "Identity"}
  BY <1>1, <1>5, BuildErrors
<1>7. CASE Goes
  <2>1. UNCHANGED <<raw, config, stage, error>> /\ todo' = Tail(todo)
    BY <1>7 DEF Goes
  <2>2. todo' = SubSeq(Finish, 5, 6)
    <3>1. 4 \in 1 .. 6 /\ 4 < 6 /\ 4 + 1 = 5
      OBVIOUS
    <3>2. QED
      BY <1>2, <2>1, <3>1, AtFinish
  <2>3. TlsDone' /\ AllPrepared'
    BY <1>1, <1>2, <2>1, TlsKept, PreparedKept DEF InFinish
  <2>4. AuditOpen'
    <3>1. AuditDir \in Ids
      BY <1>1, Paths
    <3>2. QED
      BY <1>1, <1>2, <1>3, <2>1, <3>1, AuditKept DEF InFinish
  <2>5. InFinish(5)'
    BY <1>1, <1>5, <2>2, <2>3, <2>4 DEF InFinish
  <2>6. BootInv' /\ ClientInv' /\ StartInv'
    BY <1>1, <2>1, <2>5, GoStep
  <2>7. QED
    BY <1>1, <1>3, <1>4, <2>6, PinsKept DEF StartupInv
<1>8. CASE Fails(BuildError(C)) /\ BuildError(C) # "none"
  <2>1. UNCHANGED <<raw, config>> /\ stage' = "failed" /\ error' = "Identity"
    BY <1>6, <1>8 DEF Fails
  <2>2. BootInv' /\ StartInv' /\ PinsInv' /\ ClientInv'
    BY <1>1, <1>3, <1>5, <2>1, FailStep
  <2>3. QED
    BY <1>3, <1>4, <2>2 DEF StartupInv
<1>9. QED
  BY <1>7, <1>8 DEF BuildApplication, C

\* The step of Bind.
LEMMA BindStep ==
  ASSUME StartupInv, Bind PROVE StartupInv'
<1>1. /\ stage = "starting" /\ Now.op = "bind"
      /\ UNCHANGED <<held, got, snaps, prepared, probe, audit, ready, client, disk, changes>>
      /\ GoodDisk(disk) /\ BootInv /\ StartInv /\ PinsInv /\ BootTypes
  BY DEF Bind, Doing, Now, material, world, StartupInv
<1>2. InFinish(5)
  BY <1>1, FinishPlaces
<1>3. Later(disk, disk') /\ GoodDisk(disk')
  BY <1>1, SameLater
<1>4. listener = "closed"
  BY <1>2 DEF InFinish
<1>5. CASE listener' = "bound" /\ Goes
  <2>1. UNCHANGED <<raw, config, stage, error>> /\ todo' = Tail(todo)
    BY <1>5 DEF Goes
  <2>2. todo' = SubSeq(Finish, 6, 6)
    <3>1. 5 \in 1 .. 6 /\ 5 < 6 /\ 5 + 1 = 6
      OBVIOUS
    <3>2. QED
      BY <1>2, <2>1, <3>1, AtFinish
  <2>3. TlsDone' /\ AllPrepared'
    BY <1>1, <1>2, <2>1, TlsKept, PreparedKept DEF InFinish
  <2>4. AuditOpen'
    <3>1. AuditDir \in Ids
      BY <1>1, Paths
    <3>2. QED
      BY <1>1, <1>2, <1>3, <2>1, <3>1, AuditKept DEF InFinish
  <2>5. InFinish(6)'
    BY <1>5, <2>2, <2>3, <2>4 DEF InFinish
  <2>6. BootInv' /\ ClientInv' /\ StartInv'
    BY <1>1, <2>1, <2>5, GoStep
  <2>7. BootTypes'
    BY <1>1, <1>5 DEF BootTypes
  <2>8. QED
    BY <1>1, <1>3, <2>6, <2>7, PinsKept DEF StartupInv
<1>6. CASE Fails("Bind") /\ UNCHANGED listener
  <2>1. UNCHANGED <<raw, config>> /\ stage' = "failed" /\ error' = "Bind"
    BY <1>6 DEF Fails
  <2>2. BootInv' /\ StartInv' /\ PinsInv' /\ ClientInv'
    BY <1>1, <1>3, <1>4, <1>6, <2>1, FailStep
  <2>3. BootTypes'
    BY <1>1, <1>6 DEF BootTypes
  <2>4. QED
    BY <1>3, <2>2, <2>3 DEF StartupInv
<1>7. QED
  BY <1>5, <1>6 DEF Bind

\* The step of NotifyReady.
LEMMA ReadyStep ==
  ASSUME StartupInv, NotifyReady PROVE StartupInv'
<1>1. /\ stage = "starting" /\ Now.op = "ready"
      /\ UNCHANGED <<held, got, snaps, prepared, probe, audit, client, disk, changes>>
      /\ GoodDisk(disk) /\ BootInv /\ StartInv /\ PinsInv /\ BootTypes /\ ClientInv
  BY DEF NotifyReady, Doing, Now, material, world, StartupInv
<1>2. InFinish(6)
  BY <1>1, FinishPlaces
<1>3. Later(disk, disk') /\ GoodDisk(disk')
  BY <1>1, SameLater
<1>4. listener = "bound" /\ TlsDone /\ AllPrepared /\ AuditOpen
  BY <1>2 DEF InFinish
<1>5. CASE ready' = TRUE /\ stage' = "serving" /\ UNCHANGED <<raw, config, error, listener>>
  <2>1. TlsDone' /\ AllPrepared'
    BY <1>1, <1>4, <1>5, TlsKept, PreparedKept
  <2>2. AuditOpen'
    <3>1. AuditDir \in Ids
      BY <1>1, Paths
    <3>2. QED
      BY <1>1, <1>3, <1>4, <1>5, <3>1, AuditKept
  <2>3. StartInv'
    BY <1>4, <1>5, <2>1, <2>2 DEF StartInv
  <2>4. BootInv'
    BY <1>1, <1>5 DEF BootInv
  <2>5. BootTypes'
    BY <1>1, <1>5 DEF BootTypes
  <2>6. ClientInv'
    <3>1. client.state # "starting"
      BY <1>1 DEF ClientInv
    <3>2. QED
      BY <1>1, <3>1 DEF ClientInv
  <2>7. QED
    BY <1>1, <1>3, <2>3, <2>4, <2>5, <2>6, PinsKept DEF StartupInv
<1>6. CASE Fails("ServiceManager") /\ listener' = "closed" /\ UNCHANGED ready
  <2>1. UNCHANGED <<raw, config>> /\ stage' = "failed" /\ error' = "ServiceManager"
    BY <1>6 DEF Fails
  <2>2. BootInv' /\ StartInv' /\ PinsInv' /\ ClientInv'
    BY <1>1, <1>3, <1>6, <2>1, FailStep
  <2>3. BootTypes'
    BY <1>1, <1>6 DEF BootTypes
  <2>4. QED
    BY <1>3, <2>2, <2>3 DEF StartupInv
<1>7. QED
  BY <1>5, <1>6 DEF NotifyReady

-----------------------------------------------------------------------------
(* Sessions.                                                                *)

\* The k-th call of a client's start is at hand.
LEMMA AtClient ==
  ASSUME NEW k \in 1 .. 8, ClientAt(k)
  PROVE  /\ Head(client.todo) = ClientProgram[k]
         /\ k < 8 => Tail(client.todo) = SubSeq(ClientProgram, k + 1, 8)
<1>1. ClientProgram \in Seq(Calls) /\ Len(ClientProgram) = 8
  BY ClientCalls
<1>2. client.todo = SubSeq(ClientProgram, k, Len(ClientProgram)) /\ k \in 1 .. Len(ClientProgram)
  BY <1>1 DEF ClientAt
<1>3. QED
  BY <1>1, <1>2, Advance

\* A step of a session start leaves everything else alone.
LEMMA SessionFrame ==
  ASSUME StartupInv, UNCHANGED <<boot, material, doors, world>>, ClientInv'
  PROVE  StartupInv'
<1>1. /\ UNCHANGED <<boot, held, got, snaps, prepared, probe, doors, disk, changes, listener, ready>>
      /\ GoodDisk(disk) /\ BootTypes
  BY DEF material, doors, world, StartupInv
<1>2. Later(disk, disk') /\ GoodDisk(disk')
  BY <1>1, SameLater
<1>3. BootInv' /\ StartInv' /\ PinsInv'
  BY <1>1, <1>2, FrameStep
<1>4. BootTypes'
  BY <1>1 DEF BootTypes
<1>5. QED
  BY <1>2, <1>3, <1>4 DEF StartupInv

\* The step of Request.
LEMMA RequestStep ==
  ASSUME StartupInv, NEW target, NEW user, Request(target, user) PROVE StartupInv'
<1>1. stage = "serving" /\ UNCHANGED <<boot, material, doors, world>>
  BY DEF Request
<1>2. UNCHANGED <<stage, config, prepared, disk>>
  BY <1>1 DEF boot, material, world
<1> DEFINE name == target.name
<1>3. CASE client'.state = "refused"
  <2>1. ClientInv'
    BY <1>3 DEF ClientInv
  <2>2. QED
    BY <1>1, <2>1, SessionFrame
<1>4. CASE /\ client'.state = "starting" /\ client'.name = name /\ client'.todo = ClientProgram
           /\ client'.fresh = Matching(disk, name)
           /\ {"state", "name", "todo", "fresh", "log"} \subseteq DOMAIN client'
  <2>1. Matching(disk, client.name)' = Matching(disk, name)
    BY <1>2, <1>4 DEF Matching, PathOf
  <2>2. Matching(disk, name) \subseteq SshRoles
    BY DEF Matching
  <2>3. ClientAt(1)'
    <3>1. ClientProgram = SubSeq(ClientProgram, 1, 8)
      BY ClientCalls, Beginning
    <3>2. QED
      BY <1>4, <3>1 DEF ClientAt
  <2>4. ClientInv'
    BY <1>1, <1>2, <1>4, <2>1, <2>2, <2>3 DEF ClientInv
  <2>5. QED
    BY <1>1, <2>4, SessionFrame
<1>5. QED
  BY <1>3, <1>4 DEF Request, Refusal

\* A session start that is refused.
LEMMA RefusedStep ==
  ASSUME StartupInv, UNCHANGED <<boot, material, doors, world>>, client' = ClientRefused
  PROVE  StartupInv'
<1>1. client'.state = "refused"
  BY DEF ClientRefused, Refusal
<1>2. ClientInv'
  BY <1>1 DEF ClientInv
<1>3. QED
  BY <1>2, SessionFrame

\* The steps of ClientRechecks and ClientLogs: a call is passed.
LEMMA ClientGoesOn ==
  ASSUME StartupInv, client.state = "starting", UNCHANGED <<boot, material, doors, world>>,
         NEW k \in 1 .. 7, ClientAt(k),
         client' = ClientGoes \/ client' = [ClientGoes EXCEPT !.log = TRUE],
         k = 1 => "executable" \in client.fresh,
         k = 2 => "known_hosts" \in client.fresh,
         k = 3 => "identity" \in client.fresh
  PROVE  StartupInv'
<1>1. UNCHANGED <<stage, config, prepared, disk>>
  BY DEF boot, material, world
<1>2. /\ stage = "serving" /\ {"state", "name", "todo", "fresh", "log"} \subseteq DOMAIN client
      /\ client.fresh \subseteq SshRoles /\ Matching(disk, client.name) \subseteq client.fresh
  BY DEF StartupInv, ClientInv
<1>3. /\ client'.state = "starting" /\ client'.name = client.name /\ client'.fresh = client.fresh
      /\ client'.todo = Tail(client.todo) /\ DOMAIN client' = DOMAIN client
  BY <1>2 DEF ClientGoes
<1>4. Matching(disk, client.name)' = Matching(disk, client.name)
  BY <1>1, <1>3 DEF Matching, PathOf
<1>5. client'.todo = SubSeq(ClientProgram, k + 1, 8)
  <2>1. k \in 1 .. 8 /\ k < 8
    OBVIOUS
  <2>2. QED
    BY <1>3, <2>1, AtClient
<1>6. ClientAt(k + 1)'
  <2>1. k > 1 \/ k = 1
    OBVIOUS
  <2>2. k + 1 > 2 => k > 2 \/ k = 2
    OBVIOUS
  <2>3. k + 1 > 3 => k > 3 \/ k = 3
    OBVIOUS
  <2>4. /\ "executable" \in client.fresh
        /\ k + 1 > 2 => "known_hosts" \in client.fresh
        /\ k + 1 > 3 => "identity" \in client.fresh
    BY <2>1, <2>2, <2>3 DEF ClientAt
  <2>5. QED
    BY <1>3, <1>5, <2>4 DEF ClientAt
<1>7. k + 1 \in 1 .. 8
  OBVIOUS
<1>8. ClientInv'
  BY <1>1, <1>2, <1>3, <1>4, <1>6, <1>7 DEF ClientInv
<1>9. QED
  BY <1>8, SessionFrame

\* The steps of ClientRechecks, ClientLogs and ClientSpawns.
LEMMA ClientStep ==
  ASSUME StartupInv, ClientRechecks \/ ClientLogs \/ ClientSpawns PROVE StartupInv'
<1>1. client.state = "starting" /\ UNCHANGED <<boot, material, doors, world>>
  BY DEF ClientRechecks, ClientLogs, ClientSpawns, ClientDoing
<1>2. PICK k \in 1 .. 8 : ClientAt(k)
  BY <1>1 DEF StartupInv, ClientInv
<1>3. Head(client.todo) = ClientProgram[k] /\ k \in {1, 2, 3, 4, 5, 6, 7, 8}
  BY <1>2, AtClient
<1>4. /\ Head(client.todo).op = IF k = 4 THEN "log" ELSE IF k = 8 THEN "exec" ELSE "recheck"
      /\ k \in {1, 5} => Head(client.todo).role = "executable"
      /\ k \in {2, 6} => Head(client.todo).role = "known_hosts"
      /\ k \in {3, 7} => Head(client.todo).role = "identity"
  <2> DEFINE p == ClientProgram
  <2>1. /\ p[1] = Call("recheck", "executable", 0) /\ p[2] = Call("recheck", "known_hosts", 0)
        /\ p[3] = Call("recheck", "identity", 0) /\ p[4] = Call("log", "none", 0)
        /\ p[5] = Call("recheck", "executable", 0) /\ p[6] = Call("recheck", "known_hosts", 0)
        /\ p[7] = Call("recheck", "identity", 0) /\ p[8] = Call("exec", "none", 0)
    BY ClientCalls
  <2>2. QED
    BY <1>3, <2>1 DEF Call
<1>5. CASE ClientRechecks
  <2> DEFINE role == Head(client.todo).role
             id == PathOf(role, prepared[client.name].target).id
  <2>1. k \in {1, 2, 3, 5, 6, 7} /\ role \in SshRoles
    BY <1>3, <1>4, <1>5 DEF ClientRechecks, ClientDoing, SshRoles
  <2>2. CASE Unchanged(id, prepared[client.name].snaps[role]) /\ client' = ClientGoes
    <3>1. role \in Matching(disk, client.name)
      BY <2>1, <2>2 DEF Unchanged, Snapshot, Matching
    <3>2. role \in client.fresh
      BY <1>1, <3>1 DEF StartupInv, ClientInv
    <3>3. k \in 1 .. 7
      BY <2>1
    <3>4. QED
      BY <1>1, <1>2, <1>4, <2>2, <3>2, <3>3, ClientGoesOn
  <2>3. CASE client' = ClientRefused
    BY <1>1, <2>3, RefusedStep
  <2>4. QED
    BY <1>5, <2>2, <2>3 DEF ClientRechecks
<1>6. CASE ClientLogs
  <2>1. k = 4
    BY <1>3, <1>4, <1>6 DEF ClientLogs, ClientDoing
  <2>2. CASE client' = [ClientGoes EXCEPT !.log = TRUE]
    BY <1>1, <1>2, <2>1, <2>2, ClientGoesOn
  <2>3. CASE client' = ClientRefused
    BY <1>1, <2>3, RefusedStep
  <2>4. QED
    BY <1>6, <2>2, <2>3 DEF ClientLogs
<1>7. CASE ClientSpawns
  <2>1. k = 8
    BY <1>3, <1>4, <1>7 DEF ClientSpawns, ClientDoing
  <2>2. client.fresh = SshRoles /\ {"state", "fresh", "todo"} \subseteq DOMAIN client
    BY <1>1, <1>2, <2>1 DEF StartupInv, ClientInv, ClientAt, SshRoles
  <2>3. CASE client' = [ClientGoes EXCEPT !.state = "running"]
    <3>1. client'.state = "running" /\ client'.fresh = client.fresh
      BY <2>2, <2>3 DEF ClientGoes
    <3>2. ClientInv'
      BY <2>2, <3>1 DEF ClientInv
    <3>3. QED
      BY <1>1, <3>2, SessionFrame
  <2>4. CASE client' = ClientRefused
    BY <1>1, <2>4, RefusedStep
  <2>5. QED
    BY <1>7, <2>3, <2>4 DEF ClientSpawns
<1>8. QED
  BY <1>5, <1>6, <1>7

-----------------------------------------------------------------------------
(* Everyone else.                                                           *)

\* The steps of Write and Swap.
LEMMA EnvironmentStep ==
  ASSUME StartupInv, Environment PROVE StartupInv'
<1>1. GoodDisk(disk) /\ BootTypes /\ ClientInv /\ BootInv
  BY DEF StartupInv
<1>2. DOMAIN disk = Ids
  BY <1>1 DEF GoodDisk, IsDisk
<1>3. PICK id \in Ids : Write(id) \/ Swap(id)
  BY <1>2 DEF Environment
<1>4. /\ changes < MaxChanges /\ changes' = changes + 1 /\ UNCHANGED <<boot, material, doors>>
      /\ client' = IF client.state = "starting"
                   THEN [client EXCEPT !.fresh = @ \cup Matching(disk', client.name)]
                   ELSE client
  BY <1>3 DEF Write, Swap, Changed
<1>5. Later(disk, disk')
  <2>1. PICK e : e = disk'
    OBVIOUS
  <2>2. CASE Write(id)
    <3>1. PICK file \in Rewrites[id] :
             disk' = [disk EXCEPT ![id].file[Here(disk, id)] = file, ![id].stamp[Here(disk, id)] = @ + 1]
      BY <2>2 DEF Write
    <3>2. PICK n \in 1 .. 2 : n = Here(disk, id)
      BY <1>1, SnapshotStamped
    <3>3. e = [disk EXCEPT ![id].file[n] = file, ![id].stamp[n] = @ + 1]
      BY <2>1, <3>1, <3>2
    <3>4. Later(disk, e)
      BY <1>1, <3>3, WriteLater
    <3>5. QED
      BY <2>1, <3>4
  <2>3. CASE Swap(id)
    <3>1. e = [disk EXCEPT ![id].here = 3 - @]
      BY <2>1, <2>3 DEF Swap
    <3>2. Later(disk, e)
      BY <1>1, <3>1, SwapLater
    <3>3. QED
      BY <2>1, <3>2
  <2>4. QED
    BY <1>3, <2>2, <2>3
<1>6. UNCHANGED <<boot, held, got, snaps, prepared, probe, doors, listener, ready, stage, config>>
  BY <1>4 DEF material, boot, doors
<1>7. BootInv' /\ StartInv' /\ PinsInv'
  BY <1>5, <1>6, FrameStep
<1>8. BootTypes'
  <2>1. changes' \in 0 .. MaxChanges
    BY <1>1, <1>4, SetupsAssumption DEF BootTypes
  <2>2. QED
    BY <1>1, <1>6, <2>1 DEF BootTypes
<1>9. ClientInv'
  <2>1. CASE client.state = "starting"
    <3>1. /\ stage = "serving" /\ {"state", "name", "todo", "fresh", "log"} \subseteq DOMAIN client
          /\ client.fresh \subseteq SshRoles
      BY <1>1, <2>1 DEF ClientInv
    <3>2. PICK k \in 1 .. 8 : ClientAt(k)
      BY <1>1, <2>1 DEF ClientInv
    <3>3. /\ client'.state = "starting" /\ client'.name = client.name /\ client'.todo = client.todo
          /\ client'.fresh = client.fresh \cup Matching(disk', client.name)
          /\ DOMAIN client' = DOMAIN client
      BY <1>4, <2>1, <3>1
    <3>4. Matching(disk, client.name)' = Matching(disk', client.name)
      BY <1>6, <3>3 DEF Matching, PathOf
    <3>5. Matching(disk', client.name) \subseteq SshRoles
      BY DEF Matching
    <3>6. ClientAt(k)'
      BY <3>2, <3>3 DEF ClientAt
    <3>7. QED
      BY <1>6, <3>1, <3>3, <3>4, <3>5, <3>6 DEF ClientInv
  <2>2. CASE client.state # "starting"
    BY <1>1, <1>4, <2>2 DEF ClientInv
  <2>3. QED
    BY <2>1, <2>2
<1>10. GoodDisk(disk')
  BY <1>5 DEF Later
<1>11. QED
  BY <1>7, <1>8, <1>9, <1>10 DEF StartupInv

\* The step of ProbeTimesOut.
LEMMA TimeoutStep ==
  ASSUME StartupInv, ProbeTimesOut PROVE StartupInv'
<1>1. /\ UNCHANGED <<boot, held, got, snaps, prepared, doors, client, disk, changes, listener, ready, stage, config>>
      /\ probe.state = "running" /\ probe' = [probe EXCEPT !.state = "killed"]
      /\ GoodDisk(disk) /\ BootTypes /\ ClientInv
  BY DEF ProbeTimesOut, boot, doors, world, StartupInv
<1>2. Later(disk, disk') /\ GoodDisk(disk')
  BY <1>1, SameLater
<1>3. BootInv' /\ StartInv' /\ PinsInv'
  BY <1>1, <1>2, FrameStep
<1>4. BootTypes'
  <2>1. probe'.state \in {"none", "running", "killed", "reaped"}
    BY <1>1
  <2>2. QED
    BY <1>1, <2>1 DEF BootTypes
<1>5. ClientInv'
  BY <1>1 DEF ClientInv, Matching, PathOf, ClientAt
<1>6. QED
  BY <1>2, <1>3, <1>4, <1>5 DEF StartupInv

\* A step that changes nothing.
LEMMA StutterStep ==
  ASSUME StartupInv, UNCHANGED vars PROVE StartupInv'
<1>1. /\ UNCHANGED <<boot, held, got, snaps, prepared, probe, doors, client, disk, changes, listener, ready, stage, config>>
      /\ GoodDisk(disk) /\ BootTypes /\ ClientInv
  BY DEF vars, boot, material, doors, world, StartupInv
<1>2. Later(disk, disk') /\ GoodDisk(disk')
  BY <1>1, SameLater
<1>3. BootInv' /\ StartInv' /\ PinsInv'
  BY <1>1, <1>2, FrameStep
<1>4. BootTypes'
  BY <1>1 DEF BootTypes
<1>5. ClientInv'
  BY <1>1 DEF ClientInv, Matching, PathOf, ClientAt
<1>6. QED
  BY <1>2, <1>3, <1>4, <1>5 DEF StartupInv

-----------------------------------------------------------------------------
(* The theorems.                                                            *)

\* StartupInv is an invariant of a start.
THEOREM Invariant == Spec => []StartupInv
<1>1. Init => StartupInv
  BY InitInv
<1>2. StartupInv /\ [Next]_vars => StartupInv'
  <2> SUFFICES ASSUME StartupInv, [Next]_vars PROVE StartupInv'
    OBVIOUS
  <2>1. CASE Daemon
    BY <2>1, LoadStep, OpenStep, ReadStep, StatStep, PairStep, RecheckStep, KeepStep, ProbeStep,
       AuditPathStep, AuditDirStep, AuditFileStep, BuildStep, BindStep, ReadyStep DEF Daemon
  <2>2. CASE WriterComes \/ ProbeAnswers \/ ProbeReaped
    BY <2>2, WriterStep, ProbeStep
  <2>3. CASE ProbeTimesOut
    BY <2>3, TimeoutStep
  <2>4. CASE Session
    BY <2>4, RequestStep, ClientStep DEF Session
  <2>5. CASE Environment
    BY <2>5, EnvironmentStep
  <2>6. CASE UNCHANGED vars
    BY <2>6, StutterStep
  <2>7. QED
    BY <2>1, <2>2, <2>3, <2>4, <2>5, <2>6 DEF Next
<1>3. QED
  BY <1>1, <1>2, PTL DEF Spec

\* The type invariant of Startup (startup.rs, ssh.rs): stages, roles, the states of
\* the probe and of a session start are what they are called.
THEOREM TypesHold == Spec => []TypeOK
<1>1. StartupInv => TypeOK
  BY DEF StartupInv, BootInv, BootTypes, ClientInv, GoodDisk, IsDisk, TypeOK
<1>2. QED
  BY <1>1, Invariant, PTL

\* For every set of files: config::load accepts only combinations of mode, address,
\* transport and provider that the design allows, with usable limits, and refuses none
\* of them for its combination (config.rs, parse and validate_startup_contract).
THEOREM AcceptedCombinations == Spec => []CombinationsAsDocumented
<1>1. StartupInv => CombinationsAsDocumented
  <2> SUFFICES ASSUME BootInv, stage # "load" PROVE CombinationsAsDocumented
    BY DEF StartupInv, CombinationsAsDocumented
  <2>1. PICK s \in Setups : raw = s.raw
    BY DEF BootInv
  <2>2. config = Parse(raw) /\ (RawConfig(raw) => RawTypes(raw))
    BY <2>1, SetupsAssumption DEF BootInv
  <2>3. /\ config.ok => config.config = ServerConfig(raw) /\ Accepted(raw)
        /\ ~ config.ok /\ config.field \in Combined => ~ Matrix(raw)
    BY <2>2, ParsedFile
  <2>4. ASSUME config.ok PROVE Matrix(raw) /\ UsableLimits(config.config.limits)
    <3>1. /\ Contract(ServerConfig(raw)) /\ UsableLimits(Limits(raw.limits)) /\ RawTypes(raw)
          /\ convert_transport(raw.server) = <<>>
      BY <2>2, <2>3, <2>4 DEF Accepted
    <3>2. config.config.limits = Limits(raw.limits)
      BY <2>3, <2>4 DEF ServerConfig
    <3> DEFINE c == ServerConfig(raw)
    <3>3. /\ c.bind = raw.server.bind /\ c.mode = raw.server.mode
          /\ c.transport = ServerTransport(raw.server) /\ c.auth = AuthConfig(raw.auth)
          /\ c.public_url = raw.server.public_url
      BY DEF ServerConfig
    <3>4. c.auth.provider = raw.auth.provider
      BY <3>1, <3>3 DEF AuthConfig, RawTypes
    <3>5. /\ c.transport.kind = "plaintext" <=>
               "tls" \notin DOMAIN raw.server /\ "trusted_proxy" \notin DOMAIN raw.server
          /\ c.transport.kind = "trusted_proxy" <=>
               "tls" \notin DOMAIN raw.server /\ "trusted_proxy" \in DOMAIN raw.server
      BY <3>3 DEF ServerTransport
    <3>6. ~ ("tls" \in DOMAIN raw.server /\ "trusted_proxy" \in DOMAIN raw.server)
      <4>1. "trusted_proxy" \in DOMAIN raw.server /\ "trusted_sources" \in DOMAIN raw.server.trusted_proxy
              => IsSeq(raw.server.trusted_proxy.trusted_sources)
        BY <3>1 DEF RawTypes
      <4>2. QED
        BY <3>1, <4>1, TransportComplaints
    <3> HIDE DEF c
    <3>7. Matrix(raw)
      BY <3>1, <3>3, <3>4, <3>5, <3>6 DEF Matrix, Contract, RawTypes, c
    <3>8. QED
      BY <3>1, <3>2, <3>7
  <2>5. QED
    BY <2>3, <2>4 DEF CombinationsAsDocumented, UsableLimits, Combined
<1>2. QED
  BY <1>1, Invariant, PTL

\* For every set of files: what config::load accepts, the application can be built
\* from, but for the development user (server.rs, from_config_with_audit_pending_ssh).
THEOREM BuildsWhatItAccepts == Spec => []BuildRefusesOnlyTheIdentity
<1>1. StartupInv => BuildRefusesOnlyTheIdentity
  BY DEF StartupInv, BootInv, BuildRefusesOnlyTheIdentity
<1>2. QED
  BY <1>1, Invariant, PTL

\* However the files change meanwhile: READY is sent only by a daemon that listens,
\* records, has its listener's pair and every SSH target, and a start that failed
\* listens to nobody (startup.rs, prepare_with_ssh and bind_and_serve).
THEOREM ReadyEarned == Spec => []ReadyIsEarned
<1>1. StartupInv => ReadyIsEarned
  <2> SUFFICES ASSUME StartupInv PROVE ReadyIsEarned
    OBVIOUS
  <2>1. stage = "failed" => listener = "closed"
    BY DEF StartupInv, StartInv
  <2>2. ASSUME ready
        PROVE  TlsDone /\ AllPrepared /\ AuditOpen /\ listener = "bound"
    BY <2>2 DEF StartupInv, StartInv
  <2>3. AllPrepared => \A t \in SshTargets(config.config) : t.name \in DOMAIN prepared
    BY DEF AllPrepared, SshTargets, SshIndices, C
  <2>4. TlsDone => (config.config.transport.kind = "direct_tls" =>
                      got["certificate"].pair = got["private_key"].pair)
    BY DEF TlsDone, C
  <2>5. AuditOpen => /\ audit.dir # 0 /\ disk[AuditDir].file[audit.dir].type = "dir"
                     /\ audit.file.mode \cap GroupOrOther = {}
                     /\ audit.file.size = 0 \/ audit.file.content.newline
    BY DEF AuditOpen
  <2>6. QED
    BY <2>1, <2>2, <2>3, <2>4, <2>5 DEF ReadyIsEarned
<1>2. QED
  BY <1>1, Invariant, PTL

\* However the files change: a snapshot that still matches shows the bytes that were
\* validated, and a client is spawned only with three files each of which matched at
\* some moment since the session was asked for (ssh.rs, read_file, recheck_before_spawn).
THEOREM CheckedMaterial == Spec => []ClientsUseCheckedMaterial
<1>1. StartupInv => ClientsUseCheckedMaterial
  <2> SUFFICES ASSUME StartupInv PROVE ClientsUseCheckedMaterial
    OBVIOUS
  <2>1. client.state = "running" => client.fresh = SshRoles
    BY DEF StartupInv, ClientInv
  <2>2. ASSUME NEW name \in DOMAIN prepared, NEW r \in Matching(disk, name)
        PROVE  File(PathOf(r, prepared[name].target).id).content = prepared[name].got[r]
    <3>1. PICK id : id = PathOf(r, prepared[name].target).id
      OBVIOUS
    <3>2. r \in SshRoles /\ SnapshotIn(disk, id) = prepared[name].snaps[r]
      BY <3>1 DEF Matching
    <3>3. PICK s : s = prepared[name].snaps[r]
      OBVIOUS
    <3>4. s.id = id /\ s.inode = Here(disk, id) /\ s.stamp = disk[id].stamp[Here(disk, id)]
      BY <3>2, <3>3 DEF SnapshotIn
    <3>5. Pinned(disk, s, prepared[name].got[r])
      BY <3>2, <3>3 DEF StartupInv, PinsInv
    <3>6. disk[id].file[Here(disk, id)].content = prepared[name].got[r]
      BY <3>4, <3>5 DEF Pinned, Current
    <3>7. QED
      BY <3>1, <3>6 DEF File
  <2>3. QED
    BY <2>1, <2>2 DEF ClientsUseCheckedMaterial, SnapshotPinsContent
<1>2. QED
  BY <1>1, Invariant, PTL
=============================================================================
