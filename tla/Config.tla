------------------------------- MODULE Config -------------------------------
(***************************************************************************)
(* What config.rs makes of a configuration file: config::parse as the      *)
(* operator Parse, with its validators in the order the code runs them.    *)
(*                                                                         *)
(* A TOML table is a record whose DOMAIN is the set of keys present, so    *)
(* that missing, optional and unknown keys are what they are in the file.  *)
(* A string is known by what the validators ask of it: its length, its     *)
(* first and last character, the classes of its characters, and an id that *)
(* tells two strings of the same shape apart.  A validator is the sequence *)
(* of its complaints, each named by its field (a target's without its      *)
(* index); the error the code returns is the first of them.                *)
(***************************************************************************)
EXTENDS Integers, Sequences, FiniteSets, SequencesExt

None == <<>>
Some(x) == <<x>>
Option(table, key) == IF key \in DOMAIN table THEN Some(table[key]) ELSE None
OrElse(table, key, default) == IF key \in DOMAIN table THEN table[key] ELSE default

\* A validator's complaint, or none: Err(validation(field, ...)).
validation(holds, field) == IF holds THEN <<>> ELSE <<field>>

\* A validator that runs over a list stops at the first element with a complaint.
FirstComplaint(lists) ==
    LET bad == {i \in DOMAIN lists : lists[i] # <<>>}
    IN  IF bad = {} THEN <<>> ELSE lists[Min(bad)]

-----------------------------------------------------------------------------
(* The schema: the Raw... types, with deny_unknown_fields.                  *)

Keys(required, optional) == [required |-> required, optional |-> optional]

RawServer == Keys({"bind", "mode", "public_url"}, {"tls", "trusted_proxy"})
RawTls == Keys({}, {"certificate", "private_key"})
RawTrustedProxy == Keys({}, {"trusted_sources"})
RawAuth == Keys({"provider"}, {"user", "identity_header"})
RawAudit == Keys({"format", "path", "recording"}, {})
RawLimits == Keys({"max_sessions", "max_sessions_per_user", "idle_timeout_seconds",
                   "absolute_timeout_seconds"},
                  {"session_requests_per_window", "session_request_window_seconds",
                   "authentication_failures_per_window",
                   "authentication_failure_window_seconds"})
RawTarget(type) ==
    IF type = "pty"
    THEN Keys({"type", "name", "command"}, {"read_only"})
    ELSE Keys({"type", "name", "host", "port", "ssh_executable", "identity_file",
               "known_hosts", "user_policy"}, {"user", "user_mapping", "read_only"})

Fits(table, keys) ==
    /\ keys.required \subseteq DOMAIN table
    /\ DOMAIN table \subseteq keys.required \cup keys.optional

\* toml::from_str: the file has the shape of RawConfig.
RawConfig(raw) ==
    /\ Fits(raw, Keys({"server", "auth", "audit", "limits", "targets"}, {}))
    /\ Fits(raw.server, RawServer)
    /\ "tls" \in DOMAIN raw.server => Fits(raw.server.tls, RawTls)
    /\ "trusted_proxy" \in DOMAIN raw.server => Fits(raw.server.trusted_proxy, RawTrustedProxy)
    /\ Fits(raw.auth, RawAuth)
    /\ Fits(raw.audit, RawAudit)
    /\ Fits(raw.limits, RawLimits)
    /\ \A i \in DOMAIN raw.targets : Fits(raw.targets[i], RawTarget(raw.targets[i].type))

IsSeq(s) == s \in Seq({s[i] : i \in DOMAIN s})

\* The types serde gives the values the checks below distinguish.
RawTypes(raw) ==
    /\ raw.server.mode \in {"dev", "production"} /\ raw.auth.provider \in {"dev", "trusted-proxy"}
    /\ "trusted_proxy" \in DOMAIN raw.server /\ "trusted_sources" \in DOMAIN raw.server.trusted_proxy
          => IsSeq(raw.server.trusted_proxy.trusted_sources)
    /\ IsSeq(raw.targets)
    /\ \A i \in DOMAIN raw.targets :
          /\ raw.targets[i].type \in {"pty", "ssh"}
          /\ raw.targets[i].type = "ssh" => raw.targets[i].user_policy \in {"same-as-auth-user", "fixed", "mapping"}

-----------------------------------------------------------------------------
(* Strings.                                                                 *)

NameChars == {"alnum", "dot", "underscore", "hyphen"}

validate_nonempty(text, field) == validation(text.len > 0, field)

validate_target_name(name, field) ==
    validation(/\ name.len \in 1 .. 128
               /\ name.first # "hyphen"
               /\ name.chars \subseteq NameChars, field)

\* A path that no shell or client would expand.
validate_literal_path(path, field) ==
    validation(/\ path.len > 0
               /\ path.first # "tilde"
               /\ path.chars \cap {"expansion", "nul"} = {}, field)

\* A path that OpenSSH's option lexer takes as it stands.
validate_ssh_option_path(path, field) ==
    validate_literal_path(path, field)
    \o validation(/\ path.len > 0
                  /\ path.first # "tilde"
                  /\ path.chars \cap {"space", "control", "nul", "lexer"} = {}, field)

validate_identity(identity, field) ==
    validation(/\ identity.len \in 1 .. 256
               /\ identity.chars \cap {"space", "control", "nul"} = {}, field)

validate_username_value(user) ==
    /\ user.len \in 1 .. 128
    /\ user.first = "alnum"
    /\ user.last # "hyphen"
    /\ user.chars \subseteq NameChars

validate_username(user, field) == validation(validate_username_value(user), field)

\* The canonical spelling of a host, if it is one: an IP literal as its address
\* prints, a name in lower case.
canonical_ssh_host(host) ==
    IF host.ip THEN Some([host EXCEPT !.spelling = "canonical"])
    ELSE IF /\ host.len \in 1 .. 253
            /\ host.ascii
            /\ ~ host.numeric
            /\ \A i \in DOMAIN host.labels :
                  LET label == host.labels[i]
                  IN  /\ label.len \in 1 .. 63
                      /\ label.first = "alnum" /\ label.last = "alnum"
                      /\ label.chars \subseteq {"alnum", "hyphen"}
         THEN Some([host EXCEPT !.spelling = "canonical"])
         ELSE None

-----------------------------------------------------------------------------
(* Sections: the complaints of each conversion, and what it converts to.    *)

convert_transport(server) ==
    LET tls == Option(server, "tls")
        proxy == Option(server, "trusted_proxy")
        sources == IF proxy = None THEN None ELSE Option(proxy[1], "trusted_sources")
        Complain(i) ==   \* one source: a CIDR, in canonical form, seen once
            validation(sources[1][i].valid, "server.trusted_proxy.trusted_sources")
            \o validation(sources[1][i].canonical, "server.trusted_proxy.trusted_sources")
            \o validation(\A j \in 1 .. i - 1 : sources[1][j].net # sources[1][i].net,
                          "server.trusted_proxy.trusted_sources")
    IN  IF tls # None /\ proxy # None THEN <<"server.transport">>
        ELSE IF tls # None
        THEN validation("certificate" \in DOMAIN tls[1], "server.tls.certificate")
             \o validation("private_key" \in DOMAIN tls[1], "server.tls.private_key")
             \o (IF "certificate" \in DOMAIN tls[1]
                 THEN validate_literal_path(tls[1].certificate, "server.tls.certificate")
                 ELSE <<>>)
             \o (IF "private_key" \in DOMAIN tls[1]
                 THEN validate_literal_path(tls[1].private_key, "server.tls.private_key")
                 ELSE <<>>)
        ELSE IF proxy # None
        THEN IF sources \in {None, Some(<<>>)}
             THEN <<"server.trusted_proxy.trusted_sources">>
             ELSE FirstComplaint([i \in DOMAIN sources[1] |-> Complain(i)])
        ELSE <<>>

ServerTransport(server) ==
    IF "tls" \in DOMAIN server
    THEN [kind |-> "direct_tls", certificate |-> server.tls.certificate,
          private_key |-> server.tls.private_key]
    ELSE IF "trusted_proxy" \in DOMAIN server
    THEN [kind |-> "trusted_proxy",
          trusted_sources |-> [i \in DOMAIN server.trusted_proxy.trusted_sources |->
                                 server.trusted_proxy.trusted_sources[i].net]]
    ELSE [kind |-> "plaintext"]

convert_auth(auth) ==
    IF auth.provider = "dev"
    THEN validation("identity_header" \notin DOMAIN auth, "auth.identity_header")
         \o validation("user" \in DOMAIN auth, "auth.user")
         \o (IF "user" \in DOMAIN auth THEN validate_nonempty(auth.user, "auth.user") ELSE <<>>)
    ELSE validation("user" \notin DOMAIN auth, "auth.user")
         \o validation("identity_header" \in DOMAIN auth, "auth.identity_header")
         \o (IF "identity_header" \in DOMAIN auth
             THEN validation(auth.identity_header.header, "auth.identity_header") ELSE <<>>)

AuthConfig(auth) ==
    IF auth.provider = "dev" THEN [provider |-> "dev", user |-> auth.user]
    ELSE [provider |-> "trusted-proxy", identity_header |-> auth.identity_header]

\* The fields that only another user policy may have.
reject_stray_policy_fields(target) ==
    validation("user" \notin DOMAIN target, "targets.user")
    \o validation("user_mapping" \notin DOMAIN target, "targets.user_mapping")

\* A mapping, as validated by convert_target and again by the allowlist.
MappingComplaints(mapping) ==
    validation(DOMAIN mapping # {}, "targets.user_mapping")
    \o validation(\A who \in DOMAIN mapping :
                     /\ validate_identity(who, "") = <<>>
                     /\ validate_username_value(mapping[who]),
                  "targets.user_mapping")

UserPolicyComplaints(target) ==
    CASE target.user_policy = "same-as-auth-user" -> reject_stray_policy_fields(target)
      [] target.user_policy = "fixed" ->
            validation("user_mapping" \notin DOMAIN target, "targets.user_mapping")
            \o validation("user" \in DOMAIN target, "targets.user")
            \o (IF "user" \in DOMAIN target THEN validate_username(target.user, "targets.user")
                ELSE <<>>)
      [] target.user_policy = "mapping" ->
            validation("user" \notin DOMAIN target, "targets.user")
            \o validation("user_mapping" \in DOMAIN target, "targets.user_mapping")
            \o (IF "user_mapping" \in DOMAIN target
                THEN MappingComplaints(target.user_mapping) ELSE <<>>)

convert_target(target) ==
    IF target.type = "pty"
    THEN IF target.command = <<>> THEN <<"targets.command">>
         ELSE validate_literal_path(target.command[1], "targets.command[0]")
              \o validate_target_name(target.name, "targets.name")
    ELSE validate_target_name(target.name, "targets.name")
         \o validate_nonempty(target.host, "targets.host")
         \o validation(target.port # 0, "targets.port")
         \o validate_literal_path(target.ssh_executable, "targets.ssh_executable")
         \o validate_ssh_option_path(target.identity_file, "targets.identity_file")
         \o validate_ssh_option_path(target.known_hosts, "targets.known_hosts")
         \o UserPolicyComplaints(target)

SshUserPolicy(target) ==
    CASE target.user_policy = "fixed" -> [kind |-> "fixed", user |-> target.user]
      [] target.user_policy = "mapping" -> [kind |-> "mapping", mapping |-> target.user_mapping]
      [] OTHER -> [kind |-> "same"]

\* The typed target of a raw one that convert_target has nothing against.
Target(target) ==
    IF target.type = "pty"
    THEN [type |-> "pty", name |-> target.name, executable |-> target.command[1],
          argv |-> Tail(target.command), read_only |-> OrElse(target, "read_only", FALSE)]
    ELSE [type |-> "ssh", name |-> target.name, host |-> target.host, port |-> target.port,
          ssh_executable |-> target.ssh_executable, identity_file |-> target.identity_file,
          known_hosts |-> target.known_hosts, user_policy |-> SshUserPolicy(target),
          read_only |-> OrElse(target, "read_only", FALSE)]

-----------------------------------------------------------------------------
(* Limits: defaults, ranges and the two orders between them.                *)

MAX_SESSIONS == 1000000
MAX_RATE_ALLOWANCE == 1000000
MAX_TIMEOUT_SECONDS == 366 * 24 * 60 * 60

Limits(raw) ==
    [max_sessions |-> raw.max_sessions,
     max_sessions_per_user |-> raw.max_sessions_per_user,
     idle_timeout |-> raw.idle_timeout_seconds,
     absolute_timeout |-> raw.absolute_timeout_seconds,
     session_requests_per_window |-> OrElse(raw, "session_requests_per_window", 10),
     session_request_window |-> OrElse(raw, "session_request_window_seconds", 60),
     authentication_failures_per_window |->
        OrElse(raw, "authentication_failures_per_window", 20),
     authentication_failure_window |->
        OrElse(raw, "authentication_failure_window_seconds", 60)]

validate_limits(raw) ==
    LET l == Limits(raw)
    IN  validation(l.max_sessions \in 1 .. MAX_SESSIONS, "limits.max_sessions")
        \o validation(l.max_sessions_per_user \in 1 .. MAX_SESSIONS,
                      "limits.max_sessions_per_user")
        \o validation(l.idle_timeout \in 1 .. MAX_TIMEOUT_SECONDS,
                      "limits.idle_timeout_seconds")
        \o validation(l.absolute_timeout \in 1 .. MAX_TIMEOUT_SECONDS,
                      "limits.absolute_timeout_seconds")
        \o validation(l.session_requests_per_window \in 1 .. MAX_RATE_ALLOWANCE,
                      "limits.session_requests_per_window")
        \o validation(l.authentication_failures_per_window \in 1 .. MAX_RATE_ALLOWANCE,
                      "limits.authentication_failures_per_window")
        \o validation(l.session_request_window \in 1 .. MAX_TIMEOUT_SECONDS,
                      "limits.session_request_window_seconds")
        \o validation(l.authentication_failure_window \in 1 .. MAX_TIMEOUT_SECONDS,
                      "limits.authentication_failure_window_seconds")
        \o validation(l.max_sessions_per_user <= l.max_sessions,
                      "limits.max_sessions_per_user")
        \o validation(l.idle_timeout <= l.absolute_timeout, "limits.idle_timeout_seconds")

-----------------------------------------------------------------------------
(* Targets, as the allowlist takes them.                                    *)

validate_typed_target(target) ==
    validate_target_name(target.name, "targets.name")
    \o IF target.type = "pty"
       THEN validate_literal_path(target.executable, "targets.command[0]")
       ELSE validate_nonempty(target.host, "targets.host")
            \o validation(canonical_ssh_host(target.host) # None, "targets.host")
            \o validation(target.port # 0, "targets.port")
            \o validate_literal_path(target.ssh_executable, "targets.ssh_executable")
            \o validate_ssh_option_path(target.identity_file, "targets.identity_file")
            \o validate_ssh_option_path(target.known_hosts, "targets.known_hosts")
            \o (CASE target.user_policy.kind = "fixed" ->
                       validate_username(target.user_policy.user, "targets.user")
                  [] target.user_policy.kind = "mapping" ->
                       MappingComplaints(target.user_policy.mapping)
                  [] OTHER -> <<>>)

\* Mutant: a name used twice silently replaces the earlier target.
LastNameWins(targets) ==
    FirstComplaint([i \in DOMAIN targets |-> validate_typed_target(targets[i])])

\* TargetAllowlist::new: a target per name.
TargetAllowlist(targets) ==
    FirstComplaint([i \in DOMAIN targets |->
        validate_typed_target(targets[i])
        \o validation(\A j \in 1 .. i - 1 : targets[j].name # targets[i].name,
                      "targets.name")])

\* TargetAllowlist::resolve: the target of a name, if there is one.
resolve(targets, name) == SelectSeq(targets, LAMBDA target : target.name = name)

\* SshUserPolicy::resolve: the remote user of an authenticated one.
resolve_user(policy, identity) ==
    LET user == CASE policy.kind = "fixed" -> Some(policy.user)
                  [] policy.kind = "same" -> Some(identity)
                  [] policy.kind = "mapping" -> Option(policy.mapping, identity)
    IN  IF user = None THEN [error |-> "NotMapped"]
        ELSE IF validate_username_value(user[1]) THEN [user |-> user[1]]
        ELSE [error |-> "InvalidResolvedUser"]

-----------------------------------------------------------------------------
(* The combination of mode, transport, provider and address.                *)

\* A URL that is an origin and nothing else.
OriginOnly(url) ==
    url.parses /\ ~ url.credentials /\ url.host /\ url.path = "/" /\ ~ url.query /\ ~ url.fragment

\* Mutant: the check of development authentication in production is forgotten.
ContractWithoutProduction(config) ==
    validation(OriginOnly(config.public_url), "server.public_url")
    \o validation(config.public_url.scheme =
                     (IF config.transport.kind = "plaintext" THEN "http" ELSE "https"),
                  "server.public_url")
    \o validation(config.auth.provider = "dev" => config.bind = "loopback", "server.bind")
    \o validation((config.auth.provider = "trusted-proxy")
                     <=> (config.transport.kind = "trusted_proxy"), "auth.provider")

validate_startup_contract(config) ==
    validation(config.public_url.parses, "server.public_url")
    \o validation(OriginOnly(config.public_url), "server.public_url")
    \o validation(config.public_url.scheme =
                     (IF config.transport.kind = "plaintext" THEN "http" ELSE "https"),
                  "server.public_url")
    \o validation(config.auth.provider = "dev" => config.bind = "loopback", "server.bind")
    \o validation(~ (/\ config.mode = "production"
                     /\ config.bind # "loopback"
                     /\ config.transport.kind = "plaintext"), "server.transport")
    \o validation(~ (config.mode = "production" /\ config.auth.provider = "dev"),
                  "auth.provider")
    \o validation((config.auth.provider = "trusted-proxy")
                     <=> (config.transport.kind = "trusted_proxy"), "auth.provider")

-----------------------------------------------------------------------------
(* config::parse.                                                           *)

ServerConfig(raw) ==
    [bind |-> raw.server.bind, mode |-> raw.server.mode,
     public_url |-> raw.server.public_url, transport |-> ServerTransport(raw.server),
     auth |-> AuthConfig(raw.auth), audit |-> raw.audit.path,
     limits |-> Limits(raw.limits),
     targets |-> [i \in DOMAIN raw.targets |-> Target(raw.targets[i])]]

Refused(complaints) == [ok |-> FALSE, field |-> Head(complaints)]

\* The configuration of a file, or the first thing wrong with it.
Parse(raw) ==
    IF ~ RawConfig(raw) THEN Refused(<<"syntax">>)
    ELSE LET sections ==
               convert_transport(raw.server)
               \o convert_auth(raw.auth)
               \o FirstComplaint([i \in DOMAIN raw.targets |-> convert_target(raw.targets[i])])
               \o validate_literal_path(raw.audit.path, "audit.path")
               \o validate_nonempty(raw.server.public_url, "server.public_url")
               \o validate_limits(raw.limits)
         IN  IF sections # <<>> THEN Refused(sections)
             ELSE LET config == ServerConfig(raw)
                      whole == TargetAllowlist(config.targets)
                               \o validate_startup_contract(config)
                  IN  IF whole # <<>> THEN Refused(whole)
                      ELSE [ok |-> TRUE, config |-> config]
=============================================================================
