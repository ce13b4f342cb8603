----------------------------- MODULE MCStartup ------------------------------
(* Configuration files and disks for TLC: one that works, and one step away. *)
EXTENDS Startup, TLC

Text(id, len, first, last, chars) ==
    [id |-> id, len |-> len, first |-> first, last |-> last, chars |-> chars]
Word(id) == Text(id, 5, "alnum", "alnum", {"alnum"})
Path(id) == Text(id, 9, "slash", "alnum", {"slash", "alnum"})
Empty == Text("empty", 0, "none", "none", {})
Header(id, good) == [header |-> good] @@ Word(id)

Host(id) == [id |-> id, len |-> 12, ip |-> FALSE, ascii |-> TRUE, numeric |-> FALSE,
             spelling |-> "mixed case", labels |-> <<Word("a"), Word("b")>>]

Url(scheme) == [len |-> 20, parses |-> TRUE, scheme |-> scheme, credentials |-> FALSE,
                host |-> TRUE, path |-> "/", query |-> FALSE, fragment |-> FALSE]

-----------------------------------------------------------------------------
(* Files.                                                                   *)

Plain(mode, content) == [type |-> "file", size |-> 600, uid |-> "daemon", gid |-> "daemon",
                         mode |-> mode, content |-> content]
Missing(file) == [file EXCEPT !.type = "missing"]

Value(option) == CHOOSE value \in Allowed(option) : TRUE
StrictOutput == FoldSet(LAMBDA option, lines : Append(lines, [key |-> option, value |-> Value(option)]),
                        <<>>, RequiredOptions)
Answer(version, output) == [version |-> version, exits |-> TRUE, bytes |-> 900,
                            success |-> TRUE, output |-> output]
Ssh(version) == Answer(version, StrictOutput)
Executable == [Plain({"ux", "gx", "ox", "gr", "or"}, Ssh(1)) EXCEPT !.uid = "root"]
Answering(answer) == [Executable EXCEPT !.content = answer]

Executables ==
    {Executable,
     [Executable EXCEPT !.uid = "other"],
     [Executable EXCEPT !.mode = @ \cup {"gw"}],
     [Executable EXCEPT !.mode = {"gx"}],
     [Executable EXCEPT !.mode = {"gx"}, !.gid = "other"],
     [Executable EXCEPT !.uid = "daemon", !.mode = {"gx", "ox"}],
     [Executable EXCEPT !.size = MaxBytes("executable") + 1],
     Answering([Ssh(1) EXCEPT !.exits = FALSE]),
     Answering([Ssh(1) EXCEPT !.success = FALSE]),
     Answering([Ssh(1) EXCEPT !.bytes = 64 * 1024 + 1]),
     Answering(Answer(1, Tail(StrictOutput))),
     Answering(Answer(1, Append(StrictOutput, StrictOutput[1]))),
     Answering(Answer(1, Append(StrictOutput, [key |-> "proxyjump", value |-> "hop"]))),
     Answering(Answer(1, [StrictOutput EXCEPT ![1].value = "ask"]))}

KnownHosts(version) == Plain({"gr", "or"}, [version |-> version, newline |-> TRUE, nul |-> FALSE])
KnownHostFiles ==
    {KnownHosts(1), [KnownHosts(1) EXCEPT !.content.newline = FALSE],
     [KnownHosts(1) EXCEPT !.mode = @ \cup {"ow"}], [KnownHosts(1) EXCEPT !.uid = "root"],
     [KnownHosts(1) EXCEPT !.type = "symlink"], Missing(KnownHosts(1))}

Key(id, len) == [id |-> id, len |-> len]
Envelope(version) ==
    [version |-> version, newline |-> TRUE, nul |-> FALSE, armour |-> TRUE, body |-> "base64",
     magic |-> TRUE, complete |-> TRUE, cipher |-> "none", kdf |-> "none", kdf_options |-> 0,
     keys |-> 1, trailing |-> 0,
     public |-> [type |-> "ssh-ed25519", key |-> Key("k", 32), trailing |-> 0],
     private |-> [len |-> 136, check |-> <<7, 7>>, type |-> "ssh-ed25519",
                  public |-> Key("k", 32),
                  key |-> [len |-> 64, second_half |-> Key("k", 32)],
                  comment |-> 4, padding |-> <<1, 2, 3>>]]
Identity(version) == Plain({}, Envelope(version))
IdentityFiles ==
    {Identity(1), [Identity(1) EXCEPT !.mode = {"gr"}],
     [Identity(1) EXCEPT !.content.cipher = "aes256-ctr"],
     [Identity(1) EXCEPT !.content.keys = 2], [Identity(1) EXCEPT !.content.complete = FALSE],
     [Identity(1) EXCEPT !.content.private.public = Key("other", 32)],
     [Identity(1) EXCEPT !.content.private.padding = <<1, 2, 2>>]}

Line(is, label) == [is |-> is, label |-> label]
Section(label) == <<Line("begin", label), Line("other", ""), Line("end", label)>>
Pem(label, pair) == [lines |-> Section(label), items |-> <<TRUE>>, pair |-> pair]
Certificate(pair) == Plain({"gr", "or"}, Pem("CERTIFICATE", pair))
PrivateKey(pair) == Plain({}, Pem("PRIVATE KEY", pair))
Certificates ==
    {Certificate("a"), Missing(Certificate("a")), [Certificate("a") EXCEPT !.type = "symlink"],
     [Certificate("a") EXCEPT !.type = "fifo"],
     [Certificate("a") EXCEPT !.content.lines = <<Line("other", "")>> \o @],
     [Certificate("a") EXCEPT !.content.lines = Append(@, Line("begin", "CERTIFICATE"))],
     [Certificate("a") EXCEPT !.content.items = <<FALSE>>]}
PrivateKeys ==
    {PrivateKey("a"), PrivateKey("b"), Missing(PrivateKey("a")), [PrivateKey("a") EXCEPT !.mode = {"gr"}],
     [PrivateKey("a") EXCEPT !.type = "fifo"],
     [PrivateKey("a") EXCEPT !.content.lines = @ \o @, !.content.items = <<TRUE, TRUE>>],
     [PrivateKey("a") EXCEPT !.content.lines = Section("CERTIFICATE")]}

Dir == [Plain({"ux"}, 0) EXCEPT !.type = "dir"]
Log(newline) == Plain({}, [newline |-> newline])
LogFiles ==
    {Missing(Log(FALSE)), Log(TRUE), Log(FALSE), [Log(TRUE) EXCEPT !.mode = {"gr"}],
     [Log(TRUE) EXCEPT !.uid = "root"], [Log(TRUE) EXCEPT !.type = "symlink"],
     [Log(TRUE) EXCEPT !.type = "fifo"]}

-----------------------------------------------------------------------------
(* Disks.                                                                   *)

\* A path, and the other file it names after a Swap.
At(file, other) == [parent |-> "", here |-> 1, file |-> <<file, other>>, stamp |-> <<1, 1>>]
In(dir, file, other) == [At(file, other) EXCEPT !.parent = dir]

Disk == [ssh   |-> At(Executable, Answering(Ssh(2))),
         hosts |-> At(KnownHosts(1), [KnownHosts(1) EXCEPT !.type = "symlink"]),
         key   |-> At(Identity(1), Identity(2)),
         cert  |-> At(Certificate("a"), Certificate("b")),
         pem   |-> At(PrivateKey("a"), PrivateKey("b")),
         logs  |-> At(Dir, [Dir EXCEPT !.type = "symlink"]),
         log   |-> In("logs", Log(TRUE), Log(TRUE))]
With(id, files) == {[Disk EXCEPT ![id].file[1] = file] : file \in files}

MCRewrites ==
    [ssh |-> {Answering(Ssh(3))}, hosts |-> {KnownHosts(3), [KnownHosts(3) EXCEPT !.size = 0]},
     key |-> {Identity(3), [Identity(1) EXCEPT !.mode = {"gr"}]},
     cert |-> {Certificate("b")}, pem |-> {PrivateKey("b")},
     logs |-> {},
     log |-> {[Log(TRUE) EXCEPT !.type = "symlink"]}]

-----------------------------------------------------------------------------
(* Configuration files.                                                     *)

Server == [bind |-> "loopback", mode |-> "dev", public_url |-> Url("http")]
Auth == [provider |-> "dev", user |-> Word("alice")]
Audit == [format |-> "json", path |-> [dir |-> "logs"] @@ Path("log"), recording |-> FALSE]
LimitsTable == [max_sessions |-> 4, max_sessions_per_user |-> 2,
                idle_timeout_seconds |-> 60, absolute_timeout_seconds |-> 600]
Pty(name) == [type |-> "pty", name |-> name, command |-> <<Path("bash"), Word("-l")>>]
SshTarget(name) ==
    [type |-> "ssh", name |-> name, host |-> Host("h"), port |-> 22,
     ssh_executable |-> Path("ssh"), identity_file |-> Path("key"),
     known_hosts |-> Path("hosts"), user_policy |-> "same-as-auth-user"]
Raw == [server |-> Server, auth |-> Auth, audit |-> Audit, limits |-> LimitsTable,
        targets |-> <<Pty(Word("p"))>>]
WithSsh == [Raw EXCEPT !.targets = <<Pty(Word("p")), SshTarget(Word("s"))>>]
Proxied == [Raw EXCEPT !.server = [bind |-> "public", mode |-> "production",
                                   public_url |-> Url("https"),
                                   trusted_proxy |-> [trusted_sources |-> <<[valid |-> TRUE,
                                       canonical |-> TRUE, net |-> "n"]>>]],
                       !.auth = [provider |-> "trusted-proxy",
                                 identity_header |-> Header("x-user", TRUE)]]
Tls == [certificate |-> Path("cert"), private_key |-> Path("pem")]
WithTls == [Raw EXCEPT !.server = [tls |-> Tls] @@ [Server EXCEPT !.public_url = Url("https")]]

Net(net) == [valid |-> TRUE, canonical |-> TRUE, net |-> net]
Nothing == [k \in {} |-> 0]
Proxy(sources) == [trusted_proxy |-> [trusted_sources |-> sources]]

\* Every combination of mode, address, scheme, transport and provider ...
Servers ==
    {[bind |-> bind, mode |-> mode, public_url |-> Url(scheme)] @@ tls @@ proxy :
        bind \in {"loopback", "public"}, mode \in {"dev", "production"},
        scheme \in {"http", "https"}, tls \in {Nothing, [tls |-> Tls]},
        proxy \in {Nothing, Proxy(<<Net("n")>>)}}
Auths == {Auth, Proxied.auth}

\* ... and sections that are wrong in themselves.
BadServers ==
    {[Server EXCEPT !.public_url = url] :
        url \in {[Url("http") EXCEPT !.path = "/x"], [Url("http") EXCEPT !.parses = FALSE],
                 [Url("http") EXCEPT !.len = 0]}}
    \cup {[tls |-> tls] @@ WithTls.server :
            tls \in {Nothing, [certificate |-> Path("cert")],
                     [Tls EXCEPT !.private_key = [Path("pem") EXCEPT !.first = "tilde"]]}}
    \cup {[trusted_proxy |-> Nothing] @@ Server}
    \cup {Proxy(sources) @@ Proxied.server :
            sources \in {<<>>, <<Net("n"), Net("m")>>, <<Net("n"), Net("n")>>,
                         <<[Net("n") EXCEPT !.canonical = FALSE]>>,
                         <<[Net("n") EXCEPT !.valid = FALSE]>>}}
BadAuths ==
    {[provider |-> "dev"], [provider |-> "trusted-proxy"], [Auth EXCEPT !.user = Empty],
     [identity_header |-> Header("x-user", TRUE)] @@ Auth, [user |-> Word("bob")] @@ Proxied.auth,
     [Proxied.auth EXCEPT !.identity_header = Header("x user", FALSE)]}

LimitTables ==
    {[LimitsTable EXCEPT ![key] = value] :
        key \in DOMAIN LimitsTable, value \in {0, 1, 700, 1000000, 1000001, 31622400, 31622401}}
    \cup {(key :> value) @@ LimitsTable :
            key \in RawLimits.optional, value \in {0, 1, 1000000, 1000001, 31622401}}
    \cup {[k \in DOMAIN LimitsTable \ {"max_sessions"} |-> LimitsTable[k]],
          [max_session |-> 3] @@ LimitsTable}

Long == Text("long", 129, "alnum", "alnum", {"alnum"})
Spaced == Text("spaced", 9, "alnum", "alnum", {"alnum", "space"})
Dashed == Text("dashed", 9, "hyphen", "alnum", {"hyphen", "alnum"})
Dynamic == Text("dynamic", 9, "slash", "alnum", {"slash", "expansion"})

TargetLists ==
    LET s == SshTarget(Word("s"))
        Users2 == [user_mapping |-> (Word("alice") :> Word("ops"))]
    IN  {<<>>, <<Pty(Dashed)>>, <<Pty(Long)>>, <<Pty(Word("p")), Pty(Word("p"))>>,
         <<[Pty(Word("p")) EXCEPT !.command = <<>>]>>,
         <<[Pty(Word("p")) EXCEPT !.command = <<Dynamic>>]>>,
         <<[read_only |-> TRUE] @@ Pty(Word("p"))>>, <<[shell |-> TRUE] @@ Pty(Word("p"))>>,
         <<[s EXCEPT !.port = 0]>>, <<[s EXCEPT !.host.len = 0]>>,
         <<[s EXCEPT !.host.numeric = TRUE]>>,
         <<[s EXCEPT !.host.labels = <<Dashed>>]>>, <<[s EXCEPT !.ssh_executable = Dynamic]>>,
         <<[s EXCEPT !.identity_file = Spaced]>>, <<[s EXCEPT !.known_hosts = Spaced]>>,
         <<[user |-> Word("ops")] @@ s>>, <<Users2 @@ s>>,
         <<[s EXCEPT !.user_policy = "fixed"]>>, <<[s EXCEPT !.user_policy = "mapping"]>>,
         <<[user |-> Dashed] @@ [s EXCEPT !.user_policy = "fixed"]>>,
         <<[user |-> Word("ops")] @@ Users2 @@ [s EXCEPT !.user_policy = "mapping"]>>,
         <<[user_mapping |-> (Spaced :> Word("ops"))] @@ [s EXCEPT !.user_policy = "mapping"]>>,
         <<[user_mapping |-> Nothing] @@ [s EXCEPT !.user_policy = "mapping"]>>,
         <<Users2 @@ [s EXCEPT !.user_policy = "mapping"], s>>}

Files == {[Raw EXCEPT !.server = server, !.auth = auth] : server \in Servers, auth \in Auths}
         \cup {[Raw EXCEPT !.server = server] : server \in BadServers}
         \cup {[Proxied EXCEPT !.server = server] : server \in BadServers}
         \cup {[Raw EXCEPT !.auth = auth] : auth \in BadAuths}
         \cup {[Raw EXCEPT !.limits = limits] : limits \in LimitTables}
         \cup {[Raw EXCEPT !.targets = targets] : targets \in TargetLists}
         \cup {[Raw EXCEPT !.auth.user = user] : user \in {Long, Spaced}}
         \cup {[Raw EXCEPT !.audit.path = [dir |-> "logs"] @@ Dynamic]}

\* Two targets that share their material, under two user policies.
TwoSsh == [Raw EXCEPT !.targets =
    <<SshTarget(Word("s")),
      [user_mapping |-> (Word("alice") :> Word("ops")), read_only |-> TRUE]
      @@ [SshTarget(Word("t")) EXCEPT !.user_policy = "mapping"]>>]

MCSetups ==
    {[raw |-> file, disk |-> Disk] : file \in Files \cup {Proxied, TwoSsh}}
    \cup {[raw |-> WithSsh, disk |-> d] :
            d \in With("ssh", Executables) \cup With("hosts", KnownHostFiles)
                     \cup With("key", IdentityFiles)}
    \cup {[raw |-> WithTls, disk |-> d] :
            d \in With("cert", Certificates) \cup With("pem", PrivateKeys)
                     \cup {[Disk EXCEPT !.pem.file[2].type = "fifo"]}}
    \cup {[raw |-> Raw, disk |-> d] :
            d \in With("log", LogFiles) \cup With("logs", {Missing(Dir)})}

MCUsers == {Word("alice"), Spaced}
=============================================================================
