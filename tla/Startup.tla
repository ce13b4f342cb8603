------------------------------ MODULE Startup -------------------------------
(***************************************************************************)
(* A start of ttygated, from the configuration file to the READY           *)
(* notification (main.rs, startup.rs), and the start of an SSH client from *)
(* the material that was prepared (ssh.rs), while someone else changes the *)
(* files they read.                                                        *)
(*                                                                         *)
(* The code is straight-line: "todo" holds what is left of it, one entry   *)
(* per system call whose answer another process can change in between.  A  *)
(* path names one of two inodes; a Write changes the one it names, a Swap  *)
(* (of a directory above it) makes it name the other one.                  *)
(***************************************************************************)
EXTENDS Config, Material

CONSTANTS
    Setups,      \* [raw, disk]: a configuration file and the files around it
    Rewrites,    \* path id -> the files a Write may leave there
    Users,       \* authenticated identities that ask for a session
    MaxChanges   \* bound on Writes and Swaps

Ids == DOMAIN Rewrites

FileTypes == {"missing", "file", "dir", "symlink", "fifo"}

\* A disk: every path names one of two inodes, its own or that of its directory.
IsDisk(d) ==
    /\ DOMAIN d = Ids
    /\ \A id \in Ids : /\ DOMAIN d[id] = {"parent", "here", "file", "stamp"}
                       /\ d[id].parent \in Ids \cup {""} /\ d[id].here \in 1 .. 2
                       /\ DOMAIN d[id].file = 1 .. 2 /\ d[id].stamp \in [1 .. 2 -> Nat]
                       /\ \A n \in 1 .. 2 : d[id].file[n].type \in FileTypes

\* The paths a configuration names, each of which a disk knows, as missing perhaps.
PathIds(c) ==
    {c.audit.dir, c.audit.id}
    \cup (IF c.transport.kind = "direct_tls"
          THEN {c.transport.certificate.id, c.transport.private_key.id} ELSE {})
    \cup UNION {{c.targets[i].ssh_executable.id, c.targets[i].known_hosts.id,
                 c.targets[i].identity_file.id} : i \in {j \in DOMAIN c.targets : c.targets[j].type = "ssh"}}

ASSUME SetupsAssumption ==
    /\ \A s \in Setups : /\ RawConfig(s.raw) => RawTypes(s.raw)
                         /\ IsDisk(s.disk)
                         /\ Parse(s.raw).ok => PathIds(Parse(s.raw).config) \subseteq Ids
    /\ MaxChanges \in Nat

\* An inode that is a directory remains one.
ASSUME RewritesAssumption ==
    \A id \in Ids :
        /\ \A f \in Rewrites[id] : f.type \in FileTypes
        /\ \A f, g \in Rewrites[id] : f.type = "dir" => g.type = "dir"
        /\ \A s \in Setups : \A n \in 1 .. 2 : \A f \in Rewrites[id] :
              s.disk[id].file[n].type = "dir" => f.type = "dir"

VARIABLES
    raw,        \* the configuration file
    config,     \* what config::load made of it
    stage,      \* "load", "starting", "blocked" in an open, "serving" or "failed"
    error,      \* the StartupError of a failed start
    todo,       \* the rest of prepare_with_ssh and bind_and_serve
    held,       \* the file descriptor in use: [id, inode, stamp]
    got,        \* role -> content read
    snaps,      \* role -> FileSnapshot taken
    prepared,   \* PreparedSshTargets: name -> [target, snaps, got]
    probe,      \* the capability probe's child: [state, answer]
    audit,      \* "closed" or [dir, file]: the audit file that was opened
    listener,   \* "closed" or "bound"
    ready,      \* READY was sent to the service manager
    client,     \* one SSH session start
    disk,       \* path id -> [here, file, stamp]
    changes     \* Writes and Swaps so far

boot == <<raw, config, stage, error, todo>>
material == <<held, got, snaps, prepared, probe>>
doors == <<audit, listener, ready>>
world == <<disk, changes>>
vars == <<boot, material, doors, client, world>>

SshRoles == {"executable", "known_hosts", "identity"}
Roles == SshRoles \cup {"certificate", "private_key"}
Put(f, x, value) == [y \in DOMAIN f \cup {x} |-> IF y = x THEN value ELSE f[y]]
NoFile == [id |-> "none", inode |-> 0, stamp |-> 0]

-----------------------------------------------------------------------------
(* Files.                                                                   *)

\* The inode a path names: its own, or the one in the directory it lies in.
Here(d, id) == IF d[id].parent = "" THEN d[id].here ELSE d[d[id].parent].here

\* The file a path names.
File(id) == disk[id].file[Here(disk, id)]

\* FileSnapshot: device and inode, and the change time any write or chmod moves.
SnapshotIn(d, id) == [id |-> id, inode |-> Here(d, id), stamp |-> d[id].stamp[Here(d, id)]]
Snapshot(id) == SnapshotIn(disk, id)

\* O_NOFOLLOW, and there is something to open.
Opens(id) == File(id).type \notin {"missing", "symlink"}

\* recheck: the path still names the file of the snapshot, unchanged.
Unchanged(id, snapshot) == Opens(id) /\ Snapshot(id) = snapshot

\* The path of a role: of the listener, or of an SSH target.
PathOf(role, target) ==
    CASE role = "certificate" -> config.config.transport.certificate
      [] role = "private_key" -> config.config.transport.private_key
      [] role = "executable"  -> target.ssh_executable
      [] role = "known_hosts" -> target.known_hosts
      [] role = "identity"    -> target.identity_file

-----------------------------------------------------------------------------
(* The program of a start.                                                  *)

Call(op, role, i) == [op |-> op, role |-> role, target |-> i]

TlsProgram == <<Call("open", "certificate", 0), Call("read", "certificate", 0),
                Call("open", "private_key", 0), Call("read", "private_key", 0),
                Call("pair", "none", 0)>>

\* prepare_target_with_probe: read_file for each role (open and stat, read, stat
\* again), recheck_before_spawn, the probe, recheck_before_spawn again.
PrepareTarget(i) ==
    <<Call("open", "executable", i), Call("read", "executable", i), Call("stat", "executable", i),
      Call("open", "known_hosts", i), Call("read", "known_hosts", i), Call("stat", "known_hosts", i),
      Call("open", "identity", i), Call("read", "identity", i), Call("stat", "identity", i),
      Call("recheck", "executable", i), Call("recheck", "known_hosts", i), Call("recheck", "identity", i),
      Call("probe", "none", i), Call("await", "none", i),
      Call("recheck", "executable", i), Call("recheck", "known_hosts", i), Call("recheck", "identity", i),
      Call("keep", "none", i)>>

\* The rest of prepare_with_ssh, and bind_and_serve.
Finish == <<Call("audit_path", "none", 0), Call("audit_dir", "none", 0),
            Call("audit_file", "none", 0), Call("build", "none", 0),
            Call("bind", "none", 0), Call("ready", "none", 0)>>

\* The loop over the targets from the i-th on, and what follows it.
FromTarget(c, i) ==
    LET ssh == {j \in DOMAIN c.targets : j >= i /\ c.targets[j].type = "ssh"}
    IN  IF ssh = {} THEN Finish ELSE PrepareTarget(Min(ssh))

\* prepare_with_ssh after the contract; FromTarget follows PairTls and each Keep.
Program(c) == IF c.transport.kind = "direct_tls" THEN TlsProgram ELSE FromTarget(c, 1)

Init ==
    /\ \E setup \in Setups : raw = setup.raw /\ disk = setup.disk
    /\ config = [ok |-> FALSE, field |-> "none"]
    /\ stage = "load" /\ error = "none" /\ todo = <<>>
    /\ held = NoFile
    /\ got = [role \in {} |-> 0] /\ snaps = [role \in {} |-> 0]
    /\ prepared = [name \in {} |-> 0]
    /\ probe = [state |-> "none"]
    /\ audit = [dir |-> 0] /\ listener = "closed" /\ ready = FALSE
    /\ client = [state |-> "none"]
    /\ changes = 0

Doing(op) == stage = "starting" /\ todo # <<>> /\ Head(todo).op = op
Goes == todo' = Tail(todo) /\ UNCHANGED <<raw, config, stage, error>>
GoesOnWith(i) == todo' = FromTarget(config.config, i) /\ UNCHANGED <<raw, config, stage, error>>
Fails(e) == stage' = "failed" /\ error' = e /\ todo' = <<>> /\ UNCHANGED <<raw, config>>

\* main, config::load, and the second validate_startup_contract of prepare_with_ssh.
Load ==
    /\ stage = "load"
    /\ config' = Parse(raw)
    /\ IF config'.ok /\ validate_startup_contract(config'.config) = <<>>
       THEN stage' = "starting" /\ todo' = Program(config'.config) /\ UNCHANGED error
       ELSE stage' = "failed" /\ error' = "Config" /\ UNCHANGED todo
    /\ UNCHANGED <<raw, material, doors, client, world>>

-----------------------------------------------------------------------------
(* Reading the material.                                                    *)

Now == Head(todo)
TargetNow == config.config.targets[Now.target]
PathNow == PathOf(Now.role, IF Now.target = 0 THEN 0 ELSE TargetNow)

\* kind.error() in ssh.rs; path_error and unreadable_error in tls.rs.
MaterialError(role, readable) ==
    CASE role = "certificate" -> IF readable THEN "CertificatePathUnsafe" ELSE "CertificateUnreadable"
      [] role = "private_key" -> IF readable THEN "PrivateKeyPathUnsafe" ELSE "PrivateKeyUnreadable"
      [] role = "executable"  -> "ExecutableUnsafe"
      [] role = "known_hosts" -> "KnownHostsUnsafe"
      [] role = "identity"    -> "IdentityUnsafe"

\* The TLS files are opened without O_NONBLOCK: opening a FIFO waits for a writer.
WaitsForWriter(role, file) == role \notin SshRoles /\ file.type = "fifo"

\* The head of read_file and of read_material: open without following a link, stat.
OpenMaterial ==
    /\ Doing("open")
    /\ LET file == File(PathNow.id)
           waits == PathNow.first = "slash" /\ WaitsForWriter(Now.role, file)
           accepted == /\ PathNow.first = "slash"
                       /\ Opens(PathNow.id)
                       /\ IF Now.role \in SshRoles THEN SshMetadata(Now.role, file)
                          ELSE TlsMetadata(Now.role, file)
       IN  \/ waits /\ stage' = "blocked" /\ held' = Snapshot(PathNow.id)
              /\ UNCHANGED <<raw, config, error, todo>>
           \/ ~ waits /\ accepted /\ held' = Snapshot(PathNow.id) /\ Goes
           \/ /\ ~ waits /\ ~ accepted /\ UNCHANGED held
              /\ Fails(MaterialError(Now.role, PathNow.first # "slash" \/ file.type # "missing"))
    /\ UNCHANGED <<got, snaps, prepared, probe, doors, client, world>>

\* Another process opens the FIFO to write: open returns, and stat shows no regular file.
WriterComes ==
    /\ stage = "blocked"
    /\ Fails(MaterialError(Now.role, TRUE))
    /\ UNCHANGED <<material, doors, client, world>>

\* Their read_to_end, bounded by the maximum and one byte.
ReadMaterial ==
    /\ Doing("read")
    /\ LET file == disk[held.id].file[held.inode]
       IN  IF file.size \in 1 .. MaxBytes(Now.role)
           THEN got' = Put(got, Now.role, file.content) /\ Goes
           ELSE Fails(MaterialError(Now.role, TRUE)) /\ UNCHANGED got
    /\ UNCHANGED <<held, snaps, prepared, probe, doors, client, world>>

\* The tail of read_file: the file is as it was opened.  Its bytes are validated next,
\* and after the identity the canonical host is taken, which Parse has already found.
StatAgain ==
    /\ Doing("stat")
    /\ IF \/ disk[held.id].stamp[held.inode] # held.stamp
          \/ ~ Validated(Now.role, got[Now.role])
       THEN Fails(MaterialError(Now.role, TRUE)) /\ UNCHANGED snaps
       ELSE IF Now.role = "identity" /\ canonical_ssh_host(TargetNow.host) = None
       THEN Fails("CapabilityUnsupported") /\ UNCHANGED snaps
       ELSE snaps' = Put(snaps, Now.role, held) /\ Goes
    /\ UNCHANGED <<held, got, prepared, probe, doors, client, world>>

\* load_with_hook, once both files are read.
PairTls ==
    /\ Doing("pair")
    /\ LET e == TlsPairError(got["certificate"], got["private_key"])
       IN  IF e = "none" THEN GoesOnWith(1) ELSE Fails(e)
    /\ UNCHANGED <<material, doors, client, world>>

\* recheck, on one file of recheck_before_spawn.
Recheck ==
    /\ Doing("recheck")
    /\ IF Unchanged(PathNow.id, snaps[Now.role]) THEN Goes ELSE Fails("MaterialChanged")
    /\ UNCHANGED <<material, doors, client, world>>

\* The end of prepare_target_with_probe: the target is prepared.
Keep ==
    /\ Doing("keep")
    /\ prepared' = Put(prepared, TargetNow.name,
                       [target |-> TargetNow, snaps |-> snaps, got |-> [r \in SshRoles |-> got[r]]])
    /\ snaps' = [r \in {} |-> 0]
    /\ got' = [r \in DOMAIN got \ SshRoles |-> got[r]]
    /\ GoesOnWith(Now.target + 1)
    /\ UNCHANGED <<held, probe, doors, client, world>>

-----------------------------------------------------------------------------
(* The capability probe.                                                    *)

\* probe_capabilities spawns whatever the path names now, through links too.
StartProbe ==
    /\ Doing("probe")
    /\ \/ /\ File(TargetNow.ssh_executable.id).type # "missing"
          /\ probe' = [state |-> "running",
                       answer |-> File(TargetNow.ssh_executable.id).content]
          /\ Goes
       \/ Fails("CapabilityUnsupported") /\ UNCHANGED probe
    /\ UNCHANGED <<held, got, snaps, prepared, doors, client, world>>

\* Within PROBE_TIMEOUT the child exits and both its pipes end: join! reaps it.
ProbeAnswers ==
    /\ Doing("await")
    /\ probe.state = "running" /\ probe.answer.exits
    /\ probe' = [probe EXCEPT !.state = "reaped"]
    /\ IF Capable(probe.answer) THEN Goes ELSE Fails("CapabilityUnsupported")
    /\ UNCHANGED <<held, got, snaps, prepared, doors, client, world>>

\* Mutant: the timer covers the pipes of the probe and not the end of the child.
ProbeTimesOutIfItEnds ==
    /\ Doing("await")
    /\ probe.state = "running" /\ probe.answer.exits
    /\ probe' = [probe EXCEPT !.state = "killed"]
    /\ UNCHANGED <<boot, held, got, snaps, prepared, doors, client, world>>

\* PROBE_TIMEOUT passes: terminate_and_reap sends SIGKILL ...
ProbeTimesOut ==
    /\ Doing("await")
    /\ probe.state = "running"
    /\ probe' = [probe EXCEPT !.state = "killed"]
    /\ UNCHANGED <<boot, held, got, snaps, prepared, doors, client, world>>

\* ... and waits for the child, which ends.
ProbeReaped ==
    /\ Doing("await")
    /\ probe.state = "killed"
    /\ probe' = [probe EXCEPT !.state = "reaped"]
    /\ Fails("CapabilityUnsupported")
    /\ UNCHANGED <<held, got, snaps, prepared, doors, client, world>>

-----------------------------------------------------------------------------
(* AuditLog::open.                                                          *)

AuditDir == config.config.audit.dir
AuditId == config.config.audit.id

\* validate_audit_path: symlink_metadata on the directory and on the file.
ValidateAuditPath ==
    /\ Doing("audit_path")
    /\ CASE File(AuditDir).type = "missing" -> Fails("DestinationUnavailable")
         [] File(AuditDir).type \notin {"missing", "dir"} -> Fails("UnsafeDestination")
         [] File(AuditDir).type = "dir" ->
              IF File(AuditId).type \in {"missing", "file"} THEN Goes
              ELSE Fails("UnsafeDestination")
    /\ UNCHANGED <<material, doors, client, world>>

\* Mutant: the directory is opened through a link.
OpenAuditDirAnyway ==
    /\ Doing("audit_dir")
    /\ held' = Snapshot(AuditDir) /\ Goes
    /\ UNCHANGED <<got, snaps, prepared, probe, doors, client, world>>

\* open_anchored_audit_file, to its directory: O_DIRECTORY and O_NOFOLLOW.
OpenAuditDir ==
    /\ Doing("audit_dir")
    /\ IF File(AuditDir).type = "dir" THEN held' = Snapshot(AuditDir) /\ Goes
       ELSE Fails("UnsafeDestination") /\ UNCHANGED held
    /\ UNCHANGED <<got, snaps, prepared, probe, doors, client, world>>

\* O_CREAT with mode 0600.
NewAuditFile == [type |-> "file", size |-> 0, uid |-> "daemon", gid |-> "daemon",
                 mode |-> {}, content |-> [newline |-> FALSE]]

\* openat in that directory, the checks on what was opened, validate_complete_tail.
OpenAuditFile ==
    /\ Doing("audit_file")
    /\ LET found == disk[AuditId].file[held.inode]
           file == IF found.type = "missing" THEN NewAuditFile ELSE found
       IN  /\ disk' = [disk EXCEPT ![AuditId].file[held.inode] = file]
           /\ CASE file.type \in {"symlink", "dir"} ->
                     Fails("DestinationUnavailable") /\ UNCHANGED audit
                [] \/ file.type = "fifo"
                   \/ file.type = "file" /\ (file.mode \cap GroupOrOther # {} \/ file.uid # "daemon") ->
                     /\ \/ Fails("UnsafeDestination")
                        \/ file.uid # "daemon" /\ Fails("DestinationUnavailable")   \* EACCES
                     /\ UNCHANGED audit
                [] file.type = "file" /\ file.mode \cap GroupOrOther = {} /\ file.uid = "daemon" ->
                     IF file.size = 0 \/ file.content.newline
                     THEN audit' = [dir |-> held.inode, file |-> file] /\ Goes
                     ELSE Fails("IncompleteExistingLog") /\ UNCHANGED audit
    /\ UNCHANGED <<material, listener, ready, client, changes>>

-----------------------------------------------------------------------------
(* The application, the listener, READY.                                    *)

\* Identity::new.
ValidIdentity(user) == user.len \in 1 .. 128 /\ user.chars \cap {"control", "nul"} = {}

\* OriginPolicy::new.
ValidOrigin(url) == OriginOnly(url) /\ url.scheme \in {"http", "https"}

\* PreparedSshTargets::validate_for_targets, with matches_target.
PreparedFor(targets) ==
    LET ssh == {i \in DOMAIN targets : targets[i].type = "ssh"}
    IN  /\ Cardinality(ssh) = Cardinality(DOMAIN prepared)
        /\ \A i \in ssh : /\ targets[i].name \in DOMAIN prepared
                          /\ prepared[targets[i].name].target = targets[i]

\* from_config_with_audit_pending_ssh and with_prepared_ssh: the error, or "none".
BuildError(c) ==
    IF ~ ValidOrigin(c.public_url) THEN "Origin"
    ELSE IF c.auth.provider = "dev" /\ ~ ValidIdentity(c.auth.user) THEN "Identity"
    ELSE IF /\ c.auth.provider = "trusted-proxy"
            /\ \/ c.transport.kind # "trusted_proxy"
               \/ c.transport.trusted_sources = <<>>
    THEN "Authentication"
    ELSE IF TargetAllowlist(c.targets) # <<>> THEN "Targets"
    ELSE IF ~ PreparedFor(c.targets) THEN "PreparedTargetSetMismatch"
    ELSE "none"

BuildApplication ==
    /\ Doing("build")
    /\ LET e == BuildError(config.config) IN IF e = "none" THEN Goes ELSE Fails(e)
    /\ UNCHANGED <<material, doors, client, world>>

Bind ==
    /\ Doing("bind")
    /\ \/ listener' = "bound" /\ Goes
       \/ Fails("Bind") /\ UNCHANGED listener
    /\ UNCHANGED <<material, audit, ready, client, world>>

\* notify_ready; when it fails the listener goes with the function that owns it.
NotifyReady ==
    /\ Doing("ready")
    /\ \/ ready' = TRUE /\ stage' = "serving" /\ todo' = <<>> /\ UNCHANGED listener
          /\ UNCHANGED <<raw, config, error>>
       \/ Fails("ServiceManager") /\ listener' = "closed" /\ UNCHANGED ready
    /\ UNCHANGED <<material, audit, client, world>>

-----------------------------------------------------------------------------
(* An SSH session: resolve_backend_target, SshSpawnSpec::build, ssh::spawn. *)

SshTargets(c) == {c.targets[i] : i \in {j \in DOMAIN c.targets : c.targets[j].type = "ssh"}}

\* The roles whose path names, in d, the file that was prepared for a target.
Matching(d, name) ==
    {r \in SshRoles : SnapshotIn(d, PathOf(r, prepared[name].target).id) = prepared[name].snaps[r]}

\* recheck_before_spawn in build, the log, recheck_before_spawn in spawn, the spawn.
ClientProgram ==
    <<Call("recheck", "executable", 0), Call("recheck", "known_hosts", 0), Call("recheck", "identity", 0),
      Call("log", "none", 0),
      Call("recheck", "executable", 0), Call("recheck", "known_hosts", 0), Call("recheck", "identity", 0),
      Call("exec", "none", 0)>>

Refusal(name, user, reason) ==
    [state |-> "refused", name |-> name, user |-> user, reason |-> reason]

\* "fresh" remembers which files were, at some moment since the request, as prepared.
Request(target, user) ==
    /\ stage = "serving" /\ client.state # "starting"
    /\ LET name == target.name
           remote == resolve_user(prepared[name].target.user_policy, user)
       IN  client' =
             IF name \notin DOMAIN prepared THEN Refusal(name, user, "TargetUnavailable")
             ELSE IF "error" \in DOMAIN remote THEN Refusal(name, user, "SshPolicyDenied")
             ELSE [state |-> "starting", name |-> name, user |-> user, log |-> FALSE,
                   todo |-> ClientProgram,
                   fresh |-> Matching(disk, name),
                   argv |-> [executable |-> prepared[name].target.ssh_executable,
                             known_hosts |-> prepared[name].target.known_hosts,
                             identity |-> prepared[name].target.identity_file,
                             port |-> prepared[name].target.port,
                             login |-> remote.user,
                             host |-> canonical_ssh_host(prepared[name].target.host)[1]]]
    /\ UNCHANGED <<boot, material, doors, world>>

ClientDoing(op) == client.state = "starting" /\ Head(client.todo).op = op
ClientGoes == [client EXCEPT !.todo = Tail(@)]
ClientRefused == Refusal(client.name, client.user, "SpawnUnavailable")

\* Mutant: the identity is left out of recheck_before_spawn.
ClientRechecksTwo ==
    /\ ClientDoing("recheck")
    /\ LET role == Head(client.todo).role
           id == PathOf(role, prepared[client.name].target).id
       IN  client' = IF role = "identity" \/ Unchanged(id, prepared[client.name].snaps[role])
                     THEN ClientGoes ELSE ClientRefused
    /\ UNCHANGED <<boot, material, doors, world>>

\* One recheck of build or, after the log, of spawn.
ClientRechecks ==
    /\ ClientDoing("recheck")
    /\ LET role == Head(client.todo).role
           id == PathOf(role, prepared[client.name].target).id
       IN  client' = IF Unchanged(id, prepared[client.name].snaps[role])
                     THEN ClientGoes ELSE ClientRefused
    /\ UNCHANGED <<boot, material, doors, world>>

\* SshClientLog::create: a FIFO in a directory of its own, dropped with the client.
ClientLogs ==
    /\ ClientDoing("log")
    /\ \/ client' = [ClientGoes EXCEPT !.log = TRUE]
       \/ client' = ClientRefused
    /\ UNCHANGED <<boot, material, doors, world>>

\* PtyProcessBackend::spawn_ssh.
ClientSpawns ==
    /\ ClientDoing("exec")
    /\ \/ client' = [ClientGoes EXCEPT !.state = "running"]
       \/ client' = ClientRefused
    /\ UNCHANGED <<boot, material, doors, world>>

-----------------------------------------------------------------------------
(* Everyone else.                                                           *)

\* The disk has changed; a session start remembers what it may now see.
Changed ==
    /\ changes' = changes + 1
    /\ client' = IF client.state = "starting"
                 THEN [client EXCEPT !.fresh = @ \cup Matching(disk', client.name)]
                 ELSE client
    /\ UNCHANGED <<boot, material, doors>>

\* A file is written, or its mode or owner changed, in place; a FIFO stays one.
Write(id) ==
    /\ changes < MaxChanges
    /\ \E file \in Rewrites[id] :
          /\ File(id).type = "fifo" => file.type = "fifo"
          /\ disk' = [disk EXCEPT ![id].file[Here(disk, id)] = file,
                                  ![id].stamp[Here(disk, id)] = @ + 1]
    /\ Changed

\* A directory above the path is renamed, and the path names its other file.
Swap(id) ==
    /\ changes < MaxChanges
    /\ disk[id].parent = ""
    /\ disk' = [disk EXCEPT ![id].here = 3 - @]
    /\ Changed

Daemon ==
    \/ Load
    \/ OpenMaterial \/ ReadMaterial \/ StatAgain \/ PairTls \/ Recheck \/ Keep
    \/ StartProbe
    \/ ValidateAuditPath \/ OpenAuditDir \/ OpenAuditFile
    \/ BuildApplication \/ Bind \/ NotifyReady

Session ==
    \/ \E user \in Users : stage = "serving" /\ \E t \in SshTargets(config.config) : Request(t, user)
    \/ ClientRechecks \/ ClientLogs \/ ClientSpawns

Environment == \E id \in DOMAIN disk : Write(id) \/ Swap(id)

Next == Daemon \/ WriterComes \/ ProbeAnswers \/ ProbeTimesOut \/ ProbeReaped \/ Session \/ Environment

\* The start is one thread of control that is scheduled; the timer of the probe
\* fires; a child that was sent SIGKILL ends.  Nobody has to ask for a session, or
\* to write to a FIFO.
Spec == Init /\ [][Next]_vars
        /\ WF_vars(Daemon) /\ WF_vars(ProbeTimesOut) /\ WF_vars(ProbeReaped)

-----------------------------------------------------------------------------
(* Properties.                                                              *)

TypeOK ==
    /\ stage \in {"load", "starting", "blocked", "serving", "failed"}
    /\ held.id \in DOMAIN disk \cup {"none"}
    /\ DOMAIN got \subseteq Roles /\ DOMAIN snaps \subseteq SshRoles
    /\ probe.state \in {"none", "running", "killed", "reaped"}
    /\ listener \in {"closed", "bound"} /\ ready \in BOOLEAN
    /\ client.state \in {"none", "starting", "refused", "running"}
    /\ changes \in 0 .. MaxChanges

\* The matrix of the production-gating design, on the file as it was written.
Matrix(r) ==
    LET tls == "tls" \in DOMAIN r.server
        proxy == "trusted_proxy" \in DOMAIN r.server
        dev == r.auth.provider = "dev"
    IN  /\ dev => r.server.mode = "dev" /\ r.server.bind = "loopback"
        /\ ~ tls /\ ~ proxy => r.server.public_url.scheme = "http" /\ r.server.bind = "loopback"
        /\ tls \/ proxy => r.server.public_url.scheme = "https"
        /\ ~ (tls /\ proxy)
        /\ ~ dev <=> proxy

\* config.rs accepts only combinations of mode, address, transport and provider that
\* the production-gating design allows (that plaintext implies a loopback address
\* follows from three checks together), and refuses none of them for its combination;
\* and accepted limits are ones the session manager and the limiters can work with.
CombinationsAsDocumented ==
    stage # "load" =>
        /\ config.ok => /\ Matrix(raw)
                        /\ LET l == config.config.limits
                           IN  /\ 0 < l.max_sessions_per_user
                               /\ l.max_sessions_per_user <= l.max_sessions
                               /\ 0 < l.idle_timeout /\ l.idle_timeout <= l.absolute_timeout
                               /\ 0 < l.session_requests_per_window
                               /\ 0 < l.session_request_window
        /\ ~ config.ok /\ config.field \in {"server.bind", "auth.provider", "server.transport"}
              => ~ Matrix(raw)

\* What config::load accepts, the application can be built from, with one exception:
\* a development user that is not a valid identity is found only after the audit file
\* was opened (server.rs, from_config_with_audit_pending_ssh).
BuildRefusesOnlyTheIdentity ==
    error \notin {"Origin", "Authentication", "Targets", "PreparedTargetSetMismatch"}

\* READY is sent only by a daemon that listens, has audit in a directory that is not a
\* link and in a private file that ends with a whole record, serves a certificate with
\* its own key, and has prepared every SSH target (startup.rs, prepare_with_ssh and
\* bind_and_serve); and a start that failed listens to nobody.
ReadyIsEarned ==
    /\ ready =>
        /\ listener = "bound"
        /\ audit.dir # 0
        /\ disk[AuditDir].file[audit.dir].type = "dir"
        /\ audit.file.mode \cap GroupOrOther = {}
        /\ audit.file.size = 0 \/ audit.file.content.newline
        /\ config.config.transport.kind = "direct_tls" =>
              got["certificate"].pair = got["private_key"].pair
        /\ \A t \in SshTargets(config.config) : t.name \in DOMAIN prepared
    /\ stage = "failed" => listener = "closed"

\* As long as a path shows the snapshot that was prepared, it shows the bytes that
\* were validated: nothing slips between the stat and the read of read_file (ssh.rs).
SnapshotPinsContent ==
    \A name \in DOMAIN prepared : \A r \in Matching(disk, name) :
        File(PathOf(r, prepared[name].target).id).content = prepared[name].got[r]

\* A client is spawned only if each of its three files was, at some moment after the
\* session was asked for, the one that was prepared at startup (ssh.rs,
\* recheck_before_spawn), with the bytes validated then; a file changed before the
\* request is never used.
ClientsUseCheckedMaterial ==
    SnapshotPinsContent /\ (client.state = "running" => client.fresh = SshRoles)

\* Every start whose configuration file was read serves or gives up, with every probe
\* it started reaped, although the probed program may hang and the files may change
\* under it (ssh.rs, PROBE_TIMEOUT and terminate_and_reap); with one exception: the
\* certificate and the private key are opened without O_NONBLOCK (tls.rs,
\* read_material), and a FIFO found in place of one, nobody writing, holds the start.
StartupEnds ==
    \/ <>(stage \in {"serving", "failed"} /\ probe.state \in {"none", "reaped"})
    \/ <>[](/\ stage = "blocked" /\ Now.role \in {"certificate", "private_key"}
            /\ disk[held.id].file[held.inode].type = "fifo")
=============================================================================
