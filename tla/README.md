# TLA+ models of ttygate

ttygate gives a browser a terminal: an HTTP/WebSocket daemon (`crates/ttygated`)
authenticates a request, hands out a one-time ticket, redeems it on a WebSocket,
spawns a local program or an OpenSSH client on a PTY and bridges bytes until
something ends the session. The daemon keeps everything in memory; only its
audit log is persistent. This directory models the program from its
configuration file to the last byte of a session: what is refused before a
listener exists, who may have a session, what crosses the socket, and how tasks,
timers, processes, files and clients may act in any order meanwhile.

Source paths below are relative to `crates/ttygated/src/`, those of the browser
to the repository.

## 1. Inventory

| Part | State | Operations | What makes it correct |
|---|---|---|---|
| Capacity ledger (`session.rs`, `Capacity`, `Reservation`) | table of leases (pending with a deadline, or live), closed flag | reserve, reserve_pending, activate, purge, drop, close_pending | both limits hold at every moment; a slot has one owner; no slot leaks; none is free before its process group is gone |
| Session manager (`SessionManager`, `SupervisorRegistry`) | admission gate (a fair `RwLock`), registry of supervisors, shutting_down | start, start_reserved, reserve, shutdown | after shutdown nothing is left and nothing can start; shutdown returns |
| Ticket store (`ticket.rs`) | token → identity, target, expiry, reservation | issue_at, redeem, clear | a ticket admits one connection, of its own identity, before it expires |
| Session supervisor (`session.rs` from `run_connecting` to `complete_supervisor`) | connection outcome, timers, close/cancel/activity/final channels, audit trail | admission of the SSH client, start record, handover, select loop, termination, joins, completion, unwind recovery | the caller is answered, the session ends, its audit trail and reason are true, the slot outlives everything else |
| Workers and handle (`read_output`, `write_input`, `Session`) | bounded output and command channels | read, send, write, resize, close, drop | no worker can hold teardown up; end of output means end of session |
| Process-group cleanup (`pty_backend.rs`, `PtyChild`) | cleanup state, exit status; in the kernel: processes, group number | observe exit, SIGHUP, SIGKILL, reap, probe, retry | no signal reaches a reused number; nobody survives; success means absence |
| Rate limiter (`rate_limit.rs`) | one fixed window per key, generations | begin, commit, rollback/drop | a window admits no more than its limit; late rollbacks and evictions disturb no other window |
| Handlers (`server.rs`) | – (compose the above) | identity, targets, sessions, health, upgrade | the order of authentication, limiter, reservation, audit, ticket |
| WebSocket bridge (`websocket.rs`) | two socket tasks, two queues of 4 | handshake, bridge loop, finish_bridge | bounded memory, no deadlock, exactly one terminal report |
| Browser sessions (`auth.rs`) | bounded store of cookies | establish, authenticate, evict | an identity is the one the provider vouched for |
| Audit log (`audit.rs`) | append-only file, sticky failed flag | open, record, authority_guard | whole records only; after a failure no new authority is granted |
| WebSocket upgrade (`accept_upgrade` in `websocket.rs`) | deadline of the first message, redeemed ticket, start result | handshake, redeem, start, deny, send_failure | one denial record per refusal; nobody holds a socket without a ticket |
| Wire codec (`protocol.rs`, `frontend/src/protocol.ts`, `parse_handshake`) | – (pure) | encode, decode | both programs read a text alike |
| SSH launch and diagnostics (`ssh.rs`) | snapshots of executable, known hosts and identity; one classifier per client | prepare, probe, recheck, spawn, classify | a client runs with the material that was validated, and is admitted only after OpenSSH reported authentication |
| Configuration (`config.rs`) | – (pure) | parse and validate | an accepted file is a combination the documents allow, and can be served |
| TLS material (`tls.rs`) | – (straight-line) | read, check, pair | the key belongs to the certificate, although two files are read |
| Startup (`main.rs`, `startup.rs`, `AuditLog::open`) | listener, audit file, prepared targets, READY | prepare, bind, notify | READY is sent by a daemon that can serve; a failed start leaves nothing |
| Browser controller (`frontend/src/connection.ts`) | phase, generation, socket, timer | connect, disconnect, callbacks | callbacks of an old connection do nothing |

How they interact: `create_session` takes a *pending* lease and gives it to a
ticket entry; `accept_upgrade` takes it out of the entry by redeeming, and
`start_reserved` turns it into a *live* lease that moves into a supervisor task
registered with the manager. The supervisor owns the process group; the bridge
owns the `Session` handle; they share only bounded channels and watch channels.
A lease is removed by the drop of its `Reservation`, wherever that happens.
All of this runs in a process that `startup.rs` has built from a validated
configuration and from files it read once; only the SSH material is looked at
again, by its snapshots, whenever a client is spawned.
Every start and every reserve holds the manager's admission gate for reading,
`shutdown` holds it for writing.

What is hard here: slots that change owner while tickets expire and other
callers purge the table; clocks read before a lock is taken; tasks dropped or
unwinding between two steps that belong together; a process group whose leader
is gone while others live on, and whose number may be reused; five independent
reasons to end a session, racing; queues that are full in both directions;
shutdown against starts in flight; files that are replaced between a check and
a use, or between a start of the daemon and a session hours later; two programs
in two languages that must agree about a text. `PROJECT.json` lists these hazards line by
line, with the properties that cover them.

## 2. Modules

| Module | Models | Proofs |
|---|---|---|
| `SessionAdmission` | ledger, manager, tickets and the two handlers that drive them, down to the process group as "exists / proven gone" | `SessionAdmissionProofs` |
| `SessionSlots` | the abstract promise: a pool of slots with two limits | refinement in `SessionAdmissionProofs` |
| `SessionLifecycle` | one session from spawn to release of its slot | `SessionLifecycleProofs` |
| `ProcessGroup` | termination of one process group against the kernel | `ProcessGroupProofs` |
| `Bridge` | one bridge between a WebSocket and a session | in `UpgradeProofs` |
| `Codec` | the texts of the protocol as both programs read and write them (operators) | in `UpgradeProofs` |
| `Upgrade` | one WebSocket from the upgrade request to its end; extends `Bridge` and `Codec` | `UpgradeProofs` |
| `AuditLog` | the audit file and its writer across failures and restarts | in `AuthGateProofs` |
| `AuthGate` | the authority API: failure slots, cookies, browser sessions, records; extends `AuditLog` | `AuthGateProofs` |
| `RateLimiter` | `FixedWindowLimiter` | `RateLimiterProofs` |
| `Frontend` | the browser's connection controller | `FrontendProofs` |
| `Config` | `config::parse` with its validators (operators) | in `StartupProofs` |
| `Material` | the checks on certificate, key, SSH executable, known hosts and identity (operators) | in `StartupProofs` |
| `Startup` | a start of the daemon and of an SSH client while files change; extends `Config` and `Material` | `StartupProofs` |

`MC…` modules add the symmetry sets and the larger constants (configuration
files, disks, first messages); the `.cfg` files hold the rest.

The components meet at narrow interfaces, which is how the state spaces stay
apart. `SessionAdmission` sees a session as *connecting → running →
terminating → proven → released*; `SessionLifecycle` refines that path, step by
step (`KeepsToAdmission`), and shows when the slot is really given back
(`SlotOutlivesSession`). `SessionLifecycle`
sees a termination attempt as *fails* or *proves the group absent*;
`ProcessGroup` shows that the second answer is true (`ProvenMeansGone`) and that
it comes (`CleanupFinishes`). `Upgrade` takes any outcome of a redemption from
`SessionAdmission` and of a start from `SessionLifecycle`, and relies on the
answer to come (`CallerIsAnswered`). `Bridge` sees a session through its handle,
and relies on it to close once it is asked (`EverySessionEnds`). `AuthGate` takes
exact counts per window from `RateLimiter` (`WindowsAreExact`) and stops where
`SessionAdmission` reserves. `Startup` ends with READY, where all the others
begin; the limits it has accepted are their constants.

### SessionAdmission

*State*: `leases`, `ledger` are `CapacityState`; `entries` is
`TicketStore.entries`; `gate`, `active`, `closeAsked` are the registry and the
close channels of its supervisors; `admission` the read guards; `sdPc`,
`sdTargets`, `permits` the local state of `shutdown` and the permit of its
`Notify`. `req[r]` is one run of `create_session`, `conn[c]` one run of
`accept_upgrade` (or of a direct `start`) and then its supervisor.

*Actions* are mutex sections or stretches between two awaits: `Reserve`,
`Issue`, `Redeem`, `EnterAdmission`, `Activate`, `ReserveLive`, `Spawn`, `Admit`,
`Stop`, `Prove`, `Release`, `Deregister`, and the steps of `shutdown`. `Redeem`
uses a clock value read when the connection began (`seen`), because the code
reads its clock before it locks the table. Each early return that drops a
reservation is a disjunct that frees the lease in the same step.

*Abstractions*: a lease is named by the call that made it and a token by its
request, because the 64-bit counter and 256-bit tokens do not repeat in the
life of the process. A failed random generator is a disjunct of `Issue`. A
caller that waits at the gate may be dropped only for `create_session`, the
handler a client can abandon there. `TicketStore::clear`, `shutdown` and the direct `start` are public
operations the production `serve` path does not call; they are modelled as the
callers in the tests use them.

### SessionLifecycle

*State*: `pc` is the supervisor task; `closeReq`, `cancel`, `activity`, `final`,
`events`, `output`, `commands`, `workerEvents` are the channels; `reader`,
`writer` the workers; `caller` the future of `start_admitted` and then the owner
of the `Session`; `trail` the records written to the audit log; the three
`…Left` variables are the sleeps, as countdowns, so that time can run for ever
in a finite state space.

*Actions*: one poll of a `select!` is one step. In `run_connecting` the biased
order is kept exactly. In `run_supervisor` the first three branches (absolute
deadline, exit, close) may each win, because two of them become ready through
timers of their own, while close, activity, idle and worker events keep their
order. `UnwindConnecting` and `UnwindRunning` are panics at any await up to the
hand-over and in the select loop; `recover_connecting_unwind` and `supervise`
handle them. Chunks and commands are counted, not named. A write, or a send to a
full channel, may never finish: no fairness is assumed of workers.

*Abstractions*: the diagnostic tasks of an SSH client are folded into
`Classify` and the join; a log is the set of the kinds of lines in it, of which
`Classification` keeps the precedence (host key trouble, success, other
failures). A wall-clock or identifier failure on the way to an
audit record counts as a failed record. `KeepsToAdmission` looks at the session as
`SessionAdmission` does, with `Stage` and `Slot` for its connection, and asks which step it sees whenever what
is `Visible` of the session changes; requests
to close are invisible there, since a session may be stopped for any reason. A second read-only check in
`write_input` is unreachable behind the one in `Session::write` and shares the
branch of an empty input. An audit sink is always configured, as in production.

### ProcessGroup

*State*: `cleanup` is `CleanupState`, `step` the position in `terminate_with`;
the rest is the kernel: living processes, pending SIGKILLs, processes the daemon
may no longer signal (they executed a set-uid program), whether the leader is
reaped, who owns the group's number, and which owners were signalled. `Observe`
is `poll_exit_observed` (`WNOWAIT`), `Begin`/`FinalSignal` the two signals,
`Reap` the wait, `Probe` the null signal, `TimesOut` and `ObserveFails` the ways
an attempt fails; `terminate_until_proven` retries with `Begin`. The kernel's
actions are marked external.

*Abstraction*: SIGHUP has no modelled effect on processes, since they may ignore
it. A process that leaves the group (`setsid`) is outside what the code reaches.

### Bridge

*State*: `pc` is the bridge task, `reader` and `writer` are `read_socket` and
`write_socket`, each with the message or frame in its hand; `inbound`,
`outbound` are the queues, `cancel`, `stop` the watch channels; `session`,
`final`, `request`, `produced`, `taken`, `commands` are what the handle shows of
the session; `sent` is what the transport took.

*Actions*: one poll of each task's `select!`, in its biased order; the steps of
`handle_client_message` (`TakeMessage`, `Write`, `Settle`, `RequestClose`,
`AwaitClose`), the race of a send with the end of the session (`Push`), and
`finish_bridge` (`Finish`, `Awaited`, `Report`, `Leave`, `Join`). A decoded
message is one of input, close, rejected, too large or ping; `Codec` says which
text is which. Timeouts that only
end a wait (`SOCKET_CLOSE_TIMEOUT`, `TASK_JOIN_TIMEOUT`) may pass at any time.
A session that is ending may still take a command or refuse it.

### Codec and Upgrade

`Codec` has the two codecs side by side: `decode_server_control`,
`encode_server_control`, `decode_client_control` and `parse_handshake` of the
daemon, `decodeServerControl` and `encodeClientControl` of the page. A text is its
size, whether it is well-formed Unicode, whether it ends where its JSON value
ends, and that value; an object is the sequence of its fields as written, so that
a key may occur twice; a number remembers how it was written; a string is known
by what the codecs test of it. The halves that no program of the system calls
(the client encoder in Rust, the server encoder and client decoder in
TypeScript) are left out.

`Upgrade` is `upgrade_websocket` and `accept_upgrade`. *State*: `up` is where the
task is, `left` the deadline, `first` the first message, `result` the error of
`start_reserved_with_remote`, `refusal` the denial to record and the failure to
send, `records` the denial records of this connection, `told` what `send_failure`
sent, `sink` the audit log, which may fail at any time. *Actions*: the messages
of a client (`FirstText`, `FirstBinary`, `TooLarge`, `Ping`, `ClientLeaves`), the
deadline, redemption with each of its errors, each way the session manager
refuses (with a record of its own or without), the record `accept_upgrade` adds
for some of them, and the answer. `StartSucceeds` enters the bridge, whose steps
are those of `Bridge`. The upgrade's refusals before the socket exists (query,
subprotocol, authentication) are one disjunct: `AuthGate` has them in detail.

### AuditLog and AuthGate

`AuditLog` keeps the end of the file (`tail`) and the writer (`sink`). A record
is one append; it may fail or be cut short, and then the writer has failed for
good. The daemon may die in the middle of an append; `Open` looks at the last
byte.

`AuthGate` runs requests through the middleware (`Arrive`), the provisional
failure slot of the peer (`Begin`, `Commit`, `Rollback`), the provider
(`Authenticated`, `Rejected`, `Establish`, `EstablishFails`), the budget of
session requests (`Spend`), the guard around the ticket (`Issue`) and the audit
record (`Record`). `Crash` loses everything but the file. *Abstractions*: a
token is its number, since tokens do not repeat, and a browser presents only
tokens it was given; parsing of cookies and headers is reduced to that token;
both providers are the set of peers they listen to. The tables of the limiters may be
full of other keys at any time: an attempt without a bucket may be refused for that.

### RateLimiter

*State*: `buckets`, `next` (generations), `now`, and each attempt with the clock
value it read before the lock. `Begin` is the mutex section of `begin` with its
eviction, restart and refusal branches and both draws of a generation;
`Release` is rollback or drop.

### Frontend

*State*: `generation`, the snapshot (`phase`, `shown`), the sockets with what
was sent on them, timers, listeners and their disposers, the current
`ResizeCoalescer` and `BoundedTerminalWriter`, and what the outside still owes:
answers of fetches, drains of the terminal. A callback runs to completion, so
each is one action; `Replace` is `#replaceConnection`, part of every action that
ends or begins a connection. The button and `pagehide` of `main.ts` are the
guards of `Connect` and `Close`. *Abstractions*: input is not chunked; output is
counted in frames; `WebSocket.send` does not throw on an open socket, so the
`catch` branches around it are left out; the branch of `connect` for an unknown
target cannot be reached from the page.

### Config, Material and Startup

`Config` is `config::parse` as an operator from the tables of a file to a
validated configuration or the field of the first complaint. A table is a record
whose domain is the keys present, so that missing and unknown keys are modelled;
a string is its length, its first and last character, the classes of its
characters and an id. A validator is the sequence of its complaints in the order
of the code, and one that runs over a list stops at the first element with a
complaint (`FirstComplaint`). `RawTypes` is what serde guarantees of the values. The TOML grammar is left to its parser.

`Material` has the predicates on files: type, size, owner and mode, the fields of
an OpenSSH private key, PEM sections, and the options `ssh -G` must report.

`Startup` runs the straight-line code of `main`, `prepare_with_ssh` and
`bind_and_serve`. *State*: `todo` holds the calls that are left of the block at hand (the
listener's pair, one SSH target, the audit file and the rest), one per system
call whose answer another process could have changed since the last; `FromTarget`
is the loop over the targets, which follows `PairTls` and every `Keep`. `held` is
the open file, `got` and `snaps` what was read and the `FileSnapshot`s, `prepared`
the SSH targets, `probe` the child of the capability probe, `audit`, `listener`,
`ready` what the start has opened, `client` one later start of an SSH client.
*Actions*: one per kind of call, each with every way it fails. Another process
may `Write` a file (contents, mode or owner) or `Swap` a directory above it, which
makes its path name another inode, between any two calls. `Request` asks for an SSH
session at any time after READY; its client is spawned by `ClientRechecks`,
`ClientLogs` and `ClientSpawns`, again with changes in between.

*Abstractions*: every write moves the change time, which on a real file system is
as true as its clock is fine. What changes between the last recheck and `exec` is
beyond the code, and `ClientsUseCheckedMaterial` claims no more than it can: each
file was as prepared at some moment after the request. A probed program is what
it answers and whether it exits; processes it leaves behind are not followed.
`notify_ready` and `bind` succeed or fail. The watchdog task and the health-check
client, which begin after READY, are not part of the module.

## 3. Runs

| Run | Question | Instance |
|---|---|---|
| `admission` | limits, ownership, tickets, shutdown's aftermath | 2 identities, 2 requests, 2 connections, 2 slots (1 each), 1 ticket, clock 0..2, TTL 1 |
| `admission_shutdown` | does admission implement the slot pool, does shutdown return, is every caller answered? | 2 identities, 1 request, 2 connections, 2 slots (1 each), fairness |
| `lifecycle` | what holds whenever a session is refused, unwinds or ends; is it the session admission counts on? | all queues 1, timeouts 1–2 ticks, 2 chunks |
| `lifecycle_progress` | is every caller answered, does every session end? | 2 chunks, no explicit close, timeouts 1 tick, fairness |
| `lifecycle_output` | *violated*: is terminal output kept when the process exits? | as `lifecycle` |
| `group` | who is signalled, who survives, what does success mean, does cleanup finish? | leader and 3 processes, 2 may change user, 2 reuses, fairness |
| `bridge` | one record per refusal, one meaning per text; what is sent, what is over at the end, does the connection end? | queues of 1, 2 chunks, 2 client messages, 2 ticks for the first message, 111 first texts, fairness |
| `authgate` | failure slots, records, the file, authority after a failure | 3 requests, a trusted and another peer, limits 1, a store of 2, windows 0..1, crashes |
| `rate_limiter` | counts, limits, survival of windows, retry_after | 4 attempts, 2 keys, 1 bucket, limit 2, window 2, clock 0..4 |
| `frontend` | do old generations leave anything, does the page tell the truth, do attempts end? | 5 generations (two connections), 2 sizes, 4 frames, a queue of 2, fairness |
| `startup` | which files are accepted, what READY means, which material a client runs with, does a start end? | 217 configurations and disks, 2 changes by others, 2 users, fairness |
| `frontend_resize` | *violated*: does the server learn the size of the terminal? | 2 sizes, 3 generations |

Why the bounds are enough to be interesting: two of every actor let any two
race, with a third party (the clock, shutdown, the audit sink) in between; one
slot per identity and one ticket put every limit at its edge at once (the limit over
all and those per identity are never full one without the other here; that each
holds by itself is what `LeaseLimits`, `ProcessLimits` and `SlotsImplemented`
prove); TTL 1 with
a clock to 2 lets a ticket be fresh, expired under a stale clock reading, and
expired for everybody. In the lifecycle and the bridge a queue of one is empty or
full, and two chunks put one in the queue and one in the hand of the task behind
it; pings of the client share that queue, so that a chunk also waits behind
something else. The first texts are every message of the protocol and what is one
step away from it: a field missing, doubled, of another type, a number or size at
or past its limit. Two ticks let a ping come between the start and the end of the
deadline. The configurations hold every combination of mode, address, scheme,
transport and provider, and each section with one thing wrong; the disks one
damaged file each. Two changes are a file that is replaced and put back, or two
files replaced in either order. Three
processes beside the leader give a fork by a child of a fork; two reuses give a
stranger that goes and another that comes. With a limit of one, two requests of a
peer compete for a failure slot and a third meets the next window. Four attempts
fill a window of two, roll one back and fill the next; four ticks are two whole
windows. Five generations are the start of the page, a connection, its end,
another connection and its end, so that everything the first one left behind can
meet the second. Named bounds that are not in the code are `MaxChanges`, `MaxTime`, `MaxReuse`,
`PtyBuffer`, `MaxOutput`, `MaxMessages`, `MaxTokens`, `MaxWindows`,
`MaxGeneration`, `MaxTyped`, `MaxResizes` and `MaxFrames`. Deadlock is not an
error in these runs: sessions, requests and attempts are finitely many, and a
state in which all are over is a proper end. That nobody waits for ever is a
liveness property instead.

The properties, each with a mutant of a mapped definition that breaks it:

* **admission** – `ProcessesWithinLimits` (limits over process groups, not only
  over the table), `ReservationOwnedOnce`, `LeasesAreAccounted` (no lease is
  without an owner, and no purge, expiry or shutdown frees a running session's
  slot), `TicketGrantsOneOwner`, `ShutdownLeavesNothing`,
  `LimitRefusalJustified` (an expired reservation never costs anyone a session),
  `ImplementsSlots`, `ShutdownReturns`, `CallersAreAnswered`.
* **lifecycle** – `SlotOutlivesSession`, `RecordsBracketTheSession` (nothing
  reaches the client before the start record, and every started session has its
  end record), `ReasonsAreTrue` (the reason is one that happened, an idle session
  was quiet, and the end of the output is the end of the session), `KeepsToAdmission` (each
  step of it is one that admission expects of a supervisor, in that order, panics
  included), `CallerIsAnswered`, `EverySessionEnds`.
* **group** – `StrangersAreSafe`, `FinalSignalIsEnough`, `ProvenMeansGone`,
  `CleanupFinishes` (unless a process of another user stays for ever).
* **bridge** – `SentInOrder` (output without gaps, the close last),
  `BridgeOutlivesSession`, `SilentClientGetsEverything`, `RefusalsAreRecorded` (one
  denial record per refusal, by the session manager or by the upgrade),
  `TextsMeanOneThing`, `ConnectionEnds` (the first message has a deadline nothing
  moves, and a bridge whose session is over or that was cancelled ends, but for a
  client that stops reading behind a full queue in the very end: `Stalled`).
* **authgate** – `SlotsAreAccounted` (the allowance of a peer is used by its
  failures and by attempts under way, nothing leaks), `AnswersAreRecorded`
  (each answer that is audited has its one record in the file, the right one, each
  answer that is not has none, across crashes), `NoAuthorityAfterFailure`, `TornRecordIsLast`.
* **rate limiter** – `WindowsAreExact` (counts are the attempts they stand for and
  never exceed the limit), `RunningWindowsSurvive`, `RetryAfterSuffices`.
* **frontend** – `OneConnectionAtATime` (an older generation leaves nothing alive,
  and every socket opens with its ticket), `PageMatchesConnection` (phase and output
  shown are those of the connection), `AttemptsEnd`.
* **startup** – `CombinationsAsDocumented`, `BuildRefusesOnlyTheIdentity`,
  `ReadyIsEarned`, `ClientsUseCheckedMaterial`, `StartupEnds` (every start serves or
  gives up, but for one that waits in the open of a FIFO in place of the certificate
  or the key).

Every module with state has a type invariant (`TypeOK`, `UpgradeTypeOK`), proved or
part of a proved invariant.

### Fairness

* `SessionAdmission`: weak fairness of every step a server task takes by itself
  (the runtime polls a runnable task; the `RwLock` is fair and its sections are
  short). Clients, the clock, the sink and sessions nobody asked to close owe
  nothing.
* `SessionLifecycle`: weak fairness of the clock, of the supervisor, and of
  `Supervise` alone, because its deadline, exit and close branches come first in
  the select and cannot be starved by activity. `TerminateProves` is fair because
  the retry loop has no end; `CleanupFinishes` is the argument for it. Client,
  process and workers owe nothing.
* `ProcessGroup`: a process with a pending SIGKILL dies; a stranger does not keep
  the number for ever; `waitid` does not fail for ever; a reap or probe that is
  possible again and again is not always overtaken by its timeout (strong
  fairness). For a group that contains a process of another user the last
  assumption does not help: `terminate_until_proven` then retries for ever and
  keeps the slot, which the code intends.
* `Upgrade` and `Bridge`: weak fairness of the clock, of `accept_upgrade` once it has
  something to do (this includes the answer of a start, by `CallerIsAnswered`), of
  the three tasks of a bridge, and of a session that was asked to close. Nothing is
  assumed of a transport: it may never take a frame again, before, in and after a
  bridge. So `ConnectionEnds` stops at a refusal, and `BridgeEnds` names the state in
  which a client can hold a bridge. Client and process owe nothing.
* `Startup`: the start is one thread of control; the timer of the probe fires; a
  child that was sent SIGKILL ends. Nobody has to change a file, ask for a session or
  open a FIFO the start is waiting on (`WriterComes`).
* `Frontend`: only the browser's timers are owed. Server, socket, terminal and
  user are not.

## 4. Disagreements with the documents

Shown by a run, and listed in `PROJECT.json`:

* `lifecycle_output`. `docs/protocol.md:131` says of bounded queues that a
  producer "MUST pause or apply upstream backpressure rather than […] discard
  unreported terminal data". The output queue is full, `read_output` holds the
  next chunk, the process exits by itself, `run_supervisor` raises `cancel` at
  once, and the select at `session.rs:1145` drops the chunk. The session ends as
  `ChildExited`, and its client, still reading, never gets the tail.
* `frontend_resize`. `ResizeCoalescer.offer` (`frontend/src/terminal-io.ts:66`)
  returns early when the terminal is back at the size last sent, and leaves the
  size in between pending: the timer sends it, and the server keeps a size the
  terminal does not have.

Met while modelling, visible in the modules, without a run of their own:

* An input that meets the closed command queue of an ending session ends the
  bridge's loop (`websocket.rs:673`) while chunks are still queued: the exit status
  is sent and they are not. `SilentClientGetsEverything` is stated for clients
  that send nothing for this reason.
* `docs/protocol.md:60` says of a client's close: "The server eventually reports its
  terminal `close` state or the transport closes." `finish_bridge` queues its
  controls without a deadline (`websocket.rs:907`), and by then the reader has
  stopped. With a full queue and a client that stays connected and stops reading,
  neither happens, and bridge, socket and their tasks stay (the session and its slot
  do not): `Stalled`, the exception `BridgeEnds` makes.
* `README.md:81` of the repository asks for "absolute regular files" as certificate
  and key, and `docs/plans/2026-07-18-chunk-2.1-production-gating-design.md:68` has
  symlink metadata reject "non-regular files". `read_material` (`tls.rs:164`) asks for
  the type only after an open without `O_NONBLOCK`, which the readers of the SSH
  material and of the audit file do set: a FIFO in place of one of the two files is
  refused when somebody opens it to write, and holds the start until then
  (`OpenMaterial`, `WriterComes`), the exception `StartupEnds` makes.
* The two codecs part where a number is written with a point or an exponent: the
  page reads `1.0` as the version, the daemon does not. `TextsMeanOneThing` compares
  them on plain numbers; in the other direction there is no exception: whatever the
  daemon reads the page reads alike (`ReadersAgree`). They also name different errors for some damaged texts, which
  nothing depends on.
* A development user that `config.rs` accepts and `Identity::new` does not is found
  while the application is built (`server.rs:138`), after the audit file was created.
* `docs/plans/2026-07-18-chunk-2.3-rate-concurrency-limits-design.md:83` wants
  failure slots "while ensuring success does not consume failure allowance";
  requests that are going to succeed do count while they are under way
  (`server.rs:733`), and can have another one refused.
* `docs/plans/2026-07-18-chunk-2.4-audit-subsystem.md:103`: "If the record cannot
  be written, return stable 503 and do not provision identity". The browser
  session is in the store, and an older one may be evicted, before the record is
  written (`server.rs:421`, `446`); only the cookie is withheld.
* `close` of the controller (`frontend/src/connection.ts:252`) reads the exit
  status after `#replaceConnection` has cleared it, so its branch for a status is
  never taken.

## 5. Proofs

Every safety property the passing runs check is a theorem for every value of the
constants. The assumptions are named in
the modules that declare the constants, and TLC evaluates them in every run: sets
of callers, attempts and keys are finite; limits, timeouts and bounds are natural
numbers, queue capacities and windows at least one where the code has a constant
or refuses zero (the supervisor's event queue holds three); `None` lies outside
every data set; the leader of a group is not among the others. For `Startup`: a
file has the types serde gives it, a disk knows every path an accepted
configuration names (as missing perhaps), and an inode that is a directory
remains one (and a FIFO, which `Write` sees to). For `Upgrade`: the deadline is a natural number, and a first message is a
text as `Codec` describes one (`TextsAssumption`): an object lists its fields with their
keys and values, and a string that is one of the words of the protocol, a control type,
a status, a reason of a close, is spelled in lower-case letters and hyphens.

In each module one inductive invariant carries the theorems; the properties
themselves are seldom inductive.

* `SessionAdmissionProofs`: `TypeCorrect`, `LeaseLimits`, `SingleOwner`,
  `ProcessLimits`, from `AdmissionInvariance`. `AdmissionInv` adds who is known to
  whom (`CallersKnown`: an idle connection owns nothing, a token belongs to a
  request that issued it), `Ownership`, and `SessionHoldsLiveLease`. The argument: a
  step that adds a lease has just compared the purged table with both limits
  (`InsertKeepsLimits`); every other step only removes or flips leases
  (`ShrinkKeepsLimits`); a purge removes only pending leases and a drop only the
  dropper's own, so live sessions keep theirs; different sessions own different
  leases, hence the map from sessions to leases is injective and the limits carry
  over from the table to process groups (`LeasedWithinLimits`). Three further
  invariants stand on it. `Redemption` (a ticket that was let through is out of the
  store and never comes back) gives `OneGrantPerTicket`; `OwnersInv` (every lease has
  an owner, and a lease that waits for activation is pending) gives
  `LeasesAccounted`; `GateInv` (who is inside the gate and who is registered at each
  step of `shutdown`) gives `NothingAfterShutdown`.
  `RefusalsForCapacityAreJustified` is an action property of the purge.
  `SlotsImplemented` is the refinement of `SessionSlots`, which sees the process
  groups and whose they are: `Init` maps to `Init`, a spawn to a `Start` inside both
  limits (lemma `SpawnHasRoom`, from the inductive invariant), a proven cleanup to an
  `End`, and every other step of every handler to a stutter.
* `SessionLifecycleProofs`: `TypeCorrect`, `SlotOutlivesItsSession`,
  `RecordsBracket`, `ReasonsTrue` (from `EndIsTrue` and `IdleIsQuiet`), from `LifeInv`.
  Its parts say, for each point of the supervisor, what is in the audit trail and announced
  (`Recording`), who waits and what was decided (`Deciding`), that the final snapshot
  repeats the outcome (`Reporting`), in which order group, workers and slot go
  (`Ordering`), that an outcome was true when decided (`TrueOutcome`), that no chunk
  is counted twice (`Counting`), and how the idle deadline and the time since the
  last activity add up (`IdleDeadline`). The panic paths are steps like the others.
  `SessionKeepsToAdmission` is the refinement of the supervisor in `SessionAdmission`:
  `GroupInv` (the group counts as present until an attempt proves it absent) and
  `LifeInv` give each point of the supervisor its stage (`StageInv`), and `Moves` lists
  the five ways in which point, group, slot and sink can change. `SupervisorImplemented`
  states it over the variables of `SessionAdmission`.
* `ProcessGroupProofs`: `SignalsStayHome`, `OneKillIsEnough`, `ProofOfAbsence`,
  from `GroupInvariance`. The strengthening is `NumberIsPinned`: signals are sent
  only while the leader is unreaped, and an unreaped leader or a living process
  keeps the number.
* `AuthGateProofs`: `TypeCorrect`, `TornRecordsStayLast`, `EveryAnswerIsRecorded`,
  `FailureEndsAuthority`, `NoSlotIsLost`, for any number of requests, peers and
  restarts. `GateUsesTheWriter` shows that every step of the server is a step of
  the writer or leaves the file alone; `LogStep` that the writer keeps `LogInv`,
  whose added conjunct says that a writer that still accepts records has a whole
  record behind it. `EveryAnswerIsRecorded` is from `RecordInv`: a request without an
  answer has left no record, and one that is about to write has a record of the answer
  it is about to give. A ticket, a target list, an upgrade and the refusal of a
  malformed request have none by design (`Unaudited`); of a request that hears that the
  audit is unavailable, or nothing, the theorem claims nothing. `GateTypes` ties the note of a request to its place in the
  handler. `SlotInv` counts: the bucket of a peer is its failures and its attempts
  under way in the window of the bucket, no attempt is of a later window, and no
  request under way was already counted.
* `RateLimiterProofs`: `LimiterTypes`, `LimiterIsExact`, `RunningWindowsStay`,
  `RetryAfterIsEnough`, from `LimInv`. A count is the number of attempts that hold a
  slot of the window with this generation (`CountIsExact`), and no window, forgotten
  ones included, ever let more than the limit through (`Within`), because a
  generation is never drawn twice.
* `UpgradeProofs`: `OneRecordPerRefusal` from `RefusalInv`, which says how many records
  there are at each point of `accept_upgrade`; the one that matters is the error of a
  start, which comes with the session manager's own record or is one of those
  `accept_upgrade` records (`DenialsComplement`). `FramesInOrder`,
  `NothingOutlivesTheBridge` and `ListenersHearAll` from `BridgeInv`: what is over at
  each point of the bridge (`EndInv`), what is queued, with the frame in the hand of
  the writer, in which order and what it still lacks (`QueueInv`), and what was sent
  (`SentInv`). An upgrade that has not reached its bridge leaves it as it begins.
  `UpgradeTypes` adds the clock of the first message. About the codecs: `ReadersAgree`
  compares the two decoders on any text. It is proved by saying of each, without its
  early returns, which texts it accepts and what it makes of them, field by field; the
  shapes are the same but for the numbers, and a text that one detector refuses for a
  lone surrogate has it in a string no field of an accepted control could hold.
  `ErrorsAreRead` and its lemmas for the other controls (every exit status, every signal, every
  reason of a close, every size) take what the encoder wrote apart again.
  `OneMeaningForBoth` brings them to a connection by `TextInv`: what the client may be
  told is an error that `RefusalInv` allows there, so its code and message are those of
  the table of `safe_session_error` and its kin.
* `FrontendProofs`: `PageInvariant`, `OneConnection`, `PageIsTrue`. `PageInv` relates
  sockets, timers, listeners, answers and drains to the generation: whatever is of an
  earlier one is closed, cancelled or will be ignored.
* `StartupProofs`: `AcceptedCombinations` rests on lemmas about `config::parse`: the
  list of complaints of each section is empty only if its conditions hold, and begins
  with a field of a combination only if that combination is not one of the matrix
  (`ParsedFile`). The rest is from `StartupInv`: which call of its program a start has
  come to and what it has then (`InTls`, `InTarget`, `InFinish`), for any number of
  targets. A snapshot is a promise about an inode (`Pinned`: as long as its stamp is
  current its content is the one that was read), kept on every later disk (`Later`,
  `LaterKeeps`) whoever changes it; `CheckedMaterial` follows. The loop over the
  targets takes the least index left, for which `LeastNatural` gives the
  least-number principle. `BuildsWhatItAccepts` needs that names are distinct, so
  that targets and prepared targets are equally many. `ReadyEarned` reads the
  invariant at its last call.

Only model-checked: the liveness properties (`ShutdownReturns`,
`CallersAreAnswered`, `CallerIsAnswered`, `EverySessionEnds`, `CleanupFinishes`,
`ConnectionEnds`, `AttemptsEnd`, `StartupEnds`), because the prover has no reasoning
about fairness or `ENABLED`. No module uses recursion, whose results would need
induction over data that the prover cannot do.

## 6. Not modelled

* Spelling: the TOML grammar, the parsing of URLs, cookies and origin headers, the
  argument vector of OpenSSH, the patterns of the lines `SshClassifier` looks for.
  The models begin with what these yield.
* The limits of `SshClassifier` in bytes and lines, and a line split over two chunks:
  `SessionLifecycle` has the precedence of the kinds of lines.
* The watchdog of the service manager and the health-check client: a timer and a
  request that share no state with the rest.
* TLS handshakes (rustls), HTTP framing (axum), the PTY set-up calls.
* HTML, CSS, rendering, fetch wrappers, packaging and deployment files.

## 7. Plan

Modelled, in this order: admission, the session, its process group, the limiter;
the bridge, the authority API with the audit file, the browser; the upgrade in front
of the bridge, both codecs, the configuration and the start of the daemon. What is
left of the model is `SshClassifier` over chunks against a reference, once its
patterns are abstracted to kinds of lines with lengths.

What is left to prove are seams between modules that are argued above and not
checked: that a window of `RateLimiter`, seen by one key, is the bucket of `AuthGate`,
and that an attempt of `ProcessGroup` is a `TerminateFails` or `TerminateProves` of
`SessionLifecycle`.
