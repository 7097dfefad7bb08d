# snx-edge: a formal model

snx-edge runs a Check Point VPN client (snxcore) inside a container on a
MikroTik router and steers selected LAN traffic into the tunnel. A server
(`apps/snx-edge-server`) keeps the tunnel, the router's policy-based routing,
the VPN profiles and the users; a desktop client (`apps/snx-edge-client`) and a
command-line client (`apps/snx-edge-ctl`) talk to it over HTTP.

This directory holds TLA+ models of the control logic of all three, TLC runs
that check them on small instances, and TLAPS proofs of what matters most for
any size. Run the checks with `tlc -config <run>.cfg <module>` and the proofs
with `tlapm <module>.tla`; `PROJECT.json` lists the runs, the mutants that show
each property can fail, the source lines behind each definition, the hazards and
the theorems. Paths below are relative to `apps/snx-edge-server/src` unless they
begin otherwise; the desktop client's begin with `client/`, those of
snx-edge-ctl with `ctl/`.

## 1. The system

| Component | State | Operations | Works with |
|---|---|---|---|
| Tunnel manager (`tunnel.rs`) | status, connector, session, task handles, `disconnect_initiated`; per tunnel a run-loop task, an event queue and an event handler | connect, reconnect, disconnect, challenge_code; the handler's loop | called by the API and the supervisor; broadcasts every status it sets |
| Supervisor (`supervisor.rs`) | desired profile and `auto_connect` (database), `reconnect_suspended`, the backoff counter | react to status events, redial with backoff, give up | reads the broadcast channel, calls the manager |
| Tunnel API (`api/tunnel.rs`) | none of its own | record the intent, then call the manager | any number of requests at once, each of which a client may abandon |
| Reconciler (`reconciler.rs`, `net.rs`) | the container's MASQUERADE rule, the corp DNS file | engage, disengage | reads the broadcast channel and the manager's status; uses the provisioner |
| Provisioner, RouterOS client, routing API (`routeros/*`, `api/routing.rs`) | the router's firewall rules, routes, address lists and routing table | setup (migrate, ten ensure steps, rollback), teardown, default route on and off, address-list entries | REST calls; used by API requests, the supervisor's boot and the reconciler |
| Accounts (`api/auth.rs`, `api/users.rs`, `db.rs`) | users, sessions, token generations and their cache, lockouts | login, refresh, logout, revocation, password change, user CRUD | SQLite behind one mutex; a cache beside it |
| Profiles and secrets (`api/profiles.rs`, `db_secrets.rs`, `crypto.rs`) | profile rows, their secrets sealed or not | create, import, update, rename, upload, delete; a check of the key at the start | database, the process's key and policy |
| Configuration (`config.rs`, `api/config.rs`, `state.rs`) | the configuration file, its copy in memory, the cached RouterOS client | load, validate, update, save | everyone reads it |
| Logs and events (`log_layer.rs`, `api/logs.rs`, `api/events.rs`) | a ring buffer; one broadcast channel of 256 events, shared by status, routing and log events | push, read, stream | supervisor and reconciler listen on the same channel |
| Process (`main.rs`) | shutdown token | migrate, check the key, bootstrap an admin, serve, drain, ordered shutdown | everyone |
| Desktop: tokens (`client/api.rs`, `client/auth.rs`) | access and refresh token, a lock, the process's cache of the keyring | request, single-flight renewal, login, restore, persist rotated tokens | the accounts service; the keyring, shared with snx-edge-ctl |
| Desktop: tray, status, prompts (`client/main.rs`, `tray.rs`, `status.rs`, `prompt.rs`) | what the tray and the status window show, one poller per login | poll, connect, disconnect, ask for a one-time code | tunnel API; a bounded channel to the tray, a watch to the window |
| Desktop: settings window (`client/settings.rs`, `profiles.rs`) | two parallel lists, a selection, a form, a copy of the profiles | select, save, new, rename, delete, reload | profiles API |
| Desktop: list and log windows (`client/windows/*`) | rows, disabled buttons, the state of a log stream | load, add, remove, refresh, reconnect | routing, users and logs API |
| Client settings file (`client/client_settings.rs`, `client/windows/servers.rs`, `ctl/servers.rs`) | `client.toml`: servers and which is active | add, edit, remove, activate | both clients write it |
| Command-line client (`ctl/main.rs`, `ctl/api.rs`, `ctl/auth.rs`) | none but the keyring | one command per invocation, each a sequence of calls; an MFA loop | the API |

What is hard here:

* Calls overlap. Requests, the supervisor and the event handlers are tokio tasks
  that share the manager's fields through mutexes and atomics taken one at a
  time; only the connector mutex is held across awaits. Account handlers share a
  database that is locked one call at a time.
* A request's future may be dropped at any await, when its client hangs up.
  Whatever would have come after that await never happens.
* Watchers are told that the status has changed, not what it is, over a channel
  that drops its oldest events. They read the status later.
* Every router operation is a list, a decision and several separate REST calls,
  each of which may fail after it has taken effect, with no lock around them.
* A token carries a copy of what the database said when it was read, and a cache
  stands between the token and the database.
* Rows, files and tokens outlive the process that wrote them, and the next one
  may have another key, another policy, or have been killed half-way.
* Each window of the desktop client stays usable while its requests are under
  way: what was selected, captured or cleared before an await is used after it.
* The gateway, the run loop of a tunnel and the router answer as they like. Neither
  the manager nor the desktop client puts a time limit on what it asks.

What makes each component correct:

* manager: one attempt at a time; the mutex is always released; no task
  escapes a disconnect, and no status is left that nobody will correct, but in
  the ways that are named; nothing of a session is left after a disconnect;
* supervisor: it follows up a drop, it gives up for good, it obeys the operator;
* provisioner: an operator's entries are never lost, a reported success is true;
* reconciler: the data plane follows the tunnel, and fails closed;
* accounts: an administrator is always left, a token tells the truth of its
  owner, a revocation is obeyed in time, wrong passwords lock;
* configuration: what was acknowledged survives, the cached client is current;
* profiles and process: what is stored can be opened by whoever serves it, and
  was stored as its policy allowed; a crash never makes a start impossible; a
  shutdown ends;
* logs: the newest lines, in order, and no line lost without notice;
* desktop client: no refresh token is presented twice, the keyring can restore the
  session, edits go to the profile they were made for, rows show what there is,
  what the tray says becomes true, buttons come back;
* settings file: removing a server keeps the others and the choice;
* clients and server: every call has a route, and every control a permission.

## 2. Plan

Done, in this order:

1. `TunnelManager`, its promise `Lifecycle`, and `Supervisor`, which composes the
   manager with the API handlers and the supervisor.
2. `Provisioner`, and `DataPlane`, which composes it with the reconciler and the
   tunnel's status.
3. `Permissions`, `Accounts` and its promise `TokenAuthority`; the contract of the
   API: `Api`, `Commands`, `ClientAddress`, `Transport`.
4. `Profiles` and `ServerProcess`, which composes it with the process;
   `Configuration`; `LogStream`.
5. The clients: `ClientTokens`, `ClientSettings`, `StatusFeed`, `ProfileForm` and
   `ProfileWindow`, `ListWindow`.
6. Proofs: the manager, with its refinement of `Lifecycle`; the supervisor, the
   provisioner, the reconciler; the accounts and their refinement of
   `TokenAuthority`; the process with its profiles; token renewal and the
   keyring; the configuration, client.toml, the windows and the log stream.
7. Proofs about the compositions (the manager with the supervisor dialling too,
   the router's requests beside the reconciler), the safety core of four liveness
   properties, the arithmetic of trusted blocks, and the laws of a profile's form.

Every invariant and action property that a passing run checks is a theorem, but
for the table `ContractHolds`. Left to model: provisioning at boot beside the
supervisor, the login rate limiter, `load_history` beside the log stream.

## 3. The modules

`MC<module>` instantiates a module for TLC; `<module>Proofs` holds its theorems.

### TunnelManager: the connection state machine

`pc[c]` is the next statement of call `c`, `hnd[t]` that of the event handler of
tunnel `t`. One step is one access to shared state, or one await on the gateway.

| In the model | In the code |
|---|---|
| `BeginConnect`, `Admit`, `ClearFlag`, `Dial`, `StoreConnector`, `ReportMfa`, `ReportError` | `connect`, `connect_inner` and the error branch around it |
| `LockCreate`, `CreateTunnel`, `ReadMtu`, `Track`, `SetConnecting`, `StartFails` | `start_tunnel`, also from `challenge_code`: the run loop is spawned, then an await (tunnel.rs:348), then the handler is spawned, then both are put in the task list |
| `BeginDisconnect` ... `SetDisconnected` | `disconnect`, the first half of `reconnect` too; `Redial` is the second |
| `BeginChallenge`, `LockChallenge`, `Answered`, `StoreAnswer` | `challenge_code` |
| `Recv` ... `HandlerEnds` | the spawned `event_handle` |
| `Report`, `Exit` | snxcore's run loop (external) |
| `HangUp`, `HandlerAborted` | a future dropped at an await; `JoinHandle::abort` |

Abstractions. A session is `none`, `pending` (a challenge is due) or `ready`.
The session and status mutexes are never held across an await and so are not
variables; setting a status and broadcasting it is one step because nothing
in between can be seen to matter, except for a handler's last status, between whose
writing and broadcast an abort may come. What an await returned is held in a local
variable until the next access to shared state, and the two are one step. Route
computation, parameters and byte counters are left out. A tunnel reports from the
moment its run loop is spawned, so before `start_tunnel` has returned too. A
tunnel that reports `disconnected` ends its run loop with it. An aborted handler
may stop at any of its steps, which is more than tokio allows. A tunnel slot is
used again when nothing refers to it, only to keep the model finite.

`Lifecycle` is what a watcher of the status may rely on while nobody
disconnects. Its `Retract` is the promise the manager does not keep: `start_tunnel`
writes `connecting` last, perhaps over a tunnel that is up already.

### Supervisor: intent, redial, give-up

Extends `TunnelManager` with the API handlers that write the intent to
the database in two rows and then call the manager, and with the supervisor's
loop: `Observe` (a status event), `ReadAuto` and `ReadDesired`
(`desired_profile`, `decide`), `Attempt` and `Decide` (one turn of
`initiate_with_backoff`), `SupStops`. The length of the sleep is arbitrary. A
database access may fail; a request may be lost at any of its awaits. `Overrun` is
the log lines pushing a status event out of the channel before the supervisor
has received it; `Lagged` is then no reason to look at the status
(supervisor.rs:212). `streak` is history, and so is `forgot`: since the supervisor
last looked, a step was taken that may leave a wanted tunnel to nobody. Provisioning at boot is left out here; in `Provisioner` it
is a setup like any other.

### Provisioner: the router

An object is a path, a kind (the `kind=` field of its comment), an item that
tells it from others of its kind and a number for the router's `.id`. `Layout`
is the sequence of setup's steps, `SetupSteps`; a smaller model may take some of
them. A run (a request, or the reconciler) goes through

    migrate -> ensure/create ... -> report          (setup; a failure: rollback)
    teardown | clear | check/create | remove -> report

with one REST call per step. `Fault` is a call that fails; a failed create or
delete may have been carried out. `Abandon` drops the request. A step's second
object is created from the listing made before the first (`missing`). Rules are
matched by kind, a routing table by its name, a bypass address by the address,
as the code does. The free-text note of an address-list entry is taken to hold no
`kind=` field: the code matches any `;`-separated field of the comment.
Validation, permissions, read-only diagnostics and the details of the rules
are left out.

### DataPlane: the reconciler

Extends `Provisioner`; the reconciler is one of its runs, so that its calls to
the router interleave with those of the requests. `React` receives an event and
reads the status; then come `Masquerade`, `EngageRoute`, `WriteDns`, or
`Cleanup`, `DisengageRoute`, `ClearDns`, with the errors that end a pass (`?`) and
those that are only logged. Receiving and reading are one step; what can happen
in between can as well happen before. `Flood` is the lagging receiver,
`Restart` the process ending and starting anew. The tunnel moves as
`Lifecycle` allows and disconnects; with `Races` it moves at will, which covers
late reports and overlapping calls. `undone` is history: the parts the last
pass failed to settle, or that someone has changed since, or that the reconciler
was told nothing about. The properties except those parts; the code does not
retry them.

### Permissions, TokenAuthority, Accounts: who may do what

`Permissions` is the table of roles and the wildcard match. `Accounts` runs
every handler of `api/auth.rs` and `api/users.rs` one database call at a time:
`pc[h]` is the next await of request `h`, `loc[h]` what it holds in locals. The
database mutex makes one call atomic; the two database calls of a handler, and
the write to the generation cache after them, are separate steps.

| In the model | In the code |
|---|---|
| `LoginRequest`, `ResetLock`, `RecordFailedLogin`, `ClearFailed` | `login` |
| `RefreshRequest`, `Spend`, `ReadAccount` | `refresh` |
| `ReadGeneration`, `CreateSession` | `issue_tokens` |
| `AuthRequest`, `Authenticate`, `LookupGeneration`, `StoreGeneration` | `require_auth` with its cache |
| `CreateUser`, `UpdateUser`, `DeleteUser`, `VerifyCurrent`, `ChangePassword` | the handlers of `api/users.rs` |
| `Evict`, `FindOwner`, `DropSession`, `BumpGeneration`, `Reread`, `Publish` | invalidations and revocations |
| `HangUp`, `Tick`, `Expire` | a dropped request; time, for the TTL of the cache and the lockout; the cleanup of expired sessions |

A password is right or wrong. A pair of tokens is one element of `Tokens`, its
claims in `issued`. `overtaken` (in the claims) records that the owner's
privileges were reduced between the handler's read of the account and its read
of the generation; `ended` records when a generation stopped being current;
`calls` bounds the requests. `TokenAuthority` is the abstract service: a pair is
issued once, its access token usable until revoked, its refresh token live
until spent, and neither ever comes back; `Accounts` implements it with
`owner`, `usable` and `live` read off the tables.

### Api, Commands, ClientAddress, Transport, Trust: the contract

Tables and functions without state, checked on the initial states of
`MCAccounts`. `Api` has the server's routes with the permission of each, the
calls of both clients and the controls the desktop client shows to a role;
`Commands` the sequence of calls of each ctl command; `ClientAddress` the
address a session is recorded under, for addresses of `Width` bits (32 and 128 in
the code; 2 and 3 in the run, with prefixes to 4, so that 0, the full width and
one too many occur for both); `Transport` what `validate` accepts and what the
server then listens with; `Trust` puts these beside `Accounts`.

### Profiles, ServerProcess: secrets at rest, and the process around them

A row is a config and the key it is sealed with. `Profiles` has each write of
`api/profiles.rs`: an update or an upload reads the row, lets go of the
database, and writes the row it has made of it. The mask `***` that the API
shows for a secret is merged back as the code does. `ServerProcess` extends it
with a process that starts with any key (or none) and any policy, runs the
migrations, each in its own transaction, checks that its key opens every stored
secret, creates the first admin, serves, drains for at most `DrainCap` ticks when
it has TLS and disconnects for at most `DisconnectCap`; it may crash anywhere. A
secret is a text, never an object: those a client sends in the sealed shape are
left out (section 5).
The order in which the start does this is the order of `main`. `everLax` and `writtenBy` are
history.

### Configuration, LogStream

`Configuration` has `PUT /config` one await at a time against the file, the copy
in memory and the cached client. A write of the file may stop half-way, by an
error or a crash: `std::fs::write` truncates first, and what is left does not
parse (`Torn`), parses without the sections a start asks for (`Blank`), or has lost
its last one. A request may be dropped at any await (`RequestDropped`). `acked` is
what the server last started with or answered "ok" to; `excused` marks the three
ways a client is known to outlive a change (section 5). `LogStream` has the ring as a ring (buffer and write position), the
broadcast as the events sent with a receiver's place in them, the frame that
tells a lagging receiver how much it has missed, and the log window's loop with
its doubling delay.

### ClientTokens: renewal and the keyring

The server gives out numbered pairs; 0 is no token. A request goes through
`idle`, `built` (its header is fixed), `refused`, `renewing`; `lock` is
`refresh_lock`, and who gets it compares the token with the one it was refused
for. The answer to an exchange may be lost, a write to the keyring may fail, both
noted in `faults`, or not come at all; `exchanged` is what this process has had an answer for.
The hook that persists a rotated token is a task of its own (`saves`). A ctl
command exchanges the stored token, stores the answer, works, and, at a
challenge, submits codes until `MAX_MFA_ATTEMPTS`.

### StatusFeed, ClientSettings, ListWindow

`StatusFeed` has a poller per login, the tray's bounded channel (`try_send`
drops when it is full), the watch, the prompts, and the two menu commands that
tell the tray what they were answered. `ClientSettings` has the file, the
desktop client's copy of it, the dialog with the position it captured, and ctl's
read, change and save. `ListWindow` has the rows and the tasks of the buttons,
for the windows that append what they add and for those that reload.

### ProfileForm, ProfileWindow: editing profiles

`ProfileForm` is the conversion of a profile to widgets and back, field by kind
of field, and what the server makes of the result (`build_tunnel_params`).
`ProfileWindow` has the two parallel lists, the selection, the form and every
handler split at its await, the dialogs for a file, a new name and a deletion
among them (`Ask`, then `PickFile`, `RenameRow`, `ConfirmDelete` or `LeaveDialog`): a
dialog keeps the user from the window, not the answers of requests under way. A
configuration is represented by the profile it belongs to, so that one that ends
up elsewhere is seen. `stale` marks a form with something of another profile in
it, `misnamed` a name that went to another row (section 5). The form has its texts, the length of
lists and the range of its numbers as parameters; in the run they are two texts,
lists to length 2 and numbers 0 to 5 around a range of 1 to 4. Numbers are clamped
to the range, but not first cut to the 16 or 32 bits of the widget's type
(client/settings.rs:219, 225).

### MCPrograms

`ClientTokens`, `ClientSettings`, `StatusFeed`, `ProfileWindow` with `ProfileForm`,
`ListWindow`, `Configuration`, `ServerProcess` with `Profiles`, and `LogStream`
share no state with each other, so one MC module extends them all and a
behaviour moves one of them, its `subject`; the product of their states would
show nothing more. `feed` and `logins` are
two subjects of `StatusFeed`: with clicks and one poller, or with two pollers
and no clicks.

## 4. The runs

| Run | Instance | Shows |
|---|---|---|
| `tunnel_connect` | 3 callers that connect and hang up, 2 tunnels | `OneDialAtATime`, `ConnectedIsWatched`, and `ImplementsLifecycle`: the status moves as `Lifecycle` allows |
| `tunnel_overlap` | 2 callers, one of which may hang up, every operation, 1 tunnel, reports at any time | `MutexHeld`, `OnlyADropOrphans`, `OnlyTheseStick` |
| `tunnel_serial` | 1 caller that stays, every operation, 2 tunnels that may report an end at any time, fair | `CleanDisconnect`, `CallsReturn` |
| `supervisor` | 1 API caller with every operation, the supervisor, cap 2, a channel that overruns, tunnels that never come up | `GiveUpIsFinal`, `SuspendedIsQuiet` |
| `supervisor_follow_up` | the same, connect only, hang-ups, a failing database, tunnels that come up and drop, fair | `DropIsFollowedUp` |
| `provisioner` | all ten steps, 1 request at a time, a router with legacy objects, one fault, hang-ups | `OperatorEntriesSurvive`, `ReportIsTrue` |
| `data_plane` | the two routes, reconciler and 1 request, flapping tunnel, restarts, one fault | `FailClosed`, `EngagedWhenUp` |
| `accounts` | 2 users, 2 pairs of tokens, 2 requests at once, 3 in all, TTL and lockout of 1 tick, locked by the first wrong password, 2 bumps of a generation | `AdminRemains`, `AcceptableTokenIsCurrent`, `RevokedWithinTtl`, `LockoutHolds`, `ImplementsTokenAuthority`, and the tables: `ContractHolds`, `TrustIsAsConfigured` |
| `programs` | the nine subjects of `MCPrograms`, two of each thing that can race | the thirteen safety properties of the clients, the configuration, the process and the logs |
| `programs_live` | the five subjects with a liveness property, fair | `EachRequestGetsItsTurn`, `StatusEventuallyTrue`, `ButtonsComeBack`, `ShutdownCompletes`, `ViewerComesBack` |
| `supervisor_disconnect` | as `supervisor` | a counterexample to `DisconnectIsFinal` (section 5) |
| `provisioner_rollback` | as `provisioner` | a counterexample to `RollbackOwnObjects` (section 5) |

Deadlock is checked in the two router runs, where an operation can always
begin. In the others the system may come to rest: slots for tunnels
are used up, the process has shut down, the calls a run may make have been made,
or there is no poller and nothing to poll.

Why the bounds are enough to be of interest:

* two callers already meet at every pair of statements; the third of
  `tunnel_connect` adds one that arrives while two race. In `tunnel_overlap` only one
  may hang up: a hang-up may look like an error return that does nothing, and
  excuses what an error return must not do, so the other caller is the one whose
  error returns are checked. That both may is in `tunnel_connect` and in the
  theorems. Two tunnels let an old
  handler linger beside a new one. Queues of length one make the
  `full` case reachable;
* `MaxAttempts = 2` has a first failure, a last one, and a burst that ends
  between; the number of events in the channel is bounded by one, which is enough
  for an event left over from the burst itself;
* one fault reaches every failing call at every position, including the one
  inside a rollback or a teardown; hang-ups come on top, so that two
  operations in a row may end half-way. `Copies` bounds objects that differ only
  by `.id`: 2 with one request, 3 in `data_plane`, where no state has more than
  two default routes;
* `data_plane` has one interface; a change of interface shows as a
  `connected` that is set again. Its channel of length one loses nothing but
  multiplicity, since all events look the same;
* `accounts` begins with two administrators, so that two deletions or demotions
  can race for the last one, and with one session, so that the first request may
  already be authorised. Three requests, two at a time: one that changes an
  account in the middle of another that issues or caches, and one that uses what
  came of it. A limit of one wrong password lets the count pass it within three
  requests, two of which read the account before the first has failed. Two bumps are a revocation and one more of what was issued after it.
  Users, tokens and requests are interchangeable (`Symmetry`); no liveness
  property is checked there;
* `programs`: two requests, two pollers, two tasks, two writers, since what can
  go wrong is one overtaking another; three pairs of tokens are the first, its
  successor and the successor's; two keys are the right and the wrong one; two
  slots of ring and channel with four events wrap around and lag.
  `programs_live` has no ctl command, one entry, one writer and one event less,
  none of which its properties are about.

Fairness. Tasks are scheduled: the statements of a call, a handler, a request
already begun, the supervisor, the pollers, the tray, the tasks of a window, the
log window's loop and `main` are fair. Steps that wait for the connector mutex, for
`refresh_lock` or for room in the tray's channel are strongly fair, since tokio
serves its waiters in order. In `ShutdownCompletes` time passes, and the caps on
draining and on the last disconnect are the code's own (main.rs).

No answer is assumed of a gateway, a server or a user. tunnel.rs puts no time limit
on what it asks the gateway while it holds the connector mutex, nor has the
desktop client's HTTP client one (client/api.rs:92-95). Where a liveness property
needs an answer it has it as a premise, stated in the property: `GatewayAnswers` in
`CallsReturn`, `ExchangesEnd` in `EachRequestGetsItsTurn`, `RequestsEnd` in
`ButtonsComeBack`, `AnswersCome` in `StatusEventuallyTrue`, `AttemptsEnd` in
`ViewerComesBack`. Each says that nothing waits for its answer for ever, not that
the answer is a good one. `DropIsFollowedUp` needs none: an attempt that never ends
keeps the status at `connecting`, which holds. Nobody is obliged to ask for anything,
and no tunnel to come up or to fail. `StatusEventuallyTrue` supposes besides that
the tunnel comes to rest, `ViewerComesBack` that streams stop breaking.

## 5. Where the code and its documents differ

Two runs have a counterexample for it.

* `supervisor_disconnect`: a disconnect "must stop the supervisor"
  (api/tunnel.rs:69-71). A burst asleep in its backoff does not look at the
  intent again and dials once more.
* `provisioner_rollback`: rollback removes "ONLY the objects this run created"
  (routeros/provisioner.rs:140-142). It removes all objects of the kinds whose
  step succeeded; a step that finds its object in place succeeds. A re-run that
  fails late removes the working layout, kill-switch included.

### Known not to hold

The models show these when a restriction named here is lifted, or they were met
while writing a definition.

Tunnel, supervisor, router:

* `connecting` sticks (tunnel.rs:266-269 promises otherwise) in two ways: the
  future of a call is dropped and the branch that resets the status does not run;
  or `start_tunnel` writes `connecting` last (tunnel.rs:455), over the end of a tunnel
  that has come and gone. `OnlyTheseStick` shows that these are all. Over a tunnel
  that is up the same write hides the `connected` (`Retract` in `Lifecycle`);
* a future dropped at tunnel.rs:348, between the spawn of the run loop (336) and
  its tracking (449), leaves a run loop no disconnect can end.
  `OnlyADropOrphans` shows that it is the one place;
* a challenge that overlaps a disconnect may store a session after it.
  `CleanDisconnect` is checked and proved for one caller;
* log lines share the broadcast channel of 256 events (main.rs:56). A supervisor
  that falls behind gets `Lagged` and goes on to the next event without a look at the
  status (supervisor.rs:212): a drop among the lost events is followed up by nobody;
* the intent is saved in two calls, the profile and the switch (api/tunnel.rs:38-42,
  72-73): a request that ends between them leaves half of an intent;
* nothing limits the calls on the gateway that are awaited under the connector
  mutex (tunnel.rs:469-472), so a silent gateway holds up every later call; only
  the disconnect of a shutdown has a cap (main.rs:225-227). Hence the premise of
  `CallsReturn`;
* a handler that has failed (tunnel.rs:380) leaves its tunnel's run loop going, and
  the next connect starts another beside it ("so we don't leak tasks",
  tunnel.rs:199-200);
* an event handler past its check of `disconnect_initiated` may write the status
  during a disconnect ("it owns the status transition", tunnel.rs:358-359);
* a burst does not look at the status before it dials, and `connect` does not
  refuse a status of `mfa`: it dials over the gate that Hold means to "leave
  alone" (supervisor.rs:36, 240);
* a burst that failed before an explicit connect may suspend the supervisor after
  it (supervisor.rs:254);
* the default route exists "only while the tunnel is up" (README.md:127), but if
  the tunnel drops and dials again before the reconciler reads the status, it
  sees `connecting`, which is no reason to act (reconciler.rs:239). A setup
  creates the route whatever the tunnel does, and a restarted process leaves the
  old one until the first status event;
* two setups at once create duplicates, and a setup beside a teardown can end
  with marks but no kill-switch, both reporting success; a two-object step that fails
  half-way leaves its first object behind the rollback;
* the pass the reconciler is in when a shutdown begins may add the MASQUERADE
  rule after the cleanup has removed it.

Accounts:

* two requests can both find the session of one refresh token and both get a
  pair (auth.rs:178-196): the session's row is looked up and deleted in two calls.
  The specification allows it, and no property rules it out;
* a login or refresh in flight across a change of role or of password issues a
  token with what it had read (auth.rs:226), which is what `overtaken` excludes;
  a rehash (auth.rs:166) in flight can write the old password back;
* entries of the generation cache may be written out of order; the TTL bounds
  what that does (`RevokedWithinTtl`);
* failed attempts are counted in several calls, so as many wrong passwords as
  there are requests may go past the limit (`LockoutHolds` has that margin);
* a request that has read an expired lock lifts whatever lock stands by the time it
  resets the counter (db.rs:575), a new one included, although two requests
  that see one expired lock are what the comment at api/auth.rs:74-75 guards against.

Server and its data:

* a RouterOS client built before a change may be stored after it (state.rs:180);
  a save that fails leaves the changed configuration in memory and the old client
  in the cache (api/config.rs:239); and a request dropped while it waits to
  invalidate the client (api/config.rs:245, state.rs:195) leaves the old one with the
  change in force: the three `excused` cases;
* `update_config` does not validate (api/config.rs:136-238): it may save a file that
  the next start refuses (config.rs:216, 262-277);
* the file is written in place (config.rs:295, 308), so an error or a crash may leave
  it torn or cut short. If what is left parses, the next save answers "ok" and
  writes into it only the fields it knows: the two `allow_plaintext_*` opt-ins, which
  the API cannot change, are lost;
* a secret that a client sends already wrapped as `__enc` is stored as sent, not
  sealed (db_secrets.rs:53-57); `Profiles` has clients that send plain secrets;
* updates and uploads of one profile may lose each other's changes, and an upload
  may bring back a `no_cert_check` that was taken out meanwhile; a mask `***` is
  stored as a secret if the secret it stood for is gone (profiles.rs:183-201);
* without TLS, the graceful shutdown waits for open event streams without a cap
  (main.rs:163-172), and a failed bind exits past `run_shutdown_actions`;
* the log history filters after it has taken the last lines, by exact level,
  while the window filters by "at least".

Clients:

* "only one exchange happens per expiry" (client/api.rs:133-137) fails for a
  request that puts the old token in its header before a renewal and reads the
  token to compare after it: its 401 starts a second exchange. Neither presents a
  spent token;
* ctl and the desktop client share one keyring entry: either may spend what the
  other has stored, and a ctl logout is undone by the desktop client's next
  renewal. Two spawned saves may overtake each other, which is one of the
  `faults`;
* `client.toml` has no lock, so a change by one program is lost to a save by the
  other, and ctl's save drops `insecure`. The dialog for a new server adds
  it before the login it offers has succeeded;
* every login starts another poller; after a connect that failed, the tray may show
  `Error` or `Connecting` for as long as the polled state does not change ("Single
  source of truth for tunnel status", client/main.rs:458). This is why
  `StatusEventuallyTrue` speaks of a tray last told by a poller;
* a failed poll during a challenge asks for the code again; a challenge that
  follows another without a state between is not asked for;
* deleting the first profile leaves its form under the next profile's id, and a
  save then writes it there: `EditsStayWithTheirProfile` excepts it (`stale`).
  A delete removes the row that is selected when the answer comes, a save marks
  edits made meanwhile as saved, a rename may drop them;
* the dialogs do not remember for which row they were opened. A certificate file
  is written into the form shown when the dialog closes (client/settings.rs:1215-1242):
  if the answer to a create or a delete has loaded another profile's form meanwhile,
  a save puts it there, which `EditsStayWithTheirProfile` excepts too. A name
  goes to the row then selected (779-803; `ListsAgree` excepts it as
  `misnamed`), and so does a deletion (702-712);
* no request of the desktop client has a time limit (client/api.rs:92-95): a server
  that accepts and never answers keeps `refresh_lock`, a button or the poller
  waiting for good. Hence the premises of the liveness properties;
* the servers window deletes at the position the dialog captured
  (client/windows/servers.rs:310): after another deletion that may be another server.
  `RemovalKeepsChoice` is about the active one only and holds all the same;
* saving a profile drops keys the form does not show, clamps numbers and makes
  an unknown choice the first one: `FormKeepsMeaning` names those kinds of
  fields in `KnownToChange`;
* a reload beside another reload or an addition may show an entry twice, or one
  that was deleted meanwhile (client/windows/users.rs says it "cannot spawn racing
  tasks"); `NothingMissing` is the half that holds;
* after a reconnect the log window has a gap that nothing fills.

## 6. What is proved

For every value of the constants, under the named ASSUMEs only: sizes are
natural numbers, the markers for "no value" are no values, the sets of handlers
and of profiles, which are counted, are finite, the width of an address is a
number, the form's default lies in the form's range, and for `DataPlane` the first
process finds none of its default routes.
Where a property holds only in a setting, the theorem names it as its hypothesis
and the run that checks it has the same: callers that only connect
(`Ops = {"connect"}`), one caller that
stays to the end (`HangUps = {}`), one request at a time (`Runs = {r}`, or
`Runs = {r, Rec}` beside the reconciler). "Known not to hold" says what happens
outside it.

* `TunnelManagerProofs`: `TypeCorrect`, `MutexCorrect`, `OnlyThatDropOrphans`,
  `OnlyTheseStickConnecting`, for any calls, hang-ups and early reports. The types
  alone are not inductive: that `Track` puts a tunnel in the task list
  needs that a call at `tracking` names one (`StarterOK`). `MutexHeld` is then
  inductive, action by action, and the two about what may go wrong are action
  properties: `OrphanStep` goes through every way a tunnel leaves the hands of the
  call that starts it; `CallSticks` and `HandlerSticks` show that every step but the two
  leaves somebody who will move a status of `connecting`: the attempt that
  claimed it (`DialersConnect`), a disconnect under way, or a handler that is
  neither aborted nor told to keep quiet by the flag.
  `OneDial`, for callers that only connect: the check at the top of `connect` is
  not enough by itself; `OneDialInv` adds that a handler which may still write the
  status exists only under a status that makes the check refuse, that there is one
  at most, and none while a call dials. On it rest `ConnectedStaysWatched`
  (`WatchedInv`: nobody silences a handler, and under `connected` one may still
  write) and the refinement `ConnectImplementsLifecycle`, in which the last write of
  `start_tunnel` is an attempt again, nothing, or the `Retract`, according to what its
  tunnel has reported by then. `DisconnectIsClean` is for one caller: `Clearing`
  follows a disconnect from statement to statement.
* `SupervisorProofs`: `GiveUpCorrect` (`StreakInv` ties the history counter to
  the burst's counter and to the latch), `SuspensionIsRespected`,
  `ControlPlaneTypes`, and `ManagerStaysCorrect`, which carries `MutexHeld`,
  `OnlyADropOrphans` and `OnlyTheseStick` over to the composition: a step of
  `Supervisor` is a step of the manager, or takes or loses an event, or leaves the
  manager alone. In the same way
  `SupervisedDialsExclude` and `SupervisedImplementsLifecycle` carry `OneDialInv`,
  `WatchedInv` and the refinement of `Lifecycle` over: the supervisor is one more
  caller that only connects, so they hold where the API only connects too.
  `OnlyTheseForget` is what safety has to say of `DropIsFollowedUp`: while a tunnel
  is wanted and at rest, somebody has it in mind (`NotForgotten`: the supervisor
  is busy or has something to hear, or a request is going to connect), unless a
  read of the intent fails, a connect's request ends before it has saved all of
  the intent, a handler is aborted between its write of the status and its
  broadcast (tunnel.rs:357-376), or log lines push the event out of the channel. The
  lemma about the manager is that whoever writes a status at rest still has the event
  to send (`Told`). `NobodyIsForgotten` needs no hypothesis: in every state somebody
  has the tunnel in mind or one of the four steps has been recorded in `forgot`
  (`ForgettingIsRecorded`), which only a later look of the supervisor clears.
* `ProvisionerProofs`: `ProvTypeCorrect` and `EntriesSurvive`. The invariant
  `ProvInv` says what a run's place in its operation means for the rest of its
  state (`RunOK`) and that what it has listed for deletion is an operator's only in
  a teardown or a removal (`DoomedOK`). The heart is `TargetsFacts`: a rollback
  lists the kinds of steps before the failed one, so the failed one must be a step
  (`RunOK`), and no step is of an operator's kind (`StepFacts`). `OneRun` reduces
  each action to the run that takes it. `ReportsAreTrue` is for one request at a
  time, on a router where setup's objects lie on their paths and none twice: that
  stays so (`Where`, `Twinless`, but for the steps that are `spared`: none here, the
  default route beside the reconciler), because what is being created is not there
  (`CreateHolds`) and two steps, or two items of one, cannot be taken for each
  other (`StepsApart`); setup has got through the steps before its own
  (`SetupHolds`); and teardown has left nothing of ours on the paths behind it, nor
  on its own but what it is about to delete (`TeardownHolds`).
* `DataPlaneProofs`: `PlaneIsTyped`, `ReconcilerFailsClosed` and
  `ReconcilerEngages`. Neither property is inductive, since both speak only of a
  reconciler at rest. `Fits` says it for the pass under way: while no event is
  unread, the pass is the one for the present status, and each part it has gone
  past is settled or counted in `undone`. That a listed route is a route
  (`RoutesAreRoutes`) makes the listing it deletes from complete; the types and
  the run invariants of `ProvisionerProofs` are used throughout, for the reconciler
  is a run of the provisioner. And the other way round: beside the reconciler the
  provisioner's promises hold, `EntriesOutliveThePlane` (the reconciler dooms
  default routes only, `RecDooms`, and changes nothing else, `RoutesOnly`) and, for
  one API request beside it, `ReportsAreTrueBesideThePlane`, of every object of the
  layout but the default route, which is the reconciler's to add and remove.
* `AccountsProofs`: `AnAdminRemains`, `TokensSpeakTrue`, `RevocationIsObeyed` and
  `PairsObeyTheAuthority` (a refinement). `IssuesTruth` says of each handler that is
  going to issue a token that it has read what is still true of the account, or
  was overtaken, or holds a generation that is no longer the account's: the
  order in which `issue_tokens` reads is what makes it so. For the TTL,
  `CachesTruth` and `CacheIsTimely`: an entry of the cache, or a handler about to
  write one, has a generation that had not ended when it was read. `LockoutIsKept`
  counts: a locked account's failures and the requests that have yet to report one
  for it are together below `MaxAttempts + Cardinality(Handlers)`
  (`GuessesAreCounted`); the bound by itself is not inductive. That only a right
  password or a request which read another, expired lock lifts one before its time
  needs that what a request is about to reset had expired when it read it
  (`ReadExpired`). `TrustIsKept` is
  arithmetic, for any width and prefix: the mask of a prefix has the leading bits
  and no other (`MaskBits`), addresses that agree on these lie in one block
  (`SharedBits`), and so `cidr_contains` finds in a block what lies in it
  (`ContainedIsInBlock`). The provers know nothing of `2^n` but its values; that it
  is positive and doubles comes from counting subsets (`FS_SUBSET`), and the
  inductions are on sets of numbers (`AllNumbers`), since a set, unlike an
  operator, can be instantiated.
* `ServerProcessProofs`: `RowsStayReadable`, `PolicyIsKept` and
  `MigrationsAreNotRepeated`. The conjuncts of the invariant: past the canary the
  process's key opens every sealed row, a lax profile is remembered by `everLax`,
  and of the migrations after its version the database has seen the statements
  only of those that may be repeated.
* `ClientTokensProofs`: `TokensAreTyped` and `OnePresentation`. Whoever holds the
  lock has spent nothing or has the next token in hand, and while the lock is free
  the token to be presented has not been exchanged (`RenewalRules`); attempts left and
  codes submitted never exceed `MAX_MFA_ATTEMPTS` (`AttemptRules`). `KeyringIsAlive`
  needs that a token which waits to be saved has one holder, which saves it once
  and after all older ones (`OneHolder`), and that, as long as nothing went wrong,
  the last of them has its session (`SessionKept`). `RenewalsDoNotCross`: whoever
  holds `refresh_lock` waits for the answer to an exchange of the pair the client
  still has, and the answer, if there is one, is newer; hence `TokensOnlyGrowNewer`.
* `ProgramProofs`, the parts that share no state:
  * `SettingsSurvive` and `ClientStaysCurrent`: until a write has stopped half-way
    in a document that parses, what the API cannot change is in memory as it is on
    disk (`OnDisk`), so that a merge into the document, or into one that is torn,
    loses nothing (`MergeKeepsAll`). The client is current but for the three cases
    recorded.
  * `ChoiceSurvivesRemoval`: an action property; its lemmas say where the entries
    of a sequence go when one is removed, and that the position found by name is
    the first of that name. `ActiveServerIsListed`: in the file and in every copy
    the active server is one of the list or none (`SoundLists`).
  * `EditsStay`, but for the two cases `stale` records, at whatever answers come while
    a dialog is open: a task carries the form it was started with, and its profile
    (`OwnSettings`, `TasksHold`); and the profiles with a row or about to be
    deleted from this window are never more than the rows (`EnoughRows`): an answer
    may remove another row than its own, but always finds one.
  * `EveryEntryIsShown`: an entry without a row is in the hands of a task that has
    yet to list or append it (`OnItsWay`). `NoButtonIsStranded`: a button that is
    insensitive belongs to a task that has yet to end.
  * `AgreedAnswerIsShown`: once all pollers have seen the same state, the status
    window shows it, and so does the tray unless a click spoke after them. The
    state shown is always vouched for (`Vouched`): a poller has it as the last it
    saw, or some poller is about to tell another.
  * `SavingKeepsMeaning`: what `parse_comma_list` keeps has no empty entry
    (`ParsedIsClean`), and a list without one is kept as it is (`CleanIsKept`), by
    induction on the entries gone through; the other kinds are a case each.
  * `LogIsAccountedFor`: the ring is the end of the sequence of kept lines, turned
    by `writePos` (`RingHolds`), and what an open stream has gone past without
    delivering is counted (`StreamsHold`).

The largest of these invariants (`AloneInv`, `WindowInv`, `OneHolder` with
`SessionKept`, those of the `programs` subjects) were checked by TLC on their runs'
instances before they were proved.

Model-checked only:

* liveness, which is out of this prover's reach: `CallsReturn`, `DropIsFollowedUp`
  and the properties of `programs_live`. Of four of them the part that could be
  lost, somebody who will do it, is proved: `OnlyTheseForget` and
  `NobodyIsForgotten` for `DropIsFollowedUp`, `NoButtonIsStranded` for
  `ButtonsComeBack`, `AgreedAnswerIsShown` for `StatusEventuallyTrue`,
  `RenewalsDoNotCross` for `EachRequestGetsItsTurn`; that it is done rests on
  fairness;
* `ContractHolds`, a table: it is evaluated in full for each role, route and command,
  and has no parameter, so that a proof would repeat TLC's enumeration;
* `DisconnectIsFinal` and `RollbackOwnObjects`, which the code violates.

## 7. What is not modelled

* Look and surroundings of the desktop client: theme, assets, toasts, D-Bus
  name, menus, the sections of the settings window for servers and appearance,
  setup dialogs. They keep no state that another part reads.
* Of the log window: levels, search, the history it loads beside the stream. Of
  the users window: the row's password reset.
* Of the server: the login rate limiter, signing of tokens, hashing of passwords,
  the files of an upload, log levels, health, the wording and status codes of errors,
  the guard on `server-info` addresses, `ip_forward` and the arguments of
  netfilter commands, the read-only handlers beyond their routes and permissions.
* Provisioning at boot is not composed with the supervisor.
* snxcore is a submodule whose source is not part of the repository: what
  the manager expects of it is in `Dial`, `CreateTunnel`, `Terminated`, `Answered`,
  `Report` and `Exit`.
