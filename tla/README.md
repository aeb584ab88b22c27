# obfmesh-server: a TLA+ verification project

obfmesh-server is the control plane of a mesh of obfuscated WireGuard tunnels. It keeps its wanted
state in one SQLite file and brings a machine to it: up to ten *spokes*, each a WireGuard interface
`swg{i}` and a `wg-obfuscator` process listening at `port_base + i`, the peers of the clients on
them, firewall rules, and the *bundle* every client downloads to configure its own half. It is
some 3900 lines of Python and a browser panel of 1260 lines of JavaScript. The client half
(OpenWrt packages) is described in SPEC.md and is not in the repository.

## 1. Inventory

| component | state | operations | who else touches that state |
|---|---|---|---|
| obfuscator processes (`orchestrator.py`) | `_procs`, `_backoff`; `/run/obfmesh/obf{i}.pid`, `/etc/obfmesh/obf{i}.conf`; the live processes | `reconcile()`, `_check_processes()`, `teardown_processes()`, `shutdown()` | a second `Orchestrator` in `obfmesh-ctl`; processes die and survive by themselves; reboot |
| interfaces and peers (`orchestrator.py`, `wg.py`) | kernel links, addresses, WireGuard peers | `_reconcile_interface`, `_reconcile_peers`, `_teardown_spoke`, `teardown --interfaces` | reboot; the administrator |
| firewall (`orchestrator.py`) | iptables rules; the journal `input-ports.tab` | `_reconcile_nat` | reboot, firewall reloads |
| store (`db.py`, `models.py`) | settings row with `config_version`, spokes, clients, client keys | one transaction per method; migrations | API threads, supervisor thread, `obfmesh-ctl` |
| bundles (`config_gen.py`) | none: three reads of the store | `build_bundle` | every writer of the store |
| API (`api.py`) | `_APPLY_LOCK`, `EventBroker` | PATCH settings, POST/DELETE client, status, bundle, events | event loop and worker threads |
| events (`api.py`, `db.py`) | condition variable, watcher's version, one queue per reader | `wait_for_change`, `watch_config_version`, `_event_stream` | every writer of `config_version` |
| life cycle (`app.py`, `cli.py`, the systemd unit) | supervisor thread, watcher task | start, stop, restart, `obfmesh-ctl` | systemd |
| authentication (`auth.py`) | admin key file and its cached stat | `AdminKeyStore.current`, `require_*` | whoever edits the file |
| web panel (`static/app.js`) | timers, one event stream, form state | poll, SSE, save, log in and out | the server, other tabs |
| command wrappers (`wg.py`) | none | runs `ip`, `wg`, `iptables`; X25519 | — |
| packaging (`install.sh`, `packaging/deb`) | files on disk | install, upgrade, remove | — |

**How they interact.** An API request commits its change to the store and then runs `reconcile()`
in a worker thread, both under `_APPLY_LOCK`. The supervisor thread ticks every two seconds
(`_check_processes`) and runs `reconcile()` periodically; it holds the orchestrator's `RLock`, not
`_APPLY_LOCK`, so a request can commit while a supervisor pass is under way and the pass does not
see it. `obfmesh-ctl` is another process with an orchestrator of its own: files, processes, kernel
and store are shared with the service, no lock is. Every commit that changes a bundle raises
`config_version`; a condition variable wakes the watcher, the watcher waits for `_APPLY_LOCK` and
publishes to the queues of the connected readers.

**What is hard.** Obfuscators outlive the service by design (`KillMode=process`,
`start_new_session`) and are found again by pid file, so every order of crash, restart, death, pid
reuse, failed step and second manager matters. A pass works on a snapshot of the settings and must
not give up on a spoke because another one failed. Decisions are taken from a value returned by an
earlier step (was the file rewritten, did the row change) and are forgotten in a crash between the
two. Notifications are check-then-wait and repaired by a time-out. A bundle is put together from
several transactions.

**What makes each component correct.**
- Processes: none is lost, no spoke has two, none runs an old config, none is ended without a
  reason, and passes converge to the settings.
- Interfaces and peers: no address on two peers or two spokes, a removed client is gone from every
  interface, a failure of one spoke leaves the others served, passes converge.
- Firewall: exactly the ports of the wanted spokes are open once passes go through.
- Store and bundles: slots and addresses unique, keys never regenerated; two bundles that differ
  end up with different versions, so that a client that compares versions notices.
- Events: whoever stays connected is told of the last change, after it has been applied.
- Life cycle: a database of any release ends at this one, whole, whoever else opens it; the
  service comes to serve; a stop that is gone through leaves what the unit says.
- Authentication: no request is compared with a key that was gone before it.
- Web panel: what the settings form offers to apply is what its user has edited, or a notice says
  that the server has moved; no answer takes away what was typed; the panel ends with the settings
  of the server. It has one stream, none behind the log-in screen; a log-in keeps the key it tries,
  whatever an ended session is answered late, and left alone the panel works or asks for a key.

`PROJECT.json` lists every component with its status, and under `hazards` the places of the code
where an order of events nobody tests for can bite.

## 2. Modules

| module | code | composed of |
|---|---|---|
| `Obfuscators` | `orchestrator.py`: files, processes, supervisor, teardown; `cli.py` | `SpokeService` |
| `SpokeService` | abstract: what the orchestrator promises of the processes | — |
| `Store` | `db.py`, the transactions as operators | — |
| `Bundles` | `config_gen.py`, `db.py`, the store half of `reconcile()`; the client that compares versions | `Store` |
| `Mesh` | `orchestrator.py` and `wg.py`: interfaces, addresses, peers; `_APPLY_LOCK` and answers in `api.py` | `Store` |
| `Numbering` | `models.py`: addresses, ports, validation of numbers, as functions | — |
| `Firewall` | `_reconcile_nat` with its journal and commands | `Numbering` |
| `Events` | `wait_for_change`, `watch_config_version`, `EventBroker`, `_event_stream` | `VersionFeed` |
| `VersionFeed` | abstract: what `GET /api/events` promises | — |
| `Migrations` | `Database.init()` | — |
| `Lifecycle` | `app.py`, the unit, the supervisor thread, the RLock, `status()` | `Migrations` |
| `AdminKey` | `auth.py`: `AdminKeyStore` | — |
| `Session` | `static/app.js`: boot, log-in, stream, poll | — |
| `PanelForm` | `static/app.js`: settings, form, conflict notice, PATCH | — |
| `Obfuscators_proofs`, `Mesh_proofs`, `Bundles_proofs`, `Events_proofs`, `Session_proofs`, `PanelForm_proofs` | theorems about the module of that name | that module |
| `Firewall_proofs` | theorems about `Firewall` and `Numbering` | `Firewall` |
| `Lifecycle_proofs` | theorems about `Migrations`, `Lifecycle` and `AdminKey` | `Lifecycle`, `AdminKey` |

`MC<module>` instantiates a module for TLC; `MC<module>_<run>.cfg` gives the constants their values.
`map` in `PROJECT.json` says for every definition which lines it stands for.

### Obfuscators

A manager is an operating-system process with an `Orchestrator` in it: the service (`Svc`) or an
`obfmesh-ctl` (`Clis`). Inside a manager the `RLock` serialises passes, so a manager has one control
state: `pc` (where), `mode` (which pass), `cur` (at which spoke), `snap` (the settings read at its
start), `chg` (the return value of the config write), `new` (the `Popen` not yet entered in
`_procs`). Between managers nothing is locked. The machine they share is `proc` (live processes by
pid), `pidfile` and `conffile`.

| action | code |
|---|---|
| `WriteConfig`, `Look` | `_reconcile_obfuscator`: write the file, adopt, leave alone or restart or start |
| `TearDown`, `Clear` | `_teardown_spoke`, `teardown_processes` |
| `CheckSpoke` | one turn of the loop of `_check_processes` |
| `Stop`, `Unlink` | `_stop_obfuscator`: SIGTERM, wait, SIGKILL; then the pid file |
| `StartAdopts`, `Spawn`, `Settle`, `Record` | `_start_obfuscator`: adopt, `Popen`, the pause, the pid file |
| `SpokeFails`, `StartFails`, `RecordFails`, `SettingsUnavailable` | the exceptions `RECOVERABLE` names and the early returns |
| `ComeUp`, `Die` | the obfuscator binds its port and loads its file, or dies |
| `Crash`, `Reboot`, `StartService`, `Shutdown`, `RunReconcile`, `RunTeardown` | systemd and `cli.py` |

A step of a pass ends where another process could tell: after each file operation, signal and spawn.
The interface, peer and firewall steps in front of the obfuscator are the one fact that they may
fail (`SpokeFails`); `Mesh` and `Firewall` have them. Restarts after a death wait for a pause of the
backoff (`waiting`), whose length is left out.

### Store, Bundles, Mesh

Every method of `Database` is one `BEGIN IMMEDIATE` transaction, hence one operator of `Store`, used
as one step by whoever calls it. `Bundles` follows `config_version` and the flag `bundle_touched`
through a pass and gives `build_bundle` its three separate reads. `Mesh` follows one pass over rows,
interfaces, addresses, keys and peers, one command to a step, against requests that hold
`_APPLY_LOCK` and periodic passes that do not: `req` and `what` say how far the request is,
`answer` what it was told.

### Firewall, Events, PanelForm

`Firewall` counts the ACCEPT rules per port (a failed `iptables -C` may double one), the base rules
and the journal. `Events` has the writers, the queue of waiters of `_APPLY_LOCK` (an `asyncio.Lock`
is fair), the watcher with the gap between its check and its wait, and one queue of depth 1 per
reader. `PanelForm` has several GETs under way whose answers arrive in any order, one PATCH, the
form and its conflict notice. The inputs are disabled while the PATCH is under way (`Busy`), but
`onFormInput()` enables the two buttons that step the spokes again (`loose`), so that this field can be
edited then too (`Type`).

### Migrations and Lifecycle

`Migrations` takes `Database.init()` apart as SQLite sees it: the version read outside any
transaction, `BEGIN IMMEDIATE`, the version read again under the lock, the statements one by one,
`PRAGMA user_version`, the commit; then the settings row. `db` is what is committed, `tx` what the
holder of the write lock (`writer`) will commit; a process that is killed loses its transaction.
`Lifecycle` extends it with the threads of the service: the main one goes through the lifespan
(`life`), next to the supervisor (`sup`), a request (`req`), a status request (`status`) and readers of the
event stream (`streams`). `rlock` is `Orchestrator._lock`. A pass is where it takes the lock, whether it
may start obfuscators, and where it releases it. `ended` says how the last run ended: "clean", "late"
(the supervisor was not joined in four seconds), or "cut" (no shutdown). `starts` counts the starts in
the present interval of systemd's start limit (`StartLimitBurst`): when it is used up the next one is
refused and the unit stays `failed` until somebody starts it (`StartRefused`, `StartUnit`).

### AdminKey and Session

`AdminKey` has one label per step of `_from_file()` for each request, because requests run on worker
threads and share the cache alone: stat, look at the cache under the lock, read the file, fill the
cache under the lock, and return *what is then in the cache*. `Session` takes from it what
`NoOldKey` proves: a request is checked against some key the file has had since no request was under
way (`recent`). Its requests carry the key they were sent with (`req[c].key`), so that one of an ended
session can be turned down in the next.

| action of `Session` | code |
|---|---|
| `Boot`, `Opens`, `Login`, `LoggedIn`, `NotLoggedIn` | `boot()`, the submit handler of the gate |
| `AuthLost`, `Logout` (`EndSession`) | `onAuthLost()`, the log-out button |
| `Answered`, `Started` | `refreshAll()` inside `start()`, then `startSse()` and `startPolling()` |
| `StreamOpens`, `StreamFails`, `StreamEnds`, `Reconnect` | `sseConnect()`, `pump()`, `scheduleReconnect()` and its timer |
| `Ask`, `Reload`, `Forgotten` | the poll and the other reasons to ask; the page; the server's end of what was aborted |
| `Rotate`, `Switch` | the key file is edited; the server, the way to it or its key goes or comes |

### History variables

Some properties are about something that went wrong earlier and was not made good. Such a fact is a
variable the program does not have; no guard reads it.
- `Bundles.lost`: a pass that had changed bundles was cut off, and the version was not raised since.
- `Firewall.torn`, `flushed`: a step failed or was killed between rules and journal, or the journal could
  not be read; somebody removed rules since the pass began.
- `PanelForm.edited`, `merged`, `behind`: the fields the user has touched; a PATCH answer brought in
  changes of others; an answer was lost or overtaken by an older one. (`Reset`, `TakeServer` and
  `FillForm` empty `edited` where the code empties the form's own edits.)
- `Lifecycle.harmed`: the service has been stopped, killed or met a failure of SQLite since the first
  start of the interval.
- `Session.astray`: a stream was started behind the log-in screen or next to another.
- `AdminKey.since`, `used`, `back`: the keys the file has had since no request was under way, the
  stamps it has had, and whether it came back to one of them. `Session.recent` is `since`.
- `Lifecycle.ended`: how the last run of the service ended.
- `Mesh.answer`: what the last request was told, which the program sends and forgets.

## 3. Runs

| run | instance | what it shows |
|---|---|---|
| `obf_service` | 2 spokes, 3 pids, port bases 0 and 1, two binaries, one `obfmesh-ctl` while the service is stopped; crashes everywhere but in the two windows below; failures | `Reachable`, `FreshConfig`, `TeardownLeavesNothing`, `StopJustified`, `ServesSpokes` (hence one process to a spoke) |
| `obf_live` | the service alone, failures from the start of a process to its pid file, fairness | `Reachable`, `AtMostOne`, `Converges` |
| `obf_ctl_overlap` | `obfmesh-ctl reconcile` next to the service | `SupervisorStartsMissing` is violated |
| `bundles` | 2 spokes, 1 name, 2 ids, versions up to 3, failures and crashes anywhere | `SameVersionSameBundle`, `OldBundleWorks`, `CatchesUp` |
| `bundle_lost_bump` | versions up to 4 | `UpToDate` without its premise is violated |
| `mesh_service` | 2 spokes, 2 clients over 2 slots, interfaces of an earlier release, reported failures, crashes, reboots | `FailureContained`, `OkIsApplied`, `WorkingSpokesUntouched` |
| `mesh_live` | 1 slot, unreported failure of `wg show`, fairness | `MeshConverges` |
| `events` | 2 requests, 2 readers, versions up to 4, restarts | `PublishedIsApplied`, `QueueIsNews`, `FollowsFeed`, `LastVersionTold` |
| `firewall` | up to 3 spokes, bases 1024 and 1025, failures of every command and of the journal | `WantedOpen`, `WantedStaysOpen`, `NothingForgotten`, `PortsOpen` |
| `lifecycle` | the service and one `obfmesh-ctl`, files of every release and a newer one, one reader, `OBFMESH_STOP_PROCESSES=1`, 2 starts to an interval, fairness | `SchemaIsVersion`, `NobodyClashes`, `SettingsOnce`, `Serves`, `StopLeavesNothing`, `StatusAnswered` |
| `session` | 2 requests and 2 streams at once, 2 keys, fairness | `OneStream`, `LogInHolds`, `Settles` |
| `panel_form` | 2 fields of 2 values, a GET and the one after a PATCH | `NoSilentRevert`, `EditsKept`, `Shown` |

**Why the bounds are enough.** Two spokes are the least that have a neighbour, a failing and a
working one, and a wanted and an unwanted one; the loops treat a spoke by its number and the number
of spokes alone. Port bases 0 and 1 make the port of spoke 1 under one base that of spoke 2 under
the other, the only way a port ties two spokes together; in `firewall` bases 1024 and 1025 with
one to three spokes give settings whose ports are the same but one, contain each other, or are disjoint. Three pids are two spokes and the survivor of one restart; pids are reused, also for the other spoke.
A failure before the spoke is touched leaves a pass undone in whole or in part, as the crashes
between spokes do that `obf_live` has too; `obf_service` has those failures themselves. Two clients with
one slot, and two slots, give a slot that changes hands and one that does not. Version bounds stop
only *requests*: passes may raise the version further in `Bundles`, and a request, a pass of its own
and one of the supervisor fit under 4 in `Events`. A queue of depth 1 needs two versions beyond the
one told. Two processes are the least that race for the write lock; the three
migrations have two, two and one statements, the least with a kill between two of them. Two streams are one and a
second that waits to reconnect; two requests are one of an ended session and one of the next; two keys
are the old and the new. Two fields are one the user edits and one somebody else changes.

**Symmetry** is used in runs that check safety alone (`Pids`, `Ids`); `Names` and `Values` could be
permuted but are two at most. Action properties are quantified over the permuted sets, so they are
symmetric too. No run with a liveness property uses symmetry.

**Deadlock** is checked in every run.

**Fairness and what justifies it.** The unit has `Restart=always`, but also `StartLimitBurst=10` in
`StartLimitIntervalSec=60` with `RestartSec=3`: a service that dies quickly ten times is not started
again. `Lifecycle` has this limit (2 in TLC instead of 10: one start that is disturbed and one more): systemd
starts the unit or gives it up, and the interval ends, weakly fair both. `Obfuscators`, `Bundles`,
`Mesh` and `Firewall` assume that the limit is not hit, so that there `StartService` (in `Firewall` part of
`BeginPass`) is weakly fair: `Converges`, `CatchesUp`, `MeshConverges` and `PortsOpen` are about what the
passes of a running service do. They also assume that `OBFMESH_RECONCILE_INTERVAL` is not 0, which
would switch the periodic pass off; by default it is 300 seconds. A pass goes on: every command, SQLite transaction and wait in it
has a time limit, hence weak fairness of each step. `BeginReconcile` and `BeginCheck`, and in `Mesh` and `Bundles`
`RequestPass` and `PeriodicPass`, compete for one lock whose holder releases it between passes and,
in the supervisor, sleeps for two seconds; each is enabled again and again, never without end, so
they are strongly fair: the lock is assumed not to starve a waiter for ever. A process that is
starting binds or exits, a pause of the backoff ends, a wait with a timeout times out, a client goes
on polling (`ReadClient`; strong, for its request may be cut off by a restart). In `Lifecycle`
threads go on and whoever waits for the RLock, or for SQLite's write lock behind its busy handler, gets
it in the end (strong: it is free again and again, as above). In `PanelForm` and `Session`
timers fire and requests are answered or fail; a poll that finds as many requests under way as the
model has comes again (strong). The poll asks only while the page is visible (`app.js:993`): the strong fairness of `Ask`
is that of a page that is shown again and again, and `Settles` says nothing of one that stays hidden.
That the server is reached, and that there are moments without a request under way, is a premise of `Settles`. Nothing obliges a reader to hang up, so the service need not stop. Nobody is ever obliged to ask for something, to
connect, to fail or to recover: the liveness properties say what holds *once nothing disturbs the
system* (`<>[][~Disturb]_vars`), from whatever state the disturbances have left.

**Mutants.** For each property of a passing run `PROJECT.json` names a change of one mapped
definition, of the kind a slip in the code would be, which breaks the property under the run's own
configuration: the definition is shadowed by the operator next to it whose comment begins with
`Mutant:`.

## 4. Proofs

Every invariant and every action property the passing runs check is also a theorem, for all values of
the constants; what the runs alone show is liveness. Some theorems have a premise on constants, which
excludes failures or kills the code does not survive (section 5); it is named with the theorem.

`Obfuscators_proofs` proves, for any number of spokes, configurations, port bases, pids and
`obfmesh-ctl` processes:

| theorem | assumption | statement |
|---|---|---|
| `TypeCorrect` | — | `Spec => []TypeOK` |
| `NothingLost` | `Sheltered` | `Spec => []Reachable` |
| `NeverTwo` | `Sheltered` | `Spec => []AtMostOne` |
| `ImplementsService` | `Sheltered` | `Spec => Service!Spec`: a refinement of `SpokeService` |
| `TornDown` | `Sheltered` | `Spec => []TeardownLeavesNothing` |
| `ConfigIsFresh` | `Guarded` | `Spec => []FreshConfig` |
| `StopsAreJustified` | `Guarded` | `Spec => StopJustified` |
| `SupervisorIsRight` | `Sheltered` | `Spec => SupervisorStartsMissing` |

*Types.* `TypeOK` is not inductive: a pass of kind "check" loops up to `snap.n`, so `cur` stays a
spoke number only because such a pass has read its settings. `TypeInv` adds that as `PassReads`.

*Processes.* `Reachable` and `AtMostOne` are not inductive either. `Reachable` counts the memory of
managers, which a crash empties, so it survives a crash only if the pid files alone name every
process; `AtMostOne` depends on nothing being alive where a pass is about to spawn. `ProcInv` says so:
- `Solo`, `DownForgets`: at most one manager is up, and one that is down remembers nothing;
- `Named`: every live process is named by the pid file of its spoke, or is being started: it is
  the `Popen` of a manager in its pause, or about to be recorded;
- `OnFile`: what a manager tracks is on file, and if it lives, it is of that spoke, so that no
  reused pid sits in `_procs`;
- `Vacant`: no process lives on the spoke a pass is about to start, and its pid file is empty from
  the decision to spawn until it is recorded;
- `Settling`: the `Popen` that is waited for is of the spoke the pass is at.

Two processes of one spoke would both be named by one pid file, or one of them be starting while the
file is empty: `NeverTwo` follows from `Named` and `Vacant`. `ToSolo` and `FromSolo` reduce
the invariant to the one manager that is in a pass; then one lemma `<Action>Keeps` per action shows
its four parts.

*Teardown, configs, stops.* `ShapeInv` says which labels belong to which kind of pass, so that a pass at
`end` is known to have been a teardown all along; `TornInv`, that a teardown has left no process of a spoke it
is past. `FreshConfig` needs to know why a process is about to be restarted, not only that it is:
`Judged` keeps the comparison of `Look`, which is made before the stop and is forgotten in a crash; `Upright`, that only
the `Popen` a manager waits for has not loaded its file, so that no file is rewritten under a
starting process. `StopJustified` is then what `Judged` says at the label `stop`.
`SupervisorIsRight` states of managers that do not overlap what `obf_ctl_overlap` shows violated:
the overlap is the only reason.

`Guarded` is `Sheltered` and no kill at `look` and `stop`, between a rewritten config and the restart
it is for; it is the instance of `obf_service`. `Sheltered` says that managers do not overlap (`obfmesh-ctl reconcile` is run while the service is
stopped), that no manager is killed at the labels `settle` and `record`, between `Popen` and the pid file,
and that pid files can be written. The theorems thus allow more crashes than `obf_service`, which
leaves out `look` and `stop` as well. Without the condition
on overlap `obf_ctl_overlap` is the counterexample. Pid files that cannot be written are covered by
`obf_live`, where a manager is killed outside the two windows and unless a live process is known to it alone
(`Unrecorded`).

*Refinement.* `SpokeService` knows processes alone: one to a spoke, started in an empty place, and
keeping binary and config until it ends. Every step that changes `proc` is one of its actions: `Spawn`
finds the place empty because of `Vacant`; the rest leaves `proc` alone.

`Events_proofs`, for any number of requests, readers and versions, without assumption:

| theorem | statement |
|---|---|
| `TypeCorrect` | `Spec => []TypeOK` |
| `OnlyApplied` | `Spec => []PublishedIsApplied` |
| `OnlyNews` | `Spec => []QueueIsNews` |
| `ImplementsFeed` | `Spec => Feed!Spec`: a refinement of `VersionFeed` |

`PassHolds` ties a pass under way to the request that holds `_APPLY_LOCK`; `FeedInv` orders what the watcher
knows, what it has found and what is queued; `Greeted` says that a reader that is past its greeting
was told something. The feed works for a reader while it is subscribed *and* there is a watcher (`On`):
a restart, or a watcher whose first read failed, maps to `Leave`.

`Firewall_proofs`: `AddressesDistinct`, `SlicesDisjoint`, `AdviceIsEnough` and `ObfuscatorsCanBind`
are about the functions of `models.py` for every spoke number, slot and port base, by arithmetic. For
any bases and number of spokes (`FirewallAssumption`: natural numbers `Settings.validate` accepts), and any failures and
crashes: `FirewallTypeCorrect`, `WantedIsOpen` (`Spec => []WantedOpen`), `NoPortForgotten`
(`Spec => []NothingForgotten`) and `WantedStays` (`Spec => WantedStaysOpen`). The properties speak of the
end of a pass; the invariant says what each loop has still to do (`LeftToDo`: it closes ports it does not want
and opens those it does, and what it has dealt with is open), that the base rules are there past their
step (`BaseDone`), and who knows of the open ports (`Accounted`): the journal between passes, the pass while it is at
it, unless `torn`. It counts rules as well, for a rule that is there twice is not gone after one removal.

`Mesh_proofs`, for any number of spokes, slots, clients and values of the settings:

| theorem | assumption | statement |
|---|---|---|
| `MeshTypeCorrect` | — | `Spec => []TypeOK` |
| `WorkingIsLeftAlone` | — | `Spec => WorkingSpokesUntouched` |
| `FailuresAreContained` | `"dump" \notin FailAt` | `Spec => []FailureContained` |
| `OkMeansApplied` | `"dump" \notin FailAt` | `Spec => []OkIsApplied` |

The premise leaves out a `wg show` that fails unnoticed (section 5), as `mesh_service` does; every other
failure is allowed. `Shape` says which spokes a pass is at where, and what it has put right on the way. `Match` is
why nothing that works is taken: what is to be set is the peer of a client that nobody shares id
or slot with, and what is to be removed is no client's, although clients come and go under the pass; a slot is
not handed out again before the pass of the removal has come round. `OnePeer` is WireGuard's own
rule, one peer to a key. `Contained` is the invariant of the loop: spokes that are passed and not
named are as wanted (`SpokesLeft`), clients have their keys (`KeysMade`), and what is wrong with the peers
of the present spoke is what is still to be done (`PeersLeft`). It holds of a pass that sees the
clients as they are (`Known`): not while a request has committed and waits for its own pass. `Passing` ties the pass of a
request to the settings it has committed, and `InForce` says that what was answered ok leaves later passes nothing to do.

`Bundles_proofs`, for any number of spokes, clients, versions and readers' steps: `BundleTypesCorrect`,
`OldBundlesWork` (`Spec => []OldBundleWorks`), `SameVersionIsSameBundle` (`Spec =>
[]SameVersionSameBundle`) and `ClientsApart` (no two clients have the same id, name or slot). `KeysHeld`
says more than `OldBundleWorks`: rows are never removed nor re-keyed. `Current` follows
the three reads of `build_bundle`: settings read under the version of the store give the bundle
of the store, because a change that gives another one raises the version with it or leaves
the pass a flag (`touched`) that is raised at its end or lost with it (`lost`).

`PanelForm_proofs`, for any fields, values and number of requests under way: `PanelTypeCorrect`,
`NothingReverted` (`Spec => []NoSilentRevert`) and `EditsAreKept` (`Spec => EditsKept`). `Offered` is
`NoSilentRevert` while a PATCH is under way as well; the types need that the body that was committed is whole settings.

`Lifecycle_proofs`, for any number of processes, migrations and statements, and any file to begin with:

| theorem | statement |
|---|---|
| `LifeTypeCorrect` | `Spec => []TypeOK` |
| `MigrationsAreWhole` | `Spec => []SchemaIsVersion` |
| `MigrationsDoNotClash` | `Spec => []NobodyClashes` |
| `CleanStop` | `Spec => []StopLeavesNothing` |

`SettingsMadeOnce` (`Spec => SettingsOnce`) adds that an open transaction has the settings row as
it is committed (`RowKept`). They assume what the module does of its constants (`MigrationsAssumption`: every migration has a
statement; `LifecycleAssumption`). `OpenInv` adds to the two properties of migrations that a process
is in a transaction if and only if it has the write lock (`Locked`), that nobody is at a migration further than
the next one (`Placed`), and what a transaction holds (`Underway`): the committed schema and
so many statements of the next migration. Because `Reread` turns down whoever is late, that migration has
not been begun by anybody else. `StopInv` says that from a join that was a clean one on there
is neither a supervisor nor a request, so that what `TornDown` removes stays away.

`Lifecycle_proofs` again, about `AdminKey`, for any number of requests, keys and stamps: `KeyTypeCorrect`, `NoOldKey`
(`KeySpec => []KeyWasFiles`) and `CacheNeverStale`. The invariant `IInv` says: while
requests are under way, `since` holds the key of the file (`Window`); stamps that are remembered are
stamps the file has had (`Remembered`), so that a new one is none of them; and, unless the file came back to
a stamp, what has the stamp of the file is the content of the file, in the cache (`CacheIsFile`) and in
the hands of a request that has read it (`Fresh`), and what a request may still answer is in `since`
(`InWindow`). No run checks this module: its state space is
large already for three requests, and there is nothing it would be composed with but `Session`, which
takes the theorem instead.

`Session_proofs`, for any number of requests and streams at once: `TypeCorrect`, `SessionHasOneStream`
(`Spec => []OneStream`) and `LogInKeepsKey` (`Spec => []LogInHolds`). `OneStream` is not inductive: a stream that waits for its reconnect would become a
second one, and one that has lost its controller would not be ended with the session. `Sole` adds
both, and `Booting` that nothing of a session is left while the page boots. `LogInHolds` needs that one
log-in, or one boot, is under way at a time and that a boot tries the key the browser keeps (`Deciding`).

*Assumptions on constants* say no more than what the constants stand for:
- a null value, a stranger or an outsider is none of the values it stands beside (`StoreAssumption`,
  `PeerAssumption`, the two `NullAssumption`s, `PanelAssumption`, `SessionAssumption`, `EventsAssumption`,
  `MigrationsAssumption`), and the service is not one of the CLI's processes (`NullAssumption`) but is one of
  those that open the database (`LifecycleAssumption`);
- there is at least one spoke (`StoreAssumption`, `SpokeMaxAssumption`) and the slots are counted
  (`StoreAssumption`); bounds and port bases are natural numbers (`VersionAssumption`, `EventsAssumption`,
  `BaseAssumption`); a migration is a non-empty script (`MigrationsAssumption`);
  the start limit allows a start (`LifecycleAssumption`); the spokes are a field of the form and one spoke is a
  value (`PanelAssumption`);
- the API's port is a port (`ApiPortAssumption`), the firewall has no more spokes than `models.py` allows and its
  bases are ones `Settings.validate` accepts (`FirewallAssumption`);
- a switch is a Boolean (`OverlapAssumption`, `LifecycleAssumption`, `MigrationsAssumption`).

*Only model-checked:* liveness under fairness, which is out of the prover's reach (`Converges`, `CatchesUp`,
`MeshConverges`, `LastVersionTold`, `PortsOpen`, `Serves`, `StatusAnswered`, `Settles`, `Shown`); and
`Reachable` and `AtMostOne` where pid files cannot be written, which `obf_live` checks
and `Sheltered` leaves out.

## 5. Findings

Two statements of the repository do not hold of what the code does; each has a run that shows it.
- **`obf_ctl_overlap`** — the supervisor removes the pid file of a process it finds dead without
  reading it (`orchestrator.py:752-765`). If `obfmesh-ctl reconcile` has restarted the spoke, it
  removes the file of the live process and starts a second one.
- **`bundle_lost_bump`** — a pass commits the change of a spoke at once and the version that
  announces it at its end. Cut off in between, the version is not raised by later passes, and a
  client that has fetched in the meantime is not told.

Also seen while modelling, described by the model or kept out of a run's instance, and no
statement of the repository to hold it against, or no run spent on it:
- `orchestrator.py:573-600`: the pid file is written after the pause of `START_SETTLE`. A service killed
  in it leaves an obfuscator nobody finds again, on the port all its successors need, although the
  comment at `orchestrator.py:579` says it is adopted. `Unrecorded` keeps this kill out of the runs.
- `app.py:93`, the unit: uvicorn waits for open connections without a limit, and a reader's stream ends only
  when the reader hangs up. With one connected, `systemctl stop` waits for `TimeoutStopSec` and kills:
  neither the teardown of `OBFMESH_STOP_PROCESSES=1` that `orchestrator.py:688-691` describes nor
  the `finally` of `_event_stream` runs (`Killed`; premise `ended = "clean"` of `StopLeavesNothing`).
- `orchestrator.py:683`: a supervisor that outlives the four seconds of its join goes on behind the shutdown and may
  start obfuscators after `teardown_processes()` (`ended = "late"`).
- `orchestrator.py:786`: `status()` takes the lock `reconcile()` holds, though its docstring
  (`779-782`) says it does not queue behind a pass; `StatusAnswered` says that it is answered at last.
- `auth.py:165`: a key file that comes back to an earlier time stamp and length (`mv` of a backup, or
  a second edit within the clock's resolution) is taken for its earlier content (`back`). And a slow
  request may put an older key into the cache; the next one mends it, because it stored the older stamp with it.
- `app.js:1232`: `start()` goes on after its own refresh was turned down and starts the stream and the poll
  behind the log-in screen; `app.js:1115`: a log-in within the delay of a reconnect that a log-out
  left behind makes two streams (`astray`; premise of `OneStream`).
- `app.js:275-277`: `api()` calls `onAuthLost()` for any 401, and nothing cancels the requests of a session
  that ends. One that was sent with the key of an ended session and is turned down in the next ends
  that one: the panel forgets a key the server has just accepted, and says that the server has rejected
  it (`app.js:313`). `AuthLost` has this step; during the log-in itself it does no harm (`LogInHolds`).
- `orchestrator.py:433-459`: the config file is rewritten, then the process is restarted because
  the *write* said that it changed. A service killed in between leaves the old process on the old
  config, and no later pass notices. `CrashOutside` leaves out the labels `look` and `stop` for it.
- `wg.py:349`: a failing `wg show` passes for an interface without peers (`ReadNoPeers`): nothing
  is removed and nothing is reported. `MeshConverges` includes it, `FailureContained` and `OkIsApplied` do not.
- `api.py:412`: DELETE of a client answers 204 whatever the report says (`Return`).
- `api.py:346`: PATCH with the values of a PATCH whose pass failed changes nothing, runs no pass,
  and is answered as done. Not modelled.
- `cli.py:37`: `teardown --interfaces` returns before the interfaces when there was no obfuscator to
  stop (`Teardown`).
- `api.py:210`: the hello frame is sent without `_APPLY_LOCK`, so that it may carry a version still
  being applied. `PublishedIsApplied` is about config frames.
- `api.py:180`: the watcher's first read is outside its `try`; if it fails, the stream stays silent
  for the life of the service (`FirstReadFails`; premise of `LastVersionTold`).
- `orchestrator.py:531`: the journal is written last; a pass that fails between leaves ports open
  that no later pass closes (`torn`; premise of `NothingForgotten`).
- `orchestrator.py:949-954`: a journal that cannot be read passes for an empty one, and is then overwritten:
  the ports of earlier settings stay open (`JournalUnread`; `torn` likewise).
- `app.js:574-618`: while a PATCH is under way, an answer that fills the form, or a log-in, enables the buttons
  that step the spokes again (`loose`). No property suffers: what is edited then counts as edited.
- the unit, lines 5-6: ten quick starts leave the service `failed` for good (premise of `Serves`).
- `app.js:715`: the answer to a PATCH replaces `state.settings`; what another administrator has
  changed becomes a difference, and the refresh that follows finds that nothing has moved, so no
  notice appears (`merged`; premise of `NoSilentRevert`).
- `app.js:927`: an older answer to GET may overtake a newer one, and a refresh that fails is not
  repeated, since the poll asks for the status alone (`behind`; premise of `Shown`).

## 6. Not modelled

- Inside the modelled parts: the sweep of the routes of release 1.1, the creation of directories, the
  cached answer of `--help`, `RECOVERABLE` against other exceptions in `Obfuscators` (`Mesh` and
  `Bundles` have `Abort`), a supervisor that outlives the four seconds of its join, pid reuse under
  a running manager, rotation of tokens, dry run, reads and `If-None-Match`.
- Of the life cycle: `obfmesh-ctl status`, which reads and prints, and the logger.
- Of authentication: the tokens of clients (a look-up by hash) and the fallback of
  `require_admin_or_client` from a key to a token, which no browser uses.
- Of the session: the 250 ms of `scheduleRefresh` after the session has ended, the tick that redraws
  the indicator, the dialogues of clients and tokens.
- What `status()` reports: it reads and formats.
- Validation of names, hosts, keys, paths: a matter of spelling.
- Parsing of command output, X25519, markup, installation scripts: text, arithmetic and files placed
  once.

## 7. Plan

Written in this order, the most important behaviour first: `Obfuscators` and its proofs; `Store`
with `Bundles` and `Mesh`; `Events`; `Firewall`; `PanelForm`; `Numbering`; the abstract `SpokeService` and
`VersionFeed` with their refinements; `Migrations` and `Lifecycle`; `AdminKey`; `Session`. Left to do:
1. *Theorems.* `Reachable` and `AtMostOne` with pid files that cannot be written, from an invariant
   that lets a live process be known to its manager alone.
2. *More of the system.* The fallback from key to token with the router as a second reader of the feed;
   rotation of a token against a bundle under way; the list of clients in the panel.
3. *Composition.* `Session` with `PanelForm`, where a session that ends meets a PATCH under way.
