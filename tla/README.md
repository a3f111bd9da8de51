# TLA+ verification of KernelSU-tun2proxy

This directory models the parts of KernelSU-tun2proxy in which the order of
steps decides correctness: who owns which kernel resource after a crash, when a
command may still change the kernel, when a worker may be restarted, how the
web controller's requests share files, locks and backends, which destination
a redirected connection is given, what is left of the TUN backend's routes when
its processes die, and whether Android's trust stores show the certificates the
inventory names. TLC checks the modules on small instances; TLAPS proves,
for every instance, every safety property that a run finds to hold, and the
implementation of the two abstract specifications.

Paths are relative to the repository; `tproxy/` stands for
`ebpf-proxy/internal/tproxy/` and `web/` for `cmd/tun2proxy-web/`.

## 1. Inventory

| Component | State it keeps | Operations | Hard behaviour | What makes it correct |
|---|---|---|---|---|
| Ownership journal, guardian (`tproxy/journal*.go`, `witness_linux.go`, `scoped_linux.go`, `guardian_linux.go`, `command_guard_linux.go`) | `journal.json` (owned steps, pending intent, digests), the same record in memory, the flock, planned resources in the kernel | `Setup`, `Recover`, `ResolvePending`, `Close`, guardian recovery | SIGKILL between any two steps, saves that fail after the rename, ambiguous commands, orphaned commands, other writers | the file is true of the kernel; intents come first; nothing foreign is adopted; a clean report is true; what is left is recovered |
| Transaction (`tproxy/transaction.go`) | `done`, `stopping` | `Setup`, `Teardown` | failing and ambiguous commands, retried rollback | exact ownership, last-first removal, no partial setup taken for a full one |
| Registered command (`tproxy/registered_command_linux.go`, `command_admission_linux.go`, `command_handoff_linux.go`, `command_witness_linux.go`) | three processes, a socket pair, a release gate, pinned pidfds, a report pipe | start, hand-off, confirm, release, watch, recover, judge | lost acknowledgements, every process dying anywhere, deadlines | no execution without confirmation, no false quiescence, recovery only over dead processes, no stub left paused |
| Supervisor, broker (`tproxy/supervisor*.go`, `worker_broker_linux.go`) | attempt, restart count, command registry, session marker | recover, launch, await readiness, terminate, drain, gate, clean up; broker receive, execute, reply | readiness against exit against stop, unkillable workers, lost replies, launcher loss | clean reports are true, restarts only into certain ownership, the marker outlives a lost session, stop ends a session |
| Web controller (`web/main.go`, `profiles.go`, `backend.go`) | `config.json`, `profiles.json`, `profileMu`, `lifecycleMu`, `backend.lock`, the two engines | save, create, clone, delete and select a profile, start, stop, restart, boot auto-start | concurrent requests, a failing second write, a crash inside a save, a lost status query, lock order | the two files agree, the engines exclude each other, requests are answered, no switch under a running backend |
| eBPF redirect (`ebpf-proxy/bpf`, `internal/redirect`, `internal/daemon`, `internal/relay`) | policy, UID and flow maps, links, relay slots | connect and sockops hooks, resolve, sweep, heartbeat, UID changes, accept, relay, shutdown | map races between kernel and user space, reused ports, lease expiry, shutdown order | a connection reaches its own destination or none, hooks go before listeners and maps after handlers, a stop ends |
| TUN routes (`web/routes.go`, `system/bin/tun2proxyctl`) | `routes.json` with its undo list, `routes.lock`, rules in the kernel, the engine, its watcher | start, stop, watch | kills between any two commands, orphaned commands, a partial clean-up that is retried, a journal that cannot be read, a late watcher, overlapping scripts | whatever is in the kernel is in the undo list or in one that was not read; a retry is not refused by its own order; a watcher removes a dead engine's rules and never a live one's |
| Certificates (`web/cert_mount.go`, `cert_api.go`, `certificate/store.go`, `certificate/service.sh`, `uninstall.sh`) | `inventory.json`, objects, `mounts.json`, stacked bind mounts in several mount namespaces | import, install, remove, apply, delete, Yakit check and sync, boot apply, uninstall | apply with rollback over several mounts, save failing after apply, propagation, foreign mounts, restarts of zygote, missed namespaces, kills, an interrupted `rm` | every entry has its object; trust stores, inventory and report agree after every operation; a shared certificate is not withdrawn |
| Diagnostics, parsing, web page, packaging | none that is ordered | – | – | – |

Interactions. The supervisor launches a worker, which owns the journal; a
brokered worker sends its commands through the broker, which runs each one as a
registered command; the anchor of a registered command recovers the journal if
the worker dies. The guardian does the same for an unbrokered worker. The
transaction is the journal's predecessor and works on the same plan. The web
controller calls none of them: it starts and stops the two shipped backends. The
TUN backend is `tun2proxyctl`, which launches the engine and has `tun2proxy-web`
itself set up and remove the routes; the watcher is a third process of that
binary. The certificate part shares the web server's process and nothing else.

The hazards behind these columns are listed line by line in `PROJECT.json`, with
the properties that cover them.

## 2. Modules

| Module | Models |
|---|---|
| `Plan` | the ordered plan of N resources and the profile of its first k steps (`countsMatch`) |
| `OwnedStack` | abstract specification: resources are pushed and popped, until somebody else disturbs them |
| `Journal` | `DurableIsolated` and the guardian, strict (v2) and scoped (v3) |
| `JournalInv`, `JournalInv_proofs` | the inductive invariant of `Journal`; proofs |
| `Transaction`, `Transaction_proofs` | `Transaction`; proofs |
| `AdmittedCommand` | abstract specification: what a command promises to whoever launched it |
| `RegisteredCommand`, `RegisteredCommand_proofs` | one command through guard, anchor and launcher; proofs |
| `Supervisor`, `Supervisor_proofs` | supervised sessions, legacy and brokered; proofs |
| `WebControl`, `WebControl_proofs` | the controller's requests, the command line and the boot start; proofs |
| `Redirect`, `Redirect_proofs` | the eBPF programs, their maps, the daemon and its relay; proofs |
| `TunRoutes`, `TunRoutes_proofs` | the route journal, its three users and the controller script; proofs |
| `CertTrust`, `CertTrust_proofs` | certificate store, trust mounts, boot and uninstall scripts; proofs |
| `MC*` | what TLC needs beside them |

Mutant operators (a comment starting with "Mutant:") stand just before the
definition they alter. They are used by no specification; each records a
plausible bug that the named property catches (`PROJECT.json`, "mutants").

### Journal

Every save, every kernel observation and every command of `Setup`, `change`,
`Recover` and `reconcile` is a step of the owner, whose position is `pc` and
whose public method is `call`. `disk` is the file, `mem` is `d.r`, `seen` the
record about to be saved. A digest is the content it stands for: in strict mode
the whole namespace (footprint `res` and `outside`), in scoped mode the
footprint. `Residual` is the witness with the one step under change left out,
which is the pending proof. Environment steps kill the owner, let a command take
effect or end after its owner's death (`orphan`), and change the namespace in
somebody else's name; the first foreign write of the footprint sets `disturbed`,
after which the promises about `res` end, those about the file do not. An orphan
holds the lease in scoped mode only, as in `queryLeasedContext`; a guardian that meets
it is blocked and gives up (`GuardianBlocked`). A save may fail
before or after its rename. The file is never torn: the code writes a second
file and renames it. The plan and namespace checks at opening are left out: they
refuse and change nothing. A journal from an earlier boot is likewise refused.
The mode is the variable `scoped`, chosen once at the beginning, so one run checks
both.

### Transaction

One step per command. A command that fails did nothing or had its effect; the
second case sets `ambiguous`, under which ownership can no longer be exact,
because there is no witness to consult.

### RegisteredCommand

Guard, stub, anchor and launcher are processes with a `pc` each. The hand-off
channel is a pair of sequences, `gate` the set of holders of the admission
socket's write end: the stub runs when the admission byte was sent and ends when
the last holder is gone. Deadlines are steps that may happen at any time.
Recovery by the anchor is one step here; its inside is `Journal`.

`AdmittedCommand` is what is left of it for the launcher: a stage (idle, execute,
then quiet, unverified or lost), the worker, the command and its resource. The
mapping (`Stage`, `Cmd`) takes the launcher's verdict for the stage and calls the
command up from the start of its guard, which may start the stub, to the stub's
end. `PromiseSpec` says
that every step of the four processes is one of the abstract steps or invisible;
in particular a quiet verdict comes after the command's end, and nothing touches
the resource after it.

### Supervisor

The supervisor's position is `sup`. Both entry points are initial choices
(`brokered`). Timers may fire whenever they are armed. The registry is the
record `reg`; commands are single (the broker takes one request at a time). The
death of a legacy supervisor is outside its contract ("not solved by this API")
and outside the model.

A brokered command is the abstract one of `AdmittedCommand`, step for step:
`BrokerReceive` begins or refuses it, `CommandEffect` and `CommandExits` are the
command's own steps, `BrokerVerdict` is `Quiet` or `Unverified`, `AnchorRecovers` is
`Recover`, and `LauncherDies` is `Lost`. After an unverified verdict the broker is
"abandoned": it has returned, but command and anchor may go on without it. This
correspondence is by comparison of the two modules; what is proved is that the
four processes keep to `AdmittedCommand`.

### WebControl

A handler is a request or a command line with its own position, argument and
the configuration it has read. The locks are variables that hold their owner.
Configurations are model values of two kinds. A file write may fail; the server
may crash at any point, which frees the mutexes and leaves files and engines as
they are; a child that runs under `backend.lock` may outlive it. That child, the
`--backend-action` process, may also be killed alone (`KillAction`; the pkill of
`uninstall.sh` matches it): its lock is free at once, because the descriptor is
close-on-exec, while the script or daemon it was starting may still come up
(`stray`, `StrayStarts`). A status query may fail and hide a running daemon. An
engine that came on in one of these two ways, without a valid look at the other,
is in `blind` until it ends. Stray starts of one engine are not counted, and what is
left of a killed stop is an engine that ends, which engines may do anyway. Left
out: renaming a profile (the name is in no property), log and app listings, the
connection tests.

### Redirect

A client socket passes `idle`, `hooked` (the connect program redirected it and
stored its destination), `sent` (its port is assigned and its record published)
and `open`, or goes `direct`. Destination and cookie of a socket are the socket
itself. `flow` is `flow_map`, whose key is the client's port, the only part of the
tuple that differs between connections to one listener. The LRU may evict any
record, an update may fail, and a record grows older in the three classes that
the limits of 30 s (`Resolve`) and 60 s (`Sweep`) tell apart. `Resolve` is two
steps, lookup and delete; `Sweep` is three. `run` is the position of `daemon.Run`;
its stages after the main loop are separate steps, in the code's order. The
conditions that let a socket pass (UID, prefix, protocol, missing storage) are one
free choice, so nothing depends on them. Left out: control commands other than
stop, a second listener, half-closed streams.

`OwnDestination` is stated for as long as sockops is attached. Between the
closing of its link and that of the listener a socket's end is no longer seen:
its record stays, and a second socket that was hooked before the detachment and
gets the same port in that moment finds it. The window lies between two
consecutive statements of the shutdown and closes with the listener.

### TunRoutes

A controller is a run of `tun2proxyctl`; `pc[c]` is its place in `cmd_start`,
`cmd_stop` or `cmd_stop_internal`, with the exits of `set -e`. Its `--routes-*`
commands and the watchers run under `routes.lock`: `lock` is the holder, `phase`
and `idx` its place in `startRoutes` or `cleanupRoutes`. `rules` is what the kernel
has, by kind: chain, chain content, default route, jump, policy rule. Every kind
has one undo entry and every command and every write is a step that may fail, a
command also with its effect. The route disappears with its TUN device. One
resource per kind suffices because entries of a kind do not depend on each other,
and the throw routes of the bypasses behave like the two kinds named in the
module's head. Whoever holds the lock may be killed, which frees the lock but not
the command it was waiting for: `orphan` is that command. `stray` is what the kernel
has and no journal knows of: what an orphan added, and what was in a journal that a
cleanup could not read. That cleanup (`JournalUnread`; `routes.json` or `boot_id` cannot
be read or parsed, and the error is ignored) undoes nothing, removes the journal and
succeeds. A watcher that cannot read its journal ends, and one that cannot read its
engine's entry in `/proc` takes the engine for dead and cleans up (phase "misread").
Controllers may overlap (a script outlives the server that took
`backend.lock`, and `uninstall.sh` takes none). An engine is its PID and start time,
hence a fresh number; PID reuse is what the identity in the journal excludes. The
configuration checks of `startRoutes` are the free choice `VerifyReturns`. A journal
written while `boot_id` could not be read is not told apart from others: in its own
boot it is undone or not read like any other, and after a reboot, when nothing of it
exists, its commands find everything absent.

### CertTrust

`disk` and `objects` are the store, `new` is the inventory `v` of the operation that
holds the lock, `pc` its place and `op` what happens after `applyTrust` returns. A
mount point is a trust store in one namespace; `stack[p]` is what `mountinfo` lists
for it. A layer is a generation: a fresh directory and the CAs managed when it was
prepared. Stock CAs are in every layer and left out. A mount may propagate to the
points whose stacks agree, or not: both happen, depending on the device. All points
of a plan share a generation, although the code prepares one per target, since
nothing compares two targets. `mounts.json` is the generation (`mounts`) and the
namespaces (`names`) it names.

`ns[p]` is the mount namespace that point p is in now. `detectTrust` looks for the
namespaces at the beginning of every apply and removal and ignores the errors of
`pidof` and `readlink`, so it may miss some (`Detect`, `seen`), though never that of
init (PID 1), in which point 1 lies. A restart of zygote gives some points a new
namespace, a copy of those that stay (`ZygoteRestart`), at any moment,
also within an apply: mounts in the old namespace fail from then on (`Current`), and
`verifyMount`, in the apply as in the list (`Reported`), refuses a namespace that is not
the one in `mounts.json`.

`excused` records that the stores may differ from the inventory. The reason is an error
the operation reports, a kill, another party or a namespace that was missed (the
comment of `TrustAgrees` lists them), and the next undisturbed successful apply ends
it. An apply that missed a namespace or was interfered with is "late", and the excuse
outlives its success. `module` covers the end of `uninstall.sh`, which removes
the store only after a successful `--cert-remove` and leaves a moment in which the
server still serves requests. Its `rm -rf` takes one file after the other (`Wipe`,
`WipeFile`, `WipeDone`), and a reboot may interrupt it. The part of a store it then
leaves is not `whole` and exempt from `NoDangling`; a module installed later works on
it. Left out: a PID that a new process got between `detectTrust` and `verifyMount` (its
namespace is compared, not the process), the migration of the version-1 Yakit keys,
the deletion of a user's own CA, GM-specific refusals (a refusal changes nothing),
the `i >= 64` guard of `removeTrust` (unreachable below the layer limit unless
others mount our directories), and a mount command that outlives its killed parent.
`removeTrust` looks at the top layer only: with a foreign mount on top it succeeds
and leaves its own layers below, which is why `TrustAgrees` speaks of states without
a foreign mount on top.

## 3. Runs

| Run | Instance | Result |
|---|---|---|
| `journal` | both modes, N = 3, 3 faults, 1 foreign change, fair | all eight properties hold (328,919 states) |
| `journal_foreign` | strict, N = 2, 1 foreign change | `PendingAdmitsNoForeign` is violated (finding 1) |
| `transaction` | N = 4, 3 failing commands, fair | `NoSilentPartial`, `OwnsWhatIsThere`, `StackSpec`, `TeardownCompletes` hold |
| `registered` | one command, unbounded kills and deadlines, fair | `TypeOK`, `ExecutionIsConfirmed`, `RecoveryIsFinal`, `PromiseSpec` (refinement of `AdmittedCommand`) and `PausedEnds` hold (1,770 states, the whole model) |
| `supervisor` | 1 restart, 2 commands, 2 sessions, fair | all six properties hold (99,756 states) |
| `web_control` | 2 handlers, 2 profiles, 3 configurations, 2 faults | `TypeOK`, `FilesAgree`, `OneBackend` hold (2,646,077 states) |
| `web_deadlock` | 2 handlers, 2 profiles, no faults, fair | `Answered` is violated (finding 2) |
| `web_switch` | 2 handlers, 2 profiles, no faults | `SwitchOnlyWhenStopped` is violated (finding 3) |
| `redirect` | 3 sockets, 1 port, 2 slots, 1 start, fair | `TypeOK`, `OwnDestination`, `MapsOutliveResolvers`, `RedirectWhileServing`, `StopEnds` hold (504,546 states) |
| `redirect_fail_open` | 2 sockets, 2 ports, fair | `FailOpen` is violated (finding 4) |
| `routes` | 2 controllers, 2 engines, 2 faults, fair | `TypeOK`, `RulesJournaled`, `RetryIsNotRefused`, `WatcherSparesLiveEngine`, `DeadEngineCleaned` hold (1,272,429 states) |
| `certs` | 2 CAs, 2 slots, 2 mount points, 2 layers, 2 troubles: faults, foreign mounts, restarts of zygote | `TypeOK`, `NoDangling`, `TrustAgrees`, `SharedKept` hold (3,234,986 states) |

The comment above each property states it. Strict mode is not checked for what
it does not promise: its snapshots may adopt foreign content (that is finding
1), and an unleased orphan may act after any observation, which ends the promise
by setting `disturbed`. `NeverAdopts` and `IntentFirst` therefore speak of scoped
mode only, and `Recovered` exempts strict mode after a foreign change.

### Bounds

* N = 3 has a bottom, a middle and a top step, so that "wrong end", "off by one"
  and "one of several left" differ; the proofs cover every N, the code's N = 8
  included. For the transaction N = 4 is just as cheap.
* Three faults allow a failure, a failure of its clean-up and a failure of the
  retry. The proofs cover every number.
* One foreign change suffices to disturb; two cannot be told apart by the
  properties, whose premise ends with the first.
* One restart gives two attempts, hence a last one and one before; two sessions
  show what a session finds of a lost one; two commands give a command after a
  lost reply. The proofs cover every budget from 0 to 3, the most that
  `SupervisorOptions.Validate` accepts, and every number of commands and sessions.
* Two handlers make every pair of requests meet. Three of them add only a second
  waiter to a lock. Profiles and configurations are permuted by symmetry, which
  is used only where no liveness is checked. The proofs cover every set of
  handlers, profiles and configurations and every number of faults.
* Three sockets on one port give a dead, a live and a next user of one record, and
  a third connection for two slots. A second port only adds records that do not
  meet. A second start finds an empty collection, like the first. The proofs
  cover every finite set of sockets and every number of ports, slots and starts.
* Two engines give a dead one and its successor, two controllers a start or stop
  that overlaps another; two faults a kill or failure and one in the clean-up of
  it. The proofs cover every number of each.
* Two CAs and two slots give a replaced and a new certificate and a shared one;
  two mount points a partial mount, rollback and removal; two layers reach the
  limit with one change after the first. Two things go wrong in all: two faults (a
  failed save and a failed restoration), a fault and an interference, or two
  interferences (`MaxTroubles`). CAs and slots are permuted by symmetry (no liveness is checked).
  The proofs cover every number of each.

Deadlock is checked for the journal, the transaction, the routes and the
certificates. The others may stop: a
session, a command or a set of requests comes to its end.

### Fairness

* `Journal`: a method in progress goes on, a command ends (`query` runs it under
  an eight-second deadline), and after a worker's exit its guardian makes one
  attempt (`watchIsolatedPIDFD` polls the worker's pidfd and then opens the journal
  once, without waiting for its lock). Whether somebody tries again after an attempt
  that failed or was blocked is the integrator's decision: such a step is possible
  and never promised, and `Recovered` claims nothing after it. That the guardian is
  alive to make its attempt is assumed; nothing restarts it
  (`ebpf-proxy/README.md:226`). No fairness for a worker, nor for the environment.
* `Transaction`: a call goes on; strong fairness of a repeated `Teardown` while
  `stopping` is the retry that the comment in `teardown` asks of the owner.
* `RegisteredCommand`: weak fairness of every process that is not killed,
  including its deadlines, but not of the command's own exit.
* `Supervisor`: weak fairness of the session. Every wait has a timer, except
  that for a ready worker, which a stop request ends.
* `WebControl`: strong fairness of every request, the strongest scheduling Go
  could offer; a request that starves under it starves because of its locks.
* `Redirect`: the daemon's own steps go on, a resolution ends (ten lookups), and a
  relay ends once it is cancelled or its client is gone (its connections are
  closed, a write fails or the idle timeout expires). A stream whose client stays
  need never end, clients need not do anything, and time need not pass.
* `TunRoutes`: the holder of the lock goes on (its commands end, those of iptables
  wait five seconds at most) and a watcher polls every two seconds. Nothing is
  assumed of the scripts. `CertTrust` has no liveness property.

## 4. Findings

1. Strict mode and a live pending window (`tproxy/journal_linux.go:359`). After a
   command the new snapshot is recorded without being compared with the pending
   proof. What somebody else adds between witness and snapshot becomes part of
   the accepted state, while `ebpf-proxy/README.md:248` says that it "is preserved
   and blocks recovery". After a crash in the same window the proof is compared
   and the documented behaviour holds.
2. Lock order (`web/profiles.go:196`). A profile switch takes `lifecycleMu` under
   `profileMu`; a start with a body takes `profileMu` (in `saveConfig`) under
   `lifecycleMu`. Together they wait for ever, and with them every later
   request.
3. Switch under a starting backend (`web/profiles.go:198`). The check that nothing
   runs is made under `lifecycleMu`, which the boot-time auto-start does not
   take; the backend can come up before the writes of the switch.
4. Accept errors wait for streams (`ebpf-proxy/internal/relay/relay.go:89`). `Serve`
   returns an `Accept` error only after its deferred `wg.Wait`. As long as one
   stream is busy, the daemon keeps its heartbeat and its hooks, and new connects
   are sent to a listener nobody accepts from, while `docs/EBPF-DELIVERY.md:101`
   says that "fail-open covers new connects".

Two more disagreements with the docs are in the passing runs, as what their properties
have to exempt.

* A failed status query (`web/backend.go:56`). `ebpfStatus` ignores the error of the
  status command and reports "not running", so a start of the TUN engine is
  accepted beside a running daemon that did not answer, while
  `docs/EBPF-PHASES.md:110` says that the controller "refuses backend switching while
  another engine runs". A start that outlives its killed action has the same
  effect; `OneBackend` shows that there is no third way.
* A journal that cannot be read (`web/routes.go:99`). `readRoutes` ignores its errors,
  so a cleanup whose read fails runs no command, deletes `routes.json` and reports
  success while the rules stay, whereas `ROUTING.md:24` says that a "failed cleanup
  keeps its journal and reports an error for retry". `RulesJournaled` shows that,
  orphaned commands aside, a rule is lost in no other way.

## 5. Proofs

All theorems hold for every value of the constants. The assumptions are those the
modules name, and no more is assumed:

| Proof module | Theorems (property of the runs) | Assumptions |
|---|---|---|
| `JournalInv_proofs` | `Inductive`, `TypeCorrect`, `DiskIsTrue`, `CanReopen`, `CleanIsClean`, `NoAdoption`, `WriteAhead`, `ImplementsStack` (refinement of `OwnedStack`) | N > 0; bounds are natural numbers; both modes |
| `Transaction_proofs` | `TransactionTypes`, `PartialIsMarked`, `DoneIsExact`, `TransactionIsStack` (refinement of `OwnedStack`) | N > 0; bounds are natural numbers |
| `TunRoutes_proofs` | `Inductive`, `RoutesTypes`, `EveryRuleJournaled` (`RulesJournaled`), `LiveEngineSpared` (`WatcherSparesLiveEngine`), `RetrySucceeds` (`RetryIsNotRefused`) | controllers are no integers; bounds are natural numbers |
| `CertTrust_proofs` | `InventoryIsSound` (`NoDangling`), `SharedIsKept` (`SharedKept`), `TrustInvariant`, `TrustTypes`, `StoresShowManaged` (`TrustAgrees`) | at least one mount point and one layer; bounds are natural numbers |
| `Redirect_proofs` | `RedirectInvariant`, `RedirectTypes`, `DestinationIsOwn` (`OwnDestination`), `MapsStayOpen` (`MapsOutliveResolvers`), `OnlyWhileServing` (`RedirectWhileServing`) | finitely many sockets, `None` is no socket or port, at least one slot |
| `RegisteredCommand_proofs` | `RegisteredInvariant`, `RegisteredTypes`, `ConfirmedBeforeRun` (`ExecutionIsConfirmed`), `RecoveredStaysClean` (`RecoveryIsFinal`), `KeepsPromise` (`PromiseSpec`, refinement of `AdmittedCommand`), `GateAlwaysHeld` | none: the module has no constants |
| `Supervisor_proofs` | `SupervisorInvariant`, `SupervisorTypes`, `CleanIsTrue` (`CleanMeansClean`), `MarkerStays` (`MarkerGuards`), `OpenGateIsQuiet` (`GateMeansQuiet`), `LaunchesOnClean` (`LaunchOnClean`) | 0 to 3 restarts; bounds are natural numbers |
| `WebControl_proofs` | `ControlInvariant`, `ControlTypes`, `FilesAlwaysAgree` (`FilesAgree`), `OneBackendOnly` (`OneBackend`), `OneLockCycle` | `None` is no handler, profile or configuration; the bound is a natural number |

Few of the properties are inductive. Each proof module states the strengthening
it needs as a conjunction of named parts and shows, with one step per action,
that every part is preserved. TLC was run on each strengthening before it was
proved.

### Journal

`DiskTruth` speaks of the file and the kernel only, while the next save writes
what is in memory. `IInv` adds

* `Shape`: what the position of the owner implies for its records and its
  command; for instance, from the saved intent to the observation after the
  command the file equals the memory, and a scoped orphan implies that nobody
  has the journal open and that the file names its operation;
* `Truth`: every record, on disk, in memory or about to be saved, admits the
  kernel's state, and at the positions where it matters which of the two
  outcomes of a pending operation holds;
* `Report`: the guardian's memory equals the file except while it writes an
  intent, so that its report is about what the next owner reads;
* `Honest`: in scoped mode the snapshot of each record is the profile of the
  steps it owns.

The refinement rests on `FootprintSteps`, which says that every change of the
footprint is a foreign one, an unleased orphan's, or the pending operation of an
exact profile, and on `Neighbours`, which says that such an operation is a push or
a pop. For the transaction, `TInv` adds to the properties
that a teardown in progress is marked as such.

### TUN routes

`IInv` adds `Progress` (nothing is on disk while `startRoutes` verifies; the undo
entry of the command about to run is on disk; what a cleanup without a failure
has gone past is gone from the kernel) and `Holding` (only a controller is in
`startRoutes`; every watched engine has been launched, so the next one is none of
them).

`RetryIsNotRefused` needs `RInv` beside it. A cleanup is refused the deletion of
the chain as long as a rule refers to it or is in it, and an orphaned undo
command can take that rule away after the refusal. `Refusal` names the rule and
says that no orphan is about to remove it; this is preserved because of
`Pending`: what an orphan can still undo is in the undo list, if there is a journal,
and a cleanup without a failure has not gone past it. When the journal was forgotten,
`Chained` helps: as long as the orphan has something to undo the chain is there, and
`startRoutes` does not begin another journal.

### Certificates

`NoDangling` and `SharedKept` are about `disk`, which takes its value from an
inventory made several steps earlier; `IInv` says of that inventory in advance
that it is sound and withdraws nothing shared, and that `Delete` has dropped the
certificate whose object it is about to remove. Soundness is claimed of a `whole` store;
no operation runs from the beginning of the `rm` to the next boot (`Removed`). The
mounts play no part in it.

`TrustAgrees` is about the mounts between operations; `TrustInv` says what they
are during one. `View` is its heart: without an excuse, the stores show the old
certificates until the operation is at its save; while an apply mounts or rolls
back, the old view is what is below the layers of the new generation (`Back`),
and a rollback without an error has left no such layer behind it. Both views also say
that `mounts.json` names only namespaces that are there. `Spaces` says that an operation
nobody interfered with knows every namespace. `Cleared` says
the same of a removal, `Operation` what the inventory to be saved has to do with
the layer being mounted, and `Height` that an apply adds one layer per point and one
more for each foreign mount that hides it. The last is also what makes the model's
bounded names sound: `NameLeft` counts the generations in use, one per mount and
three in files and variables, and finds one left, so that `FreshGen` is always
a generation that is used nowhere, like the name `MkdirTemp` returns.

### Redirect

`OwnDestination` is about what a handler has read; `IInv` says in advance what it
can read. `Records`: as long as sockops is attached, a flow record belongs to a
live socket that still has the record's port. `Connections`: no two live sockets
share a port, and a connection waits in the backlog once, before its only
handler begins. Both are needed at a port's reuse: the new user overwrites the
record or finds it deleted by the old one's close. `Lifecycle` says of every
position of `daemon.Run` which of listener, connect hook, policy and maps is up;
the two properties about the order of start and shutdown follow from it. The
slot limit is an argument about cardinalities (`SlotsKept`, `SlotTaken`).

### Registered command

The module has no constants and TLC explores all of it; the proof says why it is
right. The argument follows the hand-off. `Packet` and `Answers` say what a message
in flight, or its absence, means for the positions of both ends: the confirmation
is sent once, by a guard that has read the acknowledgement, and the byte that
releases the stub comes after it, hence `ExecutionIsConfirmed`. `Gates` says which
process has an end of the admission socket, `Reports` that a report of quiescence
or recovery comes from an anchor that has seen guard and command end, `Launches`
that the launcher judges two processes that are gone. `KeepsPromise` maps each
action to a step of `AdmittedCommand`; the two that matter are the launcher's
judgement, which is `Quiet` only over a dead command, and the anchor's recovery,
which is `Recover`: the worker is dead, the command over and the verdict not yet
given. TLC also checked that the invariant is inductive, over all typed states.

### Supervisor

The properties speak of the moments of launch, gate and return; `Progress` covers
the way between. While a session recovers and between two attempts nothing is
left of an earlier worker; during an attempt a running command is the broker's
current one or has blocked the registry, hence the gate does not open on it; once
the exit of the worker is known, no worker is up until the next launch. `Marked`
says that a brokered session has its marker throughout, `Budget` that every
attempt but the first was counted at a gate before, and `Counted` that the
registry has room for the request in the channel.

### Web controller

`FilesAgree` is silent while a request holds `profileMu`, and a save writes the two
files one after the other. `Locked` says that the locks are held by the requests
whose positions say so, `Known` what each request knows: which configuration it
has written, and that the one it would restore is still the active profile's.
`Agreed` is `FilesAgree` up to the first write of a save. For `OneBackend`, `Looked`
says that a request about to launch after a valid look has the backend lock and
that only engines in `blind` have come on since. The deadlock of finding 2 does not weaken
these theorems: it is a state in which they hold.

`OneLockCycle` says how far that finding reaches. TLC exhibits the deadlock with two
requests; the theorem says that for any number of requests and command lines, with
any failures and crashes, every set of requests that wait for one another contains a
start with a body and a switch, waiting for each other.
It rests on `Holds`: whoever has `backend.lock`
waits for nothing, whoever has `lifecycleMu` waits for `profileMu` only in a start
with a body, and (by `Locked`) whoever has `profileMu` waits only in a switch. It is
the safety half of `Answered`.

### Only model-checked

Liveness (`Recovered`, `TeardownCompletes`, `PausedEnds`, `StopReturns`, `StopEnds`,
`DeadEngineCleaned`): fairness and `ENABLED` are beyond the prover. Of `PausedEnds`
the safety half is proved (`GateAlwaysHeld`: a paused stub always has somebody who
will release its gate or die with it). `Answered`, `FailOpen`,
`SwitchOnlyWhenStopped` and `PendingAdmitsNoForeign` are violated (section 4).

## 6. Plan

1. Done: journal with guardian, transaction, registered command, supervisor with
   broker, web controller, eBPF redirect, TUN routes, certificates; the proofs of
   section 5.
2. `Redirect`: the target UID set and its concurrent changes, a second listener.

Not modelled and not planned: capability probes, preflight reports and the packet
experiments (read-only or a single private namespace), SOCKS5 and configuration
parsing, certificate parsing and the Yakit client (no state that order could
harm), the web page, and packaging.
