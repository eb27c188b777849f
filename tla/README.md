# A TLA+ model of Ludock

Ludock manages game servers that run as Docker containers: it starts, stops,
backs up, restores and updates them on behalf of several users, and must come
out right when it crashes, when Docker restarts, or when somebody else changes
a container at the same time. This directory models the parts of Ludock whose
correctness depends on the order in which things happen, checks them with TLC
on small instances, and proves theorems about them with TLAPS.

`PROJECT.json` lists the components, the runs, the lines each definition models,
the mutants that show each property can fail, the hazards and the findings.

## 1. Inventory

| Component | State | Operations | What is hard | Module |
|---|---|---|---|---|
| Lock table (`internal/locks`) | keys held and by whom, fences, release channels | `Acquire`, `AcquirePreempting`, `AcquireForRecovery`, release, `NextRelease`, `Fence`, `Drained` | paths overlap their parents; background holders are cancelled and waited for; lost wakeups | `Locks`, `LockClients`, `Exclusive` |
| Operation queue (`internal/ops`), start and stop (`internal/app`, `cmd/ludock`) | rows of `operations`; claimed, yielded and waiting jobs, load per lane; the fence | `Enqueue`, `fill`, `run`, `WithLocks`, `finish`, `Start` with recovery, `Stop` | one goroutine per job, reads without the mutex, conflicts that send a job back, crashes between writes, requests during recovery | `Runner` |
| Restore job and helper (`internal/jobs/restore.go`, `data.go`, `internal/helper/restore.go`) | journal in the row; files in the roots and the stage directory | stage, extract, move old, move new, commit, roll back, recover; stop before and start after | a second process that outlives a crash; a rollback repeated from a journal | `Restore`, `AtomicRestore` |
| Update job (`internal/jobs/update.go`) | stage in the row; original and replacement container | pull, stop, create, start, await, replace, settle, undo, recover | Docker restarts containers by itself; lost responses; two containers on one world | `Update` |
| Update plan (`internal/update`) | the container, its image and the newer one | `Plan`, the checks after the pull, `Replacement` | telling the owner's choices from the defaults of an image | `Replacement` |
| Lifecycle jobs (`internal/jobs/jobs.go`) and monitor (`internal/monitor`) | recovery record; row in `availability` | start, stop, restart and their recovery; `Configure`, `Check`, `Suppress`, `SetIntentionalStop` | a stop that Docker still executes after a crash; compare-and-set against a tick's old observation | `Lifecycle` over `Monitor` |
| Backup jobs (`internal/jobs/backup.go`) | recovery record, helper | backup, backup and restart | the owner starts the server during the copy | `DataJobs` |
| Backup store (`internal/backups`) | rows, archives on disk, settings | create, publish, record, prune, delete, finish deletions, recover | row and archive are written separately; retention beside a restore | `Backups` |
| Archives (`internal/backups`, `internal/helper`, `internal/tarstream`) | the stream and the reader's place in it | `Walk`, copy, stage | streams cut anywhere, truncated or damaged | `Archive` |
| Notifications (`internal/notify`) | deliveries with attempts | enqueue, `Deliver`, `Retry`, change of settings | claim by compare, result lost after send, wake of the loop | `Deliveries` |
| Schedules (`internal/schedules`, `schedtime`) | last slot, revision, announcements | due, claim, announce, warn, edit | an edit between read and claim; a crash between claim and send; clocks that are set forward or back | `Schedules`, `SchedTime` |
| Identity and discovery (`internal/identity`, `servers`) | bindings, fingerprints, revisions; the shared refresh | `Apply`, `ReviewBinding`, `refresh`, page, action | stale observations; a forced refresh answered by an older one | `Fleet` |
| Accounts (`internal/auth`, `authz`, `db/accounts.go`) | users, sessions, grants, throttles, setup window | setup, login, password, roles, deletion, recovery | slow hashing between a read and a commit | `Accounts` |
| Database (`internal/db`) | the file, its schema, the identity key | open, publish the key, migrate | two processes of different releases; power loss | `Database` |
| Console (`internal/console`, `internal/helper/netconsole.go`) | session, queue, the exec and its helper | read, queue, run, cancel, wait for the exit | a process that outlives its connection and must keep the locks | `Console` |
| Output (`internal/console/logs.go`, `redact.go`) | decoder, carried bytes | decode, redact | credentials cut by chunks, frames and channels | `Streams` |
| Network consoles (`internal/netconsole`) | connection, partial packets | connect, authenticate, command, answer | packets and control sequences cut by reads | `NetConsole` |
| WebSockets (`internal/web/sockets.go`) | connections, limits | admit, register, send, close, `CloseSockets` | concurrent handshakes, shutdown during an upgrade | `Sockets` |
| File access (`internal/files`, `launch`, `helper/file.go`) | pooled helpers, locks, staged files | list, mkdir, rename, delete, upload, download, clean up | helpers reused, expired and evicted at once; commands that outlive a connection | `Files`, `FileRoots` |
| Event hub (`internal/events`) | subscribers, streams, queued changes | `Subscribe`, `run`, `dispatch`, `Changed`, `Stop` | overlapping streams, access that changes during a refresh | `Events` |
| Players (`internal/players`) | readings | `Poll`, `Check`, `Stop` | a check that meets a reading already under way | `Players` |
| History and attention (`internal/history`, `attention`) | cursors, lists | pages, list | rows written between two pages | `History` |
| Docker client (`internal/docker`) | API version, count of writes | negotiate, request, pull, remove helpers | lost answers, requests that Docker still executes | `DockerClient` |
| Resources, games, configuration, logging, views | none of their own | parsing, formatting | - | not modelled |

How they interact. Web handlers call `Runner.Enqueue` or take locks themselves
(uploads, file edits, console commands). `Runner` runs a job's handler in `jobs`,
which takes its locks through `Context.WithLocks` and saves its progress in the
row through `Context.Progress`. Scheduled warnings and player readings take
locks as background holders that jobs may cancel. After a crash `App.Start`
fences the lock table, `Runner.Start` calls each interrupted handler's `Recover`,
which takes its locks past the fence, and only then is the fence lifted. Jobs
tell the monitor what they stop; the monitor and the jobs queue notifications,
and the loop of `App` sends them. Every request resolves its server through
discovery, whose observations become bindings that an administrator reviews;
every handler checks session, grant and binding again before it acts. Game data
and network consoles are reached through helper containers that Ludock starts
next to the game.

What makes each part correct:

* the lock table: overlapping keys have one holder; a refused caller holds
  nothing; nobody sleeps on a release that has already happened;
* the queue: handlers never act on the same resources at once; an operation
  acts at most once over all restarts; a running row always has somebody who
  ends it; every queued operation ends;
* a restore: the old data exists until the new data is committed, the server is
  started on whole data only, a rollback can be repeated and a restore ends;
* an update: old and new never run on the same data, one server remains, the
  old version never runs on data of the new one, and the owner's settings stay;
* a backup: it was copied while the server was down, its archive is whole, no
  archive is lost sight of, and a deletion that was begun is finished;
* lifecycle and monitoring: a stop keeps its locks until Docker is done with it;
  Ludock's own stops are not alerted, outages are, and in order;
* notifications: nothing is sent twice unless the record of it was lost, nothing
  goes out under replaced settings, and a wake of the loop is never lost;
* schedules: an action runs once for a slot, only as the schedule and its owner's
  access are when it is queued and when it runs, and a warning goes out once;
* discovery: an answer is not older than the question, and nothing acts on a
  container that was not reviewed;
* accounts: an enabled administrator remains, and no session outlives the
  password, role or state it was made for;
* console and files: no process that changes a server outlives its locks; what
  is uploaded or shown is whole and permitted.

## 2. Modules

Queue and locks.

`Locks.tla` - the table: keys are sequences of parts, so that a path overlaps
its parents and children (`Overlaps`). `active` is `Table.active`; `signalled[h]`
says whether the channel that `h` took with `NextRelease` has been closed since.
`Answer` is what `acquire` returns, `Take` and `Release` what it and the
returned function do.

`LockClients.tla` - callers of the table: `Acquire`, the loop of
`AcquirePreempting` (`Begin`, `TryOK`, `TryRefused`, `TryBackground`,
`CancelHolders`, `Woken`, `GiveUp`), recovery, the fence and `Drained`. The
cancel functions run after the table's mutex is released, so they are a step of
their own.

`Exclusive.tla` - what the table promises, without waiting, cancelling or fences:
a set of keys that clashes with nobody's is granted as a whole and given back as
a whole. `LockClients` implements it with `uses <- Held`.

`Runner.tla` - extends `Locks` with the queue. One action per database write,
per critical section of `Runner.mu` and of `Table.mu`. `request` and `status` are
the rows and survive `Crash` and `Exit`; everything else is memory. A handler's
work under its locks is one abstract effect, counted in `runs`.

Jobs.

`Restore.tla` - one restore of a server with `Last` data roots. Ludock's program
counter `pc`, the helper's command `cmd`, the journal (`status`, `phase`, `rec`)
and the files of each root (`root`, `old`, `new`, `stage`). The helper moves one
entry a step, and goes on after a crash of Ludock until recovery removes it.

`AtomicRestore.tla` - what a restore promises, without journal, helper or recovery: the
data of all roots is replaced in one step or kept, and the server is started at most
once, on data that is final from then on. `Restore` implements it: until the outcome
is saved, the value of a root is what a rollback would bring back of it, in the root or
set aside; after it, what the root holds.

`Update.tla` - one image update. The saved `stage` and `rec`, the two containers
with state, restart policy, name, who started and who removed them.

`Replacement.tla` - the container an update creates: what Docker reports mixes
the owner's request with the image's defaults, and the plan separates them
again. `ReplacementCases.tla` has the requests and images to begin from.

`Monitor.tla` - the row of `availability` and the tick: `Configure`, `Suppress` and
`SetIntentionalStop` may come between any two steps of `Check`. `Lifecycle.tla`
extends it with start, stop and restart, their recovery, and Docker, which goes
on with a stop after a crash.

`DataJobs.tla` - backup and backup-restart: stop, copy, start and their recovery,
with an owner who starts the server at any time.

`Backups.tla` - rows and archives of the store, and everybody who writes them: the
backup step of jobs, a user's deletion, `Prune`, `FinishDeletions`, `Initialize`.

`Archive.tla` - a tar stream from the file helper through the stored archive to the
stage directory. `Walk` is one action per read and per entry.

Around the jobs.

`Deliveries.tla` - the notification queue and `App.deliver`. `rows` and `settings`
are the database; `again` and `mutex` are `App.deliverAgain` and `App.delivering`;
`active` and `cancelSend` are those of `Service`. A worker's pass is one action per
read, write or critical section (`ReadReady`, `List`, `NextRow`, `Activate`, `Claim`,
`Arm`, `Reread`, `Send`, `Release`, `Record`, `EndPass`); `SaveSettings` and `CancelSend`
are `Configure`; `RetryRead`, `RetryCheck` and `RetryCommit` are `Retry`. Time is
the flag `due` of a row: "now" if a call made it due, "late" if the clock did.

`SchedTime.tla` - `Slot`, `OneTimeRun` and `NextRun` of `schedtime` as operators over a
calendar whose days and weeks may be short and a zone whose clock changes once.
`FirstRun` is the definition `NextRun` is checked against.

`Schedules.tla` - the schedules of one server. `rows`, `ops`, `announced` and `access`
are the database; `tick` is the one tick that runs, with the list it read. `StartTick`,
`RunOne`, `CheckAuthority`, `RunCommit` and `RecordSkip` are `Run`; `StartAnnounce`,
`AnnounceNothing`, `ClaimAnnouncement` and `EndTick` are `Announce`; `WarningChecked`,
`WarningSent` and `WarningEnds` are the goroutine of a warning; `EditRead` and
`EditCommit` are `Create`, `Update`, `SetEnabled` and `Delete`; `RunOperation` is what a
queued operation finds in `Jobs.Actor`.

`Fleet.tla` - one discovery shared by its callers: list, inspect one by one,
reconcile in a transaction; an action on a server, its page and the review of a
binding use what it found, while Docker replaces containers.

`Accounts.tla` - requests that read, hash and commit: `users`, `sessions`, `grants` and
`fails` are the database, `setup` is the `SetupWindow`, and `req` what the handler of a
browser remembers between its calls. `GoneAway` is a request whose context ends.
`Database.tla` - processes that open one path, publish the key and migrate.

`Console.tla` - one session and its commands, with the process each starts.
`Streams.tla`, `NetConsole.tla`, `Sockets.tla` - the bytes of an output, of a network
console, and the connections of the browser.

`Files.tla` - requests, pooled helpers and the commands in them, against a game that
writes the same folder. `FileRoots.tla` - which mounts may be reached, as operators.

`Events.tla`, `Players.tla`, `History.tla`, `DockerClient.tla` - as their names say.

Instances and proofs.

`MCParts.tla`, `MCFleet.tla`, `MCWork.tla` and `MCClients.tla` each hold the instances
of several modules. The modules are independent: they share no state, and a behaviour of
the union is a behaviour of exactly one of them, named by `component`, in the first of
the variables `v1`, `v2`, ... One run then answers for all, and every property of the
union is the part's property under `component = ...`. The parts about which there are
theorems have their own variables and constants, in an MC module that extends them:
`Accounts`, `Update`, `DataJobs`, `Sockets`, `Files`, `Database` and `DockerClient` in
`MCParts`, `Fleet` in `MCFleet`, `Restore` and `Console` in `MCWork`, `LockClients` and
`Schedules` in `MCClients`; their properties are checked as they are stated and proved.
The safety of `Update` is checked in `parts` and its liveness in `work`. `MCParts` and
`MCFleet` are for safety alone; their symmetry exchanges `x1` and `x2`, and `y1` and
`y2`, which the parts use for users, requests, servers, callers and helpers and never
compare or choose. In `MCWork` the fairness of the parts is merged: since a behaviour
has steps of one part only, weak fairness of "the part's action, whichever part it is"
is each part's own fairness. In `MCClients` only `LockClients` has fairness, which is
asked of its behaviours alone. The other `MC*` modules instantiate one module.
`LocksProofs.tla` (of `LockClients` and `Runner`, which share the lemmas about the lock
table), `DeliveriesProofs.tla`, `SchedulesProofs.tla`, `FleetProofs.tla`,
`LifecycleProofs.tla` (of `Lifecycle` and `Files`), `BackupsProofs.tla`,
`PartsProofs.tla` and `WorkProofs.tla` (of the other parts that `MCParts` and `MCWork`
extend) hold the proofs (section 4).

## 3. Runs

| Run | Shows | Instance |
|---|---|---|
| `clients` | the lock table: `WaitersAreTold`: no lost wakeup, drain; wakeup without a deadline, and the refinement of `Exclusive`; the schedules: `SlotsAreKept`: one run per slot, one warning; `CountsToFirst`: the countdown goes to the first run; `WorkIsCurrent`: nothing stale is queued or run, no catching up | a server key, a path and its parent; background work, two callers, recovery; one schedule, four settings, two edits (one where a schedule runs at midnight), one loss of access, one fault or crash, two of these in all |
| `runner_crash` | exclusive effects, at most one run over restarts, no orphaned rows, recovery gets its locks | two jobs, one request outside the queue, one crash or shutdown |
| `runner_queue` | sleeping jobs have a waker, lane capacity, the queue drains | two jobs out of three requests that share a project, one warning |
| `deliveries` | `SendsAreSingle`: a send owns its row, no duplicates, no lost retry, old settings end, no lost wake | one delivery, two settings or off, one edit, one retry click, one fault, one crash |
| `deliveries_end` | every delivery ends | two deliveries to two destinations, passes of one, one edit |
| `fleet` | `RequestsAreSound`: forced refreshes are fresh, pages are of one container, nothing acts on a container that was not accepted; `AcceptedOnlyByReview`: whatever discovery sees and however late, only a review changes what a server is trusted with; the safety of six more parts (below) | two containers of one server, two requests, four changes of Docker and discoveries in all, at most two of them discoveries; below |
| `lifecycle` | a stop keeps its locks; own stops are quiet, alerts and recoveries alternate; an outage is alerted | one operation, one policy, one crash, one start by the owner |
| `backups` | complete backups have their archive, no archive is unaccounted for, a restore's source stays, limits hold; `StoreSettles`: an administrator's settings stay and deletions finish | two servers, two earlier backups and one more, two requests, one fault, one crash |
| `parts` | the safety of seven parts (below) | below |
| `work` | restore: data survives; the refinement of `AtomicRestore`; console: commands keep their locks; `WorkIsDone`: all of them end, events and readings are fresh and are seen | below |
| `update_env` | a disagreement with a comment (section 5) | the cases of `Replacement` |
| `newer_file` | a disagreement with a comment and a test (section 5) | `Database` as in `parts` |

The parts of `parts`, with their bounds: `Accounts` (two accounts, two browsers, three
requests or events), `Update` (three crashes, two restarts of Docker or deeds of
others), `Files` (two requests, two helpers, two names, two events, three requests and
events in all), `Database` (an older and a newer release, three kills, power losses or
failures, three keys), `DockerClient` (two callers, three calls, of which a lost answer
takes the place of one), `DataJobs` (two starts by the owner, two crashes), `Sockets`
(five connections, two of them admitted at once).

The parts of `fleet` besides `Fleet`: `FileRoots` (every mount table over five paths up
to three levels deep), `Archive` (twelve trees, pieces of one and three units, cut or
damaged anywhere), `Replacement` (every setting varied for itself), `NetConsole` (four
packets or texts, reads of one and three units), `History` (three rows in two
milliseconds, one change of access, four of rows, times and changes in all, pages of
one), `Streams` (outputs of up to four bytes or three frames against five lists of
credentials).

The parts of `work`: `Restore` (two roots with two entries, of which one name is
shared, two crashes, two changes by others, three of both in all), `Update` (two crashes,
one restart of Docker or deed of others), `Console` (three commands: one that runs, one queued,
one refused; two lost answers or failures), `Events` (two viewers, the first of
whom subscribes first, two streams; alone it sees three events, so that a change can
fall between the drainer's last look and its wait and another be lost after it; with the
second viewer there is one event, or two changes and no Stop, which `BesideV` says),
`Players` (two servers, one slot, four events).

Bounds and why they are enough. Two jobs show every conflict between a job and
its blocker. Two starts of the process give a crash at any step and the recovery
after it. In a restore, two roots make "some replaced, others not" possible, a
shared name makes a move back meet an entry of its own name, and two crashes
include one during recovery. In an update, three crashes include two during
settling; two are enough for "settled again after a crash while settling", which is
what its liveness is about. A delivery has two attempts, so that it can be queued again or fail, and
two workers, one of which looks again after its unlock while the other has the
lock. Three stamps stand for the milliseconds of `last_attempt_at`: a claim must
differ from the row's and from the one a running `Retry` remembers. A schedule has
days of four minutes and weeks of two days, in one zone whose clock is set forward
over the time of a run and in one where it is set back, so that the last minute of a
day comes twice with the next day's first between; two edits leave a slot and return
to it; a tick may lag one minute. Two discoveries allow one that began before a
request and one after it, with a replacement of the container (a removal and a
creation) during or between them. Two requests on accounts or files are one that works on a value
it read and one that changes it; the remaining ones make the value worth changing.
Streams are cut at every place by pieces of one unit, and across a boundary by
pieces of three. The mutants in `PROJECT.json` show that the instances reach the
cases: each is a plausible mistake at one place, and the run finds it. Every
bound is a constant named `Max...` or `Old`, `Attempts`, `Limit` and appears in a guard;
`MaxInAll` bounds the sum of several and appears in the next-state relation of the MC
module, so that the component's own specification, which the theorems are about, has
no such sum. `MaxAtMidnight` is of the same kind: a schedule that runs at midnight is
edited once, since what a second edit may return to, a slot that was claimed or run, is
reached with the settings that share the last minute of day 0.

`CHECK_DEADLOCK FALSE` is used where the system really stops: a queue with no
requests left to come, a process that was shut down for the last time, a restore
that is over, a connection that is closed.

Liveness is stated as `[]<>~P`, where `P` says that something is under way or asked
for: a job queued or running, a deletion begun. That is what `P ~> ~P` says, and a run
decides it in half the time. `StoreSettles` adds that a deletion which has begun is not
taken back (`RemovalsGoOn`).

Fairness. Goroutines that can run do run (WF of a job's steps and of the loops),
handlers return, other holders release, the ticker ticks, Docker ends a request it
has taken, and a deadline passes. `SF` is used for three database operations the
code retries without end: the read in `fill` (`retryFill`), the record that ends a
recovered operation (`App` calls `Start` again), and the last stage of an update
(`settle` tries again). A crash has no fairness, and neither has anything that a
user, the owner of a server or another manager does. In `LockClients` neither a
deadline nor a new call is relied on. In `Deliveries` the workers run and a backoff
ends; sends may always fail, and nobody is relied on to click or save. In
`Lifecycle` the tick runs, an operation ends and a suppression runs out. In
`Backups` the process is started again, the tick runs and jobs go on; storage that
fails is not relied on to recover: `StoreSettles` is about archives that can be
removed. In `Console` an exec that Docker runs ends, by itself or by the cancel script.

## 4. Proofs

Each `*Proofs` module extends the component's module and proves, for all values of
its constants, what the runs check on an instance. `LocksProofs` extends two modules,
`LockClients` and `Runner`; a proof about one cites no assumption of the other:

| Module | Theorem | States |
|---|---|---|
| `LocksProofs` (`LockClients`) | `ClientsTypeCorrect`, `KeysExclusive`, `HoldsAllOrNothing` | types; no two callers hold overlapping keys; all keys of a call or none |
| | `NoLostWakeup` | `WaitersAreTold` |
| | `TableKeepsPromise` | `ImplementsExclusive`: the table implements `Exclusive` |
| `LocksProofs` (`Runner`) | `TypeCorrect`, `ServersHaveOneOperation`, `JobsMeetNoFence` | types; one operation per server; no job meets the fence of the startup |
| | `EffectsAreExclusive`, `NothingActsTwice`, `NothingIsOrphaned`, `RecoveryIsNotRefused`, `LanesStayFree` | every invariant of the queue's runs: `EffectsExclusive`, `ActsOnce`, `NoOrphans`, `RecoveryGetsLocks`, `LanesAreFree` |
| `WorkProofs` (`Restore`) | `DataSurvivesHolds` | `DataSurvives` |
| | `RestoreIsAtomicHolds` | `RestoreIsAtomic`: a restore implements `AtomicRestore` |
| `WorkProofs` (`Console`) | `CommandsConfinedHolds` | `CommandsConfined` |
| `WorkProofs` (`DockerClient`) | `AnswersProveHolds` | `AnswersProve` |
| `DeliveriesProofs` | `SendsAreSingleHolds` | `SendsAreSingle` |
| `SchedulesProofs` | `SlotsAreUsedOnce`, `WorkIsCurrentHolds` | `SlotsAreKept`, `WorkIsCurrent` |
| `FleetProofs` | `RequestsAreSoundHolds`, `AcceptedOnlyByReviewHolds` | `RequestsAreSound`, `AcceptedOnlyByReview` |
| `LifecycleProofs` (`Lifecycle`) | `LocksOfStopsAreKept`, `AlertsAreRightHolds` | `StopKeepsLocks`, `AlertsAreRight` |
| `LifecycleProofs` (`Files`) | `HelpersConfinedHolds`, `ChangesAreWholeHolds` | `HelpersConfined`, `ChangesAreWhole` |
| `BackupsProofs` | `BackupsAreKeptHolds` | `BackupsAreKept` |
| `PartsProofs` (`Accounts`) | `AdminRemainsHolds`, `AccessIsCurrentHolds` | `AdminRemains`, `AccessIsCurrent` |
| `PartsProofs` (`Update`) | `OneServerRemainsHolds` | `OneServerRemains` |
| `PartsProofs` (`DataJobs`) | `CopiedWhileDownHolds` | `CopiedWhileDown` |
| `PartsProofs` (`Sockets`) | `SocketsBoundedHolds` | `SocketsBounded` |
| `PartsProofs` (`Database`) | `DatabaseKeepsItsKeyHolds` | `DatabaseKeepsItsKey` |

The assumptions are the ones the modules declare, and TLC evaluates them in every
run: keys are non-empty sequences of strings, the holders are the clients and the
startup recovery, "off" is no setting that sends, bounds are natural numbers, `None`
is no row, and the like. Two say what the code checks or what is true of any clock:
the settings of a schedule are among the ones `Validate` accepts, with a time of the
day and positive leads (`InputsAssumption`, `internal/schedules/input.go`), and a
zone's offset is at most a day, and changes once, at an instant of the clock
(`ZonesAssumption`). A server that is restored has at least one data root
(`RestoreAssumption`). Of accounts it is assumed that older hashes are hashes, that there
are finitely many browsers, and that the throttle's limit is positive
(`AccountsAssumption`). The backups made earlier, of one byte each, are within the
global limit, and the actors have different names (`BackupsAssumption`). The connections are a finite
set and the administrators' reserve lies within the table (`SocketsAssumption`).

None of the properties is inductive. Each proof module states an inductive invariant
`IInv` (`ClientsInv` for `LockClients`, `QInv` for the lanes of `Runner`; in `PartsProofs`
also `UpdateInv`, `DataInv`, `SocketsInv` and `DatabaseInv`, in `LifecycleProofs` also
`FilesInv`, in `WorkProofs` also `ConsoleInv` and `ClientInv`), TLC has checked it on the run's instance, and the proof has one step
per action and under it one per part of the invariant. What the invariants add, and why
it is needed:

* Lock table. The release must free exactly the keys of its caller, so `NoLostWakeup`
  needs all-or-nothing. Between the refused attempt and the call of the cancel
  functions the holders to be cancelled are only remembered: `AskedStillHold` says
  that whoever is about to cancel has an open channel only while one of them still
  holds a conflicting key. An acquisition is a `Grant` of `Exclusive` because the
  caller held nothing and a granted answer conflicts with nobody; a release is a
  `Return`; every other step leaves what is held as it was. The lemmas on what
  overlaps, on `Take` and on a release serve this proof and the queue's.
* Queue. What a goroutine's place says of its row (`RowsAgree`), that an operation
  whose row is absent or queued has not acted (`Fresh`), that whoever acts holds its
  keys (`ActorsHold`), that only the recovery and the fence hold keys while the
  process starts (`StartsAlone`). A lane's load is the number of its counted jobs
  (`LoadIsCount`). For `LanesStayFree`: a conflict that a job met lasts until its
  channel is closed, so a sleeping dispatcher has a holder that will wake it; and a
  lane's load never exceeds its width because the counted jobs can be ranked below it.
* Restore. A rollback may be carried out by a process that knows nothing but the
  journal, so the invariant says what each phase of the journal implies about the
  root, its old and its new entries (`RootFits`), for whoever reads it. Where Ludock
  is adds what the next write of the journal relies on (`RunFits`, `RollbackFits`): an
  empty root before `old_moved` is saved, no old entries left before `rolled_back` is.
  A command that works, perhaps for a process that has crashed, is one the journal
  allows on that root (`CommandFits`), because the journal is written ahead of every
  command and a helper is removed before recovery writes. A start is sent once because
  the stopped instance is older than anything that was started since (`ServerFits`).
  A restore is atomic because the value of every root is all original until the
  write that commits and all backup after it (`ValueFits`): the renames before it move
  entries between the two places a rollback looks in, and the one step that replaces the
  data is `SaveCommitted`. After the start no command is known that could touch it.
* Deliveries. The mutex belongs to the one worker in a pass (`OneHolder`), whose
  variables are set and reset step by step (`TurnIsWhole`). A retry that may still
  commit read a row that nobody has claimed since, because a claim's stamp differs
  from it (`ClickIsOlder`), so a claimed row is not retried. For lost wakes: whoever
  goes through with an old setting or gives a row back is followed by another pass
  (`ReleaseIsSeen`), and a row that is due is one the pass will still come to, or a
  flag is set for it (`DueIsSeen`), which somebody will read (`AgainIsRead`). That part
  holds, as the property says, while a pass takes as many deliveries as there are.
* Schedules. A tick may act on a list read long ago, so the invariant says when it
  may be trusted: a row of the list with the database's revision is the database's
  row, and a due run's slot is open in it. A warning whose row was claimed, deleted
  or is past cannot be claimed again, however the schedule is edited back and forth.
  The owner's access is counted by its changes, whose parity says what it is.
  `NextRun` is the first of a set of instants, bounded below; that such a first exists
  is proved from the well-founded order of the library (`FirstNumber`, `NextRunIs`). Of
  `Slot` only its date is needed: what a countdown goes to is not older than the
  claims that are kept (`AnnouncedAhead`).
* Fleet. A revision stands for one binding and its fingerprint (`RowFits`,
  `BindingsFit`), so a request that remembers a row knows, if the revision has not
  changed, that the fingerprint has not (`Later`). A discovery that read the present
  number of counted requests listed Docker after the last of them, and one with a
  higher number than a request saw began after that request (`OrderFits`).
* Lifecycle. A stop that Docker still carries out, and that nobody has excused, is
  owed to an operation at one of six steps, with the instance it recorded
  (`StopIsOwed`); each of them holds the locks or is the start of recovery. For the
  alerts: an operation pauses tracking before it does anything and again before it
  gives up its locks, and each pause has a stamp that no tick under way has seen. So
  a tick that saw the server running before Ludock's stop works on a row that the
  last pause outdates (`OwnFits`), and its write is dropped by `transition`. While the
  operation has yet to make that last pause, no tick gets past the check for
  operations, or it got there before the first one. What was told of an outage
  agrees with the row, or the tick that saved it is about to tell it, or it was lost
  in a crash (`ToldFits`).
* Accounts. A request acts on what it read before it hashed, so the invariant says what
  of that is still true. A hash that a request has made and not stored is nobody's
  (`HashFits`); so an account that still has the hash a sign-in verified has the
  password it verified, also after an upgrade by another sign-in (`EraFits`), which is
  why comparing the hash at the commit is enough. A request whose session ended has a
  token that no session will have again (`EndedFits`), which is why checking the session
  at the commit is enough. The guesses are bounded by the failures counted and the
  sign-ins that may still add one, of which there is one a browser (`CountFits`).
* Backups. Rows and archives are written by whoever holds the storage lock, and by a
  recovery, which takes no lock: it removes only an archive without a row, under an
  identifier that no other job has (`IdsDiffer`), so nobody relies on it. A job under
  its locks knows that its new backup has no row yet and fits the limit (`JobFits`): the
  bytes of complete backups plus what it may write stay within the limit, since nobody
  else completes a backup. Restores waiting for their locks hold nothing, so the
  backup they are to use stays complete only unless a user wants it deleted: pruning
  takes none of another server and not its own restore's, and the tick takes no
  complete one (`RemovalFits`). An archive goes after its row was marked and a row after
  its archive, so an archive without a row is always a job's that has yet to deal with
  it, or was reported (`StoreFits`). That `Newest` lists exactly backups of its set,
  and that a set of backups has an oldest and a newest, is proved from the
  well-founded order of the library (`NewestIs`, `MinIs`, `MaxIs`).
* Update. Whoever settles an update, the process that did it or one after a crash,
  knows the stage in the row and looks at the containers. So the invariant says what
  each stage allows: the original may run for Ludock only while no start of the
  replacement was saved (`OrigFits`); the replacement runs only from the stage saved
  before its first start, is removed by Ludock only while the swap was not saved, and gets
  the owner's policy only when the original is gone (`ReplFits`). The original's restart
  policy is "no" before the replacement exists, and it was down when the first start was
  saved, so Docker never brings it back next to the replacement (`Apart`). What each step of Ludock relies on is in `PlaceFits`: no path of an
  undo begins once the swap is saved.
* Backup jobs. Every start makes another instance, so a server that somebody started
  during the copy, even if it was stopped again, has an instance the record does not
  name, and the check after the copy sees it (`CopyFits`); only a copy that passed has a
  row. A restart sends a start after a whole backup and after it saved that it would, so
  no recovery sends a second one (`StartFits`).
* Sockets. `admit` counts and inserts in one critical section, so the table grows only by
  a connection that fits, and every other step removes one or changes none
  (`TableBounded`). Once `shutdown` is set a connection that was being upgraded is refused
  when it comes to serve, so each that serves is closed or among those that
  `CloseSockets` took (`AllClosing`).
* Console. Messages keep their order through the reader and the queue, and the command
  that runs lies between those that reached the game and those that wait (`OrderFits`,
  `TurnFits`). That it reaches the game once is a matter of which steps still have it to
  send: also a wait after a start whose answer was lost, which Docker may yet carry out
  (`Coming`). A process that runs or was handed to Docker, and a helper that speaks, find
  their command at a step that holds the locks, because only an exit that is known, or a
  removal, leads on from there (`PlaceFits`); what is sent was audited (`AuditFits`).
* Files. Every step of a request is one of the holder of the locks and leaves the other
  requests, their helpers and their commands alone (`LockedStep`). A command that changes
  files belongs to a request that still has the locks and that helper, or the process is
  one that fences the locks until the helpers left by the last are gone (`CmdOwned`,
  `ChangeFits`). So it runs in no helper that is kept (`KeptFits`), on the right container
  (`UsesFit`), and, because an upload gets its trailer only after the last check and
  compares only after the trailer, with an access and a body that are whole.
* Database. A file depends on a key, is Ludock's and has a version all at once, and then
  the published key is its own and is durable (`FileFits`). A key is published only while
  there is none, by a process that found the file without a version; nobody can have made
  the file depend on another key since, because whoever commits has read a published key
  and synced its entry, whoever published it (`OpeningFits`). The version that was read
  under SQLite's write lock is the one of the commit, so the migrations follow it
  (`MigrationsFollow`). A file newer than every process is opened by none, and no commit
  makes one (`NewerUntouched`, `CommitIsOwn`).
* Docker client. A caller that waits has one request with Docker that somebody will be
  told about, and one that does not wait has none (`HeldFits`), so an answer is taken for
  its own request; what it tells of that request stays true (`AppliedFits`), and a helper
  that is gone stays gone (`BoxFits`). A list is current while no counted request is with
  Docker, none was answered and not yet counted, and none was carried out late
  (`Settled`): then nothing changed since it was read (`ListFits`, `CacheFits`).

Only model-checked:

* All liveness properties: they rest on fairness, which is out of the prover's reach.
* `CountsToFirst`: it compares `NextRun` with `FirstRun`, which looks only as far ahead
  as the instance reaches, so it is a statement about instances.
* `AdministratorDecides` and `RemovalsGoOn`, which stand in a liveness property.
* Of the run `fleet`, `RestoredIsSaved`, `OutputIsRedacted`, `ConsoleAnswers`,
  `OwnersChoicesStay` and `OnlySafeMountsReached`, which rest on recursive definitions
  (`Archive`, `Streams`, `NetConsole`, `Replacement`, `FileRoots`): the provers can show
  nothing about them for every input. `ListingsAreWhole` compares a page with its rows
  sorted, by an induction over their number.

## 5. Findings and observations

Two disagreements between the code and its own comments have a run:

* `update_env`: `ownEnv` tries every proper prefix of the variables Docker reports,
  but not the whole list. If the image added nothing after the owner's variables,
  one that the owner set to the old image's default is dropped, against the comment
  at `internal/update/replacement.go:217`.
* `newer_file`: `ApplyMigrations` asks `AssertCompatible` before its transaction
  (`internal/db/migrations.go:286`, `289`) and in it only skips the migrations up to the
  version it reads. A process of an older release that passed the check, and waits for
  the write lock while a newer one migrates the file, commits to a schema newer than its
  own, sets WAL and opens it, against the comments at `internal/db/migrations.go:30` and
  `237` (a version "within [earliest, latest]") and the test at `internal/db/db_test.go:388`
  that a newer schema is rejected. A file that was newer from the start is refused
  (`DatabaseKeepsItsKey`).

What else the models show and a maintainer may want to know; the properties allow
for each of these where they name an exception:

* Queue. `fill` tests `yielded`, reads the queue without the mutex and claims without
  testing again, so a job can start while another has yielded (`ops.go:158`, `509`).
  `WithLocks` tests for a release and for other active jobs in two critical
  sections; if the holder leaves in between, a conflict with a job fails the
  operation instead of sending it back (`ops.go:404`, `429`).
* Restore and update. When a stop was settled without being recorded,
  `StoppedStartedAt` is empty and any earlier start is taken for the requested one
  (`data.go:184`, `220`). Whether a server runs is read before the pull, so one that
  somebody stops during it is started by the update (`update.go:330`,
  `docs/OPERATIONS.md:301`). The static MAC address of a stopped server may be unknown.
* Schedules. A run compares the owner's access in its transaction with what it was
  before the check, not with what the check saw; an owner whose access comes and goes
  again in between is taken for one who has it, against the comments at
  `schedules.go:289` and `732`. Nothing acts on it, because `Jobs.Actor` checks again
  when the operation runs; `RunsAreCurrent` names the exception.
* Accounts. A wrong guess is counted after it was verified, with the context of its
  request (`service.go:346`): one whose browser goes away, or that meets a restart, in
  between is not counted.
* Monitor. A stop that meets an instance the owner started between the record and
  the request is not recognised as Ludock's (`excused`). An alert that was saved and
  lost in a crash is not sent again (`lost`).
* Backups. A restore whose source a user began to delete while the restore waited
  for its locks loses it to its own `Prune` (`wanted`). A recovery that fails may leave an
  archive without a row (`unseen`). A row whose archive cannot be removed makes later
  prunes of that server report a failure. The comment at
  `internal/backups/service.go:609-611` says that a `Delete` refused before its unlink
  restores the row to complete after it was listed. The code no longer does that:
  `remove` (145-181) asks for access before it marks the row, nothing marks one complete
  again, and `RemovalsGoOn` shows it. The look at the row under the locks that the
  comment explains is still needed, for a row that somebody else removed meanwhile.
* Files. An upload over an existing file may replace what the game wrote between
  the comparison and the rename. Where rename cannot exclude an existing target,
  link and unlink are two steps with the game between them.
* Console. If Docker never received a start whose answer was lost, the exec stays
  prepared and the command keeps its locks as long as the container exists
  (`Freed` says so). A cancel script that finds no ready file is not repeated.
* Events. If another part's refresh notices first that a server is gone, its former
  viewers are not told; a failed refresh drops its batch; events during a
  reconnection, or for a full queue, are not heard of until the next refresh.
  `Unsubscribe` and `Stop` take the hub's cancel function under its mutex and call it
  afterwards (`events.go:124`, `323`): a viewer that subscribes in between starts a second
  stream, and both run until the call (`taken`).
* Docker client. A change whose caller gave up is counted, but Docker may carry it
  out later (`late`). The API version is kept until Ludock restarts.
* Network consoles. Telnet's pattern for a refused password is also applied to the
  output of commands; an RCON answer ends after a quiet moment.

## 6. Simplifications

Each module's header names its own; the ones that matter most:

* A transaction of the database is one step that happens or does not.
* The steps of a handler are abstract in `Runner` and detailed in `Restore`, `Update`,
  `Lifecycle`, `DataJobs` and `Backups`; the two levels are not composed.
* In `Restore` a file is a name and a version; modes, owners and links are left out. A
  server started by someone else writes nothing.
* In `Update` the health of the new container is a choice, and Docker has ended a
  request by the time Ludock looks again.
* In `Deliveries` an event is told to a destination once: the key of an event is
  not used again after its delivery was deleted, thirty days later. No two claims
  of a delivery share a millisecond. A send succeeds or fails as a whole. More
  deliveries than a pass takes are checked for `DeliveryEnds` only. The flag
  `Service.delivering` is left out, since `App.delivering` admits one pass at a time.
* In `Schedules` all schedules have one owner, whose account and grants, with the
  server's binding, are the flag `access`; an administrator makes one request at a
  time. The operation of a schedule is queued by the transaction that marks its slot
  and run in one step. That a warning and a run come at all is not checked: warnings
  are best effort, and a run is skipped when the process is down for its minute.
* In `Fleet` a configuration is its fingerprint. In `Accounts` a hash is an opaque
  value, one throttle stands for the others, and hashes and tokens are as many as the
  constants give (`HashLeft`, `TokenLeft`), new at each use. In `Files` a container's
  generation stands for its signature and mounts.
* In `Console` access that was withdrawn is not granted again.

## 7. Not modelled

* Resource samples (`internal/resources`): arithmetic on what Docker reports.
* Games (`internal/games`): tables of presets and parsers of their output.
* Configuration, logging, small helpers: parsing and formatting without state.
* Registry authentication of the update plan, and how Ludock finds its own image:
  reads without state of their own.
* The generated views (`internal/web/views`), forms, pages and assets: text. The
  handlers that change something are the first steps of the modules they call.
* Encodings of requests, message texts, archive metadata, zone names: data that no
  property tells apart.
* Previews and directory downloads of the file helper, except as streams.

## 8. Plan

What remains is the composition of `Runner` with a detailed handler: `Lifecycle` first,
whose recovery depends on the fence.
