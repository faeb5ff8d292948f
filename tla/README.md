# Homelabrrr: a TLA+ verification project

Homelabrrr is a self-hosted panel over Proxmox VE: users provision and schedule
virtual machines, admins publish websites, run FortiGate workflows and control
the power mode of the physical servers. The backend (`src/backend`, TypeScript on
Node.js with PostgreSQL) is one replica by its documentation, though several of its
parts are written for more; all state that matters lives in the database, and most of the difficulty is in the gaps: between a read and
the write it decided, between the database and a remote system that cannot take
part in a transaction, between a crash and the restart that follows. This
project models those parts in TLA+, checks the models with TLC, and proves the
central results with TLAPS.

## Inventory

The paths are relative to `src/backend/src/`. "Hard" names the behaviour that a
unit test hardly reaches.

| Component | State | Operations and interactions | Hard | What makes it correct |
|---|---|---|---|---|
| Power-mode control (`services/powerController.ts`, `powerControlStore.ts`, `powerControlWorker.ts`, `powerPolicy.ts`, `iloAdapter.ts`, `routes/powerControl.ts`) | one policy row per node with versions, drift hold, override, claim token and expiry, pending write, failure streak; an operation row per claim; the iLO's mode | 60 s worker and admin commands reconcile the node through the same claim; the iLO is read and PATCHed outside any transaction | several processes, lease expiry, write deadline, lost and late PATCHes, crash after dispatch | one dispatcher per node; a write that left is never forgotten; a write obeys the policy it was committed under |
| VM power scheduler (`scheduler.ts`, `utils/schedule.ts`, `utils/vmMigrationLock.ts`) | one schedule row per VM: stop and start times, days, zone, `skip_until`, and the flags `last_off`, `running_due_to_manual`, `stopped_this_window` | one tick a minute lists the VMs, reads the rows and starts background stops and starts; users save, skip and delete the row at any time | the tick works from snapshots; a stop outlives the tick, the window and the row it was decided on; restart, migration | a claim follows the row as it stands; one stop per window; no power action during a migration; inside its window the VM is stopped in the end, unless its user overrides |
| VM leases (`utils/leases.ts`; routes in `vms.ts` and `admin.ts`) | one row per VM: duration, expiry, exemption, mark of a lease that is over | a sweep every 15 minutes and on an admin's request shuts down and marks what has run out; users renew, admins adjust | renewals share the lock with the sweep; it acts on a listing that may be old or incomplete; lost answers | only a lease that is over is marked, and a guest is shut down for no other reason; a running guest is not booked as gone; what is due is settled in the end |
| VM migration (`routes/migrate.ts`, `utils/vmMigrationLock.ts`, `routes/operations.ts`, `routes/vms.ts`) | `vm_migrations` rows, advisory lock 206 per VM, pending and running disk moves in memory, the VM's references in nine tables | claim, remote copy watched by a poller and by every listing, shared-storage adoption, settlement, operator review, deletion | several workers reach the end of one task; lost answers; restart with a task still running; a long deletion | one migration at a time; no policy write or deletion while it runs; the references follow the VM exactly once; shared disks are not destroyed |
| Provisioning (`routes/provision.ts`, `services/provisionOwnership.ts`, `utils/vmidAllocator.ts`, `utils/quota.ts`) | provision jobs, quota, VMID reservations | a job creates or clones a VM over many remote calls, then cleans up on failure | crash in any step, task outcome unknown, quota counted across concurrent requests | quota never exceeded; a VMID has one owner; a cleanup never deletes a VM the job does not own |
| Operations reconciliation (`services/operationReconciliation.ts`, `routes/operations.ts`) | jobs and tasks left in an open state | settles what a restart left behind | decides from evidence that may be old | a job is settled once, and never as done when it is not known |
| Background work (`services/backgroundWork.ts`) | accepting flag and set of running tasks | every fire-and-forget task registers here; shutdown drains | shutdown while tasks start tasks | no task is admitted after closing; drain waits for all |
| FortiGate workflows (`workflows/*.ts`) | a run with its steps and their created resources | run steps in order, roll back in reverse, tear down later | failure and crash between a remote create and the row that records it | everything recorded as created is removed on rollback; teardown is idempotent |
| Websites, Caddy, certificates (`routes/websites.ts`, `utils/caddy*.ts`, `utils/certSlots.ts`) | site rows, the generated Caddy file, certificate slots | edit, publish, revert | file and rows change separately | the published file is the one generated from the rows |
| Public IPs (`routes/publicIps.ts`) | address pool and assignments | assign, release | concurrent assignment | an address has one holder |
| PVE hosts (`services/pveHostLifecycle.ts`, `proxmox.ts`) | host rows and cached clients | add, edit, delete | concurrent deletion | the last host and a host in use stay |
| Invites (`utils/invites.ts`) | single-use tokens | create, accept, revoke | two acceptances at once | a token creates one account |
| Auth and sessions (`routes/auth.ts`, `utils/totp`, `sessionStore`) | users, lockouts, TOTP steps, sessions | sign-in, reset, second factor | concurrent attempts | a code is used once |
| Funding (`services/paypal*.ts`, `routes/payments.ts`) | intents, a webhook inbox, a ledger that only grows, payment states, allocations of months | orders and captures at PayPal, webhooks and a recovery of missed ones, reconciliation, review, recalculation of months | duplicated and reordered events, a capture without an answer, two workers on one payment | the ledger says what PayPal says; a payment counts once; months add up |
| Price rules and timetables (`powerPolicy.ts`, `utils/schedule.ts`, `services/powerPriceBoundaries.ts`) | latches of cap and boost in the policy row; windows on local clocks | decide the mode and the next boundary; decide whether a VM is in its off window | hysteresis under a latch that other paths carry; windows over midnight, skipped and repeated minutes | cap and boost exclude each other; a decision does not change itself; each change of mode is a boundary |
| Energy and prices (`services/elOverblik*`, `services/energy*`) | meter readings and price slots | fetch, aggregate | gaps, DST | sums match the readings |
| Consoles (`routes/ssh*`, `routes/vnc*`) | sockets | proxying | pure I/O | not modelled |
| Tag sync (`utils/vmTags.ts`) | Proxmox tags | best-effort writes | none worth a model | not modelled |
| Notifications, audit, secrets, backup, migrations | rows, files | I/O | none worth a model | not modelled |
| Frontend (`src/frontend`) | none of its own | React views of the API | none | not modelled |

## How the models are made

- One module per component. Its actions are the code's database statements or
  transactions, its remote calls and its waits; the computation between two of
  those belongs to the step before it, since no other actor can see it.
- A read of the database or of a remote system and the write that uses it are
  different actions, with whatever other actors do in between.
- A calculation without state is a module of operators. What it promises is proved, or
  stated against a reference definition and evaluated on bounded inputs by an `ASSUME`
  of an MC module, before the run of that module starts.
- A crash drops everything a process holds in memory and nothing else.
- Clocks are relative: what is left of a lease or a deadline, in ticks.
- Rows carry only the columns a guard or a property looks at. Mail, audit
  entries, logging and wording are left out.
- Every bound is a constant whose name begins with `Max`.
- Operators named "Mutant" in their comment are plausible bugs of the
  definition that follows them; no specification uses them. They document which bug each
  property catches.
## PowerControl: one node's power mode

`PowerControl.tla` models `PowerController.reconcile` and `dispatch`, every
statement of `PowerControlStore`, the write path of `iloAdapter.setRuntimeMode`,
the sweep of the worker and the admin routes, for one node and any number of
controllers. `Automatic` are worker instances (one per process), `Manual` the
controllers behind `POST /manual`.

| Model | Code |
|---|---|
| `policy`, `conn`, `globalPause`, `ops` | the row of `hardware_power_policies`, of `hardware_connections`, the setting `power_automation_paused`, the operation row of each claim |
| `leaseLeft`, `backoff` | `claim_expires_at - now`, `now < next_attempt_at` |
| `ctl[c].pc` and the rest of the record | where the running reconcile is, the snapshot it loaded, the mode it read, the selection, the claim token, the ages its deadlines compare |
| `zombie[c]` | the write call that went on after `withDeadline` gave up on it |
| `mode`, `inflight` | the iLO, and PATCHes that may still apply |
| `resume` | a resume-drift request between its read and its update |

`NodeLease.tla` is the abstract specification of the claim column: a lease that is
granted when nobody writes and is never taken from a writer. `PowerControl`
implements it (`ImplementsNodeLease`, with holder the token of the row and
writers the controllers between requested row and end of write).

The selection is the manual override, the schedule or nothing; the price rules are a
module of their own (below). Left out: the dwell before an upshift (a nondeterministic
refusal in `Select`) and host power state (a nondeterministic return in `Read`).

### Runs

| Run | Instance | Shows |
|---|---|---|
| `pc_safe` | worker and manual controller, 2 claims, 1 event, two schedule slots, no slack in the lease | one dispatcher, sent writes stay claimed, the lease is implemented, a write obeys the policy it was committed under, a drift hold ends by Resume or at its boundary |
| `pc_live` | worker and manual controller, 1 claim, 1 event, 336 contexts of price rules, fairness | a claim never blocks the node for ever; `DecisionsAgree` |

Two claims are enough for one controller to lose its lease to another; an event is an
admin request, a change outside or a crash, and the second slot is a boundary that a
decision can be overtaken by. `DispatchBudget` and `WriteTimeout`
are 0 or 1 tick and `Lease` one tick more than their sum, the tightest lease the
assumption allows; a larger one only adds slack. Deadlock checking is off: once
control is disabled and the events are spent, nothing is left to do.

Fairness (`FairSpec`) is weak fairness of each controller's next step, of the
sweep and of time: awaited calls end because `withDeadline` and the HTTP timeouts
bound them, and the worker runs every minute.

### Statements the code does not keep

No run is spent on these. The first two are properties of `MCPowerControl`, which TLC
refutes at once under the constants of `pc_safe` with `Schedule <- OneSlot`.

1. `ResolveBeforeRetry`: an earlier write whose result is unknown is to be
   verified before the next one (`powerController.ts:256`), yet `claim()` does not look at
   `pending_target` and `finish()` does not raise the version. A controller with an older snapshot
   writes on top of it.
2. `OwnWriteIsNotDrift` (one claim is enough): a worker that loaded the row before a manual write was
   verified, and reads the iLO after it, takes the new mode for an outside change
   and puts the node on hold.
3. The last statement before the PATCH (`recordRequested`) checks the claim only, so
   control disabled since the previous read does not stop that write
   (`docs/power-energy-runbook.md:132` says it stops every new one).
4. `observe()` ends a failure streak without clearing `failure_notified_at`, so the
   next streak is silent (the runbook, line 145, promises one notice per streak).

### Proofs

`PowerControlProofs.tla` proves, for all values of the constants that satisfy
the module's assumptions, `Spec => []TypeOK` and `Spec => []SingleDispatcher`.
`SingleDispatcher` is not inductive: that a dispatcher still holds its claim
depends on its write ending before the lease does. The invariant `IInv` adds

- `ClaimInv`: tokens are unique and never larger than the last one given; while
  a write runs it has at most `WriteTimeout` left; between the requested row and
  the end of the write the token in the row is the dispatcher's and what is left
  of the write fits in what is left of the lease;
- `SentInv`: whatever may still reach the iLO has an operation row with a
  writable target (needed for the type of `mode`).

The assumption on the timings, `Lease > DispatchBudget + WriteTimeout`, is the
one `PowerController`'s constructor states. The proof goes action by action; the
lemmas `ClaimInvMove` and `SentInvMove` say what a step that moves one controller
has to show.

`LeaseImplemented` proves `Spec => ImplementsNodeLease` from the same invariant.
`ClaimMoves` says that a step leaves the token of the row alone, grants a new one to a
node without an unexpired claim, or returns it; `WorkMoves` that a controller becomes a
writer only in the statement that finds its own token in the row. By `WritersFact`
(a consequence of `ClaimInv`) whoever writes holds the unexpired claim, so neither an
expiry nor another controller's claim can take the lease from a writer.
`SentIsSettled` proves `Spec => []SentRequestIsClaimed`, which is not inductive either: that
`finish()` settles the row depends on the controller knowing what it sent, and a
write may leave after its controller gave up on it. `SettleInv` states both of all
departed writes (`Departed`: sent, or about to be by an abandoned call). `SettleNext` combines
what a step may do to departed writes, to tokens, to rows and to the claim (`DepartedStep`,
`TokensStep`, `RowsStep`, `ReturnStep` and `ClaimMoves`).

`HoldIsKept` proves `Spec => HoldLasts`. A controller lifts a hold some statements after it
read it; `HoldInv` says that a snapshot of the row's present version knows the hold of the
row, and that whoever is about to lift one found it due. Every edit of a hold raises the
version (`PolicyStep`), so a lifting under an older snapshot finds nothing.
`PolicyIsRespected` proves `Spec => RequestRespectsPolicy`. `RequestInv` says of a
controller on its way to the PATCH, and of a call it gave up on, that as long as its claim
is in the row its target is allowed by the row: admins who change what allows it take the
claim away in the same statement (`RecordStep`, `ZombieStep`). `ClaimReleased`, which is
liveness, is model-checked only.

## PowerPrices: what the price decides

`PowerPrices.tla` has `resolvePowerDecision` with `validatePricePolicy` and
`validPrice` (`powerPolicy.ts`) and the `sameSelection` of `powerController.ts` as
operators on a record of inputs. Amounts are integers, as in the code (millionths of
DKK); what `sound` and `fits` stand for is form only. A latch is either of these rules
or it is dropped, and the returns that do not look at prices carry it.

| Theorem (in `PowerControlProofs`, for all inputs) | Why it could fail |
|---|---|
| `LatchesExclude` | cap and boost are latched by different prices, at different times; only the check that the release bands do not touch keeps them apart |
| `DecisionIsStable` | dispatch decides a second time under the latch the first decision left; if that alone could change the selection, a node at a threshold would never be written |
| `HysteresisSeparates` | the release is compared under a latch that other returns have to carry |
| `RaiseNeedsCheapPrice`, `InvalidRulesOnlyLower` | missing, outdated or foreign prices, and rules that no longer validate, take other paths to a mode |

The first two and the fourth are also evaluated on small amounts by the `ASSUME`s of
`MCPowerControl`, with a witness that each case occurs.

`PowerDecisions.tla` extends both modules: `InputOf` is `controllerDecisionInput`, which
makes the resolver's input of a snapshot, and `Contexts` are the rules, prices, latches and
instants it may meet. `DecisionsAgree` ties the resolver to `PowerControl`, whose `Decision`
leaves prices out. At every decision of a controller (`Decided`: its selection, the fresh read
under the claim, the row read again before the write) and in every context,

- where `Decision` names nothing the resolver names nothing, where it names a mode valid rules
  name one, both say "manual" in the same states, and without rules they name the same mode
  (`SameControl`). What is proved of `PowerControl` for any schedule hence holds under the
  price rules too;
- a price decides only while it counts, and goes above the timetable only under valid rules
  for a cheap, uncapped price; a latch of other rules is as none; and a decision repeated
  before the write, under the latch the first one left, is the same (`SoundPrice`).

`pc_live` checks it on `FewContexts`: prices below, at and above both thresholds and releases,
with no latch, one of each kind or one left under earlier rules, at an instant of the price
and at its end, under rules of which some fail validation. The theorem `ResolverAgrees`
proves it for any contexts. Of the reachable states it needs only that snapshots are well
typed; the rest is a comparison of the two decisions case by case (`Says`, `RulesDecide`) and
the theorems above.

## Timetables: windows on a local clock

`Timetables.tla` has the weekly timetable of `powerPolicy.ts` (`occupiedMinutes`,
`scheduledModeAt`, `localBoundary`, `scheduleBoundaryInstants`) and the arithmetic of
`utils/schedule.ts` (`offWindowContains`, `nextTimeOccurrence`). The time zone is a
function `Wall` from instants to local minutes. It is even (`EvenClock`), or it skips
and repeats minutes (`LocalClock`: it never goes back over midnight, a day ends with its last
minute and no instant is more than a day ahead, which is true of zones in use today). The lengths of a
day and a week are constants: no definition depends on 1440 or 7 but through them.

The module ends with what the arithmetic promises, against plain reference definitions.
`VmSchedulerProofs` proves it for all windows, days, weeks and clocks of the kind named, in the
theorems in brackets; `MCPowerControl` and `MCVmScheduler` also evaluate it for every pair
of windows, with days of four or five minutes in weeks of two or three days, over two to six
days, on clocks that meet the definitions (`ClocksHere`):

- `ModeFollowsMinutes`: on an even clock the mode is that of the window that
  occupies the minute (`ModesFollowMinutes`). Overnight windows belong to the day they start on;
- `ChangesAreBoundaries`: also where the clock skips a minute or repeats two, the mode
  changes only at the instants that `scheduleBoundaryInstants` lists. A drift hold ends at the next
  of those, so a boundary it left out would extend the hold (`BoundariesAreComplete`);
- `OffWindowIsOwned`: an off window claims the minutes that the same window of a
  timetable would (`OffWindowsAreOwned`);
- `SkipEndsWithWindow`: on an even clock a skip asked for during a window ends with it
  (`SkipsEndWithWindow`).
  Where `start_time` falls into the hour that spring skips it lasts a day longer: the scan looks
  for the minute itself (`utils/schedule.ts:90`), where `localBoundary` takes the next
  one that exists. Against its comment ("strictly after") the scan may also return the instant it
  is given.

A definition by the least or the latest instant that satisfies something is reasoned about
through the least counterexample (`WFMin` of the library), so the provers never
instantiate an induction rule.

## VmScheduler: one VM's nights

`VmScheduler.tla` models `runScheduleTick`, `claimAndRunAction`, the graceful
stop and the start in `proxmox.ts`, the schedule routes and the lock of
`withMigrationSafeSchedule`, for one VM on a few nodes.

| Model | Code |
|---|---|
| `row` | the `vm_schedules` row: configuration (`gen` stands for `updated_at`), skip and flags |
| `now`, `OffPhases`, `StartPhases` | time as phases, the unit in which windows differ; `offWindowContains` and `nextTimeOccurrence` as sets of phases (their arithmetic is in `Timetables`) |
| `tick` | a tick between its listing, its read of the rows and its write of the flags |
| `act` | the one action in flight (`inFlight`), from its claim to its record |
| `tasks`, `vm`, `loc`, `migration` | Proxmox's tasks for the VM, its status, its node, and a pending migration |
| `userStart`, `doneStop`, `stopper` | histories that the properties read |

A phase is longer than a tick: a tick and each step of an action meet at most one
boundary. The code's tick is a minute and its stop two, while windows are hours. A
shutdown task may succeed, fail or be ignored by the guest.

| Run | Instance | Shows |
|---|---|---|
| `vs_safe` | one night between two days, three phases, two nodes, one edit or skip, one user start or stop, one failed call, one migration, one exit, fairness | `NoActionDuringMigration`, `FlagsBelongToWindow`, `ClaimHonoursRow`, `OneStopPerWindow`, and `StoppedInWindow`: in the end the VM is stopped or overridden |

A window with its start and its end is where an action or a flag can outlive what it was
decided on; one event of each kind is enough to put each between a read and its
write. With the windows night and noon, and with a fourth phase that is the next night (one fault), the
four safety properties were checked as well and hold.
`StoppedInWindow` does not hold with the fourth phase. A start is decided at the end of
one window and claimed when the next has begun (the claim checks the row, not the time);
it lands after a tick has listed the VM as stopped. That tick books the window as stopped,
and the next takes the scheduler's own start for a manual one. It needs a
time between two windows that is shorter than a tick's delay.

Fairness is weak: of the tick (a timer that is set
again in `finally`), of the action's steps (its waits have deadlines), of Proxmox's
stop task, and of the restart of a process that is stopping. The guest need not obey
a shutdown.

Two statements of the code's comments are not kept; they are properties of
`MCVmScheduler`, and TLC refutes both without any user, edit, move or fault on one
node: `OverrideWasStart` with `MaxPhase = 1` (the listing is read before the rows, so a
stop that completes in between looks like a manual start) and `SleeperIsWoken` with `MaxPhase = 2` (a
tick that cannot start the VM because its stop still runs has used the edge up; a crash
between the edge and the request does the same).
Also in the model, without a run: the user who starts the guest during the
graceful stop is overruled by the forced one (`proxmox.ts:757`, against
`README.md:130`); one failed status poll forces the VM off at once
(`proxmox.ts:756`); a skip asked for on a day the mask leaves out is used up the
next morning (`utils/schedule.ts:86`).

`VmSchedulerProofs.tla` proves `TypeOK`, `NoActionDuringMigration`,
`FlagsBelongToWindow` and the action properties `ClaimHonoursRow` and `OneStopPerWindow` for all schedules,
nodes and bounds. The invariant `IInv` adds to the first two that the flags an
action carries and those a tick has computed belong to the window they were
computed in (`CarriedOk`, `TickReadOk`), that a stop on its way to its claim was due
by its snapshot (`StopWasDue`), and that a lock holder and the VM are where the row
says (`Placed`).

`OneStopPerWindow` compares a stop with one that was booked earlier, between which rows may be
edited, skipped and read by a tick that started before. `StopInv` adds `TimesInv`, which
orders the instants at which the tick and the action looked at the clock, and `BookedInv`:
the row keeps a booked stop for as long as it keeps the configuration under which it
was booked and the window lasts (`Keeps`), and a tick that read the flags as they now stand
read them late enough to have seen it. `StoppedInWindow`, which is liveness, is
model-checked only.

Its last section proves what `Timetables` promises (above), since both schedules read it.
## VmLease: one VM's lease

`VmLease.tla` models `runLeaseSweep`, `renewLease`, `updateLease`, `backfillLeases` and
`createLeaseRow` (`utils/leases.ts`) for one VM, with the listing and the probe of
`proxmox.ts`, migrations, deletion, provisioning and what users do to the guest.

| Model | Code |
|---|---|
| `row` | the `vm_leases` row: its id, node, duration, expiry, exemption and mark |
| `now` | time as phases; a lease runs out between two of them |
| `vm`, `loc`, `asked`, `pending` | the guest's status and node, a shutdown Proxmox has accepted, a pending migration |
| `sweep[s]` | a sweep: the lease as last read, the guest as listed, and how far its turn is |
| `sent`, `touched`, `started` | histories of a turn: a shutdown accepted, an edit of the lease under the turn's lock, a start of the guest after it was listed |

The listing may be up to five seconds old (`getAllVMs` caches), so `List` may keep the
guest as it was at `Select`. A host that does not answer is missing from it. The lock is
shared among sweeps and routes; migrations and deletions take it exclusively.
Left out: the settings, the view for the pages, leases under bare node names, a host that
is no longer registered, a guest that drifts within its cluster.

| Run | Instance | Shows |
|---|---|---|
| `vl_safe` | the timer's sweep and an admin's, two nodes, three phases, a duration of one, two events (edit, start, stop, migration, new guest, failed call, crash), fairness | `ExpiredIsOver`, `ShutdownIsJustified`, `MarkedGuestIsDown`, `DueIsSettled` |

Three phases let a lease run out, be renewed and run out again; two sweeps are what a mark
under another's eyes needs; a renewal and a failure, or two edits, fit in two events.
Fairness is weak: somebody starts a sweep while a lease is due (the timer), each sweep that has
begun goes on (its calls have timeouts) and a migration settles.

In the model, without a run:

- starts by users and by the scheduler do not look at the lease, so a guest started
  after the listing may be marked while it runs; no later sweep looks at it again
  (`started` sets this aside);
- a shutdown may be sent although the lease was renewed within the turn (`touched`);
  `leases.test.ts` accepts this ("renewed during shutdown execution");
- a guest that is removed in Proxmox itself leaves its lease behind, and
  `createLeaseRow` keeps it for the next guest with that id, where `README.md:88` says
  that a new VM gets a lease of its own.

`VmLeaseProofs.tla` proves `TypeOK`, `ExpiredIsOver`, `ShutdownIsJustified` and
`MarkedGuestIsDown` for all nodes, sweeps, durations and bounds. The invariant `IInv` adds
`LeaseNamesNode` (without a pending migration the lease names the node of its guest) and
`TurnsAreTrue` (what a turn under the lock has read is still so, or the lease was edited
or the guest started since). A sweep asks and marks on what it read earlier, so neither
property is inductive without them. `DueIsSettled` is model-checked only.


## VmMigration: one VM between hosts

`VmMigration.tla` models the start route, `pollMigration`,
`refreshRunningMigrations`, `completeRemoteMigrate`, `relocateDisks`,
`runAdoptMigration` and both `finalize` functions of `routes/migrate.ts`; the
reconcile, resolve and removal routes of `routes/operations.ts`; policy writes and
the deletion of a VM under lock 206; and `reconcileInterruptedOperations`.

| Model | Code |
|---|---|
| `rows`, `latest`, `refs` | `vm_migrations`, its identity column, and the node named by the nine tables `repointVmRowsInTransaction` updates in one transaction |
| `work[k][i]` | where the request, poller, disk moves, adopt job or listing of migration `i` is |
| `relocs` | `pendingRelocations`; the keys of `relocationsInFlight` are the relocators that are not idle |
| `policy`, `deleter` | a holder of lock 206, shared and exclusive, between its lock, its check and its effect |
| `task`, `conf`, `guarded`, `home` | Proxmox: the task, which hosts have a configuration of this VMID, which of these are protected, and where the VM lives |
| `leftover`, `timedOut` | histories: which migration left a configuration on which node; pollers that gave up |

Remote calls may be refused, succeed, or take effect with their answer lost: so may
the deletion of the VM, which then ends with its rows in place, and the archiving of
an adopted VM's source, which then counts as kept. A restart forgets all workers and
locks. A migration starts on the host where the VM lives, or on one an earlier
migration has moved it from: the route resolves the source from a cached listing, long
before the claim (`migrate.ts:927`), and such a migration finds nothing to move. The
copy that a kept source leaves behind is not migrated itself. Bare node
names of old rows, the contents of the disk plan and the step notes are left out; one
policy writer stands for the several that may share the lock; the removal of a
leftover by `cleanup-source` is one step.

| Run | Instance | Shows |
|---|---|---|
| `mg_safe` | three interchangeable hosts, two migrations, one poller that gives up, one restart | `OneMigration`, `HoldersExcludeMigration`, `RefsFollowGuest`, `TrackedLeftoverIsSafe`, `RelocationOwnsOutcome` |
| `mg_live` | two hosts, one migration, fairness | `Settles`: a running migration is settled or put up for review |

Three hosts and two migrations are the least with which a leftover of the first can
be forgotten because of the second (the mutant `LocatedByLatest` needs exactly
that), and with which a VM comes back to where it was. `RefsFollowGuest` leaves out
behaviours in which a poller gave up, for it does not hold there (below).
Fairness is weak: of each worker's next step and of the end of every Proxmox task.
It assumes that the database answers while the first steps of a job are seeded
(`migrate.ts:1166`): an error there leaves an adoption running without a job until
the next restart.

`FailedIsFailed` of `MCVmMigration` is refuted with two hosts, one migration and one poller that
gives up. The comment above the poller says that after six hours
the status check still finalizes; but giving up sets the row to `error`, and the
status check looks at running rows only.
Also in the model, without a run: `CHANGELOG.md:683` says that the leftover of an
adoption can never be destroyed through the portal, but the refusal rests on the
migration's row, which removal of tracking and the 90-day retention delete
(PVE's protection flag, when it could be set, still refuses); and an adoption that
fails after the target was created leaves two configurations on the same disks.

`VmMigrationProofs.tla` proves the three invariants and both action properties for
all nodes and bounds, in four layers, each inductive relative to those before it.

- `IInv` is `TypeOK`, `OneMigration` and `HoldersExcludeMigration`. Together they are
  inductive: a claim needs the lock and no pending migration, and no other step makes
  a settled row pending (`Shrinks`) or lets a holder past its check (`HoldersKept`);
  `Kept` says that this is enough, and each action shows the two.
- `WInv` says what the workers of one migration may rely on (`MigrationOK`): until the
  request has saved the task's identifier nothing else works on the migration; an
  adopt job has its row running; a watcher about to record success has seen the task
  succeed, and one about to record failure has seen it fail, or is a poller that gave
  up while no disks are being moved. `OneStep` reduces a step of migration `i` to
  `MigrationOK(i)'`. `RelocationOwnsOutcome` and the second part of `RefsFollowGuest`
  follow.
- `PlacesOK` relates the rows to the VM: while no poller has given up, an open
  migration has the policy rows on its source, and how far its task or adopt job has
  come says where the VM is (`HomeOK`); without an open one, or with one that was
  claimed on a node the VM had left and so cannot move it (`Stale`), the rows name the
  VM's node. This is more than `RefsFollowGuest`, whose premise `home \in conf` is not needed.
- `LInv`: where migration `j` has left a configuration, the VM does not live and no
  later migration has arrived or is about to (`Unmoved`), because an arrival needs a target without one. So the
  newest recorded migration that names the node is `j` itself, and its target is
  another node: `Located` is false and `DeleteCheck` refuses (`LocatedFinds`; that
  there is a newest one, `Newest`, rests on the well-foundedness of the naturals).

TLC checked `WInv`, `PlacesOK` and `LInv` on the instance of `mg_safe`, and an earlier
form of them on two hosts with three migrations up to a depth of 30. That
second instance showed that a history of nodes alone is not enough: a leftover whose
own migration is no longer on record can be destroyed while an older migration, which
also left one there, removed since, still is. `leftover` therefore names the migration.
`Settles` is model-checked only.

## Provisioning: quota, VMID and owner

`Provisioning.tla` models a job from its submission (`provisionOwnership.ts`,
`vmidAllocator.ts`, `quota.ts`, `getNextVmid` and `withFreshVmid` in `proxmox.ts`)
through its poller (`routes/provision.ts`) to its owner's assignment, the operator's
reconcile, resolve and clean-up routes, the deletion of VMs, assignments and users,
shutdown and restart. It covers the three kinds of job: built from scratch, cloned,
from an image.

| Model | Code |
|---|---|
| `row[j]` | the row of job `j` in `provisioned_vms`: status, VMID, whether the task is saved, ownership |
| `req[j]`, `poller[j]` | where the request and the background work of the job are, the VMIDs a retry has used up |
| `reserved`, `accepting` | `vmidReservations` and the flag of `backgroundWork.ts`, both lost with the process |
| `guest`, `task` | which guest has a VMID in Proxmox, the task that builds it |
| `assign`, `users` | `vm_assignments` and the accounts |
| `deleting`, `adopting`, `checking` | a deletion whose guest is gone and whose rows are not; a recovery between its checks and its write; a status request that has read a row in progress and awaits its task |
| `byHand`, `reopened` | histories: what an operator marked failed; what came back without a second quota check |
| `shared` | history: jobs that picked a VMID under which their user still has an assignment |

A VM is one unit of quota; validation, disk sizes, role defaults and the contents of
a configuration are left out. A listing of the hosts is one step: what two hosts
report at different moments is covered by guests appearing between the listing and
the request. `Save` and `Spawn` are the two ends of the route's answer: the row has the
task and a status in progress before `startBackgroundWork` is called, and a shutdown in between
leaves it to the handler of the refused work. `GET /status/:id` reads the row before it asks
Proxmox and writes without a condition (`StatusRead`, `StatusRoute`), so it may put
`error` on a row that a poller or an operator has settled meanwhile. The reconcile route
(`routes/operations.ts:130-146`) is one step: its write compares the status it read,
and a failed task stays failed, so what it read still holds when it writes.

| Run | Instance | Shows |
|---|---|---|
| `pv_safe` | two interchangeable users, a clone and a build from scratch, four VMIDs, a quota of one, one event (crash, shutdown, foreign guest, deletion) | types, `OneJobPerVmid`, `QuotaHolds`, `FailedLeftNothing`, and `JobSettles` |

Two jobs are what a race for an id or for the last unit of quota needs. A clone keeps
its VMID open longer than a build from scratch, so each order of the two differs. Four VMIDs
are enough that a pick never runs out; the fairness is that a request and a poller run on
until they end, which the timeouts of the calls ensure.

Disagreements in the model, without a run of their own:

- The last writes of a poller do not look at the row's status (`routes/provision.ts:1247`): a job
  that the reconcile route or an operator has set to `error` meanwhile is open again, without
  a second quota check and perhaps under a VMID that a newer job has taken. A job whose
  assignment an admin removed may be recovered likewise. `OneJobPerVmid` and `QuotaHolds`
  set such jobs aside (`reopened`).
- `utils/quota.ts` counts a job and an assignment of its user under one VMID once. A job
  that picks an id whose guest is gone, while the assignment of the same user is still there,
  is therefore free of charge, and another request fits in. If Proxmox then refuses the
  id, the retry moves the job to a fresh one and the user is over the quota.
  `QuotaHolds` sets the users of such jobs aside (`shared`). Without that TLC refutes it
  with one user, three builds from scratch, a quota of two and two events (a deletion whose
  rows remain, a foreign guest); it came up when the invariant was made inductive.
- `CHANGELOG.md:1042` says that the records of a deleted VM go "in the same operation"
  as the VM. They go in a later transaction, which may time out on its lock or never
  run: with `MaxEvents = 2` TLC refutes `AccessFollowsGuest` of `MCProvisioning`. A
  second job is built under the id, still assigned to the owner of the deleted VM.

`ProvisioningProofs.tla` proves `TypeOK`, `OneJobPerVmid`, `FailedLeftNothing` and
`QuotaHolds` for any users, jobs, kinds, VMIDs, quota and number of events. A pick is
checked against rows, reservations and a listing of guests at one moment, and the row, the
guest and the assignment change hands at others. The invariant `IInv` adds

- `JobsOK`, of every job: a request works on a row that is submitting or gone; a poller or
  an operator takes over once the request has ended; an owner is recorded only under
  a VMID. `CheckOK`: a status request looks at jobs whose task is saved, so the `error` it
  writes never lands on a request that is still choosing an id. `GuestOK` and `AssignOK`: a guest's task did not fail, and an
  assignment is of a job whose request is over;
- `OwnedOK` and `SharedOK`, of users none of whose jobs was reopened: the VMID of an open
  owned job is assigned by that job, and that of an open job without an owner is not
  assigned to its user, unless it is `shared`.

The charge of a user is the size of a set, so a step has to be shown not to enlarge it.
All actions but the insertion of a row and the pick of a VMID are `Quiet`: they
drop rows or assignments, move one job's row without opening it, or hand one job's
unit over from its row to its assignment; one lemma shows that a quiet step charges
nobody more. TLC checked `IInv` with two interchangeable users, two jobs and two
events (3.3 million states) before it was proved. `JobSettles`, which is liveness, is model-checked only.


## FirewallSync: a VLAN and a port forward on a FortiGate

`FirewallSync.tla` models the routes of `routes/admin.ts` that sync, unsync and delete a
VLAN, create and delete a port forward and delete a firewall, together with what
they run: `runWorkflow`, its rollback and `teardownArtifacts` (`workflows/engine.ts`),
`runBundle` and `teardownForGoneTarget` (`workflows/runner.ts`), the steps of the
default workflows (`definitions.ts`, `catalog.ts`). Each call to the firewall and
each transaction is an action.

| Model | Code |
|---|---|
| `fw`, `vlan`, `sync`, `fwd` | the rows of `firewalls`, `vlans`, `firewall_vlan_sync`, `managed_vips`; the last two carry their `created_artifacts` |
| `live` | objects on the FortiGate: the VLAN's interface, the forward's VIP, and policies by the request that created them |
| `req[r]` | where a request is, the artifacts it created or has yet to remove, the row it read |
| `left`, `raced` | histories: objects whose removal failed or whose creation was never answered; objects whose row another request took |

| Run | Instance | Shows |
|---|---|---|
| `fs_safe` | four requests of any kind in any interleaving, one failed call, lost answer or crash | `ForwardHasSync`, `NothingLiveUnrecorded`, `DeletedLeavesNothing` |

Four requests are a sync, a forward into it, and two that remove or create again
around them. Fairness: a request that was started runs to its end. Deadlock checking
is off, for the system stops when all requests are done.

`FirewallSyncProofs.tla` proves `TypeOK` and `ForwardHasSync` for any number of requests and failures:
`RecordForward` needs the sync row and `DropSync` a missing forward, both under the
same row locks, and no other step removes a sync, a VLAN or a firewall that a row
depends on.

`ObjectsAreOnRecord` proves `Spec => []NothingLiveUnrecorded`. Its invariant `OInv` says that
every live object is in an artifact list of a row, or held: created by a request that
is still running, left, or raced (`Held`). A row lists objects of one request only
(`RowsOfRequests`). `RequestsOK` says of a request in each phase what it still has to record or
to remove; of one that clears or tears a row down, that what the row lists
and the request does not was removed (`ClearOK`, `TearOK`).
`NothingOutlivesItsOwner` follows: once the firewall or the VLAN is deleted there are no rows, so
when no request is creating any more only what was left or raced is live. That the
requests do end is liveness, hence `DeletedLeavesNothing` is model-checked only.

`NothingLiveUnrecorded` sets aside three races between requests of the same kind, for
which the code has no answer (`raced`; without it, `NothingLeftBehind` of
`MCFirewallSync` is refuted in eight steps):

- two syncs of one VLAN both pass the check, both create, and the second fails on the
  unique index when it records: that error is not treated like a missing target, so its
  policy stays live without a record;
- the same for two forwards of one name, whose objects the second created meanwhile;
- a slow unsync removes the sync row by VLAN and firewall, and a slow deletion of a forward
  its row by name, also when that row is of a later request than the one they read.

## PaymentCapture: a one-off payment

`PaymentCapture.tla` models `captureOneOff`, `ingestOneOffCapture`,
`ingestCaptureRefund`, `reconcileUncertainCapture` and `processPaypalInbox`
(`services/paypal.ts`), the receipt (`paypalLedger.ts`), the placeholder that says
whether the refunds are all on record (`paypalCoverage.ts`), holds
(`paypalPaymentStates.ts`) and the operator's review (`paypalReview.ts`), for one order.

| Model | Code |
|---|---|
| `order`, `cap`, `fee`, `refund` | PayPal: the order, its capture, whether the fee is reported, the refunds |
| `intent` | `paypal_intents`: status and `capture_attempts` |
| `receipt`, `posted`, `cover` | rows of `paypal_transactions`: the capture, the refunds, `adjustment:<capture>` |
| `hold`, `inbox` | the capture's row of `paypal_payment_states`; `paypal_webhook_inbox` |
| `wrk[w]` | a run of a request, of the inbox or of the reconciliation, with what it read |

Every refund is one unit of an amount that is the number of refunds. Subscriptions,
reversals, disputes and foreign currencies are left out.
A repeated delivery changes nothing, since the inbox has one row per event.

| Run | Instance | Shows |
|---|---|---|
| `pay_safe` | two workers, one refund, one request, two failed calls, lost answers or crashes | `LedgerFollowsPayPal`, `FailedTookNothing`, `OneWorkerPerEvent` |
| `pay_live` | one worker, one failure, fairness | `CaptureIsPosted`, `RefundIsRecorded` |
| `pay_hold` | two workers, no failure | the finding below |

Two workers are what a race needs; a third only repeats one of the two.
Fairness: the steps of a run, the timers that start one, the delivery of a webhook or its
recovery by `recoverPaypalEvents`, and the requeue of an event after ten minutes. The
start of a run is strongly fair, because the few workers of an instance stand for
runs that never wait for each other.

The code waits ten minutes twice, and the model assumes that what it waits for is over by then:

- A row in `capturing` counts as uncertain (`Uncertain`) once the request that claimed it has
  its answer. The capture is a POST that is sent once and cut off after 15 seconds
  (`paypalClient.ts:51`).
- An event in `processing` is requeued (`Stale`) once nobody processes it any more. The code
  compares `processing_at` only. A run makes three calls and one for each refund in the order, of
  15 seconds at most; but a GET that PayPal throttles is sent up to three times with a minute
  between, so a run of four throttled calls may pass ten minutes. Such a run is set
  aside. Only `OneWorkerPerEvent` rests on that: with `~Running(e)` removed TLC
  finds `LedgerFollowsPayPal` and `FailedTookNothing` to hold on the instance of
  `pay_safe` (11.2 million states with the workers interchangeable), and both properties of
  `pay_live`.

The refunds of an order are read in one call and then one by one, each posted before the
next is read (`List`, `ListedRefund`, `PostListed`): other runs and refunds fall in between. A
second refund, and with it `PARTIALLY_REFUNDED`, is too much for `pay_safe` with failures;
without any, TLC was run once with two (8.7 million states up to symmetry).

Finding `HoldIsClosed` (`pay_hold`): `paypalPaymentStates.ts:54` says that a PENDING
that arrives after the receipt was recorded must not reopen a hold. The receipt is
looked up in one statement and the hold written in another; a COMPLETED event processed in
between by another run leaves the hold open for good.

Not kept either, and without a run: the placeholder of a payment that PayPal reports as
refunded in full can be marked resolved on the strength of an older status. With `Refunds
= {r1, r2}` and no fault TLC refutes `RefundedIsCovered` of `MCPaymentCapture`: a run
that counted the refunds under `PARTIALLY_REFUNDED` marks the row after another has
written `REFUNDED` into it (`markPlaceholder` in `paypalCoverage.ts` names the row only). It is
right again once that other run marks the row, unless it dies first.

`PaymentCaptureProofs.tla` proves `TypeOK`, `OneWorkerPerEvent`,
`LedgerFollowsPayPal`, `FailedTookNothing` and `VerifiedIsPosted` for any number of
refunds and workers. None of the last three is inductive, because a run writes what it
read some steps before. The invariant `IInv` (checked by TLC first) adds

- `EvidenceHolds`: an event in the inbox, and a refund at PayPal, tell of a capture that is
  decided for good, since PayPal never takes a decision back;
- `LedgerHolds` and `StatusHolds`: what each row says of the capture, including that
  `verified` needs a posted receipt;
- `SeenHolds` and `ListHolds`, of every run: what it has read is still true when it writes. Evidence
  only grows, so a step of another run, of PayPal or a failure keeps it (`OneMoves`,
  `OthersWritten`).

## MonthAllocation: what the money pays for

`MonthAllocation.tla` has `allocateMonth` and `recalculatePaypalAllocations`
(`paypalAllocation.ts`). A recalculation is one transaction under one advisory lock, so
it is a function from the rows, the sources and the last month to the rows. A row keeps
its source where the code keeps a fingerprint of it. The limits on the number of sources
and of months are left out.

Proved for any amounts (in `PaymentCaptureProofs`): `MonthAddsUp` (a month's money is applied or left, and its cost
is shared), `LossCountsOnce` (a loss is the owner's of that month and is not
carried), `UnknownStaysUnknown`. The same module proves what a recalculation of any number of months does to a
ledger (`Ledger`: a sequence of revisions per month, each with what its own source allocates):

- `RecalculatedIsCurrent`: whatever was recalculated before, the latest revision of every
  month is that of the present sources and opens with what the month before leaves; no earlier
  revision is rewritten, and the months are a ledger again;
- `RecalculatingSettles`: a second recalculation adds nothing, although a source names the
  row of the month before, so a new revision early on is one everywhere after it;
- `HistoryIsNoMoney`: what the months say does not depend on earlier revisions;
- `MoneyAddsUpOverMonths`: once all months are settled, what came in and what the owner made
  up is what was applied and is left. Its totals are any functions that add month by month. It assumes that
  amounts are integers, that a month's postings add up to one, and finitely many
  unresolved events (`IsSource`).

The loop is a recursive function. `LoopEnds` shows that there is one, `LoopCloses` what each turn
leaves, by `IntervalInduction`: an induction over a set of months, itself proved from the
least counterexample. `MCPaymentCapture` evaluates the same statements on three months
with up to two postings, a late revision of a statement and an unresolved event each
(`MonthsAddUp`, `RecalculationSettles`).

## SitePublish: a published website

`SitePublish.tla` models `routes/websites.ts` for one site: the publish flow, the
maintenance pass with its four parts (revoke what the owner may no longer use, finish
revocations, repair routes, probe), save, retry, removal and the switch of a Caddy server
between API and file mode, with the snippet lock of `syncServerSnippet`, the calls of
`utils/caddy.ts` and `utils/caddySnippet.ts`, and the certificate's slot in the firewall's
inspection profile.

| Model | Code |
|---|---|
| `site` | the row of `caddy_sites`: a status (with the details that tell a revocation's stages apart), the upstream, whether `cert_name` is set |
| `allow`, `ssh` | upstreams that `siteUpstreamAllowed` lets the owner use; the server's mode |
| `route`, `snip`, `slot` | what Caddy's API route and the snippet's block dial; the certificate on the profile |
| `lock`, `job[j]` | the holder of the snippet lock; a save, retry, flow, pass, removal or switch and what it read |
| `astray` | history: the ways past the checks described below |

Everything runs in one process and interleaves at each `await`. A crash loses all of it; flows
are not resumed, and `recoverClaimedReleases` undoes a claim. A save and a retry read the row,
check the upstream (`Validate`; an administrator's save is not checked) and write the row in
steps of their own. A deploy that fails may have left its snippet in place, and one cut at
the SSH deadline may have reloaded Caddy and dropped the API routes (`Cut`). One site of one
owner who is no administrator, with a certificate and a profile of its own; sites that share a
certificate, wildcards, the inspection bundle, imports, reassignment and the
re-sync of a server that keeps its mode are left out. A stored SSH credential is assumed. Failed writes of
the database within a flow, and of the server's row at a switch, are left out.

| Run | Instance | Shows |
|---|---|---|
| `web_live` | one upstream, two jobs, one save, retry, removal or switch, two events (access, reload, failure, crash), fairness | types, `RevokedHoldsNothing`, `RevocationHolds`, `DeniedComesDown`, `PublishedIsServed` |

The invariants were also explored with two upstreams, two requests and two events under
`Symmetry` (11 million states, nothing found); the run keeps to one upstream to finish
with its liveness. Fairness: a job's next step (every call has a timeout), and the
timer of the maintenance pass.

`RevokedHoldsNothing` says of a site whose revocation is over that nothing of it is left. It
holds but for the ways that `astray` records, and needs every one of them:

- `cut`: the process dies, or the read of the row fails, after a push or an attach and
  before the check that would arm the revocation again;
- `cert`: a save writes the `cert_name` it loaded over the one a flow found meanwhile, and the
  release no longer knows the slot it has to free;
- `mode`: a pass that loaded the server before its switch to file mode cleans through the API and
  leaves the snippet's block;
- `passes`: the timer starts a pass while the last one runs, and neither the claim
  nor the cleaning tells them apart.

So an overlap and a stale mode are described here and not caught by the
property.

`SitePublishProofs.tla` proves `TypeOK`, `RevocationHolds` and `RevokedHoldsNothing` for any
upstreams, jobs and bounds, in two layers, each checked by TLC first (two upstreams,
one request, two events: 1.5 million states).

- `Base` adds to the types what the place of a job says of it: who holds the snippet lock
  (`JobsOK`), which mode a job that loaded the server goes by (`ModeOK`), and that passes do
  not overlap unless `astray` says so (`OnePass`). `TypeCorrect` and `RevocationsHold` follow.
- `Deep` says why nothing is left of a revoked site as long as nothing went astray: a route,
  a block or a certificate that a site being released still has is of a job that has
  yet to check the row, and will find it revoked, or of a pass that has yet to clean
  (`RouteOK`, `SnipOK`, `RepairOK`, `SlotOK`), and a row that has lost its `cert_name` has
  no slot (`CertOK`). A job's step disturbs one of these at most; for the others
  it is shown to be quiet (`Mild`, `Calm`).

`DeniedComesDown` and `PublishedIsServed`, which are liveness, are model-checked only.

Further disagreements in the model, without a run:

- the flow pushes the upstream it first read although both its checks read the row
  again, and a repair only looks for a missing route. A save that a crash cuts between its
  two updates leaves the route on the old upstream: TLC refutes `RouteFollowsRow` of
  `MCSitePublish` with two upstreams in thirteen steps;
- a flow or a repair that pushes after the removal of its site leaves a route nobody owns;
- save and retry check the status before they write it, so a claim made in between is
  overwritten, against the comments at `websites.ts:647` and `1606`; the claimer then
  releases a certificate that the new flow attaches;
- a pass that fails between its claim and the write that ends it leaves the row
  claimed, and saves refused, until the next restart.
## Plan

| State | Module | Composes with | Abstract | Theorems proved | Next |
|---|---|---|---|---|---|
| done | `PowerControl` | `NodeLease`, `PowerPrices` | `NodeLease` | types, all five safety properties | the dwell before an upshift |
| done | `PowerPrices`, `PowerDecisions`, `Timetables` | `PowerControl`, `VmScheduler` | reference definitions | hysteresis, exclusion, stability, `DecisionsAgree`; modes, boundaries, off windows and skips | the search for the price that applies |
| done | `VmScheduler` | lock 206 | | types, all four safety properties | |
| done | `VmMigration` | lock 206 | | types, all five safety properties | a ledger none, running, review, settled it implements |
| done | `VmLease` | lock 206, users | | types and its three safety properties | leases under bare names, drift within a cluster |
| done | `Provisioning` | operations review | | types, all three safety properties | several units per VM |
| done | `FirewallSync` | workflows | | types, both safety properties | several VLANs of one firewall |
| done | `PaymentCapture`, `MonthAllocation` | webhooks, inbox | | ledger, failures, workers; a month, a chain of months | subscriptions, reversals and disputes |
| done | `SitePublish` | snippet lock | | types, both safety properties | certificates shared by sites |
| 1 | `PublicIp` (`routes/publicIps.ts`) | port forwards | a set of holders | | the edit reads the assignment and then writes the state; a release counts forwards before it deletes |
| 2 | `Telemetry` (`services/hardwareTelemetry.ts`) | `PowerControl` | `NodeLease` | | the collector's lease, and samples that arrive late |
| 3 | `Invite` (`routes/auth.ts`), second factor | | | | a token makes one account, a code is used once |
| 4 | `BackgroundWork` | provisioning, shutdown | | | drain waits for what was admitted |
| 5 | `PveHosts` (`services/pveHostLifecycle.ts`) | all that names a host | | | two deletions at once, and a deletion against what still uses the host |

Each run ends in a few minutes on small instances: two or three actors, one or two events
of each kind. Where a model also refutes something a comment promises, the disagreement is
stated in its section; a run of its own is spent on one of them, `pay_hold`.
## What is proved and what is only checked

All types and all safety properties of the passing runs are proved for every value of the
constants. Model-checked only is liveness, which depends on fairness and on when an action
is enabled: `ClaimReleased`, `StoppedInWindow`, `Settles`, `DueIsSettled`, `JobSettles`,
`DeletedLeavesNothing` (its safe half is `NothingOutlivesItsOwner`), `CaptureIsPosted`,
`RefundIsRecorded`, `DeniedComesDown` and `PublishedIsServed`. What the pure algorithms promise
(price rules, timetables, allocation) is proved for all inputs and evaluated on small ones. The sum of a
month's postings is left as it is: that integers add up to an integer is a fold over a set, which is assumed.

## Not modelled

Consoles, tag sync, notifications, audit, secrets, backups, database schema
migrations and the frontend are input and output without a protocol of their own.
Energy readings, tariffs and costs are calculations over intervals whose correctness is a
matter of decimals and units rather than of order; sign-in and sessions rest on single
conditional updates. Hardware telemetry, public addresses, invites and the second
factor are in the plan. The list of components in
`PROJECT.json` says of each part what is modelled and what is not.
