----------------------------- MODULE VmScheduler -----------------------------
(***************************************************************************)
(* The power schedule of one VM.                                           *)
(*                                                                         *)
(* A once-a-minute tick (scheduler.ts) lists the VMs, reads the enabled    *)
(* schedule rows and compares each VM with its OFF window.  It either      *)
(* rewrites the row's window flags or hands a stop or start to a           *)
(* background action, which claims the row by compare-and-set, holds the   *)
(* VM's shared migration lock, and talks to Proxmox for minutes.  Users    *)
(* edit, skip and delete the schedule and operate the VM meanwhile, a      *)
(* migration may move it, and the process may stop or crash.               *)
(*                                                                         *)
(* Time is a sequence of phases: a window boundary always lies between two *)
(* of them, never within one.                                              *)
(***************************************************************************)
EXTENDS Integers, FiniteSets

CONSTANTS
    Configs,       \* schedules a user may save (times, days, zone)
    OffPhases,     \* the phases inside an OFF window, per schedule
    StartPhases,   \* the phases that begin at start_time, per schedule
    Nodes,         \* Proxmox nodes the VM may live on
    MaxPhase,      \* bound: the last phase of time
    MaxEdits,      \* bound: schedule edits, skips and deletions
    MaxUser,       \* bound: starts and stops of the VM by its users
    MaxFaults,     \* bound: upstream requests that fail
    MaxMoves,      \* bound: migrations
    MaxExits       \* bound: process exits

Phase == 0..MaxPhase
Never == -1

ASSUME BoundsAssumption ==
    {MaxPhase, MaxEdits, MaxUser, MaxFaults, MaxMoves, MaxExits} \subseteq Nat
ASSUME NodesAssumption == Nodes # {} /\ Configs # {}
ASSUME WindowsAssumption ==
    /\ OffPhases \in [Configs -> SUBSET Phase]
    /\ StartPhases \in [Configs -> SUBSET (1..MaxPhase + 1)]
    /\ \A c \in Configs : MaxPhase + 1 \in StartPhases[c]

VARIABLES
    now,        \* the current phase
    row,        \* the vm_schedules row
    vm,         \* whether the guest runs, as Proxmox reports it
    loc,        \* the node the guest lives on
    tasks,      \* Proxmox tasks accepted and not yet carried out
    migration,  \* a vm_migrations row is running or needs_review
    tick,       \* the running schedule tick
    act,        \* the background stop or start of this VM
    stopping,   \* stopScheduler() was called
    edits, users, faults, moves, exits,   \* spent bounds
    stopper,    \* who stopped the guest (history)
    userStart,  \* the phase of the last start by a user (history)
    doneStop    \* edit and phase of the last recorded stop (history)

bounds == <<edits, users, faults, moves, exits>>
hist == <<stopper, userStart, doneStop>>
vars == <<now, row, vm, loc, tasks, migration, tick, act, stopping, bounds, hist>>

-----------------------------------------------------------------------------
(* Windows.                                                                *)

InOff(c, t) == t \in OffPhases[c]

\* s is the first member of S from t on.
First(S, t, s) == s \in S /\ s >= t /\ \A u \in S : u >= t => s <= u

\* nextTimeOccurrence: the next start_time of the clock, whatever the days mask says,
\* with the code's fallback.
NextStart(c, t) ==
    IF \E s \in StartPhases[c] : First(StartPhases[c], t + 1, s)
    THEN CHOOSE s \in StartPhases[c] : First(StartPhases[c], t + 1, s)
    ELSE t + 1

\* The phases from s to t lie in one OFF window.
OneWindow(c, s, t) == \A u \in s..t : InOff(c, u)

-----------------------------------------------------------------------------
(* The row and the two processes.                                          *)

Flags == [lastOff : -1..1, manual : BOOLEAN, stopped : BOOLEAN]
NoFlags == [lastOff |-> -1, manual |-> FALSE, stopped |-> FALSE]

Rows == [status : {"none", "off", "on"}, gen : 0..MaxEdits, cfg : Configs, node : Nodes,
         skip : 0..MaxPhase + 1, flags : Flags]

AnyRow == [status |-> "none", gen |-> 0, cfg |-> CHOOSE c \in Configs : TRUE,
           node |-> CHOOSE n \in Nodes : TRUE, skip |-> 0, flags |-> NoFlags]

IdleTick == [pc |-> "idle", seen |-> "stopped", at |-> 0, snap |-> AnyRow,
             seenOn |-> AnyRow.node]

\* kind, the row it was decided on, when, and the flags to claim with.
IdleAct == [pc |-> "idle", kind |-> "stop", snap |-> AnyRow, at |-> 0, flags |-> NoFlags]

Ticks == [pc : {"idle", "listed", "read", "write"}, seen : {"running", "stopped"},
          at : Phase, snap : Rows, seenOn : Nodes]
Acts == [pc : {"idle", "claim", "detect", "ask", "wait", "force", "waitForced", "start", "record"},
         kind : {"stop", "start"}, snap : Rows, at : Phase, flags : Flags]

\* The action holds the VM's shared advisory lock (206) from its claim on.
Holding == act.pc \notin {"idle", "claim"}
InFlight == act.pc # "idle"
Claiming == act.pc = "claim"

\* Mutants: the comparison leaves out a column.
SameConfigButSkip(s) == [row EXCEPT !.flags = s.flags, !.skip = s.skip] = s
SameConfigButNode(s) == [row EXCEPT !.flags = s.flags, !.node = s.node] = s

\* scheduleConfigurationMatches and scheduleSnapshotMatches: the row is the one read.
SameConfig(s) == [row EXCEPT !.flags = s.flags] = s
SameSnapshot(s) == SameConfig(s) /\ row.flags = s.flags

-----------------------------------------------------------------------------
(* Deciding, on the schedule s read, at time t, with the guest seen as     *)
(* seen.                                                                   *)

\* A window boundary lies between the row's last recorded state and t: the per-window
\* flags start anew.
Fresh(s, t) == InOff(s.cfg, t) <=> s.flags.lastOff # 1

KeptManual(s, t) == s.flags.manual /\ ~Fresh(s, t)
KeptStopped(s, t) == s.flags.stopped /\ ~Fresh(s, t)

Enforced(s, t) == s.skip <= t /\ InOff(s.cfg, t) /\ ~KeptManual(s, t)

\* Mutant: a stop is only tried on the edge of the window.
StopDueOnEdge(s, t, seen) == Enforced(s, t) /\ seen = "running" /\ Fresh(s, t)

StopDue(s, t, seen) == Enforced(s, t) /\ seen = "running" /\ ~KeptStopped(s, t)

\* Already stopped this window, yet running: somebody started it.
OverrideSeen(s, t, seen) == Enforced(s, t) /\ seen = "running" /\ KeptStopped(s, t)

StartDue(s, t, seen) ==
    s.skip <= t /\ ~InOff(s.cfg, t) /\ Fresh(s, t) /\ seen = "stopped"

NewFlags(s, t, seen) ==
    [lastOff |-> IF InOff(s.cfg, t) THEN 1 ELSE 0,
     manual  |-> KeptManual(s, t) \/ OverrideSeen(s, t, seen),
     stopped |-> KeptStopped(s, t) \/ (Enforced(s, t) /\ seen = "stopped")]

Action(s, t, seen) ==
    IF InFlight THEN "none"
    ELSE IF StopDue(s, t, seen) THEN "stop"
    ELSE IF StartDue(s, t, seen) THEN "start"
    ELSE "none"

Init ==
    /\ now = 0
    /\ \E c \in Configs, n \in Nodes :
          /\ loc = n
          /\ row = [status |-> "on", gen |-> 0, cfg |-> c, node |-> n, skip |-> 0,
                    flags |-> NoFlags]
    /\ vm = "running" /\ tasks = {} /\ migration = FALSE
    /\ tick = IdleTick /\ act = IdleAct /\ stopping = FALSE
    /\ edits = 0 /\ users = 0 /\ faults = 0 /\ moves = 0 /\ exits = 0
    /\ stopper = "none" /\ userStart = Never
    /\ doneStop = <<Never, Never>>

-----------------------------------------------------------------------------
(* The tick.  A VM its host does not report is passed over, as if the tick *)
(* had not run.                                                            *)

outside == <<now, vm, loc, tasks, migration, stopping, bounds>>

\* getAllVMs(): the guest's status is older than everything read after it.
TickList ==
    /\ tick.pc = "idle" /\ ~stopping /\ row.status = "on"
    /\ tick' = [IdleTick EXCEPT !.pc = "listed", !.seen = vm, !.seenOn = loc, !.at = now]
    /\ UNCHANGED <<row, act, outside, hist>>

TickRead ==
    /\ tick.pc = "listed"
    /\ tick' = IF row.status = "on"
               THEN [tick EXCEPT !.pc = "read", !.at = now, !.snap = row] ELSE IdleTick
    /\ UNCHANGED <<row, act, outside, hist>>

\* The schedule's turn in the loop: an action is queued, or the flags are to be written.
TickEvaluate ==
    LET action == Action(tick.snap, tick.at, tick.seen)
        passed == stopping \/ Claiming \/ tick.seenOn # tick.snap.node
    IN  /\ tick.pc = "read"
        /\ tick' = IF passed \/ action # "none" THEN IdleTick ELSE [tick EXCEPT !.pc = "write"]
        /\ act' = IF passed \/ action = "none" THEN act
                  ELSE [IdleAct EXCEPT !.pc = "claim", !.kind = action, !.snap = tick.snap,
                           !.at = tick.at,
                           !.flags = NewFlags(tick.snap, tick.at, tick.seen)]
        /\ UNCHANGED <<row, outside, hist>>

\* Mutant: a migration is not asked about.
GateAnyTime(s) == ~stopping /\ SameSnapshot(s)

\* withMigrationSafeSchedule: no migration is pending and the row is unchanged.
Gate(s) == ~stopping /\ ~migration /\ SameSnapshot(s)

TickWrite ==
    /\ tick.pc = "write"
    /\ row' = IF Gate(tick.snap)
              THEN [row EXCEPT !.flags = NewFlags(tick.snap, tick.at, tick.seen)] ELSE row
    /\ tick' = IdleTick
    /\ UNCHANGED <<act, outside, hist>>

-----------------------------------------------------------------------------
(* The background action: claimAndRunAction, scheduledStopVM,              *)
(* scheduledStartVM.                                                       *)

world == <<now, loc, migration, tick, stopping>>

ActGoto(pc) == act' = [act EXCEPT !.pc = pc]
Fault == faults < MaxFaults /\ faults' = faults + 1
NoFault == faults' = faults
ActStep == UNCHANGED <<world, edits, users, moves, exits, stopper, userStart>>

\* Proxmox accepts a task; on a guest that does not run there is nothing to stop.
Submit(t) == tasks' = IF t = "start" \/ vm = "running" THEN tasks \cup {t} ELSE tasks

ActClaim ==
    /\ act.pc = "claim"
    /\ IF Gate(act.snap)
       THEN row' = [row EXCEPT !.flags = act.flags] /\ ActGoto("detect")
       ELSE row' = row /\ act' = IdleAct
    /\ UNCHANGED <<vm, tasks, doneStop>> /\ NoFault /\ ActStep

\* detectGuest: nothing to do when the guest is already where it should be.
ActDetect ==
    /\ act.pc = "detect"
    /\ \/ /\ act.kind = "stop" /\ NoFault
          /\ ActGoto(IF vm = "stopped" THEN "record" ELSE "ask")
       \/ /\ act.kind = "start" /\ NoFault
          /\ IF vm = "running" THEN act' = IdleAct ELSE ActGoto("start")
       \/ Fault /\ act' = IdleAct
    /\ UNCHANGED <<row, vm, tasks, doneStop>> /\ ActStep

\* The graceful request is accepted, refused, or carried out with its answer lost.
ActAsk ==
    /\ act.pc = "ask"
    /\ \/ Submit("shutdown") /\ NoFault /\ ActGoto("wait")
       \/ /\ Submit("shutdown") \/ tasks' = tasks
          /\ Fault /\ ActGoto("force")
    /\ UNCHANGED <<row, vm, doneStop>> /\ ActStep

\* waitForGuestStopped: the guest stopped, the deadline passed, or a poll failed.
ActWait ==
    /\ act.pc = "wait"
    /\ \/ vm = "stopped" /\ NoFault /\ ActGoto("record")
       \/ NoFault /\ ActGoto("force")
       \/ Fault /\ ActGoto("force")
    /\ UNCHANGED <<row, vm, tasks, doneStop>> /\ ActStep

ActForce ==
    /\ act.pc = "force"
    /\ \/ Submit("stop") /\ NoFault /\ ActGoto("waitForced")
       \/ (Submit("stop") \/ tasks' = tasks) /\ Fault /\ act' = IdleAct
    /\ UNCHANGED <<row, vm, doneStop>> /\ ActStep

\* A forced stop that is not seen in time is left to the next tick.
ActWaitForced ==
    /\ act.pc = "waitForced"
    /\ \/ vm = "stopped" /\ ActGoto("record")
       \/ act' = IdleAct
    /\ UNCHANGED <<row, vm, tasks, doneStop>> /\ NoFault /\ ActStep

ActStart ==
    /\ act.pc = "start"
    /\ \/ Submit("start") /\ NoFault
       \/ tasks' = tasks /\ Fault
    /\ act' = IdleAct
    /\ UNCHANGED <<row, vm, doneStop>> /\ ActStep

\* Mutant: the stop is booked although its window has ended.
BooksLate(s) == SameConfig(s)

\* The stop is booked on the window, unless the row was edited or the window has ended.
Books(s) == SameConfig(s) /\ row.flags.lastOff = 1

ActRecord ==
    /\ act.pc = "record"
    /\ LET booked == Books(act.snap)
       IN  /\ row' = IF booked THEN [row EXCEPT !.flags.stopped = TRUE] ELSE row
           /\ doneStop' = IF booked THEN <<row.gen, act.at>> ELSE doneStop
    /\ act' = IdleAct
    /\ UNCHANGED <<vm, tasks>> /\ NoFault /\ ActStep

-----------------------------------------------------------------------------
(* Proxmox and the guest.                                                  *)

upstream == <<now, row, loc, migration, tick, act, stopping, bounds, userStart, doneStop>>

Stopped(who) ==
    vm' = "stopped" /\ tasks' = tasks \ {"shutdown", "stop"} /\ stopper' = who

ShutdownDone == "shutdown" \in tasks /\ Stopped("scheduler") /\ UNCHANGED upstream

\* The guest ignores the request until Proxmox gives up.
ShutdownIgnored ==
    /\ "shutdown" \in tasks
    /\ tasks' = tasks \ {"shutdown"}
    /\ UNCHANGED <<vm, stopper, upstream>>

StopDone == "stop" \in tasks /\ Stopped("scheduler") /\ UNCHANGED upstream

StartDone ==
    /\ "start" \in tasks
    /\ vm' = "running" /\ stopper' = "none" /\ tasks' = tasks \ {"start"}
    /\ UNCHANGED upstream

-----------------------------------------------------------------------------
(* Users: the VM's own power buttons and the schedule's routes.            *)

UserStart ==
    /\ users < MaxUser /\ users' = users + 1
    /\ vm = "stopped" /\ vm' = "running" /\ stopper' = "none" /\ userStart' = now
    /\ tasks' = tasks \ {"start"}
    /\ UNCHANGED <<row, world, act, edits, faults, moves, exits, doneStop>>

UserStop ==
    /\ users < MaxUser /\ users' = users + 1
    /\ vm = "running" /\ Stopped("user")
    /\ UNCHANGED <<row, world, act, edits, faults, moves, exits, userStart, doneStop>>

\* withVmPolicyWrite: shared with a running action, refused while a migration is pending.
PolicyWrite(r) ==
    /\ edits < MaxEdits /\ edits' = edits + 1
    /\ ~migration
    /\ row' = r
    /\ UNCHANGED <<world, vm, tasks, act, users, faults, moves, exits, stopper,
                   userStart, doneStop>>

SaveSchedule ==
    \E c \in Configs, status \in {"on", "off"} :
        PolicyWrite([status |-> status, gen |-> edits + 1, cfg |-> c,
                     node |-> IF row.status = "none" THEN loc ELSE row.node,
                     skip |-> 0, flags |-> NoFlags])

DeleteSchedule ==
    row.status # "none" /\ PolicyWrite([row EXCEPT !.status = "none"])

\* "Skip tonight": nothing until the next start_time.
SkipNext ==
    /\ row.status = "on"
    /\ PolicyWrite([row EXCEPT !.skip = NextStart(row.cfg, now)])

CancelSkip == row.status # "none" /\ PolicyWrite([row EXCEPT !.skip = 0])

-----------------------------------------------------------------------------
(* Migrations, the process, and time.                                      *)

elsewhere == <<now, vm, tasks, tick, act, stopping, edits, users, faults, exits, hist>>

\* The exclusive lock is only free when no action holds the shared one.
MigrationClaim ==
    /\ ~migration /\ ~Holding /\ moves < MaxMoves /\ moves' = moves + 1
    /\ migration' = TRUE
    /\ UNCHANGED <<row, loc, elsewhere>>

\* finalizeMigrationSuccess re-points the schedule with the status; a failure moves nothing.
MigrationFinish ==
    /\ migration /\ ~Holding /\ migration' = FALSE
    /\ \E n \in Nodes : loc' = n /\ row' = [row EXCEPT !.node = n]
    /\ UNCHANGED <<moves, elsewhere>>

StopScheduler ==
    /\ ~stopping /\ exits < MaxExits /\ stopping' = TRUE
    /\ UNCHANGED <<now, row, vm, loc, tasks, migration, tick, act, bounds, hist>>

\* The process ends, drained or not, and starts again: the row and Proxmox's tasks survive.
Exit ==
    /\ exits < MaxExits /\ exits' = exits + 1
    /\ tick' = IdleTick /\ act' = IdleAct /\ stopping' = FALSE
    /\ UNCHANGED <<now, row, vm, loc, tasks, migration, edits, users, faults, moves, hist>>

\* A phase lasts hours: a tick or an action meets one boundary, a start task none.
Advance ==
    /\ now < MaxPhase /\ now' = now + 1
    /\ tick.pc # "idle" => tick.at = now
    /\ InFlight => act.at = now
    /\ "start" \notin tasks
    /\ UNCHANGED <<row, vm, loc, tasks, migration, tick, act, stopping, bounds, hist>>

Tick == TickList \/ TickRead \/ TickEvaluate \/ TickWrite
Act == \/ ActClaim \/ ActDetect \/ ActAsk \/ ActWait \/ ActForce \/ ActWaitForced
       \/ ActStart \/ ActRecord
Upstream == ShutdownDone \/ ShutdownIgnored \/ StopDone \/ StartDone
Users == UserStart \/ UserStop \/ SaveSchedule \/ DeleteSchedule \/ SkipNext \/ CancelSkip
Others == MigrationClaim \/ MigrationFinish \/ StopScheduler \/ Exit \/ Advance

Next == Tick \/ Act \/ Upstream \/ Users \/ Others

Spec == Init /\ [][Next]_vars

\* The timer fires every minute, a started call continues, a stopped process is restarted,
\* and Proxmox carries out a hard stop; a guest may ignore a shutdown.
FairSpec == Spec /\ WF_vars(Tick) /\ WF_vars(Act) /\ WF_vars(StopDone)
                 /\ WF_vars(stopping /\ Exit)

-----------------------------------------------------------------------------
(* Properties.                                                             *)

\* Every variable holds what the row's columns, the tick and the action can hold.
TypeOK ==
    /\ now \in Phase /\ row \in Rows /\ vm \in {"running", "stopped"} /\ loc \in Nodes
    /\ tasks \subseteq {"shutdown", "stop", "start"}
    /\ migration \in BOOLEAN /\ stopping \in BOOLEAN
    /\ tick \in Ticks /\ act \in Acts
    /\ edits \in 0..MaxEdits /\ users \in 0..MaxUser /\ faults \in 0..MaxFaults
    /\ moves \in 0..MaxMoves /\ exits \in 0..MaxExits
    /\ stopper \in {"none", "user", "scheduler"}
    /\ userStart \in Phase \cup {Never}
    /\ doneStop \in (Nat \cup {Never}) \X (Phase \cup {Never})

\* vmMigrationLock.ts:97-115: the scheduler sends no power request, and waits on none,
\* while a migration of the VM is running or awaits review.
NoActionDuringMigration == Holding => ~migration

\* The window flags only say something about the OFF window the row is in
\* (scheduler.ts:103, 182-186): no stop that ends after its window marks the next one.
FlagsBelongToWindow ==
    row.flags.manual \/ row.flags.stopped => row.flags.lastOff = 1

\* The inductive invariant.  What the tick and the action carry is as sound as the row:
\* flags of their own window, a row that was enabled, a stop that was due; and the row
\* names the node the guest lives on.
FlagsOk(f) == f.manual \/ f.stopped => f.lastOff = 1
CarriedOk == FlagsOk(row.flags) /\ FlagsOk(tick.snap.flags) /\ FlagsOk(act.flags)
TickReadOk == tick.pc \in {"read", "write"} => tick.snap.status = "on"
StopWasDue ==
    act.pc = "claim" /\ act.kind = "stop" =>
        /\ act.snap.status = "on" /\ act.snap.skip <= act.at /\ InOff(act.snap.cfg, act.at)
        /\ act.snap.flags.lastOff = 1 => ~act.snap.flags.manual /\ ~act.snap.flags.stopped
Placed == row.node = loc

IInv ==
    /\ TypeOK /\ NoActionDuringMigration
    /\ CarriedOk /\ TickReadOk /\ StopWasDue /\ Placed

Claims(kind) == act.pc = "claim" /\ act.kind = kind /\ act'.pc = "detect"

\* A decision made from an old read is never carried out against what the user has
\* saved since (scheduler.ts:93): at its claim a stop is due by the row as it stands.
ClaimHonoursRow ==
    [][Claims("stop") =>
          /\ row.status = "on" /\ row.skip <= act.at /\ InOff(row.cfg, act.at)
          /\ act.snap.node = loc
          /\ row.flags.lastOff = 1 => ~row.flags.manual /\ ~row.flags.stopped]_vars

\* scheduler.ts:189-203: once a stop is booked on a window, the scheduler stops the VM
\* no second time in it, whoever starts it, until the schedule is saved anew.
OneStopPerWindow ==
    [][Claims("stop") /\ doneStop[1] = row.gen => ~OneWindow(row.cfg, doneStop[2], act.at)]_vars

\* scheduler.ts:5: in an OFF window that stays open, a VM that may be stopped ends up
\* stopped, through failed requests, a crash and a guest that ignores the shutdown,
\* or carries the override of a user who started it.
WindowHolds ==
    /\ row.status = "on" /\ InOff(row.cfg, now) /\ row.skip <= now
    /\ ~migration
StoppedInWindow ==
    <>[]WindowHolds => <>[](vm = "stopped" \/ (row.flags.manual /\ userStart # Never))

=============================================================================
