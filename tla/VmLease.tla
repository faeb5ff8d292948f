------------------------------- MODULE VmLease -------------------------------
(***************************************************************************)
(* The lease of one VM (utils/leases.ts).                                  *)
(*                                                                         *)
(* A sweep, run by a timer and by an admin's request, selects the leases   *)
(* that have run out, lists the guests, and takes each lease under the     *)
(* VM's shared lock 206: it reads the row again, asks Proxmox to shut the  *)
(* guest down, reads the row once more and marks it expired.  The lock is  *)
(* shared with the routes that renew and adjust the lease, so these may    *)
(* commit at any step of a sweep; it only keeps migrations and deletions   *)
(* out.                                                                    *)
(*                                                                         *)
(* Time is a sequence of phases, and a lease runs out between two of them. *)
(***************************************************************************)
EXTENDS Integers, FiniteSets

CONSTANTS
    Nodes,       \* Proxmox nodes the VM may live on
    Sweeps,      \* who sweeps: the timer, and admins
    Durations,   \* lease durations, in phases
    MaxPhase,    \* bound: the last phase of time
    MaxEvents    \* bound: edits of the lease, starts, stops and removals of the guest,
                 \* migrations, failed requests and crashes, together

ASSUME NodesAssumption == Nodes # {}
ASSUME DurationsAssumption == Durations \subseteq Nat \ {0}
ASSUME BoundsAssumption == MaxPhase \in Nat /\ MaxEvents \in Nat

VARIABLES
    now,       \* the current phase
    row,       \* the vm_leases row
    vm,        \* the guest: running, stopped or absent
    loc,       \* the node the guest lives on
    asked,     \* Proxmox has accepted a shutdown it has not carried out
    pending,   \* a vm_migrations row is running or needs_review
    sweep,     \* the sweeps and, under the lock, their turn for this lease
    events     \* of the bound

vars == <<now, row, vm, loc, asked, pending, sweep, events>>

-----------------------------------------------------------------------------
(* The row.                                                                *)

Unlimited == -1

\* days = 0 and expires = Unlimited: the lease has no end.
Rows == [status : {"none", "lease"}, id : Nat, node : Nodes, days : Durations \cup {0},
         expires : Int, exempt : BOOLEAN, expired : BOOLEAN]

NoRow == [status |-> "none", id |-> 0, node |-> CHOOSE n \in Nodes : TRUE, days |-> 0,
          expires |-> Unlimited, exempt |-> FALSE, expired |-> FALSE]

Leased(r) == r.status = "lease"

\* The time of the lease is over, whether or not a sweep has marked it.
RunOut(r) == Leased(r) /\ ~r.exempt /\ r.expires # Unlimited /\ r.expires <= now

\* What a sweep selects.
Due(r) == RunOut(r) /\ ~r.expired

Later(days) == IF days > 0 THEN now + days ELSE Unlimited

\* createLeaseRow: an existing lease is kept; days is the requested or default duration.
Created(node, days) ==
    IF Leased(row) THEN row
    ELSE [NoRow EXCEPT !.status = "lease", !.id = row.id + 1, !.node = node, !.days = days,
                       !.expires = Later(days)]

\* renewLease: the lease's own duration or, when it has none, the default, from now on.
Renewed(default) ==
    LET r == Created(loc, default)
        d == IF r.days > 0 THEN r.days ELSE default
    IN  [r EXCEPT !.days = d, !.expires = Later(d), !.expired = FALSE]

\* updateLease, one column after the other: exempt, leaseDays, extendDays.
Keep == -1

WithExempt(r, x) ==
    IF x = "keep" THEN r ELSE [r EXCEPT !.exempt = (x = "on"), !.expired = FALSE]

WithDays(r, d) ==
    IF d = Keep THEN r ELSE [r EXCEPT !.days = d, !.expires = Later(d), !.expired = FALSE]

\* Mutant: the mark stays on a lease that is extended.
WithMoreButMarked(r, n) ==
    IF n = 0 THEN r
    ELSE [r EXCEPT !.expires = (IF r.expires > now THEN r.expires ELSE now) + n]

WithMore(r, n) ==
    IF n = 0 THEN r
    ELSE [r EXCEPT !.expires = (IF r.expires > now THEN r.expires ELSE now) + n,
                   !.expired = FALSE]

-----------------------------------------------------------------------------
(* The sweeps.                                                             *)

\* got is the lease as last read, seen and seenOn the guest as listed.  The rest is history:
\* a shutdown accepted in this turn, an edit of the lease under this turn's lock, and a
\* start of the guest after it was listed.
Idle == [pc |-> "idle", got |-> NoRow, seen |-> "absent", seenOn |-> NoRow.node,
         sent |-> FALSE, touched |-> FALSE, started |-> FALSE]

Turns == [pc : {"idle", "list", "lock", "probe", "shut", "mark"}, got : Rows,
          seen : {"running", "stopped", "absent"}, seenOn : Nodes,
          sent : BOOLEAN, touched : BOOLEAN, started : BOOLEAN]

Holding(s) == sweep[s].pc \in {"probe", "shut", "mark"}
LockFree == \A s \in Sweeps : ~Holding(s)

Turn(s, pc) == sweep' = [sweep EXCEPT ![s].pc = pc]
Event == events < MaxEvents /\ events' = events + 1
NoFault == events' = events
SweepStep == UNCHANGED <<now, vm, loc, pending>>

Init ==
    /\ now = 1
    /\ \E n \in Nodes, d \in Durations \cup {0} :
          /\ loc = n
          /\ row \in {NoRow, [NoRow EXCEPT !.status = "lease", !.node = n, !.days = d,
                                           !.expires = Later(d)]}
    /\ vm = "running" /\ asked = FALSE /\ pending = FALSE
    /\ sweep = [s \in Sweeps |-> Idle]
    /\ events = 0

\* The leases that are due are selected.  The listing that follows may come from a cache of
\* a few seconds, and so be as old as this step.
Select(s) ==
    /\ sweep[s].pc = "idle" /\ Due(row)
    /\ sweep' = [sweep EXCEPT ![s] = [Idle EXCEPT !.pc = "list", !.got = row,
                                                  !.seen = vm, !.seenOn = loc]]
    /\ UNCHANGED <<row, asked>> /\ NoFault /\ SweepStep

\* getAllVMs(): a host that does not answer is left out of the listing.
List(s) ==
    /\ sweep[s].pc = "list"
    /\ \/ NoFault /\ Turn(s, "lock")
       \/ /\ NoFault
          /\ sweep' = [sweep EXCEPT ![s].pc = "lock", ![s].seen = vm, ![s].seenOn = loc,
                                    ![s].started = FALSE]
       \/ Event /\ sweep' = [sweep EXCEPT ![s].pc = "lock", ![s].seen = "absent"]
       \/ Event /\ sweep' = [sweep EXCEPT ![s] = Idle]
    /\ UNCHANGED <<row, asked>> /\ SweepStep

\* Mutant: the lease selected is not compared with the one read under the lock.
CurrentAsSelected(s) == Leased(sweep[s].got)

\* The lease is still the one selected, where it was, and due.
Current(s) ==
    /\ Due(row)
    /\ row.id = sweep[s].got.id /\ row.node = sweep[s].got.node
    /\ row.expires = sweep[s].got.expires

Listed(s) == sweep[s].seen # "absent" /\ sweep[s].seenOn = row.node

\* withVmMigrationLock, shared, and the lease read again.
Lock(s) ==
    /\ sweep[s].pc = "lock"
    /\ \/ /\ NoFault
          /\ sweep' = [sweep EXCEPT ![s] =
                IF pending \/ ~Current(s) THEN Idle
                ELSE [@ EXCEPT !.got = row,
                               !.pc = IF ~Listed(s) THEN "probe"
                                      ELSE IF sweep[s].seen = "running" THEN "shut" ELSE "mark"]]
       \/ Event /\ sweep' = [sweep EXCEPT ![s] = Idle]
    /\ UNCHANGED <<row, asked>> /\ SweepStep

Here(s) == vm # "absent" /\ loc = sweep[s].got.node

\* Mutants: a guest that is not in the listing is taken for gone, or left for the next sweep.
ProbeTrusts(s) == sweep[s].pc = "probe" /\ Turn(s, "mark")
ProbeLeaves(s) == sweep[s].pc = "probe" /\ sweep' = [sweep EXCEPT ![s] = Idle]

\* guestPresence: a guest missing from the listing is asked for on its own node.
ProbeAnswer(s) ==
    /\ sweep[s].pc = "probe"
    /\ sweep' = [sweep EXCEPT ![s] = IF Here(s) THEN Idle ELSE [@ EXCEPT !.pc = "mark"]]

Probe(s) ==
    /\ \/ NoFault /\ ProbeAnswer(s)
       \/ sweep[s].pc = "probe" /\ Event /\ sweep' = [sweep EXCEPT ![s] = Idle]
    /\ UNCHANGED <<row, asked>> /\ SweepStep

\* The graceful shutdown is accepted, refused, or accepted with its answer lost.
Shut(s) ==
    /\ sweep[s].pc = "shut"
    /\ \/ /\ Here(s) /\ NoFault /\ asked' = (vm = "running")
          /\ sweep' = [sweep EXCEPT ![s].pc = "mark", ![s].sent = TRUE]
       \/ ~Here(s) /\ NoFault /\ UNCHANGED asked /\ sweep' = [sweep EXCEPT ![s] = Idle]
       \/ /\ Event /\ asked' \in {asked, Here(s) /\ vm = "running"}
          /\ sweep' = [sweep EXCEPT ![s] = Idle]
    /\ UNCHANGED row /\ SweepStep

\* Mutant: the lease is not read once more before the mark.
MarksAnyway(s) == Leased(row)

Marks(s) == Current(s)

Mark(s) ==
    /\ sweep[s].pc = "mark"
    /\ row' = IF Marks(s) THEN [row EXCEPT !.expired = TRUE] ELSE row
    /\ sweep' = [sweep EXCEPT ![s] = Idle]
    /\ UNCHANGED asked /\ NoFault /\ SweepStep

-----------------------------------------------------------------------------
(* The routes that change the lease: a policy write under the shared lock, *)
(* refused while a migration is pending or once the guest is gone.         *)

Write(r) ==
    /\ Event
    /\ ~pending /\ vm # "absent"
    /\ row' = r
    /\ sweep' = [s \in Sweeps |-> [sweep[s] EXCEPT !.touched = @ \/ Holding(s)]]
    /\ UNCHANGED <<now, vm, loc, asked, pending>>

Renew == \E default \in Durations \cup {0} : Write(Renewed(default))

Adjust ==
    \E x \in {"keep", "on", "off"}, d \in Durations \cup {0, Keep}, n \in {-1, 0, 1},
       default \in Durations \cup {0} :
          Write(WithMore(WithDays(WithExempt(Created(loc, default), x), d), n))

Backfill == \E default \in Durations \cup {0} : ~Leased(row) /\ Write(Created(loc, default))

-----------------------------------------------------------------------------
(* The guest: Proxmox, its users and the scheduler, which do not look at   *)
(* the lease, provisioning and deletion.                                   *)

GuestStep == UNCHANGED <<now, pending>>

ShutdownDone ==
    /\ asked /\ asked' = FALSE /\ vm' = "stopped"
    /\ UNCHANGED <<row, loc, sweep, events>> /\ GuestStep

\* The guest ignores the request until Proxmox gives up.
ShutdownIgnored ==
    /\ asked /\ asked' = FALSE
    /\ UNCHANGED <<row, vm, loc, sweep, events>> /\ GuestStep

UserStart ==
    /\ Event
    /\ vm = "stopped" /\ vm' = "running"
    /\ sweep' = [s \in Sweeps |-> [sweep[s] EXCEPT !.started = sweep[s].pc # "idle"]]
    /\ UNCHANGED <<row, loc, asked>> /\ GuestStep

UserStop ==
    /\ Event
    /\ vm = "running" /\ vm' = "stopped" /\ asked' = FALSE
    /\ UNCHANGED <<row, loc, sweep>> /\ GuestStep

\* The guest is removed in Proxmox itself, or by a deletion that then fails: the row stays.
Vanish ==
    /\ vm # "absent" /\ vm' = "absent" /\ asked' = FALSE
    /\ UNCHANGED <<row, loc, sweep, events>> /\ GuestStep

\* DELETE /vms/:node/:vmid, under the exclusive lock.
Delete ==
    /\ LockFree /\ ~pending /\ Leased(row)
    /\ vm' = "absent" /\ asked' = FALSE
    /\ row' = [NoRow EXCEPT !.id = row.id]
    /\ UNCHANGED <<loc, sweep, events>> /\ GuestStep

\* The VMID is free and given to a new guest; a lease left behind by the last one is kept.
Provision ==
    /\ Event
    /\ vm = "absent" /\ vm' = "running"
    /\ \E default \in Durations \cup {0} : row' = Created(loc, default)
    /\ sweep' = [s \in Sweeps |-> [sweep[s] EXCEPT !.started = sweep[s].pc # "idle"]]
    /\ UNCHANGED <<loc, asked>> /\ GuestStep

-----------------------------------------------------------------------------
(* Migrations, as the lease meets them, the clock, and crashes.            *)

MoveStep == UNCHANGED <<now, vm, asked, sweep>>

\* claimMigration takes the lock exclusively, so no sweep is in its turn.
ClaimMigration ==
    /\ LockFree /\ ~pending /\ vm # "absent"
    /\ Event
    /\ pending' = TRUE
    /\ UNCHANGED <<row, loc>> /\ MoveStep

Copied ==
    /\ pending /\ vm # "absent" /\ loc' \in Nodes \ {loc}
    /\ UNCHANGED <<row, pending, events>> /\ MoveStep

\* repointVmRows, exclusively: the lease follows the guest.
SettleMigration ==
    /\ LockFree /\ pending /\ pending' = FALSE
    /\ row' = [row EXCEPT !.node = loc]
    /\ UNCHANGED <<loc, events>> /\ MoveStep

Tick ==
    /\ now < MaxPhase /\ now' = now + 1
    /\ UNCHANGED <<row, vm, loc, asked, pending, sweep, events>>

\* The sessions end, and with them their locks.
Crash ==
    /\ Event
    /\ \E s \in Sweeps : sweep[s].pc # "idle"
    /\ sweep' = [s \in Sweeps |-> Idle]
    /\ UNCHANGED <<now, row, vm, loc, asked, pending>>

Sweeping(s) == Select(s) \/ List(s) \/ Lock(s) \/ Probe(s) \/ Shut(s) \/ Mark(s)
Routes == Renew \/ Adjust \/ Backfill
Guest == ShutdownDone \/ ShutdownIgnored \/ UserStart \/ UserStop \/ Vanish \/ Delete \/ Provision
Moving == ClaimMigration \/ Copied \/ SettleMigration

Next == (\E s \in Sweeps : Sweeping(s)) \/ Routes \/ Guest \/ Moving \/ Tick \/ Crash

Spec == Init /\ [][Next]_vars

\* While a lease is due somebody starts a sweep (the timer fires again and again), a sweep
\* that has begun goes on to its end, and a migration settles.
FairSpec ==
    /\ Spec
    /\ WF_vars(\E s \in Sweeps : Select(s))
    /\ \A s \in Sweeps : WF_vars(sweep[s].pc # "idle" /\ Sweeping(s))
    /\ WF_vars(SettleMigration)

-----------------------------------------------------------------------------
(* Properties.                                                             *)

TypeOK ==
    /\ now \in Nat \ {0}
    /\ row \in Rows
    /\ vm \in {"running", "stopped", "absent"}
    /\ loc \in Nodes
    /\ asked \in BOOLEAN
    /\ pending \in BOOLEAN
    /\ sweep \in [Sweeps -> Turns]
    /\ events \in Nat

\* A lease that carries the mark has run out: no interleaving of a sweep with a renewal, an
\* adjustment or another sweep leaves a renewed, extended or exempted lease marked expired
\* (utils/leases.ts:283-302).
ExpiredIsOver == row.expired => RunOut(row)

\* A sweep asks Proxmox to shut a guest down only while its lease has run out, on the node
\* the lease names and with no migration pending, except where the lease was edited after
\* this turn took the lock, which is shared with the edits (utils/leases.ts:255-275).
ShutdownIsJustified ==
    [][\A s \in Sweeps : ~sweep[s].sent /\ sweep'[s].sent =>
          /\ ~pending /\ row.node = loc
          /\ RunOut(row) \/ sweep[s].touched]_vars

\* When a sweep marks a lease, the guest does not run, or it was asked to shut down in this
\* turn, or it was started after it was listed: a host that does not answer or a listing
\* that is old never books a running guest as gone (utils/leases.ts:262-285).
MarkedGuestIsDown ==
    [][\A s \in Sweeps : ~row.expired /\ row'.expired /\ Holding(s) /\ ~Holding(s)' =>
          vm # "running" \/ sweep[s].sent \/ sweep[s].started]_vars

\* A lease that is due is marked, unless it is renewed, adjusted or deleted first: lost
\* answers, failing hosts, migrations and crashes only delay it (index.ts:555-577).
DueIsSettled == []<>~Due(row)

=============================================================================
