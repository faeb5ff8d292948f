----------------------------- MODULE VmMigration -----------------------------
(***************************************************************************)
(* Moving one VM between separate Proxmox hosts (routes/migrate.ts).       *)
(*                                                                         *)
(* A migration is a vm_migrations row and either one remote_migrate task,  *)
(* watched by a poller and by whoever lists the migrations, or an adopt    *)
(* job that rebuilds the VM on the target around its shared disks.  When   *)
(* it succeeds, one transaction re-points the VM's policy rows.  Advisory  *)
(* lock 206 keeps claims and re-pointing apart from policy writes (shared) *)
(* and from the deletion of the VM (exclusive).  A restart forgets every   *)
(* worker and leaves running rows to an operator.                          *)
(*                                                                         *)
(* A migration is started from the host the VM lives on, or from one it    *)
(* has left meanwhile: the copies of a VM that a kept source leaves behind *)
(* are not migrated themselves.                                            *)
(***************************************************************************)
EXTENDS Integers, FiniteSets

CONSTANTS
    Nodes,          \* Proxmox nodes, one per host
    Gone,           \* the policy rows once the VM is deleted
    MaxMigrations,  \* bound: migrations started
    MaxTimeouts,    \* bound: pollers that give up
    MaxRestarts     \* bound: restarts of the backend

Ids == 1..MaxMigrations

ASSUME NodesAssumption == Nodes # {} /\ Gone \notin Nodes
ASSUME BoundsAssumption ==
    MaxMigrations \in Nat /\ MaxTimeouts \in Nat /\ MaxRestarts \in Nat

VARIABLES
    rows,       \* vm_migrations
    latest,     \* the last id given
    refs,       \* the node named by the VM's assignments, lease, schedule and the rest
    task,       \* Proxmox's remote_migrate task of each migration
    conf,       \* nodes that hold a configuration of this VMID
    guarded,    \* of these, the ones with PVE's protection flag
    home,       \* the node the VM lives on
    work,       \* requests and background jobs of each migration
    relocs,     \* pendingRelocations
    verdict,    \* the migration whose task an operator has just seen fail
    policy,     \* a policy write under the shared lock
    deleter,    \* a deletion of the VM under the exclusive lock
    timeouts, restarts,   \* spent bounds
    timedOut,   \* migrations a poller gave up on (history)
    leftover    \* configurations adoptions left behind, with the migration (history)

db == <<rows, latest, refs>>
pve == <<task, conf, guarded, home, leftover>>
requests == <<verdict, policy, deleter>>
bounds == <<timeouts, restarts, timedOut>>
vars == <<db, pve, work, relocs, requests, bounds>>

-----------------------------------------------------------------------------
(* Rows, workers and locks.                                                *)

PendingStatus == {"running", "needs_review"}
Statuses == PendingStatus \cup {"none", "ok", "error", "removed"}

Rows == [status : Statuses, mode : {"copy", "adopt"}, src : Nodes, tgt : Nodes,
         upid : BOOLEAN, kept : BOOLEAN]

\* The POST request, the poller, the follow-up disk moves, the adopt job, and a GET
\* that refreshes the row.
Kinds == {"request", "poller", "relocator", "adopt", "refresh"}
Steps == {"idle", "submit", "recheck", "save", "spawn", "wait", "ask", "relocate", "move",
          "create", "verify", "protect", "forget", "succeed", "succeedKept", "fail"}

Running(i) == rows[i].status = "running"
Pending == \E i \in Ids : rows[i].status \in PendingStatus
At(k, i, step) == work[k][i] = step
Goto(k, i, step) == work' = [work EXCEPT ![k][i] = step]

\* No session holds lock 206 on the VM, in either mode.
LockFree == policy.pc = "idle" /\ deleter.pc = "idle"

SetStatus(i, status) == rows' = [rows EXCEPT ![i].status = status]
SetIfRunning(i, status) == IF Running(i) THEN SetStatus(i, status) ELSE UNCHANGED rows

-----------------------------------------------------------------------------
(* Starting a migration.                                                   *)

\* Mutant: a migration that awaits review does not keep the next one out.
ClaimableOverReview == LockFree /\ \A i \in Ids : ~Running(i)
Claimable == LockFree /\ ~Pending

\* The node the VM lives on, or one that an earlier migration has moved it from: the route
\* resolves the source from a cached listing, long before the claim.
Sources == {home} \cup {rows[i].src : i \in {j \in Ids : rows[j].status # "none"}}

\* claimMigration, after the checks of the route.
Claim(mode, src, tgt) ==
    LET i == latest + 1
    IN  /\ i \in Ids /\ Claimable
        /\ src \in Sources /\ (src \in conf => src = home) /\ tgt # src
        /\ latest' = i
        /\ rows' = [rows EXCEPT ![i] = [status |-> "running", mode |-> mode, src |-> src,
                                        tgt |-> tgt, upid |-> FALSE, kept |-> FALSE]]
        /\ Goto("request", i, IF mode = "copy" THEN "submit" ELSE "recheck")
        /\ UNCHANGED <<refs, pve, relocs, requests, bounds>>

\* remote_migrate is refused or never sent, accepted, or its answer is lost.
Submit(i) ==
    /\ At("request", i, "submit")
    /\ \/ UNCHANGED <<task, rows>> /\ Goto("request", i, "fail")
       \/ task' = [task EXCEPT ![i] = "running"] /\ UNCHANGED rows /\ Goto("request", i, "save")
       \/ /\ task' \in {task, [task EXCEPT ![i] = "running"]}
          /\ SetIfRunning(i, "needs_review") /\ Goto("request", i, "idle")
    /\ UNCHANGED <<latest, refs, conf, guarded, home, leftover, relocs, requests, bounds>>

\* An adoption needs the VM stopped, and checks it once more under its claim.
Recheck(i) ==
    /\ At("request", i, "recheck")
    /\ Goto("request", i, "save") \/ Goto("request", i, "fail")
    /\ UNCHANGED <<db, pve, relocs, requests, bounds>>

\* The task identifier is saved, or could not be.
SaveUpid(i) ==
    /\ At("request", i, "save")
    /\ \/ /\ rows' = [rows EXCEPT ![i].upid = (rows[i].mode = "copy")]
          /\ Goto("request", i, "spawn")
       \/ SetIfRunning(i, "needs_review") /\ Goto("request", i, "idle")
    /\ UNCHANGED <<latest, refs, pve, relocs, requests, bounds>>

\* The request ends and leaves the work to a poller, with or without disks to move once
\* the copy is done, or to the adopt job.
Spawn(i) ==
    /\ At("request", i, "spawn")
    /\ IF rows[i].mode = "copy"
       THEN /\ work' = [work EXCEPT !["request"][i] = "idle", !["poller"][i] = "wait"]
            /\ relocs' \in {relocs, relocs \cup {i}}
       ELSE /\ work' = [work EXCEPT !["request"][i] = "idle", !["adopt"][i] = "move"]
            /\ UNCHANGED relocs
    /\ UNCHANGED <<db, pve, requests, bounds>>

-----------------------------------------------------------------------------
(* Watching a copy.                                                        *)

\* Mutant: the disks still to be moved are not looked at.
RelocatingNever(i) == FALSE
Relocating(i) == work["relocator"][i] # "idle"

\* completeRemoteMigrate, by the poller or a refresh that saw the task stopped.
Complete(k, i, ok) ==
    LET later == IF k = "poller" THEN "wait" ELSE "idle"
    IN  IF ok /\ i \in relocs
        THEN /\ work' = IF Relocating(i) THEN [work EXCEPT ![k][i] = later]
                        ELSE [work EXCEPT ![k][i] = later, !["relocator"][i] = "relocate"]
             /\ UNCHANGED relocs
        ELSE Goto(k, i, IF ok THEN "succeed" ELSE "fail") /\ relocs' = relocs \ {i}

PollRow(i) ==
    /\ At("poller", i, "wait")
    /\ Goto("poller", i, IF Running(i) THEN "ask" ELSE "idle")
    /\ UNCHANGED <<db, pve, relocs, requests, bounds>>

PollTask(i) ==
    /\ At("poller", i, "ask")
    /\ IF task[i] = "running" THEN Goto("poller", i, "wait") /\ UNCHANGED relocs
                              ELSE Complete("poller", i, task[i] = "ok")
    /\ UNCHANGED <<db, pve, requests, bounds>>

\* The poller gives up; a relocation still running owns the outcome.
PollTimeout(i) ==
    /\ At("poller", i, "wait")
    /\ timeouts < MaxTimeouts /\ timeouts' = timeouts + 1
    /\ IF Relocating(i)
       THEN Goto("poller", i, "idle") /\ UNCHANGED <<relocs, timedOut>>
       ELSE Goto("poller", i, "fail") /\ relocs' = relocs \ {i} /\ timedOut' = timedOut \cup {i}
    /\ UNCHANGED <<db, pve, requests, restarts>>

\* A listing of the migrations looks at the tasks of the rows it read.
RefreshRow(i) ==
    /\ At("refresh", i, "idle") /\ Running(i) /\ rows[i].upid
    /\ Goto("refresh", i, "ask")
    /\ UNCHANGED <<db, pve, relocs, requests, bounds>>

RefreshTask(i) ==
    /\ At("refresh", i, "ask")
    /\ IF task[i] = "running" THEN Goto("refresh", i, "idle") /\ UNCHANGED relocs
                              ELSE Complete("refresh", i, task[i] = "ok")
    /\ UNCHANGED <<db, pve, requests, bounds>>

\* relocateDisks: moved or not, the VM has migrated.
Relocate(i) ==
    /\ At("relocator", i, "relocate")
    /\ Goto("relocator", i, "succeed")
    /\ UNCHANGED <<db, pve, relocs, requests, bounds>>

-----------------------------------------------------------------------------
(* The adopt job.                                                          *)

AdoptFrame == UNCHANGED <<db, task, relocs, requests, bounds>>

\* The configurations become c; the flag and the history go with a configuration.
Configs(c) == conf' = c /\ guarded' = guarded \cap c /\ leftover' = leftover \cap (c \X Ids)

AdoptMove(i) ==
    /\ At("adopt", i, "move")
    /\ (rows[i].src \in conf /\ Goto("adopt", i, "create")) \/ Goto("adopt", i, "fail")
    /\ UNCHANGED <<conf, guarded, home, leftover>> /\ AdoptFrame

\* The target's configuration is created; a failure may come after the effect.
AdoptCreate(i) ==
    /\ At("adopt", i, "create")
    /\ \/ /\ rows[i].src \in conf /\ rows[i].tgt \notin conf /\ Configs(conf \cup {rows[i].tgt})
          /\ Goto("adopt", i, "verify") \/ Goto("adopt", i, "fail")
       \/ Configs(conf) /\ Goto("adopt", i, "fail")
    /\ UNCHANGED home /\ AdoptFrame

\* Volumes visible, disks on their storage: from here on the VM lives on the target.
AdoptVerify(i) ==
    /\ At("adopt", i, "verify")
    /\ \/ home' = rows[i].tgt /\ Goto("adopt", i, "protect")
       \/ UNCHANGED home /\ Goto("adopt", i, "fail")
    /\ UNCHANGED <<conf, guarded, leftover>> /\ AdoptFrame

\* A protection flag that cannot be set is only a warning.
AdoptProtect(i) ==
    /\ At("adopt", i, "protect")
    /\ guarded' \in {guarded, guarded \cup ({rows[i].src} \cap conf)}
    /\ Goto("adopt", i, "forget")
    /\ UNCHANGED <<conf, home, leftover>> /\ AdoptFrame

\* forgetSourceConfig: the source's configuration is archived, which may be taken for a
\* failure if the answer is lost, or stays behind.
AdoptForget(i) ==
    /\ At("adopt", i, "forget")
    /\ \/ /\ rows[i].src \in conf /\ Configs(conf \ {rows[i].src})
          /\ Goto("adopt", i, "succeed") \/ Goto("adopt", i, "succeedKept")
       \/ /\ leftover' = leftover \cup ((({rows[i].src} \cap conf) \ {home}) \X {i})
          /\ UNCHANGED <<conf, guarded>> /\ Goto("adopt", i, "succeedKept")
    /\ UNCHANGED home /\ AdoptFrame

-----------------------------------------------------------------------------
(* Settling a row.                                                         *)

Done(k, i) ==
    /\ Goto(k, i, "idle")
    /\ relocs' = IF k = "relocator" THEN relocs \ {i} ELSE relocs

\* Mutant: the policy rows stay on the source.
RepointNever(i) == refs
\* repointVmRowsInTransaction
Repoint(i) == IF refs = rows[i].src THEN rows[i].tgt ELSE refs

\* finalizeMigrationSuccess: status and policy rows in one transaction.
Succeed(i, from, kept) ==
    IF rows[i].status = from
    THEN rows' = [rows EXCEPT ![i].status = "ok", ![i].kept = kept] /\ refs' = Repoint(i)
    ELSE UNCHANGED <<rows, refs>>

\* finalizeMigration(ok).  A lock that stays busy for all attempts, or a transaction that
\* fails, leaves the row to an operator.
FinalizeSuccess(k, i) ==
    /\ work[k][i] \in {"succeed", "succeedKept"}
    /\ LET kept == At(k, i, "succeedKept")
       IN  \/ LockFree /\ Succeed(i, "running", kept)
           \/ /\ rows' = IF Running(i)
                         THEN [rows EXCEPT ![i].status = "needs_review", ![i].kept = kept]
                         ELSE rows
              /\ UNCHANGED refs
    /\ Done(k, i)
    /\ UNCHANGED <<latest, pve, requests, bounds>>

FinalizeFailure(k, i) ==
    /\ At(k, i, "fail")
    /\ SetIfRunning(i, "error") /\ Done(k, i)
    /\ UNCHANGED <<latest, refs, pve, requests, bounds>>

-----------------------------------------------------------------------------
(* Operators.                                                              *)

operatorFrame == <<latest, work, relocs, policy, deleter, bounds>>

\* POST reconcile reads the row and the task, then updates the row if it still awaits
\* review; only a failed task changes it.
ReconcileRead(i) ==
    /\ verdict = 0 /\ rows[i].status = "needs_review" /\ rows[i].upid /\ task[i] = "failed"
    /\ verdict' = i
    /\ UNCHANGED <<rows, refs, pve, operatorFrame>>

ReconcileWrite(i) ==
    /\ verdict = i /\ verdict' = 0
    /\ IF rows[i].status = "needs_review" THEN SetStatus(i, "error") ELSE UNCHANGED rows
    /\ UNCHANGED <<refs, pve, operatorFrame>>

\* POST resolve: a saved task must bear the answer out; without one the operator looks at
\* both hosts, once nothing is running there any more.
ResolveSucceeded(i) ==
    /\ LockFree /\ rows[i].status = "needs_review"
    /\ IF rows[i].upid THEN task[i] = "ok" ELSE task[i] # "running" /\ home = rows[i].tgt
    /\ Succeed(i, "needs_review", rows[i].kept)
    /\ UNCHANGED <<pve, verdict, operatorFrame>>

ResolveFailed(i) ==
    /\ LockFree /\ rows[i].status = "needs_review"
    /\ IF rows[i].upid THEN task[i] = "failed" ELSE task[i] # "running" /\ home # rows[i].tgt
    /\ SetStatus(i, "error")
    /\ UNCHANGED <<refs, pve, verdict, operatorFrame>>

\* Remove tracking, by an operator or by the retention of terminal rows.
RemoveTracking(i) ==
    /\ rows[i].status \in {"ok", "error"}
    /\ SetStatus(i, "removed")
    /\ UNCHANGED <<refs, pve, verdict, operatorFrame>>

\* POST cleanup-source: the leftover is removed later.
CleanupSource(i) ==
    /\ rows[i].status = "ok" /\ rows[i].mode = "adopt" /\ rows[i].kept
    /\ rows[i].src \in conf /\ Configs(conf \ {rows[i].src})
    /\ rows' = [rows EXCEPT ![i].kept = FALSE]
    /\ UNCHANGED <<refs, task, home, verdict, operatorFrame>>

-----------------------------------------------------------------------------
(* Policy writes and deletion.                                             *)

IdleHolder == [pc |-> "idle", node |-> Gone]
Holders == [pc : {"idle", "check", "act", "cleanup"}, node : Nodes \cup {Gone}]

\* assertVmPolicyLocation: the newest migration that names the node has it as its target.
NewestNaming(n, i) ==
    /\ rows[i].status = "ok" /\ n \in {rows[i].src, rows[i].tgt}
    /\ \A j \in Ids : j > i /\ rows[j].status = "ok" => n \notin {rows[j].src, rows[j].tgt}
\* Mutant: only the newest migration of all is looked at.
LocatedByLatest(n) ==
    \A i \in Ids : rows[i].status = "ok" /\ (\A j \in Ids : rows[j].status = "ok" => j <= i)
                   /\ n \in {rows[i].src, rows[i].tgt} => rows[i].tgt = n
Located(n) == \A i \in Ids : NewestNaming(n, i) => rows[i].tgt = n

policyFrame == <<db, pve, work, relocs, verdict, bounds>>

\* withVmPolicyWrite: lock, location and presence, then the write itself.
PolicyLock(n) ==
    /\ policy.pc = "idle" /\ deleter.pc = "idle"
    /\ policy' = [pc |-> "check", node |-> n]
    /\ UNCHANGED <<deleter, policyFrame>>

PolicyCheck ==
    /\ policy.pc = "check"
    /\ policy' = IF ~Pending /\ Located(policy.node) /\ policy.node \in conf
                 THEN [policy EXCEPT !.pc = "act"] ELSE IdleHolder
    /\ UNCHANGED <<deleter, policyFrame>>

PolicyCommit ==
    /\ policy.pc = "act"
    /\ policy' = IdleHolder
    /\ UNCHANGED <<deleter, policyFrame>>

DeleteLock(n) ==
    /\ LockFree
    /\ deleter' = [pc |-> "check", node |-> n]
    /\ UNCHANGED <<policy, policyFrame>>

\* The last migration left this very node's configuration behind.
LeftBehind(n) ==
    \E i \in Ids : /\ rows[i].status = "ok" /\ rows[i].kept /\ rows[i].src = n
                   /\ \A j \in Ids : j > i => rows[j].status # "ok"

\* Mutant: a migration under way is not looked at.
DeletableWhileMoving(n) == ~LeftBehind(n) /\ Located(n)
Deletable(n) == ~Pending /\ ~LeftBehind(n) /\ Located(n)

DeleteCheck ==
    /\ deleter.pc = "check"
    /\ deleter' = IF Deletable(deleter.node) THEN [deleter EXCEPT !.pc = "act"] ELSE IdleHolder
    /\ UNCHANGED <<policy, policyFrame>>

\* deleteVM destroys the VM with its disks, unless it is protected; an absent one is fine.
\* An answer lost on the way ends the deletion with an error, and the rows stay.
DeleteGuest ==
    /\ deleter.pc = "act"
    /\ \/ /\ deleter.node \notin guarded
          /\ Configs(conf \ {deleter.node})
          /\ deleter' \in {[deleter EXCEPT !.pc = "cleanup"], IdleHolder}
       \/ deleter.node \in conf /\ Configs(conf) /\ deleter' = IdleHolder
    /\ UNCHANGED <<db, task, home, work, relocs, verdict, policy, bounds>>

\* The rows that name the node go, and with them every settled migration.
DeleteRows ==
    /\ deleter.pc = "cleanup"
    /\ refs' = IF refs = deleter.node THEN Gone ELSE refs
    /\ rows' = [i \in Ids |-> IF rows[i].status \in {"ok", "error"}
                              THEN [rows[i] EXCEPT !.status = "removed"] ELSE rows[i]]
    /\ deleter' = IdleHolder
    /\ UNCHANGED <<latest, pve, work, relocs, verdict, policy, bounds>>

-----------------------------------------------------------------------------
(* Proxmox and the backend's process.                                      *)

\* A copy may keep its source, stopped and with disks of its own (delete_source).
TaskSucceeds(i) ==
    /\ task[i] = "running" /\ rows[i].src \in conf /\ rows[i].tgt \notin conf
    /\ task' = [task EXCEPT ![i] = "ok"] /\ home' = rows[i].tgt
    /\ \E kept \in SUBSET {rows[i].src} : Configs((conf \ {rows[i].src}) \cup kept \cup {rows[i].tgt})
    /\ UNCHANGED <<db, work, relocs, requests, bounds>>

TaskFails(i) ==
    /\ task[i] = "running"
    /\ task' = [task EXCEPT ![i] = "failed"]
    /\ UNCHANGED <<conf, guarded, home, leftover, db, work, relocs, requests, bounds>>

\* An admin removes a leftover on the host's own shell, as the portal suggests.
RemoveByHand(n) ==
    /\ (\E i \in Ids : <<n, i>> \in leftover) /\ Configs(conf \ {n})
    /\ UNCHANGED <<task, home, db, work, relocs, requests, bounds>>

AllIdle == [k \in Kinds |-> [i \in Ids |-> "idle"]]

\* Mutant: a row that was running stays as it was.
InterruptedNever(row) == row
\* reconcileInterruptedOperations
Interrupted(row) == IF row.status = "running" THEN [row EXCEPT !.status = "needs_review"] ELSE row

\* The process dies, and starts again.
Restart ==
    /\ restarts < MaxRestarts /\ restarts' = restarts + 1
    /\ work' = AllIdle /\ relocs' = {}
    /\ verdict' = 0 /\ policy' = IdleHolder /\ deleter' = IdleHolder
    /\ rows' = [i \in Ids |-> Interrupted(rows[i])]
    /\ UNCHANGED <<latest, refs, pve, timeouts, timedOut>>

Init ==
    /\ home \in Nodes /\ conf = {home} /\ refs = home
    /\ guarded = {} /\ leftover = {} /\ timedOut = {}
    /\ latest = 0
    /\ rows = [i \in Ids |-> [status |-> "none", mode |-> "copy", src |-> home, tgt |-> home,
                              upid |-> FALSE, kept |-> FALSE]]
    /\ task = [i \in Ids |-> "none"]
    /\ work = AllIdle /\ relocs = {}
    /\ verdict = 0 /\ policy = IdleHolder /\ deleter = IdleHolder
    /\ timeouts = 0 /\ restarts = 0

Start(i) == Submit(i) \/ Recheck(i) \/ SaveUpid(i) \/ Spawn(i)
Watch(i) == PollRow(i) \/ PollTask(i) \/ RefreshTask(i) \/ Relocate(i)
Adopt(i) == AdoptMove(i) \/ AdoptCreate(i) \/ AdoptVerify(i) \/ AdoptProtect(i) \/ AdoptForget(i)
Finalize(k, i) == FinalizeSuccess(k, i) \/ FinalizeFailure(k, i)
Operate(i) == \/ ReconcileRead(i) \/ ReconcileWrite(i) \/ ResolveSucceeded(i) \/ ResolveFailed(i)
              \/ RemoveTracking(i) \/ CleanupSource(i)
Policy == PolicyCheck \/ PolicyCommit \/ \E n \in Nodes : PolicyLock(n)
Delete == DeleteCheck \/ DeleteGuest \/ DeleteRows \/ \E n \in Nodes : DeleteLock(n)

Next ==
    \/ \E mode \in {"copy", "adopt"}, src, tgt \in Nodes : Claim(mode, src, tgt)
    \/ \E i \in Ids : \/ Start(i) \/ Watch(i) \/ Adopt(i) \/ PollTimeout(i) \/ RefreshRow(i)
                      \/ Operate(i) \/ TaskSucceeds(i) \/ TaskFails(i)
                      \/ \E k \in Kinds : Finalize(k, i)
    \/ Policy \/ Delete \/ (\E n \in Nodes : RemoveByHand(n)) \/ Restart

Spec == Init /\ [][Next]_vars

\* Awaited calls return, timers fire, and every Proxmox task ends.
FairSpec ==
    /\ Spec
    /\ \A i \in Ids : /\ WF_vars(Start(i)) /\ WF_vars(Adopt(i))
                      /\ WF_vars(PollRow(i) \/ PollTask(i)) /\ WF_vars(Relocate(i))
                      /\ WF_vars(TaskSucceeds(i) \/ TaskFails(i))
                      /\ \A k \in Kinds : WF_vars(Finalize(k, i))

-----------------------------------------------------------------------------
(* Properties.                                                             *)

\* Every variable holds what its column, job or request can hold.
TypeOK ==
    /\ rows \in [Ids -> Rows] /\ latest \in 0..MaxMigrations
    /\ refs \in Nodes \cup {Gone}
    /\ task \in [Ids -> {"none", "running", "ok", "failed"}]
    /\ conf \subseteq Nodes /\ guarded \subseteq conf /\ leftover \subseteq conf \X Ids
    /\ home \in Nodes
    /\ work \in [Kinds -> [Ids -> Steps]]
    /\ relocs \subseteq Ids /\ timedOut \subseteq Ids
    /\ verdict \in 0..MaxMigrations
    /\ policy \in Holders /\ deleter \in Holders
    /\ timeouts \in 0..MaxTimeouts /\ restarts \in 0..MaxRestarts

\* migrate.ts:1045-1047: a VM has at most one migration that runs or awaits review, and
\* it is the newest one.
OneMigration == \A i \in Ids : rows[i].status \in PendingStatus => i = latest

\* vmMigrationLock.ts:19-22 and vms.ts:539-542: neither a policy write nor a deletion
\* that has passed its check is overtaken by a migration.
HoldersExcludeMigration ==
    policy.pc = "act" \/ deleter.pc \in {"act", "cleanup"} => ~Pending

\* migrate.ts:55-97: when no migration is open, the VM's policy rows name the node it
\* lives on, whichever of poller, listing, disk moves, adopt job and operator settled the
\* row; and only a poller that gave up records a task that goes on as failed.
RefsFollowGuest ==
    /\ ~Pending /\ home \in conf /\ refs # Gone /\ timedOut = {} => refs = home
    /\ \A i \in Ids : rows[i].status \in {"error", "removed"} /\ task[i] = "running"
                       => i \in timedOut

Destroys(n) == deleter.pc = "act" /\ deleter.node = n /\ n \in conf \ conf'

\* vms.ts:543-553: while the migration that left it is on record, a leftover
\* configuration is never destroyed, for its disks are the migrated VM's.
TrackedLeftoverIsSafe ==
    [][\A n \in Nodes, i \in Ids :
          <<n, i>> \in leftover /\ Destroys(n) => rows[i].status # "ok"]_vars

\* migrate.ts:738, "A relocation still running owns the outcome": a migration whose copy
\* is done is not recorded as failed over the disk moves that follow it.
RelocationOwnsOutcome ==
    [][\A i \in Ids : Running(i) /\ rows'[i].status = "error"
          => ~At("relocator", i, "relocate")]_vars

\* A migration is settled or put up for review: the VM is not locked for ever.
Settles == \A i \in Ids : Running(i) ~> ~Running(i)

=============================================================================
