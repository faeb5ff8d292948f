---------------------------- MODULE Provisioning ----------------------------
(***************************************************************************)
(* Building a VM: quota, VMID, task, ownership.                            *)
(*                                                                         *)
(* A provisioning request charges its owner and inserts a job row in one   *)
(* transaction, picks a VMID from a listing of every host, asks Proxmox    *)
(* for the guest and leaves a poller behind, which configures the guest    *)
(* and records its owner.  A request or a poller may die with the process, *)
(* a request may be answered late or never, somebody may take the VMID in  *)
(* between, and operators resolve, clean up and delete meanwhile.          *)
(*                                                                         *)
(* Every VM counts as one unit of its owner's quota, and a job's actor is  *)
(* its intended owner.  A job is numbered by the order of the inserts.     *)
(***************************************************************************)
EXTENDS Integers, FiniteSets

CONSTANTS
    Users,         \* accounts that may provision
    NoUser,        \* the user of a job not yet requested
    MaxJobs,       \* bound: provisioning jobs
    KindOf,        \* source types of the jobs
    MaxVmid,       \* bound: VMIDs 1..MaxVmid, enough for every pick
    Quota,         \* VMs a user may be charged for
    MaxEvents      \* bound: guests created outside the portal, crashes, shutdowns,
                   \* and deletions of VMs, assignments and users, together

Jobs == 1..MaxJobs
Vmids == 1..MaxVmid
Kinds == {"create", "template", "cloudimage"}

ASSUME ProvisioningAssumption ==
    /\ {MaxJobs, MaxVmid, Quota, MaxEvents} \subseteq Nat
    /\ NoUser \notin Users
    /\ KindOf \in [Jobs -> Kinds]

NoVmid == 0
NoGuest == 0        \* guest[v]: the job whose guest has the id
Foreign == -1       \* ... or one the portal did not create
Nobody == 0         \* assign[v]: no assignment

VARIABLES
    row,        \* provisioned_vms
    req,        \* the request that runs job j, and its user
    poller,     \* the background work of job j
    guest,      \* the guest that has a VMID in Proxmox
    task,       \* the Proxmox task that builds job j's guest
    assign,     \* vm_assignments: the job that recorded the VM's owner
    reserved,   \* vmidReservations
    deleting,   \* VMIDs whose guest is gone and whose records are not yet
    adopting,   \* jobs whose recovery passed its checks
    checking,   \* jobs a status request has read in progress
    accepting,  \* startBackgroundWork takes new work
    users,      \* existing accounts
    spent,      \* events so far
    byHand,     \* jobs an operator marked failed (history)
    reopened,   \* jobs dropped from the accounts that may come back: reported as failed
                \* and open again, or unassigned by hand (history)
    shared      \* jobs charged as one with the VM still assigned under their VMID (history)

pve == <<guest, task>>
desk == <<deleting, adopting, checking>>
mem == <<req, poller, reserved, desk, accepting>>
hist == <<byHand, reopened, shared>>
vars == <<row, assign, users, pve, mem, spent, hist>>

-----------------------------------------------------------------------------
(* Job rows.                                                               *)

InProgress == {"creating", "cloning", "configuring"}
Open == InProgress \cup {"submitting", "needs_review"}
Charged == Open \cup {"ready"}
Status == Charged \cup {"none", "error"}

\* Mutant: a job under review no longer holds its VMID.
OpenUnlessReviewed == InProgress \cup {"submitting"}

\* getNextVmid: the statuses whose VMID stays taken.
Blocking == Open

NoRow == [st |-> "none", vmid |-> NoVmid, upid |-> FALSE, own |-> "pending"]
Exists(j) == row[j].st # "none"

\* Mutant: the write brings a deleted row back.
UpsertStatus(j, s) == [row EXCEPT ![j].st = s]

\* The outcome of an UPDATE ... WHERE id = j: nothing when the row is gone.
SetStatus(j, s) == IF Exists(j) THEN [row EXCEPT ![j].st = s] ELSE row

\* recordBackgroundProvisionFailure: only a row still in progress.
ReviewIfRunning(j) == IF row[j].st \in InProgress THEN [row EXCEPT ![j].st = "needs_review"] ELSE row

NoReq == [pc |-> "new", user |-> NoUser, used |-> {}, vmid |-> NoVmid, try |-> 0]

Running(j) == req[j].pc \notin {"new", "done"}
Ended(r) == [r EXCEPT !.pc = "done", !.used = {}, !.vmid = NoVmid, !.try = 0]
End(j) == [req EXCEPT ![j] = Ended(@)]

\* The quota key of a job: its VMID, or the row itself while it has none.
Key(j) == IF row[j].vmid = NoVmid THEN -j ELSE row[j].vmid

Owner(v) == IF assign[v] = Nobody THEN NoUser ELSE req[assign[v]].user
Owned(u) == {v \in Vmids : Owner(v) = u}

\* Mutant: jobs are charged only once their VM is assigned.
ChargeAssigned(u) == Cardinality(Owned(u))

\* getUserResourceUsage: assigned VMs, and jobs whose ownership is pending.  An
\* owned job counts through its assignment, or not at all.
Charge(u) == Cardinality(Owned(u) \cup
    {Key(j) : j \in {i \in Jobs : row[i].st \in Charged /\ row[i].own = "pending" /\ req[i].user = u}})

\* Every write of a status notes the rows that left "error" for an open status.
NoteReopened == reopened' = reopened \cup {j \in Jobs : row[j].st = "error" /\ row'[j].st \in Charged}

Init ==
    /\ row = [j \in Jobs |-> NoRow]
    /\ req = [j \in Jobs |-> NoReq]
    /\ poller = [j \in Jobs |-> "none"]
    /\ guest = [v \in Vmids |-> NoGuest]
    /\ task = [j \in Jobs |-> "none"]
    /\ assign = [v \in Vmids |-> Nobody]
    /\ reserved = {} /\ deleting = {} /\ adopting = {} /\ checking = {}
    /\ accepting = TRUE
    /\ users = Users
    /\ spent = 0
    /\ byHand = {} /\ reopened = {} /\ shared = {}

-----------------------------------------------------------------------------
(* The request: submitProvision and withFreshVmid.                         *)

\* The reservation transaction; requests are numbered as they commit.
Insert(j) == \E u \in users :
    /\ req[j].pc = "new" /\ \A i \in 1..j - 1 : req[i].pc # "new"
    /\ Charge(u) + 1 <= Quota
    /\ row' = [row EXCEPT ![j] = [NoRow EXCEPT !.st = "submitting"]]
    /\ req' = [req EXCEPT ![j].pc = "list", ![j].user = u]
    /\ UNCHANGED <<assign, users, pve, poller, reserved, desk, accepting, spent, hist>>

\* getNextVmid's listing of every host.
ListGuests(j) ==
    /\ req[j].pc = "list"
    /\ req' = [req EXCEPT ![j].pc = "pick", ![j].used = {v \in Vmids : guest[v] # NoGuest}]
    /\ UNCHANGED <<row, assign, users, pve, poller, reserved, desk, accepting, spent, hist>>

\* A host is unreachable: nothing was submitted.
ListFails(j) ==
    /\ req[j].pc = "list"
    /\ req' = End(j)
    /\ row' = SetStatus(j, "error")
    /\ UNCHANGED <<assign, users, pve, poller, reserved, desk, accepting, spent, hist>>

Free(j) == Vmids \ (req[j].used \cup reserved
                      \cup {row[i].vmid : i \in {i \in Jobs : row[i].st \in Blocking}})

\* pickVmid, reserve and onReserved: the lowest free id, held in memory until the
\* row has it.
Pick(j) == \E v \in Free(j) :
    /\ req[j].pc = "pick"
    /\ \A w \in Free(j) : v <= w
    /\ reserved' = reserved \cup {v}
    /\ req' = [req EXCEPT ![j].pc = "submit", ![j].vmid = v, ![j].used = {}]
    /\ row' = IF Exists(j) THEN [row EXCEPT ![j].vmid = v] ELSE row
    /\ shared' = IF Owner(v) = req[j].user THEN shared \cup {j} ELSE shared
    /\ UNCHANGED <<assign, users, pve, poller, desk, accepting, spent, byHand, reopened>>

\* Proxmox starts building the guest.
Builds(j) ==
    /\ guest[req[j].vmid] = NoGuest
    /\ guest' = [guest EXCEPT ![req[j].vmid] = j]
    /\ task' = [task EXCEPT ![j] = "running"]

Accepted(j) ==
    /\ req[j].pc = "submit"
    /\ Builds(j)
    /\ req' = [req EXCEPT ![j].pc = "save"]
    /\ UNCHANGED <<row, assign, users, poller, reserved, desk, accepting, spent, hist>>

\* Mutant: every failed submission counts as a rejection.
AnswerLostAsRejected(j) ==
    /\ req[j].pc = "submit"
    /\ Builds(j) \/ UNCHANGED pve
    /\ req' = End(j)
    /\ row' = SetStatus(j, "error")
    /\ UNCHANGED <<assign, users, poller, reserved, desk, accepting, spent, hist>>

\* The request was sent and its outcome is unknown.
AnswerLost(j) ==
    /\ req[j].pc = "submit"
    /\ Builds(j) \/ UNCHANGED pve
    /\ req' = End(j)
    /\ row' = SetStatus(j, "needs_review")
    /\ UNCHANGED <<assign, users, poller, reserved, desk, accepting, spent, hist>>

\* Never sent, or refused for another reason than the id: the id is handed back.
Rejected(j) ==
    /\ req[j].pc = "submit"
    /\ req' = End(j)
    /\ row' = SetStatus(j, "error")
    /\ reserved' = reserved \ {req[j].vmid}
    /\ UNCHANGED <<assign, users, pve, poller, desk, accepting, spent, hist>>

\* The id is taken: one retry, then the job fails, or is reviewed when Proxmox
\* answered with a server error.
Taken(j) ==
    /\ req[j].pc = "submit" /\ guest[req[j].vmid] # NoGuest
    /\ IF req[j].try = 0
       THEN req' = [req EXCEPT ![j].pc = "list", ![j].try = 1] /\ UNCHANGED row
       ELSE req' = End(j) /\ \E s \in {"error", "needs_review"} : row' = SetStatus(j, s)
    /\ UNCHANGED <<assign, users, pve, poller, reserved, desk, accepting, spent, hist>>

\* The UPID is saved with the status of the source type.
Save(j) ==
    /\ req[j].pc = "save"
    /\ req' = [req EXCEPT ![j].pc = "spawn"]
    /\ row' = IF Exists(j)
              THEN [row EXCEPT ![j].upid = TRUE,
                               ![j].st = IF KindOf[j] = "template" THEN "cloning" ELSE "creating"]
              ELSE row
    /\ UNCHANGED <<assign, users, pve, poller, reserved, desk, accepting, spent, hist>>

\* Mutant: nobody notices that the poller was refused.
SpawnUnwatched(j) ==
    /\ req[j].pc = "spawn"
    /\ req' = End(j)
    /\ poller' = [poller EXCEPT ![j] = IF accepting THEN "poll" ELSE "none"]
    /\ UNCHANGED <<row, assign, users, pve, reserved, desk, accepting, spent, hist>>

\* startBackgroundWork: the poller starts, unless the process is stopping.
Spawn(j) ==
    /\ req[j].pc = "spawn"
    /\ req' = End(j)
    /\ IF accepting
       THEN poller' = [poller EXCEPT ![j] = "poll"] /\ UNCHANGED row
       ELSE row' = ReviewIfRunning(j) /\ UNCHANGED poller
    /\ UNCHANGED <<assign, users, pve, reserved, desk, accepting, spent, hist>>

Request(j) ==
    \/ Insert(j) \/ ListGuests(j) \/ ListFails(j) \/ Pick(j)
    \/ Accepted(j) \/ AnswerLost(j) \/ Rejected(j) \/ Taken(j)
    \/ Save(j) \/ Spawn(j)

-----------------------------------------------------------------------------
(* The poller: pollTaskCompletion and what each source type does after it. *)

PollerStep(j, pc) ==
    /\ poller' = [poller EXCEPT ![j] = pc]
    /\ NoteReopened
    /\ UNCHANGED <<users, pve, req, reserved, desk, accepting, spent, byHand, shared>>

PollFailed(j) ==
    /\ poller[j] = "poll" /\ task[j] = "failed"
    /\ row' = SetStatus(j, "error")
    /\ UNCHANGED assign
    /\ PollerStep(j, "none")

\* Monitoring times out, whatever the task is doing.
PollGivesUp(j) ==
    /\ poller[j] = "poll"
    /\ row' = SetStatus(j, "needs_review")
    /\ UNCHANGED assign
    /\ PollerStep(j, "none")

PollOk(j) ==
    /\ poller[j] = "poll" /\ task[j] = "ok"
    /\ row' = IF KindOf[j] = "create" THEN row ELSE SetStatus(j, "configuring")
    /\ UNCHANGED assign
    /\ PollerStep(j, IF KindOf[j] = "create" THEN "own" ELSE "configure")

ConfigureOk(j) ==
    /\ poller[j] = "configure"
    /\ UNCHANGED <<row, assign>>
    /\ PollerStep(j, "own")

ConfigureFails(j) ==
    /\ poller[j] = "configure"
    /\ row' = SetStatus(j, "needs_review")
    /\ UNCHANGED assign
    /\ PollerStep(j, "none")

\* recordProvisionOwnership's transaction.
MayOwn(j) ==
    /\ Exists(j) /\ req[j].user \in users
    /\ \A i \in j + 1..MaxJobs : row[i].vmid # row[j].vmid
    /\ Owner(row[j].vmid) \in {NoUser, req[j].user}

Assigned(j) == [assign EXCEPT ![row[j].vmid] = j]

Own(j) ==
    /\ poller[j] = "own"
    /\ MayOwn(j) /\ row[j].st \in InProgress \cup {"needs_review"}
    /\ row' = [row EXCEPT ![j].own = "owned"]
    /\ assign' = Assigned(j)
    /\ PollerStep(j, "finish")

\* A check or the database fails.
OwnFails(j) ==
    /\ poller[j] = "own"
    /\ row' = ReviewIfRunning(j)
    /\ UNCHANGED assign
    /\ PollerStep(j, "fail")

\* pollAndConfigure's catch writes whatever the row says; the last resort of the
\* other sources only a row in progress.
Fail(j) ==
    /\ poller[j] = "fail"
    /\ row' = IF KindOf[j] = "template" THEN SetStatus(j, "needs_review") ELSE ReviewIfRunning(j)
    /\ UNCHANGED assign
    /\ PollerStep(j, "none")

Finish(j) ==
    /\ poller[j] = "finish"
    /\ row' = SetStatus(j, "ready")
    /\ UNCHANGED assign
    /\ PollerStep(j, "none")

Poller(j) ==
    \/ PollFailed(j) \/ PollGivesUp(j) \/ PollOk(j) \/ ConfigureOk(j) \/ ConfigureFails(j)
    \/ Own(j) \/ OwnFails(j) \/ Fail(j) \/ Finish(j)

-----------------------------------------------------------------------------
(* Status requests and operators.                                          *)

\* GET /status/:id reads a row in progress and asks for its task; one that did not fail is
\* of no consequence.
StatusRead(j) ==
    /\ row[j].st \in InProgress /\ row[j].upid /\ task[j] # "ok"
    /\ checking' = checking \cup {j}
    /\ UNCHANGED <<row, assign, users, pve, req, poller, reserved, deleting, adopting, accepting, spent, hist>>

\* A failed one is the job's failure, whatever its row says by now.
StatusRoute(j) ==
    /\ j \in checking /\ task[j] = "failed"
    /\ checking' = checking \ {j}
    /\ row' = SetStatus(j, "error")
    /\ UNCHANGED <<assign, users, pve, req, poller, reserved, deleting, adopting, accepting, spent, hist>>

\* The reconcile route, whose write compares the status it read: a failed task stays failed,
\* so what the read saw holds at the write.
Reconcile(j) ==
    /\ row[j].st = "needs_review" /\ row[j].upid /\ task[j] = "failed"
    /\ row' = SetStatus(j, "error")
    /\ UNCHANGED <<assign, users, pve, mem, spent, hist>>

ResolveError(j) ==
    /\ row[j].st = "needs_review"
    /\ row' = SetStatus(j, "error")
    /\ byHand' = byHand \cup {j}
    /\ UNCHANGED <<assign, users, pve, mem, spent, reopened, shared>>

\* The saved task succeeded, or the guest carries the job's marker.
Verified(j) ==
    /\ row[j].vmid # NoVmid /\ guest[row[j].vmid] # NoGuest
    /\ IF row[j].upid THEN task[j] = "ok" ELSE guest[row[j].vmid] = j /\ task[j] # "running"

\* Resolving as ready: the checks of the recovery ...
ResolveReadyCheck(j) ==
    /\ row[j].st = "needs_review" /\ KindOf[j] = "create"
    /\ Verified(j)
    /\ adopting' = adopting \cup {j}
    /\ UNCHANGED <<row, assign, users, pve, req, poller, reserved, deleting, checking, accepting, spent, hist>>

\* ... and its transaction, which compares the row with the one checked.
ResolveReady(j) ==
    /\ j \in adopting
    /\ adopting' = adopting \ {j}
    /\ IF MayOwn(j) /\ row[j].st = "needs_review"
       THEN row' = [row EXCEPT ![j].own = "owned", ![j].st = "ready"] /\ assign' = Assigned(j)
       ELSE UNCHANGED <<row, assign>>
    /\ UNCHANGED <<users, pve, req, poller, reserved, deleting, checking, accepting, spent, hist>>

\* cleanupOperationTracking.
Cleanup(j) ==
    /\ \/ row[j].st = "error"
       \/ row[j].st = "ready" /\ row[j].own = "owned"
    /\ row' = [row EXCEPT ![j] = NoRow]
    /\ UNCHANGED <<assign, users, pve, mem, spent, hist>>

Operator(j) ==
    \/ StatusRead(j) \/ StatusRoute(j) \/ Reconcile(j) \/ ResolveError(j)
    \/ ResolveReadyCheck(j) \/ ResolveReady(j) \/ Cleanup(j)

-----------------------------------------------------------------------------
(* Deleting VMs, assignments and accounts.                                 *)

Event == spent < MaxEvents /\ spent' = spent + 1

\* DELETE /vms/:node/:vmid destroys the guest, which Proxmox refuses while a task
\* has it locked ...
DeleteGuest(v) ==
    /\ Event
    /\ v \notin deleting
    /\ guest[v] # NoGuest \/ assign[v] # Nobody
    /\ guest[v] \in Jobs => task[guest[v]] # "running"
    /\ guest' = [guest EXCEPT ![v] = NoGuest]
    /\ deleting' = deleting \cup {v}
    /\ UNCHANGED <<row, assign, users, task, req, poller, reserved, adopting, checking, accepting, hist>>

\* ... and, with the backups gone too, every record of its VMID.
DeleteRecords(v) ==
    /\ v \in deleting
    /\ deleting' = deleting \ {v}
    /\ row' = [j \in Jobs |-> IF row[j].vmid = v THEN NoRow ELSE row[j]]
    /\ assign' = [assign EXCEPT ![v] = Nobody]
    /\ UNCHANGED <<users, pve, req, poller, reserved, adopting, checking, accepting, spent, hist>>

\* The tables stayed locked for two seconds.
DeleteGivesUp(v) ==
    /\ v \in deleting
    /\ deleting' = deleting \ {v}
    /\ UNCHANGED <<row, assign, users, pve, req, poller, reserved, adopting, checking, accepting, spent, hist>>

Unassign(v) ==
    /\ Event
    /\ assign[v] # Nobody
    /\ assign' = [assign EXCEPT ![v] = Nobody]
    /\ reopened' = reopened \cup {assign[v]}
    /\ UNCHANGED <<row, users, pve, mem, byHand, shared>>

\* An account goes once no job of its own is open; its rows go with it.
DeleteUser(u) ==
    /\ Event
    /\ u \in users
    /\ \A j \in Jobs : req[j].user = u => row[j].st \notin Open
    /\ users' = users \ {u}
    /\ row' = [j \in Jobs |-> IF req[j].user = u THEN NoRow ELSE row[j]]
    /\ assign' = [v \in Vmids |-> IF Owner(v) = u THEN Nobody ELSE assign[v]]
    /\ UNCHANGED <<pve, mem, hist>>

Admin ==
    \/ \E v \in Vmids : DeleteGuest(v) \/ DeleteRecords(v) \/ DeleteGivesUp(v) \/ Unassign(v)
    \/ \E u \in Users : DeleteUser(u)

-----------------------------------------------------------------------------
(* Proxmox, time and the process.                                          *)

TaskOk(j) ==
    /\ task[j] = "running"
    /\ task' = [task EXCEPT ![j] = "ok"]
    /\ checking' = checking \ {j}
    /\ UNCHANGED <<row, assign, users, guest, req, poller, reserved, deleting, adopting, accepting, spent, hist>>

\* A failed build leaves no guest behind.
TaskFails(j) ==
    /\ task[j] = "running"
    /\ task' = [task EXCEPT ![j] = "failed"]
    /\ guest' = [v \in Vmids |-> IF guest[v] = j THEN NoGuest ELSE guest[v]]
    /\ UNCHANGED <<row, assign, users, mem, spent, hist>>

\* Somebody creates a guest in Proxmox itself, under the next free id it proposes.
ForeignGuest(v) ==
    /\ Event
    /\ guest[v] = NoGuest /\ \A w \in 1..v - 1 : guest[w] # NoGuest
    /\ guest' = [guest EXCEPT ![v] = Foreign]
    /\ UNCHANGED <<row, assign, users, task, mem, hist>>

\* A reservation lasts five minutes, longer than any request between its listing
\* and Proxmox' answer.
Expire(v) ==
    /\ v \in reserved
    /\ \A j \in Jobs : /\ req[j].pc # "pick"
                       /\ req[j].pc = "submit" => req[j].vmid # v
    /\ reserved' = reserved \ {v}
    /\ UNCHANGED <<row, assign, users, pve, req, poller, desk, accepting, spent, hist>>

Shutdown ==
    /\ accepting
    /\ Event
    /\ accepting' = FALSE
    /\ UNCHANGED <<row, assign, users, pve, req, poller, reserved, desk, hist>>

\* The process dies and starts again: reconcileInterruptedOperations.
Restart ==
    /\ Event
    /\ row' = [j \in Jobs |-> IF row[j].st \in InProgress \cup {"submitting"}
                              THEN [row[j] EXCEPT !.st = "needs_review"] ELSE row[j]]
    /\ req' = [j \in Jobs |-> IF Running(j) THEN Ended(req[j]) ELSE req[j]]
    /\ poller' = [j \in Jobs |-> "none"]
    /\ reserved' = {} /\ deleting' = {} /\ adopting' = {} /\ checking' = {}
    /\ accepting' = TRUE
    /\ UNCHANGED <<assign, users, pve, hist>>

Environment ==
    \/ \E j \in Jobs : TaskOk(j) \/ TaskFails(j)
    \/ \E v \in Vmids : ForeignGuest(v) \/ Expire(v)
    \/ Shutdown \/ Restart

Next ==
    \/ \E j \in Jobs : Request(j) \/ Poller(j) \/ Operator(j)
    \/ Admin \/ Environment

Spec == Init /\ [][Next]_vars

\* A request and a poller run on until they end.
FairSpec == Spec /\ \A j \in Jobs : WF_vars(Running(j) /\ Request(j)) /\ WF_vars(Poller(j))

-----------------------------------------------------------------------------
(* Properties.                                                             *)

Rows == [st : Status, vmid : Vmids \cup {NoVmid}, upid : BOOLEAN, own : {"pending", "owned"}]
Reqs == [pc : {"new", "list", "pick", "submit", "save", "spawn", "done"}, user : Users \cup {NoUser},
         used : SUBSET Vmids, vmid : Vmids \cup {NoVmid}, try : 0..1]
PollerSteps == {"none", "poll", "configure", "own", "finish", "fail"}

\* The type of every variable; a job in progress has its task on record.
TypeOK ==
    /\ row \in [Jobs -> Rows]
    /\ req \in [Jobs -> Reqs]
    /\ poller \in [Jobs -> PollerSteps]
    /\ guest \in [Vmids -> Jobs \cup {NoGuest, Foreign}]
    /\ task \in [Jobs -> {"none", "running", "ok", "failed"}]
    /\ assign \in [Vmids -> Jobs \cup {Nobody}]
    /\ reserved \subseteq Vmids /\ deleting \subseteq Vmids
    /\ adopting \subseteq Jobs /\ checking \subseteq Jobs
    /\ accepting \in BOOLEAN
    /\ users \subseteq Users
    /\ spent \in 0..MaxEvents
    /\ byHand \subseteq Jobs /\ reopened \subseteq Jobs /\ shared \subseteq Jobs
    /\ \A j \in Jobs : row[j].st \in InProgress => row[j].upid

\* Two open jobs never hold the same VMID, although ids are picked from listings
\* that are seconds old (utils/vmidAllocator.ts): whatever expires, crashes, is
\* retried or deleted in between.  A job written back from "error" is set aside.
OneJobPerVmid ==
    \A i, j \in Jobs \ reopened :
        i # j /\ row[i].st \in Open /\ row[j].st \in Open /\ row[i].vmid # NoVmid
        => row[i].vmid # row[j].vmid

\* The quota checked at submission (services/provisionOwnership.ts:35) still holds
\* after retries, recoveries, failures and deletions, without a second check, but
\* for a user with a job that came back without one, or that was charged as one with
\* another VM for a while.
QuotaHolds ==
    \A u \in Users : (\A j \in reopened \cup shared : req[j].user # u) => Charge(u) <= Quota

\* A job reported as failed by the portal itself left no guest behind: an unknown
\* outcome is never reported as a failure (services/provisionOwnership.ts:52).
FailedLeftNothing ==
    \A j \in Jobs \ byHand : row[j].st = "error" => \A v \in Vmids : guest[v] # j

\* Every job leaves the states of progress: ready, error or review.
JobSettles ==
    \A j \in Jobs : row[j].st \in InProgress \cup {"submitting"} ~> row[j].st \notin InProgress \cup {"submitting"}
=============================================================================
