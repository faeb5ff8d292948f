------------------------- MODULE ProvisioningProofs -------------------------
(***************************************************************************)
(* One job per VMID, quotas, and what a failed job leaves behind: for any  *)
(* users, jobs, kinds of jobs, VMIDs, quota and number of events.          *)
(***************************************************************************)
EXTENDS Provisioning, TLAPS, FiniteSetTheorems

-----------------------------------------------------------------------------
(* The inductive invariant.                                                *)

\* One job: its row r, request q, poller p, task t, and whether an operator is about to
\* adopt it.  A request runs on a row that is submitting or gone until it has saved the
\* task; a poller or an operator only takes over once the request has ended, and until it
\* hands on nobody else has settled the row, but for a status request that saw the task fail.
JobOK(r, q, p, t, adopted, kind) ==
    /\ q.pc = "new" => r.st = "none" /\ q.user = NoUser
    /\ q.pc \notin {"new", "spawn", "done"} => r.st \in {"submitting", "none"} /\ r.own = "pending"
    /\ q.pc = "spawn" => /\ r.st \in {"creating", "cloning", "error", "none"}
                         /\ r.own = "pending" /\ (r.st # "none" => r.upid)
    /\ q.pc # "new" => q.user \in Users
    /\ q.pc \in {"submit", "save", "spawn"} => q.vmid \in Vmids /\ (r.st # "none" => r.vmid = q.vmid)
    /\ q.pc \in {"new", "list", "pick", "submit"} => t = "none"
    /\ p # "none" \/ adopted => q.pc = "done" /\ (r.st # "none" => r.vmid \in Vmids)
    /\ p # "none" /\ r.st # "none" => r.upid
    /\ p \in {"poll", "configure", "own", "finish"} => r.st \notin {"ready", "needs_review"}
    /\ p = "fail" /\ kind = "template" => r.st # "ready"
    /\ p = "finish" /\ r.st # "none" => r.own = "owned"
    /\ r.st = "ready" => r.own = "owned"
    /\ adopted => kind = "create"
    /\ r.own = "owned" => r.vmid \in Vmids

JobsOK == \A j \in Jobs : JobOK(row[j], req[j], poller[j], task[j], j \in adopting, KindOf[j])

\* A status request looks at jobs whose task is on record.
CheckOK == \A j \in checking : req[j].pc \in {"spawn", "done"}

\* A guest the portal built has a task that did not fail.
GuestOK == \A v \in Vmids : guest[v] \in Jobs => task[guest[v]] \in {"running", "ok"}

\* Users with no job that came back uncharged, and with none charged as one with another.
Clean(u) == \A j \in reopened : req[j].user # u
CleanUser(u) == \A j \in reopened \cup shared : req[j].user # u

AssignOK == \A v \in Vmids : assign[v] # Nobody => req[assign[v]].pc = "done"

\* An open job that owns its VM owns it still; one that does not shares its VMID with no
\* VM of its user.
OwnedOK ==
    \A j \in Jobs : row[j].st \in Open /\ row[j].own = "owned" /\ Clean(req[j].user)
        => assign[row[j].vmid] = j
SharedOK ==
    \A j \in Jobs \ shared :
        row[j].st \in Open /\ row[j].own = "pending" /\ row[j].vmid # NoVmid /\ Clean(req[j].user)
        => Owner(row[j].vmid) # req[j].user

-----------------------------------------------------------------------------
(* Helpers.                                                                *)

USE DEF desk

LEMMA Constants == /\ Jobs \subseteq Nat \ {0} /\ Vmids \subseteq Nat \ {0}
                   /\ NoVmid \notin Vmids /\ Nobody \notin Jobs /\ NoGuest \notin Jobs
                   /\ Foreign \notin Jobs /\ NoUser \notin Users
                   /\ KindOf \in [Jobs -> {"create", "template", "cloudimage"}]
                   /\ MaxJobs \in Nat /\ MaxVmid \in Nat /\ Quota \in Nat /\ MaxEvents \in Nat
  BY ProvisioningAssumption DEF Jobs, Vmids, Kinds, NoVmid, Nobody, NoGuest, Foreign

LEMMA EmptyRow == /\ NoRow \in Rows
                  /\ NoRow.st = "none" /\ NoRow.vmid = NoVmid /\ NoRow.own = "pending"
  <1>1. "none" \in Status /\ NoVmid \in Vmids \cup {NoVmid}
    BY DEF Status
  <1>2. NoRow \in Rows
    BY <1>1 DEF NoRow, Rows
  <1>3. NoRow.st = "none" /\ NoRow.vmid = NoVmid /\ NoRow.own = "pending"
    BY DEF NoRow
  <1> QED BY <1>2, <1>3

\* A status written on a row changes nothing else, and nothing at all once it is gone.
LEMMA StatusWritten ==
    ASSUME row \in [Jobs -> Rows], NEW j \in Jobs, NEW s \in Status \ {"none"}
    PROVE  /\ SetStatus(j, s) \in [Jobs -> Rows]
           /\ \A i \in Jobs \ {j} : SetStatus(j, s)[i] = row[i]
           /\ SetStatus(j, s)[j].st = IF Exists(j) THEN s ELSE "none"
           /\ SetStatus(j, s)[j].vmid = row[j].vmid
           /\ SetStatus(j, s)[j].upid = row[j].upid
           /\ SetStatus(j, s)[j].own = row[j].own
  BY DEF SetStatus, Exists, Rows

\* A request that ends keeps its user.
LEMMA RequestEnded ==
    ASSUME req \in [Jobs -> Reqs], NEW j \in Jobs
    PROVE  /\ End(j) \in [Jobs -> Reqs]
           /\ \A i \in Jobs \ {j} : End(j)[i] = req[i]
           /\ End(j)[j].pc = "done" /\ End(j)[j].user = req[j].user
           /\ \A i \in Jobs : End(j)[i].user = req[i].user
  <1> DEFINE e == Ended(req[j])
  <1>1. req[j] \in Reqs
    OBVIOUS
  <1>2. e \in Reqs /\ e.pc = "done" /\ e.user = req[j].user
    <2> DEFINE q == req[j]
    <2>1. q \in Reqs
      BY <1>1
    <2>2. e = [q EXCEPT !.pc = "done", !.used = {}, !.vmid = NoVmid, !.try = 0]
      BY DEF Ended
    <2> HIDE DEF q
    <2>3. e = [pc |-> "done", user |-> q.user, used |-> {}, vmid |-> NoVmid, try |-> 0]
      BY <2>1, <2>2 DEF Reqs
    <2>4. q.user \in Users \cup {NoUser}
      BY <2>1 DEF Reqs
    <2>5. e \in Reqs
      BY <2>3, <2>4 DEF Reqs
    <2>6. e.pc = "done" /\ e.user = q.user
      BY <2>3
    <2> QED BY <2>5, <2>6 DEF q
  <1>3. End(j) = [req EXCEPT ![j] = e]
    BY DEF End
  <1> HIDE DEF e
  <1> QED BY <1>2, <1>3

\* Only one job is touched.
LEMMA OneJobMoves ==
    ASSUME JobsOK, NEW j \in Jobs,
           \A i \in Jobs \ {j} : /\ row'[i] = row[i] /\ req'[i] = req[i] /\ poller'[i] = poller[i]
                                 /\ task'[i] = task[i] /\ (i \in adopting' <=> i \in adopting),
           JobOK(row'[j], req'[j], poller'[j], task'[j], j \in adopting', KindOf[j])
    PROVE  JobsOK'
  <1>1. ASSUME NEW i \in Jobs
        PROVE  JobOK(row'[i], req'[i], poller'[i], task'[i], i \in adopting', KindOf[i])
    <2>1. CASE i = j
      BY <2>1
    <2>2. CASE i # j
      <3>1. JobOK(row[i], req[i], poller[i], task[i], i \in adopting, KindOf[i])
        BY DEF JobsOK
      <3> QED BY <2>2, <3>1 DEF JobOK
    <2> QED BY <2>1, <2>2
  <1> QED BY <1>1 DEF JobsOK, JobOK

-----------------------------------------------------------------------------
(* Types.                                                                  *)

\* The statuses the code writes.
LEMMA Statuses ==
    /\ {"error", "needs_review", "configuring", "ready"} \subseteq Status \ {"none"}
    /\ InProgress = {"creating", "cloning", "configuring"}
    /\ Open = {"creating", "cloning", "configuring", "submitting", "needs_review"}
    /\ Charged = {"creating", "cloning", "configuring", "submitting", "needs_review", "ready"}
    /\ Status = {"creating", "cloning", "configuring", "submitting", "needs_review", "ready",
                 "none", "error"}
  BY DEF Status, Charged, Open, InProgress

\* What is left of TypeOK once the rows are well formed: a change to one row.
LEMMA OneRow ==
    ASSUME TypeOK, NEW j \in Jobs, row' \in [Jobs -> Rows],
           \A i \in Jobs \ {j} : row'[i] = row[i],
           row'[j].st \in InProgress => row'[j].upid
    PROVE  \A i \in Jobs : row'[i].st \in InProgress => row'[i].upid
  BY DEF TypeOK

\* A status written on one row.
LEMMA StatusTyped ==
    ASSUME TypeOK, NEW j \in Jobs, NEW s \in {"error", "needs_review", "configuring", "ready"},
           s = "configuring" /\ Exists(j) => row[j].upid, row' = SetStatus(j, s)
    PROVE  row' \in [Jobs -> Rows] /\ \A i \in Jobs : row'[i].st \in InProgress => row'[i].upid
  <1>1. row' \in [Jobs -> Rows] /\ \A i \in Jobs \ {j} : row'[i] = row[i]
    BY StatusWritten, Statuses DEF TypeOK
  <1>2. row'[j].st \in InProgress => row'[j].upid
    <2>1. /\ row'[j].st = (IF Exists(j) THEN s ELSE "none")
          /\ row'[j].upid = row[j].upid
      BY StatusWritten, Statuses DEF TypeOK
    <2> QED BY <2>1, Statuses
  <1> QED BY <1>1, <1>2, OneRow

\* A job in progress sent to review.
LEMMA ReviewTyped ==
    ASSUME TypeOK, NEW j \in Jobs, row' = ReviewIfRunning(j)
    PROVE  row' \in [Jobs -> Rows] /\ \A i \in Jobs : row'[i].st \in InProgress => row'[i].upid
  <1>1. CASE row' = row
    BY <1>1 DEF TypeOK
  <1>2. CASE row[j].st \in InProgress
    <2>1. row' = SetStatus(j, "needs_review")
      BY <1>2, Statuses DEF ReviewIfRunning, SetStatus, Exists
    <2> QED BY <2>1, StatusTyped
  <1> QED BY <1>1, <1>2 DEF ReviewIfRunning

\* A request record with some of its fields written.
LEMMA RequestWritten ==
    ASSUME NEW q \in Reqs, NEW pc \in {"new", "list", "pick", "submit", "save", "spawn", "done"},
           NEW u \in Users \cup {NoUser}, NEW s \in SUBSET Vmids, NEW v \in Vmids \cup {NoVmid}
    PROVE  /\ [q EXCEPT !.pc = pc, !.user = u] \in Reqs
           /\ [q EXCEPT !.pc = pc, !.used = s] \in Reqs
           /\ [q EXCEPT !.pc = pc, !.vmid = v, !.used = s] \in Reqs
  <1> DEFINE P == {"new", "list", "pick", "submit", "save", "spawn", "done"}
             U == Users \cup {NoUser}
             S == SUBSET Vmids
             V == Vmids \cup {NoVmid}
             T == 0..1
  <1>1. Reqs = [pc : P, user : U, used : S, vmid : V, try : T]
    BY DEF Reqs
  <1>2. pc \in P /\ u \in U /\ s \in S /\ v \in V
    OBVIOUS
  <1> HIDE DEF P, U, S, V, T
  <1> QED BY <1>1, <1>2

\* The request's steps keep the types.
LEMMA RequestTypes ==
    ASSUME TypeOK, JobsOK, NEW j \in Jobs, Request(j)
    PROVE  TypeOK'
  <1> USE Constants, Statuses, EmptyRow
  <1>t. /\ row \in [Jobs -> Rows] /\ req \in [Jobs -> Reqs]
        /\ \A i \in Jobs : row[i].st \in InProgress => row[i].upid
    BY DEF TypeOK
  <1>1. CASE Insert(j)
    <2>1. PICK u \in users : /\ row' = [row EXCEPT ![j] = [NoRow EXCEPT !.st = "submitting"]]
                             /\ req' = [req EXCEPT ![j].pc = "list", ![j].user = u]
                             /\ UNCHANGED <<assign, users, pve, poller, reserved, desk,
                                            accepting, spent, hist>>
      BY <1>1 DEF Insert
    <2>2. [NoRow EXCEPT !.st = "submitting"] \in Rows /\ [NoRow EXCEPT !.st = "submitting"].st = "submitting"
      BY DEF Rows
    <2>3. row' \in [Jobs -> Rows] /\ \A i \in Jobs : row'[i].st \in InProgress => row'[i].upid
      BY <1>t, <2>1, <2>2, OneRow
    <2>4. req' \in [Jobs -> Reqs]
      <3>1. req' = [req EXCEPT ![j] = [req[j] EXCEPT !.pc = "list", !.user = u]]
        BY <1>t, <2>1
      <3>2. u \in Users \cup {NoUser}
        BY DEF TypeOK
      <3>3. [req[j] EXCEPT !.pc = "list", !.user = u] \in Reqs
        BY <1>t, <3>2, RequestWritten
      <3> QED BY <1>t, <3>1, <3>3
    <2> QED BY <2>1, <2>3, <2>4 DEF TypeOK, pve, hist
  <1>2. CASE ListGuests(j)
    <2>1. req' \in [Jobs -> Reqs]
      <3>1. req' = [req EXCEPT ![j] = [req[j] EXCEPT !.pc = "pick",
                                                     !.used = {v \in Vmids : guest[v] # NoGuest}]]
        BY <1>2, <1>t DEF ListGuests
      <3>2. [req[j] EXCEPT !.pc = "pick", !.used = {v \in Vmids : guest[v] # NoGuest}] \in Reqs
        BY <1>t, RequestWritten
      <3> QED BY <1>t, <3>1, <3>2
    <2> QED BY <1>2, <2>1 DEF TypeOK, ListGuests, pve, hist
  <1>3. CASE ListFails(j)
    BY <1>3, <1>t, StatusTyped, RequestEnded DEF TypeOK, ListFails, pve, hist
  <1>4. CASE Pick(j)
    <2>1. PICK v \in Vmids : /\ reserved' = reserved \cup {v}
                             /\ req' = [req EXCEPT ![j].pc = "submit", ![j].vmid = v, ![j].used = {}]
                             /\ row' = IF Exists(j) THEN [row EXCEPT ![j].vmid = v] ELSE row
                             /\ shared' = IF Owner(v) = req[j].user THEN shared \cup {j} ELSE shared
                             /\ UNCHANGED <<assign, users, pve, poller, desk, accepting,
                                            spent, byHand, reopened>>
      BY <1>4 DEF Pick, Free
    <2>2. row' \in [Jobs -> Rows] /\ \A i \in Jobs : row'[i].st \in InProgress => row'[i].upid
      BY <1>t, <2>1 DEF Rows
    <2>3. req' \in [Jobs -> Reqs]
      <3>1. req' = [req EXCEPT ![j] = [req[j] EXCEPT !.pc = "submit", !.vmid = v, !.used = {}]]
        BY <1>t, <2>1
      <3>2. [req[j] EXCEPT !.pc = "submit", !.vmid = v, !.used = {}] \in Reqs
        BY <1>t, RequestWritten
      <3> QED BY <1>t, <3>1, <3>2
    <2> QED BY <2>1, <2>2, <2>3 DEF TypeOK, pve
  <1>b. ASSUME Builds(j), row' \in [Jobs -> Rows], req' \in [Jobs -> Reqs],
               \A i \in Jobs : row'[i].st \in InProgress => row'[i].upid,
               UNCHANGED <<assign, users, poller, reserved, desk, accepting, spent, hist>>
        PROVE  TypeOK'
    <2>1. guest' \in [Vmids -> Jobs \cup {NoGuest, Foreign}]
      BY <1>b DEF Builds, TypeOK
    <2>2. task' \in [Jobs -> {"none", "running", "ok", "failed"}]
      BY <1>b DEF Builds, TypeOK
    <2> QED BY <1>b, <2>1, <2>2 DEF TypeOK, hist
  <1>5. CASE Accepted(j)
    <2>1. req' \in [Jobs -> Reqs] /\ row' = row
      BY <1>5, <1>t DEF Accepted, Reqs
    <2> QED BY <1>5, <1>t, <1>b, <2>1 DEF Accepted
  <1>6. CASE AnswerLost(j)
    <2>1. row' \in [Jobs -> Rows] /\ \A i \in Jobs : row'[i].st \in InProgress => row'[i].upid
      BY <1>6, StatusTyped DEF AnswerLost
    <2>2. req' \in [Jobs -> Reqs]
      BY <1>6, <1>t, RequestEnded DEF AnswerLost
    <2>3. CASE Builds(j)
      BY <1>6, <1>b, <2>1, <2>2, <2>3 DEF AnswerLost
    <2>4. CASE UNCHANGED pve
      BY <1>6, <2>1, <2>2, <2>4 DEF AnswerLost, TypeOK, pve, hist
    <2> QED BY <1>6, <2>3, <2>4 DEF AnswerLost
  <1>7. CASE Rejected(j)
    BY <1>7, <1>t, StatusTyped, RequestEnded DEF TypeOK, Rejected, pve, hist
  <1>8. CASE Taken(j)
    <2>1. CASE req[j].try = 0
      <3>1. req' \in [Jobs -> Reqs] /\ row' = row
        BY <1>8, <1>t, <2>1 DEF Taken, Reqs
      <3> QED BY <1>8, <3>1 DEF TypeOK, Taken, pve, hist
    <2>2. CASE req[j].try # 0
      BY <1>8, <1>t, <2>2, StatusTyped, RequestEnded DEF TypeOK, Taken, pve, hist
    <2> QED BY <2>1, <2>2
  <1>9. CASE Save(j)
    <2>1. req' \in [Jobs -> Reqs]
      BY <1>9, <1>t DEF Save, Reqs
    <2>2. PICK s \in {"cloning", "creating"} :
            row' = IF Exists(j) THEN [row EXCEPT ![j].upid = TRUE, ![j].st = s] ELSE row
      BY <1>9 DEF Save
    <2>3. row' \in [Jobs -> Rows] /\ \A i \in Jobs : row'[i].st \in InProgress => row'[i].upid
      BY <1>t, <2>2 DEF Rows
    <2> QED BY <1>9, <2>1, <2>3 DEF TypeOK, Save, pve, hist
  <1>10. CASE Spawn(j)
    <2>1. req' \in [Jobs -> Reqs]
      BY <1>10, <1>t, RequestEnded DEF Spawn
    <2>2. poller' \in [Jobs -> PollerSteps]
      BY <1>10 DEF Spawn, TypeOK, PollerSteps
    <2>3. row' \in [Jobs -> Rows] /\ \A i \in Jobs : row'[i].st \in InProgress => row'[i].upid
      BY <1>10, <1>t, ReviewTyped DEF Spawn
    <2> QED BY <1>10, <2>1, <2>2, <2>3 DEF TypeOK, Spawn, pve, hist
  <1> QED BY <1>1, <1>2, <1>3, <1>4, <1>5, <1>6, <1>7, <1>8, <1>9, <1>10 DEF Request

\* A poller's step keeps the types when its rows are typed.
LEMMA PollerTypes ==
    ASSUME TypeOK, JobsOK, NEW j \in Jobs, Poller(j)
    PROVE  TypeOK'
  <1> USE Constants, Statuses
  <1>t. /\ row \in [Jobs -> Rows] /\ \A i \in Jobs : row[i].st \in InProgress => row[i].upid
        /\ assign \in [Vmids -> Jobs \cup {Nobody}] /\ row[j] \in Rows
    BY DEF TypeOK
  <1>k. JobOK(row[j], req[j], poller[j], task[j], j \in adopting, KindOf[j])
    BY DEF JobsOK
  <1>s. ASSUME NEW pc \in PollerSteps, PollerStep(j, pc), row' \in [Jobs -> Rows],
               \A i \in Jobs : row'[i].st \in InProgress => row'[i].upid,
               assign' \in [Vmids -> Jobs \cup {Nobody}]
        PROVE  TypeOK'
    <2>1. poller' \in [Jobs -> PollerSteps]
      BY <1>s DEF PollerStep, TypeOK
    <2>2. reopened' \subseteq Jobs
      BY <1>s DEF PollerStep, NoteReopened, TypeOK
    <2> QED BY <1>s, <2>1, <2>2 DEF PollerStep, TypeOK, pve
  <1> USE DEF PollerSteps
  <1>1. CASE PollFailed(j)
    BY <1>1, <1>t, <1>s, StatusTyped DEF PollFailed
  <1>2. CASE PollGivesUp(j)
    BY <1>2, <1>t, <1>s, StatusTyped DEF PollGivesUp
  <1>3. CASE PollOk(j)
    <2>1. Exists(j) => row[j].upid
      BY <1>3, <1>k DEF PollOk, JobOK, Exists
    <2>2. row' \in [Jobs -> Rows] /\ \A i \in Jobs : row'[i].st \in InProgress => row'[i].upid
      BY <1>3, <1>t, <2>1, StatusTyped DEF PollOk
    <2>3. PICK pc \in PollerSteps : PollerStep(j, pc) /\ UNCHANGED assign
      <3>1. CASE KindOf[j] = "create"
        BY <1>3, <3>1 DEF PollOk
      <3>2. CASE KindOf[j] # "create"
        BY <1>3, <3>2 DEF PollOk
      <3> QED BY <3>1, <3>2
    <2> QED BY <1>s, <1>t, <2>2, <2>3
  <1>4. CASE ConfigureOk(j)
    BY <1>4, <1>t, <1>s DEF ConfigureOk
  <1>5. CASE ConfigureFails(j)
    BY <1>5, <1>t, <1>s, StatusTyped DEF ConfigureFails
  <1>6. CASE Own(j)
    <2>1. row[j].vmid \in Vmids
      BY <1>6, <1>k DEF Own, MayOwn, Exists, JobOK
    <2>2. assign' \in [Vmids -> Jobs \cup {Nobody}]
      BY <1>6, <1>t, <2>1 DEF Own, Assigned
    <2>3. row' \in [Jobs -> Rows] /\ \A i \in Jobs : row'[i].st \in InProgress => row'[i].upid
      BY <1>6, <1>t DEF Own, Rows
    <2>4. PollerStep(j, "finish")
      BY <1>6 DEF Own
    <2> QED BY <1>s, <2>2, <2>3, <2>4
  <1>7. CASE OwnFails(j)
    BY <1>7, <1>t, <1>s, ReviewTyped DEF OwnFails
  <1>8. CASE Fail(j)
    <2>1. row' \in [Jobs -> Rows] /\ \A i \in Jobs : row'[i].st \in InProgress => row'[i].upid
      <3>1. CASE KindOf[j] = "template"
        BY <1>8, <3>1, StatusTyped DEF Fail
      <3>2. CASE KindOf[j] # "template"
        BY <1>8, <3>2, ReviewTyped DEF Fail
      <3> QED BY <3>1, <3>2
    <2> QED BY <1>8, <1>t, <1>s, <2>1 DEF Fail
  <1>9. CASE Finish(j)
    BY <1>9, <1>t, <1>s, StatusTyped DEF Finish
  <1> QED BY <1>1, <1>2, <1>3, <1>4, <1>5, <1>6, <1>7, <1>8, <1>9 DEF Poller

\* An operator's step keeps the types.
LEMMA OperatorTypes ==
    ASSUME TypeOK, JobsOK, NEW j \in Jobs, Operator(j)
    PROVE  TypeOK'
  <1> USE Constants, Statuses
  <1>t. /\ row \in [Jobs -> Rows] /\ \A i \in Jobs : row[i].st \in InProgress => row[i].upid
        /\ assign \in [Vmids -> Jobs \cup {Nobody}]
    BY DEF TypeOK
  <1>1. CASE StatusRoute(j)
    BY <1>1, StatusTyped DEF StatusRoute, TypeOK, pve, hist
  <1>7. CASE StatusRead(j)
    BY <1>7 DEF StatusRead, TypeOK, pve, hist
  <1>2. CASE Reconcile(j)
    BY <1>2, StatusTyped DEF Reconcile, TypeOK, pve, mem, hist
  <1>3. CASE ResolveError(j)
    BY <1>3, StatusTyped DEF ResolveError, TypeOK, pve, mem
  <1>4. CASE ResolveReadyCheck(j)
    BY <1>4 DEF ResolveReadyCheck, TypeOK, pve, hist
  <1>5. CASE ResolveReady(j)
    <2>1. CASE MayOwn(j) /\ row[j].st = "needs_review"
      <3>1. row[j].vmid \in Vmids
        BY <1>5, <2>1 DEF ResolveReady, MayOwn, Exists, JobsOK, JobOK
      <3>2. assign' \in [Vmids -> Jobs \cup {Nobody}]
        BY <1>5, <1>t, <2>1, <3>1 DEF ResolveReady, Assigned
      <3>3. row' \in [Jobs -> Rows] /\ \A i \in Jobs : row'[i].st \in InProgress => row'[i].upid
        BY <1>5, <1>t, <2>1 DEF ResolveReady, Rows
      <3> QED BY <1>5, <3>2, <3>3 DEF ResolveReady, TypeOK, pve, hist
    <2>2. CASE ~(MayOwn(j) /\ row[j].st = "needs_review")
      BY <1>5, <2>2 DEF ResolveReady, TypeOK, pve, hist
    <2> QED BY <2>1, <2>2
  <1>6. CASE Cleanup(j)
    <2>1. row' \in [Jobs -> Rows] /\ \A i \in Jobs : row'[i].st \in InProgress => row'[i].upid
      BY <1>6, <1>t, EmptyRow DEF Cleanup
    <2> QED BY <1>6, <2>1 DEF Cleanup, TypeOK, pve, mem, hist
  <1> QED BY <1>1, <1>2, <1>3, <1>4, <1>5, <1>6, <1>7 DEF Operator

\* An event is counted within its bound.
LEMMA EventTyped == ASSUME TypeOK, Event PROVE spent' \in 0..MaxEvents
  BY Constants DEF TypeOK, Event

\* Deletions keep the types.
LEMMA AdminTypes ==
    ASSUME TypeOK, Admin
    PROVE  TypeOK'
  <1> USE Constants, Statuses, EmptyRow
  <1>t. /\ row \in [Jobs -> Rows] /\ \A i \in Jobs : row[i].st \in InProgress => row[i].upid
        /\ assign \in [Vmids -> Jobs \cup {Nobody}]
        /\ guest \in [Vmids -> Jobs \cup {NoGuest, Foreign}]
    BY DEF TypeOK
  <1>1. ASSUME NEW v \in Vmids, DeleteGuest(v) PROVE TypeOK'
    BY <1>1, EventTyped DEF DeleteGuest, TypeOK, hist
  <1>2. ASSUME NEW v \in Vmids, DeleteRecords(v) PROVE TypeOK'
    BY <1>2, <1>t DEF DeleteRecords, TypeOK, pve, hist
  <1>3. ASSUME NEW v \in Vmids, DeleteGivesUp(v) PROVE TypeOK'
    BY <1>3 DEF DeleteGivesUp, TypeOK, pve, hist
  <1>4. ASSUME NEW v \in Vmids, Unassign(v) PROVE TypeOK'
    BY <1>4, EventTyped DEF Unassign, TypeOK, pve, mem
  <1>5. ASSUME NEW u \in Users, DeleteUser(u) PROVE TypeOK'
    BY <1>5, <1>t, EventTyped DEF DeleteUser, TypeOK, pve, mem, hist
  <1> QED BY <1>1, <1>2, <1>3, <1>4, <1>5 DEF Admin

\* Proxmox, time and the process keep the types.
LEMMA EnvironmentTypes ==
    ASSUME TypeOK, Environment
    PROVE  TypeOK'
  <1> USE Constants, Statuses
  <1>1. ASSUME NEW j \in Jobs, TaskOk(j) PROVE TypeOK'
    BY <1>1 DEF TaskOk, TypeOK, mem, hist
  <1>2. ASSUME NEW j \in Jobs, TaskFails(j) PROVE TypeOK'
    BY <1>2 DEF TaskFails, TypeOK, mem, hist
  <1>3. ASSUME NEW v \in Vmids, ForeignGuest(v) PROVE TypeOK'
    BY <1>3, EventTyped DEF ForeignGuest, TypeOK, mem, hist
  <1>4. ASSUME NEW v \in Vmids, Expire(v) PROVE TypeOK'
    BY <1>4 DEF Expire, TypeOK, pve, hist
  <1>5. CASE Shutdown
    BY <1>5, EventTyped DEF Shutdown, TypeOK, pve, hist
  <1>6. CASE Restart
    <2>1. row' \in [Jobs -> Rows] /\ \A i \in Jobs : row'[i].st \in InProgress => row'[i].upid
      <3>1. ASSUME NEW r \in Rows PROVE [r EXCEPT !.st = "needs_review"] \in Rows
        BY DEF Rows
      <3>2. row \in [Jobs -> Rows] /\ \A i \in Jobs : row[i].st \in InProgress => row[i].upid
        BY DEF TypeOK
      <3>3. \A i \in Jobs : row'[i] = (IF row[i].st \in InProgress \cup {"submitting"}
                                      THEN [row[i] EXCEPT !.st = "needs_review"] ELSE row[i])
        BY <1>6 DEF Restart
      <3>4. row' \in [Jobs -> Rows]
        BY <1>6, <3>1, <3>2 DEF Restart
      <3>5. ASSUME NEW i \in Jobs PROVE row'[i].st \notin InProgress
        <4>1. row[i] \in Rows
          BY <3>2
        <4>2. [row[i] EXCEPT !.st = "needs_review"].st = "needs_review"
          BY <4>1 DEF Rows
        <4> QED BY <3>3, <4>2
      <3> QED BY <3>4, <3>5
    <2>2. req' \in [Jobs -> Reqs]
      <3>1. ASSUME NEW i \in Jobs PROVE Ended(req[i]) \in Reqs
        <4>1. req \in [Jobs -> Reqs]
          BY DEF TypeOK
        <4>2. End(i)[i] = Ended(req[i])
          BY <4>1 DEF End
        <4>3. End(i) \in [Jobs -> Reqs]
          BY <4>1, RequestEnded
        <4> QED BY <4>2, <4>3
      <3> QED BY <1>6, <3>1 DEF Restart, TypeOK
    <2>3. poller' \in [Jobs -> PollerSteps]
      BY <1>6 DEF Restart, PollerSteps
    <2> QED BY <1>6, <2>1, <2>2, <2>3, EventTyped DEF Restart, TypeOK, pve, hist
  <1> QED BY <1>1, <1>2, <1>3, <1>4, <1>5, <1>6 DEF Environment

LEMMA TypeNext == ASSUME TypeOK, JobsOK, [Next]_vars PROVE TypeOK'
  <1>1. CASE Next
    BY <1>1, RequestTypes, PollerTypes, OperatorTypes, AdminTypes, EnvironmentTypes DEF Next
  <1>2. CASE UNCHANGED vars
    BY <1>2 DEF vars, pve, mem, hist, TypeOK
  <1> QED BY <1>1, <1>2

-----------------------------------------------------------------------------
(* The jobs.                                                               *)

\* A status written on a row, field by field.
LEMMA StatusOf ==
    ASSUME TypeOK, NEW j \in Jobs, NEW s \in {"error", "needs_review", "configuring", "ready"},
           row' = SetStatus(j, s)
    PROVE  /\ \A i \in Jobs \ {j} : row'[i] = row[i]
           /\ row'[j].st = IF Exists(j) THEN s ELSE "none"
           /\ row'[j].vmid = row[j].vmid /\ row'[j].upid = row[j].upid /\ row'[j].own = row[j].own
  BY StatusWritten, Statuses DEF TypeOK

LEMMA ReviewOf ==
    ASSUME TypeOK, NEW j \in Jobs, row' = ReviewIfRunning(j)
    PROVE  /\ \A i \in Jobs \ {j} : row'[i] = row[i]
           /\ row'[j].st = IF row[j].st \in InProgress THEN "needs_review" ELSE row[j].st
           /\ row'[j].vmid = row[j].vmid /\ row'[j].upid = row[j].upid /\ row'[j].own = row[j].own
  BY DEF ReviewIfRunning, TypeOK, Rows

LEMMA RequestJobs ==
    ASSUME TypeOK, JobsOK, NEW j \in Jobs, Request(j)
    PROVE  JobsOK'
  <1> USE Constants, Statuses
  <1>t. /\ row \in [Jobs -> Rows] /\ req \in [Jobs -> Reqs] /\ row[j] \in Rows /\ req[j] \in Reqs
        /\ poller \in [Jobs -> PollerSteps] /\ task \in [Jobs -> {"none", "running", "ok", "failed"}]
    BY DEF TypeOK
  <1>k. JobOK(row[j], req[j], poller[j], task[j], j \in adopting, KindOf[j])
    BY DEF JobsOK
  <1>1. CASE Insert(j)
    <2>1. PICK u \in users : /\ req[j].pc = "new"
                             /\ row' = [row EXCEPT ![j] = [NoRow EXCEPT !.st = "submitting"]]
                             /\ req' = [req EXCEPT ![j].pc = "list", ![j].user = u]
                             /\ UNCHANGED <<assign, users, pve, poller, reserved, desk,
                                            accepting, spent, hist>>
      BY <1>1 DEF Insert
    <2>2. row'[j].st = "submitting" /\ row'[j].own = "pending"
      BY <1>t, <2>1 DEF NoRow
    <2>3. req'[j].pc = "list" /\ req'[j].user = u /\ u \in Users
      BY <1>t, <2>1 DEF Reqs, TypeOK
    <2>4. JobOK(row'[j], req'[j], poller'[j], task'[j], j \in adopting', KindOf[j])
      BY <1>k, <2>1, <2>2, <2>3 DEF JobOK, pve
    <2> QED BY <1>t, <2>1, <2>4, OneJobMoves DEF pve
  <1>2. CASE ListGuests(j)
    <2>1. /\ req'[j].pc = "pick" /\ req'[j].user = req[j].user
          /\ \A i \in Jobs \ {j} : req'[i] = req[i]
      BY <1>2, <1>t DEF ListGuests, Reqs
    <2>2. JobOK(row'[j], req'[j], poller'[j], task'[j], j \in adopting', KindOf[j])
      BY <1>2, <1>k, <2>1 DEF JobOK, ListGuests, pve
    <2> QED BY <1>2, <2>1, <2>2, OneJobMoves DEF ListGuests, pve
  <1>3. CASE ListFails(j)
    <2>1. JobOK(row'[j], req'[j], poller'[j], task'[j], j \in adopting', KindOf[j])
      BY <1>3, <1>t, <1>k, StatusOf, RequestEnded DEF JobOK, ListFails, pve, Exists
    <2> QED BY <1>3, <1>t, <2>1, StatusOf, RequestEnded, OneJobMoves DEF ListFails, pve
  <1>4. CASE Pick(j)
    <2>1. PICK v \in Vmids : /\ req[j].pc = "pick"
                             /\ req' = [req EXCEPT ![j].pc = "submit", ![j].vmid = v, ![j].used = {}]
                             /\ row' = IF Exists(j) THEN [row EXCEPT ![j].vmid = v] ELSE row
                             /\ UNCHANGED <<assign, users, pve, poller, adopting>>
      BY <1>4 DEF Pick, Free
    <2>2. req'[j].pc = "submit" /\ req'[j].user = req[j].user /\ req'[j].vmid = v
      BY <1>t, <2>1 DEF Reqs
    <2>3. /\ row'[j].st = row[j].st /\ row'[j].own = row[j].own /\ row'[j].upid = row[j].upid
          /\ row'[j].st # "none" => row'[j].vmid = v
      BY <1>t, <2>1 DEF Rows, Exists
    <2>4. JobOK(row'[j], req'[j], poller'[j], task'[j], j \in adopting', KindOf[j])
      BY <1>k, <2>1, <2>2, <2>3 DEF JobOK, pve
    <2> QED BY <1>t, <2>1, <2>4, OneJobMoves DEF pve
  <1>5. CASE Accepted(j)
    <2>1. /\ req'[j].pc = "save" /\ req'[j].user = req[j].user /\ req'[j].vmid = req[j].vmid
          /\ \A i \in Jobs \ {j} : req'[i] = req[i]
      BY <1>5, <1>t DEF Accepted, Reqs
    <2>2. \A i \in Jobs \ {j} : task'[i] = task[i]
      BY <1>5, <1>t DEF Accepted, Builds
    <2>3. JobOK(row'[j], req'[j], poller'[j], task'[j], j \in adopting', KindOf[j])
      BY <1>5, <1>k, <2>1 DEF JobOK, Accepted
    <2> QED BY <1>5, <2>1, <2>2, <2>3, OneJobMoves DEF Accepted
  <1>6. CASE AnswerLost(j)
    <2>1. \A i \in Jobs \ {j} : task'[i] = task[i]
      BY <1>6, <1>t DEF AnswerLost, Builds, pve
    <2>2. JobOK(row'[j], req'[j], poller'[j], task'[j], j \in adopting', KindOf[j])
      BY <1>6, <1>t, <1>k, StatusOf, RequestEnded DEF JobOK, AnswerLost, Exists
    <2>3. \A i \in Jobs \ {j} : row'[i] = row[i] /\ req'[i] = req[i]
      BY <1>6, <1>t, StatusOf, RequestEnded DEF AnswerLost
    <2>4. UNCHANGED <<poller, adopting>>
      BY <1>6 DEF AnswerLost
    <2> QED BY <2>1, <2>2, <2>3, <2>4, OneJobMoves
  <1>7. CASE Rejected(j)
    <2>1. JobOK(row'[j], req'[j], poller'[j], task'[j], j \in adopting', KindOf[j])
      BY <1>7, <1>t, <1>k, StatusOf, RequestEnded DEF JobOK, Rejected, pve, Exists
    <2>2. \A i \in Jobs \ {j} : row'[i] = row[i] /\ req'[i] = req[i]
      BY <1>7, <1>t, StatusOf, RequestEnded DEF Rejected
    <2>3. UNCHANGED <<poller, task, adopting>>
      BY <1>7 DEF Rejected, pve
    <2> QED BY <2>1, <2>2, <2>3, OneJobMoves
  <1>8. CASE Taken(j)
    <2>1. CASE req[j].try = 0
      <3>1. /\ req'[j].pc = "list" /\ req'[j].user = req[j].user
            /\ \A i \in Jobs \ {j} : req'[i] = req[i]
        BY <1>8, <1>t, <2>1 DEF Taken, Reqs
      <3>2. JobOK(row'[j], req'[j], poller'[j], task'[j], j \in adopting', KindOf[j])
        BY <1>8, <1>k, <2>1, <3>1 DEF JobOK, Taken, pve
      <3> QED BY <1>8, <2>1, <3>1, <3>2, OneJobMoves DEF Taken, pve
    <2>2. CASE req[j].try # 0
      <3>1. PICK s \in {"error", "needs_review"} : row' = SetStatus(j, s)
        BY <1>8, <2>2 DEF Taken
      <3>2. req' = End(j)
        BY <1>8, <2>2 DEF Taken
      <3>a. /\ row'[j].st = IF Exists(j) THEN s ELSE "none"
            /\ row'[j].vmid = row[j].vmid /\ row'[j].upid = row[j].upid /\ row'[j].own = row[j].own
        BY <3>1, StatusOf
      <3>b. req'[j].pc = "done" /\ req'[j].user = req[j].user
        BY <1>t, <3>2, RequestEnded
      <3>c. req[j].pc = "submit" /\ poller' = poller /\ task' = task /\ adopting' = adopting
        BY <1>8 DEF Taken, pve
      <3>3. JobOK(row'[j], req'[j], poller'[j], task'[j], j \in adopting', KindOf[j])
        <4>1. /\ poller'[j] = "none" /\ ~(j \in adopting') /\ req'[j].user \in Users
              /\ row'[j].own = "pending" /\ row'[j].st # "ready"
          BY <1>k, <3>a, <3>b, <3>c DEF JobOK
        <4> QED BY <4>1, <3>b DEF JobOK
      <3>4. \A i \in Jobs \ {j} : row'[i] = row[i] /\ req'[i] = req[i]
        BY <1>t, <3>1, <3>2, StatusOf, RequestEnded
      <3> QED BY <3>c, <3>3, <3>4, OneJobMoves
    <2> QED BY <2>1, <2>2
  <1>9. CASE Save(j)
    <2>1. PICK s \in {"cloning", "creating"} :
            row' = IF Exists(j) THEN [row EXCEPT ![j].upid = TRUE, ![j].st = s] ELSE row
      BY <1>9 DEF Save
    <2>2. /\ row'[j].st = IF Exists(j) THEN s ELSE "none"
          /\ row'[j].vmid = row[j].vmid /\ row'[j].own = row[j].own
          /\ Exists(j) => row'[j].upid
          /\ \A i \in Jobs \ {j} : row'[i] = row[i]
      BY <1>t, <2>1 DEF Rows, Exists
    <2>3. /\ req[j].pc = "save" /\ req'[j].pc = "spawn" /\ req'[j].user = req[j].user
          /\ req'[j].vmid = req[j].vmid /\ \A i \in Jobs \ {j} : req'[i] = req[i]
      BY <1>9, <1>t DEF Save, Reqs
    <2>4. UNCHANGED <<poller, task, adopting>>
      BY <1>9 DEF Save, pve
    <2>5. JobOK(row'[j], req'[j], poller'[j], task'[j], j \in adopting', KindOf[j])
      BY <1>k, <2>2, <2>3, <2>4 DEF JobOK, Exists
    <2> QED BY <2>2, <2>3, <2>4, <2>5, OneJobMoves
  <1>10. CASE Spawn(j)
    <2>1. /\ req[j].pc = "spawn" /\ req'[j].pc = "done" /\ req'[j].user = req[j].user
          /\ \A i \in Jobs \ {j} : req'[i] = req[i]
      BY <1>10, <1>t, RequestEnded DEF Spawn
    <2>2. UNCHANGED <<task, adopting>>
      BY <1>10 DEF Spawn, pve
    <2>3. /\ \A i \in Jobs \ {j} : row'[i] = row[i] /\ poller'[i] = poller[i]
          /\ row'[j].vmid = row[j].vmid /\ row'[j].own = row[j].own
          /\ row'[j].upid = row[j].upid
          /\ \/ row'[j].st = row[j].st /\ poller'[j] \in {"none", "poll"}
             \/ row'[j].st = "needs_review" /\ row[j].st \in InProgress /\ poller'[j] = "none"
      <3>1. CASE accepting
        BY <1>10, <1>k, <1>t, <2>1, <3>1 DEF Spawn, JobOK
      <3>2. CASE ~accepting
        BY <1>10, <1>k, <1>t, <2>1, <3>2, ReviewOf DEF Spawn, JobOK
      <3> QED BY <3>1, <3>2
    <2>4. JobOK(row'[j], req'[j], poller'[j], task'[j], j \in adopting', KindOf[j])
      BY <1>k, <2>1, <2>2, <2>3 DEF JobOK
    <2> QED BY <2>1, <2>2, <2>3, <2>4, OneJobMoves
  <1> QED BY <1>1, <1>2, <1>3, <1>4, <1>5, <1>6, <1>7, <1>8, <1>9, <1>10 DEF Request

LEMMA PollerJobs ==
    ASSUME TypeOK, JobsOK, NEW j \in Jobs, Poller(j)
    PROVE  JobsOK'
  <1> USE Constants, Statuses
  <1>t. row \in [Jobs -> Rows] /\ poller \in [Jobs -> PollerSteps]
    BY DEF TypeOK
  <1>k. JobOK(row[j], req[j], poller[j], task[j], j \in adopting, KindOf[j])
    BY DEF JobsOK
  <1>s. ASSUME NEW pc \in PollerSteps, PollerStep(j, pc), \A i \in Jobs \ {j} : row'[i] = row[i],
               JobOK(row'[j], req[j], pc, task[j], j \in adopting, KindOf[j])
        PROVE  JobsOK'
    <2>1. /\ req' = req /\ task' = task /\ adopting' = adopting
          /\ poller'[j] = pc /\ \A i \in Jobs \ {j} : poller'[i] = poller[i]
      BY <1>s, <1>t DEF PollerStep, pve
    <2>2. JobOK(row'[j], req'[j], poller'[j], task'[j], j \in adopting', KindOf[j])
      BY <1>s, <2>1
    <2> QED BY <1>s, <2>1, <2>2, OneJobMoves
  <1> USE DEF PollerSteps
  <1>1. CASE PollFailed(j)
    <2>1. JobOK(row'[j], req[j], "none", task[j], j \in adopting, KindOf[j])
      BY <1>1, <1>k, StatusOf DEF PollFailed, JobOK, Exists
    <2> QED BY <1>1, <1>s, <2>1, StatusOf DEF PollFailed
  <1>2. CASE PollGivesUp(j)
    <2>1. JobOK(row'[j], req[j], "none", task[j], j \in adopting, KindOf[j])
      BY <1>2, <1>k, StatusOf DEF PollGivesUp, JobOK, Exists
    <2> QED BY <1>2, <1>s, <2>1, StatusOf DEF PollGivesUp
  <1>3. CASE PollOk(j)
    <2>1. CASE KindOf[j] = "create"
      <3>1. JobOK(row'[j], req[j], "own", task[j], j \in adopting, KindOf[j])
        BY <1>3, <1>k, <2>1 DEF PollOk, JobOK
      <3> QED BY <1>3, <1>s, <2>1, <3>1 DEF PollOk
    <2>2. CASE KindOf[j] # "create"
      <3>1. JobOK(row'[j], req[j], "configure", task[j], j \in adopting, KindOf[j])
        BY <1>3, <1>k, <2>2, StatusOf DEF PollOk, JobOK, Exists
      <3> QED BY <1>3, <1>s, <2>2, <3>1, StatusOf DEF PollOk
    <2> QED BY <2>1, <2>2
  <1>4. CASE ConfigureOk(j)
    <2>1. JobOK(row'[j], req[j], "own", task[j], j \in adopting, KindOf[j])
      BY <1>4, <1>k DEF ConfigureOk, JobOK
    <2> QED BY <1>4, <1>s, <2>1 DEF ConfigureOk
  <1>5. CASE ConfigureFails(j)
    <2>1. JobOK(row'[j], req[j], "none", task[j], j \in adopting, KindOf[j])
      BY <1>5, <1>k, StatusOf DEF ConfigureFails, JobOK, Exists
    <2> QED BY <1>5, <1>s, <2>1, StatusOf DEF ConfigureFails
  <1>6. CASE Own(j)
    <2>1. /\ row'[j].st = row[j].st /\ row'[j].vmid = row[j].vmid /\ row'[j].upid = row[j].upid
          /\ row'[j].own = "owned" /\ \A i \in Jobs \ {j} : row'[i] = row[i]
      BY <1>6, <1>t DEF Own, Rows
    <2>2. JobOK(row'[j], req[j], "finish", task[j], j \in adopting, KindOf[j])
      BY <1>6, <1>k, <2>1 DEF Own, MayOwn, Exists, JobOK
    <2> QED BY <1>6, <1>s, <2>1, <2>2 DEF Own
  <1>7. CASE OwnFails(j)
    <2>1. JobOK(row'[j], req[j], "fail", task[j], j \in adopting, KindOf[j])
      BY <1>7, <1>k, ReviewOf DEF OwnFails, JobOK
    <2> QED BY <1>7, <1>s, <2>1, ReviewOf DEF OwnFails
  <1>8. CASE Fail(j)
    <2>1. CASE KindOf[j] = "template"
      <3>1. JobOK(row'[j], req[j], "none", task[j], j \in adopting, KindOf[j])
        BY <1>8, <1>k, <2>1, StatusOf DEF Fail, JobOK, Exists
      <3> QED BY <1>8, <1>s, <2>1, <3>1, StatusOf DEF Fail
    <2>2. CASE KindOf[j] # "template"
      <3>1. JobOK(row'[j], req[j], "none", task[j], j \in adopting, KindOf[j])
        BY <1>8, <1>k, <2>2, ReviewOf DEF Fail, JobOK
      <3> QED BY <1>8, <1>s, <2>2, <3>1, ReviewOf DEF Fail
    <2> QED BY <2>1, <2>2
  <1>9. CASE Finish(j)
    <2>1. JobOK(row'[j], req[j], "none", task[j], j \in adopting, KindOf[j])
      BY <1>9, <1>k, StatusOf DEF Finish, JobOK, Exists
    <2> QED BY <1>9, <1>s, <2>1, StatusOf DEF Finish
  <1> QED BY <1>1, <1>2, <1>3, <1>4, <1>5, <1>6, <1>7, <1>8, <1>9 DEF Poller

LEMMA OperatorJobs ==
    ASSUME TypeOK, JobsOK, CheckOK, NEW j \in Jobs, Operator(j)
    PROVE  JobsOK'
  <1> USE Constants, Statuses
  <1>t. row \in [Jobs -> Rows]
    BY DEF TypeOK
  <1>k. JobOK(row[j], req[j], poller[j], task[j], j \in adopting, KindOf[j])
    BY DEF JobsOK
  <1>r. ASSUME UNCHANGED <<req, poller, task, adopting>>, \A i \in Jobs \ {j} : row'[i] = row[i],
               JobOK(row'[j], req[j], poller[j], task[j], j \in adopting, KindOf[j])
        PROVE  JobsOK'
    <2>1. JobOK(row'[j], req'[j], poller'[j], task'[j], j \in adopting', KindOf[j])
      BY <1>r
    <2> QED BY <1>r, <2>1, OneJobMoves
  <1>e. ASSUME row' = SetStatus(j, "error"), UNCHANGED <<req, poller, task, adopting>>,
               req[j].pc \in {"spawn", "done"}
        PROVE  JobsOK'
    <2>1. JobOK(row'[j], req[j], poller[j], task[j], j \in adopting, KindOf[j])
      BY <1>e, <1>k, StatusOf DEF JobOK, Exists
    <2> QED BY <1>e, <1>r, <2>1, StatusOf
  <1>1. CASE StatusRoute(j)
    BY <1>1, <1>e DEF StatusRoute, CheckOK, pve
  <1>7. CASE StatusRead(j)
    BY <1>7, <1>r, <1>k DEF StatusRead, pve
  <1>2. CASE Reconcile(j)
    BY <1>2, <1>e, <1>k DEF Reconcile, JobOK, pve, mem
  <1>3. CASE ResolveError(j)
    BY <1>3, <1>e, <1>k DEF ResolveError, JobOK, pve, mem
  <1>4. CASE ResolveReadyCheck(j)
    <2>1. JobOK(row'[j], req'[j], poller'[j], task'[j], j \in adopting', KindOf[j])
      BY <1>4, <1>k DEF ResolveReadyCheck, Verified, JobOK, pve, TypeOK, Rows
    <2> QED BY <1>4, <2>1, OneJobMoves DEF ResolveReadyCheck, pve
  <1>5. CASE ResolveReady(j)
    <2>1. CASE MayOwn(j) /\ row[j].st = "needs_review"
      <3>1. /\ row'[j].st = "ready" /\ row'[j].vmid = row[j].vmid /\ row'[j].upid = row[j].upid
            /\ row'[j].own = "owned" /\ \A i \in Jobs \ {j} : row'[i] = row[i]
        BY <1>5, <1>t, <2>1 DEF ResolveReady, Rows
      <3>2. JobOK(row'[j], req'[j], poller'[j], task'[j], j \in adopting', KindOf[j])
        BY <1>5, <1>k, <2>1, <3>1 DEF ResolveReady, JobOK, pve
      <3> QED BY <1>5, <3>1, <3>2, OneJobMoves DEF ResolveReady, pve
    <2>2. CASE ~(MayOwn(j) /\ row[j].st = "needs_review")
      <3>1. JobOK(row'[j], req'[j], poller'[j], task'[j], j \in adopting', KindOf[j])
        BY <1>5, <1>k, <2>2 DEF ResolveReady, JobOK, pve
      <3> QED BY <1>5, <2>2, <3>1, OneJobMoves DEF ResolveReady, pve
    <2> QED BY <2>1, <2>2
  <1>6. CASE Cleanup(j)
    <2>1. row'[j] = NoRow /\ \A i \in Jobs \ {j} : row'[i] = row[i]
      BY <1>6, <1>t DEF Cleanup
    <2>2. JobOK(row'[j], req[j], poller[j], task[j], j \in adopting, KindOf[j])
      BY <1>k, <2>1, EmptyRow DEF JobOK
    <2> QED BY <1>6, <1>r, <2>1, <2>2 DEF Cleanup, pve, mem
  <1> QED BY <1>1, <1>2, <1>3, <1>4, <1>5, <1>6, <1>7 DEF Operator

\* Rows only disappear.
LEMMA RowsGoJobs ==
    ASSUME JobsOK, UNCHANGED <<req, poller, task, adopting>>,
           \A j \in Jobs : row'[j] = row[j] \/ row'[j] = NoRow
    PROVE  JobsOK'
  <1>1. ASSUME NEW j \in Jobs
        PROVE  JobOK(row'[j], req[j], poller[j], task[j], j \in adopting, KindOf[j])
    <2>1. JobOK(row[j], req[j], poller[j], task[j], j \in adopting, KindOf[j])
      BY DEF JobsOK
    <2>2. CASE row'[j] = row[j]
      BY <2>1, <2>2
    <2>3. CASE row'[j] = NoRow
      BY <2>1, <2>3, EmptyRow DEF JobOK
    <2> QED BY <2>2, <2>3
  <1> QED BY <1>1 DEF JobsOK, JobOK

LEMMA RestartJobs ==
    ASSUME TypeOK, JobsOK, Restart
    PROVE  JobsOK'
  <1> USE Constants, Statuses
  <1>1. ASSUME NEW j \in Jobs
        PROVE  JobOK(row'[j], req'[j], poller'[j], task'[j], j \in adopting', KindOf[j])
    <2>1. JobOK(row[j], req[j], poller[j], task[j], j \in adopting, KindOf[j])
      BY DEF JobsOK
    <2>2. /\ row[j] \in Rows /\ req[j] \in Reqs /\ req \in [Jobs -> Reqs]
          /\ row'[j] = (IF row[j].st \in InProgress \cup {"submitting"}
                        THEN [row[j] EXCEPT !.st = "needs_review"] ELSE row[j])
          /\ req'[j] = (IF Running(j) THEN Ended(req[j]) ELSE req[j])
          /\ poller'[j] = "none" /\ ~(j \in adopting') /\ task'[j] = task[j]
      BY DEF Restart, TypeOK, pve
    <2>3. /\ row'[j].st = (IF row[j].st \in InProgress \cup {"submitting"} THEN "needs_review" ELSE row[j].st)
          /\ row'[j].vmid = row[j].vmid /\ row'[j].own = row[j].own
      BY <2>2 DEF Rows
    <2>4. Ended(req[j]).pc = "done" /\ Ended(req[j]).user = req[j].user
      <3>1. End(j)[j] = Ended(req[j])
        BY <2>2 DEF End
      <3> QED BY <2>2, <3>1, RequestEnded
    <2>5. /\ req'[j].pc = IF Running(j) THEN "done" ELSE req[j].pc
          /\ req'[j].user = req[j].user
      BY <2>2, <2>4
    <2> QED BY <2>1, <2>2, <2>3, <2>5 DEF JobOK, Running
  <1> QED BY <1>1 DEF JobsOK, JobOK

\* A request only moves on, and what a status request reads has its task on record.
LEMMA CheckNext == ASSUME TypeOK, JobsOK, CheckOK, [Next]_vars PROVE CheckOK'
  <1>t. req \in [Jobs -> Reqs] /\ checking \subseteq Jobs
    BY DEF TypeOK
  <1>1. ASSUME NEW j \in Jobs, Request(j) PROVE CheckOK'
    <2>1. checking' = checking /\ \A i \in Jobs \ {j} : req'[i] = req[i]
      <3>1. CASE Insert(j) \/ ListGuests(j) \/ Pick(j) \/ Accepted(j) \/ Save(j)
        BY <1>t, <3>1 DEF Insert, ListGuests, Pick, Accepted, Save
      <3>2. CASE ListFails(j) \/ AnswerLost(j) \/ Rejected(j) \/ Spawn(j)
        BY <1>t, <3>2, RequestEnded DEF ListFails, AnswerLost, Rejected, Spawn
      <3>3. CASE Taken(j)
        BY <1>t, <3>3, RequestEnded DEF Taken
      <3> QED BY <1>1, <3>1, <3>2, <3>3 DEF Request
    <2>2. req[j].pc \in {"spawn", "done"} => Spawn(j)
      BY <1>1 DEF Request, Insert, ListGuests, ListFails, Pick, Accepted, AnswerLost, Rejected,
         Taken, Save
    <2>3. Spawn(j) => req'[j].pc = "done"
      BY <1>t, RequestEnded DEF Spawn
    <2> QED BY <1>t, <2>1, <2>2, <2>3 DEF CheckOK
  <1>2. ASSUME NEW j \in Jobs, StatusRead(j) PROVE CheckOK'
    <2>1. JobOK(row[j], req[j], poller[j], task[j], j \in adopting, KindOf[j])
      BY DEF JobsOK
    <2>2. req[j].pc \in {"spawn", "done"}
      BY <1>2, <2>1 DEF StatusRead, JobOK, InProgress
    <2> QED BY <1>2, <2>2 DEF StatusRead, CheckOK
  <1>3. CASE Restart
    BY <1>3 DEF Restart, CheckOK
  <1>4. ASSUME UNCHANGED req, checking' \subseteq checking PROVE CheckOK'
    BY <1>4 DEF CheckOK
  <1>5. ASSUME NEW j \in Jobs, Poller(j) PROVE UNCHANGED <<req, checking>>
    BY <1>5 DEF Poller, PollerStep, PollFailed, PollGivesUp, PollOk, ConfigureOk, ConfigureFails,
       Own, OwnFails, Fail, Finish
  <1>6. ASSUME NEW j \in Jobs, Operator(j), ~StatusRead(j)
        PROVE  UNCHANGED req /\ checking' \subseteq checking
    BY <1>6 DEF Operator, StatusRoute, Reconcile, ResolveError, ResolveReadyCheck, ResolveReady,
       Cleanup, mem
  <1>7. Admin => UNCHANGED <<req, checking>>
    BY DEF Admin, DeleteGuest, DeleteRecords, DeleteGivesUp, Unassign, DeleteUser, mem
  <1>8. Environment /\ ~Restart => UNCHANGED req /\ checking' \subseteq checking
    BY DEF Environment, TaskOk, TaskFails, ForeignGuest, Expire, Shutdown, mem
  <1>9. UNCHANGED vars => UNCHANGED <<req, checking>>
    BY DEF vars, mem
  <1> QED BY <1>1, <1>2, <1>3, <1>4, <1>5, <1>6, <1>7, <1>8, <1>9 DEF Next

LEMMA JobsNext == ASSUME TypeOK, JobsOK, CheckOK, [Next]_vars PROVE JobsOK'
  <1>1. ASSUME NEW j \in Jobs, Request(j) \/ Poller(j) \/ Operator(j) PROVE JobsOK'
    BY <1>1, RequestJobs, PollerJobs, OperatorJobs
  <1>2. CASE Admin
    <2>1. UNCHANGED <<req, poller, task, adopting>>
      BY <1>2 DEF Admin, DeleteGuest, DeleteRecords, DeleteGivesUp, Unassign, DeleteUser, pve, mem
    <2>2. ASSUME NEW j \in Jobs PROVE row'[j] = row[j] \/ row'[j] = NoRow
      BY <1>2 DEF Admin, DeleteGuest, DeleteRecords, DeleteGivesUp, Unassign, DeleteUser
    <2> QED BY <2>1, <2>2, RowsGoJobs
  <1>3. ASSUME NEW j \in Jobs, TaskOk(j) \/ TaskFails(j) PROVE JobsOK'
    <2>1. /\ row' = row /\ req' = req /\ poller' = poller /\ adopting' = adopting
          /\ task[j] = "running" /\ task'[j] \in {"ok", "failed"}
          /\ \A i \in Jobs \ {j} : task'[i] = task[i]
      BY <1>3 DEF TaskOk, TaskFails, mem, TypeOK
    <2>2. JobOK(row[j], req[j], poller[j], task[j], j \in adopting, KindOf[j])
      BY DEF JobsOK
    <2>3. JobOK(row'[j], req'[j], poller'[j], task'[j], j \in adopting', KindOf[j])
      BY <2>1, <2>2 DEF JobOK
    <2> QED BY <2>1, <2>3, OneJobMoves
  <1>4. ASSUME UNCHANGED <<row, req, poller, task, adopting>> PROVE JobsOK'
    BY <1>4 DEF JobsOK, JobOK
  <1>5. ASSUME NEW v \in Vmids, ForeignGuest(v) \/ Expire(v) PROVE JobsOK'
    BY <1>4, <1>5 DEF ForeignGuest, Expire, pve, mem
  <1>6. CASE Shutdown \/ UNCHANGED vars
    BY <1>4, <1>6 DEF Shutdown, vars, pve, mem
  <1>7. CASE Restart
    BY <1>7, RestartJobs
  <1> QED BY <1>1, <1>2, <1>3, <1>5, <1>6, <1>7 DEF Next, Environment

-----------------------------------------------------------------------------
(* What a step other than an insert and a pick may do.                     *)

\* One row: it keeps its VMID, and takes up neither a charge nor an open status it did not
\* have, unless that is noted; a failure the portal reports is one of a task that built
\* nothing.
RowMoves(j) ==
    /\ row'[j].st # "none" => row[j].st # "none" /\ row'[j].vmid = row[j].vmid
    /\ row'[j].st \in Open => row[j].st \in Open \/ j \in reopened'
    /\ row'[j].st \in Charged => row[j].st \in Charged \/ j \in reopened'
    /\ row'[j].st = "error" => \/ row[j].st = "error" \/ task[j] \in {"none", "failed"}
                               \/ j \in byHand'

\* The accounts: users stay, and jobs set aside stay aside.
Steady ==
    /\ \A j \in Jobs : req'[j].user = req[j].user /\ (req[j].pc = "done" => req'[j].pc = "done")
    /\ byHand \subseteq byHand' /\ reopened \subseteq reopened' /\ shared' = shared

\* Guests: those there were, with tasks that have not failed, and the one being built.
GuestMoves ==
    \A v \in Vmids : guest'[v] \in Jobs =>
        /\ task'[guest'[v]] \in {"running", "ok"}
        /\ guest'[v] = guest[v] \/ row'[guest'[v]].st # "error"

\* Assignments are dropped with the rows they belong to, or noted ...
Drops ==
    /\ \A j \in Jobs : row'[j].st # "none" => row'[j].own = row[j].own
    /\ \A v \in Vmids :
        \/ assign'[v] = assign[v]
        \/ /\ assign'[v] = Nobody
           /\ assign[v] \in Jobs => \/ row'[assign[v]].st \notin Open
                                    \/ row'[assign[v]].vmid # v
                                    \/ assign[v] \in reopened'

\* ... or an open job takes its VM, which no other user has.
Owns(j) ==
    /\ row[j].st \in Open /\ row[j].vmid \in Vmids /\ req[j].pc = "done"
    /\ Owner(row[j].vmid) \in {NoUser, req[j].user}
    /\ assign' = [assign EXCEPT ![row[j].vmid] = j]
    /\ \A i \in Jobs \ {j} : row'[i] = row[i]
    /\ row'[j].own = "owned" /\ row'[j].st \in Charged

Quiet == (\A j \in Jobs : RowMoves(j)) /\ Steady /\ GuestMoves /\ (Drops \/ \E j \in Jobs : Owns(j))

\* Nothing but one row is touched, and that row as it may be.
LEMMA QuietRow ==
    ASSUME TypeOK, GuestOK, NEW j \in Jobs, \A i \in Jobs \ {j} : row'[i] = row[i], RowMoves(j),
           row'[j].st # "none" => row'[j].own = row[j].own,
           \A i \in Jobs : req'[i].user = req[i].user /\ (req[i].pc = "done" => req'[i].pc = "done"),
           byHand \subseteq byHand', reopened \subseteq reopened', shared' = shared,
           UNCHANGED <<assign, guest, task>>
    PROVE  Quiet
  <1>1. \A i \in Jobs : RowMoves(i)
    BY DEF RowMoves
  <1>2. Steady
    BY DEF Steady
  <1>3. GuestMoves
    BY DEF GuestMoves, GuestOK
  <1>4. Drops
    BY DEF Drops
  <1> QED BY <1>1, <1>2, <1>3, <1>4 DEF Quiet

\* The steps of a request.
LEMMA RequestQuiet ==
    ASSUME TypeOK, JobsOK, GuestOK, NEW j \in Jobs, Request(j), ~Insert(j), ~Pick(j)
    PROVE  Quiet
  <1> USE Constants, Statuses
  <1>t. /\ row \in [Jobs -> Rows] /\ req \in [Jobs -> Reqs]
        /\ guest \in [Vmids -> Jobs \cup {NoGuest, Foreign}]
        /\ task \in [Jobs -> {"none", "running", "ok", "failed"}]
    BY DEF TypeOK
  <1>k. JobOK(row[j], req[j], poller[j], task[j], j \in adopting, KindOf[j])
    BY DEF JobsOK
  <1>p. \A r \in Reqs : \A pc : [r EXCEPT !.pc = pc].user = r.user
    BY DEF Reqs
  <1>b. ASSUME Builds(j), req[j].pc = "submit", row'[j].st # "error", RowMoves(j), Steady,
               \A i \in Jobs \ {j} : row'[i] = row[i],
               row'[j].st # "none" => row'[j].own = row[j].own, UNCHANGED assign
        PROVE  Quiet
    <2>1. \A i \in Jobs : RowMoves(i)
      BY <1>b DEF RowMoves
    <2>2. req[j].vmid \in Vmids
      BY <1>b, <1>k DEF JobOK
    <2>3. GuestMoves
      BY <1>b, <1>t, <2>2 DEF GuestMoves, GuestOK, Builds
    <2>4. Drops
      BY <1>b DEF Drops
    <2> QED BY <1>b, <2>1, <2>3, <2>4 DEF Quiet
  <1>2. CASE ListGuests(j)
    <2>1. \A i \in Jobs : req'[i].user = req[i].user /\ (req[i].pc = "done" => req'[i].pc = "done")
      BY <1>2, <1>t DEF ListGuests, Reqs
    <2>2. RowMoves(j)
      BY <1>2 DEF ListGuests, RowMoves
    <2> QED BY <1>2, <2>1, <2>2, QuietRow DEF ListGuests, pve, hist
  <1>e. ASSUME req' = End(j)
        PROVE  \A i \in Jobs : req'[i].user = req[i].user /\ (req[i].pc = "done" => req'[i].pc = "done")
    BY <1>e, <1>t, RequestEnded
  <1>f. ASSUME NEW s \in {"error", "needs_review"}, row' = SetStatus(j, s),
               req[j].pc \in {"list", "submit"}
        PROVE  /\ \A i \in Jobs \ {j} : row'[i] = row[i]
               /\ RowMoves(j) /\ (row'[j].st # "none" => row'[j].own = row[j].own)
    <2>1. /\ \A i \in Jobs \ {j} : row'[i] = row[i]
          /\ row'[j].st = IF Exists(j) THEN s ELSE "none"
          /\ row'[j].vmid = row[j].vmid /\ row'[j].own = row[j].own
      BY <1>f, StatusOf
    <2>2. row[j].st \in {"submitting", "none"} /\ task[j] = "none"
      BY <1>f, <1>k DEF JobOK
    <2>3. RowMoves(j)
      BY <1>f, <2>1, <2>2 DEF RowMoves, Exists
    <2> QED BY <2>1, <2>3
  <1>3. CASE ListFails(j)
    BY <1>3, <1>e, <1>f, QuietRow DEF ListFails, pve, hist
  <1>5. CASE Accepted(j)
    <2>1. Steady
      BY <1>5, <1>t DEF Accepted, Reqs, Steady, hist
    <2>2. RowMoves(j)
      BY <1>5 DEF Accepted, RowMoves
    <2>3. row'[j].st # "error"
      BY <1>5, <1>k DEF Accepted, JobOK
    <2> QED BY <1>5, <1>b, <2>1, <2>2, <2>3 DEF Accepted
  <1>6. CASE AnswerLost(j)
    <2>1. /\ \A i \in Jobs \ {j} : row'[i] = row[i]
          /\ RowMoves(j) /\ (row'[j].st # "none" => row'[j].own = row[j].own)
      BY <1>6, <1>f DEF AnswerLost
    <2>2. CASE Builds(j)
      <3>1. Steady
        <4>1. \A i \in Jobs : req'[i].user = req[i].user /\ (req[i].pc = "done" => req'[i].pc = "done")
          BY <1>6, <1>e DEF AnswerLost
        <4>2. byHand' = byHand /\ reopened' = reopened /\ shared' = shared
          BY <1>6 DEF AnswerLost, hist
        <4> QED BY <4>1, <4>2 DEF Steady
      <3>2. row'[j].st # "error"
        BY <1>6, StatusOf DEF AnswerLost
      <3> QED BY <1>6, <1>b, <2>1, <2>2, <3>1, <3>2 DEF AnswerLost
    <2>3. CASE UNCHANGED pve
      BY <1>6, <1>e, <2>1, <2>3, QuietRow DEF AnswerLost, pve, hist
    <2> QED BY <1>6, <2>2, <2>3 DEF AnswerLost
  <1>7. CASE Rejected(j)
    BY <1>7, <1>e, <1>f, QuietRow DEF Rejected, pve, hist
  <1>8. CASE Taken(j)
    <2>1. CASE req[j].try = 0
      <3>1. \A i \in Jobs : req'[i].user = req[i].user /\ (req[i].pc = "done" => req'[i].pc = "done")
        BY <1>8, <1>t, <2>1 DEF Taken, Reqs
      <3>2. RowMoves(j)
        BY <1>8, <2>1 DEF Taken, RowMoves
      <3> QED BY <1>8, <2>1, <3>1, <3>2, QuietRow DEF Taken, pve, hist
    <2>2. CASE req[j].try # 0
      BY <1>8, <1>e, <1>f, <2>2, QuietRow DEF Taken, pve, hist
    <2> QED BY <2>1, <2>2
  <1>9. CASE Save(j)
    <2>1. PICK s \in {"cloning", "creating"} :
            row' = IF Exists(j) THEN [row EXCEPT ![j].upid = TRUE, ![j].st = s] ELSE row
      BY <1>9 DEF Save
    <2>2. /\ row'[j].st = IF Exists(j) THEN s ELSE "none"
          /\ row'[j].vmid = row[j].vmid /\ row'[j].own = row[j].own
          /\ \A i \in Jobs \ {j} : row'[i] = row[i]
      BY <1>t, <2>1 DEF Rows, Exists
    <2>3. RowMoves(j)
      BY <1>9, <1>k, <2>2 DEF Save, RowMoves, JobOK, Exists
    <2>4. \A i \in Jobs : req'[i].user = req[i].user /\ (req[i].pc = "done" => req'[i].pc = "done")
      BY <1>9, <1>t DEF Save, Reqs
    <2> QED BY <1>9, <2>2, <2>3, <2>4, QuietRow DEF Save, pve, hist
  <1>10. CASE Spawn(j)
    <2>1. /\ \A i \in Jobs \ {j} : row'[i] = row[i]
          /\ row'[j].vmid = row[j].vmid /\ row'[j].own = row[j].own
          /\ \/ row'[j].st = row[j].st
             \/ row'[j].st = "needs_review" /\ row[j].st \in InProgress
      BY <1>10, <1>t, ReviewOf DEF Spawn
    <2>2. RowMoves(j)
      BY <2>1 DEF RowMoves
    <2> QED BY <1>10, <1>e, <2>1, <2>2, QuietRow DEF Spawn, pve, hist
  <1> QED BY <1>2, <1>3, <1>5, <1>6, <1>7, <1>8, <1>9, <1>10 DEF Request

\* The steps of a poller.
LEMMA PollerQuiet ==
    ASSUME TypeOK, JobsOK, GuestOK, NEW j \in Jobs, Poller(j)
    PROVE  Quiet
  <1> USE Constants, Statuses
  <1>t. /\ row \in [Jobs -> Rows] /\ assign \in [Vmids -> Jobs \cup {Nobody}]
        /\ task \in [Jobs -> {"none", "running", "ok", "failed"}]
    BY DEF TypeOK
  <1>k. JobOK(row[j], req[j], poller[j], task[j], j \in adopting, KindOf[j])
    BY DEF JobsOK
  <1>s. ASSUME NEW pc, PollerStep(j, pc)
        PROVE  /\ \A i \in Jobs : req'[i].user = req[i].user /\ (req[i].pc = "done" => req'[i].pc = "done")
               /\ byHand \subseteq byHand' /\ reopened \subseteq reopened' /\ shared' = shared
               /\ UNCHANGED <<guest, task>>
               /\ row[j].st = "error" /\ row'[j].st \in Charged => j \in reopened'
    BY <1>s DEF PollerStep, NoteReopened, pve
  \* A status written by the poller.
  <1>w. ASSUME NEW pc, PollerStep(j, pc), NEW s \in {"error", "needs_review", "configuring", "ready"},
               row' = SetStatus(j, s), UNCHANGED assign, poller[j] # "none",
               row[j].st = "ready" => s = "ready", s = "error" => task[j] = "failed"
        PROVE  Quiet
    <2>1. /\ \A i \in Jobs \ {j} : row'[i] = row[i]
          /\ row'[j].st = IF Exists(j) THEN s ELSE "none"
          /\ row'[j].vmid = row[j].vmid /\ row'[j].own = row[j].own
      BY <1>w, StatusOf
    <2>2. row[j].st \in Status
      BY <1>t DEF Rows
    <2>3. row[j].st = "error" /\ row'[j].st \in Charged => j \in reopened'
      BY <1>s, <1>w
    <2>4. RowMoves(j)
      BY <1>w, <2>1, <2>2, <2>3 DEF RowMoves, Exists
    <2> QED BY <1>s, <1>w, <2>1, <2>4, QuietRow
  \* A row sent to review only while it is in progress.
  <1>v. ASSUME NEW pc, PollerStep(j, pc), row' = ReviewIfRunning(j), UNCHANGED assign
        PROVE  Quiet
    <2>1. /\ \A i \in Jobs \ {j} : row'[i] = row[i]
          /\ row'[j].st = IF row[j].st \in InProgress THEN "needs_review" ELSE row[j].st
          /\ row'[j].vmid = row[j].vmid /\ row'[j].own = row[j].own
      BY <1>v, ReviewOf
    <2>2. RowMoves(j)
      BY <2>1 DEF RowMoves
    <2> QED BY <1>s, <1>v, <2>1, <2>2, QuietRow
  <1>n. ASSUME NEW pc, PollerStep(j, pc), UNCHANGED <<row, assign>>
        PROVE  Quiet
    <2>1. RowMoves(j)
      BY <1>n DEF RowMoves
    <2> QED BY <1>s, <1>n, <2>1, QuietRow
  <1>1. CASE PollFailed(j)
    BY <1>1, <1>k, <1>w DEF PollFailed, JobOK
  <1>2. CASE PollGivesUp(j)
    BY <1>2, <1>k, <1>w DEF PollGivesUp, JobOK
  <1>3. CASE PollOk(j)
    <2>1. CASE KindOf[j] = "create"
      BY <1>3, <2>1, <1>n DEF PollOk
    <2>2. CASE KindOf[j] # "create"
      BY <1>3, <2>2, <1>k, <1>w DEF PollOk, JobOK
    <2> QED BY <2>1, <2>2
  <1>4. CASE ConfigureOk(j)
    BY <1>4, <1>n DEF ConfigureOk
  <1>5. CASE ConfigureFails(j)
    BY <1>5, <1>k, <1>w DEF ConfigureFails, JobOK
  <1>6. CASE Own(j)
    <2>1. /\ row'[j].st = row[j].st /\ row'[j].vmid = row[j].vmid /\ row'[j].own = "owned"
          /\ \A i \in Jobs \ {j} : row'[i] = row[i]
      BY <1>6, <1>t DEF Own, Rows
    <2>2. PollerStep(j, "finish")
      BY <1>6 DEF Own
    <2>3. \A i \in Jobs : RowMoves(i)
      BY <2>1 DEF RowMoves
    <2>4. Steady
      BY <1>s, <2>2 DEF Steady
    <2>5. GuestMoves
      BY <1>s, <2>2 DEF GuestMoves, GuestOK
    <2>6. /\ row[j].st \in Open /\ row'[j].st \in Charged
          /\ Owner(row[j].vmid) \in {NoUser, req[j].user}
          /\ assign' = [assign EXCEPT ![row[j].vmid] = j]
      BY <1>6, <2>1 DEF Own, MayOwn, Assigned
    <2>7. row[j].vmid \in Vmids /\ req[j].pc = "done"
      BY <1>6, <1>k DEF Own, MayOwn, Exists, JobOK
    <2>8. Owns(j)
      BY <2>1, <2>6, <2>7 DEF Owns
    <2> QED BY <2>3, <2>4, <2>5, <2>8 DEF Quiet
  <1>7. CASE OwnFails(j)
    BY <1>7, <1>v DEF OwnFails
  <1>8. CASE Fail(j)
    <2>1. CASE KindOf[j] = "template"
      BY <1>8, <2>1, <1>k, <1>w DEF Fail, JobOK
    <2>2. CASE KindOf[j] # "template"
      BY <1>8, <2>2, <1>v DEF Fail
    <2> QED BY <2>1, <2>2
  <1>9. CASE Finish(j)
    BY <1>9, <1>w DEF Finish
  <1> QED BY <1>1, <1>2, <1>3, <1>4, <1>5, <1>6, <1>7, <1>8, <1>9 DEF Poller

\* The steps of the operators.
LEMMA OperatorQuiet ==
    ASSUME TypeOK, JobsOK, GuestOK, NEW j \in Jobs, Operator(j)
    PROVE  Quiet
  <1> USE Constants, Statuses
  <1>t. row \in [Jobs -> Rows]
    BY DEF TypeOK
  <1>k. JobOK(row[j], req[j], poller[j], task[j], j \in adopting, KindOf[j])
    BY DEF JobsOK
  <1>e. ASSUME row' = SetStatus(j, "error"), UNCHANGED <<assign, pve, req, reopened, shared>>,
               byHand \subseteq byHand', task[j] = "failed" \/ j \in byHand'
        PROVE  Quiet
    <2>1. /\ \A i \in Jobs \ {j} : row'[i] = row[i]
          /\ row'[j].st = IF Exists(j) THEN "error" ELSE "none"
          /\ row'[j].vmid = row[j].vmid /\ row'[j].own = row[j].own
      BY <1>e, StatusOf
    <2>2. RowMoves(j)
      BY <1>e, <2>1 DEF RowMoves, Exists
    <2> QED BY <1>e, <2>1, <2>2, QuietRow DEF pve
  <1>1. CASE StatusRoute(j)
    BY <1>1, <1>e DEF StatusRoute, hist
  <1>7. CASE StatusRead(j)
    <2>1. RowMoves(j)
      BY <1>7 DEF StatusRead, RowMoves
    <2> QED BY <1>7, <2>1, QuietRow DEF StatusRead, pve, hist
  <1>2. CASE Reconcile(j)
    BY <1>2, <1>e DEF Reconcile, mem, hist
  <1>3. CASE ResolveError(j)
    BY <1>3, <1>e DEF ResolveError, mem
  <1>n. ASSUME UNCHANGED <<row, assign, pve, req, hist>> PROVE Quiet
    <2>1. RowMoves(j)
      BY <1>n DEF RowMoves
    <2> QED BY <1>n, <2>1, QuietRow DEF pve, hist
  <1>4. CASE ResolveReadyCheck(j)
    BY <1>4, <1>n DEF ResolveReadyCheck
  <1>5. CASE ResolveReady(j)
    <2>1. CASE MayOwn(j) /\ row[j].st = "needs_review"
      <3>1. /\ row'[j].st = "ready" /\ row'[j].vmid = row[j].vmid /\ row'[j].own = "owned"
            /\ \A i \in Jobs \ {j} : row'[i] = row[i]
        BY <1>5, <1>t, <2>1 DEF ResolveReady, Rows
      <3>2. \A i \in Jobs : RowMoves(i)
        BY <2>1, <3>1 DEF RowMoves
      <3>3. Steady
        BY <1>5 DEF ResolveReady, Steady, hist
      <3>4. GuestMoves
        BY <1>5 DEF ResolveReady, GuestMoves, GuestOK, pve
      <3>5. Owns(j)
        BY <1>5, <1>k, <2>1, <3>1 DEF ResolveReady, Owns, MayOwn, Assigned, Exists, JobOK
      <3> QED BY <3>2, <3>3, <3>4, <3>5 DEF Quiet
    <2>2. CASE ~(MayOwn(j) /\ row[j].st = "needs_review")
      BY <1>5, <1>n, <2>2 DEF ResolveReady
    <2> QED BY <2>1, <2>2
  <1>6. CASE Cleanup(j)
    <2>1. row'[j] = NoRow /\ \A i \in Jobs \ {j} : row'[i] = row[i]
      BY <1>6, <1>t DEF Cleanup
    <2>2. RowMoves(j)
      BY <2>1, EmptyRow DEF RowMoves
    <2> QED BY <1>6, <2>1, <2>2, EmptyRow, QuietRow DEF Cleanup, pve, mem, hist
  <1> QED BY <1>1, <1>2, <1>3, <1>4, <1>5, <1>6, <1>7 DEF Operator

\* Deletions.
LEMMA AdminQuiet ==
    ASSUME TypeOK, GuestOK, Admin
    PROVE  Quiet
  <1> USE Constants, Statuses, EmptyRow
  <1>t. /\ row \in [Jobs -> Rows] /\ assign \in [Vmids -> Jobs \cup {Nobody}]
        /\ guest \in [Vmids -> Jobs \cup {NoGuest, Foreign}]
    BY DEF TypeOK
  <1>1. \A j \in Jobs : row'[j] = row[j] \/ row'[j] = NoRow
    BY DEF Admin, DeleteGuest, DeleteRecords, DeleteGivesUp, Unassign, DeleteUser
  <1>2. \A j \in Jobs : RowMoves(j)
    BY <1>1 DEF RowMoves
  <1>3. req' = req /\ task' = task /\ byHand' = byHand /\ shared' = shared /\ reopened \subseteq reopened'
    BY DEF Admin, DeleteGuest, DeleteRecords, DeleteGivesUp, Unassign, DeleteUser, pve, mem, hist
  <1>4. Steady
    BY <1>3 DEF Steady
  <1>5. \A v \in Vmids : guest'[v] \in {guest[v], NoGuest}
    BY <1>t DEF Admin, DeleteGuest, DeleteRecords, DeleteGivesUp, Unassign, DeleteUser, pve
  <1>6. GuestMoves
    BY <1>3, <1>5 DEF GuestMoves, GuestOK
  <1>7. \A j \in Jobs : row'[j].st # "none" => row'[j].own = row[j].own
    BY <1>1
  <1>8. ASSUME NEW v \in Vmids
        PROVE  \/ assign'[v] = assign[v]
               \/ /\ assign'[v] = Nobody
                  /\ assign[v] \in Jobs => \/ row'[assign[v]].st \notin Open
                                           \/ row'[assign[v]].vmid # v
                                           \/ assign[v] \in reopened'
    <2>1. ASSUME NEW w \in Vmids, DeleteGuest(w) \/ DeleteGivesUp(w) PROVE assign'[v] = assign[v]
      BY <2>1 DEF DeleteGuest, DeleteGivesUp
    <2>2. ASSUME NEW w \in Vmids, DeleteRecords(w), assign'[v] # assign[v]
          PROVE  assign'[v] = Nobody /\ v = w /\ \A j \in Jobs : row[j].vmid = v => row'[j] = NoRow
      BY <1>t, <2>2 DEF DeleteRecords
    <2>3. ASSUME NEW w \in Vmids, DeleteRecords(w), assign'[v] # assign[v], assign[v] \in Jobs
          PROVE  row'[assign[v]].st \notin Open \/ row'[assign[v]].vmid # v
      <3>1. CASE row[assign[v]].vmid = v
        BY <2>2, <2>3, <3>1
      <3>2. CASE row[assign[v]].vmid # v
        BY <1>1, <2>3, <3>2
      <3> QED BY <3>1, <3>2
    <2>4. ASSUME NEW w \in Vmids, Unassign(w), assign'[v] # assign[v]
          PROVE  assign'[v] = Nobody /\ assign[v] \in reopened'
      BY <1>t, <2>4 DEF Unassign
    <2>5. ASSUME NEW u \in Users, DeleteUser(u), assign'[v] # assign[v]
          PROVE  assign'[v] = Nobody /\ (assign[v] \in Jobs => row'[assign[v]] = NoRow)
      BY <1>t, <2>5 DEF DeleteUser, Owner
    <2> QED BY <2>1, <2>2, <2>3, <2>4, <2>5 DEF Admin
  <1>9. Drops
    BY <1>7, <1>8 DEF Drops
  <1> QED BY <1>2, <1>4, <1>6, <1>9 DEF Quiet

\* Proxmox, time and the process.
LEMMA EnvironmentQuiet ==
    ASSUME TypeOK, GuestOK, Environment \/ UNCHANGED vars
    PROVE  Quiet
  <1> USE Constants, Statuses
  <1>t. /\ row \in [Jobs -> Rows] /\ req \in [Jobs -> Reqs]
        /\ guest \in [Vmids -> Jobs \cup {NoGuest, Foreign}]
        /\ task \in [Jobs -> {"none", "running", "ok", "failed"}]
    BY DEF TypeOK
  <1>a. assign' = assign /\ byHand' = byHand /\ reopened' = reopened /\ shared' = shared
    BY DEF Environment, TaskOk, TaskFails, ForeignGuest, Expire, Shutdown, Restart, vars, hist
  <1>1. ASSUME NEW j \in Jobs
        PROVE  /\ row'[j].vmid = row[j].vmid /\ row'[j].own = row[j].own
               /\ \/ row'[j].st = row[j].st
                  \/ row[j].st \in Open /\ row'[j].st = "needs_review"
    <2>1. CASE Restart
      BY <1>t, <2>1 DEF Restart, Rows
    <2>2. CASE ~Restart
      BY <2>2 DEF Environment, TaskOk, TaskFails, ForeignGuest, Expire, Shutdown, vars
    <2> QED BY <2>1, <2>2
  <1>2. \A j \in Jobs : RowMoves(j)
    BY <1>1 DEF RowMoves
  <1>3. \A j \in Jobs : req'[j].user = req[j].user /\ (req[j].pc = "done" => req'[j].pc = "done")
    <2>1. CASE Restart
      <3>1. ASSUME NEW j \in Jobs PROVE Ended(req[j]).user = req[j].user
        <4>1. End(j)[j] = Ended(req[j])
          BY <1>t DEF End
        <4> QED BY <1>t, <4>1, RequestEnded
      <3> QED BY <2>1, <3>1 DEF Restart, Running
    <2>2. CASE ~Restart
      BY <2>2 DEF Environment, TaskOk, TaskFails, ForeignGuest, Expire, Shutdown, vars, mem
    <2> QED BY <2>1, <2>2
  <1>4. Steady
    BY <1>a, <1>3 DEF Steady
  <1>5. GuestMoves
    <2>1. ASSUME NEW j \in Jobs, TaskOk(j) PROVE GuestMoves
      BY <1>t, <2>1 DEF TaskOk, GuestMoves, GuestOK
    <2>2. ASSUME NEW j \in Jobs, TaskFails(j) PROVE GuestMoves
      BY <1>t, <2>2 DEF TaskFails, GuestMoves, GuestOK
    <2>3. ASSUME NEW v \in Vmids, ForeignGuest(v) PROVE GuestMoves
      BY <1>t, <2>3 DEF ForeignGuest, GuestMoves, GuestOK
    <2>4. ASSUME UNCHANGED pve PROVE GuestMoves
      BY <2>4 DEF GuestMoves, GuestOK, pve
    <2> QED BY <2>1, <2>2, <2>3, <2>4 DEF Environment, Expire, Shutdown, Restart, vars
  <1>6. Drops
    BY <1>a, <1>1 DEF Drops
  <1> QED BY <1>2, <1>4, <1>5, <1>6 DEF Quiet

\* Every step is an insert, a pick or a quiet one.
LEMMA Steps ==
    ASSUME TypeOK, JobsOK, GuestOK, [Next]_vars
    PROVE  Quiet \/ \E j \in Jobs : Insert(j) \/ Pick(j)
  BY RequestQuiet, PollerQuiet, OperatorQuiet, AdminQuiet, EnvironmentQuiet DEF Next

-----------------------------------------------------------------------------
(* Guests, assignments and VMIDs.                                          *)

\* An insert puts a row of its own in, without a VMID.
LEMMA InsertOf ==
    ASSUME TypeOK, JobsOK, NEW j \in Jobs, Insert(j)
    PROVE  \E u \in Users :
              /\ req[j].pc = "new" /\ req[j].user = NoUser /\ row[j].st = "none" /\ Charge(u) + 1 <= Quota
              /\ row'[j].st = "submitting" /\ row'[j].vmid = NoVmid /\ row'[j].own = "pending"
              /\ req'[j].user = u /\ req'[j].pc = "list"
              /\ \A i \in Jobs \ {j} : row'[i] = row[i] /\ req'[i] = req[i]
              /\ UNCHANGED <<assign, guest, task, hist>>
  <1>1. PICK u \in users : /\ req[j].pc = "new" /\ Charge(u) + 1 <= Quota
                           /\ row' = [row EXCEPT ![j] = [NoRow EXCEPT !.st = "submitting"]]
                           /\ req' = [req EXCEPT ![j].pc = "list", ![j].user = u]
                           /\ UNCHANGED <<assign, guest, task, hist>>
    BY DEF Insert, pve
  <1>2. u \in Users
    BY DEF TypeOK
  <1>3. req[j].user = NoUser /\ row[j].st = "none"
    BY <1>1 DEF JobsOK, JobOK
  <1>4. /\ row'[j].st = "submitting" /\ row'[j].vmid = NoVmid /\ row'[j].own = "pending"
        /\ \A i \in Jobs \ {j} : row'[i] = row[i]
    BY <1>1 DEF TypeOK, NoRow
  <1>5. /\ req'[j].user = u /\ req'[j].pc = "list"
        /\ \A i \in Jobs \ {j} : req'[i] = req[i]
    BY <1>1 DEF TypeOK, Reqs
  <1> QED BY <1>1, <1>2, <1>3, <1>4, <1>5

\* A pick gives the row, if it is still there, a VMID no open job has.
LEMMA PickOf ==
    ASSUME TypeOK, JobsOK, NEW j \in Jobs, Pick(j)
    PROVE  \E v \in Vmids :
              /\ row[j].st \in {"submitting", "none"} /\ row[j].own = "pending" /\ req[j].user \in Users
              /\ \A i \in Jobs : row[i].st \in Open => row[i].vmid # v
              /\ row'[j].st = row[j].st /\ row'[j].own = row[j].own
              /\ row[j].st # "none" => row'[j].vmid = v
              /\ req'[j].user = req[j].user /\ req[j].pc = "pick" /\ req'[j].pc = "submit"
              /\ \A i \in Jobs \ {j} : row'[i] = row[i] /\ req'[i] = req[i]
              /\ UNCHANGED <<assign, guest, task, byHand, reopened>>
              /\ shared \subseteq shared'
              /\ Owner(v) = req[j].user => j \in shared'
  <1>1. PICK v \in Vmids : /\ req[j].pc = "pick"
                           /\ \A i \in Jobs : row[i].st \in Open => row[i].vmid # v
                           /\ req' = [req EXCEPT ![j].pc = "submit", ![j].vmid = v, ![j].used = {}]
                           /\ row' = IF Exists(j) THEN [row EXCEPT ![j].vmid = v] ELSE row
                           /\ shared' = IF Owner(v) = req[j].user THEN shared \cup {j} ELSE shared
                           /\ UNCHANGED <<assign, guest, task, byHand, reopened>>
    BY DEF Pick, Free, Blocking, pve
  <1>2. row[j].st \in {"submitting", "none"} /\ row[j].own = "pending" /\ req[j].user \in Users
    BY <1>1 DEF JobsOK, JobOK
  <1>3. /\ row'[j].st = row[j].st /\ row'[j].own = row[j].own
        /\ row[j].st # "none" => row'[j].vmid = v
        /\ \A i \in Jobs \ {j} : row'[i] = row[i]
    BY <1>1 DEF TypeOK, Rows, Exists
  <1>4. /\ req'[j].user = req[j].user /\ req'[j].pc = "submit"
        /\ \A i \in Jobs \ {j} : req'[i] = req[i]
    BY <1>1 DEF TypeOK, Reqs
  <1>5. shared \subseteq shared' /\ (Owner(v) = req[j].user => j \in shared')
    BY <1>1
  <1> QED BY <1>1, <1>2, <1>3, <1>4, <1>5

LEMMA GuestNext ==
    ASSUME TypeOK, JobsOK, GuestOK, [Next]_vars
    PROVE  GuestOK'
  <1>1. CASE Quiet
    BY <1>1 DEF Quiet, GuestMoves, GuestOK
  <1>2. ASSUME NEW j \in Jobs, Insert(j) PROVE GuestOK'
    BY <1>2, InsertOf DEF GuestOK
  <1>3. ASSUME NEW j \in Jobs, Pick(j) PROVE GuestOK'
    BY <1>3, PickOf DEF GuestOK
  <1> QED BY <1>1, <1>2, <1>3, Steps

LEMMA AssignNext ==
    ASSUME TypeOK, JobsOK, GuestOK, AssignOK, [Next]_vars
    PROVE  AssignOK'
  <1> USE Constants
  <1>1. CASE Quiet /\ Drops
    BY <1>1 DEF Quiet, Steady, Drops, AssignOK, TypeOK
  <1>2. ASSUME NEW j \in Jobs, Quiet, Owns(j) PROVE AssignOK'
    <2>1. \A k \in Jobs : req[k].pc = "done" => req'[k].pc = "done"
      BY <1>2 DEF Quiet, Steady
    <2>2. req[j].pc = "done" /\ assign \in [Vmids -> Jobs \cup {Nobody}]
          /\ \A v \in Vmids : assign'[v] = assign[v] \/ assign'[v] = j
      BY <1>2 DEF Owns, TypeOK
    <2> QED BY <2>1, <2>2 DEF AssignOK
  <1>3. ASSUME NEW j \in Jobs, Insert(j) PROVE AssignOK'
    <2>1. /\ req[j].pc = "new" /\ assign' = assign
          /\ \A i \in Jobs \ {j} : req'[i] = req[i]
      BY <1>3, InsertOf
    <2> QED BY <2>1 DEF AssignOK, TypeOK
  <1>4. ASSUME NEW j \in Jobs, Pick(j) PROVE AssignOK'
    <2>1. /\ req[j].pc = "pick" /\ assign' = assign
          /\ \A i \in Jobs \ {j} : req'[i] = req[i]
      BY <1>4, PickOf
    <2> QED BY <2>1 DEF AssignOK, TypeOK
  <1> QED BY <1>1, <1>2, <1>3, <1>4, Steps DEF Quiet

LEMMA FailedNext ==
    ASSUME TypeOK, JobsOK, GuestOK, FailedLeftNothing, [Next]_vars
    PROVE  FailedLeftNothing'
  <1> USE Constants, Statuses
  <1>1. CASE Quiet
    <2> SUFFICES ASSUME NEW j \in Jobs, j \notin byHand', row'[j].st = "error", NEW v \in Vmids, guest'[v] = j
                 PROVE  FALSE
      BY DEF FailedLeftNothing
    <2>1. guest[v] = j
      BY <1>1 DEF Quiet, GuestMoves
    <2>2. task[j] \in {"running", "ok"}
      BY <2>1 DEF GuestOK
    <2>3. row[j].st = "error" /\ j \notin byHand
      BY <1>1, <2>2 DEF Quiet, RowMoves, Steady
    <2> QED BY <2>1, <2>3 DEF FailedLeftNothing
  <1>2. ASSUME NEW j \in Jobs, Insert(j) PROVE FailedLeftNothing'
    <2>1. /\ row'[j].st = "submitting" /\ \A i \in Jobs \ {j} : row'[i] = row[i]
          /\ guest' = guest /\ byHand' = byHand
      BY <1>2, InsertOf DEF hist
    <2> QED BY <2>1 DEF FailedLeftNothing
  <1>3. ASSUME NEW j \in Jobs, Pick(j) PROVE FailedLeftNothing'
    <2>1. /\ row'[j].st = row[j].st /\ \A i \in Jobs \ {j} : row'[i] = row[i]
          /\ guest' = guest /\ byHand' = byHand
      BY <1>3, PickOf
    <2> QED BY <2>1 DEF FailedLeftNothing
  <1> QED BY <1>1, <1>2, <1>3, Steps

LEMMA VmidNext ==
    ASSUME TypeOK, JobsOK, GuestOK, OneJobPerVmid, [Next]_vars
    PROVE  OneJobPerVmid'
  <1> USE Constants, Statuses
  <1>1. CASE Quiet
    BY <1>1 DEF Quiet, RowMoves, Steady, OneJobPerVmid
  <1>2. ASSUME NEW j \in Jobs, Insert(j) PROVE OneJobPerVmid'
    <2>1. /\ row'[j].vmid = NoVmid /\ \A i \in Jobs \ {j} : row'[i] = row[i]
          /\ reopened' = reopened
      BY <1>2, InsertOf DEF hist
    <2>2. ASSUME NEW a \in Jobs \ reopened', NEW b \in Jobs \ reopened', a # b,
                 row'[a].st \in Open, row'[b].st \in Open, row'[a].vmid # NoVmid
          PROVE  row'[a].vmid # row'[b].vmid
      <3>1. CASE b = j
        BY <2>1, <2>2, <3>1
      <3>2. CASE b # j
        <4>1. row'[a] = row[a] /\ row'[b] = row[b]
          BY <2>1, <2>2, <3>2
        <4> QED BY <2>1, <2>2, <4>1 DEF OneJobPerVmid
      <3> QED BY <3>1, <3>2
    <2> QED BY <2>2 DEF OneJobPerVmid
  <1>3. ASSUME NEW j \in Jobs, Pick(j) PROVE OneJobPerVmid'
    <2>1. PICK v \in Vmids :
            /\ \A i \in Jobs : row[i].st \in Open => row[i].vmid # v
            /\ row'[j].st = row[j].st /\ (row[j].st # "none" => row'[j].vmid = v)
            /\ \A i \in Jobs \ {j} : row'[i] = row[i]
            /\ reopened' = reopened
      BY <1>3, PickOf
    <2> QED BY <2>1 DEF OneJobPerVmid
  <1> QED BY <1>1, <1>2, <1>3, Steps

-----------------------------------------------------------------------------
(* Who owns what.                                                          *)

LEMMA OwnedNext ==
    ASSUME TypeOK, JobsOK, CheckOK, GuestOK, AssignOK, OneJobPerVmid, OwnedOK, [Next]_vars
    PROVE  OwnedOK'
  <1> USE Constants, Statuses
  <1>t. TypeOK' /\ JobsOK'
    BY TypeNext, JobsNext
  <1>1. CASE Quiet
    <2> SUFFICES ASSUME NEW j \in Jobs, row'[j].st \in Open, row'[j].own = "owned",
                        Clean(req[j].user)'
                 PROVE  assign'[row'[j].vmid] = j
      BY DEF OwnedOK, Clean
    <2>1. req'[j].user = req[j].user /\ reopened \subseteq reopened' /\ Steady
      BY <1>1 DEF Quiet, Steady
    <2>2. Clean(req[j].user) /\ j \notin reopened'
      BY <2>1, <1>t DEF Clean, Steady, TypeOK
    <2>3. row[j].st \in Open /\ row'[j].vmid = row[j].vmid
      BY <1>1, <2>2 DEF Quiet, RowMoves
    <2>4. CASE Drops
      <3>1. row[j].own = "owned"
        BY <2>4 DEF Drops
      <3>2. assign[row[j].vmid] = j /\ row[j].vmid \in Vmids
        BY <2>2, <2>3, <3>1 DEF OwnedOK, JobsOK, JobOK
      <3> QED BY <2>2, <2>3, <2>4, <3>2 DEF Drops
    <2>5. ASSUME NEW i \in Jobs, Owns(i) PROVE assign'[row'[j].vmid] = j
      <3>1. CASE i = j
        BY <2>3, <2>5, <3>1 DEF Owns, TypeOK
      <3>2. CASE i # j
        <4>1. row'[j] = row[j]
          BY <2>5, <3>2 DEF Owns
        <4>2. assign[row[j].vmid] = j /\ row[j].vmid \in Vmids
          BY <2>2, <2>3, <4>1 DEF OwnedOK, JobsOK, JobOK
        <4>3. CASE row[i].vmid # row[j].vmid
          BY <2>5, <4>1, <4>2, <4>3 DEF Owns, TypeOK
        <4>4. CASE row[i].vmid = row[j].vmid
          <5>1. Owner(row[j].vmid) = req[j].user
            BY <4>2 DEF Owner
          <5>2. req[j].user \in Users
            BY <2>3 DEF JobsOK, JobOK
          <5>3. req[i].user = req[j].user
            BY <2>5, <4>4, <5>1, <5>2 DEF Owns
          <5>4. i \notin reopened /\ j \notin reopened
            BY <2>2, <5>3 DEF Clean
          <5> QED BY <2>3, <2>5, <3>2, <4>2, <4>4, <5>4 DEF OneJobPerVmid, Owns
        <4> QED BY <4>3, <4>4
      <3> QED BY <3>1, <3>2
    <2> QED BY <1>1, <2>4, <2>5 DEF Quiet
  <1>2. ASSUME NEW i \in Jobs, Insert(i) PROVE OwnedOK'
    <2>1. /\ req[i].pc = "new" /\ req[i].user = NoUser /\ row'[i].own = "pending"
          /\ \A k \in Jobs \ {i} : row'[k] = row[k] /\ req'[k] = req[k]
          /\ assign' = assign /\ reopened' = reopened
      BY <1>2, InsertOf DEF hist
    <2> SUFFICES ASSUME NEW j \in Jobs, row'[j].st \in Open, row'[j].own = "owned",
                        Clean(req[j].user)'
                 PROVE  assign'[row'[j].vmid] = j
      BY DEF OwnedOK, Clean
    <2>2. j # i /\ row'[j] = row[j] /\ req'[j] = req[j] /\ row[j].st \in Open
      BY <2>1
    <2>3. req[j].user \in Users
      BY <2>2 DEF JobsOK, JobOK
    <2>4. Clean(req[j].user)
      BY <2>1, <2>2, <2>3 DEF Clean, TypeOK
    <2> QED BY <2>1, <2>2, <2>4 DEF OwnedOK
  <1>3. ASSUME NEW i \in Jobs, Pick(i) PROVE OwnedOK'
    <2>1. /\ row[i].own = "pending" /\ row'[i].own = row[i].own /\ req'[i].user = req[i].user
          /\ \A k \in Jobs \ {i} : row'[k] = row[k] /\ req'[k] = req[k]
          /\ assign' = assign /\ reopened' = reopened
      BY <1>3, PickOf
    <2> SUFFICES ASSUME NEW j \in Jobs, row'[j].st \in Open, row'[j].own = "owned",
                        Clean(req[j].user)'
                 PROVE  assign'[row'[j].vmid] = j
      BY DEF OwnedOK, Clean
    <2>2. j # i /\ row'[j] = row[j] /\ req'[j] = req[j]
      BY <2>1
    <2>3. Clean(req[j].user)
      BY <2>1, <2>2 DEF Clean, TypeOK
    <2> QED BY <2>1, <2>2, <2>3 DEF OwnedOK
  <1> QED BY <1>1, <1>2, <1>3, Steps

\* Unless its VMID is assigned anew, an open job stays without a VM of its user there.
LEMMA OwnerAfter ==
    ASSUME NEW j \in Jobs, assign \in [Vmids -> Jobs \cup {Nobody}],
           row'[j].vmid = row[j].vmid, row[j].vmid \in Vmids,
           req[j].user \in Users, Owner(row[j].vmid) # req[j].user,
           assign'[row[j].vmid] \in {assign[row[j].vmid], Nobody},
           \A k \in Jobs : k = assign[row[j].vmid] => req'[k].user = req[k].user
    PROVE  Owner(row[j].vmid)' # req[j].user
  <1> USE Constants
  <1> DEFINE k == assign[row[j].vmid]
  <1>1. assign'[row'[j].vmid] \in {k, Nobody}
    OBVIOUS
  <1>2. CASE assign'[row'[j].vmid] = Nobody
    BY <1>2 DEF Owner
  <1>3. CASE assign'[row'[j].vmid] = k /\ k # Nobody
    <2>1. k \in Jobs
      BY <1>3
    <2>2. req'[k].user = req[k].user
      BY <2>1
    <2>3. Owner(row[j].vmid) = req[k].user
      BY <1>3 DEF Owner
    <2> QED BY <1>3, <2>2, <2>3 DEF Owner
  <1> QED BY <1>1, <1>2, <1>3

LEMMA SharedNext ==
    ASSUME TypeOK, JobsOK, CheckOK, GuestOK, AssignOK, OneJobPerVmid, SharedOK, [Next]_vars
    PROVE  SharedOK'
  <1> USE Constants, Statuses
  <1>t. TypeOK' /\ JobsOK'
    BY TypeNext, JobsNext
  <1>o. ASSUME NEW v \in Vmids, NEW u \in Users, Owner(v) # u, assign' = assign,
               \A k \in Jobs : req[k].pc = "done" => req'[k].user = req[k].user
        PROVE  Owner(v)' # u
    BY <1>o DEF Owner, AssignOK, TypeOK
  <1>1. CASE Quiet
    <2> SUFFICES ASSUME NEW j \in Jobs, j \notin shared', row'[j].st \in Open, row'[j].own = "pending",
                        row'[j].vmid # NoVmid, Clean(req[j].user)'
                 PROVE  Owner(row[j].vmid)' # req'[j].user
      BY DEF SharedOK, Clean, Owner
    <2>1. req'[j].user = req[j].user /\ reopened \subseteq reopened' /\ Steady /\ shared' = shared
      BY <1>1 DEF Quiet, Steady
    <2>2. Clean(req[j].user) /\ j \notin reopened'
      BY <2>1, <1>t DEF Clean, Steady, TypeOK
    <2>3. row[j].st \in Open /\ row'[j].vmid = row[j].vmid /\ req[j].user \in Users
      BY <1>1, <2>2 DEF Quiet, RowMoves, JobsOK, JobOK
    <2>4. row[j].vmid \in Vmids
      BY <2>3 DEF TypeOK, Rows
    <2>a. assign \in [Vmids -> Jobs \cup {Nobody}] /\ \A k \in Jobs : req'[k].user = req[k].user
      BY <2>1 DEF TypeOK, Steady
    <2>5. CASE Drops
      <3>1. row[j].own = "pending"
        BY <2>5 DEF Drops
      <3>2. Owner(row[j].vmid) # req[j].user
        BY <2>1, <2>2, <2>3, <2>4, <3>1 DEF SharedOK
      <3>3. assign'[row[j].vmid] = assign[row[j].vmid] \/ assign'[row[j].vmid] = Nobody
        BY <2>4, <2>5 DEF Drops
      <3>4. Owner(row[j].vmid)' # req[j].user
        BY <2>a, <2>3, <2>4, <3>2, <3>3, OwnerAfter
      <3> QED BY <2>1, <3>4
    <2>6. ASSUME NEW i \in Jobs, Owns(i) PROVE Owner(row[j].vmid)' # req'[j].user
      <3>1. i # j /\ row'[j] = row[j]
        BY <2>6 DEF Owns
      <3>2. Owner(row[j].vmid) # req[j].user
        BY <2>1, <2>2, <2>3, <2>4, <3>1 DEF SharedOK
      <3>3. CASE row[i].vmid # row[j].vmid
        <4>1. assign'[row[j].vmid] = assign[row[j].vmid]
          BY <2>4, <2>6, <3>3 DEF Owns, TypeOK
        <4>2. Owner(row[j].vmid)' # req[j].user
          BY <2>a, <2>3, <2>4, <3>2, <4>1, OwnerAfter
        <4> QED BY <2>1, <4>2
      <3>4. CASE row[i].vmid = row[j].vmid
        <4>1. assign'[row[j].vmid] = i
          BY <2>4, <2>6, <3>4 DEF Owns, TypeOK
        <4>2. CASE req[i].user = req[j].user
          <5>1. i \notin reopened /\ j \notin reopened
            BY <2>2, <4>2 DEF Clean
          <5> QED BY <2>3, <2>4, <2>6, <3>1, <3>4, <5>1 DEF OneJobPerVmid, Owns
        <4>3. CASE req[i].user # req[j].user
          BY <2>1, <2>3, <4>1, <4>3 DEF Owner, Steady
        <4> QED BY <4>2, <4>3
      <3> QED BY <3>3, <3>4
    <2> QED BY <1>1, <2>5, <2>6 DEF Quiet
  <1>2. ASSUME NEW i \in Jobs, Insert(i) PROVE SharedOK'
    <2>1. /\ req[i].pc = "new" /\ req[i].user = NoUser /\ row'[i].vmid = NoVmid
          /\ \A k \in Jobs \ {i} : row'[k] = row[k] /\ req'[k] = req[k]
          /\ assign' = assign /\ reopened' = reopened /\ shared' = shared
      BY <1>2, InsertOf DEF hist
    <2> SUFFICES ASSUME NEW j \in Jobs, j \notin shared', row'[j].st \in Open, row'[j].own = "pending",
                        row'[j].vmid # NoVmid, Clean(req[j].user)'
                 PROVE  Owner(row[j].vmid)' # req'[j].user
      BY DEF SharedOK, Clean, Owner
    <2>2. j # i /\ row'[j] = row[j] /\ req'[j] = req[j]
      BY <2>1
    <2>3. req[j].user \in Users /\ row[j].vmid \in Vmids
      <3>1. JobOK(row[j], req[j], poller[j], task[j], j \in adopting, KindOf[j])
        BY DEF JobsOK
      <3>2. req[j].user \in Users
        BY <2>2, <3>1 DEF JobOK
      <3>3. row[j] \in Rows
        BY DEF TypeOK
      <3> QED BY <2>2, <3>2, <3>3 DEF Rows
    <2>4. Clean(req[j].user)
      BY <2>1, <2>2, <2>3 DEF Clean, TypeOK
    <2>5. Owner(row[j].vmid) # req[j].user
      BY <2>1, <2>2, <2>3, <2>4 DEF SharedOK
    <2>6. \A k \in Jobs : req[k].pc = "done" => req'[k].user = req[k].user
      BY <2>1
    <2>7. Owner(row[j].vmid)' # req[j].user
      <3>1. /\ assign \in [Vmids -> Jobs \cup {Nobody}]
            /\ \A k \in Jobs : k = assign[row[j].vmid] => req'[k].user = req[k].user
        BY <2>3, <2>6, Constants DEF AssignOK, TypeOK
      <3> QED BY <2>1, <2>2, <2>3, <2>5, <3>1, OwnerAfter
    <2> QED BY <2>2, <2>7
  <1>3. ASSUME NEW i \in Jobs, Pick(i) PROVE SharedOK'
    <2>1. PICK w \in Vmids :
            /\ row'[i].st = row[i].st /\ req'[i].user = req[i].user
            /\ row[i].st # "none" => row'[i].vmid = w
            /\ \A k \in Jobs \ {i} : row'[k] = row[k] /\ req'[k] = req[k]
            /\ assign' = assign /\ reopened' = reopened /\ shared \subseteq shared'
            /\ Owner(w) = req[i].user => i \in shared'
      BY <1>3, PickOf
    <2>a. \A k \in Jobs : req'[k].user = req[k].user
      BY <2>1
    <2> SUFFICES ASSUME NEW j \in Jobs, j \notin shared', row'[j].st \in Open, row'[j].own = "pending",
                        row'[j].vmid # NoVmid, Clean(req[j].user)'
                 PROVE  Owner(row[j].vmid)' # req'[j].user
      BY DEF SharedOK, Clean, Owner
    <2>2. row[j].st \in Open /\ req[j].user \in Users /\ j \notin shared
      <3>1. JobOK(row[j], req[j], poller[j], task[j], j \in adopting, KindOf[j])
        BY DEF JobsOK
      <3>2. row[j].st \in Open /\ j \notin shared
        BY <2>1
      <3> QED BY <3>1, <3>2 DEF JobOK
    <2>3. CASE i = j
      <3>1. row'[j].vmid = w /\ Owner(w) # req[j].user
        BY <2>1, <2>2, <2>3
      <3>2. Owner(w)' # req[j].user
        BY <1>o, <2>1, <2>2, <2>a, <3>1
      <3> QED BY <2>a, <3>1, <3>2 DEF Owner
    <2>4. CASE i # j
      <3>1. row'[j] = row[j] /\ row[j].vmid \in Vmids
        BY <2>1, <2>4 DEF TypeOK, Rows
      <3>2. Clean(req[j].user)
        BY <2>1, <2>a DEF Clean, TypeOK
      <3>3. Owner(row[j].vmid) # req[j].user
        BY <2>2, <3>1, <3>2 DEF SharedOK
      <3>4. assign \in [Vmids -> Jobs \cup {Nobody}]
        BY DEF TypeOK
      <3>5. Owner(row[j].vmid)' # req[j].user
        BY <2>1, <2>2, <2>a, <3>1, <3>3, <3>4, OwnerAfter
      <3> QED BY <2>a, <3>5
    <2> QED BY <2>3, <2>4
  <1> QED BY <1>1, <1>2, <1>3, Steps

-----------------------------------------------------------------------------
(* Quotas.                                                                 *)

\* What a user is charged for.
Counted(j, u) == row[j].st \in Charged /\ row[j].own = "pending" /\ req[j].user = u
Keys(u) == Owned(u) \cup {Key(j) : j \in {i \in Jobs : Counted(i, u)}}

LEMMA ChargeOf == ASSUME NEW u PROVE Charge(u) = Cardinality(Keys(u))
  BY DEF Charge, Keys, Counted

LEMMA KeysFinite ==
    ASSUME TypeOK, NEW u
    PROVE  IsFiniteSet(Keys(u)) /\ Cardinality(Keys(u)) \in Nat
  <1> DEFINE all == (-MaxJobs)..MaxVmid
  <1>1. IsFiniteSet(all)
    BY Constants, FS_Interval
  <1>2. ASSUME NEW j \in Jobs PROVE Key(j) \in all
    <2>1. row[j].vmid \in Vmids \cup {NoVmid} /\ j \in 1..MaxJobs
      BY DEF TypeOK, Rows, Jobs
    <2> QED BY <2>1, Constants DEF Key, Vmids, NoVmid
  <1>3. Owned(u) \subseteq all
    BY Constants DEF Owned, Vmids
  <1>4. Keys(u) \subseteq all
    BY <1>2, <1>3 DEF Keys
  <1>5. IsFiniteSet(Keys(u))
    BY <1>1, <1>4, FS_Subset
  <1> QED BY <1>5, FS_CardinalityType

\* Fewer keys, a lower charge.
LEMMA FewerKeys ==
    ASSUME TypeOK, TypeOK', NEW u, Keys(u)' \subseteq Keys(u)
    PROVE  Charge(u)' <= Charge(u) /\ Charge(u)' \in Nat
  <1>1. IsFiniteSet(Keys(u))
    BY KeysFinite
  <1>2. Cardinality(Keys(u)') <= Cardinality(Keys(u)) /\ IsFiniteSet(Keys(u)')
    BY <1>1, FS_Subset
  <1>3. Charge(u)' = Cardinality(Keys(u)') /\ Cardinality(Keys(u)') \in Nat
    BY <1>2, FS_CardinalityType DEF Charge, Keys, Counted, Key, Owned, Owner
  <1> QED BY <1>2, <1>3, ChargeOf

\* The key of a counted job that is not shared belongs to that job alone.
LEMMA OwnKey ==
    ASSUME TypeOK, JobsOK, OneJobPerVmid, SharedOK, NEW u \in Users, CleanUser(u),
           NEW j \in Jobs, Counted(j, u)
    PROVE  /\ Key(j) \notin Owned(u)
           /\ \A i \in Jobs \ {j} : Counted(i, u) => Key(i) # Key(j)
  <1> USE Constants, Statuses
  <1>o. ASSUME NEW i \in Jobs, Counted(i, u)
        PROVE  /\ row[i].st \in Open /\ i \notin reopened /\ i \notin shared /\ Clean(u)
               /\ row[i].vmid \in Vmids \cup {NoVmid}
    BY <1>o DEF Counted, JobsOK, JobOK, CleanUser, Clean, TypeOK, Rows
  <1>n. \A i \in Jobs : -i \notin Vmids /\ \A k \in Jobs : i # k => -i # -k
    <2>1. \A i \in Jobs : i \in Nat \ {0}
      OBVIOUS
    <2>2. \A v \in Vmids : v \in Nat \ {0}
      OBVIOUS
    <2> QED BY <2>1, <2>2
  <1>1. CASE row[j].vmid = NoVmid
    <2>1. Key(j) = -j
      BY <1>1 DEF Key
    <2>2. Key(j) \notin Owned(u)
      BY <1>n, <2>1 DEF Owned
    <2>3. ASSUME NEW i \in Jobs \ {j}, Counted(i, u) PROVE Key(i) # Key(j)
      <3>1. CASE row[i].vmid = NoVmid
        BY <1>n, <2>1, <3>1 DEF Key
      <3>2. CASE row[i].vmid # NoVmid
        BY <1>n, <1>o, <2>1, <2>3, <3>2 DEF Key
      <3> QED BY <3>1, <3>2
    <2> QED BY <2>2, <2>3
  <1>2. CASE row[j].vmid # NoVmid
    <2>1. Key(j) = row[j].vmid /\ row[j].vmid \in Vmids
      BY <1>2, <1>o DEF Key
    <2>2. Owner(row[j].vmid) # u
      BY <1>2, <1>o DEF SharedOK, Counted
    <2>3. ASSUME NEW i \in Jobs \ {j}, Counted(i, u) PROVE Key(i) # Key(j)
      <3>1. CASE row[i].vmid = NoVmid
        BY <1>n, <2>1, <3>1 DEF Key
      <3>2. CASE row[i].vmid # NoVmid
        BY <1>o, <1>2, <2>1, <2>3, <3>2 DEF Key, OneJobPerVmid
      <3> QED BY <3>1, <3>2
    <2> QED BY <2>1, <2>2, <2>3 DEF Owned
  <1> QED BY <1>1, <1>2

\* A quiet step charges a clean user for nothing new.
LEMMA QuietKeys ==
    ASSUME TypeOK, TypeOK', JobsOK, OwnedOK, Quiet, NEW u \in Users, Clean(u)'
    PROVE  Keys(u)' \subseteq Keys(u)
  <1> USE Constants, Statuses
  <1>1. /\ \A j \in Jobs : req'[j].user = req[j].user
        /\ Clean(u)
    BY DEF Quiet, Steady, Clean, TypeOK
  <1>2. ASSUME NEW j \in Jobs, Counted(j, u)'
        PROVE  Counted(j, u) /\ Key(j)' = Key(j)
    <2>1. /\ row'[j].st \in Charged /\ row'[j].own = "pending" /\ req[j].user = u
          /\ j \notin reopened'
      BY <1>1, <1>2 DEF Counted, Clean
    <2>2. row[j].st \in Charged /\ row'[j].vmid = row[j].vmid
      BY <2>1 DEF Quiet, RowMoves
    <2>3. CASE Drops
      BY <2>1, <2>2, <2>3 DEF Drops, Counted, Key
    <2>4. ASSUME NEW i \in Jobs, Owns(i) PROVE Counted(j, u) /\ Key(j)' = Key(j)
      <3>1. i # j
        BY <2>1, <2>4 DEF Owns
      <3> QED BY <2>1, <2>2, <2>4, <3>1 DEF Owns, Counted, Key
    <2> QED BY <2>3, <2>4 DEF Quiet
  <1>3. ASSUME NEW v \in Vmids, Owner(v)' = u
        PROVE  v \in Keys(u)
    <2>1. assign'[v] \in Jobs /\ req[assign'[v]].user = u
      BY <1>1, <1>3 DEF Owner, TypeOK
    <2>2. CASE assign'[v] = assign[v]
      BY <2>1, <2>2 DEF Keys, Owned, Owner
    <2>3. CASE assign'[v] # assign[v]
      <3>1. PICK i \in Jobs : Owns(i)
        BY <2>1, <2>3 DEF Quiet, Drops
      <3>2. v = row[i].vmid /\ assign'[v] = i /\ req[i].user = u
        BY <2>1, <2>3, <3>1 DEF Owns, TypeOK
      <3>3. row[i].own \in {"pending", "owned"} /\ row[i].st \in Open
        BY <3>1 DEF Owns, TypeOK, Rows
      <3>4. row[i].own = "pending"
        BY <1>1, <2>3, <3>2, <3>3 DEF OwnedOK
      <3>5. Counted(i, u) /\ Key(i) = v
        BY <3>2, <3>3, <3>4 DEF Counted, Key
      <3> QED BY <3>5 DEF Keys
    <2> QED BY <2>2, <2>3
  <1>4. Keys(u)' = {v \in Vmids : Owner(v)' = u} \cup {Key(j)' : j \in {i \in Jobs : Counted(i, u)'}}
    BY DEF Keys, Owned, Owner, Counted, Key
  <1> QED BY <1>2, <1>3, <1>4 DEF Keys

\* One more key, and one key exchanged for another.
LEMMA MoreKeys ==
    ASSUME TypeOK, TypeOK', NEW u, NEW x, Keys(u)' \subseteq Keys(u) \cup {x}
    PROVE  Charge(u)' <= Charge(u) + 1 /\ Charge(u)' \in Nat
  <1>1. IsFiniteSet(Keys(u)) /\ Cardinality(Keys(u)) \in Nat
    BY KeysFinite
  <1>2. /\ IsFiniteSet(Keys(u) \cup {x})
        /\ Cardinality(Keys(u) \cup {x}) = IF x \in Keys(u) THEN Cardinality(Keys(u))
                                          ELSE Cardinality(Keys(u)) + 1
    BY <1>1, FS_AddElement
  <1>3. Cardinality(Keys(u)') <= Cardinality(Keys(u) \cup {x}) /\ IsFiniteSet(Keys(u)')
    BY <1>2, FS_Subset
  <1>4. Charge(u)' = Cardinality(Keys(u)') /\ Cardinality(Keys(u)') \in Nat
    BY <1>3, FS_CardinalityType DEF Charge, Keys, Counted, Key, Owned, Owner
  <1> QED BY <1>1, <1>2, <1>3, <1>4, ChargeOf

LEMMA OtherKeys ==
    ASSUME TypeOK, TypeOK', NEW u, NEW x, NEW y \in Keys(u), Keys(u)' \subseteq (Keys(u) \ {y}) \cup {x}
    PROVE  Charge(u)' <= Charge(u) /\ Charge(u)' \in Nat
  <1> DEFINE S == Keys(u) \ {y}
  <1>1. IsFiniteSet(Keys(u)) /\ Cardinality(Keys(u)) \in Nat
    BY KeysFinite
  <1>2. IsFiniteSet(S) /\ Cardinality(S) = Cardinality(Keys(u)) - 1
    BY <1>1, FS_RemoveElement
  <1>3. /\ IsFiniteSet(S \cup {x})
        /\ Cardinality(S \cup {x}) = IF x \in S THEN Cardinality(S) ELSE Cardinality(S) + 1
    BY <1>2, FS_AddElement
  <1>4. Cardinality(Keys(u)') <= Cardinality(S \cup {x}) /\ IsFiniteSet(Keys(u)')
    BY <1>3, FS_Subset
  <1>5. Charge(u)' = Cardinality(Keys(u)') /\ Cardinality(Keys(u)') \in Nat
    BY <1>4, FS_CardinalityType DEF Charge, Keys, Counted, Key, Owned, Owner
  <1> QED BY <1>1, <1>2, <1>3, <1>4, <1>5, ChargeOf

\* The keys after a step, spelled out.
LEMMA KeysNow ==
    ASSUME NEW u
    PROVE  Keys(u)' = {v \in Vmids : Owner(v)' = u} \cup {Key(j)' : j \in {i \in Jobs : Counted(i, u)'}}
  BY DEF Keys, Owned, Owner, Counted, Key

\* Owners stay when assignments do, and the users of the jobs that have ended.
LEMMA OwnersStay ==
    ASSUME TypeOK, AssignOK, assign' = assign,
           \A k \in Jobs : req[k].pc = "done" => req'[k].user = req[k].user, NEW v \in Vmids
    PROVE  Owner(v)' = Owner(v)
  BY Constants DEF Owner, AssignOK, TypeOK

LEMMA QuotaNext ==
    ASSUME TypeOK, JobsOK, GuestOK, AssignOK, OneJobPerVmid, OwnedOK, SharedOK, QuotaHolds, [Next]_vars
    PROVE  QuotaHolds'
  <1> USE Constants, Statuses
  <1>t. TypeOK'
    BY TypeNext
  <1>q. \A u \in Users : CleanUser(u) => Charge(u) <= Quota /\ Charge(u) \in Nat
    BY KeysFinite, ChargeOf DEF QuotaHolds, CleanUser
  <1>g. ASSUME NEW u \in Users, CleanUser(u), TypeOK', Keys(u)' \subseteq Keys(u)
        PROVE  Charge(u)' <= Quota
    BY <1>q, <1>g, FewerKeys
  <1> SUFFICES ASSUME NEW u \in Users, CleanUser(u)' PROVE Charge(u)' <= Quota
    BY DEF QuotaHolds, CleanUser
  <1>1. CASE Quiet
    <2>1. Clean(u)' /\ CleanUser(u)
      BY <1>1, <1>t DEF Quiet, Steady, Clean, CleanUser, TypeOK
    <2>2. Keys(u)' \subseteq Keys(u)
      BY <1>1, <1>t, <2>1, QuietKeys
    <2> QED BY <1>g, <1>t, <2>1, <2>2
  <1>2. ASSUME NEW j \in Jobs, Insert(j) PROVE Charge(u)' <= Quota
    <2>1. PICK w \in Users :
              /\ req[j].pc = "new" /\ req[j].user = NoUser /\ row[j].st = "none" /\ Charge(w) + 1 <= Quota
              /\ row'[j].vmid = NoVmid /\ req'[j].user = w
              /\ \A i \in Jobs \ {j} : row'[i] = row[i] /\ req'[i] = req[i]
              /\ assign' = assign /\ reopened' = reopened /\ shared' = shared
      BY <1>2, InsertOf DEF hist
    <2>2. CleanUser(u)
      BY <2>1 DEF CleanUser, TypeOK
    <2>3. \A v \in Vmids : Owner(v)' = Owner(v)
      BY <2>1, OwnersStay
    <2>4. \A i \in Jobs \ {j} : (Counted(i, u)' <=> Counted(i, u)) /\ Key(i)' = Key(i)
      BY <2>1 DEF Counted, Key
    <2>5. CASE w # u
      <3>1. ~Counted(j, u)'
        BY <2>1, <2>5 DEF Counted
      <3>2. Keys(u)' \subseteq Keys(u)
        BY <2>3, <2>4, <3>1, KeysNow DEF Keys, Owned
      <3> QED BY <1>g, <1>t, <2>2, <3>2
    <2>6. CASE w = u
      <3>1. Key(j)' = -j
        BY <2>1 DEF Key
      <3>2. Keys(u)' \subseteq Keys(u) \cup {-j}
        BY <2>3, <2>4, <3>1, KeysNow DEF Keys, Owned
      <3>3. Charge(u)' <= Charge(u) + 1 /\ Charge(u)' \in Nat
        BY <1>t, <3>2, MoreKeys
      <3>4. Charge(u) \in Nat
        BY <1>q, <2>2
      <3> QED BY <2>1, <2>6, <3>3, <3>4
    <2> QED BY <2>5, <2>6
  <1>3. ASSUME NEW j \in Jobs, Pick(j) PROVE Charge(u)' <= Quota
    <2>1. PICK v \in Vmids :
              /\ row[j].st \in {"submitting", "none"} /\ row[j].own = "pending"
              /\ row'[j].st = row[j].st /\ row'[j].own = row[j].own
              /\ row[j].st # "none" => row'[j].vmid = v
              /\ req'[j].user = req[j].user
              /\ \A i \in Jobs \ {j} : row'[i] = row[i] /\ req'[i] = req[i]
              /\ assign' = assign /\ reopened' = reopened /\ shared \subseteq shared'
      BY <1>3, PickOf
    <2>2. CleanUser(u)
      BY <2>1, <1>t DEF CleanUser, TypeOK
    <2>3. \A w \in Vmids : Owner(w)' = Owner(w)
      BY <2>1, OwnersStay
    <2>4. \A i \in Jobs \ {j} : (Counted(i, u)' <=> Counted(i, u)) /\ Key(i)' = Key(i)
      BY <2>1 DEF Counted, Key
    <2>5. Counted(j, u)' <=> Counted(j, u)
      BY <2>1 DEF Counted
    <2>6. CASE ~Counted(j, u)
      <3>1. Keys(u)' \subseteq Keys(u)
        BY <2>3, <2>4, <2>5, <2>6, KeysNow DEF Keys, Owned
      <3> QED BY <1>g, <1>t, <2>2, <3>1
    <2>7. CASE Counted(j, u)
      <3>1. Key(j)' = v
        BY <2>1, <2>7 DEF Counted, Key
      <3>2. /\ Key(j) \notin Owned(u)
            /\ \A i \in Jobs \ {j} : Counted(i, u) => Key(i) # Key(j)
        BY <2>2, <2>7, OwnKey
      <3>3. Key(j) \in Keys(u)
        BY <2>7 DEF Keys
      <3>4. Keys(u)' \subseteq (Keys(u) \ {Key(j)}) \cup {v}
        <4>1. ASSUME NEW i \in Jobs, Counted(i, u)' PROVE Key(i)' \in (Keys(u) \ {Key(j)}) \cup {v}
          <5>1. CASE i = j
            BY <3>1, <5>1
          <5>2. CASE i # j
            BY <2>4, <3>2, <4>1, <5>2 DEF Keys
          <5> QED BY <5>1, <5>2
        <4>2. ASSUME NEW w \in Vmids, Owner(w)' = u PROVE w \in Keys(u) \ {Key(j)}
          BY <2>3, <3>2, <4>2 DEF Keys, Owned
        <4> QED BY <4>1, <4>2, KeysNow
      <3>5. Charge(u)' <= Charge(u) /\ Charge(u)' \in Nat
        BY <1>t, <3>3, <3>4, OtherKeys
      <3> QED BY <1>q, <2>2, <3>5
    <2> QED BY <2>6, <2>7
  <1> QED BY <1>1, <1>2, <1>3, Steps

-----------------------------------------------------------------------------
(* The theorems.                                                           *)

IInv == /\ TypeOK /\ JobsOK /\ CheckOK /\ GuestOK /\ AssignOK
        /\ OneJobPerVmid /\ FailedLeftNothing /\ OwnedOK /\ SharedOK /\ QuotaHolds

LEMMA IInvInit == Init => IInv
  <1> SUFFICES ASSUME Init PROVE IInv
    OBVIOUS
  <1> USE Constants, Statuses, EmptyRow
  <1>1. \A j \in Jobs : /\ row[j] = NoRow /\ req[j] = NoReq /\ poller[j] = "none" /\ task[j] = "none"
                        /\ ~(j \in adopting)
    BY DEF Init
  <1>2. NoReq \in Reqs /\ NoReq.pc = "new" /\ NoReq.user = NoUser
    <2>1. NoReq.pc = "new" /\ NoReq.user = NoUser
      BY DEF NoReq
    <2>2. NoReq \in Reqs
      BY DEF NoReq, Reqs
    <2> QED BY <2>1, <2>2
  <1>3. TypeOK
    BY <1>2 DEF Init, TypeOK, PollerSteps
  <1>4. JobsOK /\ CheckOK
    BY <1>1, <1>2 DEF Init, JobsOK, JobOK, CheckOK
  <1>5. GuestOK /\ AssignOK
    BY DEF Init, GuestOK, AssignOK
  <1>6. OneJobPerVmid /\ FailedLeftNothing /\ OwnedOK /\ SharedOK
    BY <1>1 DEF OneJobPerVmid, FailedLeftNothing, OwnedOK, SharedOK
  <1>7. QuotaHolds
    <2>1. ASSUME NEW u \in Users PROVE Keys(u) = {}
      BY <1>1 DEF Keys, Owned, Owner, Counted, Init
    <2>2. \A u \in Users : Charge(u) = 0
      BY <2>1, ChargeOf, FS_EmptySet
    <2> QED BY <2>2 DEF QuotaHolds
  <1> QED BY <1>3, <1>4, <1>5, <1>6, <1>7 DEF IInv

LEMMA IInvNext == IInv /\ [Next]_vars => IInv'
  <1> SUFFICES ASSUME IInv, [Next]_vars PROVE IInv'
    OBVIOUS
  <1> USE DEF IInv
  <1>1. TypeOK' /\ JobsOK' /\ GuestOK' /\ AssignOK'
    BY TypeNext, JobsNext, GuestNext, AssignNext
  <1>4. CheckOK'
    BY CheckNext
  <1>2. OneJobPerVmid' /\ FailedLeftNothing'
    BY VmidNext, FailedNext
  <1>3. OwnedOK' /\ SharedOK' /\ QuotaHolds'
    BY OwnedNext, SharedNext, QuotaNext
  <1> QED BY <1>1, <1>2, <1>3, <1>4

LEMMA Invariance == Spec => []IInv
  BY IInvInit, IInvNext, PTL DEF Spec

\* Every table and request keeps its type, for any number of users, jobs and VMIDs.
THEOREM TypeCorrect == Spec => []TypeOK
  <1>1. IInv => TypeOK
    BY DEF IInv
  <1> QED BY <1>1, Invariance, PTL

\* Two open jobs never hold the same VMID, however old the listings their ids were picked
\* from are (utils/vmidAllocator.ts).
THEOREM OneVmidEach == Spec => []OneJobPerVmid
  <1>1. IInv => OneJobPerVmid
    BY DEF IInv
  <1> QED BY <1>1, Invariance, PTL

\* A job the portal itself reports as failed has no guest (services/provisionOwnership.ts:52).
THEOREM FailureIsClean == Spec => []FailedLeftNothing
  <1>1. IInv => FailedLeftNothing
    BY DEF IInv
  <1> QED BY <1>1, Invariance, PTL

\* The quota checked once at submission still holds after every retry, recovery, failure
\* and deletion (services/provisionOwnership.ts:35).
THEOREM QuotaIsKept == Spec => []QuotaHolds
  <1>1. IInv => QuotaHolds
    BY DEF IInv
  <1> QED BY <1>1, Invariance, PTL

=============================================================================
