-------------------------- MODULE VmMigrationProofs --------------------------
(***************************************************************************)
(* A VM has one migration at a time, and neither a policy write nor a      *)
(* deletion under way is overtaken by one: for all nodes and bounds.       *)
(***************************************************************************)
EXTENDS VmMigration, WellFoundedInduction, TLAPS

\* No migration starts to be pending in this step.
Shrinks == \A j \in Ids : rows'[j].status \in PendingStatus => rows[j].status \in PendingStatus

\* Whoever holds lock 206 past its check has held it before, or has just checked.
HoldersKept ==
    policy'.pc = "act" \/ deleter'.pc \in {"act", "cleanup"}
        => policy.pc = "act" \/ deleter.pc \in {"act", "cleanup"} \/ ~Pending

\* The inductive invariant.
IInv == TypeOK /\ OneMigration /\ HoldersExcludeMigration

WorkType == [Kinds -> [Ids -> Steps]]

\* The parts of the type invariant.
DbOK == rows \in [Ids -> Rows] /\ latest \in 0..MaxMigrations /\ refs \in Nodes \cup {Gone}
PveOK == /\ task \in [Ids -> {"none", "running", "ok", "failed"}]
         /\ conf \subseteq Nodes /\ guarded \subseteq conf /\ leftover \subseteq conf \X Ids
         /\ home \in Nodes
WorkOK == work \in WorkType /\ relocs \subseteq Ids
RequestsOK == verdict \in 0..MaxMigrations /\ policy \in Holders /\ deleter \in Holders
BoundsOK == /\ timeouts \in 0..MaxTimeouts /\ restarts \in 0..MaxRestarts
            /\ timedOut \subseteq Ids

LEMMA TypeParts == TypeOK <=> DbOK /\ PveOK /\ WorkOK /\ RequestsOK /\ BoundsOK
PROOF
  BY DEF TypeOK, DbOK, PveOK, WorkOK, WorkType, RequestsOK, BoundsOK

LEMMA TypePartsAfter == TypeOK' <=> DbOK' /\ PveOK' /\ WorkOK' /\ RequestsOK' /\ BoundsOK'
PROOF
  BY DEF TypeOK, DbOK, PveOK, WorkOK, WorkType, RequestsOK, BoundsOK

\* A part whose variables do not change keeps its types.
LEMMA Frames ==
    ASSUME TypeOK
    PROVE  /\ UNCHANGED db => DbOK'
           /\ UNCHANGED pve => PveOK'
           /\ UNCHANGED <<work, relocs>> => WorkOK'
           /\ UNCHANGED requests => RequestsOK'
           /\ UNCHANGED bounds => BoundsOK'
PROOF
  <1>1. DbOK /\ PveOK /\ WorkOK /\ RequestsOK /\ BoundsOK
    BY TypeParts
  <1>2. UNCHANGED db => DbOK'
    BY <1>1 DEF DbOK, db
  <1>3. UNCHANGED pve => PveOK'
    BY <1>1 DEF PveOK, pve
  <1>4. UNCHANGED <<work, relocs>> => WorkOK'
    BY <1>1 DEF WorkOK
  <1>5. UNCHANGED requests => RequestsOK'
    BY <1>1 DEF RequestsOK, requests
  <1>6. UNCHANGED bounds => BoundsOK'
    BY <1>1 DEF BoundsOK, bounds
  <1> QED BY <1>2, <1>3, <1>4, <1>5, <1>6

\* A worker that goes to a step leaves all workers at steps.
LEMMA GotoTypes ==
    ASSUME work \in WorkType, NEW k \in Kinds, NEW i \in Ids, NEW s \in Steps, Goto(k, i, s)
    PROVE  work' \in WorkType
PROOF
  BY DEF Goto, WorkType

\* A new status changes its row and no other.
LEMMA StatusTypes ==
    ASSUME rows \in [Ids -> Rows], NEW i \in Ids, NEW s \in Statuses, SetStatus(i, s)
    PROVE  /\ rows' \in [Ids -> Rows]
           /\ \A j \in Ids : rows'[j].status = IF j = i THEN s ELSE rows[j].status
PROOF
  <1>1. [rows[i] EXCEPT !.status = s] \in Rows /\ [rows[i] EXCEPT !.status = s].status = s
    BY DEF Rows
  <1>2. rows' = [rows EXCEPT ![i] = [rows[i] EXCEPT !.status = s]]
    BY DEF SetStatus
  <1> QED BY <1>1, <1>2

\* A running row that leaves its status starts no migration.
LEMMA RunningStatus ==
    ASSUME rows \in [Ids -> Rows], NEW i \in Ids, NEW s \in Statuses, SetIfRunning(i, s)
    PROVE  rows' \in [Ids -> Rows] /\ Shrinks
PROOF
  <1>1. CASE Running(i)
    BY <1>1, StatusTypes DEF SetIfRunning, Shrinks, Running, PendingStatus
  <1>2. CASE ~Running(i)
    BY <1>2 DEF SetIfRunning, Shrinks
  <1> QED BY <1>1, <1>2

\* A migration that succeeds stops being pending.
LEMMA SucceedTypes ==
    ASSUME rows \in [Ids -> Rows], refs \in Nodes \cup {Gone}, NEW i \in Ids,
           NEW from, NEW kept \in BOOLEAN, Succeed(i, from, kept)
    PROVE  rows' \in [Ids -> Rows] /\ refs' \in Nodes \cup {Gone} /\ Shrinks
PROOF
  <1>1. CASE rows[i].status = from
    <2> DEFINE r == [rows[i] EXCEPT !.status = "ok", !.kept = kept]
    <2>1. r \in Rows /\ r.status = "ok"
      BY DEF Rows, Statuses
    <2>2. rows' = [rows EXCEPT ![i] = r]
      BY <1>1 DEF Succeed
    <2>3. refs' \in Nodes \cup {Gone}
      BY <1>1 DEF Succeed, Repoint, Rows
    <2> QED BY <2>1, <2>2, <2>3 DEF Shrinks, PendingStatus
  <1>2. CASE rows[i].status # from
    BY <1>2 DEF Succeed, Shrinks
  <1> QED BY <1>1, <1>2

\* The configurations keep their types when they become a set of nodes.
LEMMA ConfigTypes ==
    ASSUME NEW c \in SUBSET Nodes, Configs(c)
    PROVE  conf' \subseteq Nodes /\ guarded' \subseteq conf' /\ leftover' \subseteq conf' \X Ids
PROOF
  BY DEF Configs

\* A step that keeps the types, starts no migration and lets no unchecked holder pass
\* keeps the invariant.
LEMMA Kept ==
    ASSUME IInv, DbOK', PveOK', WorkOK', RequestsOK', BoundsOK', Shrinks, HoldersKept,
           latest' = latest
    PROVE  IInv'
PROOF
  <1>1. TypeOK'
    BY TypePartsAfter
  <1>2. OneMigration' /\ HoldersExcludeMigration'
    BY DEF IInv, OneMigration, HoldersExcludeMigration, Shrinks, HoldersKept, Pending
  <1> QED BY <1>1, <1>2 DEF IInv

\* Initially there is no migration.
LEMMA Initially == Init => IInv
PROOF
  <1> SUFFICES ASSUME Init PROVE IInv
    OBVIOUS
  <1>1. AllIdle \in WorkType
    BY DEF AllIdle, WorkType, Steps
  <1>2. IdleHolder \in Holders
    BY DEF IdleHolder, Holders
  <1>3. rows \in [Ids -> Rows] /\ \A i \in Ids : rows[i].status = "none"
    BY DEF Init, Rows, Statuses
  <1>4. DbOK
    <2>1. latest \in 0..MaxMigrations /\ refs \in Nodes
      BY BoundsAssumption DEF Init
    <2> QED BY <1>3, <2>1 DEF DbOK
  <1>5. PveOK
    BY DEF Init, PveOK
  <1>6. WorkOK
    BY <1>1 DEF Init, WorkOK
  <1>7. RequestsOK
    BY <1>2, BoundsAssumption DEF Init, RequestsOK
  <1>8. BoundsOK
    BY BoundsAssumption DEF Init, BoundsOK
  <1>9. OneMigration /\ HoldersExcludeMigration
    BY <1>3 DEF Init, OneMigration, HoldersExcludeMigration, PendingStatus, IdleHolder
  <1> QED BY <1>4, <1>5, <1>6, <1>7, <1>8, <1>9, TypeParts DEF IInv

\* A claim waits for the lock and for every other migration of the VM.
LEMMA ClaimSafe ==
    ASSUME IInv, NEW mode \in {"copy", "adopt"}, NEW src \in Nodes, NEW tgt \in Nodes,
           Claim(mode, src, tgt)
    PROVE  IInv'
PROOF
  <1> DEFINE i == latest + 1
             r == [status |-> "running", mode |-> mode, src |-> src, tgt |-> tgt,
                   upid |-> FALSE, kept |-> FALSE]
             s == IF mode = "copy" THEN "submit" ELSE "recheck"
  <1>1. i \in Ids /\ Claimable /\ latest' = i /\ rows' = [rows EXCEPT ![i] = r]
        /\ UNCHANGED <<refs, pve, relocs, requests, bounds>>
    BY DEF Claim
  <1>2. r \in Rows /\ r.status = "running"
    BY DEF IInv, TypeOK, Rows, Statuses, PendingStatus
  <1>3. DbOK'
    BY <1>1, <1>2, BoundsAssumption DEF IInv, TypeOK, DbOK, Ids
  <1>4. WorkOK'
    <2>1. Goto("request", i, s) /\ s \in Steps /\ "request" \in Kinds
      BY DEF Claim, Steps, Kinds
    <2>2. work' \in WorkType
      BY <1>1, <2>1, GotoTypes DEF IInv, TypeOK, WorkType
    <2> QED BY <1>1, <2>2 DEF IInv, TypeOK, WorkOK
  <1>5. PveOK' /\ RequestsOK' /\ BoundsOK'
    BY <1>1, Frames DEF IInv
  <1>6. \A j \in Ids : rows'[j].status \in PendingStatus => j = i
    BY <1>1, <1>2 DEF IInv, TypeOK, Claimable, Pending
  <1>7. OneMigration'
    BY <1>1, <1>6 DEF OneMigration
  <1>8. HoldersExcludeMigration'
    BY <1>1 DEF Claimable, LockFree, requests, HoldersExcludeMigration
  <1> QED BY <1>3, <1>4, <1>5, <1>7, <1>8, TypePartsAfter DEF IInv

\* A task that starts or ends, and no configuration with it, keeps Proxmox's types.
LEMMA TaskTypes ==
    ASSUME TypeOK, NEW i \in Ids, NEW t \in {"running", "failed"},
           task' \in {task, [task EXCEPT ![i] = t]},
           UNCHANGED <<conf, guarded, home, leftover>>
    PROVE  PveOK'
PROOF
  BY DEF TypeOK, PveOK

\* The steps of the request that started the migration.
LEMMA StartSafe ==
    ASSUME IInv, NEW i \in Ids, Start(i)
    PROVE  IInv'
PROOF
  <1> USE DEF IInv
  <1>1. TypeOK /\ rows \in [Ids -> Rows] /\ work \in WorkType /\ latest \in 0..MaxMigrations
        /\ refs \in Nodes \cup {Gone} /\ relocs \subseteq Ids
    BY DEF TypeOK, WorkType
  <1>2. {"request", "poller", "adopt"} \subseteq Kinds
        /\ {"fail", "save", "idle", "spawn", "wait", "move"} \subseteq Steps
        /\ "needs_review" \in Statuses
    BY DEF Kinds, Steps, Statuses, PendingStatus
  <1>3. UNCHANGED rows => Shrinks
    BY DEF Shrinks
  <1>4. UNCHANGED requests => HoldersKept
    BY DEF requests, HoldersKept
  <1>5. CASE Submit(i)
    <2>1. UNCHANGED <<latest, refs, conf, guarded, home, leftover, relocs, requests, bounds>>
      BY <1>5 DEF Submit
    <2>2. PveOK'
      BY <1>1, <1>5, <2>1, TaskTypes DEF Submit
    <2>3. rows' \in [Ids -> Rows] /\ Shrinks
      BY <1>1, <1>2, <1>3, <1>5, RunningStatus DEF Submit
    <2>4. \E step \in Steps : Goto("request", i, step)
      BY <1>2, <1>5 DEF Submit
    <2>5. work' \in WorkType
      BY <1>1, <1>2, <2>4, GotoTypes
    <2>6. DbOK' /\ WorkOK'
      BY <1>1, <2>1, <2>3, <2>5 DEF DbOK, WorkOK
    <2> QED BY <1>1, <1>4, <2>1, <2>2, <2>3, <2>6, Frames, Kept
  <1>6. CASE Recheck(i)
    <2>1. UNCHANGED <<db, pve, relocs, requests, bounds>>
      BY <1>6 DEF Recheck
    <2>2. work' \in WorkType
      BY <1>1, <1>2, <1>6, GotoTypes DEF Recheck
    <2>3. WorkOK' /\ Shrinks /\ latest' = latest
      BY <1>1, <1>3, <2>1, <2>2 DEF WorkOK, db
    <2> QED BY <1>1, <1>4, <2>1, <2>3, Frames, Kept
  <1>7. CASE SaveUpid(i)
    <2>1. UNCHANGED <<latest, refs, pve, relocs, requests, bounds>>
      BY <1>7 DEF SaveUpid
    <2>2. rows' \in [Ids -> Rows] /\ Shrinks
      <3>1. CASE rows' = [rows EXCEPT ![i].upid = (rows[i].mode = "copy")]
        <4> DEFINE r == [rows[i] EXCEPT !.upid = (rows[i].mode = "copy")]
        <4>1. r \in Rows /\ r.status = rows[i].status
          BY <1>1 DEF Rows
        <4>2. rows' = [rows EXCEPT ![i] = r]
          BY <3>1
        <4> QED BY <1>1, <4>1, <4>2 DEF Shrinks
      <3>2. CASE SetIfRunning(i, "needs_review")
        BY <1>1, <1>2, <3>2, RunningStatus
      <3> QED BY <1>7, <3>1, <3>2 DEF SaveUpid
    <2>3. \E step \in Steps : Goto("request", i, step)
      BY <1>2, <1>7 DEF SaveUpid
    <2>4. work' \in WorkType
      BY <1>1, <1>2, <2>3, GotoTypes
    <2>5. DbOK' /\ WorkOK'
      BY <1>1, <2>1, <2>2, <2>4 DEF DbOK, WorkOK
    <2> QED BY <1>1, <1>4, <2>1, <2>2, <2>5, Frames, Kept
  <1>8. CASE Spawn(i)
    <2>1. UNCHANGED <<db, pve, requests, bounds>> /\ relocs' \subseteq Ids
      BY <1>1, <1>8 DEF Spawn
    <2>2. work' \in WorkType
      BY <1>1, <1>2, <1>8 DEF Spawn, WorkType
    <2>3. WorkOK' /\ Shrinks /\ latest' = latest
      BY <1>3, <2>1, <2>2 DEF WorkOK, db
    <2> QED BY <1>1, <1>4, <2>1, <2>3, Frames, Kept
  <1> QED BY <1>5, <1>6, <1>7, <1>8 DEF Start

\* A worker that only moves on, with fewer disks to move or the same, is harmless.
LEMMA WorkSafe ==
    ASSUME IInv, work' \in WorkType, relocs' \subseteq Ids, BoundsOK',
           UNCHANGED <<db, pve, requests>>
    PROVE  IInv'
PROOF
  <1>1. WorkOK' /\ Shrinks /\ HoldersKept /\ latest' = latest
    BY DEF WorkOK, Shrinks, HoldersKept, db, requests
  <1> QED BY <1>1, Frames, Kept DEF IInv

\* The end of a task, seen by a poller or a refresh.
LEMMA CompleteTypes ==
    ASSUME TypeOK, NEW i \in Ids, NEW k \in {"poller", "refresh"}, NEW ok \in BOOLEAN,
           Complete(k, i, ok)
    PROVE  work' \in WorkType /\ relocs' \subseteq Ids
PROOF
  <1>1. work \in WorkType /\ relocs \subseteq Ids
    BY DEF TypeOK, WorkType
  <1>2. {"poller", "refresh", "relocator"} \subseteq Kinds
        /\ {"wait", "idle", "relocate", "succeed", "fail"} \subseteq Steps
    BY DEF Kinds, Steps
  <1>3. CASE ok /\ i \in relocs
    BY <1>1, <1>2, <1>3 DEF Complete, WorkType
  <1>4. CASE ~(ok /\ i \in relocs)
    <2>1. Goto(k, i, IF ok THEN "succeed" ELSE "fail") /\ relocs' = relocs \ {i}
      BY <1>4 DEF Complete
    <2>2. work' \in WorkType
      BY <1>1, <1>2, <2>1, GotoTypes
    <2> QED BY <1>1, <2>1, <2>2
  <1> QED BY <1>3, <1>4

\* Watching a copy settles nothing yet.
LEMMA WatchSafe ==
    ASSUME IInv, NEW i \in Ids, Watch(i) \/ PollTimeout(i) \/ RefreshRow(i)
    PROVE  IInv'
PROOF
  <1>1. TypeOK /\ work \in WorkType /\ relocs \subseteq Ids
        /\ BoundsOK /\ (UNCHANGED bounds => BoundsOK')
    BY Frames, TypeParts DEF IInv, TypeOK, WorkType
  <1>2. {"poller", "refresh", "relocator"} \subseteq Kinds
        /\ {"ask", "idle", "wait", "fail", "succeed"} \subseteq Steps
    BY DEF Kinds, Steps
  <1>3. CASE PollRow(i)
    <2>1. work' \in WorkType
      BY <1>1, <1>2, <1>3, GotoTypes DEF PollRow
    <2> QED BY <1>1, <1>3, <2>1, WorkSafe DEF PollRow
  <1>4. CASE PollTask(i)
    <2>1. work' \in WorkType /\ relocs' \subseteq Ids
      <3>1. CASE task[i] = "running"
        BY <1>1, <1>2, <1>4, <3>1, GotoTypes DEF PollTask
      <3>2. CASE task[i] # "running"
        BY <1>1, <1>4, <3>2, CompleteTypes DEF PollTask
      <3> QED BY <3>1, <3>2
    <2> QED BY <1>1, <1>4, <2>1, WorkSafe DEF PollTask
  <1>5. CASE RefreshTask(i)
    <2>1. work' \in WorkType /\ relocs' \subseteq Ids
      <3>1. CASE task[i] = "running"
        BY <1>1, <1>2, <1>5, <3>1, GotoTypes DEF RefreshTask
      <3>2. CASE task[i] # "running"
        BY <1>1, <1>5, <3>2, CompleteTypes DEF RefreshTask
      <3> QED BY <3>1, <3>2
    <2> QED BY <1>1, <1>5, <2>1, WorkSafe DEF RefreshTask
  <1>6. CASE Relocate(i)
    <2>1. work' \in WorkType
      BY <1>1, <1>2, <1>6, GotoTypes DEF Relocate
    <2> QED BY <1>1, <1>6, <2>1, WorkSafe DEF Relocate
  <1>7. CASE RefreshRow(i)
    <2>1. work' \in WorkType
      BY <1>1, <1>2, <1>7, GotoTypes DEF RefreshRow
    <2> QED BY <1>1, <1>7, <2>1, WorkSafe DEF RefreshRow
  <1>8. CASE PollTimeout(i)
    <2>1. UNCHANGED <<db, pve, requests, restarts>>
      BY <1>8 DEF PollTimeout
    <2>2. BoundsOK'
      BY <1>1, <1>8, BoundsAssumption DEF PollTimeout, BoundsOK
    <2>3. \E step \in Steps : Goto("poller", i, step)
      BY <1>2, <1>8 DEF PollTimeout
    <2>4. work' \in WorkType
      BY <1>1, <1>2, <2>3, GotoTypes
    <2>5. relocs' \subseteq Ids
      BY <1>1, <1>8 DEF PollTimeout
    <2> QED BY <2>1, <2>2, <2>4, <2>5, WorkSafe
  <1> QED BY <1>3, <1>4, <1>5, <1>6, <1>7, <1>8 DEF Watch

\* The adopt job touches configurations and its own step.
LEMMA AdoptSafe ==
    ASSUME IInv, NEW i \in Ids, Adopt(i)
    PROVE  IInv'
PROOF
  <1>1. /\ TypeOK /\ work \in WorkType /\ PveOK /\ WorkOK
        /\ rows[i].src \in Nodes /\ rows[i].tgt \in Nodes
    BY TypeParts DEF IInv, TypeOK, WorkType, Rows
  <1>2. "adopt" \in Kinds
        /\ {"create", "verify", "protect", "forget", "succeed", "succeedKept", "fail"} \subseteq Steps
    BY DEF Kinds, Steps
  <1>3. ASSUME PveOK', NEW step \in Steps, Goto("adopt", i, step), AdoptFrame
        PROVE  IInv'
    <2>1. work' \in WorkType
      BY <1>1, <1>2, <1>3, GotoTypes
    <2>2. WorkOK' /\ Shrinks /\ HoldersKept /\ latest' = latest
      BY <1>1, <1>3, <2>1 DEF WorkOK, Shrinks, HoldersKept, AdoptFrame, db, requests
    <2>3. DbOK' /\ RequestsOK' /\ BoundsOK'
      BY <1>1, <1>3, Frames DEF AdoptFrame
    <2> QED BY <1>3, <2>2, <2>3, Kept
  <1>4. CASE AdoptMove(i)
    <2>1. PveOK' /\ AdoptFrame
      BY <1>1, <1>4 DEF AdoptMove, AdoptFrame, PveOK
    <2> QED BY <1>2, <1>3, <1>4, <2>1 DEF AdoptMove
  <1>5. CASE AdoptCreate(i)
    <2>1. \E c \in SUBSET Nodes : Configs(c)
      BY <1>1, <1>5 DEF AdoptCreate, PveOK
    <2>2. PveOK' /\ AdoptFrame
      BY <1>1, <1>5, <2>1, ConfigTypes DEF AdoptCreate, AdoptFrame, PveOK
    <2> QED BY <1>2, <1>3, <1>5, <2>2 DEF AdoptCreate
  <1>6. CASE AdoptVerify(i)
    <2>1. PveOK' /\ AdoptFrame
      BY <1>1, <1>6 DEF AdoptVerify, AdoptFrame, PveOK
    <2> QED BY <1>2, <1>3, <1>6, <2>1 DEF AdoptVerify
  <1>7. CASE AdoptProtect(i)
    <2>1. PveOK' /\ AdoptFrame
      BY <1>1, <1>7 DEF AdoptProtect, AdoptFrame, PveOK
    <2> QED BY <1>2, <1>3, <1>7, <2>1 DEF AdoptProtect
  <1>8. CASE AdoptForget(i)
    <2>1. PveOK' /\ AdoptFrame
      BY <1>1, <1>8 DEF AdoptForget, AdoptFrame, PveOK, Configs
    <2> QED BY <1>2, <1>3, <1>8, <2>1 DEF AdoptForget
  <1> QED BY <1>4, <1>5, <1>6, <1>7, <1>8 DEF Adopt

\* Settling a row ends a migration, or leaves it to an operator.
LEMMA FinalizeSafe ==
    ASSUME IInv, NEW i \in Ids, NEW k \in Kinds, Finalize(k, i)
    PROVE  IInv'
PROOF
  <1>1. /\ TypeOK /\ work \in WorkType /\ rows \in [Ids -> Rows] /\ relocs \subseteq Ids
        /\ latest \in 0..MaxMigrations /\ refs \in Nodes \cup {Gone}
    BY DEF IInv, TypeOK, WorkType
  <1>2. "idle" \in Steps /\ {"error", "needs_review"} \subseteq Statuses
    BY DEF Steps, Statuses, PendingStatus
  <1>3. Done(k, i) => WorkOK'
    <2> SUFFICES ASSUME Done(k, i) PROVE WorkOK'
      OBVIOUS
    <2>1. work' \in WorkType
      BY <1>1, <1>2, GotoTypes DEF Done
    <2> QED BY <1>1, <2>1 DEF Done, WorkOK
  <1>4. UNCHANGED requests => HoldersKept
    BY DEF requests, HoldersKept
  <1>5. CASE FinalizeSuccess(k, i)
    <2>1. Done(k, i) /\ UNCHANGED <<latest, pve, requests, bounds>>
      BY <1>5 DEF FinalizeSuccess
    <2>2. PICK kept \in BOOLEAN :
            \/ Succeed(i, "running", kept)
            \/ /\ rows' = IF Running(i)
                          THEN [rows EXCEPT ![i].status = "needs_review", ![i].kept = kept]
                          ELSE rows
               /\ UNCHANGED refs
      BY <1>5 DEF FinalizeSuccess, At
    <2>3. rows' \in [Ids -> Rows] /\ refs' \in Nodes \cup {Gone} /\ Shrinks
      <3>1. CASE Succeed(i, "running", kept)
        BY <1>1, <3>1, SucceedTypes
      <3>2. CASE Running(i) /\ UNCHANGED refs
              /\ rows' = [rows EXCEPT ![i].status = "needs_review", ![i].kept = kept]
        <4> DEFINE r == [rows[i] EXCEPT !.status = "needs_review", !.kept = kept]
        <4>1. r \in Rows
          BY <1>1, <1>2 DEF Rows
        <4>2. rows' = [rows EXCEPT ![i] = r]
          BY <3>2
        <4> QED BY <1>1, <3>2, <4>1, <4>2 DEF Shrinks, Running, PendingStatus
      <3>3. CASE UNCHANGED <<rows, refs>>
        BY <1>1, <3>3 DEF Shrinks
      <3> QED BY <2>2, <3>1, <3>2, <3>3
    <2>4. DbOK'
      BY <1>1, <2>1, <2>3 DEF DbOK
    <2> QED BY <1>1, <1>3, <1>4, <2>1, <2>3, <2>4, Frames, Kept
  <1>6. CASE FinalizeFailure(k, i)
    <2>1. Done(k, i) /\ UNCHANGED <<latest, refs, pve, requests, bounds>>
          /\ SetIfRunning(i, "error")
      BY <1>6 DEF FinalizeFailure
    <2>2. rows' \in [Ids -> Rows] /\ Shrinks
      BY <1>1, <1>2, <2>1, RunningStatus
    <2>3. DbOK'
      BY <1>1, <2>1, <2>2 DEF DbOK
    <2> QED BY <1>1, <1>3, <1>4, <2>1, <2>2, <2>3, Frames, Kept
  <1> QED BY <1>5, <1>6 DEF Finalize

\* An operator settles rows, and never opens one.
LEMMA OperateSafe ==
    ASSUME IInv, NEW i \in Ids, Operate(i)
    PROVE  IInv'
PROOF
  <1>1. /\ TypeOK /\ rows \in [Ids -> Rows] /\ DbOK /\ PveOK /\ RequestsOK
        /\ latest \in 0..MaxMigrations /\ refs \in Nodes \cup {Gone} /\ rows[i].kept \in BOOLEAN
    BY TypeParts DEF IInv, TypeOK, Rows
  <1>2. {"error", "removed"} \subseteq Statuses
        /\ "error" \notin PendingStatus /\ "removed" \notin PendingStatus
    BY DEF Statuses, PendingStatus
  <1>3. ASSUME DbOK', PveOK', verdict' \in 0..MaxMigrations, Shrinks, UNCHANGED operatorFrame
        PROVE  IInv'
    <2>1. UNCHANGED <<work, relocs>> /\ UNCHANGED bounds /\ latest' = latest
          /\ UNCHANGED <<policy, deleter>>
      BY <1>3 DEF operatorFrame
    <2>2. RequestsOK' /\ HoldersKept
      BY <1>1, <1>3, <2>1 DEF RequestsOK, HoldersKept
    <2> QED BY <1>1, <1>3, <2>1, <2>2, Frames, Kept
  <1>4. ASSUME NEW s \in {"error", "removed"}, SetStatus(i, s), UNCHANGED <<latest, refs>>
        PROVE  DbOK' /\ Shrinks
    BY <1>1, <1>2, <1>4, StatusTypes DEF DbOK, Shrinks
  <1>5. UNCHANGED pve => PveOK'
    BY <1>1, Frames
  <1>6. UNCHANGED operatorFrame => latest' = latest
    BY DEF operatorFrame
  <1>7. UNCHANGED <<latest, rows, refs>> => DbOK' /\ Shrinks
    BY <1>1 DEF DbOK, Shrinks
  <1>8. CASE ReconcileRead(i)
    <2>1. verdict' \in 0..MaxMigrations
      BY <1>8 DEF ReconcileRead, Ids
    <2> QED BY <1>3, <1>5, <1>6, <1>7, <1>8, <2>1 DEF ReconcileRead
  <1>9. CASE ReconcileWrite(i)
    <2>1. verdict' \in 0..MaxMigrations
      BY <1>9, BoundsAssumption DEF ReconcileWrite
    <2> QED BY <1>3, <1>4, <1>5, <1>6, <1>7, <1>9, <2>1 DEF ReconcileWrite
  <1>10. CASE ResolveSucceeded(i)
    <2>1. rows' \in [Ids -> Rows] /\ refs' \in Nodes \cup {Gone} /\ Shrinks
      BY <1>1, <1>10, SucceedTypes DEF ResolveSucceeded
    <2>2. DbOK'
      BY <1>1, <1>6, <1>10, <2>1 DEF ResolveSucceeded, DbOK
    <2> QED BY <1>1, <1>3, <1>5, <1>10, <2>1, <2>2 DEF ResolveSucceeded, RequestsOK
  <1>11. CASE ResolveFailed(i)
    BY <1>1, <1>3, <1>4, <1>5, <1>6, <1>11 DEF ResolveFailed, RequestsOK
  <1>12. CASE RemoveTracking(i)
    BY <1>1, <1>3, <1>4, <1>5, <1>6, <1>12 DEF RemoveTracking, RequestsOK
  <1>13. CASE CleanupSource(i)
    <2> DEFINE r == [rows[i] EXCEPT !.kept = FALSE]
    <2>1. r \in Rows /\ r.status = rows[i].status
      BY <1>1 DEF Rows
    <2>2. rows' = [rows EXCEPT ![i] = r]
      BY <1>13 DEF CleanupSource
    <2>3. DbOK' /\ Shrinks
      BY <1>1, <1>6, <1>13, <2>1, <2>2 DEF CleanupSource, DbOK, Shrinks
    <2>4. PveOK'
      BY <1>1, <1>13, ConfigTypes DEF CleanupSource, PveOK
    <2> QED BY <1>1, <1>3, <1>13, <2>3, <2>4 DEF CleanupSource, RequestsOK
  <1> QED BY <1>8, <1>9, <1>10, <1>11, <1>12, <1>13 DEF Operate

\* A policy writer or a deletion acts only after its check found no migration.
LEMMA HolderSafe ==
    ASSUME IInv, Policy \/ Delete
    PROVE  IInv'
PROOF
  <1>1. /\ TypeOK /\ rows \in [Ids -> Rows] /\ DbOK /\ PveOK /\ RequestsOK
        /\ latest \in 0..MaxMigrations /\ refs \in Nodes \cup {Gone}
    BY TypeParts DEF IInv, TypeOK
  <1>2. IdleHolder \in Holders /\ IdleHolder.pc = "idle"
    BY DEF IdleHolder, Holders
  <1>3. \A h \in Holders, pc \in {"check", "act", "cleanup"} :
          [h EXCEPT !.pc = pc] \in Holders /\ [h EXCEPT !.pc = pc].pc = pc
    BY DEF Holders
  <1>4. \A n \in Nodes : [pc |-> "check", node |-> n] \in Holders
    BY DEF Holders
  <1>5. ASSUME DbOK', PveOK', Shrinks, HoldersKept, policy' \in Holders, deleter' \in Holders,
               UNCHANGED <<latest, work, relocs, verdict, bounds>>
        PROVE  IInv'
    <2>1. RequestsOK'
      BY <1>1, <1>5 DEF RequestsOK
    <2>2. WorkOK' /\ BoundsOK'
      BY <1>1, <1>5, Frames
    <2> QED BY <1>5, <2>1, <2>2, Kept
  <1>6. UNCHANGED policyFrame => /\ DbOK' /\ PveOK' /\ Shrinks
                                 /\ UNCHANGED <<latest, work, relocs, verdict, bounds>>
    <2> SUFFICES ASSUME UNCHANGED policyFrame
                 PROVE  /\ DbOK' /\ PveOK' /\ Shrinks
                        /\ UNCHANGED <<latest, work, relocs, verdict, bounds>>
      OBVIOUS
    <2>1. UNCHANGED db /\ UNCHANGED pve /\ UNCHANGED <<work, relocs, verdict, bounds>>
      BY DEF policyFrame
    <2> QED BY <1>1, <2>1, Frames DEF db, Shrinks
  <1>7. policy \in Holders /\ deleter \in Holders
    BY <1>1 DEF RequestsOK
  <1>8. CASE PolicyCheck
    BY <1>2, <1>3, <1>5, <1>6, <1>7, <1>8 DEF PolicyCheck, HoldersKept
  <1>9. CASE PolicyCommit
    BY <1>2, <1>5, <1>6, <1>7, <1>9 DEF PolicyCommit, HoldersKept
  <1>10. CASE \E n \in Nodes : PolicyLock(n)
    BY <1>4, <1>5, <1>6, <1>7, <1>10 DEF PolicyLock, HoldersKept
  <1>11. CASE DeleteCheck
    BY <1>2, <1>3, <1>5, <1>6, <1>7, <1>11 DEF DeleteCheck, Deletable, HoldersKept
  <1>12. CASE DeleteGuest
    <2>1. UNCHANGED <<db, task, home, work, relocs, verdict, policy, bounds>>
      BY <1>12 DEF DeleteGuest
    <2>2. DbOK' /\ Shrinks /\ latest' = latest
      BY <1>1, <2>1, Frames DEF db, Shrinks
    <2>3. conf \ {deleter.node} \in SUBSET Nodes /\ conf \in SUBSET Nodes
      BY <1>1 DEF PveOK
    <2>4. PveOK'
      BY <1>1, <1>12, <2>1, <2>3, ConfigTypes DEF DeleteGuest, PveOK
    <2>5. deleter' \in Holders /\ HoldersKept
      BY <1>2, <1>3, <1>7, <1>12, <2>1 DEF DeleteGuest, HoldersKept
    <2> QED BY <1>5, <1>7, <2>1, <2>2, <2>4, <2>5
  <1>13. CASE DeleteRows
    <2>1. UNCHANGED <<latest, pve, work, relocs, verdict, policy, bounds>>
      BY <1>13 DEF DeleteRows
    <2>2. rows' = [j \in Ids |-> IF rows[j].status \in {"ok", "error"}
                                 THEN [rows[j] EXCEPT !.status = "removed"] ELSE rows[j]]
      BY <1>13 DEF DeleteRows
    <2>3. \A j \in Ids : /\ [rows[j] EXCEPT !.status = "removed"] \in Rows
                         /\ [rows[j] EXCEPT !.status = "removed"].status = "removed"
      BY <1>1 DEF Rows, Statuses
    <2>4. rows' \in [Ids -> Rows] /\ Shrinks
      BY <1>1, <2>2, <2>3 DEF Shrinks, PendingStatus
    <2>5. DbOK' /\ PveOK'
      BY <1>1, <1>13, <2>1, <2>4, Frames DEF DeleteRows, DbOK
    <2> QED BY <1>2, <1>5, <1>7, <1>13, <2>1, <2>4, <2>5 DEF DeleteRows, HoldersKept
  <1>14. CASE \E n \in Nodes : DeleteLock(n)
    BY <1>4, <1>5, <1>6, <1>7, <1>14 DEF DeleteLock, HoldersKept
  <1> QED BY <1>8, <1>9, <1>10, <1>11, <1>12, <1>13, <1>14 DEF Policy, Delete

\* What Proxmox and an admin on a shell do is not seen by the portal's rows.
LEMMA OutsideSafe ==
    ASSUME IInv, \/ \E i \in Ids : TaskSucceeds(i) \/ TaskFails(i)
                 \/ \E n \in Nodes : RemoveByHand(n)
    PROVE  IInv'
PROOF
  <1>1. TypeOK /\ PveOK /\ rows \in [Ids -> Rows]
    BY TypeParts DEF IInv, TypeOK
  <1>2. ASSUME PveOK', UNCHANGED <<db, work, relocs, requests, bounds>>
        PROVE  IInv'
    <2>1. Shrinks /\ HoldersKept /\ latest' = latest
      BY <1>2 DEF Shrinks, HoldersKept, db, requests
    <2> QED BY <1>1, <1>2, <2>1, Frames, Kept
  <1>3. ASSUME NEW i \in Ids, TaskSucceeds(i)
        PROVE  IInv'
    <2>1. rows[i].src \in Nodes /\ rows[i].tgt \in Nodes
      BY <1>1 DEF Rows
    <2>2. \E c \in SUBSET Nodes : Configs(c)
      BY <1>1, <1>3, <2>1 DEF TaskSucceeds, PveOK
    <2>3. task' = [task EXCEPT ![i] = "ok"] /\ home' = rows[i].tgt
      BY <1>3 DEF TaskSucceeds
    <2>4. PveOK'
      BY <1>1, <2>1, <2>2, <2>3, ConfigTypes DEF PveOK
    <2> QED BY <1>2, <1>3, <2>4 DEF TaskSucceeds
  <1>4. ASSUME NEW i \in Ids, TaskFails(i)
        PROVE  IInv'
    BY <1>1, <1>2, <1>4, TaskTypes DEF TaskFails
  <1>5. ASSUME NEW n \in Nodes, RemoveByHand(n)
        PROVE  IInv'
    <2>1. conf \ {n} \in SUBSET Nodes
      BY <1>1 DEF PveOK
    <2>2. PveOK'
      BY <1>1, <1>5, <2>1, ConfigTypes DEF RemoveByHand, PveOK
    <2> QED BY <1>2, <1>5, <2>2 DEF RemoveByHand
  <1> QED BY <1>3, <1>4, <1>5

\* A restart forgets workers and locks; running rows stay pending.
LEMMA RestartSafe ==
    ASSUME IInv, Restart
    PROVE  IInv'
PROOF
  <1>1. TypeOK /\ rows \in [Ids -> Rows] /\ DbOK /\ BoundsOK
    BY TypeParts DEF IInv, TypeOK
  <1>2. \A r \in Rows : /\ Interrupted(r) \in Rows
                        /\ Interrupted(r).status \in PendingStatus => r.status \in PendingStatus
    BY DEF Interrupted, Rows, Statuses, PendingStatus
  <1>3. rows' = [i \in Ids |-> Interrupted(rows[i])]
        /\ UNCHANGED <<latest, refs, pve, timeouts, timedOut>>
    BY DEF Restart
  <1>4. DbOK' /\ Shrinks
    BY <1>1, <1>2, <1>3 DEF DbOK, Shrinks
  <1>5. AllIdle \in WorkType
    BY DEF AllIdle, WorkType, Steps
  <1>6. WorkOK'
    BY <1>5 DEF Restart, WorkOK
  <1>7. IdleHolder \in Holders /\ IdleHolder.pc = "idle"
    BY DEF IdleHolder, Holders
  <1>8. RequestsOK' /\ HoldersKept
    BY <1>7, BoundsAssumption DEF Restart, RequestsOK, HoldersKept
  <1>9. BoundsOK'
    BY <1>1, BoundsAssumption DEF Restart, BoundsOK
  <1> QED BY <1>1, <1>3, <1>4, <1>6, <1>8, <1>9, Frames, Kept

\* The invariant holds in every reachable state.
THEOREM Invariance == Spec => []IInv
PROOF
  <1>1. Init => IInv
    BY Initially
  <1>2. IInv /\ [Next]_vars => IInv'
    <2> SUFFICES ASSUME IInv, [Next]_vars PROVE IInv'
      OBVIOUS
    <2>1. CASE UNCHANGED vars
      <3>1. UNCHANGED db /\ UNCHANGED pve /\ UNCHANGED <<work, relocs>>
            /\ UNCHANGED requests /\ UNCHANGED bounds
        BY <2>1 DEF vars
      <3>2. Shrinks /\ HoldersKept /\ latest' = latest
        BY <3>1 DEF Shrinks, HoldersKept, db, requests
      <3> QED BY <3>1, <3>2, Frames, Kept DEF IInv
    <2>2. CASE Next
      BY <2>2, ClaimSafe, StartSafe, WatchSafe, AdoptSafe, FinalizeSafe, OperateSafe,
         HolderSafe, OutsideSafe, RestartSafe DEF Next
    <2> QED BY <2>1, <2>2
  <1> QED BY <1>1, <1>2, PTL DEF Spec

\* Columns, jobs and requests keep their types.
THEOREM TypeCorrect == Spec => []TypeOK
PROOF
  <1>1. IInv => TypeOK
    BY DEF IInv
  <1> QED BY <1>1, Invariance, PTL

\* migrate.ts:1045-1047: at most one migration of the VM runs or awaits review.
THEOREM OneAtATime == Spec => []OneMigration
PROOF
  <1>1. IInv => OneMigration
    BY DEF IInv
  <1> QED BY <1>1, Invariance, PTL

\* vmMigrationLock.ts:19-22 and vms.ts:539-542: a policy write or a deletion that has
\* passed its check is not overtaken by a migration.
THEOREM HoldersAreSafe == Spec => []HoldersExcludeMigration
PROOF
  <1>1. IInv => HoldersExcludeMigration
    BY DEF IInv
  <1> QED BY <1>1, Invariance, PTL

-----------------------------------------------------------------------------
(* What the workers of each migration may rely on.                         *)

AdoptMoved == {"protect", "forget", "succeed", "succeedKept"}
Watchers == {"poller", "refresh", "relocator"}

PendingRow(i) == rows[i].status \in PendingStatus
NoneOf(ks, i) == \A k \in ks : At(k, i, "idle")

\* The steps each kind of worker takes.
StepsOK(i) ==
    /\ work["request"][i] \in {"idle", "submit", "recheck", "save", "spawn", "fail"}
    /\ work["poller"][i] \in {"idle", "wait", "ask", "succeed", "fail"}
    /\ work["refresh"][i] \in {"idle", "ask", "succeed", "fail"}
    /\ work["relocator"][i] \in {"idle", "relocate", "succeed"}
    /\ work["adopt"][i] \in {"idle", "move", "create", "verify", "fail"} \cup AdoptMoved

\* A task belongs to a copy, and outlives its row only where a poller gave up.
RowOK(i) ==
    /\ rows[i].status = "none" => NoneOf(Kinds, i) /\ task[i] = "none" /\ ~rows[i].upid
    /\ rows[i].status # "none" => rows[i].src # rows[i].tgt
    /\ rows[i].upid => rows[i].mode = "copy" /\ task[i] # "none"
    /\ rows[i].mode = "adopt" => task[i] = "none"
    /\ task[i] = "running" => PendingRow(i) \/ i \in timedOut

\* Until the request has saved the task, nothing else works on its migration.
RequestOK(i) ==
    /\ work["request"][i] \in {"submit", "recheck", "save", "fail"} =>
          Running(i) /\ ~rows[i].upid
    /\ At("request", i, "submit") => rows[i].mode = "copy" /\ task[i] = "none"
    /\ At("request", i, "recheck") => rows[i].mode = "adopt"
    /\ At("request", i, "save") /\ rows[i].mode = "copy" => task[i] # "none"
    /\ At("request", i, "fail") => task[i] = "none"
    /\ At("request", i, "spawn") => IF rows[i].mode = "copy" THEN rows[i].upid ELSE Running(i)
    /\ ~At("request", i, "idle") => At("poller", i, "idle") /\ At("adopt", i, "idle")

\* A watcher that will record an outcome has seen it, or has given up.
WatchOK(i) ==
    /\ ~NoneOf(Watchers, i) => rows[i].upid
    /\ \A k \in Watchers : work[k][i] \in {"succeed", "relocate"} => task[i] = "ok"
    /\ At("refresh", i, "fail") => task[i] = "failed"
    /\ At("poller", i, "fail") =>
          \/ task[i] = "failed"
          \/ i \in timedOut /\ i \notin relocs /\ ~At("relocator", i, "relocate")

AdoptOK(i) == ~At("adopt", i, "idle") => Running(i) /\ rows[i].mode = "adopt"

MigrationOK(i) == StepsOK(i) /\ RowOK(i) /\ RequestOK(i) /\ WatchOK(i) /\ AdoptOK(i)
FutureOK == \A i \in Ids : i > latest => rows[i].status = "none"
VerdictOK == verdict \in Ids => task[verdict] = "failed"

WInv == (\A i \in Ids : MigrationOK(i)) /\ FutureOK /\ VerdictOK

\* What MigrationOK(j) looks at does not change, or only for the better.
Untouched(j) ==
    /\ rows'[j].status = rows[j].status /\ rows'[j].mode = rows[j].mode
    /\ rows'[j].src = rows[j].src /\ rows'[j].tgt = rows[j].tgt /\ rows'[j].upid = rows[j].upid
    /\ task'[j] = task[j] /\ (j \in relocs' => j \in relocs)
    /\ \A k \in Kinds : work'[k][j] = work[k][j]

\* Only migration i may be touched.
Only(i) == \A j \in Ids \ {i} : Untouched(j)

LEMMA UntouchedOK ==
    ASSUME NEW j \in Ids, MigrationOK(j), Untouched(j), timedOut \subseteq timedOut'
    PROVE  MigrationOK(j)'
PROOF
  <1> USE DEF Untouched, At, Running, PendingRow, Kinds
  <1>1. StepsOK(j)'
    BY DEF MigrationOK, StepsOK, AdoptMoved
  <1>2. RowOK(j)'
    BY DEF MigrationOK, RowOK, NoneOf
  <1>3. RequestOK(j)'
    BY DEF MigrationOK, RequestOK
  <1>4. WatchOK(j)'
    BY DEF MigrationOK, WatchOK, Watchers, NoneOf
  <1>5. AdoptOK(j)'
    BY DEF MigrationOK, AdoptOK
  <1> QED BY <1>1, <1>2, <1>3, <1>4, <1>5 DEF MigrationOK

\* A step of migration i leaves the others alone.
LEMMA OneStep ==
    ASSUME WInv, NEW i \in Ids, MigrationOK(i)', Only(i),
           timedOut \subseteq timedOut',
           latest' = latest, rows[i].status = "none" => rows'[i].status = "none",
           verdict' \in {verdict, 0} \/ (verdict' = i /\ task'[i] = "failed"),
           task[i] = "failed" => task'[i] = "failed"
    PROVE  WInv'
PROOF
  <1>1. \A j \in Ids : MigrationOK(j)'
    BY UntouchedOK DEF WInv, Only
  <1>2. FutureOK'
    BY DEF WInv, FutureOK, Only, Untouched
  <1>3. VerdictOK'
    <2>1. 0 \notin Ids
      BY DEF Ids
    <2> QED BY <2>1 DEF WInv, VerdictOK, Only, Untouched
  <1> QED BY <1>1, <1>2, <1>3 DEF WInv

\* Where a worker goes to.
LEMMA GotoSteps ==
    ASSUME work \in WorkType, NEW k \in Kinds, NEW i \in Ids, NEW s, Goto(k, i, s)
    PROVE  \A k2 \in Kinds, j \in Ids :
              work'[k2][j] = IF k2 = k /\ j = i THEN s ELSE work[k2][j]
PROOF
  BY DEF Goto, WorkType

\* What a new status leaves alone.
LEMMA StatusFields ==
    ASSUME rows \in [Ids -> Rows], NEW i \in Ids, NEW s, SetStatus(i, s)
    PROVE  \A j \in Ids :
              /\ rows'[j].status = IF j = i THEN s ELSE rows[j].status
              /\ rows'[j].mode = rows[j].mode /\ rows'[j].src = rows[j].src
              /\ rows'[j].tgt = rows[j].tgt /\ rows'[j].upid = rows[j].upid
              /\ rows'[j].kept = rows[j].kept
PROOF
  BY DEF SetStatus, Rows

LEMMA IfRunningFields ==
    ASSUME rows \in [Ids -> Rows], NEW i \in Ids, NEW s, SetIfRunning(i, s)
    PROVE  \A j \in Ids :
              /\ rows'[j].status = IF j = i /\ Running(i) THEN s ELSE rows[j].status
              /\ rows'[j].mode = rows[j].mode /\ rows'[j].src = rows[j].src
              /\ rows'[j].tgt = rows[j].tgt /\ rows'[j].upid = rows[j].upid
              /\ rows'[j].kept = rows[j].kept
PROOF
  BY StatusFields DEF SetIfRunning

\* The claim takes a row no worker has seen.
LEMMA ClaimWorks ==
    ASSUME IInv, WInv, NEW mode \in {"copy", "adopt"}, NEW src \in Nodes, NEW tgt \in Nodes,
           Claim(mode, src, tgt)
    PROVE  WInv'
PROOF
  <1> DEFINE s == IF mode = "copy" THEN "submit" ELSE "recheck"
  <1>0. PICK i \in Ids : i = latest + 1
    BY DEF Claim
  <1>1. /\ latest \in Nat /\ work \in WorkType /\ rows \in [Ids -> Rows]
        /\ latest' = i /\ tgt # src /\ UNCHANGED <<refs, pve, relocs, requests, bounds>>
    BY <1>0 DEF Claim, IInv, TypeOK, WorkType
  <1>2. rows' = [rows EXCEPT ![i] = [status |-> "running", mode |-> mode, src |-> src,
                                     tgt |-> tgt, upid |-> FALSE, kept |-> FALSE]]
    BY <1>0 DEF Claim
  <1>3. \A k \in Kinds, j \in Ids :
          work'[k][j] = IF k = "request" /\ j = i THEN s ELSE work[k][j]
    <2>1. "request" \in Kinds /\ Goto("request", i, s)
      BY <1>0 DEF Kinds, Claim
    <2> QED BY <1>1, <2>1, GotoSteps
  <1>4. NoneOf(Kinds, i) /\ task[i] = "none"
    <2>1. rows[i].status = "none"
      BY <1>0, <1>1 DEF WInv, FutureOK
    <2> QED BY <1>1, <2>1 DEF WInv, MigrationOK, RowOK
  <1>5. MigrationOK(i)'
    <2>1. rows'[i].status = "running" /\ rows'[i].mode = mode /\ rows'[i].src = src
          /\ rows'[i].tgt = tgt /\ rows'[i].upid = FALSE
      BY <1>1, <1>2
    <2>2. task'[i] = "none"
      BY <1>1, <1>4 DEF pve
    <2>3. /\ work'["request"][i] = s /\ work'["poller"][i] = "idle"
          /\ work'["refresh"][i] = "idle" /\ work'["relocator"][i] = "idle"
          /\ work'["adopt"][i] = "idle"
      BY <1>1, <1>3, <1>4 DEF NoneOf, At, Kinds
    <2>4. StepsOK(i)'
      BY <2>3 DEF StepsOK
    <2>5. RowOK(i)'
      BY <1>1, <2>1, <2>2 DEF RowOK
    <2>6. RequestOK(i)'
      BY <2>1, <2>2, <2>3 DEF RequestOK, At, Running
    <2>7. WatchOK(i)' /\ AdoptOK(i)'
      BY <2>3 DEF WatchOK, AdoptOK, NoneOf, Watchers, At
    <2> QED BY <2>4, <2>5, <2>6, <2>7 DEF MigrationOK
  <1>6. Only(i)
    BY <1>1, <1>2, <1>3 DEF Only, Untouched, pve
  <1>7. \A j \in Ids : MigrationOK(j)'
    BY <1>1, <1>5, <1>6, UntouchedOK DEF WInv, Only, bounds
  <1>8. FutureOK'
    BY <1>0, <1>1, <1>6 DEF WInv, FutureOK, Only, Untouched, Ids
  <1>9. VerdictOK'
    BY <1>1 DEF WInv, VerdictOK, pve, requests
  <1> QED BY <1>7, <1>8, <1>9 DEF WInv

\* The request ends before its migration is watched.
LEMMA StartWorks ==
    ASSUME IInv, WInv, NEW i \in Ids, Start(i)
    PROVE  WInv'
PROOF
  <1>1. /\ MigrationOK(i) /\ work \in WorkType /\ rows \in [Ids -> Rows]
        /\ task \in [Ids -> {"none", "running", "ok", "failed"}]
    BY DEF IInv, TypeOK, WorkType, WInv
  <1>2. {"request", "poller", "relocator", "adopt", "refresh"} = Kinds
    BY DEF Kinds
  <1> USE DEF MigrationOK, At, PendingRow, PendingStatus
  <1>3. CASE Submit(i)
    <2>1. UNCHANGED <<latest, relocs, requests, bounds>> /\ At("request", i, "submit")
      BY <1>3 DEF Submit
    <2>2. PICK s \in {"fail", "save", "idle"} : Goto("request", i, s)
            /\ (s = "fail" => task' = task /\ rows' = rows)
            /\ (s = "save" => task' = [task EXCEPT ![i] = "running"] /\ rows' = rows)
            /\ (s = "idle" => /\ task' \in {task, [task EXCEPT ![i] = "running"]}
                              /\ SetIfRunning(i, "needs_review"))
      BY <1>3 DEF Submit
    <2>3. \A k \in Kinds, j \in Ids :
            work'[k][j] = IF k = "request" /\ j = i THEN s ELSE work[k][j]
      BY <1>1, <1>2, <2>2, GotoSteps
    <2>4. \A j \in Ids :
            /\ rows'[j].status = IF s = "idle" /\ j = i THEN "needs_review" ELSE rows[j].status
            /\ rows'[j].mode = rows[j].mode /\ rows'[j].src = rows[j].src
            /\ rows'[j].tgt = rows[j].tgt /\ rows'[j].upid = rows[j].upid
      <3>1. Running(i)
        BY <1>1, <2>1 DEF RequestOK
      <3> QED BY <1>1, <2>2, <3>1, IfRunningFields
    <2>5. \A j \in Ids \ {i} : task'[j] = task[j]
      BY <1>1, <2>2
    <2>6. task[i] = "none" /\ task'[i] \in {"none", "running"}
          /\ (s = "fail" => task'[i] = "none") /\ (s = "save" => task'[i] = "running")
      BY <1>1, <2>1, <2>2 DEF RequestOK
    <2>7. Only(i)
      BY <1>1, <2>1, <2>3, <2>4, <2>5 DEF Only, Untouched
    <2>8. MigrationOK(i)'
      <3>1. StepsOK(i)'
        BY <1>1, <1>2, <2>2, <2>3 DEF StepsOK
      <3>2. RowOK(i)'
        BY <1>1, <2>1, <2>4, <2>6 DEF RowOK, RequestOK, Running
      <3>3. RequestOK(i)'
        BY <1>1, <1>2, <2>1, <2>3, <2>4, <2>6 DEF RequestOK, Running
      <3>4. WatchOK(i)'
        BY <1>1, <1>2, <2>1, <2>3, <2>4, <2>6 DEF WatchOK, RequestOK, NoneOf, Watchers, Kinds
      <3>5. AdoptOK(i)'
        BY <1>1, <1>2, <2>1, <2>3, <2>4 DEF AdoptOK, RequestOK
      <3> QED BY <3>1, <3>2, <3>3, <3>4, <3>5
    <2>9. rows[i].status # "none"
      BY <1>1, <2>1 DEF RequestOK, Running
    <2> QED BY <2>1, <2>6, <2>7, <2>8, <2>9, OneStep DEF requests, bounds
  <1>4. CASE Recheck(i)
    <2>1. UNCHANGED <<db, pve, relocs, requests, bounds>> /\ At("request", i, "recheck")
      BY <1>4 DEF Recheck
    <2>2. PICK s \in {"fail", "save"} : Goto("request", i, s)
      BY <1>4 DEF Recheck
    <2>3. \A k \in Kinds, j \in Ids :
            work'[k][j] = IF k = "request" /\ j = i THEN s ELSE work[k][j]
      BY <1>1, <1>2, <2>2, GotoSteps
    <2>4. rows' = rows /\ task' = task /\ latest' = latest /\ timedOut' = timedOut
          /\ verdict' = verdict /\ relocs' = relocs
      BY <2>1 DEF db, pve, bounds, requests
    <2>5. Only(i)
      BY <2>3, <2>4 DEF Only, Untouched
    <2>6. StepsOK(i)' /\ RequestOK(i)'
      BY <1>1, <1>2, <2>1, <2>2, <2>3, <2>4 DEF StepsOK, RequestOK, RowOK, Running
    <2>7. RowOK(i)'
      BY <1>1, <2>1, <2>4 DEF RowOK, RequestOK, Running
    <2>8. WatchOK(i)' /\ AdoptOK(i)'
      BY <1>1, <1>2, <2>3, <2>4 DEF WatchOK, AdoptOK, NoneOf, Watchers, Running
    <2> QED BY <2>4, <2>5, <2>6, <2>7, <2>8, OneStep
  <1>5. CASE SaveUpid(i)
    <2>1. /\ latest' = latest /\ task' = task /\ relocs' = relocs /\ verdict' = verdict
          /\ timedOut' = timedOut /\ At("request", i, "save")
      BY <1>5 DEF SaveUpid, pve, bounds, requests
    <2>2. Running(i) /\ ~rows[i].upid
      BY <1>1, <2>1 DEF RequestOK
    <2>3. PICK s \in {"spawn", "idle"} : Goto("request", i, s)
            /\ (s = "spawn" => rows' = [rows EXCEPT ![i].upid = (rows[i].mode = "copy")])
            /\ (s = "idle" => SetIfRunning(i, "needs_review"))
      BY <1>5 DEF SaveUpid
    <2>4. \A k \in Kinds, j \in Ids :
            work'[k][j] = IF k = "request" /\ j = i THEN s ELSE work[k][j]
      BY <1>1, <1>2, <2>3, GotoSteps
    <2>5. \A j \in Ids :
            /\ rows'[j].status = IF s = "idle" /\ j = i THEN "needs_review" ELSE rows[j].status
            /\ rows'[j].mode = rows[j].mode /\ rows'[j].src = rows[j].src
            /\ rows'[j].tgt = rows[j].tgt
            /\ rows'[j].upid = IF s = "spawn" /\ j = i THEN rows[i].mode = "copy"
                               ELSE rows[j].upid
      <3>1. CASE s = "spawn"
        BY <1>1, <2>3, <3>1 DEF Rows
      <3>2. CASE s = "idle"
        BY <1>1, <2>2, <2>3, <3>2, IfRunningFields
      <3> QED BY <3>1, <3>2
    <2>6. Only(i)
      BY <2>1, <2>4, <2>5 DEF Only, Untouched
    <2>7. StepsOK(i)' /\ RequestOK(i)'
      BY <1>1, <1>2, <2>1, <2>2, <2>3, <2>4, <2>5 DEF StepsOK, RequestOK, Running
    <2>8. RowOK(i)'
      <3>1. rows[i].mode = "copy" => task[i] # "none"
        BY <1>1, <2>1 DEF RequestOK
      <3>2. rows'[i].upid => rows'[i].mode = "copy"
        BY <2>2, <2>3, <2>5
      <3>3. rows[i].status = "running" /\ rows'[i].status \in PendingStatus
        BY <2>2, <2>5 DEF Running
      <3> QED BY <1>1, <2>1, <2>5, <3>1, <3>2, <3>3 DEF RowOK
    <2>9. WatchOK(i)' /\ AdoptOK(i)'
      BY <1>1, <1>2, <2>1, <2>2, <2>4, <2>5 DEF WatchOK, AdoptOK, RequestOK, NoneOf, Watchers
    <2> QED BY <2>1, <2>2, <2>6, <2>7, <2>8, <2>9, OneStep DEF Running
  <1>6. CASE Spawn(i)
    <2>1. /\ At("request", i, "spawn") /\ rows' = rows /\ task' = task /\ latest' = latest
          /\ timedOut' = timedOut /\ verdict' = verdict
      BY <1>6 DEF Spawn, db, pve, bounds, requests
    <2>2. \A j \in Ids \ {i} : j \in relocs' => j \in relocs
      BY <1>6 DEF Spawn
    <2>3. CASE rows[i].mode = "copy"
      <3>1. \A k \in Kinds, j \in Ids :
              work'[k][j] = IF k = "request" /\ j = i THEN "idle"
                            ELSE IF k = "poller" /\ j = i THEN "wait" ELSE work[k][j]
        BY <1>1, <1>2, <1>6, <2>3 DEF Spawn, WorkType
      <3>2. Only(i)
        BY <2>1, <2>2, <3>1 DEF Only, Untouched
      <3>3. StepsOK(i)' /\ RequestOK(i)'
        BY <1>1, <1>2, <2>1, <2>3, <3>1 DEF StepsOK, RequestOK, Running
      <3>4. RowOK(i)'
        BY <1>1, <1>2, <2>1, <2>3, <3>1 DEF RowOK, RequestOK, NoneOf
      <3>5. WatchOK(i)' /\ AdoptOK(i)'
        BY <1>1, <1>2, <2>1, <2>3, <3>1 DEF WatchOK, AdoptOK, RequestOK, Running, NoneOf, Watchers
      <3> QED BY <2>1, <3>2, <3>3, <3>4, <3>5, OneStep
    <2>4. CASE rows[i].mode # "copy"
      <3>1. \A k \in Kinds, j \in Ids :
              work'[k][j] = IF k = "request" /\ j = i THEN "idle"
                            ELSE IF k = "adopt" /\ j = i THEN "move" ELSE work[k][j]
        BY <1>1, <1>2, <1>6, <2>4 DEF Spawn, WorkType
      <3>2. Running(i) /\ rows[i].mode = "adopt" /\ relocs' = relocs
        BY <1>1, <1>6, <2>1, <2>4 DEF RequestOK, Rows, Spawn
      <3>3. Only(i)
        BY <2>1, <2>2, <3>1 DEF Only, Untouched
      <3>4. StepsOK(i)' /\ RequestOK(i)'
        BY <1>1, <1>2, <2>1, <3>1, <3>2 DEF StepsOK, RequestOK, Running
      <3>5. RowOK(i)'
        BY <1>1, <2>1, <3>2 DEF RowOK, Running
      <3>6. WatchOK(i)' /\ AdoptOK(i)'
        BY <1>1, <1>2, <2>1, <3>1, <3>2 DEF WatchOK, AdoptOK, Running, NoneOf, Watchers
      <3> QED BY <2>1, <3>3, <3>4, <3>5, <3>6, OneStep
    <2> QED BY <2>3, <2>4
  <1> QED BY <1>3, <1>4, <1>5, <1>6 DEF Start

\* A watcher of a copy goes to step s, and may start the disk moves.
LEMMA WatcherStep ==
    ASSUME IInv, WInv, NEW i \in Ids, NEW k \in Watchers, NEW s, NEW starts \in BOOLEAN,
           \A k2 \in Kinds, j \in Ids :
              work'[k2][j] = IF k2 = k /\ j = i THEN s
                             ELSE IF starts /\ k2 = "relocator" /\ j = i THEN "relocate"
                             ELSE work[k2][j],
           s \in {"idle", "succeed"} \/ (k = "poller" /\ s \in {"wait", "ask", "fail"})
              \/ (k = "refresh" /\ s \in {"ask", "fail"}),
           s = "succeed" \/ starts => task[i] = "ok",
           starts => i \in relocs,
           s = "fail" => \/ task[i] = "failed"
                         \/ /\ k = "poller" /\ i \in timedOut' /\ i \notin relocs'
                            /\ ~starts /\ ~At("relocator", i, "relocate"),
           rows[i].upid, k = "poller" => ~At("poller", i, "idle"),
           UNCHANGED <<rows, task, latest, verdict>>,
           relocs' \subseteq relocs, timedOut \subseteq timedOut'
    PROVE  WInv'
PROOF
  <1>1. MigrationOK(i) /\ {"request", "poller", "relocator", "adopt", "refresh"} = Kinds
    BY DEF WInv, Kinds
  <1>2. Only(i)
    BY DEF Only, Untouched
  <1> USE DEF At, Running, PendingRow, Watchers
  <1>3. StepsOK(i)'
    BY <1>1 DEF MigrationOK, StepsOK
  <1>4. RowOK(i)'
    BY <1>1 DEF MigrationOK, RowOK
  <1>5. RequestOK(i)'
    <2>1. rows[i].mode = "copy" /\ task[i] # "none"
      BY <1>1 DEF MigrationOK, RowOK
    <2>2. At("request", i, "idle") \/ At("request", i, "spawn")
      BY <1>1 DEF MigrationOK, RequestOK, StepsOK
    <2>3. At("request", i, "spawn") => At("poller", i, "idle") /\ At("adopt", i, "idle")
      BY <1>1 DEF MigrationOK, RequestOK
    <2> QED BY <1>1, <2>1, <2>2, <2>3 DEF RequestOK
  <1>6. WatchOK(i)'
    BY <1>1 DEF MigrationOK, WatchOK, NoneOf
  <1>7. AdoptOK(i)'
    BY <1>1 DEF MigrationOK, AdoptOK
  <1> QED BY <1>2, <1>3, <1>4, <1>5, <1>6, <1>7, OneStep DEF MigrationOK

\* The end of a task takes a watcher to its outcome, or to the disk moves.
LEMMA CompleteWorks ==
    ASSUME IInv, WInv, NEW i \in Ids, NEW k \in {"poller", "refresh"}, At(k, i, "ask"),
           task[i] # "running", Complete(k, i, task[i] = "ok"),
           UNCHANGED <<db, pve, requests, bounds>>
    PROVE  WInv'
PROOF
  <1>1. /\ MigrationOK(i) /\ work \in WorkType /\ k \in Kinds /\ k \in Watchers
        /\ task[i] \in {"none", "ok", "failed"}
    BY DEF WInv, IInv, TypeOK, WorkType, Kinds, Watchers
  <1>2. rows[i].upid /\ task[i] # "none"
    BY <1>1 DEF MigrationOK, WatchOK, RowOK, NoneOf, At
  <1>3. UNCHANGED <<rows, task, latest, verdict, timedOut>> /\ ~At(k, i, "idle")
    BY DEF db, pve, requests, bounds, At
  <1>4. CASE task[i] = "ok" /\ i \in relocs
    <2> DEFINE s == IF k = "poller" THEN "wait" ELSE "idle"
               starts == ~Relocating(i)
    <2>1. \A k2 \in Kinds, j \in Ids :
              work'[k2][j] = IF k2 = k /\ j = i THEN s
                             ELSE IF starts /\ k2 = "relocator" /\ j = i THEN "relocate"
                             ELSE work[k2][j]
      <3>1. work' = IF starts THEN [work EXCEPT ![k][i] = s, !["relocator"][i] = "relocate"]
                              ELSE [work EXCEPT ![k][i] = s]
        BY <1>4 DEF Complete
      <3>2. k # "relocator" /\ "relocator" \in Kinds
        BY DEF Kinds
      <3>3. CASE starts
        BY <1>1, <3>1, <3>2, <3>3 DEF WorkType
      <3>4. CASE ~starts
        BY <1>1, <3>1, <3>2, <3>4 DEF WorkType
      <3> QED BY <3>3, <3>4
    <2>2. relocs' = relocs /\ starts \in BOOLEAN
      BY <1>4 DEF Complete, Relocating
    <2> HIDE DEF starts
    <2> QED BY <1>1, <1>2, <1>3, <1>4, <2>1, <2>2, WatcherStep
  <1>5. CASE ~(task[i] = "ok" /\ i \in relocs)
    <2> DEFINE s == IF task[i] = "ok" THEN "succeed" ELSE "fail"
    <2>0. PICK starts \in BOOLEAN : ~starts
      OBVIOUS
    <2>1. Goto(k, i, s) /\ relocs' = relocs \ {i}
      BY <1>5 DEF Complete
    <2>2. s = "succeed" => task[i] = "ok"
      OBVIOUS
    <2>3. s = "fail" => task[i] = "failed"
      BY <1>1, <1>2
    <2>4. s \in {"succeed", "fail"}
      OBVIOUS
    <2> HIDE DEF s
    <2>5. \A k2 \in Kinds, j \in Ids :
              work'[k2][j] = IF k2 = k /\ j = i THEN s ELSE work[k2][j]
      BY <1>1, <2>1, GotoSteps
    <2>6. \A k2 \in Kinds, j \in Ids :
              work'[k2][j] = IF k2 = k /\ j = i THEN s
                             ELSE IF starts /\ k2 = "relocator" /\ j = i THEN "relocate"
                             ELSE work[k2][j]
      BY <2>0, <2>5
    <2> QED BY <1>1, <1>2, <1>3, <2>0, <2>1, <2>2, <2>3, <2>4, <2>6, WatcherStep
  <1> QED BY <1>4, <1>5

\* A watcher alone goes to step s.
LEMMA WatcherAlone ==
    ASSUME IInv, WInv, NEW i \in Ids, NEW k \in Watchers, NEW s, Goto(k, i, s),
           s \in {"idle", "succeed"} \/ (k = "poller" /\ s \in {"wait", "ask", "fail"})
              \/ (k = "refresh" /\ s \in {"ask", "fail"}),
           s = "succeed" => task[i] = "ok",
           s = "fail" => /\ k = "poller" /\ i \in timedOut' /\ i \notin relocs'
                         /\ ~At("relocator", i, "relocate"),
           rows[i].upid, k = "poller" => ~At("poller", i, "idle"),
           UNCHANGED <<rows, task, latest, verdict>>,
           relocs' \subseteq relocs, timedOut \subseteq timedOut'
    PROVE  WInv'
PROOF
  <1>1. work \in WorkType /\ k \in Kinds
    BY DEF IInv, TypeOK, WorkType, Watchers, Kinds
  <1>2. PICK starts \in BOOLEAN : ~starts
    OBVIOUS
  <1>3. \A k2 \in Kinds, j \in Ids :
            work'[k2][j] = IF k2 = k /\ j = i THEN s
                           ELSE IF starts /\ k2 = "relocator" /\ j = i THEN "relocate"
                           ELSE work[k2][j]
    BY <1>1, <1>2, GotoSteps
  <1> QED BY <1>2, <1>3, WatcherStep

LEMMA WatchWorks ==
    ASSUME IInv, WInv, NEW i \in Ids, Watch(i) \/ PollTimeout(i) \/ RefreshRow(i)
    PROVE  WInv'
PROOF
  <1>1. /\ MigrationOK(i)
        /\ {"poller", "refresh", "relocator"} = Watchers
        /\ UNCHANGED <<db, pve, requests>> => UNCHANGED <<rows, task, latest, verdict>>
        /\ UNCHANGED bounds => timedOut' = timedOut
    BY DEF WInv, Watchers, db, pve, requests, bounds
  <1>2. \A k \in Watchers : ~At(k, i, "idle") => rows[i].upid
    BY <1>1 DEF MigrationOK, WatchOK, NoneOf
  <1>3. CASE PollRow(i)
    <2>1. PICK s \in {"ask", "idle"} : Goto("poller", i, s)
      BY <1>3 DEF PollRow
    <2>2. ~At("poller", i, "idle")
      BY <1>3 DEF PollRow, At
    <2> QED BY <1>1, <1>2, <1>3, <2>1, <2>2, WatcherAlone DEF PollRow
  <1>4. CASE PollTask(i)
    <2>1. CASE task[i] = "running"
      <3>1. ~At("poller", i, "idle") /\ Goto("poller", i, "wait")
        BY <1>4, <2>1 DEF PollTask, At
      <3> QED BY <1>1, <1>2, <1>4, <2>1, <3>1, WatcherAlone DEF PollTask
    <2>2. CASE task[i] # "running"
      BY <1>4, <2>2, CompleteWorks DEF PollTask
    <2> QED BY <2>1, <2>2
  <1>5. CASE RefreshTask(i)
    <2>1. CASE task[i] = "running"
      <3>1. ~At("refresh", i, "idle") /\ Goto("refresh", i, "idle")
        BY <1>5, <2>1 DEF RefreshTask, At
      <3> QED BY <1>1, <1>2, <1>5, <2>1, <3>1, WatcherAlone DEF RefreshTask
    <2>2. CASE task[i] # "running"
      BY <1>5, <2>2, CompleteWorks DEF RefreshTask
    <2> QED BY <2>1, <2>2
  <1>6. CASE Relocate(i)
    <2>1. ~At("relocator", i, "idle") /\ Goto("relocator", i, "succeed") /\ task[i] = "ok"
      BY <1>1, <1>6 DEF Relocate, At, MigrationOK, WatchOK
    <2> QED BY <1>1, <1>2, <1>6, <2>1, WatcherAlone DEF Relocate
  <1>7. CASE RefreshRow(i)
    BY <1>1, <1>7, WatcherAlone DEF RefreshRow
  <1>8. CASE PollTimeout(i)
    <2>1. ~At("poller", i, "idle") /\ UNCHANGED <<db, pve, requests>>
      BY <1>8 DEF PollTimeout, At
    <2>2. CASE Relocating(i)
      BY <1>1, <1>2, <1>8, <2>1, <2>2, WatcherAlone DEF PollTimeout
    <2>3. CASE ~Relocating(i)
      <3>1. ~At("relocator", i, "relocate")
        BY <2>3 DEF Relocating, At
      <3>2. Goto("poller", i, "fail") /\ relocs' = relocs \ {i} /\ timedOut' = timedOut \cup {i}
        BY <1>8, <2>3 DEF PollTimeout
      <3> QED BY <1>1, <1>2, <2>1, <3>1, <3>2, WatcherAlone
    <2> QED BY <2>2, <2>3
  <1> QED BY <1>3, <1>4, <1>5, <1>6, <1>7, <1>8 DEF Watch

\* The adopt job goes on while its row runs.
LEMMA AdoptWorks ==
    ASSUME IInv, WInv, NEW i \in Ids, Adopt(i)
    PROVE  WInv'
PROOF
  <1>1. MigrationOK(i) /\ work \in WorkType /\ "adopt" \in Kinds
    BY DEF WInv, IInv, TypeOK, WorkType, Kinds
  <1>2. PICK s \in {"create", "verify", "fail"} \cup AdoptMoved : Goto("adopt", i, s)
    BY DEF Adopt, AdoptMove, AdoptCreate, AdoptVerify, AdoptProtect, AdoptForget, AdoptMoved
  <1>3. ~At("adopt", i, "idle")
    BY DEF Adopt, AdoptMove, AdoptCreate, AdoptVerify, AdoptProtect, AdoptForget, At
  <1>4. UNCHANGED <<rows, latest, task, relocs, verdict, timedOut>>
    BY DEF Adopt, AdoptMove, AdoptCreate, AdoptVerify, AdoptProtect, AdoptForget, AdoptFrame,
           db, requests, bounds
  <1>5. \A k \in Kinds, j \in Ids :
          work'[k][j] = IF k = "adopt" /\ j = i THEN s ELSE work[k][j]
    BY <1>1, <1>2, GotoSteps
  <1>6. Running(i) /\ rows[i].mode = "adopt"
    BY <1>1, <1>3 DEF MigrationOK, AdoptOK
  <1>7. Only(i)
    BY <1>4, <1>5 DEF Only, Untouched
  <1> USE DEF At, Running, PendingRow, Kinds
  <1>8. StepsOK(i)' /\ AdoptOK(i)'
    BY <1>1, <1>2, <1>4, <1>5, <1>6 DEF MigrationOK, StepsOK, AdoptOK
  <1>9. RowOK(i)'
    BY <1>1, <1>4, <1>6 DEF MigrationOK, RowOK
  <1>10. RequestOK(i)' /\ WatchOK(i)'
    <2>1. At("request", i, "idle")
      BY <1>1, <1>3 DEF MigrationOK, RequestOK
    <2> QED BY <1>1, <1>4, <1>5, <2>1 DEF MigrationOK, RequestOK, WatchOK, NoneOf, Watchers
  <1> QED BY <1>4, <1>7, <1>8, <1>9, <1>10, OneStep DEF MigrationOK

\* What a step that changes at most the status of row i, and what it kept, leaves alone.
RowKept(j) == /\ rows'[j].mode = rows[j].mode /\ rows'[j].src = rows[j].src
              /\ rows'[j].tgt = rows[j].tgt /\ rows'[j].upid = rows[j].upid
FieldsKept(i) == \A j \in Ids : RowKept(j) /\ (j # i => rows'[j].status = rows[j].status)

\* What success, and a lock that stays busy, write.
LEMMA SucceedFields ==
    ASSUME rows \in [Ids -> Rows], NEW i \in Ids, NEW from, NEW kept, Succeed(i, from, kept)
    PROVE  /\ FieldsKept(i)
           /\ rows'[i].status = IF rows[i].status = from THEN "ok" ELSE rows[i].status
           /\ refs' = IF rows[i].status = from THEN Repoint(i) ELSE refs
PROOF
  BY DEF Succeed, FieldsKept, RowKept, Rows

LEMMA ReviewFields ==
    ASSUME rows \in [Ids -> Rows], NEW i \in Ids, NEW kept,
           rows' = IF Running(i)
                   THEN [rows EXCEPT ![i].status = "needs_review", ![i].kept = kept] ELSE rows
    PROVE  /\ FieldsKept(i)
           /\ rows'[i].status = IF Running(i) THEN "needs_review" ELSE rows[i].status
PROOF
  BY DEF FieldsKept, RowKept, Rows, Running

\* A worker that has its outcome: the request, a watcher or the adopt job.
LEMMA OutcomeWorker ==
    ASSUME NEW i \in Ids, MigrationOK(i), NEW k \in Kinds,
           work[k][i] \in {"succeed", "succeedKept", "fail"}
    PROVE  /\ rows[i].status # "none"
           /\ \/ k = "request" /\ Running(i) /\ ~rows[i].upid /\ task[i] = "none"
                 /\ At("adopt", i, "idle") /\ At("poller", i, "idle")
              \/ k \in Watchers /\ rows[i].upid /\ rows[i].mode = "copy" /\ task[i] # "none"
                 /\ work["request"][i] \in {"idle", "spawn"} /\ At("adopt", i, "idle")
              \/ k = "adopt" /\ Running(i) /\ rows[i].mode = "adopt" /\ ~rows[i].upid
                 /\ task[i] = "none" /\ At("request", i, "idle")
           /\ (k \in Watchers /\ At(k, i, "succeed") => task[i] = "ok")
           /\ (k \in Watchers /\ At(k, i, "fail") => task[i] = "failed" \/ i \in timedOut)
PROOF
  <1> USE DEF At, Running
  <1>1. k \in {"request", "adopt"} \cup Watchers
    BY DEF Kinds, Watchers
  <1>2. rows[i].status # "none"
    BY DEF MigrationOK, RowOK, NoneOf
  <1>3. CASE k = "request"
    <2>1. work["request"][i] = "fail"
      BY <1>3 DEF MigrationOK, StepsOK
    <2> QED BY <1>2, <1>3, <2>1 DEF MigrationOK, RequestOK, Watchers
  <1>4. CASE k = "adopt"
    <2>1. Running(i) /\ rows[i].mode = "adopt"
      BY <1>4 DEF MigrationOK, AdoptOK
    <2>2. At("request", i, "idle")
      BY <1>4 DEF MigrationOK, RequestOK
    <2>3. ~rows[i].upid /\ task[i] = "none"
      BY <2>1 DEF MigrationOK, RowOK
    <2> QED BY <1>2, <1>4, <2>1, <2>2, <2>3 DEF Watchers
  <1>5. CASE k \in Watchers
    <2>1. rows[i].upid
      BY <1>5 DEF MigrationOK, WatchOK, NoneOf
    <2>2. rows[i].mode = "copy" /\ task[i] # "none"
      BY <2>1 DEF MigrationOK, RowOK
    <2>3. work["request"][i] \in {"idle", "spawn"}
      BY <2>1 DEF MigrationOK, RequestOK, StepsOK
    <2>4. At("adopt", i, "idle")
      BY <2>2 DEF MigrationOK, AdoptOK
    <2>5. At(k, i, "succeed") => task[i] = "ok"
      BY <1>5 DEF MigrationOK, WatchOK
    <2>6. At(k, i, "fail") => task[i] = "failed" \/ i \in timedOut
      BY <1>5 DEF MigrationOK, WatchOK, StepsOK, Watchers
    <2> QED BY <1>2, <1>5, <2>1, <2>2, <2>3, <2>4, <2>5, <2>6
  <1> QED BY <1>1, <1>3, <1>4, <1>5

\* A worker settles its row and ends.
LEMMA SettleWorks ==
    ASSUME IInv, WInv, NEW i \in Ids, NEW k \in Kinds,
           work[k][i] \in {"succeed", "succeedKept", "fail"}, Done(k, i), FieldsKept(i),
           rows'[i].status # rows[i].status =>
              Running(i) /\ rows'[i].status \in {"ok", "error", "needs_review"},
           rows'[i].status \in {"ok", "error"} /\ Running(i) /\ task[i] = "running"
              => i \in timedOut,
           UNCHANGED <<latest, task, verdict, timedOut>>
    PROVE  WInv'
PROOF
  <1>1. MigrationOK(i) /\ work \in WorkType
    BY DEF WInv, IInv, TypeOK, WorkType
  <1>2. \A k2 \in Kinds, j \in Ids :
          work'[k2][j] = IF k2 = k /\ j = i THEN "idle" ELSE work[k2][j]
    BY <1>1, GotoSteps DEF Done
  <1>3. relocs' \subseteq relocs
    BY DEF Done
  <1>4. /\ rows[i].status # "none"
        /\ \/ k = "request" /\ Running(i) /\ ~rows[i].upid /\ task[i] = "none"
              /\ At("adopt", i, "idle") /\ At("poller", i, "idle")
           \/ k \in Watchers /\ rows[i].upid /\ rows[i].mode = "copy" /\ task[i] # "none"
              /\ work["request"][i] \in {"idle", "spawn"} /\ At("adopt", i, "idle")
           \/ k = "adopt" /\ Running(i) /\ rows[i].mode = "adopt" /\ ~rows[i].upid
              /\ task[i] = "none" /\ At("request", i, "idle")
    BY <1>1, OutcomeWorker
  <1>5. Only(i)
    BY <1>2, <1>3 DEF Only, Untouched, FieldsKept, RowKept
  <1> USE DEF At, Running, PendingRow, PendingStatus
  <1>6. StepsOK(i)'
    BY <1>1, <1>2 DEF MigrationOK, StepsOK, Kinds
  <1>7. RowOK(i)'
    BY <1>1, <1>3, <1>4 DEF MigrationOK, RowOK, FieldsKept, RowKept
  <1>8. RequestOK(i)'
    BY <1>1, <1>2, <1>4 DEF MigrationOK, RequestOK, FieldsKept, RowKept, Kinds, Watchers
  <1>9. WatchOK(i)'
    BY <1>1, <1>2, <1>3 DEF MigrationOK, WatchOK, NoneOf, FieldsKept, RowKept, Kinds, Watchers
  <1>10. AdoptOK(i)'
    BY <1>1, <1>2, <1>4 DEF MigrationOK, AdoptOK, FieldsKept, RowKept, Kinds
  <1>11. rows'[i].status # "none"
    BY <1>4
  <1> QED BY <1>4, <1>5, <1>6, <1>7, <1>8, <1>9, <1>10, OneStep DEF MigrationOK

LEMMA FinalizeWorks ==
    ASSUME IInv, WInv, NEW i \in Ids, NEW k \in Kinds, Finalize(k, i)
    PROVE  WInv'
PROOF
  <1>1. rows \in [Ids -> Rows] /\ MigrationOK(i)
    BY DEF IInv, TypeOK, WInv
  <1>2. CASE FinalizeSuccess(k, i)
    <2>1. /\ work[k][i] \in {"succeed", "succeedKept"} /\ Done(k, i)
          /\ UNCHANGED <<latest, task, verdict, timedOut>>
      BY <1>2 DEF FinalizeSuccess, pve, requests, bounds
    <2>2. task[i] # "running"
      BY <1>1, <2>1, OutcomeWorker DEF At, MigrationOK, StepsOK, Watchers
    <2>3. FieldsKept(i) /\ (rows'[i].status # rows[i].status =>
             Running(i) /\ rows'[i].status \in {"ok", "needs_review"})
      BY <1>1, <1>2, SucceedFields, ReviewFields DEF FinalizeSuccess, Running
    <2> QED BY <2>1, <2>2, <2>3, SettleWorks
  <1>3. CASE FinalizeFailure(k, i)
    <2>1. /\ At(k, i, "fail") /\ Done(k, i) /\ SetIfRunning(i, "error")
          /\ UNCHANGED <<latest, task, verdict, timedOut>>
      BY <1>3 DEF FinalizeFailure, pve, requests, bounds
    <2>2. task[i] = "running" => i \in timedOut
      BY <1>1, <2>1, OutcomeWorker DEF At
    <2>3. FieldsKept(i) /\ (rows'[i].status # rows[i].status =>
             Running(i) /\ rows'[i].status = "error")
      BY <1>1, <2>1, IfRunningFields DEF FieldsKept, RowKept
    <2> QED BY <2>1, <2>2, <2>3, SettleWorks DEF At
  <1> QED BY <1>2, <1>3 DEF Finalize

\* A row that does not run changes its status, and no worker notices.
LEMMA StatusOK ==
    ASSUME IInv, NEW i \in Ids, MigrationOK(i), RowKept(i),
           rows'[i].status # rows[i].status =>
              rows[i].status # "none" /\ ~Running(i) /\ rows'[i].status \in {"ok", "error", "removed"},
           rows[i].status = "needs_review" /\ task[i] = "running"
              => rows'[i].status = rows[i].status,
           UNCHANGED <<task, work, relocs, timedOut>>
    PROVE  MigrationOK(i)'
PROOF
  <1> USE DEF At, Running, PendingRow, PendingStatus, RowKept
  <1>1. StepsOK(i)'
    BY DEF MigrationOK, StepsOK
  <1>2. RowOK(i)'
    BY DEF MigrationOK, RowOK, NoneOf
  <1>3. RequestOK(i)'
    BY DEF MigrationOK, RequestOK
  <1>4. WatchOK(i)'
    BY DEF MigrationOK, WatchOK, NoneOf
  <1>5. AdoptOK(i)'
    BY DEF MigrationOK, AdoptOK
  <1> QED BY <1>1, <1>2, <1>3, <1>4, <1>5 DEF MigrationOK

\* What an operator may do to a row.
LEMMA OperateFields ==
    ASSUME IInv, WInv, NEW i \in Ids, Operate(i)
    PROVE  /\ FieldsKept(i) /\ UNCHANGED <<task, home, latest, work, relocs, timedOut>>
           /\ UNCHANGED <<policy, deleter>> /\ conf' \subseteq conf
           /\ verdict' \in {verdict, 0} \/ (verdict' = i /\ task[i] = "failed")
           /\ \/ rows'[i].status = rows[i].status /\ UNCHANGED refs
              \/ /\ rows[i].status = "needs_review" /\ rows'[i].status = "ok"
                 /\ IF rows[i].upid THEN task[i] = "ok"
                                    ELSE task[i] # "running" /\ home = rows[i].tgt
                 /\ refs' = Repoint(i)
              \/ /\ rows[i].status = "needs_review" /\ rows'[i].status = "error"
                 /\ UNCHANGED refs
                 /\ \/ task[i] = "failed"
                    \/ ~rows[i].upid /\ task[i] # "running" /\ home # rows[i].tgt
              \/ rows[i].status \in {"ok", "error"} /\ rows'[i].status = "removed" /\ UNCHANGED refs
PROOF
  <1>1. rows \in [Ids -> Rows]
    BY DEF IInv, TypeOK
  <1>2. /\ UNCHANGED operatorFrame => UNCHANGED <<latest, work, relocs, timedOut, policy, deleter>>
        /\ UNCHANGED pve => UNCHANGED <<task, home, conf>>
    BY DEF operatorFrame, pve, bounds
  <1>3. CASE ReconcileRead(i)
    BY <1>2, <1>3 DEF ReconcileRead, FieldsKept, RowKept
  <1>4. CASE ReconcileWrite(i)
    <2>1. task[i] = "failed"
      BY <1>4 DEF ReconcileWrite, WInv, VerdictOK
    <2>2. CASE rows[i].status = "needs_review"
      BY <1>1, <1>2, <1>4, <2>1, <2>2, StatusFields DEF ReconcileWrite, FieldsKept, RowKept
    <2>3. CASE rows[i].status # "needs_review"
      BY <1>2, <1>4, <2>3 DEF ReconcileWrite, FieldsKept, RowKept
    <2> QED BY <2>2, <2>3
  <1>5. CASE ResolveSucceeded(i)
    BY <1>1, <1>2, <1>5, SucceedFields DEF ResolveSucceeded
  <1>6. CASE ResolveFailed(i)
    <2>1. FieldsKept(i) /\ rows'[i].status = "error"
      BY <1>1, <1>6, StatusFields DEF ResolveFailed, FieldsKept, RowKept
    <2>2. task[i] = "failed" \/ (~rows[i].upid /\ task[i] # "running" /\ home # rows[i].tgt)
      BY <1>6 DEF ResolveFailed
    <2> QED BY <1>2, <1>6, <2>1, <2>2 DEF ResolveFailed
  <1>7. CASE RemoveTracking(i)
    BY <1>1, <1>2, <1>7, StatusFields DEF RemoveTracking, FieldsKept, RowKept
  <1>8. CASE CleanupSource(i)
    <2>1. FieldsKept(i) /\ rows'[i].status = rows[i].status
      BY <1>1, <1>8 DEF CleanupSource, FieldsKept, RowKept, Rows
    <2> QED BY <1>2, <1>8, <2>1 DEF CleanupSource, Configs
  <1> QED BY <1>3, <1>4, <1>5, <1>6, <1>7, <1>8 DEF Operate

LEMMA OperateWorks ==
    ASSUME IInv, WInv, NEW i \in Ids, Operate(i)
    PROVE  WInv'
PROOF
  <1>1. /\ FieldsKept(i) /\ UNCHANGED <<task, latest, work, relocs, timedOut>>
        /\ verdict' \in {verdict, 0} \/ (verdict' = i /\ task[i] = "failed")
    BY OperateFields
  <1>2. MigrationOK(i)
    BY DEF WInv
  <1>3. /\ rows'[i].status # rows[i].status =>
              rows[i].status # "none" /\ ~Running(i) /\ rows'[i].status \in {"ok", "error", "removed"}
        /\ rows[i].status = "needs_review" /\ task[i] = "running"
              => rows'[i].status = rows[i].status
    BY <1>2, OperateFields DEF Running
  <1>4. MigrationOK(i)'
    BY <1>1, <1>2, <1>3, StatusOK DEF FieldsKept, RowKept
  <1>5. Only(i)
    BY <1>1 DEF Only, Untouched, FieldsKept, RowKept
  <1> QED BY <1>1, <1>3, <1>4, <1>5, OneStep

\* Policy writes and deletions touch settled rows only.
LEMMA HolderWorks ==
    ASSUME IInv, WInv, Policy \/ Delete
    PROVE  WInv'
PROOF
  <1>1. UNCHANGED <<latest, task, work, relocs, verdict, timedOut>>
    BY DEF Policy, PolicyCheck, PolicyCommit, PolicyLock, Delete, DeleteCheck, DeleteGuest,
           DeleteRows, DeleteLock, policyFrame, db, pve, bounds
  <1>2. \A j \in Ids : /\ RowKept(j)
                       /\ \/ rows'[j].status = rows[j].status
                          \/ rows[j].status \in {"ok", "error"} /\ rows'[j].status = "removed"
    <2>1. CASE rows' = rows
      BY <2>1 DEF RowKept
    <2>2. CASE DeleteRows
      <3>1. \A j \in Ids : rows'[j] = IF rows[j].status \in {"ok", "error"}
                              THEN [rows[j] EXCEPT !.status = "removed"] ELSE rows[j]
        BY <2>2 DEF DeleteRows
      <3>2. rows \in [Ids -> Rows]
        BY DEF IInv, TypeOK
      <3>3. \A r \in Rows : /\ [r EXCEPT !.status = "removed"].status = "removed"
                            /\ [r EXCEPT !.status = "removed"].mode = r.mode
                            /\ [r EXCEPT !.status = "removed"].src = r.src
                            /\ [r EXCEPT !.status = "removed"].tgt = r.tgt
                            /\ [r EXCEPT !.status = "removed"].upid = r.upid
        BY DEF Rows
      <3>4. ASSUME NEW j \in Ids
            PROVE  /\ RowKept(j)
                   /\ \/ rows'[j].status = rows[j].status
                      \/ rows[j].status \in {"ok", "error"} /\ rows'[j].status = "removed"
        <4>1. CASE rows[j].status \in {"ok", "error"}
          <5> DEFINE r == [rows[j] EXCEPT !.status = "removed"]
          <5>1. rows'[j] = r
            BY <3>1, <4>1
          <5>2. /\ r.status = "removed" /\ r.mode = rows[j].mode /\ r.src = rows[j].src
                /\ r.tgt = rows[j].tgt /\ r.upid = rows[j].upid
            BY <3>2, <3>3
          <5> HIDE DEF r
          <5> QED BY <4>1, <5>1, <5>2 DEF RowKept
        <4>2. CASE rows[j].status \notin {"ok", "error"}
          BY <3>1, <4>2 DEF RowKept
        <4> QED BY <4>1, <4>2
      <3> QED BY <3>4
    <2> QED BY <2>1, <2>2 DEF Policy, PolicyCheck, PolicyCommit, PolicyLock, Delete, DeleteCheck,
              DeleteGuest, DeleteLock, policyFrame, db
  <1>3. ASSUME NEW j \in Ids
        PROVE  MigrationOK(j)'
    BY <1>1, <1>2, StatusOK DEF WInv, Running
  <1>4. FutureOK' /\ VerdictOK'
    BY <1>1, <1>2 DEF WInv, FutureOK, VerdictOK
  <1> QED BY <1>3, <1>4 DEF WInv

\* A task ends; a leftover is removed by hand.
LEMMA OutsideWorks ==
    ASSUME IInv, WInv, \/ \E i \in Ids : TaskSucceeds(i) \/ TaskFails(i)
                       \/ \E n \in Nodes : RemoveByHand(n)
    PROVE  WInv'
PROOF
  <1>1. UNCHANGED <<rows, latest, work, relocs, verdict, timedOut>>
    BY DEF TaskSucceeds, TaskFails, RemoveByHand, db, requests, bounds
  <1>2. ASSUME NEW i \in Ids, NEW t \in {"ok", "failed"}, task[i] = "running",
               task' = [task EXCEPT ![i] = t]
        PROVE  WInv'
    <2>1. task'[i] = t /\ (\A j \in Ids \ {i} : task'[j] = task[j]) /\ MigrationOK(i)
      BY <1>2 DEF IInv, TypeOK, WInv
    <2>2. Only(i)
      BY <1>1, <2>1 DEF Only, Untouched
    <2> USE DEF At, Running, PendingRow
    <2>3. StepsOK(i)' /\ AdoptOK(i)'
      BY <1>1, <2>1 DEF MigrationOK, StepsOK, AdoptOK
    <2>4. RowOK(i)'
      BY <1>1, <1>2, <2>1 DEF MigrationOK, RowOK
    <2>5. RequestOK(i)'
      BY <1>1, <1>2, <2>1 DEF MigrationOK, RequestOK
    <2>6. WatchOK(i)'
      BY <1>1, <1>2, <2>1 DEF MigrationOK, WatchOK, NoneOf
    <2> QED BY <1>1, <1>2, <2>2, <2>3, <2>4, <2>5, <2>6, OneStep DEF MigrationOK
  <1>3. CASE UNCHANGED task
    <2>1. \A j \in Ids : Untouched(j)
      BY <1>1, <1>3 DEF Untouched
    <2>2. \A j \in Ids : MigrationOK(j)'
      BY <1>1, <2>1, UntouchedOK DEF WInv
    <2> QED BY <1>1, <1>3, <2>2 DEF WInv, FutureOK, VerdictOK
  <1> QED BY <1>2, <1>3 DEF TaskSucceeds, TaskFails, RemoveByHand

\* A restart leaves rows and tasks, and no worker.
LEMMA RestartWorks ==
    ASSUME IInv, WInv, Restart
    PROVE  WInv'
PROOF
  <1>1. UNCHANGED <<latest, task, timedOut>> /\ verdict' = 0
    BY DEF Restart, pve
  <1>2. \A j \in Ids : /\ RowKept(j)
                       /\ rows'[j].status = IF Running(j) THEN "needs_review" ELSE rows[j].status
    <2>1. \A r \in Rows : /\ Interrupted(r).status = IF r.status = "running" THEN "needs_review"
                                                     ELSE r.status
                          /\ Interrupted(r).mode = r.mode /\ Interrupted(r).src = r.src
                          /\ Interrupted(r).tgt = r.tgt /\ Interrupted(r).upid = r.upid
      BY DEF Interrupted, Rows
    <2>2. rows \in [Ids -> Rows] /\ rows' = [j \in Ids |-> Interrupted(rows[j])]
      BY DEF Restart, IInv, TypeOK
    <2> QED BY <2>1, <2>2 DEF RowKept, Running
  <1>3. \A k \in Kinds, j \in Ids : work'[k][j] = "idle"
    BY DEF Restart, AllIdle
  <1>4. ASSUME NEW j \in Ids
        PROVE  MigrationOK(j)'
    <2> USE DEF At, Running, PendingRow, PendingStatus
    <2>1. StepsOK(j)' /\ RequestOK(j)' /\ WatchOK(j)' /\ AdoptOK(j)'
      BY <1>3 DEF StepsOK, RequestOK, WatchOK, AdoptOK, NoneOf, Watchers, Kinds
    <2>2. RowOK(j)'
      BY <1>1, <1>2, <1>3 DEF WInv, MigrationOK, RowOK, RowKept, NoneOf
    <2> QED BY <2>1, <2>2 DEF MigrationOK
  <1>5. FutureOK' /\ VerdictOK'
    BY <1>1, <1>2 DEF WInv, FutureOK, VerdictOK, Running, Ids
  <1> QED BY <1>4, <1>5 DEF WInv

LEMMA InitiallyWorks == Init => WInv
PROOF
  <1> SUFFICES ASSUME Init PROVE WInv
    OBVIOUS
  <1>1. \A k \in Kinds, j \in Ids : work[k][j] = "idle"
    BY DEF Init, AllIdle
  <1>2. \A j \in Ids : rows[j].status = "none" /\ rows[j].mode = "copy" /\ rows[j].upid = FALSE
                       /\ task[j] = "none"
    BY DEF Init
  <1>3. ASSUME NEW j \in Ids
        PROVE  MigrationOK(j)
    <2> USE DEF At, Running
    <2>1. StepsOK(j) /\ RequestOK(j) /\ WatchOK(j) /\ AdoptOK(j)
      BY <1>1 DEF StepsOK, RequestOK, WatchOK, AdoptOK, NoneOf, Watchers, Kinds
    <2>2. RowOK(j)
      BY <1>1, <1>2 DEF RowOK, NoneOf
    <2> QED BY <2>1, <2>2 DEF MigrationOK
  <1>4. FutureOK /\ VerdictOK
    BY <1>2 DEF Init, FutureOK, VerdictOK, Ids
  <1> QED BY <1>3, <1>4 DEF WInv

LEMMA NextWorks ==
    ASSUME IInv, WInv, [Next]_vars
    PROVE  WInv'
PROOF
  <1>1. CASE UNCHANGED vars
    <2>1. UNCHANGED <<rows, latest, task, work, relocs, verdict, timedOut>>
      BY <1>1 DEF vars, db, pve, requests, bounds
    <2>2. \A j \in Ids : Untouched(j)
      BY <2>1 DEF Untouched
    <2>3. \A j \in Ids : MigrationOK(j)'
      BY <2>1, <2>2, UntouchedOK DEF WInv
    <2> QED BY <2>1, <2>3 DEF WInv, FutureOK, VerdictOK
  <1>2. CASE Next
    BY <1>2, ClaimWorks, StartWorks, WatchWorks, AdoptWorks, FinalizeWorks, OperateWorks,
       HolderWorks, OutsideWorks, RestartWorks DEF Next
  <1> QED BY <1>1, <1>2

\* What workers rely on holds in every reachable state.
LEMMA Works == Spec => [](IInv /\ WInv)
PROOF
  <1>1. Init => WInv
    BY InitiallyWorks
  <1>2. IInv /\ WInv /\ [Next]_vars => WInv'
    BY NextWorks
  <1> QED BY <1>1, <1>2, Invariance, PTL DEF Spec

\* Only a worker with a failure records one of a row that runs.
LEMMA FailureIsOwned ==
    ASSUME IInv, WInv, [Next]_vars, NEW i \in Ids, Running(i), rows'[i].status = "error"
    PROVE  ~At("relocator", i, "relocate")
PROOF
  <1>1. rows \in [Ids -> Rows] /\ MigrationOK(i) /\ rows'[i].status # rows[i].status
    BY DEF IInv, TypeOK, WInv, Running
  <1>2. CASE \E k \in Kinds : FinalizeFailure(k, i)
    <2>1. PICK k \in Kinds : At(k, i, "fail")
      BY <1>2 DEF FinalizeFailure
    <2>2. \/ k \in {"request", "adopt"} /\ ~rows[i].upid
          \/ k \in Watchers
      BY <1>1, <2>1, OutcomeWorker DEF At
    <2>3. CASE k \in {"request", "adopt"}
      <3>1. "relocator" \in Watchers /\ k \notin Watchers
        BY <2>3 DEF Watchers
      <3> QED BY <1>1, <2>2, <3>1 DEF MigrationOK, WatchOK, NoneOf, At
    <2>4. CASE k \in Watchers
      BY <1>1, <2>1, <2>4 DEF MigrationOK, WatchOK, StepsOK, Watchers, At
    <2> QED BY <2>2, <2>3, <2>4
  <1>3. CASE UNCHANGED rows
    BY <1>1, <1>3
  <1>4. ASSUME NEW mode \in {"copy", "adopt"}, NEW src \in Nodes, NEW tgt \in Nodes,
               Claim(mode, src, tgt)
        PROVE  FALSE
    BY <1>1, <1>4 DEF Claim, Running
  <1>5. ASSUME NEW j \in Ids, Start(j) PROVE FALSE
    <2>1. CASE Submit(j) \/ SaveUpid(j)
      <3>1. \/ SetIfRunning(j, "needs_review") \/ UNCHANGED rows
            \/ rows' = [rows EXCEPT ![j].upid = (rows[j].mode = "copy")]
        BY <2>1 DEF Submit, SaveUpid
      <3>2. SetIfRunning(j, "needs_review") => rows'[i].status \in {rows[i].status, "needs_review"}
        BY <1>1, IfRunningFields
      <3>3. rows' = [rows EXCEPT ![j].upid = (rows[j].mode = "copy")]
              => rows'[i].status = rows[i].status
        BY <1>1 DEF Rows
      <3> QED BY <1>1, <3>1, <3>2, <3>3
    <2>2. CASE Recheck(j) \/ Spawn(j)
      BY <1>1, <2>2 DEF Recheck, Spawn, db
    <2> QED BY <1>5, <2>1, <2>2 DEF Start
  <1>6. ASSUME NEW j \in Ids, Watch(j) \/ PollTimeout(j) \/ RefreshRow(j) \/ Adopt(j)
        PROVE  FALSE
    BY <1>1, <1>6 DEF Watch, PollRow, PollTask, RefreshTask, Relocate, PollTimeout, RefreshRow,
       Adopt, AdoptMove, AdoptCreate, AdoptVerify, AdoptProtect, AdoptForget, AdoptFrame, db
  <1>7. ASSUME NEW j \in Ids, NEW k \in Kinds, FinalizeSuccess(k, j) PROVE FALSE
    <2>1. rows'[i].status \in {rows[i].status, "ok", "needs_review"}
      BY <1>1, <1>7, SucceedFields, ReviewFields DEF FinalizeSuccess, FieldsKept
    <2> QED BY <1>1, <2>1
  <1>8. ASSUME NEW j \in Ids \ {i}, NEW k \in Kinds, FinalizeFailure(k, j) PROVE FALSE
    BY <1>1, <1>8, IfRunningFields DEF FinalizeFailure
  <1>9. ASSUME NEW j \in Ids, Operate(j) PROVE FALSE
    BY <1>1, <1>9, OperateFields DEF FieldsKept, Running
  <1>10. ASSUME DeleteRows PROVE FALSE
    BY <1>1, <1>10 DEF DeleteRows, Running
  <1>11. CASE Next
    <2>1. \/ \E mode \in {"copy", "adopt"}, src, tgt \in Nodes : Claim(mode, src, tgt)
          \/ \E j \in Ids : \/ Start(j) \/ Watch(j) \/ PollTimeout(j) \/ RefreshRow(j) \/ Adopt(j)
                            \/ Operate(j)
                            \/ \E k \in Kinds : FinalizeSuccess(k, j) \/ FinalizeFailure(k, j)
          \/ DeleteRows \/ Restart \/ UNCHANGED rows
      BY <1>11 DEF Next, Policy, PolicyCheck, PolicyCommit, PolicyLock, Delete, DeleteCheck,
         DeleteGuest, DeleteLock, TaskSucceeds, TaskFails, RemoveByHand, Finalize, policyFrame, db
    <2>2. Restart => rows'[i].status = "needs_review"
      BY <1>1 DEF Restart, Interrupted, Rows, Running
    <2> QED BY <1>2, <1>3, <1>4, <1>5, <1>6, <1>7, <1>8, <1>9, <1>10, <2>1, <2>2
  <1> QED BY <1>3, <1>11 DEF vars, db

\* migrate.ts:738: a migration whose disks are being moved is not recorded as failed.
THEOREM RelocationIsRespected == Spec => RelocationOwnsOutcome
PROOF
  <1>1. IInv /\ WInv /\ [Next]_vars =>
           [\A i \in Ids : Running(i) /\ rows'[i].status = "error"
                => ~At("relocator", i, "relocate")]_vars
    BY FailureIsOwned
  <1> QED BY <1>1, Works, PTL DEF Spec, RelocationOwnsOutcome

-----------------------------------------------------------------------------
(* Where the VM lives, and where its policy rows say it does.              *)

HomeOK(i) ==
    /\ home \in {rows[i].src, rows[i].tgt}
    /\ rows[i].mode = "copy" => home = IF task[i] = "ok" THEN rows[i].tgt ELSE rows[i].src
    /\ work["adopt"][i] \in AdoptMoved => home = rows[i].tgt
    /\ (\/ work["adopt"][i] \in {"move", "create", "verify", "fail"}
        \/ ~At("request", i, "idle") /\ rows[i].mode = "adopt") => home = rows[i].src

\* A migration from a node the VM has left has nothing to move.
Stale(i) ==
    /\ home # rows[i].src /\ rows[i].src \notin conf /\ task[i] # "ok"
    /\ work["adopt"][i] \in {"idle", "move", "fail"}

\* An open migration has the rows on its source; without one, or with one that has nothing
\* to move, they are where the VM is.
PlacesOK ==
    timedOut = {} =>
       /\ ~Pending => refs \in {home, Gone}
       /\ \A i \in Ids : PendingRow(i) => \/ refs \in {rows[i].src, Gone} /\ HomeOK(i)
                                          \/ refs \in {home, Gone} /\ Stale(i)

\* A step that settles no row and moves neither the VM nor its policy rows.
LEMMA PlacesFrame ==
    ASSUME PlacesOK, timedOut \subseteq timedOut', UNCHANGED <<refs, home>>,
           \A j \in Ids : /\ rows'[j].src = rows[j].src
                          /\ PendingRow(j)' <=> PendingRow(j)
                          /\ PendingRow(j) /\ HomeOK(j) => HomeOK(j)'
                          /\ PendingRow(j) /\ Stale(j) => Stale(j)'
    PROVE  PlacesOK'
PROOF
  BY DEF PlacesOK, Pending, PendingRow

\* The VM and the rows follow a migration that is settled.
LEMMA PlacesSettled ==
    ASSUME IInv, PlacesOK, timedOut \subseteq timedOut', UNCHANGED home, NEW i \in Ids,
           PendingRow(i), FieldsKept(i), ~PendingRow(i)',
           timedOut = {} /\ HomeOK(i) =>
              \/ home = rows[i].src /\ UNCHANGED refs
              \/ home = rows[i].tgt /\ rows[i].src # rows[i].tgt /\ refs' = Repoint(i),
           timedOut = {} /\ Stale(i) => refs' \in {refs, Repoint(i)}
    PROVE  PlacesOK'
PROOF
  <1>1. \A j \in Ids : PendingRow(j) => j = i
    BY DEF IInv, OneMigration, PendingRow
  <1>2. ~Pending' /\ \A j \in Ids : ~PendingRow(j)'
    BY <1>1 DEF FieldsKept, Pending, PendingRow
  <1>3. timedOut = {} => \/ refs \in {rows[i].src, Gone} /\ HomeOK(i)
                         \/ refs \in {home, Gone} /\ Stale(i)
    BY DEF PlacesOK
  <1>4. Gone \notin Nodes /\ rows[i].src \in Nodes
    BY NodesAssumption DEF IInv, TypeOK, Rows
  <1>5. timedOut = {} => refs' \in {home, Gone}
    BY <1>3, <1>4 DEF Repoint, Stale
  <1> QED BY <1>2, <1>5 DEF PlacesOK

\* While nobody works on the home and the job of a row, it stays where it is.
LEMMA HomeFrame ==
    ASSUME NEW j \in Ids, RowKept(j), UNCHANGED home, task'[j] = task[j],
           conf' \subseteq conf,
           work'["adopt"][j] \in {work["adopt"][j], "idle"},
           work'["request"][j] \in {work["request"][j], "idle"}
    PROVE  (HomeOK(j) => HomeOK(j)') /\ (Stale(j) => Stale(j)')
PROOF
  BY DEF HomeOK, Stale, RowKept, At, AdoptMoved

LEMMA ClaimPlaces ==
    ASSUME IInv, WInv, PlacesOK, NEW mode \in {"copy", "adopt"}, NEW src \in Nodes, NEW tgt \in Nodes,
           Claim(mode, src, tgt)
    PROVE  PlacesOK'
PROOF
  <1>1. PICK i \in Ids : i = latest + 1
    BY DEF Claim
  <1>2. /\ ~Pending /\ UNCHANGED <<refs, home, conf, task, timedOut>>
        /\ src = home \/ src \notin conf
        /\ rows' = [rows EXCEPT ![i] = [status |-> "running", mode |-> mode, src |-> src,
                                        tgt |-> tgt, upid |-> FALSE, kept |-> FALSE]]
    BY <1>1 DEF Claim, Claimable, pve, bounds
  <1>3. rows \in [Ids -> Rows] /\ work \in WorkType /\ latest \in Nat
    BY DEF IInv, TypeOK, WorkType
  <1>4. task[i] = "none" /\ work["adopt"][i] = "idle"
    BY <1>1, <1>3 DEF WInv, FutureOK, MigrationOK, RowOK, NoneOf, At, Kinds
  <1>5. work'["adopt"][i] = "idle"
    BY <1>1, <1>3, <1>4 DEF Claim, Goto, WorkType
  <1>6. /\ rows'[i].mode = mode /\ rows'[i].src = src /\ rows'[i].tgt = tgt
        /\ rows'[i].status = "running"
    BY <1>2, <1>3
  <1>7. IF src = home THEN HomeOK(i)' ELSE Stale(i)'
    BY <1>2, <1>4, <1>5, <1>6 DEF HomeOK, Stale, AdoptMoved
  <1>8. \A j \in Ids : PendingRow(j)' => j = i
    BY <1>2, <1>3 DEF Pending, PendingRow
  <1>9. Pending'
    BY <1>6 DEF Pending, PendingStatus
  <1> QED BY <1>2, <1>6, <1>7, <1>8, <1>9 DEF PlacesOK

LEMMA StartPlaces ==
    ASSUME IInv, WInv, PlacesOK, NEW i \in Ids, Start(i)
    PROVE  PlacesOK'
PROOF
  <1>1. /\ rows \in [Ids -> Rows] /\ work \in WorkType /\ MigrationOK(i)
        /\ task \in [Ids -> {"none", "running", "ok", "failed"}]
        /\ "request" \in Kinds /\ "poller" \in Kinds /\ "adopt" \in Kinds
    BY DEF IInv, TypeOK, WorkType, WInv, Kinds
  <1>2. UNCHANGED <<refs, home, conf, timedOut>>
    BY DEF Start, Submit, Recheck, SaveUpid, Spawn, db, pve, bounds
  <1>3. \A j \in Ids : /\ rows'[j].mode = rows[j].mode /\ rows'[j].src = rows[j].src
                       /\ rows'[j].tgt = rows[j].tgt
                       /\ PendingRow(j)' <=> PendingRow(j)
    <2>1. CASE UNCHANGED rows
      BY <2>1 DEF PendingRow
    <2>2. CASE SetIfRunning(i, "needs_review")
      BY <1>1, <2>2, IfRunningFields DEF PendingRow, PendingStatus, Running
    <2>3. CASE rows' = [rows EXCEPT ![i].upid = (rows[i].mode = "copy")]
      BY <1>1, <2>3 DEF PendingRow, Rows
    <2> QED BY <2>1, <2>2, <2>3 DEF Start, Submit, Recheck, SaveUpid, Spawn, db
  <1>4. \A j \in Ids \ {i} : HomeOK(j) => HomeOK(j)'
    <2>1. \A j \in Ids \ {i} : task'[j] = task[j] /\ work'["adopt"][j] = work["adopt"][j]
                               /\ work'["request"][j] = work["request"][j]
      BY <1>1 DEF Start, Submit, Recheck, SaveUpid, Spawn, Goto, WorkType, pve
    <2> QED BY <1>2, <1>3, <2>1 DEF HomeOK, At
  <1>5. HomeOK(i) => HomeOK(i)'
    <2> SUFFICES ASSUME HomeOK(i) PROVE HomeOK(i)'
      OBVIOUS
    <2> USE DEF HomeOK, At, AdoptMoved
    <2>1. CASE Submit(i)
      <3>1. task[i] = "none" /\ rows[i].mode = "copy" /\ At("adopt", i, "idle")
        BY <1>1, <2>1 DEF Submit, MigrationOK, RequestOK
      <3>2. task'[i] # "ok" /\ work'["adopt"][i] = "idle"
        BY <1>1, <2>1, <3>1 DEF Submit, Goto, WorkType
      <3> QED BY <1>2, <1>3, <3>1, <3>2
    <2>2. CASE Recheck(i) \/ SaveUpid(i)
      <3>1. ~At("request", i, "idle") /\ UNCHANGED task
        BY <2>2 DEF Recheck, SaveUpid, pve
      <3>2. work'["adopt"][i] = work["adopt"][i]
        BY <1>1, <2>2 DEF Recheck, SaveUpid, Goto, WorkType
      <3> QED BY <1>2, <1>3, <3>1, <3>2
    <2>3. CASE Spawn(i)
      <3>1. At("request", i, "spawn") /\ UNCHANGED task /\ At("adopt", i, "idle")
        BY <1>1, <2>3 DEF Spawn, pve, MigrationOK, RequestOK
      <3>2. work'["adopt"][i] = IF rows[i].mode = "copy" THEN "idle" ELSE "move"
        BY <1>1, <2>3, <3>1 DEF Spawn, WorkType
      <3>3. work'["request"][i] = "idle" /\ rows[i].mode \in {"copy", "adopt"}
        BY <1>1, <2>3 DEF Spawn, WorkType, Rows
      <3> QED BY <1>2, <1>3, <3>1, <3>2, <3>3
    <2> QED BY <2>1, <2>2, <2>3 DEF Start
  <1>6. \A j \in Ids : Stale(j) => Stale(j)'
    <2>1. \A j \in Ids : task'[j] \in {task[j], "running"}
                         /\ work'["adopt"][j] \in {work["adopt"][j], "move"}
      BY <1>1 DEF Start, Submit, Recheck, SaveUpid, Spawn, Goto, WorkType, pve
    <2> QED BY <1>2, <1>3, <2>1 DEF Stale
  <1> QED BY <1>2, <1>3, <1>4, <1>5, <1>6, PlacesFrame

\* Watching a copy moves watchers only.
LEMMA WatchWorkers ==
    ASSUME IInv, NEW i \in Ids, Watch(i) \/ PollTimeout(i) \/ RefreshRow(i)
    PROVE  work'["adopt"] = work["adopt"] /\ work'["request"] = work["request"]
PROOF
  <1>1. \/ \E k \in Watchers, s \in Steps : Goto(k, i, s)
        \/ \E k \in Watchers, s \in Steps, t \in Steps :
              work' = [work EXCEPT ![k][i] = s, !["relocator"][i] = t]
    <2> USE DEF Watchers, Steps
    <2>1. ASSUME NEW k \in {"poller", "refresh"}, NEW ok \in BOOLEAN, Complete(k, i, ok)
          PROVE  \/ \E s \in Steps : Goto(k, i, s)
                 \/ \E s \in Steps, t \in Steps :
                       work' = [work EXCEPT ![k][i] = s, !["relocator"][i] = t]
      BY <2>1 DEF Complete, Goto
    <2>2. CASE PollTask(i) \/ RefreshTask(i)
      BY <2>1, <2>2 DEF PollTask, RefreshTask
    <2>3. CASE PollRow(i) \/ Relocate(i) \/ PollTimeout(i) \/ RefreshRow(i)
      BY <2>3 DEF PollRow, Relocate, PollTimeout, RefreshRow
    <2> QED BY <2>2, <2>3 DEF Watch
  <1>2. work \in WorkType /\ "adopt" \notin Watchers /\ "request" \notin Watchers
        /\ {"adopt", "request"} \subseteq Kinds
    BY DEF IInv, TypeOK, WorkType, Watchers, Kinds
  <1> QED BY <1>1, <1>2 DEF Goto, WorkType, Watchers

LEMMA WatchPlaces ==
    ASSUME IInv, WInv, PlacesOK, NEW i \in Ids, Watch(i) \/ PollTimeout(i) \/ RefreshRow(i)
    PROVE  PlacesOK'
PROOF
  <1>1. UNCHANGED <<rows, refs, home, conf, task>> /\ timedOut \subseteq timedOut'
    BY DEF Watch, PollRow, PollTask, RefreshTask, Relocate, PollTimeout, RefreshRow,
           db, pve, bounds
  <1>2. work'["adopt"] = work["adopt"] /\ work'["request"] = work["request"]
    BY WatchWorkers
  <1>3. \A j \in Ids : PendingRow(j)' <=> PendingRow(j)
    BY <1>1 DEF PendingRow
  <1>4. \A j \in Ids : (HomeOK(j) => HomeOK(j)') /\ (Stale(j) => Stale(j)')
    BY <1>1, <1>2 DEF HomeOK, Stale, At
  <1> QED BY <1>1, <1>3, <1>4, PlacesFrame

LEMMA AdoptPlaces ==
    ASSUME IInv, WInv, PlacesOK, NEW i \in Ids, Adopt(i)
    PROVE  PlacesOK'
PROOF
  <1>1. /\ rows \in [Ids -> Rows] /\ work \in WorkType /\ MigrationOK(i) /\ "adopt" \in Kinds
    BY DEF IInv, TypeOK, WorkType, WInv, Kinds
  <1>2. UNCHANGED <<rows, refs, task, timedOut>> /\ ~At("adopt", i, "idle")
    BY DEF Adopt, AdoptMove, AdoptCreate, AdoptVerify, AdoptProtect, AdoptForget, AdoptFrame,
           db, bounds, At
  <1>3. Running(i) /\ rows[i].mode = "adopt" /\ At("request", i, "idle")
    BY <1>1, <1>2 DEF MigrationOK, AdoptOK, RequestOK
  <1>4. PendingRow(i)' /\ \A j \in Ids : PendingRow(j) => j = i
    BY <1>2, <1>3 DEF IInv, OneMigration, PendingRow, PendingStatus, Running
  <1>5. ASSUME HomeOK(i) PROVE HomeOK(i)'
    <2>1. work'["request"][i] = "idle"
      BY <1>1, <1>3 DEF Adopt, AdoptMove, AdoptCreate, AdoptVerify, AdoptProtect, AdoptForget,
                   Goto, WorkType, Kinds, At
    <2>2. \/ /\ At("adopt", i, "verify") /\ home' = rows[i].tgt /\ work'["adopt"][i] = "protect"
          \/ /\ work["adopt"][i] \in {"move", "create", "verify"} /\ home' = home
             /\ work'["adopt"][i] \in {"create", "verify", "fail"}
          \/ /\ work["adopt"][i] \in AdoptMoved /\ home' = home
             /\ work'["adopt"][i] \in AdoptMoved
      BY <1>1 DEF Adopt, AdoptMove, AdoptCreate, AdoptVerify, AdoptProtect, AdoptForget,
                   Goto, WorkType, At, AdoptMoved
    <2> QED BY <1>2, <1>3, <1>5, <2>1, <2>2 DEF HomeOK, At, AdoptMoved
  <1>6. Pending'
    BY <1>4 DEF Pending, PendingRow
  <1>7. \A j \in Ids : PendingRow(j)' <=> PendingRow(j)
    BY <1>2 DEF PendingRow
  <1>8. \A j \in Ids : PendingRow(j) => j = i
    BY <1>4
  <1>9. ASSUME Stale(i) PROVE Stale(i)' /\ UNCHANGED home
    <2>1. /\ AdoptMove(i) /\ UNCHANGED <<home, conf>> /\ work'["adopt"][i] = "fail"
      BY <1>1, <1>2, <1>9 DEF Stale, Adopt, AdoptMove, AdoptCreate, AdoptVerify, AdoptProtect,
                   AdoptForget, Goto, WorkType, At
    <2> QED BY <1>2, <1>9, <2>1 DEF Stale
  <1> QED BY <1>2, <1>5, <1>6, <1>7, <1>8, <1>9 DEF PlacesOK

LEMMA FinalizePlaces ==
    ASSUME IInv, WInv, PlacesOK, NEW i \in Ids, NEW k \in Kinds, Finalize(k, i)
    PROVE  PlacesOK'
PROOF
  <1>1. /\ rows \in [Ids -> Rows] /\ work \in WorkType /\ MigrationOK(i)
        /\ work[k][i] \in {"succeed", "succeedKept", "fail"} /\ Done(k, i)
    BY DEF IInv, TypeOK, WorkType, WInv, Finalize, FinalizeSuccess, FinalizeFailure, At
  <1>2. UNCHANGED <<home, conf, task, timedOut>>
    BY DEF Finalize, FinalizeSuccess, FinalizeFailure, pve, bounds
  <1>3. \A j \in Ids : /\ work'["adopt"][j] \in {work["adopt"][j], "idle"}
                       /\ work'["request"][j] \in {work["request"][j], "idle"}
    BY <1>1, GotoSteps DEF Done, Kinds
  <1>4. /\ FieldsKept(i)
        /\ \/ rows'[i].status = rows[i].status /\ UNCHANGED refs
           \/ Running(i) /\ rows'[i].status = "needs_review" /\ UNCHANGED refs
           \/ Running(i) /\ rows'[i].status = "ok" /\ refs' = Repoint(i)
              /\ work[k][i] \in {"succeed", "succeedKept"}
           \/ Running(i) /\ rows'[i].status = "error" /\ At(k, i, "fail") /\ UNCHANGED refs
    <2>1. CASE FinalizeSuccess(k, i)
      BY <1>1, <2>1, SucceedFields, ReviewFields DEF FinalizeSuccess, Running
    <2>2. CASE FinalizeFailure(k, i)
      BY <1>1, <2>2, IfRunningFields DEF FinalizeFailure, FieldsKept, RowKept, Running
    <2> QED BY <2>1, <2>2 DEF Finalize
  <1>5. CASE PendingRow(i)' <=> PendingRow(i)
    <2>1. UNCHANGED refs
      BY <1>4, <1>5 DEF PendingRow, PendingStatus, Running
    <2>2. \A j \in Ids : (PendingRow(j)' <=> PendingRow(j)) /\ RowKept(j)
      BY <1>4, <1>5 DEF FieldsKept, PendingRow
    <2>3. \A j \in Ids : (HomeOK(j) => HomeOK(j)') /\ (Stale(j) => Stale(j)')
      BY <1>2, <1>3, <2>2, HomeFrame
    <2> QED BY <1>2, <2>1, <2>2, <2>3, PlacesFrame DEF RowKept
  <1>6. CASE ~(PendingRow(i)' <=> PendingRow(i))
    <2>1. PendingRow(i) /\ ~PendingRow(i)' /\ rows[i].src # rows[i].tgt /\ Running(i)
      BY <1>1, <1>4, <1>6 DEF PendingRow, PendingStatus, Running, MigrationOK, RowOK
    <2>2. HomeOK(i) /\ work[k][i] \in {"succeed", "succeedKept"} => home = rows[i].tgt
      <3>1. work[k][i] \in {"succeed", "succeedKept"} => k \in Watchers \/ k = "adopt"
        BY <1>1 DEF MigrationOK, StepsOK, Kinds, Watchers
      <3>2. k \in Watchers => rows[i].mode = "copy" /\ (At(k, i, "succeed") => task[i] = "ok")
        BY <1>1, OutcomeWorker DEF Watchers
      <3>3. k \in Watchers => work[k][i] # "succeedKept"
        BY <1>1 DEF MigrationOK, StepsOK, Watchers
      <3> QED BY <3>1, <3>2, <3>3 DEF HomeOK, At, AdoptMoved
    <2>3. timedOut = {} /\ HomeOK(i) /\ At(k, i, "fail") => home = rows[i].src
      <3>1. CASE k \in Watchers
        <4>1. rows[i].mode = "copy" /\ (At(k, i, "fail") => task[i] = "failed" \/ i \in timedOut)
          BY <1>1, <3>1, OutcomeWorker DEF Watchers
        <4> QED BY <4>1 DEF HomeOK
      <3>2. CASE k = "adopt"
        BY <3>2 DEF HomeOK, At
      <3>3. CASE k = "request"
        <4>1. task[i] = "none" /\ rows[i].mode \in {"copy", "adopt"}
          BY <1>1, <3>3, OutcomeWorker DEF Watchers, Rows
        <4> QED BY <3>3, <4>1 DEF HomeOK, At
      <3> QED BY <3>1, <3>2, <3>3 DEF Kinds, Watchers
    <2>4. timedOut = {} /\ HomeOK(i) =>
              \/ home = rows[i].src /\ UNCHANGED refs
              \/ home = rows[i].tgt /\ rows[i].src # rows[i].tgt /\ refs' = Repoint(i)
      BY <1>4, <2>1, <2>2, <2>3 DEF PendingRow, PendingStatus, Running
    <2>5. refs' \in {refs, Repoint(i)}
      BY <1>4
    <2> QED BY <1>2, <1>4, <2>1, <2>4, <2>5, PlacesSettled
  <1> QED BY <1>5, <1>6

LEMMA OperatePlaces ==
    ASSUME IInv, WInv, PlacesOK, NEW i \in Ids, Operate(i)
    PROVE  PlacesOK'
PROOF
  <1>1. FieldsKept(i) /\ UNCHANGED <<task, home, work, timedOut>> /\ MigrationOK(i)
        /\ rows \in [Ids -> Rows] /\ conf' \subseteq conf
    BY OperateFields DEF WInv, IInv, TypeOK
  <1>2. CASE PendingRow(i)' <=> PendingRow(i)
    <2>1. UNCHANGED refs
      BY <1>2, OperateFields DEF PendingRow, PendingStatus
    <2>2. \A j \in Ids : (PendingRow(j)' <=> PendingRow(j)) /\ RowKept(j)
      BY <1>1, <1>2 DEF FieldsKept, PendingRow
    <2>3. \A j \in Ids : (HomeOK(j) => HomeOK(j)') /\ (Stale(j) => Stale(j)')
      BY <1>1, <2>2, HomeFrame
    <2> QED BY <1>1, <2>1, <2>2, <2>3, PlacesFrame DEF RowKept
  <1>3. CASE ~(PendingRow(i)' <=> PendingRow(i))
    <2>1. PendingRow(i) /\ ~PendingRow(i)' /\ rows[i].src # rows[i].tgt
      BY <1>1, <1>3, OperateFields DEF PendingRow, PendingStatus, MigrationOK, RowOK
    <2>2. \/ /\ IF rows[i].upid THEN task[i] = "ok"
                                ELSE task[i] # "running" /\ home = rows[i].tgt
             /\ refs' = Repoint(i)
          \/ /\ UNCHANGED refs
             /\ \/ task[i] = "failed"
                \/ ~rows[i].upid /\ task[i] # "running" /\ home # rows[i].tgt
      BY <2>1, OperateFields DEF PendingRow, PendingStatus
    <2>3. /\ rows[i].upid => rows[i].mode = "copy"
          /\ task[i] = "failed" => rows[i].mode = "copy"
      BY <1>1 DEF MigrationOK, RowOK, Rows
    <2>4. HomeOK(i) =>
              \/ home = rows[i].src /\ UNCHANGED refs
              \/ home = rows[i].tgt /\ rows[i].src # rows[i].tgt /\ refs' = Repoint(i)
      BY <2>1, <2>2, <2>3 DEF HomeOK
    <2>5. refs' \in {refs, Repoint(i)}
      BY <2>2
    <2> QED BY <1>1, <2>1, <2>4, <2>5, PlacesSettled
  <1> QED BY <1>2, <1>3

\* A deletion cleans up while no migration is open.
LEMMA HolderPlaces ==
    ASSUME IInv, WInv, PlacesOK, Policy \/ Delete
    PROVE  PlacesOK'
PROOF
  <1>1. UNCHANGED <<home, task, work, timedOut>> /\ conf' \subseteq conf
    BY DEF Policy, PolicyCheck, PolicyCommit, PolicyLock, Delete, DeleteCheck, DeleteGuest,
           DeleteRows, DeleteLock, policyFrame, pve, bounds, Configs
  <1>2. CASE UNCHANGED <<rows, refs>>
    <2>1. \A j \in Ids : (PendingRow(j)' <=> PendingRow(j)) /\ RowKept(j)
      BY <1>2 DEF PendingRow, RowKept
    <2>2. \A j \in Ids : (HomeOK(j) => HomeOK(j)') /\ (Stale(j) => Stale(j)')
      BY <1>1, <2>1, HomeFrame
    <2> QED BY <1>1, <1>2, <2>1, <2>2, PlacesFrame DEF RowKept
  <1>3. CASE DeleteRows
    <2>1. ~Pending
      BY <1>3 DEF DeleteRows, IInv, HoldersExcludeMigration
    <2>2. \A j \in Ids : rows'[j] = IF rows[j].status \in {"ok", "error"}
                            THEN [rows[j] EXCEPT !.status = "removed"] ELSE rows[j]
      BY <1>3 DEF DeleteRows
    <2>3. rows \in [Ids -> Rows]
      BY DEF IInv, TypeOK
    <2>4. \A j \in Ids : rows'[j].status \in {rows[j].status, "removed"}
      BY <2>2, <2>3 DEF Rows
    <2>5. ~Pending' /\ \A j \in Ids : ~PendingRow(j)'
      BY <2>1, <2>4 DEF Pending, PendingRow, PendingStatus
    <2>6. refs' \in {refs, Gone}
      BY <1>3 DEF DeleteRows
    <2> QED BY <1>1, <2>1, <2>5, <2>6 DEF PlacesOK
  <1> QED BY <1>2, <1>3 DEF Policy, PolicyCheck, PolicyCommit, PolicyLock, Delete, DeleteCheck,
              DeleteGuest, DeleteLock, policyFrame, db

\* The VM moves when its copy is done.
LEMMA OutsidePlaces ==
    ASSUME IInv, WInv, PlacesOK, \/ \E i \in Ids : TaskSucceeds(i) \/ TaskFails(i)
                                 \/ \E n \in Nodes : RemoveByHand(n)
    PROVE  PlacesOK'
PROOF
  <1>1. UNCHANGED <<rows, refs, work, timedOut>>
        /\ task \in [Ids -> {"none", "running", "ok", "failed"}]
    BY DEF TaskSucceeds, TaskFails, RemoveByHand, db, bounds, IInv, TypeOK
  <1>2. \A j \in Ids : PendingRow(j)' <=> PendingRow(j)
    BY <1>1 DEF PendingRow
  <1>3. ASSUME NEW i \in Ids, TaskSucceeds(i)
        PROVE  PlacesOK'
    <2>1. task[i] = "running" /\ home' = rows[i].tgt /\ task' = [task EXCEPT ![i] = "ok"]
      BY <1>3 DEF TaskSucceeds
    <2>2. /\ PendingRow(i) \/ i \in timedOut
          /\ rows[i].mode # "adopt" /\ (~At("adopt", i, "idle") => rows[i].mode = "adopt")
      BY <2>1 DEF WInv, MigrationOK, RowOK, AdoptOK
    <2>3. rows[i].mode = "copy" /\ work["adopt"][i] = "idle"
      BY <2>2 DEF IInv, TypeOK, Rows, At
    <2>4. HomeOK(i)'
      BY <1>1, <2>1, <2>3 DEF HomeOK, AdoptMoved, At
    <2>5. PendingRow(i) => Pending' /\ \A j \in Ids : PendingRow(j)' => j = i
      BY <1>1, <1>2 DEF IInv, OneMigration, PendingRow, Pending
    <2>6. ~Stale(i)
      BY <1>3 DEF TaskSucceeds, Stale
    <2> QED BY <1>1, <1>2, <2>2, <2>4, <2>5, <2>6 DEF PlacesOK
  <1>4. ASSUME NEW i \in Ids, TaskFails(i)
        PROVE  PlacesOK'
    <2>1. UNCHANGED <<home, conf>> /\ \A j \in Ids : task'[j] = "ok" <=> task[j] = "ok"
      BY <1>1, <1>4 DEF TaskFails
    <2>2. \A j \in Ids : (HomeOK(j) => HomeOK(j)') /\ (Stale(j) => Stale(j)')
      BY <1>1, <2>1 DEF HomeOK, Stale, At
    <2> QED BY <1>1, <1>2, <2>1, <2>2, PlacesFrame
  <1>5. ASSUME NEW n \in Nodes, RemoveByHand(n)
        PROVE  PlacesOK'
    <2>1. UNCHANGED <<home, task>> /\ conf' \subseteq conf
      BY <1>5 DEF RemoveByHand, Configs
    <2>2. \A j \in Ids : (HomeOK(j) => HomeOK(j)') /\ (Stale(j) => Stale(j)')
      BY <1>1, <2>1 DEF HomeOK, Stale, At
    <2> QED BY <1>1, <1>2, <2>1, <2>2, PlacesFrame
  <1> QED BY <1>3, <1>4, <1>5

LEMMA RestartPlaces ==
    ASSUME IInv, WInv, PlacesOK, Restart
    PROVE  PlacesOK'
PROOF
  <1>1. UNCHANGED <<refs, home, conf, task, timedOut>> /\ rows \in [Ids -> Rows]
    BY DEF Restart, pve, IInv, TypeOK
  <1>2. \A j \in Ids : RowKept(j) /\ (PendingRow(j)' <=> PendingRow(j))
    <2>1. \A r \in Rows : /\ Interrupted(r).status \in PendingStatus <=> r.status \in PendingStatus
                          /\ Interrupted(r).mode = r.mode /\ Interrupted(r).src = r.src
                          /\ Interrupted(r).tgt = r.tgt /\ Interrupted(r).upid = r.upid
      BY DEF Interrupted, Rows, PendingStatus
    <2>2. rows' = [j \in Ids |-> Interrupted(rows[j])]
      BY DEF Restart
    <2> QED BY <1>1, <2>1, <2>2 DEF RowKept, PendingRow
  <1>3. \A j \in Ids : work'["adopt"][j] = "idle" /\ work'["request"][j] = "idle"
    BY DEF Restart, AllIdle, Kinds
  <1>4. \A j \in Ids : (HomeOK(j) => HomeOK(j)') /\ (Stale(j) => Stale(j)')
    BY <1>1, <1>2, <1>3, HomeFrame
  <1> QED BY <1>1, <1>2, <1>4, PlacesFrame DEF RowKept

LEMMA NextPlaces ==
    ASSUME IInv, WInv, PlacesOK, [Next]_vars
    PROVE  PlacesOK'
PROOF
  <1>1. CASE UNCHANGED vars
    <2>1. UNCHANGED <<rows, refs, task, home, conf, work, timedOut>>
      BY <1>1 DEF vars, db, pve, bounds
    <2>2. \A j \in Ids : /\ PendingRow(j)' <=> PendingRow(j)
                         /\ (HomeOK(j) => HomeOK(j)') /\ (Stale(j) => Stale(j)')
      BY <2>1 DEF PendingRow, HomeOK, Stale, At
    <2> QED BY <2>1, <2>2, PlacesFrame
  <1>2. CASE Next
    BY <1>2, ClaimPlaces, StartPlaces, WatchPlaces, AdoptPlaces, FinalizePlaces, OperatePlaces,
       HolderPlaces, OutsidePlaces, RestartPlaces DEF Next
  <1> QED BY <1>1, <1>2

LEMMA Places == Spec => []PlacesOK
PROOF
  <1>1. Init => PlacesOK
    BY DEF Init, PlacesOK, PendingRow, PendingStatus
  <1>2. IInv /\ WInv /\ PlacesOK /\ [Next]_vars => PlacesOK'
    BY NextPlaces
  <1> QED BY <1>1, <1>2, Works, PTL DEF Spec

\* migrate.ts:55-97: whoever settles the row, the policy rows end up with the VM, and only
\* a poller that gave up records a task that goes on as failed.
THEOREM RefsAreRight == Spec => []RefsFollowGuest
PROOF
  <1>1. IInv /\ WInv /\ PlacesOK => RefsFollowGuest
    BY DEF WInv, MigrationOK, RowOK, PendingRow, PendingStatus, PlacesOK, RefsFollowGuest
  <1> QED BY <1>1, Works, Places, PTL

-----------------------------------------------------------------------------
(* Leftovers.                                                              *)

\* Migration i has not brought the VM to its target, and cannot while a leftover is there.
Unmoved(i) ==
    /\ rows[i].status # "ok" /\ task[i] # "ok"
    /\ work["adopt"][i] \notin {"verify"} \cup AdoptMoved

\* Where a migration has left a configuration, the VM does not live and no migration that
\* was started later arrives.
LeftoversOK ==
    \A n \in Nodes, j \in Ids : <<n, j>> \in leftover =>
       /\ rows[j].src = n /\ rows[j].status # "none" /\ n # home
       /\ \A i \in Ids : i > j /\ rows[i].status # "none" /\ rows[i].tgt = n => Unmoved(i)

\* A deletion acts on a node where no migration on record has left a configuration.
DeleterOK ==
    deleter.pc = "act" =>
       \A j \in Ids : <<deleter.node, j>> \in leftover => rows[j].status # "ok"

LInv == LeftoversOK /\ DeleterOK

Below == {p \in Nat \X Nat : p[1] < p[2]}

LEMMA BelowWellFounded == IsWellFoundedOn(Below, Nat)
PROOF
  <1>1. Below = OpToRel(<, Nat)
    BY DEF OpToRel, Below
  <1> QED BY <1>1, NatLessThanWellFounded

\* Of some migrations one is the newest.
LEMMA Newest ==
    ASSUME NEW T \in SUBSET Ids, T # {}
    PROVE  \E m \in T : \A j \in T : j <= m
PROOF
  <1> DEFINE D == {MaxMigrations - t : t \in T}
  <1>1. D \subseteq Nat /\ D # {}
    <2>1. \A t \in T : MaxMigrations - t \in Nat
      BY BoundsAssumption DEF Ids
    <2> QED BY <2>1
  <1>2. PICK d \in D : \A e \in D : ~(<<e, d>> \in Below)
    BY <1>1, BelowWellFounded, WFMin
  <1>3. PICK m \in T : d = MaxMigrations - m
    OBVIOUS
  <1>4. ASSUME NEW j \in T PROVE j <= m
    <2>1. ~(<<MaxMigrations - j, d>> \in Below)
      BY <1>2
    <2> QED BY <2>1, <1>3, BoundsAssumption DEF Below, Ids
  <1> QED BY <1>4

\* A deletion's check finds the migration that left a configuration on its node.
LEMMA LocatedFinds ==
    ASSUME IInv, WInv, LeftoversOK, NEW n \in Nodes, Located(n), NEW j \in Ids,
           <<n, j>> \in leftover
    PROVE  rows[j].status # "ok"
PROOF
  <1> SUFFICES ASSUME rows[j].status = "ok" PROVE FALSE
    OBVIOUS
  <1> DEFINE T == {i \in Ids : rows[i].status = "ok" /\ n \in {rows[i].src, rows[i].tgt}}
  <1>1. rows[j].src = n /\ j \in T
    BY DEF LeftoversOK
  <1>2. PICK m \in T : \A i \in T : i <= m
    BY <1>1, Newest
  <1>3. \A i \in Ids : i > m => i \notin T
    BY <1>2 DEF Ids
  <1>4. NewestNaming(n, m)
    BY <1>3 DEF NewestNaming
  <1>5. rows[m].tgt = n /\ rows[m].status = "ok"
    BY <1>4 DEF Located
  <1>6. m = j \/ m > j
    BY <1>1, <1>2 DEF Ids
  <1>7. CASE m = j
    BY <1>1, <1>5, <1>7 DEF WInv, MigrationOK, RowOK
  <1>8. CASE m > j
    BY <1>5, <1>8 DEF LeftoversOK, Unmoved
  <1> QED BY <1>6, <1>7, <1>8

\* A step that adds no leftover and no migration, and brings no VM where a leftover is.
LEMMA LeftFrame ==
    ASSUME IInv, WInv, LInv, leftover' \subseteq leftover,
           home' = home \/ \A n \in Nodes, j \in Ids : <<n, j>> \in leftover => n # home',
           \A j \in Ids : /\ rows'[j].src = rows[j].src /\ rows'[j].tgt = rows[j].tgt
                          /\ rows'[j].status = "none" <=> rows[j].status = "none"
                          /\ rows[j].tgt \in conf \ {home} /\ Unmoved(j) => Unmoved(j)'
                          /\ rows'[j].status = "ok" => rows[j].status = "ok" \/ PendingRow(j),
           deleter'.pc = "act" => deleter' = deleter
    PROVE  LInv'
PROOF
  <1>1. \A n \in Nodes, j \in Ids : <<n, j>> \in leftover => n \in conf
    BY DEF IInv, TypeOK
  <1>2. LeftoversOK'
    BY <1>1 DEF LInv, LeftoversOK
  <1>3. DeleterOK'
    <2>1. deleter.pc = "act" => \A j \in Ids : ~PendingRow(j)
      BY DEF IInv, HoldersExcludeMigration, Pending, PendingRow
    <2> QED BY <2>1 DEF LInv, DeleterOK
  <1> QED BY <1>2, <1>3 DEF LInv

\* A new migration has not moved the VM, and no deletion is under way.
LEMMA ClaimLeft ==
    ASSUME IInv, WInv, LInv, NEW mode \in {"copy", "adopt"}, NEW src \in Nodes, NEW tgt \in Nodes,
           Claim(mode, src, tgt)
    PROVE  LInv'
PROOF
  <1>1. PICK i \in Ids : i = latest + 1
    BY DEF Claim
  <1>2. /\ UNCHANGED <<home, task, leftover, deleter>> /\ deleter.pc = "idle"
        /\ rows' = [rows EXCEPT ![i] = [status |-> "running", mode |-> mode, src |-> src,
                                        tgt |-> tgt, upid |-> FALSE, kept |-> FALSE]]
    BY <1>1 DEF Claim, Claimable, LockFree, pve, requests
  <1>3. rows \in [Ids -> Rows] /\ work \in WorkType /\ latest \in Nat /\ "adopt" \in Kinds
    BY DEF IInv, TypeOK, WorkType, Kinds
  <1>4. rows[i].status = "none" /\ task[i] = "none" /\ work["adopt"][i] = "idle"
    BY <1>1, <1>3 DEF WInv, FutureOK, MigrationOK, RowOK, NoneOf, At, Kinds
  <1>5. \A j \in Ids : work'["adopt"][j] = work["adopt"][j]
    BY <1>1, <1>3, <1>4 DEF Claim, Goto, WorkType
  <1>6. /\ rows'[i].status = "running" /\ rows'[i].tgt = tgt
        /\ \A j \in Ids \ {i} : rows'[j] = rows[j]
    BY <1>2, <1>3
  <1>7. Unmoved(i)'
    BY <1>2, <1>4, <1>5, <1>6 DEF Unmoved, AdoptMoved
  <1>8. \A j \in Ids \ {i} : Unmoved(j) => Unmoved(j)'
    BY <1>2, <1>5, <1>6 DEF Unmoved
  <1>9. LeftoversOK'
    BY <1>2, <1>4, <1>6, <1>7, <1>8 DEF LInv, LeftoversOK
  <1> QED BY <1>2, <1>9 DEF LInv, DeleterOK

LEMMA StartLeft ==
    ASSUME IInv, WInv, LInv, NEW i \in Ids, Start(i)
    PROVE  LInv'
PROOF
  <1>1. /\ rows \in [Ids -> Rows] /\ work \in WorkType /\ MigrationOK(i)
        /\ task \in [Ids -> {"none", "running", "ok", "failed"}]
        /\ "request" \in Kinds /\ "poller" \in Kinds /\ "adopt" \in Kinds
    BY DEF IInv, TypeOK, WorkType, WInv, Kinds
  <1>2. UNCHANGED <<home, leftover, deleter>>
    BY DEF Start, Submit, Recheck, SaveUpid, Spawn, db, pve, requests
  <1>3. \A j \in Ids : /\ rows'[j].mode = rows[j].mode /\ rows'[j].src = rows[j].src
                       /\ rows'[j].tgt = rows[j].tgt
                       /\ PendingRow(j)' <=> PendingRow(j)
                       /\ \/ rows'[j].status = rows[j].status
                          \/ PendingRow(j) /\ rows'[j].status = "needs_review"
    <2>1. CASE UNCHANGED rows
      BY <2>1 DEF PendingRow
    <2>2. CASE SetIfRunning(i, "needs_review")
      BY <1>1, <2>2, IfRunningFields DEF PendingRow, PendingStatus, Running
    <2>3. CASE rows' = [rows EXCEPT ![i].upid = (rows[i].mode = "copy")]
      BY <1>1, <2>3 DEF PendingRow, Rows
    <2> QED BY <2>1, <2>2, <2>3 DEF Start, Submit, Recheck, SaveUpid, Spawn, db
  <1>4. \A j \in Ids : /\ task'[j] \in {task[j], "running"}
                       /\ work'["adopt"][j] \in {work["adopt"][j], "move"}
    BY <1>1 DEF Start, Submit, Recheck, SaveUpid, Spawn, Goto, WorkType, pve
  <1>5. \A j \in Ids : Unmoved(j) => Unmoved(j)'
    BY <1>2, <1>3, <1>4 DEF Unmoved, AdoptMoved
  <1>6. \A j \in Ids : rows'[j].status \in {"none", "ok"} => rows'[j].status = rows[j].status
    BY <1>3
  <1>7. \A j \in Ids : rows[j].status = "none" => rows'[j].status = "none"
    BY <1>3 DEF PendingRow, PendingStatus
  <1> QED BY <1>2, <1>3, <1>5, <1>6, <1>7, LeftFrame

\* The steps of the others change neither the adopt job's progress nor where the VM lives.
LEMMA QuietLeft ==
    ASSUME IInv, WInv, LInv, UNCHANGED <<rows, home, task>>, leftover' \subseteq leftover,
           \A j \in Ids : work'["adopt"][j] \in {work["adopt"][j], "idle"},
           deleter'.pc = "act" => deleter' = deleter
    PROVE  LInv'
PROOF
  <1>1. \A j \in Ids : Unmoved(j) => Unmoved(j)'
    BY DEF Unmoved, AdoptMoved
  <1> QED BY <1>1, LeftFrame DEF PendingRow

LEMMA WatchLeft ==
    ASSUME IInv, WInv, LInv, NEW i \in Ids, Watch(i) \/ PollTimeout(i) \/ RefreshRow(i)
    PROVE  LInv'
PROOF
  <1>1. UNCHANGED <<rows, home, task, leftover, deleter>>
    BY DEF Watch, PollRow, PollTask, RefreshTask, Relocate, PollTimeout, RefreshRow,
           db, pve, requests
  <1>2. work'["adopt"] = work["adopt"]
    BY WatchWorkers
  <1> QED BY <1>1, <1>2, QuietLeft

LEMMA AdoptLeft ==
    ASSUME IInv, WInv, LInv, NEW i \in Ids, Adopt(i)
    PROVE  LInv'
PROOF
  <1>1. /\ rows \in [Ids -> Rows] /\ work \in WorkType /\ MigrationOK(i) /\ "adopt" \in Kinds
        /\ latest \in Nat
    BY DEF IInv, TypeOK, WorkType, WInv, Kinds
  <1>2. UNCHANGED <<rows, task, latest, deleter>> /\ ~At("adopt", i, "idle")
    BY DEF Adopt, AdoptMove, AdoptCreate, AdoptVerify, AdoptProtect, AdoptForget, AdoptFrame,
           db, requests, At
  <1>3. Running(i) /\ rows[i].mode = "adopt"
    BY <1>1, <1>2 DEF MigrationOK, AdoptOK
  <1>4. PendingRow(i) /\ i = latest /\ (\A j \in Ids : PendingRow(j) => j = i) /\ deleter.pc # "act"
    BY <1>3 DEF IInv, OneMigration, HoldersExcludeMigration, Pending, PendingRow, PendingStatus,
                Running
  <1>5. \A j \in Ids \ {i} : work'["adopt"][j] = work["adopt"][j]
    BY <1>1 DEF Adopt, AdoptMove, AdoptCreate, AdoptVerify, AdoptProtect, AdoptForget,
                Goto, WorkType
  <1>6. \A j \in Ids \ {i} : Unmoved(j) => Unmoved(j)'
    BY <1>2, <1>4, <1>5 DEF Unmoved
  <1>7. rows[i].tgt \in conf /\ Unmoved(i) => Unmoved(i)' /\ UNCHANGED home
    <2> SUFFICES ASSUME rows[i].tgt \in conf, Unmoved(i) PROVE Unmoved(i)' /\ UNCHANGED home
      OBVIOUS
    <2>1. At("adopt", i, "move") \/ At("adopt", i, "create")
      BY DEF Adopt, AdoptMove, AdoptCreate, AdoptVerify, AdoptProtect, AdoptForget,
             Unmoved, AdoptMoved, At
    <2>2. UNCHANGED home /\ work'["adopt"][i] \in {"create", "fail"}
      BY <1>1, <2>1 DEF Adopt, AdoptMove, AdoptCreate, AdoptVerify, AdoptProtect, AdoptForget,
                   Goto, WorkType, At
    <2> QED BY <1>2, <2>2 DEF Unmoved, AdoptMoved
  <1>8. CASE leftover' \subseteq leftover
    <2>1. home' = home \/ (home' = rows[i].tgt /\ ~Unmoved(i))
      BY DEF Adopt, AdoptMove, AdoptCreate, AdoptVerify, AdoptProtect, AdoptForget, Unmoved, At
    <2>2. ASSUME ~Unmoved(i), NEW n \in Nodes, NEW j \in Ids, <<n, j>> \in leftover
          PROVE  n # rows[i].tgt
      <3>1. rows[j].src = n /\ rows[j].status # "none" /\ rows[i].src # rows[i].tgt
        BY <1>1, <1>3, <2>2 DEF LInv, LeftoversOK, MigrationOK, RowOK, Running
      <3>2. j <= i
        BY <1>1, <1>4, <3>1 DEF WInv, FutureOK, Ids
      <3>3. CASE j = i
        BY <3>1, <3>3
      <3>4. CASE i > j
        BY <1>3, <2>2, <3>4 DEF LInv, LeftoversOK, Running
      <3> QED BY <3>2, <3>3, <3>4 DEF Ids
    <2> QED BY <1>2, <1>4, <1>6, <1>7, <1>8, <2>1, <2>2, LeftFrame DEF PendingRow
  <1>9. CASE /\ AdoptForget(i)
             /\ leftover' = leftover \cup ((({rows[i].src} \cap conf) \ {home}) \X {i})
    <2>1. \A n \in Nodes, j \in Ids : <<n, j>> \in leftover =>
             /\ n \in conf /\ rows[j].src = n /\ rows[j].status # "none" /\ n # home
             /\ \A m \in Ids : m > j /\ rows[m].status # "none" /\ rows[m].tgt = n => Unmoved(m)'
      BY <1>6, <1>7 DEF LInv, LeftoversOK, IInv, TypeOK
    <2>2. \A m \in Ids : m > i => rows[m].status = "none"
      BY <1>4 DEF WInv, FutureOK
    <2>3. \A n \in Nodes, j \in Ids : <<n, j>> \in leftover' =>
             <<n, j>> \in leftover \/ (j = i /\ n = rows[i].src /\ n # home)
      BY <1>9
    <2>4. LeftoversOK'
      BY <1>2, <1>3, <1>9, <2>1, <2>2, <2>3 DEF LeftoversOK, Running, AdoptForget
    <2> QED BY <1>2, <1>4, <2>4 DEF LInv, DeleterOK
  <1>10. leftover' \subseteq leftover
         \/ /\ AdoptForget(i)
            /\ leftover' = leftover \cup ((({rows[i].src} \cap conf) \ {home}) \X {i})
    BY DEF Adopt, AdoptMove, AdoptCreate, AdoptVerify, AdoptProtect, AdoptForget, Configs
  <1> QED BY <1>8, <1>9, <1>10

LEMMA FinalizeLeft ==
    ASSUME IInv, WInv, LInv, NEW i \in Ids, NEW k \in Kinds, Finalize(k, i)
    PROVE  LInv'
PROOF
  <1>1. /\ rows \in [Ids -> Rows] /\ work \in WorkType /\ MigrationOK(i)
        /\ work[k][i] \in {"succeed", "succeedKept", "fail"} /\ Done(k, i)
    BY DEF IInv, TypeOK, WorkType, WInv, Finalize, FinalizeSuccess, FinalizeFailure, At
  <1>2. UNCHANGED <<home, task, leftover, deleter>>
    BY DEF Finalize, FinalizeSuccess, FinalizeFailure, pve, requests
  <1>3. \A j \in Ids : work'["adopt"][j] \in {work["adopt"][j], "idle"}
    BY <1>1, GotoSteps DEF Done, Kinds
  <1>4. FieldsKept(i) /\ rows[i].status # "none"
        /\ \/ rows'[i].status = rows[i].status
           \/ Running(i) /\ rows'[i].status \in {"needs_review", "error"}
           \/ Running(i) /\ rows'[i].status = "ok" /\ work[k][i] \in {"succeed", "succeedKept"}
    <2>1. CASE FinalizeSuccess(k, i)
      BY <1>1, <2>1, SucceedFields, ReviewFields, OutcomeWorker DEF FinalizeSuccess, Running
    <2>2. CASE FinalizeFailure(k, i)
      BY <1>1, <2>2, IfRunningFields, OutcomeWorker
      DEF FinalizeFailure, FieldsKept, RowKept, Running
    <2> QED BY <2>1, <2>2 DEF Finalize
  <1>5. work[k][i] \in {"succeed", "succeedKept"} => ~Unmoved(i)
    <2>1. work[k][i] \in {"succeed", "succeedKept"} => k \in Watchers \/ k = "adopt"
      BY <1>1 DEF MigrationOK, StepsOK, Kinds, Watchers
    <2>2. k \in Watchers => work[k][i] # "succeedKept" /\ (At(k, i, "succeed") => task[i] = "ok")
      BY <1>1, OutcomeWorker DEF MigrationOK, StepsOK, Watchers
    <2> QED BY <2>1, <2>2 DEF Unmoved, AdoptMoved, At
  <1>6. \A j \in Ids : Unmoved(j) => Unmoved(j)'
    BY <1>2, <1>3, <1>4, <1>5
    DEF Unmoved, AdoptMoved, FieldsKept, Running
  <1>7. \A j \in Ids : /\ rows'[j].status = "none" <=> rows[j].status = "none"
                       /\ rows'[j].status = "ok" => rows[j].status = "ok" \/ PendingRow(j)
    BY <1>4 DEF FieldsKept, PendingRow, PendingStatus, Running
  <1> QED BY <1>2, <1>4, <1>6, <1>7, LeftFrame DEF FieldsKept, RowKept

LEMMA OperateLeft ==
    ASSUME IInv, WInv, LInv, NEW i \in Ids, Operate(i)
    PROVE  LInv'
PROOF
  <1>1. FieldsKept(i) /\ UNCHANGED <<task, home, work, deleter>> /\ MigrationOK(i)
    BY OperateFields DEF WInv
  <1>2. leftover' \subseteq leftover
    BY DEF Operate, ReconcileRead, ReconcileWrite, ResolveSucceeded, ResolveFailed,
           RemoveTracking, CleanupSource, Configs, pve
  <1>3. \A j \in Ids : rows[j].tgt # home /\ Unmoved(j) => Unmoved(j)'
    <2>1. ASSUME rows[i].tgt # home, Unmoved(i) PROVE Unmoved(i)'
      BY <1>1, <2>1, OperateFields DEF Unmoved, FieldsKept
    <2>2. ASSUME NEW j \in Ids \ {i}, Unmoved(j) PROVE Unmoved(j)'
      BY <1>1, <2>2 DEF Unmoved, FieldsKept
    <2> QED BY <2>1, <2>2
  <1>4. \A j \in Ids : /\ rows'[j].status = "none" <=> rows[j].status = "none"
                       /\ rows'[j].status = "ok" => rows[j].status = "ok" \/ PendingRow(j)
    BY <1>1, OperateFields DEF FieldsKept, PendingRow, PendingStatus
  <1> QED BY <1>1, <1>2, <1>3, <1>4, LeftFrame DEF FieldsKept, RowKept

\* The check of a deletion finds leftovers; the others under the lock add none.
LEMMA HolderLeft ==
    ASSUME IInv, WInv, LInv, Policy \/ Delete
    PROVE  LInv'
PROOF
  <1>1. UNCHANGED <<home, task, work>> /\ leftover' \subseteq leftover
    BY DEF Policy, PolicyCheck, PolicyCommit, PolicyLock, Delete, DeleteCheck, DeleteGuest,
           DeleteRows, DeleteLock, policyFrame, pve, Configs
  <1>2. CASE DeleteCheck
    <2>1. UNCHANGED <<rows, leftover>>
      BY <1>2 DEF DeleteCheck, policyFrame, db, pve
    <2>2. \A i \in Ids : Unmoved(i) => Unmoved(i)'
      BY <1>1, <2>1 DEF Unmoved
    <2>3. LeftoversOK'
      BY <1>1, <2>1, <2>2 DEF LInv, LeftoversOK
    <2>4. DeleterOK'
      <3> SUFFICES ASSUME deleter'.pc = "act", NEW j \in Ids, <<deleter'.node, j>> \in leftover'
                   PROVE  rows'[j].status # "ok"
        BY DEF DeleterOK
      <3>1. Located(deleter.node) /\ deleter'.node = deleter.node
        BY <1>2 DEF DeleteCheck, Deletable, IInv, TypeOK, Holders, IdleHolder
      <3>2. deleter.node \in Nodes
        BY <2>1, <3>1 DEF IInv, TypeOK
      <3> QED BY <2>1, <3>1, <3>2, LocatedFinds DEF LInv
    <2> QED BY <2>3, <2>4 DEF LInv
  <1>3. CASE DeleteRows
    <2>1. \A j \in Ids : rows'[j] = IF rows[j].status \in {"ok", "error"}
                            THEN [rows[j] EXCEPT !.status = "removed"] ELSE rows[j]
      BY <1>3 DEF DeleteRows
    <2>2. rows \in [Ids -> Rows]
      BY DEF IInv, TypeOK
    <2>3. \A j \in Ids : /\ rows'[j].src = rows[j].src /\ rows'[j].tgt = rows[j].tgt
                         /\ \/ rows'[j].status = rows[j].status
                            \/ rows[j].status \in {"ok", "error"} /\ rows'[j].status = "removed"
      BY <2>1, <2>2 DEF Rows
    <2>4. \A j \in Ids : Unmoved(j) => Unmoved(j)'
      BY <1>1, <2>3 DEF Unmoved
    <2>5. deleter'.pc # "act"
      BY <1>3 DEF DeleteRows, IdleHolder
    <2> QED BY <1>1, <2>3, <2>4, <2>5, LeftFrame
  <1>4. CASE UNCHANGED rows /\ (deleter'.pc = "act" => deleter' = deleter)
    BY <1>1, <1>4, QuietLeft
  <1>5. deleter'.pc = "act" => deleter' = deleter \/ DeleteCheck
    BY DEF Policy, PolicyCheck, PolicyCommit, PolicyLock, Delete, DeleteGuest, DeleteRows,
           DeleteLock, IdleHolder, IInv, TypeOK, Holders
  <1>6. UNCHANGED rows \/ DeleteRows
    BY DEF Policy, PolicyCheck, PolicyCommit, PolicyLock, Delete, DeleteCheck, DeleteGuest,
           DeleteLock, policyFrame, db
  <1> QED BY <1>2, <1>3, <1>4, <1>5, <1>6

\* A copy does not arrive where a configuration is.
LEMMA OutsideLeft ==
    ASSUME IInv, WInv, LInv, \/ \E i \in Ids : TaskSucceeds(i) \/ TaskFails(i)
                             \/ \E n \in Nodes : RemoveByHand(n)
    PROVE  LInv'
PROOF
  <1>1. UNCHANGED <<rows, work, deleter>> /\ leftover' \subseteq leftover
    BY DEF TaskSucceeds, TaskFails, RemoveByHand, Configs, db, requests
  <1>2. task \in [Ids -> {"none", "running", "ok", "failed"}]
    BY DEF IInv, TypeOK
  <1>3. ASSUME NEW i \in Ids, TaskSucceeds(i)
        PROVE  LInv'
    <2>1. rows[i].tgt \notin conf /\ home' = rows[i].tgt /\ task' = [task EXCEPT ![i] = "ok"]
      BY <1>3 DEF TaskSucceeds
    <2>2. \A n \in Nodes, j \in Ids : <<n, j>> \in leftover => n # home'
      BY <2>1 DEF IInv, TypeOK
    <2>3. \A j \in Ids : rows[j].tgt \in conf /\ Unmoved(j) => Unmoved(j)'
      BY <1>1, <1>2, <2>1 DEF Unmoved
    <2> QED BY <1>1, <2>2, <2>3, LeftFrame
  <1>4. ASSUME \/ \E i \in Ids : TaskFails(i)
               \/ \E n \in Nodes : RemoveByHand(n)
        PROVE  LInv'
    <2>1. UNCHANGED home /\ \A j \in Ids : task'[j] \in {task[j], "failed"}
      BY <1>2, <1>4 DEF TaskFails, RemoveByHand
    <2>2. \A j \in Ids : Unmoved(j) => Unmoved(j)'
      BY <1>1, <2>1 DEF Unmoved
    <2> QED BY <1>1, <2>1, <2>2, LeftFrame
  <1> QED BY <1>3, <1>4

LEMMA RestartLeft ==
    ASSUME IInv, WInv, LInv, Restart
    PROVE  LInv'
PROOF
  <1>1. UNCHANGED <<home, task, leftover>> /\ rows \in [Ids -> Rows] /\ deleter'.pc = "idle"
    BY DEF Restart, pve, IInv, TypeOK, IdleHolder
  <1>2. \A j \in Ids : /\ rows'[j].src = rows[j].src /\ rows'[j].tgt = rows[j].tgt
                       /\ rows'[j].status = IF Running(j) THEN "needs_review" ELSE rows[j].status
    <2>1. \A r \in Rows : /\ Interrupted(r).status = IF r.status = "running" THEN "needs_review"
                                                     ELSE r.status
                          /\ Interrupted(r).src = r.src /\ Interrupted(r).tgt = r.tgt
      BY DEF Interrupted, Rows
    <2>2. rows' = [j \in Ids |-> Interrupted(rows[j])]
      BY DEF Restart
    <2> QED BY <1>1, <2>1, <2>2 DEF Running
  <1>3. \A j \in Ids : work'["adopt"][j] = "idle"
    BY DEF Restart, AllIdle, Kinds
  <1>4. \A j \in Ids : Unmoved(j) => Unmoved(j)'
    BY <1>1, <1>2, <1>3 DEF Unmoved, AdoptMoved, Running
  <1> QED BY <1>1, <1>2, <1>4, LeftFrame DEF Running

LEMMA Leftovers == Spec => []LInv
PROOF
  <1>1. Init => LInv
    BY DEF Init, LInv, LeftoversOK, DeleterOK, IdleHolder
  <1>2. IInv /\ WInv /\ LInv /\ UNCHANGED vars => LInv'
    <2> SUFFICES ASSUME IInv, WInv, LInv, UNCHANGED vars PROVE LInv'
      OBVIOUS
    <2>1. UNCHANGED <<rows, home, task, work, leftover, deleter>>
      BY DEF vars, db, pve, requests
    <2> QED BY <2>1, QuietLeft
  <1>3. IInv /\ WInv /\ LInv /\ Next => LInv'
    BY ClaimLeft, StartLeft, WatchLeft, AdoptLeft, FinalizeLeft, OperateLeft, HolderLeft,
       OutsideLeft, RestartLeft DEF Next
  <1>4. IInv /\ WInv /\ LInv /\ [Next]_vars => LInv'
    BY <1>2, <1>3
  <1> QED BY <1>1, <1>4, Works, PTL DEF Spec

\* vms.ts:543-553: while the migration that left it is on record, a leftover configuration
\* is not destroyed.
THEOREM LeftoversAreSafe == Spec => TrackedLeftoverIsSafe
PROOF
  <1>1. LInv => \A n \in Nodes, i \in Ids :
                   <<n, i>> \in leftover /\ deleter.pc = "act" /\ deleter.node = n
                      => rows[i].status # "ok"
    BY DEF LInv, DeleterOK
  <1>2. LInv /\ [Next]_vars =>
           [\A n \in Nodes, i \in Ids :
               <<n, i>> \in leftover /\ Destroys(n) => rows[i].status # "ok"]_vars
    BY <1>1 DEF Destroys
  <1> QED BY <1>2, Leftovers, PTL DEF Spec, TrackedLeftoverIsSafe

=============================================================================
