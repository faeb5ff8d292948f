------------------------- MODULE PowerControlProofs -------------------------
(***************************************************************************)
(* Theorems about PowerControl, for any controllers, modes, schedule,      *)
(* timings and bounds its assumptions allow; and about the price rules of  *)
(* PowerPrices and what PowerDecisions composes of them.                   *)
(***************************************************************************)
EXTENDS PowerDecisions, TLAPS

USE DEF Controllers, Tokens, NoToken, Observed

\* A snapshot read from typed rows is typed.
LEMMA SnapshotType ==
    ASSUME TypeOK
    PROVE  Snapshot \in Snapshots
  BY DEF TypeOK, PolicyRow, Snapshot, Snapshots

\* A decision on a typed snapshot names a writable mode or none.
LEMMA DecisionType ==
    ASSUME TypeOK, NEW s \in Snapshots, NEW actual, NEW manual \in BOOLEAN
    PROVE  Decision(s, actual, manual) \in Selections
<1>1. Schedule[slot] \in Modes
  BY ScheduleAssumption DEF TypeOK
<1>2. s.manual \in Modes \cup {None}
  BY DEF Snapshots
<1> QED
  BY <1>1, <1>2 DEF Decision, Selections, NoSelection

\* Blank snapshots, reduced snapshots and idle controllers are typed.
LEMMA BlankType ==
    /\ BlankSnapshot \in Snapshots
    /\ \A s \in Snapshots : Versions(s) \in Snapshots
    /\ IdleCtl \in CtlRecords
    /\ NoZombie \in Zombies
<1>1. BlankSnapshot \in Snapshots
  BY DEF BlankSnapshot, Snapshots
<1>2. \A s \in Snapshots : Versions(s) \in Snapshots
  BY <1>1 DEF Versions, Snapshots, BlankSnapshot
<1>3. IdleCtl \in CtlRecords
  BY <1>1 DEF IdleCtl, CtlRecords, Steps, Selections, NoSelection, Outcomes
<1>4. NoZombie \in Zombies
  BY DEF NoZombie, Zombies
<1> QED
  BY <1>1, <1>2, <1>3, <1>4

\* A failure keeps a policy row typed.
LEMMA FailingType ==
    ASSUME NEW p \in PolicyRow
    PROVE  Failing(p) \in PolicyRow
<1>1. /\ NotifyThreshold \in Nat /\ p.failures \in Nat /\ p.notified \in BOOLEAN
  BY BoundsAssumption DEF PolicyRow
<1>2. (IF p.failures < NotifyThreshold THEN p.failures + 1 ELSE p.failures) \in Nat
  BY <1>1
<1>3. (p.notified \/ p.failures + 1 >= NotifyThreshold) \in BOOLEAN
  OBVIOUS
<1> QED
  BY <1>2, <1>3 DEF Failing, PolicyRow

\* The initial states are typed.
LEMMA TypeInit == Init => TypeOK
<1> SUFFICES ASSUME Init PROVE TypeOK
  OBVIOUS
<1>1. policy \in PolicyRow
  BY DEF Init, PolicyRow
<1>2. ops \in [Tokens -> [state : RowStates, target : Modes \cup {None}]]
  BY DEF Init, RowStates
<1>3. ctl \in [Controllers -> CtlRecords] /\ zombie \in [Controllers -> Zombies]
  BY BlankType DEF Init
<1>4. /\ lastToken \in 0..MaxClaims /\ leaseLeft \in -1..Lease
      /\ slot \in 1..Len(Schedule) /\ events \in 0..MaxEvents
  BY ScheduleAssumption, BoundsAssumption, TimingAssumption DEF Init
<1> QED
  BY <1>1, <1>2, <1>3, <1>4 DEF Init, TypeOK, NoResume

\* The three ways a step moves its controller keep the records typed.
CtlType == ctl \in [Controllers -> CtlRecords]

LEMMA GotoType ==
    ASSUME CtlType, NEW c \in Controllers, NEW st \in Steps, Goto(c, st)
    PROVE  CtlType'
  BY DEF CtlType, Goto, CtlRecords

LEMMA EndType ==
    ASSUME CtlType, NEW c \in Controllers, NEW o \in Outcomes, EndWith(c, o)
    PROVE  CtlType'
  BY DEF CtlType, EndWith, CtlRecords, Steps

LEMMA ReturnType ==
    ASSUME CtlType, NEW c \in Controllers, Return(c)
    PROVE  CtlType'
  BY BlankType DEF CtlType, Return

\* What a step reads from the controller it moves.
LEMMA CtlFields ==
    ASSUME CtlType, NEW c \in Controllers
    PROVE  /\ ctl[c].snap \in Snapshots /\ ctl[c].sel \in Selections
           /\ ctl[c].token \in Nat /\ ctl[c].actual \in Observed \cup {None}
           /\ ctl[c].sinceClaim \in Nat /\ ctl[c].writeLeft \in Nat
           /\ ctl[c].pc \in Steps
  BY DEF CtlType, CtlRecords

\* Every step of a running controller keeps the controller records typed.
LEMMA CtlTypeWork ==
    ASSUME TypeOK, NEW c \in Controllers, StartSweep(c) \/ Work(c) \/ Background(c)
    PROVE  CtlType'
<1>0. CtlType /\ mode \in Observed /\ lastToken \in Nat
  BY BoundsAssumption DEF CtlType, TypeOK
<1> USE <1>0
<1>1. CASE StartSweep(c)
  BY <1>1, GotoType, EndType, ReturnType DEF Steps, Outcomes, StartSweep
<1>2. CASE ReleaseFirst(c)
  BY <1>2, GotoType, EndType, ReturnType DEF Steps, Outcomes, ReleaseFirst
<1>3. CASE Load(c)
  BY <1>3, SnapshotType, ReturnType, EndType DEF Load, CtlType, CtlRecords, Steps, Outcomes
<1>4. CASE Read(c)
  BY <1>4, ReturnType DEF Read, Goto, AfterResolve, CtlType, CtlRecords, Steps
<1>5. CASE RecordUnavailable(c)
  BY <1>5, GotoType, EndType, ReturnType DEF Steps, Outcomes, RecordUnavailable
<1>6. CASE ResolvePending(c)
  <2> DEFINE after == [ctl[c].snap EXCEPT !.pending = None, !.pendingOp = 0,
                          !.verified = IF ctl[c].actual = ctl[c].snap.pending
                                       THEN ctl[c].actual ELSE @]
             next == AfterResolve(c, after, ctl[c].actual)
  <2>1. ctl' = [ctl EXCEPT ![c].pc = next, ![c].snap = after]
    BY <1>6 DEF ResolvePending
  <2>2. ctl[c].actual \in Observed \cup {None} /\ ctl[c].snap \in Snapshots
    BY CtlFields
  <2>3. after \in Snapshots
    <3>1. ctl[c].snap.verified \in Observed \cup {None}
      BY <2>2 DEF Snapshots
    <3>2. (IF ctl[c].actual = ctl[c].snap.pending
           THEN ctl[c].actual ELSE ctl[c].snap.verified) \in Observed \cup {None}
      BY <2>2, <3>1
    <3> QED
      BY <2>2, <3>2 DEF Snapshots
  <2>4. next \in Steps
    BY DEF AfterResolve, Steps
  <2> HIDE DEF after, next
  <2> QED
    BY <2>1, <2>3, <2>4 DEF CtlType, CtlRecords
<1>7. CASE HoldExternalDrift(c)
  BY <1>7, GotoType, EndType, ReturnType DEF Steps, Outcomes, HoldExternalDrift
<1>8. CASE ReleaseDriftHold(c)
  BY <1>8, GotoType, EndType, ReturnType DEF Steps, Outcomes, ReleaseDriftHold
<1>9. CASE Reload(c)
  BY <1>9, SnapshotType, ReturnType, EndType DEF Reload, CtlType, CtlRecords, Steps, Outcomes
<1>10. CASE Observe(c)
  BY <1>10, GotoType, EndType, ReturnType DEF Steps, Outcomes, Observe
<1>11. CASE Select(c)
  BY <1>11, CtlFields, DecisionType, ReturnType DEF Select, IsManual, CtlType, CtlRecords, Steps
<1>12. CASE Claim(c)
  BY <1>12, ReturnType DEF Claim, CtlType, CtlRecords, Steps
<1>13. CASE Fresh(c)
  BY <1>13, SnapshotType, ReturnType, EndType DEF Fresh, CtlType, CtlRecords, Steps, Outcomes
<1>14. CASE Current(c)
  BY <1>14, GotoType, EndType, ReturnType DEF Steps, Outcomes, Current
<1>15. CASE RenewClaim(c)
  BY <1>15, GotoType, EndType, ReturnType DEF Steps, Outcomes, RenewClaim
<1>16. CASE Reread(c)
  BY <1>16, CtlFields, BlankType, EndType, TimingAssumption DEF Reread, CtlType, CtlRecords, Steps, Outcomes
<1>17. CASE Discover(c)
  BY <1>17, GotoType, EndType, ReturnType DEF Steps, Outcomes, Discover
<1>18. CASE GuardCheck(c)
  BY <1>18, GotoType, EndType, ReturnType DEF Steps, Outcomes, GuardCheck
<1>19. CASE GuardRecheck(c)
  BY <1>19, GotoType, EndType, ReturnType DEF Steps, Outcomes, GuardRecheck
<1>20. CASE RecordRequested(c)
  BY <1>20, EndType DEF RecordRequested, CtlType, CtlRecords, Steps, Outcomes
<1>21. CASE SendPatch(c)
  BY <1>21, GotoType, EndType, ReturnType DEF Steps, Outcomes, SendPatch
<1>22. CASE Readback(c)
  BY <1>22, GotoType, EndType, ReturnType DEF Steps, Outcomes, Readback
<1>23. CASE WriteDeadline(c)
  BY <1>23, GotoType, EndType, ReturnType DEF Steps, Outcomes, WriteDeadline
<1>24. CASE Finish(c)
  BY <1>24, GotoType, EndType, ReturnType DEF Steps, Outcomes, Finish
<1>25. CASE ZombieRecord(c)
  BY <1>25 DEF ZombieRecord, CtlType
<1>26. CASE ZombiePatch(c)
  BY <1>26 DEF ZombiePatch, CtlType
<1> QED
  BY <1>1, <1>2, <1>3, <1>4, <1>5, <1>6, <1>7, <1>8, <1>9, <1>10, <1>11, <1>12, <1>13, <1>14, <1>15, <1>16, <1>17, <1>18, <1>19, <1>20, <1>21, <1>22, <1>23, <1>24, <1>25, <1>26 DEF Work, Background

\* Every step of a running controller keeps the database rows typed.
DbType ==
    /\ policy \in PolicyRow
    /\ conn \in [version : Nat, enabled : BOOLEAN, active : BOOLEAN]
    /\ globalPause \in BOOLEAN /\ backoff \in BOOLEAN
    /\ ops \in [Tokens -> [state : RowStates, target : Modes \cup {None}]]
    /\ lastToken \in 0..MaxClaims /\ leaseLeft \in -1..Lease

\* The changes the statements make to a typed policy row.
LEMMA UnclaimType ==
    ASSUME NEW p \in PolicyRow PROVE Unclaim(p) \in PolicyRow
  BY DEF Unclaim, PolicyRow

LEMMA MarkPendingType ==
    ASSUME NEW p \in PolicyRow, NEW m \in Modes \cup {None}, NEW t \in Nat
    PROVE  MarkPending(p, m, t) \in PolicyRow
  BY DEF MarkPending, PolicyRow

LEMMA VerifiedType ==
    ASSUME NEW p \in PolicyRow, NEW m \in Observed \cup {None}
    PROVE  Verified(p, m) \in PolicyRow
  BY DEF Verified, PolicyRow

\* Clearing an expired claim keeps the rows typed.
LEMMA ReleaseExpiredType ==
    ASSUME DbType, policy.token \in 0..MaxClaims, ReleaseExpiredClaim
    PROVE  /\ policy' \in PolicyRow /\ backoff' \in BOOLEAN /\ leaseLeft' \in -1..Lease
           /\ ops' \in [Tokens -> [state : RowStates, target : Modes \cup {None}]]
<1>0. /\ policy \in PolicyRow /\ Unclaim(policy) \in PolicyRow
      /\ ops \in [Tokens -> [state : RowStates, target : Modes \cup {None}]]
      /\ backoff \in BOOLEAN /\ leaseLeft \in -1..Lease /\ 0 \in -1..Lease
      /\ policy.token \in Nat
  BY UnclaimType, BoundsAssumption, TimingAssumption DEF DbType
<1>1. CASE UNCHANGED <<policy, ops, backoff, leaseLeft>>
  BY <1>0, <1>1
<1>2. CASE policy.token # NoToken /\ LeaseExpired
  <2>1. policy.token \in Tokens /\ ops[policy.token].target \in Modes \cup {None}
    BY <1>0, <1>2, BoundsAssumption
  <2>2. MarkPending(Unclaim(policy), ops[policy.token].target, policy.token) \in PolicyRow
    BY <1>0, <2>1, MarkPendingType
  <2>3. [ops EXCEPT ![policy.token].state = "unknown"]
          \in [Tokens -> [state : RowStates, target : Modes \cup {None}]]
    BY <1>0, <2>1 DEF RowStates, Outcomes
  <2> QED
    BY <1>0, <1>2, <2>2, <2>3 DEF ReleaseExpiredClaim
<1> QED
  BY <1>1, <1>2 DEF ReleaseExpiredClaim

\* finish() keeps the rows typed.
LEMMA FinishType ==
    ASSUME TypeOK, NEW c \in Controllers, Finish(c)
    PROVE  DbType'
<1>0. CtlType /\ DbType
  BY DEF TypeOK, CtlType, DbType
<1>1. /\ ctl[c].token \in Nat /\ ctl[c].sel.target \in Modes \cup {None}
      /\ ctl[c].result \in RowStates
  BY <1>0 DEF CtlType, CtlRecords, Selections, RowStates
<1>2. /\ Unclaim(policy) \in PolicyRow /\ Failing(Unclaim(policy)) \in PolicyRow
      /\ Verified(Unclaim(policy), ctl[c].sel.target) \in PolicyRow
      /\ MarkPending(Failing(Unclaim(policy)), ctl[c].sel.target, ctl[c].token) \in PolicyRow
  BY <1>0, <1>1, UnclaimType, FailingType, VerifiedType, MarkPendingType DEF DbType
<1>3. policy' \in PolicyRow
  BY <1>0, <1>2 DEF Finish, DbType
<1>4. ops' \in [Tokens -> [state : RowStates, target : Modes \cup {None}]]
  BY <1>0, <1>1 DEF Finish, DbType
<1>5. backoff' \in BOOLEAN
  BY <1>0 DEF Finish, DbType
<1>6. leaseLeft' \in -1..Lease
  BY <1>0, TimingAssumption DEF Finish, DbType
<1> QED
  BY <1>0, <1>3, <1>4, <1>5, <1>6 DEF Finish, DbType

\* A step that leaves the database alone keeps its rows typed.
LEMMA DbTypeSame ==
    ASSUME DbType, UNCHANGED dbVars
    PROVE  DbType'
  BY DEF DbType, dbVars

\* Every step of a running controller keeps the rows typed.
LEMMA DbTypeWork ==
    ASSUME TypeOK, policy.token <= lastToken, NEW c \in Controllers,
           StartSweep(c) \/ Work(c) \/ Background(c)
    PROVE  DbType'
<1>0. /\ DbType /\ CtlType /\ policy \in PolicyRow /\ policy.token \in 0..MaxClaims
      /\ ops \in [Tokens -> [state : RowStates, target : Modes \cup {None}]]
      /\ slot \in Nat /\ 0 \in -1..Lease /\ Lease \in -1..Lease
  BY BoundsAssumption, TimingAssumption, ScheduleAssumption DEF DbType, CtlType, TypeOK, PolicyRow
<1>1. CASE \/ StartSweep(c) \/ Load(c) \/ Read(c) \/ Reload(c) \/ Select(c) \/ Fresh(c)
           \/ Current(c) \/ Reread(c) \/ Discover(c) \/ GuardCheck(c) \/ GuardRecheck(c)
           \/ Readback(c)
  BY <1>0, <1>1, DbTypeSame
     DEF LocalStep, StartSweep, Load, Read, Reload, Select, Fresh, Current, Reread, Discover,
         GuardCheck, GuardRecheck, Readback
<1>2. CASE SendPatch(c) \/ WriteDeadline(c) \/ ZombiePatch(c)
  BY <1>0, <1>2, DbTypeSame DEF SendPatch, WriteDeadline, ZombiePatch
<1>3. CASE ReleaseFirst(c)
  BY <1>0, <1>3, ReleaseExpiredType DEF ReleaseFirst, DbType
<1>4. CASE RecordUnavailable(c)
  <2>1. Failing(policy) \in PolicyRow
    BY <1>0, FailingType
  <2> QED
    BY <1>0, <1>4, <2>1 DEF RecordUnavailable, DbType
<1>5. CASE ResolvePending(c)
  <2>1. /\ ctl[c].snap.pending \in Modes \cup {None} /\ ctl[c].actual \in Observed \cup {None}
    BY <1>0, CtlFields DEF Snapshots
  <2>2. /\ Verified(policy, ctl[c].actual) \in PolicyRow
        /\ MarkPending(policy, None, 0) \in PolicyRow
    BY <1>0, <2>1, VerifiedType, MarkPendingType
  <2>3. policy' \in PolicyRow
    BY <1>0, <1>5, <2>2 DEF ResolvePending
  <2>4. ops' \in [Tokens -> [state : RowStates, target : Modes \cup {None}]]
    BY <1>0, <1>5 DEF ResolvePending, RowStates, Outcomes
  <2>5. backoff' \in BOOLEAN
    BY <1>0, <1>5 DEF ResolvePending, DbType
  <2> QED
    BY <1>0, <1>5, <2>3, <2>4, <2>5 DEF ResolvePending, DbType
<1>6. CASE HoldExternalDrift(c)
  <2>1. DriftHoldUntil(ctl[c].actual) \in Nat
    BY <1>0 DEF DriftHoldUntil
  <2>2. [policy EXCEPT !.hold = TRUE, !.holdUntil = DriftHoldUntil(ctl[c].actual),
                       !.version = @ + 1] \in PolicyRow
    <3>1. policy.version + 1 \in Nat
      BY <1>0 DEF PolicyRow
    <3> QED
      BY <1>0, <2>1, <3>1 DEF PolicyRow
  <2> QED
    BY <1>0, <1>6, <2>2 DEF HoldExternalDrift, DbType
<1>7. CASE ReleaseDriftHold(c)
  <2>0. ctl[c].actual \in Observed \cup {None}
    BY <1>0, CtlFields
  <2>1. [policy EXCEPT !.hold = FALSE, !.holdUntil = 0, !.verified = ctl[c].actual,
                       !.version = @ + 1] \in PolicyRow
    <3>1. policy.version + 1 \in Nat
      BY <1>0 DEF PolicyRow
    <3> QED
      BY <1>0, <2>0, <3>1 DEF PolicyRow
  <2> QED
    BY <1>0, <1>7, <2>1 DEF ReleaseDriftHold, DbType
<1>8. CASE Observe(c)
  <2>0. ctl[c].actual \in Observed \cup {None}
    BY <1>0, CtlFields
  <2>1. [policy EXCEPT !.verified = ctl[c].actual, !.failures = 0] \in PolicyRow
    BY <1>0, <2>0 DEF PolicyRow
  <2> QED
    BY <1>0, <1>8, <2>1 DEF Observe, DbType
<1>9. CASE Claim(c)
  <2>1. lastToken \in Nat
    BY BoundsAssumption, <1>0 DEF DbType
  <2>2. [policy EXCEPT !.token = lastToken + 1] \in PolicyRow
    BY <1>0, <2>1 DEF PolicyRow
  <2>3. policy' \in PolicyRow /\ leaseLeft' \in -1..Lease
    BY <1>0, <1>9, <2>2 DEF Claim, DbType
  <2>4. lastToken' \in 0..MaxClaims
    BY <1>0, <1>9, <2>1, BoundsAssumption DEF Claim, DbType
  <2> QED
    BY <1>0, <1>9, <2>3, <2>4 DEF Claim, DbType
<1>10. CASE RenewClaim(c)
  BY <1>0, <1>10 DEF RenewClaim, DbType
<1>11. CASE RecordRequested(c) \/ ZombieRecord(c)
  <2>1. /\ ctl[c].sel.target \in Modes \cup {None} /\ zombie[c].target \in Modes \cup {None}
    BY <1>0, CtlFields DEF Selections, TypeOK, Zombies
  <2>2. \A t, target : target \in Modes \cup {None} =>
           [ops EXCEPT ![t] = [state |-> "requested", target |-> target]]
              \in [Tokens -> [state : RowStates, target : Modes \cup {None}]]
    BY <1>0 DEF RowStates
  <2> QED
    BY <1>0, <1>11, <2>1, <2>2 DEF RecordRequested, ZombieRecord, InsertRequested, DbType
<1>12. CASE Finish(c)
  BY <1>12, FinishType
<1> QED
  BY <1>1, <1>2, <1>3, <1>4, <1>5, <1>6, <1>7, <1>8, <1>9, <1>10, <1>11, <1>12
     DEF Work, Background

\* What the three ways of moving a controller change.
LEMMA GotoEffect ==
    ASSUME CtlType, NEW c \in Controllers, NEW st, Goto(c, st)
    PROVE  /\ \A d \in Controllers \ {c} : ctl'[d] = ctl[d]
           /\ ctl'[c].pc = st /\ ctl'[c].token = ctl[c].token /\ ctl'[c].sel = ctl[c].sel
           /\ ctl'[c].writeLeft = ctl[c].writeLeft /\ ctl'[c].sent = ctl[c].sent
  BY DEF CtlType, Goto, CtlRecords

LEMMA EndEffect ==
    ASSUME CtlType, NEW c \in Controllers, NEW o, EndWith(c, o)
    PROVE  /\ \A d \in Controllers \ {c} : ctl'[d] = ctl[d]
           /\ ctl'[c].pc = "finish" /\ ctl'[c].token = ctl[c].token /\ ctl'[c].sel = ctl[c].sel
           /\ ctl'[c].writeLeft = ctl[c].writeLeft /\ ctl'[c].sent = ctl[c].sent
  BY DEF CtlType, EndWith, CtlRecords

LEMMA ReturnEffect ==
    ASSUME CtlType, NEW c \in Controllers, Return(c)
    PROVE  /\ \A d \in Controllers \ {c} : ctl'[d] = ctl[d]
           /\ ctl'[c].pc = "idle" /\ ctl'[c].token = 0 /\ ~ctl'[c].sent
  BY DEF CtlType, Return, IdleCtl

\* When one controller moves: what it has to show about itself, and what the
\* claim must keep for the others, for ClaimInv to survive.
LEMMA ClaimInvMove ==
    ASSUME CtlType, ClaimInv, NEW c \in Controllers,
           \A d \in Controllers \ {c} : ctl'[d] = ctl[d],
           lastToken' = lastToken, lastToken \in Nat,
           policy'.token <= lastToken,
           IF ctl'[c].pc \in ClaimSteps
              THEN ctl[c].pc \in ClaimSteps /\ ctl'[c].token = ctl[c].token
              ELSE ctl'[c].token = 0,
           ctl'[c].pc \in WriteSteps => ctl'[c].writeLeft <= WriteTimeout,
           ctl'[c].pc \in DispatchSteps =>
               policy'.token = ctl'[c].token /\ ctl'[c].writeLeft <= leaseLeft',
           \A d \in Controllers \ {c} : ctl[d].pc \in DispatchSteps =>
               policy'.token = ctl[d].token /\ ctl[d].writeLeft <= leaseLeft'
    PROVE  ClaimInv'
<1>1. policy'.token <= lastToken'
  OBVIOUS
<1>2. ASSUME NEW d \in Controllers
      PROVE  /\ IF ctl'[d].pc \in ClaimSteps THEN ctl'[d].token \in 1..lastToken'
                                             ELSE ctl'[d].token = 0
             /\ ctl'[d].pc \in WriteSteps => ctl'[d].writeLeft <= WriteTimeout
             /\ ctl'[d].pc \in DispatchSteps =>
                  policy'.token = ctl'[d].token /\ ctl'[d].writeLeft <= leaseLeft'
  <2>1. CASE d = c
    BY <2>1 DEF ClaimInv
  <2>2. CASE d # c
    BY <2>2 DEF ClaimInv
  <2> QED
    BY <2>1, <2>2
<1>3. ASSUME NEW d \in Controllers, NEW e \in Controllers,
             ctl'[d].token = ctl'[e].token, ctl'[d].token # 0
      PROVE  d = e
  <2>1. \A x \in Controllers : ctl'[x].token # 0 => ctl'[x].token = ctl[x].token
    OBVIOUS
  <2> QED
    BY <2>1, <1>3 DEF ClaimInv
<1> QED
  BY <1>1, <1>2, <1>3 DEF ClaimInv, Holds

\* A controller between two claims, or within one before its dispatch.
LEMMA ClaimInvStep ==
    ASSUME CtlType, ClaimInv, NEW c \in Controllers, lastToken \in Nat, policy.token \in Nat,
           UNCHANGED lastToken, policy'.token = policy.token,
           leaseLeft' = leaseLeft,
           \A d \in Controllers \ {c} : ctl'[d] = ctl[d],
           IF ctl'[c].pc \in ClaimSteps
              THEN ctl[c].pc \in ClaimSteps /\ ctl'[c].token = ctl[c].token
              ELSE ctl'[c].token = 0,
           ctl'[c].pc \in WriteSteps => ctl'[c].writeLeft <= WriteTimeout,
           ctl'[c].pc \in DispatchSteps =>
               ctl[c].pc \in DispatchSteps /\ ctl'[c].writeLeft = ctl[c].writeLeft
    PROVE  ClaimInv'
<1>1. \A d \in Controllers : ctl[d].pc \in DispatchSteps =>
         policy.token = ctl[d].token /\ ctl[d].writeLeft <= leaseLeft
  BY DEF ClaimInv, Holds
<1>2. policy'.token <= lastToken
  BY DEF ClaimInv
<1>3. ctl'[c].pc \in DispatchSteps => ctl'[c].pc \in ClaimSteps
  BY DEF DispatchSteps, ClaimSteps, WriteSteps
<1> QED
  BY <1>1, <1>2, <1>3, ClaimInvMove

\* Which changes of the policy row move the claim.
LEMMA TokenAfter ==
    ASSUME NEW p \in PolicyRow, NEW m, NEW t
    PROVE  /\ Unclaim(p).token = 0 /\ MarkPending(p, m, t).token = p.token
           /\ Verified(p, m).token = p.token /\ Failing(p).token = p.token
  BY DEF Unclaim, MarkPending, Verified, Failing, PolicyRow

\* Every step of a running controller keeps ClaimInv.
LEMMA ClaimInvWork ==
    ASSUME TypeOK, ClaimInv, NEW c \in Controllers, StartSweep(c) \/ Work(c) \/ Background(c)
    PROVE  ClaimInv'
<1>0. /\ CtlType /\ lastToken \in Nat /\ policy.token \in Nat /\ policy \in PolicyRow
      /\ leaseLeft \in Int /\ Lease \in Nat
  BY BoundsAssumption, TimingAssumption DEF CtlType, TypeOK, PolicyRow
<1>a. /\ IF ctl[c].pc \in ClaimSteps THEN ctl[c].token \in 1..lastToken ELSE ctl[c].token = 0
      /\ ctl[c].pc \in WriteSteps => ctl[c].writeLeft <= WriteTimeout
      /\ policy.token <= lastToken
  BY DEF ClaimInv
<1>b. \A d \in Controllers : ctl[d].pc \in DispatchSteps =>
         /\ policy.token = ctl[d].token /\ ctl[d].writeLeft <= leaseLeft
         /\ ctl[d].token \in 1..lastToken /\ ctl[d].writeLeft \in Nat
         /\ ctl[d].writeLeft <= WriteTimeout
  BY <1>0 DEF ClaimInv, Holds, CtlType, CtlRecords, DispatchSteps, ClaimSteps, WriteSteps
<1> USE DEF ClaimSteps, WriteSteps, DispatchSteps
<1>1. CASE StartSweep(c)
  BY <1>0, <1>a, <1>1, GotoEffect, ClaimInvStep DEF StartSweep, At, LocalStep, dbVars
<1>2. CASE ReleaseFirst(c)
  <2>1. \A d \in Controllers \ {c} : ctl[d].pc \in DispatchSteps =>
           policy'.token = ctl[d].token /\ ctl[d].writeLeft <= leaseLeft'
    BY <1>0, <1>b, <1>2 DEF ReleaseFirst, ReleaseExpiredClaim, LeaseExpired
  <2>2. policy'.token <= lastToken
    BY <1>0, <1>a, <1>2, TokenAfter, UnclaimType DEF ReleaseFirst, ReleaseExpiredClaim
  <2> QED
    BY <1>0, <1>a, <1>2, <2>1, <2>2, GotoEffect, ClaimInvMove DEF ReleaseFirst, At
<1>3. CASE Load(c)
  BY <1>0, <1>a, <1>3, ReturnEffect, ClaimInvStep DEF Load, At, LocalStep, dbVars, CtlType, CtlRecords
<1>4. CASE Read(c)
  BY <1>0, <1>a, <1>4, ReturnEffect, GotoEffect, ClaimInvStep
     DEF Read, At, LocalStep, dbVars, CtlType, CtlRecords, AfterResolve
<1>5. CASE RecordUnavailable(c)
  <2>1. policy'.token = policy.token
    BY <1>0, <1>5 DEF RecordUnavailable, Failing, PolicyRow
  <2> QED
    BY <1>0, <1>a, <1>5, <2>1, ReturnEffect, ClaimInvStep DEF RecordUnavailable, At
<1>6. CASE ResolvePending(c)
  <2>1. policy'.token = policy.token
    BY <1>0, <1>6, TokenAfter DEF ResolvePending
  <2>2. /\ \A d \in Controllers \ {c} : ctl'[d] = ctl[d]
        /\ ctl'[c].pc \in {"drift", "unhold", "decide"} /\ ctl'[c].token = ctl[c].token
    BY <1>0, <1>6 DEF ResolvePending, AfterResolve, CtlType, CtlRecords
  <2>3. UNCHANGED <<lastToken, leaseLeft>> /\ ctl[c].pc = "resolve"
    BY <1>6 DEF ResolvePending, At
  <2> QED
    BY <1>0, <1>a, <2>1, <2>2, <2>3, ClaimInvStep
<1>7. CASE HoldExternalDrift(c)
  <2>1. policy'.token = policy.token
    BY <1>0, <1>7 DEF HoldExternalDrift, PolicyRow
  <2> QED
    BY <1>0, <1>a, <1>7, <2>1, ReturnEffect, GotoEffect, ClaimInvStep DEF HoldExternalDrift, At
<1>8. CASE ReleaseDriftHold(c)
  <2>1. policy'.token = policy.token
    BY <1>0, <1>8 DEF ReleaseDriftHold, PolicyRow
  <2> QED
    BY <1>0, <1>a, <1>8, <2>1, GotoEffect, ClaimInvStep DEF ReleaseDriftHold, At
<1>9. CASE Reload(c)
  BY <1>0, <1>a, <1>9, ReturnEffect, ClaimInvStep DEF Reload, At, LocalStep, dbVars, CtlType, CtlRecords
<1>10. CASE Observe(c)
  <2>1. policy'.token = policy.token
    BY <1>0, <1>10 DEF Observe, PolicyRow
  <2> QED
    BY <1>0, <1>a, <1>10, <2>1, ReturnEffect, ClaimInvStep DEF Observe, At
<1>11. CASE Select(c)
  BY <1>0, <1>a, <1>11, ReturnEffect, ClaimInvStep DEF Select, At, LocalStep, dbVars, CtlType, CtlRecords
<1>12. CASE Claim(c)
  <2>1. CASE ~(Claimable(ctl[c].snap) /\ lastToken < MaxClaims)
    BY <1>0, <1>a, <1>12, <2>1, ReturnEffect, ClaimInvStep DEF Claim, At
  <2>2. CASE Claimable(ctl[c].snap) /\ lastToken < MaxClaims
    <3>1. policy.token = 0 /\ \A d \in Controllers : ctl[d].pc \notin DispatchSteps
      BY <1>b, <2>2 DEF Claimable, Unclaimed
    <3>2. /\ lastToken' = lastToken + 1 /\ policy'.token = lastToken + 1
          /\ \A d \in Controllers \ {c} : ctl'[d] = ctl[d]
          /\ ctl'[c].pc = "fresh" /\ ctl'[c].token = lastToken + 1
      BY <1>0, <1>12, <2>2 DEF Claim, PolicyRow, CtlType, CtlRecords
    <3>3. \A d \in Controllers \ {c} : ctl[d].token # lastToken + 1
      BY <1>0 DEF ClaimInv
    <3> QED
      BY <1>0, <3>1, <3>2, <3>3 DEF ClaimInv, Holds
  <2> QED
    BY <2>1, <2>2
<1>13. CASE Fresh(c)
  BY <1>0, <1>a, <1>13, EndEffect, ClaimInvStep DEF Fresh, At, LocalStep, dbVars, CtlType, CtlRecords
<1>14. CASE Current(c) \/ GuardCheck(c)
  BY <1>0, <1>a, <1>14, EndEffect, GotoEffect, ClaimInvStep DEF Current, GuardCheck, At, LocalStep, dbVars
<1>15. CASE RenewClaim(c)
  <2>1. leaseLeft' = Lease \/ leaseLeft' = leaseLeft
    BY <1>15 DEF RenewClaim
  <2> QED
    BY <1>0, <1>a, <1>b, <1>15, <2>1, TimingAssumption, EndEffect, GotoEffect, ClaimInvMove DEF RenewClaim, At
<1>16. CASE Reread(c)
  BY <1>0, <1>a, <1>16, EndEffect, ClaimInvStep DEF Reread, At, LocalStep, dbVars, CtlType, CtlRecords
<1>17. CASE Discover(c)
  BY <1>0, <1>a, <1>17, EndEffect, GotoEffect, ClaimInvStep DEF Discover, At, LocalStep, dbVars
<1>18. CASE GuardRecheck(c)
  BY <1>0, <1>a, <1>18, EndEffect, GotoEffect, ClaimInvStep DEF GuardRecheck, At, LocalStep, dbVars
<1>19. CASE RecordRequested(c)
  <2>1. CASE ~MayRecord(ctl[c].token)
    BY <1>0, <1>a, <1>19, <2>1, EndEffect, ClaimInvStep DEF RecordRequested, At
  <2>2. CASE MayRecord(ctl[c].token)
    <3>1. leaseLeft' = Lease /\ policy.token = ctl[c].token /\ UNCHANGED <<policy, lastToken>>
      BY <1>19, <2>2 DEF RecordRequested, InsertRequested, MayRecord, Holds
    <3>2. /\ \A d \in Controllers \ {c} : ctl'[d] = ctl[d]
          /\ ctl[c].pc = "record" /\ ctl'[c].pc = "patch"
          /\ ctl'[c].token = ctl[c].token /\ ctl'[c].writeLeft = ctl[c].writeLeft
      BY <1>0, <1>19, <2>2 DEF RecordRequested, At, CtlType, CtlRecords
    <3>3. ctl[c].writeLeft \in Nat
      BY <1>0, CtlFields
    <3> QED
      BY <1>0, <1>a, <1>b, <3>1, <3>2, <3>3, TimingAssumption, ClaimInvMove
  <2> QED
    BY <2>1, <2>2
<1>20. CASE SendPatch(c)
  BY <1>0, <1>a, <1>20, EndEffect, GotoEffect, ClaimInvStep DEF SendPatch, At, LocalStep, dbVars
<1>21. CASE Readback(c)
  BY <1>0, <1>a, <1>21, EndEffect, ClaimInvStep DEF Readback, At, LocalStep, dbVars
<1>22. CASE WriteDeadline(c)
  BY <1>0, <1>a, <1>22, EndEffect, ClaimInvStep DEF WriteDeadline, At, dbVars
<1>23. CASE Finish(c)
  <2>1. \/ ~Holds(ctl[c].token) /\ UNCHANGED <<policy, leaseLeft>>
        \/ Holds(ctl[c].token) /\ policy'.token = 0
    BY <1>0, <1>23, TokenAfter, UnclaimType, FailingType DEF Finish
  <2>2. \A d \in Controllers \ {c} : ctl[d].pc \in DispatchSteps => ~Holds(ctl[c].token)
    BY <1>b, <1>23, <1>a DEF ClaimInv, Holds, Finish, At
  <2>3. UNCHANGED lastToken /\ ctl'[c].pc = "idle" /\ ctl'[c].token = 0
        /\ \A d \in Controllers \ {c} : ctl'[d] = ctl[d]
    BY <1>0, <1>23, ReturnEffect DEF Finish
  <2>4. policy'.token <= lastToken
    BY <1>0, <1>a, <2>1
  <2>5. \A d \in Controllers \ {c} : ctl[d].pc \in DispatchSteps =>
           policy'.token = ctl[d].token /\ ctl[d].writeLeft <= leaseLeft'
    BY <1>b, <2>1, <2>2
  <2> QED
    BY <1>0, <2>3, <2>4, <2>5, ClaimInvMove
<1>24. CASE ZombieRecord(c)
  <2>1. /\ UNCHANGED <<policy, lastToken, ctl>>
        /\ leaseLeft' = Lease \/ leaseLeft' = leaseLeft
    BY <1>24 DEF ZombieRecord, InsertRequested
  <2> QED
    BY <1>0, <1>a, <1>b, <2>1, TimingAssumption DEF ClaimInv, Holds
<1>25. CASE ZombiePatch(c)
  BY <1>0, <1>a, <1>25, ClaimInvStep DEF ZombiePatch, dbVars
<1> QED
  BY <1>1, <1>2, <1>3, <1>4, <1>5, <1>6, <1>7, <1>8, <1>9, <1>10, <1>11, <1>12, <1>13, <1>14, <1>15, <1>16, <1>17, <1>18, <1>19, <1>20, <1>21, <1>22, <1>23, <1>24, <1>25 DEF Work, Background

\* The hardware, the calls that outlived their deadline and the resume request.
RestType ==
    /\ foreign \in BOOLEAN /\ slot \in 1..Len(Schedule) /\ mode \in Observed
    /\ inflight \subseteq Tokens /\ patched \subseteq Tokens
    /\ zombie \in [Controllers -> Zombies]
    /\ resume \in [ver : Nat, mode : Modes \cup {None}]

\* Every step of a running controller keeps them typed.
LEMMA RestTypeWork ==
    ASSUME IInv, NEW c \in Controllers, StartSweep(c) \/ Work(c) \/ Background(c)
    PROVE  RestType'
<1>0. /\ RestType /\ CtlType /\ lastToken \in 0..MaxClaims /\ MaxClaims \in Nat
  BY BoundsAssumption DEF IInv, TypeOK, RestType, CtlType
<1>a. /\ ctl[c].pc \in ClaimSteps => ctl[c].token \in Tokens /\ ctl[c].sel.target \in Modes
      /\ zombie[c].step # "none" => zombie[c].token \in Tokens
  BY <1>0 DEF IInv, ClaimInv, SentInv
<1>1. CASE UNCHANGED <<hwVars, slot, zombie, resume>>
  BY <1>0, <1>1 DEF RestType, hwVars
<1>2. CASE SendPatch(c)
  <2>1. ctl[c].token \in Tokens /\ ctl[c].sel.target \in Observed
    BY <1>a, <1>2 DEF SendPatch, At, ClaimSteps, WriteSteps
  <2> QED
    BY <1>0, <1>2, <2>1 DEF SendPatch, RestType
<1>3. CASE WriteDeadline(c)
  <2>1. [step |-> ctl[c].pc, token |-> ctl[c].token, target |-> ctl[c].sel.target] \in Zombies
          \/ ctl[c].pc \notin {"record", "patch"}
    BY <1>0, CtlFields DEF Zombies, Selections
  <2> QED
    BY <1>0, <1>3, <2>1 DEF WriteDeadline, RestType, hwVars
<1>4. CASE ZombieRecord(c)
  BY <1>0, <1>4, BlankType DEF ZombieRecord, RestType, hwVars
<1>5. CASE ZombiePatch(c)
  <2>1. zombie[c].token \in Tokens
    BY <1>a, <1>5 DEF ZombiePatch
  <2> QED
    BY <1>0, <1>5, <2>1, BlankType DEF ZombiePatch, RestType
<1> QED
  BY <1>1, <1>2, <1>3, <1>4, <1>5
     DEF Work, Background, LocalStep, DbStep, StartSweep, ReleaseFirst, Load, Read, RecordUnavailable,
         ResolvePending, HoldExternalDrift, ReleaseDriftHold, Reload, Observe, Select, Claim, Fresh,
         Current, RenewClaim, Reread, Discover, GuardCheck, GuardRecheck, RecordRequested, Readback,
         Finish

\* When one controller moves and the zombies, the claim count and the PATCHes
\* under way stay: rows may be written, but never taken back.
LEMMA SentInvMove ==
    ASSUME SentInv, NEW c \in Controllers,
           \A d \in Controllers \ {c} : ctl'[d] = ctl[d],
           \A t \in Tokens : ops'[t].state # "none" => ops'[t].target \in Modes,
           \A t \in Tokens : ops[t].state # "none" => ops'[t].state # "none",
           inflight' \subseteq inflight, inflight \subseteq Tokens,
           \A d \in Controllers : /\ ctl[d].sent => ctl[d].token \in Tokens
                                  /\ zombie[d].step # "none" => zombie[d].token \in Tokens,
           zombie' = zombie, lastToken' \in Nat, lastToken \in Nat, lastToken <= lastToken',
           ctl'[c].pc \in ClaimSteps \cup {"claim"} => ctl'[c].sel.target \in Modes,
           ctl'[c].pc \in DispatchSteps => ctl'[c].sent,
           ctl'[c].sent => ctl'[c].pc \in ClaimSteps /\ ops'[ctl'[c].token].state # "none"
    PROVE  SentInv'
<1>1. \A t \in inflight' : ops'[t].state # "none"
  BY DEF SentInv
<1>2. ASSUME NEW d \in Controllers
      PROVE  /\ ctl'[d].pc \in ClaimSteps \cup {"claim"} => ctl'[d].sel.target \in Modes
             /\ ctl'[d].pc \in DispatchSteps => ctl'[d].sent
             /\ ctl'[d].sent => ctl'[d].pc \in ClaimSteps /\ ops'[ctl'[d].token].state # "none"
             /\ zombie'[d].step # "none" => zombie'[d].token \in 1..lastToken' /\ zombie'[d].target \in Modes
             /\ zombie'[d].step = "patch" => ops'[zombie'[d].token].state # "none"
  <2>1. CASE d = c
    BY <2>1 DEF SentInv
  <2>2. CASE d # c
    BY <2>2 DEF SentInv
  <2> QED
    BY <2>1, <2>2
<1> QED
  BY <1>1, <1>2 DEF SentInv

\* Every step of a running controller keeps SentInv.
LEMMA SentInvWork ==
    ASSUME IInv, NEW c \in Controllers, StartSweep(c) \/ Work(c) \/ Background(c)
    PROVE  SentInv'
<1>0. /\ CtlType /\ SentInv /\ lastToken \in 0..MaxClaims /\ MaxClaims \in Nat
      /\ inflight \subseteq Tokens
      /\ ops \in [Tokens -> [state : RowStates, target : Modes \cup {None}]]
      /\ policy.token \in Nat
  BY BoundsAssumption DEF IInv, TypeOK, CtlType, PolicyRow
<1>a. \A d \in Controllers :
         /\ ctl[d].pc \in ClaimSteps => ctl[d].token \in Tokens /\ ctl[d].token \in 1..lastToken
         /\ ctl[d].pc \in ClaimSteps \cup {"claim"} => ctl[d].sel.target \in Modes
         /\ ctl[d].pc \in DispatchSteps => ctl[d].sent
         /\ ctl[d].sent => /\ ctl[d].pc \in ClaimSteps /\ ctl[d].token \in Tokens
                           /\ ops[ctl[d].token].state # "none"
         /\ zombie[d].step # "none" => zombie[d].token \in Tokens
  BY <1>0 DEF IInv, ClaimInv, SentInv, DispatchSteps, ClaimSteps, WriteSteps
<1>b. \A t \in Tokens : ops[t].state # "none" => ops[t].target \in Modes
  BY DEF IInv, SentInv
<1> USE DEF ClaimSteps, WriteSteps, DispatchSteps
<1>1. CASE StartSweep(c) \/ Current(c) \/ GuardCheck(c) \/ GuardRecheck(c) \/ Readback(c) \/ Discover(c)
  BY <1>0, <1>a, <1>b, <1>1, GotoEffect, EndEffect, SentInvMove
     DEF StartSweep, Current, GuardCheck, GuardRecheck, Readback, Discover, At, LocalStep, dbVars, hwVars
<1>2. CASE Load(c) \/ Read(c) \/ Reload(c) \/ Fresh(c)
  <2> DEFINE Ends == Return(c) \/ \E o : EndWith(c, o) /\ ctl[c].pc \in ClaimSteps
             Goes == /\ \A d \in Controllers \ {c} : ctl'[d] = ctl[d]
                     /\ ctl'[c].sent = ctl[c].sent /\ ctl'[c].token = ctl[c].token
                     /\ ctl'[c].sel = ctl[c].sel
                     /\ \/ ctl'[c].pc \notin ClaimSteps \cup {"claim"} /\ ctl[c].pc \notin ClaimSteps
                        \/ ctl'[c].pc = "current" /\ ctl[c].pc = "fresh"
  <2>1. CASE Ends
    <3>0. UNCHANGED <<ops, lastToken, inflight, zombie>>
      BY <1>2 DEF Load, Read, Reload, Fresh, LocalStep, dbVars, hwVars
    <3>1. CASE Return(c)
      <4>1. /\ \A d \in Controllers \ {c} : ctl'[d] = ctl[d]
            /\ ctl'[c].pc = "idle" /\ ~ctl'[c].sent
        BY <1>0, <3>1, ReturnEffect
      <4> QED BY <1>0, <1>a, <1>b, <3>0, <4>1, SentInvMove
    <3>2. ASSUME NEW o, EndWith(c, o), ctl[c].pc \in ClaimSteps
          PROVE  SentInv'
      <4>1. /\ \A d \in Controllers \ {c} : ctl'[d] = ctl[d]
            /\ ctl'[c].pc = "finish" /\ ctl'[c].token = ctl[c].token
            /\ ctl'[c].sel = ctl[c].sel /\ ctl'[c].sent = ctl[c].sent
        BY <1>0, <3>2, EndEffect
      <4> QED BY <1>0, <1>a, <1>b, <3>0, <3>2, <4>1, SentInvMove
    <3> QED BY <2>1, <3>1, <3>2
  <2>2. CASE Goes
    BY <1>0, <1>a, <1>b, <1>2, <2>2, SentInvMove DEF Load, Read, Reload, Fresh, LocalStep, dbVars, hwVars
  <2>3. CASE Load(c) \/ Reload(c) \/ Fresh(c)
    <3>1. Ends \/ Goes
      BY <1>0, <2>3 DEF Load, Reload, Fresh, At, CtlType, CtlRecords
    <3> QED
      BY <2>1, <2>2, <3>1
  <2>4. CASE Read(c)
    <3>1. Ends \/ Goes
      BY <1>0, <2>4, GotoEffect DEF Read, AfterResolve, At, CtlType, CtlRecords
    <3> QED
      BY <2>1, <2>2, <3>1
  <2> QED
    BY <1>2, <2>3, <2>4
<1>3. CASE RecordUnavailable(c) \/ HoldExternalDrift(c) \/ ReleaseDriftHold(c) \/ Observe(c) \/ RenewClaim(c)
  BY <1>0, <1>a, <1>b, <1>3, GotoEffect, EndEffect, ReturnEffect, SentInvMove
     DEF RecordUnavailable, HoldExternalDrift, ReleaseDriftHold, Observe, RenewClaim, At, DbStep, hwVars
<1>4. CASE Select(c)
  <2>1. CASE Return(c)
    BY <1>0, <1>a, <1>b, <1>4, <2>1, ReturnEffect, SentInvMove DEF Select, LocalStep, dbVars, hwVars
  <2>2. CASE ctl' = [ctl EXCEPT ![c].pc = "claim",
                                ![c].sel = Decision(ctl[c].snap, ctl[c].actual, IsManual(c))]
    <3>1. Decision(ctl[c].snap, ctl[c].actual, IsManual(c)).target \in Modes
      <4>1. Decision(ctl[c].snap, ctl[c].actual, IsManual(c)) \in Selections
        <5>1. TypeOK /\ IsManual(c) \in BOOLEAN /\ ctl[c].snap \in Snapshots
          BY <1>0, CtlFields DEF IInv, IsManual
        <5> QED
          BY <5>1, DecisionType
      <4>2. Decision(ctl[c].snap, ctl[c].actual, IsManual(c)).target # None
        BY <1>4 DEF Select
      <4> QED
        BY <4>1, <4>2 DEF Selections
    <3>2. /\ \A d \in Controllers \ {c} : ctl'[d] = ctl[d]
          /\ ctl'[c].pc = "claim" /\ ctl'[c].sent = ctl[c].sent /\ ctl[c].pc = "decide"
          /\ ctl'[c].sel = Decision(ctl[c].snap, ctl[c].actual, IsManual(c))
      BY <1>0, <1>4, <2>2 DEF CtlType, CtlRecords, Select, At
    <3> QED
      BY <1>0, <1>a, <1>b, <1>4, <3>1, <3>2, SentInvMove DEF Select, LocalStep, dbVars, hwVars
  <2> QED
    BY <1>4, <2>1, <2>2 DEF Select
<1>5. CASE Claim(c)
  <2>1. /\ lastToken' \in Nat /\ lastToken <= lastToken'
    BY <1>0, <1>5 DEF Claim
  <2>2. CASE Return(c)
    BY <1>0, <1>a, <1>b, <1>5, <2>1, <2>2, ReturnEffect, SentInvMove DEF Claim, DbStep, hwVars
  <2>3. CASE ctl' = [ctl EXCEPT ![c].pc = "fresh", ![c].token = lastToken + 1]
    <3>1. /\ \A d \in Controllers \ {c} : ctl'[d] = ctl[d]
          /\ ctl'[c].pc = "fresh" /\ ctl'[c].sel = ctl[c].sel /\ ctl[c].pc = "claim"
          /\ ctl'[c].sent = ctl[c].sent
      BY <1>0, <1>5, <2>3 DEF CtlType, CtlRecords, Claim, At
    <3> QED
      BY <1>0, <1>a, <1>b, <1>5, <2>1, <3>1, SentInvMove DEF Claim, DbStep, hwVars
  <2> QED
    BY <1>5, <2>2, <2>3 DEF Claim
<1>6. CASE Reread(c)
  <2>1. CASE \E o : EndWith(c, o)
    BY <1>0, <1>a, <1>b, <1>6, <2>1, EndEffect, SentInvMove DEF Reread, At, LocalStep, dbVars, hwVars
  <2>2. CASE ctl' = [ctl EXCEPT ![c].pc = "discover", ![c].actual = mode,
                                ![c].snap = Versions(@), ![c].writeLeft = WriteTimeout]
    <3>1. /\ \A d \in Controllers \ {c} : ctl'[d] = ctl[d]
          /\ ctl'[c].pc = "discover" /\ ctl'[c].sel = ctl[c].sel /\ ctl[c].pc = "reread"
          /\ ctl'[c].sent = ctl[c].sent /\ ctl'[c].token = ctl[c].token
      BY <1>0, <1>6, <2>2 DEF CtlType, CtlRecords, Reread, At
    <3> QED
      BY <1>0, <1>a, <1>b, <1>6, <3>1, SentInvMove DEF Reread, LocalStep, dbVars, hwVars
  <2> QED
    BY <1>6, <2>1, <2>2 DEF Reread
<1>7. CASE ReleaseFirst(c)
  <2>1. \A t \in Tokens : /\ ops'[t].target = ops[t].target
                          /\ ops'[t].state # "none" <=> ops[t].state # "none"
    <3>1. ops' = ops \/ (policy.token \in Tokens /\ ops[policy.token].state # "none"
                         /\ ops' = [ops EXCEPT ![policy.token].state = "unknown"])
      BY <1>0, <1>7 DEF ReleaseFirst, ReleaseExpiredClaim, MayHaveLeft
    <3> QED
      BY <1>0, <3>1
  <2> QED
    BY <1>0, <1>a, <1>b, <1>7, <2>1, GotoEffect, SentInvMove, SMTT(30) DEF ReleaseFirst, At, DbStep, hwVars
<1>8. CASE ResolvePending(c)
  <2>1. \A t \in Tokens : /\ ops'[t].target = ops[t].target
                          /\ ops'[t].state # "none" <=> ops[t].state # "none"
    BY <1>0, <1>8 DEF ResolvePending
  <2>2. /\ \A d \in Controllers \ {c} : ctl'[d] = ctl[d]
        /\ ctl'[c].pc \in {"drift", "unhold", "decide"} /\ ctl[c].pc = "resolve"
        /\ ctl'[c].sent = ctl[c].sent
    BY <1>0, <1>8 DEF ResolvePending, AfterResolve, At, CtlType, CtlRecords
  <2>3. UNCHANGED <<inflight, zombie, lastToken>>
    BY <1>8 DEF ResolvePending, DbStep, hwVars
  <2> QED
    BY <1>0, <1>a, <1>b, <2>1, <2>2, <2>3, SentInvMove
<1>9. CASE RecordRequested(c)
  <2>1. CASE ~MayRecord(ctl[c].token)
    BY <1>0, <1>a, <1>b, <1>9, <2>1, EndEffect, SentInvMove DEF RecordRequested, At, DbStep, hwVars
  <2>2. CASE MayRecord(ctl[c].token)
    <3>1. /\ ctl[c].pc = "record" /\ ctl'[c].pc = "patch" /\ ctl'[c].sent
          /\ ctl'[c].token = ctl[c].token /\ ctl'[c].sel = ctl[c].sel
          /\ \A d \in Controllers \ {c} : ctl'[d] = ctl[d]
      BY <1>0, <1>9, <2>2 DEF RecordRequested, At, CtlType, CtlRecords
    <3>2. ops' = [ops EXCEPT ![ctl[c].token] = [state |-> "requested", target |-> ctl[c].sel.target]]
      BY <1>9, <2>2 DEF RecordRequested, InsertRequested
    <3>3. \A t \in Tokens : ops'[t].state # "none" => ops'[t].target \in Modes
      BY <1>0, <1>a, <1>b, <3>1, <3>2
    <3>4. \A t \in Tokens : ops[t].state # "none" => ops'[t].state # "none"
      BY <1>0, <1>a, <3>1, <3>2
    <3>5. ops'[ctl[c].token].state # "none"
      BY <1>0, <1>a, <3>1, <3>2
    <3>6. UNCHANGED <<inflight, zombie, lastToken>>
      BY <1>9 DEF RecordRequested, DbStep, hwVars
    <3> QED
      BY <1>0, <1>a, <3>1, <3>3, <3>4, <3>5, <3>6, SentInvMove
  <2> QED
    BY <2>1, <2>2
<1>10. CASE Finish(c)
  <2>1. \A t \in Tokens : /\ ops'[t].target = ops[t].target
                          /\ ops[t].state # "none" => ops'[t].state # "none"
    <3>1. ctl[c].result \in Outcomes /\ "none" \notin Outcomes
      BY <1>0 DEF CtlType, CtlRecords, Outcomes
    <3> QED
      BY <1>0, <1>10, <3>1 DEF Finish
  <2>2. \A t \in Tokens : ops'[t].state # "none" => ops'[t].target \in Modes
    BY <1>0, <1>a, <1>b, <1>10, <2>1 DEF Finish
  <2> QED
    BY <1>0, <1>a, <1>10, <2>1, <2>2, ReturnEffect, SentInvMove DEF Finish, DbStep, hwVars
<1>11. CASE SendPatch(c)
  <2>1. /\ ctl[c].sent /\ ctl[c].token \in Tokens
        /\ inflight' \subseteq inflight \cup {ctl[c].token}
        /\ UNCHANGED <<ops, zombie, lastToken>>
    BY <1>a, <1>11 DEF SendPatch, At, dbVars
  <2>2. /\ ctl[c].pc = "patch" /\ ctl'[c].pc \in {"readback", "finish"}
        /\ ctl'[c].token = ctl[c].token /\ ctl'[c].sel = ctl[c].sel /\ ctl'[c].sent = ctl[c].sent
        /\ \A d \in Controllers \ {c} : ctl'[d] = ctl[d]
    BY <1>0, <1>11, GotoEffect, EndEffect DEF SendPatch, At
  <2> QED
    BY <1>0, <1>a, <1>b, <2>1, <2>2, ZenonT(40) DEF SentInv
<1>12. CASE WriteDeadline(c)
  <2>1. /\ ctl[c].pc \in WriteSteps /\ ctl'[c].pc = "finish"
        /\ ctl'[c].token = ctl[c].token /\ ctl'[c].sel = ctl[c].sel /\ ctl'[c].sent = ctl[c].sent
        /\ \A d \in Controllers \ {c} : ctl'[d] = ctl[d]
        /\ UNCHANGED <<ops, inflight, lastToken>>
    BY <1>0, <1>12, EndEffect DEF WriteDeadline, dbVars, hwVars
  <2>2. /\ \A d \in Controllers \ {c} : zombie'[d] = zombie[d]
        /\ \/ zombie'[c] = zombie[c]
           \/ /\ zombie'[c].step = ctl[c].pc /\ zombie'[c].token = ctl[c].token
              /\ zombie'[c].target = ctl[c].sel.target
    BY <1>12 DEF WriteDeadline, IInv, TypeOK
  <2>3. \A d \in Controllers : ctl'[d].token = ctl[d].token /\ ctl'[d].sel = ctl[d].sel
                               /\ ctl'[d].sent = ctl[d].sent
    BY <2>1
  <2>4. \A d \in Controllers : ctl'[d].pc = ctl[d].pc \/ ctl'[d].pc = "finish"
    BY <2>1
  <2> QED
    BY <1>0, <1>a, <1>b, <2>1, <2>2, <2>3, <2>4, SMTT(60) DEF SentInv
<1>13. CASE ZombieRecord(c)
  <2>1. zombie[c].token \in Tokens /\ zombie[c].target \in Modes
    BY <1>0, <1>a, <1>13 DEF ZombieRecord, SentInv
  <2>2. \A t \in Tokens : /\ ops'[t].state # "none" => ops'[t].target \in Modes
                          /\ ops[t].state # "none" => ops'[t].state # "none"
    BY <1>0, <1>b, <1>13, <2>1 DEF ZombieRecord, InsertRequested
  <2>3. /\ \A d \in Controllers : zombie'[d] = zombie[d] \/ zombie'[d].step = "none"
        /\ UNCHANGED <<ctl, inflight, lastToken>>
    BY <1>13 DEF ZombieRecord, NoZombie, IInv, TypeOK, hwVars
  <2> QED
    BY <1>0, <1>a, <1>b, <2>2, <2>3 DEF SentInv
<1>14. CASE ZombiePatch(c)
  <2>1. /\ inflight' = inflight \cup {zombie[c].token} /\ zombie[c].step = "patch"
        /\ \A d \in Controllers : zombie'[d] = zombie[d] \/ zombie'[d].step = "none"
        /\ UNCHANGED <<ctl, ops, lastToken>>
    BY <1>14 DEF ZombiePatch, NoZombie, IInv, TypeOK, dbVars
  <2> QED
    BY <1>0, <1>a, <1>b, <2>1 DEF SentInv
<1> QED
  BY <1>1, <1>2, <1>3, <1>4, <1>5, <1>6, <1>7, <1>8, <1>9, <1>10, <1>11, <1>12, <1>13, <1>14
     DEF Work, Background

\* The parts of IInv, as the lemmas about the other steps need them.
LEMMA IInvParts ==
    IInv => /\ DbType /\ RestType /\ CtlType /\ ClaimInv /\ SentInv
            /\ policy \in PolicyRow /\ policy.token \in Nat
            /\ lastToken \in Nat /\ leaseLeft \in Int /\ Lease \in Nat /\ slot \in Nat
            /\ inflight \subseteq Tokens
  BY BoundsAssumption, TimingAssumption, ScheduleAssumption
     DEF IInv, TypeOK, DbType, RestType, CtlType, PolicyRow

\* Admin requests that leave the controllers alone keep everything typed.
LEMMA AdminType ==
    ASSUME IInv, NEW b \in BOOLEAN,
           \/ SavePolicy(b) \/ Pause(b) \/ PauseAll(b) \/ ClearManual \/ ResumeRead
           \/ Enable \/ Disable \/ Decommission \/ ResumeCommit
    PROVE  DbType' /\ RestType' /\ policy'.token = policy.token
<1>0. DbType /\ RestType /\ policy \in PolicyRow /\ policy.version + 1 \in Nat
  BY IInvParts DEF PolicyRow
<1>1. CASE SavePolicy(b)
  <2>1. [[policy EXCEPT !.automation = b] EXCEPT !.version = @ + 1] \in PolicyRow
    BY <1>0 DEF PolicyRow
  <2> QED
    BY <1>0, <1>1, <2>1, SMTT(30) DEF SavePolicy, Edit, DbType, RestType, hwVars, PolicyRow
<1>2. CASE Pause(b)
  <2>1. [[policy EXCEPT !.paused = b] EXCEPT !.version = @ + 1] \in PolicyRow
    BY <1>0 DEF PolicyRow
  <2> QED
    BY <1>0, <1>2, <2>1, SMTT(30) DEF Pause, Edit, DbType, RestType, hwVars, PolicyRow
<1>3. CASE ClearManual
  <2>1. [[policy EXCEPT !.manual = None] EXCEPT !.version = @ + 1] \in PolicyRow
    BY <1>0 DEF PolicyRow
  <2> QED
    BY <1>0, <1>3, <2>1, SMTT(30) DEF ClearManual, Edit, DbType, RestType, hwVars, PolicyRow
<1>4. CASE ResumeCommit
  <2>1. resume.mode \in Observed \cup {None}
    BY <1>0 DEF RestType
  <2>2. [policy EXCEPT !.hold = FALSE, !.holdUntil = 0, !.verified = resume.mode,
                       !.version = @ + 1] \in PolicyRow
    BY <1>0, <2>1 DEF PolicyRow
  <2> QED
    BY <1>0, <1>4, <2>2 DEF ResumeCommit, NoResume, DbType, RestType, hwVars, PolicyRow
<1>5. CASE ResumeRead
  BY <1>0, <1>5 DEF ResumeRead, DbType, RestType, dbVars, hwVars, PolicyRow
<1>6. CASE PauseAll(b)
  BY <1>0, <1>6 DEF PauseAll, DbType, RestType, hwVars
<1>7. CASE Enable \/ Disable \/ Decommission
  <2>1. conn' \in [version : Nat, enabled : BOOLEAN, active : BOOLEAN]
    <3>1. conn \in [version : Nat, enabled : BOOLEAN, active : BOOLEAN] /\ conn.version + 1 \in Nat
      BY <1>0 DEF DbType
    <3> QED
      BY <1>7, <3>1 DEF Enable, Disable, Decommission
  <2> QED
    BY <1>0, <1>7, <2>1 DEF Enable, Disable, Decommission, DbType, RestType, hwVars
<1> QED
  BY <1>1, <1>2, <1>3, <1>4, <1>5, <1>6, <1>7

\* A step that moves no controller and neither the claim nor the operation rows
\* keeps the other two parts of the invariant.
LEMMA ClaimsKept ==
    ASSUME IInv, policy'.token = policy.token,
           UNCHANGED <<lastToken, leaseLeft, ops, ctl, zombie>>, inflight' \subseteq inflight
    PROVE  CtlType' /\ ClaimInv' /\ SentInv'
<1>1. CtlType /\ ClaimInv /\ SentInv
  BY IInvParts
<1> QED
  BY <1>1 DEF CtlType, ClaimInv, SentInv, Holds

\* Admin requests, outside changes and crashes keep the invariant.
LEMMA IInvEvent ==
    ASSUME IInv, Admin \/ Outside
    PROVE  DbType' /\ RestType' /\ CtlType' /\ ClaimInv' /\ SentInv'
<1>0. /\ DbType /\ RestType /\ CtlType /\ ClaimInv /\ SentInv
      /\ policy \in PolicyRow /\ policy.token \in Nat /\ lastToken \in Nat
  BY IInvParts
<1>1. CASE \/ \E b \in BOOLEAN : SavePolicy(b) \/ Pause(b) \/ PauseAll(b)
           \/ ClearManual \/ ResumeRead \/ Enable \/ Disable \/ Decommission
  <2>1. DbType' /\ RestType' /\ policy'.token = policy.token
    BY <1>1, AdminType
  <2>2. UNCHANGED <<lastToken, leaseLeft, ops, ctl, zombie, inflight>>
    BY <1>1 DEF SavePolicy, Pause, PauseAll, ClearManual, ResumeRead, Enable, Disable, Decommission,
                Edit, dbVars, hwVars
  <2> QED
    BY <2>1, <2>2, ClaimsKept
<1>2. ASSUME NEW c \in Manual, NEW m \in Modes, ManualRequest(c, m)
      PROVE  DbType' /\ RestType' /\ CtlType' /\ ClaimInv' /\ SentInv'
  <2>0. c \in Controllers /\ policy.version + 1 \in Nat
    BY <1>0 DEF PolicyRow
  <2>1. [[policy EXCEPT !.manual = m] EXCEPT !.version = @ + 1] \in PolicyRow
    BY <1>0, <2>0 DEF PolicyRow
  <2>2. /\ policy' \in PolicyRow /\ policy'.token = policy.token
        /\ UNCHANGED <<conn, globalPause, ops, lastToken, leaseLeft, backoff>>
        /\ UNCHANGED <<hwVars, slot, zombie, resume>>
        /\ \/ At(c, "idle") /\ Goto(c, "release")
           \/ UNCHANGED ctl
    BY <1>0, <1>2, <2>1 DEF ManualRequest, Edit, PolicyRow
  <2>3. DbType' /\ RestType'
    BY <1>0, <2>2 DEF DbType, RestType, hwVars
  <2>4. CASE UNCHANGED ctl
    BY <2>2, <2>3, <2>4, ClaimsKept DEF hwVars
  <2>5. CASE At(c, "idle") /\ Goto(c, "release")
    <3>1. CtlType'
      BY <1>0, <2>0, <2>5, GotoType DEF Steps
    <3>2. /\ \A d \in Controllers \ {c} : ctl'[d] = ctl[d]
          /\ ctl'[c].pc = "release" /\ ctl[c].pc = "idle" /\ ctl'[c].token = ctl[c].token
          /\ ctl'[c].sent = ctl[c].sent
      BY <1>0, <2>0, <2>5, GotoEffect DEF At
    <3>3. ClaimInv'
      <4>1. ctl[c].token = 0
        BY <1>0, <2>0, <3>2 DEF ClaimInv, ClaimSteps, WriteSteps
      <4> QED
        BY <1>0, <2>0, <2>2, <3>2, <4>1, ClaimInvStep DEF ClaimSteps, WriteSteps, DispatchSteps
    <3>4. SentInv'
      BY <1>0, <2>0, <2>2, <3>2 DEF SentInv, ClaimSteps, WriteSteps, DispatchSteps, hwVars
    <3> QED
      BY <2>3, <3>1, <3>3, <3>4
  <2> QED
    BY <2>2, <2>4, <2>5
<1>3. ASSUME NEW m \in Observed, ExternalChange(m)
      PROVE  DbType' /\ RestType' /\ CtlType' /\ ClaimInv' /\ SentInv'
  <2>1. DbType' /\ RestType'
    BY <1>0, <1>3 DEF ExternalChange, DbType, RestType, dbVars
  <2> QED
    BY <1>3, <2>1, ClaimsKept DEF ExternalChange, dbVars
<1>4. ASSUME NEW c \in Controllers, Crash(c)
      PROVE  DbType' /\ RestType' /\ CtlType' /\ ClaimInv' /\ SentInv'
  <2>1. DbType' /\ RestType' /\ CtlType'
    BY <1>0, <1>4, ReturnType, BlankType DEF Crash, DbType, RestType, dbVars, hwVars
  <2>2. /\ \A d \in Controllers \ {c} : ctl'[d] = ctl[d]
        /\ ctl'[c].pc = "idle" /\ ctl'[c].token = 0 /\ ~ctl'[c].sent
    BY <1>0, <1>4, ReturnEffect DEF Crash
  <2>3. ClaimInv'
    BY <1>0, <1>4, <2>2, ClaimInvStep DEF Crash, dbVars, ClaimSteps, WriteSteps, DispatchSteps
  <2>4. \A d \in Controllers : zombie'[d] = zombie[d] \/ zombie'[d].step = "none"
    BY <1>0, <1>4 DEF Crash, RestType, NoZombie
  <2>5. SentInv'
    BY <1>0, <1>4, <2>2, <2>4 DEF SentInv, Crash, dbVars, hwVars, ClaimSteps, WriteSteps, DispatchSteps
  <2> QED
    BY <2>1, <2>3, <2>5
<1> QED
  BY <1>1, <1>2, <1>3, <1>4 DEF Admin, Outside

\* Passing time, the iLO and the clearing of expired claims keep the invariant.
LEMMA IInvPassing ==
    ASSUME IInv, Passing
    PROVE  DbType' /\ RestType' /\ CtlType' /\ ClaimInv' /\ SentInv'
<1>0. /\ DbType /\ RestType /\ CtlType /\ ClaimInv /\ SentInv
      /\ policy \in PolicyRow /\ policy.token \in Nat /\ lastToken \in Nat /\ leaseLeft \in Int
  BY IInvParts
<1>1. CASE Tick
  <2>0. /\ \/ leaseLeft' = leaseLeft /\ (policy.token = 0 \/ leaseLeft <= -1)
           \/ leaseLeft' = leaseLeft - 1 /\ leaseLeft > -1
        /\ \A d \in Controllers : ctl[d].pc \in WriteSteps => ctl[d].writeLeft > 0
    <3>1. leaseLeft' = IF policy.token # 0 THEN Dec(leaseLeft, -1) ELSE leaseLeft
      BY <1>1 DEF Tick
    <3>2. \A d \in Controllers : ctl[d].pc \in WriteSteps => ctl[d].writeLeft > 0
      BY <1>1 DEF Tick
    <3> QED
      BY <1>0, <3>1, <3>2 DEF Dec
  <2>1. \A d \in Controllers :
          /\ ctl[d] \in CtlRecords /\ ctl'[d] \in CtlRecords
          /\ ctl'[d].pc = ctl[d].pc /\ ctl'[d].token = ctl[d].token
          /\ ctl'[d].sel = ctl[d].sel /\ ctl'[d].sent = ctl[d].sent
          /\ ctl'[d].writeLeft = IF ctl[d].pc \in ClaimSteps THEN Dec(ctl[d].writeLeft, 0)
                                                             ELSE ctl[d].writeLeft
    <3>1. TAKE d \in Controllers
    <3>2. ctl[d] \in CtlRecords /\ ctl[d].writeLeft \in Nat /\ ctl[d].sinceClaim \in Nat
      BY <1>0 DEF CtlType, CtlRecords
    <3>3. Dec(ctl[d].writeLeft, 0) \in Nat
      BY <3>2 DEF Dec
    <3>4. ctl'[d] = IF ctl[d].pc \in ClaimSteps
                    THEN [ctl[d] EXCEPT !.sinceClaim = IF @ <= DispatchBudget THEN @ + 1 ELSE @,
                                        !.writeLeft = Dec(@, 0)]
                    ELSE ctl[d]
      BY <1>1 DEF Tick
    <3>5. (IF ctl[d].sinceClaim <= DispatchBudget THEN ctl[d].sinceClaim + 1 ELSE ctl[d].sinceClaim) \in Nat
      BY <3>2
    <3> QED
      BY <3>2, <3>3, <3>4, <3>5 DEF CtlRecords
  <2>2. CtlType'
    BY <1>1, <2>1 DEF Tick, CtlType
  <2>3. DbType' /\ RestType'
    <3>1. leaseLeft' \in -1..Lease
      BY <1>0, <2>0, TimingAssumption DEF DbType
    <3> QED
      BY <1>0, <1>1, <3>1 DEF Tick, DbType, RestType, hwVars
  <2>4. ClaimInv'
    <3>1. \A d \in Controllers : /\ ctl[d].writeLeft \in Nat
                                 /\ ctl'[d].writeLeft <= ctl[d].writeLeft
      BY <2>1 DEF Dec, CtlRecords
    <3>2. ASSUME NEW d \in Controllers, ctl[d].pc \in DispatchSteps
          PROVE  ctl'[d].writeLeft <= leaseLeft'
      <4>1. /\ ctl[d].pc \in WriteSteps /\ ctl[d].pc \in ClaimSteps
            /\ policy.token = ctl[d].token /\ ctl[d].writeLeft <= leaseLeft
        BY <1>0, <3>2 DEF ClaimInv, Holds, DispatchSteps, WriteSteps, ClaimSteps
      <4>2. ctl[d].token # 0
        BY <1>0, <4>1 DEF ClaimInv
      <4>3. ctl[d].writeLeft > 0
        BY <2>0, <4>1
      <4>4. ctl'[d].writeLeft = ctl[d].writeLeft - 1
        BY <2>1, <3>1, <4>1, <4>3 DEF Dec
      <4> QED
        BY <1>0, <2>0, <3>1, <4>1, <4>2, <4>3, <4>4
    <3>4. UNCHANGED <<policy, lastToken>>
      BY <1>1 DEF Tick
    <3>5. \A d \in Controllers : ctl[d].pc \in WriteSteps => ctl'[d].writeLeft <= WriteTimeout
      <4>1. \A d \in Controllers : ctl'[d].writeLeft \in Nat
        BY <2>1 DEF CtlRecords
      <4> QED
        BY <1>0, <3>1, <4>1, TimingAssumption DEF ClaimInv
    <3> QED
      BY <1>0, <2>1, <3>2, <3>4, <3>5 DEF ClaimInv, Holds
  <2>5. SentInv'
    <3>1. UNCHANGED <<ops, inflight, zombie, lastToken>>
      BY <1>1 DEF Tick, hwVars
    <3> QED
      BY <1>0, <2>1, <3>1 DEF SentInv
  <2> QED
    BY <2>2, <2>3, <2>4, <2>5
<1>2. CASE SweepRelease
  <2>1. policy.token \in 0..MaxClaims
    BY <1>0, BoundsAssumption DEF ClaimInv, DbType
  <2>2. DbType' /\ RestType' /\ CtlType'
    BY <1>0, <1>2, <2>1, ReleaseExpiredType DEF SweepRelease, DbType, RestType, CtlType, hwVars
  <2>3. \A d \in Controllers : ctl[d].pc \notin DispatchSteps
    <3>1. leaseLeft < 0
      BY <1>2 DEF SweepRelease, LeaseExpired
    <3>2. \A d \in Controllers : ctl[d].writeLeft \in Nat
      BY <1>0, CtlFields
    <3> QED
      BY <1>0, <3>1, <3>2 DEF ClaimInv
  <2>4. policy'.token <= lastToken
    BY <1>0, <1>2, TokenAfter, UnclaimType DEF SweepRelease, ReleaseExpiredClaim
  <2>5. ClaimInv'
    BY <1>0, <1>2, <2>3, <2>4 DEF SweepRelease, ClaimInv
  <2>6. SentInv'
    <3>1. UNCHANGED <<inflight, zombie, ctl, lastToken>>
      BY <1>2 DEF SweepRelease, hwVars
    <3>2. ops \in [Tokens -> [state : RowStates, target : Modes \cup {None}]]
      BY <1>0 DEF DbType
    <3>3. \A t \in Tokens : /\ ops'[t].target = ops[t].target
                            /\ ops'[t].state # "none" <=> ops[t].state # "none"
      <4>1. ReleaseExpiredClaim
        BY <1>2 DEF SweepRelease
      <4>2. \/ UNCHANGED ops
            \/ /\ ops[policy.token].state = "requested"
               /\ ops' = [ops EXCEPT ![policy.token].state = "unknown"]
        BY <4>1 DEF ReleaseExpiredClaim, MayHaveLeft
      <4>3. policy.token \in Nat
        BY <1>0
      <4> QED
        BY <3>2, <4>2, <4>3, BoundsAssumption
    <3>4. /\ inflight \subseteq Tokens
          /\ \A d \in Controllers : ctl[d].sent => ctl[d].token \in Tokens
          /\ \A d \in Controllers : zombie[d].step # "none" => zombie[d].token \in Tokens
      BY <1>0, BoundsAssumption DEF ClaimInv, SentInv, RestType, DbType
    <3> QED
      BY <1>0, <3>1, <3>3, <3>4 DEF SentInv
  <2> QED
    BY <2>2, <2>5, <2>6
<1>3. CASE ResumeCommit
  <2>1. DbType' /\ RestType' /\ policy'.token = policy.token
    BY <1>3, AdminType
  <2> QED
    BY <1>3, <2>1, ClaimsKept DEF ResumeCommit, hwVars
<1>4. CASE Boundary \/ BackoffElapses
  <2>1. DbType' /\ RestType'
    <3>1. Len(Schedule) \in Nat
      BY ScheduleAssumption
    <3>2. slot' \in 1..Len(Schedule)
      BY <1>0, <1>4, <3>1 DEF Boundary, BackoffElapses, RestType
    <3> QED
      BY <1>0, <1>4, <3>2 DEF Boundary, BackoffElapses, DbType, RestType, dbVars, hwVars
  <2> QED
    BY <1>4, <2>1, ClaimsKept DEF Boundary, BackoffElapses, dbVars, hwVars
<1>5. ASSUME NEW t \in Tokens, ApplyLate(t) \/ LosePatch(t)
      PROVE  DbType' /\ RestType' /\ CtlType' /\ ClaimInv' /\ SentInv'
  <2>1. t \in inflight => ops[t].target \in Modes
    BY <1>0 DEF SentInv
  <2>2. DbType' /\ RestType'
    BY <1>0, <1>5, <2>1 DEF ApplyLate, LosePatch, DbType, RestType, dbVars
  <2> QED
    BY <1>5, <2>2, ClaimsKept DEF ApplyLate, LosePatch, dbVars
<1> QED
  BY <1>1, <1>2, <1>3, <1>4, <1>5 DEF Passing

\* The inductive invariant: IInv holds of the initial states, and every step keeps it.
LEMMA IInvInit == Init => IInv
<1> SUFFICES ASSUME Init PROVE IInv
  OBVIOUS
<1>1. TypeOK
  BY TypeInit
<1>2. \A c \in Controllers : ctl[c] = IdleCtl /\ zombie[c] = NoZombie
  BY DEF Init
<1>3. ClaimInv
  BY <1>2 DEF Init, ClaimInv, IdleCtl, ClaimSteps, WriteSteps, DispatchSteps
<1>4. SentInv
  BY <1>2 DEF Init, SentInv, IdleCtl, NoZombie, ClaimSteps, WriteSteps, DispatchSteps
<1> QED
  BY <1>1, <1>3, <1>4 DEF IInv

LEMMA IInvNext == IInv /\ [Next]_vars => IInv'
<1> SUFFICES ASSUME IInv, [Next]_vars PROVE IInv'
  OBVIOUS
<1>0. DbType /\ RestType /\ CtlType /\ ClaimInv /\ SentInv /\ events \in 0..MaxEvents
  BY IInvParts DEF IInv, TypeOK
<1>1. CASE UNCHANGED vars
  BY <1>1 DEF vars, dbVars, hwVars, IInv, TypeOK, ClaimInv, SentInv, Holds
<1>2. CASE Next
  <2>1. events' \in 0..MaxEvents
    BY <1>0, <1>2, BoundsAssumption DEF Next
  <2>2. DbType' /\ RestType' /\ CtlType' /\ ClaimInv' /\ SentInv'
    <3>1. CASE Admin \/ Outside
      BY <3>1, IInvEvent
    <3>2. CASE Passing
      BY <3>2, IInvPassing
    <3>3. ASSUME NEW c \in Controllers, StartSweep(c) \/ Work(c) \/ Background(c)
          PROVE  DbType' /\ RestType' /\ CtlType' /\ ClaimInv' /\ SentInv'
      <4>1. TypeOK /\ policy.token <= lastToken
        BY DEF IInv, ClaimInv
      <4> QED
        BY <1>0, <3>3, <4>1, DbTypeWork, RestTypeWork, CtlTypeWork, ClaimInvWork, SentInvWork
    <3> QED
      BY <1>2, <3>1, <3>2, <3>3 DEF Next
  <2> QED
    BY <2>1, <2>2 DEF IInv, TypeOK, DbType, RestType, CtlType
<1> QED
  BY <1>1, <1>2

LEMMA Invariance == Spec => []IInv
  BY IInvInit, IInvNext, PTL DEF Spec

\* The rows, the controllers and the hardware keep their types.
THEOREM TypeCorrect == Spec => []TypeOK
<1>1. IInv => TypeOK
  BY DEF IInv
<1> QED
  BY <1>1, Invariance, PTL

\* powerController.ts:106-110: for any number of controllers and any timings with
\* leaseMs > dispatchBudgetMs + writeTimeoutMs, at most one controller is between
\* its requested row and the end of its write, and it still holds a live claim.
THEOREM OneDispatcher == Spec => []SingleDispatcher
<1>1. IInv => SingleDispatcher
  <2> SUFFICES ASSUME IInv PROVE SingleDispatcher
    OBVIOUS
  <2>0. CtlType /\ ClaimInv /\ leaseLeft \in Int
    BY IInvParts
  <2>1. ASSUME NEW c \in Dispatching
        PROVE  /\ c \in Controllers /\ Holds(ctl[c].token) /\ ~LeaseExpired
               /\ ctl[c].token # 0
    <3>1. c \in Controllers /\ ctl[c].pc \in DispatchSteps
      BY DEF Dispatching
    <3>2. ctl[c].writeLeft \in Nat
      BY <2>0, <3>1, CtlFields
    <3> QED
      BY <2>0, <3>1, <3>2 DEF ClaimInv, LeaseExpired, DispatchSteps, ClaimSteps, WriteSteps
  <2> QED
    BY <2>0, <2>1 DEF SingleDispatcher, ClaimInv, Holds
<1> QED
  BY <1>1, Invariance, PTL

(***************************************************************************)
(* The claim column implements the lease of NodeLease.                     *)
(***************************************************************************)

Busy == \E c \in Controllers : ctl[c].pc \in DispatchSteps
Writers == {ctl[c].token : c \in Dispatching}

\* Whoever writes holds the claim that is in force, and that has not expired.
LEMMA WritersHold ==
    ASSUME IInv
    PROVE  /\ Busy => policy.token # 0 /\ ~LeaseExpired
           /\ Writers = IF Busy THEN {policy.token} ELSE {}
<1>0. CtlType /\ ClaimInv /\ leaseLeft \in Int
  BY IInvParts
<1>1. ASSUME NEW c \in Dispatching
      PROVE  c \in Controllers /\ ctl[c].token = policy.token /\ policy.token # 0 /\ ~LeaseExpired
  <2>1. c \in Controllers /\ ctl[c].pc \in DispatchSteps
    BY DEF Dispatching
  <2>2. ctl[c].writeLeft \in Nat
    BY <1>0, <2>1, CtlFields
  <2> QED
    BY <1>0, <2>1, <2>2 DEF ClaimInv, Holds, LeaseExpired, DispatchSteps, ClaimSteps, WriteSteps
<1>2. Busy <=> Dispatching # {}
  BY DEF Busy, Dispatching
<1> QED
  BY <1>1, <1>2 DEF Writers

\* The same, as a fact of every state of a behaviour.
WritersAre == (Busy => policy.token # 0) /\ (Writers = IF Busy THEN {policy.token} ELSE {})

LEMMA WritersFact == IInv => WritersAre
BY WritersHold DEF WritersAre

\* What a step may do to the claim: nothing, grant it anew, or give it back.
Kept == policy'.token = policy.token /\ lastToken' = lastToken
Given ==
    /\ policy.token = 0 /\ lastToken < MaxClaims
    /\ lastToken' = lastToken + 1 /\ policy'.token = lastToken + 1
    /\ \A c \in Controllers : ctl'[c].pc \in DispatchSteps => ctl[c].pc \in DispatchSteps
Returned == policy.token # 0 /\ policy'.token = 0 /\ lastToken' = lastToken /\ ~Busy

\* An expired claim is nobody's who writes.
LEMMA ReleaseMoves ==
    ASSUME IInv, ReleaseExpiredClaim, lastToken' = lastToken
    PROVE  Kept \/ Returned
<1>1. policy \in PolicyRow
  BY IInvParts
<1>2. CASE policy.token # NoToken /\ LeaseExpired
  <2>1. policy'.token = 0
    BY <1>1, <1>2, TokenAfter, UnclaimType DEF ReleaseExpiredClaim
  <2> QED
    BY <1>2, <2>1, WritersHold DEF Returned
<1>3. CASE ~(policy.token # NoToken /\ LeaseExpired)
  BY <1>3 DEF ReleaseExpiredClaim, Kept
<1> QED
  BY <1>2, <1>3

\* A running controller claims, gives back, or leaves the claim alone.
LEMMA WorkMoves ==
    ASSUME IInv, NEW c \in Controllers, StartSweep(c) \/ Work(c) \/ Background(c)
    PROVE  Kept \/ Given \/ Returned
<1>0. /\ CtlType /\ ClaimInv /\ policy \in PolicyRow /\ lastToken \in Nat
      /\ Failing(policy).token = policy.token
  BY IInvParts, TokenAfter
<1>1. CASE ReleaseFirst(c)
  BY <1>1, ReleaseMoves DEF ReleaseFirst
<1>2. CASE RecordUnavailable(c) \/ HoldExternalDrift(c) \/ ReleaseDriftHold(c) \/ Observe(c)
  BY <1>0, <1>2 DEF RecordUnavailable, HoldExternalDrift, ReleaseDriftHold, Observe, Kept, PolicyRow
<1>3. CASE ResolvePending(c)
  BY <1>0, <1>3, TokenAfter DEF ResolvePending, Kept
<1>4. CASE Claim(c)
  <2>1. CASE ~(Claimable(ctl[c].snap) /\ lastToken < MaxClaims)
    BY <1>4, <2>1 DEF Claim, Kept
  <2>2. CASE Claimable(ctl[c].snap) /\ lastToken < MaxClaims
    <3>1. policy.token = 0
      BY <2>2 DEF Claimable, Unclaimed
    <3>2. lastToken' = lastToken + 1 /\ policy'.token = lastToken + 1
      BY <1>0, <1>4, <2>2 DEF Claim, PolicyRow
    <3>3. /\ \A d \in Controllers \ {c} : ctl'[d] = ctl[d]
          /\ ctl'[c].pc = "fresh"
      BY <1>0, <1>4, <2>2 DEF Claim, CtlType, CtlRecords
    <3> QED
      BY <2>2, <3>1, <3>2, <3>3 DEF Given, DispatchSteps
  <2> QED
    BY <2>1, <2>2
<1>5. CASE Finish(c)
  <2>1. lastToken' = lastToken /\ ctl[c].pc = "finish"
    BY <1>5 DEF Finish, At
  <2>2. CASE ~Holds(ctl[c].token)
    BY <1>5, <2>1, <2>2 DEF Finish, Kept
  <2>3. CASE Holds(ctl[c].token)
    <3>1. policy'.token = 0
      BY <1>0, <1>5, <2>3, TokenAfter, UnclaimType, FailingType DEF Finish
    <3>2. policy.token = ctl[c].token /\ ctl[c].token # 0
      BY <1>0, <2>1, <2>3 DEF ClaimInv, Holds, ClaimSteps, WriteSteps
    <3>3. ASSUME NEW d \in Controllers, ctl[d].pc \in DispatchSteps PROVE FALSE
      <4>1. ctl[d].token = policy.token
        BY <1>0, <3>3 DEF ClaimInv, Holds
      <4>2. d = c
        BY <1>0, <3>2, <4>1 DEF ClaimInv
      <4> QED
        BY <2>1, <3>3, <4>2 DEF DispatchSteps
    <3> QED
      BY <2>1, <3>1, <3>2, <3>3 DEF Returned, Busy
  <2> QED
    BY <2>2, <2>3
<1>6. CASE UNCHANGED <<policy, lastToken>>
  BY <1>6 DEF Kept
<1> QED
  BY <1>1, <1>2, <1>3, <1>4, <1>5, <1>6
     DEF Work, Background, LocalStep, dbVars, StartSweep, Load, Read, Reload, Select, Fresh, Current,
         RenewClaim, Reread, Discover, GuardCheck, GuardRecheck, RecordRequested, SendPatch, Readback,
         WriteDeadline, ZombieRecord, ZombiePatch

\* Nobody else touches the claim, except to release an expired one.
LEMMA ClaimMoves ==
    ASSUME IInv, [Next]_vars
    PROVE  Kept \/ Given \/ Returned
<1>0. policy \in PolicyRow
  BY IInvParts
<1>1. CASE UNCHANGED vars
  BY <1>1 DEF vars, dbVars, Kept
<1>2. CASE \/ \E b \in BOOLEAN : SavePolicy(b) \/ Pause(b) \/ PauseAll(b)
           \/ ClearManual \/ ResumeRead \/ Enable \/ Disable \/ Decommission \/ ResumeCommit
  <2>1. policy'.token = policy.token
    BY <1>2, AdminType
  <2>2. lastToken' = lastToken
    BY <1>2 DEF SavePolicy, Pause, PauseAll, ClearManual, ResumeRead, Enable, Disable, Decommission,
                ResumeCommit, Edit, dbVars
  <2> QED
    BY <2>1, <2>2 DEF Kept
<1>3. CASE \E c \in Manual, m \in Modes : ManualRequest(c, m)
  BY <1>0, <1>3 DEF ManualRequest, Edit, Kept, PolicyRow
<1>4. CASE Outside
  BY <1>4 DEF Outside, ExternalChange, Crash, dbVars, Kept
<1>5. CASE SweepRelease
  BY <1>5, ReleaseMoves DEF SweepRelease
<1>6. CASE Tick \/ Boundary \/ BackoffElapses \/ \E t \in Tokens : ApplyLate(t) \/ LosePatch(t)
  BY <1>6 DEF Tick, Boundary, BackoffElapses, ApplyLate, LosePatch, dbVars, Kept
<1>7. CASE \E c \in Controllers : StartSweep(c) \/ Work(c) \/ Background(c)
  BY <1>7, WorkMoves
<1> QED
  BY <1>1, <1>2, <1>3, <1>4, <1>5, <1>6, <1>7 DEF Next, Admin, Passing

\* powerControlStore.ts:96-110 and 208-240: the claim column is a lease on the node.
\* Every grant is a new one, only its holder writes, and it is neither granted again
\* nor taken away while its holder writes: for any number of controllers, any timings
\* with leaseMs > dispatchBudgetMs + writeTimeoutMs, and any crashes.
THEOREM LeaseImplemented == Spec => ImplementsNodeLease
<1>1. Init => Claims!LeaseInit
  <2> SUFFICES ASSUME Init PROVE Claims!LeaseInit
    OBVIOUS
  <2>1. policy.token = 0 /\ lastToken = 0
    BY DEF Init
  <2>2. IInv /\ ~Busy
    BY IInvInit DEF Init, Busy, IdleCtl, DispatchSteps
  <2> QED
    BY <2>1, <2>2, WritersHold DEF Writers, Claims!LeaseInit
<1>2. IInv' => WritersAre'
  BY WritersFact, PTL
<1>3. IInv /\ IInv' /\ [Next]_vars => [Claims!LeaseNext]_(Claims!leaseVars)
  <2> SUFFICES ASSUME IInv, IInv', [Next]_vars
               PROVE  Claims!LeaseNext \/ UNCHANGED Claims!leaseVars
    OBVIOUS
  <2>1. /\ Busy => policy.token # 0
        /\ Writers = IF Busy THEN {policy.token} ELSE {}
    BY WritersHold
  <2>2. /\ Busy' => policy'.token # 0
        /\ Writers' = IF Busy' THEN {policy'.token} ELSE {}
    BY <1>2 DEF WritersAre
  <2>3. CASE Kept
    <3>1. CASE Busy <=> Busy'
      BY <2>1, <2>2, <2>3, <3>1 DEF Kept, Writers, Claims!leaseVars
    <3>2. CASE ~Busy /\ Busy'
      BY <2>1, <2>2, <2>3, <3>2 DEF Kept, Writers, Claims!LeaseNext, Claims!BeginWrite
    <3>3. CASE Busy /\ ~Busy'
      BY <2>1, <2>2, <2>3, <3>3 DEF Kept, Writers, Claims!LeaseNext, Claims!EndWrite
    <3> QED
      BY <3>1, <3>2, <3>3
  <2>4. CASE Given
    <3>1. ~Busy /\ ~Busy'
      BY <2>1, <2>4 DEF Given, Busy
    <3> QED
      BY <2>1, <2>2, <2>4, <3>1 DEF Given, Writers, Claims!LeaseNext, Claims!Grant
  <2>5. CASE Returned
    BY <2>1, <2>2, <2>5 DEF Returned, Writers, Claims!LeaseNext, Claims!Release
  <2> QED
    BY <2>3, <2>4, <2>5, ClaimMoves
<1> QED
  BY <1>1, <1>3, IInvInit, IInvNext, PTL DEF Spec, ImplementsNodeLease, Claims!LeaseSpec

(***************************************************************************)
(* A write that left is never forgotten.                                   *)
(***************************************************************************)

\* Tokens whose PATCH has left, or leaves although its controller gave up on it.
Departed == patched \cup {zombie[c].token : c \in {d \in Controllers : zombie[d].step = "patch"}}

\* The strengthening of SentRequestIsClaimed: it holds of abandoned writes too, and a
\* controller knows what it sent, so that its finish() settles the row.
SettleInv ==
    /\ Departed \subseteq 1..lastToken
    /\ \A t \in Departed : ops[t].state = "requested" => Holds(t)
    /\ \A c \in Controllers : ctl[c].token \in Departed => ctl[c].sent

AtPatch == {c \in Controllers : ctl[c].pc = "patch"}

\* A PATCH departs from the step that sends it, or that gives up on it.
DepartedStep == Departed' \subseteq Departed \cup {ctl[c].token : c \in AtPatch}
\* A controller keeps its token and what it knows it sent, or drops both, or claims.
TokensStep ==
    \A d \in Controllers :
        \/ ctl'[d].token = ctl[d].token /\ (ctl[d].sent => ctl'[d].sent)
        \/ ctl'[d].token \in {0, lastToken + 1}
\* A row becomes requested only under the claim it is made under.
RowsStep ==
    \A t \in Tokens : ops'[t].state = "requested" => ops[t].state = "requested" \/ Holds(t)
\* A claim that is given back leaves its row settled, if anything was sent under it.
ReturnStep ==
    Returned => ops'[policy.token].state # "requested" \/ policy.token \notin Departed

LEMMA DepartedSame ==
    ASSUME UNCHANGED <<patched, zombie>>
    PROVE  DepartedStep
  BY DEF DepartedStep, Departed

LEMMA DepartedWork ==
    ASSUME IInv, NEW c \in Controllers, StartSweep(c) \/ Work(c) \/ Background(c)
    PROVE  DepartedStep
<1>0. zombie \in [Controllers -> Zombies] /\ NoZombie \in Zombies
  BY BlankType DEF IInv, TypeOK
<1>1. CASE SendPatch(c)
  BY <1>1 DEF SendPatch, DepartedStep, Departed, AtPatch, At
<1>2. CASE WriteDeadline(c)
  <2>1. patched' = patched
    BY <1>2 DEF WriteDeadline, hwVars
  <2>2. CASE ctl[c].pc \in {"record", "patch"}
    <3>1. zombie' = [zombie EXCEPT ![c] = [step |-> ctl[c].pc, token |-> ctl[c].token,
                                           target |-> ctl[c].sel.target]]
      BY <1>2, <2>2 DEF WriteDeadline
    <3>2. /\ \A d \in Controllers \ {c} : zombie'[d] = zombie[d]
          /\ zombie'[c].step = ctl[c].pc /\ zombie'[c].token = ctl[c].token
      BY <1>0, <3>1
    <3> QED
      BY <2>1, <3>2 DEF DepartedStep, Departed, AtPatch
  <2>3. CASE ctl[c].pc \notin {"record", "patch"}
    BY <1>2, <2>1, <2>3, DepartedSame DEF WriteDeadline
  <2> QED
    BY <2>2, <2>3
<1>3. CASE ZombieRecord(c) \/ ZombiePatch(c)
  <2>1. /\ \A d \in Controllers \ {c} : zombie'[d] = zombie[d]
        /\ zombie'[c].step = "none"
    BY <1>0, <1>3 DEF ZombieRecord, ZombiePatch, NoZombie
  <2>2. \/ patched' = patched
        \/ patched' = patched \cup {zombie[c].token} /\ zombie[c].step = "patch"
    BY <1>3 DEF ZombieRecord, ZombiePatch, hwVars
  <2> QED
    BY <2>1, <2>2 DEF DepartedStep, Departed
<1>4. CASE UNCHANGED <<patched, zombie>>
  BY <1>4, DepartedSame
<1> QED
  BY <1>1, <1>2, <1>3, <1>4
     DEF Work, Background, LocalStep, DbStep, hwVars, StartSweep, ReleaseFirst, Load, Read, RecordUnavailable,
         ResolvePending, HoldExternalDrift, ReleaseDriftHold, Reload, Observe, Select, Claim, Fresh, Current,
         RenewClaim, Reread, Discover, GuardCheck, GuardRecheck, RecordRequested, Readback, Finish

LEMMA TokensWork ==
    ASSUME IInv, NEW c \in Controllers, StartSweep(c) \/ Work(c) \/ Background(c)
    PROVE  TokensStep
<1>0. CtlType
  BY IInvParts
<1>1. CASE UNCHANGED ctl
  BY <1>1 DEF TokensStep
<1>2. CASE Return(c)
  BY <1>0, <1>2 DEF Return, IdleCtl, TokensStep, CtlType
<1>3. ASSUME NEW st, Goto(c, st) PROVE TokensStep
  BY <1>0, <1>3 DEF Goto, TokensStep, CtlType, CtlRecords
<1>4. ASSUME NEW o, EndWith(c, o) PROVE TokensStep
  BY <1>0, <1>4 DEF EndWith, TokensStep, CtlType, CtlRecords
<1>5. CASE Load(c) \/ Reload(c)
  BY <1>0, <1>2, <1>3, <1>4, <1>5 DEF Load, Reload, TokensStep, CtlType, CtlRecords
<1>8. CASE Read(c)
  BY <1>0, <1>2, <1>3, <1>4, <1>8 DEF Read, TokensStep, CtlType, CtlRecords
<1>9. CASE ResolvePending(c)
  BY <1>0, <1>2, <1>3, <1>4, <1>9 DEF ResolvePending, TokensStep, CtlType, CtlRecords
<1>10. CASE Select(c)
  BY <1>0, <1>2, <1>3, <1>4, <1>10 DEF Select, TokensStep, CtlType, CtlRecords
<1>11. CASE Fresh(c)
  BY <1>0, <1>2, <1>3, <1>4, <1>11 DEF Fresh, TokensStep, CtlType, CtlRecords
<1>12. CASE Reread(c)
  BY <1>0, <1>2, <1>3, <1>4, <1>12 DEF Reread, TokensStep, CtlType, CtlRecords
<1>6. CASE Claim(c)
  BY <1>0, <1>2, <1>6 DEF Claim, TokensStep, CtlType, CtlRecords
<1>7. CASE RecordRequested(c)
  BY <1>0, <1>4, <1>7 DEF RecordRequested, TokensStep, CtlType, CtlRecords
<1> QED
  BY <1>1, <1>2, <1>3, <1>4, <1>5, <1>6, <1>7, <1>8, <1>9, <1>10, <1>11, <1>12
     DEF Work, Background, StartSweep, ReleaseFirst, RecordUnavailable,
         HoldExternalDrift, ReleaseDriftHold, Observe, Current,
         RenewClaim, Discover, GuardCheck, GuardRecheck, SendPatch, Readback, WriteDeadline, Finish,
         ZombieRecord, ZombiePatch

\* Releasing an expired claim settles its row and makes none requested.
LEMMA ReleaseRows ==
    ASSUME IInv, ReleaseExpiredClaim
    PROVE  /\ RowsStep
           /\ policy'.token # policy.token => ops'[policy.token].state # "requested"
<1>0. /\ ops \in [Tokens -> [state : RowStates, target : Modes \cup {None}]]
      /\ policy.token \in 0..MaxClaims
  BY IInvParts, BoundsAssumption DEF DbType, ClaimInv
<1>1. CASE policy.token # NoToken /\ LeaseExpired
  <2>1. policy.token \in Tokens
    BY <1>0, <1>1, BoundsAssumption
  <2>2. \/ ops[policy.token].state # "requested" /\ UNCHANGED ops
        \/ ops' = [ops EXCEPT ![policy.token].state = "unknown"]
    BY <1>1 DEF ReleaseExpiredClaim, MayHaveLeft
  <2> QED
    BY <1>0, <2>1, <2>2 DEF RowsStep
<1>2. CASE ~(policy.token # NoToken /\ LeaseExpired)
  BY <1>2 DEF ReleaseExpiredClaim, RowsStep
<1> QED
  BY <1>1, <1>2

\* finish() settles the row of the claim it gives back.
LEMMA FinishRows ==
    ASSUME IInv, SettleInv, NEW c \in Controllers, Finish(c)
    PROVE  RowsStep /\ ReturnStep
<1>0. /\ ops \in [Tokens -> [state : RowStates, target : Modes \cup {None}]]
      /\ CtlType /\ ClaimInv /\ lastToken \in 0..MaxClaims
  BY IInvParts, BoundsAssumption DEF DbType
<1>1. ctl[c].result \in Outcomes /\ "requested" \notin Outcomes
  BY <1>0 DEF CtlType, CtlRecords, Outcomes
<1>2. ctl[c].token \in Tokens
  BY <1>0, BoundsAssumption DEF ClaimInv, Finish, At, ClaimSteps
<1>3. ops' = IF ctl[c].sent THEN [ops EXCEPT ![ctl[c].token].state = ctl[c].result] ELSE ops
  BY DEF Finish
<1>4. RowsStep
  BY <1>0, <1>1, <1>2, <1>3 DEF RowsStep
<1>5. ReturnStep
  <2>1. SUFFICES ASSUME Returned, policy.token \in Departed PROVE ops'[policy.token].state # "requested"
    BY DEF ReturnStep
  <2>2. Holds(ctl[c].token)
    BY <2>1 DEF Finish, Returned
  <2>3. ctl[c].sent
    BY <2>1, <2>2 DEF SettleInv, Holds
  <2> QED
    BY <1>0, <1>1, <1>2, <1>3, <2>2, <2>3 DEF Holds
<1> QED
  BY <1>4, <1>5

LEMMA RowsWork ==
    ASSUME IInv, SettleInv, NEW c \in Controllers, StartSweep(c) \/ Work(c) \/ Background(c)
    PROVE  RowsStep /\ ReturnStep
<1>0. /\ ops \in [Tokens -> [state : RowStates, target : Modes \cup {None}]]
      /\ policy \in PolicyRow
  BY IInvParts DEF DbType
<1>1. CASE ReleaseFirst(c)
  <2>1. RowsStep /\ (policy'.token # policy.token => ops'[policy.token].state # "requested")
    BY <1>1, ReleaseRows DEF ReleaseFirst
  <2> QED
    BY <2>1 DEF ReturnStep, Returned
<1>2. CASE Finish(c)
  BY <1>2, FinishRows
<1>3. CASE ResolvePending(c)
  <2>1. policy'.token = policy.token
    BY <1>0, <1>3, TokenAfter DEF ResolvePending
  <2>2. \E u : \/ UNCHANGED ops
               \/ ops' = [ops EXCEPT ![u].state = "verified"]
               \/ ops' = [ops EXCEPT ![u].state = "not_applied"]
    BY <1>3 DEF ResolvePending
  <2> QED
    BY <1>0, <2>1, <2>2 DEF RowsStep, ReturnStep, Returned
<1>4. CASE RecordRequested(c) \/ ZombieRecord(c)
  <2>1. policy' = policy
    BY <1>4 DEF RecordRequested, ZombieRecord
  <2>2. \/ UNCHANGED ops
        \/ \E t, m : Holds(t) /\ ops' = [ops EXCEPT ![t] = [state |-> "requested", target |-> m]]
    BY <1>4 DEF RecordRequested, ZombieRecord, InsertRequested, MayRecord
  <2> QED
    BY <1>0, <2>1, <2>2 DEF RowsStep, ReturnStep, Returned
<1>5. CASE HoldExternalDrift(c) \/ ReleaseDriftHold(c) \/ Observe(c) \/ RecordUnavailable(c) \/ Claim(c)
  <2>1. ops' = ops
    BY <1>5 DEF HoldExternalDrift, ReleaseDriftHold, Observe, RecordUnavailable, Claim
  <2>2. ~Returned
    BY <1>0, <1>5, TokenAfter
       DEF HoldExternalDrift, ReleaseDriftHold, Observe, RecordUnavailable, Claim, Returned, PolicyRow,
           Claimable, Unclaimed
  <2> QED
    BY <2>1, <2>2 DEF RowsStep, ReturnStep
<1>6. CASE UNCHANGED <<policy, ops>>
  BY <1>6 DEF RowsStep, ReturnStep, Returned
<1> QED
  BY <1>1, <1>2, <1>3, <1>4, <1>5, <1>6
     DEF Work, Background, LocalStep, dbVars, StartSweep, Load, Read, Reload, Select, Fresh, Current,
         RenewClaim, Reread, Discover, GuardCheck, GuardRecheck, SendPatch, Readback,
         WriteDeadline, ZombiePatch

\* Time alone settles nothing and forgets nothing.
LEMMA TickKeeps ==
    ASSUME IInv, Tick
    PROVE  DepartedStep /\ TokensStep /\ RowsStep /\ ReturnStep
<1>0. CtlType
  BY IInvParts
<1>1. UNCHANGED <<patched, zombie, ops, policy>>
  BY Zenon DEF Tick, hwVars
<1>2. ASSUME NEW d \in Controllers
      PROVE  ctl'[d].token = ctl[d].token /\ ctl'[d].sent = ctl[d].sent
  <2>1. ctl'[d] = IF ctl[d].pc \in ClaimSteps
                  THEN [ctl[d] EXCEPT !.sinceClaim = IF @ <= DispatchBudget THEN @ + 1 ELSE @,
                                      !.writeLeft = Dec(@, 0)]
                  ELSE ctl[d]
    BY Zenon DEF Tick
  <2>2. ctl[d] \in CtlRecords
    BY <1>0 DEF CtlType
  <2> QED
    BY <2>1, <2>2 DEF CtlRecords
<1> QED
  BY <1>1, <1>2, DepartedSame DEF TokensStep, RowsStep, ReturnStep, Returned

\* The steps of everybody else.
LEMMA SettleOthers ==
    ASSUME IInv, [Next]_vars
    PROVE  \/ DepartedStep /\ TokensStep /\ RowsStep /\ ReturnStep
           \/ \E c \in Controllers : StartSweep(c) \/ Work(c) \/ Background(c)
<1>0. CtlType /\ zombie \in [Controllers -> Zombies] /\ policy \in PolicyRow
  BY IInvParts DEF IInv, TypeOK
<1>1. CASE UNCHANGED vars
  BY <1>1, DepartedSame DEF vars, dbVars, hwVars, TokensStep, RowsStep, ReturnStep, Returned
<1>2. CASE \/ \E b \in BOOLEAN : SavePolicy(b) \/ Pause(b) \/ PauseAll(b)
           \/ ClearManual \/ ResumeRead \/ Enable \/ Disable \/ Decommission \/ ResumeCommit
  <2>0. ASSUME NEW row, Edit(row) PROVE ops' = ops
    BY <2>0 DEF Edit
  <2>1. UNCHANGED <<patched, zombie, ctl, ops>>
    BY <1>2, <2>0 DEF SavePolicy, Pause, PauseAll, ClearManual, ResumeRead, Enable, Disable, Decommission,
                      ResumeCommit, dbVars, hwVars
  <2>2. ~Returned
    BY <1>2, AdminType DEF Returned
  <2> QED
    BY <2>1, <2>2, DepartedSame DEF TokensStep, RowsStep, ReturnStep
<1>7. CASE \/ Boundary \/ BackoffElapses \/ \E m \in Observed : ExternalChange(m)
           \/ \E t \in Tokens : ApplyLate(t) \/ LosePatch(t)
  <2>1. UNCHANGED <<patched, zombie, ctl, ops, policy>>
    BY <1>7 DEF Boundary, BackoffElapses, ExternalChange, ApplyLate, LosePatch, dbVars, hwVars
  <2> QED
    BY <2>1, DepartedSame DEF TokensStep, RowsStep, ReturnStep, Returned
<1>3. CASE \E c \in Manual, m \in Modes : ManualRequest(c, m)
  <2>1. UNCHANGED <<patched, zombie, ops>> /\ policy'.token = policy.token
    BY <1>0, <1>3 DEF ManualRequest, Edit, hwVars, PolicyRow
  <2>2. TokensStep
    BY <1>0, <1>3 DEF ManualRequest, Goto, TokensStep, CtlType, CtlRecords
  <2> QED
    BY <2>1, <2>2, DepartedSame DEF RowsStep, ReturnStep, Returned
<1>4. CASE Tick
  BY <1>4, TickKeeps
<1>5. ASSUME NEW c \in Controllers, Crash(c)
      PROVE  DepartedStep /\ TokensStep /\ RowsStep /\ ReturnStep
  <2>1. UNCHANGED <<patched, ops, policy>> /\ zombie' = [zombie EXCEPT ![c] = NoZombie] /\ Return(c)
    BY <1>5 DEF Crash, hwVars, dbVars
  <2>2. DepartedStep
    BY <1>0, <2>1 DEF DepartedStep, Departed, NoZombie
  <2>3. TokensStep
    BY <1>0, <2>1 DEF Return, IdleCtl, TokensStep, CtlType
  <2> QED
    BY <2>1, <2>2, <2>3 DEF RowsStep, ReturnStep, Returned
<1>6. CASE SweepRelease
  <2>1. UNCHANGED <<patched, zombie, ctl>>
    BY <1>6 DEF SweepRelease, hwVars
  <2>2. RowsStep /\ (policy'.token # policy.token => ops'[policy.token].state # "requested")
    BY <1>6, ReleaseRows DEF SweepRelease
  <2> QED
    BY <2>1, <2>2, DepartedSame DEF TokensStep, ReturnStep, Returned
<1> QED
  BY <1>1, <1>2, <1>3, <1>4, <1>5, <1>6, <1>7 DEF Next, Admin, Passing, Outside

LEMMA SettleInit == Init => SettleInv
  BY BoundsAssumption DEF Init, SettleInv, Departed, IdleCtl, NoZombie

LEMMA SettleNext == IInv /\ SettleInv /\ [Next]_vars => SettleInv'
<1> SUFFICES ASSUME IInv, SettleInv, [Next]_vars PROVE SettleInv'
  OBVIOUS
<1>0. /\ CtlType /\ ClaimInv /\ SentInv /\ lastToken \in 0..MaxClaims /\ MaxClaims \in Nat
  BY IInvParts, BoundsAssumption DEF DbType
<1>1. Kept \/ Given \/ Returned
  BY ClaimMoves
<1>2. DepartedStep /\ TokensStep /\ RowsStep /\ ReturnStep
  BY SettleOthers, DepartedWork, TokensWork, RowsWork
<1>3. ASSUME NEW c \in AtPatch
      PROVE  c \in Controllers /\ ctl[c].token \in 1..lastToken /\ Holds(ctl[c].token) /\ ctl[c].sent
  BY <1>0, <1>3 DEF AtPatch, ClaimInv, SentInv, ClaimSteps, WriteSteps, DispatchSteps
<1>4. Departed' \subseteq 1..lastToken /\ lastToken' \in {lastToken, lastToken + 1}
  BY <1>1, <1>2, <1>3 DEF DepartedStep, SettleInv, Kept, Given, Returned
<1>5. Departed' \subseteq 1..lastToken'
  BY <1>0, <1>4
<1>6. ASSUME NEW t \in Departed', ops'[t].state = "requested" PROVE policy'.token = t
  <2>1. t \in Tokens /\ t # 0
    BY <1>0, <1>4
  <2>2. policy.token = t
    BY <1>2, <1>3, <1>6, <2>1 DEF RowsStep, DepartedStep, SettleInv, Holds
  <2>3. ~Given
    BY <2>1, <2>2 DEF Given
  <2>4. ~Returned
    <3>1. t \in Departed \/ \E c \in AtPatch : ctl[c].token = t
      BY <1>2 DEF DepartedStep
    <3>2. AtPatch # {} => ~Returned
      BY DEF AtPatch, Returned, Busy, DispatchSteps
    <3> QED
      BY <1>2, <1>6, <2>2, <3>1, <3>2 DEF ReturnStep
  <2> QED
    BY <1>1, <2>2, <2>3, <2>4 DEF Kept
<1>7. ASSUME NEW d \in Controllers, ctl'[d].token \in Departed' PROVE ctl'[d].sent
  <2>1. ctl'[d].token # 0 /\ ctl'[d].token # lastToken + 1
    BY <1>0, <1>4, <1>7
  <2>2. ctl'[d].token = ctl[d].token /\ (ctl[d].sent => ctl'[d].sent)
    BY <1>2, <2>1 DEF TokensStep
  <2>3. ctl[d].sent
    <3>1. CASE ctl[d].token \in Departed
      BY <3>1 DEF SettleInv
    <3>2. CASE \E c \in AtPatch : ctl[c].token = ctl[d].token
      BY <1>0, <1>3, <2>1, <2>2, <3>2 DEF ClaimInv
    <3> QED
      BY <1>2, <1>7, <2>2, <3>1, <3>2 DEF DepartedStep
  <2> QED
    BY <2>2, <2>3
<1> QED
  BY <1>5, <1>6, <1>7 DEF SettleInv, Holds

\* powerControlStore.ts:90-93 and 208-209: whatever left for the iLO is recorded as
\* requested only under the claim it was made under, so finish() or the release of
\* the expired claim still settles it: for any number of controllers, any crashes, and
\* any writes that go on after their controller gave up on them.
THEOREM SentIsSettled == Spec => []SentRequestIsClaimed
<1>1. SettleInv => SentRequestIsClaimed
  BY DEF SettleInv, Departed, SentRequestIsClaimed
<1> QED
  BY <1>1, SettleInit, SettleNext, IInvInit, IInvNext, PTL DEF Spec

(***************************************************************************)
(* The policy at the moment of a request, and the end of a hold.           *)
(***************************************************************************)

\* The part of the policy row that only versioned edits change.
SameEdits(p, q) ==
    /\ q.version = p.version
    /\ q.automation = p.automation /\ q.paused = p.paused /\ q.manual = p.manual
    /\ q.hold = p.hold /\ q.holdUntil = p.holdUntil

\* Who may end a hold: resume-drift, or a controller whose snapshot is the row's.
Lifting == resume # NoResume \/ \E c \in Controllers : ctl[c].pc = "unhold" /\ ctl[c].snap.ver = policy.version

\* What an admin, a drift or a resume writes has a version of its own, and waits for
\* the claim to be given back.
PolicyStep ==
    \/ SameEdits(policy, policy')
    \/ /\ policy.token = 0 /\ policy'.version = policy.version + 1
       /\ policy.hold => policy'.hold \/ Lifting

LEMMA EditsAfter ==
    ASSUME NEW p \in PolicyRow, NEW m, NEW t
    PROVE  /\ SameEdits(p, p) /\ SameEdits(p, Unclaim(p)) /\ SameEdits(p, MarkPending(p, m, t))
           /\ SameEdits(p, Verified(p, m)) /\ SameEdits(p, Failing(p))
           /\ SameEdits(p, [p EXCEPT !.token = t])
           /\ SameEdits(p, [p EXCEPT !.verified = m, !.failures = 0])
  BY DEF SameEdits, Unclaim, MarkPending, Verified, Failing, PolicyRow

LEMMA SameEditsTrans ==
    ASSUME NEW p, NEW q, NEW r, SameEdits(p, q), SameEdits(q, r)
    PROVE  SameEdits(p, r)
  BY DEF SameEdits

LEMMA FinishEdits ==
    ASSUME IInv, NEW c \in Controllers, Finish(c)
    PROVE  SameEdits(policy, policy')
<1> DEFINE m == ctl[c].sel.target
           t == ctl[c].token
           free == Unclaim(policy)
<1>1. policy \in PolicyRow /\ free \in PolicyRow
  BY IInvParts, UnclaimType
<1>2. Failing(free) \in PolicyRow
  BY <1>1, FailingType
<1>3. SameEdits(policy, policy) /\ SameEdits(policy, free)
  BY <1>1, EditsAfter
<1>4. SameEdits(free, Verified(free, m)) /\ SameEdits(free, Failing(free))
  BY <1>1, EditsAfter
<1>5. SameEdits(Failing(free), MarkPending(Failing(free), m, t))
  BY <1>2, EditsAfter
<1>6. policy' \in {policy, free, Verified(free, m), Failing(free), MarkPending(Failing(free), m, t)}
  BY DEF Finish
<1> HIDE DEF m, t, free
<1> QED
  BY <1>3, <1>4, <1>5, <1>6, SameEditsTrans

LEMMA ReleaseEdits ==
    ASSUME IInv, ReleaseExpiredClaim
    PROVE  SameEdits(policy, policy')
<1> DEFINE free == Unclaim(policy)
           t == policy.token
<1>1. policy \in PolicyRow /\ free \in PolicyRow
  BY IInvParts, UnclaimType
<1>2. SameEdits(policy, policy) /\ SameEdits(policy, free) /\ SameEdits(free, MarkPending(free, ops[t].target, t))
  BY <1>1, EditsAfter
<1>3. policy' \in {policy, free, MarkPending(free, ops[t].target, t)}
  BY DEF ReleaseExpiredClaim
<1> HIDE DEF free, t
<1> QED
  BY <1>2, <1>3, SameEditsTrans

LEMMA PolicyWork ==
    ASSUME IInv, NEW c \in Controllers, StartSweep(c) \/ Work(c) \/ Background(c)
    PROVE  PolicyStep
<1>0. policy \in PolicyRow /\ policy.version \in Nat
  BY IInvParts DEF PolicyRow
<1>1. CASE ReleaseFirst(c)
  BY <1>1, ReleaseEdits DEF ReleaseFirst, PolicyStep
<1>2. CASE Finish(c)
  BY <1>2, FinishEdits DEF PolicyStep
<1>3. CASE RecordUnavailable(c) \/ Claim(c) \/ Observe(c)
  <2>1. \/ policy' = policy \/ policy' = Failing(policy)
        \/ policy' = [policy EXCEPT !.token = lastToken + 1]
        \/ policy' = [policy EXCEPT !.verified = ctl[c].actual, !.failures = 0]
    BY <1>3 DEF RecordUnavailable, Claim, Observe
  <2> QED
    BY <1>0, <2>1, EditsAfter DEF PolicyStep
<1>4. CASE ResolvePending(c)
  <2>1. \/ policy' = policy \/ policy' = Verified(policy, ctl[c].actual)
        \/ policy' = MarkPending(policy, None, 0)
    BY <1>4 DEF ResolvePending
  <2>2. /\ SameEdits(policy, policy) /\ SameEdits(policy, Verified(policy, ctl[c].actual))
        /\ SameEdits(policy, MarkPending(policy, None, 0))
    BY <1>0, EditsAfter
  <2> QED
    BY <2>1, <2>2 DEF PolicyStep
<1>5. CASE HoldExternalDrift(c) \/ ReleaseDriftHold(c)
  <2>1. \/ policy' = policy
        \/ /\ policy.token = 0 /\ policy'.version = policy.version + 1
           /\ policy.hold => policy'.hold \/ Lifting
    <3>2. CASE HoldExternalDrift(c)
      BY <1>0, <3>2 DEF HoldExternalDrift, Unclaimed, PolicyRow, DriftHoldUntil
    <3>3. CASE ReleaseDriftHold(c)
      BY <1>0, <3>3 DEF ReleaseDriftHold, Unclaimed, PolicyRow, Lifting, At
    <3> QED
      BY <1>5, <3>2, <3>3
  <2> QED
    BY <1>0, <2>1, EditsAfter DEF PolicyStep
<1>6. CASE UNCHANGED policy
  BY <1>0, <1>6, EditsAfter DEF PolicyStep
<1> QED
  BY <1>1, <1>2, <1>3, <1>4, <1>5, <1>6
     DEF Work, Background, LocalStep, dbVars, StartSweep, Load, Read, Reload, Select, Fresh, Current,
         RenewClaim, Reread, Discover, GuardCheck, GuardRecheck, RecordRequested, SendPatch, Readback,
         WriteDeadline, ZombieRecord, ZombiePatch

LEMMA PolicySteps ==
    ASSUME IInv, [Next]_vars
    PROVE  PolicyStep
<1>0. policy \in PolicyRow /\ policy.version \in Nat
  BY IInvParts DEF PolicyRow
<1>1. ASSUME UNCHANGED policy PROVE PolicyStep
  BY <1>0, <1>1, EditsAfter DEF PolicyStep
<1>2. CASE UNCHANGED vars
  BY <1>1, <1>2 DEF vars, dbVars
<1>3. ASSUME NEW row \in PolicyRow, row.version = policy.version, row.hold = policy.hold, Edit(row)
      PROVE  PolicyStep
  BY <1>0, <1>3 DEF Edit, Editable, PolicyStep, PolicyRow
<1>4. CASE \/ \E b \in BOOLEAN : SavePolicy(b) \/ Pause(b)
           \/ ClearManual \/ \E c \in Manual, m \in Modes : ManualRequest(c, m)
  <2>1. \E row \in PolicyRow : row.version = policy.version /\ row.hold = policy.hold /\ Edit(row)
    <3>1. \A b \in BOOLEAN : /\ [policy EXCEPT !.automation = b] \in PolicyRow
                             /\ [policy EXCEPT !.automation = b].version = policy.version
                             /\ [policy EXCEPT !.automation = b].hold = policy.hold
                             /\ [policy EXCEPT !.paused = b] \in PolicyRow
                             /\ [policy EXCEPT !.paused = b].version = policy.version
                             /\ [policy EXCEPT !.paused = b].hold = policy.hold
      BY <1>0 DEF PolicyRow
    <3>2. \A m \in Modes \cup {None} : /\ [policy EXCEPT !.manual = m] \in PolicyRow
                                       /\ [policy EXCEPT !.manual = m].version = policy.version
                                       /\ [policy EXCEPT !.manual = m].hold = policy.hold
      BY <1>0 DEF PolicyRow
    <3> QED
      BY <1>4, <3>1, <3>2 DEF SavePolicy, Pause, ClearManual, ManualRequest
  <2> QED
    BY <1>3, <2>1
<1>5. CASE ResumeCommit
  <2>1. policy' = policy \/ (policy.token = 0 /\ policy'.version = policy.version + 1 /\ Lifting)
    BY <1>0, <1>5 DEF ResumeCommit, PolicyRow, Lifting
  <2> QED
    BY <1>1, <2>1 DEF PolicyStep
<1>6. CASE SweepRelease
  BY <1>6, ReleaseEdits DEF SweepRelease, PolicyStep
<1>7. CASE \E c \in Controllers : StartSweep(c) \/ Work(c) \/ Background(c)
  BY <1>7, PolicyWork
<1>8. CASE \/ \E b \in BOOLEAN : PauseAll(b)
           \/ ResumeRead \/ Enable \/ Disable \/ Decommission \/ Outside
           \/ Tick \/ Boundary \/ BackoffElapses \/ \E t \in Tokens : ApplyLate(t) \/ LosePatch(t)
  BY <1>1, <1>8 DEF PauseAll, ResumeRead, Enable, Disable, Decommission, Outside, ExternalChange, Crash, Tick,
                    Boundary, BackoffElapses, ApplyLate, LosePatch, dbVars
<1> QED
  BY <1>2, <1>4, <1>5, <1>6, <1>7, <1>8 DEF Next, Admin, Passing

\* What a snapshot says of the hold is still so, unless an edit came between.
HoldRead(s) == /\ s.ver <= policy.version
               /\ s.ver = policy.version => s.hold = policy.hold /\ s.holdUntil = policy.holdUntil

\* The strengthening of HoldLasts: from its read of the row to the lifting of the hold a
\* controller knows what it lifts, and lifts what is due.
HoldInv ==
    \A c \in Controllers : ctl[c].pc \in {"read", "resolve", "unhold"} =>
        HoldRead(ctl[c].snap) /\ (ctl[c].pc = "unhold" => HoldDue(ctl[c].snap))

\* A controller has loaded the row, or goes on with what it had read of the hold.
HoldStep ==
    \A d \in Controllers : ctl'[d].pc \in {"read", "resolve", "unhold"} =>
        \/ ctl'[d].pc = "read" /\ ctl'[d].snap = Snapshot /\ policy' = policy
        \/ /\ ctl[d].pc \in {"read", "resolve", "unhold"}
           /\ ctl'[d].snap.ver = ctl[d].snap.ver /\ ctl'[d].snap.hold = ctl[d].snap.hold
           /\ ctl'[d].snap.holdUntil = ctl[d].snap.holdUntil
           /\ ctl'[d].pc = "unhold" => ctl[d].pc = "unhold" \/ HoldDue(ctl[d].snap)

\* Moving one controller to a step that is not about the hold.
LEMMA HoldElsewhere ==
    ASSUME CtlType, NEW c \in Controllers, \A d \in Controllers \ {c} : ctl'[d] = ctl[d],
           ctl'[c].pc \notin {"read", "resolve", "unhold"}
    PROVE  HoldStep
  BY DEF HoldStep

LEMMA HoldWork ==
    ASSUME IInv, NEW c \in Controllers, StartSweep(c) \/ Work(c) \/ Background(c)
    PROVE  HoldStep
<1>0. CtlType
  BY IInvParts
<1>1. CASE UNCHANGED ctl
  BY <1>1 DEF HoldStep
<1>2. ASSUME NEW st, st \notin {"read", "resolve", "unhold"}, Goto(c, st) PROVE HoldStep
  BY <1>0, <1>2, GotoEffect, HoldElsewhere
<1>3. CASE Return(c)
  BY <1>0, <1>3, ReturnEffect, HoldElsewhere
<1>4. ASSUME NEW o, EndWith(c, o) PROVE HoldStep
  BY <1>0, <1>4, EndEffect, HoldElsewhere
<1>5. CASE Load(c)
  <2>1. CASE ctl' = [ctl EXCEPT ![c].pc = "read", ![c].snap = Snapshot]
    <3>1. ctl'[c].pc = "read" /\ ctl'[c].snap = Snapshot /\ \A d \in Controllers \ {c} : ctl'[d] = ctl[d]
      BY <1>0, <2>1 DEF CtlType, CtlRecords
    <3> QED
      BY <1>5, <3>1 DEF Load, LocalStep, dbVars, HoldStep
  <2> QED
    BY <1>3, <1>5, <2>1 DEF Load
<1>6. CASE Read(c)
  <2>1. CASE \E st : ctl' = [ctl EXCEPT ![c].pc = st, ![c].actual = mode]
                    /\ (st = "unhold" => HoldDue(ctl[c].snap))
    <3>1. PICK st : ctl' = [ctl EXCEPT ![c].pc = st, ![c].actual = mode]
                    /\ (st = "unhold" => HoldDue(ctl[c].snap))
      BY <2>1
    <3>2. ctl'[c].pc = st /\ ctl'[c].snap = ctl[c].snap /\ \A d \in Controllers \ {c} : ctl'[d] = ctl[d]
      BY <1>0, <3>1 DEF CtlType, CtlRecords
    <3> QED
      BY <1>6, <3>1, <3>2 DEF Read, At, HoldStep
  <2> QED
    BY <1>2, <1>3, <1>6, <2>1 DEF Read, AfterResolve
<1>7. CASE ResolvePending(c)
  <2> DEFINE s == ctl[c].snap
             after == [s EXCEPT !.pending = None, !.pendingOp = 0,
                          !.verified = IF ctl[c].actual = s.pending THEN ctl[c].actual ELSE @]
             next == AfterResolve(c, after, ctl[c].actual)
  <2>1. ctl' = [ctl EXCEPT ![c].pc = next, ![c].snap = after]
    BY <1>7 DEF ResolvePending
  <2>2. s \in Snapshots
    BY <1>0, CtlFields
  <2>3. after.ver = s.ver /\ after.hold = s.hold /\ after.holdUntil = s.holdUntil
    BY <2>2 DEF Snapshots
  <2>4. next = "unhold" => HoldDue(after)
    BY DEF AfterResolve
  <2>5. next = "unhold" => HoldDue(s)
    BY <2>3, <2>4 DEF HoldDue
  <2> HIDE DEF after, next
  <2>6. ctl'[c].pc = next /\ ctl'[c].snap = after /\ \A d \in Controllers \ {c} : ctl'[d] = ctl[d]
    BY <1>0, <2>1 DEF CtlType, CtlRecords
  <2> QED
    BY <1>7, <2>3, <2>5, <2>6 DEF ResolvePending, At, HoldStep
<1>8. ASSUME NEW st, st \notin {"read", "resolve", "unhold"}, ctl'[c].pc = st,
             \A d \in Controllers \ {c} : ctl'[d] = ctl[d]
      PROVE  HoldStep
  BY <1>0, <1>8, HoldElsewhere
<1>9. CASE Reload(c) \/ Select(c) \/ Claim(c) \/ Fresh(c) \/ Reread(c) \/ RecordRequested(c)
  <2>1. \/ Return(c) \/ \E o : EndWith(c, o)
        \/ /\ \A d \in Controllers \ {c} : ctl'[d] = ctl[d]
           /\ ctl'[c].pc \in {"decide", "claim", "fresh", "current", "discover", "patch"}
    BY <1>0, <1>9 DEF Reload, Select, Claim, Fresh, Reread, RecordRequested, CtlType, CtlRecords
  <2> QED
    BY <1>3, <1>4, <1>8, <2>1
<1> QED
  BY <1>1, <1>2, <1>3, <1>4, <1>5, <1>6, <1>7, <1>9
     DEF Work, Background, StartSweep, ReleaseFirst, RecordUnavailable,
         HoldExternalDrift, ReleaseDriftHold, Observe, Current,
         RenewClaim, Discover, GuardCheck, GuardRecheck, SendPatch, Readback, WriteDeadline, Finish,
         ZombieRecord, ZombiePatch

\* The steps that start no reconcile and take no reading.
LEMMA HoldSteps ==
    ASSUME IInv, [Next]_vars
    PROVE  HoldStep
<1>0. CtlType
  BY IInvParts
<1>1. CASE UNCHANGED ctl
  BY <1>1 DEF HoldStep
<1>2. CASE \E c \in Controllers : Return(c) \/ Goto(c, "release")
  BY <1>0, <1>2, GotoEffect, ReturnEffect, HoldElsewhere
<1>3. CASE Tick
  <2>1. ASSUME NEW d \in Controllers
        PROVE  ctl'[d].pc = ctl[d].pc /\ ctl'[d].snap = ctl[d].snap
    <3>1. ctl'[d] = IF ctl[d].pc \in ClaimSteps
                    THEN [ctl[d] EXCEPT !.sinceClaim = IF @ <= DispatchBudget THEN @ + 1 ELSE @,
                                        !.writeLeft = Dec(@, 0)]
                    ELSE ctl[d]
      BY <1>3, Zenon DEF Tick
    <3>2. ctl[d] \in CtlRecords
      BY <1>0 DEF CtlType
    <3> QED
      BY <3>1, <3>2 DEF CtlRecords
  <2> QED
    BY <2>1 DEF HoldStep
<1>4. CASE \E c \in Controllers : StartSweep(c) \/ Work(c) \/ Background(c)
  BY <1>4, HoldWork
<1>5. ASSUME NEW c \in Manual, NEW m \in Modes, ManualRequest(c, m)
      PROVE  UNCHANGED ctl \/ Goto(c, "release")
  BY <1>5 DEF ManualRequest
<1> QED
  BY <1>1, <1>2, <1>3, <1>4, <1>5
     DEF Next, Admin, Outside, Passing, vars, SavePolicy, Pause, PauseAll, ClearManual, ResumeRead, Enable,
         Disable, Decommission, ExternalChange, Crash, Boundary, BackoffElapses, SweepRelease,
         ResumeCommit, ApplyLate, LosePatch

LEMMA HoldInit == Init => HoldInv
  BY DEF Init, HoldInv, IdleCtl

\* Boundaries only add up: what is due stays due.
LEMMA SlotGrows ==
    ASSUME IInv, [Next]_vars
    PROVE  slot' \in Nat /\ slot' >= slot
<1>0. slot \in Nat
  BY IInvParts
<1>1. CASE UNCHANGED slot
  BY <1>0, <1>1
<1>2. CASE Boundary
  BY <1>0, <1>2 DEF Boundary
<1>3. ASSUME NEW c \in Controllers, StartSweep(c) \/ Work(c) \/ Background(c) PROVE UNCHANGED slot
  BY <1>3 DEF Work, Background, LocalStep, DbStep, StartSweep, ReleaseFirst, Load, Read, RecordUnavailable,
              ResolvePending, HoldExternalDrift, ReleaseDriftHold, Reload, Observe, Select, Claim, Fresh,
              Current, RenewClaim, Reread, Discover, GuardCheck, GuardRecheck, RecordRequested, SendPatch,
              Readback, WriteDeadline, Finish, ZombieRecord, ZombiePatch
<1> QED
  BY <1>1, <1>2, <1>3
     DEF Next, Admin, Outside, Passing, vars, SavePolicy, Pause, PauseAll, ClearManual, ResumeRead, Enable,
         Disable, Decommission, ManualRequest, ExternalChange, Crash, Tick, BackoffElapses, SweepRelease,
         ResumeCommit, ApplyLate, LosePatch

LEMMA HoldNext == IInv /\ HoldInv /\ [Next]_vars => HoldInv'
<1> SUFFICES ASSUME IInv, HoldInv, [Next]_vars,
                    NEW d \in Controllers, ctl'[d].pc \in {"read", "resolve", "unhold"}
             PROVE  HoldRead(ctl[d].snap)' /\ (ctl'[d].pc = "unhold" => HoldDue(ctl[d].snap)')
  BY DEF HoldInv
<1>0. /\ policy \in PolicyRow /\ policy.version \in Nat /\ CtlType /\ slot \in Nat
  BY IInvParts DEF PolicyRow
<1>1. ctl[d].snap.ver \in Nat /\ ctl[d].snap.holdUntil \in Nat
  BY <1>0, CtlFields DEF Snapshots
<1>2. HoldStep /\ PolicyStep /\ slot' \in Nat /\ slot' >= slot
  BY HoldSteps, PolicySteps, SlotGrows
<1>3. CASE ctl'[d].pc = "read" /\ ctl'[d].snap = Snapshot /\ policy' = policy
  BY <1>0, <1>3 DEF HoldRead, Snapshot
<1>4. CASE /\ ctl[d].pc \in {"read", "resolve", "unhold"}
           /\ ctl'[d].snap.ver = ctl[d].snap.ver /\ ctl'[d].snap.hold = ctl[d].snap.hold
           /\ ctl'[d].snap.holdUntil = ctl[d].snap.holdUntil
           /\ ctl'[d].pc = "unhold" => ctl[d].pc = "unhold" \/ HoldDue(ctl[d].snap)
  <2>1. HoldRead(ctl[d].snap) /\ (ctl[d].pc = "unhold" => HoldDue(ctl[d].snap))
    BY <1>4 DEF HoldInv
  <2>2. HoldRead(ctl[d].snap)'
    BY <1>0, <1>1, <1>2, <1>4, <2>1 DEF HoldRead, PolicyStep, SameEdits
  <2>4. ctl'[d].pc = "unhold" => HoldDue(ctl[d].snap)'
    BY <1>0, <1>1, <1>2, <1>4, <2>1 DEF HoldDue
  <2> QED
    BY <2>2, <2>4
<1> QED
  BY <1>2, <1>3, <1>4 DEF HoldStep

\* power-energy-runbook.md:134: once somebody outside set the mode, the node stays on
\* hold until resume-drift or the hold's own boundary, whatever the controllers, the
\* admins, crashes and the iLO do meanwhile.
THEOREM HoldIsKept == Spec => HoldLasts
<1>1. IInv /\ HoldInv /\ [Next]_vars =>
        [policy.hold /\ ~policy'.hold =>
           resume # NoResume \/ (policy.holdUntil # 0 /\ slot >= policy.holdUntil)]_vars
  <2> SUFFICES ASSUME IInv, HoldInv, [Next]_vars, policy.hold, ~policy'.hold, resume = NoResume
               PROVE  policy.holdUntil # 0 /\ slot >= policy.holdUntil
    OBVIOUS
  <2>1. PICK c \in Controllers : ctl[c].pc = "unhold" /\ ctl[c].snap.ver = policy.version
    BY PolicySteps DEF PolicyStep, SameEdits, Lifting
  <2>2. HoldRead(ctl[c].snap) /\ HoldDue(ctl[c].snap)
    BY <2>1 DEF HoldInv
  <2> QED
    BY <2>1, <2>2 DEF HoldRead, HoldDue
<1> QED
  BY <1>1, HoldInit, HoldNext, IInvInit, IInvNext, PTL DEF Spec, HoldLasts

\* What the row lets this controller request.
Allowed(c, target) ==
    /\ policy.manual # None => target = policy.manual
    /\ c \in Automatic => policy.automation /\ ~policy.paused /\ ~policy.hold

\* The strengthening of RequestRespectsPolicy: under its claim, what a controller is about
\* to record is allowed, also once it gave up on it; and an abandoned write is its own.
RequestInv ==
    \A c \in Controllers :
        /\ ctl[c].pc = "record" /\ Holds(ctl[c].token) => Allowed(c, ctl[c].sel.target)
        /\ zombie[c].step = "record" /\ Holds(zombie[c].token) => Allowed(c, zombie[c].target)
        /\ zombie[c].step = "none" => zombie[c].token = 0
        /\ \A d \in Controllers :
              zombie[c].token # 0 /\ zombie[c].token \in {ctl[d].token, zombie[d].token} => c = d

\* An override is named before all else, and only a manual reconcile looks past the rest.
LEMMA DecisionMeans ==
    ASSUME NEW s \in Snapshots, NEW actual, NEW manual \in BOOLEAN,
           Decision(s, actual, manual).target \in Modes
    PROVE  /\ s.manual # None => Decision(s, actual, manual).target = s.manual
           /\ ~manual => s.automation /\ ~s.paused /\ ~s.hold
<1>1. /\ s.enabled \in BOOLEAN /\ s.automation \in BOOLEAN /\ s.paused \in BOOLEAN /\ s.hold \in BOOLEAN
  BY DEF Snapshots
<1>2. NoSelection.target = None /\ None \notin Modes
  BY ModesAssumption DEF NoSelection
<1>3. Decision(s, actual, manual) # NoSelection
  BY <1>2
<1>4. /\ ~(~s.enabled \/ ~(s.automation \/ manual))
      /\ (manual /\ s.manual # None) \/ ~(s.paused \/ s.hold)
  <2>1. CASE ~s.enabled \/ ~(s.automation \/ manual)
    BY <1>3, <2>1 DEF Decision
  <2>2. CASE ~(manual /\ s.manual # None) /\ (s.paused \/ s.hold)
    BY <1>3, <2>2 DEF Decision
  <2> QED
    BY <2>1, <2>2
<1>5. s.manual # None => Decision(s, actual, manual) = [target |-> s.manual, reason |-> "manual"]
  BY <1>1, <1>3 DEF Decision
<1> QED
  BY <1>1, <1>4, <1>5

\* A decision on the row as it is names what the row allows.
LEMMA DecisionAllowed ==
    ASSUME IInv, NEW c \in Controllers, NEW actual,
           Decision(Snapshot, actual, IsManual(c)).target \in Modes
    PROVE  Allowed(c, Decision(Snapshot, actual, IsManual(c)).target)
<1>1. (c \in Automatic => ~IsManual(c)) /\ IsManual(c) \in BOOLEAN
  BY ModesAssumption DEF IsManual
<1>2. /\ Snapshot.manual = policy.manual /\ Snapshot.hold = policy.hold
      /\ Snapshot.automation = policy.automation
      /\ Snapshot.paused = (policy.paused \/ globalPause)
  BY DEF Snapshot
<1>3. Snapshot \in Snapshots
  BY SnapshotType DEF IInv
<1>4. policy \in PolicyRow /\ globalPause \in BOOLEAN
  BY IInvParts DEF DbType
<1> QED
  BY <1>1, <1>2, <1>3, <1>4, DecisionMeans DEF Allowed, PolicyRow

\* A controller comes to the request by the last check of the guard.
RecordStep ==
    \A d \in Controllers : ctl'[d].pc = "record" =>
        /\ ctl'[d].token = ctl[d].token
        /\ \/ ctl[d].pc = "record" /\ ctl'[d].sel = ctl[d].sel
           \/ policy' = policy /\ Allowed(d, ctl'[d].sel.target)

\* A write call is abandoned as it is, and then ends.
ZombieStep ==
    \A d \in Controllers :
        \/ zombie'[d] = zombie[d] \/ zombie'[d] = NoZombie
        \/ /\ zombie[d] = NoZombie /\ ctl[d].pc \in {"record", "patch"} /\ ctl'[d].token = ctl[d].token
           /\ zombie'[d].step = ctl[d].pc /\ zombie'[d].token = ctl[d].token
           /\ zombie'[d].target = ctl[d].sel.target

\* A row becomes requested by who is about to record it, under the claim.
RequestStep ==
    \A t \in Tokens : Requested(t) =>
        /\ Holds(t)
        /\ \E c \in Controllers :
              \/ ctl[c].pc = "record" /\ ctl[c].token = t /\ ops'[t].target = ctl[c].sel.target
              \/ zombie[c].step = "record" /\ zombie[c].token = t /\ ops'[t].target = zombie[c].target

LEMMA RecordElsewhere ==
    ASSUME CtlType, NEW c \in Controllers, \A d \in Controllers \ {c} : ctl'[d] = ctl[d],
           ctl'[c].pc # "record"
    PROVE  RecordStep
  BY DEF RecordStep

LEMMA RecordWork ==
    ASSUME IInv, NEW c \in Controllers, StartSweep(c) \/ Work(c) \/ Background(c)
    PROVE  RecordStep
<1>0. CtlType /\ SentInv
  BY IInvParts
<1>1. CASE UNCHANGED ctl
  BY <1>1 DEF RecordStep
<1>2. ASSUME NEW st, st # "record", Goto(c, st) PROVE RecordStep
  BY <1>0, <1>2, GotoEffect, RecordElsewhere
<1>3. CASE Return(c)
  BY <1>0, <1>3, ReturnEffect, RecordElsewhere
<1>4. ASSUME NEW o, EndWith(c, o) PROVE RecordStep
  BY <1>0, <1>4, EndEffect, RecordElsewhere
<1>5. CASE GuardRecheck(c)
  <2>1. CASE Goto(c, "record") /\ Decision(Snapshot, ctl[c].actual, IsManual(c)) = ctl[c].sel
    <3>1. ctl[c].sel.target \in Modes
      BY <1>0, <1>5 DEF SentInv, GuardRecheck, At, ClaimSteps, WriteSteps
    <3>2. Allowed(c, ctl[c].sel.target)
      BY <2>1, <3>1, DecisionAllowed
    <3>3. policy' = policy
      BY <1>5 DEF GuardRecheck, LocalStep, dbVars
    <3>4. /\ \A d \in Controllers \ {c} : ctl'[d] = ctl[d]
          /\ ctl'[c].token = ctl[c].token /\ ctl'[c].sel = ctl[c].sel
      BY <1>0, <2>1, GotoEffect
    <3> QED
      BY <3>2, <3>3, <3>4 DEF RecordStep
  <2> QED
    BY <1>4, <1>5, <2>1 DEF GuardRecheck
<1>6. CASE Load(c) \/ Read(c) \/ ResolvePending(c) \/ Reload(c)
  <2>1. ASSUME NEW st, NEW x, st # "record",
               \/ ctl' = [ctl EXCEPT ![c].pc = st, ![c].snap = x]
               \/ ctl' = [ctl EXCEPT ![c].pc = st, ![c].actual = x]
        PROVE  RecordStep
    <3>1. (\A d \in Controllers \ {c} : ctl'[d] = ctl[d]) /\ ctl'[c].pc # "record"
      BY <1>0, <2>1 DEF CtlType, CtlRecords
    <3> QED
      BY <1>0, <3>1, RecordElsewhere
  <2>2. \A s, a : AfterResolve(c, s, a) # "record"
    BY DEF AfterResolve
  <2>3. CASE Load(c) \/ Reload(c)
    BY <1>3, <2>1, <2>3 DEF Load, Reload
  <2>4. CASE Read(c)
    BY <1>2, <1>3, <2>1, <2>2, <2>4 DEF Read
  <2>5. CASE ResolvePending(c)
    BY <2>1, <2>2, <2>5 DEF ResolvePending
  <2> QED
    BY <1>6, <2>3, <2>4, <2>5
<1>7. CASE Select(c) \/ Claim(c) \/ Fresh(c) \/ Reread(c) \/ RecordRequested(c)
  <2>1. \/ Return(c) \/ \E o : EndWith(c, o)
        \/ (\A d \in Controllers \ {c} : ctl'[d] = ctl[d]) /\ ctl'[c].pc # "record"
    BY <1>0, <1>7 DEF Select, Claim, Fresh, Reread, RecordRequested, CtlType, CtlRecords
  <2> QED
    BY <1>0, <1>3, <1>4, <2>1, RecordElsewhere
<1> QED
  BY <1>1, <1>2, <1>3, <1>4, <1>5, <1>6, <1>7
     DEF Work, Background, StartSweep, ReleaseFirst, RecordUnavailable,
         HoldExternalDrift, ReleaseDriftHold, Observe, Current,
         RenewClaim, Discover, GuardCheck, SendPatch, Readback, WriteDeadline, Finish,
         ZombieRecord, ZombiePatch

LEMMA ZombieWork ==
    ASSUME IInv, NEW c \in Controllers, StartSweep(c) \/ Work(c) \/ Background(c)
    PROVE  ZombieStep
<1>0. zombie \in [Controllers -> Zombies] /\ CtlType
  BY IInvParts DEF IInv, TypeOK
<1>1. CASE UNCHANGED zombie
  BY <1>1 DEF ZombieStep
<1>2. CASE ZombieRecord(c) \/ ZombiePatch(c)
  BY <1>0, <1>2 DEF ZombieRecord, ZombiePatch, ZombieStep
<1>3. CASE WriteDeadline(c) /\ ctl[c].pc \in {"record", "patch"}
  <2>1. /\ \A d \in Controllers \ {c} : zombie'[d] = zombie[d]
        /\ zombie[c] = NoZombie /\ zombie'[c].step = ctl[c].pc /\ zombie'[c].token = ctl[c].token
        /\ zombie'[c].target = ctl[c].sel.target
    BY <1>0, <1>3 DEF WriteDeadline
  <2>2. ctl'[c].token = ctl[c].token
    BY <1>0, <1>3, EndEffect DEF WriteDeadline
  <2> QED
    BY <1>3, <2>1, <2>2 DEF ZombieStep
<1> QED
  BY <1>1, <1>2, <1>3
     DEF Work, Background, LocalStep, DbStep, StartSweep, ReleaseFirst, Load, Read, RecordUnavailable,
         ResolvePending, HoldExternalDrift, ReleaseDriftHold, Reload, Observe, Select, Claim, Fresh, Current,
         RenewClaim, Reread, Discover, GuardCheck, GuardRecheck, RecordRequested, SendPatch, Readback,
         WriteDeadline, Finish

LEMMA RequestWork ==
    ASSUME IInv, NEW c \in Controllers, StartSweep(c) \/ Work(c) \/ Background(c)
    PROVE  RequestStep
<1>0. /\ ops \in [Tokens -> [state : RowStates, target : Modes \cup {None}]]
      /\ CtlType /\ policy.token \in Nat
  BY IInvParts DEF DbType
<1>1. CASE UNCHANGED ops
  BY <1>1 DEF RequestStep, Requested
<1>2. ASSUME NEW u, NEW x, x # "requested", ops' = [ops EXCEPT ![u].state = x]
      PROVE  RequestStep
  BY <1>0, <1>2 DEF RequestStep, Requested
<1>3. ASSUME NEW u, NEW m, Holds(u), ops' = [ops EXCEPT ![u] = [state |-> "requested", target |-> m]],
             \E d \in Controllers : \/ ctl[d].pc = "record" /\ ctl[d].token = u /\ m = ctl[d].sel.target
                                    \/ zombie[d].step = "record" /\ zombie[d].token = u /\ m = zombie[d].target
      PROVE  RequestStep
  <2> SUFFICES ASSUME NEW t \in Tokens, Requested(t)
               PROVE  t = u /\ ops'[t].target = m
    BY <1>3 DEF RequestStep
  <2>1. t = u
    BY <1>0, <1>3 DEF Requested
  <2> QED
    BY <1>0, <1>3, <2>1
<1>4. CASE ReleaseFirst(c)
  <2>1. UNCHANGED ops \/ ops' = [ops EXCEPT ![policy.token].state = "unknown"]
    BY <1>4 DEF ReleaseFirst, ReleaseExpiredClaim
  <2> QED
    BY <1>1, <1>2, <2>1
<1>5. CASE Finish(c)
  <2>1. ctl[c].result # "requested"
    BY <1>0 DEF CtlType, CtlRecords, Outcomes
  <2>2. UNCHANGED ops \/ ops' = [ops EXCEPT ![ctl[c].token].state = ctl[c].result]
    BY <1>5 DEF Finish
  <2> QED
    BY <1>1, <1>2, <2>1, <2>2
<1>6. CASE ResolvePending(c)
  <2>1. \E u : \/ UNCHANGED ops \/ ops' = [ops EXCEPT ![u].state = "verified"]
               \/ ops' = [ops EXCEPT ![u].state = "not_applied"]
    BY <1>6 DEF ResolvePending
  <2> QED
    BY <1>1, <1>2, <2>1
<1>7. CASE RecordRequested(c)
  <2>1. /\ ctl[c].pc = "record"
        /\ \/ UNCHANGED ops
           \/ /\ Holds(ctl[c].token)
              /\ ops' = [ops EXCEPT ![ctl[c].token] = [state |-> "requested", target |-> ctl[c].sel.target]]
    BY <1>7 DEF RecordRequested, InsertRequested, MayRecord, At
  <2> QED
    BY <1>1, <1>3, <2>1
<1>8. CASE ZombieRecord(c)
  <2>1. /\ zombie[c].step = "record"
        /\ \/ UNCHANGED ops
           \/ /\ Holds(zombie[c].token)
              /\ ops' = [ops EXCEPT ![zombie[c].token] = [state |-> "requested", target |-> zombie[c].target]]
    BY <1>8 DEF ZombieRecord, InsertRequested, MayRecord
  <2> QED
    BY <1>1, <1>3, <2>1
<1> QED
  BY <1>1, <1>4, <1>5, <1>6, <1>7, <1>8
     DEF Work, Background, LocalStep, dbVars, StartSweep, Load, Read, RecordUnavailable, HoldExternalDrift,
         ReleaseDriftHold, Reload, Observe, Select, Claim, Fresh, Current, RenewClaim, Reread, Discover,
         GuardCheck, GuardRecheck, SendPatch, Readback, WriteDeadline, ZombiePatch

\* Nobody else records a request, or brings a controller to one.
LEMMA RequestSteps ==
    ASSUME IInv, [Next]_vars
    PROVE  RecordStep /\ ZombieStep /\ RequestStep
<1>0. /\ CtlType /\ zombie \in [Controllers -> Zombies]
      /\ ops \in [Tokens -> [state : RowStates, target : Modes \cup {None}]]
  BY IInvParts DEF IInv, TypeOK, DbType
<1>1. ASSUME UNCHANGED <<ctl, zombie, ops>> PROVE RecordStep /\ ZombieStep /\ RequestStep
  BY <1>1 DEF RecordStep, ZombieStep, RequestStep, Requested
<1>2. CASE UNCHANGED vars
  BY <1>1, <1>2 DEF vars, dbVars
<1>3. CASE \/ \E b \in BOOLEAN : SavePolicy(b) \/ Pause(b) \/ PauseAll(b)
           \/ ClearManual \/ ResumeRead \/ Enable \/ Disable \/ Decommission \/ ResumeCommit
           \/ Boundary \/ BackoffElapses \/ \E m \in Observed : ExternalChange(m)
           \/ \E t \in Tokens : ApplyLate(t) \/ LosePatch(t)
  BY <1>1, <1>3 DEF SavePolicy, Pause, PauseAll, ClearManual, ResumeRead, Enable, Disable, Decommission,
                    ResumeCommit, Edit, Boundary, BackoffElapses, ExternalChange, ApplyLate, LosePatch,
                    dbVars
<1>4. ASSUME NEW c \in Manual, NEW m \in Modes, ManualRequest(c, m)
      PROVE  RecordStep /\ ZombieStep /\ RequestStep
  <2>1. UNCHANGED <<zombie, ops>> /\ (UNCHANGED ctl \/ Goto(c, "release"))
    BY <1>4 DEF ManualRequest, Edit
  <2>2. RecordStep
    BY <1>0, <2>1, GotoEffect, RecordElsewhere DEF RecordStep
  <2> QED
    BY <2>1, <2>2 DEF ZombieStep, RequestStep, Requested
<1>5. ASSUME NEW c \in Controllers, Crash(c)
      PROVE  RecordStep /\ ZombieStep /\ RequestStep
  <2>1. UNCHANGED ops /\ zombie' = [zombie EXCEPT ![c] = NoZombie] /\ Return(c)
    BY <1>5 DEF Crash, dbVars
  <2>2. RecordStep
    BY <1>0, <2>1, ReturnEffect, RecordElsewhere
  <2> QED
    BY <1>0, <2>1, <2>2 DEF ZombieStep, RequestStep, Requested
<1>6. CASE Tick
  <2>1. UNCHANGED <<zombie, ops>>
    BY <1>6, Zenon DEF Tick
  <2>2. ASSUME NEW d \in Controllers
        PROVE  ctl'[d].pc = ctl[d].pc /\ ctl'[d].token = ctl[d].token /\ ctl'[d].sel = ctl[d].sel
    <3>1. ctl'[d] = IF ctl[d].pc \in ClaimSteps
                    THEN [ctl[d] EXCEPT !.sinceClaim = IF @ <= DispatchBudget THEN @ + 1 ELSE @,
                                        !.writeLeft = Dec(@, 0)]
                    ELSE ctl[d]
      BY <1>6, Zenon DEF Tick
    <3>2. ctl[d] \in CtlRecords
      BY <1>0 DEF CtlType
    <3> QED
      BY <3>1, <3>2 DEF CtlRecords
  <2> QED
    BY <2>1, <2>2 DEF RecordStep, ZombieStep, RequestStep, Requested
<1>7. CASE SweepRelease
  <2>1. /\ UNCHANGED <<ctl, zombie>>
        /\ UNCHANGED ops \/ ops' = [ops EXCEPT ![policy.token].state = "unknown"]
    BY <1>7 DEF SweepRelease, ReleaseExpiredClaim
  <2> QED
    BY <1>0, <2>1 DEF RecordStep, ZombieStep, RequestStep, Requested
<1>8. CASE \E c \in Controllers : StartSweep(c) \/ Work(c) \/ Background(c)
  BY <1>8, RecordWork, ZombieWork, RequestWork
<1> QED
  BY <1>2, <1>3, <1>4, <1>5, <1>6, <1>7, <1>8 DEF Next, Admin, Outside, Passing

LEMMA RequestInit == Init => RequestInv
  BY DEF Init, RequestInv, IdleCtl, NoZombie

\* Tokens keep their owner, whatever step a controller is at.
LEMMA OwnersKept ==
    ASSUME IInv, RequestInv, [Next]_vars, NEW c \in Controllers, NEW d \in Controllers,
           zombie'[c].token # 0, zombie'[c].token \in {ctl'[d].token, zombie'[d].token}
    PROVE  c = d
<1>0. /\ ClaimInv /\ SentInv /\ lastToken \in Nat /\ zombie \in [Controllers -> Zombies]
      /\ NoZombie.token = 0
  BY IInvParts DEF IInv, TypeOK, NoZombie
<1>1. ZombieStep /\ TokensStep
  BY RequestSteps, SettleOthers, TokensWork
<1> DEFINE z == zombie'[c].token
<1>2. ASSUME NEW e \in Controllers, zombie'[e].token # 0
      PROVE  \/ zombie'[e].token = zombie[e].token /\ zombie[e].step # "none"
             \/ zombie'[e].token = ctl[e].token /\ ctl[e].pc \in {"record", "patch"}
  BY <1>0, <1>1, <1>2 DEF ZombieStep, RequestInv
<1>3. ASSUME NEW e \in Controllers, zombie'[e].token # 0
      PROVE  zombie'[e].token \in 1..lastToken /\ zombie'[e].token \in {zombie[e].token, ctl[e].token}
  BY <1>0, <1>2, <1>3 DEF SentInv, ClaimInv, ClaimSteps, WriteSteps
<1>4. z \in 1..lastToken /\ z \in {zombie[c].token, ctl[c].token}
  BY <1>3
<1>5. z \in {zombie[d].token, ctl[d].token}
  <2>1. CASE z = zombie'[d].token
    BY <1>3, <2>1
  <2>2. CASE z = ctl'[d].token
    BY <1>0, <1>1, <1>4, <2>2 DEF TokensStep
  <2> QED
    BY <2>1, <2>2
<1> HIDE DEF z
<1>6. CASE z = zombie[c].token
  BY <1>4, <1>5, <1>6 DEF RequestInv
<1>7. CASE z = zombie[d].token
  BY <1>4, <1>5, <1>7 DEF RequestInv
<1>8. CASE z = ctl[c].token /\ z = ctl[d].token
  <2>1. ctl[c].token = ctl[d].token /\ ctl[c].token # 0
    BY <1>0, <1>4, <1>8
  <2> QED
    BY <1>0, <2>1 DEF ClaimInv
<1> QED
  BY <1>4, <1>5, <1>6, <1>7, <1>8

\* While a claim is held the row allows what it allowed.
LEMMA AllowedKept ==
    ASSUME IInv, [Next]_vars, NEW t \in 1..lastToken, policy'.token = t
    PROVE  /\ policy.token = t
           /\ \A c, target : Allowed(c, target) => Allowed(c, target)'
<1>1. lastToken \in Nat
  BY IInvParts
<1>2. policy.token = t
  BY <1>1, ClaimMoves DEF Kept, Given, Returned
<1>3. SameEdits(policy, policy')
  BY <1>2, PolicySteps DEF PolicyStep
<1> QED
  BY <1>2, <1>3 DEF SameEdits, Allowed

LEMMA RequestNext == IInv /\ RequestInv /\ [Next]_vars => RequestInv'
<1> SUFFICES ASSUME IInv, RequestInv, [Next]_vars PROVE RequestInv'
  OBVIOUS
<1>0. /\ ClaimInv /\ SentInv /\ lastToken \in Nat /\ zombie \in [Controllers -> Zombies]
      /\ NoZombie.token = 0 /\ NoZombie.step = "none"
  BY IInvParts DEF IInv, TypeOK, NoZombie
<1>1. RecordStep /\ ZombieStep
  BY RequestSteps
<1>2. ASSUME NEW c \in Controllers, ctl'[c].pc = "record", policy'.token = ctl'[c].token
      PROVE  Allowed(c, ctl[c].sel.target)'
  <2>1. CASE policy' = policy /\ Allowed(c, ctl'[c].sel.target)
    BY <2>1 DEF Allowed
  <2>2. CASE ctl[c].pc = "record" /\ ctl'[c].sel = ctl[c].sel
    <3>1. ctl'[c].token = ctl[c].token /\ ctl[c].token \in 1..lastToken
      BY <1>0, <1>1, <1>2, <2>2 DEF RecordStep, ClaimInv, ClaimSteps, WriteSteps
    <3>2. PICK m : m = ctl[c].sel.target
      OBVIOUS
    <3>3. policy.token = ctl[c].token /\ (Allowed(c, m) => Allowed(c, m)')
      BY <1>2, <3>1, AllowedKept
    <3>4. Allowed(c, m)
      BY <2>2, <3>2, <3>3 DEF RequestInv, Holds
    <3> QED
      BY <2>2, <3>2, <3>3, <3>4 DEF Allowed
  <2> QED
    BY <1>1, <1>2, <2>1, <2>2 DEF RecordStep
<1>3. ASSUME NEW c \in Controllers, zombie'[c].step = "record", policy'.token = zombie'[c].token
      PROVE  Allowed(c, zombie[c].target)'
  <2>1. PICK m, t : /\ m = zombie'[c].target /\ t = zombie'[c].token /\ t \in 1..lastToken
                    /\ Holds(t) => Allowed(c, m)
    <3>1. CASE zombie'[c] = zombie[c]
      <4>1. zombie[c].token \in 1..lastToken
        BY <1>0, <1>3, <3>1 DEF SentInv
      <4>2. Holds(zombie[c].token) => Allowed(c, zombie[c].target)
        BY <1>3, <3>1 DEF RequestInv
      <4> QED
        BY <3>1, <4>1, <4>2
    <3>2. CASE /\ ctl[c].pc = "record" /\ zombie'[c].token = ctl[c].token
               /\ zombie'[c].target = ctl[c].sel.target
      <4>1. ctl[c].token \in 1..lastToken
        BY <1>0, <3>2 DEF ClaimInv, ClaimSteps, WriteSteps
      <4>2. Holds(ctl[c].token) => Allowed(c, ctl[c].sel.target)
        BY <3>2 DEF RequestInv
      <4> QED
        BY <3>2, <4>1, <4>2
    <3> QED
      BY <1>0, <1>1, <1>3, <3>1, <3>2 DEF ZombieStep
  <2>2. policy.token = t /\ (Allowed(c, m) => Allowed(c, m)')
    BY <1>3, <2>1, AllowedKept
  <2>3. Allowed(c, m)'
    BY <2>1, <2>2 DEF Holds
  <2> QED
    BY <2>1, <2>3 DEF Allowed
<1>4. ASSUME NEW c \in Controllers, zombie'[c].step = "none"
      PROVE  zombie'[c].token = 0
  BY <1>0, <1>1, <1>4 DEF ZombieStep, RequestInv
<1> QED
  BY <1>2, <1>3, <1>4, OwnersKept DEF RequestInv, Holds

\* powerController.ts:328-344, "lease, versions, global pause, clock": whoever else is at
\* work on the node, whatever write went on after its controller gave up on it, an automatic
\* request is committed only while the row says so, and only for the override if there is one.
THEOREM PolicyIsRespected == Spec => RequestRespectsPolicy
<1>1. IInv /\ RequestInv /\ [Next]_vars =>
        [\A t \in Tokens : Requested(t) =>
           /\ policy.manual # None => ops'[t].target = policy.manual
           /\ Requester(t) \in Automatic => policy.automation /\ ~policy.paused /\ ~policy.hold]_vars
  <2> SUFFICES ASSUME IInv, RequestInv, [Next]_vars, NEW t \in Tokens, Requested(t)
               PROVE  /\ policy.manual # None => ops'[t].target = policy.manual
                      /\ Requester(t) \in Automatic => policy.automation /\ ~policy.paused /\ ~policy.hold
    OBVIOUS
  <2>1. Holds(t) /\ t # 0 /\ ClaimInv
    BY RequestSteps, IInvParts, BoundsAssumption DEF RequestStep
  <2>2. PICK c \in Controllers :
          \/ ctl[c].pc = "record" /\ ctl[c].token = t /\ ops'[t].target = ctl[c].sel.target
          \/ zombie[c].step = "record" /\ zombie[c].token = t /\ ops'[t].target = zombie[c].target
    BY RequestSteps DEF RequestStep
  <2>3. Allowed(c, ops'[t].target)
    BY <2>1, <2>2 DEF RequestInv
  <2>4. \A d \in Controllers : t \in {ctl[d].token, zombie[d].token} => d = c
    BY <2>1, <2>2 DEF RequestInv, ClaimInv
  <2>5. Requester(t) = c
    BY <2>2, <2>4 DEF Requester
  <2> QED
    BY <2>3, <2>5 DEF Allowed
<1> QED
  BY <1>1, RequestInit, RequestNext, IInvInit, IInvNext, PTL DEF Spec, RequestRespectsPolicy

-----------------------------------------------------------------------------
(* What the price rules promise.                                           *)


\* Every latch that a decision leaves is one of the rules it was made under.
LEMMA LatchVersion ==
    ASSUME NEW i \in Inputs
    PROVE  Resolve(i).latch.version = i.policy.version
<1> i.policy.version = i.policy.version
  OBVIOUS
<1>1. CarriedLatch(i).version = i.policy.version
  BY DEF CarriedLatch, FreshLatch, Held
<1>2. FreshLatch(i).version = i.policy.version /\ NewLatch(i).version = i.policy.version
  BY DEF FreshLatch, NewLatch
<1> QED
  BY <1>1, <1>2 DEF Resolve, Nothing, Result, Override, IfSupported, Chosen, Restricted, Selected, Priced

\* powerPolicy.ts:265, "Price-rule release bands overlap": under rules that passed
\* validation the cap and the boost are never latched together, whatever the
\* price and the latch before.
THEOREM LatchesExclude ==
    ASSUME NEW i \in Inputs, ValidPolicy(i.policy)
    PROVE  ~(NewLatch(i).expensive /\ NewLatch(i).cheap)
<1> DEFINE p == i.policy
<1>1. p \in Policies /\ i.price.amount \in Int
  BY DEF Inputs, Prices
<1>2. p.expensive \in Rules /\ p.cheap \in Rules
  BY <1>1 DEF Policies
<1>3. SUFFICES ASSUME Expensive(i), Cheap(i) PROVE FALSE
  BY DEF NewLatch
<1>4. p.expensive.enabled /\ i.price.amount > p.expensive.threshold - p.expensive.hysteresis
  BY <1>1, <1>2, <1>3 DEF Expensive, Upper, ExpensiveRelease, ValidPolicy, Rules
<1>5. p.cheap.enabled /\ i.price.amount < p.cheap.threshold + p.cheap.hysteresis
  BY <1>1, <1>2, <1>3 DEF Cheap, Lower, CheapRelease, ValidPolicy, Rules
<1> QED
  BY <1>1, <1>2, <1>4, <1>5 DEF ValidPolicy, CheapRelease, ExpensiveRelease, Rules

\* powerController.ts:317, the dispatch decides again before it writes: the same
\* state decides the same under the latch that the first decision left, at any
\* instant of the price's validity, so only a change can make a dispatch stale.
THEOREM DecisionIsStable ==
    ASSUME NEW i \in Inputs, NEW t \in Int, SameStanding(i, t)
    PROVE  SameSelection(Resolve(Again(i, t)), Resolve(i)) /\ Resolve(Again(i, t)).latch = Resolve(i).latch
<1> DEFINE j == Again(i, t)
           l == Resolve(i).latch
<1>1. /\ j.policy = i.policy /\ j.price = i.price /\ j.weekly = i.weekly /\ j.weeklySound = i.weeklySound
      /\ j.enabled = i.enabled /\ j.paused = i.paused /\ j.hold = i.hold /\ j.actual = i.actual
      /\ j.supported = i.supported /\ j.manual = i.manual /\ j.manualLeft = i.manualLeft
      /\ j.byHand = i.byHand /\ j.latch = l /\ j.now = t
  BY DEF Again, Inputs
<1>2. Base(j) = Base(i) /\ FreshLatch(j) = FreshLatch(i) /\ (Overridden(j) <=> Overridden(i))
  BY <1>1 DEF Base, FreshLatch, Overridden
<1>3. Held(j) /\ CarriedLatch(j) = l
  BY <1>1, LatchVersion DEF Held, CarriedLatch
<1>4. ValidPrice(j) <=> ValidPrice(i)
  BY <1>1 DEF SameStanding, ValidPrice, Inputs
<1> HIDE DEF j, l
<1>5. ASSUME l = NewLatch(i) PROVE NewLatch(j) = NewLatch(i)
  <2>1. Expensive(j) = Expensive(i)
    BY <1>1, <1>3, <1>5 DEF NewLatch, Expensive
  <2>2. Cheap(j) = Cheap(i)
    BY <1>1, <1>3, <1>5 DEF NewLatch, Cheap
  <2> QED
    BY <1>1, <2>1, <2>2 DEF NewLatch
<1>6. CASE /\ i.enabled /\ i.actual # "other" /\ ~(i.byHand /\ Overridden(i))
           /\ ~i.paused /\ ~i.hold /\ ~Overridden(i)
           /\ i.weeklySound /\ ValidPolicy(i.policy) /\ Base(i) # NoMode
  <2>1. Resolve(i) = Selected(i) /\ Resolve(j) = Selected(j)
    BY <1>1, <1>2, <1>6 DEF Resolve, Chosen
  <2>2. CASE RulesOn(i.policy) /\ ValidPrice(i)
    <3>1. Resolve(i) = Priced(i) /\ Resolve(j) = Priced(j)
      BY <1>1, <1>4, <2>1, <2>2 DEF Selected
    <3>2. l = NewLatch(i)
      BY <3>1 DEF l, Priced, IfSupported, Result
    <3>3. Priced(j) = Priced(i)
      BY <1>1, <1>2, <1>5, <3>2 DEF Priced, IfSupported, Result
    <3> QED
      BY <3>1, <3>3 DEF SameSelection, j
  <2>3. CASE ~(RulesOn(i.policy) /\ ValidPrice(i))
    <3>1. Selected(j) = Selected(i)
      BY <1>1, <1>2, <1>4, <2>3 DEF Selected, IfSupported, Result
    <3> QED
      BY <2>1, <3>1 DEF SameSelection, j
  <2> QED
    BY <2>2, <2>3
<1>7. CASE ~(/\ i.enabled /\ i.actual # "other" /\ ~(i.byHand /\ Overridden(i))
             /\ ~i.paused /\ ~i.hold /\ ~Overridden(i)
             /\ i.weeklySound /\ ValidPolicy(i.policy) /\ Base(i) # NoMode)
  <2>1. Restricted(j) = Restricted(i)
    BY <1>1, <1>2 DEF Restricted, IfSupported, Nothing, Result
  <2>2. /\ Resolve(j).target = Resolve(i).target /\ Resolve(j).reason = Resolve(i).reason
        /\ Resolve(j).until = Resolve(i).until
    BY <1>1, <1>2, <1>7, <2>1 DEF Resolve, Chosen, Override, IfSupported, Nothing, Result
  <2>3. Resolve(j).latch = l
    BY <1>1, <1>2, <1>3, <1>7, <2>1 DEF Resolve, Chosen, Override, Restricted, IfSupported, Nothing, Result, l
  <2> QED
    BY <2>2, <2>3 DEF SameSelection, j, l
<1> QED
  BY <1>6, <1>7

\* The hysteresis of a rule keeps a node from switching at every small move: a cap
\* that was lifted comes back, and a boost that ended returns, under the same rules
\* only after the price has moved by more than the hysteresis.
THEOREM HysteresisSeparates ==
    ASSUME NEW i \in Inputs, NEW j \in Inputs,
           ValidPolicy(i.policy), j.policy = i.policy, j.latch = NewLatch(i), Held(i)
    PROVE  /\ i.latch.expensive /\ ~Expensive(i) /\ Expensive(j) =>
                j.price.amount - i.price.amount > i.policy.expensive.hysteresis
           /\ i.latch.cheap /\ ~Cheap(i) /\ Cheap(j) =>
                i.price.amount - j.price.amount > i.policy.cheap.hysteresis
<1> DEFINE p == i.policy
<1>1. p \in Policies /\ i.price.amount \in Int /\ j.price.amount \in Int
  BY DEF Inputs, Prices
<1>2. p.expensive \in Rules /\ p.cheap \in Rules
  BY <1>1 DEF Policies
<1>3. ASSUME i.latch.expensive, ~Expensive(i), Expensive(j)
      PROVE  j.price.amount - i.price.amount > p.expensive.hysteresis
  <2>1. ~j.latch.expensive
    BY <1>3 DEF NewLatch
  <2>2. p.expensive.enabled /\ j.price.amount > p.expensive.threshold
    BY <1>3, <2>1 DEF Expensive, Upper
  <2>3. ~(i.price.amount > p.expensive.threshold - p.expensive.hysteresis)
    BY <1>3, <2>2 DEF Expensive, ExpensiveRelease
  <2> QED
    BY <1>1, <1>2, <2>2, <2>3 DEF Rules
<1>4. ASSUME i.latch.cheap, ~Cheap(i), Cheap(j)
      PROVE  i.price.amount - j.price.amount > p.cheap.hysteresis
  <2>1. ~j.latch.cheap
    BY <1>4 DEF NewLatch
  <2>2. p.cheap.enabled /\ j.price.amount < p.cheap.threshold
    BY <1>4, <2>1 DEF Cheap, Lower
  <2>3. ~(i.price.amount < p.cheap.threshold + p.cheap.hysteresis)
    BY <1>4, <2>2 DEF Cheap, CheapRelease
  <2> QED
    BY <1>1, <1>2, <2>2, <2>3 DEF Rules
<1> QED
  BY <1>3, <1>4

\* powerPolicy.ts:332, "prefer restriction. No boost": an automatic decision goes
\* above the timetable's mode only for a valid price below the boost's release,
\* never for a missing, outdated or foreign price or under rules that fail validation,
\* and never for a price that is capped.
THEOREM RaiseNeedsCheapPrice ==
    ASSUME NEW i \in Inputs, Resolve(i).target # NoMode, Resolve(i).reason # "manual",
           Above(Resolve(i).target, Base(i))
    PROVE  /\ ValidPolicy(i.policy) /\ RulesOn(i.policy) /\ ValidPrice(i)
           /\ i.price.amount < CheapRelease(i.policy) /\ ~Expensive(i)
<1>1. i.policy \in Policies /\ i.price.amount \in Int
  BY DEF Inputs, Prices
<1>2. i.policy.cheap \in Rules
  BY <1>1 DEF Policies
<1>3. Base(i) # NoMode /\ Resolve(i) = IF ValidPolicy(i.policy) THEN Selected(i) ELSE Restricted(i)
  BY DEF Resolve, Chosen, Override, IfSupported, Nothing, Result, Restricted
<1>4. Base(i) \in WritableModes
  BY <1>1, <1>3 DEF Base, Inputs, Policies
<1>5. ~Above(Base(i), Base(i)) /\ ~Above(Capped(Base(i), i.policy.cap), Base(i))
  BY <1>4 DEF Capped, Above, Rank, WritableModes, Caps
<1>6. ValidPolicy(i.policy)
  <2>1. SUFFICES ASSUME ~ValidPolicy(i.policy) PROVE FALSE
    OBVIOUS
  <2>2. Resolve(i).target \in {Base(i), Capped(Base(i), i.policy.cap)}
    BY <1>3, <2>1 DEF Restricted, IfSupported, Nothing, Result
  <2> QED
    BY <1>5, <2>2
<1>7. RulesOn(i.policy) /\ ValidPrice(i) /\ ~Expensive(i) /\ Cheap(i)
  <2>1. Resolve(i) = Selected(i)
    BY <1>3, <1>6
  <2>2. CASE ~RulesOn(i.policy) \/ ~ValidPrice(i)
    BY <1>5, <2>1, <2>2 DEF Selected, IfSupported, Result
  <2>3. CASE RulesOn(i.policy) /\ ValidPrice(i)
    <3>1. Resolve(i) = Priced(i)
      BY <2>1, <2>3 DEF Selected
    <3>2. (NewLatch(i).expensive <=> Expensive(i)) /\ (NewLatch(i).cheap <=> Cheap(i))
      BY DEF NewLatch
    <3>3. ~Expensive(i)
      BY <1>5, <3>1, <3>2 DEF Priced, IfSupported, Result
    <3>4. Cheap(i)
      BY <1>5, <3>1, <3>2, <3>3 DEF Priced, IfSupported, Result
    <3> QED
      BY <2>3, <3>3, <3>4
  <2> QED
    BY <2>2, <2>3
<1>8. i.price.amount < CheapRelease(i.policy)
  BY <1>1, <1>2, <1>6, <1>7 DEF Cheap, Lower, CheapRelease, ValidPolicy, Rules
<1> QED
  BY <1>6, <1>7, <1>8

\* powerPolicy.ts:333, "nothing may move above the actual mode": rules that fail
\* validation never raise the mode of the node.
THEOREM InvalidRulesOnlyLower ==
    ASSUME NEW i \in Inputs, ~ValidPolicy(i.policy),
           Resolve(i).target # NoMode, Resolve(i).reason # "manual"
    PROVE  ~Above(Resolve(i).target, i.actual)
<1>1. Resolve(i) = Restricted(i)
  BY DEF Resolve, Chosen, Override, IfSupported, Nothing, Result
<1> QED
  BY <1>1 DEF Restricted, IfSupported, Nothing, Result

-----------------------------------------------------------------------------
(* What the two modules say of a decision: PowerDecisions.                 *)

\* The input i says what the snapshot s does, field by field.
Says(i, s, actual, manual, x) ==
    /\ i.enabled <=> s.enabled /\ (s.automation \/ manual)
    /\ i.paused = s.paused /\ i.hold = s.hold /\ (i.byHand <=> manual)
    /\ i.actual # "other" <=> actual \in Modes
    /\ i.supported = Modes /\ i.weekly = Schedule[slot] /\ i.weeklySound = TRUE
    /\ i.policy = x.policy /\ Schedule[slot] \in Modes
    /\ s.manual # None => i.manual = s.manual /\ s.manual \in Modes
    /\ Overridden(i) <=> s.manual # None

LEMMA InputFields ==
    ASSUME TypeOK, NEW s \in Snapshots, NEW actual, NEW manual, NEW x \in Contexts
    PROVE  Says(InputOf(s, actual, manual, x), s, actual, manual, x)
<1>1. Schedule[slot] \in Modes
  BY ScheduleAssumption DEF TypeOK
<1>2. s.manual \in Modes \cup {None}
  BY DEF Snapshots
<1>3. NoMode \notin Modes /\ "other" \notin Modes
  BY ContextsAssumption DEF WritableModes, NoMode
<1> QED
  BY <1>1, <1>2, <1>3 DEF InputOf, Overridden, Says

LEMMA InputType ==
    ASSUME TypeOK, NEW s \in Snapshots, NEW actual, NEW manual \in BOOLEAN, NEW x \in Contexts
    PROVE  InputOf(s, actual, manual, x) \in Inputs
<1>1. Schedule[slot] \in WritableModes /\ Modes \subseteq WritableModes
  BY ScheduleAssumption, ContextsAssumption DEF TypeOK
<1>2. s.manual = None \/ s.manual \in WritableModes
  BY <1>1 DEF Snapshots
<1>3. s.enabled \in BOOLEAN /\ s.automation \in BOOLEAN /\ s.paused \in BOOLEAN /\ s.hold \in BOOLEAN
  BY DEF Snapshots
<1>4. x.policy \in Policies /\ x.price \in Prices /\ x.latch \in Latches /\ x.now \in Int
  BY ContextsAssumption
<1> QED
  BY <1>1, <1>2, <1>3, <1>4 DEF InputOf, Inputs

\* Once control is on and no hold, pause or override decides: the slot's mode, or what valid
\* rules make of it.
LEMMA RulesDecide ==
    ASSUME NEW i, i.weekly \in Modes, i.weeklySound = TRUE, i.supported = Modes
    PROVE  LET r == Chosen(i)
           IN  /\ r.target \in Modes \cup {NoMode} /\ r.reason # "manual"
               /\ ValidPolicy(i.policy) /\ {"high", i.policy.cap} \subseteq Modes => r.target # NoMode
               /\ ValidPolicy(i.policy) /\ ~RulesOn(i.policy) => r.target = i.weekly
<1>1. NoMode \notin Modes
  BY ContextsAssumption DEF WritableModes, NoMode
<1>2. Base(i) = i.weekly /\ Base(i) \in Modes
  BY <1>1 DEF Base
<1>3. ASSUME NEW reason, reason # "manual", reason # "unsupported_mode", NEW target, NEW latch, NEW until
      PROVE  LET d == IfSupported(i, reason, target, latch, until)
             IN  /\ d.target \in Modes \cup {NoMode} /\ d.reason # "manual"
                 /\ target \in Modes => d.target = target
  BY <1>3 DEF IfSupported, Result
<1>4. CASE ~ValidPolicy(i.policy)
  <2>1. Chosen(i) = Restricted(i)
    BY <1>4 DEF Chosen
  <2>2. Restricted(i).target \in Modes \cup {NoMode} /\ Restricted(i).reason # "manual"
    BY DEF Restricted, Nothing, IfSupported, Result
  <2> QED
    BY <1>4, <2>1, <2>2
<1>5. CASE ValidPolicy(i.policy)
  <2>1. Chosen(i) = Selected(i)
    BY <1>1, <1>2, <1>5 DEF Chosen
  <2>2. CASE ~RulesOn(i.policy)
    <3>1. Selected(i) = IfSupported(i, "base", Base(i), FreshLatch(i), Never)
      BY <2>2 DEF Selected
    <3> QED
      BY <1>1, <1>2, <2>1, <3>1 DEF IfSupported, Result
  <2>3. CASE RulesOn(i.policy) /\ ~ValidPrice(i)
    <3>1. Selected(i) = IfSupported(i, "price_unavailable_fallback", Base(i), FreshLatch(i), Never)
      BY <2>3 DEF Selected
    <3> QED
      BY <1>1, <1>2, <2>1, <2>3, <3>1 DEF IfSupported, Result
  <2>4. CASE RulesOn(i.policy) /\ ValidPrice(i)
    <3>1. Selected(i) = Priced(i)
      BY <2>4 DEF Selected
    <3>2. Capped(Base(i), i.policy.cap) \in {Base(i), i.policy.cap}
      BY DEF Capped
    <3>3. /\ Priced(i).target \in Modes \cup {NoMode} /\ Priced(i).reason # "manual"
          /\ {"high", i.policy.cap} \subseteq Modes => Priced(i).target # NoMode
      BY <1>1, <1>2, <3>2 DEF Priced, IfSupported, Result
    <3> QED
      BY <2>1, <2>4, <3>1, <3>3
  <2> QED
    BY <2>2, <2>3, <2>4
<1> QED
  BY <1>4, <1>5

\* Resolver and Decision of the same snapshot, case by case.
LEMMA SameControlHere ==
    ASSUME TypeOK, NEW s \in Snapshots, NEW actual, NEW manual \in BOOLEAN, NEW x \in Contexts
    PROVE  LET i == InputOf(s, actual, manual, x)
           IN  SameControl(Decision(s, actual, manual), i, Resolve(i))
<1> DEFINE i == InputOf(s, actual, manual, x)
           d == Decision(s, actual, manual)
           usable == s.enabled /\ (s.automation \/ manual) /\ actual \in Modes
           held == s.paused \/ s.hold
<1>2. Says(i, s, actual, manual, x)
  BY InputFields
<1> HIDE DEF i
<1>3. NoMode \notin Modes /\ None \notin Modes
  BY ContextsAssumption, ModesAssumption DEF WritableModes, NoMode
<1>d. d = IF ~usable THEN NoSelection
          ELSE IF s.manual # None /\ (manual \/ ~held) THEN [target |-> s.manual, reason |-> "manual"]
          ELSE IF held THEN NoSelection
          ELSE [target |-> Schedule[slot], reason |-> "schedule"]
  BY DEF Decision
<1>n. NoSelection.target = None /\ NoSelection.reason = "none"
  BY DEF NoSelection
<1> HIDE DEF i, d, SameControl
<1>4. CASE ~usable
  <2>1. Resolve(i).target = NoMode /\ Resolve(i).reason # "manual"
    BY <1>2, <1>4 DEF Says, Resolve, Nothing, Result
  <2> QED
    BY <1>4, <1>d, <1>n, <2>1 DEF i, d, SameControl
<1>5. CASE usable /\ s.manual # None /\ (manual \/ ~held)
  <2>1. Resolve(i) = Override(i)
    BY <1>2, <1>5 DEF Says, Resolve
  <2>2. Override(i).target = s.manual /\ Override(i).reason = "manual" /\ s.manual \in Modes
    BY <1>2, <1>5 DEF Says, Override, IfSupported, Result
  <2>3. d.target = s.manual /\ d.reason = "manual"
    BY <1>5, <1>d
  <2> QED
    BY <1>3, <2>1, <2>2, <2>3 DEF i, d, SameControl
<1>6. CASE usable /\ ~(s.manual # None /\ (manual \/ ~held)) /\ held
  <2>1. Resolve(i).target = NoMode /\ Resolve(i).reason # "manual"
    BY <1>2, <1>6 DEF Says, Resolve, Nothing, Result
  <2>2. d = NoSelection
    BY <1>6, <1>d
  <2> QED
    BY <1>n, <2>1, <2>2 DEF i, d, SameControl
<1>7. CASE usable /\ ~(s.manual # None /\ (manual \/ ~held)) /\ ~held
  <2>1. Resolve(i) = Chosen(i)
    BY <1>2, <1>7 DEF Says, Resolve
  <2>2. d.target = Schedule[slot] /\ d.reason = "schedule"
    BY <1>7, <1>d
  <2>3. /\ Chosen(i).target \in Modes \cup {NoMode} /\ Chosen(i).reason # "manual"
        /\ ValidPolicy(i.policy) /\ {"high", i.policy.cap} \subseteq Modes => Chosen(i).target # NoMode
        /\ ValidPolicy(i.policy) /\ ~RulesOn(i.policy) => Chosen(i).target = i.weekly
    BY <1>2, RulesDecide DEF Says
  <2> QED
    BY <1>2, <1>3, <2>1, <2>2, <2>3 DEF Says, i, d, SameControl
<1> QED
  BY <1>4, <1>5, <1>6, <1>7

\* A price decides only while it counts, under rules that are valid to raise, and a latch of
\* other rules as none.
LEMMA SoundPriceHere ==
    ASSUME NEW i \in Inputs
    PROVE  SoundPrice(i, Resolve(i))
<1>1. Resolve(i).until # Never => ValidPrice(i) /\ Resolve(i).until = i.price.until
  BY DEF Resolve, Chosen, Selected, Priced, Restricted, Override, IfSupported, Nothing, Result
<1>2. ASSUME i.latch.version # i.policy.version
      PROVE  Resolve([i EXCEPT !.latch = NoLatch]) = Resolve(i)
  <2> DEFINE k == [i EXCEPT !.latch = NoLatch]
  <2>1. /\ k.policy = i.policy /\ k.price = i.price /\ k.weekly = i.weekly /\ k.weeklySound = i.weeklySound
        /\ k.enabled = i.enabled /\ k.paused = i.paused /\ k.hold = i.hold /\ k.actual = i.actual
        /\ k.supported = i.supported /\ k.manual = i.manual /\ k.manualLeft = i.manualLeft
        /\ k.byHand = i.byHand /\ k.now = i.now /\ k.latch = NoLatch
    BY DEF Inputs
  <2> HIDE DEF k
  <2>2. ~Held(i) /\ ~Held(k)
    BY <1>2, <2>1 DEF Held, NoLatch, Inputs, Policies
  <2>3. /\ Base(k) = Base(i) /\ FreshLatch(k) = FreshLatch(i) /\ CarriedLatch(k) = CarriedLatch(i)
        /\ (Overridden(k) <=> Overridden(i)) /\ (ValidPrice(k) <=> ValidPrice(i))
    BY <2>1, <2>2 DEF Base, FreshLatch, CarriedLatch, Overridden, ValidPrice
  <2>4. NewLatch(k) = NewLatch(i)
    BY <2>1, <2>2 DEF NewLatch, Expensive, Cheap
  <2>5. Override(k) = Override(i) /\ Restricted(k) = Restricted(i) /\ Priced(k) = Priced(i)
    BY <2>1, <2>3, <2>4 DEF Override, Restricted, Priced, IfSupported, Nothing, Result
  <2>6. Selected(k) = Selected(i)
    BY <2>1, <2>3, <2>5 DEF Selected, IfSupported, Result
  <2>7. Chosen(k) = Chosen(i)
    BY <2>1, <2>3, <2>5, <2>6 DEF Chosen, Nothing
  <2> QED
    BY <2>1, <2>3, <2>5, <2>7 DEF Resolve, Nothing, k
<1>3. ASSUME NEW t \in Instants, SameStanding(i, t)
      PROVE  SameSelection(Resolve(Again(i, t)), Resolve(i)) /\ Resolve(Again(i, t)).latch = Resolve(i).latch
  <2>1. t \in Int
    BY ContextsAssumption DEF Instants
  <2> QED
    BY <1>3, <2>1, DecisionIsStable
<1>4. Resolve(i).target # NoMode /\ Resolve(i).reason # "manual" /\ Above(Resolve(i).target, Base(i))
        => ValidPolicy(i.policy) /\ ValidPrice(i) /\ i.price.amount < CheapRelease(i.policy) /\ ~Expensive(i)
  BY RaiseNeedsCheapPrice
<1> QED
  BY <1>1, <1>2, <1>3, <1>4 DEF SoundPrice, ValidPrice

\* powerDecisionContext.ts:6-8 and powerController.ts:317: for any rules, prices, latches and
\* instants the resolver names a mode, or the override, in just the states in which Decision
\* does, a price decides only while it counts, and a decision repeated before the write holds.
THEOREM ResolverAgrees == Spec => []DecisionsAgree
<1>1. ASSUME TypeOK, NEW c \in Controllers, NEW x \in Contexts, NEW s \in Decided(c)
      PROVE  LET i == InputOf(s.snap, s.actual, IsManual(c), x)
                 r == Resolve(i)
             IN  SameControl(Decision(s.snap, s.actual, IsManual(c)), i, r) /\ SoundPrice(i, r)
  <2>1. s.snap \in Snapshots /\ IsManual(c) \in BOOLEAN
    BY <1>1, SnapshotType DEF TypeOK, CtlRecords, IsManual, Decided, At
  <2>2. InputOf(s.snap, s.actual, IsManual(c), x) \in Inputs
    BY <1>1, <2>1, InputType
  <2> QED
    BY <1>1, <2>1, <2>2, SameControlHere, SoundPriceHere
<1>2. TypeOK => DecisionsAgree
  BY <1>1 DEF DecisionsAgree
<1> QED
  BY <1>2, TypeCorrect, PTL

=============================================================================
