---------------------------- MODULE PowerControl ----------------------------
(***************************************************************************)
(* The power-mode control of one physical node.                            *)
(*                                                                         *)
(* Several controller instances (the 60 s worker sweep, the admin router's *)
(* manual controller, the same in further backend processes) reconcile the *)
(* node's iLO power mode with one row of hardware_power_policies.  They    *)
(* share nothing but the database, whose claim_token column is a lease on  *)
(* the right to PATCH the iLO.  One action is one database statement or    *)
(* transaction, one iLO request, or one wait of the code; local            *)
(* computation is joined to the step it follows.                           *)
(*                                                                         *)
(* Time is relative: leaseLeft, sinceClaim and writeLeft count ticks of a  *)
(* common clock.  Weekly-schedule slots and backoff delays are long        *)
(* against a lease and advance on their own.                               *)
(***************************************************************************)
EXTENDS Integers, FiniteSets, Sequences

CONSTANTS
    Automatic,            \* controllers that run the automatic sweep
    Manual,          \* controllers that run explicit admin commands
    Modes,           \* writable power modes the hardware supports
    OsControl,       \* an observed mode that may not be written over
    None,            \* SQL NULL
    Schedule,        \* the mode each schedule slot selects
    Lease, DispatchBudget, WriteTimeout,   \* timings, in ticks
    NotifyThreshold, \* FAILURE_NOTIFY_THRESHOLD
    MaxClaims,       \* bound: claims taken in a behaviour
    MaxEvents        \* bound: admin requests, outside changes and crashes

Controllers == Automatic \cup Manual
Tokens == 1..MaxClaims
NoToken == 0
Observed == Modes \cup {OsControl}

ASSUME ModesAssumption ==
    /\ OsControl \notin Modes /\ None \notin Observed
    /\ Automatic \cap Manual = {}
ASSUME ScheduleAssumption == Schedule \in Seq(Modes) /\ Len(Schedule) > 0
ASSUME BoundsAssumption ==
    /\ MaxClaims \in Nat /\ MaxEvents \in Nat /\ NotifyThreshold \in Nat
\* leaseMs > dispatchBudgetMs + writeTimeoutMs
ASSUME TimingAssumption ==
    /\ Lease \in Nat /\ DispatchBudget \in Nat /\ WriteTimeout \in Nat
    /\ Lease > DispatchBudget + WriteTimeout

VARIABLES
    policy,       \* the hardware_power_policies row
    conn,         \* the hardware_connections row
    globalPause,  \* setting power_automation_paused
    ops,          \* the pre-dispatch hardware_power_operations row per claim
    lastToken,    \* claims taken so far
    leaseLeft,    \* claim_expires_at - now, -1 once it lies in the past
    backoff,      \* now < next_attempt_at
    slot,         \* the current schedule slot
    mode,         \* the power mode the iLO holds
    inflight,     \* tokens whose PATCH has left and may still apply
    patched,      \* tokens whose PATCH ever left (history)
    foreign,      \* the mode moved without a controller waiting on it (history)
    ctl,          \* each controller's running reconcile
    zombie,       \* each controller's write call that outlived its deadline
    resume,       \* a resume-drift request between its read and its update
    events        \* admin requests, outside changes and crashes so far (bound)

dbVars == <<policy, conn, globalPause, ops, lastToken, leaseLeft, backoff>>
hwVars == <<mode, inflight, patched, foreign>>
vars == <<dbVars, hwVars, slot, ctl, zombie, resume, events>>

-----------------------------------------------------------------------------
(* Rows, snapshots and controller records.                                 *)

Outcomes == {"verified", "already_set", "unknown", "failed", "stale", "unavailable"}
RowStates == Outcomes \cup {"none", "requested", "not_applied"}

PolicyRow ==
    [version : Nat, automation : BOOLEAN, paused : BOOLEAN,
     hold : BOOLEAN, holdUntil : Nat, manual : Modes \cup {None},
     token : Nat, verified : Observed \cup {None}, failures : Nat,
     notified : BOOLEAN, pending : Modes \cup {None}, pendingOp : Nat]

Snapshots ==
    [cfg : Nat, ver : Nat, enabled : BOOLEAN, automation : BOOLEAN,
     paused : BOOLEAN, hold : BOOLEAN, holdUntil : Nat,
     manual : Modes \cup {None}, verified : Observed \cup {None},
     pending : Modes \cup {None}, pendingOp : Nat]

Selections == [target : Modes \cup {None}, reason : {"none", "manual", "schedule"}]
NoSelection == [target |-> None, reason |-> "none"]

\* load(): what a controller copies out of the two rows.
Snapshot ==
    [cfg |-> conn.version, ver |-> policy.version, enabled |-> conn.enabled,
     automation |-> policy.automation, paused |-> policy.paused \/ globalPause,
     hold |-> policy.hold, holdUntil |-> policy.holdUntil,
     manual |-> policy.manual, verified |-> policy.verified,
     pending |-> policy.pending, pendingOp |-> policy.pendingOp]

BlankSnapshot ==
    [cfg |-> 0, ver |-> 0, enabled |-> FALSE, automation |-> FALSE,
     paused |-> FALSE, hold |-> FALSE, holdUntil |-> 0, manual |-> None,
     verified |-> None, pending |-> None, pendingOp |-> 0]

\* The versions are all that later steps use of the first snapshot.
Versions(s) == [BlankSnapshot EXCEPT !.cfg = s.cfg, !.ver = s.ver]

Steps == {"idle", "release", "load", "read", "unavailable", "resolve", "drift",
          "unhold", "reload", "decide", "claim", "fresh", "current", "renew", "reread",
          "discover", "check", "recheck", "record", "patch", "readback", "finish"}

\* The phase bounded by withDeadline(writeMode, writeTimeoutMs).
WriteSteps == {"discover", "check", "recheck", "record", "patch", "readback"}
\* The steps between the committed "requested" row and the end of the write.
DispatchSteps == {"patch", "readback"}
ClaimSteps == {"fresh", "current", "renew", "reread", "finish"} \cup WriteSteps

IdleCtl ==
    [pc |-> "idle", snap |-> BlankSnapshot, actual |-> None, sel |-> NoSelection,
     token |-> NoToken, sinceClaim |-> 0, writeLeft |-> 0, sent |-> FALSE,
     result |-> "stale"]

CtlRecords ==
    [pc : Steps, snap : Snapshots, actual : Observed \cup {None},
     sel : Selections, token : Nat, sinceClaim : Nat, writeLeft : Nat,
     sent : BOOLEAN, result : Outcomes]

NoZombie == [step |-> "none", token |-> NoToken, target |-> None]
Zombies == [step : {"none", "record", "patch"}, token : Nat, target : Modes \cup {None}]
NoResume == [ver |-> 0, mode |-> None]

-----------------------------------------------------------------------------
(* Decisions.                                                              *)

\* resolvePowerDecision, without price rules, on a snapshot and the actual mode.
Decision(s, actual, manual) ==
    LET usable == s.enabled /\ (s.automation \/ manual) /\ actual \in Modes
        held == s.paused \/ s.hold
    IN  IF ~usable THEN NoSelection
        ELSE IF s.manual # None /\ (manual \/ ~held) THEN [target |-> s.manual, reason |-> "manual"]
        ELSE IF held THEN NoSelection
        ELSE [target |-> Schedule[slot], reason |-> "schedule"]

IsManual(c) == c \in Manual

\* driftHoldUntil: the next weekly boundary, or NULL when only Resume releases.
DriftHoldUntil(actual) == IF actual \in Modes THEN slot + 1 ELSE 0

\* The lease as the SQL sees it: claim_expires_at > now, and < now.
LeaseLive == leaseLeft > 0
\* Mutants: an expired lease is never recognised; the token is not compared.
LeaseExpiredNever == FALSE
HoldsAnyToken(t) == policy.token # NoToken
LeaseExpired == leaseLeft < 0
Holds(t) == policy.token = t

\* The hold is due at its weekly boundary.  Mutant: the boundary is not compared.
HoldDueAlways(s) == s.holdUntil # 0
HoldDue(s) == s.holdUntil # 0 /\ slot >= s.holdUntil

\* Where reconcile goes once an earlier pending write has been looked at.
AfterResolve(c, s, actual) ==
    IF ~IsManual(c) /\ s.verified # None /\ s.verified # actual /\ ~s.hold THEN "drift"
    ELSE IF ~IsManual(c) /\ s.hold /\ HoldDue(s) /\ actual \in Modes THEN "unhold"
    ELSE "decide"

-----------------------------------------------------------------------------
(* Frames.                                                                 *)

At(c, step) == ctl[c].pc = step
Goto(c, step) == ctl' = [ctl EXCEPT ![c].pc = step]
Return(c) == ctl' = [ctl EXCEPT ![c] = IdleCtl]
EndWith(c, outcome) == ctl' = [ctl EXCEPT ![c].pc = "finish", ![c].result = outcome]
LocalStep == UNCHANGED <<dbVars, hwVars, slot, zombie, resume>>
DbStep == UNCHANGED <<hwVars, slot, zombie, resume>>

\* A failure that starts or extends a streak: backoff, and one notice per streak.
Failing(p) ==
    [p EXCEPT !.failures = IF @ < NotifyThreshold THEN @ + 1 ELSE @,
              !.notified = @ \/ p.failures + 1 >= NotifyThreshold]

(***************************************************************************)
(* PowerControlStore: the statements that do not belong to one reconcile.  *)
(***************************************************************************)

\* Mutant: the requested row is not looked up.
MayHaveLeftForgotten(t) == FALSE
MayHaveLeft(t) == ops[t].state = "requested"

\* releaseExpiredClaim: an expired claim is cleared; if its "requested" row
\* exists the write may have left, so the row is unknown and its target pending.
Unclaim(p) == [p EXCEPT !.token = NoToken]
MarkPending(p, target, t) == [p EXCEPT !.pending = target, !.pendingOp = t]

ReleaseExpiredClaim ==
    LET t == policy.token
    IN  IF t # NoToken /\ LeaseExpired
        THEN /\ leaseLeft' = 0
             /\ \/ /\ MayHaveLeft(t)
                   /\ policy' = MarkPending(Unclaim(policy), ops[t].target, t)
                   /\ ops' = [ops EXCEPT ![t].state = "unknown"]
                   /\ backoff' = FALSE
                \/ /\ ~MayHaveLeft(t)
                   /\ policy' = Unclaim(policy)
                   /\ UNCHANGED <<ops, backoff>>
        ELSE UNCHANGED <<policy, ops, backoff, leaseLeft>>

\* The sweep and every policy route clear expired claims before they work.
SweepRelease ==
    /\ policy.token # NoToken /\ LeaseExpired
    /\ ReleaseExpiredClaim
    /\ UNCHANGED <<conn, globalPause, lastToken, hwVars, slot, ctl, zombie, resume>>

(***************************************************************************)
(* PowerController.reconcile, from its start to the dispatch.              *)
(***************************************************************************)

\* The worker's sweep picks the node up: automatedHardwareIds.
StartSweep(c) ==
    /\ c \in Automatic /\ At(c, "idle")
    /\ conn.active /\ conn.enabled /\ policy.automation
    /\ Goto(c, "release") /\ LocalStep

ReleaseFirst(c) ==
    /\ At(c, "release")
    /\ ReleaseExpiredClaim /\ Goto(c, "load")
    /\ UNCHANGED <<conn, globalPause, lastToken>> /\ DbStep

Load(c) ==
    /\ At(c, "load")
    /\ IF ~conn.active \/ ~conn.enabled \/ (~IsManual(c) /\ (~policy.automation \/ backoff))
       THEN Return(c)
       ELSE ctl' = [ctl EXCEPT ![c].pc = "read", ![c].snap = Snapshot]
    /\ LocalStep

\* The first read of the iLO.  It may fail, or find the host off, which only
\* leaves a note in last_outcome.
Read(c) ==
    /\ At(c, "read")
    /\ \/ Goto(c, "unavailable")
       \/ Return(c)
       \/ LET s == ctl[c].snap
              next == IF s.pending # None THEN "resolve" ELSE AfterResolve(c, s, mode)
          IN  ctl' = [ctl EXCEPT ![c].pc = next, ![c].actual = mode]
    /\ LocalStep

RecordUnavailable(c) ==
    /\ At(c, "unavailable")
    /\ IF policy.token = NoToken
       THEN /\ policy' = Failing(policy)
            /\ backoff' = TRUE
       ELSE UNCHANGED <<policy, backoff>>
    /\ Return(c)
    /\ UNCHANGED <<conn, globalPause, ops, lastToken, leaseLeft>> /\ DbStep

\* A verified or already set mode ends the failure streak and anything pending.
Verified(p, m) ==
    [p EXCEPT !.verified = m, !.failures = 0, !.notified = FALSE,
              !.pending = None, !.pendingOp = 0]

\* A successful read of a pending write's target, or of anything else, settles
\* it.  The policy row is matched by "no claim, something pending" alone.
ResolvePending(c) ==
    LET s == ctl[c].snap
        actual == ctl[c].actual
        applied == actual = s.pending
        after == [s EXCEPT !.pending = None, !.pendingOp = 0,
                           !.verified = IF applied THEN actual ELSE @]
    IN  /\ At(c, "resolve")
        /\ IF policy.token = NoToken /\ policy.pending # None
           THEN /\ ops' = IF ops[s.pendingOp].state = "unknown"
                          THEN [ops EXCEPT ![s.pendingOp].state =
                                   IF applied THEN "verified" ELSE "not_applied"]
                          ELSE ops
                /\ policy' = IF applied
                             THEN Verified(policy, actual)
                             ELSE MarkPending(policy, None, 0)
                /\ backoff' = (backoff /\ ~applied)
           ELSE UNCHANGED <<policy, ops, backoff>>
        /\ ctl' = [ctl EXCEPT ![c].pc = AfterResolve(c, after, actual), ![c].snap = after]
        /\ UNCHANGED <<conn, globalPause, lastToken, leaseLeft>> /\ DbStep

\* The WHERE clause of every write made from the first snapshot without a claim.
Unclaimed(s) == policy.version = s.ver /\ policy.token = NoToken

HoldExternalDrift(c) ==
    /\ At(c, "drift")
    /\ policy' = IF Unclaimed(ctl[c].snap)
                 THEN [policy EXCEPT !.hold = TRUE, !.holdUntil = DriftHoldUntil(ctl[c].actual),
                                     !.version = @ + 1]
                 ELSE policy
    /\ Return(c)
    /\ UNCHANGED <<conn, globalPause, ops, lastToken, leaseLeft, backoff>> /\ DbStep

\* At the weekly boundary the hold lifts and adopts the freshly read mode.
ReleaseDriftHold(c) ==
    /\ At(c, "unhold")
    /\ IF Unclaimed(ctl[c].snap) /\ policy.hold
       THEN /\ policy' = [policy EXCEPT !.hold = FALSE, !.holdUntil = 0,
                                        !.verified = ctl[c].actual, !.version = @ + 1]
            /\ Goto(c, "reload")
       ELSE UNCHANGED policy /\ Goto(c, "decide")
    /\ UNCHANGED <<conn, globalPause, ops, lastToken, leaseLeft, backoff>> /\ DbStep

Reload(c) ==
    /\ At(c, "reload")
    /\ IF conn.active THEN ctl' = [ctl EXCEPT ![c].pc = "decide", ![c].snap = Snapshot]
                      ELSE Return(c)
    /\ LocalStep

\* Nothing to write: observe() refreshes the row, if it is still the one read.
Observe(c) ==
    LET d == Decision(ctl[c].snap, ctl[c].actual, IsManual(c))
        met == d.target = ctl[c].actual
    IN  /\ At(c, "decide")
        /\ d.target = None \/ met
        /\ IF Unclaimed(ctl[c].snap) /\ met
           THEN /\ policy' = [policy EXCEPT !.verified = ctl[c].actual, !.failures = 0]
                /\ backoff' = FALSE
           ELSE UNCHANGED <<policy, backoff>>
        /\ Return(c)
        /\ UNCHANGED <<conn, globalPause, ops, lastToken, leaseLeft>> /\ DbStep

\* A mode to write: go on to the claim, unless the upshift dwell holds it back.
Select(c) ==
    LET d == Decision(ctl[c].snap, ctl[c].actual, IsManual(c))
    IN  /\ At(c, "decide")
        /\ d.target # None /\ d.target # ctl[c].actual
        /\ \/ ctl' = [ctl EXCEPT ![c].pc = "claim", ![c].sel = d]
           \/ ~IsManual(c) /\ Return(c)
        /\ LocalStep

(***************************************************************************)
(* PowerController.dispatch: claim, revalidate, write, finish.             *)
(***************************************************************************)

\* Mutant: a held claim does not keep others from claiming.
ClaimableOverClaim(s) ==
    policy.version = s.ver /\ conn.version = s.cfg /\ conn.active /\ conn.enabled
Claimable(s) ==
    /\ Unclaimed(s)
    /\ conn.version = s.cfg /\ conn.active /\ conn.enabled

Claim(c) ==
    /\ At(c, "claim")
    /\ IF Claimable(ctl[c].snap) /\ lastToken < MaxClaims
       THEN /\ lastToken' = lastToken + 1
            /\ policy' = [policy EXCEPT !.token = lastToken + 1]
            /\ leaseLeft' = Lease
            /\ ctl' = [ctl EXCEPT ![c].pc = "fresh", ![c].token = lastToken + 1]
       ELSE Return(c) /\ UNCHANGED <<policy, lastToken, leaseLeft>>
    /\ UNCHANGED <<conn, globalPause, ops, backoff>> /\ DbStep

SameVersions(s) == conn.active /\ conn.version = s.cfg /\ policy.version = s.ver

Fresh(c) ==
    /\ At(c, "fresh")
    /\ IF SameVersions(ctl[c].snap)
       THEN ctl' = [ctl EXCEPT ![c].pc = "current", ![c].snap = Snapshot]
       ELSE EndWith(c, "stale")
    /\ LocalStep

ClaimStillCurrent(c) ==
    /\ IsManual(c) \/ (~globalPause /\ policy.automation)
    /\ Holds(ctl[c].token) /\ LeaseLive
    /\ SameVersions(ctl[c].snap) /\ conn.enabled

Current(c) ==
    /\ At(c, "current")
    /\ IF ClaimStillCurrent(c) THEN Goto(c, "renew") ELSE EndWith(c, "stale")
    /\ LocalStep

RenewClaim(c) ==
    /\ At(c, "renew")
    /\ IF Holds(ctl[c].token) /\ LeaseLive
       THEN leaseLeft' = Lease /\ Goto(c, "reread")
       ELSE UNCHANGED leaseLeft /\ EndWith(c, "stale")
    /\ UNCHANGED <<policy, conn, globalPause, ops, lastToken, backoff>> /\ DbStep

\* The fresh read under the claim must lead to the same selection.
Reread(c) ==
    LET d == Decision(ctl[c].snap, mode, IsManual(c))
    IN  /\ At(c, "reread")
        /\ \/ EndWith(c, "failed")
           \/ EndWith(c, "unavailable")
           \/ d # ctl[c].sel /\ EndWith(c, "stale")
           \/ d = ctl[c].sel /\ d.target = mode /\ EndWith(c, "already_set")
           \/ d = ctl[c].sel /\ ~IsManual(c) /\ EndWith(c, "stale")
           \/ /\ d = ctl[c].sel /\ d.target # mode
              /\ ctl' = [ctl EXCEPT ![c].pc = "discover", ![c].actual = mode,
                                    ![c].snap = Versions(@), ![c].writeLeft = WriteTimeout]
        /\ LocalStep

\* setRuntimeMode reads the node once more before its pre-dispatch guard.
Discover(c) ==
    /\ At(c, "discover")
    /\ \/ EndWith(c, "failed")
       \/ EndWith(c, "unavailable")
       \/ mode = ctl[c].sel.target /\ EndWith(c, "already_set")
       \/ mode \in Modes \ {ctl[c].sel.target} /\ Goto(c, "check")
    /\ LocalStep

WithinBudget(c) == ctl[c].sinceClaim <= DispatchBudget

\* The guard: budget and claim, then row and decision, then the requested row.
GuardCheck(c) ==
    /\ At(c, "check")
    /\ IF WithinBudget(c) /\ ClaimStillCurrent(c) THEN Goto(c, "recheck") ELSE EndWith(c, "stale")
    /\ LocalStep

GuardRecheck(c) ==
    /\ At(c, "recheck")
    /\ IF SameVersions(ctl[c].snap) /\ Decision(Snapshot, ctl[c].actual, IsManual(c)) = ctl[c].sel
       THEN Goto(c, "record")
       ELSE EndWith(c, "stale")
    /\ LocalStep

\* Mutant: the renewal adds a lease to what is left of the old one.
InsertRequestedAdds(t, target) ==
    /\ leaseLeft' = leaseLeft + Lease
    /\ ops' = [ops EXCEPT ![t] = [state |-> "requested", target |-> target]]

\* recordRequested: renewed lease and "requested" row in one transaction.
InsertRequested(t, target) ==
    /\ leaseLeft' = Lease
    /\ ops' = [ops EXCEPT ![t] = [state |-> "requested", target |-> target]]

MayRecord(t) == Holds(t) /\ LeaseLive

RecordRequested(c) ==
    /\ At(c, "record")
    /\ IF MayRecord(ctl[c].token)
       THEN /\ InsertRequested(ctl[c].token, ctl[c].sel.target)
            /\ ctl' = [ctl EXCEPT ![c].pc = "patch", ![c].sent = TRUE]
       ELSE UNCHANGED <<leaseLeft, ops>> /\ EndWith(c, "stale")
    /\ UNCHANGED <<policy, conn, globalPause, lastToken, backoff>> /\ DbStep

\* The PATCH: applied, applying later than its answer, refused, or broken off
\* with or without effect.
SendPatch(c) ==
    LET t == ctl[c].token
    IN  /\ At(c, "patch")
        /\ patched' = patched \cup {t}
        /\ \/ mode' = ctl[c].sel.target /\ UNCHANGED inflight /\ Goto(c, "readback")
           \/ inflight' = inflight \cup {t} /\ UNCHANGED mode /\ Goto(c, "readback")
           \/ inflight' = inflight \cup {t} /\ UNCHANGED mode /\ EndWith(c, "unknown")
           \/ UNCHANGED <<mode, inflight>> /\ EndWith(c, "failed")
        /\ UNCHANGED <<dbVars, foreign, slot, zombie, resume>>

\* Up to three reads: the target seen once is verified, anything else unknown.
Readback(c) ==
    /\ At(c, "readback")
    /\ \/ mode = ctl[c].sel.target /\ EndWith(c, "verified")
       \/ EndWith(c, "unknown")
    /\ LocalStep

\* The write call exceeds writeTimeoutMs: the controller gives up on it, while a
\* database call or PATCH already under way goes on.
WriteDeadline(c) ==
    /\ ctl[c].pc \in WriteSteps /\ ctl[c].writeLeft = 0
    /\ zombie[c] = NoZombie
    /\ EndWith(c, IF ctl[c].sent THEN "unknown" ELSE "failed")
    /\ zombie' = IF ctl[c].pc \in {"record", "patch"}
                 THEN [zombie EXCEPT ![c] = [step |-> ctl[c].pc, token |-> ctl[c].token,
                                             target |-> ctl[c].sel.target]]
                 ELSE zombie
    /\ UNCHANGED <<dbVars, hwVars, slot, resume>>

\* finish(): policy state changes only while the token still holds the claim.
Finish(c) ==
    LET t == ctl[c].token
        o == ctl[c].result
        target == ctl[c].sel.target
    IN  /\ At(c, "finish")
        /\ ops' = IF ctl[c].sent THEN [ops EXCEPT ![t].state = o] ELSE ops
        /\ leaseLeft' = IF Holds(t) THEN 0 ELSE leaseLeft
        /\ \/ ~Holds(t) /\ UNCHANGED <<policy, backoff>>
           \/ /\ Holds(t) /\ o \in {"verified", "already_set"}
              /\ policy' = Verified(Unclaim(policy), target)
              /\ backoff' = FALSE
           \/ /\ Holds(t) /\ o \in {"unknown", "failed"}
              /\ policy' = IF o = "unknown" THEN MarkPending(Failing(Unclaim(policy)), target, t)
                                            ELSE Failing(Unclaim(policy))
              /\ backoff' = TRUE
           \/ /\ Holds(t) /\ o \in {"stale", "unavailable"}
              /\ policy' = Unclaim(policy) /\ UNCHANGED backoff
        /\ Return(c)
        /\ UNCHANGED <<conn, globalPause, lastToken>> /\ DbStep

\* A requested row whose transaction ends after the deadline; nothing is sent.
ZombieRecord(c) ==
    /\ zombie[c].step = "record"
    /\ IF MayRecord(zombie[c].token)
       THEN InsertRequested(zombie[c].token, zombie[c].target)
       ELSE UNCHANGED <<leaseLeft, ops>>
    /\ zombie' = [zombie EXCEPT ![c] = NoZombie]
    /\ UNCHANGED <<policy, conn, globalPause, lastToken, backoff, hwVars, slot, ctl, resume>>

\* A PATCH whose guard had passed leaves after the deadline.
ZombiePatch(c) ==
    /\ zombie[c].step = "patch"
    /\ inflight' = inflight \cup {zombie[c].token}
    /\ patched' = patched \cup {zombie[c].token}
    /\ zombie' = [zombie EXCEPT ![c] = NoZombie]
    /\ UNCHANGED <<dbVars, mode, foreign, slot, ctl, resume>>

(***************************************************************************)
(* The admin routes.  A versioned update carries the version the client    *)
(* read, and matches only that version and no claim.                       *)
(***************************************************************************)

\* Mutant: the claim does not block edits.
EditableAlways == TRUE
Editable == policy.token = NoToken

Edit(row) ==
    /\ Editable
    /\ policy' = [row EXCEPT !.version = @ + 1]
    /\ UNCHANGED <<conn, globalPause, ops, lastToken, leaseLeft, backoff>>

SavePolicy(automation) ==
    /\ Edit([policy EXCEPT !.automation = automation])
    /\ UNCHANGED <<hwVars, slot, ctl, zombie, resume>>

Pause(paused) ==
    /\ Edit([policy EXCEPT !.paused = paused])
    /\ UNCHANGED <<hwVars, slot, ctl, zombie, resume>>

ClearManual ==
    /\ policy.manual # None
    /\ Edit([policy EXCEPT !.manual = None])
    /\ UNCHANGED <<hwVars, slot, ctl, zombie, resume>>

\* A manual command stores the override, then reconciles; a controller already
\* at work on the node answers busy and the override stays stored.
ManualRequest(c, m) ==
    /\ c \in Manual
    /\ conn.active /\ conn.enabled
    /\ Edit([policy EXCEPT !.manual = m])
    /\ IF At(c, "idle") THEN Goto(c, "release") ELSE UNCHANGED ctl
    /\ UNCHANGED <<hwVars, slot, zombie, resume>>

\* resume-drift reads the iLO between its check of the row and its update.
ResumeRead ==
    /\ resume = NoResume /\ Editable /\ conn.active
    /\ mode \in Modes
    /\ resume' = [ver |-> policy.version, mode |-> mode]
    /\ UNCHANGED <<dbVars, hwVars, slot, ctl, zombie>>

ResumeCommit ==
    /\ resume # NoResume
    /\ policy' = IF policy.version = resume.ver /\ policy.token = NoToken
                 THEN [policy EXCEPT !.hold = FALSE, !.holdUntil = 0,
                                     !.verified = resume.mode, !.version = @ + 1]
                 ELSE policy
    /\ resume' = NoResume
    /\ UNCHANGED <<conn, globalPause, ops, lastToken, leaseLeft, backoff>>
    /\ UNCHANGED <<hwVars, slot, ctl, zombie>>

Enable ==
    /\ conn.active /\ policy.token = NoToken
    /\ conn' = [conn EXCEPT !.enabled = TRUE, !.version = @ + 1]
    /\ UNCHANGED <<policy, globalPause, ops, lastToken, leaseLeft, backoff>>
    /\ UNCHANGED <<hwVars, slot, ctl, zombie, resume>>

Disable ==
    /\ conn.active
    /\ conn' = [conn EXCEPT !.enabled = FALSE, !.version = @ + 1]
    /\ UNCHANGED <<policy, globalPause, ops, lastToken, leaseLeft, backoff>>
    /\ UNCHANGED <<hwVars, slot, ctl, zombie, resume>>

Decommission ==
    /\ conn.active
    /\ conn' = [conn EXCEPT !.active = FALSE, !.enabled = FALSE]
    /\ UNCHANGED <<policy, globalPause, ops, lastToken, leaseLeft, backoff>>
    /\ UNCHANGED <<hwVars, slot, ctl, zombie, resume>>

PauseAll(paused) ==
    /\ globalPause' = paused
    /\ UNCHANGED <<policy, conn, ops, lastToken, leaseLeft, backoff>>
    /\ UNCHANGED <<hwVars, slot, ctl, zombie, resume>>

(***************************************************************************)
(* Time, the iLO, the operator at the server, and crashes.                 *)
(***************************************************************************)

Dec(n, floor) == IF n > floor THEN n - 1 ELSE n

\* The write timer fires promptly: time does not pass a running write's deadline.
Tick ==
    /\ policy.token # NoToken \/ \E c \in Controllers : ctl[c].pc \in ClaimSteps
    /\ \A c \in Controllers : ctl[c].pc \in WriteSteps => ctl[c].writeLeft > 0
    /\ leaseLeft' = IF policy.token # NoToken THEN Dec(leaseLeft, -1) ELSE leaseLeft
    /\ ctl' = [c \in Controllers |->
                 IF ctl[c].pc \in ClaimSteps
                 THEN [ctl[c] EXCEPT !.sinceClaim = IF @ <= DispatchBudget THEN @ + 1 ELSE @,
                                     !.writeLeft = Dec(@, 0)]
                 ELSE ctl[c]]
    /\ UNCHANGED <<policy, conn, globalPause, ops, lastToken, backoff>>
    /\ UNCHANGED <<hwVars, slot, zombie, resume>>

Boundary ==
    /\ slot < Len(Schedule)
    /\ slot' = slot + 1
    /\ UNCHANGED <<dbVars, hwVars, ctl, zombie, resume>>

BackoffElapses ==
    /\ backoff /\ backoff' = FALSE
    /\ UNCHANGED <<policy, conn, globalPause, ops, lastToken, leaseLeft>>
    /\ UNCHANGED <<hwVars, slot, ctl, zombie, resume>>

\* A PATCH under way takes effect, or never does.
ApplyLate(t) ==
    /\ t \in inflight
    /\ mode' = ops[t].target
    /\ inflight' = inflight \ {t} /\ foreign' = TRUE
    /\ UNCHANGED <<patched, dbVars, slot, ctl, zombie, resume>>

LosePatch(t) ==
    /\ t \in inflight
    /\ inflight' = inflight \ {t}
    /\ UNCHANGED <<mode, foreign, patched, dbVars, slot, ctl, zombie, resume>>

\* Somebody sets the mode in the iLO's own interface or on the server.
ExternalChange(m) ==
    /\ m # mode /\ mode' = m /\ foreign' = TRUE
    /\ UNCHANGED <<inflight, patched, dbVars, slot, ctl, zombie, resume>>

\* The process of a controller dies and starts again: its memory is gone.
Crash(c) ==
    /\ ~At(c, "idle")
    /\ Return(c)
    /\ zombie' = [zombie EXCEPT ![c] = NoZombie]
    /\ UNCHANGED <<dbVars, hwVars, slot, resume>>

-----------------------------------------------------------------------------

Init ==
    /\ policy = [version |-> 1, automation |-> TRUE, paused |-> FALSE, hold |-> FALSE,
                 holdUntil |-> 0, manual |-> None, token |-> NoToken, verified |-> None,
                 failures |-> 0, notified |-> FALSE, pending |-> None, pendingOp |-> 0]
    /\ conn = [version |-> 1, enabled |-> TRUE, active |-> TRUE]
    /\ globalPause = FALSE
    /\ ops = [t \in Tokens |-> [state |-> "none", target |-> None]]
    /\ lastToken = 0 /\ leaseLeft = 0 /\ backoff = FALSE
    /\ foreign = FALSE
    /\ slot = 1
    /\ mode \in Observed
    /\ inflight = {} /\ patched = {}
    /\ ctl = [c \in Controllers |-> IdleCtl]
    /\ zombie = [c \in Controllers |-> NoZombie]
    /\ resume = NoResume
    /\ events = 0

\* The steps a running controller takes by itself.
Work(c) ==
    \/ ReleaseFirst(c) \/ Load(c) \/ Read(c) \/ RecordUnavailable(c) \/ ResolvePending(c)
    \/ HoldExternalDrift(c) \/ ReleaseDriftHold(c) \/ Reload(c) \/ Observe(c) \/ Select(c)
    \/ Claim(c) \/ Fresh(c) \/ Current(c) \/ RenewClaim(c) \/ Reread(c) \/ Discover(c)
    \/ GuardCheck(c) \/ GuardRecheck(c) \/ RecordRequested(c) \/ SendPatch(c) \/ Readback(c)
    \/ WriteDeadline(c) \/ Finish(c)

Background(c) == ZombieRecord(c) \/ ZombiePatch(c)

Admin ==
    \/ \E b \in BOOLEAN : SavePolicy(b) \/ Pause(b) \/ PauseAll(b)
    \/ ClearManual \/ ResumeRead \/ Enable \/ Disable \/ Decommission
    \/ \E c \in Manual, m \in Modes : ManualRequest(c, m)

Outside ==
    \/ \E m \in Observed : ExternalChange(m)
    \/ \E c \in Controllers : Crash(c)

Passing ==
    \/ Tick \/ Boundary \/ BackoffElapses \/ SweepRelease \/ ResumeCommit
    \/ \E t \in Tokens : ApplyLate(t) \/ LosePatch(t)

Next ==
    \/ /\ events < MaxEvents /\ events' = events + 1
       /\ Admin \/ Outside
    \/ /\ UNCHANGED events
       /\ Passing \/ \E c \in Controllers : StartSweep(c) \/ Work(c) \/ Background(c)

Spec == Init /\ [][Next]_vars

\* Node timers and awaited calls come back; the sweep runs every minute.
Fairness ==
    /\ \A c \in Controllers : WF_vars(Work(c) /\ UNCHANGED events)
    /\ \A c \in Controllers : WF_vars(Background(c) /\ UNCHANGED events)
    /\ WF_vars(SweepRelease /\ UNCHANGED events) /\ WF_vars(Tick /\ UNCHANGED events)

FairSpec == Spec /\ Fairness

(***************************************************************************)
(* Properties.                                                             *)
(***************************************************************************)

TypeOK ==
    /\ policy \in PolicyRow
    /\ conn \in [version : Nat, enabled : BOOLEAN, active : BOOLEAN]
    /\ globalPause \in BOOLEAN /\ backoff \in BOOLEAN
    /\ foreign \in BOOLEAN
    /\ ops \in [Tokens -> [state : RowStates, target : Modes \cup {None}]]
    /\ lastToken \in 0..MaxClaims
    /\ leaseLeft \in -1..Lease
    /\ slot \in 1..Len(Schedule) /\ mode \in Observed
    /\ inflight \subseteq Tokens /\ patched \subseteq Tokens
    /\ ctl \in [Controllers -> CtlRecords]
    /\ zombie \in [Controllers -> Zombies]
    /\ resume \in [ver : Nat, mode : Modes \cup {None}]
    /\ events \in 0..MaxEvents

Dispatching == {c \in Controllers : ctl[c].pc \in DispatchSteps}

\* powerController.ts:106-110, "keeps one holder per node": between the requested
\* row and the end of the write a controller still holds an unexpired claim, and
\* no second controller is in that phase.
SingleDispatcher ==
    /\ \A c \in Dispatching : Holds(ctl[c].token) /\ ~LeaseExpired
    /\ \A c, d \in Dispatching : c = d

\* The strengthening that makes SingleDispatcher inductive: tokens are unique, and
\* a dispatcher's claim outlives what is left of its write.
ClaimInv ==
    /\ policy.token <= lastToken
    /\ \A c \in Controllers :
          /\ IF ctl[c].pc \in ClaimSteps THEN ctl[c].token \in 1..lastToken ELSE ctl[c].token = 0
          /\ ctl[c].pc \in WriteSteps => ctl[c].writeLeft <= WriteTimeout
          /\ ctl[c].pc \in DispatchSteps => Holds(ctl[c].token) /\ ctl[c].writeLeft <= leaseLeft
    /\ \A c, d \in Controllers : ctl[c].token = ctl[d].token /\ ctl[c].token # 0 => c = d

\* What may still reach the iLO has a row and a writable target.
SentInv ==
    /\ \A t \in Tokens : ops[t].state # "none" => ops[t].target \in Modes
    /\ \A t \in inflight : ops[t].state # "none"
    /\ \A c \in Controllers :
          /\ ctl[c].pc \in ClaimSteps \cup {"claim"} => ctl[c].sel.target \in Modes
          /\ ctl[c].pc \in DispatchSteps => ctl[c].sent
          /\ ctl[c].sent => ctl[c].pc \in ClaimSteps /\ ops[ctl[c].token].state # "none"
          /\ zombie[c].step # "none" => zombie[c].token \in 1..lastToken /\ zombie[c].target \in Modes
          /\ zombie[c].step = "patch" => ops[zombie[c].token].state # "none"

IInv == TypeOK /\ ClaimInv /\ SentInv

Requested(t) == ops[t].state # "requested" /\ ops'[t].state = "requested"
Requester(t) == CHOOSE c \in Controllers : t \in {ctl[c].token, zombie[c].token}

\* A drift hold, a node pause, switched-off automation and a manual override are
\* versioned edits: an automatic request is never committed against one of them
\* (powerController.ts:328-344, "lease, versions, global pause, clock").
RequestRespectsPolicy ==
    [][\A t \in Tokens : Requested(t) =>
          /\ policy.manual # None => ops'[t].target = policy.manual
          /\ Requester(t) \in Automatic => policy.automation /\ ~policy.paused /\ ~policy.hold]_vars

\* powerControlStore.ts:90-93 and 208-209: a write that left is never forgotten.
\* Its row reads "requested" only under the claim it was made under, so either
\* finish() or the release of the expired claim still has to settle it.
SentRequestIsClaimed ==
    \A t \in patched : ops[t].state = "requested" => Holds(t)

\* power-energy-runbook.md:134, "If someone changes the mode outside Homelabrrr (iLO
\* UI, RBSU), the node goes into an external-change hold": only resume-drift or the
\* hold's own boundary ends it.
HoldLasts ==
    [][policy.hold /\ ~policy'.hold =>
          resume # NoResume \/ (policy.holdUntil # 0 /\ slot >= policy.holdUntil)]_vars

\* powerControlStore.ts:90-94: a claim never blocks the node for ever.
ClaimReleased == policy.token # NoToken ~> policy.token = NoToken

\* The claim column implements a lease on the node's power-mode writes.
Claims == INSTANCE NodeLease WITH
    MaxGrants <- MaxClaims,
    holder <- policy.token,
    writers <- {ctl[c].token : c \in Dispatching},
    granted <- lastToken

ImplementsNodeLease == Claims!LeaseSpec

=============================================================================
