-------------------------- MODULE SitePublishProofs --------------------------
(***************************************************************************)
(* Revocations of a published site: what is left of it, and who may undo   *)
(* them, for any upstreams, jobs and number of requests and events.        *)
(***************************************************************************)
EXTENDS SitePublish, TLAPS

-----------------------------------------------------------------------------
(* The jobs: the first invariant.                                          *)

\* One job: its record r, and whether it holds the snippet lock.  Who deploys or switches
\* holds it; a pass that asks Caddy for routes read the server in API mode.
JobOK(r, holds) ==
    /\ r.kind = "none" <=> r.pc = "idle"
    /\ r.kind = "flow" => r.pc \in FlowSteps
    /\ r.kind = "pass" => r.pc \in PassSteps
    /\ r.kind = "remove" => r.pc \in RemoveSteps
    /\ r.kind = "switch" => r.pc \in SwitchSteps /\ holds
    /\ r.pc = "deploy" => holds
    /\ r.pc \in {"validate", "store"} => r.up \in Upstreams
    /\ r.pc \in {"delete", "confirm"} => ~r.ssh

JobsOK == \A j \in Jobs : JobOK(job[j], lock = j)

\* The snippet has a block only in file mode, and is deployed only in file mode.
ModeOK ==
    /\ ~ssh => snip = None
    /\ \A j \in Jobs : (At(j, "leave") => snip = None) /\ (At(j, "deploy") => ssh)

OnePass == "passes" \notin astray =>
               \A i, j \in Jobs : job[i].kind = "pass" /\ job[j].kind = "pass" => i = j

Base == TypeOK /\ JobsOK /\ ModeOK /\ OnePass

-----------------------------------------------------------------------------
(* Steps of one job.                                                       *)

Targets == Upstreams \cup {None}
SiteTyped == site = NoSite \/ site \in [st : Statuses, up : Upstreams, cert : BOOLEAN]
WorldTyped == allow \subseteq Upstreams /\ ssh \in BOOLEAN
RestTyped ==
    /\ slot \in BOOLEAN /\ route \in Targets /\ snip \in Targets
    /\ astray \subseteq {"cert", "cut", "mode", "passes"}
    /\ requests \in 0..MaxRequests /\ spent \in 0..MaxEvents

LEMMA Types == TypeOK <=> /\ WorldTyped /\ SiteTyped /\ RestTyped
                          /\ lock \in Jobs \cup {None} /\ job \in [Jobs -> JobRecords]
                          /\ \A j \in Jobs : Idle(j) <=> job[j].pc = "idle"
  BY DEF TypeOK, WorldTyped, SiteTyped, RestTyped, Targets

Moved(j) == job' \in [Jobs -> JobRecords] /\ \A k \in Jobs \ {j} : job'[k] = job[k]

\* What became of job j.
Shift(j, kind, pc, up, cert, mode) ==
    /\ Moved(j)
    /\ job'[j].kind = kind /\ job'[j].pc = pc /\ job'[j].up = up
    /\ job'[j].cert = cert /\ job'[j].ssh = mode
    /\ job'[j] = NoJob <=> pc = "idle"

LEMMA JobFields ==
    ASSUME job \in [Jobs -> JobRecords], NEW j \in Jobs
    PROVE  /\ job[j] \in JobRecords
           /\ job[j].kind \in Kinds /\ job[j].pc \in Pcs /\ job[j].up \in Targets
           /\ job[j].cert \in BOOLEAN /\ job[j].ssh \in BOOLEAN
  BY DEF JobRecords, Targets

\* A record put in the place of job j.
LEMMA PutShift ==
    ASSUME job \in [Jobs -> JobRecords], NEW j \in Jobs, NEW r \in JobRecords,
           job' = [job EXCEPT ![j] = r], r.pc # "idle"
    PROVE  Shift(j, r.kind, r.pc, r.up, r.cert, r.ssh)
  <1>1. r # NoJob
    BY DEF NoJob
  <1> QED BY <1>1 DEF Shift, Moved

LEMMA Fresh ==
    ASSUME job \in [Jobs -> JobRecords], NEW j \in Jobs, NEW pc \in Pcs, NEW up \in Targets,
           NEW cert \in BOOLEAN, NEW mode \in BOOLEAN, pc # "idle"
    PROVE  /\ job' = [job EXCEPT ![j].pc = pc]
              => Shift(j, job[j].kind, pc, job[j].up, job[j].cert, job[j].ssh)
           /\ job' = [job EXCEPT ![j].pc = pc, ![j].up = up]
              => Shift(j, job[j].kind, pc, up, job[j].cert, job[j].ssh)
           /\ job' = [job EXCEPT ![j].pc = pc, ![j].cert = cert]
              => Shift(j, job[j].kind, pc, job[j].up, cert, job[j].ssh)
           /\ job' = [job EXCEPT ![j].pc = pc, ![j].ssh = mode]
              => Shift(j, job[j].kind, pc, job[j].up, job[j].cert, mode)
           /\ job' = [job EXCEPT ![j].ssh = mode, ![j].pc = pc]
              => Shift(j, job[j].kind, pc, job[j].up, job[j].cert, mode)
  <1> DEFINE K == Kinds
             T == Targets
             P == Pcs
             r == job[j]
             p == [r EXCEPT !.pc = pc]
             pu == [r EXCEPT !.pc = pc, !.up = up]
             pt == [r EXCEPT !.pc = pc, !.cert = cert]
             ps == [r EXCEPT !.pc = pc, !.ssh = mode]
             sp == [r EXCEPT !.ssh = mode, !.pc = pc]
  <1>1. r \in JobRecords /\ pc \in P /\ up \in T
    OBVIOUS
  <1>2. JobRecords = [kind : K, pc : P, up : T, cert : BOOLEAN, ssh : BOOLEAN]
    BY DEF JobRecords, Targets
  <1>3. /\ (job' = [job EXCEPT ![j].pc = pc]) => (job' = [job EXCEPT ![j] = p])
        /\ (job' = [job EXCEPT ![j].pc = pc, ![j].up = up]) => (job' = [job EXCEPT ![j] = pu])
        /\ (job' = [job EXCEPT ![j].pc = pc, ![j].cert = cert]) => (job' = [job EXCEPT ![j] = pt])
        /\ (job' = [job EXCEPT ![j].pc = pc, ![j].ssh = mode]) => (job' = [job EXCEPT ![j] = ps])
        /\ (job' = [job EXCEPT ![j].ssh = mode, ![j].pc = pc]) => (job' = [job EXCEPT ![j] = sp])
    OBVIOUS
  <1> HIDE DEF r, K, T, P
  <1>4. p \in JobRecords /\ p.kind = r.kind /\ p.pc = pc /\ p.up = r.up /\ p.cert = r.cert /\ p.ssh = r.ssh
    BY <1>1, <1>2
  <1>5. pu \in JobRecords /\ pu.kind = r.kind /\ pu.pc = pc /\ pu.up = up /\ pu.cert = r.cert /\ pu.ssh = r.ssh
    BY <1>1, <1>2
  <1>6. pt \in JobRecords /\ pt.kind = r.kind /\ pt.pc = pc /\ pt.up = r.up /\ pt.cert = cert /\ pt.ssh = r.ssh
    BY <1>1, <1>2
  <1>7. ps \in JobRecords /\ ps.kind = r.kind /\ ps.pc = pc /\ ps.up = r.up /\ ps.cert = r.cert /\ ps.ssh = mode
    BY <1>1, <1>2
  <1>8. sp \in JobRecords /\ sp.kind = r.kind /\ sp.pc = pc /\ sp.up = r.up /\ sp.cert = r.cert /\ sp.ssh = mode
    BY <1>1, <1>2
  <1> HIDE DEF p, pu, pt, ps, sp
  <1>9. /\ (job' = [job EXCEPT ![j] = p]) => Shift(j, r.kind, pc, r.up, r.cert, r.ssh)
        /\ (job' = [job EXCEPT ![j] = pu]) => Shift(j, r.kind, pc, up, r.cert, r.ssh)
        /\ (job' = [job EXCEPT ![j] = pt]) => Shift(j, r.kind, pc, r.up, cert, r.ssh)
        /\ (job' = [job EXCEPT ![j] = ps]) => Shift(j, r.kind, pc, r.up, r.cert, mode)
        /\ (job' = [job EXCEPT ![j] = sp]) => Shift(j, r.kind, pc, r.up, r.cert, mode)
    BY <1>4, <1>5, <1>6, <1>7, <1>8, PutShift
  <1> USE DEF r
  <1> QED BY <1>3, <1>9

LEMMA Went ==
    ASSUME job \in [Jobs -> JobRecords], NEW j \in Jobs, NEW pc \in Pcs, pc # "idle", Goto(j, pc)
    PROVE  Shift(j, job[j].kind, pc, job[j].up, job[j].cert, job[j].ssh)
  BY Fresh, JobFields DEF Goto

LEMMA Ended ==
    ASSUME job \in [Jobs -> JobRecords], NEW j \in Jobs, End(j)
    PROVE  Shift(j, "none", "idle", None, FALSE, FALSE)
  <1>1. NoJob \in JobRecords
    <2>1. "none" \in Kinds /\ None \in Targets /\ "idle" \in Pcs
      BY DEF Kinds, Targets, Pcs
    <2>2. FALSE \in BOOLEAN
      OBVIOUS
    <2> QED BY <2>1, <2>2 DEF NoJob, JobRecords, Targets
  <1>2. /\ NoJob.kind = "none" /\ NoJob.pc = "idle" /\ NoJob.up = None
        /\ NoJob.cert = FALSE /\ NoJob.ssh = FALSE
    BY DEF NoJob
  <1> QED BY <1>1, <1>2 DEF End, Shift, Moved

LEMMA Opened ==
    ASSUME TypeOK, NEW j \in Jobs, NEW kind \in Kinds, NEW pc \in Pcs, NEW up \in Targets,
           NEW cert \in BOOLEAN, pc # "idle", Start(j, kind, pc, up, cert)
    PROVE  Shift(j, kind, pc, up, cert, ssh)
  <1> DEFINE r == [kind |-> kind, pc |-> pc, up |-> up, cert |-> cert, ssh |-> ssh]
  <1>1. r \in JobRecords /\ r.kind = kind /\ r.pc = pc /\ r.up = up /\ r.cert = cert /\ r.ssh = ssh
    BY Types DEF JobRecords, Targets, WorldTyped
  <1>2. job' = [job EXCEPT ![j] = r] /\ job \in [Jobs -> JobRecords]
    BY Types DEF Start
  <1> HIDE DEF r
  <1> QED BY <1>1, <1>2, PutShift

-----------------------------------------------------------------------------
(* Steps of the row.                                                       *)

\* A row that changes its status.
LEMMA Restated ==
    ASSUME SiteTyped, Present, NEW s \in Statuses
    PROVE  /\ [site EXCEPT !.st = s] \in [st : Statuses, up : Upstreams, cert : BOOLEAN]
           /\ [site EXCEPT !.st = s].st = s /\ [site EXCEPT !.st = s].up = site.up
           /\ [site EXCEPT !.st = s].cert = site.cert
  <1> DEFINE S == Statuses
  <1>1. site \in [st : S, up : Upstreams, cert : BOOLEAN]
    BY DEF SiteTyped, Present
  <1>2. s \in S
    OBVIOUS
  <1> HIDE DEF S
  <1>3. /\ [site EXCEPT !.st = s] \in [st : S, up : Upstreams, cert : BOOLEAN]
        /\ [site EXCEPT !.st = s].st = s /\ [site EXCEPT !.st = s].up = site.up
        /\ [site EXCEPT !.st = s].cert = site.cert
    BY <1>1, <1>2
  <1> QED BY <1>3 DEF S

LEMMA Rows ==
    /\ NoSite.st = "none" /\ NoSite.cert = FALSE /\ NoSite.up = None
    /\ "none" \notin Statuses /\ Revocation \subseteq Statuses
    /\ Revocation = {"revoking", "cleaning", "releasing", "claimed", "revoked"}
    /\ {"pushing", "issuing", "inspecting", "live", "warning", "blocked", "conflict", "error"}
         \subseteq Statuses \ Revocation
    /\ SiteTyped /\ Present => site.st \in Statuses /\ site.up \in Upstreams /\ site.cert \in BOOLEAN
    /\ SiteTyped => (Present <=> site.st # "none") /\ (Revoked => Present)
  <1>1. /\ NoSite.st = "none" /\ NoSite.cert = FALSE /\ NoSite.up = None
    BY DEF NoSite
  <1>2. /\ "none" \notin Statuses /\ Revocation \subseteq Statuses
        /\ Revocation = {"revoking", "cleaning", "releasing", "claimed", "revoked"}
        /\ {"pushing", "issuing", "inspecting", "live", "warning", "blocked", "conflict", "error"}
             \subseteq Statuses \ Revocation
    BY DEF Statuses, Revocation, Pending, RouteStatuses, InFlight
  <1> DEFINE S == Statuses
  <1>3. "none" \notin S /\ Revocation \subseteq S
    BY <1>2
  <1> HIDE DEF S
  <1>4. site \in [st : S, up : Upstreams, cert : BOOLEAN]
          => site.st \in S /\ site.up \in Upstreams /\ site.cert \in BOOLEAN
    OBVIOUS
  <1> USE DEF S
  <1> QED BY <1>1, <1>2, <1>3, <1>4 DEF SiteTyped, Present, Revoked

Gone == {"releasing", "claimed", "revoked"}

\* Nothing that is going on takes the row further in a revocation, or loses its certificate.
Mild ==
    /\ site'.st \in Gone \cup {"cleaning"} => site'.st = site.st
    /\ site' # NoSite => site # NoSite /\ (site.cert => site'.cert)

\* A revocation is left only with the row.
Stays == Revoked /\ site' # NoSite => site'.st \in Revocation

RowStep == SiteTyped' /\ Mild /\ Stays

LEMMA Reported ==
    ASSUME SiteTyped, NEW s \in Statuses \ Revocation, SetStatus(s)
    PROVE  RowStep /\ (Revoked => site' = site)
  <1>1. CASE Present /\ ~Revoked
    <2>1. site' = [site EXCEPT !.st = s]
      BY <1>1 DEF SetStatus
    <2>2. s \notin Gone \cup {"cleaning"}
      BY Rows DEF Gone
    <2> QED BY <1>1, <2>1, <2>2, Restated, Rows DEF RowStep, SiteTyped, Mild, Stays, Revoked, Present
  <1>2. CASE ~(Present /\ ~Revoked)
    BY <1>2 DEF SetStatus, RowStep, SiteTyped, Mild, Stays, Revoked
  <1> QED BY <1>1, <1>2

\* A revoked row starts over.
LEMMA StartsOver ==
    ASSUME SiteTyped, Present, site' = [site EXCEPT !.st = "revoking"]
    PROVE  RowStep /\ site'.st = "revoking" /\ site' # NoSite
  <1>1. "revoking" \in Statuses /\ "revoking" \in Revocation
    BY Rows
  <1> QED BY <1>1, Restated, Rows DEF RowStep, SiteTyped, Mild, Stays, Gone, Present

LEMMA RowKept == ASSUME SiteTyped, UNCHANGED site PROVE RowStep
  BY DEF RowStep, SiteTyped, Mild, Stays, Revoked

-----------------------------------------------------------------------------
(* Steps that keep the first invariant.                                    *)

LockMoves(j) == lock' = lock \/ (lock = None /\ lock' = j) \/ (lock = j /\ lock' = None)

LEMMA BaseKept ==
    ASSUME Base, NEW j \in Jobs, Moved(j), job'[j] = NoJob <=> job'[j].pc = "idle", LockMoves(j),
           JobOK(job'[j], lock' = j),
           \/ job'[j].kind = "pass" => job[j].kind = "pass"
           \/ "passes" \in astray' \/ \A k \in Jobs : job[k].kind # "pass",
           astray \subseteq astray', WorldTyped', SiteTyped', RestTyped', ModeOK'
    PROVE  Base'
  <1>1. None \notin Jobs
    BY SitePublishAssumption
  <1>2. TypeOK'
    <2>1. \A k \in Jobs : Idle(k)' <=> job'[k].pc = "idle"
      BY Types DEF Base, Moved, Idle
    <2>2. lock' \in Jobs \cup {None}
      BY Types DEF Base, LockMoves
    <2> QED BY <2>1, <2>2 DEF TypeOK, WorldTyped, SiteTyped, RestTyped, Moved, Targets
  <1>3. JobsOK'
    <2>1. ASSUME NEW k \in Jobs PROVE JobOK(job'[k], lock' = k)
      <3>1. CASE k = j
        BY <3>1
      <3>2. CASE k # j
        <4>1. job'[k] = job[k] /\ (lock = k => lock' = k) /\ JobOK(job[k], lock = k)
          BY <1>1, <3>2 DEF Moved, LockMoves, Base, JobsOK
        <4> QED BY <4>1 DEF JobOK
      <3> QED BY <3>1, <3>2
    <2> QED BY <2>1 DEF JobsOK, JobOK
  <1>4. OnePass'
    BY DEF Base, OnePass, Moved
  <1> QED BY <1>2, <1>3, <1>4 DEF Base

LEMMA ModeKept ==
    ASSUME Base, NEW j \in Jobs, Moved(j), ssh' = ssh, snip' \in {snip, None},
           job'[j].pc = "leave" => snip' = None, job'[j].pc = "deploy" => ssh
    PROVE  ModeOK'
  BY DEF Base, ModeOK, Moved, At

\* What a step makes of its job, of the row and of the rest.
JobStep(j) ==
    /\ Moved(j) /\ (job'[j] = NoJob <=> job'[j].pc = "idle") /\ LockMoves(j)
    /\ JobOK(job'[j], lock' = j)
    /\ job'[j].kind = "pass" => job[j].kind = "pass"

SiteStep(j) ==
    /\ SiteTyped'
    /\ Mild \/ astray' # {} \/ job[j].pc \in {"claim", "clean", "releases", "released", "kept"}
    /\ Stays \/ (At(j, "reset") /\ job'[j].pc = "begin")

RestStep(j) == RestTyped' /\ astray \subseteq astray'

StepOK(j) == JobStep(j) /\ SiteStep(j) /\ RestStep(j)

\* A step that leaves the mode and the snippet alone.
LEMMA PlainStep ==
    ASSUME Base, NEW j \in Jobs, StepOK(j), UNCHANGED world, snip' \in {snip, None},
           job'[j].pc = "leave" => snip' = None, job'[j].pc = "deploy" => ssh
    PROVE  Base'
  <1>1. ModeOK'
    BY ModeKept DEF StepOK, JobStep, world
  <1>2. WorldTyped'
    BY Types DEF Base, WorldTyped, world
  <1> QED BY <1>1, <1>2, BaseKept DEF StepOK, JobStep, SiteStep, RestStep

LEMMA WentOn ==
    ASSUME Base, NEW j \in Jobs, NEW pc \in Pcs, pc \notin {"idle", "deploy", "store", "validate"},
           job[j].kind # "none", Goto(j, pc), UNCHANGED lock,
           job[j].kind = "flow" => pc \in FlowSteps, job[j].kind = "pass" => pc \in PassSteps,
           job[j].kind = "remove" => pc \in RemoveSteps, job[j].kind = "switch" => pc \in SwitchSteps,
           pc \in {"delete", "confirm"} => ~job[j].ssh
    PROVE  JobStep(j) /\ job'[j].pc = pc
  <1>1. Shift(j, job[j].kind, pc, job[j].up, job[j].cert, job[j].ssh)
    BY Went, Types DEF Base
  <1>2. JobOK(job[j], lock = j)
    BY DEF Base, JobsOK
  <1>3. JobOK(job'[j], lock' = j)
    BY <1>1, <1>2 DEF Shift, JobOK
  <1> QED BY <1>1, <1>3 DEF Shift, JobStep, LockMoves

LEMMA CameToEnd ==
    ASSUME Base, NEW j \in Jobs, End(j), LockMoves(j)
    PROVE  JobStep(j) /\ job'[j].pc = "idle"
  <1>1. Shift(j, "none", "idle", None, FALSE, FALSE)
    BY Ended, Types DEF Base
  <1>2. JobOK(job'[j], lock' = j)
    BY <1>1 DEF Shift, JobOK
  <1> QED BY <1>1, <1>2 DEF Shift, JobStep

\* Which kind of job is where.
LEMMA KindAt ==
    ASSUME Base, NEW j \in Jobs
    PROVE  /\ job[j].pc \in {"validate", "verify", "store", "reset", "begin", "check", "announce", "recheck",
                             "push", "rearm", "issue", "poll", "inspect", "look", "attach",
                             "reattached", "finish"}
                => job[j].kind = "flow"
           /\ job[j].pc \in {"sweep", "claims", "claim", "delete", "confirm", "clean", "releases",
                             "detach", "released", "kept", "reprobe", "reprobed"}
                => job[j].kind = "pass"
           /\ job[j].pc \in {"mark", "park"} => job[j].kind \in {"flow", "pass"}
           /\ job[j].pc = "lock" => job[j].kind \in {"flow", "pass", "remove"}
           /\ job[j].pc = "deploy" => job[j].kind \in {"flow", "pass", "remove", "switch"}
           /\ job[j].pc = "conflicts" => job[j].kind \in {"flow", "pass", "switch"}
           /\ job[j].pc \in {"reconcile", "repush", "repushed"} => job[j].kind \in {"pass", "switch"}
           /\ job[j].pc \in {"rmslot", "rmroute", "rmrow"} => job[j].kind = "remove"
           /\ job[j].pc \in {"empty", "leave", "render"} => job[j].kind = "switch"
  <1>1. JobOK(job[j], lock = j) /\ job[j].kind \in Kinds
    BY JobFields, Types DEF Base, JobsOK
  <1> QED BY <1>1 DEF JobOK, Kinds, FlowSteps, PassSteps, RemoveSteps, SwitchSteps

\* What every step may rely on.
LEMMA Reads ==
    ASSUME Base, NEW j \in Jobs
    PROVE  /\ job \in [Jobs -> JobRecords] /\ SiteTyped /\ RestTyped /\ WorldTyped
           /\ job[j] \in JobRecords
           /\ job[j].kind \in Kinds /\ job[j].pc \in Pcs /\ job[j].up \in Targets
           /\ job[j].cert \in BOOLEAN /\ job[j].ssh \in BOOLEAN
           /\ JobOK(job[j], lock = j)
           /\ None \notin Jobs /\ None \notin Upstreams /\ MaxEvents \in Nat /\ MaxRequests \in Nat
  BY JobFields, Types, SitePublishAssumption DEF Base, JobsOK

\* Where a job goes on.
LEMMA PcSets ==
    /\ {"idle"} \cup FlowSteps \cup PassSteps \cup RemoveSteps \cup SwitchSteps = Pcs
    /\ {"validate", "verify", "store", "reset", "begin", "check", "announce", "recheck", "push", "lock",
        "rearm", "conflicts", "issue", "poll", "inspect", "look", "attach", "reattached", "finish",
        "mark", "park", "deploy"} = FlowSteps
    /\ {"sweep", "mark", "park", "claims", "claim", "lock", "delete", "confirm", "clean",
        "deploy", "releases", "detach", "released", "kept", "reconcile", "repush",
        "repushed", "conflicts", "reprobe", "reprobed"} = PassSteps
    /\ {"rmslot", "rmroute", "rmrow", "lock", "deploy"} = RemoveSteps
    /\ {"empty", "leave", "render", "deploy", "reconcile", "repush", "repushed", "conflicts"} = SwitchSteps
  BY DEF Pcs, FlowSteps, PassSteps, RemoveSteps, SwitchSteps

LEMMA PublishSteps ==
    ASSUME Base, NEW j \in Jobs, UNCHANGED requests,
           \/ Validate(j) \/ Store(j) \/ Reset(j) \/ Begin(j) \/ Check(j) \/ Announce(j) \/ Push(j)
    PROVE  StepOK(j) /\ job'[j].pc \notin {"leave", "deploy"}
  <1>t. /\ job \in [Jobs -> JobRecords] /\ SiteTyped /\ RestTyped /\ WorldTyped
        /\ job[j].up \in Targets /\ job[j].ssh \in BOOLEAN
        /\ None \notin Jobs /\ None \notin Upstreams /\ MaxEvents \in Nat
    BY Reads
  <1>j. JobOK(job[j], lock = j)
    BY Reads
  <1>0. CASE Validate(j)
    <2>1. job[j].kind = "flow" /\ UNCHANGED <<site, caddy, slot, lock, astray>> /\ NoEvent
      BY <1>0, KindAt DEF Validate, At
    <2>2. JobStep(j) /\ job'[j].pc \in {"store", "reset", "idle"}
      <3>1. CASE At(j, "validate") /\ Goto(j, "store")
        <4>1. Shift(j, job[j].kind, "store", job[j].up, job[j].cert, job[j].ssh)
          BY <1>t, <3>1, Went, PcSets
        <4>2. job[j].up \in Upstreams
          BY <1>j, <3>1 DEF At, JobOK
        <4> QED BY <2>1, <4>1, <4>2, PcSets DEF Shift, JobStep, LockMoves, JobOK
      <3>2. CASE Goto(j, "reset")
        BY <2>1, <3>2, WentOn, PcSets
      <3>3. CASE End(j)
        BY <2>1, <3>3, CameToEnd DEF LockMoves
      <3> QED BY <1>0, <3>1, <3>2, <3>3 DEF Validate
    <2>3. RowStep
      BY <1>t, <2>1, RowKept
    <2>4. RestStep(j)
      BY <1>t, <2>1 DEF RestStep, RestTyped, caddy, NoEvent
    <2> QED BY <2>2, <2>3, <2>4 DEF StepOK, SiteStep, RowStep
  <1>1. CASE Store(j)
    <2>1. job[j].kind = "flow" /\ job[j].up \in Upstreams
      BY <1>1, <1>j, KindAt DEF Store, At, JobOK
    <2>2. JobStep(j) /\ job'[j].pc = "reset"
      BY <1>1, <2>1, WentOn, PcSets DEF Store
    <2>3. SiteTyped' /\ Stays /\ (Mild \/ astray' # {})
      <3>1. CASE ~Present
        BY <1>1, <1>t, <3>1, RowKept DEF Store, RowStep
      <3>2. CASE Present
        <4> DEFINE e == [site EXCEPT !.up = job[j].up, !.cert = job[j].cert]
                   S == Statuses
        <4>1. site \in [st : S, up : Upstreams, cert : BOOLEAN] /\ job[j].cert \in BOOLEAN
          BY <1>t, <3>2, Reads DEF SiteTyped, Present
        <4>2. site' = e
          BY <1>1, <3>2 DEF Store
        <4> HIDE DEF S
        <4>3. /\ e \in [st : S, up : Upstreams, cert : BOOLEAN]
              /\ e.st = site.st /\ e.cert = job[j].cert
          BY <2>1, <4>1
        <4> HIDE DEF e
        <4>4. astray' = IF Present /\ site.cert # job[j].cert THEN astray \cup {"cert"} ELSE astray
          BY <1>1 DEF Store, StrayIf
        <4>5. site.cert = job[j].cert \/ astray' # {}
          BY <3>2, <4>4
        <4> USE DEF S
        <4> QED BY <3>2, <4>2, <4>3, <4>5 DEF SiteTyped, Stays, Mild, Revoked, Present
      <3> QED BY <3>1, <3>2
    <2>4. RestStep(j)
      BY <1>1, <1>t DEF Store, RestStep, RestTyped, caddy, NoEvent, StrayIf
    <2> QED BY <2>2, <2>3, <2>4 DEF StepOK, SiteStep
  <1>2. CASE Reset(j)
    <2>1. JobStep(j) /\ job'[j].pc = "begin" /\ At(j, "reset")
      BY <1>2, KindAt, WentOn, PcSets DEF Reset, At
    <2>2. SiteTyped' /\ Mild
      <3>1. CASE ~Present
        BY <1>2, <1>t, <3>1, RowKept DEF Reset, RowStep
      <3>2. CASE Present
        BY <1>2, <1>t, <3>2, Restated, Rows DEF Reset, SiteTyped, Mild, Gone, Present
      <3> QED BY <3>1, <3>2
    <2>3. RestStep(j)
      BY <1>2, <1>t DEF Reset, RestStep, RestTyped, caddy, NoEvent
    <2> QED BY <2>1, <2>2, <2>3 DEF StepOK, SiteStep
  <1>3. CASE Begin(j)
    <2>1. JobStep(j) /\ job'[j].pc \in {"check", "idle"}
      <3>1. CASE Present
        <4>1. site.up \in Targets
          BY <1>t, <3>1, Rows DEF Targets
        <4>2. Shift(j, job[j].kind, "check", site.up, job[j].cert, job[j].ssh)
          BY <1>3, <1>t, <3>1, <4>1, Fresh, PcSets DEF Begin
        <4> QED BY <1>3, <1>j, <4>2, KindAt, PcSets DEF Begin, At, JobStep, Shift, JobOK, LockMoves
      <3>2. CASE ~Present
        BY <1>3, <3>2, CameToEnd DEF Begin, LockMoves
      <3> QED BY <3>1, <3>2
    <2>2. RowStep
      BY <1>3, <1>t, RowKept DEF Begin
    <2>3. RestStep(j)
      BY <1>3, <1>t DEF Begin, RestStep, RestTyped, caddy, NoEvent
    <2> QED BY <2>1, <2>2, <2>3 DEF StepOK, SiteStep, RowStep
  <1>4. ASSUME NEW next \in FlowSteps \ {"validate", "store", "deploy"}, MayPublish(j, next), job[j].kind = "flow",
               UNCHANGED <<caddy, slot, lock, astray>>
        PROVE  StepOK(j) /\ job'[j].pc \notin {"leave", "deploy"}
    <2>1. CASE UNCHANGED site /\ NoEvent /\ End(j)
      <3>1. JobStep(j) /\ job'[j].pc = "idle"
        BY <1>4, <2>1, CameToEnd DEF LockMoves
      <3>2. RowStep
        BY <1>t, <2>1, RowKept
      <3>3. RestStep(j)
        BY <1>4, <1>t, <2>1 DEF RestStep, RestTyped, caddy, NoEvent
      <3> QED BY <3>1, <3>2, <3>3 DEF StepOK, SiteStep, RowStep
    <2>2. CASE UNCHANGED site /\ NoEvent /\ Goto(j, next)
      <3>1. JobStep(j) /\ job'[j].pc = next
        BY <1>4, <2>2, WentOn, PcSets
      <3>2. RowStep
        BY <1>t, <2>2, RowKept
      <3>3. RestStep(j)
        BY <1>4, <1>t, <2>2 DEF RestStep, RestTyped, caddy, NoEvent
      <3>4. next \notin {"leave", "deploy"}
        BY <1>4, PcSets
      <3> QED BY <3>1, <3>2, <3>3, <3>4 DEF StepOK, SiteStep, RowStep
    <2>3. CASE /\ UNCHANGED site /\ NoEvent /\ Present
               /\ job' = [job EXCEPT ![j].pc = "mark", ![j].up = site.up]
      <3>1. Shift(j, job[j].kind, "mark", site.up, job[j].cert, job[j].ssh)
        BY <1>t, <2>3, Fresh, PcSets, Rows DEF Targets
      <3>2. JobStep(j) /\ job'[j].pc = "mark"
        BY <1>4, <1>j, <3>1, PcSets DEF JobStep, Shift, JobOK, LockMoves
      <3>3. RowStep
        BY <1>t, <2>3, RowKept
      <3>4. RestStep(j)
        BY <1>4, <1>t, <2>3 DEF RestStep, RestTyped, caddy, NoEvent
      <3> QED BY <3>2, <3>3, <3>4 DEF StepOK, SiteStep, RowStep
    <2>4. CASE SetStatus("error") /\ End(j) /\ Event
      <3>1. JobStep(j) /\ job'[j].pc = "idle"
        BY <1>4, <2>4, CameToEnd DEF LockMoves
      <3>2. RowStep
        BY <1>t, <2>4, Reported, Rows
      <3>3. RestStep(j)
        BY <1>4, <1>t, <2>4 DEF RestStep, RestTyped, caddy, Event
      <3> QED BY <3>1, <3>2, <3>3 DEF StepOK, SiteStep, RowStep
    <2> QED BY <1>4, <2>1, <2>2, <2>3, <2>4 DEF MayPublish
  <1>5. CASE Check(j)
    <2>1. PICK next \in {"announce", "lock", "push"} :
            MayPublish(j, next) /\ job[j].pc \in {"check", "recheck"}
      <3>1. CASE At(j, "check") /\ MayPublish(j, "announce")
        BY <3>1 DEF At
      <3>2. CASE At(j, "recheck") /\ MayPublish(j, IF job[j].ssh THEN "lock" ELSE "push")
        <4>1. CASE job[j].ssh
          BY <3>2, <4>1 DEF At
        <4>2. CASE ~job[j].ssh
          BY <3>2, <4>2 DEF At
        <4> QED BY <4>1, <4>2
      <3> QED BY <1>5, <3>1, <3>2 DEF Check
    <2>2. job[j].kind = "flow"
      BY <2>1, KindAt
    <2>3. next \in FlowSteps \ {"validate", "store", "deploy"}
      BY PcSets
    <2> QED BY <1>4, <1>5, <2>1, <2>2, <2>3 DEF Check
  <1>6. CASE Announce(j)
    <2>1. Shift(j, job[j].kind, "recheck", job[j].up, job[j].cert, ssh)
      BY <1>6, <1>t, Fresh, PcSets DEF Announce, WorldTyped
    <2>2. JobStep(j) /\ job'[j].pc = "recheck"
      BY <1>6, <1>j, <2>1, KindAt, PcSets DEF Announce, At, JobStep, Shift, JobOK, LockMoves
    <2>3. RowStep
      BY <1>6, <1>t, Reported, Rows DEF Announce
    <2>4. RestStep(j)
      BY <1>6, <1>t DEF Announce, RestStep, RestTyped, caddy, NoEvent
    <2> QED BY <2>2, <2>3, <2>4 DEF StepOK, SiteStep, RowStep
  <1>7. CASE Push(j)
    <2>1. JobStep(j) /\ job'[j].pc \in {"rearm", "idle"}
      <3>1. CASE End(j)
        BY <1>7, <3>1, CameToEnd DEF Push, LockMoves
      <3>2. CASE Goto(j, "rearm")
        BY <1>7, <3>2, WentOn, KindAt, PcSets DEF Push, At
      <3> QED BY <1>7, <3>1, <3>2 DEF Push
    <2>2. RowStep
      <3>1. CASE UNCHANGED site
        BY <1>t, <3>1, RowKept
      <3>2. CASE \E s \in {"error", "blocked"} : SetStatus(s)
        BY <1>t, <3>2, Reported, Rows
      <3> QED BY <1>7, <3>1, <3>2 DEF Push
    <2>3. RestStep(j)
      <3>1. /\ route' \in {route, job[j].up} /\ UNCHANGED <<snip, slot>>
            /\ astray' \in {astray, astray \cup {"cut"}}
        BY <1>7 DEF Push, Stray
      <3>2. spent' \in 0..MaxEvents
        BY <1>7, <1>t DEF Push, RestTyped, NoEvent, Event
      <3> QED BY <1>t, <3>1, <3>2 DEF RestStep, RestTyped
    <2> QED BY <2>1, <2>2, <2>3 DEF StepOK, SiteStep, RowStep
  <1> QED BY <1>0, <1>1, <1>2, <1>3, <1>5, <1>6, <1>7

LEMMA Untouched ==
    ASSUME Base, NEW j \in Jobs, UNCHANGED <<caddy, slot, astray>>, UNCHANGED requests, NoEvent \/ Event
    PROVE  RestStep(j)
  <1>1. RestTyped /\ MaxEvents \in Nat
    BY Reads
  <1> QED BY <1>1 DEF RestStep, RestTyped, caddy, NoEvent, Event

LEMMA AfterRepair ==
    ASSUME Base, NEW j \in Jobs, job[j].kind \in {"pass", "switch"}, Reconciled(j)
    PROVE  JobStep(j) /\ job'[j].pc \in {"reprobe", "idle"}
  <1>1. CASE job[j].kind = "pass"
    BY <1>1, WentOn, PcSets DEF Reconciled
  <1>2. CASE job[j].kind = "switch"
    <2>1. lock = j
      BY <1>2, Reads DEF JobOK
    <2> QED BY <1>2, <2>1, CameToEnd DEF Reconciled, LockMoves
  <1> QED BY <1>1, <1>2

LEMMA InspectSteps ==
    ASSUME Base, NEW j \in Jobs, UNCHANGED requests,
           \/ Rearm(j) \/ Conflicts(j) \/ Issue(j) \/ Poll(j) \/ Inspect(j) \/ Look(j) \/ Attach(j) \/ Finish(j)
    PROVE  StepOK(j) /\ job'[j].pc \notin {"leave", "deploy"}
  <1>t. /\ job \in [Jobs -> JobRecords] /\ SiteTyped /\ RestTyped /\ WorldTyped
        /\ MaxEvents \in Nat
    BY Reads
  <1>r. ASSUME NEW next \in {"issue", "conflicts", "finish", "attach"}, RearmElse(j, next),
               job[j].kind = "flow", UNCHANGED lock
        PROVE  /\ JobStep(j) /\ job'[j].pc \in {next, "idle"}
               /\ RowStep
    <2>1. CASE Revoked
      <3>1. Present
        BY <1>t, <2>1, Rows
      <3> QED BY <1>r, <1>t, <2>1, <3>1, StartsOver, CameToEnd DEF RearmElse, LockMoves
    <2>2. CASE ~Revoked
      BY <1>r, <1>t, <2>2, RowKept, WentOn, PcSets DEF RearmElse
    <2> QED BY <2>1, <2>2
  <1>1. CASE Rearm(j)
    <2>1. \/ RearmElse(j, "issue") \/ RearmElse(j, "conflicts") \/ RearmElse(j, "finish")
      <3>1. CASE At(j, "rearm") /\ job[j].ssh
        BY <1>1, <3>1 DEF Rearm, At
      <3>2. CASE At(j, "rearm") /\ ~job[j].ssh
        BY <1>1, <3>2 DEF Rearm, At
      <3>3. CASE At(j, "reattached")
        BY <1>1, <3>3 DEF Rearm, At
      <3> QED BY <1>1, <3>1, <3>2, <3>3 DEF Rearm
    <2>2. job[j].kind = "flow" /\ UNCHANGED <<caddy, slot, lock, astray>> /\ NoEvent
      BY <1>1 DEF Rearm
    <2> QED BY <1>r, <2>1, <2>2, Untouched DEF StepOK, SiteStep, RowStep
  <1>2. CASE Conflicts(j)
    <2>1. JobStep(j) /\ job'[j].pc \in {"issue", "reprobe", "idle"}
      <3>1. job[j].kind \in {"flow", "pass", "switch"}
        BY <1>2, KindAt DEF Conflicts, At
      <3>2. CASE job[j].kind = "flow" /\ Goto(j, "issue") /\ UNCHANGED lock
        BY <3>2, WentOn, PcSets
      <3>3. CASE job[j].kind = "flow" /\ End(j) /\ UNCHANGED lock
        BY <3>3, CameToEnd DEF LockMoves
      <3>4. CASE job[j].kind # "flow" /\ Reconciled(j)
        BY <3>1, <3>4, AfterRepair
      <3> QED BY <1>2, <3>2, <3>3, <3>4 DEF Conflicts
    <2>2. RowStep
      <3>1. CASE UNCHANGED site
        BY <1>t, <3>1, RowKept
      <3>2. CASE SetStatus("conflict")
        BY <1>t, <3>2, Reported, Rows
      <3> QED BY <1>2, <3>1, <3>2 DEF Conflicts
    <2> QED BY <1>2, <2>1, <2>2, Untouched DEF Conflicts, StepOK, SiteStep, RowStep
  <1>3. CASE Issue(j)
    <2>1. JobStep(j) /\ job'[j].pc = "poll"
      BY <1>3, KindAt, WentOn, PcSets DEF Issue, At
    <2>2. RowStep
      BY <1>3, <1>t, Reported, Rows DEF Issue
    <2> QED BY <1>3, <2>1, <2>2, Untouched DEF Issue, StepOK, SiteStep, RowStep
  <1>4. CASE Poll(j)
    <2>1. JobStep(j) /\ job'[j].pc \in {"inspect", "idle"}
      <3>1. CASE End(j)
        BY <1>4, <3>1, CameToEnd DEF Poll, LockMoves
      <3>2. CASE Goto(j, "inspect")
        BY <1>4, <3>2, KindAt, WentOn, PcSets DEF Poll, At
      <3> QED BY <1>4, <3>1, <3>2 DEF Poll
    <2>2. RowStep
      <3>1. CASE SetStatus("warning")
        BY <1>t, <3>1, Reported, Rows
      <3>2. CASE UNCHANGED site
        BY <1>t, <3>2, RowKept
      <3>3. CASE Present /\ site' = [site EXCEPT !.cert = TRUE]
        <4> DEFINE e == [site EXCEPT !.cert = TRUE]
                   S == Statuses
        <4>1. site \in [st : S, up : Upstreams, cert : BOOLEAN] /\ site' = e
          BY <1>t, <3>3 DEF SiteTyped, Present
        <4> HIDE DEF S
        <4>2. /\ e \in [st : S, up : Upstreams, cert : BOOLEAN] /\ e.cert = TRUE
              /\ e.st = site.st
          BY <4>1
        <4> HIDE DEF e
        <4>3. site'.st \in S /\ site'.cert
          BY <4>1, <4>2
        <4>4. site' # NoSite
          BY <4>3, Rows DEF S
        <4>5. SiteTyped'
          BY <4>1, <4>2 DEF S, SiteTyped
        <4>6. site'.st \in Revocation => site'.st = site.st
          BY <4>1, <4>2, Rows DEF Revoked
        <4>7. Revoked => site'.st \in Revocation
          BY <4>1, <4>2 DEF Revoked
        <4> QED BY <3>3, <4>3, <4>4, <4>5, <4>6, <4>7, Rows DEF RowStep, Mild, Stays, Gone, Present
      <3> QED BY <1>4, <3>1, <3>2, <3>3 DEF Poll
    <2>3. RestStep(j)
      BY <1>4, Untouched DEF Poll
    <2> QED BY <2>1, <2>2, <2>3 DEF StepOK, SiteStep, RowStep
  <1>8. CASE Inspect(j)
    <2>1. JobStep(j) /\ job'[j].pc = "look"
      BY <1>8, KindAt, WentOn, PcSets DEF Inspect, At
    <2>2. RowStep
      BY <1>8, <1>t, Reported, Rows DEF Inspect
    <2> QED BY <1>8, <2>1, <2>2, Untouched DEF Inspect, StepOK, SiteStep, RowStep
  <1>5. CASE Look(j)
    <2>1. job[j].kind = "flow" /\ UNCHANGED <<caddy, slot, lock, astray>> /\ NoEvent
      BY <1>5, KindAt DEF Look, At
    <2>2. CASE RearmElse(j, "attach")
      BY <1>r, <2>1, <2>2, Untouched DEF StepOK, SiteStep, RowStep
    <2>3. CASE End(j) /\ UNCHANGED site
      BY <1>t, <2>1, <2>3, CameToEnd, RowKept, Untouched DEF StepOK, SiteStep, RowStep, LockMoves
    <2> QED BY <1>5, <2>2, <2>3 DEF Look
  <1>6. CASE Attach(j)
    <2>1. JobStep(j) /\ job'[j].pc \in {"reattached", "idle"}
      <3>1. CASE End(j)
        BY <1>6, <3>1, CameToEnd DEF Attach, LockMoves
      <3>2. CASE Goto(j, "reattached")
        BY <1>6, <3>2, KindAt, WentOn, PcSets DEF Attach, At
      <3> QED BY <1>6, <3>1, <3>2 DEF Attach
    <2>2. RowStep
      <3>1. CASE UNCHANGED site
        BY <1>t, <3>1, RowKept
      <3>2. CASE \E s \in {"warning", "blocked"} : SetStatus(s)
        BY <1>t, <3>2, Reported, Rows
      <3> QED BY <1>6, <3>1, <3>2 DEF Attach
    <2>3. RestStep(j)
      <3>1. /\ UNCHANGED caddy /\ slot' \in {slot, TRUE}
            /\ astray' \in {astray, astray \cup {"cut"}}
        BY <1>6 DEF Attach, Stray
      <3>2. spent' \in 0..MaxEvents
        BY <1>6, <1>t DEF Attach, RestTyped, NoEvent, Event
      <3> QED BY <1>t, <3>1, <3>2 DEF RestStep, RestTyped, caddy
    <2> QED BY <2>1, <2>2, <2>3 DEF StepOK, SiteStep, RowStep
  <1>7. CASE Finish(j)
    <2>1. JobStep(j) /\ job'[j].pc = "idle"
      BY <1>7, CameToEnd DEF Finish, LockMoves
    <2>2. RowStep
      BY <1>7, <1>t, Reported, Rows DEF Finish
    <2> QED BY <1>7, <2>1, <2>2, Untouched DEF Finish, StepOK, SiteStep, RowStep
  <1> QED BY <1>1, <1>2, <1>3, <1>4, <1>5, <1>6, <1>7, <1>8

LEMMA SnippetSteps ==
    ASSUME Base, NEW j \in Jobs, UNCHANGED requests, UNCHANGED world, Lock(j) \/ Deploy(j)
    PROVE  StepOK(j) /\ Base'
  <1>t. /\ job \in [Jobs -> JobRecords] /\ SiteTyped /\ RestTyped /\ WorldTyped
        /\ job[j].up \in Targets /\ JobOK(job[j], lock = j) /\ MaxEvents \in Nat
        /\ None \notin Jobs
    BY Reads
  <1>1. CASE Lock(j)
    <2>1. JobStep(j) /\ (job'[j].pc = "deploy" => ssh) /\ job'[j].pc # "leave"
      <3>1. CASE ssh
        <4>1. Rendered \in Targets
          BY <1>t, Rows DEF Rendered, Targets
        <4>2. Shift(j, job[j].kind, "deploy", Rendered, job[j].cert, job[j].ssh)
          BY <1>1, <1>t, <3>1, <4>1, Fresh, PcSets DEF Lock
        <4> QED BY <1>1, <1>t, <3>1, <4>2, KindAt, PcSets DEF Lock, At, JobStep, Shift, JobOK, LockMoves
      <3>2. CASE ~ssh
        <4>1. job[j].kind \in {"flow", "pass", "remove"} /\ UNCHANGED lock
          BY <1>1, <3>2, KindAt DEF Lock, At
        <4>2. CASE job[j].kind = "flow"
          BY <1>1, <3>2, <4>1, <4>2, WentOn, PcSets DEF Lock
        <4>3. CASE job[j].kind = "remove"
          BY <1>1, <3>2, <4>1, <4>3, WentOn, PcSets DEF Lock
        <4>4. CASE job[j].kind = "pass"
          BY <1>1, <3>2, <4>1, <4>4, CameToEnd DEF Lock, LockMoves
        <4> QED BY <4>1, <4>2, <4>3, <4>4
      <3> QED BY <3>1, <3>2
    <2>2. RowStep /\ RestStep(j)
      BY <1>1, <1>t, RowKept, Untouched DEF Lock
    <2>3. StepOK(j)
      BY <2>1, <2>2 DEF StepOK, SiteStep, RowStep
    <2> QED BY <1>1, <2>1, <2>3, PlainStep DEF Lock, caddy
  <1>2. CASE Deploy(j)
    <2>1. lock = j /\ lock' = None /\ ssh /\ job[j].kind \in {"flow", "pass", "remove", "switch"}
      BY <1>2, <1>t, KindAt DEF Deploy, At, JobOK, Base, ModeOK
    <2>2. JobStep(j) /\ job'[j].pc \in {"rearm", "clean", "idle"}
      <3>1. CASE End(j)
        BY <2>1, <3>1, CameToEnd DEF LockMoves
      <3>2. ASSUME NEW pc \in {"rearm", "clean"}, Goto(j, pc),
                   IF pc = "rearm" THEN job[j].kind = "flow" ELSE job[j].kind = "pass"
            PROVE  JobStep(j) /\ job'[j].pc = pc
        <4>1. Shift(j, job[j].kind, pc, job[j].up, job[j].cert, job[j].ssh)
          BY <1>t, <3>2, Went, PcSets
        <4> QED BY <1>t, <2>1, <3>2, <4>1, PcSets DEF Shift, JobStep, LockMoves, JobOK
      <3>3. \/ End(j)
            \/ job[j].kind = "flow" /\ Goto(j, "rearm")
            \/ job[j].kind = "pass" /\ Goto(j, "clean")
        <4>1. CASE job[j].kind = "flow"
          BY <1>2, <4>1 DEF Deploy
        <4>2. CASE job[j].kind = "pass"
          BY <1>2, <4>2 DEF Deploy
        <4>3. CASE job[j].kind \in {"remove", "switch"}
          BY <1>2, <4>3 DEF Deploy
        <4> QED BY <2>1, <4>1, <4>2, <4>3
      <3> QED BY <3>1, <3>2, <3>3
    <2>3. RowStep
      <3>1. CASE UNCHANGED site
        BY <1>t, <3>1, RowKept
      <3>2. CASE SetStatus("error")
        BY <1>t, <3>2, Reported, Rows
      <3> QED BY <1>2, <3>1, <3>2 DEF Deploy
    <2>4. RestStep(j)
      <3>1. /\ route' \in {route, None} /\ snip' \in {snip, job[j].up} /\ UNCHANGED <<slot, astray>>
        BY <1>2 DEF Deploy, Cut
      <3>2. spent' \in 0..MaxEvents
        BY <1>2, <1>t DEF Deploy, RestTyped, NoEvent, Event
      <3> QED BY <1>t, <3>1, <3>2 DEF RestStep, RestTyped, Targets
    <2>5. ModeOK'
      <3>1. ASSUME NEW k \in Jobs PROVE job'[k].pc \notin {"leave", "deploy"}
        <4>1. CASE k = j
          BY <2>2, <4>1
        <4>2. CASE k # j
          <5>1. job'[k] = job[k] /\ JobOK(job[k], lock = k) /\ lock # k
            BY <2>1, <2>2, <4>2, Reads DEF JobStep, Moved
          <5>2. job[k].pc # "leave"
            BY <5>1, KindAt DEF JobOK
          <5> QED BY <5>1, <5>2 DEF JobOK
        <4> QED BY <4>1, <4>2
      <3> QED BY <2>1, <3>1 DEF ModeOK, At, world
    <2>6. WorldTyped'
      BY <1>t DEF WorldTyped, world
    <2> QED BY <2>2, <2>3, <2>4, <2>5, <2>6, BaseKept DEF StepOK, SiteStep, RowStep, JobStep, RestStep
  <1> QED BY <1>1, <1>2

\* A row that goes on in its revocation.
LEMMA GoesOn ==
    ASSUME SiteTyped, Present, NEW s \in Revocation, site' = [site EXCEPT !.st = s]
    PROVE  /\ SiteTyped' /\ Stays /\ site' # NoSite
           /\ site'.st = s /\ site'.cert = site.cert /\ site'.up = site.up
  BY Restated, Rows DEF SiteTyped, Stays, Present

LEMMA MarkSteps ==
    ASSUME Base, NEW j \in Jobs, UNCHANGED requests,
           \/ Sweep(j) \/ Mark(j) \/ Park(j) \/ Claims(j) \/ Claim(j) \/ Delete(j) \/ Confirm(j) \/ Clean(j)
    PROVE  StepOK(j) /\ job'[j].pc \notin {"leave", "deploy"}
  <1>t. /\ job \in [Jobs -> JobRecords] /\ SiteTyped /\ RestTyped /\ WorldTyped
        /\ JobOK(job[j], lock = j) /\ MaxEvents \in Nat
    BY Reads
  <1>m. ASSUME Marked(j), job[j].kind \in {"flow", "pass"}, UNCHANGED lock
        PROVE  JobStep(j) /\ job'[j].pc \in {"claims", "idle"}
    <2>1. CASE job[j].kind = "pass"
      BY <1>m, <2>1, WentOn, PcSets DEF Marked
    <2>2. CASE job[j].kind = "flow"
      BY <1>m, <2>2, CameToEnd DEF Marked, LockMoves
    <2> QED BY <1>m, <2>1, <2>2
  <1>1. CASE Sweep(j)
    <2>1. JobStep(j) /\ job'[j].pc \in {"mark", "claims"}
      <3>1. job[j].kind = "pass" /\ UNCHANGED lock
        BY <1>1, KindAt DEF Sweep, At
      <3>2. CASE Goto(j, "claims")
        BY <3>1, <3>2, WentOn, PcSets
      <3>3. CASE Disallowed /\ job' = [job EXCEPT ![j].pc = "mark", ![j].up = site.up]
        <4>1. site.up \in Targets
          BY <1>t, <3>3, Rows DEF Disallowed, Targets
        <4>2. Shift(j, job[j].kind, "mark", site.up, job[j].cert, job[j].ssh)
          BY <1>t, <3>3, <4>1, Fresh, PcSets
        <4> QED BY <1>t, <3>1, <4>2, PcSets DEF JobStep, Shift, JobOK, LockMoves
      <3> QED BY <1>1, <3>2, <3>3 DEF Sweep
    <2>2. RowStep /\ RestStep(j)
      BY <1>1, <1>t, RowKept, Untouched DEF Sweep
    <2> QED BY <2>1, <2>2 DEF StepOK, SiteStep, RowStep
  <1>2. CASE Mark(j)
    <2>1. JobStep(j) /\ job'[j].pc \in {"park", "claims", "idle"}
      <3>1. job[j].kind \in {"flow", "pass"} /\ UNCHANGED lock
        BY <1>2, KindAt DEF Mark, At
      <3>2. CASE Goto(j, "park")
        BY <3>1, <3>2, WentOn, PcSets
      <3> QED BY <1>2, <1>m, <3>1, <3>2 DEF Mark
    <2>2. RowStep /\ RestStep(j)
      BY <1>2, <1>t, RowKept, Untouched DEF Mark
    <2> QED BY <2>1, <2>2 DEF StepOK, SiteStep, RowStep
  <1>3. CASE Park(j)
    <2>1. JobStep(j) /\ job'[j].pc \in {"claims", "idle"}
      BY <1>3, <1>m, KindAt DEF Park, At
    <2>2. RowStep
      BY <1>3, <1>t, RowKept, StartsOver DEF Park
    <2> QED BY <1>3, <2>1, <2>2, Untouched DEF Park, StepOK, SiteStep, RowStep
  <1>4. CASE Claims(j)
    <2>1. JobStep(j) /\ job'[j].pc \in {"claim", "releases"}
      <3>1. job[j].kind = "pass" /\ UNCHANGED lock
        BY <1>4, KindAt DEF Claims, At
      <3>2. CASE Goto(j, "releases")
        BY <3>1, <3>2, WentOn, PcSets
      <3>3. CASE \E u \in Targets : job' = [job EXCEPT ![j].pc = "claim", ![j].up = u]
        <4>1. PICK u \in Targets : job' = [job EXCEPT ![j].pc = "claim", ![j].up = u]
          BY <3>3
        <4>2. Shift(j, job[j].kind, "claim", u, job[j].cert, job[j].ssh)
          BY <1>t, <4>1, Fresh, PcSets
        <4> QED BY <1>t, <3>1, <4>2, PcSets DEF JobStep, Shift, JobOK, LockMoves
      <3>4. (IF job[j].ssh THEN None ELSE route) \in Targets
        BY <1>t DEF RestTyped, Targets
      <3> QED BY <1>4, <3>2, <3>3, <3>4 DEF Claims
    <2>2. RowStep /\ RestStep(j)
      BY <1>4, <1>t, RowKept, Untouched DEF Claims
    <2> QED BY <2>1, <2>2 DEF StepOK, SiteStep, RowStep
  <1>5. CASE Claim(j)
    <2>1. job[j].kind = "pass" /\ UNCHANGED lock /\ job[j].pc = "claim"
      BY <1>5, KindAt DEF Claim, At
    <2>2. JobStep(j) /\ job'[j].pc \in {"lock", "delete", "confirm", "releases"}
      <3>1. \/ Goto(j, "releases") \/ (job[j].ssh /\ Goto(j, "lock"))
            \/ (~job[j].ssh /\ Goto(j, "delete")) \/ (~job[j].ssh /\ Goto(j, "confirm"))
        <4>1. CASE site.st \in Pending /\ job[j].ssh
          BY <1>5, <4>1 DEF Claim
        <4>2. CASE site.st \in Pending /\ ~job[j].ssh /\ job[j].up # None
          BY <1>5, <4>2 DEF Claim
        <4>3. CASE site.st \in Pending /\ ~job[j].ssh /\ job[j].up = None
          BY <1>5, <4>3 DEF Claim
        <4>4. CASE site.st \notin Pending
          BY <1>5, <4>4 DEF Claim
        <4> QED BY <4>1, <4>2, <4>3, <4>4
      <3> QED BY <2>1, <3>1, WentOn, PcSets
    <2>3. SiteTyped' /\ Stays
      <3>1. CASE site.st \in Pending
        BY <1>5, <1>t, <3>1, GoesOn, Rows DEF Claim, Pending, Revoked
      <3>2. CASE site.st \notin Pending
        BY <1>5, <1>t, <3>2, RowKept DEF Claim, RowStep
      <3> QED BY <3>1, <3>2
    <2> QED BY <1>5, <2>1, <2>2, <2>3, Untouched DEF Claim, StepOK, SiteStep
  <1>6. CASE Delete(j)
    <2>1. JobStep(j) /\ job'[j].pc = "confirm"
      BY <1>6, <1>t, KindAt, WentOn, PcSets DEF Delete, At, JobOK
    <2>2. RowStep
      BY <1>6, <1>t, RowKept DEF Delete
    <2>3. RestStep(j)
      BY <1>6, <1>t DEF Delete, RestStep, RestTyped, NoEvent, Event, Targets
    <2> QED BY <2>1, <2>2, <2>3 DEF StepOK, SiteStep, RowStep
  <1>7. CASE Confirm(j)
    <2>1. JobStep(j) /\ job'[j].pc \in {"clean", "releases"}
      <3>1. Goto(j, "clean") \/ Goto(j, "releases")
        <4>1. CASE route = None
          BY <1>7, <4>1 DEF Confirm
        <4>2. CASE route # None
          BY <1>7, <4>2 DEF Confirm
        <4> QED BY <4>1, <4>2
      <3> QED BY <1>7, <3>1, KindAt, WentOn, PcSets DEF Confirm, At
    <2>2. RowStep /\ RestStep(j)
      BY <1>7, <1>t, RowKept, Untouched DEF Confirm
    <2> QED BY <2>1, <2>2 DEF StepOK, SiteStep, RowStep
  <1>8. CASE Clean(j)
    <2>1. JobStep(j) /\ job'[j].pc = "releases" /\ job[j].pc = "clean"
      BY <1>8, KindAt, WentOn, PcSets DEF Clean, At
    <2>2. SiteTyped' /\ Stays
      <3>1. CASE site.st = "cleaning"
        <4>1. Present
          BY <1>t, <3>1, Rows
        <4>2. site' = [site EXCEPT !.st = "releasing"] /\ "releasing" \in Revocation
          BY <1>8, <3>1, Rows DEF Clean
        <4> QED BY <1>t, <4>1, <4>2, GoesOn
      <3>2. CASE site.st # "cleaning"
        BY <1>8, <1>t, <3>2, RowKept DEF Clean, RowStep
      <3> QED BY <3>1, <3>2
    <2>3. RestStep(j)
      BY <1>8, <1>t DEF Clean, RestStep, RestTyped, caddy, NoEvent, StrayIf
    <2> QED BY <2>1, <2>2, <2>3 DEF StepOK, SiteStep
  <1> QED BY <1>1, <1>2, <1>3, <1>4, <1>5, <1>6, <1>7, <1>8

LEMMA ReleaseSteps ==
    ASSUME Base, NEW j \in Jobs, UNCHANGED requests,
           Releases(j) \/ Detach(j) \/ Released(j) \/ Reprobe(j) \/ Reprobed(j)
    PROVE  StepOK(j) /\ job'[j].pc \notin {"leave", "deploy"}
  <1>t. /\ job \in [Jobs -> JobRecords] /\ SiteTyped /\ RestTyped /\ WorldTyped
        /\ JobOK(job[j], lock = j) /\ MaxEvents \in Nat
    BY Reads
  <1>g. ASSUME Goto(j, IF job[j].ssh THEN "reprobe" ELSE "reconcile"), job[j].kind = "pass", UNCHANGED lock
        PROVE  JobStep(j) /\ job'[j].pc \in {"reprobe", "reconcile"}
    <2>1. CASE job[j].ssh
      BY <1>g, <2>1, WentOn, PcSets
    <2>2. CASE ~job[j].ssh
      BY <1>g, <2>2, WentOn, PcSets
    <2> QED BY <2>1, <2>2
  <1>1. CASE Releases(j)
    <2>1. job[j].kind = "pass" /\ UNCHANGED lock /\ job[j].pc = "releases"
      BY <1>1, KindAt DEF Releases, At
    <2>2. CASE site.st = "releasing"
      <3>1. Present /\ site.cert \in BOOLEAN
        BY <1>t, <2>2, Rows
      <3>2. Shift(j, job[j].kind, "detach", job[j].up, site.cert, job[j].ssh)
        <4>1. job' = [job EXCEPT ![j].pc = "detach", ![j].cert = site.cert]
          BY <1>1, <2>2 DEF Releases
        <4>2. "detach" \in Pcs /\ "detach" # "idle" /\ None \in Targets /\ TRUE \in BOOLEAN
          BY PcSets DEF Targets
        <4> QED BY <1>t, <3>1, <4>1, <4>2, Fresh
      <3>3. JobStep(j) /\ job'[j].pc = "detach"
        BY <1>t, <2>1, <3>2, PcSets DEF JobStep, Shift, JobOK, LockMoves
      <3>4. site' = [site EXCEPT !.st = "claimed"] /\ "claimed" \in Revocation
        BY <1>1, <2>2, Rows DEF Releases
      <3>5. SiteTyped' /\ Stays
        BY <1>t, <3>1, <3>4, GoesOn
      <3> QED BY <1>1, <2>1, <3>3, <3>5, Untouched DEF Releases, StepOK, SiteStep
    <2>3. CASE site.st # "releasing"
      BY <1>1, <1>g, <1>t, <2>1, <2>3, RowKept, Untouched DEF Releases, StepOK, SiteStep, RowStep
    <2> QED BY <2>2, <2>3
  <1>2. CASE Detach(j)
    <2>1. JobStep(j) /\ job'[j].pc \in {"released", "kept"}
      <3>1. Goto(j, "released") \/ Goto(j, "kept")
        BY <1>2 DEF Detach, DetachCert
      <3> QED BY <1>2, <3>1, KindAt, WentOn, PcSets DEF Detach, At
    <2>2. RowStep
      BY <1>2, <1>t, RowKept DEF Detach
    <2>3. RestStep(j)
      <3>1. slot' \in {slot, FALSE}
        BY <1>2 DEF Detach, DetachCert
      <3> QED BY <1>2, <1>t, <3>1 DEF Detach, RestStep, RestTyped, caddy, NoEvent
    <2> QED BY <2>1, <2>2, <2>3 DEF StepOK, SiteStep, RowStep
  <1>3. CASE Released(j)
    <2>1. job[j].kind = "pass" /\ UNCHANGED lock /\ job[j].pc \in {"released", "kept"}
      BY <1>3, KindAt DEF Released, At
    <2>2. SiteTyped' /\ Stays
      <3>1. CASE site.st = "claimed"
        <4>1. Present /\ "revoked" \in Revocation /\ "releasing" \in Revocation
          BY <1>t, <3>1, Rows
        <4>2. site' = [site EXCEPT !.st = "revoked"] \/ site' = [site EXCEPT !.st = "releasing"]
          <5>1. PICK pc \in {"released", "kept"} :
                  site' = [site EXCEPT !.st = IF pc = "released" THEN "revoked" ELSE "releasing"]
            BY <1>3, <3>1 DEF Released
          <5>2. CASE pc = "released"
            BY <5>1, <5>2
          <5>3. CASE pc = "kept"
            BY <5>1, <5>3
          <5> QED BY <5>2, <5>3
        <4> QED BY <1>t, <4>1, <4>2, GoesOn
      <3>2. CASE site.st # "claimed"
        BY <1>3, <1>t, <3>2, RowKept DEF Released, RowStep
      <3> QED BY <3>1, <3>2
    <2> QED BY <1>3, <1>g, <2>1, <2>2, Untouched DEF Released, StepOK, SiteStep
  <1>4. CASE Reprobe(j)
    <2>1. JobStep(j) /\ job'[j].pc \in {"reprobed", "idle"}
      <3>1. CASE Goto(j, "reprobed")
        BY <1>4, <3>1, KindAt, WentOn, PcSets DEF Reprobe, At
      <3>2. CASE End(j)
        BY <1>4, <3>2, CameToEnd DEF Reprobe, LockMoves
      <3> QED BY <1>4, <3>1, <3>2 DEF Reprobe
    <2>2. RowStep
      BY <1>4, <1>t, RowKept DEF Reprobe
    <2> QED BY <1>4, <2>1, <2>2, Untouched DEF Reprobe, StepOK, SiteStep, RowStep
  <1>5. CASE Reprobed(j)
    <2>1. JobStep(j) /\ job'[j].pc = "idle"
      BY <1>5, CameToEnd DEF Reprobed, LockMoves
    <2>2. RowStep
      <3>1. CASE UNCHANGED site
        BY <1>t, <3>1, RowKept
      <3>2. CASE \E s \in {"live", "warning"} : SetStatus(s)
        BY <1>t, <3>2, Reported, Rows
      <3> QED BY <1>5, <3>1, <3>2 DEF Reprobed
    <2> QED BY <1>5, <2>1, <2>2, Untouched DEF Reprobed, StepOK, SiteStep, RowStep
  <1> QED BY <1>1, <1>2, <1>3, <1>4, <1>5

LEMMA RepairSteps ==
    ASSUME Base, NEW j \in Jobs, UNCHANGED requests,
           Reconcile(j) \/ Repush(j) \/ Repushed(j) \/ Throws(j)
    PROVE  StepOK(j) /\ job'[j].pc \notin {"leave", "deploy"}
  <1>t. /\ job \in [Jobs -> JobRecords] /\ SiteTyped /\ RestTyped /\ WorldTyped
        /\ job[j].up \in Targets /\ JobOK(job[j], lock = j) /\ MaxEvents \in Nat
    BY Reads
  <1>e. ASSUME End(j), lock' = IF lock = j THEN None ELSE lock
        PROVE  JobStep(j) /\ job'[j].pc = "idle"
    BY <1>e, CameToEnd DEF LockMoves
  <1>1. CASE Reconcile(j)
    <2>1. job[j].kind \in {"pass", "switch"}
      BY <1>1, KindAt DEF Reconcile, At
    <2>2. JobStep(j) /\ job'[j].pc \in {"repush", "reprobe", "idle"}
      <3>1. CASE Missing(j)
        <4>1. site.up \in Targets
          BY <1>t, <3>1, Rows DEF Missing, Repaired, RouteStatuses, InFlight, Targets
        <4>2. job' = [job EXCEPT ![j].pc = "repush", ![j].up = site.up] /\ UNCHANGED lock
          BY <1>1, <3>1 DEF Reconcile
        <4>3. "repush" \in Pcs /\ "repush" # "idle" /\ TRUE \in BOOLEAN
          BY PcSets
        <4>4. Shift(j, job[j].kind, "repush", site.up, job[j].cert, job[j].ssh)
          BY <1>t, <4>1, <4>2, <4>3, Fresh
        <4> QED BY <1>t, <2>1, <4>2, <4>4, PcSets DEF JobStep, Shift, JobOK, LockMoves
      <3>2. CASE ~Missing(j)
        BY <1>1, <2>1, <3>2, AfterRepair DEF Reconcile
      <3> QED BY <3>1, <3>2
    <2>3. RowStep /\ RestStep(j)
      BY <1>1, <1>t, RowKept, Untouched DEF Reconcile
    <2> QED BY <2>2, <2>3 DEF StepOK, SiteStep, RowStep
  <1>2. CASE Repush(j)
    <2>1. JobStep(j) /\ job'[j].pc \in {"repushed", "idle"}
      <3>1. CASE Goto(j, "repushed") /\ UNCHANGED lock
        BY <1>2, <3>1, KindAt, WentOn, PcSets DEF Repush, At
      <3>2. CASE End(j) /\ lock' = IF lock = j THEN None ELSE lock
        BY <1>e, <3>2
      <3> QED BY <1>2, <3>1, <3>2 DEF Repush
    <2>2. RowStep
      BY <1>2, <1>t, RowKept DEF Repush
    <2>3. RestStep(j)
      <3>1. /\ route' \in {route, job[j].up} /\ UNCHANGED <<snip, slot>>
            /\ astray' \in {astray, astray \cup {"cut"}}
        BY <1>2 DEF Repush, Stray
      <3>2. spent' \in 0..MaxEvents
        BY <1>2, <1>t DEF Repush, RestTyped, NoEvent, Event
      <3> QED BY <1>t, <3>1, <3>2 DEF RestStep, RestTyped
    <2> QED BY <2>1, <2>2, <2>3 DEF StepOK, SiteStep, RowStep
  <1>3. CASE Repushed(j)
    <2>1. job[j].kind \in {"pass", "switch"}
      BY <1>3, KindAt DEF Repushed, At
    <2>2. JobStep(j) /\ job'[j].pc \in {"conflicts", "reprobe", "idle"}
      <3>1. CASE Goto(j, "conflicts") /\ UNCHANGED lock
        BY <2>1, <3>1, WentOn, PcSets
      <3>2. CASE Reconciled(j)
        BY <2>1, <3>2, AfterRepair
      <3> QED BY <1>3, <3>1, <3>2 DEF Repushed
    <2>3. RowStep
      <3>1. CASE Revoked
        <4>1. Present
          BY <1>t, <3>1, Rows
        <4> QED BY <1>3, <1>t, <3>1, <4>1, StartsOver DEF Repushed
      <3>2. CASE ~Revoked
        BY <1>3, <1>t, <3>2, RowKept DEF Repushed
      <3> QED BY <3>1, <3>2
    <2> QED BY <1>3, <2>2, <2>3, Untouched DEF Repushed, StepOK, SiteStep, RowStep
  <1>4. CASE Throws(j)
    <2>1. JobStep(j) /\ job'[j].pc = "idle"
      BY <1>4, <1>e DEF Throws
    <2> QED BY <1>4, <1>t, <2>1, RowKept, Untouched DEF Throws, StepOK, SiteStep, RowStep
  <1> QED BY <1>1, <1>2, <1>3, <1>4

LEMMA RemovalSteps ==
    ASSUME Base, NEW j \in Jobs, UNCHANGED requests, Remove(j)
    PROVE  StepOK(j) /\ job'[j].pc \notin {"leave", "deploy"}
  <1>t. /\ job \in [Jobs -> JobRecords] /\ SiteTyped /\ RestTyped /\ WorldTyped
        /\ JobOK(job[j], lock = j) /\ MaxEvents \in Nat
    BY Reads
  <1>1. CASE RemoveSlot(j)
    <2>1. job[j].kind = "remove" /\ UNCHANGED lock
      BY <1>1, KindAt DEF RemoveSlot, At
    <2>2. JobStep(j) /\ job'[j].pc \in {"rmrow", "rmroute"}
      <3>1. PICK pc \in {"rmrow", "rmroute"} : job' = [job EXCEPT ![j].ssh = ssh, ![j].pc = pc]
        <4>1. CASE ssh
          BY <1>1, <4>1 DEF RemoveSlot, DetachCert
        <4>2. CASE ~ssh
          BY <1>1, <4>2 DEF RemoveSlot, DetachCert
        <4> QED BY <4>1, <4>2
      <3>2. pc \in Pcs /\ pc # "idle" /\ ssh \in BOOLEAN /\ None \in Targets /\ pc \in RemoveSteps
        BY <1>t, PcSets DEF WorldTyped, Targets
      <3>3. Shift(j, job[j].kind, pc, job[j].up, job[j].cert, ssh)
        BY <1>t, <3>1, <3>2, Fresh
      <3> QED BY <1>t, <2>1, <3>2, <3>3 DEF JobStep, Shift, JobOK, LockMoves
    <2>3. slot' \in {slot, FALSE} /\ UNCHANGED <<site, caddy, astray>> /\ NoEvent
      BY <1>1 DEF RemoveSlot, DetachCert
    <2>4. RestStep(j)
      BY <1>t, <2>3 DEF RestStep, RestTyped, caddy, NoEvent
    <2> QED BY <1>t, <2>2, <2>3, <2>4, RowKept DEF StepOK, SiteStep, RowStep
  <1>2. CASE RemoveRoute(j)
    <2>1. job[j].kind = "remove" /\ UNCHANGED <<lock, site, snip, slot, astray>>
      BY <1>2, KindAt DEF RemoveRoute, At
    <2>2. job' = [job EXCEPT ![j].pc = "rmrow", ![j].ssh = FALSE]
      BY <1>2 DEF RemoveRoute
    <2>3. "rmrow" \in Pcs /\ "rmrow" # "idle" /\ "rmrow" \in RemoveSteps /\ None \in Targets
      BY PcSets DEF Targets
    <2>4. FALSE \in BOOLEAN
      OBVIOUS
    <2>5. Shift(j, job[j].kind, "rmrow", job[j].up, job[j].cert, FALSE)
      BY <1>t, <2>2, <2>3, <2>4, Fresh
    <2>6. JobStep(j) /\ job'[j].pc = "rmrow"
      BY <1>t, <2>1, <2>3, <2>5 DEF JobStep, Shift, JobOK, LockMoves
    <2>7. RestStep(j)
      BY <1>2, <1>t DEF RemoveRoute, RestStep, RestTyped, NoEvent, Event, Targets
    <2> QED BY <1>t, <2>1, <2>6, <2>7, RowKept DEF StepOK, SiteStep, RowStep
  <1>3. CASE RemoveRow(j)
    <2>1. JobStep(j) /\ job'[j].pc \in {"lock", "idle"}
      <3>1. CASE Goto(j, "lock")
        BY <1>3, <3>1, KindAt, WentOn, PcSets DEF RemoveRow, At
      <3>2. CASE End(j)
        BY <1>3, <3>2, CameToEnd DEF RemoveRow, LockMoves
      <3> QED BY <1>3, <3>1, <3>2 DEF RemoveRow
    <2>2. SiteTyped' /\ Mild /\ Stays
      <3>1. site' = NoSite /\ site'.st = "none"
        BY <1>3, Rows DEF RemoveRow
      <3> QED BY <3>1 DEF SiteTyped, Mild, Stays, Gone
    <2> QED BY <1>3, <2>1, <2>2, Untouched DEF RemoveRow, StepOK, SiteStep
  <1> QED BY <1>1, <1>2, <1>3 DEF Remove

LEMMA SwitchModes ==
    ASSUME Base, NEW j \in Jobs, UNCHANGED requests, Switch(j)
    PROVE  StepOK(j) /\ Base'
  <1>t. /\ job \in [Jobs -> JobRecords] /\ SiteTyped /\ RestTyped /\ WorldTyped
        /\ job[j].up \in Targets /\ JobOK(job[j], lock = j) /\ MaxEvents \in Nat
    BY Reads
  <1>k. job[j].kind = "switch" /\ lock = j
    BY <1>t, KindAt DEF Switch, Render, Empty, Leave, At, JobOK
  <1>o. \A k \in Jobs \ {j} : job[k].pc \notin {"leave", "deploy"}
    <2>1. ASSUME NEW k \in Jobs \ {j} PROVE job[k].pc \notin {"leave", "deploy"}
      <3>1. JobOK(job[k], lock = k) /\ lock # k
        BY <1>k, Reads
      <3>2. job[k].pc # "leave"
        BY <3>1, KindAt DEF JobOK
      <3> QED BY <3>1, <3>2 DEF JobOK
    <2> QED BY <2>1
  <1>1. CASE Render(j)
    <2>1. Rendered \in Targets
      BY <1>t, Rows DEF Rendered, Targets
    <2>2. job' = [job EXCEPT ![j].pc = "deploy", ![j].up = Rendered] /\ UNCHANGED lock
      BY <1>1 DEF Render
    <2>3. "deploy" \in Pcs /\ "deploy" # "idle" /\ TRUE \in BOOLEAN
      BY PcSets
    <2>4. Shift(j, job[j].kind, "deploy", Rendered, job[j].cert, job[j].ssh)
      BY <1>t, <2>1, <2>2, <2>3, Fresh
    <2>5. JobStep(j)
      BY <1>t, <1>k, <2>2, <2>4, PcSets DEF JobStep, Shift, JobOK, LockMoves
    <2>6. RowStep /\ RestStep(j)
      BY <1>1, <1>t, RowKept, Untouched DEF Render
    <2>7. WorldTyped' /\ ModeOK'
      BY <1>1, <1>t, <1>o, <2>4 DEF Render, WorldTyped, ModeOK, At, Shift, Moved
    <2> QED BY <2>5, <2>6, <2>7, BaseKept DEF StepOK, SiteStep, RowStep, JobStep, RestStep
  <1>2. CASE Empty(j)
    <2>1. JobStep(j) /\ (job'[j].pc = "leave" => snip' = None) /\ job'[j].pc # "deploy"
      <3>1. CASE Goto(j, "leave") /\ snip' = None /\ UNCHANGED lock
        BY <1>k, <3>1, WentOn, PcSets
      <3>2. CASE End(j) /\ lock' = None
        BY <1>k, <3>2, CameToEnd DEF LockMoves
      <3> QED BY <1>2, <3>1, <3>2 DEF Empty
    <2>2. RowStep
      BY <1>2, <1>t, RowKept DEF Empty
    <2>3. RestStep(j)
      BY <1>2, <1>t DEF Empty, Cut, RestStep, RestTyped, NoEvent, Event, Targets
    <2>4. StepOK(j)
      BY <2>1, <2>2, <2>3 DEF StepOK, SiteStep, RowStep
    <2> QED BY <1>2, <2>1, <2>4, PlainStep DEF Empty, Cut
  <1>3. CASE Leave(j)
    <2>1. JobStep(j) /\ job'[j].pc = "reconcile"
      BY <1>3, <1>k, WentOn, PcSets DEF Leave
    <2>2. RowStep /\ RestStep(j)
      BY <1>3, <1>t, RowKept, Untouched DEF Leave
    <2>3. WorldTyped' /\ ModeOK'
      <3>1. snip = None /\ snip' = snip /\ ssh' = FALSE /\ allow' = allow
        BY <1>3 DEF Leave, Base, ModeOK, caddy
      <3>2. \A k \in Jobs : job'[k].pc \notin {"leave", "deploy"}
        BY <1>o, <2>1 DEF JobStep, Moved
      <3> QED BY <1>t, <3>1, <3>2 DEF WorldTyped, ModeOK, At
    <2> QED BY <2>1, <2>2, <2>3, BaseKept DEF StepOK, SiteStep, RowStep, JobStep, RestStep
  <1> QED BY <1>1, <1>2, <1>3 DEF Switch

LEMMA Starts ==
    ASSUME Base, NEW j \in Jobs, StartPass(j) \/ StartRequest(j)
    PROVE  /\ Base' /\ Moved(j) /\ UNCHANGED <<world, site, caddy, slot>>
           /\ job[j].pc = "idle" /\ job'[j].pc \in {"sweep", "validate", "verify", "rmslot", "empty", "render"}
           /\ astray \subseteq astray'
  <1>t. /\ job \in [Jobs -> JobRecords] /\ SiteTyped /\ RestTyped /\ WorldTyped
        /\ JobOK(job[j], lock = j) /\ MaxEvents \in Nat /\ MaxRequests \in Nat /\ None \notin Jobs
    BY Reads
  <1>b. FALSE \in BOOLEAN /\ TRUE \in BOOLEAN
    OBVIOUS
  <1>p. /\ {"sweep", "validate", "verify", "rmslot", "empty", "render"} \subseteq Pcs \ {"idle", "leave", "deploy"}
        /\ None \in Targets
    BY PcSets DEF Targets
  <1>n. Idle(j) => job[j].pc = "idle"
    BY DEF Idle, NoJob
  <1>1. ASSUME NEW kind \in {"pass", "flow", "remove", "switch"}, NEW pc, NEW up, NEW cert, NEW mode,
               Shift(j, kind, pc, up, cert, mode), pc # "idle", pc \notin {"leave", "deploy"}, LockMoves(j),
               JobOK(job'[j], lock' = j), UNCHANGED <<world, site, caddy, slot, spent>>,
               \/ kind # "pass" \/ "passes" \in astray' \/ \A k \in Jobs : job[k].kind # "pass",
               astray' \in {astray, astray \cup {"passes"}}, requests' \in 0..MaxRequests
        PROVE  Base'
    <2>1. SiteTyped' /\ WorldTyped' /\ RestTyped' /\ astray \subseteq astray'
      BY <1>t, <1>1 DEF SiteTyped, WorldTyped, RestTyped, world, caddy
    <2>2. ModeOK'
      BY <1>1, ModeKept DEF Shift, world, caddy
    <2> QED BY <1>1, <2>1, <2>2, BaseKept DEF Shift
  <1>2. CASE StartPass(j)
    <2>1. Start(j, "pass", "sweep", None, FALSE) /\ UNCHANGED requests /\ Idle(j)
      BY <1>2 DEF StartPass, Start
    <2>2. UNCHANGED <<world, site, caddy, slot, lock, spent>>
      BY <2>1 DEF Start
    <2>3. /\ astray' \in {astray, astray \cup {"passes"}}
          /\ "passes" \in astray' \/ \A k \in Jobs : job[k].kind # "pass"
      BY <1>2 DEF StartPass, StrayIf
    <2>4. Shift(j, "pass", "sweep", None, FALSE, ssh)
      BY <1>b, <1>p, <2>1, Opened DEF Base, Kinds
    <2>5. JobOK(job'[j], lock' = j) /\ LockMoves(j)
      BY <2>2, <2>4, PcSets DEF Shift, JobOK, LockMoves
    <2>r. requests' \in 0..MaxRequests
      BY <1>t, <2>1 DEF RestTyped
    <2>6. Base'
      <3>1. "pass" \in {"pass", "flow", "remove", "switch"} /\ "sweep" \notin {"idle", "leave", "deploy"}
        OBVIOUS
      <3> QED BY <1>1, <2>2, <2>3, <2>4, <2>5, <2>r, <3>1
    <2> QED BY <1>n, <2>1, <2>2, <2>3, <2>4, <2>6 DEF Shift
  <1>3. ASSUME NEW kind \in {"flow", "remove"}, NEW pc \in {"validate", "verify", "rmslot"}, NEW up \in Targets,
               NEW cert \in BOOLEAN, Start(j, kind, pc, up, cert), Request, UNCHANGED astray,
               kind = "flow" <=> pc # "rmslot", pc = "validate" => up \in Upstreams
        PROVE  /\ Base' /\ Moved(j) /\ UNCHANGED <<world, site, caddy, slot>>
               /\ job[j].pc = "idle" /\ job'[j].pc = pc
    <2>1. Idle(j) /\ UNCHANGED <<world, site, caddy, slot, lock, spent>>
      BY <1>3 DEF Start
    <2>2. Shift(j, kind, pc, up, cert, ssh)
      BY <1>3, <1>p, Opened DEF Base, Kinds
    <2>3. JobOK(job'[j], lock' = j) /\ LockMoves(j)
      BY <1>3, <2>1, <2>2, PcSets DEF Shift, JobOK, LockMoves
    <2>4. requests' \in 0..MaxRequests
      BY <1>3, <1>t DEF Request, RestTyped
    <2>5. Base'
      BY <1>1, <1>3, <2>1, <2>2, <2>3, <2>4
    <2> QED BY <1>n, <2>1, <2>2, <2>5 DEF Shift
  <1>4. ASSUME NEW u \in Upstreams, StartSave(j, u)
        PROVE  Start(j, "flow", "validate", u, site.cert) /\ Request /\ UNCHANGED astray /\ site.cert \in BOOLEAN
    BY <1>4, <1>t, Rows DEF StartSave
  <1>5. CASE \E u \in Upstreams : StartSave(j, u)
    <2>1. PICK u \in Upstreams : StartSave(j, u)
      BY <1>5
    <2>2. u \in Targets
      BY DEF Targets
    <2> QED BY <1>3, <1>4, <2>1, <2>2
  <1>6. CASE StartRetry(j)
    <2>1. site.up \in Targets
      BY <1>6, <1>t, Rows DEF StartRetry, Targets
    <2> QED BY <1>3, <1>6, <1>b, <2>1 DEF StartRetry
  <1>7. CASE StartRemove(j)
    <2>1. site.cert \in BOOLEAN
      BY <1>7, <1>t, Rows DEF StartRemove
    <2> QED BY <1>3, <1>7, <1>p, <2>1 DEF StartRemove
  <1>8. CASE StartSwitch(j)
    <2>1. /\ lock = None /\ lock' = j /\ Idle(j) /\ Request
          /\ UNCHANGED <<world, site, caddy, slot, astray, spent>>
      BY <1>8 DEF StartSwitch
    <2> DEFINE e == [NoJob EXCEPT !.kind = "switch", !.pc = "empty", !.ssh = TRUE]
               r == [NoJob EXCEPT !.kind = "switch", !.pc = "render"]
    <2> DEFINE K == Kinds
               P == Pcs
               T == Targets
    <2>2. "switch" \in K /\ "none" \in K /\ {"idle", "empty", "render"} \subseteq P /\ None \in T
      BY <1>p, PcSets DEF Kinds
    <2>3. job' = [job EXCEPT ![j] = e] \/ job' = [job EXCEPT ![j] = r]
      BY <1>8 DEF StartSwitch
    <2>4. JobRecords = [kind : K, pc : P, up : T, cert : BOOLEAN, ssh : BOOLEAN]
      BY DEF JobRecords, Targets
    <2> HIDE DEF K, P, T
    <2>5. NoJob \in JobRecords
      BY <1>b, <2>2, <2>4 DEF NoJob
    <2>6. /\ e \in JobRecords /\ e.kind = "switch" /\ e.pc = "empty"
          /\ r \in JobRecords /\ r.kind = "switch" /\ r.pc = "render"
      BY <1>b, <2>2, <2>4, <2>5
    <2> HIDE DEF e, r
    <2>7. PICK x \in {e, r} : job' = [job EXCEPT ![j] = x]
      BY <2>3
    <2>8. x \in JobRecords /\ x.kind = "switch" /\ x.pc \in {"empty", "render"}
      BY <2>6
    <2>9. Shift(j, x.kind, x.pc, x.up, x.cert, x.ssh)
      BY <1>t, <2>7, <2>8, PutShift
    <2>10. JobOK(job'[j], lock' = j) /\ LockMoves(j)
      BY <2>1, <2>8, <2>9, PcSets DEF Shift, JobOK, LockMoves
    <2>11. requests' \in 0..MaxRequests
      BY <2>1, <1>t DEF Request, RestTyped
    <2>12. Base'
      BY <1>1, <2>1, <2>8, <2>9, <2>10, <2>11
    <2> QED BY <1>n, <2>1, <2>8, <2>9, <2>12 DEF Shift
  <1> QED BY <1>2, <1>5, <1>6, <1>7, <1>8 DEF StartRequest

LEMMA WorkSteps ==
    ASSUME Base, NEW j \in Jobs, Work(j)
    PROVE  StepOK(j) /\ Base'
  <1>r. UNCHANGED requests
    BY DEF Work
  <1>1. CASE (Flow(j) \/ Pass(j) \/ Remove(j)) /\ UNCHANGED world
    <2>1. CASE Validate(j) \/ Store(j) \/ Reset(j) \/ Begin(j) \/ Check(j) \/ Announce(j) \/ Push(j)
      <3>1. snip' = snip
        BY <2>1 DEF Validate, Store, Reset, Begin, Check, Announce, Push, caddy
      <3> QED BY <1>1, <1>r, <2>1, <3>1, PublishSteps, PlainStep
    <2>2. CASE Rearm(j) \/ Conflicts(j) \/ Issue(j) \/ Poll(j) \/ Inspect(j) \/ Look(j) \/ Attach(j) \/ Finish(j)
      <3>1. snip' = snip
        BY <2>2 DEF Rearm, Conflicts, Issue, Poll, Inspect, Look, Attach, Finish, caddy
      <3> QED BY <1>1, <1>r, <2>2, <3>1, InspectSteps, PlainStep
    <2>3. CASE Lock(j) \/ Deploy(j)
      BY <1>1, <1>r, <2>3, SnippetSteps
    <2>4. CASE \/ Sweep(j) \/ Mark(j) \/ Park(j) \/ Claims(j) \/ Claim(j) \/ Delete(j) \/ Confirm(j)
               \/ Clean(j)
      <3>1. snip' = snip
        BY <2>4 DEF Sweep, Mark, Park, Claims, Claim, Delete, Confirm, Clean, caddy
      <3> QED BY <1>1, <1>r, <2>4, <3>1, MarkSteps, PlainStep
    <2>5. CASE Releases(j) \/ Detach(j) \/ Released(j) \/ Reprobe(j) \/ Reprobed(j)
      <3>1. snip' = snip
        BY <2>5 DEF Releases, Detach, Released, Reprobe, Reprobed, caddy
      <3> QED BY <1>1, <1>r, <2>5, <3>1, ReleaseSteps, PlainStep
    <2>6. CASE Reconcile(j) \/ Repush(j) \/ Repushed(j) \/ Throws(j)
      <3>1. snip' = snip
        BY <2>6 DEF Reconcile, Repush, Repushed, Throws, caddy
      <3> QED BY <1>1, <1>r, <2>6, <3>1, RepairSteps, PlainStep
    <2>7. CASE Remove(j)
      <3>1. snip' = snip
        BY <2>7 DEF Remove, RemoveSlot, RemoveRoute, RemoveRow, caddy
      <3> QED BY <1>1, <1>r, <2>7, <3>1, RemovalSteps, PlainStep
    <2> QED BY <1>1, <2>1, <2>2, <2>3, <2>4, <2>5, <2>6, <2>7 DEF Flow, Pass
  <1>2. CASE Switch(j)
    BY <1>r, <1>2, SwitchModes
  <1> QED BY <1>1, <1>2 DEF Work

\* A crash drops every job and the lock, and undoes the claim of a pass.
LEMMA Crashed ==
    ASSUME Base, Crash
    PROVE  /\ \A j \in Jobs : job'[j].pc = "idle" /\ job'[j].kind = "none"
           /\ SiteTyped' /\ Stays /\ UNCHANGED <<world, caddy, slot>>
           /\ site' = site \/ (site.st = "claimed" /\ site'.st = "releasing")
           /\ site' # NoSite => site # NoSite /\ site'.cert = site.cert
           /\ Base'
  <1>t. /\ job \in [Jobs -> JobRecords] /\ SiteTyped /\ RestTyped /\ WorldTyped
        /\ MaxEvents \in Nat
    BY Types, SitePublishAssumption DEF Base
  <1>1. job' = [j \in Jobs |-> NoJob] /\ lock' = None /\ UNCHANGED <<world, caddy, slot, requests>>
    BY DEF Crash
  <1>2. NoJob \in JobRecords /\ NoJob.kind = "none" /\ NoJob.pc = "idle"
    <2>1. "none" \in Kinds /\ None \in Targets /\ "idle" \in Pcs
      BY PcSets DEF Kinds, Targets
    <2>2. FALSE \in BOOLEAN
      OBVIOUS
    <2> QED BY <2>1, <2>2 DEF NoJob, JobRecords, Targets
  <1>3. job' \in [Jobs -> JobRecords] /\ \A j \in Jobs : job'[j] = NoJob
    BY <1>1, <1>2
  <1>4. /\ SiteTyped' /\ Stays
        /\ site' = site \/ (site.st = "claimed" /\ site'.st = "releasing")
        /\ site' # NoSite => site # NoSite /\ site'.cert = site.cert
    <2>1. CASE site.st = "claimed"
      <3>1. Present /\ "releasing" \in Revocation /\ site' = [site EXCEPT !.st = "releasing"]
        BY <1>t, <2>1, Rows DEF Crash
      <3> QED BY <1>t, <2>1, <3>1, GoesOn DEF Present
    <2>2. CASE site.st # "claimed"
      <3>1. site' = site
        BY <2>2 DEF Crash
      <3> QED BY <1>t, <3>1, RowKept DEF RowStep
    <2> QED BY <2>1, <2>2
  <1>5. /\ RestTyped' /\ WorldTyped' /\ astray \subseteq astray'
    BY <1>1, <1>t DEF Crash, Event, StrayIf, RestTyped, WorldTyped, world, caddy
  <1>6. TypeOK'
    BY <1>1, <1>2, <1>3, <1>4, <1>5 DEF TypeOK, WorldTyped, SiteTyped, RestTyped, Targets, Idle
  <1>7. JobsOK'
    BY <1>2, <1>3 DEF JobsOK, JobOK
  <1>8. ModeOK'
    BY <1>1, <1>2, <1>3 DEF ModeOK, Base, At, world, caddy
  <1>9. OnePass'
    BY <1>2, <1>3 DEF OnePass
  <1> QED BY <1>1, <1>2, <1>3, <1>4, <1>6, <1>7, <1>8, <1>9 DEF Base

LEMMA OutsideSteps ==
    ASSUME Base, AccessChanges \/ Reload
    PROVE  /\ UNCHANGED <<ssh, site, snip, slot, lock, job, astray>> /\ route' \in {route, None}
           /\ Base'
  <1>t. RestTyped /\ WorldTyped /\ MaxEvents \in Nat
    BY Types, SitePublishAssumption DEF Base
  <1>1. /\ UNCHANGED <<ssh, site, snip, slot, lock, job, astray, requests>> /\ route' \in {route, None}
        /\ spent' \in 0..MaxEvents
    BY <1>t DEF AccessChanges, Reload, Event, caddy, world, RestTyped
  <1>2. allow' \subseteq Upstreams
    BY <1>t DEF AccessChanges, Reload, world, WorldTyped
  <1>3. TypeOK'
    BY <1>1, <1>2 DEF Base, TypeOK, Idle
  <1> QED BY <1>1, <1>3 DEF Base, JobsOK, ModeOK, OnePass, At

LEMMA BaseNext == Base /\ [Next]_vars => Base'
  <1> SUFFICES ASSUME Base, [Next]_vars PROVE Base'
    OBVIOUS
  <1>1. ASSUME NEW j \in Jobs, StartPass(j) \/ StartRequest(j) \/ Work(j) PROVE Base'
    BY <1>1, Starts, WorkSteps
  <1>2. CASE AccessChanges \/ Reload \/ Crash
    BY <1>2, OutsideSteps, Crashed
  <1>3. CASE UNCHANGED vars
    BY <1>3 DEF vars, world, caddy, bounds, Base, TypeOK, Idle, JobsOK, ModeOK, OnePass, At
  <1> QED BY <1>1, <1>2, <1>3 DEF Next

LEMMA BaseInit == Init => Base
  <1> SUFFICES ASSUME Init PROVE Base
    OBVIOUS
  <1>1. PICK u \in allow : site = [st |-> "pushing", up |-> u, cert |-> FALSE]
    BY DEF Init
  <1>2. FALSE \in BOOLEAN
    OBVIOUS
  <1> DEFINE K == Kinds
             P == Pcs
             T == Targets
             S == Statuses
             e == [NoJob EXCEPT !.kind = "flow", !.pc = "begin"]
  <1>3. "flow" \in K /\ "none" \in K /\ {"idle", "begin"} \subseteq P /\ None \in T
        /\ JobRecords = [kind : K, pc : P, up : T, cert : BOOLEAN, ssh : BOOLEAN] /\ "pushing" \in S
    BY PcSets, Rows DEF Kinds, Targets, JobRecords
  <1>4. PICK j \in Jobs : job = [k \in Jobs |-> IF k = j THEN e ELSE NoJob]
    BY DEF Init
  <1> HIDE DEF K, P, T, S
  <1>5. NoJob \in JobRecords /\ NoJob.kind = "none" /\ NoJob.pc = "idle"
    BY <1>2, <1>3 DEF NoJob
  <1>6. e \in JobRecords /\ e.kind = "flow" /\ e.pc = "begin"
    BY <1>3, <1>5
  <1> HIDE DEF e
  <1>7. job \in [Jobs -> JobRecords] /\ job[j] = e /\ \A k \in Jobs \ {j} : job[k] = NoJob
    BY <1>4, <1>5, <1>6
  <1>8. /\ allow \subseteq Upstreams /\ ssh \in BOOLEAN /\ slot = FALSE /\ route = None /\ snip = None
        /\ lock = None /\ astray = {} /\ requests = 0 /\ spent = 0
    BY DEF Init
  <1>9. site \in [st : S, up : Upstreams, cert : BOOLEAN]
    BY <1>1, <1>2, <1>3, <1>8
  <1>10. TypeOK
    <2>1. \A k \in Jobs : Idle(k) <=> job[k].pc = "idle"
      BY <1>5, <1>6, <1>7 DEF Idle
    <2>2. WorldTyped
      BY <1>8 DEF WorldTyped
    <2>3. SiteTyped
      BY <1>9 DEF SiteTyped, S
    <2>4. RestTyped
      <3>1. slot \in BOOLEAN
        BY <1>2, <1>8
      <3>2. requests \in 0..MaxRequests /\ spent \in 0..MaxEvents
        BY <1>8, SitePublishAssumption
      <3> QED BY <1>8, <3>1, <3>2 DEF RestTyped, Targets
    <2> QED BY <1>7, <1>8, <2>1, <2>2, <2>3, <2>4, Types
  <1>11. JobsOK
    BY <1>5, <1>6, <1>7, PcSets DEF JobsOK, JobOK
  <1> QED BY <1>5, <1>6, <1>7, <1>8, <1>10, <1>11 DEF Base, ModeOK, OnePass, At

LEMMA BaseHolds == Spec => []Base
  BY BaseInit, BaseNext, PTL DEF Spec

\* routes/websites.ts: the row, the jobs, what Caddy and the firewall hold keep their types.
THEOREM TypeCorrect == Spec => []TypeOK
  <1>1. Base => TypeOK
    BY DEF Base
  <1> QED BY <1>1, BaseHolds, PTL

\* websites.ts:69 and 526-534: whatever flows, probes and repairs report meanwhile, a
\* revocation is only left by a save or a retry, or with the site.
THEOREM RevocationsHold == Spec => RevocationHolds
  <1>1. Base /\ [Next]_vars =>
          [Revoked /\ site' # NoSite =>
             site'.st \in Revocation \/ \E j \in Jobs : At(j, "reset") /\ job'[j].pc = "begin"]_vars
    <2> SUFFICES ASSUME Base, [Next]_vars, Revoked, site' # NoSite
                 PROVE  site'.st \in Revocation \/ \E j \in Jobs : At(j, "reset") /\ job'[j].pc = "begin"
      OBVIOUS
    <2>1. ASSUME NEW j \in Jobs, Work(j)
          PROVE  site'.st \in Revocation \/ (At(j, "reset") /\ job'[j].pc = "begin")
      BY <2>1, WorkSteps DEF StepOK, SiteStep, Stays
    <2>2. ASSUME NEW j \in Jobs, StartPass(j) \/ StartRequest(j) PROVE site'.st \in Revocation
      BY <2>2, Starts DEF Revoked
    <2>3. CASE AccessChanges \/ Reload \/ Crash
      BY <2>3, OutsideSteps, Crashed DEF Stays, Revoked
    <2>4. CASE UNCHANGED vars
      BY <2>4 DEF vars, Revoked
    <2> QED BY <2>1, <2>2, <2>3, <2>4 DEF Next
  <1> QED BY <1>1, BaseHolds, PTL DEF Spec, RevocationHolds

-----------------------------------------------------------------------------
(* What a revocation leaves behind: the second invariant.                  *)

Cleaned(j) == At(j, "clean") /\ site.st = "cleaning"

\* From the last look at the route on, there is none but one just pushed, and who pushed
\* it looks for a revocation next.
RouteOK ==
    /\ astray = {}
    /\ site.st \in Gone \/ \E j \in Jobs : Cleaned(j)
    /\ \A j \in Jobs : job[j].pc \notin {"rearm", "repushed"}
    => route = None

\* A pass in file mode renders the snippet after its claim; from then on no snippet that
\* may still be deployed has the site's block.
SnipOK ==
    astray = {} =>
        /\ site.st \in Gone \/ (\E j \in Jobs : Cleaned(j) /\ job[j].ssh)
             => snip = None /\ \A j \in Jobs : At(j, "deploy") => job[j].up = None
        /\ \A j \in Jobs : job[j].kind = "pass" /\ At(j, "deploy") /\ site.st = "cleaning"
             => job[j].up = None

\* The pass that cleans is the one that repairs.
RepairOK ==
    astray = {} =>
        \A j \in Jobs : job[j].kind = "pass" /\ job[j].pc \in {"repush", "repushed"} => site.st \notin Gone

\* A certificate on the profile is known to the row, so that a release finds it.
CertOK ==
    astray = {} /\ Present =>
        /\ slot => site.cert
        /\ (\E j \in Jobs : job[j].pc \in {"inspect", "look", "attach", "reattached"}) => site.cert

\* What is left to release once a pass has read the row, unless a flow has just attached.
Freed(j) == At(j, "released") \/ (At(j, "detach") /\ ~job[j].cert)
SlotOK ==
    /\ astray = {}
    /\ \A j \in Jobs : job[j].pc # "reattached"
    /\ site.st = "revoked" \/ (site.st = "claimed" /\ \E j \in Jobs : Freed(j))
    => ~slot

Deep == RouteOK /\ SnipOK /\ RepairOK /\ CertOK /\ SlotOK

-----------------------------------------------------------------------------
(* What keeps each part.                                                   *)

NotGone == site'.st \in Gone => site.st \in Gone

RouteQuiet(j) ==
    /\ NotGone
    /\ site'.st = "cleaning" /\ site.st # "cleaning" => \A k \in Jobs : job[k].pc # "clean"
    /\ route' \in {route, None} /\ job[j].pc \notin {"rearm", "repushed"} /\ job'[j].pc # "clean"

SnipQuiet(j) ==
    /\ NotGone
    /\ site'.st = "cleaning" /\ site.st # "cleaning"
         => \A k \in Jobs : job[k].pc # "clean" /\ ~(job[k].kind = "pass" /\ job[k].pc = "deploy")
    /\ snip' \in {snip, None} /\ job'[j].pc \notin {"clean", "deploy"}

RepairQuiet(j) ==
    /\ NotGone
    /\ job'[j].kind = "pass" /\ job'[j].pc \in {"repush", "repushed"}
         => job[j].kind = "pass" /\ job[j].pc \in {"repush", "repushed"}

CertQuiet(j) ==
    /\ site' # NoSite => site # NoSite /\ (site.cert => site'.cert)
    /\ slot' => slot
    /\ job'[j].pc \in {"inspect", "look", "attach", "reattached"} => job[j].pc \in {"inspect", "look", "attach", "reattached"}

SlotQuiet(j) ==
    /\ site'.st \in {"revoked", "claimed"} => site'.st = site.st
    /\ slot' => slot
    /\ job[j].pc # "reattached" /\ job'[j].pc \notin {"released", "detach"}

Straight == astray' = {} => astray = {}

LEMMA RouteKept ==
    ASSUME NEW j \in Jobs, RouteOK, Moved(j), Straight, astray' = {} => RouteQuiet(j)
    PROVE  RouteOK'
  BY DEF RouteOK, Moved, Straight, RouteQuiet, NotGone, Cleaned, At

LEMMA SnipKept ==
    ASSUME NEW j \in Jobs, SnipOK, Moved(j), Straight, astray' = {} => SnipQuiet(j)
    PROVE  SnipOK'
  <1> SUFFICES ASSUME astray' = {} PROVE SnipOK'
    BY DEF SnipOK
  <1>1. SnipQuiet(j) /\ astray = {}
    BY DEF Straight
  <1>2. ASSUME NEW k \in Jobs, job'[k].pc \in {"clean", "deploy"} PROVE k # j /\ job'[k] = job[k]
    BY <1>1, <1>2 DEF SnipQuiet, Moved
  <1>3. ASSUME site'.st \in Gone \/ (\E k \in Jobs : Cleaned(k)' /\ job'[k].ssh)
        PROVE  snip' = None /\ \A k \in Jobs : At(k, "deploy")' => job'[k].up = None
    <2>1. site.st \in Gone \/ (\E k \in Jobs : Cleaned(k) /\ job[k].ssh)
      BY <1>1, <1>2, <1>3 DEF SnipQuiet, NotGone, Cleaned, At
    <2> QED BY <1>1, <1>2, <2>1 DEF SnipOK, SnipQuiet, At
  <1>4. ASSUME NEW k \in Jobs, job'[k].kind = "pass", At(k, "deploy")', site'.st = "cleaning"
        PROVE  job'[k].up = None
    BY <1>1, <1>2, <1>4 DEF SnipOK, SnipQuiet, At
  <1> QED BY <1>3, <1>4 DEF SnipOK, Cleaned, At

LEMMA RepairKept ==
    ASSUME NEW j \in Jobs, RepairOK, Moved(j), Straight, astray' = {} => RepairQuiet(j)
    PROVE  RepairOK'
  BY DEF RepairOK, Moved, Straight, RepairQuiet, NotGone

LEMMA CertKept ==
    ASSUME NEW j \in Jobs, CertOK, Moved(j), Straight, astray' = {} => CertQuiet(j)
    PROVE  CertOK'
  BY DEF CertOK, Moved, Straight, CertQuiet, Present

LEMMA SlotKept ==
    ASSUME NEW j \in Jobs, SlotOK, Moved(j), Straight, astray' = {} => SlotQuiet(j)
    PROVE  SlotOK'
  BY DEF SlotOK, Moved, Straight, SlotQuiet, Freed, At

\* A step that touches none of it.
Special == {"clean", "deploy", "repush", "repushed", "inspect", "look", "attach", "reattached", "released", "detach"}
Calm(j) ==
    /\ Mild /\ route' \in {route, None} /\ snip' \in {snip, None} /\ (slot' => slot)
    /\ job[j].pc \notin {"rearm", "repushed", "reattached"} /\ job'[j].pc \notin Special

LEMMA CalmStep ==
    ASSUME NEW j \in Jobs, Calm(j)
    PROVE  RouteQuiet(j) /\ SnipQuiet(j) /\ RepairQuiet(j) /\ CertQuiet(j) /\ SlotQuiet(j)
  <1>1. NotGone /\ (site'.st = "cleaning" => site.st = "cleaning")
    BY DEF Calm, Mild, NotGone, Gone
  <1>2. site'.st \in {"revoked", "claimed"} => site'.st = site.st
    BY DEF Calm, Mild, Gone
  <1> QED BY <1>1, <1>2 DEF Calm, Special, Mild, RouteQuiet, SnipQuiet, RepairQuiet, CertQuiet, SlotQuiet

LEMMA CalmKeeps ==
    ASSUME Deep, NEW j \in Jobs, Moved(j), Straight, astray' = {} => Calm(j)
    PROVE  Deep'
  BY CalmStep, RouteKept, SnipKept, RepairKept, CertKept, SlotKept DEF Deep

\* Once something went astray nothing is promised.
LEMMA Lost == astray' # {} => Deep'
  BY DEF Deep, RouteOK, SnipOK, RepairOK, CertOK, SlotOK

\* While passes do not overlap, only one job is of the kind.
LEMMA Alone ==
    ASSUME Base, astray = {}, NEW j \in Jobs, job[j].kind = "pass"
    PROVE  \A k \in Jobs \ {j} :
             /\ job[k].kind # "pass"
             /\ job[k].pc \notin {"claims", "claim", "confirm", "clean", "releases", "detach", "released", "kept"}
  BY KindAt DEF Base, OnePass

-----------------------------------------------------------------------------
(* Every step keeps the second invariant.                                  *)

LEMMA Fields ==
    ASSUME Base, NEW j \in Jobs
    PROVE  /\ DOMAIN job = Jobs
           /\ DOMAIN job[j] = {"kind", "pc", "up", "cert", "ssh"}
  <1>1. job \in [Jobs -> JobRecords]
    BY Reads
  <1> DEFINE K == Kinds
             P == Pcs
  <1>2. job \in [Jobs -> [kind : K, pc : P, up : Upstreams \cup {None}, cert : BOOLEAN, ssh : BOOLEAN]]
    BY <1>1 DEF JobRecords
  <1> HIDE DEF K, P
  <1> QED BY <1>2

\* Where a job goes on, and what it takes along.
LEMMA GoesTo ==
    ASSUME Base, NEW j \in Jobs, NEW pc, Goto(j, pc)
    PROVE  /\ job'[j].pc = pc /\ job'[j].kind = job[j].kind /\ job'[j].up = job[j].up
           /\ job'[j].cert = job[j].cert /\ job'[j].ssh = job[j].ssh
  BY Fields DEF Goto

LEMMA IsDone ==
    ASSUME Base, NEW j \in Jobs, End(j)
    PROVE  job'[j].pc = "idle" /\ job'[j].kind = "none"
  BY Fields DEF End, NoJob

\* A step that is none of the pass's own keeps the row's standing.
LEMMA MildStep ==
    ASSUME NEW j \in Jobs, StepOK(j), job[j].pc \notin {"claim", "clean", "releases", "released", "kept"},
           astray' = {}
    PROVE  Mild
  BY DEF StepOK, SiteStep

\* What a mild step keeps, part by part.
LEMMA Quietly ==
    ASSUME Base, Deep, NEW j \in Jobs, Moved(j), Straight, Mild,
           job[j].pc \notin {"rearm", "repushed", "reattached"}
    PROVE  /\ route' \in {route, None} /\ job'[j].pc # "clean" => RouteOK'
           /\ snip' \in {snip, None} /\ job'[j].pc \notin {"clean", "deploy"} => SnipOK'
           /\ job'[j].pc \notin {"repush", "repushed"} => RepairOK'
           /\ (slot' => slot) /\ (job'[j].pc \notin {"inspect", "look", "attach", "reattached"}
                                  \/ job[j].pc \in {"inspect", "look", "attach", "reattached"}) => CertOK'
           /\ (slot' => slot) /\ job'[j].pc \notin {"released", "detach"} => SlotOK'
  <1>1. NotGone /\ (site'.st = "cleaning" => site.st = "cleaning")
    BY DEF Mild, NotGone, Gone
  <1>2. site'.st \in {"revoked", "claimed"} => site'.st = site.st
    BY DEF Mild, Gone
  <1>3. ASSUME route' \in {route, None}, job'[j].pc # "clean" PROVE RouteOK'
    BY <1>1, <1>3, RouteKept DEF Deep, RouteQuiet
  <1>4. ASSUME snip' \in {snip, None}, job'[j].pc \notin {"clean", "deploy"} PROVE SnipOK'
    BY <1>1, <1>4, SnipKept DEF Deep, SnipQuiet
  <1>5. ASSUME job'[j].pc \notin {"repush", "repushed"} PROVE RepairOK'
    BY <1>1, <1>5, RepairKept DEF Deep, RepairQuiet
  <1>6. ASSUME slot' => slot, job'[j].pc \notin {"inspect", "look", "attach", "reattached"}
                              \/ job[j].pc \in {"inspect", "look", "attach", "reattached"}
        PROVE  CertOK'
    BY <1>6, CertKept DEF Deep, CertQuiet, Mild
  <1>7. ASSUME slot' => slot, job'[j].pc \notin {"released", "detach"} PROVE SlotOK'
    BY <1>2, <1>7, SlotKept DEF Deep, SlotQuiet
  <1> QED BY <1>3, <1>4, <1>5, <1>6, <1>7

\* A step that touches none of it.
LEMMA CalmWork ==
    ASSUME Base, Deep, NEW j \in Jobs, Moved(j), Straight, Mild,
           job[j].pc \notin {"rearm", "repushed", "reattached"}, job'[j].pc \notin Special,
           route' \in {route, None}, snip' \in {snip, None}, slot' => slot
    PROVE  Deep'
  BY Quietly DEF Special, Deep

\* A route is put up: the look for a revocation comes next.
LEMMA Served ==
    ASSUME Base, Deep, NEW j \in Jobs, Moved(j), Straight, UNCHANGED <<site, snip, slot>>,
           job[j].pc \in {"push", "repush"}, job'[j].pc \in {"rearm", "repushed"},
           job'[j].pc = "repushed" => job[j].pc = "repush", job'[j].kind = job[j].kind
    PROVE  Deep'
  <1>1. RouteOK'
    BY DEF RouteOK
  <1>2. Mild
    BY DEF Mild
  <1>3. RepairOK'
    BY RepairKept DEF Deep, RepairQuiet, NotGone
  <1> QED BY <1>1, <1>2, <1>3, Quietly DEF Deep

\* The row is not in a revocation that cleans or has cleaned.
LEMMA Open ==
    ASSUME Base, Deep, NEW j \in Jobs, Moved(j), Straight, Mild, site'.st \notin Gone \cup {"cleaning"},
           UNCHANGED slot, job'[j].pc \notin {"inspect", "look", "attach", "reattached"}
    PROVE  Deep'
  <1>1. RouteOK' /\ SnipOK' /\ RepairOK'
    BY DEF RouteOK, SnipOK, RepairOK, Cleaned
  <1>2. SlotOK'
    BY DEF SlotOK, Gone
  <1>3. CertOK'
    BY CertKept DEF Deep, CertQuiet, Mild
  <1> QED BY <1>1, <1>2, <1>3 DEF Deep

\* The snippet is rendered from the row as it stands.
LEMMA Renders ==
    ASSUME Base, Deep, NEW j \in Jobs, Moved(j), Straight, UNCHANGED <<site, caddy, slot>>,
           job[j].pc \in {"lock", "render"}, job'[j].pc = "deploy", job'[j].up = Rendered
    PROVE  Deep'
  <1>1. Mild
    BY DEF Mild
  <1>2. RouteOK' /\ RepairOK' /\ CertOK' /\ SlotOK'
    BY <1>1, Quietly DEF caddy
  <1>3. SnipOK'
    <2> SUFFICES ASSUME astray' = {} PROVE SnipOK'
      BY DEF SnipOK
    <2>1. astray = {} /\ site' = site /\ snip' = snip
      BY DEF Straight, caddy
    <2>2. site.st \in Gone \cup {"cleaning"} => Rendered = None
      BY Rows DEF Rendered, Gone
    <2>3. ASSUME site'.st \in Gone \/ (\E k \in Jobs : Cleaned(k)' /\ job'[k].ssh)
          PROVE  snip' = None /\ \A k \in Jobs : At(k, "deploy")' => job'[k].up = None
      <3>1. site.st \in Gone \/ (\E k \in Jobs : Cleaned(k) /\ job[k].ssh)
        BY <2>1, <2>3 DEF Cleaned, At, Moved
      <3>2. site.st \in Gone \cup {"cleaning"}
        BY <3>1 DEF Cleaned
      <3> QED BY <2>1, <2>2, <3>1, <3>2 DEF Deep, SnipOK, At, Moved
    <2>4. ASSUME NEW k \in Jobs, job'[k].kind = "pass", At(k, "deploy")', site'.st = "cleaning"
          PROVE  job'[k].up = None
      BY <2>1, <2>2, <2>4 DEF Deep, SnipOK, At, Moved
    <2> QED BY <2>3, <2>4 DEF SnipOK, Cleaned, At
  <1> QED BY <1>2, <1>3 DEF Deep

LEMMA PublishDeep ==
    ASSUME Base, Deep, NEW j \in Jobs, StepOK(j),
           \/ Validate(j) \/ Store(j) \/ Reset(j) \/ Begin(j) \/ Check(j) \/ Announce(j) \/ Push(j)
    PROVE  Deep'
  <1> SUFFICES ASSUME astray' = {} PROVE Deep'
    BY Lost
  <1>p. job[j].pc \in {"validate", "verify", "store", "reset", "begin", "check", "recheck", "announce", "push"}
    BY DEF Validate, Store, Reset, Begin, Check, Announce, Push, At
  <1>m. Mild /\ Moved(j) /\ Straight
    BY <1>p, MildStep DEF StepOK, JobStep, RestStep, Straight
  <1>0. CASE Validate(j)
    BY <1>0, <1>p, <1>m, GoesTo, IsDone, CalmWork DEF Validate, Special, caddy
  <1>1. CASE Store(j)
    BY <1>1, <1>p, <1>m, GoesTo, IsDone, CalmWork DEF Store, Special, caddy
  <1>2. CASE Reset(j)
    BY <1>2, <1>p, <1>m, GoesTo, IsDone, CalmWork DEF Reset, Special, caddy
  <1>3. CASE Begin(j)
    <2>1. job'[j].pc \in {"check", "idle"}
      BY <1>3, Fields, IsDone DEF Begin
    <2> QED BY <1>3, <1>p, <1>m, <2>1, CalmWork DEF Begin, Special, caddy
  <1>4. CASE Check(j)
    <2>1. job'[j].pc \in {"announce", "lock", "push", "mark", "idle"}
      <3>1. job' = [job EXCEPT ![j].pc = "mark", ![j].up = site.up] => job'[j].pc = "mark"
        BY Fields
      <3> QED BY <1>4, <3>1, GoesTo, IsDone DEF Check, MayPublish
    <2> QED BY <1>4, <1>p, <1>m, <2>1, CalmWork DEF Check, Special, caddy
  <1>5. CASE Announce(j)
    <2>1. job'[j].pc = "recheck"
      BY <1>5, Fields DEF Announce
    <2> QED BY <1>5, <1>p, <1>m, <2>1, CalmWork DEF Announce, Special, caddy
  <1>6. CASE Push(j)
    <2>1. CASE Goto(j, "rearm") /\ UNCHANGED site
      BY <1>6, <1>m, <2>1, GoesTo, IsDone, Served DEF Push, At
    <2>2. CASE Stray("cut")
      BY <2>2 DEF Stray
    <2>3. CASE End(j) /\ UNCHANGED route
      BY <1>6, <1>p, <1>m, <2>3, GoesTo, IsDone, CalmWork DEF Push, Special
    <2> QED BY <1>6, <2>1, <2>2, <2>3 DEF Push
  <1> QED BY <1>0, <1>1, <1>2, <1>3, <1>4, <1>5, <1>6

\* A look for a revocation, after something was put up.
LEMMA Looked ==
    ASSUME Base, Deep, NEW j \in Jobs, Moved(j), Straight, Mild, UNCHANGED <<caddy, slot>>,
           \/ ~Revoked /\ UNCHANGED site
           \/ Revoked /\ site' = [site EXCEPT !.st = "revoking"],
           job'[j].pc \notin {"inspect", "look", "attach", "reattached"}
    PROVE  Deep'
  <1>1. site'.st \notin Gone \cup {"cleaning"}
    <2>1. CASE ~Revoked /\ UNCHANGED site
      BY <2>1, Rows DEF Revoked, Gone
    <2>2. CASE Revoked /\ site' = [site EXCEPT !.st = "revoking"]
      <3>1. Present /\ SiteTyped
        BY <2>2, Reads, Rows
      <3> QED BY <2>2, <3>1, StartsOver DEF Gone
    <2> QED BY <2>1, <2>2
  <1> QED BY <1>1, Open

LEMMA InspectDeep ==
    ASSUME Base, Deep, NEW j \in Jobs, StepOK(j),
           \/ Rearm(j) \/ Conflicts(j) \/ Issue(j) \/ Poll(j) \/ Inspect(j) \/ Look(j) \/ Attach(j) \/ Finish(j)
    PROVE  Deep'
  <1> SUFFICES ASSUME astray' = {} PROVE Deep'
    BY Lost
  <1>p. job[j].pc \in {"rearm", "reattached", "conflicts", "issue", "poll", "inspect", "look", "attach", "finish"}
    BY DEF Rearm, Conflicts, Issue, Poll, Inspect, Look, Attach, Finish, At
  <1>m. Mild /\ Moved(j) /\ Straight
    BY <1>p, MildStep DEF StepOK, JobStep, RestStep, Straight
  <1>1. CASE Rearm(j)
    <2>1. job'[j].pc \in {"issue", "conflicts", "finish", "idle"}
      BY <1>1, GoesTo, IsDone DEF Rearm, RearmElse
    <2> QED BY <1>1, <1>m, <2>1, Looked DEF Rearm, RearmElse
  <1>2. CASE Conflicts(j)
    <2>1. job'[j].pc \in {"issue", "reprobe", "idle"}
      BY <1>2, GoesTo, IsDone DEF Conflicts, Reconciled
    <2> QED BY <1>2, <1>m, <2>1, CalmWork DEF Conflicts, At, Special, caddy
  <1>3. CASE Issue(j)
    BY <1>3, <1>m, GoesTo, IsDone, CalmWork DEF Issue, At, Special, caddy
  <1>4. CASE Poll(j)
    <2>1. At(j, "poll") /\ UNCHANGED <<caddy, slot>> /\ job'[j].pc \in {"inspect", "idle"}
      BY <1>4, GoesTo, IsDone DEF Poll
    <2>2. RouteOK' /\ SnipOK' /\ RepairOK' /\ SlotOK'
      BY <1>m, <2>1, Quietly DEF At, caddy
    <2>3. CASE job'[j].pc = "idle"
      BY <1>m, <2>1, <2>2, <2>3, Quietly DEF At, Deep
    <2>4. CASE job'[j].pc = "inspect"
      <3>1. site' = IF Present THEN [site EXCEPT !.cert = TRUE] ELSE site
        BY <1>4, <2>4, GoesTo, IsDone DEF Poll
      <3>2. site' # NoSite => site'.cert
        <4> DEFINE S == Statuses
        <4>1. Present => site \in [st : S, up : Upstreams, cert : BOOLEAN]
          BY Reads DEF SiteTyped, Present
        <4> HIDE DEF S
        <4> QED BY <3>1, <4>1 DEF Present
      <3>3. CertOK'
        BY <3>2 DEF CertOK, Present
      <3> QED BY <2>2, <3>3 DEF Deep
    <2> QED BY <2>1, <2>3, <2>4
  <1>5. CASE Look(j)
    <2>1. At(j, "look") /\ UNCHANGED <<caddy, slot>> /\ job'[j].pc \in {"attach", "idle"}
      BY <1>5, GoesTo, IsDone DEF Look, RearmElse
    <2> QED BY <1>m, <2>1, Quietly DEF At, caddy, Deep
  <1>6. CASE Attach(j)
    <2>1. At(j, "attach") /\ UNCHANGED caddy
      BY <1>6 DEF Attach
    <2>2. CASE Goto(j, "reattached") /\ UNCHANGED site
      <3>1. job'[j].pc = "reattached"
        BY <2>2, GoesTo, IsDone
      <3>2. RouteOK' /\ SnipOK' /\ RepairOK'
        BY <1>m, <2>1, <3>1, Quietly DEF At, caddy
      <3>3. SlotOK'
        BY <3>1 DEF SlotOK
      <3>4. astray = {} /\ site # NoSite => site.cert
        BY <2>1 DEF Deep, CertOK, Present, At
      <3>5. CertOK'
        BY <1>m, <2>2, <3>4 DEF CertOK, Straight, Present
      <3> QED BY <3>2, <3>3, <3>5 DEF Deep
    <2>3. CASE Stray("cut")
      BY <2>3 DEF Stray
    <2>4. CASE End(j) /\ UNCHANGED slot
      BY <1>m, <2>1, <2>4, GoesTo, IsDone, CalmWork DEF At, Special, caddy
    <2> QED BY <1>6, <2>2, <2>3, <2>4 DEF Attach
  <1>7. CASE Finish(j)
    BY <1>7, <1>m, GoesTo, IsDone, CalmWork DEF Finish, At, Special, caddy
  <1>8. CASE Inspect(j)
    <2>1. At(j, "inspect") /\ UNCHANGED <<caddy, slot>> /\ job'[j].pc = "look"
      BY <1>8, GoesTo DEF Inspect
    <2> QED BY <1>m, <2>1, Quietly DEF At, caddy, Deep
  <1> QED BY <1>1, <1>2, <1>3, <1>4, <1>5, <1>6, <1>7, <1>8

\* The job that deploys: nobody else does, and its snippet has no block of a revoked site.
LEMMA DeployDeep ==
    ASSUME Base, Deep, NEW j \in Jobs, StepOK(j), Deploy(j)
    PROVE  Deep'
  <1> SUFFICES ASSUME astray' = {} PROVE Deep'
    BY Lost
  <1>p. At(j, "deploy") /\ UNCHANGED <<slot, astray>>
    BY DEF Deploy
  <1>m. Mild /\ Moved(j) /\ Straight
    BY <1>p, MildStep DEF StepOK, JobStep, RestStep, Straight, At
  <1>j. /\ job'[j].pc \in {"rearm", "clean", "idle"}
        /\ job'[j].pc = "clean" => job[j].kind = "pass" /\ route' = None /\ snip' = job[j].up /\ site' = site
        /\ route' \in {route, None} /\ snip' \in {snip, job[j].up}
    <2>1. job[j].kind \in {"flow", "pass", "remove", "switch"}
      BY <1>p, KindAt DEF At
    <2> QED BY <2>1, GoesTo, IsDone DEF Deploy, Cut
  <1>o. \A k \in Jobs \ {j} : job[k].pc # "deploy"
    <2>1. \A k \in Jobs : job[k].pc = "deploy" => lock = k
      BY Reads DEF JobOK
    <2> QED BY <1>p, <2>1 DEF At
  <1>1. RepairOK' /\ CertOK' /\ SlotOK'
    BY <1>p, <1>m, <1>j, Quietly DEF At
  <1>2. RouteOK'
    <2>1. CASE job'[j].pc = "clean"
      BY <1>j, <2>1 DEF RouteOK
    <2>2. CASE job'[j].pc # "clean"
      BY <1>p, <1>m, <1>j, <2>2, Quietly DEF At
    <2> QED BY <2>1, <2>2
  <1>3. SnipOK'
    <2>1. astray = {} /\ SnipOK
      BY <1>m DEF Straight, Deep
    <2>2. \A k \in Jobs : job'[k].pc # "deploy"
      BY <1>m, <1>j, <1>o DEF Moved
    <2>3. ASSUME site'.st \in Gone \/ (\E k \in Jobs : Cleaned(k)' /\ job'[k].ssh)
          PROVE  snip' = None
      <3>1. CASE site'.st \in Gone
        BY <1>m, <1>p, <1>j, <2>1, <3>1 DEF Mild, SnipOK
      <3>2. CASE \E k \in Jobs : Cleaned(k)' /\ job'[k].ssh
        <4>1. PICK k \in Jobs : job'[k].pc = "clean" /\ site'.st = "cleaning" /\ job'[k].ssh
          BY <3>2 DEF Cleaned, At
        <4>2. site.st = "cleaning"
          BY <1>m, <4>1 DEF Mild
        <4>3. CASE k = j
          BY <1>p, <1>j, <2>1, <4>1, <4>2, <4>3 DEF SnipOK
        <4>4. CASE k # j
          <5>1. Cleaned(k) /\ job[k].ssh
            BY <1>m, <4>1, <4>2, <4>4 DEF Moved, Cleaned, At
          <5> QED BY <1>p, <1>j, <2>1, <5>1 DEF SnipOK
        <4> QED BY <4>3, <4>4
      <3> QED BY <2>3, <3>1, <3>2
    <2> QED BY <2>2, <2>3 DEF SnipOK, At, Cleaned
  <1> QED BY <1>1, <1>2, <1>3 DEF Deep

LEMMA LockDeep ==
    ASSUME Base, Deep, NEW j \in Jobs, StepOK(j), Lock(j)
    PROVE  Deep'
  <1> SUFFICES ASSUME astray' = {} PROVE Deep'
    BY Lost
  <1>p. At(j, "lock") /\ UNCHANGED <<site, caddy, slot>>
    BY DEF Lock
  <1>m. Mild /\ Moved(j) /\ Straight
    BY <1>p, MildStep DEF StepOK, JobStep, RestStep, Straight, At
  <1>1. CASE ssh
    <2>1. job'[j].pc = "deploy" /\ job'[j].up = Rendered
      BY <1>1, Fields DEF Lock
    <2> QED BY <1>p, <1>m, <2>1, Renders DEF At
  <1>2. CASE ~ssh
    <2>1. job[j].kind \in {"flow", "pass", "remove"}
      BY <1>p, KindAt DEF At
    <2>2. job'[j].pc \in {"begin", "rmroute", "idle"}
      BY <1>2, <2>1, GoesTo, IsDone DEF Lock
    <2> QED BY <1>p, <1>m, <2>2, CalmWork DEF At, Special, caddy
  <1> QED BY <1>1, <1>2

LEMMA MarkDeep ==
    ASSUME Base, Deep, NEW j \in Jobs, StepOK(j),
           Sweep(j) \/ Mark(j) \/ Park(j) \/ Claims(j) \/ Delete(j)
    PROVE  Deep'
  <1> SUFFICES ASSUME astray' = {} PROVE Deep'
    BY Lost
  <1>p. job[j].pc \in {"sweep", "mark", "park", "claims", "delete"}
    BY DEF Sweep, Mark, Park, Claims, Delete, At
  <1>m. Mild /\ Moved(j) /\ Straight
    BY <1>p, MildStep DEF StepOK, JobStep, RestStep, Straight
  <1>1. route' \in {route, None} /\ UNCHANGED <<snip, slot>>
    BY DEF Sweep, Mark, Park, Claims, Delete, caddy
  <1>2. job'[j].pc \in {"mark", "claims", "park", "idle", "claim", "releases", "confirm"}
    <2>1. Marked(j) => job'[j].pc \in {"claims", "idle"}
      BY GoesTo, IsDone DEF Marked
    <2>2. job' = [job EXCEPT ![j].pc = "mark", ![j].up = site.up] => job'[j].pc = "mark"
      BY Fields
    <2>3. job' = [job EXCEPT ![j].pc = "claim", ![j].up = IF job[j].ssh THEN None ELSE route]
            => job'[j].pc = "claim"
      BY Fields
    <2> QED BY <2>1, <2>2, <2>3, GoesTo DEF Sweep, Mark, Park, Claims, Delete
  <1> QED BY <1>p, <1>m, <1>1, <1>2, CalmWork DEF Special

\* A pass that claims is alone with the site: no other pass deploys or cleans.
LEMMA ClaimDeep ==
    ASSUME Base, Deep, NEW j \in Jobs, StepOK(j), Claim(j)
    PROVE  Deep'
  <1> SUFFICES ASSUME astray' = {} PROVE Deep'
    BY Lost
  <1>p. At(j, "claim") /\ UNCHANGED <<caddy, slot>>
    BY DEF Claim
  <1>m. Moved(j) /\ Straight /\ astray = {} /\ job[j].kind = "pass"
    BY <1>p, KindAt DEF StepOK, JobStep, RestStep, Straight, At
  <1>j. job'[j].pc \in {"lock", "delete", "confirm", "releases"}
    BY GoesTo DEF Claim
  <1>1. CASE site.st \notin Pending
    <2>1. Mild
      BY <1>1 DEF Claim, Mild
    <2> QED BY <1>p, <1>m, <1>j, <2>1, CalmWork DEF At, Special, caddy
  <1>2. CASE site.st \in Pending
    <2>1. /\ site'.st = "cleaning" /\ site # NoSite /\ site'.cert = site.cert
      <3>1. Present /\ SiteTyped /\ "cleaning" \in Statuses
        BY <1>2, Reads, Rows DEF Pending, Present
      <3> QED BY <1>2, <3>1, Restated DEF Claim, Present
    <2>2. \A k \in Jobs : job[k].pc # "clean" /\ ~(job[k].kind = "pass" /\ job[k].pc = "deploy")
      BY <1>p, <1>m, Alone DEF At
    <2>3. NotGone
      BY <2>1 DEF NotGone, Gone
    <2>4. RouteOK'
      BY <1>p, <1>m, <1>j, <2>1, <2>2, <2>3, RouteKept DEF Deep, RouteQuiet, At, caddy
    <2>5. SnipOK'
      BY <1>p, <1>m, <1>j, <2>1, <2>2, <2>3, SnipKept DEF Deep, SnipQuiet, At, caddy
    <2>6. RepairOK'
      BY <1>p, <1>m, <1>j, <2>3, RepairKept DEF Deep, RepairQuiet
    <2>7. CertOK'
      BY <1>p, <1>m, <1>j, <2>1, CertKept DEF Deep, CertQuiet
    <2>8. SlotOK'
      BY <2>1 DEF SlotOK
    <2> QED BY <2>4, <2>5, <2>6, <2>7, <2>8 DEF Deep
  <1> QED BY <1>1, <1>2

\* The last look at the routes: the pass goes on to clean only when there is none.
LEMMA ConfirmDeep ==
    ASSUME Base, Deep, NEW j \in Jobs, StepOK(j), Confirm(j)
    PROVE  Deep'
  <1> SUFFICES ASSUME astray' = {} PROVE Deep'
    BY Lost
  <1>p. At(j, "confirm") /\ UNCHANGED <<site, caddy, slot>>
    BY DEF Confirm
  <1>m. Mild /\ Moved(j) /\ Straight
    BY <1>p, MildStep DEF StepOK, JobStep, RestStep, Straight, At
  <1>1. CASE route # None
    <2>1. job'[j].pc = "releases"
      BY <1>1, GoesTo DEF Confirm
    <2> QED BY <1>p, <1>m, <2>1, CalmWork DEF At, Special, caddy
  <1>2. CASE route = None
    <2>1. job'[j].pc = "clean" /\ job'[j].ssh = job[j].ssh
      BY <1>2, GoesTo DEF Confirm
    <2>2. ~job[j].ssh
      BY <1>p, Reads DEF JobOK, At
    <2>3. RouteOK'
      BY <1>2, <1>p DEF RouteOK, caddy
    <2>4. RepairOK' /\ CertOK' /\ SlotOK'
      BY <1>p, <1>m, <2>1, Quietly DEF At
    <2>5. SnipOK'
      <3> SUFFICES ASSUME astray' = {} PROVE SnipOK'
        BY DEF SnipOK
      <3>1. astray = {} /\ SnipOK /\ site' = site /\ snip' = snip
        BY <1>p, <1>m DEF Straight, Deep, caddy
      <3>2. \A k \in Jobs : job'[k].pc = "deploy" \/ (job'[k].pc = "clean" /\ job'[k].ssh)
                              => k # j /\ job'[k] = job[k]
        BY <1>m, <2>1, <2>2 DEF Moved
      <3>3. ASSUME site'.st \in Gone \/ (\E k \in Jobs : Cleaned(k)' /\ job'[k].ssh)
            PROVE  snip' = None /\ \A k \in Jobs : At(k, "deploy")' => job'[k].up = None
        <4>1. site.st \in Gone \/ (\E k \in Jobs : Cleaned(k) /\ job[k].ssh)
          BY <3>1, <3>2, <3>3 DEF Cleaned, At
        <4> QED BY <3>1, <3>2, <4>1 DEF SnipOK, At
      <3>4. ASSUME NEW k \in Jobs, job'[k].kind = "pass", At(k, "deploy")', site'.st = "cleaning"
            PROVE  job'[k].up = None
        BY <3>1, <3>2, <3>4 DEF SnipOK, At
      <3> QED BY <3>3, <3>4 DEF SnipOK, Cleaned, At
    <2> QED BY <2>3, <2>4, <2>5 DEF Deep
  <1> QED BY <1>1, <1>2

LEMMA CleanDeep ==
    ASSUME Base, Deep, NEW j \in Jobs, StepOK(j), Clean(j)
    PROVE  Deep'
  <1> SUFFICES ASSUME astray' = {} PROVE Deep'
    BY Lost
  <1>p. At(j, "clean") /\ UNCHANGED <<caddy, slot>>
    BY DEF Clean
  <1>m. Moved(j) /\ Straight /\ astray = {} /\ job[j].kind = "pass"
    BY <1>p, KindAt DEF StepOK, JobStep, RestStep, Straight, At
  <1>j. job'[j].pc = "releases"
    BY GoesTo DEF Clean
  <1>1. CASE site.st # "cleaning"
    <2>1. Mild
      BY <1>1 DEF Clean, Mild
    <2> QED BY <1>p, <1>m, <1>j, <2>1, CalmWork DEF At, Special, caddy
  <1>2. CASE site.st = "cleaning"
    <2>1. site'.st = "releasing" /\ site # NoSite /\ site'.cert = site.cert
      <3>1. Present /\ SiteTyped /\ "releasing" \in Statuses
        BY <1>2, Reads, Rows DEF Present
      <3> QED BY <1>2, <3>1, Restated DEF Clean, Present
    <2>2. ssh = job[j].ssh
      BY <1>2 DEF Clean, StrayIf
    <2>3. Cleaned(j)
      BY <1>p, <1>2 DEF Cleaned
    <2>4. RouteOK'
      <3>1. ASSUME \A k \in Jobs : job'[k].pc \notin {"rearm", "repushed"} PROVE route = None
        <4>1. \A k \in Jobs : job[k].pc \notin {"rearm", "repushed"}
          BY <1>p, <1>m, <3>1 DEF Moved, At
        <4> QED BY <1>m, <2>3, <4>1 DEF Deep, RouteOK
      <3> QED BY <1>p, <3>1 DEF RouteOK, caddy
    <2>5. SnipOK'
      <3>1. snip = None /\ \A k \in Jobs : At(k, "deploy") => job[k].up = None
        <4>1. CASE job[j].ssh
          BY <1>m, <2>3, <4>1 DEF Deep, SnipOK
        <4>2. CASE ~job[j].ssh
          BY <2>2, <4>2 DEF Base, ModeOK
        <4> QED BY <4>1, <4>2
      <3>2. snip' = None /\ \A k \in Jobs : At(k, "deploy")' => job'[k].up = None
        BY <1>p, <1>m, <1>j, <3>1 DEF Moved, At, caddy
      <3> QED BY <3>2 DEF SnipOK
    <2>6. RepairOK'
      <3>1. \A k \in Jobs : job'[k].kind = "pass" => job'[k].pc \notin {"repush", "repushed"}
        BY <1>m, <1>j, Alone DEF Moved
      <3> QED BY <3>1 DEF RepairOK
    <2>7. CertOK'
      BY <1>p, <1>m, <1>j, <2>1, CertKept DEF Deep, CertQuiet
    <2>8. SlotOK'
      BY <2>1 DEF SlotOK
    <2> QED BY <2>4, <2>5, <2>6, <2>7, <2>8 DEF Deep
  <1> QED BY <1>1, <1>2

\* The certificate of the row that is released is read with it.
LEMMA ReleasesDeep ==
    ASSUME Base, Deep, NEW j \in Jobs, StepOK(j), Releases(j)
    PROVE  Deep'
  <1> SUFFICES ASSUME astray' = {} PROVE Deep'
    BY Lost
  <1>p. At(j, "releases") /\ UNCHANGED <<caddy, slot>>
    BY DEF Releases
  <1>m. Moved(j) /\ Straight /\ astray = {} /\ job[j].kind = "pass"
    BY <1>p, KindAt DEF StepOK, JobStep, RestStep, Straight, At
  <1>1. CASE site.st # "releasing"
    <2>1. Mild /\ job'[j].pc \in {"reprobe", "reconcile"}
      BY <1>1, GoesTo DEF Releases, Mild
    <2> QED BY <1>p, <1>m, <2>1, CalmWork DEF At, Special, caddy
  <1>2. CASE site.st = "releasing"
    <2>1. site'.st = "claimed" /\ site # NoSite /\ site'.cert = site.cert
      <3>1. Present /\ SiteTyped /\ "claimed" \in Statuses
        BY <1>2, Reads, Rows DEF Present
      <3> QED BY <1>2, <3>1, Restated DEF Releases, Present
    <2>2. job'[j].pc = "detach" /\ job'[j].cert = site.cert
      BY <1>2, Fields DEF Releases
    <2>3. NotGone
      BY <1>2 DEF NotGone, Gone
    <2>4. RouteOK'
      BY <1>p, <1>m, <2>1, <2>2, <2>3, RouteKept DEF Deep, RouteQuiet, At, caddy
    <2>5. SnipOK'
      BY <1>p, <1>m, <2>1, <2>2, <2>3, SnipKept DEF Deep, SnipQuiet, At, caddy
    <2>6. RepairOK'
      BY <1>m, <2>2, <2>3, RepairKept DEF Deep, RepairQuiet
    <2>7. CertOK'
      BY <1>p, <1>m, <2>1, <2>2, CertKept DEF Deep, CertQuiet
    <2>8. SlotOK'
      <3>1. ASSUME NEW k \in Jobs, Freed(k)' PROVE ~slot'
        <4>1. k = j
          BY <1>m, <3>1, Alone DEF Freed, At, Moved
        <4>2. ~site.cert
          BY <2>2, <3>1, <4>1 DEF Freed, At
        <4> QED BY <1>p, <1>m, <2>1, <4>2 DEF Deep, CertOK, Present
      <3> QED BY <2>1, <3>1 DEF SlotOK
    <2> QED BY <2>4, <2>5, <2>6, <2>7, <2>8 DEF Deep
  <1> QED BY <1>1, <1>2

LEMMA DetachDeep ==
    ASSUME Base, Deep, NEW j \in Jobs, StepOK(j), Detach(j)
    PROVE  Deep'
  <1> SUFFICES ASSUME astray' = {} PROVE Deep'
    BY Lost
  <1>p. At(j, "detach") /\ UNCHANGED <<site, caddy>>
    BY DEF Detach
  <1>m. Mild /\ Moved(j) /\ Straight /\ astray = {}
    BY <1>p, MildStep DEF StepOK, JobStep, RestStep, Straight, At
  <1>1. /\ slot' => slot
        /\ \/ job'[j].pc = "released" /\ (~slot' \/ (~job[j].cert /\ slot' = slot))
           \/ job'[j].pc = "kept"
    BY GoesTo DEF Detach, DetachCert
  <1>2. RouteOK' /\ SnipOK' /\ RepairOK' /\ CertOK'
    BY <1>p, <1>m, <1>1, Quietly DEF At, caddy
  <1>3. SlotOK'
    <2> SUFFICES ASSUME \A k \in Jobs : job'[k].pc # "reattached",
                        site.st = "revoked" \/ (site.st = "claimed" /\ \E k \in Jobs : Freed(k)'), slot'
                 PROVE  FALSE
      BY <1>p DEF SlotOK
    <2>1. slot /\ \A k \in Jobs : job[k].pc # "reattached"
      BY <1>p, <1>m, <1>1 DEF Moved, At
    <2>2. ~(site.st = "claimed" /\ \E k \in Jobs : Freed(k)) /\ site.st # "revoked"
      BY <1>m, <2>1 DEF Deep, SlotOK
    <2>3. PICK k \in Jobs : Freed(k)'
      BY <2>2
    <2>4. Freed(k)
      <3>1. CASE k = j
        BY <1>p, <1>1, <2>3, <3>1 DEF Freed, At
      <3>2. CASE k # j
        BY <1>m, <2>3, <3>2 DEF Freed, At, Moved
      <3> QED BY <3>1, <3>2
    <2> QED BY <2>2, <2>4
  <1> QED BY <1>2, <1>3 DEF Deep

LEMMA ReleasedDeep ==
    ASSUME Base, Deep, NEW j \in Jobs, StepOK(j), Released(j)
    PROVE  Deep'
  <1> SUFFICES ASSUME astray' = {} PROVE Deep'
    BY Lost
  <1>p. job[j].pc \in {"released", "kept"} /\ UNCHANGED <<caddy, slot>>
    BY DEF Released, At
  <1>m. Moved(j) /\ Straight /\ astray = {}
    BY <1>p DEF StepOK, JobStep, RestStep, Straight
  <1>j. job'[j].pc \in {"reprobe", "reconcile"}
    BY GoesTo DEF Released
  <1>1. CASE site.st # "claimed"
    <2>1. Mild
      BY <1>1 DEF Released, Mild
    <2> QED BY <1>p, <1>m, <1>j, <2>1, CalmWork DEF Special, caddy
  <1>2. CASE site.st = "claimed"
    <2>1. /\ site'.st = IF At(j, "released") THEN "revoked" ELSE "releasing"
          /\ site # NoSite /\ site'.cert = site.cert
      <3>1. Present /\ SiteTyped /\ {"revoked", "releasing"} \subseteq Statuses
        BY <1>2, Reads, Rows DEF Present
      <3>2. site' = [site EXCEPT !.st = IF At(j, "released") THEN "revoked" ELSE "releasing"]
        BY <1>2 DEF Released, At
      <3> QED BY <3>1, <3>2, Restated DEF Present
    <2>2. NotGone
      BY <1>2 DEF NotGone, Gone
    <2>3. RouteOK'
      BY <1>p, <1>m, <1>j, <2>1, <2>2, RouteKept DEF Deep, RouteQuiet, caddy
    <2>4. SnipOK'
      BY <1>p, <1>m, <1>j, <2>1, <2>2, SnipKept DEF Deep, SnipQuiet, caddy
    <2>5. RepairOK'
      BY <1>m, <1>j, <2>2, RepairKept DEF Deep, RepairQuiet
    <2>6. CertOK'
      BY <1>p, <1>m, <1>j, <2>1, CertKept DEF Deep, CertQuiet
    <2>7. SlotOK'
      <3>1. CASE At(j, "released")
        <4>1. Freed(j)
          BY <3>1 DEF Freed
        <4>2. ASSUME \A k \in Jobs : job'[k].pc # "reattached" PROVE ~slot
          <5>1. \A k \in Jobs : job[k].pc # "reattached"
            BY <1>p, <1>m, <4>2 DEF Moved
          <5> QED BY <1>2, <1>m, <4>1, <5>1 DEF Deep, SlotOK
        <4> QED BY <1>p, <4>2 DEF SlotOK
      <3>2. CASE ~At(j, "released")
        BY <2>1, <3>2 DEF SlotOK
      <3> QED BY <3>1, <3>2
    <2> QED BY <2>3, <2>4, <2>5, <2>6, <2>7 DEF Deep
  <1> QED BY <1>1, <1>2

LEMMA ReprobeDeep ==
    ASSUME Base, Deep, NEW j \in Jobs, StepOK(j), Reprobe(j) \/ Reprobed(j)
    PROVE  Deep'
  <1> SUFFICES ASSUME astray' = {} PROVE Deep'
    BY Lost
  <1>p. job[j].pc \in {"reprobe", "reprobed"} /\ UNCHANGED <<caddy, slot>>
    BY DEF Reprobe, Reprobed, At
  <1>m. Mild /\ Moved(j) /\ Straight
    BY <1>p, MildStep DEF StepOK, JobStep, RestStep, Straight
  <1>j. job'[j].pc \in {"reprobed", "idle"}
    BY GoesTo, IsDone DEF Reprobe, Reprobed
  <1> QED BY <1>p, <1>m, <1>j, CalmWork DEF Special, caddy

\* A pass repairs while nobody cleans, and only a site that is in no revocation.
LEMMA RepairDeep ==
    ASSUME Base, Deep, NEW j \in Jobs, StepOK(j), Reconcile(j) \/ Repush(j) \/ Repushed(j) \/ Throws(j)
    PROVE  Deep'
  <1> SUFFICES ASSUME astray' = {} PROVE Deep'
    BY Lost
  <1>m. Moved(j) /\ Straight /\ astray = {}
    BY DEF StepOK, JobStep, RestStep, Straight
  <1>r. Reconciled(j) => job'[j].pc \in {"reprobe", "idle"}
    BY GoesTo, IsDone DEF Reconciled
  <1>1. CASE Reconcile(j)
    <2>1. At(j, "reconcile") /\ UNCHANGED <<site, caddy, slot>>
      BY <1>1 DEF Reconcile
    <2>2. Mild
      BY <2>1 DEF Mild
    <2>3. CASE ~Missing(j)
      BY <1>1, <1>m, <1>r, <2>1, <2>2, <2>3, CalmWork DEF Reconcile, At, Special, caddy
    <2>4. CASE Missing(j)
      <3>1. job'[j].pc = "repush"
        BY <1>1, <2>4, Fields DEF Reconcile
      <3>2. site'.st \notin Gone \cup {"cleaning"}
        BY <2>1, <2>4 DEF Missing, Repaired, RouteStatuses, InFlight, Gone
      <3> QED BY <1>m, <2>1, <2>2, <3>1, <3>2, Open
    <2> QED BY <2>3, <2>4
  <1>2. CASE Repush(j)
    <2>1. At(j, "repush") /\ UNCHANGED <<site, snip, slot>>
      BY <1>2 DEF Repush
    <2>2. CASE Goto(j, "repushed")
      BY <1>m, <2>1, <2>2, GoesTo, Served DEF At
    <2>3. CASE Stray("cut")
      BY <2>3 DEF Stray
    <2>4. CASE End(j) /\ UNCHANGED route
      <3>1. Mild
        BY <2>1 DEF Mild
      <3> QED BY <1>m, <2>1, <2>4, <3>1, IsDone, CalmWork DEF At, Special
    <2> QED BY <1>2, <2>2, <2>3, <2>4 DEF Repush
  <1>3. CASE Repushed(j)
    <2>1. At(j, "repushed") /\ UNCHANGED <<caddy, slot>>
      BY <1>3 DEF Repushed
    <2>2. Mild
      BY <2>1, MildStep DEF At
    <2>3. job'[j].pc \in {"conflicts", "reprobe", "idle"}
      BY <1>3, <1>r, GoesTo DEF Repushed
    <2>4. \/ ~Revoked /\ UNCHANGED site
          \/ Revoked /\ site' = [site EXCEPT !.st = "revoking"]
      BY <1>3 DEF Repushed
    <2> QED BY <1>m, <2>1, <2>2, <2>3, <2>4, Looked
  <1>4. CASE Throws(j)
    <2>1. UNCHANGED <<site, caddy, slot>> /\ job'[j].pc = "idle"
      BY <1>4, IsDone DEF Throws
    <2>2. Mild
      BY <2>1 DEF Mild
    <2>3. job[j].kind = "pass" \/ At(j, "reconcile")
      BY <1>4 DEF Throws
    <2>4. job[j].pc \notin {"rearm", "reattached"}
      BY <2>3, KindAt DEF At
    <2>5. CASE job[j].pc # "repushed"
      BY <1>m, <2>1, <2>2, <2>4, <2>5, CalmWork DEF Special, caddy
    <2>6. CASE job[j].pc = "repushed"
      <3>1. job[j].kind = "pass" /\ site.st \notin Gone
        BY <1>m, <2>3, <2>6 DEF At, Deep, RepairOK
      <3>2. \A k \in Jobs : job[k].pc # "clean"
        BY <1>m, <2>6, <3>1, Alone
      <3>3. RouteOK'
        BY <1>m, <2>1, <3>1, <3>2 DEF RouteOK, Cleaned, At, Moved
      <3>4. SnipOK'
        BY <1>m, <2>1, SnipKept DEF Deep, SnipQuiet, NotGone, caddy
      <3>5. RepairOK'
        BY <1>m, <2>1, RepairKept DEF Deep, RepairQuiet, NotGone
      <3>6. CertOK'
        BY <1>m, <2>1, CertKept DEF Deep, CertQuiet
      <3>7. SlotOK'
        BY <1>m, <2>1, <2>6, SlotKept DEF Deep, SlotQuiet
      <3> QED BY <3>3, <3>4, <3>5, <3>6, <3>7 DEF Deep
    <2> QED BY <2>5, <2>6
  <1> QED BY <1>1, <1>2, <1>3, <1>4

LEMMA RemovalDeep ==
    ASSUME Base, Deep, NEW j \in Jobs, StepOK(j), Remove(j)
    PROVE  Deep'
  <1> SUFFICES ASSUME astray' = {} PROVE Deep'
    BY Lost
  <1>p. job[j].pc \in {"rmslot", "rmroute", "rmrow"}
    BY DEF Remove, RemoveSlot, RemoveRoute, RemoveRow, At
  <1>m. Mild /\ Moved(j) /\ Straight
    BY <1>p, MildStep DEF StepOK, JobStep, RestStep, Straight
  <1>1. route' \in {route, None} /\ snip' = snip /\ (slot' => slot)
    BY DEF Remove, RemoveSlot, RemoveRoute, RemoveRow, DetachCert, caddy
  <1>2. job'[j].pc \in {"rmrow", "rmroute", "lock", "idle"}
    <2>1. RemoveSlot(j) => job'[j].pc \in {"rmrow", "rmroute"}
      BY Fields DEF RemoveSlot, DetachCert
    <2>2. RemoveRoute(j) => job'[j].pc = "rmrow"
      BY Fields DEF RemoveRoute
    <2>3. RemoveRow(j) => job'[j].pc \in {"lock", "idle"}
      BY GoesTo, IsDone DEF RemoveRow
    <2> QED BY <2>1, <2>2, <2>3 DEF Remove
  <1> QED BY <1>p, <1>m, <1>1, <1>2, CalmWork DEF Special

LEMMA SwitchDeep ==
    ASSUME Base, Deep, NEW j \in Jobs, StepOK(j), Switch(j)
    PROVE  Deep'
  <1> SUFFICES ASSUME astray' = {} PROVE Deep'
    BY Lost
  <1>p. job[j].pc \in {"render", "empty", "leave"} /\ UNCHANGED <<site, slot>>
    BY DEF Switch, Render, Empty, Leave, At, world
  <1>m. Mild /\ Moved(j) /\ Straight
    BY <1>p, MildStep DEF StepOK, JobStep, RestStep, Straight
  <1>1. CASE Render(j)
    <2>1. job'[j].pc = "deploy" /\ job'[j].up = Rendered
      BY <1>1, Fields DEF Render
    <2> QED BY <1>1, <1>m, <2>1, Renders DEF Render, At
  <1>2. CASE Empty(j)
    <2>1. job'[j].pc \in {"leave", "idle"} /\ route' \in {route, None} /\ snip' \in {snip, None}
      BY <1>2, GoesTo, IsDone DEF Empty, Cut
    <2> QED BY <1>p, <1>m, <2>1, CalmWork DEF Special
  <1>3. CASE Leave(j)
    BY <1>3, <1>p, <1>m, GoesTo, CalmWork DEF Leave, Special, caddy
  <1> QED BY <1>1, <1>2, <1>3 DEF Switch

LEMMA StartDeep ==
    ASSUME Base, Deep, NEW j \in Jobs, StartPass(j) \/ StartRequest(j)
    PROVE  Deep'
  <1>1. /\ Moved(j) /\ UNCHANGED <<site, caddy, slot>> /\ job[j].pc = "idle" /\ astray \subseteq astray'
        /\ job'[j].pc \in {"sweep", "validate", "verify", "rmslot", "empty", "render"}
    BY Starts
  <1>2. Mild /\ Straight
    BY <1>1 DEF Mild, Straight
  <1> QED BY <1>1, <1>2, CalmWork DEF Special, caddy

LEMMA CrashDeep == ASSUME Base, Deep, Crash PROVE Deep'
  <1> SUFFICES ASSUME astray' = {} PROVE Deep'
    BY Lost
  <1>1. /\ \A j \in Jobs : job'[j].pc = "idle" /\ job'[j].kind = "none"
        /\ UNCHANGED <<caddy, slot>>
        /\ site' = site \/ (site.st = "claimed" /\ site'.st = "releasing")
        /\ site' # NoSite => site # NoSite /\ site'.cert = site.cert
    BY Crashed
  <1>2. astray = {} /\ \A j \in Jobs : job[j].pc \notin {"rearm", "reattached", "repushed"}
    BY DEF Crash, StrayIf
  <1>3. site'.st \in Gone => site.st \in Gone
    BY <1>1 DEF Gone
  <1>4. RouteOK'
    BY <1>1, <1>2, <1>3 DEF Deep, RouteOK, Cleaned, At, caddy
  <1>5. SnipOK'
    BY <1>1, <1>2, <1>3 DEF Deep, SnipOK, Cleaned, At, caddy
  <1>6. RepairOK'
    BY <1>1 DEF RepairOK
  <1>7. CertOK'
    BY <1>1, <1>2 DEF Deep, CertOK, Present
  <1>8. SlotOK'
    BY <1>1, <1>2 DEF Deep, SlotOK, Freed, At
  <1> QED BY <1>4, <1>5, <1>6, <1>7, <1>8 DEF Deep

LEMMA OutsideDeep == ASSUME Base, Deep, AccessChanges \/ Reload PROVE Deep'
  <1>1. UNCHANGED <<site, snip, slot, job, astray>> /\ route' \in {route, None}
    BY OutsideSteps
  <1> QED BY <1>1 DEF Deep, RouteOK, SnipOK, RepairOK, CertOK, SlotOK, Cleaned, Freed, At, Present

LEMMA WorkDeep == ASSUME Base, Deep, NEW j \in Jobs, Work(j) PROVE Deep'
  <1>1. StepOK(j)
    BY WorkSteps
  <1>2. CASE Flow(j)
    <2>1. CASE Validate(j) \/ Store(j) \/ Reset(j) \/ Begin(j) \/ Check(j) \/ Announce(j) \/ Push(j)
      BY <1>1, <2>1, PublishDeep
    <2>2. CASE Rearm(j) \/ Conflicts(j) \/ Issue(j) \/ Poll(j) \/ Inspect(j) \/ Look(j) \/ Attach(j) \/ Finish(j)
      BY <1>1, <2>2, InspectDeep
    <2>3. CASE Lock(j) \/ Deploy(j)
      BY <1>1, <2>3, LockDeep, DeployDeep
    <2> QED BY <1>2, <2>1, <2>2, <2>3 DEF Flow
  <1>3. CASE Pass(j)
    <2>1. CASE Sweep(j) \/ Mark(j) \/ Park(j) \/ Claims(j) \/ Delete(j)
      BY <1>1, <2>1, MarkDeep
    <2>2. CASE Claim(j) \/ Confirm(j) \/ Clean(j)
      BY <1>1, <2>2, ClaimDeep, ConfirmDeep, CleanDeep
    <2>3. CASE Releases(j) \/ Detach(j) \/ Released(j) \/ Reprobe(j) \/ Reprobed(j)
      BY <1>1, <2>3, ReleasesDeep, DetachDeep, ReleasedDeep, ReprobeDeep
    <2>4. CASE Reconcile(j) \/ Repush(j) \/ Repushed(j) \/ Throws(j)
      BY <1>1, <2>4, RepairDeep
    <2> QED BY <1>3, <2>1, <2>2, <2>3, <2>4 DEF Pass
  <1> QED BY <1>1, <1>2, <1>3, RemovalDeep, SwitchDeep DEF Work

LEMMA DeepNext == Base /\ Deep /\ [Next]_vars => Deep'
  <1> SUFFICES ASSUME Base, Deep, [Next]_vars PROVE Deep'
    OBVIOUS
  <1>1. CASE UNCHANGED vars
    BY <1>1 DEF vars, caddy, Deep, RouteOK, SnipOK, RepairOK, CertOK, SlotOK, Cleaned, Freed, At, Present
  <1> QED BY <1>1, StartDeep, WorkDeep, CrashDeep, OutsideDeep DEF Next

LEMMA DeepInit == Init => Deep
  <1> SUFFICES ASSUME Init PROVE Deep
    OBVIOUS
  <1>1. site.st = "pushing" /\ route = None /\ snip = None /\ slot = FALSE
    BY DEF Init
  <1>2. PICK j \in Jobs : job = [k \in Jobs |->
            IF k = j THEN [NoJob EXCEPT !.kind = "flow", !.pc = "begin"] ELSE NoJob]
    BY DEF Init
  <1>3. \A k \in Jobs : job[k].pc \in {"begin", "idle"}
    BY <1>2 DEF NoJob
  <1> QED BY <1>1, <1>3 DEF Deep, RouteOK, SnipOK, RepairOK, CertOK, SlotOK, Cleaned, Gone, At

\* websites.ts:69 and 460-640: a site whose revocation is over has no route, no block in the
\* snippet and no certificate on the profile, but for one just put up that is checked next, as
\* long as astray is empty: no save wrote an older cert_name back, no job was cut between a
\* push or an attach and its check, no mode changed under a pass, no two passes overlapped.
THEOREM RevokedIsFree == Spec => []RevokedHoldsNothing
  <1>1. Deep => RevokedHoldsNothing
    BY DEF Deep, RouteOK, SnipOK, SlotOK, RevokedHoldsNothing, Gone
  <1>2. Base /\ Deep /\ [Next]_vars => Deep'
    BY DeepNext
  <1>3. Spec => []Deep
    BY <1>2, DeepInit, BaseHolds, PTL DEF Spec
  <1> QED BY <1>1, <1>3, PTL
=============================================================================
