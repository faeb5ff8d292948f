----------------------------- MODULE SitePublish -----------------------------
(***************************************************************************)
(* A published site: its row, its route on the Caddy host and its slot in  *)
(* the firewall's inspection profile.                                      *)
(*                                                                         *)
(* A publish flow pushes the route and attaches the certificate, a         *)
(* maintenance pass takes down a site whose owner may no longer use the    *)
(* upstream and repairs routes that a reload dropped, and a site is saved, *)
(* retried and removed meanwhile.  All of them run in one process and      *)
(* interleave wherever one waits for the database, Caddy or the firewall;  *)
(* nothing but the snippet lock keeps two of them apart.                   *)
(*                                                                         *)
(* One site of one owner, who is no administrator, with an inspection      *)
(* profile and a certificate of its own; one Caddy server, in API mode     *)
(* (the route is pushed to the running configuration) or in file mode (a   *)
(* snippet is rendered from the rows and Caddy reloaded).                  *)
(***************************************************************************)
EXTENDS Integers, FiniteSets

CONSTANTS
    Upstreams,     \* addresses a site can point at
    Jobs,          \* flows, passes and requests that run at a time
    None,
    MaxRequests,   \* bound: saves, retries, removals and mode switches
    MaxEvents      \* bound: changes of access, reloads, failures and crashes

ASSUME SitePublishAssumption ==
    /\ None \notin Upstreams \cup Jobs
    /\ MaxRequests \in Nat /\ MaxEvents \in Nat

VARIABLES
    allow,      \* upstreams the owner may use
    ssh,        \* the server is in file mode
    site,       \* the caddy_sites row
    route,      \* what the site's API route dials
    snip,       \* what the site's block in the snippet dials
    slot,       \* the certificate is on the inspection profile
    lock,       \* the job that holds the snippet lock
    job,        \* the jobs
    astray,     \* what has gone by the checks (history)
    requests, spent

caddy == <<route, snip>>
world == <<allow, ssh>>
bounds == <<requests, spent>>
vars == <<world, site, caddy, slot, lock, job, astray, bounds>>

----------------------------------------------------------------------------
(* The row. *)

\* A row in error because of a revocation is told from other errors by its detail.
Pending == {"revoking", "cleaning"}
Revocation == Pending \cup {"releasing", "claimed", "revoked"}
RouteStatuses == {"live", "warning", "blocked"}
InFlight == {"pushing", "issuing", "inspecting"}
Statuses == RouteStatuses \cup InFlight \cup Revocation \cup {"conflict", "error"}

NoSite == [st |-> "none", up |-> None, cert |-> FALSE]
Present == site # NoSite
Revoked == site.st \in Revocation

\* Mutant: a status of a flow or a probe overwrites a revocation.
SetStatusAnyway(s) == site' = IF Present THEN [site EXCEPT !.st = s] ELSE site

\* Mutant: the status of a removed row puts it back.
SetStatusUpserts(s) == site' = IF Revoked THEN site ELSE [site EXCEPT !.st = s]

SetStatus(s) == site' = IF Present /\ ~Revoked THEN [site EXCEPT !.st = s] ELSE site

\* What the snippet says of the site: rows in error are left out.
Rendered == IF Present /\ site.st \notin Revocation \cup {"error"} THEN site.up ELSE None

----------------------------------------------------------------------------
(* Jobs. *)

\* up: the upstream read, or the one rendered; cert: the row read had one;
\* ssh: the mode read.
NoJob == [kind |-> "none", pc |-> "idle", up |-> None, cert |-> FALSE, ssh |-> FALSE]
Kinds == {"none", "flow", "pass", "remove", "switch"}

At(j, pc) == job[j].pc = pc
Goto(j, pc) == job' = [job EXCEPT ![j].pc = pc]
End(j) == job' = [job EXCEPT ![j] = NoJob]
Idle(j) == job[j] = NoJob

Event == spent < MaxEvents /\ spent' = spent + 1
NoEvent == UNCHANGED spent
Request == requests < MaxRequests /\ requests' = requests + 1

Stray(what) == astray' = astray \cup {what}
StrayIf(what, bad) == astray' = IF bad THEN astray \cup {what} ELSE astray

Start(j, kind, pc, up, cert) ==
    /\ Idle(j)
    /\ job' = [job EXCEPT ![j] = [kind |-> kind, pc |-> pc, up |-> up, cert |-> cert, ssh |-> ssh]]
    /\ UNCHANGED <<world, site, caddy, slot, lock, spent>>

\* A failed call to the database or to Caddy ends a pass, and a mode switch's repair.
Throws(j) ==
    /\ job[j].kind = "pass" \/ At(j, "reconcile")
    /\ ~At(j, "deploy")
    /\ End(j) /\ lock' = (IF lock = j THEN None ELSE lock) /\ Event
    /\ UNCHANGED <<site, caddy, slot, astray>>

----------------------------------------------------------------------------
(* Saving, retrying and publishing. *)

\* A save and a retry read the row, check the upstream, and write the row later;
\* whether it is claimed is told from the row read.
StartSave(j, u) ==
    /\ Request /\ Present /\ site.st # "claimed"
    /\ Start(j, "flow", "validate", u, site.cert) /\ UNCHANGED astray

StartRetry(j) ==
    /\ Request /\ Present /\ site.st # "claimed"
    /\ Start(j, "flow", "verify", site.up, FALSE) /\ UNCHANGED astray

\* An administrator's save of the site is not checked, a retry is.
Validate(j) ==
    /\ \/ At(j, "validate") /\ Goto(j, "store")
       \/ At(j, "verify") /\ job[j].up \in allow /\ Goto(j, "reset")
       \/ (At(j, "validate") \/ At(j, "verify")) /\ End(j)
    /\ UNCHANGED <<site, caddy, slot, lock, astray>> /\ NoEvent

Store(j) ==
    /\ At(j, "store")
    /\ site' = IF Present THEN [site EXCEPT !.up = job[j].up, !.cert = job[j].cert] ELSE site
    /\ StrayIf("cert", Present /\ site.cert # job[j].cert)
    /\ Goto(j, "reset")
    /\ UNCHANGED <<caddy, slot, lock>> /\ NoEvent

Reset(j) ==
    /\ At(j, "reset")
    /\ site' = IF Present THEN [site EXCEPT !.st = "pushing"] ELSE site
    /\ Goto(j, "begin")
    /\ UNCHANGED <<caddy, slot, lock, astray>> /\ NoEvent

Begin(j) ==
    /\ At(j, "begin")
    /\ IF Present THEN job' = [job EXCEPT ![j].pc = "check", ![j].up = site.up] ELSE End(j)
    /\ UNCHANGED <<site, caddy, slot, lock, astray>> /\ NoEvent

\* mayPublish, before the status and again right before the push.
MayPublish(j, next) ==
    \/ /\ ~Present \/ Revoked
       /\ End(j) /\ NoEvent /\ UNCHANGED site
    \/ /\ Present /\ ~Revoked /\ site.up \in allow
       /\ Goto(j, next) /\ NoEvent /\ UNCHANGED site
    \/ /\ Present /\ ~Revoked /\ site.up \notin allow
       /\ job' = [job EXCEPT ![j].pc = "mark", ![j].up = site.up]
       /\ NoEvent /\ UNCHANGED site
    \/ /\ Present /\ ~Revoked /\ SetStatus("error")   \* the owner's guests cannot be read
       /\ End(j) /\ Event

Check(j) ==
    /\ \/ At(j, "check") /\ MayPublish(j, "announce")
       \/ At(j, "recheck") /\ MayPublish(j, IF job[j].ssh THEN "lock" ELSE "push")
    /\ UNCHANGED <<caddy, slot, lock, astray>>

Announce(j) ==
    /\ At(j, "announce") /\ SetStatus("pushing")
    /\ job' = [job EXCEPT ![j].pc = "recheck", ![j].ssh = ssh]
    /\ UNCHANGED <<caddy, slot, lock, astray>> /\ NoEvent

\* The upstream that is pushed is the one the flow read first.
Push(j) ==
    /\ At(j, "push")
    /\ \/ route' = job[j].up /\ Goto(j, "rearm") /\ NoEvent /\ UNCHANGED <<site, astray>>
       \/ route' = job[j].up /\ SetStatus("error") /\ End(j) /\ Event /\ Stray("cut")
       \/ /\ \E s \in {"error", "blocked"} : SetStatus(s)
          /\ End(j) /\ Event /\ UNCHANGED <<route, astray>>
    /\ UNCHANGED <<snip, slot, lock>>

\* Mutant: the flow goes on without looking for a revocation.
RearmNever(j, next) == UNCHANGED site /\ Goto(j, next)

\* A revocation that landed while a route or a certificate was put up starts over.
RearmElse(j, next) ==
    IF Revoked THEN site' = [site EXCEPT !.st = "revoking"] /\ End(j)
    ELSE UNCHANGED site /\ Goto(j, next)

Rearm(j) ==
    /\ job[j].kind = "flow"
    /\ \/ At(j, "rearm") /\ RearmElse(j, IF job[j].ssh THEN "issue" ELSE "conflicts")
       \/ At(j, "reattached") /\ RearmElse(j, "finish")
    /\ UNCHANGED <<caddy, slot, lock, astray>> /\ NoEvent

\* The end of a repair: a pass goes on to the probes, a mode switch is done.
Reconciled(j) ==
    IF job[j].kind = "pass" THEN Goto(j, "reprobe") /\ UNCHANGED lock
    ELSE End(j) /\ lock' = None

\* Another route that shadows the site's is for the operator to remove.
Conflicts(j) ==
    /\ At(j, "conflicts")
    /\ \/ /\ UNCHANGED site
          /\ IF job[j].kind = "flow" THEN Goto(j, "issue") /\ UNCHANGED lock ELSE Reconciled(j)
       \/ /\ SetStatus("conflict")
          /\ IF job[j].kind = "flow" THEN End(j) /\ UNCHANGED lock ELSE Reconciled(j)
    /\ UNCHANGED <<caddy, slot, astray>> /\ NoEvent

Issue(j) ==
    /\ At(j, "issue") /\ SetStatus("issuing") /\ Goto(j, "poll")
    /\ UNCHANGED <<caddy, slot, lock, astray>> /\ NoEvent

Poll(j) ==
    /\ At(j, "poll")
    /\ \/ site' = (IF Present THEN [site EXCEPT !.cert = TRUE] ELSE site) /\ Goto(j, "inspect")
       \/ SetStatus("warning") /\ End(j)
    /\ UNCHANGED <<caddy, slot, lock, astray>> /\ NoEvent

Inspect(j) ==
    /\ At(j, "inspect") /\ SetStatus("inspecting") /\ Goto(j, "look")
    /\ UNCHANGED <<caddy, slot, lock, astray>> /\ NoEvent

Look(j) ==
    /\ At(j, "look")
    /\ IF Present THEN RearmElse(j, "attach") ELSE End(j) /\ UNCHANGED site
    /\ UNCHANGED <<caddy, slot, lock, astray>> /\ NoEvent

Attach(j) ==
    /\ At(j, "attach")
    /\ \/ slot' = TRUE /\ Goto(j, "reattached") /\ UNCHANGED <<site, astray>> /\ NoEvent
       \/ slot' = TRUE /\ SetStatus("warning") /\ End(j) /\ Event /\ Stray("cut")
       \/ SetStatus("warning") /\ End(j) /\ Event /\ UNCHANGED <<slot, astray>>
       \/ SetStatus("blocked") /\ End(j) /\ ~slot /\ UNCHANGED <<slot, astray>> /\ NoEvent
    /\ UNCHANGED <<caddy, lock>>

Finish(j) ==
    /\ At(j, "finish")
    /\ \E s \in {"live", "warning"} : SetStatus(s)
    /\ End(j)
    /\ UNCHANGED <<caddy, slot, lock, astray>> /\ NoEvent

----------------------------------------------------------------------------
(* The snippet, rendered and deployed under the lock of the server. *)

Lock(j) ==
    /\ At(j, "lock") /\ lock = None
    /\ IF ssh THEN /\ lock' = j
                   /\ job' = [job EXCEPT ![j].pc = "deploy", ![j].up = Rendered]
       ELSE /\ UNCHANGED lock
            /\ CASE job[j].kind = "flow"   -> Goto(j, "begin")
                 [] job[j].kind = "remove" -> Goto(j, "rmroute")
                 [] OTHER                  -> End(j)
    /\ UNCHANGED <<site, caddy, slot, astray>> /\ NoEvent

\* A reload drops what was pushed to the running configuration.  A deploy that fails may
\* have put its snippet in place, and one cut at its deadline may have reloaded.
Cut(up) ==
    /\ snip' \in {snip, up}
    /\ route' = route \/ (snip' = up /\ route' = None)

Deploy(j) ==
    /\ At(j, "deploy") /\ lock' = None
    /\ \/ /\ snip' = job[j].up /\ route' = None /\ NoEvent /\ UNCHANGED site
          /\ CASE job[j].kind = "flow" -> Goto(j, "rearm")
               [] job[j].kind = "pass" -> Goto(j, "clean")
               [] OTHER                -> End(j)
       \/ /\ Event /\ Cut(job[j].up)
          /\ IF job[j].kind = "flow" THEN SetStatus("error") ELSE UNCHANGED site
          /\ End(j)
    /\ UNCHANGED <<slot, astray>>

----------------------------------------------------------------------------
(* The maintenance pass. *)

\* Passes are started by a timer that does not wait for the last one.
StartPass(j) ==
    /\ Start(j, "pass", "sweep", None, FALSE)
    /\ StrayIf("passes", \E k \in Jobs : job[k].kind = "pass")
    /\ UNCHANGED requests

\* Mutant: a site whose publish failed is not looked at.
DisallowedPublished == Present /\ ~Revoked /\ site.up \notin allow /\ site.st # "error"

\* Sites in error too: a publish can fail with its route installed.
Disallowed == Present /\ ~Revoked /\ site.up \notin allow

\* An upstream that cannot be decided on is left for a later pass.
Sweep(j) ==
    /\ At(j, "sweep")
    /\ IF Disallowed
       THEN \/ job' = [job EXCEPT ![j].pc = "mark", ![j].up = site.up] /\ NoEvent
            \/ Goto(j, "claims") /\ Event
       ELSE Goto(j, "claims") /\ NoEvent
    /\ UNCHANGED <<site, caddy, slot, lock, astray>>

\* Of a pass, and of a flow that found its site's upstream disallowed.
Marked(j) == IF job[j].kind = "pass" THEN Goto(j, "claims") ELSE End(j)

Mark(j) ==
    /\ At(j, "mark")
    /\ IF Present /\ ~Revoked /\ site.up = job[j].up /\ site.up \notin allow
       THEN Goto(j, "park") ELSE Marked(j)
    /\ UNCHANGED <<site, caddy, slot, lock, astray>> /\ NoEvent

Park(j) ==
    /\ At(j, "park") /\ Marked(j)
    /\ site' = IF Present /\ site.up = job[j].up THEN [site EXCEPT !.st = "revoking"] ELSE site
    /\ UNCHANGED <<caddy, slot, lock, astray>> /\ NoEvent

\* The rows to clean are read, in API mode with the routes on the server;
\* the mode is the one read when the pass began.
Claims(j) ==
    /\ At(j, "claims")
    /\ IF site.st \in Pending
       THEN job' = [job EXCEPT ![j].pc = "claim", ![j].up = IF job[j].ssh THEN None ELSE route]
       ELSE Goto(j, "releases")
    /\ UNCHANGED <<site, caddy, slot, lock, astray>> /\ NoEvent

\* A row that was saved meanwhile is not claimed.
Claim(j) ==
    /\ At(j, "claim")
    /\ IF site.st \in Pending
       THEN /\ site' = [site EXCEPT !.st = "cleaning"]
            /\ Goto(j, IF job[j].ssh THEN "lock" ELSE IF job[j].up # None THEN "delete" ELSE "confirm")
       ELSE UNCHANGED site /\ Goto(j, "releases")
    /\ UNCHANGED <<caddy, slot, lock, astray>> /\ NoEvent

\* Caddy's answer of a server error counts as a route that is gone.
Delete(j) ==
    /\ At(j, "delete") /\ Goto(j, "confirm")
    /\ \/ route' = None /\ NoEvent
       \/ UNCHANGED route /\ Event
    /\ UNCHANGED <<site, snip, slot, lock, astray>>

Confirm(j) ==
    /\ At(j, "confirm") /\ Goto(j, IF route = None THEN "clean" ELSE "releases")
    /\ UNCHANGED <<site, caddy, slot, lock, astray>> /\ NoEvent

Clean(j) ==
    /\ At(j, "clean")
    /\ site' = IF site.st = "cleaning" THEN [site EXCEPT !.st = "releasing"] ELSE site
    /\ StrayIf("mode", site.st = "cleaning" /\ ssh # job[j].ssh)
    /\ Goto(j, "releases")
    /\ UNCHANGED <<caddy, slot, lock>> /\ NoEvent

Releases(j) ==
    /\ At(j, "releases")
    /\ IF site.st = "releasing"
       THEN /\ site' = [site EXCEPT !.st = "claimed"]
            /\ job' = [job EXCEPT ![j].pc = "detach", ![j].cert = site.cert]
       ELSE UNCHANGED site /\ Goto(j, IF job[j].ssh THEN "reprobe" ELSE "reconcile")
    /\ UNCHANGED <<caddy, slot, lock, astray>> /\ NoEvent

\* The certificate of the row read is taken off the profile, unless it is the
\* last one there.
DetachCert(j, released, kept) ==
    \/ ~job[j].cert /\ released /\ UNCHANGED slot
    \/ job[j].cert /\ slot' = FALSE /\ released
    \/ job[j].cert /\ slot /\ UNCHANGED slot /\ kept

Detach(j) ==
    /\ At(j, "detach")
    /\ DetachCert(j, Goto(j, "released"), Goto(j, "kept"))
    /\ UNCHANGED <<site, caddy, lock, astray>> /\ NoEvent

Released(j) ==
    /\ \E pc \in {"released", "kept"} :
          /\ At(j, pc)
          /\ site' = IF site.st = "claimed"
                     THEN [site EXCEPT !.st = IF pc = "released" THEN "revoked" ELSE "releasing"]
                     ELSE site
    /\ Goto(j, IF job[j].ssh THEN "reprobe" ELSE "reconcile")
    /\ UNCHANGED <<caddy, slot, lock, astray>> /\ NoEvent

\* Routes missing from the server are pushed again, those of a publish under
\* way only when the server has just left file mode.
\* Mutant: a site whose last probe failed is not repaired.
RepairedLive(j) == IF job[j].kind = "pass" THEN {"live"} ELSE RouteStatuses \cup InFlight

Repaired(j) == IF job[j].kind = "pass" THEN RouteStatuses ELSE RouteStatuses \cup InFlight
Missing(j) == site.st \in Repaired(j) /\ route = None /\ site.up \in allow

Reconcile(j) ==
    /\ At(j, "reconcile")
    /\ IF Missing(j)
       THEN job' = [job EXCEPT ![j].pc = "repush", ![j].up = site.up] /\ UNCHANGED lock
       ELSE Reconciled(j)
    /\ UNCHANGED <<site, caddy, slot, astray>> /\ NoEvent

Repush(j) ==
    /\ At(j, "repush")
    /\ \/ route' = job[j].up /\ Goto(j, "repushed") /\ NoEvent /\ UNCHANGED <<lock, astray>>
       \/ /\ Event /\ End(j) /\ lock' = (IF lock = j THEN None ELSE lock)
          /\ \/ route' = job[j].up /\ Stray("cut")
             \/ UNCHANGED <<route, astray>>
    /\ UNCHANGED <<site, snip, slot>>

Repushed(j) ==
    /\ At(j, "repushed")
    /\ IF Revoked THEN site' = [site EXCEPT !.st = "revoking"] /\ Reconciled(j)
       ELSE UNCHANGED <<site, lock>> /\ Goto(j, "conflicts")
    /\ UNCHANGED <<caddy, slot, astray>> /\ NoEvent

\* A live site that fails the probe is warned about, and the other way round.
Reprobe(j) ==
    /\ At(j, "reprobe")
    /\ IF site.st \in {"live", "warning"} THEN Goto(j, "reprobed") ELSE End(j)
    /\ UNCHANGED <<site, caddy, slot, lock, astray>> /\ NoEvent

Reprobed(j) ==
    /\ At(j, "reprobed") /\ End(j)
    /\ \/ \E s \in {"live", "warning"} : SetStatus(s)
       \/ UNCHANGED site
    /\ UNCHANGED <<caddy, slot, lock, astray>> /\ NoEvent

----------------------------------------------------------------------------
(* Removing the site. *)

StartRemove(j) ==
    /\ Request /\ Present
    /\ Start(j, "remove", "rmslot", None, site.cert) /\ UNCHANGED astray

\* What the firewall refuses does not keep the site from being removed; in
\* file mode the row goes first and the snippet is rendered without it.
RemoveSlot(j) ==
    /\ At(j, "rmslot")
    /\ LET next == job' = [job EXCEPT ![j].ssh = ssh, ![j].pc = IF ssh THEN "rmrow" ELSE "rmroute"]
       IN  DetachCert(j, next, next)
    /\ UNCHANGED <<site, caddy, lock, astray>> /\ NoEvent

RemoveRoute(j) ==
    /\ At(j, "rmroute")
    /\ job' = [job EXCEPT ![j].pc = "rmrow", ![j].ssh = FALSE]
    /\ \/ route' = None /\ NoEvent
       \/ UNCHANGED route /\ Event
    /\ UNCHANGED <<site, snip, slot, lock, astray>>

RemoveRow(j) ==
    /\ At(j, "rmrow")
    /\ site' = NoSite
    /\ IF job[j].ssh THEN Goto(j, "lock") ELSE End(j)
    /\ UNCHANGED <<caddy, slot, lock, astray>> /\ NoEvent

----------------------------------------------------------------------------
(* The mode of the server, switched under the lock. *)

StartSwitch(j) ==
    /\ Request /\ lock = None /\ Idle(j)
    /\ lock' = j
    /\ IF ssh
       THEN job' = [job EXCEPT ![j] = [NoJob EXCEPT !.kind = "switch", !.pc = "empty", !.ssh = TRUE]]
       ELSE job' = [job EXCEPT ![j] = [NoJob EXCEPT !.kind = "switch", !.pc = "render"]]
    /\ UNCHANGED <<world, site, caddy, slot, astray, spent>>

\* To file mode: the row of the server, then the snippet.
Render(j) ==
    /\ At(j, "render")
    /\ ssh' = TRUE
    /\ job' = [job EXCEPT ![j].pc = "deploy", ![j].up = Rendered]
    /\ UNCHANGED <<allow, site, caddy, slot, lock, astray>> /\ NoEvent

\* To API mode: the snippet is emptied, and the switch refused if that fails.
Empty(j) ==
    /\ At(j, "empty")
    /\ \/ snip' = None /\ route' = None /\ Goto(j, "leave") /\ NoEvent /\ UNCHANGED lock
       \/ Cut(None) /\ End(j) /\ lock' = None /\ Event
    /\ UNCHANGED <<world, site, slot, astray>>

Leave(j) ==
    /\ At(j, "leave")
    /\ ssh' = FALSE /\ Goto(j, "reconcile")
    /\ UNCHANGED <<allow, site, caddy, slot, lock, astray>> /\ NoEvent

----------------------------------------------------------------------------
(* Around the process. *)

\* A guest, a VLAN or an address is taken from the owner, or given.
AccessChanges ==
    /\ Event /\ allow' \in {A \in SUBSET Upstreams : A # allow}
    /\ UNCHANGED <<ssh, site, caddy, slot, lock, job, astray, requests>>

\* The operator reloads Caddy from its files.
Reload ==
    /\ Event /\ route # None /\ route' = None
    /\ UNCHANGED <<world, site, snip, slot, lock, job, astray, requests>>

\* What is lost with the process is not started again; a claim of a pass is undone.
Crash ==
    /\ Event /\ \E j \in Jobs : ~Idle(j)
    /\ job' = [j \in Jobs |-> NoJob] /\ lock' = None
    /\ site' = IF site.st = "claimed" THEN [site EXCEPT !.st = "releasing"] ELSE site
    /\ StrayIf("cut", \E j \in Jobs : job[j].pc \in {"rearm", "reattached", "repushed"})
    /\ UNCHANGED <<world, caddy, slot, requests>>

----------------------------------------------------------------------------

Init ==
    /\ allow \in {A \in SUBSET Upstreams : A # {}} /\ ssh \in BOOLEAN
    /\ \E u \in allow : site = [st |-> "pushing", up |-> u, cert |-> FALSE]
    /\ route = None /\ snip = None /\ slot = FALSE /\ lock = None
    /\ \E j \in Jobs : job = [k \in Jobs |->
          IF k = j THEN [NoJob EXCEPT !.kind = "flow", !.pc = "begin"] ELSE NoJob]
    /\ astray = {} /\ requests = 0 /\ spent = 0

Flow(j) ==
    \/ Validate(j) \/ Store(j) \/ Reset(j) \/ Begin(j) \/ Check(j) \/ Announce(j) \/ Push(j)
    \/ Rearm(j) \/ Conflicts(j) \/ Issue(j) \/ Poll(j) \/ Inspect(j) \/ Look(j) \/ Attach(j)
    \/ Finish(j) \/ Lock(j) \/ Deploy(j)

Pass(j) ==
    \/ Sweep(j) \/ Mark(j) \/ Park(j) \/ Claims(j) \/ Claim(j) \/ Delete(j) \/ Confirm(j)
    \/ Clean(j) \/ Releases(j) \/ Detach(j) \/ Released(j) \/ Reconcile(j) \/ Repush(j)
    \/ Repushed(j) \/ Reprobe(j) \/ Reprobed(j) \/ Throws(j)

Remove(j) == RemoveSlot(j) \/ RemoveRoute(j) \/ RemoveRow(j)

Switch(j) == Render(j) \/ Empty(j) \/ Leave(j)

Work(j) ==
    /\ \/ (Flow(j) \/ Pass(j) \/ Remove(j)) /\ UNCHANGED world
       \/ Switch(j)
    /\ UNCHANGED requests

StartRequest(j) ==
    \/ \E u \in Upstreams : StartSave(j, u)
    \/ StartRetry(j) \/ StartRemove(j) \/ StartSwitch(j)

Next ==
    \/ \E j \in Jobs : StartPass(j) \/ StartRequest(j) \/ Work(j)
    \/ AccessChanges \/ Reload \/ Crash

Spec == Init /\ [][Next]_vars

\* Whatever was started is answered or times out, and the timer goes on.
FairSpec ==
    /\ Spec
    /\ \A j \in Jobs : WF_vars(Work(j))
    /\ WF_vars(\E j \in Jobs : StartPass(j))

----------------------------------------------------------------------------
(* Properties. *)

\* Where the jobs of each kind are.
FlowSteps == {"validate", "verify", "store", "reset", "begin", "check", "announce", "recheck",
              "push", "lock", "deploy", "rearm", "conflicts", "issue", "poll", "inspect", "look",
              "attach", "reattached", "finish", "mark", "park"}
PassSteps == {"sweep", "mark", "park", "claims", "claim", "lock", "delete", "confirm", "clean",
              "deploy", "releases", "detach", "released", "kept", "reconcile", "repush",
              "repushed", "conflicts", "reprobe", "reprobed"}
RemoveSteps == {"rmslot", "rmroute", "rmrow", "lock", "deploy"}
SwitchSteps == {"empty", "leave", "render", "deploy", "reconcile", "repush", "repushed", "conflicts"}
Pcs == {"idle"} \cup FlowSteps \cup PassSteps \cup RemoveSteps \cup SwitchSteps

JobRecords == [kind : Kinds, pc : Pcs, up : Upstreams \cup {None}, cert : BOOLEAN, ssh : BOOLEAN]

\* The types, and a job is idle only if nothing of it is left.
TypeOK ==
    /\ allow \subseteq Upstreams /\ ssh \in BOOLEAN /\ slot \in BOOLEAN
    /\ site = NoSite \/ site \in [st : Statuses, up : Upstreams, cert : BOOLEAN]
    /\ route \in Upstreams \cup {None} /\ snip \in Upstreams \cup {None}
    /\ lock \in Jobs \cup {None}
    /\ job \in [Jobs -> JobRecords]
    /\ \A j \in Jobs : Idle(j) <=> job[j].pc = "idle"
    /\ astray \subseteq {"cert", "cut", "mode", "passes"}
    /\ requests \in 0..MaxRequests /\ spent \in 0..MaxEvents

\* A site whose revocation is over has no route, no block in the snippet and no
\* certificate on the profile, except between a push and the check that follows it, and
\* unless astray says otherwise: a save wrote an older cert_name back (cert), the process
\* died or a call failed between a push or an attach and its check (cut), the server
\* changed its mode under a pass (mode), or two passes overlapped (passes).
RevokedHoldsNothing ==
    (site.st = "revoked" /\ astray = {} /\ \A j \in Jobs : job[j].pc \notin {"rearm", "reattached", "repushed"})
        => route = None /\ snip = None /\ ~slot

\* Whatever flows and probes report meanwhile, a revocation is only left by the reset of
\* a save or a retry, whose flow checks the upstream again, or with the site.
RevocationHolds ==
    [][Revoked /\ site' # NoSite =>
        site'.st \in Revocation \/ \E j \in Jobs : At(j, "reset") /\ job'[j].pc = "begin"]_vars

\* A site whose owner has lost its upstream for good is taken down, unless a flow or a
\* repair was cut, the server changed its mode under a pass or two passes overlapped (cut,
\* mode and passes of astray): what these leave up, no later pass looks for.
DeniedComesDown ==
    <>[](Present /\ site.up \notin allow /\ astray \subseteq {"cert"})
        => <>[](route = None /\ snip = None)

\* A site that stays published through the API is served again whatever
\* dropped its route.
PublishedIsServed ==
    <>[](site.st \in RouteStatuses /\ site.up \in allow /\ ~ssh) => <>[](route # None)
=============================================================================
