---------------------------- MODULE FirewallSync ----------------------------
(***************************************************************************)
(* A VLAN on a FortiGate, and a port forward into it.                      *)
(*                                                                         *)
(* A workflow creates objects on the firewall step by step and rolls its   *)
(* own back when a step fails; what it created is recorded with the row    *)
(* of the sync or of the forward, and removing the sync, the forward, the  *)
(* VLAN or the firewall removes what the row records.  Requests interleave *)
(* between any two calls to the firewall or to the database.               *)
(*                                                                         *)
(* One VLAN and one firewall; every forward has the same name.  A VLAN is  *)
(* an interface and a policy, a forward a VIP and a policy; requests are   *)
(* numbered as they start, and a policy by the request that created it.    *)
(***************************************************************************)
EXTENDS Integers, FiniteSets

CONSTANTS
    MaxRequests,   \* bound: requests
    MaxEvents      \* bound: failed calls, lost answers and crashes, together

ASSUME FirewallSyncAssumption == MaxRequests \in Nat /\ MaxEvents \in Nat

Requests == 1..MaxRequests
Iface == 0
Vip == -1
Objects == {Iface, Vip} \cup Requests

VARIABLES
    fw,        \* the firewalls row exists
    vlan,      \* the vlans row exists
    sync,      \* the firewall_vlan_sync row of the two
    fwd,       \* the managed_vips row of the forward
    live,      \* objects on the firewall
    req,       \* the requests
    left,      \* objects given up: not removed, not answered for, or of a dead process (history)
    raced,     \* objects whose row another request of the same kind took (history)
    spent      \* events so far

db == <<fw, vlan, sync, fwd>>
hist == <<left, raced>>
vars == <<db, live, req, hist, spent>>

Creates == {"sync", "forward"}
Removes == {"unsync", "delvlan"}
Kinds == Creates \cup Removes \cup {"delvip", "delfw"}

NoRow == [by |-> 0, arts |-> {}]
Row(r) == [by |-> r, arts |-> req[r].arts]

\* arts: what a creating request created and a removing one has yet to remove;
\* err: a removal failed; sync, fwd: the rows it read and is to remove.
NoReq == [kind |-> "none", pc |-> "new", arts |-> {}, err |-> FALSE, sync |-> NoRow, fwd |-> NoRow]

At(r, pc) == req[r].pc = pc
Goto(r, pc) == req' = [req EXCEPT ![r].pc = pc]
Done(r) == req' = [req EXCEPT ![r] = [NoReq EXCEPT !.kind = req[r].kind, !.pc = "done"]]
Creating(r) == req[r].kind \in Creates

Event == spent < MaxEvents /\ spent' = spent + 1

Init ==
    /\ fw = TRUE /\ vlan = TRUE
    /\ sync = NoRow /\ fwd = NoRow
    /\ live = {}
    /\ req = [r \in Requests |-> NoReq]
    /\ left = {} /\ raced = {}
    /\ spent = 0

-----------------------------------------------------------------------------
(* Creating: the checks of the route, runWorkflow, the tracking row.       *)

Begin(r, kind, new) ==
    /\ At(r, "new") /\ \A q \in 1..r - 1 : ~At(q, "new")
    /\ req' = [req EXCEPT ![r] = [new EXCEPT !.kind = kind]]
    /\ UNCHANGED <<db, live, hist, spent>>

\* POST /vlans/:id/sync: not synced yet.
StartSync(r) ==
    /\ fw /\ vlan /\ sync = NoRow
    /\ Begin(r, "sync", [NoReq EXCEPT !.pc = "first"])

\* A forward into a synced VLAN, whose name is free in the records and on the box.
StartForward(r) ==
    /\ fw /\ sync # NoRow /\ fwd = NoRow /\ Vip \notin live
    /\ Begin(r, "forward", [NoReq EXCEPT !.pc = "first"])

Named(r) == IF req[r].kind = "sync" THEN Iface ELSE Vip
Policies(kind) == {q \in live \cap Requests : req[q].kind = kind}

Create(r, o, pc) ==
    /\ live' = live \cup {o}
    /\ req' = [req EXCEPT ![r].pc = pc, ![r].arts = @ \cup {o}]

\* create_vlan_interface takes an existing interface as it is; a VIP must be new.
First(r) ==
    /\ At(r, "first")
    /\ \/ Named(r) \notin live /\ Create(r, Named(r), "policy")
       \/ Iface \in live /\ req[r].kind = "sync" /\ Goto(r, "policy") /\ UNCHANGED live
    /\ UNCHANGED <<db, hist, spent>>

\* The policy refers to the interface, and to the VIP.
Refers(r) == Iface \in live /\ Named(r) \in live

\* create_policy; a VLAN without internet, or with a policy already, skips it.
Policy(r) ==
    /\ At(r, "policy")
    /\ \/ Refers(r) /\ Create(r, r, "record")
       \/ req[r].kind = "sync" /\ Goto(r, "record") /\ UNCHANGED live
    /\ UNCHANGED <<db, hist, spent>>

\* Mutant: a refused policy is tried again and again.
RefusedFirst(r) ==
    /\ At(r, "first") /\ req[r].kind = "forward" /\ Vip \in live
    /\ Goto(r, "undo")
    /\ UNCHANGED <<db, live, hist, spent>>

\* A step fails because of the state of the box ...
StepRefused(r) ==
    /\ \/ At(r, "first") /\ req[r].kind = "forward" /\ Vip \in live
       \/ At(r, "policy") /\ ~Refers(r)
    /\ Goto(r, "undo")
    /\ UNCHANGED <<db, live, hist, spent>>

\* ... or because the call failed; the object may have been created all the same.
StepFails(r) ==
    /\ At(r, "first") \/ At(r, "policy")
    /\ Event
    /\ Goto(r, "undo")
    /\ \/ UNCHANGED <<live, left>>
       \/ LET o == IF At(r, "first") THEN Named(r) ELSE r
          IN  /\ o \notin live /\ (At(r, "policy") => Refers(r))
              /\ live' = live \cup {o} /\ left' = left \cup {o}
    /\ UNCHANGED <<db, raced>>

\* trackProvisioned: the row, under the locks of the rows it depends on; without
\* those, the objects go again; a row of another request stays.
RecordSync(r) ==
    /\ req[r].kind = "sync"
    /\ IF ~(fw /\ vlan) THEN Goto(r, "undo") /\ UNCHANGED <<sync, raced>>
       ELSE /\ Done(r)
            /\ IF sync = NoRow THEN sync' = Row(r) /\ UNCHANGED raced
                               ELSE raced' = raced \cup req[r].arts /\ UNCHANGED sync
    /\ UNCHANGED fwd

RecordForward(r) ==
    /\ req[r].kind = "forward"
    /\ IF ~fw \/ sync = NoRow THEN Goto(r, "undo") /\ UNCHANGED <<fwd, raced>>
       ELSE /\ Done(r)
            /\ IF fwd = NoRow THEN fwd' = Row(r) /\ UNCHANGED raced
                              ELSE raced' = raced \cup req[r].arts /\ UNCHANGED fwd
    /\ UNCHANGED sync

\* Mutant: a missing firewall or VLAN is an error like any other.
RecordOrLeave(r) ==
    /\ At(r, "record")
    /\ IF fw /\ vlan THEN RecordSync(r) \/ RecordForward(r) ELSE Done(r) /\ UNCHANGED <<sync, fwd, raced>>
    /\ UNCHANGED <<fw, vlan, live, left, spent>>

Record(r) ==
    /\ At(r, "record")
    /\ RecordSync(r) \/ RecordForward(r)
    /\ UNCHANGED <<fw, vlan, live, left, spent>>

-----------------------------------------------------------------------------
(* Removing: artifact by artifact, policies before what they refer to.     *)

InUse(o) == \/ o = Iface /\ live \cap Requests # {}
            \/ o = Vip /\ Policies("forward") # {}

\* The artifact a teardown takes next.
NextArt(r, o) == o \in req[r].arts /\ \A p \in req[r].arts : p <= o

Tearing(r) == At(r, "undo") \/ At(r, "clear") \/ At(r, "tear")

\* An object that is already gone counts as removed.
Remove(r) == \E o \in req[r].arts :
    /\ Tearing(r) /\ NextArt(r, o) /\ ~InUse(o)
    /\ live' = live \ {o}
    /\ left' = left \ {o} /\ raced' = raced \ {o}
    /\ req' = [req EXCEPT ![r].arts = @ \ {o}]
    /\ UNCHANGED <<db, spent>>

\* The removal is refused, or the call fails: the next one is tried all the same.
RemoveFails(r) == \E o \in req[r].arts :
    /\ Tearing(r) /\ NextArt(r, o)
    /\ IF InUse(o) THEN UNCHANGED spent ELSE Event
    /\ req' = [req EXCEPT ![r].arts = @ \ {o}, ![r].err = TRUE]
    /\ left' = IF At(r, "undo") /\ o \in live THEN left \cup {o} ELSE left
    /\ UNCHANGED <<db, live, raced>>

\* rollback and teardownForGoneTarget end with an error to the client.
Undone(r) ==
    /\ At(r, "undo") /\ req[r].arts = {}
    /\ Done(r)
    /\ UNCHANGED <<db, live, hist, spent>>

\* handleVlanUnsync and DELETE /vlans/:id read the sync row.
StartUnsync(r) ==
    /\ fw /\ vlan /\ sync # NoRow
    /\ \E kind \in Removes : Begin(r, kind, [NoReq EXCEPT !.pc = "forwards", !.sync = sync])

\* DELETE /vlans/:id of a VLAN that is synced nowhere.
StartDeleteVlan(r) ==
    /\ vlan /\ sync = NoRow
    /\ Begin(r, "delvlan", [NoReq EXCEPT !.pc = "final"])

\* DELETE /firewalls/:id/vips/:name reads the forward's row.
StartDeleteForward(r) ==
    /\ fw /\ fwd # NoRow
    /\ Begin(r, "delvip", [NoReq EXCEPT !.pc = "clear", !.arts = fwd.arts, !.fwd = fwd])

TearSync(r, read) == [req EXCEPT ![r].pc = "tear", ![r].arts = req[r].sync.arts, ![r].fwd = read]

\* cleanupVlanPortForwards reads the forwards into the VLAN: none, or the one.
ReadForwards(r) ==
    /\ At(r, "forwards")
    /\ req' = IF fwd = NoRow THEN TearSync(r, NoRow)
              ELSE [req EXCEPT ![r].pc = "clear", ![r].arts = fwd.arts, ![r].fwd = fwd]
    /\ UNCHANGED <<db, live, hist, spent>>

\* The row of a forward that is gone from the box: by its id here ...
ForgetForward(r) ==
    /\ At(r, "clear") /\ req[r].arts = {} /\ req[r].kind \in Removes
    /\ IF req[r].err THEN Done(r) /\ UNCHANGED fwd
       ELSE /\ req' = TearSync(r, NoRow)
            /\ fwd' = IF fwd = req[r].fwd THEN NoRow ELSE fwd
    /\ UNCHANGED <<fw, vlan, sync, live, hist, spent>>

\* ... and by its name there.
DeleteForward(r) ==
    /\ At(r, "clear") /\ req[r].arts = {} /\ req[r].kind = "delvip"
    /\ Done(r)
    /\ IF req[r].err THEN UNCHANGED <<fwd, raced>>
       ELSE /\ fwd' = NoRow
            /\ raced' = IF fwd = req[r].fwd THEN raced ELSE raced \cup (fwd.arts \cap live)
    /\ UNCHANGED <<fw, vlan, sync, live, left, spent>>

AfterDrop(r) == IF req[r].kind = "delvlan" THEN Goto(r, "final") ELSE Done(r)

\* Mutant: nobody looks for a forward created meanwhile.
DropSyncUnchecked(r) ==
    /\ At(r, "tear") /\ req[r].arts = {}
    /\ IF req[r].err THEN Done(r) /\ UNCHANGED <<sync, raced>>
       ELSE /\ AfterDrop(r)
            /\ sync' = NoRow
            /\ raced' = IF sync = req[r].sync THEN raced ELSE raced \cup (sync.arts \cap live)
    /\ UNCHANGED <<fw, vlan, fwd, live, left, spent>>

\* deleteSyncUnlessForwarded, unless something could not be removed.
DropSync(r) ==
    /\ At(r, "tear") /\ req[r].arts = {}
    /\ IF req[r].err \/ fwd # NoRow THEN Done(r) /\ UNCHANGED <<sync, raced>>
       ELSE /\ AfterDrop(r)
            /\ sync' = NoRow
            /\ raced' = IF sync = req[r].sync THEN raced ELSE raced \cup (sync.arts \cap live)
    /\ UNCHANGED <<fw, vlan, fwd, live, left, spent>>

\* The VLAN's row goes unless it was synced again.
DeleteVlan(r) ==
    /\ At(r, "final")
    /\ Done(r)
    /\ vlan' = (vlan /\ sync # NoRow)
    /\ UNCHANGED <<fw, sync, fwd, live, hist, spent>>

\* DELETE /firewalls/:id: one transaction, refused while a row depends on it.
DeleteFirewall(r) ==
    /\ fw /\ At(r, "new") /\ \A q \in 1..r - 1 : ~At(q, "new")
    /\ sync = NoRow /\ fwd = NoRow
    /\ fw' = FALSE
    /\ req' = [req EXCEPT ![r] = [NoReq EXCEPT !.kind = "delfw", !.pc = "done"]]
    /\ UNCHANGED <<vlan, sync, fwd, live, hist, spent>>

-----------------------------------------------------------------------------

Running(r) == ~At(r, "new") /\ ~At(r, "done")

\* The process dies: what a request was creating is on record nowhere.
Restart ==
    /\ Event
    /\ \E r \in Requests : Running(r)
    /\ left' = left \cup (live \cap UNION {req[r].arts : r \in {q \in Requests : Creating(q)}})
    /\ req' = [r \in Requests |-> IF Running(r) THEN [NoReq EXCEPT !.kind = req[r].kind, !.pc = "done"] ELSE req[r]]
    /\ UNCHANGED <<db, live, raced>>

Start(r) == StartSync(r) \/ StartForward(r) \/ StartUnsync(r) \/ StartDeleteVlan(r) \/ StartDeleteForward(r)

Step(r) ==
    \/ First(r) \/ Policy(r) \/ StepRefused(r) \/ StepFails(r) \/ Record(r)
    \/ Remove(r) \/ RemoveFails(r) \/ Undone(r)
    \/ ReadForwards(r) \/ ForgetForward(r) \/ DeleteForward(r) \/ DropSync(r) \/ DeleteVlan(r)

Next ==
    \/ \E r \in Requests : Start(r) \/ DeleteFirewall(r) \/ Step(r)
    \/ Restart

Spec == Init /\ [][Next]_vars

\* A request that has started runs to its end.
FairSpec == Spec /\ \A r \in Requests : WF_vars(Step(r))

-----------------------------------------------------------------------------
(* Properties.                                                             *)

Rows == [by : {0} \cup Requests, arts : SUBSET Objects]

\* The type of every variable; a request that has ended holds nothing.
TypeOK ==
    /\ fw \in BOOLEAN /\ vlan \in BOOLEAN
    /\ sync \in Rows /\ fwd \in Rows
    /\ live \subseteq Objects /\ left \subseteq Objects /\ raced \subseteq Objects
    /\ req \in [Requests -> [kind : Kinds \cup {"none"},
                             pc : {"new", "first", "policy", "record", "undo", "forwards", "clear",
                                   "tear", "final", "done"},
                             arts : SUBSET Objects, err : BOOLEAN, sync : Rows, fwd : Rows]]
    /\ spent \in 0..MaxEvents
    /\ \A r \in Requests : ~Running(r) => req[r].arts = {}

\* A port forward on record always has the sync of its VLAN: the creator and the
\* unsync race for the sync row, and whoever comes second notices
\* (routes/admin.ts:1791).
ForwardHasSync == fwd # NoRow => sync # NoRow /\ fw /\ vlan

OnRecord == sync.arts \cup fwd.arts \cup UNION {req[r].arts : r \in {q \in Requests : Creating(q)}}

\* Every object on the firewall is on record or of a running request, and can be
\* found and removed: nothing is "live with no record" (routes/admin.ts:1773).  A
\* failed removal, a lost answer, a crash and a lost race for the row are set aside.
NothingLiveUnrecorded == live \subseteq OnRecord \cup left \cup raced

\* Once the firewall or the VLAN is deleted, the requests that were creating
\* objects for it take them away again (workflows/runner.ts:11).
DeletedLeavesNothing == ~fw \/ ~vlan ~> live \subseteq left \cup raced
=============================================================================
