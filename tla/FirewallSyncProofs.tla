------------------------- MODULE FirewallSyncProofs -------------------------
(***************************************************************************)
(* For any number of requests and of failures: every state is well typed,  *)
(* no port forward outlives the sync of its VLAN, and no sync its firewall *)
(* or its VLAN; and what is on the firewall is on record, or set aside.    *)
(***************************************************************************)
EXTENDS FirewallSync, TLAPS

-----------------------------------------------------------------------------
(* Types.                                                                  *)

Pcs == {"new", "first", "policy", "record", "undo", "forwards", "clear", "tear", "final", "done"}

Reqs == [kind : Kinds \cup {"none"}, pc : Pcs, arts : SUBSET Objects, err : BOOLEAN,
         sync : Rows, fwd : Rows]

\* A request is well typed, and holds nothing before it starts and after it has ended.
ReqOK(x) == x \in Reqs /\ (x.pc \in {"new", "done"} => x.arts = {})

ReqsOK == req \in [Requests -> Reqs] /\ \A r \in Requests : ReqOK(req[r])

RowsOK == /\ fw \in BOOLEAN /\ vlan \in BOOLEAN
          /\ sync \in Rows /\ fwd \in Rows

BoxOK == /\ live \subseteq Objects /\ left \subseteq Objects /\ raced \subseteq Objects
         /\ spent \in 0..MaxEvents

LEMMA TypeParts == TypeOK <=> RowsOK /\ BoxOK /\ ReqsOK
PROOF
  BY DEF TypeOK, RowsOK, BoxOK, ReqsOK, ReqOK, Reqs, Pcs, Running, At

LEMMA TypeAgain ==
    ASSUME RowsOK', BoxOK', ReqsOK'
    PROVE  TypeOK'
PROOF
  BY DEF TypeOK, RowsOK, BoxOK, ReqsOK, ReqOK, Reqs, Pcs, Running, At

LEMMA NoReqOK == NoRow \in Rows /\ ReqOK(NoReq)
PROOF
  BY DEF NoRow, Rows, ReqOK, Reqs, NoReq, Kinds, Creates, Removes, Pcs

\* A step changes at most one request.
LEMMA OneReq ==
    ASSUME ReqsOK, NEW r \in Requests, NEW x, ReqOK(x), req' = [req EXCEPT ![r] = x]
    PROVE  ReqsOK'
PROOF
  BY DEF ReqsOK, ReqOK

LEMMA GotoOK ==
    ASSUME ReqsOK, NEW r \in Requests, NEW pc \in Pcs \ {"new", "done"}, Goto(r, pc)
    PROVE  ReqsOK'
PROOF
  <1> DEFINE x == [req[r] EXCEPT !.pc = pc]
  <1>1. ReqOK(x)
    BY DEF ReqsOK, ReqOK, Reqs
  <1>2. req' = [req EXCEPT ![r] = x]
    BY DEF Goto
  <1> HIDE DEF x
  <1> QED BY <1>1, <1>2, OneReq

LEMMA DoneOK ==
    ASSUME ReqsOK, NEW r \in Requests, Done(r)
    PROVE  ReqsOK'
PROOF
  <1> DEFINE x == [NoReq EXCEPT !.kind = req[r].kind, !.pc = "done"]
  <1>1. ReqOK(x)
    BY NoReqOK DEF ReqsOK, ReqOK, Reqs, NoReq, Pcs
  <1>2. req' = [req EXCEPT ![r] = x]
    BY DEF Done
  <1> HIDE DEF x
  <1> QED BY <1>1, <1>2, OneReq

LEMMA BeginOK ==
    ASSUME TypeOK, NEW r \in Requests, NEW kind \in Kinds, NEW new, ReqOK(new),
           Begin(r, kind, new)
    PROVE  TypeOK'
PROOF
  <1> DEFINE x == [new EXCEPT !.kind = kind]
  <1>1. ReqOK(x)
    BY DEF ReqOK, Reqs
  <1>2. req' = [req EXCEPT ![r] = x]
    BY DEF Begin
  <1> HIDE DEF x
  <1>3. ReqsOK'
    BY <1>1, <1>2, OneReq, TypeParts
  <1>4. RowsOK' /\ BoxOK'
    BY TypeParts DEF Begin, db, hist, RowsOK, BoxOK
  <1> QED BY <1>3, <1>4, TypeAgain

LEMMA StartTyped ==
    ASSUME TypeOK, NEW r \in Requests, Start(r) \/ DeleteFirewall(r)
    PROVE  TypeOK'
PROOF
  <1>1. RowsOK /\ BoxOK /\ ReqsOK
    BY TypeParts
  <1>2. CASE StartSync(r) \/ StartForward(r)
    <2> DEFINE x == [NoReq EXCEPT !.pc = "first"]
    <2>1. ReqOK(x)
      BY NoReqOK DEF ReqOK, Reqs, NoReq, Pcs
    <2>2. \E kind \in Kinds : Begin(r, kind, x)
      BY <1>2 DEF StartSync, StartForward, Kinds, Creates
    <2> QED BY <2>1, <2>2, BeginOK
  <1>3. CASE StartUnsync(r)
    <2> DEFINE x == [NoReq EXCEPT !.pc = "forwards", !.sync = sync]
    <2>1. ReqOK(x)
      BY <1>1, NoReqOK DEF RowsOK, ReqOK, Reqs, NoReq, Pcs
    <2>2. \E kind \in Kinds : Begin(r, kind, x)
      BY <1>3 DEF StartUnsync, Kinds, Removes
    <2> QED BY <2>1, <2>2, BeginOK
  <1>4. CASE StartDeleteVlan(r)
    <2> DEFINE x == [NoReq EXCEPT !.pc = "final"]
    <2>1. ReqOK(x)
      BY NoReqOK DEF ReqOK, Reqs, NoReq, Pcs
    <2>2. \E kind \in Kinds : Begin(r, kind, x)
      BY <1>4 DEF StartDeleteVlan, Kinds, Removes
    <2> QED BY <2>1, <2>2, BeginOK
  <1>5. CASE StartDeleteForward(r)
    <2> DEFINE x == [NoReq EXCEPT !.pc = "clear", !.arts = fwd.arts, !.fwd = fwd]
    <2>1. ReqOK(x)
      BY <1>1, NoReqOK DEF RowsOK, Rows, ReqOK, Reqs, NoReq, Pcs
    <2>2. \E kind \in Kinds : Begin(r, kind, x)
      BY <1>5 DEF StartDeleteForward, Kinds
    <2> QED BY <2>1, <2>2, BeginOK
  <1>6. CASE DeleteFirewall(r)
    <2> DEFINE x == [NoReq EXCEPT !.kind = "delfw", !.pc = "done"]
    <2>1. ReqOK(x)
      BY NoReqOK DEF ReqOK, Reqs, NoReq, Pcs, Kinds
    <2>2. req' = [req EXCEPT ![r] = x]
      BY <1>6 DEF DeleteFirewall
    <2>3. RowsOK' /\ BoxOK'
      BY <1>1, <1>6 DEF DeleteFirewall, hist, RowsOK, BoxOK
    <2> HIDE DEF x
    <2>4. ReqsOK'
      BY <1>1, <2>1, <2>2, OneReq
    <2> QED BY <2>3, <2>4, TypeAgain
  <1> QED BY <1>2, <1>3, <1>4, <1>5, <1>6 DEF Start

LEMMA SpentOK ==
    ASSUME BoxOK, Event
    PROVE  spent' \in 0..MaxEvents
PROOF
  BY FirewallSyncAssumption DEF BoxOK, Event

LEMMA CreateOK ==
    ASSUME ReqsOK, NEW r \in Requests, NEW o \in Objects, NEW pc \in Pcs \ {"new", "done"},
           Create(r, o, pc), live \subseteq Objects
    PROVE  ReqsOK' /\ live' \subseteq Objects
PROOF
  <1> DEFINE x == [req[r] EXCEPT !.pc = pc, !.arts = @ \cup {o}]
  <1>1. ReqOK(x)
    BY DEF ReqsOK, ReqOK, Reqs
  <1>2. req' = [req EXCEPT ![r] = x]
    BY DEF Create
  <1> HIDE DEF x
  <1> QED BY <1>1, <1>2, OneReq DEF Create

LEMMA NamedIsObject ==
    ASSUME NEW r \in Requests
    PROVE  Named(r) \in Objects /\ r \in Objects
PROOF
  BY DEF Named, Objects

LEMMA CreatingTyped ==
    ASSUME TypeOK, NEW r \in Requests,
           First(r) \/ Policy(r) \/ StepRefused(r) \/ StepFails(r) \/ Record(r)
    PROVE  TypeOK'
PROOF
  <1>1. RowsOK /\ BoxOK /\ ReqsOK
    BY TypeParts
  <1>2. {"policy", "record", "undo"} \subseteq Pcs \ {"new", "done"}
    BY DEF Pcs
  <1>3. CASE First(r) \/ Policy(r)
    <2>1. \/ Create(r, Named(r), "policy") \/ Create(r, r, "record")
          \/ (Goto(r, "policy") \/ Goto(r, "record")) /\ UNCHANGED live
      BY <1>3 DEF First, Policy
    <2>2. ReqsOK' /\ live' \subseteq Objects
      BY <1>1, <1>2, <2>1, CreateOK, GotoOK, NamedIsObject DEF BoxOK
    <2>3. UNCHANGED <<db, hist, spent>>
      BY <1>3 DEF First, Policy
    <2> QED BY <1>1, <2>2, <2>3, TypeAgain DEF RowsOK, BoxOK, db, hist
  <1>4. CASE StepRefused(r)
    <2>1. ReqsOK'
      BY <1>1, <1>2, <1>4, GotoOK DEF StepRefused
    <2> QED BY <1>1, <1>4, <2>1, TypeAgain DEF StepRefused, RowsOK, BoxOK, db, hist
  <1>5. CASE StepFails(r)
    <2>1. ReqsOK'
      BY <1>1, <1>2, <1>5, GotoOK DEF StepFails
    <2>2. spent' \in 0..MaxEvents
      BY <1>1, <1>5, SpentOK DEF StepFails
    <2>3. live' \subseteq Objects /\ left' \subseteq Objects
      BY <1>1, <1>5, NamedIsObject DEF StepFails, BoxOK
    <2> QED BY <1>1, <1>5, <2>1, <2>2, <2>3, TypeAgain DEF StepFails, RowsOK, BoxOK, db
  <1>6. CASE Record(r)
    <2>1. Goto(r, "undo") \/ Done(r)
      BY <1>6 DEF Record, RecordSync, RecordForward
    <2>2. ReqsOK'
      BY <1>1, <1>2, <2>1, GotoOK, DoneOK
    <2>3. Row(r) \in Rows /\ req[r].arts \subseteq Objects
      BY <1>1 DEF ReqsOK, Reqs, Row, Rows
    <2>4. sync' \in Rows /\ fwd' \in Rows /\ raced' \subseteq Objects
      BY <1>1, <1>6, <2>3 DEF Record, RecordSync, RecordForward, RowsOK, BoxOK
    <2> QED BY <1>1, <1>6, <2>2, <2>4, TypeAgain DEF Record, RowsOK, BoxOK
  <1> QED BY <1>3, <1>4, <1>5, <1>6

LEMMA TearSyncOK ==
    ASSUME ReqsOK, NEW r \in Requests, req' = TearSync(r, NoRow)
    PROVE  ReqsOK'
PROOF
  <1> DEFINE x == [req[r] EXCEPT !.pc = "tear", !.arts = req[r].sync.arts, !.fwd = NoRow]
  <1>1. ReqOK(x)
    BY NoReqOK DEF ReqsOK, ReqOK, Reqs, Rows, Pcs
  <1>2. req' = [req EXCEPT ![r] = x]
    BY DEF TearSync
  <1> HIDE DEF x
  <1> QED BY <1>1, <1>2, OneReq

LEMMA TearingTyped ==
    ASSUME TypeOK, NEW r \in Requests, Remove(r) \/ RemoveFails(r)
    PROVE  TypeOK'
PROOF
  <1>1. RowsOK /\ BoxOK /\ ReqsOK
    BY TypeParts
  <1>2. PICK o \in req[r].arts :
          /\ Tearing(r)
          /\ \/ /\ live' = live \ {o} /\ left' = left \ {o} /\ raced' = raced \ {o}
                /\ req' = [req EXCEPT ![r].arts = @ \ {o}]
                /\ UNCHANGED spent
             \/ /\ req' = [req EXCEPT ![r].arts = @ \ {o}, ![r].err = TRUE]
                /\ left' = left \/ (o \in live /\ left' = left \cup {o})
                /\ UNCHANGED <<live, raced>> /\ (UNCHANGED spent \/ Event)
    BY DEF Remove, RemoveFails
  <1> DEFINE y == [req[r] EXCEPT !.arts = @ \ {o}]
  <1> DEFINE x == [req[r] EXCEPT !.arts = @ \ {o}, !.err = TRUE]
  <1>3. ReqOK(x) /\ ReqOK(y)
    BY <1>1, <1>2 DEF ReqsOK, ReqOK, Reqs, Tearing, At
  <1>4. req' = [req EXCEPT ![r] = x] \/ req' = [req EXCEPT ![r] = y]
    BY <1>2
  <1> HIDE DEF x, y
  <1>5. ReqsOK'
    BY <1>1, <1>3, <1>4, OneReq
  <1>6. BoxOK'
    BY <1>1, <1>2, SpentOK DEF BoxOK
  <1>7. RowsOK'
    BY <1>1 DEF Remove, RemoveFails, RowsOK, db
  <1> QED BY <1>5, <1>6, <1>7, TypeAgain

LEMMA RemovingTyped ==
    ASSUME TypeOK, NEW r \in Requests,
           \/ Undone(r) \/ ReadForwards(r) \/ ForgetForward(r) \/ DeleteForward(r)
           \/ DropSync(r) \/ DeleteVlan(r)
    PROVE  TypeOK'
PROOF
  <1>1. RowsOK /\ BoxOK /\ ReqsOK
    BY TypeParts
  <1>2. CASE Undone(r)
    <2>1. ReqsOK'
      BY <1>1, <1>2, DoneOK DEF Undone
    <2> QED BY <1>1, <1>2, <2>1, TypeAgain DEF Undone, RowsOK, BoxOK, db, hist
  <1>3. CASE ReadForwards(r)
    <2> DEFINE x == [req[r] EXCEPT !.pc = "clear", !.arts = fwd.arts, !.fwd = fwd]
    <2>1. fwd \in Rows /\ fwd.arts \in SUBSET Objects /\ req[r] \in Reqs
      BY <1>1 DEF RowsOK, Rows, ReqsOK
    <2>2. ReqOK(x)
      BY <2>1 DEF ReqOK, Reqs, Pcs
    <2>3. req' = TearSync(r, NoRow) \/ req' = [req EXCEPT ![r] = x]
      BY <1>3 DEF ReadForwards
    <2> HIDE DEF x
    <2>4. ReqsOK'
      BY <1>1, <2>2, <2>3, OneReq, TearSyncOK
    <2> QED BY <1>1, <1>3, <2>4, TypeAgain DEF ReadForwards, RowsOK, BoxOK, db, hist
  <1>4. CASE ForgetForward(r)
    <2>1. ReqsOK'
      BY <1>1, <1>4, DoneOK, TearSyncOK DEF ForgetForward
    <2>2. fwd' \in Rows
      BY <1>1, <1>4, NoReqOK DEF ForgetForward, RowsOK
    <2> QED BY <1>1, <1>4, <2>1, <2>2, TypeAgain DEF ForgetForward, RowsOK, BoxOK, hist
  <1>5. CASE DeleteForward(r)
    <2>1. ReqsOK'
      BY <1>1, <1>5, DoneOK DEF DeleteForward
    <2>2. fwd' \in Rows /\ raced' \subseteq Objects
      BY <1>1, <1>5, NoReqOK DEF DeleteForward, RowsOK, BoxOK
    <2> QED BY <1>1, <1>5, <2>1, <2>2, TypeAgain DEF DeleteForward, RowsOK, BoxOK
  <1>6. CASE DropSync(r)
    <2>1. ReqsOK'
      BY <1>1, <1>6, DoneOK, GotoOK DEF DropSync, AfterDrop, Pcs
    <2>2. sync' \in Rows /\ raced' \subseteq Objects
      BY <1>1, <1>6, NoReqOK DEF DropSync, RowsOK, BoxOK
    <2> QED BY <1>1, <1>6, <2>1, <2>2, TypeAgain DEF DropSync, RowsOK, BoxOK
  <1>7. CASE DeleteVlan(r)
    <2>1. ReqsOK'
      BY <1>1, <1>7, DoneOK DEF DeleteVlan
    <2> QED BY <1>1, <1>7, <2>1, TypeAgain DEF DeleteVlan, RowsOK, BoxOK, hist
  <1> QED BY <1>2, <1>3, <1>4, <1>5, <1>6, <1>7

LEMMA RestartTyped ==
    ASSUME TypeOK, Restart
    PROVE  TypeOK'
PROOF
  <1>1. RowsOK /\ BoxOK /\ ReqsOK
    BY TypeParts
  <1> DEFINE x(r) == [NoReq EXCEPT !.kind = req[r].kind, !.pc = "done"]
  <1>2. req' = [r \in Requests |-> IF Running(r) THEN x(r) ELSE req[r]]
    BY DEF Restart
  <1>3. \A r \in Requests : ReqOK(x(r))
    BY <1>1, NoReqOK DEF ReqsOK, ReqOK, Reqs, NoReq, Pcs
  <1> HIDE DEF x
  <1>4. ReqsOK'
    BY <1>1, <1>2, <1>3 DEF ReqsOK, ReqOK
  <1>5. BoxOK'
    <2>1. spent' \in 0..MaxEvents
      BY <1>1, SpentOK DEF Restart
    <2>2. left' \subseteq left \cup live
      BY DEF Restart
    <2> QED BY <1>1, <2>1, <2>2 DEF Restart, BoxOK
  <1> QED BY <1>1, <1>4, <1>5, TypeAgain DEF Restart, RowsOK, db

\* Every reachable state is well typed, and a request that has not started or has ended
\* holds nothing, whatever failed (workflows/engine.ts).
THEOREM TypeCorrect == Spec => []TypeOK
PROOF
  <1>1. Init => TypeOK
    <2> SUFFICES ASSUME Init PROVE TypeOK
      OBVIOUS
    <2>1. ReqsOK
      BY NoReqOK DEF Init, ReqsOK, ReqOK
    <2>2. RowsOK /\ BoxOK
      BY NoReqOK, FirewallSyncAssumption DEF Init, RowsOK, BoxOK
    <2> QED BY <2>1, <2>2, TypeParts
  <1>2. TypeOK /\ [Next]_vars => TypeOK'
    <2> SUFFICES ASSUME TypeOK, [Next]_vars PROVE TypeOK'
      OBVIOUS
    <2>1. CASE UNCHANGED vars
      BY <2>1 DEF vars, db, hist, TypeOK, Running, At
    <2>2. CASE Restart
      BY <2>2, RestartTyped
    <2>3. ASSUME NEW r \in Requests, Start(r) \/ DeleteFirewall(r) \/ Step(r)
          PROVE  TypeOK'
      BY <2>3, StartTyped, CreatingTyped, TearingTyped, RemovingTyped DEF Step
    <2> QED BY <2>1, <2>2, <2>3 DEF Next
  <1> QED BY <1>1, <1>2, PTL DEF Spec

-----------------------------------------------------------------------------
(* The rows.                                                               *)

\* The inductive invariant: each row needs the ones it depends on.
IInv ==
    /\ fwd # NoRow => sync # NoRow
    /\ sync # NoRow => fw /\ vlan

\* Most steps are calls to the firewall, and leave the rows as they are.
LEMMA RowsKept ==
    ASSUME IInv, UNCHANGED db
    PROVE  IInv'
PROOF
  BY DEF IInv, db, NoRow

\* Starting a request reads rows; only deleting a firewall writes one.
LEMMA StartsKeep ==
    ASSUME IInv, NEW r \in Requests, Start(r) \/ DeleteFirewall(r)
    PROVE  IInv'
PROOF
  <1>1. CASE Start(r)
    <2>1. UNCHANGED db
      BY <1>1 DEF Start, StartSync, StartForward, StartUnsync, StartDeleteVlan,
                  StartDeleteForward, Begin
    <2> QED BY <2>1, RowsKept
  <1>2. CASE DeleteFirewall(r)
    BY <1>2 DEF DeleteFirewall, IInv, NoRow
  <1> QED BY <1>1, <1>2

\* A row is recorded only while the rows it needs are there.
LEMMA RecordKeeps ==
    ASSUME IInv, NEW r \in Requests, Record(r)
    PROVE  IInv'
PROOF
  <1>1. UNCHANGED <<fw, vlan>>
    BY DEF Record
  <1>2. CASE RecordSync(r)
    <2>1. UNCHANGED fwd /\ (UNCHANGED sync \/ (fw /\ vlan /\ sync = NoRow))
      BY <1>2 DEF RecordSync
    <2> QED BY <1>1, <2>1 DEF IInv, NoRow
  <1>3. CASE RecordForward(r)
    <2>1. UNCHANGED sync /\ (UNCHANGED fwd \/ (fw /\ sync # NoRow))
      BY <1>3 DEF RecordForward
    <2> QED BY <1>1, <2>1 DEF IInv, NoRow
  <1> QED BY <1>2, <1>3 DEF Record

\* A row is removed only when no row needs it any more.
LEMMA RemovalsKeep ==
    ASSUME IInv, NEW r \in Requests,
           ForgetForward(r) \/ DeleteForward(r) \/ DropSync(r) \/ DeleteVlan(r)
    PROVE  IInv'
PROOF
  <1>1. CASE ForgetForward(r) \/ DeleteForward(r)
    <2>1. UNCHANGED <<fw, vlan, sync>> /\ (fwd' = fwd \/ fwd' = NoRow)
      BY <1>1 DEF ForgetForward, DeleteForward
    <2> QED BY <2>1 DEF IInv, NoRow
  <1>2. CASE DropSync(r)
    <2>1. UNCHANGED <<fw, vlan, fwd>>
      BY <1>2 DEF DropSync
    <2>2. CASE req[r].err \/ fwd # NoRow
      <3>1. UNCHANGED sync
        BY <1>2, <2>2 DEF DropSync
      <3> QED BY <2>1, <3>1 DEF IInv, NoRow
    <2>3. CASE ~(req[r].err \/ fwd # NoRow)
      <3>1. sync' = NoRow
        BY <1>2, <2>3 DEF DropSync
      <3> QED BY <2>1, <2>3, <3>1 DEF IInv, NoRow
    <2> QED BY <2>2, <2>3
  <1>3. CASE DeleteVlan(r)
    BY <1>3 DEF DeleteVlan, IInv, NoRow
  <1> QED BY <1>1, <1>2, <1>3

\* The remaining steps of a request talk to the firewall.
LEMMA CallsKeep ==
    ASSUME IInv, NEW r \in Requests,
           \/ First(r) \/ Policy(r) \/ StepRefused(r) \/ StepFails(r)
           \/ Remove(r) \/ RemoveFails(r) \/ Undone(r) \/ ReadForwards(r)
    PROVE  IInv'
PROOF
  <1>1. UNCHANGED db
    BY DEF First, Policy, StepRefused, StepFails, Remove, RemoveFails, Undone, ReadForwards, db
  <1> QED BY <1>1, RowsKept

\* The rows depend on each other as the schema means them to, in every reachable state.
THEOREM Invariance == Spec => []IInv
PROOF
  <1>1. Init => IInv
    BY DEF Init, IInv
  <1>2. IInv /\ [Next]_vars => IInv'
    <2> SUFFICES ASSUME IInv, [Next]_vars PROVE IInv'
      OBVIOUS
    <2>1. CASE UNCHANGED vars
      BY <2>1, RowsKept DEF vars
    <2>2. CASE Restart
      BY <2>2, RowsKept DEF Restart
    <2>3. ASSUME NEW r \in Requests, Start(r) \/ DeleteFirewall(r) \/ Step(r)
          PROVE  IInv'
      BY <2>3, StartsKeep, RecordKeeps, RemovalsKeep, CallsKeep DEF Step
    <2> QED BY <2>1, <2>2, <2>3 DEF Next
  <1> QED BY <1>1, <1>2, PTL DEF Spec

\* routes/admin.ts:1791: the unsync and the creation of a forward race for the
\* sync row, and whoever comes second notices.
THEOREM ForwardsAreSynced == Spec => []ForwardHasSync
PROOF
  <1>1. IInv => ForwardHasSync
    BY DEF IInv, ForwardHasSync
  <1> QED BY <1>1, Invariance, PTL

-----------------------------------------------------------------------------
(* The objects.                                                            *)

\* The objects that are not left to the rows: history sets them aside, or a running
\* request is about to record them or to take them away again.
Held == left \cup raced \cup {o \in Objects : \E r \in Requests : Creating(r) /\ o \in req[r].arts}

LEMMA RecordedOrHeld == ASSUME TypeOK
                        PROVE  OnRecord \cup left \cup raced = sync.arts \cup fwd.arts \cup Held
PROOF
  BY TypeParts DEF OnRecord, Held, ReqsOK, Reqs

\* What a request of this kind, with this number, may create.
Own(kind, q) == {IF kind = "sync" THEN Iface ELSE Vip, q}

\* A row was recorded by a request that has ended, and so can never be recorded again.
OfRequest(row, kind, reqs) ==
    \/ row = NoRow
    \/ \E q \in Requests : /\ row.by = q /\ reqs[q].pc = "done" /\ reqs[q].kind = kind
                           /\ row.arts \subseteq Own(kind, q)

\* Each kind of request goes through its own steps.
PhaseOK(x, r) ==
    IF x.kind \in Creates
    THEN x.pc \in {"first", "policy", "record", "undo", "done"} /\ x.arts \subseteq Own(x.kind, r)
    ELSE x.pc \in {"new", "forwards", "clear", "tear", "final", "done"}

\* What a request has removed of the row it is to drop is not on the box, unless somebody
\* who answers for it created it anew.
ClearOK(x, row, box, held) ==
    x.pc = "clear" /\ ~x.err /\ row = x.fwd => (row.arts \ x.arts) \cap box \subseteq held

TearOK(x, row, box, held) ==
    x.pc = "tear" /\ ~x.err /\ row = x.sync => (row.arts \ x.arts) \cap box \subseteq held

RowsOfRequests ==
    /\ OfRequest(sync, "sync", req) /\ OfRequest(fwd, "forward", req)
    /\ \A r \in Requests : OfRequest(req[r].sync, "sync", req) /\ OfRequest(req[r].fwd, "forward", req)

RequestsOK == \A r \in Requests : /\ PhaseOK(req[r], r)
                                  /\ ClearOK(req[r], fwd, live, Held)
                                  /\ TearOK(req[r], sync, live, Held)

\* The inductive invariant.
OInv ==
    /\ RowsOfRequests
    /\ RequestsOK
    /\ live \subseteq sync.arts \cup fwd.arts \cup Held

\* A request that ends or goes on leaves what others recorded with whom it was.
LEMMA OwnersKept ==
    ASSUME NEW r \in Requests, NEW x, req \in [Requests -> Reqs], req' = [req EXCEPT ![r] = x],
           req[r].pc # "done"
    PROVE  \A row, kind : OfRequest(row, kind, req) => OfRequest(row, kind, req')
PROOF
  BY DEF OfRequest

LEMMA NobodysRow == ASSUME NEW reqs, NEW kind PROVE OfRequest(NoRow, kind, reqs)
PROOF
  BY DEF OfRequest

\* A step of request r, which x is after it.  A row it leaves alone has no object on the
\* box that nobody answers for any more; a row it writes nobody has read, or it is empty.
LEMMA StepKeeps ==
    ASSUME TypeOK, OInv, NEW r \in Requests, NEW x \in Reqs,
           req' = [req EXCEPT ![r] = x], req[r].pc # "done",
           PhaseOK(x, r), OfRequest(x.sync, "sync", req'), OfRequest(x.fwd, "forward", req'),
           ClearOK(x, fwd', live', Held'), TearOK(x, sync', live', Held'),
           OfRequest(sync', "sync", req'), OfRequest(fwd', "forward", req'),
           live' \subseteq sync'.arts \cup fwd'.arts \cup Held',
           \/ sync' = sync /\ (sync.arts \cap live') \ Held' \subseteq live \ Held
           \/ \A q \in Requests : sync' = req[q].sync => sync'.arts = {},
           \/ fwd' = fwd /\ (fwd.arts \cap live') \ Held' \subseteq live \ Held
           \/ \A q \in Requests : fwd' = req[q].fwd => fwd'.arts = {}
    PROVE  OInv'
PROOF
  <1>1. req \in [Requests -> Reqs]
    BY TypeParts DEF ReqsOK
  <1>2. req'[r] = x /\ \A q \in Requests \ {r} : req'[q] = req[q]
    BY <1>1
  <1>3. RowsOfRequests'
    <2>1. \A q \in Requests \ {r} : /\ OfRequest(req[q].sync, "sync", req')
                                    /\ OfRequest(req[q].fwd, "forward", req')
      BY <1>1, OwnersKept DEF OInv, RowsOfRequests
    <2> QED BY <1>2, <2>1 DEF RowsOfRequests
  <1>4. ASSUME NEW q \in Requests
        PROVE  /\ PhaseOK(req'[q], q)
               /\ ClearOK(req'[q], fwd', live', Held')
               /\ TearOK(req'[q], sync', live', Held')
    <2>1. CASE q = r
      BY <1>2, <2>1
    <2>2. CASE q # r
      <3>1. /\ PhaseOK(req[q], q)
            /\ ClearOK(req[q], fwd, live, Held)
            /\ TearOK(req[q], sync, live, Held)
        BY DEF OInv, RequestsOK
      <3>2. ClearOK(req[q], fwd', live', Held')
        BY <3>1 DEF ClearOK
      <3>3. TearOK(req[q], sync', live', Held')
        BY <3>1 DEF TearOK
      <3> QED BY <1>2, <2>2, <3>1, <3>2, <3>3
    <2> QED BY <2>1, <2>2
  <1> QED BY <1>3, <1>4 DEF OInv, RequestsOK

\* A step that leaves the rows alone, and after which no object on the box has lost who
\* answered for it.
LEMMA CallKeepsObjects ==
    ASSUME TypeOK, OInv, NEW r \in Requests, NEW x \in Reqs,
           req' = [req EXCEPT ![r] = x], req[r].pc # "done", UNCHANGED <<sync, fwd>>,
           PhaseOK(x, r), x.sync \in {NoRow, sync, req[r].sync}, x.fwd \in {NoRow, fwd, req[r].fwd},
           ClearOK(x, fwd', live', Held'), TearOK(x, sync', live', Held'),
           live' \ Held' \subseteq live \ Held
    PROVE  OInv'
PROOF
  <1>1. req \in [Requests -> Reqs]
    BY TypeParts DEF ReqsOK
  <1>2. /\ OfRequest(sync', "sync", req') /\ OfRequest(fwd', "forward", req')
        /\ OfRequest(x.sync, "sync", req') /\ OfRequest(x.fwd, "forward", req')
    BY <1>1, OwnersKept, NobodysRow DEF OInv, RowsOfRequests
  <1>3. live' \subseteq sync'.arts \cup fwd'.arts \cup Held'
    BY DEF OInv
  <1> QED BY <1>2, <1>3, StepKeeps

\* Nobody stops answering for an object before the request that made it lets it go.
LEMMA HeldGrows ==
    ASSUME req \in [Requests -> Reqs], NEW r \in Requests, NEW x,
           req' = [req EXCEPT ![r] = x], left \subseteq left', raced \subseteq raced',
           Creating(r) /\ req[r].arts # {} => x.kind \in Creates /\ req[r].arts \subseteq x.arts
    PROVE  Held \subseteq Held'
PROOF
  <1> SUFFICES ASSUME NEW o \in Objects, NEW q \in Requests, Creating(q), o \in req[q].arts
               PROVE  req'[q].kind \in Creates /\ o \in req'[q].arts
    BY DEF Held, Creating
  <1>1. CASE q = r
    BY <1>1 DEF Creating
  <1>2. CASE q # r
    BY <1>2 DEF Creating
  <1> QED BY <1>1, <1>2

\* A request that starts has nothing yet.
LEMMA BeginKeeps ==
    ASSUME TypeOK, OInv, NEW r \in Requests, NEW kind \in Kinds, NEW new, ReqOK(new),
           Begin(r, kind, new),
           IF kind \in Creates THEN new.pc = "first" /\ new.arts = {} ELSE new.pc \in {"forwards", "final"}
                                      \/ (new.pc = "clear" /\ new.arts = fwd.arts /\ new.fwd = fwd),
           new.sync \in {NoRow, sync}, new.fwd \in {NoRow, fwd}
    PROVE  OInv'
PROOF
  <1> DEFINE x == [new EXCEPT !.kind = kind]
  <1>1. /\ x \in Reqs /\ x.kind = kind /\ x.pc = new.pc /\ x.arts = new.arts
        /\ x.sync = new.sync /\ x.fwd = new.fwd
    BY DEF ReqOK, Reqs
  <1>2. req' = [req EXCEPT ![r] = x]
    BY DEF Begin
  <1> HIDE DEF x
  <1>3. PhaseOK(x, r)
    BY <1>1 DEF PhaseOK
  <1>4. UNCHANGED <<sync, fwd, live, left, raced>> /\ req[r].pc = "new"
    BY DEF Begin, db, hist, At
  <1>5. ClearOK(x, fwd', live', Held') /\ TearOK(x, sync', live', Held')
    BY <1>1, <1>4, <1>3 DEF ClearOK, TearOK, PhaseOK
  <1>6. req \in [Requests -> Reqs] /\ req[r].arts = {}
    BY <1>4, TypeParts DEF ReqsOK, ReqOK
  <1>7. Held \subseteq Held'
    BY <1>2, <1>4, <1>6, HeldGrows
  <1> QED BY <1>1, <1>2, <1>3, <1>4, <1>5, <1>7, CallKeepsObjects

LEMMA StartKeepsObjects ==
    ASSUME TypeOK, OInv, NEW r \in Requests, Start(r) \/ DeleteFirewall(r)
    PROVE  OInv'
PROOF
  <1>1. RowsOK /\ BoxOK /\ ReqsOK
    BY TypeParts
  <1>2. CASE StartSync(r) \/ StartForward(r)
    <2> DEFINE x == [NoReq EXCEPT !.pc = "first"]
    <2>1. ReqOK(x) /\ x.pc = "first" /\ x.arts = {} /\ x.sync = NoRow /\ x.fwd = NoRow
      BY NoReqOK DEF ReqOK, Reqs, NoReq, Pcs
    <2>2. \E kind \in Creates : Begin(r, kind, x)
      BY <1>2 DEF StartSync, StartForward, Creates
    <2> QED BY <2>1, <2>2, BeginKeeps DEF Kinds
  <1>3. CASE StartUnsync(r)
    <2> DEFINE x == [NoReq EXCEPT !.pc = "forwards", !.sync = sync]
    <2>1. ReqOK(x) /\ x.pc = "forwards" /\ x.sync = sync /\ x.fwd = NoRow
      BY <1>1, NoReqOK DEF RowsOK, ReqOK, Reqs, NoReq, Pcs
    <2>2. \E kind \in Kinds \ Creates : Begin(r, kind, x)
      BY <1>3 DEF StartUnsync, Kinds, Removes, Creates
    <2> QED BY <2>1, <2>2, BeginKeeps
  <1>4. CASE StartDeleteVlan(r)
    <2> DEFINE x == [NoReq EXCEPT !.pc = "final"]
    <2>1. ReqOK(x) /\ x.pc = "final" /\ x.sync = NoRow /\ x.fwd = NoRow
      BY NoReqOK DEF ReqOK, Reqs, NoReq, Pcs
    <2>2. \E kind \in Kinds \ Creates : Begin(r, kind, x)
      BY <1>4 DEF StartDeleteVlan, Kinds, Removes, Creates
    <2> QED BY <2>1, <2>2, BeginKeeps
  <1>5. CASE StartDeleteForward(r)
    <2> DEFINE x == [NoReq EXCEPT !.pc = "clear", !.arts = fwd.arts, !.fwd = fwd]
    <2>1. ReqOK(x) /\ x.pc = "clear" /\ x.arts = fwd.arts /\ x.sync = NoRow /\ x.fwd = fwd
      BY <1>1, NoReqOK DEF RowsOK, Rows, ReqOK, Reqs, NoReq, Pcs
    <2>2. \E kind \in Kinds \ Creates : Begin(r, kind, x)
      BY <1>5 DEF StartDeleteForward, Kinds, Creates
    <2> QED BY <2>1, <2>2, BeginKeeps
  <1>6. CASE DeleteFirewall(r)
    <2> DEFINE x == [NoReq EXCEPT !.kind = "delfw", !.pc = "done"]
    <2>1. /\ x \in Reqs /\ x.kind = "delfw" /\ x.pc = "done" /\ x.arts = {}
          /\ x.sync = NoRow /\ x.fwd = NoRow
      BY NoReqOK DEF ReqOK, Reqs, NoReq, Pcs, Kinds
    <2>2. req' = [req EXCEPT ![r] = x]
      BY <1>6 DEF DeleteFirewall
    <2> HIDE DEF x
    <2>3. PhaseOK(x, r)
      BY <2>1 DEF PhaseOK, Creates
    <2>4. UNCHANGED <<sync, fwd, live, left, raced>> /\ req[r].pc = "new"
      BY <1>6 DEF DeleteFirewall, hist, At
    <2>5. ClearOK(x, fwd', live', Held') /\ TearOK(x, sync', live', Held')
      BY <2>1 DEF ClearOK, TearOK
    <2>6. Held \subseteq Held'
      BY <1>1, <2>2, <2>4, HeldGrows DEF ReqsOK, ReqOK
    <2> QED BY <2>1, <2>2, <2>3, <2>4, <2>5, <2>6, CallKeepsObjects
  <1> QED BY <1>2, <1>3, <1>4, <1>5, <1>6 DEF Start

\* A request that only goes on, keeping what it holds.
LEMMA GotoKeepsObjects ==
    ASSUME TypeOK, OInv, NEW r \in Requests, NEW pc \in {"policy", "record", "undo", "final"},
           Goto(r, pc), req[r].pc # "done", IF pc = "final" THEN ~Creating(r) ELSE Creating(r),
           UNCHANGED <<sync, fwd, raced>>, left \subseteq left', live' \ left' \subseteq live
    PROVE  OInv'
PROOF
  <1> DEFINE x == [req[r] EXCEPT !.pc = pc]
  <1>1. ReqsOK
    BY TypeParts
  <1>2. /\ x \in Reqs /\ x.kind = req[r].kind /\ x.pc = pc /\ x.arts = req[r].arts
        /\ x.sync = req[r].sync /\ x.fwd = req[r].fwd
    BY <1>1 DEF ReqsOK, Reqs, Pcs
  <1>3. req' = [req EXCEPT ![r] = x]
    BY DEF Goto
  <1> HIDE DEF x
  <1>4. PhaseOK(req[r], r)
    BY DEF OInv, RequestsOK
  <1>5. PhaseOK(x, r)
    BY <1>2, <1>4 DEF PhaseOK, Creating
  <1>6. ClearOK(x, fwd', live', Held') /\ TearOK(x, sync', live', Held')
    BY <1>2 DEF ClearOK, TearOK
  <1>7. Held \subseteq Held'
    BY <1>1, <1>2, <1>3, HeldGrows DEF ReqsOK, Creating
  <1>8. left' \subseteq Held'
    BY DEF Held
  <1> QED BY <1>2, <1>3, <1>5, <1>6, <1>7, <1>8, CallKeepsObjects

\* A request that ends answering for nothing.
LEMMA DoneKeepsObjects ==
    ASSUME TypeOK, OInv, NEW r \in Requests, Done(r), req[r].pc # "done",
           Creating(r) => req[r].arts = {},
           UNCHANGED <<sync, fwd, live, left, raced>>
    PROVE  OInv'
PROOF
  <1> DEFINE x == [NoReq EXCEPT !.kind = req[r].kind, !.pc = "done"]
  <1>1. ReqsOK
    BY TypeParts
  <1>2. /\ x \in Reqs /\ x.pc = "done" /\ x.arts = {} /\ x.sync = NoRow /\ x.fwd = NoRow
    BY <1>1, NoReqOK DEF ReqsOK, ReqOK, Reqs, NoReq, Pcs
  <1>3. req' = [req EXCEPT ![r] = x]
    BY DEF Done
  <1> HIDE DEF x
  <1>4. PhaseOK(x, r)
    BY <1>2 DEF PhaseOK
  <1>5. ClearOK(x, fwd', live', Held') /\ TearOK(x, sync', live', Held')
    BY <1>2 DEF ClearOK, TearOK
  <1>6. Held \subseteq Held'
    BY <1>1, <1>3, HeldGrows DEF ReqsOK
  <1> QED BY <1>2, <1>3, <1>4, <1>5, <1>6, CallKeepsObjects

\* Which kind of request is at which step.
LEMMA Phases ==
    ASSUME OInv, NEW r \in Requests
    PROVE  /\ req[r].pc \in {"first", "policy", "record", "undo"} => Creating(r)
           /\ req[r].pc \in {"forwards", "clear", "tear", "final"} => ~Creating(r)
PROOF
  BY DEF OInv, RequestsOK, PhaseOK, Creating

\* What a request creates it answers for from then on.
LEMMA CreateKeepsObjects ==
    ASSUME TypeOK, OInv, NEW r \in Requests, NEW pc \in {"policy", "record"}, NEW o \in {Named(r), r},
           Create(r, o, pc), Creating(r), req[r].pc # "done",
           UNCHANGED <<sync, fwd, left, raced>>
    PROVE  OInv'
PROOF
  <1> DEFINE x == [req[r] EXCEPT !.pc = pc, !.arts = @ \cup {o}]
  <1>1. ReqsOK /\ o \in Objects
    BY TypeParts, NamedIsObject
  <1>2. /\ x \in Reqs /\ x.kind = req[r].kind /\ x.pc = pc /\ x.arts = req[r].arts \cup {o}
        /\ x.sync = req[r].sync /\ x.fwd = req[r].fwd
    BY <1>1 DEF ReqsOK, Reqs, Pcs
  <1>3. req' = [req EXCEPT ![r] = x] /\ live' = live \cup {o}
    BY DEF Create
  <1> HIDE DEF x
  <1>4. PhaseOK(req[r], r)
    BY DEF OInv, RequestsOK
  <1>5. PhaseOK(x, r)
    BY <1>2, <1>4 DEF PhaseOK, Creating, Own, Named
  <1>6. ClearOK(x, fwd', live', Held') /\ TearOK(x, sync', live', Held')
    BY <1>2 DEF ClearOK, TearOK
  <1>7. Held \subseteq Held'
    BY <1>1, <1>2, <1>3, HeldGrows DEF ReqsOK, Creating
  <1>8. o \in Held'
    <2>1. req'[r] = x
      BY <1>1, <1>3 DEF ReqsOK
    <2> QED BY <1>1, <1>2, <2>1 DEF Held, Creating
  <1> QED BY <1>2, <1>3, <1>5, <1>6, <1>7, <1>8, CallKeepsObjects

\* The calls that create: whatever comes of one, somebody answers for the object.
LEMMA CreatingKeepsObjects ==
    ASSUME TypeOK, OInv, NEW r \in Requests,
           First(r) \/ Policy(r) \/ StepRefused(r) \/ StepFails(r)
    PROVE  OInv'
PROOF
  <1>1. CASE First(r) \/ Policy(r)
    <2>1. /\ UNCHANGED <<sync, fwd, left, raced>>
          /\ req[r].pc \in {"first", "policy"}
      BY <1>1 DEF First, Policy, db, hist, At
    <2>2. \/ Create(r, Named(r), "policy") \/ Create(r, r, "record")
          \/ (Goto(r, "policy") \/ Goto(r, "record")) /\ UNCHANGED live
      BY <1>1 DEF First, Policy
    <2> QED BY <2>1, <2>2, Phases, CreateKeepsObjects, GotoKeepsObjects
  <1>2. CASE StepRefused(r)
    <2>1. UNCHANGED <<sync, fwd, live, left, raced>> /\ Goto(r, "undo") /\ req[r].pc \in {"first", "policy"}
      BY <1>2 DEF StepRefused, db, hist, At
    <2> QED BY <2>1, Phases, GotoKeepsObjects
  <1>3. CASE StepFails(r)
    <2>1. /\ UNCHANGED <<sync, fwd, raced>> /\ Goto(r, "undo") /\ req[r].pc \in {"first", "policy"}
          /\ left \subseteq left' /\ live' \ left' \subseteq live
      BY <1>3 DEF StepFails, db, At
    <2> QED BY <2>1, Phases, GotoKeepsObjects
  <1> QED BY <1>1, <1>2, <1>3

\* A removal takes the object off the box.
LEMMA RemoveKeepsObjects ==
    ASSUME TypeOK, OInv, NEW r \in Requests, Remove(r)
    PROVE  OInv'
PROOF
  <1>1. ReqsOK
    BY TypeParts
  <1>2. PICK o \in req[r].arts :
          /\ live' = live \ {o} /\ left' = left \ {o} /\ raced' = raced \ {o}
          /\ req' = [req EXCEPT ![r].arts = @ \ {o}]
    BY DEF Remove
  <1>3. UNCHANGED <<sync, fwd>> /\ req[r].pc \in {"undo", "clear", "tear"}
    BY DEF Remove, db, Tearing, At
  <1> DEFINE x == [req[r] EXCEPT !.arts = @ \ {o}]
  <1>4. /\ x \in Reqs /\ x.kind = req[r].kind /\ x.pc = req[r].pc /\ x.arts = req[r].arts \ {o}
        /\ x.sync = req[r].sync /\ x.fwd = req[r].fwd /\ x.err = req[r].err
    BY <1>1 DEF ReqsOK, Reqs
  <1>5. req' = [req EXCEPT ![r] = x]
    BY <1>2
  <1> HIDE DEF x
  <1>6. PhaseOK(req[r], r) /\ ClearOK(req[r], fwd, live, Held) /\ TearOK(req[r], sync, live, Held)
    BY DEF OInv, RequestsOK
  <1>7. PhaseOK(x, r)
    BY <1>4, <1>6 DEF PhaseOK
  <1>8. Held \ {o} \subseteq Held'
    <2> SUFFICES ASSUME NEW p \in Objects \ {o}, NEW q \in Requests, Creating(q), p \in req[q].arts
                 PROVE  req'[q].kind \in Creates /\ p \in req'[q].arts
      BY <1>2 DEF Held, Creating
    <2>1. CASE q = r
      BY <1>1, <1>4, <1>5, <2>1 DEF Creating, ReqsOK
    <2>2. CASE q # r
      BY <1>1, <1>5, <2>2 DEF Creating, ReqsOK
    <2> QED BY <2>1, <2>2
  <1>9. ClearOK(x, fwd', live', Held')
    BY <1>2, <1>3, <1>4, <1>6, <1>8 DEF ClearOK
  <1>10. TearOK(x, sync', live', Held')
    BY <1>2, <1>3, <1>4, <1>6, <1>8 DEF TearOK
  <1> QED BY <1>2, <1>3, <1>4, <1>5, <1>7, <1>8, <1>9, <1>10, CallKeepsObjects

\* A failed removal makes the request give up the row, or, of its own creation, the object.
LEMMA RemoveFailsKeepsObjects ==
    ASSUME TypeOK, OInv, NEW r \in Requests, RemoveFails(r)
    PROVE  OInv'
PROOF
  <1>1. ReqsOK
    BY TypeParts
  <1>2. PICK o \in req[r].arts :
          /\ req' = [req EXCEPT ![r].arts = @ \ {o}, ![r].err = TRUE]
          /\ left' = IF At(r, "undo") /\ o \in live THEN left \cup {o} ELSE left
    BY DEF RemoveFails
  <1>3. UNCHANGED <<sync, fwd, live, raced>> /\ req[r].pc \in {"undo", "clear", "tear"}
    BY DEF RemoveFails, db, Tearing, At
  <1> DEFINE x == [req[r] EXCEPT !.arts = @ \ {o}, !.err = TRUE]
  <1>4. /\ x \in Reqs /\ x.kind = req[r].kind /\ x.pc = req[r].pc /\ x.arts = req[r].arts \ {o}
        /\ x.sync = req[r].sync /\ x.fwd = req[r].fwd /\ x.err = TRUE
    BY <1>1 DEF ReqsOK, Reqs
  <1>5. req' = [req EXCEPT ![r] = x]
    BY <1>2
  <1> HIDE DEF x
  <1>6. PhaseOK(req[r], r)
    BY DEF OInv, RequestsOK
  <1>7. PhaseOK(x, r)
    BY <1>4, <1>6 DEF PhaseOK
  <1>8. live \cap Held \subseteq Held'
    <2>1. left \subseteq left' /\ (At(r, "undo") /\ o \in live => o \in left')
      BY <1>2
    <2> SUFFICES ASSUME NEW p \in Objects, p \in live, NEW q \in Requests, Creating(q), p \in req[q].arts
                 PROVE  p \in left' \/ (req'[q].kind \in Creates /\ p \in req'[q].arts)
      BY <1>3, <2>1 DEF Held, Creating
    <2>2. CASE q = r
      <3>1. At(r, "undo")
        BY <1>3, <2>2, Phases DEF At
      <3>2. req'[q] = x
        BY <1>1, <1>5, <2>2 DEF ReqsOK
      <3>3. p = o \/ p \in x.arts
        BY <1>4, <2>2
      <3> QED BY <1>4, <2>1, <2>2, <3>1, <3>2, <3>3 DEF Creating
    <2>3. CASE q # r
      BY <1>1, <1>5, <2>3 DEF Creating, ReqsOK
    <2> QED BY <2>2, <2>3
  <1>9. ClearOK(x, fwd', live', Held') /\ TearOK(x, sync', live', Held')
    BY <1>4 DEF ClearOK, TearOK
  <1>10. req[r].pc # "done" /\ live' \ Held' \subseteq live \ Held
    BY <1>3, <1>8
  <1> QED BY <1>3, <1>4, <1>5, <1>7, <1>9, <1>10, CallKeepsObjects

\* Whatever a request lets go, it lets go of no more than it held.
LEMMA HeldButOwn ==
    ASSUME req \in [Requests -> Reqs], NEW r \in Requests, NEW x,
           req' = [req EXCEPT ![r] = x], left \subseteq left', raced \subseteq raced'
    PROVE  /\ Held \subseteq Held' \cup req[r].arts
           /\ ~Creating(r) => Held \subseteq Held'
PROOF
  <1>1. ASSUME NEW o \in Objects, NEW q \in Requests, Creating(q), o \in req[q].arts, q # r
        PROVE  o \in Held'
    <2>1. req'[q] = req[q]
      BY <1>1
    <2> QED BY <1>1, <2>1 DEF Held, Creating
  <1>2. ASSUME NEW o \in Held, o \notin Held'
        PROVE  o \in req[r].arts /\ Creating(r)
    BY <1>1, <1>2 DEF Held
  <1> QED BY <1>2

LEMMA GotoNotDone ==
    ASSUME ReqsOK, NEW r \in Requests
    PROVE  ~(Goto(r, "undo") /\ Done(r))
PROOF
  <1>1. Goto(r, "undo") => req'[r].pc = "undo"
    BY DEF ReqsOK, Reqs, Goto
  <1>2. Done(r) => req'[r].pc = "done"
    BY DEF ReqsOK, Done, NoReq
  <1> QED BY <1>1, <1>2

\* The tracking row takes over what the request created, and nobody has read it yet.
LEMMA RecordSyncKeeps ==
    ASSUME TypeOK, OInv, NEW r \in Requests, Record(r), RecordSync(r)
    PROVE  OInv'
PROOF
  <1>1. ReqsOK /\ RowsOK
    BY TypeParts
  <1>2. UNCHANGED <<live, left>> /\ UNCHANGED fwd /\ req[r].pc = "record" /\ req[r].kind = "sync"
    BY DEF Record, RecordSync, At
  <1>3. Creating(r)
    BY <1>2 DEF Creating, Creates
  <1>4. CASE Goto(r, "undo")
    <2>1. UNCHANGED <<sync, raced>>
      BY <1>1, <1>2, <1>4, GotoNotDone DEF RecordSync
    <2> QED BY <1>2, <1>3, <1>4, <2>1, GotoKeepsObjects
  <1>5. CASE Done(r)
    <2>1. \/ sync = NoRow /\ sync' = Row(r) /\ raced' = raced
          \/ sync' = sync /\ raced' = raced \cup req[r].arts
      BY <1>1, <1>2, <1>5, GotoNotDone DEF RecordSync
    <2> DEFINE x == [NoReq EXCEPT !.kind = req[r].kind, !.pc = "done"]
    <2>2. /\ x \in Reqs /\ x.kind = "sync" /\ x.pc = "done" /\ x.arts = {}
          /\ x.sync = NoRow /\ x.fwd = NoRow
      BY <1>1, <1>2, NoReqOK DEF ReqsOK, ReqOK, Reqs, NoReq, Pcs
    <2>3. req' = [req EXCEPT ![r] = x]
      BY <1>5 DEF Done
    <2> HIDE DEF x
    <2>4. PhaseOK(x, r) /\ ClearOK(x, fwd', live', Held') /\ TearOK(x, sync', live', Held')
      BY <2>2 DEF PhaseOK, ClearOK, TearOK
    <2>5. Held \subseteq Held' \cup req[r].arts
      BY <1>1, <1>2, <2>1, <2>3, HeldButOwn DEF ReqsOK
    <2>6. req[r].arts \subseteq Own("sync", r)
      BY <1>2, <1>3 DEF OInv, RequestsOK, PhaseOK, Creating
    <2>7. req \in [Requests -> Reqs] /\ req'[r] = x
      BY <1>1, <2>3 DEF ReqsOK
    <2>8. OfRequest(fwd', "forward", req') /\ OfRequest(sync, "sync", req')
      BY <1>2, <2>3, <2>7, OwnersKept DEF OInv, RowsOfRequests
    <2>9. fwd.arts \cap req[r].arts = {}
      <3>1. OfRequest(fwd, "forward", req)
        BY DEF OInv, RowsOfRequests
      <3> QED BY <1>2, <2>6, <3>1 DEF OfRequest, Own, NoRow, Iface, Vip, Requests
    <2>10. (fwd.arts \cap live') \ Held' \subseteq live \ Held
      BY <1>2, <2>5, <2>9
    <2>11. CASE sync = NoRow /\ sync' = Row(r)
      <3>1. sync'.by = r /\ sync'.arts = req[r].arts
        BY <2>11 DEF Row
      <3>2. OfRequest(sync', "sync", req')
        BY <2>2, <2>6, <2>7, <3>1 DEF OfRequest
      <3>3. ASSUME NEW q \in Requests, sync' = req[q].sync
            PROVE  FALSE
        <4>1. OfRequest(req[q].sync, "sync", req)
          BY DEF OInv, RowsOfRequests
        <4> QED BY <1>2, <3>1, <3>3, <4>1 DEF OfRequest, NoRow, Requests
      <3>4. live' \subseteq sync'.arts \cup fwd'.arts \cup Held'
        BY <1>2, <2>5, <2>11, <3>1 DEF OInv, NoRow
      <3> QED BY <1>2, <2>2, <2>3, <2>4, <2>8, <2>10, <3>2, <3>3, <3>4, NobodysRow, StepKeeps
    <2>12. CASE sync' = sync /\ raced' = raced \cup req[r].arts
      <3>1. Held \subseteq Held'
        BY <2>5, <2>12 DEF Held
      <3> QED BY <1>2, <2>2, <2>3, <2>4, <2>12, <3>1, CallKeepsObjects
    <2> QED BY <2>1, <2>11, <2>12
  <1> QED BY <1>4, <1>5 DEF RecordSync

LEMMA RecordForwardKeeps ==
    ASSUME TypeOK, OInv, NEW r \in Requests, Record(r), RecordForward(r)
    PROVE  OInv'
PROOF
  <1>1. ReqsOK /\ RowsOK
    BY TypeParts
  <1>2. UNCHANGED <<live, left>> /\ UNCHANGED sync /\ req[r].pc = "record" /\ req[r].kind = "forward"
    BY DEF Record, RecordForward, At
  <1>3. Creating(r)
    BY <1>2 DEF Creating, Creates
  <1>4. CASE Goto(r, "undo")
    <2>1. UNCHANGED <<fwd, raced>>
      BY <1>1, <1>2, <1>4, GotoNotDone DEF RecordForward
    <2> QED BY <1>2, <1>3, <1>4, <2>1, GotoKeepsObjects
  <1>5. CASE Done(r)
    <2>1. \/ fwd = NoRow /\ fwd' = Row(r) /\ raced' = raced
          \/ fwd' = fwd /\ raced' = raced \cup req[r].arts
      BY <1>1, <1>2, <1>5, GotoNotDone DEF RecordForward
    <2> DEFINE x == [NoReq EXCEPT !.kind = req[r].kind, !.pc = "done"]
    <2>2. /\ x \in Reqs /\ x.kind = "forward" /\ x.pc = "done" /\ x.arts = {}
          /\ x.sync = NoRow /\ x.fwd = NoRow
      BY <1>1, <1>2, NoReqOK DEF ReqsOK, ReqOK, Reqs, NoReq, Pcs
    <2>3. req' = [req EXCEPT ![r] = x]
      BY <1>5 DEF Done
    <2> HIDE DEF x
    <2>4. PhaseOK(x, r) /\ ClearOK(x, fwd', live', Held') /\ TearOK(x, sync', live', Held')
      BY <2>2 DEF PhaseOK, ClearOK, TearOK
    <2>5. Held \subseteq Held' \cup req[r].arts
      BY <1>1, <1>2, <2>1, <2>3, HeldButOwn DEF ReqsOK
    <2>6. req[r].arts \subseteq Own("forward", r)
      BY <1>2, <1>3 DEF OInv, RequestsOK, PhaseOK, Creating
    <2>7. req \in [Requests -> Reqs] /\ req'[r] = x
      BY <1>1, <2>3 DEF ReqsOK
    <2>8. OfRequest(sync', "sync", req') /\ OfRequest(fwd, "forward", req')
      BY <1>2, <2>3, <2>7, OwnersKept DEF OInv, RowsOfRequests
    <2>9. sync.arts \cap req[r].arts = {}
      <3>1. OfRequest(sync, "sync", req)
        BY DEF OInv, RowsOfRequests
      <3> QED BY <1>2, <2>6, <3>1 DEF OfRequest, Own, NoRow, Iface, Vip, Requests
    <2>10. (sync.arts \cap live') \ Held' \subseteq live \ Held
      BY <1>2, <2>5, <2>9
    <2>11. CASE fwd = NoRow /\ fwd' = Row(r)
      <3>1. fwd'.by = r /\ fwd'.arts = req[r].arts
        BY <2>11 DEF Row
      <3>2. OfRequest(fwd', "forward", req')
        BY <2>2, <2>6, <2>7, <3>1 DEF OfRequest
      <3>3. ASSUME NEW q \in Requests, fwd' = req[q].fwd
            PROVE  FALSE
        <4>1. OfRequest(req[q].fwd, "forward", req)
          BY DEF OInv, RowsOfRequests
        <4> QED BY <1>2, <3>1, <3>3, <4>1 DEF OfRequest, NoRow, Requests
      <3>4. live' \subseteq sync'.arts \cup fwd'.arts \cup Held'
        BY <1>2, <2>5, <2>11, <3>1 DEF OInv, NoRow
      <3> QED BY <1>2, <2>2, <2>3, <2>4, <2>8, <2>10, <3>2, <3>3, <3>4, NobodysRow, StepKeeps
    <2>12. CASE fwd' = fwd /\ raced' = raced \cup req[r].arts
      <3>1. Held \subseteq Held'
        BY <2>5, <2>12 DEF Held
      <3> QED BY <1>2, <2>2, <2>3, <2>4, <2>12, <3>1, CallKeepsObjects
    <2> QED BY <2>1, <2>11, <2>12
  <1> QED BY <1>4, <1>5 DEF RecordForward

\* A row is dropped when what it records is off the box, or another's row is set aside.
LEMMA DropsKeepObjects ==
    ASSUME TypeOK, OInv, NEW r \in Requests, NEW x \in Reqs,
           req' = [req EXCEPT ![r] = x], req[r].pc \in {"clear", "tear"}, PhaseOK(x, r),
           x.sync \in {NoRow, req[r].sync}, x.fwd \in {NoRow, req[r].fwd},
           UNCHANGED <<live, left>>, raced \subseteq raced',
           sync' \in {sync, NoRow}, fwd' \in {fwd, NoRow},
           sync' # sync => sync.arts \cap live \subseteq Held \cup raced',
           fwd' # fwd => fwd.arts \cap live \subseteq Held \cup raced',
           ClearOK(x, fwd', live, {}), TearOK(x, sync', live, {})
    PROVE  OInv'
PROOF
  <1>1. req \in [Requests -> Reqs] /\ ~Creating(r)
    BY TypeParts, Phases DEF ReqsOK
  <1>2. Held \cup raced' \subseteq Held'
    BY <1>1, HeldButOwn DEF Held
  <1>3. ClearOK(x, fwd', live', Held') /\ TearOK(x, sync', live', Held')
    BY DEF ClearOK, TearOK
  <1>4. OfRequest(sync', "sync", req') /\ OfRequest(fwd', "forward", req')
    BY <1>1, OwnersKept, NobodysRow DEF OInv, RowsOfRequests
  <1>5. OfRequest(x.sync, "sync", req') /\ OfRequest(x.fwd, "forward", req')
    BY <1>1, OwnersKept, NobodysRow DEF OInv, RowsOfRequests
  <1>6. live' \subseteq sync'.arts \cup fwd'.arts \cup Held'
    BY <1>2 DEF OInv
  <1>7. \/ sync' = sync /\ (sync.arts \cap live') \ Held' \subseteq live \ Held
        \/ \A q \in Requests : sync' = req[q].sync => sync'.arts = {}
    BY <1>2 DEF NoRow
  <1>8. \/ fwd' = fwd /\ (fwd.arts \cap live') \ Held' \subseteq live \ Held
        \/ \A q \in Requests : fwd' = req[q].fwd => fwd'.arts = {}
    BY <1>2 DEF NoRow
  <1> QED BY <1>3, <1>4, <1>5, <1>6, <1>7, <1>8, StepKeeps

\* What a removing request is after its last step on a row: ended, or at the next row.
LEMMA AfterRow ==
    ASSUME ReqsOK, NEW r \in Requests, ~Creating(r)
    PROVE  /\ Done(r) => \E x \in Reqs :
                /\ req' = [req EXCEPT ![r] = x] /\ x.pc = "done" /\ PhaseOK(x, r)
                /\ x.sync = NoRow /\ x.fwd = NoRow
           /\ Goto(r, "final") => \E x \in Reqs :
                /\ req' = [req EXCEPT ![r] = x] /\ x.pc = "final" /\ PhaseOK(x, r)
                /\ x.sync = req[r].sync /\ x.fwd = req[r].fwd
           /\ req' = TearSync(r, NoRow) => \E x \in Reqs :
                /\ req' = [req EXCEPT ![r] = x] /\ x.pc = "tear" /\ PhaseOK(x, r)
                /\ x.sync = req[r].sync /\ x.fwd = NoRow /\ x.arts = x.sync.arts
PROOF
  <1>1. req[r] \in Reqs /\ req[r].kind \notin Creates
    BY DEF ReqsOK, Creating
  <1>2. ASSUME Done(r)
        PROVE  \E x \in Reqs : /\ req' = [req EXCEPT ![r] = x] /\ x.pc = "done" /\ PhaseOK(x, r)
                               /\ x.sync = NoRow /\ x.fwd = NoRow
    <2> DEFINE x == [NoReq EXCEPT !.kind = req[r].kind, !.pc = "done"]
    <2>1. x \in Reqs /\ x.pc = "done" /\ x.arts = {} /\ x.sync = NoRow /\ x.fwd = NoRow
      BY <1>1, NoReqOK DEF ReqOK, Reqs, NoReq, Pcs
    <2>2. req' = [req EXCEPT ![r] = x]
      BY <1>2 DEF Done
    <2> HIDE DEF x
    <2> QED BY <2>1, <2>2 DEF PhaseOK
  <1>3. ASSUME Goto(r, "final")
        PROVE  \E x \in Reqs : /\ req' = [req EXCEPT ![r] = x] /\ x.pc = "final" /\ PhaseOK(x, r)
                               /\ x.sync = req[r].sync /\ x.fwd = req[r].fwd
    <2> DEFINE x == [req[r] EXCEPT !.pc = "final"]
    <2>1. /\ x \in Reqs /\ x.kind = req[r].kind /\ x.pc = "final"
          /\ x.sync = req[r].sync /\ x.fwd = req[r].fwd
      BY <1>1 DEF Reqs, Pcs
    <2>2. req' = [req EXCEPT ![r] = x]
      BY <1>3 DEF Goto
    <2> HIDE DEF x
    <2> QED BY <1>1, <2>1, <2>2 DEF PhaseOK
  <1>4. ASSUME req' = TearSync(r, NoRow)
        PROVE  \E x \in Reqs : /\ req' = [req EXCEPT ![r] = x] /\ x.pc = "tear" /\ PhaseOK(x, r)
                               /\ x.sync = req[r].sync /\ x.fwd = NoRow /\ x.arts = x.sync.arts
    <2> DEFINE x == [req[r] EXCEPT !.pc = "tear", !.arts = req[r].sync.arts, !.fwd = NoRow]
    <2>1. /\ x \in Reqs /\ x.kind = req[r].kind /\ x.pc = "tear"
          /\ x.sync = req[r].sync /\ x.fwd = NoRow /\ x.arts = x.sync.arts
      BY <1>1, NoReqOK DEF Reqs, Rows, Pcs
    <2>2. req' = [req EXCEPT ![r] = x]
      BY <1>4 DEF TearSync
    <2> HIDE DEF x
    <2> QED BY <1>1, <2>1, <2>2 DEF PhaseOK
  <1> QED BY <1>2, <1>3, <1>4

\* The last step on a row: everything it records was removed, or the row stays.
LEMMA RowStepsKeepObjects ==
    ASSUME TypeOK, OInv, NEW r \in Requests, ForgetForward(r) \/ DeleteForward(r) \/ DropSync(r)
    PROVE  OInv'
PROOF
  <1>1. ReqsOK /\ RowsOK
    BY TypeParts
  <1>2. /\ UNCHANGED <<live, left>> /\ req[r].arts = {} /\ req[r].pc \in {"clear", "tear"}
        /\ ~Creating(r)
    BY Phases DEF ForgetForward, DeleteForward, DropSync, hist, At
  <1>3. ClearOK(req[r], fwd, live, Held) /\ TearOK(req[r], sync, live, Held)
    BY DEF OInv, RequestsOK
  <1>4. CASE Done(r) /\ UNCHANGED <<sync, fwd, raced>>
    BY <1>2, <1>4, DoneKeepsObjects
  <1>5. CASE ForgetForward(r) /\ ~req[r].err
    <2>1. /\ At(r, "clear") /\ UNCHANGED <<sync, raced>> /\ req' = TearSync(r, NoRow)
          /\ fwd' = IF fwd = req[r].fwd THEN NoRow ELSE fwd
      BY <1>5 DEF ForgetForward, hist
    <2>2. PICK x \in Reqs : /\ req' = [req EXCEPT ![r] = x] /\ x.pc = "tear" /\ PhaseOK(x, r)
                            /\ x.sync = req[r].sync /\ x.fwd = NoRow /\ x.arts = x.sync.arts
      BY <1>1, <1>2, <2>1, AfterRow
    <2>3. ClearOK(x, fwd', live, {}) /\ TearOK(x, sync', live, {})
      BY <2>2 DEF ClearOK, TearOK
    <2>4. fwd' # fwd => fwd.arts \cap live \subseteq Held
      BY <1>2, <1>3, <1>5, <2>1 DEF ClearOK, At
    <2> QED BY <1>2, <2>1, <2>2, <2>3, <2>4, DropsKeepObjects
  <1>6. CASE DeleteForward(r) /\ ~req[r].err
    <2>1. /\ At(r, "clear") /\ UNCHANGED sync /\ Done(r) /\ fwd' = NoRow
          /\ raced' = IF fwd = req[r].fwd THEN raced ELSE raced \cup (fwd.arts \cap live)
      BY <1>6 DEF DeleteForward
    <2>2. PICK x \in Reqs : /\ req' = [req EXCEPT ![r] = x] /\ x.pc = "done" /\ PhaseOK(x, r)
                            /\ x.sync = NoRow /\ x.fwd = NoRow
      BY <1>1, <1>2, <2>1, AfterRow
    <2>3. ClearOK(x, fwd', live, {}) /\ TearOK(x, sync', live, {})
      BY <2>2 DEF ClearOK, TearOK
    <2>4. fwd.arts \cap live \subseteq Held \cup raced'
      BY <1>2, <1>3, <1>6, <2>1 DEF ClearOK, At
    <2> QED BY <1>2, <2>1, <2>2, <2>3, <2>4, DropsKeepObjects
  <1>7. CASE DropSync(r) /\ ~req[r].err /\ fwd = NoRow
    <2>1. /\ At(r, "tear") /\ UNCHANGED fwd /\ (Done(r) \/ Goto(r, "final")) /\ sync' = NoRow
          /\ raced' = IF sync = req[r].sync THEN raced ELSE raced \cup (sync.arts \cap live)
      BY <1>7 DEF DropSync, AfterDrop
    <2>2. PICK x \in Reqs : /\ req' = [req EXCEPT ![r] = x] /\ x.pc \in {"done", "final"} /\ PhaseOK(x, r)
                            /\ x.sync \in {NoRow, req[r].sync} /\ x.fwd \in {NoRow, req[r].fwd}
      <3>1. CASE Done(r)
        BY <1>1, <1>2, <3>1, AfterRow
      <3>2. CASE Goto(r, "final")
        BY <1>1, <1>2, <3>2, AfterRow
      <3> QED BY <2>1, <3>1, <3>2
    <2>3. ClearOK(x, fwd', live, {}) /\ TearOK(x, sync', live, {})
      BY <2>2 DEF ClearOK, TearOK
    <2>4. sync.arts \cap live \subseteq Held \cup raced'
      BY <1>2, <1>3, <1>7, <2>1 DEF TearOK, At
    <2> QED BY <1>2, <2>1, <2>2, <2>3, <2>4, DropsKeepObjects
  <1> QED BY <1>4, <1>5, <1>6, <1>7 DEF ForgetForward, DeleteForward, DropSync, hist

\* The request has read the rows it is to remove, and has removed nothing of them yet.
LEMMA ReadsKeepObjects ==
    ASSUME TypeOK, OInv, NEW r \in Requests, ReadForwards(r)
    PROVE  OInv'
PROOF
  <1>1. ReqsOK /\ RowsOK
    BY TypeParts
  <1>2. UNCHANGED <<sync, fwd, live, left, raced>> /\ req[r].pc = "forwards" /\ ~Creating(r)
    BY Phases DEF ReadForwards, db, hist, At
  <1>3. PICK x \in Reqs :
          /\ req' = [req EXCEPT ![r] = x] /\ PhaseOK(x, r) /\ x.sync = req[r].sync
          /\ \/ x.pc = "tear" /\ x.fwd = NoRow /\ x.arts = x.sync.arts
             \/ x.pc = "clear" /\ x.fwd = fwd /\ x.arts = fwd.arts
    <2>1. CASE req' = TearSync(r, NoRow)
      BY <1>1, <1>2, <2>1, AfterRow
    <2>2. CASE req' = [req EXCEPT ![r].pc = "clear", ![r].arts = fwd.arts, ![r].fwd = fwd]
      <3> DEFINE x == [req[r] EXCEPT !.pc = "clear", !.arts = fwd.arts, !.fwd = fwd]
      <3>1. /\ x \in Reqs /\ x.kind = req[r].kind /\ x.pc = "clear" /\ x.arts = fwd.arts
            /\ x.sync = req[r].sync /\ x.fwd = fwd
        <4>1. fwd \in Rows /\ fwd.arts \in SUBSET Objects /\ req[r] \in Reqs
          BY <1>1 DEF RowsOK, Rows, ReqsOK
        <4> QED BY <4>1 DEF Reqs, Pcs
      <3>2. req' = [req EXCEPT ![r] = x]
        BY <2>2
      <3> HIDE DEF x
      <3>3. PhaseOK(x, r)
        BY <1>2, <3>1 DEF PhaseOK, Creating
      <3> QED BY <3>1, <3>2, <3>3
    <2> QED BY <2>1, <2>2 DEF ReadForwards
  <1>4. ClearOK(x, fwd', live', Held') /\ TearOK(x, sync', live', Held')
    BY <1>2, <1>3 DEF ClearOK, TearOK
  <1>5. Held \subseteq Held'
    BY <1>1, <1>2, <1>3, HeldGrows DEF ReqsOK
  <1> QED BY <1>2, <1>3, <1>4, <1>5, CallKeepsObjects

\* A dead process holds nothing, and what its requests had created is set aside.
LEMMA RestartKeepsObjects ==
    ASSUME TypeOK, OInv, Restart
    PROVE  OInv'
PROOF
  <1>1. ReqsOK
    BY TypeParts
  <1>2. /\ UNCHANGED <<sync, fwd, live, raced>>
        /\ left' = left \cup (live \cap UNION {req[r].arts : r \in {q \in Requests : Creating(q)}})
    BY DEF Restart, db
  <1> DEFINE ended(r) == [NoReq EXCEPT !.kind = req[r].kind, !.pc = "done"]
  <1>3. req' = [r \in Requests |-> IF Running(r) THEN ended(r) ELSE req[r]]
    BY DEF Restart
  <1>4. \A r \in Requests : /\ ended(r).kind = req[r].kind /\ ended(r).pc = "done"
                            /\ ended(r).arts = {} /\ ended(r).sync = NoRow /\ ended(r).fwd = NoRow
    BY DEF NoReq
  <1> HIDE DEF ended
  <1>5. \A r \in Requests : /\ req'[r].kind = req[r].kind
                            /\ \/ req'[r] = req[r] /\ req[r].pc \in {"new", "done"}
                               \/ /\ req'[r].pc = "done" /\ req'[r].arts = {} /\ req[r].pc # "done"
                                  /\ req'[r].sync = NoRow /\ req'[r].fwd = NoRow
    BY <1>3, <1>4 DEF Running, At
  <1>6. live \cap Held \subseteq Held'
    BY <1>2 DEF Held, Creating
  <1>7. \A row, kind : OfRequest(row, kind, req) => OfRequest(row, kind, req')
    BY <1>5 DEF OfRequest
  <1>8. RowsOfRequests'
    <2>1. OfRequest(sync', "sync", req') /\ OfRequest(fwd', "forward", req')
      BY <1>2, <1>7 DEF OInv, RowsOfRequests
    <2>2. ASSUME NEW r \in Requests
          PROVE  OfRequest(req'[r].sync, "sync", req') /\ OfRequest(req'[r].fwd, "forward", req')
      <3>1. CASE req'[r] = req[r]
        BY <1>7, <3>1 DEF OInv, RowsOfRequests
      <3>2. CASE req'[r].sync = NoRow /\ req'[r].fwd = NoRow
        BY <3>2, NobodysRow
      <3> QED BY <1>5, <3>1, <3>2
    <2> QED BY <2>1, <2>2 DEF RowsOfRequests
  <1>9. RequestsOK'
    <2> SUFFICES ASSUME NEW r \in Requests
                 PROVE  /\ PhaseOK(req'[r], r)
                        /\ ClearOK(req'[r], fwd', live', Held')
                        /\ TearOK(req'[r], sync', live', Held')
      BY DEF RequestsOK
    <2>1. PhaseOK(req[r], r)
      BY DEF OInv, RequestsOK
    <2>2. req'[r].pc \in {"new", "done"}
      BY <1>5
    <2>3. PhaseOK(req'[r], r)
      BY <1>5, <2>1 DEF PhaseOK
    <2> QED BY <2>2, <2>3 DEF ClearOK, TearOK
  <1>10. live' \subseteq sync'.arts \cup fwd'.arts \cup Held'
    BY <1>2, <1>6 DEF OInv
  <1> QED BY <1>8, <1>9, <1>10 DEF OInv

\* routes/admin.ts:1773: every object on the firewall is on record or of a running
\* request, unless a removal failed, an answer or the process was lost, or another
\* request of the same kind took the row.
THEOREM ObjectsAreOnRecord == Spec => []NothingLiveUnrecorded
PROOF
  <1>1. Init => OInv
    <2> SUFFICES ASSUME Init PROVE OInv
      OBVIOUS
    <2>1. RowsOfRequests
      BY DEF Init, RowsOfRequests, OfRequest, NoReq
    <2>2. ASSUME NEW r \in Requests
          PROVE  /\ PhaseOK(req[r], r)
                 /\ ClearOK(req[r], fwd, live, Held)
                 /\ TearOK(req[r], sync, live, Held)
      <3>1. req[r].kind = "none" /\ req[r].pc = "new"
        BY DEF Init, NoReq
      <3> QED BY <3>1 DEF PhaseOK, ClearOK, TearOK, Creates
    <2> QED BY <2>1, <2>2 DEF Init, OInv, RequestsOK
  <1>2. TypeOK /\ OInv /\ [Next]_vars => OInv'
    <2> SUFFICES ASSUME TypeOK, OInv, [Next]_vars PROVE OInv'
      OBVIOUS
    <2>1. CASE UNCHANGED vars
      BY <2>1 DEF vars, db, hist, OInv, RowsOfRequests, RequestsOK, Held, Creating
    <2>2. CASE Restart
      BY <2>2, RestartKeepsObjects
    <2>3. ASSUME NEW r \in Requests, Start(r) \/ DeleteFirewall(r)
          PROVE  OInv'
      BY <2>3, StartKeepsObjects
    <2>4. ASSUME NEW r \in Requests, Step(r)
          PROVE  OInv'
      <3>1. CASE Record(r)
        BY <3>1, RecordSyncKeeps, RecordForwardKeeps DEF Record
      <3>2. CASE Undone(r)
        BY <3>2, DoneKeepsObjects DEF Undone, db, hist, At
      <3>3. CASE DeleteVlan(r)
        <4>1. req[r].pc = "final" /\ ~Creating(r)
          BY <3>3, Phases DEF DeleteVlan, At
        <4> QED BY <3>3, <4>1, DoneKeepsObjects DEF DeleteVlan, hist
      <3>4. CASE First(r) \/ Policy(r) \/ StepRefused(r) \/ StepFails(r)
        BY <3>4, CreatingKeepsObjects
      <3>5. CASE Remove(r) \/ RemoveFails(r) \/ ReadForwards(r)
        BY <3>5, RemoveKeepsObjects, RemoveFailsKeepsObjects, ReadsKeepObjects
      <3>6. CASE ForgetForward(r) \/ DeleteForward(r) \/ DropSync(r)
        BY <3>6, RowStepsKeepObjects
      <3> QED BY <2>4, <3>1, <3>2, <3>3, <3>4, <3>5, <3>6 DEF Step
    <2> QED BY <2>1, <2>2, <2>3, <2>4 DEF Next
  <1>3. TypeOK /\ OInv => NothingLiveUnrecorded
    BY RecordedOrHeld DEF OInv, NothingLiveUnrecorded
  <1> QED BY <1>1, <1>2, <1>3, TypeCorrect, PTL DEF Spec

\* workflows/runner.ts:11, the part of DeletedLeavesNothing that needs no fairness: once the
\* firewall or the VLAN is deleted and no request is creating objects any more, none is left
\* on the firewall but those set aside.
THEOREM NothingOutlivesItsOwner ==
    Spec => []((~fw \/ ~vlan) /\ (\A r \in Requests : Creating(r) => ~Running(r))
                 => live \subseteq left \cup raced)
PROOF
  <1>1. ASSUME TypeOK, IInv, NothingLiveUnrecorded, ~fw \/ ~vlan,
               \A r \in Requests : Creating(r) => ~Running(r)
        PROVE  live \subseteq left \cup raced
    <2>1. sync = NoRow /\ fwd = NoRow
      BY <1>1 DEF IInv
    <2>2. \A r \in Requests : Creating(r) => req[r].arts = {}
      BY <1>1 DEF TypeOK
    <2>3. OnRecord = {}
      BY <2>1, <2>2 DEF OnRecord, NoRow
    <2> QED BY <1>1, <2>3 DEF NothingLiveUnrecorded
  <1> QED BY <1>1, TypeCorrect, Invariance, ObjectsAreOnRecord, PTL

=============================================================================
