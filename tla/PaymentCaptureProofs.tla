------------------------ MODULE PaymentCaptureProofs ------------------------
(***************************************************************************)
(* The ledger follows PayPal, a payment shown as failed took no money, one *)
(* shown as verified is posted, and an event has one worker: for any       *)
(* refunds, workers, retries and failures.  Then the months the money pays *)
(* for: nothing is lost or counted twice, for any amounts.                 *)
(***************************************************************************)
EXTENDS MonthAllocation, PaymentCapture, FiniteSetTheorems, WellFoundedInduction, TLAPS

Pcs == {"idle", "order", "claim", "capture", "unknown", "readback", "reclaim", "detail", "post",
        "refund", "cover", "list", "each", "record", "count", "mark", "final", "getRefund", "known",
        "hold", "deny", "close", "done"}
Jobs == {"none", "capture", "reconcile"} \cup Events
Work == [job : Jobs, pc : Pcs, st : IntentStatus \cup {"none"}, tries : 0..MaxTries, seen : Reported,
         ok : BOOLEAN, todo : SUBSET Refunds, total : -1..Cardinality(Refunds), res : BOOLEAN]

\* Where a worker stands once it has read the capture, and once it has posted it.
Posted == {"refund", "cover", "list", "each", "record", "count", "mark", "final"}
Ingesting == {"detail", "post"} \cup Posted

\* The parts of the type invariant.
ProviderOK ==
    /\ order \in {"created", "approved", "voided"} /\ cap \in {"none", "pending", "completed", "declined"}
    /\ fee \in BOOLEAN /\ refund \in [Refunds -> {"none", "pending", "completed"}]
IntentOK == intent \in [st : IntentStatus, tries : 0..MaxTries]
LedgerOK ==
    /\ receipt \in {"none", "net_unresolved", "posted"} /\ posted \subseteq Refunds
    /\ cover \in [st : {"none", "net_unresolved", "resolved"}, seen : Reported]
HoldOK == hold \in {"none", "open", "completed", "denied"}
InboxOK == inbox \in [Events -> InboxStatus]
SpentOK == spent \in [requests : 0..MaxRequests, faults : 0..MaxFaults]

\* What a worker does belongs to its job.
JobFits(v) ==
    /\ v.pc = "idle" => v.job = "none"
    /\ v.pc \in {"order", "claim", "capture", "unknown", "readback", "reclaim"} => v.job \in {"capture", "reconcile"}
    /\ v.pc \in Ingesting => v.job \in {"capture", "reconcile", "completed"} \cup Refunds
    /\ v.pc \in {"getRefund", "refund"} => v.job \in Refunds
    /\ v.pc = "known" => v.job = "pending"
    /\ v.pc = "hold" => v.job \in {"pending", "denied"}
    /\ v.pc = "deny" => v.job = "denied"
    /\ v.pc = "close" => v.job = "completed"
    /\ v.pc = "done" => v.job \in Events
    /\ v.pc = "reclaim" => v.tries < MaxTries

\* What a worker has seen is still so, and will be after this step.
SeenHolds(v) ==
    /\ v.pc \in Ingesting => cap = "completed" /\ (v.job \in Refunds => refund[v.job] = "completed")
    /\ v.pc \in Posted => receipt # "none" /\ (v.ok => receipt = "posted")
SeenAfter(v) ==
    /\ v.pc \in Ingesting => cap' = "completed" /\ (v.job \in Refunds => refund'[v.job] = "completed")
    /\ v.pc \in Posted => receipt' # "none" /\ (v.ok => receipt' = "posted")

\* The refunds it still has to record are complete.
ListHolds(v) == \A r \in v.todo : refund[r] = "completed"

WorkersOK ==
    /\ wrk \in [Workers -> Work]
    /\ \A w \in Workers : JobFits(wrk[w]) /\ SeenHolds(wrk[w]) /\ ListHolds(wrk[w])

\* What the inbox and the refunds say of the capture.
EvidenceHolds ==
    /\ inbox["pending"] # "none" => cap # "none"
    /\ inbox["completed"] # "none" => cap = "completed"
    /\ inbox["denied"] # "none" => cap = "declined"
    /\ \A r \in Refunds : inbox[r] # "none" => refund[r] # "none"
    /\ \A r \in Refunds : refund[r] # "none" => cap = "completed"

LedgerHolds ==
    /\ receipt # "none" => cap = "completed"
    /\ \A r \in posted : refund[r] = "completed"
    /\ posted # {} => receipt # "none"
    /\ cover.st # "none" => receipt # "none"

StatusHolds ==
    /\ intent.st = "capture_failed" => cap = "declined"
    /\ intent.st = "expired" => order = "voided" /\ cap = "none"
    /\ intent.st = "verified" => receipt = "posted"

StateOK ==
    /\ ProviderOK /\ IntentOK /\ LedgerOK /\ HoldOK /\ InboxOK /\ SpentOK
    /\ EvidenceHolds /\ LedgerHolds /\ StatusHolds

\* The inductive invariant.
IInv == StateOK /\ WorkersOK /\ OneWorkerPerEvent

\* Nothing a worker relies on is taken back in this step.
Stable ==
    /\ cap = "completed" => cap' = "completed"
    /\ \A r \in Refunds : refund[r] = "completed" => refund'[r] = "completed"
    /\ receipt # "none" => receipt' # "none"
    /\ receipt = "posted" => receipt' = "posted"

-----------------------------------------------------------------------------
(* The workers.                                                            *)

\* The names of the events are no refunds.
LEMMA Names ==
    /\ Refunds \subseteq Events /\ {"pending", "denied", "completed"} \subseteq Events
    /\ "none" \notin Events /\ "capture" \notin Events /\ "reconcile" \notin Events
    /\ "none" \notin Refunds /\ "capture" \notin Refunds /\ "reconcile" \notin Refunds
    /\ "pending" \notin Refunds /\ "denied" \notin Refunds /\ "completed" \notin Refunds
PROOF
  BY PaymentAssumption DEF Events

LEMMA IdleFits == Idle \in Work /\ JobFits(Idle) /\ SeenAfter(Idle) /\ Idle.job \notin Events
PROOF
  <1>1. Cardinality(Refunds) \in Nat
    BY PaymentAssumption, FS_CardinalityType
  <1>2. Idle \in Work
    BY <1>1, PaymentAssumption DEF Idle, Work, Jobs, Pcs, IntentStatus, Reported
  <1>3. JobFits(Idle) /\ SeenAfter(Idle)
    BY DEF Idle, JobFits, SeenAfter, Ingesting, Posted
  <1> QED BY <1>2, <1>3, Names DEF Idle

\* A worker takes a step, and the others stay as they are.
LEMMA OneMoves ==
    ASSUME IInv, Stable, NEW w \in Workers, NEW v \in Work, wrk' = [wrk EXCEPT ![w] = v],
           JobFits(v), SeenAfter(v), v.todo \subseteq wrk[w].todo \cup Completed
    PROVE  WorkersOK'
PROOF
  <1>1. wrk \in [Workers -> Work]
    BY DEF IInv, WorkersOK
  <1>2. wrk' \in [Workers -> Work] /\ wrk'[w] = v
    BY <1>1
  <1>3. ASSUME NEW x \in Workers PROVE JobFits(wrk'[x]) /\ SeenAfter(wrk'[x])
    <2>1. CASE x = w
      BY <1>2, <2>1
    <2>2. CASE x # w
      <3>1. wrk'[x] = wrk[x]
        BY <1>1, <2>2
      <3>2. JobFits(wrk[x]) /\ SeenHolds(wrk[x])
        BY DEF IInv, WorkersOK
      <3>3. SeenAfter(wrk[x])
        BY <3>2 DEF SeenHolds, SeenAfter, Stable
      <3> QED BY <3>1, <3>2, <3>3
    <2> QED BY <2>1, <2>2
  <1>4. \A x \in Workers : JobFits(wrk[x])'
    BY <1>3 DEF JobFits
  <1>5. \A x \in Workers : SeenHolds(wrk[x])'
    BY <1>3 DEF SeenHolds, SeenAfter
  <1>6. ASSUME NEW x \in Workers PROVE ListHolds(wrk[x])'
    <2>1. \A r \in wrk'[x].todo : r \in wrk[x].todo \cup Completed
      BY <1>1, <1>2
    <2>2. wrk[x].todo \subseteq Refunds /\ ListHolds(wrk[x])
      BY <1>1 DEF IInv, WorkersOK, Work
    <2> QED BY <2>1, <2>2 DEF ListHolds, Completed, Stable
  <1> QED BY <1>2, <1>4, <1>5, <1>6 DEF WorkersOK

\* The job of a worker stays, and so does the inbox.
LEMMA SameJob ==
    ASSUME IInv, NEW w \in Workers, NEW v \in Work, wrk' = [wrk EXCEPT ![w] = v],
           v.job = wrk[w].job, inbox' = inbox
    PROVE  OneWorkerPerEvent'
PROOF
  <1>1. wrk \in [Workers -> Work]
    BY DEF IInv, WorkersOK
  <1>2. \A x \in Workers : wrk'[x].job = wrk[x].job
    BY <1>1
  <1> QED BY <1>2 DEF IInv, OneWorkerPerEvent

\* A worker that ends its job writes the inbox at most for the event it had.
LEMMA JobEnds ==
    ASSUME IInv, NEW w \in Workers, NEW v \in Work, wrk' = [wrk EXCEPT ![w] = v],
           v.job \notin Events,
           \A e \in Events : e # wrk[w].job /\ inbox[e] = "processing" => inbox'[e] = inbox[e]
    PROVE  OneWorkerPerEvent'
PROOF
  <1>1. wrk \in [Workers -> Work]
    BY DEF IInv, WorkersOK
  <1>2. wrk'[w].job \notin Events /\ \A x \in Workers : x # w => wrk'[x] = wrk[x]
    BY <1>1
  <1>3. ASSUME NEW x \in Workers, wrk'[x].job \in Events PROVE x # w /\ wrk[x].job # wrk[w].job
    BY <1>2, <1>3 DEF IInv, OneWorkerPerEvent
  <1> QED BY <1>2, <1>3 DEF IInv, OneWorkerPerEvent

\* Nobody had the events whose inbox rows change.
LEMMA OthersWritten ==
    ASSUME IInv, UNCHANGED wrk,
           \A e \in Events : inbox[e] = "processing" /\ Running(e) => inbox'[e] = inbox[e]
    PROVE  OneWorkerPerEvent'
PROOF
  BY DEF IInv, OneWorkerPerEvent, Running

\* A worker goes on with its job.
LEMMA GoesOn ==
    ASSUME IInv, Stable, NEW w \in Workers, NEW pc \in Pcs, Goto(w, pc), inbox' = inbox,
           JobFits([wrk[w] EXCEPT !.pc = pc]), SeenAfter([wrk[w] EXCEPT !.pc = pc])
    PROVE  WorkersOK' /\ OneWorkerPerEvent'
PROOF
  <1> DEFINE v == [wrk[w] EXCEPT !.pc = pc]
  <1>1. wrk \in [Workers -> Work]
    BY DEF IInv, WorkersOK
  <1>2. v \in Work /\ v.job = wrk[w].job /\ v.todo = wrk[w].todo
    BY <1>1 DEF Work
  <1>3. wrk' = [wrk EXCEPT ![w] = v]
    BY <1>1 DEF Goto
  <1> HIDE DEF v
  <1>4. JobFits(v) /\ SeenAfter(v)
    BY DEF v
  <1> QED BY <1>2, <1>3, <1>4, OneMoves, SameJob

\* A worker ends its job.
LEMMA Ends ==
    ASSUME IInv, Stable, NEW w \in Workers, End(w),
           \A e \in Events : e # wrk[w].job /\ inbox[e] = "processing" => inbox'[e] = inbox[e]
    PROVE  WorkersOK' /\ OneWorkerPerEvent'
PROOF
  <1>1. Idle.todo = {}
    BY DEF Idle
  <1> QED BY <1>1, IdleFits, OneMoves, JobEnds DEF End

\* A worker begins a job that is not an event.
LEMMA Begins ==
    ASSUME IInv, Stable, NEW w \in Workers, NEW job \in {"capture", "reconcile"},
           NEW pc \in {"order", "readback", "detail"}, Begin(w, job, pc), inbox' = inbox,
           pc = "detail" => cap' = "completed"
    PROVE  WorkersOK' /\ OneWorkerPerEvent'
PROOF
  <1> DEFINE v == [Idle EXCEPT !.job = job, !.pc = pc,
                               !.st = IF pc \in {"order", "readback"} THEN intent.st ELSE "none",
                               !.tries = IF pc = "readback" THEN intent.tries ELSE 0]
  <1>1. wrk' = [wrk EXCEPT ![w] = v]
    BY DEF Begin
  <1>2. intent.st \in IntentStatus /\ intent.tries \in 0..MaxTries
    BY DEF IInv, StateOK, IntentOK
  <1>3. v \in Work
    BY <1>2, IdleFits, PaymentAssumption DEF Work, Jobs, Pcs, Idle
  <1>4. v.job = job /\ v.pc = pc /\ v.todo = {}
    BY DEF Idle
  <1> HIDE DEF v
  <1>5. JobFits(v) /\ SeenAfter(v)
    BY <1>4, Names DEF JobFits, SeenAfter, Ingesting, Posted
  <1>6. v.job \notin Events
    BY <1>4, Names
  <1> QED BY <1>1, <1>3, <1>4, <1>5, <1>6, OneMoves, JobEnds

-----------------------------------------------------------------------------
(* The state a step leaves.                                                *)

\* A step that writes nothing but a worker, and the number of faults or requests.
LEMMA Quiet ==
    ASSUME IInv, UNCHANGED <<provider, intent, ledger, hold, inbox>>, SpentOK'
    PROVE  StateOK' /\ Stable
PROOF
  BY DEF IInv, StateOK, ProviderOK, IntentOK, LedgerOK, HoldOK, InboxOK, EvidenceHolds, LedgerHolds,
         StatusHolds, Stable, provider, ledger

LEMMA IntentWritten ==
    ASSUME IInv, UNCHANGED <<provider, ledger, hold, inbox, spent>>, IntentOK', StatusHolds'
    PROVE  StateOK' /\ Stable
PROOF
  BY DEF IInv, StateOK, ProviderOK, LedgerOK, HoldOK, InboxOK, SpentOK, EvidenceHolds, LedgerHolds,
         Stable, provider, ledger

LEMMA HoldWritten ==
    ASSUME IInv, UNCHANGED <<provider, intent, ledger, inbox, spent>>, HoldOK'
    PROVE  StateOK' /\ Stable
PROOF
  BY DEF IInv, StateOK, ProviderOK, IntentOK, LedgerOK, InboxOK, SpentOK, EvidenceHolds, LedgerHolds,
         StatusHolds, Stable, provider, ledger

LEMMA LedgerWritten ==
    ASSUME IInv, UNCHANGED <<provider, intent, hold, inbox, spent>>, LedgerOK', LedgerHolds',
           receipt = "posted" => receipt' = "posted", receipt # "none" => receipt' # "none"
    PROVE  StateOK' /\ Stable
PROOF
  BY DEF IInv, StateOK, ProviderOK, IntentOK, HoldOK, InboxOK, SpentOK, EvidenceHolds, StatusHolds,
         Stable, provider

\* An event that is on its way is not on its way for the first time.
LEMMA InboxWritten ==
    ASSUME IInv, UNCHANGED <<provider, intent, ledger, hold>>, InboxOK', SpentOK',
           \A e \in Events : inbox'[e] # "none" => inbox[e] # "none"
    PROVE  StateOK' /\ Stable
PROOF
  <1>1. EvidenceHolds'
    BY Names DEF IInv, StateOK, EvidenceHolds, provider
  <1> QED BY <1>1 DEF IInv, StateOK, ProviderOK, IntentOK, LedgerOK, HoldOK, LedgerHolds,
         StatusHolds, Stable, provider, ledger

\* A capture that is decided sends a webhook nobody has seen yet.
LEMMA CaptureDecided ==
    ASSUME IInv, NEW st \in {"completed", "pending", "declined"}, Becomes(st),
           (cap = "none" /\ order = "approved") \/ (cap = "pending" /\ st # "pending"),
           UNCHANGED <<order, fee, refund, intent, ledger, hold>>, SpentOK'
    PROVE  /\ StateOK' /\ Stable
           /\ \A e \in Events : inbox[e] = "processing" => inbox'[e] = inbox[e]
PROOF
  <1> DEFINE d == IF st = "declined" THEN "denied" ELSE st
  <1>1. inbox \in [Events -> InboxStatus] /\ EvidenceHolds /\ LedgerHolds /\ StatusHolds /\ ProviderOK
    BY DEF IInv, StateOK, InboxOK
  <1>2. d \in Events /\ cap' = st /\ inbox' = [inbox EXCEPT ![d] = "sent"] /\ cap # "completed"
    BY Names DEF Becomes
  <1>3. inbox[d] = "none"
    BY <1>1, <1>2 DEF EvidenceHolds
  <1>4. InboxOK'
    BY <1>1, <1>2 DEF InboxOK, InboxStatus
  <1>5. \A e \in Events : e # d => inbox'[e] = inbox[e]
    BY <1>1, <1>2
  <1>6. EvidenceHolds'
    <2>1. refund' = refund /\ \A r \in Refunds : refund[r] = "none"
      BY <1>1, <1>2 DEF EvidenceHolds
    <2>2. \A r \in Refunds : inbox'[r] = inbox[r]
      BY <1>5, Names
    <2>3. inbox'["pending"] # "none" => cap' # "none"
      BY <1>2
    <2>4. inbox'["completed"] # "none" => cap' = "completed"
      BY <1>1, <1>2, <1>5, Names DEF EvidenceHolds
    <2>5. inbox'["denied"] # "none" => cap' = "declined"
      BY <1>1, <1>2, <1>5, Names DEF EvidenceHolds
    <2> QED BY <1>1, <2>1, <2>2, <2>3, <2>4, <2>5 DEF EvidenceHolds
  <1>7. ProviderOK' /\ Stable
    BY <1>1, <1>2 DEF ProviderOK, Stable, ledger
  <1>8. LedgerHolds' /\ LedgerOK' /\ HoldOK' /\ IntentOK'
    BY <1>1, <1>2 DEF IInv, StateOK, LedgerHolds, LedgerOK, HoldOK, IntentOK, ledger
  <1>9. StatusHolds'
    BY <1>1, <1>2 DEF StatusHolds, ledger
  <1>10. \A e \in Events : inbox[e] = "processing" => inbox'[e] = inbox[e]
    BY <1>3, <1>5
  <1> QED BY <1>4, <1>6, <1>7, <1>8, <1>9, <1>10 DEF StateOK

\* Nothing that PayPal or the payer does is taken back.
LEMMA PayPalSafe ==
    ASSUME IInv, PayPal
    PROVE  IInv'
PROOF
  <1> USE DEF IInv
  <1>1. UNCHANGED <<intent, ledger, hold, wrk, spent>> /\ SpentOK'
    BY DEF PayPal, StateOK, SpentOK
  <1>2. StateOK' /\ Stable /\ \A e \in Events : inbox[e] = "processing" => inbox'[e] = inbox[e]
    <2>1. CASE Approve \/ Void \/ FeeKnown
      <3>1. UNCHANGED <<cap, refund, inbox>> /\ (order' = "voided" \/ order # "voided") /\ ProviderOK'
        BY <2>1 DEF Approve, Void, FeeKnown, StateOK, ProviderOK
      <3>2. order = "voided" => order' = "voided"
        BY <2>1 DEF Approve, Void, FeeKnown
      <3> QED BY <1>1, <3>1, <3>2 DEF StateOK, IntentOK, LedgerOK, HoldOK, InboxOK, EvidenceHolds,
                 LedgerHolds, StatusHolds, Stable, ledger
    <2>2. CASE Decide
      <3>1. PICK st \in {"completed", "declined"} : Becomes(st)
        BY <2>2 DEF Decide
      <3> QED BY <1>1, <2>2, <3>1, CaptureDecided DEF Decide
    <2>3. ASSUME NEW r \in Refunds, Refund(r)
          PROVE  StateOK' /\ Stable /\ \A e \in Events : inbox[e] = "processing" => inbox'[e] = inbox[e]
      <3>1. cap = "completed" /\ refund[r] = "none" /\ UNCHANGED <<order, cap, fee>>
        BY <2>3 DEF Refund
      <3>2. PICK st \in {"pending", "completed"} : refund' = [refund EXCEPT ![r] = st]
        BY <2>3 DEF Refund
      <3>3. r \in Events /\ inbox' = [inbox EXCEPT ![r] = "sent"] /\ inbox \in [Events -> InboxStatus]
        BY <2>3, Names DEF Refund, StateOK, InboxOK
      <3>4. inbox[r] = "none"
        BY <3>1 DEF StateOK, EvidenceHolds
      <3>5. refund \in [Refunds -> {"none", "pending", "completed"}] /\ ProviderOK'
        BY <3>1, <3>2 DEF StateOK, ProviderOK
      <3>6. \A q \in Refunds : q # r => refund'[q] = refund[q]
        BY <3>2, <3>5
      <3>7. refund'[r] # "none" /\ InboxOK'
        BY <3>2, <3>3, <3>5 DEF InboxOK, InboxStatus
      <3>8. \A e \in Events : e # r => inbox'[e] = inbox[e]
        BY <3>3
      <3>9. EvidenceHolds'
        BY <3>1, <3>6, <3>7, <3>8, Names DEF StateOK, EvidenceHolds
      <3>10. Stable /\ LedgerHolds'
        BY <1>1, <3>1, <3>6 DEF StateOK, Stable, LedgerHolds, LedgerOK, ledger
      <3>11. StatusHolds' /\ LedgerOK' /\ HoldOK' /\ IntentOK'
        BY <1>1, <3>1 DEF StateOK, StatusHolds, LedgerOK, HoldOK, IntentOK, ledger
      <3>12. \A e \in Events : inbox[e] = "processing" => inbox'[e] = inbox[e]
        BY <3>4, <3>8
      <3> QED BY <1>1, <3>5, <3>7, <3>9, <3>10, <3>11, <3>12 DEF StateOK
    <2>4. ASSUME NEW r \in Refunds, RefundDone(r)
          PROVE  StateOK' /\ Stable /\ \A e \in Events : inbox[e] = "processing" => inbox'[e] = inbox[e]
      <3>1. refund[r] = "pending" /\ UNCHANGED <<order, cap, fee, inbox>>
            /\ refund' = [refund EXCEPT ![r] = "completed"]
        BY <2>4 DEF RefundDone
      <3>2. refund \in [Refunds -> {"none", "pending", "completed"}] /\ ProviderOK'
        BY <3>1 DEF StateOK, ProviderOK
      <3>3. \A q \in Refunds : refund'[q] # "none" <=> refund[q] # "none"
        BY <3>1, <3>2
      <3>4. \A q \in Refunds : refund[q] = "completed" => refund'[q] = "completed"
        BY <3>1, <3>2
      <3>5. EvidenceHolds' /\ Stable
        BY <1>1, <3>1, <3>3, <3>4 DEF StateOK, EvidenceHolds, Stable, ledger
      <3>6. LedgerHolds'
        BY <1>1, <3>1, <3>4 DEF StateOK, LedgerOK, LedgerHolds, ledger
      <3> QED BY <1>1, <3>1, <3>2, <3>5, <3>6 DEF StateOK, IntentOK, LedgerOK, HoldOK, InboxOK,
                 StatusHolds, ledger
    <2> QED BY <2>1, <2>2, <2>3, <2>4 DEF PayPal
  <1>3. WorkersOK'
    <2>1. \A w \in Workers : wrk[w].todo \subseteq Refunds
      BY DEF WorkersOK, Work
    <2> QED BY <1>1, <1>2, <2>1 DEF WorkersOK, SeenHolds, ListHolds, Stable
  <1>4. OneWorkerPerEvent'
    BY <1>1, <1>2 DEF OneWorkerPerEvent
  <1> QED BY <1>2, <1>3, <1>4

-----------------------------------------------------------------------------
(* The member's request.                                                   *)

\* The record of a worker, as the invariant has it.
LEMMA Worker ==
    ASSUME IInv, NEW w \in Workers
    PROVE  /\ wrk \in [Workers -> Work] /\ wrk[w] \in Work
           /\ JobFits(wrk[w]) /\ SeenHolds(wrk[w]) /\ ListHolds(wrk[w])
           /\ wrk[w].job \in Events => inbox[wrk[w].job] = "processing"
           /\ inbox \in [Events -> InboxStatus]
PROOF
  BY DEF IInv, WorkersOK, OneWorkerPerEvent, StateOK, InboxOK

\* Another step of the same job: what the new place of the worker asks of it.
LEMMA NextFits ==
    ASSUME NEW v \in Work, NEW pc \in Pcs
    PROVE  /\ [v EXCEPT !.pc = pc].job = v.job /\ [v EXCEPT !.pc = pc].pc = pc
           /\ [v EXCEPT !.pc = pc].ok = v.ok /\ [v EXCEPT !.pc = pc].tries = v.tries
PROOF
  BY DEF Work

LEMMA RequestSafe ==
    ASSUME IInv, NEW w \in Workers, Request(w) \/ CaptureStart(w)
    PROVE  IInv'
PROOF
  <1>0. /\ wrk[w] \in Work /\ JobFits(wrk[w]) /\ SeenHolds(wrk[w])
        /\ SpentOK /\ intent \in [st : IntentStatus, tries : 0..MaxTries]
    BY Worker DEF IInv, StateOK, IntentOK
  <1>1. CASE CaptureStart(w)
    <2>1. SpentOK'
      BY <1>0, <1>1, PaymentAssumption DEF CaptureStart, SpentOK
    <2>2. UNCHANGED <<provider, intent, ledger, hold, inbox>>
      BY <1>1 DEF CaptureStart
    <2>3. StateOK' /\ Stable
      BY <2>1, <2>2, Quiet
    <2>4. Begin(w, "capture", "order")
      BY <1>1 DEF CaptureStart
    <2> QED BY <2>2, <2>3, <2>4, Begins DEF IInv
  <1>2. CASE CaptureOrder(w)
    <2>1. UNCHANGED <<provider, intent, ledger, hold, inbox>> /\ SpentOK'
      BY <1>0, <1>2 DEF CaptureOrder, SpentOK
    <2>2. StateOK' /\ Stable
      BY <2>1, Quiet
    <2>3. wrk[w].job \in {"capture", "reconcile"} /\ wrk[w].job \notin Refunds
      BY <1>0, <1>2, Names DEF CaptureOrder, At, JobFits
    <2>4. CASE cap = "completed" /\ Goto(w, "detail")
      <3>1. cap' = "completed"
        BY <2>1, <2>4 DEF provider
      <3>2. "detail" \in Pcs
        BY DEF Pcs
      <3>3. JobFits([wrk[w] EXCEPT !.pc = "detail"]) /\ SeenAfter([wrk[w] EXCEPT !.pc = "detail"])
        BY <1>0, <2>3, <3>1, <3>2, NextFits DEF JobFits, SeenAfter, Ingesting, Posted
      <3> QED BY <2>1, <2>2, <2>4, <3>2, <3>3, GoesOn DEF IInv
    <2>5. CASE Goto(w, "claim")
      <3>1. "claim" \in Pcs
        BY DEF Pcs
      <3>2. JobFits([wrk[w] EXCEPT !.pc = "claim"]) /\ SeenAfter([wrk[w] EXCEPT !.pc = "claim"])
        BY <1>0, <2>3, <3>1, NextFits DEF JobFits, SeenAfter, Ingesting, Posted
      <3> QED BY <2>1, <2>2, <2>5, <3>1, <3>2, GoesOn DEF IInv
    <2>6. CASE End(w)
      BY <2>1, <2>2, <2>6, Ends DEF IInv
    <2> QED BY <1>2, <2>4, <2>5, <2>6 DEF CaptureOrder
  <1>3. CASE CaptureClaim(w)
    <2>1. UNCHANGED <<provider, ledger, hold, inbox, spent>>
      BY <1>3 DEF CaptureClaim
    <2>2. wrk[w].job \in {"capture", "reconcile"}
      BY <1>0, <1>3 DEF CaptureClaim, At, JobFits
    <2>3. CASE intent.st = "approval_pending"
      <3>1. intent' = [intent EXCEPT !.st = "capturing"] /\ Goto(w, "capture")
        BY <1>3, <2>3 DEF CaptureClaim
      <3>2. IntentOK' /\ StatusHolds'
        BY <1>0, <3>1 DEF IntentOK, StatusHolds, IntentStatus
      <3>3. StateOK' /\ Stable
        BY <2>1, <3>2, IntentWritten
      <3>4. "capture" \in Pcs
        BY DEF Pcs
      <3>5. JobFits([wrk[w] EXCEPT !.pc = "capture"]) /\ SeenAfter([wrk[w] EXCEPT !.pc = "capture"])
        BY <1>0, <2>2, <3>4, NextFits DEF JobFits, SeenAfter, Ingesting, Posted
      <3> QED BY <2>1, <3>1, <3>3, <3>4, <3>5, GoesOn DEF IInv
    <2>4. CASE intent.st # "approval_pending"
      <3>1. End(w) /\ UNCHANGED intent
        BY <1>3, <2>4 DEF CaptureClaim
      <3>2. StateOK' /\ Stable
        BY <1>0, <2>1, <3>1, Quiet DEF SpentOK
      <3> QED BY <2>1, <3>1, <3>2, Ends DEF IInv
    <2> QED BY <2>3, <2>4
  <1>4. CASE Capture(w) \/ CaptureLost(w)
    <2>1. UNCHANGED <<order, fee, refund, intent, ledger, hold>> /\ SpentOK'
      BY <1>0, <1>4, PaymentAssumption DEF Capture, CaptureLost, Fault, SpentOK
    <2>2. wrk[w].job \in {"capture", "reconcile"}
      BY <1>0, <1>4 DEF Capture, CaptureLost, At, JobFits
    <2>3. StateOK' /\ Stable /\ \A e \in Events : inbox[e] = "processing" => inbox'[e] = inbox[e]
      <3>1. CASE UNCHANGED <<cap, inbox>>
        BY <2>1, <3>1, Quiet DEF provider
      <3>2. CASE order = "approved" /\ cap = "none" /\ Captured
        <4>1. PICK st \in {"completed", "pending", "declined"} : Becomes(st)
          BY <3>2 DEF Captured
        <4>2. cap = "none" /\ order = "approved"
          BY <3>2
        <4>3. UNCHANGED <<order, fee, refund, intent, ledger, hold>> /\ SpentOK'
          BY <2>1
        <4> QED BY <4>1, <4>2, <4>3, CaptureDecided
      <3>3. Captured \/ UNCHANGED <<cap, inbox>>
        BY <1>4 DEF Capture, CaptureLost
      <3>4. CASE Captured /\ ~(order = "approved" /\ cap = "none")
        <4>1. UNCHANGED <<cap, inbox>>
          BY <3>4 DEF Captured
        <4> QED BY <3>1, <4>1
      <3> QED BY <3>1, <3>2, <3>3, <3>4
    <2>4. PICK pc \in {"detail", "unknown"} : Goto(w, pc) /\ (pc = "detail" => cap' = "completed")
      BY <1>4 DEF Capture, CaptureLost
    <2> DEFINE v == [wrk[w] EXCEPT !.pc = pc]
    <2>5. pc \in Pcs
      BY DEF Pcs
    <2>6. v \in Work /\ wrk' = [wrk EXCEPT ![w] = v]
      BY <1>0, <2>4, <2>5, Worker DEF Goto, Work
    <2>7. v.job = wrk[w].job /\ v.pc = pc /\ v.todo = wrk[w].todo
      BY <1>0, <2>5, Worker, NextFits DEF Work
    <2> HIDE DEF v
    <2>8. JobFits(v) /\ SeenAfter(v) /\ v.job \notin Events
      BY <2>2, <2>4, <2>7, Names DEF JobFits, SeenAfter, Ingesting, Posted
    <2>9. WorkersOK'
      BY <2>3, <2>6, <2>7, <2>8, OneMoves
    <2>10. OneWorkerPerEvent'
      BY <2>3, <2>6, <2>8, JobEnds
    <2> QED BY <2>3, <2>9, <2>10 DEF IInv
  <1>5. CASE Unknown(w)
    <2>1. UNCHANGED <<provider, ledger, hold, inbox, spent>> /\ End(w)
          /\ intent' = [intent EXCEPT !.st = "capture_unknown"]
      BY <1>5 DEF Unknown
    <2>2. IntentOK' /\ StatusHolds'
      BY <1>0, <2>1 DEF IntentOK, StatusHolds, IntentStatus
    <2> QED BY <2>1, <2>2, IntentWritten, Ends DEF IInv
  <1> QED BY <1>1, <1>2, <1>3, <1>4, <1>5 DEF Request

-----------------------------------------------------------------------------
(* Reconciliation.                                                         *)

LEMMA ReconcileSafe ==
    ASSUME IInv, NEW w \in Workers, Reconcile(w) \/ ReadBack(w) \/ ReadBackDone(w) \/ Reclaim(w)
    PROVE  IInv'
PROOF
  <1>0. /\ wrk[w] \in Work /\ JobFits(wrk[w]) /\ SeenHolds(wrk[w])
        /\ SpentOK /\ intent \in [st : IntentStatus, tries : 0..MaxTries]
        /\ LedgerHolds /\ StatusHolds
    BY Worker DEF IInv, StateOK, IntentOK
  <1>1. CASE Reconcile(w)
    <2>1. UNCHANGED <<provider, intent, ledger, hold, inbox>> /\ SpentOK'
      BY <1>0, <1>1 DEF Reconcile, SpentOK
    <2>2. StateOK' /\ Stable
      BY <2>1, Quiet
    <2>3. PICK pc \in {"readback", "detail"} :
             Begin(w, "reconcile", pc) /\ (pc = "detail" => "net_unresolved" \in {receipt, cover.st})
      BY <1>1 DEF Reconcile
    <2>4. pc = "detail" => cap' = "completed"
      BY <1>0, <2>1, <2>3 DEF LedgerHolds, provider
    <2> QED BY <2>1, <2>2, <2>3, <2>4, Begins DEF IInv
  <1>2. CASE ReadBack(w)
    <2>1. UNCHANGED <<provider, ledger, hold, inbox, spent>> /\ At(w, "readback")
      BY <1>2 DEF ReadBack
    <2>2. wrk[w].job \in {"capture", "reconcile"}
      BY <1>0, <2>1 DEF At, JobFits
    <2>3. CASE cap = "none" /\ order = "approved" /\ wrk[w].tries < MaxTries
      <3>1. Goto(w, "reclaim") /\ UNCHANGED intent
        BY <1>2, <2>3 DEF ReadBack
      <3>2. StateOK' /\ Stable
        BY <1>0, <2>1, <3>1, Quiet DEF SpentOK
      <3>3. "reclaim" \in Pcs
        BY DEF Pcs
      <3>4. JobFits([wrk[w] EXCEPT !.pc = "reclaim"]) /\ SeenAfter([wrk[w] EXCEPT !.pc = "reclaim"])
        BY <1>0, <2>2, <2>3, <3>3, NextFits DEF JobFits, SeenAfter, Ingesting, Posted
      <3> QED BY <2>1, <3>1, <3>2, <3>3, <3>4, GoesOn DEF IInv
    <2>4. CASE ~(cap = "none" /\ order = "approved" /\ wrk[w].tries < MaxTries)
      <3>1. End(w)
        BY <1>2, <2>4 DEF ReadBack
      <3>2. \/ intent' = intent
            \/ intent' = [intent EXCEPT !.st = "capture_failed"] /\ cap = "declined"
            \/ intent' = [intent EXCEPT !.st = "expired"] /\ cap = "none" /\ order = "voided"
            \/ intent' = [intent EXCEPT !.st = "capture_unknown"]
        BY <1>2, <2>4 DEF ReadBack
      <3>3. IntentOK' /\ StatusHolds'
        BY <1>0, <2>1, <3>2 DEF IntentOK, StatusHolds, IntentStatus, Failed, provider, ledger
      <3> QED BY <2>1, <3>1, <3>3, IntentWritten, Ends DEF IInv
    <2> QED BY <2>3, <2>4
  <1>3. CASE ReadBackDone(w)
    <2>1. UNCHANGED <<provider, intent, ledger, hold, inbox, spent>> /\ At(w, "readback")
          /\ cap = "completed" /\ Goto(w, "detail")
      BY <1>3 DEF ReadBackDone
    <2>2. wrk[w].job \in {"capture", "reconcile"} /\ wrk[w].job \notin Refunds
      BY <1>0, <2>1, Names DEF At, JobFits
    <2>3. StateOK' /\ Stable /\ cap' = "completed"
      BY <1>0, <2>1, Quiet DEF SpentOK, provider
    <2>4. "detail" \in Pcs
      BY DEF Pcs
    <2>5. JobFits([wrk[w] EXCEPT !.pc = "detail"]) /\ SeenAfter([wrk[w] EXCEPT !.pc = "detail"])
      BY <1>0, <2>2, <2>3, <2>4, NextFits DEF JobFits, SeenAfter, Ingesting, Posted
    <2> QED BY <2>1, <2>3, <2>4, <2>5, GoesOn DEF IInv
  <1>4. CASE Reclaim(w)
    <2>1. UNCHANGED <<provider, ledger, hold, inbox, spent>> /\ At(w, "reclaim")
      BY <1>4 DEF Reclaim
    <2>2. wrk[w].job \in {"capture", "reconcile"} /\ wrk[w].tries < MaxTries
      BY <1>0, <2>1 DEF At, JobFits
    <2>3. CASE intent = [st |-> wrk[w].st, tries |-> wrk[w].tries]
      <3>1. intent' = [st |-> "capturing", tries |-> intent.tries + 1] /\ Goto(w, "capture")
        BY <1>4, <2>3 DEF Reclaim
      <3>2. intent.tries = wrk[w].tries
        BY <2>3
      <3>3. intent.tries + 1 \in 0..MaxTries
        BY <1>0, <2>2, <3>2, PaymentAssumption
      <3>4. IntentOK' /\ StatusHolds'
        BY <3>1, <3>3 DEF IntentOK, StatusHolds, IntentStatus
      <3>5. StateOK' /\ Stable
        BY <2>1, <3>4, IntentWritten
      <3>6. "capture" \in Pcs
        BY DEF Pcs
      <3>7. JobFits([wrk[w] EXCEPT !.pc = "capture"]) /\ SeenAfter([wrk[w] EXCEPT !.pc = "capture"])
        BY <1>0, <2>2, <3>6, NextFits DEF JobFits, SeenAfter, Ingesting, Posted
      <3> QED BY <2>1, <3>1, <3>5, <3>6, <3>7, GoesOn DEF IInv
    <2>4. CASE intent # [st |-> wrk[w].st, tries |-> wrk[w].tries]
      <3>1. End(w) /\ UNCHANGED intent
        BY <1>4, <2>4 DEF Reclaim
      <3>2. StateOK' /\ Stable
        BY <1>0, <2>1, <3>1, Quiet DEF SpentOK
      <3> QED BY <2>1, <3>1, <3>2, Ends DEF IInv
    <2> QED BY <2>3, <2>4
  <1> QED BY <1>1, <1>2, <1>3, <1>4

-----------------------------------------------------------------------------
(* Ingestion.                                                              *)

\* A step of the ingestion that keeps the job, given what the ledger becomes.
LEMMA Ingests ==
    ASSUME IInv, StateOK', Stable, NEW w \in Workers, NEW v \in Work, inbox' = inbox,
           wrk' = [wrk EXCEPT ![w] = v], v.job = wrk[w].job, wrk[w].pc \in Ingesting,
           v.pc \in Ingesting, v.pc = "refund" => v.job \in Refunds,
           v.todo \subseteq wrk[w].todo \cup Completed,
           v.pc \in Posted => receipt' # "none" /\ (v.ok => receipt' = "posted")
    PROVE  IInv'
PROOF
  <1>1. JobFits(wrk[w]) /\ SeenHolds(wrk[w])
    BY Worker
  <1>2. JobFits(v)
    BY <1>1 DEF JobFits, Ingesting, Posted
  <1>3. SeenAfter(v)
    BY <1>1 DEF SeenHolds, SeenAfter, Stable
  <1> QED BY <1>2, <1>3, OneMoves, SameJob DEF IInv

\* The ingestion goes to its next step.
LEMMA IngestGoesOn ==
    ASSUME IInv, StateOK', Stable, NEW w \in Workers, inbox' = inbox, wrk[w].pc \in Posted,
           NEW pc \in {"cover", "list", "final"}, Goto(w, pc)
    PROVE  IInv'
PROOF
  <1> DEFINE v == [wrk[w] EXCEPT !.pc = pc]
  <1>1. wrk \in [Workers -> Work] /\ wrk[w] \in Work /\ SeenHolds(wrk[w])
    BY Worker
  <1>2. pc \in Pcs
    BY DEF Pcs
  <1>3. v \in Work /\ v.job = wrk[w].job /\ v.pc = pc /\ v.ok = wrk[w].ok /\ v.todo = wrk[w].todo
    BY <1>1, <1>2 DEF Work
  <1>4. wrk' = [wrk EXCEPT ![w] = v]
    BY <1>1 DEF Goto
  <1> HIDE DEF v
  <1>5. receipt' # "none" /\ (v.ok => receipt' = "posted")
    BY <1>1, <1>3 DEF SeenHolds, Stable
  <1>6. v.pc \in Ingesting /\ wrk[w].pc \in Ingesting /\ v.pc # "refund"
    BY <1>3 DEF Ingesting, Posted
  <1> QED BY <1>3, <1>4, <1>5, <1>6, Ingests

\* The ingestion reads PayPal again.
LEMMA Reads ==
    ASSUME IInv, NEW w \in Workers, NEW v \in Work, wrk' = [wrk EXCEPT ![w] = v],
           UNCHANGED <<provider, intent, ledger, hold, inbox, spent>>, wrk[w].pc \in {"list", "each"},
           v.job = wrk[w].job, v.ok = wrk[w].ok, v.pc \in {"each", "record", "count"},
           v.todo \subseteq wrk[w].todo \cup Completed
    PROVE  IInv'
PROOF
  <1>1. SeenHolds(wrk[w]) /\ SpentOK
    BY Worker DEF IInv, StateOK
  <1>2. StateOK' /\ Stable
    BY <1>1, Quiet DEF SpentOK
  <1>3. receipt' # "none" /\ (v.ok => receipt' = "posted")
    BY <1>1, <1>2 DEF SeenHolds, Posted, Stable
  <1>4. v.pc \in Ingesting /\ v.pc # "refund" /\ wrk[w].pc \in Ingesting
    BY DEF Ingesting, Posted
  <1> QED BY <1>2, <1>3, <1>4, Ingests

LEMMA ReadSafe ==
    ASSUME IInv, NEW w \in Workers, Detail(w) \/ Post(w)
    PROVE  IInv'
PROOF
  <1>0. /\ wrk \in [Workers -> Work] /\ wrk[w] \in Work /\ JobFits(wrk[w]) /\ SeenHolds(wrk[w])
        /\ SpentOK /\ LedgerOK /\ LedgerHolds /\ fee \in BOOLEAN
    BY Worker DEF IInv, StateOK, ProviderOK
  <1>1. CASE Detail(w)
    <2> DEFINE v == [Idle EXCEPT !.job = wrk[w].job, !.pc = "post", !.seen = CaptureStatus, !.ok = fee]
    <2>1. UNCHANGED <<provider, intent, ledger, hold, inbox, spent>> /\ wrk[w].pc = "detail"
          /\ wrk' = [wrk EXCEPT ![w] = v]
      BY <1>1 DEF Detail, At
    <2>2. StateOK' /\ Stable
      BY <1>0, <2>1, Quiet DEF SpentOK
    <2>3. CaptureStatus \in Reported
      BY DEF CaptureStatus, Reported
    <2>4. v \in Work /\ v.job = wrk[w].job /\ v.pc = "post" /\ v.todo = {}
      BY <1>0, <2>3, IdleFits DEF Work, Pcs, Idle
    <2> HIDE DEF v
    <2>5. v.pc \in Ingesting /\ v.pc \notin Posted /\ v.pc # "refund" /\ wrk[w].pc \in Ingesting
      BY <2>1, <2>4 DEF Ingesting, Posted
    <2> QED BY <2>1, <2>2, <2>4, <2>5, Ingests
  <1>2. CASE Post(w)
    <2> DEFINE pc == IF wrk[w].job \in Refunds THEN "refund"
                     ELSE IF wrk[w].seen = "COMPLETED" THEN "final" ELSE "cover"
               v == [wrk[w] EXCEPT !.ok = (receipt' = "posted"), !.res = (wrk[w].seen = "COMPLETED"), !.pc = pc]
    <2>1. UNCHANGED <<provider, intent, posted, cover, hold, inbox, spent>> /\ wrk[w].pc = "post"
          /\ receipt' = IF wrk[w].ok \/ receipt = "posted" THEN "posted" ELSE "net_unresolved"
      BY <1>2 DEF Post, At
    <2>2. wrk' = [wrk EXCEPT ![w] = v]
      BY <1>0, <1>2 DEF Post
    <2>3. cap = "completed"
      BY <1>0, <2>1 DEF SeenHolds, Ingesting
    <2>4. receipt' \in {"net_unresolved", "posted"} /\ (receipt = "posted" => receipt' = "posted")
      BY <2>1
    <2>5. LedgerOK' /\ LedgerHolds'
      BY <1>0, <2>1, <2>3, <2>4 DEF LedgerOK, LedgerHolds, provider
    <2>6. StateOK' /\ Stable
      <3>1. UNCHANGED <<provider, intent, hold, inbox, spent>>
        BY <2>1
      <3> QED BY <2>4, <2>5, <3>1, LedgerWritten
    <2>7. pc \in Pcs /\ pc \in Posted /\ (pc = "refund" => wrk[w].job \in Refunds)
      BY DEF Pcs, Posted
    <2> HIDE DEF pc
    <2>8. v \in Work /\ v.job = wrk[w].job /\ v.pc = pc /\ v.ok = (receipt' = "posted")
          /\ v.todo = wrk[w].todo
      BY <1>0, <2>7 DEF Work
    <2> HIDE DEF v
    <2>9. v.pc \in Ingesting /\ wrk[w].pc \in Ingesting
      BY <2>1, <2>7, <2>8 DEF Ingesting
    <2> QED BY <2>1, <2>2, <2>4, <2>6, <2>7, <2>8, <2>9, Ingests
  <1> QED BY <1>1, <1>2

LEMMA RecordSafe ==
    ASSUME IInv, NEW w \in Workers, PostRefund(w) \/ Cover(w) \/ Count(w) \/ Mark(w)
    PROVE  IInv'
PROOF
  <1>0. /\ wrk \in [Workers -> Work] /\ wrk[w] \in Work /\ JobFits(wrk[w]) /\ SeenHolds(wrk[w])
        /\ SpentOK /\ LedgerOK /\ LedgerHolds
    BY Worker DEF IInv, StateOK
  <1>1. ASSUME wrk[w].pc \in Posted PROVE receipt # "none" /\ cap = "completed"
    BY <1>0, <1>1 DEF SeenHolds, Ingesting
  <1>2. CASE PostRefund(w)
    <2>1. UNCHANGED <<provider, intent, receipt, cover, hold, inbox, spent>> /\ wrk[w].pc = "refund"
          /\ posted' = posted \cup {wrk[w].job}
      BY <1>2 DEF PostRefund, At
    <2>2. wrk[w].job \in Refunds /\ refund[wrk[w].job] = "completed" /\ receipt # "none"
      BY <1>0, <2>1 DEF JobFits, SeenHolds, Ingesting, Posted
    <2>3. LedgerOK' /\ LedgerHolds'
      BY <1>0, <2>1, <2>2 DEF LedgerOK, LedgerHolds, provider
    <2>4. StateOK' /\ Stable
      BY <2>1, <2>3, LedgerWritten
    <2>5. PICK pc \in {"cover", "final"} : Goto(w, pc)
      BY <1>2 DEF PostRefund
    <2> QED BY <2>1, <2>4, <2>5, IngestGoesOn DEF Posted
  <1>3. CASE Cover(w)
    <2>1. UNCHANGED <<provider, intent, receipt, posted, hold, inbox, spent>> /\ wrk[w].pc = "cover"
          /\ cover' = [seen |-> wrk[w].seen, st |-> IF cover.seen = wrk[w].seen THEN cover.st ELSE "net_unresolved"]
          /\ Goto(w, "list")
      BY <1>3 DEF Cover, At
    <2>2. LedgerOK' /\ LedgerHolds'
      BY <1>0, <1>1, <2>1 DEF LedgerOK, LedgerHolds, Work, Posted, provider
    <2>3. StateOK' /\ Stable
      BY <2>1, <2>2, LedgerWritten
    <2> QED BY <2>1, <2>3, IngestGoesOn DEF Posted
  <1>5. CASE Count(w)
    <2> DEFINE b == \/ wrk[w].seen = "REFUNDED" /\ posted = Refunds
                    \/ wrk[w].seen = "PARTIALLY_REFUNDED" /\ posted # Refunds
                       /\ wrk[w].total = Cardinality(posted)
               v == [wrk[w] EXCEPT !.pc = "mark", !.seen = "none", !.total = 0, !.res = b]
    <2>1. UNCHANGED <<provider, intent, ledger, hold, inbox, spent>> /\ wrk[w].pc = "count"
      BY <1>5 DEF Count, At
    <2>2. wrk' = [wrk EXCEPT ![w] = v]
      BY <1>0, <1>5 DEF Count
    <2>3. StateOK' /\ Stable
      BY <1>0, <2>1, Quiet DEF SpentOK
    <2>4. b \in BOOLEAN /\ 0 \in -1..Cardinality(Refunds)
      BY PaymentAssumption, FS_CardinalityType
    <2> HIDE DEF b
    <2>5. v \in Work /\ v.job = wrk[w].job /\ v.pc = "mark" /\ v.ok = wrk[w].ok /\ v.todo = wrk[w].todo
      BY <1>0, <2>4 DEF Work, Pcs, Reported
    <2> HIDE DEF v
    <2>6. receipt' # "none" /\ (v.ok => receipt' = "posted")
      BY <1>0, <2>1, <2>3, <2>5 DEF SeenHolds, Posted, Stable
    <2>7. v.pc \in Ingesting /\ v.pc # "refund" /\ wrk[w].pc \in Ingesting
      BY <2>1, <2>5 DEF Ingesting, Posted
    <2> QED BY <2>1, <2>2, <2>3, <2>5, <2>6, <2>7, Ingests
  <1>6. CASE Mark(w)
    <2>1. UNCHANGED <<provider, intent, receipt, posted, hold, inbox, spent>> /\ wrk[w].pc = "mark"
          /\ cover' = [cover EXCEPT !.st = IF wrk[w].res THEN "resolved" ELSE "net_unresolved"]
          /\ Goto(w, "final")
      BY <1>6 DEF Mark, At
    <2>2. LedgerOK' /\ LedgerHolds'
      BY <1>0, <1>1, <2>1 DEF LedgerOK, LedgerHolds, Posted, provider
    <2>3. StateOK' /\ Stable
      BY <2>1, <2>2, LedgerWritten
    <2> QED BY <2>1, <2>3, IngestGoesOn DEF Posted
  <1> QED BY <1>2, <1>3, <1>5, <1>6

\* The refunds of the order are read and posted one by one.
LEMMA ListSafe ==
    ASSUME IInv, NEW w \in Workers, List(w) \/ ListedRefund(w) \/ PostListed(w)
    PROVE  IInv'
PROOF
  <1>0. /\ wrk \in [Workers -> Work] /\ wrk[w] \in Work /\ JobFits(wrk[w]) /\ SeenHolds(wrk[w])
        /\ ListHolds(wrk[w])
        /\ SpentOK /\ LedgerOK /\ LedgerHolds
    BY Worker DEF IInv, StateOK
  <1>1. /\ Completed \in SUBSET Refunds
        /\ {-1, 0, Cardinality(Completed)} \subseteq -1..Cardinality(Refunds)
    <2>1. Completed \subseteq Refunds
      BY DEF Completed
    <2>2. /\ Cardinality(Completed) \in Nat /\ Cardinality(Refunds) \in Nat
          /\ Cardinality(Completed) <= Cardinality(Refunds)
      BY <2>1, PaymentAssumption, FS_Subset, FS_CardinalityType
    <2> QED BY <2>1, <2>2
  <1>2. \A todo : AfterListed(todo) \in {"count", "each"}
    BY DEF AfterListed
  <1>3. CASE List(w)
    <2> DEFINE n == IF \E r \in Refunds : refund[r] = "pending" THEN -1 ELSE 0
               pc == AfterListed(Completed)
               v == [wrk[w] EXCEPT !.pc = pc, !.todo = Completed, !.total = n]
    <2>1. UNCHANGED <<provider, intent, ledger, hold, inbox, spent>> /\ wrk[w].pc = "list"
          /\ wrk' = [wrk EXCEPT ![w] = v]
      BY <1>0, <1>3 DEF List, At
    <2>2. n \in -1..Cardinality(Refunds) /\ pc \in {"count", "each"}
      BY <1>1, <1>2
    <2> HIDE DEF n, pc
    <2>3. v \in Work /\ v.job = wrk[w].job /\ v.pc = pc /\ v.ok = wrk[w].ok /\ v.todo = Completed
      BY <1>0, <1>1, <2>2 DEF Work, Pcs
    <2> HIDE DEF v
    <2> QED BY <1>0, <2>1, <2>2, <2>3, Reads
  <1>4. CASE ListedRefund(w)
    <2> DEFINE n == IF wrk[w].total = -1 THEN -1 ELSE Cardinality(Completed)
               v == [wrk[w] EXCEPT !.pc = "record", !.total = n]
    <2>1. UNCHANGED <<provider, intent, ledger, hold, inbox, spent>> /\ wrk[w].pc = "each"
          /\ wrk' = [wrk EXCEPT ![w] = v]
      BY <1>0, <1>4 DEF ListedRefund, At
    <2>2. n \in -1..Cardinality(Refunds)
      BY <1>1
    <2> HIDE DEF n
    <2>3. v \in Work /\ v.job = wrk[w].job /\ v.pc = "record" /\ v.ok = wrk[w].ok /\ v.todo = wrk[w].todo
      BY <1>0, <2>2 DEF Work, Pcs
    <2> HIDE DEF v
    <2> QED BY <1>0, <2>1, <2>3, Reads
  <1>5. CASE PostListed(w)
    <2>1. PICK r \in wrk[w].todo :
            /\ wrk[w].pc = "record" /\ posted' = posted \cup {r}
            /\ wrk' = [wrk EXCEPT ![w].pc = AfterListed(wrk[w].todo \ {r}), ![w].todo = @ \ {r}]
            /\ UNCHANGED <<provider, intent, receipt, cover, hold, inbox, spent>>
      BY <1>5 DEF PostListed, At
    <2> DEFINE pc == AfterListed(wrk[w].todo \ {r})
               v == [wrk[w] EXCEPT !.pc = pc, !.todo = wrk[w].todo \ {r}]
    <2>2. wrk' = [wrk EXCEPT ![w] = v] /\ pc \in {"count", "each"}
      BY <1>0, <1>2, <2>1
    <2>3. r \in Refunds /\ refund[r] = "completed" /\ receipt # "none" /\ wrk[w].todo \ {r} \in SUBSET Refunds
      BY <1>0, <2>1 DEF SeenHolds, ListHolds, Posted, Work
    <2>4. LedgerOK' /\ LedgerHolds'
      BY <1>0, <2>1, <2>3 DEF LedgerOK, LedgerHolds, provider
    <2>5. StateOK' /\ Stable
      BY <2>1, <2>4, LedgerWritten
    <2> HIDE DEF pc
    <2>6. v \in Work /\ v.job = wrk[w].job /\ v.pc = pc /\ v.ok = wrk[w].ok /\ v.todo \subseteq wrk[w].todo
      BY <1>0, <2>2, <2>3 DEF Work, Pcs
    <2> HIDE DEF v
    <2>7. receipt' # "none" /\ (v.ok => receipt' = "posted")
      BY <1>0, <2>1, <2>6 DEF SeenHolds, Posted
    <2>8. v.pc \in Ingesting /\ v.pc # "refund" /\ wrk[w].pc \in Ingesting
      BY <2>1, <2>2, <2>6 DEF Ingesting, Posted
    <2> QED BY <2>1, <2>2, <2>5, <2>6, <2>7, <2>8, Ingests
  <1> QED BY <1>3, <1>4, <1>5

LEMMA FinalizeSafe ==
    ASSUME IInv, NEW w \in Workers, Finalize(w)
    PROVE  IInv'
PROOF
  <1>0. /\ wrk[w] \in Work /\ JobFits(wrk[w]) /\ SeenHolds(wrk[w])
        /\ intent \in [st : IntentStatus, tries : 0..MaxTries]
    BY Worker DEF IInv, StateOK, IntentOK
  <1>1. UNCHANGED <<provider, ledger, hold, inbox, spent>> /\ wrk[w].pc = "final"
        /\ intent' = [intent EXCEPT !.st = IF wrk[w].ok /\ wrk[w].res THEN "verified" ELSE "net_unresolved"]
    BY DEF Finalize, At
  <1>2. wrk[w].ok => receipt = "posted"
    BY <1>0, <1>1 DEF SeenHolds, Posted
  <1>3. IntentOK' /\ StatusHolds'
    BY <1>0, <1>1, <1>2 DEF IntentOK, StatusHolds, IntentStatus, ledger
  <1>4. StateOK' /\ Stable
    BY <1>1, <1>3, IntentWritten
  <1>5. CASE wrk[w].job = "completed"
    <2>1. Goto(w, "close") /\ "close" \in Pcs
      BY <1>5 DEF Finalize, Pcs
    <2>2. JobFits([wrk[w] EXCEPT !.pc = "close"]) /\ SeenAfter([wrk[w] EXCEPT !.pc = "close"])
      BY <1>0, <1>5, <2>1, NextFits DEF JobFits, SeenAfter, Ingesting, Posted
    <2> QED BY <1>1, <1>4, <2>1, <2>2, GoesOn DEF IInv
  <1>6. CASE wrk[w].job \in Refunds
    <2>1. Goto(w, "done") /\ "done" \in Pcs
      BY <1>6, Names DEF Finalize, Pcs
    <2>2. JobFits([wrk[w] EXCEPT !.pc = "done"]) /\ SeenAfter([wrk[w] EXCEPT !.pc = "done"])
      BY <1>0, <1>6, <2>1, Names, NextFits DEF JobFits, SeenAfter, Ingesting, Posted
    <2> QED BY <1>1, <1>4, <2>1, <2>2, GoesOn DEF IInv
  <1>7. CASE wrk[w].job \notin Refunds \cup {"completed"}
    <2>1. End(w)
      BY <1>7 DEF Finalize
    <2> QED BY <1>1, <1>4, <2>1, Ends DEF IInv
  <1> QED BY <1>5, <1>6, <1>7

-----------------------------------------------------------------------------
(* The inbox.                                                              *)

\* An event is taken by one worker: nobody has one that waits.
LEMMA ClaimSafe ==
    ASSUME IInv, NEW w \in Workers, NEW e \in Events, Claim(w, e)
    PROVE  IInv'
PROOF
  <1> DEFINE pc == IF e = "pending" THEN "known" ELSE IF e = "denied" THEN "hold"
                   ELSE IF e = "completed" THEN "detail" ELSE "getRefund"
             v == [Idle EXCEPT !.job = e, !.pc = pc,
                               !.st = IF pc \in {"order", "readback"} THEN intent.st ELSE "none",
                               !.tries = IF pc = "readback" THEN intent.tries ELSE 0]
  <1>1. inbox[e] = "pending" /\ inbox' = [inbox EXCEPT ![e] = "processing"]
        /\ UNCHANGED <<provider, intent, ledger, hold, spent>> /\ wrk' = [wrk EXCEPT ![w] = v]
    BY DEF Claim, Set, Begin
  <1>2. /\ inbox \in [Events -> InboxStatus] /\ wrk \in [Workers -> Work]
        /\ SpentOK /\ EvidenceHolds /\ OneWorkerPerEvent
    BY Worker DEF IInv, StateOK, InboxOK, WorkersOK
  <1>3. InboxOK' /\ SpentOK' /\ \A x \in Events : inbox'[x] # "none" => inbox[x] # "none"
    BY <1>1, <1>2 DEF InboxOK, InboxStatus, Open, SpentOK
  <1>4. StateOK' /\ Stable
    BY <1>1, <1>3, InboxWritten
  <1>5. pc \in {"known", "hold", "detail", "getRefund"} /\ pc \in Pcs
    BY DEF Pcs
  <1>6. /\ pc = "known" => e = "pending"
        /\ pc = "hold" => e = "denied"
        /\ pc = "detail" => e = "completed"
        /\ pc = "getRefund" => e \in Refunds
    BY DEF Events
  <1> HIDE DEF pc
  <1>7. v \in Work /\ v.job = e /\ v.pc = pc /\ v.todo = {}
    BY <1>5, IdleFits DEF Work, Jobs, Idle
  <1> HIDE DEF v
  <1>8. pc = "detail" => cap' = "completed"
    BY <1>1, <1>2, <1>6 DEF EvidenceHolds, provider
  <1>9. JobFits(v) /\ SeenAfter(v)
    BY <1>5, <1>6, <1>7, <1>8, Names DEF JobFits, SeenAfter, Ingesting, Posted
  <1>10. WorkersOK'
    BY <1>1, <1>4, <1>7, <1>9, OneMoves
  <1>11. OneWorkerPerEvent'
    <2>1. wrk'[w].job = e /\ \A x \in Workers : x # w => wrk'[x] = wrk[x]
      BY <1>1, <1>2, <1>7
    <2>2. inbox'[e] = "processing" /\ \A f \in Events : f # e => inbox'[f] = inbox[f]
      BY <1>1, <1>2
    <2>3. \A x \in Workers : wrk[x].job # e
      BY <1>1, <1>2 DEF OneWorkerPerEvent
    <2> QED BY <1>2, <2>1, <2>2, <2>3 DEF OneWorkerPerEvent
  <1> QED BY <1>4, <1>10, <1>11 DEF IInv

\* Rows of the inbox that nobody works on.
LEMMA InboxSafe ==
    ASSUME IInv, NEW e \in Events, Arrive(e) \/ Stale(e) \/ Resolve(e)
    PROVE  IInv'
PROOF
  <1>1. inbox \in [Events -> InboxStatus] /\ SpentOK /\ WorkersOK
    BY DEF IInv, StateOK, InboxOK
  <1>2. PICK st \in {"pending", "dismissed"} : inbox' = [inbox EXCEPT ![e] = st]
    BY DEF Arrive, Stale, Resolve, Set
  <1>3. UNCHANGED <<provider, intent, ledger, hold, wrk, spent>> /\ inbox[e] # "none"
        /\ (inbox[e] # "processing" \/ ~Running(e))
    BY DEF Arrive, Stale, Resolve
  <1>4. InboxOK' /\ SpentOK'
    BY <1>1, <1>2, <1>3 DEF InboxOK, InboxStatus, Open, SpentOK
  <1>5. \A f \in Events : f # e => inbox'[f] = inbox[f]
    BY <1>1, <1>2
  <1>6. StateOK' /\ Stable
    <2>1. \A f \in Events : inbox'[f] # "none" => inbox[f] # "none"
      BY <1>3, <1>5
    <2>2. UNCHANGED <<provider, intent, ledger, hold>>
      BY <1>3
    <2> QED BY <1>4, <2>1, <2>2, InboxWritten
  <1>7. WorkersOK'
    BY <1>1, <1>3, <1>6 DEF WorkersOK, SeenHolds, ListHolds, Stable, provider
  <1>8. OneWorkerPerEvent'
    BY <1>3, <1>5, OthersWritten
  <1> QED BY <1>6, <1>7, <1>8 DEF IInv

\* A worker that gives up or finishes its event writes that event's row only.
LEMMA EventEnds ==
    ASSUME IInv, NEW w \in Workers, NEW e \in Events, wrk[w].job = e, End(w),
           NEW st \in {"processed", "pending", "review"}, Set(e, st),
           UNCHANGED <<provider, intent, ledger, hold>>, SpentOK'
    PROVE  IInv'
PROOF
  <1>1. inbox \in [Events -> InboxStatus] /\ inbox[e] = "processing"
    BY Worker
  <1>2. inbox' = [inbox EXCEPT ![e] = st] /\ \A f \in Events : f # e => inbox'[f] = inbox[f]
    BY <1>1 DEF Set
  <1>3. InboxOK' /\ \A f \in Events : inbox'[f] # "none" => inbox[f] # "none"
    BY <1>1, <1>2 DEF InboxOK, InboxStatus, Open
  <1>4. StateOK' /\ Stable
    BY <1>3, InboxWritten
  <1> QED BY <1>2, <1>4, Ends DEF IInv

LEMMA ProcessSafe ==
    ASSUME IInv, NEW w \in Workers, Process(w)
    PROVE  IInv'
PROOF
  <1>0. /\ wrk \in [Workers -> Work] /\ wrk[w] \in Work /\ JobFits(wrk[w]) /\ SpentOK
        /\ intent \in [st : IntentStatus, tries : 0..MaxTries] /\ HoldOK /\ StatusHolds /\ EvidenceHolds
    BY Worker DEF IInv, StateOK, IntentOK
  <1>1. CASE GetRefund(w)
    <2>1. UNCHANGED <<provider, intent, ledger, hold, spent>> /\ wrk[w].pc = "getRefund" /\ SpentOK'
      BY <1>0, <1>1 DEF GetRefund, At, SpentOK
    <2>2. wrk[w].job \in Refunds /\ wrk[w].job \in Events
      BY <1>0, <2>1, Names DEF JobFits
    <2>3. CASE wrk[w].job \in Completed
      <3>1. Goto(w, "detail") /\ UNCHANGED inbox /\ "detail" \in Pcs
        BY <1>1, <2>3 DEF GetRefund, Pcs
      <3>2. StateOK' /\ Stable
        BY <2>1, <3>1, Quiet
      <3>3. refund'[wrk[w].job] = "completed" /\ cap' = "completed"
        BY <1>0, <2>1, <2>2, <2>3 DEF Completed, EvidenceHolds, provider
      <3>4. JobFits([wrk[w] EXCEPT !.pc = "detail"]) /\ SeenAfter([wrk[w] EXCEPT !.pc = "detail"])
        BY <1>0, <2>2, <3>1, <3>3, NextFits DEF JobFits, SeenAfter, Ingesting, Posted
      <3> QED BY <3>1, <3>2, <3>4, GoesOn DEF IInv
    <2>4. CASE wrk[w].job \notin Completed
      <3>1. End(w) /\ Set(wrk[w].job, "review")
        BY <1>1, <2>4 DEF GetRefund
      <3> QED BY <2>1, <2>2, <3>1, EventEnds
    <2> QED BY <2>3, <2>4
  <1>2. CASE Known(w)
    <2> DEFINE v == [wrk[w] EXCEPT !.pc = "hold", !.ok = (receipt # "none")]
    <2>1. UNCHANGED <<provider, intent, ledger, hold, inbox, spent>> /\ wrk[w].pc = "known"
          /\ wrk' = [wrk EXCEPT ![w] = v]
      BY <1>0, <1>2 DEF Known, At
    <2>2. StateOK' /\ Stable
      BY <1>0, <2>1, Quiet DEF SpentOK
    <2>3. v \in Work /\ v.job = wrk[w].job /\ v.pc = "hold" /\ v.todo = wrk[w].todo
      BY <1>0 DEF Work, Pcs
    <2> HIDE DEF v
    <2>4. wrk[w].job = "pending"
      BY <1>0, <2>1 DEF JobFits
    <2>5. JobFits(v) /\ SeenAfter(v)
      BY <2>3, <2>4 DEF JobFits, SeenAfter, Ingesting, Posted
    <2> QED BY <2>1, <2>2, <2>3, <2>5, OneMoves, SameJob DEF IInv
  <1>3. CASE Hold(w)
    <2>1. UNCHANGED <<provider, intent, ledger, inbox, spent>> /\ wrk[w].pc = "hold" /\ HoldOK'
      BY <1>0, <1>3 DEF Hold, At, HoldOK
    <2>2. StateOK' /\ Stable
      BY <2>1, HoldWritten
    <2>3. wrk[w].job \in {"pending", "denied"}
      BY <1>0, <2>1 DEF JobFits
    <2>4. PICK pc \in {"deny", "done"} : Goto(w, pc) /\ (pc = "deny" => wrk[w].job = "denied")
      BY <1>3 DEF Hold
    <2>5. pc \in Pcs
      BY DEF Pcs
    <2>6. JobFits([wrk[w] EXCEPT !.pc = pc]) /\ SeenAfter([wrk[w] EXCEPT !.pc = pc])
      BY <1>0, <2>3, <2>4, <2>5, Names, NextFits DEF JobFits, SeenAfter, Ingesting, Posted
    <2> QED BY <2>1, <2>2, <2>4, <2>5, <2>6, GoesOn DEF IInv
  <1>4. CASE Deny(w)
    <2>1. UNCHANGED <<provider, ledger, hold, inbox, spent>> /\ wrk[w].pc = "deny" /\ Goto(w, "done")
          /\ "done" \in Pcs
      BY <1>4 DEF Deny, At, Pcs
    <2>2. wrk[w].job = "denied" /\ inbox["denied"] = "processing"
      BY <1>0, <2>1, Names, Worker DEF JobFits
    <2>3. cap = "declined"
      BY <1>0, <2>2 DEF EvidenceHolds
    <2>4. intent' = intent \/ intent' = [intent EXCEPT !.st = "capture_failed"]
      BY <1>4 DEF Deny
    <2>5. IntentOK' /\ StatusHolds'
      BY <1>0, <2>1, <2>3, <2>4 DEF IntentOK, StatusHolds, IntentStatus, Failed, provider, ledger
    <2>6. StateOK' /\ Stable
      BY <2>1, <2>5, IntentWritten
    <2>7. JobFits([wrk[w] EXCEPT !.pc = "done"]) /\ SeenAfter([wrk[w] EXCEPT !.pc = "done"])
      BY <1>0, <2>1, <2>2, Names, NextFits DEF JobFits, SeenAfter, Ingesting, Posted
    <2> QED BY <2>1, <2>6, <2>7, GoesOn DEF IInv
  <1>5. CASE Close(w)
    <2>1. UNCHANGED <<provider, intent, ledger, inbox, spent>> /\ wrk[w].pc = "close" /\ Goto(w, "done")
          /\ "done" \in Pcs /\ HoldOK'
      BY <1>0, <1>5 DEF Close, At, Pcs, HoldOK
    <2>2. StateOK' /\ Stable
      BY <2>1, HoldWritten
    <2>3. JobFits([wrk[w] EXCEPT !.pc = "done"]) /\ SeenAfter([wrk[w] EXCEPT !.pc = "done"])
      BY <1>0, <2>1, Names, NextFits DEF JobFits, SeenAfter, Ingesting, Posted
    <2> QED BY <2>1, <2>2, <2>3, GoesOn DEF IInv
  <1>6. CASE Processed(w)
    <2>1. UNCHANGED <<provider, intent, ledger, hold, spent>> /\ wrk[w].pc = "done" /\ SpentOK'
          /\ End(w) /\ Set(wrk[w].job, "processed")
      BY <1>0, <1>6 DEF Processed, At, SpentOK
    <2>2. wrk[w].job \in Events
      BY <1>0, <2>1 DEF JobFits
    <2> QED BY <2>1, <2>2, EventEnds
  <1> QED BY <1>1, <1>2, <1>3, <1>4, <1>5, <1>6 DEF Process

\* A failed call and a restart forget what the workers did.
LEMMA FailureSafe ==
    ASSUME IInv, Restart \/ \E w \in Workers : CallFails(w)
    PROVE  IInv'
PROOF
  <1>0. SpentOK /\ wrk \in [Workers -> Work]
    BY DEF IInv, StateOK, WorkersOK
  <1>1. ASSUME NEW w \in Workers, CallFails(w) PROVE IInv'
    <2>1. UNCHANGED <<provider, intent, ledger, hold>> /\ End(w) /\ SpentOK'
      BY <1>0, <1>1, PaymentAssumption DEF CallFails, Fault, SpentOK
    <2>2. CASE wrk[w].job \in Events
      <3>1. PICK st \in {"pending", "review"} : Set(wrk[w].job, st)
        BY <1>1, <2>2 DEF CallFails
      <3> QED BY <2>1, <2>2, <3>1, EventEnds
    <2>3. CASE wrk[w].job \notin Events
      <3>1. UNCHANGED inbox
        BY <1>1, <2>3 DEF CallFails
      <3>2. StateOK' /\ Stable
        BY <2>1, <3>1, Quiet
      <3> QED BY <2>1, <3>1, <3>2, Ends DEF IInv
    <2> QED BY <2>2, <2>3
  <1>2. CASE Restart
    <2>1. UNCHANGED <<provider, intent, ledger, hold, inbox>> /\ wrk' = [w \in Workers |-> Idle] /\ SpentOK'
      BY <1>0, <1>2, PaymentAssumption DEF Restart, Fault, SpentOK
    <2>2. StateOK'
      BY <2>1, Quiet
    <2>3. WorkersOK'
      <3>1. wrk' \in [Workers -> Work]
        BY <2>1, IdleFits
      <3>2. \A w \in Workers : JobFits(wrk[w])'
        BY <2>1, IdleFits DEF JobFits
      <3>3. \A w \in Workers : SeenHolds(wrk[w])'
        BY <2>1 DEF SeenHolds, Idle, Ingesting, Posted
      <3>4. \A w \in Workers : ListHolds(wrk[w])'
        BY <2>1 DEF ListHolds, Idle
      <3> QED BY <3>1, <3>2, <3>3, <3>4 DEF WorkersOK
    <2>4. OneWorkerPerEvent'
      <3>1. \A w \in Workers : wrk'[w].job \notin Events
        BY <2>1, IdleFits
      <3> QED BY <3>1 DEF OneWorkerPerEvent
    <2> QED BY <2>2, <2>3, <2>4 DEF IInv
  <1> QED BY <1>1, <1>2

LEMMA Initially == Init => IInv
PROOF
  <1> SUFFICES ASSUME Init PROVE IInv
    OBVIOUS
  <1>1. SpentOK /\ IntentOK
    BY PaymentAssumption DEF Init, SpentOK, IntentOK, IntentStatus
  <1>2. ProviderOK /\ LedgerOK /\ HoldOK
    BY DEF Init, ProviderOK, LedgerOK, HoldOK, Reported
  <1>3. InboxOK /\ \A e \in Events : inbox[e] = "none"
    BY DEF Init, InboxOK, InboxStatus
  <1>4. EvidenceHolds
    BY <1>3, Names DEF Init, EvidenceHolds
  <1>5. LedgerHolds /\ StatusHolds
    BY DEF Init, LedgerHolds, StatusHolds
  <1>6. \A w \in Workers : wrk[w] = Idle
    BY DEF Init
  <1>7. wrk \in [Workers -> Work]
    BY IdleFits DEF Init
  <1>8. \A w \in Workers : JobFits(wrk[w]) /\ SeenHolds(wrk[w]) /\ ListHolds(wrk[w])
    BY <1>6, IdleFits DEF SeenHolds, ListHolds, Idle, Ingesting, Posted
  <1>9. OneWorkerPerEvent
    BY <1>6, IdleFits DEF OneWorkerPerEvent
  <1> QED BY <1>1, <1>2, <1>3, <1>4, <1>5, <1>7, <1>8, <1>9 DEF IInv, StateOK, WorkersOK

-----------------------------------------------------------------------------
(* The theorems.                                                           *)

\* The invariant holds in every reachable state.
THEOREM Invariance == Spec => []IInv
PROOF
  <1>1. Init => IInv
    BY Initially
  <1>2. IInv /\ [Next]_vars => IInv'
    <2> SUFFICES ASSUME IInv, [Next]_vars PROVE IInv'
      OBVIOUS
    <2>1. CASE UNCHANGED vars
      <3>1. UNCHANGED <<provider, intent, ledger, hold, inbox>> /\ UNCHANGED wrk /\ SpentOK'
        BY <2>1 DEF vars, IInv, StateOK, SpentOK
      <3>2. StateOK' /\ Stable
        BY <3>1, Quiet
      <3>3. WorkersOK' /\ OneWorkerPerEvent'
        BY <3>1, <3>2 DEF IInv, WorkersOK, SeenHolds, ListHolds, Stable, OneWorkerPerEvent, vars, provider
      <3> QED BY <3>2, <3>3 DEF IInv
    <2>2. ASSUME NEW w \in Workers, CaptureStart(w) \/ Reconcile(w) \/ Step(w) PROVE IInv'
      BY <2>2, RequestSafe, ReconcileSafe, ReadSafe, RecordSafe, ListSafe, FinalizeSafe, ProcessSafe
         DEF Step, Ingest
    <2>3. ASSUME NEW e \in Events, Arrive(e) \/ Stale(e) \/ Resolve(e) PROVE IInv'
      BY <2>3, InboxSafe
    <2> QED BY <2>1, <2>2, <2>3, PayPalSafe, ClaimSafe, FailureSafe DEF Next
  <1> QED BY <1>1, <1>2, PTL DEF Spec

\* Orders, rows and workers keep their types.
THEOREM TypeCorrect == Spec => []TypeOK
PROOF
  <1>1. IInv => TypeOK
    BY DEF IInv, StateOK, ProviderOK, IntentOK, LedgerOK, HoldOK, InboxOK, SpentOK, WorkersOK, Work,
           Jobs, Pcs, TypeOK
  <1> QED BY <1>1, Invariance, PTL

\* paypal.ts:193-207 and 600-616: receipts and refunds are posted only for money that moved.
THEOREM LedgerIsTrue == Spec => []LedgerFollowsPayPal
PROOF
  <1>1. IInv => LedgerFollowsPayPal
    BY DEF IInv, StateOK, LedgerOK, LedgerHolds, LedgerFollowsPayPal, Completed
  <1> QED BY <1>1, Invariance, PTL

\* paypal.ts:156-157 and 705-736: a payment shown as failed or expired took no money.
THEOREM FailureIsFinal == Spec => []FailedTookNothing
PROOF
  <1>1. IInv => FailedTookNothing
    BY DEF IInv, StateOK, StatusHolds, FailedTookNothing, Failed
  <1> QED BY <1>1, Invariance, PTL

\* paypal.ts:199-201: a payment shown as verified is posted with its fee.
THEOREM VerifiedIsTrue == Spec => []VerifiedIsPosted
PROOF
  <1>1. IInv => VerifiedIsPosted
    BY DEF IInv, StateOK, StatusHolds, VerifiedIsPosted
  <1> QED BY <1>1, Invariance, PTL

\* paypal.ts:310-320: an event of the inbox has one worker.
THEOREM OneWorkerEach == Spec => []OneWorkerPerEvent
PROOF
  <1>1. IInv => OneWorkerPerEvent
    BY DEF IInv
  <1> QED BY <1>1, Invariance, PTL

-----------------------------------------------------------------------------
(* What the money in the ledger pays for, month by month.                  *)

\* paypalAllocation.ts:57-60, a month's money goes somewhere once: what was brought
\* forward and received is what was applied and is left; the cost is shared between
\* the fund and the owner; the fund never pays more than it has or more than the cost.
THEOREM MonthAddsUp ==
    ASSUME NEW opening \in Amounts, NEW received \in Int, NEW cost \in Amounts, NEW n \in Nat,
           AllocateMonth(opening, received, cost, n).status = "known"
    PROVE  LET r == AllocateMonth(opening, received, cost, n)
           IN  /\ Positive(opening.ore) + received = r.applied + r.closing.ore
               /\ r.applied + r.remainder = cost.ore
               /\ 0 <= r.applied /\ r.applied <= cost.ore
               /\ r.applied <= Positive(Positive(opening.ore) + received)
PROOF
  BY DEF AllocateMonth, Amounts, Amount, Nowhere, Positive, Least

\* paypalAllocation.ts:52-53, "never carried forward as a debt for later contributions
\* to repay, which would count the same loss twice": a month's loss is its owner's
\* adjustment and nothing else; what is carried is never negative, and the two together
\* are the closing balance.
THEOREM LossCountsOnce ==
    ASSUME NEW opening \in Amounts, NEW received \in Int, NEW cost \in Amounts, NEW n \in Nat,
           AllocateMonth(opening, received, cost, n).status = "known"
    PROVE  LET r == AllocateMonth(opening, received, cost, n)
           IN  /\ CarryOver(r).ore - r.adjustment = r.closing.ore
               /\ CarryOver(r).ore >= 0 /\ r.adjustment >= 0
               /\ CarryOver(r).ore = 0 \/ r.adjustment = 0
               /\ r.adjustment > 0 => r.applied = 0
PROOF
  BY DEF AllocateMonth, CarryOver, Amounts, Amount,
         NoAmount, Nowhere, Positive, Least

\* paypalAllocation.ts:49-55, no month is settled on a guess: unresolved money, an unknown
\* cost or an unknown opening balance leave this month and every later one open.
THEOREM UnknownStaysUnknown ==
    ASSUME NEW opening \in Amounts, NEW received \in Int, NEW cost \in Amounts, NEW n \in Nat,
           ~opening.known \/ n > 0 \/ ~cost.known
    PROVE  ~CarryOver(AllocateMonth(opening, received, cost, n)).known
PROOF
  BY DEF AllocateMonth, CarryOver, Amounts, Amount, NoAmount, Nowhere

-----------------------------------------------------------------------------
(* Induction over the months, through least counterexamples.               *)

Below == {p \in Nat \X Nat : p[1] < p[2]}

LEMMA BelowWellFounded == IsWellFoundedOn(Below, Nat)
  <1>1. Below = OpToRel(<, Nat)
    BY DEF OpToRel, Below
  <1> QED BY <1>1, NatLessThanWellFounded

\* Induction over an interval, for the set of the good months.
LEMMA IntervalInduction ==
    ASSUME NEW a \in Int, NEW b \in Int, NEW T, a \in T, \A m \in (a + 1)..b : m - 1 \in T => m \in T
    PROVE  \A m \in a..b : m \in T
  <1> DEFINE C == {m - a : m \in (a..b) \ T}
  <1>1. SUFFICES ASSUME NEW n \in a..b, n \notin T PROVE FALSE
    OBVIOUS
  <1>2. C \in SUBSET Nat /\ C # {}
    <2>1. \A m \in a..b : m - a \in Nat
      OBVIOUS
    <2>2. n - a \in C
      BY <1>1
    <2> QED BY <2>1, <2>2
  <1>3. PICK d \in C : \A e \in C : ~(<<e, d>> \in Below)
    BY <1>2, BelowWellFounded, WFMin
  <1>4. PICK m \in (a..b) \ T : d = m - a
    BY <1>3
  <1>5. m # a /\ m \in (a + 1)..b /\ m - 1 \in a..b /\ m - 1 - a \in Nat /\ m - a \in Nat /\ m - 1 - a < m - a
    BY <1>4
  <1>6. m - 1 \notin T
    BY <1>4, <1>5
  <1>7. m - 1 - a \in C
    BY <1>5, <1>6
  <1>8. <<m - 1 - a, m - a>> \in Below
    BY <1>5 DEF Below
  <1> QED BY <1>3, <1>4, <1>7, <1>8

LEMMA FirstMonth ==
    ASSUME NEW src, NEW last \in Nat \ {0}
    PROVE  First(src, last) \in 1..last
  <1> DEFINE P(m) == m = last \/ Active(src, m)
             C == {m \in 1..last : P(m)}
  <1>1. C \in SUBSET Nat /\ last \in C
    OBVIOUS
  <1>2. PICK d \in C : \A e \in C : ~(<<e, d>> \in Below)
    BY <1>1, BelowWellFounded, WFMin
  <1>3. \A n \in 1..(d - 1) : ~Active(src, n)
    <2> SUFFICES ASSUME NEW n \in 1..(d - 1), Active(src, n) PROVE FALSE
      OBVIOUS
    <2>1. n \in C /\ n < d /\ n \in Nat /\ d \in Nat
      BY <1>1
    <2>2. <<n, d>> \in Below
      BY <2>1 DEF Below
    <2> QED BY <1>2, <2>1, <2>2
  <1>4. \E m \in 1..last : P(m) /\ \A n \in 1..(m - 1) : ~Active(src, n)
    BY <1>2, <1>3
  <1> HIDE DEF P
  <1> QED BY <1>4 DEF First, P

-----------------------------------------------------------------------------
(* The loop over the months. *)

IsAfter(g, rows, src, first, last) ==
    g = [m \in (first - 1)..last |-> IF m < first THEN Opened(rows) ELSE MonthDone(g[m - 1], src, m)]

LEMMA LoopEnds ==
    ASSUME NEW rows, NEW src, NEW first \in Nat \ {0}, NEW last \in Nat, first <= last
    PROVE  \E g : IsAfter(g, rows, src, first, last)
  <1> DEFINE T == {n \in (first - 1)..last : \E g : IsAfter(g, rows, src, first, n)}
  <1>1. first - 1 \in T
    <2> DEFINE g == [m \in (first - 1)..(first - 1) |-> Opened(rows)]
    <2>1. IsAfter(g, rows, src, first, first - 1)
      BY DEF IsAfter
    <2> QED BY <2>1
  <1>2. ASSUME NEW n \in first..last, n - 1 \in T PROVE n \in T
    <2>1. PICK g : IsAfter(g, rows, src, first, n - 1)
      BY <1>2
    <2> DEFINE h == [m \in (first - 1)..n |-> IF m < n THEN g[m] ELSE MonthDone(g[n - 1], src, n)]
    <2>2. ASSUME NEW m \in (first - 1)..n
          PROVE  h[m] = IF m < first THEN Opened(rows) ELSE MonthDone(h[m - 1], src, m)
      <3>1. CASE m < n
        <4>1. m \in (first - 1)..(n - 1) /\ h[m] = g[m]
          BY <3>1
        <4>2. g[m] = IF m < first THEN Opened(rows) ELSE MonthDone(g[m - 1], src, m)
          BY <2>1, <4>1 DEF IsAfter
        <4>3. m >= first => h[m - 1] = g[m - 1]
          BY <3>1
        <4> QED BY <4>1, <4>2, <4>3
      <3>2. CASE m = n
        <4>1. h[m] = MonthDone(g[n - 1], src, n) /\ h[n - 1] = g[n - 1] /\ ~(m < first)
          BY <3>2
        <4> QED BY <3>2, <4>1
      <3> QED BY <3>1, <3>2
    <2>3. IsAfter(h, rows, src, first, n)
      BY <2>2 DEF IsAfter
    <2> QED BY <2>3
  <1>3. \A m \in (first - 1)..last : m \in T
    <2> HIDE DEF T
    <2>1. first - 1 \in Int /\ last \in Int /\ first - 1 + 1 = first
      OBVIOUS
    <2> QED BY <1>1, <1>2, <2>1, IntervalInduction
  <1> QED BY <1>3

\* The states of the loop: g[m] is that after month m.
Loop(g, rows, src, last) ==
    LET first == First(src, last)
    IN  /\ g[first - 1] = Opened(rows)
        /\ \A m \in first..last : g[m] = MonthDone(g[m - 1], src, m)

LEMMA Unrolled ==
    ASSUME NEW rows, NEW src, NEW last \in Nat \ {0}
    PROVE  \E g : Loop(g, rows, src, last) /\ Recalculate(rows, src, last) = g[last].rows
  <1> DEFINE first == First(src, last)
             g == CHOOSE f : IsAfter(f, rows, src, first, last)
  <1>1. first \in 1..last
    BY FirstMonth
  <1> HIDE DEF first
  <1>2. IsAfter(g, rows, src, first, last)
    <2>1. first \in Nat \ {0} /\ last \in Nat /\ first <= last
      BY <1>1
    <2>2. \E f : IsAfter(f, rows, src, first, last)
      BY <2>1, LoopEnds
    <2> HIDE DEF IsAfter
    <2> QED BY <2>2
  <1>3. Recalculate(rows, src, last) = g[last].rows
    BY DEF Recalculate, IsAfter, first
  <1> HIDE DEF g
  <1>4. Loop(g, rows, src, last)
    BY <1>1, <1>2 DEF IsAfter, Loop, first
  <1> QED BY <1>3, <1>4

-----------------------------------------------------------------------------
(* What the loop leaves. *)

\* The source a month is recalculated from.
SourceAt(g, src, k) == Source(src, k, g[k - 1].carry, g[k - 1].prior)
\* The months after the loop.
Revisions(g, rows, src, last, n) ==
    [k \in 1..n |-> IF k \in First(src, last)..last THEN Revised(rows[k], SourceAt(g, src, k)) ELSE rows[k]]

\* Rows per month, for n months.
PerMonth(rows, n) == rows = [k \in 1..n |-> rows[k]]

LEMMA LoopCloses ==
    ASSUME NEW n \in Nat, NEW rows, PerMonth(rows, n), NEW src, NEW last \in 1..n, NEW g, Loop(g, rows, src, last)
    PROVE  /\ g[last].rows = Revisions(g, rows, src, last, n)
           /\ \A m \in First(src, last)..last :
                 /\ g[m].carry = CarryOver(Allocated(SourceAt(g, src, m)))
                 /\ g[m].prior = Len(Revised(rows[m], SourceAt(g, src, m)))
  <1> DEFINE first == First(src, last)
             upto(m) == [k \in 1..n |-> IF k \in first..m THEN Revised(rows[k], SourceAt(g, src, k)) ELSE rows[k]]
             T == {m \in (first - 1)..last : g[m].rows = upto(m)}
  <1>1. first \in 1..last
    BY FirstMonth
  <1>2. /\ g[first - 1] = Opened(rows)
        /\ \A m \in first..last : g[m] = MonthDone(g[m - 1], src, m)
    BY DEF Loop
  <1>3. first - 1 \in T
    <2>1. upto(first - 1) = rows
      <3>1. \A k \in 1..n : k \notin first..(first - 1)
        BY <1>1
      <3> QED BY <3>1 DEF PerMonth
    <2> QED BY <1>1, <1>2, <2>1 DEF Opened
  <1>4. ASSUME NEW m \in first..last, m - 1 \in T
        PROVE  /\ m \in T
               /\ g[m].carry = CarryOver(Allocated(SourceAt(g, src, m)))
               /\ g[m].prior = Len(Revised(rows[m], SourceAt(g, src, m)))
    <2> DEFINE b == g[m - 1]
               s == SourceAt(g, src, m)
    <2>1. b.rows = upto(m - 1) /\ g[m] = MonthDone(b, src, m) /\ m \in 1..n
      BY <1>1, <1>2, <1>4
    <2>2. b.rows[m] = rows[m]
      BY <1>1, <2>1
    <2>3. g[m] = [rows |-> [b.rows EXCEPT ![m] = Revised(rows[m], s)],
                  carry |-> CarryOver(Allocated(s)), prior |-> Len(Revised(rows[m], s))]
      BY <2>1, <2>2 DEF MonthDone, SourceAt
    <2> HIDE DEF s
    <2>4. [upto(m - 1) EXCEPT ![m] = Revised(rows[m], s)] = upto(m)
      <3>1. ASSUME NEW k \in 1..n
            PROVE  [upto(m - 1) EXCEPT ![m] = Revised(rows[m], s)][k] = upto(m)[k]
        <4>1. CASE k = m
          BY <1>1, <2>1, <4>1 DEF s
        <4>2. CASE k # m
          <5>1. k \in first..m <=> k \in first..(m - 1)
            BY <1>1, <2>1, <4>2
          <5> QED BY <4>2, <5>1
        <4> QED BY <4>1, <4>2
      <3> QED BY <3>1
    <2> HIDE DEF upto
    <2>5. g[m].rows = upto(m)
      BY <2>1, <2>3, <2>4
    <2> QED BY <1>1, <2>3, <2>5 DEF s
  <1>5. \A m \in (first - 1)..last : m \in T
    <2> HIDE DEF T, first
    <2>1. first - 1 \in Int /\ last \in Int /\ first - 1 + 1 = first
      BY <1>1
    <2> QED BY <1>3, <1>4, <2>1, IntervalInduction
  <1>6. g[last].rows = upto(last)
    BY <1>1, <1>5
  <1>7. \A m \in first..last : m - 1 \in T
    <2> HIDE DEF T
    <2> QED BY <1>1, <1>5
  <1> QED BY <1>4, <1>6, <1>7 DEF Revisions

LEMMA LoopLeaves ==
    ASSUME NEW n \in Nat, NEW rows, PerMonth(rows, n), NEW src, NEW last \in 1..n, NEW g, Loop(g, rows, src, last),
           NEW m \in First(src, last)..last
    PROVE  /\ g[m].carry = CarryOver(Allocated(SourceAt(g, src, m)))
           /\ g[m].prior = Len(Revised(rows[m], SourceAt(g, src, m)))
  BY LoopCloses

LEMMA InLoop ==
    ASSUME NEW n \in Nat, NEW rows, PerMonth(rows, n), NEW src, NEW last \in 1..n
    PROVE  \E g : /\ Loop(g, rows, src, last)
                  /\ Recalculate(rows, src, last) = Revisions(g, rows, src, last, n)
  <1>1. last \in Nat \ {0}
    OBVIOUS
  <1>2. PICK g : Loop(g, rows, src, last) /\ Recalculate(rows, src, last) = g[last].rows
    BY <1>1, Unrolled
  <1>3. g[last].rows = Revisions(g, rows, src, last, n)
    BY <1>2, LoopCloses
  <1> QED BY <1>2, <1>3

-----------------------------------------------------------------------------
\* The revisions of a month, each with what its own source allocates.
IsRow(row) ==
    /\ row \in Seq({row[i] : i \in DOMAIN row})
    /\ \A i \in DOMAIN row : row[i].result = Allocated(row[i].source)
Ledger(rows, n) == PerMonth(rows, n) /\ \A k \in 1..n : IsRow(rows[k])

LEMMA RevisedLedger ==
    ASSUME NEW row, IsRow(row), NEW source
    PROVE  LET new == Revised(row, source)
           IN  /\ IsRow(new)
               /\ \A i \in DOMAIN row : i \in DOMAIN new /\ new[i] = row[i]
               /\ new # <<>> /\ Latest(new) = new[Len(new)] /\ Len(new) \in DOMAIN new
               /\ Latest(new).source = source /\ Latest(new).result = Allocated(source)
               /\ Len(new) \in {Len(row), Len(row) + 1}
  <1> DEFINE e == [source |-> source, result |-> Allocated(source)]
             more == Append(row, e)
             Es == {row[i] : i \in DOMAIN row}
  <1>1. CASE row = <<>> \/ Latest(row).source # source
    <2>1. Revised(row, source) = more
      BY <1>1 DEF Revised
    <2>2. e.source = source /\ e.result = Allocated(source)
      OBVIOUS
    <2> HIDE DEF e
    <2>3. /\ Len(more) = Len(row) + 1 /\ DOMAIN more = 1..(Len(row) + 1) /\ DOMAIN row = 1..Len(row) /\ Len(row) \in Nat
          /\ more[Len(row) + 1] = e /\ \A i \in 1..Len(row) : more[i] = row[i]
          /\ more \in Seq(Es \cup {e})
      <3> HIDE DEF Es
      <3>1. row \in Seq(Es)
        BY DEF Es, IsRow
      <3> QED BY <3>1
    <2>4. more \in Seq({more[i] : i \in DOMAIN more})
      <3> DEFINE Ms == {more[i] : i \in DOMAIN more}
                 k == Len(row) + 1
      <3>1. more = [i \in 1..k |-> more[i]] /\ k \in Nat
        <4> HIDE DEF more, Es, Ms
        <4> QED BY <2>3
      <3>2. \A i \in 1..k : more[i] \in Ms
        BY <2>3
      <3> HIDE DEF Ms, k
      <3>3. more \in [1..k -> Ms]
        BY <3>1, <3>2
      <3>4. more \in Seq(Ms)
        BY <3>1, <3>3
      <3> QED BY <3>4 DEF Ms
    <2>5. \A i \in DOMAIN more : more[i] = e \/ (i \in DOMAIN row /\ more[i] = row[i])
      BY <2>3
    <2>6. more # <<>> /\ Latest(more) = e /\ Latest(more) = more[Len(more)] /\ Len(more) \in DOMAIN more
      BY <2>3, <2>4 DEF Latest
    <2> HIDE DEF more
    <2>7. \A i \in DOMAIN more : more[i].result = Allocated(more[i].source)
      BY <2>2, <2>5 DEF IsRow
    <2>8. \A i \in DOMAIN row : i \in DOMAIN more /\ more[i] = row[i]
      BY <2>3
    <2>9. IsRow(more)
      BY <2>4, <2>7 DEF IsRow
    <2> QED BY <2>1, <2>2, <2>3, <2>6, <2>8, <2>9
  <1>2. CASE ~(row = <<>> \/ Latest(row).source # source)
    <2>1. Revised(row, source) = row
      BY <1>2 DEF Revised
    <2>2. Len(row) \in DOMAIN row
      BY <1>2 DEF IsRow
    <2>3. Latest(row).result = Allocated(Latest(row).source) /\ Latest(row).source = source /\ Latest(row) = row[Len(row)]
      BY <1>2, <2>2 DEF IsRow, Latest
    <2> QED BY <1>2, <2>1, <2>2, <2>3
  <1> QED BY <1>1, <1>2

\* paypalAllocation.ts:111-117: recalculating from the same sources adds no revision, although
\* each month's source names the row of the month before.
THEOREM RecalculatingSettles ==
    ASSUME NEW n \in Nat, NEW rows, Ledger(rows, n), NEW src, NEW last \in 1..n
    PROVE  LET R == Recalculate(rows, src, last) IN Recalculate(R, src, last) = R
  <1> DEFINE R == Recalculate(rows, src, last)
             first == First(src, last)
  <1>0. first \in 1..last
    BY FirstMonth
  <1>a. PerMonth(rows, n)
    BY DEF Ledger
  <1>1. PICK g : Loop(g, rows, src, last) /\ R = Revisions(g, rows, src, last, n)
    BY <1>a, InLoop
  <1>2. PerMonth(R, n)
    BY <1>1 DEF Revisions, PerMonth
  <1> HIDE DEF R
  <1>3. PICK h : Loop(h, R, src, last) /\ Recalculate(R, src, last) = Revisions(h, R, src, last, n)
    BY <1>2, InLoop
  <1> DEFINE T == {m \in (first - 1)..last : g[m].carry = h[m].carry /\ g[m].prior = h[m].prior}
  <1>4. first - 1 \in T
    BY <1>0, <1>1, <1>3 DEF Loop, Opened
  <1>5. ASSUME NEW m \in first..last, m - 1 \in T
        PROVE  m \in T /\ Revised(R[m], SourceAt(h, src, m)) = R[m]
    <2> DEFINE s == SourceAt(g, src, m)
    <2>1. s = SourceAt(h, src, m)
      BY <1>5 DEF SourceAt
    <2>2. g[m].carry = CarryOver(Allocated(s)) /\ g[m].prior = Len(Revised(rows[m], s))
      <3>1. /\ g[m].carry = CarryOver(Allocated(SourceAt(g, src, m)))
            /\ g[m].prior = Len(Revised(rows[m], SourceAt(g, src, m)))
        BY <1>1, <1>a, LoopLeaves
      <3> QED BY <3>1
    <2>3. h[m].carry = CarryOver(Allocated(s)) /\ h[m].prior = Len(Revised(R[m], s))
      <3>1. /\ h[m].carry = CarryOver(Allocated(SourceAt(h, src, m)))
            /\ h[m].prior = Len(Revised(R[m], SourceAt(h, src, m)))
        BY <1>2, <1>3, LoopLeaves
      <3> HIDE DEF s
      <3> QED BY <2>1, <3>1
    <2>4. m \in 1..n
      BY <1>0
    <2>5. R[m] = Revised(rows[m], s)
      BY <1>1, <2>4 DEF Revisions
    <2>6. Revised(R[m], s) = R[m]
      <3>1. IsRow(rows[m])
        BY <2>4 DEF Ledger
      <3> HIDE DEF s
      <3>2. R[m] # <<>> /\ Latest(R[m]).source = s
        BY <2>5, <3>1, RevisedLedger
      <3> QED BY <3>2 DEF Revised
    <2> HIDE DEF s
    <2> QED BY <1>0, <2>1, <2>2, <2>3, <2>5, <2>6
  <1>6. \A m \in (first - 1)..last : m \in T
    <2> HIDE DEF T, first
    <2>1. first - 1 \in Int /\ last \in Int /\ first - 1 + 1 = first
      BY <1>0
    <2> QED BY <1>4, <1>5, <2>1, IntervalInduction
  <1>7. ASSUME NEW k \in 1..n
        PROVE  Revisions(h, R, src, last, n)[k] = R[k]
    <2>1. CASE k \in first..last
      <3>1. k - 1 \in T
        <4> HIDE DEF T
        <4> QED BY <1>0, <1>6, <2>1
      <3> QED BY <1>5, <2>1, <3>1 DEF Revisions
    <2>2. CASE k \notin first..last
      BY <2>2 DEF Revisions
    <2> QED BY <2>1, <2>2
  <1>8. Revisions(h, R, src, last, n) = R
    BY <1>2, <1>7 DEF Revisions, PerMonth
  <1> QED BY <1>3, <1>8 DEF R

\* paypalAllocation.ts:110-132, whatever was recalculated before: the latest revision of every
\* month the loop goes through is that of the present source, which opens with what the month
\* before leaves; the revisions before it stay as they were, and at most one is added.
THEOREM RecalculatedIsCurrent ==
    ASSUME NEW n \in Nat, NEW rows, Ledger(rows, n), NEW src, NEW last \in 1..n
    PROVE  LET R == Recalculate(rows, src, last)
               first == First(src, last)
           IN  /\ Ledger(R, n)
               /\ \A k \in 1..n :
                     /\ Len(R[k]) \in {Len(rows[k]), Len(rows[k]) + 1}
                     /\ \A i \in DOMAIN rows[k] : i \in DOMAIN R[k] /\ R[k][i] = rows[k][i]
               /\ \A k \in first..last :
                     /\ R[k] # <<>>
                     /\ Latest(R[k]).source =
                           IF k = first THEN Source(src, k, Amount(0), 0)
                           ELSE Source(src, k, CarryOver(Latest(R[k - 1]).result), Len(R[k - 1]))
                     /\ Latest(R[k]).result = Allocated(Latest(R[k]).source)
  <1> DEFINE R == Recalculate(rows, src, last)
             first == First(src, last)
  <1>0. first \in 1..last
    BY FirstMonth
  <1>1. PerMonth(rows, n)
    BY DEF Ledger
  <1>2. PICK g : Loop(g, rows, src, last) /\ R = Revisions(g, rows, src, last, n)
    BY <1>1, InLoop
  <1> DEFINE s(k) == SourceAt(g, src, k)
  <1> HIDE DEF R
  <1>3. \A m \in first..last : g[m].carry = CarryOver(Allocated(s(m))) /\ g[m].prior = Len(Revised(rows[m], s(m)))
    BY <1>1, <1>2, LoopLeaves
  <1>4. PerMonth(R, n)
    BY <1>2 DEF Revisions, PerMonth
  <1>5. /\ \A k \in first..last : R[k] = Revised(rows[k], s(k)) /\ k \in 1..n
        /\ \A k \in 1..n : k \notin first..last => R[k] = rows[k]
    BY <1>0, <1>2 DEF Revisions
  <1>6. \A k \in 1..n : IsRow(rows[k])
    BY DEF Ledger
  <1> HIDE DEF s, first
  <1>7. ASSUME NEW k \in 1..n
        PROVE  /\ IsRow(R[k])
               /\ Len(R[k]) \in {Len(rows[k]), Len(rows[k]) + 1}
               /\ \A i \in DOMAIN rows[k] : i \in DOMAIN R[k] /\ R[k][i] = rows[k][i]
    <2> DEFINE row == rows[k]
    <2>1. IsRow(row)
      BY <1>6
    <2>2. CASE k \in first..last
      <3>1. R[k] = Revised(row, s(k))
        BY <1>5, <2>2
      <3> HIDE DEF row
      <3> QED BY <2>1, <3>1, RevisedLedger DEF row
    <2>3. CASE k \notin first..last
      BY <1>5, <2>1, <2>3
    <2> QED BY <2>2, <2>3
  <1>8. ASSUME NEW k \in first..last
        PROVE  R[k] # <<>> /\ Latest(R[k]).source = s(k) /\ Latest(R[k]).result = Allocated(s(k))
    <2> DEFINE row == rows[k]
    <2>1. /\ IsRow(row)
          /\ R[k] = Revised(row, s(k))
      BY <1>5, <1>6
    <2> HIDE DEF row
    <2> QED BY <2>1, RevisedLedger
  <1>9. ASSUME NEW k \in first..last
        PROVE  s(k) = IF k = first THEN Source(src, k, Amount(0), 0)
                      ELSE Source(src, k, CarryOver(Latest(R[k - 1]).result), Len(R[k - 1]))
    <2>1. CASE k = first
      BY <1>2, <2>1 DEF Loop, Opened, s, SourceAt, first
    <2>2. CASE k # first
      <3>1. k - 1 \in first..last
        BY <1>0, <2>2
      <3>2. g[k - 1].carry = CarryOver(Allocated(s(k - 1))) /\ g[k - 1].prior = Len(Revised(rows[k - 1], s(k - 1)))
        BY <1>3, <3>1
      <3>3. Latest(R[k - 1]).result = Allocated(s(k - 1)) /\ R[k - 1] = Revised(rows[k - 1], s(k - 1))
        BY <1>5, <1>8, <3>1
      <3>4. s(k) = Source(src, k, g[k - 1].carry, g[k - 1].prior)
        BY DEF s, SourceAt
      <3> QED BY <2>2, <3>2, <3>3, <3>4
    <2> QED BY <2>1, <2>2
  <1>10. Ledger(R, n)
    BY <1>4, <1>7 DEF Ledger
  <1>11. ASSUME NEW k \in first..last
         PROVE  /\ R[k] # <<>>
                /\ Latest(R[k]).source =
                      IF k = first THEN Source(src, k, Amount(0), 0)
                      ELSE Source(src, k, CarryOver(Latest(R[k - 1]).result), Len(R[k - 1]))
                /\ Latest(R[k]).result = Allocated(Latest(R[k]).source)
    BY <1>8, <1>9
  <1> QED BY <1>7, <1>10, <1>11 DEF R, first

LEMMA PriorIsNoMoney ==
    ASSUME NEW src, NEW m, NEW opening, NEW p, NEW q
    PROVE  Allocated(Source(src, m, opening, p)) = Allocated(Source(src, m, opening, q))
  BY DEF Allocated, Source

\* paypalAllocation.ts:92-132: what the months say is decided by the present sources alone, two
\* ledgers with any earlier revisions end with the same results.
THEOREM HistoryIsNoMoney ==
    ASSUME NEW n \in Nat, NEW rows, Ledger(rows, n), NEW other, Ledger(other, n), NEW src, NEW last \in 1..n
    PROVE  \A k \in First(src, last)..last :
              Latest(Recalculate(rows, src, last)[k]).result = Latest(Recalculate(other, src, last)[k]).result
  <1> DEFINE R == Recalculate(rows, src, last)
             Q == Recalculate(other, src, last)
             first == First(src, last)
             T == {k \in first..last : Latest(R[k]).result = Latest(Q[k]).result}
  <1>0. first \in 1..last
    BY FirstMonth
  <1>1. \A k \in first..last :
           Latest(R[k]).result = Allocated(IF k = first THEN Source(src, k, Amount(0), 0)
                                           ELSE Source(src, k, CarryOver(Latest(R[k - 1]).result), Len(R[k - 1])))
    BY RecalculatedIsCurrent
  <1>2. \A k \in first..last :
           Latest(Q[k]).result = Allocated(IF k = first THEN Source(src, k, Amount(0), 0)
                                           ELSE Source(src, k, CarryOver(Latest(Q[k - 1]).result), Len(Q[k - 1])))
    BY RecalculatedIsCurrent
  <1> HIDE DEF R, Q, first
  <1>3. first \in T
    BY <1>0, <1>1, <1>2
  <1>4. ASSUME NEW k \in (first + 1)..last, k - 1 \in T
        PROVE  k \in T
    <2>1. k \in first..last /\ k # first /\ Latest(R[k - 1]).result = Latest(Q[k - 1]).result
      BY <1>0, <1>4
    <2> DEFINE opening == CarryOver(Latest(R[k - 1]).result)
    <2>2. Latest(R[k]).result = Allocated(Source(src, k, opening, Len(R[k - 1])))
      BY <1>1, <2>1
    <2>3. Latest(Q[k]).result = Allocated(Source(src, k, opening, Len(Q[k - 1])))
      BY <1>2, <2>1
    <2> HIDE DEF opening
    <2> QED BY <2>1, <2>2, <2>3, PriorIsNoMoney
  <1>5. \A k \in first..last : k \in T
    <2> HIDE DEF T
    <2> QED BY <1>0, <1>3, <1>4, IntervalInduction
  <1> QED BY <1>5 DEF R, Q, first

-----------------------------------------------------------------------------
\* t is the running total of what x says of the months first to last.
IsTotal(t, x, first, last) ==
    t[first - 1] = 0 /\ \A m \in first..last : t[m] = t[m - 1] + x[m]

\* What the latest rows R say of each month.
ReceivedIn(R) == [m \in DOMAIN R |-> Received(Latest(R[m]).source.postings)]
AppliedIn(R) == [m \in DOMAIN R |-> Latest(R[m]).result.applied]
LostIn(R) == [m \in DOMAIN R |-> Latest(R[m]).result.adjustment]

\* What the sources hold: integers, and a finite number of transactions.
IsSource(src, last) ==
    /\ IsFiniteSet(src.unresolved)
    /\ \A m \in 1..last : Received(src.postings[m]) \in Int /\ \A s \in src.statements[m] : s.ore \in Int

LEMMA SourceIsMoney ==
    ASSUME NEW src, NEW last \in Nat, IsSource(src, last), NEW m \in 1..last, NEW opening, NEW prior
    PROVE  LET s == Source(src, m, opening, prior)
           IN  /\ s.opening = opening /\ Received(s.postings) \in Int
               /\ CostOf(s.statements) \in Amounts /\ Cardinality(s.blockers) \in Nat
  <1> DEFINE s == Source(src, m, opening, prior)
  <1>1. s.opening = opening /\ s.postings = src.postings[m] /\ s.statements = Newest(src.statements[m])
        /\ s.blockers = {k \in src.unresolved : k <= m}
    BY DEF Source
  <1> HIDE DEF s
  <1>2. Received(s.postings) \in Int
    BY <1>1 DEF IsSource
  <1>3. Cardinality(s.blockers) \in Nat
    <2>1. s.blockers \subseteq src.unresolved
      BY <1>1
    <2>2. IsFiniteSet(s.blockers)
      BY <2>1, FS_Subset DEF IsSource
    <2> QED BY <2>2, FS_CardinalityType
  <1>4. CostOf(s.statements) \in Amounts
    <2> DEFINE N == s.statements
    <2>1. \A x \in N : x.ore \in Int
      BY <1>1 DEF Newest, IsSource
    <2> HIDE DEF N
    <2>2. CASE Cardinality(N) = 1 /\ \A x \in N : x.complete
      <3>1. N # {}
        BY <2>2, FS_EmptySet
      <3>2. (CHOOSE x \in N : TRUE) \in N
        BY <3>1
      <3> DEFINE c == CHOOSE x \in N : TRUE
      <3>3. CostOf(N) = Amount(c.ore)
        BY <2>2 DEF CostOf
      <3> HIDE DEF c
      <3>4. c.ore \in Int
        BY <2>1, <3>2 DEF c
      <3> QED BY <3>3, <3>4 DEF Amount, Amounts, N
    <2>3. CASE ~(Cardinality(N) = 1 /\ \A x \in N : x.complete)
      <3>1. CostOf(N) = NoAmount
        BY <2>3 DEF CostOf
      <3> QED BY <3>1 DEF NoAmount, Amounts, N
    <2> QED BY <2>2, <2>3
  <1> QED BY <1>1, <1>2, <1>3, <1>4 DEF s

LEMMA MonthBalances ==
    ASSUME NEW opening \in Amounts, opening.ore >= 0, NEW received \in Int, NEW cost \in Amounts, NEW n \in Nat,
           AllocateMonth(opening, received, cost, n).status = "known"
    PROVE  LET r == AllocateMonth(opening, received, cost, n)
           IN  /\ CarryOver(r) \in Amounts /\ CarryOver(r).ore >= 0
               /\ r.applied \in Int /\ r.adjustment \in Int
               /\ opening.ore + received + r.adjustment = r.applied + CarryOver(r).ore
  BY DEF AllocateMonth, CarryOver, Amounts, Amount, NoAmount, Nowhere, Positive, Least

\* paypalAllocation.ts:52-60, 130-132, over all the months nothing is lost or counted twice: once
\* every month is settled, what came in and what the owner lost is what was applied and is left.
THEOREM MoneyAddsUpOverMonths ==
    ASSUME NEW n \in Nat, NEW rows, Ledger(rows, n), NEW src, NEW last \in 1..n, IsSource(src, last),
           NEW R, R = Recalculate(rows, src, last), NEW first, first = First(src, last),
           \A m \in first..last : Latest(R[m]).result.status = "known",
           NEW in, IsTotal(in, ReceivedIn(R), first, last),
           NEW lost, IsTotal(lost, LostIn(R), first, last),
           NEW applied, IsTotal(applied, AppliedIn(R), first, last)
    PROVE  in[last] + lost[last] = applied[last] + CarryOver(Latest(R[last]).result).ore
  <1> DEFINE result(m) == Latest(R[m]).result
             carry(m) == IF m < first THEN Amount(0) ELSE CarryOver(result(m))
             T == {m \in (first - 1)..last :
                      /\ in[m] \in Int /\ lost[m] \in Int /\ applied[m] \in Int
                      /\ carry(m) \in Amounts /\ carry(m).ore >= 0
                      /\ in[m] + lost[m] = applied[m] + carry(m).ore}
  <1>0. first \in 1..last
    BY FirstMonth
  <1>1. \A k \in first..last :
           /\ Latest(R[k]).source = IF k = first THEN Source(src, k, Amount(0), 0)
                                    ELSE Source(src, k, CarryOver(Latest(R[k - 1]).result), Len(R[k - 1]))
           /\ result(k) = Allocated(Latest(R[k]).source)
    BY RecalculatedIsCurrent
  <1>2. DOMAIN R = 1..n
    BY RecalculatedIsCurrent DEF Ledger, PerMonth
  <1>3. first - 1 \in T
    BY <1>0 DEF IsTotal, Amount, Amounts
  <1>4. ASSUME NEW k \in first..last, k - 1 \in T
        PROVE  k \in T
    <2> DEFINE s == Latest(R[k]).source
               prior == IF k = first THEN 0 ELSE Len(R[k - 1])
    <2>1. s = Source(src, k, carry(k - 1), prior)
      BY <1>0, <1>1
    <2>2. result(k) = Allocated(s) /\ result(k).status = "known" /\ k \in 1..last /\ k \in 1..n
      BY <1>0, <1>1
    <2>3. /\ in[k] = in[k - 1] + Received(s.postings) /\ lost[k] = lost[k - 1] + result(k).adjustment
          /\ applied[k] = applied[k - 1] + result(k).applied
      BY <1>2, <2>2 DEF IsTotal, ReceivedIn, LostIn, AppliedIn
    <2>4. /\ in[k - 1] \in Int /\ lost[k - 1] \in Int /\ applied[k - 1] \in Int
          /\ carry(k - 1) \in Amounts /\ carry(k - 1).ore >= 0
          /\ in[k - 1] + lost[k - 1] = applied[k - 1] + carry(k - 1).ore
      BY <1>4
    <2>5. carry(k) = CarryOver(result(k))
      BY <1>0
    <2> DEFINE opening == carry(k - 1)
               after == carry(k)
               res == result(k)
    <2> HIDE DEF s, prior, T, opening, after, res
    <2>6. /\ s.opening = opening /\ Received(s.postings) \in Int
          /\ CostOf(s.statements) \in Amounts /\ Cardinality(s.blockers) \in Nat
      BY <2>1, <2>2, SourceIsMoney DEF opening
    <2>7. res = AllocateMonth(opening, Received(s.postings), CostOf(s.statements), Cardinality(s.blockers))
      BY <2>2, <2>6 DEF Allocated, res
    <2>8. /\ after \in Amounts /\ after.ore >= 0 /\ res.applied \in Int /\ res.adjustment \in Int
          /\ opening.ore + Received(s.postings) + res.adjustment = res.applied + after.ore
      <3>1. opening \in Amounts /\ opening.ore >= 0 /\ res.status = "known" /\ after = CarryOver(res)
        BY <2>2, <2>4, <2>5 DEF opening, res, after
      <3> QED BY <2>6, <2>7, <3>1, MonthBalances
    <2>9. /\ in[k] \in Int /\ lost[k] \in Int /\ applied[k] \in Int /\ after \in Amounts /\ after.ore >= 0
          /\ in[k] + lost[k] = applied[k] + after.ore
      <3>1. opening.ore \in Int /\ after.ore \in Int
        BY <2>4, <2>8 DEF Amounts, opening
      <3>2. /\ in[k - 1] + lost[k - 1] = applied[k - 1] + opening.ore
            /\ lost[k] = lost[k - 1] + res.adjustment /\ applied[k] = applied[k - 1] + res.applied
        BY <2>3, <2>4 DEF opening, res
      <3> QED BY <2>3, <2>4, <2>6, <2>8, <3>1, <3>2
    <2>10. k \in (first - 1)..last
      BY <1>0
    <2> QED BY <2>9, <2>10 DEF T, after
  <1>5. \A k \in (first - 1)..last : k \in T
    <2> HIDE DEF T
    <2>1. first - 1 \in Int /\ last \in Int /\ first - 1 + 1 = first
      BY <1>0
    <2> QED BY <1>3, <1>4, <2>1, IntervalInduction
  <1>6. last \in T
    <2> HIDE DEF T
    <2> QED BY <1>0, <1>5
  <1> QED BY <1>0, <1>6

=============================================================================
