--------------------------- MODULE PaymentCapture ---------------------------
(***************************************************************************)
(* A one-off PayPal payment: capture, webhooks, refunds, reconciliation.   *)
(*                                                                         *)
(* The member's request captures the approved order; the answer may be     *)
(* lost.  Webhooks reach an inbox late and in any order, and are processed *)
(* each by one worker, several at once.  A reconciliation pass reads back  *)
(* uncertain captures and unresolved amounts.  All of them ingest the      *)
(* capture: post the receipt, and record the refunds behind a placeholder  *)
(* that says whether all of them are on record.                            *)
(*                                                                         *)
(* One order of one member.  Every refund is one unit of the amount, which *)
(* is the number of refunds.  A repeated delivery of a webhook changes     *)
(* nothing (the inbox keeps one row per event) and is left out.            *)
(***************************************************************************)
EXTENDS Integers, FiniteSets

CONSTANTS
    Refunds,      \* refunds of the payment, together its whole amount
    Workers,      \* runs of a request, of the inbox or of the reconciliation
    MaxTries,     \* CAPTURE_RETRY_LIMIT
    MaxRequests,  \* bound: the member's capture requests
    MaxFaults     \* bound: failed calls, lost answers and crashes, together

ASSUME PaymentAssumption ==
    /\ IsFiniteSet(Refunds)
    /\ Refunds \cap {"none", "capture", "reconcile", "pending", "denied", "completed"} = {}
    /\ MaxTries \in Nat /\ MaxRequests \in Nat /\ MaxFaults \in Nat

Events == {"pending", "denied", "completed"} \cup Refunds

VARIABLES
    order,      \* PayPal's order
    cap,        \* its capture
    fee,        \* PayPal reports the fee of the capture
    refund,     \* PayPal's refunds
    intent,     \* paypal_intents: status and capture_attempts
    receipt,    \* the capture's row in paypal_transactions
    posted,     \* refunds on record
    cover,      \* the placeholder adjustment:<capture>
    hold,       \* the capture's row in paypal_payment_states
    inbox,      \* paypal_webhook_inbox; "sent" is on its way to it
    wrk,        \* the workers
    spent       \* requests made and faults suffered

provider == <<order, cap, fee, refund>>
ledger == <<receipt, posted, cover>>
vars == <<provider, intent, ledger, hold, inbox, wrk, spent>>

Failed == {"capture_failed", "expired"}
IntentStatus == {"approval_pending", "capturing", "capture_unknown", "net_unresolved", "verified"} \cup Failed
Open == {"pending", "processing"}
InboxStatus == {"none", "sent", "processed", "review", "dismissed"} \cup Open
Reported == {"none", "COMPLETED", "PARTIALLY_REFUNDED", "REFUNDED"}

Completed == {r \in Refunds : refund[r] = "completed"}

\* The status PayPal reports of a completed capture.
CaptureStatus ==
    IF Completed = {} THEN "COMPLETED" ELSE IF Completed = Refunds THEN "REFUNDED" ELSE "PARTIALLY_REFUNDED"

\* st, tries: the intent as read; seen, ok, todo, total, res: see the ingestion.
\* What a worker has no use for any more is forgotten.
Idle == [job |-> "none", pc |-> "idle", st |-> "none", tries |-> 0, seen |-> "none", ok |-> FALSE,
         todo |-> {}, total |-> 0, res |-> FALSE]

At(w, pc) == wrk[w].pc = pc
Goto(w, pc) == wrk' = [wrk EXCEPT ![w].pc = pc]
End(w) == wrk' = [wrk EXCEPT ![w] = Idle]
Running(job) == \E w \in Workers : wrk[w].job = job
Fault == spent.faults < MaxFaults /\ spent' = [spent EXCEPT !.faults = @ + 1]

Init ==
    /\ order = "created" /\ cap = "none" /\ fee = FALSE
    /\ refund = [r \in Refunds |-> "none"]
    /\ intent = [st |-> "approval_pending", tries |-> 0]
    /\ receipt = "none" /\ posted = {}
    /\ cover = [st |-> "none", seen |-> "none"]
    /\ hold = "none"
    /\ inbox = [e \in Events |-> "none"]
    /\ wrk = [w \in Workers |-> Idle]
    /\ spent = [requests |-> 0, faults |-> 0]

-----------------------------------------------------------------------------
(* PayPal and the payer.                                                   *)

Approve == order = "created" /\ order' = "approved" /\ UNCHANGED <<cap, fee, refund, inbox>>

Void == order \in {"created", "approved"} /\ cap = "none" /\ order' = "voided" /\ UNCHANGED <<cap, fee, refund, inbox>>

\* A capture becomes `st` and its webhook is sent.
Becomes(st) ==
    /\ cap' = st
    /\ inbox' = [inbox EXCEPT ![IF st = "declined" THEN "denied" ELSE st] = "sent"]

Decide == cap = "pending" /\ (\E st \in {"completed", "declined"} : Becomes(st)) /\ UNCHANGED <<order, fee, refund>>

FeeKnown == cap = "completed" /\ ~fee /\ fee' = TRUE /\ UNCHANGED <<order, cap, refund, inbox>>

Refund(r) ==
    /\ cap = "completed" /\ refund[r] = "none"
    /\ \E st \in {"pending", "completed"} : refund' = [refund EXCEPT ![r] = st]
    /\ inbox' = [inbox EXCEPT ![r] = "sent"]
    /\ UNCHANGED <<order, cap, fee>>

RefundDone(r) ==
    /\ refund[r] = "pending"
    /\ refund' = [refund EXCEPT ![r] = "completed"]
    /\ UNCHANGED <<order, cap, fee, inbox>>

PayPal ==
    /\ Approve \/ Void \/ Decide \/ FeeKnown \/ \E r \in Refunds : Refund(r) \/ RefundDone(r)
    /\ UNCHANGED <<intent, ledger, hold, wrk, spent>>

-----------------------------------------------------------------------------
(* The member's request: captureOneOff.                                    *)

Begin(w, job, pc) ==
    /\ At(w, "idle")
    /\ wrk' = [wrk EXCEPT ![w] = [Idle EXCEPT !.job = job, !.pc = pc,
                                              !.st = IF pc \in {"order", "readback"} THEN intent.st ELSE "none",
                                              !.tries = IF pc = "readback" THEN intent.tries ELSE 0]]

CaptureStart(w) ==
    /\ spent.requests < MaxRequests
    /\ intent.st \notin Failed \cup {"verified"}
    /\ Begin(w, "capture", "order")
    /\ spent' = [spent EXCEPT !.requests = @ + 1]
    /\ UNCHANGED <<provider, intent, ledger, hold, inbox>>

\* The order is read: captured already, to be captured, or neither.
CaptureOrder(w) ==
    /\ At(w, "order")
    /\ IF cap = "completed" THEN Goto(w, "detail")
       ELSE IF wrk[w].st = "approval_pending" /\ order = "approved" THEN Goto(w, "claim")
       ELSE End(w)
    /\ UNCHANGED <<provider, intent, ledger, hold, inbox, spent>>

\* Only one request claims the intent.
CaptureClaim(w) ==
    /\ At(w, "claim")
    /\ IF intent.st = "approval_pending"
       THEN intent' = [intent EXCEPT !.st = "capturing"] /\ Goto(w, "capture")
       ELSE End(w) /\ UNCHANGED intent
    /\ UNCHANGED <<provider, ledger, hold, inbox, spent>>

\* PayPal captures an order once.
Captured ==
    IF order = "approved" /\ cap = "none" THEN \E st \in {"completed", "pending", "declined"} : Becomes(st)
    ELSE UNCHANGED <<cap, inbox>>

Capture(w) ==
    /\ At(w, "capture")
    /\ Captured
    /\ Goto(w, IF cap' = "completed" THEN "detail" ELSE "unknown")
    /\ UNCHANGED <<order, fee, refund, intent, ledger, hold, spent>>

\* The call fails, before or after PayPal captured the order.
CaptureLost(w) ==
    /\ At(w, "capture")
    /\ Fault
    /\ Captured \/ UNCHANGED <<cap, inbox>>
    /\ Goto(w, "unknown")
    /\ UNCHANGED <<order, fee, refund, intent, ledger, hold>>

\* Whatever the intent says by then.
Unknown(w) ==
    /\ At(w, "unknown")
    /\ intent' = [intent EXCEPT !.st = "capture_unknown"]
    /\ End(w)
    /\ UNCHANGED <<provider, ledger, hold, inbox, spent>>

Request(w) == CaptureOrder(w) \/ CaptureClaim(w) \/ Capture(w) \/ CaptureLost(w) \/ Unknown(w)

-----------------------------------------------------------------------------
(* Reconciliation, one pass at a time: reconcileUncertainCapture,          *)
(* enrichUnresolvedTransaction.                                            *)

\* "capturing" is uncertain after ten minutes, longer than a request takes.
Uncertain ==
    \/ intent.st = "capture_unknown"
    \/ intent.st = "capturing" /\ \A w \in Workers : ~At(w, "capture") /\ ~At(w, "unknown")

Reconcile(w) ==
    /\ ~Running("reconcile")
    /\ \/ Uncertain /\ Begin(w, "reconcile", "readback")
       \/ "net_unresolved" \in {receipt, cover.st} /\ Begin(w, "reconcile", "detail")
    /\ UNCHANGED <<provider, intent, ledger, hold, inbox, spent>>

\* Mutant: a pending capture is taken for a declined one.
ReadBackPending(w) ==
    /\ At(w, "readback") /\ cap # "completed"
    /\ IF cap = "none" /\ order = "approved" /\ wrk[w].tries < MaxTries
       THEN Goto(w, "reclaim") /\ UNCHANGED intent
       ELSE End(w) /\ intent' = [intent EXCEPT !.st = IF cap = "none" THEN "capture_unknown" ELSE "capture_failed"]
    /\ UNCHANGED <<provider, ledger, hold, inbox, spent>>

\* The order is read back without a completed capture: the capture is
\* repeated, or the status follows the order unless it changed meanwhile.
ReadBack(w) ==
    /\ At(w, "readback") /\ cap # "completed"
    /\ IF cap = "none" /\ order = "approved" /\ wrk[w].tries < MaxTries
       THEN Goto(w, "reclaim") /\ UNCHANGED intent
       ELSE /\ intent' = IF intent.st # wrk[w].st THEN intent
                         ELSE [intent EXCEPT !.st = IF cap = "declined" THEN "capture_failed"
                                                    ELSE IF cap = "none" /\ order = "voided" THEN "expired"
                                                    ELSE "capture_unknown"]
            /\ End(w)
    /\ UNCHANGED <<provider, ledger, hold, inbox, spent>>

ReadBackDone(w) ==
    /\ At(w, "readback") /\ cap = "completed"
    /\ Goto(w, "detail")
    /\ UNCHANGED <<provider, intent, ledger, hold, inbox, spent>>

\* The capture is claimed against the status and the attempts read.
Reclaim(w) ==
    /\ At(w, "reclaim")
    /\ IF intent = [st |-> wrk[w].st, tries |-> wrk[w].tries]
       THEN intent' = [st |-> "capturing", tries |-> intent.tries + 1] /\ Goto(w, "capture")
       ELSE End(w) /\ UNCHANGED intent
    /\ UNCHANGED <<provider, ledger, hold, inbox, spent>>

-----------------------------------------------------------------------------
(* Ingestion: ingestOneOffCapture, ingestCaptureRefund,                    *)
(* settleCaptureAdjustments.                                               *)

\* getCapture: the status (seen) and the fee (ok) as they are now.
Detail(w) ==
    /\ At(w, "detail")
    /\ wrk' = [wrk EXCEPT ![w] = [Idle EXCEPT !.job = wrk[w].job, !.pc = "post", !.seen = CaptureStatus, !.ok = fee]]
    /\ UNCHANGED <<provider, intent, ledger, hold, inbox, spent>>

\* Mutant: a row that is there already is never completed.
PostOnce(w) ==
    /\ At(w, "post")
    /\ receipt' = IF receipt # "none" THEN receipt ELSE IF wrk[w].ok THEN "posted" ELSE "net_unresolved"
    /\ wrk' = [wrk EXCEPT ![w].ok = (receipt' = "posted"), ![w].res = (wrk[w].seen = "COMPLETED"),
                          ![w].pc = IF wrk[w].job \in Refunds THEN "refund"
                                    ELSE IF wrk[w].seen = "COMPLETED" THEN "final" ELSE "cover"]
    /\ UNCHANGED <<provider, intent, posted, cover, hold, inbox, spent>>

\* postReceipt; ok says from now on whether the receipt is posted.
Post(w) ==
    /\ At(w, "post")
    /\ receipt' = IF wrk[w].ok \/ receipt = "posted" THEN "posted" ELSE "net_unresolved"
    /\ wrk' = [wrk EXCEPT ![w].ok = (receipt' = "posted"), ![w].res = (wrk[w].seen = "COMPLETED"),
                          ![w].pc = IF wrk[w].job \in Refunds THEN "refund"
                                    ELSE IF wrk[w].seen = "COMPLETED" THEN "final" ELSE "cover"]
    /\ UNCHANGED <<provider, intent, posted, cover, hold, inbox, spent>>

\* postCaptureRefund of the event's own refund.
PostRefund(w) ==
    /\ At(w, "refund")
    /\ posted' = posted \cup {wrk[w].job}
    /\ Goto(w, IF wrk[w].seen = "COMPLETED" THEN "final" ELSE "cover")
    /\ UNCHANGED <<provider, intent, receipt, cover, hold, inbox, spent>>

\* upsertPlaceholder: another status than the one recorded reopens it.
Cover(w) ==
    /\ At(w, "cover")
    /\ cover' = [seen |-> wrk[w].seen, st |-> IF cover.seen = wrk[w].seen THEN cover.st ELSE "net_unresolved"]
    /\ Goto(w, "list")
    /\ UNCHANGED <<provider, intent, receipt, posted, hold, inbox, spent>>

\* What follows the listed refunds that are left.
AfterListed(todo) == IF todo = {} THEN "count" ELSE "each"

\* getOrder: its completed refunds (todo); the total is -1 once others are still pending.
List(w) ==
    /\ At(w, "list")
    /\ wrk' = [wrk EXCEPT ![w].pc = AfterListed(Completed), ![w].todo = Completed,
                          ![w].total = IF \E r \in Refunds : refund[r] = "pending" THEN -1 ELSE 0]
    /\ UNCHANGED <<provider, intent, ledger, hold, inbox, spent>>

\* getRefund of one of them, which reports the total refunded by now.
ListedRefund(w) ==
    /\ At(w, "each")
    /\ wrk' = [wrk EXCEPT ![w].pc = "record", ![w].total = IF @ = -1 THEN -1 ELSE Cardinality(Completed)]
    /\ UNCHANGED <<provider, intent, ledger, hold, inbox, spent>>

\* postCaptureRefund of it.
PostListed(w) == \E r \in wrk[w].todo :
    /\ At(w, "record")
    /\ posted' = posted \cup {r}
    /\ wrk' = [wrk EXCEPT ![w].pc = AfterListed(wrk[w].todo \ {r}), ![w].todo = @ \ {r}]
    /\ UNCHANGED <<provider, intent, receipt, cover, hold, inbox, spent>>

\* adjustmentCoverageComplete of what is on record now and the status read.
Count(w) ==
    /\ At(w, "count")
    /\ wrk' = [wrk EXCEPT ![w].pc = "mark", ![w].seen = "none", ![w].total = 0,
                          ![w].res = \/ wrk[w].seen = "REFUNDED" /\ posted = Refunds
                                     \/ wrk[w].seen = "PARTIALLY_REFUNDED" /\ posted # Refunds
                                        /\ wrk[w].total = Cardinality(posted)]
    /\ UNCHANGED <<provider, intent, ledger, hold, inbox, spent>>

\* markPlaceholder, whatever status it carries by then.
Mark(w) ==
    /\ At(w, "mark")
    /\ cover' = [cover EXCEPT !.st = IF wrk[w].res THEN "resolved" ELSE "net_unresolved"]
    /\ Goto(w, "final")
    /\ UNCHANGED <<provider, intent, receipt, posted, hold, inbox, spent>>

\* The intent's status, whatever it is by then.
Finalize(w) ==
    /\ At(w, "final")
    /\ intent' = [intent EXCEPT !.st = IF wrk[w].ok /\ wrk[w].res THEN "verified" ELSE "net_unresolved"]
    /\ IF wrk[w].job = "completed" THEN Goto(w, "close")
       ELSE IF wrk[w].job \in Refunds THEN Goto(w, "done") ELSE End(w)
    /\ UNCHANGED <<provider, ledger, hold, inbox, spent>>

Ingest(w) ==
    \/ Detail(w) \/ Post(w) \/ PostRefund(w) \/ Cover(w)
    \/ List(w) \/ ListedRefund(w) \/ PostListed(w) \/ Count(w) \/ Mark(w) \/ Finalize(w)

-----------------------------------------------------------------------------
(* The inbox: storeVerifiedWebhook, recoverPaypalEvents, processPaypalInbox. *)

Set(e, st) == inbox' = [inbox EXCEPT ![e] = st]

\* Delivered, or found by the recovery of missed events.
Arrive(e) == inbox[e] = "sent" /\ Set(e, "pending") /\ UNCHANGED <<provider, intent, ledger, hold, wrk, spent>>

\* Mutant: claimed whatever its status is by then.
ClaimAgain(w, e) ==
    /\ inbox[e] \in Open /\ Set(e, "processing")
    /\ Begin(w, e, IF e = "pending" THEN "known" ELSE IF e = "denied" THEN "hold"
                   ELSE IF e = "completed" THEN "detail" ELSE "getRefund")
    /\ UNCHANGED <<provider, intent, ledger, hold, spent>>

\* Claimed by one worker.
Claim(w, e) ==
    /\ inbox[e] = "pending" /\ Set(e, "processing")
    /\ Begin(w, e, IF e = "pending" THEN "known" ELSE IF e = "denied" THEN "hold"
                   ELSE IF e = "completed" THEN "detail" ELSE "getRefund")
    /\ UNCHANGED <<provider, intent, ledger, hold, spent>>

\* Mutant: a pending refund is recorded.
GetRefundPending(w) ==
    /\ At(w, "getRefund") /\ Goto(w, "detail")
    /\ UNCHANGED <<provider, intent, ledger, hold, inbox, spent>>

\* getRefund; one that is not completed needs a review.
GetRefund(w) ==
    /\ At(w, "getRefund")
    /\ IF wrk[w].job \in Completed THEN Goto(w, "detail") /\ UNCHANGED inbox ELSE End(w) /\ Set(wrk[w].job, "review")
    /\ UNCHANGED <<provider, intent, ledger, hold, spent>>

\* PENDING: is the receipt on record (ok)?
Known(w) ==
    /\ At(w, "known")
    /\ wrk' = [wrk EXCEPT ![w].pc = "hold", ![w].ok = (receipt # "none")]
    /\ UNCHANGED <<provider, intent, ledger, hold, inbox, spent>>

\* upsertState: a closed hold stays as it is.
Hold(w) ==
    /\ At(w, "hold")
    /\ hold' = IF hold \in {"completed", "denied"} THEN hold
               ELSE IF wrk[w].job = "denied" THEN "denied" ELSE IF wrk[w].ok THEN "completed" ELSE "open"
    /\ Goto(w, IF wrk[w].job = "denied" THEN "deny" ELSE "done")
    /\ UNCHANGED <<provider, intent, ledger, inbox, spent>>

Deny(w) ==
    /\ At(w, "deny")
    /\ intent' = IF intent.st \in {"capture_unknown", "capturing", "approval_pending"}
                 THEN [intent EXCEPT !.st = "capture_failed"] ELSE intent
    /\ Goto(w, "done")
    /\ UNCHANGED <<provider, ledger, hold, inbox, spent>>

\* closePendingState, of a row that is there.
Close(w) ==
    /\ At(w, "close")
    /\ hold' = IF hold = "open" THEN "completed" ELSE hold
    /\ Goto(w, "done")
    /\ UNCHANGED <<provider, intent, ledger, inbox, spent>>

Processed(w) ==
    /\ At(w, "done")
    /\ Set(wrk[w].job, "processed") /\ End(w)
    /\ UNCHANGED <<provider, intent, ledger, hold, spent>>

Process(w) == GetRefund(w) \/ Known(w) \/ Hold(w) \/ Deny(w) \/ Close(w) \/ Processed(w)

\* A call to PayPal fails: an event is retried or needs a review.
CallFails(w) ==
    /\ \E pc \in {"order", "readback", "getRefund", "detail", "list", "each"} : At(w, pc)
    /\ Fault /\ End(w)
    /\ IF wrk[w].job \in Events THEN \E st \in {"pending", "review"} : Set(wrk[w].job, st) ELSE UNCHANGED inbox
    /\ UNCHANGED <<provider, intent, ledger, hold>>

\* Mutant: what a dead process claimed stays claimed.
StaleNever(e) == FALSE /\ UNCHANGED vars

\* An event is pending again ten minutes after its claim, which is all the code compares.
\* Assumed here: a worker that is still alive has ended it by then (~Running; the README
\* says when that is so and what rests on it).
Stale(e) ==
    /\ inbox[e] = "processing" /\ ~Running(e) /\ Set(e, "pending")
    /\ UNCHANGED <<provider, intent, ledger, hold, wrk, spent>>

\* An operator retries or dismisses an event in review.
Resolve(e) ==
    /\ inbox[e] = "review"
    /\ \E st \in {"pending", "dismissed"} : Set(e, st)
    /\ UNCHANGED <<provider, intent, ledger, hold, wrk, spent>>

Restart ==
    /\ \E w \in Workers : ~At(w, "idle")
    /\ Fault /\ wrk' = [w \in Workers |-> Idle]
    /\ UNCHANGED <<provider, intent, ledger, hold, inbox>>

Step(w) == Request(w) \/ ReadBack(w) \/ ReadBackDone(w) \/ Reclaim(w) \/ Ingest(w) \/ Process(w)

Next ==
    \/ PayPal \/ Restart
    \/ \E w \in Workers : CaptureStart(w) \/ Reconcile(w) \/ Step(w) \/ CallFails(w) \/ \E e \in Events : Claim(w, e)
    \/ \E e \in Events : Arrive(e) \/ Stale(e) \/ Resolve(e)

Spec == Init /\ [][Next]_vars

\* Calls answer, the timers of the inbox and of the reconciliation keep
\* firing, and a missed webhook is found by the recovery.  Strong fairness:
\* an instance's few workers stand for runs that never wait for each other.
FairSpec ==
    /\ Spec
    /\ \A w \in Workers : WF_vars(Step(w))
    /\ SF_vars(\E w \in Workers : Reconcile(w))
    /\ \A e \in Events : WF_vars(Arrive(e)) /\ WF_vars(Stale(e)) /\ SF_vars(\E w \in Workers : Claim(w, e))

-----------------------------------------------------------------------------
(* Properties.                                                             *)

TypeOK ==
    /\ order \in {"created", "approved", "voided"} /\ cap \in {"none", "pending", "completed", "declined"}
    /\ fee \in BOOLEAN /\ refund \in [Refunds -> {"none", "pending", "completed"}]
    /\ intent \in [st : IntentStatus, tries : 0..MaxTries]
    /\ receipt \in {"none", "net_unresolved", "posted"} /\ posted \subseteq Refunds
    /\ cover \in [st : {"none", "net_unresolved", "resolved"}, seen : Reported]
    /\ hold \in {"none", "open", "completed", "denied"}
    /\ inbox \in [Events -> InboxStatus]
    /\ wrk \in [Workers -> [job : {"none", "capture", "reconcile"} \cup Events,
                            pc : {"idle", "order", "claim", "capture", "unknown", "readback", "reclaim", "detail", "post",
                                  "refund", "cover", "list", "each", "record", "count", "mark", "final", "getRefund",
                                  "known", "hold", "deny", "close", "done"},
                            st : IntentStatus \cup {"none"}, tries : 0..MaxTries, seen : Reported, ok : BOOLEAN,
                            todo : SUBSET Refunds, total : -1..Cardinality(Refunds), res : BOOLEAN]]
    /\ spent \in [requests : 0..MaxRequests, faults : 0..MaxFaults]

\* Income and refunds are posted only for money PayPal moved, and a refund
\* never without the receipt it is taken from, however the webhooks arrive.
LedgerFollowsPayPal ==
    /\ receipt # "none" => cap = "completed"
    /\ posted \subseteq Completed
    /\ posted # {} => receipt # "none"

\* A payment shown as failed or expired took no money: what a readback or a
\* denial wrote cannot be overtaken by a capture that completes later.
FailedTookNothing == intent.st \in Failed => cap # "completed"

\* A payment shown as verified has its receipt and its fee posted.
VerifiedIsPosted == intent.st = "verified" => receipt = "posted"

\* An event is processed by one worker, and has one while it is processed
\* unless the process died.
OneWorkerPerEvent ==
    \A w, x \in Workers : wrk[w].job \in Events =>
        /\ inbox[wrk[w].job] = "processing"
        /\ wrk[x].job = wrk[w].job => x = w

\* A captured payment is posted once its fee is known, whatever call,
\* webhook or process was lost.
CaptureIsPosted == (cap = "completed" /\ fee) ~> (receipt = "posted")

\* A completed refund is recorded, or its event is left to an operator.
RefundIsRecorded ==
    \A r \in Refunds : (refund[r] = "completed") ~> (r \in posted \/ inbox[r] \in {"review", "dismissed"})
=============================================================================
