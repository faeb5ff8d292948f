------------------------- MODULE MCPaymentCapture -------------------------
(* Small instances of PaymentCapture. *)
EXTENDS PaymentCapture, Sequences

\* A hold is closed once its payment is on record and every event is
\* processed: "a PENDING arriving after the receipt was recorded must not
\* reopen a hold".
HoldIsClosed ==
    receipt # "none" /\ (\A e \in Events : inbox[e] \in {"none", "processed"}) => hold # "open"

\* The placeholder of a payment reported as refunded in full is unresolved
\* until every refund is on record.
RefundedIsCovered == cover = [st |-> "resolved", seen |-> "REFUNDED"] => posted = Refunds

-----------------------------------------------------------------------------
(* The allocation of the ledger to months, on three months of few sources. *)

Months == INSTANCE MonthAllocation

LOCAL Posted(id, ore) == [id |-> id, ore |-> ore]
LOCAL Bill(revision, complete, ore) == [contract |-> 1, revision |-> revision, complete |-> complete, ore |-> ore]
SmallPostings == {{}, {Posted(1, 3)}, {Posted(1, 3), Posted(2, -4)}}
SmallStatements == {{}, {Bill(1, TRUE, 2)}, {Bill(1, FALSE, 2), Bill(2, TRUE, 1)}}
SmallSources ==
    {[postings |-> p, statements |-> <<s[1], s[2], {Bill(1, TRUE, 2)}>>, unresolved |-> u] :
        p \in [1..3 -> SmallPostings], s \in [1..2 -> SmallStatements], u \in {{}, {2}}}

Empty == [m \in 1..3 |-> <<>>]
Once(src) == Months!Recalculate(Empty, src, 3)
Row(rows, m) == Months!Latest(rows[m])
HasRow(rows, m) == rows[m] # <<>>
Carry(rows, m) ==
    IF m > 0 /\ HasRow(rows, m) THEN Months!CarryOver(Row(rows, m).result) ELSE Months!Amount(0)
Total(f(_, _), rows) == f(rows, 1) + f(rows, 2) + f(rows, 3)

\* Over the months nothing is lost or counted twice: what came in was applied, is left
\* or was more than made up by the owner.
ASSUME MonthsAddUp ==
    \A src \in SmallSources :
        LET rows == Once(src)
            received(r, m) == IF HasRow(r, m) THEN Months!Received(Row(r, m).source.postings) ELSE 0
            applied(r, m) == IF HasRow(r, m) THEN Row(r, m).result.applied ELSE 0
            lost(r, m) == IF HasRow(r, m) THEN Row(r, m).result.adjustment ELSE 0
        IN  (\A m \in 1..3 : HasRow(rows, m) => Row(rows, m).result.status = "known") =>
               Total(received, rows) + Total(lost, rows) = Total(applied, rows) + Carry(rows, 3).ore

\* Whatever was recalculated before, the latest rows are those of the present sources, an
\* earlier revision is never rewritten, and doing it again adds nothing.
ASSUME RecalculationSettles ==
    LET some == {src \in SmallSources : src.postings[3] = {} /\ src.statements[1] # {}}
    IN  \A old, new \in some :
            LET before == Once(old)
                rows == Months!Recalculate(before, new, 3)
            IN  /\ \A m \in 1..3 : HasRow(rows, m) =>
                      /\ SubSeq(rows[m], 1, Len(before[m])) = before[m]
                      /\ Row(rows, m).source.opening = Carry(rows, m - 1)
                      /\ Row(rows, m).result = Row(Once(new), m).result
                /\ Months!Recalculate(rows, new, 3) = rows

=============================================================================
