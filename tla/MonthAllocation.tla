-------------------------- MODULE MonthAllocation --------------------------
(***************************************************************************)
(* What the ledger's money pays for: allocateMonth and                     *)
(* recalculatePaypalAllocations.                                           *)
(*                                                                         *)
(* Each month's contributions and what the months before left over pay its *)
(* electricity; the owner pays the rest.  A recalculation goes through the *)
(* months under one lock, in one transaction, and adds a revision to each  *)
(* month whose sources have changed.  Amounts are integers (øre) and may   *)
(* be unknown; months are numbered from 1.                                 *)
(***************************************************************************)
EXTENDS Integers, FiniteSets, Sequences
LOCAL INSTANCE FiniteSetsExt

Amounts == [known : BOOLEAN, ore : Int]
Amount(n) == [known |-> TRUE, ore |-> n]
NoAmount == [known |-> FALSE, ore |-> 0]

Positive(n) == IF n > 0 THEN n ELSE 0
Least(a, b) == IF a < b THEN a ELSE b

\* An AllocationResult.
Nowhere(status) == [status |-> status, applied |-> 0, remainder |-> 0, adjustment |-> 0, closing |-> NoAmount]

\* allocateMonth.  A negative closing balance is the owner's loss of that month.
AllocateMonth(opening, received, cost, unresolved) ==
    LET available == Positive(opening.ore) + received
        applied == Least(cost.ore, Positive(available))
    IN  IF ~opening.known \/ unresolved > 0 THEN Nowhere("unresolved")
        ELSE IF ~cost.known \/ cost.ore < 0 THEN Nowhere("cost_unknown")
        ELSE [status |-> "known", applied |-> applied, remainder |-> cost.ore - applied,
              adjustment |-> Positive(-(available - applied)), closing |-> Amount(available - applied)]

\* What the next month opens with: credit is carried, a loss is not.
CarryOver(result) ==
    IF result.closing.known THEN Amount(Positive(result.closing.ore)) ELSE NoAmount

-----------------------------------------------------------------------------
(* The months.                                                             *)

\* The newest finalized statement of each contract; only one, and a complete one,
\* gives the month a cost.
Newest(statements) ==
    {s \in statements : \A t \in statements : t.contract = s.contract => t.revision <= s.revision}
CostOf(newest) ==
    IF Cardinality(newest) = 1 /\ \A s \in newest : s.complete
    THEN Amount((CHOOSE s \in newest : TRUE).ore)
    ELSE NoAmount

\* What one recalculation reads: per month the postings [id, ore] and the finalized
\* statements, and the months of transactions and events nobody has resolved yet.
Active(src, m) == src.postings[m] # {} \/ src.statements[m] # {}
First(src, last) ==
    CHOOSE m \in 1..last : (m = last \/ Active(src, m)) /\ \A n \in 1..(m - 1) : ~Active(src, n)

\* The source whose fingerprint a row keeps.
Source(src, m, opening, prior) ==
    [postings |-> src.postings[m], statements |-> Newest(src.statements[m]),
     blockers |-> {n \in src.unresolved : n <= m}, opening |-> opening, prior |-> prior]
Received(postings) == MapThenSumSet(LAMBDA p : p.ore, postings)
Allocated(s) == AllocateMonth(s.opening, Received(s.postings), CostOf(s.statements), Cardinality(s.blockers))

Latest(rows) == rows[Len(rows)]

\* A month's row is added when its sources are not those of the latest revision.
Revised(rows, source) ==
    IF rows = <<>> \/ Latest(rows).source # source
    THEN Append(rows, [source |-> source, result |-> Allocated(source)])
    ELSE rows

\* One turn of the loop, from what the months before left: their rows, the balance
\* carried over and the revision the last of them ended at.
Opened(rows) == [rows |-> rows, carry |-> Amount(0), prior |-> 0]
MonthDone(before, src, m) ==
    LET source == Source(src, m, before.carry, before.prior)
        revised == Revised(before.rows[m], source)
    IN  [rows |-> [before.rows EXCEPT ![m] = revised],
         carry |-> CarryOver(Allocated(source)), prior |-> Len(revised)]

\* recalculatePaypalAllocations(last): through the months from the first.
Recalculate(rows, src, last) ==
    LET first == First(src, last)
        after[m \in (first - 1)..last] ==
            IF m < first THEN Opened(rows) ELSE MonthDone(after[m - 1], src, m)
    IN  after[last].rows

=============================================================================
