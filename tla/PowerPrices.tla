---------------------------- MODULE PowerPrices ----------------------------
(***************************************************************************)
(* What mode a node should have: resolvePowerDecision and the price rules. *)
(*                                                                         *)
(* The decision is a function of what the caller loaded: the state of      *)
(* control, the mode the timetable selects, the price rules, the price and *)
(* the latch that the last decision left.  Amounts are integers            *)
(* (millionths of DKK/kWh), instants are integers.                         *)
(***************************************************************************)
EXTENDS Integers

NoMode == "none"
Never == 0     \* a decision that no price bounds: validUntil is null
WritableModes == {"low", "dynamic", "high"}
Caps == {"low", "dynamic"}

\* MODE_ORDER.
Rank(m) == CASE m = "low" -> 0 [] m = "dynamic" -> 1 [] m = "high" -> 2
Above(m, n) == Rank(m) > Rank(n)

\* One price rule: PriceRule, and the cap of the expensive one.
Rules == [enabled : BOOLEAN, threshold : Int, hysteresis : Int]

\* PowerPricePolicy.  "sound" stands for the checks of validatePricePolicy that
\* concern form only: types, basis, contract, names of modes, unparsable amounts.
Policies == [enabled : BOOLEAN, expensive : Rules, cheap : Rules, cap : Caps \cup {"other"},
             default : WritableModes \cup {NoMode}, version : Nat, sound : BOOLEAN]

\* ApplicablePowerPrice.  "fits" stands for status, basis, contract, area, revisions
\* and a parsable amount.
Prices == [fits : BOOLEAN, from : Int, until : Int, amount : Int, revision : Nat]
NoPrice == [fits |-> FALSE, from |-> 0, until |-> 0, amount |-> 0, revision |-> 0]

\* PriceLatch; a missing latch is one of no version.
Latches == [expensive : BOOLEAN, cheap : BOOLEAN, version : Int, revision : Nat]
NoLatch == [expensive |-> FALSE, cheap |-> FALSE, version |-> -1, revision |-> 0]

\* PowerDecisionInput.  "weekly" is what scheduledModeAt answers, NoMode while the
\* timetable is switched off; "until" of an override is its expiry.
Inputs == [now : Int, enabled : BOOLEAN, paused : BOOLEAN, hold : BOOLEAN,
           actual : WritableModes \cup {"other"}, supported : SUBSET WritableModes,
           weekly : WritableModes \cup {NoMode}, weeklySound : BOOLEAN, policy : Policies,
           price : Prices, latch : Latches, manual : WritableModes \cup {NoMode},
           manualLeft : BOOLEAN, byHand : BOOLEAN]

-----------------------------------------------------------------------------
(* The rules.                                                              *)

\* The price below which an expensive rule lets go, and above which a cheap one does.
Upper(p) == IF p.expensive.enabled THEN p.expensive.threshold ELSE 0
Lower(p) == IF p.cheap.enabled THEN p.cheap.threshold ELSE 0
ExpensiveRelease(p) == p.expensive.threshold - p.expensive.hysteresis
CheapRelease(p) == p.cheap.threshold + p.cheap.hysteresis

\* validatePricePolicy: no negative band, and bands that do not touch.
ValidPolicy(p) ==
    /\ p.sound /\ p.cap \in Caps
    /\ p.expensive.enabled => p.expensive.hysteresis >= 0
    /\ p.cheap.enabled => p.cheap.hysteresis >= 0
    /\ p.expensive.enabled /\ p.cheap.enabled => CheapRelease(p) < ExpensiveRelease(p)

\* validPrice: the price is of this contract and covers this instant.
ValidPrice(i) == i.price.fits /\ i.price.from <= i.now /\ i.now < i.price.until

\* Mutant: a latch left under earlier rules holds over too.
HeldUnderAnyRules(i) == TRUE

\* The latch holds over to the next decision under the same rules only.
Held(i) == i.latch.version = i.policy.version
Expensive(i) ==
    /\ i.policy.expensive.enabled
    /\ \/ i.price.amount > Upper(i.policy)
       \/ Held(i) /\ i.latch.expensive /\ i.price.amount > ExpensiveRelease(i.policy)
Cheap(i) ==
    /\ i.policy.cheap.enabled
    /\ \/ i.price.amount < Lower(i.policy)
       \/ Held(i) /\ i.latch.cheap /\ i.price.amount < CheapRelease(i.policy)

FreshLatch(i) == [expensive |-> FALSE, cheap |-> FALSE, version |-> i.policy.version,
                  revision |-> i.price.revision]
\* Returns that do not look at prices keep a latch of these rules.
CarriedLatch(i) == IF Held(i) THEN i.latch ELSE FreshLatch(i)
NewLatch(i) == [expensive |-> Expensive(i), cheap |-> Cheap(i), version |-> i.policy.version,
                revision |-> i.price.revision]

RulesOn(p) == p.enabled /\ (p.expensive.enabled \/ p.cheap.enabled)
Capped(m, cap) == IF cap \in Caps /\ Above(m, cap) THEN cap ELSE m

-----------------------------------------------------------------------------
(* The decision.                                                           *)

\* baseMode: the timetable, or without one the default of sound price rules.
Base(i) ==
    IF ~i.weeklySound THEN NoMode
    ELSE IF i.weekly # NoMode THEN i.weekly
    ELSE IF i.policy.enabled /\ ValidPolicy(i.policy) THEN i.policy.default
    ELSE NoMode

\* The reason "base" stands for "schedule" and "default".
Result(reason, target, latch, until) ==
    [reason |-> reason, target |-> target, latch |-> latch, until |-> until]
Nothing(reason, latch) == Result(reason, NoMode, latch, Never)
IfSupported(i, reason, target, latch, until) ==
    IF target \in i.supported THEN Result(reason, target, latch, until)
    ELSE Result("unsupported_mode", NoMode, latch, until)

Overridden(i) == i.manual # NoMode /\ i.manualLeft
Override(i) == IfSupported(i, "manual", i.manual, CarriedLatch(i), Never)

\* Rules that fail validation only restrict: a cap still counts, and nothing
\* rises above the mode the node has.
Restricted(i) ==
    LET target == IF i.policy.expensive.enabled THEN Capped(Base(i), i.policy.cap) ELSE Base(i)
    IN  IF Base(i) = NoMode \/ Above(target, i.actual)
        THEN Nothing("policy_invalid", FreshLatch(i))
        ELSE IfSupported(i, "policy_invalid", target, FreshLatch(i), Never)

\* With a price that counts: the cap before the boost.
Priced(i) ==
    LET latch == NewLatch(i)
    IN  IF latch.expensive
        THEN IfSupported(i, "price_high", Capped(Base(i), i.policy.cap), latch, i.price.until)
        ELSE IF latch.cheap THEN IfSupported(i, "price_low", "high", latch, i.price.until)
        ELSE IfSupported(i, "base", Base(i), latch, i.price.until)

Selected(i) ==
    IF ~RulesOn(i.policy) THEN IfSupported(i, "base", Base(i), FreshLatch(i), Never)
    ELSE IF ValidPrice(i) THEN Priced(i)
    ELSE IfSupported(i, "price_unavailable_fallback", Base(i), FreshLatch(i), Never)

\* resolvePowerDecision, once control is on and the mode may be written over.
Chosen(i) ==
    IF ~i.weeklySound THEN Nothing("policy_invalid", CarriedLatch(i))
    ELSE IF ~ValidPolicy(i.policy) THEN Restricted(i)
    ELSE IF Base(i) = NoMode THEN Nothing("no_automation", CarriedLatch(i))
    ELSE Selected(i)

Resolve(i) ==
    IF ~i.enabled THEN Nothing("disabled", CarriedLatch(i))
    ELSE IF i.actual = "other" THEN Nothing("unsafe_actual_mode", CarriedLatch(i))
    ELSE IF i.byHand /\ Overridden(i) THEN Override(i)
    ELSE IF i.paused THEN Nothing("paused", CarriedLatch(i))
    ELSE IF i.hold THEN Nothing("drift_hold", CarriedLatch(i))
    ELSE IF Overridden(i) THEN Override(i)
    ELSE Chosen(i)

\* sameSelection: dispatch repeats the decision, and goes on only if nothing the
\* request depends on has changed.
SameSelection(a, b) ==
    /\ a.target = b.target /\ a.reason = b.reason /\ a.until = b.until
    /\ a.latch.revision = b.latch.revision /\ a.latch.version = b.latch.version

=============================================================================
