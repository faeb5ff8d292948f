--------------------------- MODULE MCPowerControl ---------------------------
(***************************************************************************)
(* Small instances of PowerControl, PowerPrices and Timetables.            *)
(***************************************************************************)
EXTENDS PowerDecisions

OneSlot == <<"low">>
TwoSlots == <<"low", "high">>

-----------------------------------------------------------------------------
(* The price rules, on small amounts, and PowerControl's decisions.        *)

Bands == {r \in [enabled : BOOLEAN, threshold : {0, 3}, hysteresis : 0..2] :
            ~r.enabled => r.threshold = 0 /\ r.hysteresis = 0}
SmallPolicies == [enabled : BOOLEAN, expensive : Bands, cheap : Bands, cap : {"low", "other"},
                  default : {"low"}, version : {1}, sound : {TRUE}]
SmallPrices == [fits : BOOLEAN, from : {0}, until : {1}, amount : -1..5, revision : {1}]

\* An input of the resolver; "l" is the latch and "m" the mode of the timetable.
Input(policy_, price, l, m) ==
    [now |-> 0, enabled |-> TRUE, paused |-> FALSE, hold |-> FALSE, actual |-> "dynamic",
     supported |-> WritableModes, weekly |-> m, weeklySound |-> TRUE, policy |-> policy_,
     price |-> price, latch |-> l, manual |-> NoMode, manualLeft |-> FALSE, byHand |-> FALSE]
SmallInputs ==
    {Input(p, q, l, m) : p \in SmallPolicies, q \in SmallPrices, m \in {"dynamic", NoMode},
        l \in [expensive : BOOLEAN, cheap : BOOLEAN, version : {0, 1}, revision : {1}]}

\* What PowerControlProofs proves of the resolver, evaluated, with a witness of each case.
ASSUME LatchesExcludeHere ==
    \A i \in SmallInputs : ValidPolicy(i.policy) =>
        ~(NewLatch(i).expensive /\ NewLatch(i).cheap)
ASSUME DecisionIsStableHere ==
    \A i \in SmallInputs : Resolve([i EXCEPT !.latch = Resolve(i).latch]) = Resolve(i)
ASSUME RaisesHere ==
    LET raised == {i \in SmallInputs : LET d == Resolve(i) IN
                     d.target # NoMode /\ Base(i) # NoMode /\ Above(d.target, Base(i))}
    IN  /\ raised # {}
        /\ \A i \in raised : ValidPolicy(i.policy) /\ ValidPrice(i) /\ ~Expensive(i)

FewPolicies ==
    {p \in SmallPolicies : /\ p.enabled /\ p.cap = "low"
                           /\ p.expensive.enabled => p.expensive.threshold = 3 /\ p.expensive.hysteresis = 1
                           /\ p.cheap.enabled => p.cheap.threshold = 0 /\ p.cheap.hysteresis \in {1, 2}}
\* Below, at and above the thresholds 0 and 3 and the releases 1 and 2; at 1 a price has ended.
FewPrices == {q \in SmallPrices : q.amount < 5 /\ (q.fits \/ q.amount = -1)}
\* No latch, one of each kind, and one left under earlier rules.
FewLatches == {NoLatch} \cup
    {l \in [expensive : BOOLEAN, cheap : BOOLEAN, version : {0, 1}, revision : {1}] :
        l.expensive # l.cheap /\ (l.version = 0 => l.expensive)}
FewContexts == [policy : FewPolicies, price : FewPrices, latch : FewLatches, now : {0, 1}]

-----------------------------------------------------------------------------
(* The timetable, on days of four minutes in weeks of two days.            *)

Days(n) == [t \in 0..(4 * n - 1) |-> t]
\* In spring the second minute of the second day is missing, in autumn it comes twice.
Spring(n) == [t \in 0..(4 * n - 2) |-> IF t <= 4 THEN t ELSE t + 1]
Autumn(n) == [t \in 0..(4 * n + 1) |-> IF t <= 6 THEN t ELSE t - 2]

Plain == INSTANCE Timetables WITH Day <- 4, Week <- 2, Wall <- Days(3)
Skipping == INSTANCE Timetables WITH Day <- 4, Week <- 2, Wall <- Spring(3)
Repeating == INSTANCE Timetables WITH Day <- 4, Week <- 2, Wall <- Autumn(3)

Windows(chosen) == [days : (SUBSET {0, 1}) \ {{}}, start : 0..3, end : 0..3, mode : {chosen}]
SmallTimetables == {<<>>} \cup {<<v, w>> : v \in Windows("high"), w \in Windows("low")}

ASSUME ClocksHere ==
    Plain!EvenClock(11) /\ Plain!LocalClock(11) /\ Skipping!LocalClock(10) /\ Repeating!LocalClock(13)
ASSUME ModeFollowsMinutesHere ==
    \A s \in SmallTimetables : Plain!ModeFollowsMinutes(s, "dynamic")
ASSUME ChangesAreBoundariesHere ==
    \A s \in SmallTimetables :
        /\ Plain!ChangesAreBoundaries(s, "dynamic")
        /\ Skipping!ChangesAreBoundaries(s, "dynamic")
        /\ Repeating!ChangesAreBoundaries(s, "dynamic")

-----------------------------------------------------------------------------
(* Statements the code does not keep: see the README.                      *)

\* powerController.ts:256-257, "An unresolved earlier write is verified read-only
\* first": no request is committed while an earlier one is still pending.
ResolveBeforeRetry ==
    [][\A t \in Tokens : Requested(t) => policy.pending = None]_vars

\* powerController.ts:256-257, "a late apply of our own request is not external
\* drift", and the runbook's "If someone changes the mode outside Homelabrrr": a
\* node on which only controllers changed the mode is never put on hold.
OwnWriteIsNotDrift == policy.hold => foreign
=============================================================================
