--------------------------- MODULE PowerDecisions ---------------------------
(***************************************************************************)
(* What a controller of PowerControl decides from: its snapshot, given to  *)
(* the resolver of PowerPrices together with the price rules, the price    *)
(* and the latch of the moment.                                            *)
(***************************************************************************)
EXTENDS PowerControl, PowerPrices

CONSTANT Contexts     \* rules, prices, latches and instants that meet in a decision

ASSUME ContextsAssumption ==
    /\ Modes \subseteq WritableModes
    /\ Contexts \subseteq [policy : Policies, price : Prices, latch : Latches, now : Int]

\* controllerDecisionInput. The timetable is on and sound, and selects the slot's mode.
InputOf(s, actual, manual, x) ==
    [now |-> x.now, enabled |-> s.enabled /\ (s.automation \/ manual), paused |-> s.paused,
     hold |-> s.hold, actual |-> IF actual \in Modes THEN actual ELSE "other",
     supported |-> Modes, weekly |-> Schedule[slot], weeklySound |-> TRUE,
     policy |-> x.policy, price |-> x.price, latch |-> x.latch,
     manual |-> IF s.manual = None THEN NoMode ELSE s.manual, manualLeft |-> s.manual # None,
     byHand |-> manual]

\* The snapshots and modes a controller decides on: its selection, the fresh read under the
\* claim and the row read again before the write.
Decided(c) ==
    CASE At(c, "decide")  -> {[snap |-> ctl[c].snap, actual |-> ctl[c].actual]}
      [] At(c, "reread")  -> {[snap |-> ctl[c].snap, actual |-> mode]}
      [] At(c, "recheck") -> {[snap |-> Snapshot, actual |-> ctl[c].actual]}
      [] OTHER            -> {}

\* The decision repeated before the write, under the latch that the first one left, at an
\* instant at which the price counts as before.
Again(i, t) == [i EXCEPT !.latch = Resolve(i).latch, !.now = t]
SameStanding(i, t) == ValidPrice(i) <=> ValidPrice([i EXCEPT !.now = t])
Instants == {x.now : x \in Contexts}

\* The resolver may change which mode an automatic decision of PowerControl names, and nothing
\* else: valid rules of supported modes name one, or an override, in just the states in which
\* Decision does; rules that are off name the same.
SameControl(d, i, r) ==
    /\ d.target = None => r.target = NoMode
    /\ r.target \in Modes \cup {NoMode}
    /\ ValidPolicy(i.policy) /\ {"high", i.policy.cap} \subseteq Modes /\ d.target # None
         => r.target # NoMode
    /\ (r.reason = "manual") <=> (d.reason = "manual")
    /\ ValidPolicy(i.policy) /\ ~RulesOn(i.policy) /\ d.target # None => r.target = d.target

\* The price decides only while it counts, and raises the mode only if it is cheap and not
\* capped.  A latch of other rules is as none, and a decision repeated before the write is
\* the same.
SoundPrice(i, r) ==
    /\ r.until # Never => ValidPrice(i) /\ i.now < r.until
    /\ r.target # NoMode /\ r.reason # "manual" /\ Above(r.target, Base(i))
         => ValidPolicy(i.policy) /\ ValidPrice(i) /\ i.price.amount < CheapRelease(i.policy) /\ ~Expensive(i)
    /\ i.latch.version # i.policy.version => Resolve([i EXCEPT !.latch = NoLatch]) = r
    /\ \A t \in Instants : SameStanding(i, t) =>
           SameSelection(Resolve(Again(i, t)), r) /\ Resolve(Again(i, t)).latch = r.latch

\* powerDecisionContext.ts:6-8, worker, commands and preview decide alike from what they
\* loaded, and powerController.ts:317, dispatch decides again before it writes: whatever the
\* price, the latch of the last decision and the instant, the resolver controls the node in
\* the states in which PowerControl says it does, and by a price only as the rules allow.
DecisionsAgree ==
    \A c \in Controllers, x \in Contexts : \A s \in Decided(c) :
        LET i == InputOf(s.snap, s.actual, IsManual(c), x)
            r == Resolve(i)
        IN  SameControl(Decision(s.snap, s.actual, IsManual(c)), i, r) /\ SoundPrice(i, r)
=============================================================================
