---------------------------- MODULE MCVmScheduler ----------------------------
(***************************************************************************)
(* Small instances of VmScheduler.  Night schedules alternate day (even)   *)
(* and night (odd phases); start_time begins every day, whatever the mask. *)
(***************************************************************************)
EXTENDS VmScheduler

Morning(d) == 2 * d
StartOfDays == {Morning(d) : d \in 1..(MaxPhase + 1) \div 2} \cup {MaxPhase + 1}

\* "night" sleeps every night, "noon" every day from the second on.
NightAndNoon == [c \in Configs |->
    IF c = "night" THEN {t \in Phase : t % 2 = 1} ELSE {t \in Phase : t % 2 = 0 /\ t > 0}]
NightAndNoonStarts == [c \in Configs |->
    IF c = "night" THEN StartOfDays
    ELSE {t \in 1..MaxPhase : t % 2 = 1} \cup {MaxPhase + 1}]

-----------------------------------------------------------------------------
(* The off window and the end of a skip, on days of five minutes in weeks  *)
(* of three days.                                                          *)

Clock == INSTANCE Timetables WITH Day <- 5, Week <- 3, Wall <- [t \in 0..29 |-> t]

ASSUME OffWindowIsOwnedHere ==
    \A stop, start \in 0..4, days \in SUBSET (0..2) : Clock!OffWindowIsOwned(stop, start, days)
ASSUME SkipEndsWithWindowHere ==
    \A stop, start \in 0..4, days \in SUBSET (0..2) : Clock!SkipEndsWithWindow(stop, start, days)

-----------------------------------------------------------------------------
(* Statements the code does not keep: see the README.                      *)

\* scheduler.ts:8-9, "a manual start inside the OFF window is detected (the scheduler
\* already stopped the VM this window, yet it's running again)": the override is only
\* recorded when a user started the VM in that window.
OverrideWasStart ==
    [][~row.flags.manual /\ row'.flags.manual => userStart = tick.at]_vars

\* scheduler.ts:7, "Leaving the OFF window with the VM stopped -> start": a VM the
\* scheduler put to sleep is not left asleep once the row has recorded the edge.
SleeperIsWoken ==
    ~ /\ stopper = "scheduler" /\ row.status = "on" /\ row.flags.lastOff = 0
      /\ ~InFlight /\ tasks = {}
=============================================================================
