----------------------------- MODULE Timetables -----------------------------
(***************************************************************************)
(* Weekly schedules on a local clock: the power-mode timetable             *)
(* (powerPolicy.ts) and the nightly off window of a VM (utils/schedule.ts).*)
(*                                                                         *)
(* Wall is the time zone: the local minute, counted from the first day, at *)
(* each instant.  It skips minutes in spring and repeats some in autumn,   *)
(* but never goes back over midnight.  Day and Week are the lengths of a   *)
(* day in minutes and of a week in days.                                   *)
(***************************************************************************)
EXTENDS Integers, Sequences, FiniteSetsExt

CONSTANTS Day, Week, Wall

Instants == DOMAIN Wall

\* zonedParts and localDateParts.
DayOf(t) == Wall[t] \div Day
MinuteOf(t) == Wall[t] % Day
Weekday(day) == day % Week

-----------------------------------------------------------------------------
(* The timetable: a sequence of windows [days, start, end, mode].          *)

Overnight(w) == w.end < w.start

\* occupiedMinutes: the minutes of the week that a window claims.
OccupiedMinutes(w) ==
    {(d * Day + w.start + n) % (Week * Day) : d \in w.days, n \in 0..(((w.end - w.start) % Day) - 1)}

\* validatePowerSchedule, beyond the form of its fields: no window is empty, no two overlap.
ValidSchedule(windows) ==
    /\ \A k \in DOMAIN windows : windows[k].start # windows[k].end
    /\ \A k, n \in DOMAIN windows :
          k # n => OccupiedMinutes(windows[k]) \cap OccupiedMinutes(windows[n]) = {}

\* localBoundary: the instants of a local minute, or of the first one after it that
\* exists; the earlier for a start, the later for an end.
Showing(minute) == {t \in Instants : Wall[t] = minute}
Shown(minute) == {m \in {Wall[t] : t \in Instants} : m >= minute}
\* What lies behind the last instant modelled.
Beyond == Max(Instants) + 1

StartOf(w, day) ==
    LET later == Shown(day * Day + w.start)
    IN  IF later = {} THEN Beyond ELSE Min(Showing(Min(later)))
EndOf(w, day) ==
    LET later == Shown((IF Overnight(w) THEN day + 1 ELSE day) * Day + w.end)
    IN  IF later = {} THEN Beyond ELSE Max(Showing(Min(later)))

\* scheduledModeAt: the windows that began yesterday, then today's, in their order.
Active(windows, day, t) ==
    {k \in DOMAIN windows : /\ Weekday(day) \in windows[k].days
                            /\ StartOf(windows[k], day) <= t /\ t < EndOf(windows[k], day)}
ScheduledModeAt(windows, default, t) ==
    LET yesterday == Active(windows, DayOf(t) - 1, t)
        today == Active(windows, DayOf(t), t)
    IN  IF yesterday # {} THEN windows[Min(yesterday)].mode
        ELSE IF today # {} THEN windows[Min(today)].mode
        ELSE default

\* scheduleBoundaryInstants, strictly between two instants.
BoundaryInstants(windows, from, to) ==
    LET days == (DayOf(from) - 1)..(DayOf(from) + (to - from) \div Day + 3)
        own == {o \in (DOMAIN windows) \X days : Weekday(o[2]) \in windows[o[1]].days}
        edges == {StartOf(windows[o[1]], o[2]) : o \in own} \cup {EndOf(windows[o[1]], o[2]) : o \in own}
    IN  {t \in edges : from < t /\ t < to}

-----------------------------------------------------------------------------
(* The off window of a VM: stop at one minute, start at another.           *)

\* offWindowContains: the morning after belongs to the day of the stop.
OffWindowContains(weekday, minute, stop, start, days) ==
    IF stop <= start
    THEN weekday \in days /\ stop <= minute /\ minute < start
    ELSE \/ minute >= stop /\ weekday \in days
         \/ minute < start /\ (weekday - 1) % Week \in days

\* nextTimeOccurrence: the scan begins with the instant asked about.
NextTimeOccurrence(from, minute) ==
    Min({t \in Instants : t >= from /\ MinuteOf(t) = minute} \cup {Beyond})

-----------------------------------------------------------------------------
(* What they promise, on a clock.                                          *)

\* Windows as validatePowerSchedule and the schedule routes accept them.
WindowOK(w) == w.days \subseteq 0..(Week - 1) /\ w.start \in 0..(Day - 1) /\ w.end \in 0..(Day - 1)

\* A clock that neither skips nor repeats, from a midnight on.
EvenClock(last) == last \in Nat /\ Wall = [t \in 0..last |-> t]

\* One that does: it never goes back over midnight, a day ends with its last minute, and
\* no instant is more than a day ahead of an even clock.
LocalClock(last) ==
    /\ last \in Nat /\ Wall \in [0..last -> Nat]
    /\ \A s, t \in 0..last : s <= t => /\ DayOf(s) <= DayOf(t)
                                      /\ Wall[t] - Wall[s] <= t - s + Day
    /\ \A t \in 1..last : DayOf(t) # DayOf(t - 1) => Wall[t - 1] = DayOf(t) * Day - 1

\* The reference: a window claims the minutes it occupies.
ModeByMinute(windows, default, t) ==
    LET minute == Wall[t] % (Week * Day)
        there == {k \in DOMAIN windows : minute \in OccupiedMinutes(windows[k])}
    IN  IF there = {} THEN default ELSE windows[Min(there)].mode

\* powerPolicy.ts:134-178: wherever the clock neither skips nor repeats, the mode is that
\* of the window which occupies the minute.
ModeFollowsMinutes(windows, default) ==
    ValidSchedule(windows) =>
        \A t \in Instants : ScheduledModeAt(windows, default, t) = ModeByMinute(windows, default, t)

\* A drift hold ends, and a preview changes, at a boundary: the mode never changes at an
\* instant that scheduleBoundaryInstants leaves out, also when clocks change.
ChangesAreBoundaries(windows, default) ==
    ValidSchedule(windows) =>
        LET last == Max(Instants)
            mode == [t \in Instants |-> ScheduledModeAt(windows, default, t)]
            changes == {t \in Instants \ {0, last} : mode[t] # mode[t - 1]}
        IN  \A from \in {0} \cup {t - 1 : t \in changes} :
                {t \in changes : from < t} \subseteq BoundaryInstants(windows, from, last)

\* utils/schedule.ts:69-70, "a Friday-night sleep honours a weekdays-only mask": the
\* instant is in a window that a day of the mask opened.
OffWindowIsOwned(stop, start, days) ==
    LET w == [days |-> days, start |-> stop, end |-> start]
    IN  \A weekday \in 0..(Week - 1), minute \in 0..(Day - 1) :
            OffWindowContains(weekday, minute, stop, start, days)
                <=> (weekday * Day + minute) \in OccupiedMinutes(w)

\* routes/vms.ts:1877, "suppress scheduler actions until the next start_time": a skip asked
\* for inside an off window ends with that window where the clock runs on evenly.
InWindow(t, stop, start, days) == OffWindowContains(Weekday(DayOf(t)), MinuteOf(t), stop, start, days)
SkipEndsWithWindow(stop, start, days) ==
    \A t \in Instants : InWindow(t, stop, start, days) =>
        NextTimeOccurrence(t, start)
            = Min({u \in Instants : u >= t /\ ~InWindow(u, stop, start, days)} \cup {Beyond})

=============================================================================
