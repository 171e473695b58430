------------------------------ MODULE Calendar ------------------------------
(***************************************************************************)
(* When a task that repeats runs next: nextDailyRun and nextWeeklyRun of   *)
(* internal/domain/schedule.go, which CreateScheduledPublish and runOne    *)
(* call with the clock's time.                                             *)
(*                                                                         *)
(* The unit of time is the hour and a schedule names a full hour.  An      *)
(* instant counts hours of UTC from a Monday's midnight; a local time      *)
(* counts the hours that a time zone's calendar shows from that Monday on. *)
(* A zone changes its offset once, which is where the calendars' days have *)
(* 23 or 25 hours.                                                         *)
(*                                                                         *)
(* Its names are other than Scheduler's, so that a module can extend both. *)
(***************************************************************************)
EXTENDS Integers

CONSTANTS
    Schedules,   \* [zone, hour, weekdays]; no weekdays: every day
    Starts,      \* when tasks are created
    Delays,      \* how long after its due time a run ends
    Horizon,     \* bound: no run is due after it
    Never        \* no next run can be calculated

Zones == [before : Int, after : Int, at : Int]

ASSUME CalendarAssumption ==
    /\ Schedules \subseteq [zone : Zones, hour : 0 .. 23, weekdays : SUBSET (1 .. 7)]
    /\ Starts \subseteq Int
    /\ Delays \subseteq Nat
    /\ Horizon \in Int
    /\ Never \notin Int

(***************************************************************************)
(* The library's calendar: package time.                                   *)
(***************************************************************************)
Offset(zone, x) == IF x < zone.at THEN zone.before ELSE zone.after
Local(zone, x) == x + Offset(zone, x)

Day(local) == local \div 24
Clock(local) == local % 24
Weekday(local) == (Day(local) % 7) + 1

\* time.Date looks the offset up as though the local time were UTC and, if that
\* crosses the zone's change, once more.  A local time that the calendar skips
\* becomes one an hour away, one that it shows twice one of its two instants.
Date(zone, local) ==
    LET guess == local - Offset(zone, local) IN
    IF Offset(zone, local) = 0 \/ (local < zone.at <=> guess < zone.at)
    THEN guess
    ELSE local - Offset(zone, guess)

\* Time.AddDate moves the date and keeps the clock.
AddDate(zone, x, days) == Date(zone, Local(zone, x) + 24 * days)

\* What the properties ask of a zone and a schedule.  The zone's change neither
\* skips nor repeats a midnight, nor comes so close that Date, missing a local
\* time that is skipped, would miss the day.
Regular(zone) ==
    LET shift == zone.after - zone.before IN
    /\ shift > 0 =>
          Day(zone.at + zone.before - shift) = Day(zone.at + zone.after + shift - 1)
    /\ shift < 0 => Day(zone.at + zone.after) = Day(zone.at + zone.before - 1)

\* Every day shows the schedule's hour.
HourShown(s) ==
    \A local \in s.zone.at + s.zone.before .. s.zone.at + s.zone.after - 1 :
        Clock(local) # s.hour

\* The given hour of the day on which a local time falls.
At(s, local) == Date(s.zone, 24 * Day(local) + s.hour)

(***************************************************************************)
(* The code.                                                               *)
(***************************************************************************)
\* Broken variant: the time of day that has come counts as one in the future.
NextDailyRunOrNow(s, x) ==
    LET candidate == At(s, Local(s.zone, x)) IN
    IF candidate >= x THEN candidate ELSE AddDate(s.zone, candidate, 1)

\* Broken variant: a day has 24 hours.
NextDailyRunIn24Hours(s, x) ==
    LET candidate == At(s, Local(s.zone, x)) IN
    IF candidate > x THEN candidate ELSE candidate + 24

NextDailyRun(s, x) ==
    LET candidate == At(s, Local(s.zone, x)) IN
    IF candidate > x THEN candidate ELSE AddDate(s.zone, candidate, 1)

\* What the loop of nextWeeklyRun sees of the day that is so many days ahead.
DayAhead(s, x, offset) == Local(s.zone, AddDate(s.zone, x, offset))

Matches(s, x, offset) ==
    /\ Weekday(DayAhead(s, x, offset)) \in s.weekdays
    /\ At(s, DayAhead(s, x, offset)) > x

\* Broken variant: today is not looked at.
NextWeeklyRunFromTomorrow(s, x) ==
    IF \E k \in 1 .. 7 : Matches(s, x, k)
    THEN LET first == CHOOSE k \in 1 .. 7 :
                          /\ Matches(s, x, k)
                          /\ \A j \in 1 .. k - 1 : ~Matches(s, x, j)
         IN  At(s, DayAhead(s, x, first))
    ELSE Never

NextWeeklyRun(s, x) ==
    IF \E k \in 0 .. 7 : Matches(s, x, k)
    THEN LET first == CHOOSE k \in 0 .. 7 :
                          /\ Matches(s, x, k)
                          /\ \A j \in 0 .. k - 1 : ~Matches(s, x, j)
         IN  At(s, DayAhead(s, x, first))
    ELSE Never

NextRunForCommand(s, x) ==
    IF s.weekdays = {} THEN NextDailyRun(s, x) ELSE NextWeeklyRun(s, x)

(***************************************************************************)
(* A task's life: it is created, and run whenever it is due.               *)
(***************************************************************************)
VARIABLES
    schedule,    \* the task's schedule
    calculated,  \* when its next run was last calculated
    planned      \* its next_run_at

plan == <<schedule, calculated, planned>>

CalendarInit ==
    /\ schedule \in Schedules
    /\ calculated \in Starts
    /\ planned = NextRunForCommand(schedule, calculated)

\* RunDue finds the task due, or already overdue, and runOne calculates the next
\* run from the time at which this one has ended.
RunOne(delay) ==
    /\ planned # Never
    /\ planned <= Horizon
    /\ calculated' = (IF planned > calculated THEN planned ELSE calculated) + delay
    /\ planned' = NextRunForCommand(schedule, calculated')
    /\ UNCHANGED schedule

CalendarNext == \E delay \in Delays : RunOne(delay)

CalendarSpec == CalendarInit /\ [][CalendarNext]_plan

(***************************************************************************)
(* Properties.                                                             *)
(***************************************************************************)
LocalTime(x) == Local(schedule.zone, x)

Scheduled(x) ==
    /\ Clock(LocalTime(x)) = schedule.hour
    /\ schedule.weekdays # {} => Weekday(LocalTime(x)) \in schedule.weekdays

\* A valid schedule always has a next run, and it lies in the future: a task
\* cannot be due again at the moment it has run (nextDailyRun, nextWeeklyRun).
NextIsFuture == planned # Never /\ planned > calculated

\* The next run is at the schedule's time of day, on one of its weekdays, by the
\* calendar of the task's time zone, also across a change of its offset.
AtTimeOfDay == planned # Never => Scheduled(planned)

\* Nor does nextDailyRun or nextWeeklyRun pass over an earlier one, unless the
\* calendar shows that hour twice.
NoneMissed ==
    planned # Never =>
        \A x \in calculated + 1 .. planned - 1 :
            Scheduled(x) =>
                \/ Day(LocalTime(x)) = Day(LocalTime(planned))
                \/ \E y \in x - 24 .. calculated : LocalTime(y) = LocalTime(x)

\* No two runs of a task fall on the same day of the calendar.
EachDayOnce ==
    [][planned # Never /\ planned' # Never =>
          Day(LocalTime(planned')) > Day(LocalTime(planned))]_plan
=============================================================================
