-------------------------- MODULE SchedulerProofs --------------------------
(***************************************************************************)
(* The safety properties of Scheduler, for any number of tasks, any poll   *)
(* limit, any horizon, any number of lost records and crashes, and any     *)
(* schedule whose next run lies after the time it is calculated at; that   *)
(* the next run does, and more, of the calculation and of both together.   *)
(***************************************************************************)
EXTENDS Scheduler, Calendar, TLAPS

(***************************************************************************)
(* First the calculation of the next run (Calendar), for any time zone     *)
(* with one change of its offset, however great, any set of weekdays and   *)
(* any instant.  The days of the calendar do not go back, not even where   *)
(* an hour is repeated, and Date stays on the day it is asked for.  So a   *)
(* schedule runs at one instant of each of its days, RunAt, a later day's  *)
(* is later, and what the code finds is the run of the first day, from     *)
(* today on, that is not over (FirstRun).                                  *)
(***************************************************************************)
\* A local time that the calendar skips.
Skips(zone, local) ==
    zone.at + zone.before <= local /\ local < zone.at + zone.after

\* Dividing by 24.
LEMMA DayClock ==
    ASSUME NEW local \in Int
    PROVE  /\ Day(local) \in Int /\ Clock(local) \in 0 .. 23
           /\ local = 24 * Day(local) + Clock(local)
           /\ Weekday(local) \in 1 .. 7
  BY DEF Day, Clock, Weekday

\* A day and an hour make a local time.
LEMMA DayOf ==
    ASSUME NEW d \in Int, NEW h \in 0 .. 23
    PROVE  /\ 24 * d + h \in Int
           /\ Day(24 * d + h) = d /\ Clock(24 * d + h) = h
  BY DEF Day, Clock

\* A change by an hour, as summer time's, is regular unless it skips the hour
\* before or after a midnight.
LEMMA HourChangeIsRegular ==
    ASSUME NEW zone \in Zones, zone.after - zone.before \in {-1, 0, 1},
           zone.after > zone.before => Clock(zone.at + zone.before) \in 1 .. 22
    PROVE  Regular(zone)
  BY DEF Zones, Regular, Clock, Day

\* The operators on instants yield instants.
LEMMA DateType ==
    ASSUME NEW zone \in Zones, NEW local \in Int
    PROVE  /\ Date(zone, local) \in Int
           /\ \A x \in Int : Local(zone, x) \in Int /\ Offset(zone, x) \in Int
  BY DEF Zones, Date, Local, Offset

\* A local time that the calendar shows is found.
LEMMA DateShown ==
    ASSUME NEW zone \in Zones, NEW local \in Int, ~Skips(zone, local)
    PROVE  Local(zone, Date(zone, local)) = local
  BY DEF Zones, Date, Local, Offset, Skips

\* One that it skips is missed by the change.
LEMMA DateSkipped ==
    ASSUME NEW zone \in Zones, NEW local \in Int, Skips(zone, local)
    PROVE  LET shift == zone.after - zone.before
           IN  Local(zone, Date(zone, local)) \in {local - shift, local + shift}
  BY DEF Zones, Date, Local, Offset, Skips

\* In a regular zone the days of the calendar do not go back.
LEMMA DaysInOrder ==
    ASSUME NEW zone \in Zones, Regular(zone), NEW x \in Int, NEW y \in Int, x <= y
    PROVE  Day(Local(zone, x)) <= Day(Local(zone, y))
  BY DEF Zones, Regular, Local, Offset, Day

\* ... and Date keeps the day.
LEMMA DateKeepsDay ==
    ASSUME NEW zone \in Zones, Regular(zone), NEW local \in Int
    PROVE  Day(Local(zone, Date(zone, local))) = Day(local)
  <1>1. CASE ~Skips(zone, local)
    BY <1>1, DateShown
  <1>2. CASE Skips(zone, local)
    <2>. DEFINE l == Local(zone, Date(zone, local))
                shift == zone.after - zone.before
    <2>1. l \in {local - shift, local + shift}
      BY <1>2, DateSkipped
    <2>2. /\ zone.at + zone.before - shift <= l
          /\ l <= zone.at + zone.after + shift - 1
          /\ zone.at + zone.before - shift <= local
          /\ local <= zone.at + zone.after + shift - 1
          /\ shift > 0 /\ shift \in Int
      BY <1>2, <2>1 DEF Skips, Zones
    <2>. QED
      BY <2>1, <2>2 DEF Regular, Day, Zones
  <1>. QED BY <1>1, <1>2

\* The times at which a schedule runs: a day's time of day, as Date finds it.
RunAt(s, d) == Date(s.zone, 24 * d + s.hour)

\* What is known of a schedule (CalendarAssumption).
Schedule == [zone : Zones, hour : 0 .. 23, weekdays : SUBSET (1 .. 7)]

\* The schedule runs on that day.
OnWeekday(s, d) == s.weekdays # {} => (d % 7) + 1 \in s.weekdays

\* The run of a day is shown on that day at the schedule's hour.
LEMMA RunIsShown ==
    ASSUME NEW s \in Schedule, HourShown(s), NEW d \in Int
    PROVE  /\ RunAt(s, d) \in Int
           /\ Local(s.zone, RunAt(s, d)) = 24 * d + s.hour
           /\ Day(Local(s.zone, RunAt(s, d))) = d
           /\ Clock(Local(s.zone, RunAt(s, d))) = s.hour
           /\ Weekday(Local(s.zone, RunAt(s, d))) = (d % 7) + 1
  <1>. DEFINE local == 24 * d + s.hour
  <1>0. s.zone \in Zones /\ s.hour \in 0 .. 23
    BY DEF Schedule
  <1>1. local \in Int /\ Day(local) = d /\ Clock(local) = s.hour
    BY <1>0, DayOf
  <1>2. ~Skips(s.zone, local)
    BY <1>0, <1>1 DEF HourShown, Skips, Zones
  <1>. QED
    BY <1>0, <1>1, <1>2, DateShown, DateType DEF RunAt, Weekday

\* At asks for the run of a local time's day.
LEMMA AtIsRun ==
    ASSUME NEW s \in Schedule, NEW local \in Int
    PROVE  At(s, local) = RunAt(s, Day(local))
  BY DEF At, RunAt

\* A day later in the calendar is later.
LEMMA LaterDayIsLater ==
    ASSUME NEW zone \in Zones, Regular(zone), NEW x \in Int, NEW y \in Int,
           Day(Local(zone, x)) < Day(Local(zone, y))
    PROVE  x < y
  <1>1. Day(Local(zone, x)) \in Int /\ Day(Local(zone, y)) \in Int
    BY DateType, DayClock
  <1>2. y <= x => Day(Local(zone, y)) <= Day(Local(zone, x))
    BY DaysInOrder
  <1>. QED BY <1>1, <1>2

\* Two instants that the calendar shows as the same time are a day apart at most.
LEMMA TwiceWithinADay ==
    ASSUME NEW zone \in Zones, Regular(zone), NEW x \in Int, NEW y \in Int,
           Local(zone, x) = Local(zone, y)
    PROVE  y - x <= 24
  BY DEF Zones, Regular, Local, Offset, Day

\* The loop of nextWeeklyRun looks at the days in turn.
LEMMA DayAheadIsAhead ==
    ASSUME NEW s \in Schedule, Regular(s.zone), NEW x \in Int, NEW k \in 0 .. 7
    PROVE  /\ DayAhead(s, x, k) \in Int
           /\ Day(DayAhead(s, x, k)) = Day(Local(s.zone, x)) + k
  <1>0. s.zone \in Zones /\ Local(s.zone, x) \in Int
    BY DateType DEF Schedule
  <1>1. Local(s.zone, x) + 24 * k \in Int
    BY <1>0
  <1>2. Day(Local(s.zone, x) + 24 * k) = Day(Local(s.zone, x)) + k
    BY <1>0 DEF Day
  <1>. QED
    BY <1>0, <1>1, <1>2, DateKeepsDay, DateType DEF DayAhead, AddDate

\* Of seven days in a row one is on a given weekday.
LEMMA SomeDayOfTheWeek ==
    ASSUME NEW weekdays \in SUBSET (1 .. 7), weekdays # {}, NEW today \in Int
    PROVE  \E k \in 1 .. 7 : ((today + k) % 7) + 1 \in weekdays
  <1>1. PICK w \in 1 .. 7 : w \in weekdays
    OBVIOUS
  <1>. DEFINE m == (w - 1 - today) % 7
              k == IF m = 0 THEN 7 ELSE m
  <1>2. k \in 1 .. 7 /\ ((today + k) % 7) + 1 = w
    OBVIOUS
  <1>. QED BY <1>1, <1>2

\* It ends at the first that will do.
LEMMA FirstMatchExists ==
    ASSUME NEW s, s.weekdays # {}, NEW x, \E k \in 0 .. 7 : Matches(s, x, k)
    PROVE  \E first \in 0 .. 7 :
              /\ Matches(s, x, first)
              /\ \A j \in 0 .. first - 1 : ~Matches(s, x, j)
              /\ NextRunForCommand(s, x) = At(s, DayAhead(s, x, first))
  <1>. DEFINE First(k) == /\ Matches(s, x, k)
                          /\ \A j \in 0 .. k - 1 : ~Matches(s, x, j)
              first == CHOOSE k \in 0 .. 7 : First(k)
  <1>1. \E k \in 0 .. 7 : First(k)
    <2>1. \/ Matches(s, x, 0) \/ Matches(s, x, 1) \/ Matches(s, x, 2)
          \/ Matches(s, x, 3) \/ Matches(s, x, 4) \/ Matches(s, x, 5)
          \/ Matches(s, x, 6) \/ Matches(s, x, 7)
      OBVIOUS
    <2>. QED BY <2>1
  <1>2. first \in 0 .. 7 /\ First(first)
    BY <1>1
  <1>3. NextRunForCommand(s, x) = At(s, DayAhead(s, x, first))
    BY DEF NextRunForCommand, NextWeeklyRun
  <1>. QED BY <1>2, <1>3

\* What the calculation finds, seen from x: the run of the first day, from x's on,
\* that is a day of the schedule and whose run is not over.
LEMMA FirstRun ==
    ASSUME NEW s \in Schedule, Regular(s.zone), HourShown(s), NEW x \in Int
    PROVE  LET today == Day(Local(s.zone, x))
           IN  \E d \in Int :
                  /\ NextRunForCommand(s, x) = RunAt(s, d)
                  /\ OnWeekday(s, d) /\ RunAt(s, d) > x /\ d >= today
                  /\ \A e \in today .. d - 1 : OnWeekday(s, e) => RunAt(s, e) <= x
  <1>. DEFINE today == Day(Local(s.zone, x))
  <1>0. s.zone \in Zones /\ s.hour \in 0 .. 23 /\ s.weekdays \subseteq 1 .. 7
    BY DEF Schedule
  <1>1. Local(s.zone, x) \in Int /\ today \in Int
    BY <1>0, DateType, DayClock
  <1>2. \A d \in Int : d > today => RunAt(s, d) > x
    BY <1>0, RunIsShown, LaterDayIsLater
  <1>3. CASE s.weekdays = {}
    <2>. DEFINE candidate == RunAt(s, today)
    <2>1. candidate \in Int /\ Local(s.zone, candidate) = 24 * today + s.hour
      BY <1>1, RunIsShown
    <2>2. AddDate(s.zone, candidate, 1) = RunAt(s, today + 1)
      <3>1. Local(s.zone, candidate) + 24 * 1 = 24 * (today + 1) + s.hour
        BY <1>0, <1>1, <2>1
      <3>. QED BY <3>1 DEF AddDate, RunAt
    <2>3. NextRunForCommand(s, x) =
              IF candidate > x THEN candidate ELSE RunAt(s, today + 1)
      BY <1>1, <1>3, <2>2, AtIsRun DEF NextRunForCommand, NextDailyRun
    <2>4. CASE candidate > x
      BY <1>1, <1>3, <2>3, <2>4 DEF OnWeekday
    <2>5. CASE ~(candidate > x)
      <3>1. today + 1 \in Int /\ \A e \in today .. (today + 1) - 1 : e = today
        BY <1>1
      <3>. QED BY <1>1, <1>2, <1>3, <2>1, <2>3, <2>5, <3>1 DEF OnWeekday
    <2>. QED BY <2>4, <2>5
  <1>4. CASE s.weekdays # {}
    <2>1. \A k \in 0 .. 7 : /\ DayAhead(s, x, k) \in Int
                            /\ Day(DayAhead(s, x, k)) = today + k
      BY DayAheadIsAhead
    <2>2. \A k \in 0 .. 7 :
              /\ At(s, DayAhead(s, x, k)) = RunAt(s, today + k)
              /\ Matches(s, x, k) <=>
                     OnWeekday(s, today + k) /\ RunAt(s, today + k) > x
      BY <1>4, <2>1, AtIsRun DEF Matches, OnWeekday, Weekday
    \* Within a week from tomorrow on there is a day of the schedule.
    <2>3. \E k \in 1 .. 7 : OnWeekday(s, today + k)
      BY <1>0, <1>1, <1>4, SomeDayOfTheWeek DEF OnWeekday
    <2>4. \E k \in 0 .. 7 : Matches(s, x, k)
      BY <1>1, <1>2, <2>2, <2>3
    <2>5. PICK first \in 0 .. 7 :
              /\ Matches(s, x, first)
              /\ \A j \in 0 .. first - 1 : ~Matches(s, x, j)
              /\ NextRunForCommand(s, x) = At(s, DayAhead(s, x, first))
      BY <1>4, <2>4, FirstMatchExists
    <2>6. \A e \in today .. (today + first) - 1 :
              OnWeekday(s, e) => RunAt(s, e) <= x
      <3>. SUFFICES ASSUME NEW e \in today .. (today + first) - 1, OnWeekday(s, e)
           PROVE  RunAt(s, e) <= x
        OBVIOUS
      <3>1. PICK j \in 0 .. first - 1 : e = today + j
        <4>1. e - today \in 0 .. first - 1 /\ e = today + (e - today)
          BY <1>1, <2>5
        <4>. QED BY <4>1
      <3>2. ~Matches(s, x, j) /\ j \in 0 .. 7
        BY <2>5
      <3>3. RunAt(s, e) \in Int
        BY <1>1, RunIsShown
      <3>. QED BY <2>2, <3>1, <3>2, <3>3
    <2>7. today + first \in Int /\ today + first >= today
      BY <1>1, <2>5
    <2>. QED BY <2>2, <2>5, <2>6, <2>7
  <1>. QED BY <1>3, <1>4

\* The next run exists and is later, also where a day does not show the hour.
LEMMA NextIsLater ==
    ASSUME NEW s \in Schedule, Regular(s.zone), NEW x \in Int
    PROVE  NextRunForCommand(s, x) \in Int /\ NextRunForCommand(s, x) > x
  <1>. DEFINE today == Day(Local(s.zone, x))
  <1>0. s.zone \in Zones /\ s.hour \in 0 .. 23 /\ s.weekdays \subseteq 1 .. 7
    BY DEF Schedule
  <1>1. Local(s.zone, x) \in Int /\ today \in Int
    BY <1>0, DateType, DayClock
  <1>2. \A local \in Int : /\ At(s, local) \in Int
                           /\ Day(Local(s.zone, At(s, local))) = Day(local)
                           /\ Local(s.zone, At(s, local)) \in Int
    <2>. SUFFICES ASSUME NEW local \in Int
         PROVE  /\ At(s, local) \in Int
                /\ Day(Local(s.zone, At(s, local))) = Day(local)
                /\ Local(s.zone, At(s, local)) \in Int
      OBVIOUS
    <2>. DEFINE time == 24 * Day(local) + s.hour
    <2>1. time \in Int /\ Day(time) = Day(local)
      BY <1>0, DayClock, DayOf
    <2>. HIDE DEF time
    <2>2. At(s, local) = Date(s.zone, time)
      BY DEF At, time
    <2>. QED BY <1>0, <2>1, <2>2, DateKeepsDay, DateType
  <1>3. CASE s.weekdays = {}
    <2>. DEFINE candidate == At(s, Local(s.zone, x))
                tomorrow  == AddDate(s.zone, candidate, 1)
    <2>1. Local(s.zone, candidate) + 24 * 1 \in Int
      BY <1>1, <1>2
    <2>2. Day(Local(s.zone, candidate) + 24 * 1) = today + 1
      BY <1>1, <1>2 DEF Day
    <2>3. tomorrow \in Int /\ Day(Local(s.zone, tomorrow)) = today + 1
      BY <1>0, <2>1, <2>2, DateKeepsDay, DateType DEF AddDate
    <2>4. tomorrow > x
      BY <1>0, <1>1, <2>3, LaterDayIsLater
    <2>. QED
      BY <1>1, <1>2, <1>3, <2>3, <2>4 DEF NextRunForCommand, NextDailyRun
  <1>4. CASE s.weekdays # {}
    <2>1. \A k \in 0 .. 7 : /\ DayAhead(s, x, k) \in Int
                            /\ Day(DayAhead(s, x, k)) = today + k
      BY <1>0, <1>1, DayAheadIsAhead
    <2>2. \E k \in 0 .. 7 : Matches(s, x, k)
      <3>1. PICK k \in 1 .. 7 : ((today + k) % 7) + 1 \in s.weekdays
        BY <1>0, <1>1, <1>4, SomeDayOfTheWeek
      <3>2. Day(DayAhead(s, x, k)) = today + k
        BY <2>1
      <3>. DEFINE candidate == At(s, DayAhead(s, x, k))
      <3>3. candidate \in Int /\ Day(Local(s.zone, candidate)) = today + k
        BY <1>2, <2>1
      <3>. HIDE DEF candidate
      <3>4. candidate > x
        BY <1>0, <1>1, <3>3, LaterDayIsLater
      <3>. USE DEF candidate
      <3>. QED BY <3>1, <3>2, <3>4 DEF Matches, Weekday
    <2>3. PICK first \in 0 .. 7 :
              /\ Matches(s, x, first)
              /\ NextRunForCommand(s, x) = At(s, DayAhead(s, x, first))
      BY <1>4, <2>2, FirstMatchExists
    <2>. QED BY <1>2, <2>1, <2>3 DEF Matches
  <1>. QED BY <1>3, <1>4

(***************************************************************************)
(* The task's life.                                                        *)
(***************************************************************************)
\* What is known of the row's next run is how it was calculated.
CalInv ==
    /\ schedule \in Schedules
    /\ calculated \in Int
    /\ planned = NextRunForCommand(schedule, calculated)

RegularZones == \A s \in Schedules : Regular(s.zone)

Ordinary == \A s \in Schedules : Regular(s.zone) /\ HourShown(s)

\* A created task is calculated.
LEMMA InitCalInv == CalendarInit => CalInv
  BY CalendarAssumption DEF CalendarAssumption, CalendarInit, CalInv

\* So is one that has run.
LEMMA RunOneKeeps ==
    RegularZones /\ CalInv /\ [CalendarNext]_plan => CalInv'
  <1>. SUFFICES ASSUME RegularZones, CalInv, [CalendarNext]_plan
       PROVE  CalInv'
    OBVIOUS
  <1>1. CASE \E delay \in Delays : RunOne(delay)
    <2>1. PICK delay \in Delays : RunOne(delay)
      BY <1>1
    <2>2. schedule \in Schedule /\ Regular(schedule.zone)
      BY CalendarAssumption
         DEF CalendarAssumption, CalInv, RegularZones, Schedule
    <2>3. planned \in Int
      BY <2>2, NextIsLater DEF CalInv
    <2>. QED BY <2>1, <2>3, CalendarAssumption
             DEF CalendarAssumption, RunOne, CalInv
  <1>2. CASE UNCHANGED plan
    BY <1>2 DEF CalInv, plan
  <1>. QED BY <1>1, <1>2 DEF CalendarNext

\* The next run is always one that nextDailyRun or nextWeeklyRun has calculated,
\* in a regular zone.
THEOREM CalendarInductive ==
    ASSUME RegularZones
    PROVE  CalendarSpec => []CalInv
  BY InitCalInv, RunOneKeeps, PTL DEF CalendarSpec

\* In a regular zone a valid schedule always has a next run and it lies in the
\* future, also on a day that skips the schedule's hour (nextDailyRun,
\* nextWeeklyRun).
THEOREM NextLater ==
    ASSUME RegularZones
    PROVE  CalendarSpec => []NextIsFuture
  <1>1. CalInv => NextIsFuture
    <2>. SUFFICES ASSUME CalInv PROVE NextIsFuture
      OBVIOUS
    <2>1. schedule \in Schedule /\ Regular(schedule.zone)
      BY CalendarAssumption
         DEF CalendarAssumption, CalInv, RegularZones, Schedule
    <2>. QED BY <2>1, NextIsLater, CalendarAssumption
             DEF CalendarAssumption, CalInv, NextIsFuture
  <1>. QED BY <1>1, CalendarInductive, PTL

\* What the invariant says of the next run, by FirstRun.
LEMMA NextIsFirstRun ==
    ASSUME Ordinary, CalInv
    PROVE  LET today == Day(LocalTime(calculated))
           IN  /\ schedule \in Schedule
               /\ Regular(schedule.zone) /\ HourShown(schedule)
               /\ \E d \in Int :
                  /\ planned = RunAt(schedule, d)
                  /\ OnWeekday(schedule, d) /\ planned > calculated /\ d >= today
                  /\ \A e \in today .. d - 1 :
                        OnWeekday(schedule, e) => RunAt(schedule, e) <= calculated
  <1>1. schedule \in Schedule /\ Regular(schedule.zone) /\ HourShown(schedule)
    BY CalendarAssumption DEF CalendarAssumption, CalInv, Ordinary, Schedule
  <1>. QED BY <1>1, FirstRun DEF CalInv, LocalTime

\* A day's run is at the schedule's time, on one of its weekdays.
LEMMA RunIsScheduled ==
    ASSUME schedule \in Schedule, HourShown(schedule), NEW d \in Int,
           OnWeekday(schedule, d)
    PROVE  Scheduled(RunAt(schedule, d))
  BY RunIsShown DEF Scheduled, OnWeekday, LocalTime

\* The next run shows the schedule's hour on one of its weekdays, across every
\* change of the offset that leaves the hour on every day (nextDailyRun,
\* nextWeeklyRun).
THEOREM TimeOfDayKept ==
    ASSUME Ordinary
    PROVE  CalendarSpec => []AtTimeOfDay
  <1>1. CalInv => AtTimeOfDay
    BY NextIsFirstRun, RunIsScheduled DEF AtTimeOfDay
  <1>2. RegularZones
    BY DEF Ordinary, RegularZones
  <1>. QED BY <1>1, <1>2, CalendarInductive, PTL

\* No time that fits the schedule is passed over between the calculation and the
\* run it finds, unless an instant within a day before, or the run's own day,
\* shows the same time (nextDailyRun, nextWeeklyRun).
THEOREM NothingPassedOver ==
    ASSUME Ordinary
    PROVE  CalendarSpec => []NoneMissed
  <1>1. CalInv => NoneMissed
    <2>. SUFFICES ASSUME CalInv, NEW x \in calculated + 1 .. planned - 1, Scheduled(x)
         PROVE  \/ Day(LocalTime(x)) = Day(LocalTime(planned))
                \/ \E y \in x - 24 .. calculated : LocalTime(y) = LocalTime(x)
      BY DEF NoneMissed
    <2>. DEFINE today == Day(LocalTime(calculated))
                e == Day(LocalTime(x))
    <2>1. /\ schedule \in Schedule
          /\ Regular(schedule.zone) /\ HourShown(schedule)
      BY NextIsFirstRun
    <2>2. PICK d \in Int :
              /\ planned = RunAt(schedule, d) /\ d >= today
              /\ \A f \in today .. d - 1 :
                    OnWeekday(schedule, f) => RunAt(schedule, f) <= calculated
      BY NextIsFirstRun
    <2>3. planned \in Int /\ Day(LocalTime(planned)) = d
      BY <2>1, <2>2, RunIsShown DEF LocalTime
    <2>4. /\ calculated \in Int /\ x \in Int /\ calculated <= x /\ x <= planned
          /\ schedule.zone \in Zones
      BY <2>1, <2>3 DEF CalInv, Schedule
    <2>5. /\ today \in Int /\ e \in Int /\ LocalTime(x) \in Int
          /\ LocalTime(x) = 24 * e + schedule.hour
          /\ OnWeekday(schedule, e)
      BY <2>4, DateType, DayClock DEF LocalTime, Scheduled, OnWeekday, Weekday
    <2>6. today <= e /\ e <= d
      BY <2>1, <2>3, <2>4, DaysInOrder DEF LocalTime
    <2>7. CASE e = d
      BY <2>3, <2>7
    <2>8. CASE e < d
      <3>. DEFINE y == RunAt(schedule, e)
      <3>1. y \in Int /\ LocalTime(y) = LocalTime(x)
        BY <2>1, <2>5, RunIsShown DEF LocalTime
      <3>2. y <= calculated
        BY <2>2, <2>5, <2>6, <2>8
      <3>3. x - y <= 24
        BY <2>1, <2>4, <3>1, TwiceWithinADay DEF LocalTime
      <3>4. y \in x - 24 .. calculated
        BY <2>4, <3>1, <3>2, <3>3
      <3>. QED BY <3>1, <3>4
    <2>. QED BY <2>3, <2>5, <2>6, <2>7, <2>8
  <1>2. RegularZones
    BY DEF Ordinary, RegularZones
  <1>. QED BY <1>1, <1>2, CalendarInductive, PTL

\* The run that follows one is on a later day, however late that one ends.
LEMMA NextDayIsLater ==
    ASSUME NEW s \in Schedule, Regular(s.zone), HourShown(s), NEW d \in Int,
           NEW x \in Int, RunAt(s, d) <= x
    PROVE  Day(Local(s.zone, NextRunForCommand(s, x))) > d
  <1>1. PICK f \in Int : /\ NextRunForCommand(s, x) = RunAt(s, f)
                         /\ RunAt(s, f) > x /\ f >= Day(Local(s.zone, x))
    BY FirstRun
  <1>2. /\ RunAt(s, d) \in Int /\ Day(Local(s.zone, RunAt(s, d))) = d
        /\ RunAt(s, f) \in Int /\ Day(Local(s.zone, RunAt(s, f))) = f
    BY RunIsShown
  <1>3. s.zone \in Zones
    BY DEF Schedule
  <1>4. d <= Day(Local(s.zone, x)) /\ Day(Local(s.zone, x)) \in Int
    BY <1>2, <1>3, DaysInOrder, DateType, DayClock
  <1>5. f # d
    BY <1>1, <1>2
  <1>. QED BY <1>1, <1>2, <1>4, <1>5

\* However late a run ends, the next is on a later day of the task's calendar
\* (runOne and the calculation it calls).
THEOREM DaysAreDistinct ==
    ASSUME Ordinary
    PROVE  CalendarSpec => EachDayOnce
  <1>1. CalInv /\ [CalendarNext]_plan
        => [planned # Never /\ planned' # Never => Day(LocalTime(planned'))
                                               > Day(LocalTime(planned))]_plan
    <2>. SUFFICES ASSUME CalInv, CalendarNext
         PROVE  Day(LocalTime(planned')) > Day(LocalTime(planned))
      OBVIOUS
    <2>1. PICK delay \in Delays : RunOne(delay)
      BY DEF CalendarNext
    <2>2. /\ schedule \in Schedule
          /\ Regular(schedule.zone) /\ HourShown(schedule)
      BY NextIsFirstRun
    <2>3. PICK d \in Int : planned = RunAt(schedule, d)
      BY NextIsFirstRun
    <2>4. planned \in Int /\ Day(LocalTime(planned)) = d
      BY <2>2, <2>3, RunIsShown DEF LocalTime
    <2>5. calculated' \in Int /\ planned <= calculated'
      BY <2>1, <2>4, CalendarAssumption
         DEF CalendarAssumption, RunOne, CalInv
    <2>6. planned' = NextRunForCommand(schedule, calculated')
      BY <2>1 DEF RunOne
    <2>. QED BY <2>2, <2>3, <2>4, <2>5, <2>6, NextDayIsLater DEF LocalTime
  <1>2. RegularZones
    BY DEF Ordinary, RegularZones
  <1>. QED BY <1>1, <1>2, CalendarInductive, PTL DEF CalendarSpec, EachDayOnce

-----------------------------------------------------------------------------
(***************************************************************************)
(* The scheduler.                                                          *)
(***************************************************************************)
Canceled(t) == task[t].status = "canceled"

\* Everything on record is earlier than a given occurrence.
AllBefore(t, n) == \A i \in 1 .. Len(runs[t]) : runs[t][i] < n

\* A copy that RunDue holds is of the occurrence the task still stands at,
\* unless the task has been canceled since; it is not on record.
CopyFits(r) ==
    /\ task[r.task].status \in {"active", "canceled"}
    /\ task[r.task].status = "active" => task[r.task].next = r.for
    /\ AllBefore(r.task, r.for)
    /\ Len(runs[r.task]) = task[r.task].count
    /\ r.for <= now

Copied == {s.task : s \in batch}

\* No task is held twice.
HeldOnce ==
    /\ \A r, s \in batch : r.task = s.task => r = s
    /\ current # NoRun => current.task \notin Copied

BatchFits == \A s \in batch : CopyFits(s)

CurrentFits ==
    current # NoRun => CopyFits(current) /\ current.for <= current.finishedAt

TaskFits ==
    \A t \in Tasks :
        /\ task[t].status = "absent" => runs[t] = <<>> /\ task[t].count = 0
        /\ task[t].status = "active" =>
              AllBefore(t, task[t].next) /\ Len(runs[t]) = task[t].count

\* A message outlives its task's cancellation only out of a copy held then.
OverrunFits ==
    \A t \in Tasks :
        /\ ~Canceled(t) => overrun[t] = 0
        /\ t \in Copied => overrun[t] = 0

IInv ==
    /\ TypeOK
    /\ ActiveHasNext
    /\ HeldOnce /\ BatchFits /\ CurrentFits
    /\ TaskFits /\ OverrunFits
    /\ OccurrencesRecordedOnce
    /\ CountMatches
    /\ DuplicatesExplained
    /\ CancelStops

USE SchedulerAssumption DEF SchedulerAssumption

LEMMA InitIInv == Init => IInv
  BY DEF Init, IInv, TypeOK, Times, NoRun, ActiveHasNext, HeldOnce, Copied,
         BatchFits, CurrentFits, TaskFits, OverrunFits, Canceled,
         OccurrencesRecordedOnce, CountMatches, DuplicatesExplained, CancelStops

LEMMA CreateKeeps ==
    ASSUME IInv, NEW t \in Tasks, CreateScheduledPublish(t)
    PROVE  IInv'
  <1>1. PICK n \in FirstRuns(t) :
            task' = [task EXCEPT ![t] =
                        [status |-> "active", next |-> n, count |-> 0]]
    BY DEF CreateScheduledPublish
  <1>2. n \in Nat /\ n # None
    <2>1. now \in Times /\ now \in Nat
      BY DEF IInv, TypeOK, Times
    <2>2. NextRun[t][now] \in Nat \cup {None}
      BY <2>1
    <2>. QED BY <1>1, <2>1, <2>2 DEF FirstRuns
  <1>3. t \notin Copied /\ (current # NoRun => current.task # t)
    BY DEF CreateScheduledPublish, IInv, BatchFits, CurrentFits, CopyFits, Copied
  <1>4. runs[t] = <<>> /\ Len(runs[t]) = 0
    BY DEF CreateScheduledPublish, IInv, TaskFits
  <1>5. TypeOK'
    BY <1>1, <1>2 DEF CreateScheduledPublish, IInv, TypeOK, poller, effects
  <1>6. ActiveHasNext'
    BY <1>1, <1>2 DEF IInv, TypeOK, ActiveHasNext
  <1>7. TaskFits' /\ CountMatches'
    BY <1>1, <1>2, <1>4
       DEF CreateScheduledPublish, IInv, TypeOK, TaskFits, CountMatches, AllBefore
  <1>8. HeldOnce' /\ BatchFits' /\ CurrentFits'
    BY <1>1, <1>3
       DEF CreateScheduledPublish, IInv, TypeOK, HeldOnce, BatchFits, CurrentFits,
           CopyFits, AllBefore, Copied, poller, Copies, NoRun
  <1>9. OverrunFits' /\ CancelStops'
    BY <1>1, <1>3
       DEF CreateScheduledPublish, IInv, TypeOK, OverrunFits, CancelStops,
           Canceled, Copied, poller, effects
  <1>10. OccurrencesRecordedOnce' /\ DuplicatesExplained'
    BY DEF CreateScheduledPublish, IInv, OccurrencesRecordedOnce,
           DuplicatesExplained, poller, effects
  <1>. QED BY <1>5, <1>6, <1>7, <1>8, <1>9, <1>10 DEF IInv

LEMMA CancelKeeps ==
    ASSUME IInv, NEW t \in Tasks, CancelScheduledPublish(t)
    PROVE  IInv'
  <1>1. task' = [task EXCEPT ![t].status = "canceled", ![t].next = None]
    BY DEF CancelScheduledPublish
  <1>2. TypeOK' /\ ActiveHasNext'
    <2>1. task' \in [Tasks -> [status : {"absent", "active", "completed", "failed",
                                        "canceled"},
                               next : Nat \cup {None}, count : Nat]]
      <3> DEFINE Row == [status : {"absent", "active", "completed", "failed",
                                   "canceled"},
                         next : Nat \cup {None}, count : Nat]
      <3>1. task \in [Tasks -> Row]
        BY DEF IInv, TypeOK
      <3>2. [[task[t] EXCEPT !.status = "canceled"] EXCEPT !.next = None] \in Row
        BY <3>1
      <3>. HIDE DEF Row
      <3>3. task' \in [Tasks -> Row]
        BY <1>1, <3>1, <3>2
      <3>. QED BY <3>3 DEF Row
    <2>2. ActiveHasNext'
      BY <1>1 DEF IInv, TypeOK, ActiveHasNext
    <2>. QED BY <2>1, <2>2 DEF CancelScheduledPublish, IInv, TypeOK, poller, effects
  <1>3. TaskFits' /\ CountMatches'
    <2>1. \A u \in Tasks :
            /\ task'[u].count = task[u].count
            /\ \/ task'[u].status = task[u].status /\ task'[u].next = task[u].next
               \/ task'[u].status = "canceled"
      BY <1>1 DEF IInv, TypeOK
    <2>2. runs' = runs
      BY DEF CancelScheduledPublish
    <2>3. TaskFits'
      BY <2>1, <2>2 DEF IInv, TaskFits, AllBefore
    <2>4. ASSUME NEW u \in Tasks
          PROVE  \/ Len(runs'[u]) = task'[u].count
                 \/ /\ task'[u].status = "canceled"
                    /\ Len(runs'[u]) = task'[u].count + 1
      BY <2>1, <2>2 DEF IInv, CountMatches
    <2>. QED BY <2>3, <2>4 DEF CountMatches
  <1>4. HeldOnce'
    BY DEF CancelScheduledPublish, IInv, HeldOnce, Copied, poller
  <1>7. BatchFits' /\ CurrentFits'
    <2>1. \A u \in Tasks :
            /\ task'[u].status \in {task[u].status, "canceled"}
            /\ task'[u].status = "active" => task'[u].next = task[u].next
            /\ task'[u].count = task[u].count
      BY <1>1 DEF IInv, TypeOK
    <2>2. UNCHANGED <<runs, now, batch, current>>
      BY DEF CancelScheduledPublish, poller
    <2>3. ASSUME NEW r, r.task \in Tasks, CopyFits(r)
          PROVE  CopyFits(r)'
      BY <2>1, <2>2, <2>3 DEF CopyFits, AllBefore
    <2>. QED BY <2>2, <2>3 DEF IInv, TypeOK, Copies, BatchFits, CurrentFits
  <1>5. OverrunFits' /\ CancelStops'
    BY <1>1
       DEF CancelScheduledPublish, IInv, TypeOK, OverrunFits, CancelStops,
           Canceled, Copied, poller, effects
  <1>6. OccurrencesRecordedOnce' /\ DuplicatesExplained'
    BY DEF CancelScheduledPublish, IInv, OccurrencesRecordedOnce,
           DuplicatesExplained, poller, effects
  <1>. QED BY <1>2, <1>3, <1>4, <1>5, <1>6, <1>7 DEF IInv

LEMMA PollKeeps ==
    ASSUME IInv, Poll
    PROVE  IInv'
  <1>1. PICK S \in SUBSET Due : batch' = {Copy(t) : t \in S}
    BY DEF Poll
  <1>2. \A t \in S : /\ t \in Tasks /\ Copy(t) \in Copies
                     /\ Copy(t).task = t /\ Copy(t).for = task[t].next
                     /\ task[t].status = "active" /\ task[t].next <= now
    BY DEF Due, Copy, Copies, IInv, TypeOK
  <1>3. Copied' = S
    BY <1>1, <1>2 DEF Copied
  <1>4. TypeOK'
    <2>1. batch' \subseteq Copies
      BY <1>1, <1>2
    <2>. QED BY <2>1 DEF Poll, IInv, TypeOK, rows, effects
  <1>5. HeldOnce' /\ CurrentFits'
    <2>1. current' = NoRun /\ NoRun' = NoRun
      BY DEF Poll, NoRun
    <2>2. \A r \in batch' : r = Copy(r.task)
      BY <1>1, <1>2
    <2>. QED BY <2>1, <2>2 DEF HeldOnce, CurrentFits
  <1>6. BatchFits'
    BY <1>1, <1>2 DEF Poll, IInv, TaskFits, BatchFits, CopyFits, AllBefore, rows
  <1>7. OverrunFits' /\ CancelStops'
    BY <1>2, <1>3
       DEF Poll, IInv, OverrunFits, CancelStops, Canceled, rows, effects
  <1>8. ActiveHasNext' /\ TaskFits' /\ CountMatches' /\ OccurrencesRecordedOnce'
           /\ DuplicatesExplained'
    BY DEF Poll, IInv, ActiveHasNext, TaskFits, AllBefore, CountMatches,
           OccurrencesRecordedOnce, DuplicatesExplained, rows, effects
  <1>. QED BY <1>4, <1>5, <1>6, <1>7, <1>8 DEF IInv

LEMMA PublishKeeps ==
    ASSUME IInv, NEW s \in batch, Publish(s)
    PROVE  IInv'
  <1>1. PICK result \in {"published", "failed"} :
            current' = [task |-> s.task, for |-> s.for, result |-> result,
                        finishedAt |-> now]
    BY DEF Publish
  <1>2. s.task \in Tasks /\ s.for \in Nat /\ s.task # None /\ CopyFits(s)
    BY DEF IInv, TypeOK, Copies, BatchFits, SchedulerAssumption
  <1>3. /\ current = NoRun /\ batch' = batch \ {s}
        /\ current' # NoRun /\ current'.task = s.task
    BY <1>1, <1>2 DEF Publish, NoRun
  <1>11. \/ UNCHANGED <<delivered, overrun>>
         \/ /\ delivered' = [delivered EXCEPT ![s.task] = delivered[s.task] + 1]
            /\ overrun' = [overrun EXCEPT ![s.task] =
                             IF task[s.task].status = "canceled"
                             THEN overrun[s.task] + 1 ELSE overrun[s.task]]
    BY Zenon DEF Publish
  <1>4. TypeOK'
    <2>1. current' \in [task : Tasks, for : Nat, result : {"published", "failed"},
                        finishedAt : Times] \cup {NoRun}
      BY <1>1, <1>2 DEF IInv, TypeOK
    <2>2. delivered' \in [Tasks -> Nat]
      <3>1. delivered \in [Tasks -> Nat]
        BY DEF IInv, TypeOK
      <3>. QED BY <1>2, <1>11, <3>1
    <2>3. overrun' \in [Tasks -> Nat]
      <3>1. overrun \in [Tasks -> Nat]
        BY DEF IInv, TypeOK
      <3>. QED BY <1>2, <1>11, <3>1
    <2>. QED BY <2>1, <2>2, <2>3 DEF Publish, IInv, TypeOK, rows
  <1>5. HeldOnce' /\ Copied' \subseteq Copied \ {s.task}
    BY <1>3 DEF IInv, HeldOnce, Copied
  <1>6. BatchFits' /\ CurrentFits'
    BY <1>1, <1>2, <1>3
       DEF Publish, IInv, BatchFits, CurrentFits, CopyFits, AllBefore, rows
  <1>7. s.task \in Copied
    BY DEF Copied
  <1>8. OverrunFits' /\ CancelStops'
    <2>1. CASE UNCHANGED <<delivered, overrun>>
      BY <2>1, <1>5
         DEF Publish, IInv, OverrunFits, CancelStops, Canceled, rows
    <2>2. CASE overrun' = [overrun EXCEPT ![s.task] =
                             IF task[s.task].status = "canceled"
                             THEN overrun[s.task] + 1 ELSE overrun[s.task]]
      <3>1. \A t \in Tasks :
               \/ overrun'[t] = overrun[t]
               \/ t = s.task /\ overrun'[t] = overrun[t] + 1 /\ Canceled(t)
        BY <2>2, <1>2 DEF IInv, TypeOK, Canceled
      <3>2. \A t \in Tasks : Canceled(t)' = Canceled(t)
        BY DEF Publish, rows, Canceled
      <3>3. overrun[s.task] = 0
        BY <1>2, <1>7 DEF IInv, OverrunFits
      <3>4. OverrunFits'
        BY <3>1, <3>2, <3>3, <1>5 DEF IInv, OverrunFits
      <3>5. CancelStops'
        BY <3>1, <3>3 DEF IInv, CancelStops
      <3>. QED BY <3>4, <3>5
    <2>. QED BY <2>1, <2>2, <1>11
  <1>9. DuplicatesExplained'
    <2>1. \A t \in Tasks : /\ Len(runs[t]) \in Nat
                            /\ lost[t] \in Nat
                            /\ delivered[t] <= Len(runs[t]) + lost[t]
      <3>1. \A t \in Tasks : /\ Len(runs[t]) \in Nat
                              /\ lost[t] \in Nat
                              /\ current.task # t
        BY <1>3 DEF IInv, TypeOK, NoRun
      <3>. QED BY <3>1 DEF IInv, DuplicatesExplained
    <2>2. \A t \in Tasks : delivered'[t] <= delivered[t]
                                            + (IF t = s.task THEN 1 ELSE 0)
      <3>1. delivered \in [Tasks -> Nat]
        BY DEF IInv, TypeOK
      <3>. QED BY <1>2, <1>11, <3>1
    <2>3. UNCHANGED <<runs, lost>> /\ \A t \in Tasks : delivered'[t] \in Nat
      BY <1>4 DEF Publish, TypeOK, rows
    <2>4. \A t \in Tasks : delivered[t] \in Nat
      BY DEF IInv, TypeOK
    <2>. QED BY <2>1, <2>2, <2>3, <2>4, <1>3 DEF DuplicatesExplained
  <1>10. ActiveHasNext' /\ TaskFits' /\ CountMatches' /\ OccurrencesRecordedOnce'
    BY DEF Publish, IInv, ActiveHasNext, TaskFits, AllBefore, CountMatches,
           OccurrencesRecordedOnce, rows
  <1>. QED BY <1>4, <1>5, <1>6, <1>8, <1>9, <1>10 DEF IInv

LEMMA FinishKeeps ==
    ASSUME IInv, FinishScheduledRun
    PROVE  IInv'
  <1> SUFFICES ASSUME NEW u, u = current.task
               PROVE  IInv'
    OBVIOUS
  <1>1. /\ current # NoRun /\ current' = NoRun
        /\ UNCHANGED <<now, batch, delivered, lost, overrun>>
        /\ runs' = [runs EXCEPT ![u] = Append(runs[u], current.for)]
    BY DEF FinishScheduledRun, effects
  <1>2. /\ u \in Tasks /\ current.for \in Nat /\ current.finishedAt \in Times
        /\ CopyFits(current) /\ current.for <= current.finishedAt
        /\ u \notin Copied
    BY <1>1 DEF IInv, TypeOK, CurrentFits, HeldOnce
  <1>3. /\ Len(runs[u]) \in Nat
        /\ runs'[u] \in Seq(Nat)
        /\ Len(runs'[u]) = Len(runs[u]) + 1
        /\ \A i \in 1 .. Len(runs[u]) : runs'[u][i] = runs[u][i]
        /\ runs'[u][Len(runs[u]) + 1] = current.for
    BY <1>1, <1>2 DEF IInv, TypeOK
  <1>16. \A i \in 1 .. Len(runs'[u]) :
            \/ i \in 1 .. Len(runs[u]) /\ runs'[u][i] = runs[u][i]
            \/ i = Len(runs[u]) + 1 /\ runs'[u][i] = current.for
    <2>. DEFINE k == Len(runs[u])
    <2>1. k \in Nat /\ Len(runs'[u]) = k + 1
      BY <1>3
    <2>2. \A i \in 1 .. k + 1 : i \in 1 .. k \/ i = k + 1
      BY <2>1
    <2>. QED BY <1>3, <2>1, <2>2
  <1>4. \A t \in Tasks \ {u} : runs'[t] = runs[t] /\ task'[t] = task[t]
    BY <1>1, <1>2 DEF FinishScheduledRun, IInv, TypeOK
  <1>5. \/ task[u].status = "canceled" /\ task' = task
        \/ /\ task[u].status = "active"
           /\ task' = [task EXCEPT ![u] = [status |-> Verdict(current).status,
                                           next |-> Verdict(current).next,
                                           count |-> task[u].count + 1]]
    BY <1>2 DEF FinishScheduledRun, CopyFits
  <1>6. /\ Verdict(current).status \in {"active", "completed", "failed"}
        /\ Verdict(current).next \in Nat \cup {None}
        /\ Verdict(current).status = "active" <=> Verdict(current).next # None
        /\ Verdict(current).next # None => current.for < Verdict(current).next
    <2> DEFINE next == NextRun[u][current.finishedAt]
    <2>1. /\ next \in Nat \cup {None}
          /\ u \notin Once => (next # None => next > current.finishedAt)
          /\ current.finishedAt \in Nat
      BY <1>2, NextRunAdvances DEF Times
    <2>. QED BY <2>1, <1>2 DEF Verdict
  <1>7. \/ task[u].status = "canceled" /\ task'[u] = task[u]
        \/ /\ task[u].status = "active"
           /\ task'[u] = [status |-> Verdict(current).status,
                          next |-> Verdict(current).next,
                          count |-> task[u].count + 1]
    BY <1>2, <1>5 DEF IInv, TypeOK
  <1>8. TypeOK'
    <2>1. runs' \in [Tasks -> Seq(Nat)]
      BY <1>1, <1>2, <1>3 DEF IInv, TypeOK
    <2>2. task' \in [Tasks -> [status : {"absent", "active", "completed", "failed",
                                        "canceled"},
                               next : Nat \cup {None}, count : Nat]]
      <3>1. task[u].count + 1 \in Nat
        BY <1>2 DEF IInv, TypeOK
      <3>2. task \in [Tasks -> [status : {"absent", "active", "completed", "failed",
                                        "canceled"},
                                next : Nat \cup {None}, count : Nat]]
        BY DEF IInv, TypeOK
      <3>. QED BY <1>2, <1>5, <1>6, <3>1, <3>2
    <2>. QED BY <1>1, <2>1, <2>2 DEF IInv, TypeOK
  <1>9. ActiveHasNext'
    <2>1. ActiveHasNext
      BY DEF IInv
    <2>. QED BY <1>4, <1>6, <1>7, <2>1 DEF ActiveHasNext
  <1>10. TaskFits' /\ CountMatches'
    <2>1. \A t \in Tasks \ {u} : AllBefore(t, task[t].next)'
                                   = AllBefore(t, task[t].next)
      BY <1>4 DEF AllBefore
    <2>2. \A n \in Nat : current.for < n => AllBefore(u, n)'
      <3>1. \A i \in 1 .. Len(runs[u]) : runs[u][i] \in Nat /\ runs[u][i] < current.for
        BY <1>2 DEF IInv, TypeOK, CopyFits, AllBefore
      <3>2. ASSUME NEW n \in Nat, current.for < n, NEW i \in 1 .. Len(runs'[u])
            PROVE  runs'[u][i] < n
        <4>1. CASE i \in 1 .. Len(runs[u]) /\ runs'[u][i] = runs[u][i]
          BY <1>2, <3>1, <3>2, <4>1
        <4>2. CASE runs'[u][i] = current.for
          BY <3>2, <4>2
        <4>. QED BY <1>16, <4>1, <4>2
      <3>. QED BY <3>2 DEF AllBefore
    <2>3. Len(runs[u]) = task[u].count
      BY <1>2 DEF CopyFits
    <2>4. TaskFits'
      <3>1. ASSUME NEW t \in Tasks \ {u}
            PROVE  /\ task'[t].status = "absent" =>
                        runs'[t] = <<>> /\ task'[t].count = 0
                   /\ task'[t].status = "active" =>
                        /\ AllBefore(t, task[t].next)'
                        /\ Len(runs'[t]) = task'[t].count
        BY <1>4, <2>1 DEF IInv, TaskFits
      <3>2. /\ task'[u].status # "absent"
            /\ task'[u].status = "active" =>
                 /\ AllBefore(u, task[u].next)'
                 /\ Len(runs'[u]) = task'[u].count
        BY <1>3, <1>6, <1>7, <2>2, <2>3
      <3>. QED BY <3>1, <3>2 DEF TaskFits
    <2>5. CountMatches
      BY DEF IInv
    <2>. QED BY <1>3, <1>4, <1>7, <2>3, <2>4, <2>5 DEF CountMatches
  <1>11. HeldOnce' /\ CurrentFits'
    BY <1>1 DEF IInv, HeldOnce, CurrentFits, Copied, NoRun
  <1>12. BatchFits'
    BY <1>1, <1>2, <1>4 DEF IInv, TypeOK, Copies, BatchFits, CopyFits, AllBefore, Copied
  <1>13. OverrunFits' /\ CancelStops'
    <2>1. \A t \in Tasks : Canceled(t)' <=> Canceled(t)
      BY <1>4, <1>6, <1>7 DEF Canceled
    <2>. QED BY <1>1, <2>1 DEF IInv, OverrunFits, CancelStops, Copied
  <1>14. OccurrencesRecordedOnce'
    <2>1. \A i \in 1 .. Len(runs[u]) : runs[u][i] \in Nat /\ runs[u][i] < current.for
      BY <1>2 DEF IInv, TypeOK, CopyFits, AllBefore
    <2>2. OccurrencesRecordedOnce
      BY DEF IInv
    <2>3. \A i, j \in 1 .. Len(runs'[u]) : i < j => runs'[u][i] < runs'[u][j]
      <3>1. \A i, j \in 1 .. Len(runs[u]) : i < j => runs[u][i] < runs[u][j]
        BY <2>2, <1>2 DEF OccurrencesRecordedOnce
      <3>2. ASSUME NEW i \in 1 .. Len(runs'[u]), NEW j \in 1 .. Len(runs'[u]), i < j
            PROVE  runs'[u][i] < runs'[u][j]
        <4>1. i \in 1 .. Len(runs[u]) /\ runs'[u][i] = runs[u][i]
          BY <1>3, <1>16, <3>2
        <4>2. CASE j \in 1 .. Len(runs[u])
          BY <4>1, <4>2, <1>3, <3>1, <3>2
        <4>3. CASE runs'[u][j] = current.for
          BY <4>1, <4>3, <2>1
        <4>. QED BY <1>16, <4>2, <4>3
      <3>. QED BY <3>2
    <2>. QED BY <1>4, <2>2, <2>3 DEF OccurrencesRecordedOnce
  <1>15. DuplicatesExplained'
    <2>1. \A t \in Tasks : current'.task # t
      BY <1>1 DEF NoRun
    <2>2. \A t \in Tasks : Len(runs[t]) \in Nat /\ lost[t] \in Nat
                             /\ delivered[t] \in Nat
      BY DEF IInv, TypeOK
    <2>. QED BY <1>1, <1>3, <1>4, <2>1, <2>2 DEF IInv, DuplicatesExplained
  <1>. QED BY <1>8, <1>9, <1>10, <1>11, <1>12, <1>13, <1>14, <1>15 DEF IInv

\* A run that is not recorded leaves the rows; its copy is dropped.
LEMMA LossKeeps ==
    ASSUME IInv, FinishLost \/ Crash
    PROVE  IInv'
  <1>1. /\ UNCHANGED <<now, rows, delivered, overrun>>
        /\ batch' \subseteq batch /\ current' = NoRun
        /\ \/ lost' = lost /\ current = NoRun
           \/ current # NoRun /\ lost' = [lost EXCEPT ![current.task] = @ + 1]
    BY DEF FinishLost, Crash
  <1>2. current # NoRun => current.task \in Tasks
    BY DEF IInv, TypeOK
  <1>3. lost' \in [Tasks -> Nat]
    BY <1>1, <1>2 DEF IInv, TypeOK
  <1>4. TypeOK'
    BY <1>1, <1>3 DEF IInv, TypeOK, rows
  <1>5. HeldOnce' /\ CurrentFits' /\ Copied' \subseteq Copied
    BY <1>1 DEF IInv, HeldOnce, CurrentFits, Copied, NoRun
  <1>6. BatchFits'
    BY <1>1 DEF IInv, BatchFits, CopyFits, AllBefore, rows
  <1>7. OverrunFits' /\ CancelStops'
    BY <1>1, <1>5 DEF IInv, OverrunFits, CancelStops, Canceled, rows
  <1>8. ActiveHasNext' /\ TaskFits' /\ CountMatches' /\ OccurrencesRecordedOnce'
    BY <1>1 DEF IInv, ActiveHasNext, TaskFits, AllBefore, CountMatches,
                OccurrencesRecordedOnce, rows
  <1>9. DuplicatesExplained'
    <2>1. \A t \in Tasks : /\ Len(runs[t]) \in Nat /\ lost[t] \in Nat
                           /\ delivered[t] \in Nat /\ current'.task # t
                           /\ current = NoRun => current.task # t
      BY <1>1 DEF IInv, TypeOK, NoRun
    <2>2. \A t \in Tasks : lost'[t] = lost[t] + (IF current.task = t THEN 1 ELSE 0)
      BY <1>1, <1>2, <2>1 DEF IInv, TypeOK
    <2>. QED BY <1>1, <2>1, <2>2 DEF IInv, DuplicatesExplained, rows
  <1>. QED BY <1>4, <1>5, <1>6, <1>7, <1>8, <1>9 DEF IInv

LEMMA TickKeeps ==
    ASSUME IInv, Tick \/ UNCHANGED vars
    PROVE  IInv'
  <1>1. /\ UNCHANGED <<task, runs, batch, current, delivered, lost, overrun>>
        /\ now' \in Times /\ now \in Nat /\ now <= now' /\ now' \in Nat
    BY DEF Tick, IInv, TypeOK, Times, vars, rows, poller, effects
  <1>2. TypeOK'
    BY <1>1 DEF IInv, TypeOK
  <1>3. ASSUME NEW r, CopyFits(r), r.for \in Nat
        PROVE  CopyFits(r)'
    BY <1>1, <1>3 DEF CopyFits, AllBefore
  <1>4. BatchFits' /\ CurrentFits'
    BY <1>1, <1>3 DEF IInv, TypeOK, Copies, BatchFits, CurrentFits
  <1>5. HeldOnce' /\ OverrunFits' /\ CancelStops'
    BY <1>1 DEF IInv, HeldOnce, Copied, OverrunFits, CancelStops, Canceled
  <1>6. ActiveHasNext' /\ TaskFits' /\ CountMatches' /\ OccurrencesRecordedOnce'
    BY <1>1 DEF IInv, ActiveHasNext, TaskFits, AllBefore, CountMatches,
                OccurrencesRecordedOnce
  <1>7. DuplicatesExplained'
    BY <1>1 DEF IInv, DuplicatesExplained
  <1>. QED BY <1>2, <1>4, <1>5, <1>6, <1>7 DEF IInv

\* IInv is an inductive invariant of the scheduler.
THEOREM Inductive == Spec => []IInv
  <1>1. ASSUME IInv, [Next]_vars
        PROVE  IInv'
    BY <1>1, CreateKeeps, CancelKeeps, PollKeeps, PublishKeeps, FinishKeeps,
       LossKeeps, TickKeeps
       DEF Next
  <1>. QED BY <1>1, InitIInv, PTL DEF Spec

\* Every variable of the scheduler keeps its type.
THEOREM TypeCorrect == Spec => []TypeOK
  <1>1. IInv => TypeOK
    BY DEF IInv
  <1>. QED BY <1>1, Inductive, PTL

\* RunDue never reads a task that has ended and never forgets one that has not.
THEOREM ActiveTasksAreScheduled == Spec => []ActiveHasNext
  <1>1. IInv => ActiveHasNext
    BY DEF IInv
  <1>. QED BY <1>1, Inductive, PTL

\* FinishScheduledRun records no occurrence of a task twice and none out of order.
THEOREM RecordedOnce == Spec => []OccurrencesRecordedOnce
  <1>1. IInv => OccurrencesRecordedOnce
    BY DEF IInv
  <1>. QED BY <1>1, Inductive, PTL

\* run_count tells how many runs are on record.
THEOREM CountsAgree == Spec => []CountMatches
  <1>1. IInv => CountMatches
    BY DEF IInv
  <1>. QED BY <1>1, Inductive, PTL

\* runOne publishes at most once for each run on record and each lost record.
THEOREM DuplicatesAreLosses == Spec => []DuplicatesExplained
  <1>1. IInv => DuplicatesExplained
    BY DEF IInv
  <1>. QED BY <1>1, Inductive, PTL

\* After CancelScheduledTask at most one message of the task is still delivered.
THEOREM OneOverrun == Spec => []CancelStops
  <1>1. IInv => CancelStops
    BY DEF IInv
  <1>. QED BY <1>1, Inductive, PTL

\* No step of the scheduler or the console takes a task out of status canceled.
THEOREM CanceledForGood == Spec => CancelIsFinal
  <1>1. ASSUME IInv, [Next]_vars, NEW t \in Tasks, task[t].status = "canceled"
        PROVE  task'[t] = task[t]
    <2>1. task[t].next = None
      BY <1>1 DEF IInv, ActiveHasNext
    <2>2. ASSUME NEW u \in Tasks, CreateScheduledPublish(u)
          PROVE  task'[t] = task[t]
      BY <1>1, <2>2 DEF CreateScheduledPublish, IInv, TypeOK
    <2>3. ASSUME NEW u \in Tasks, CancelScheduledPublish(u)
          PROVE  task'[t] = task[t]
      <3>1. task[t] = [task[t] EXCEPT !.status = "canceled", !.next = None]
        BY <1>1, <2>1 DEF IInv, TypeOK
      <3>. QED BY <1>1, <2>3, <3>1 DEF CancelScheduledPublish, IInv, TypeOK
    <2>4. CASE FinishScheduledRun
      BY <1>1, <2>4 DEF FinishScheduledRun, IInv, TypeOK
    <2>5. CASE ~FinishScheduledRun /\ UNCHANGED task
      BY <2>5
    <2>. QED BY <1>1, <2>2, <2>3, <2>4, <2>5
             DEF Next, Poll, Publish, FinishLost, Crash, Tick, vars, rows
  <1>2. ASSUME IInv, [Next]_vars
        PROVE  [\A t \in Tasks : task[t].status = "canceled" => task'[t] = task[t]]_vars
    BY <1>1, <1>2
  <1>. QED BY <1>2, Inductive, PTL DEF Spec, CancelIsFinal

-----------------------------------------------------------------------------
(***************************************************************************)
(* Both together: the tasks that repeat run by NextRunForCommand, in zones *)
(* and at hours that the calendar's theorems cover.                        *)
(***************************************************************************)
CONSTANT ScheduleOf     \* the schedule of each task that repeats

Repeating == Tasks \ Once

ByCalendar ==
    \A t \in Repeating :
        /\ ScheduleOf[t] \in Schedule
        /\ Regular(ScheduleOf[t].zone) /\ HourShown(ScheduleOf[t])
        /\ \A n \in Times :
              NextRun[t][n] = NextRunForCommand(ScheduleOf[t], n)

\* An instant at which a task is to run: that of a day of its schedule.
RunOfDay(t, n) ==
    \E d \in Int : /\ n = RunAt(ScheduleOf[t], d)
                   /\ OnWeekday(ScheduleOf[t], d)

\* Whatever the row, RunDue or the record holds of a task that repeats.
OnCalendar ==
    \A t \in Repeating :
        /\ task[t].status \in {"absent", "active", "canceled"}
        /\ task[t].next # None => RunOfDay(t, task[t].next)
        /\ \A s \in batch : s.task = t => RunOfDay(t, s.for)
        /\ current # NoRun /\ current.task = t => RunOfDay(t, current.for)
        /\ \A i \in 1 .. Len(runs[t]) : RunOfDay(t, runs[t][i])

\* The next run of a task that repeats can always be calculated; it is a day's
\* run, and lies in the future.
LEMMA NextRunIsOfDay ==
    ASSUME ByCalendar, NEW t \in Repeating, NEW n \in Times
    PROVE  /\ NextRun[t][n] # None
           /\ RunOfDay(t, NextRun[t][n])
           /\ NextRun[t][n] > n
  <1>1. n \in Int
    BY DEF Times
  <1>2. PICK d \in Int :
            /\ NextRunForCommand(ScheduleOf[t], n) = RunAt(ScheduleOf[t], d)
            /\ OnWeekday(ScheduleOf[t], d) /\ RunAt(ScheduleOf[t], d) > n
    BY <1>1, FirstRun DEF ByCalendar
  <1>3. RunAt(ScheduleOf[t], d) \in Int
    BY RunIsShown DEF ByCalendar
  <1>. QED BY <1>2, <1>3 DEF ByCalendar, RunOfDay

\* So the calendar's code meets what Scheduler assumes of it.
THEOREM CalendarAdvances == ByCalendar => NextRunAdvances
  BY NextRunIsOfDay DEF NextRunAdvances, Repeating

\* A task that repeats stands at a run of its schedule, at first ...
LEMMA InitOnCalendar == Init => OnCalendar
  BY DEF Init, OnCalendar, NoRun, Repeating

\* ... and after every step.
LEMMA StepOnCalendar ==
    ASSUME ByCalendar, IInv, OnCalendar, [Next]_vars
    PROVE  OnCalendar'
  <1>. USE DEF Repeating
  <1>1. ASSUME NEW u \in Tasks, CreateScheduledPublish(u)
        PROVE  OnCalendar'
    <2>1. PICK n \in FirstRuns(u) :
              task' = [task EXCEPT ![u] = [status |-> "active", next |-> n, count |-> 0]]
      BY <1>1 DEF CreateScheduledPublish
    <2>2. u \in Repeating => RunOfDay(u, n)
      BY <2>1, NextRunIsOfDay DEF FirstRuns, IInv, TypeOK
    <2>. QED BY <1>1, <2>1, <2>2
             DEF CreateScheduledPublish, OnCalendar, RunOfDay, poller, IInv, TypeOK
  <1>2. ASSUME NEW u \in Tasks, CancelScheduledPublish(u)
        PROVE  OnCalendar'
    BY <1>2 DEF CancelScheduledPublish, OnCalendar, RunOfDay, poller, IInv, TypeOK
  <1>3. CASE Poll
    BY <1>3 DEF Poll, Due, Copy, Earliest, OnCalendar, RunOfDay, rows, IInv, TypeOK
  <1>4. ASSUME NEW s \in batch, Publish(s)
        PROVE  OnCalendar'
    <2>1. /\ current'.task = s.task /\ current'.for = s.for
          /\ batch' = batch \ {s} /\ UNCHANGED <<task, runs>>
      BY <1>4 DEF Publish, rows
    <2>2. \A r \in batch' : r \in batch
      BY <2>1
    <2>. QED BY <1>4, <2>1, <2>2 DEF OnCalendar, RunOfDay
  <1>5. CASE FinishScheduledRun
    <2>. DEFINE u == current.task
    <2>1. /\ u \in Tasks /\ current.finishedAt \in Times /\ current # NoRun
          /\ runs' = [runs EXCEPT ![u] = Append(runs[u], current.for)]
          /\ current' = NoRun /\ batch' = batch
      BY <1>5 DEF FinishScheduledRun, IInv, TypeOK
    <2>2. u \in Repeating /\ task[u].status = "active"
          => /\ task'[u].status = "active"
             /\ RunOfDay(u, task'[u].next)
      BY <1>5, <2>1, NextRunIsOfDay DEF FinishScheduledRun, Verdict, IInv, TypeOK
    <2>3. \A t \in Tasks : t # u \/ task[u].status # "active" => task'[t] = task[t]
      BY <1>5 DEF FinishScheduledRun, IInv, TypeOK
    <2>4. \A t \in Tasks : \A i \in 1 .. Len(runs'[t]) :
              \/ i \in 1 .. Len(runs[t]) /\ runs'[t][i] = runs[t][i]
              \/ t = u /\ runs'[t][i] = current.for
      BY <2>1 DEF IInv, TypeOK, Copies
    <2>. QED BY <2>1, <2>2, <2>3, <2>4 DEF OnCalendar, RunOfDay
  <1>6. CASE FinishLost \/ Crash \/ Tick \/ UNCHANGED vars
    BY <1>6 DEF FinishLost, Crash, Tick, vars, rows, poller, OnCalendar, RunOfDay
  <1>. QED BY <1>1, <1>2, <1>3, <1>4, <1>5, <1>6 DEF Next

\* So does whatever RunDue holds and FinishScheduledRun records of it.
LEMMA AlwaysOnCalendar == ASSUME ByCalendar PROVE Spec => []OnCalendar
  BY Inductive, InitOnCalendar, StepOnCalendar, PTL DEF Spec

\* Every run on record was due at the schedule's hour on one of its weekdays, as
\* the task's time zone counts them, and no two on the same day: however late
\* RunDue comes, whatever records are lost and whenever the process dies
\* (scheduled_publish.go, schedule.go).
DaysOfRuns ==
    \A t \in Repeating :
        LET s      == ScheduleOf[t]
            due(i) == Local(s.zone, runs[t][i])
        IN  \A i \in 1 .. Len(runs[t]) :
                /\ Clock(due(i)) = s.hour
                /\ s.weekdays # {} => Weekday(due(i)) \in s.weekdays
                /\ \A j \in 1 .. i - 1 : Day(due(j)) < Day(due(i))

\* With Calendar, the scheduler records at most one run of a repeating task for
\* each day of its calendar, at its time of day.
THEOREM RunsKeepTheCalendar == ASSUME ByCalendar PROVE Spec => []DaysOfRuns
  <1>1. ASSUME IInv, OnCalendar
        PROVE  DaysOfRuns
    <2>. SUFFICES ASSUME NEW t \in Repeating, NEW i \in 1 .. Len(runs[t])
         PROVE  LET s      == ScheduleOf[t]
                    due(k) == Local(s.zone, runs[t][k])
                IN  /\ Clock(due(i)) = s.hour
                    /\ s.weekdays # {} => Weekday(due(i)) \in s.weekdays
                    /\ \A j \in 1 .. i - 1 : Day(due(j)) < Day(due(i))
      BY DEF DaysOfRuns
    <2>. DEFINE s == ScheduleOf[t]
                due(k) == Local(s.zone, runs[t][k])
    <2>1. s \in Schedule /\ Regular(s.zone) /\ HourShown(s)
      BY DEF ByCalendar
    <2>2. ASSUME NEW k \in 1 .. Len(runs[t])
          PROVE  \E d \in Int :
                    /\ runs[t][k] \in Int /\ runs[t][k] = RunAt(s, d)
                    /\ OnWeekday(s, d)
                    /\ Day(due(k)) = d /\ Clock(due(k)) = s.hour
                    /\ Weekday(due(k)) = (d % 7) + 1
      <3>1. PICK d \in Int : runs[t][k] = RunAt(s, d) /\ OnWeekday(s, d)
        BY <1>1 DEF OnCalendar, RunOfDay
      <3>2. /\ RunAt(s, d) \in Int
            /\ Day(Local(s.zone, RunAt(s, d))) = d
            /\ Clock(Local(s.zone, RunAt(s, d))) = s.hour
            /\ Weekday(Local(s.zone, RunAt(s, d))) = (d % 7) + 1
        BY <2>1, RunIsShown
      <3>. QED BY <3>1, <3>2
    <2>3. PICK d \in Int :
              /\ runs[t][i] \in Int /\ runs[t][i] = RunAt(s, d)
              /\ OnWeekday(s, d)
              /\ Day(due(i)) = d /\ Clock(due(i)) = s.hour
              /\ Weekday(due(i)) = (d % 7) + 1
      BY <2>2
    <2>4. ASSUME NEW j \in 1 .. i - 1
          PROVE  Day(due(j)) < Day(due(i))
      <3>0. Len(runs[t]) \in Nat /\ j \in 1 .. Len(runs[t]) /\ j < i
        BY <1>1 DEF IInv, TypeOK, Repeating
      <3>1. runs[t][j] < runs[t][i]
        BY <1>1, <3>0 DEF IInv, OccurrencesRecordedOnce, Repeating
      <3>2. PICK e \in Int :
                /\ runs[t][j] \in Int /\ runs[t][j] = RunAt(s, e)
                /\ Day(due(j)) = e
        BY <2>2, <3>0
      <3>3. e <= d
        <4>1. s.zone \in Zones
          BY <2>1 DEF Schedule
        <4>. QED BY <2>1, <2>3, <3>1, <3>2, <4>1, DaysInOrder
      <3>4. e # d
        BY <2>3, <3>1, <3>2
      <3>. QED BY <2>3, <3>2, <3>3, <3>4
    <2>. QED BY <2>3, <2>4 DEF OnWeekday
  <1>. QED BY <1>1, Inductive, AlwaysOnCalendar, PTL

\* A task that repeats never ends of itself: its next run can always be
\* calculated, so runOne finds no error and it goes on until it is canceled.
THEOREM RepeatsUntilCanceled ==
    ASSUME ByCalendar
    PROVE  Spec => [](\A t \in Repeating :
                          task[t].status \in {"absent", "active", "canceled"})
  <1>1. OnCalendar => \A t \in Repeating :
                          task[t].status \in {"absent", "active", "canceled"}
    BY DEF OnCalendar
  <1>. QED BY <1>1, AlwaysOnCalendar, PTL
=============================================================================
