----------------------------- MODULE MCCalendar -----------------------------
(* Instances of Calendar for TLC: zones west and east of Greenwich that skip *)
(* or repeat an hour of the calendar's second day.                           *)
EXTENDS Calendar

\* An offset's change at the instant at which the clock would show the hour.
Change(before, after, hour) ==
    [before |-> before, after |-> after, at |-> 24 + hour - before]

Fixed == Change(8, 8, 0)                       \* Asia/Hong_Kong
NewYork == {Change(-5, -4, 2), Change(-4, -5, 2)}
Berlin == {Change(1, 2, 2), Change(2, 1, 3)}
London == {Change(0, 1, 1), Change(1, 0, 2)}
Havana == {Change(-4, -5, 1)}                  \* the hour after midnight twice
Midnight == Change(-5, -4, 0)                  \* Havana's other change

WeekdaySets == {{}, {2}, {1, 2}, {2, 3}, {7}}

MCSchedules ==
    {s \in [zone : {Fixed} \cup NewYork \cup Berlin \cup London \cup Havana,
            hour : 0 .. 23, weekdays : WeekdaySets] :
        HourShown(s)}

ASSUME MCAssumption ==
    /\ \A s \in MCSchedules : Regular(s.zone)
    /\ ~Regular(Midnight)

\* Every day, at any hour: also at the one that the calendar skips once.
MCGapSchedules ==
    [zone : {Change(-5, -4, 2), Midnight}, hour : 0 .. 23, weekdays : {{}}]

MCStarts == -24 .. 30
=============================================================================
