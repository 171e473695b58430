------------------------------ MODULE Listing ------------------------------
(***************************************************************************)
(* The console's lists (api/router.go, list* and queryMessages; service;   *)
(* storage/postgres/store.go): each is read page by page with LIMIT and    *)
(* OFFSET in descending order of a time, every page by a statement of its  *)
(* own, while the rows change.  A list is described by what may become of  *)
(* its rows between two pages.  Rows are told apart, what they say is not; *)
(* a row that does not meet the query's conditions is not listed.          *)
(***************************************************************************)
EXTENDS Integers, SequencesExt

CONSTANTS
    Rows,
    Sizes,          \* the page sizes that are asked for; 0 stands for none
    DefaultSize,    \* 50 in the code
    MaxSize,        \* 200 in the code
    Day,            \* the messages' 24 hours
    StartTime,      \* bound: the clock when the client begins
    MaxTime,        \* bound: the clock
    Absent

ASSUME ListingAssumption ==
    /\ IsFiniteSet(Rows)
    /\ Sizes \subseteq Int
    /\ MaxSize \in Nat
    /\ DefaultSize \in 1..MaxSize
    /\ Day \in Nat /\ MaxTime \in Nat
    /\ StartTime \in 1..MaxTime
    /\ Absent \notin Nat

VARIABLES
    list,           \* which list is read
    now,            \* the clock
    time,           \* the time each row is ordered by, or Absent
    page, size,     \* what the client asks for next; page 0 when it has done
    got,            \* how often it has got each row
    throughout,     \* history: the rows listed ever since it began
    raised,         \* history: those that have come to stand above one that
                    \* stood above them, or has gone
    lowered,        \* history: those that have come to stand below another
    tied            \* history: those that have had another's time

table  == <<list, now, time>>
client == <<page, size, got>>
past   == <<throughout, raised, lowered, tied>>
vars   == <<table, client, past>>

\* Each list: whether a row is given a new time when it is written again,
\* whether a row may leave, and whether the query's range moves with the clock.
ListDevices         == [moves |-> TRUE,  leaves |-> TRUE,  range |-> FALSE]
ListTopics          == [moves |-> TRUE,  leaves |-> FALSE, range |-> FALSE]
ListDeviceTopics    == ListTopics
ListPublishCommands == [moves |-> FALSE, leaves |-> TRUE,  range |-> FALSE]
ListQuickActions    == [moves |-> FALSE, leaves |-> TRUE,  range |-> FALSE]
ListAlerts          == [moves |-> TRUE,  leaves |-> TRUE,  range |-> FALSE]
QueryMessages(asked) == [moves |-> FALSE, leaves |-> FALSE, range |-> ~asked]

\* The last day is the range of a query that asks for neither end of one.
ApplyDefaultMessageRange == {QueryMessages(asked) : asked \in BOOLEAN}

Lists ==
    {ListDevices, ListDeviceTopics, ListTopics, ListPublishCommands, ListQuickActions,
     ListAlerts} \cup ApplyDefaultMessageRange

\* The rows that the list's query finds at time t.
Listed(tm, t) ==
    {r \in Rows : tm[r] # Absent /\ (list.range => t <= tm[r] + Day)}

Above(r, tm, t) == {q \in Listed(tm, t) : tm[q] > tm[r]}

\* The pages are counted from 1.
NormalizePage(p, s) ==
    [page |-> IF p < 1 THEN 1 ELSE p,
     size |-> IF s < 1 THEN DefaultSize ELSE IF s > MaxSize THEN MaxSize ELSE s]

\* Broken variant: the offset is counted in pages of the size that was asked for.
OffsetAsked(p, s) == (NormalizePage(p, s).page - 1) * (IF s < 1 THEN DefaultSize ELSE s)

Offset(p, s) == (NormalizePage(p, s).page - 1) * NormalizePage(p, s).size

\* What a query may return: the order among equal times is the database's choice.
Orders == {o \in SetToSeqs(Listed(time, now)) :
              \A i, j \in DOMAIN o : i < j => time[o[i]] >= time[o[j]]}

\* Broken variant: a page comes with the row after it, to tell whether there is one.
PageAndNext(order, p, s) ==
    {order[i] : i \in {i \in DOMAIN order :
        Offset(p, s) < i /\ i <= Offset(p, s) + NormalizePage(p, s).size + 1}}

\* LIMIT and OFFSET.
Page(order, p, s) ==
    {order[i] : i \in {i \in DOMAIN order :
        Offset(p, s) < i /\ i <= Offset(p, s) + NormalizePage(p, s).size}}

\* The client begins, whatever the table is like, with the first page.
Init ==
    /\ list \in Lists
    /\ now = StartTime
    /\ time \in [Rows -> 1..StartTime \cup {Absent}]
    /\ page = 1
    /\ size \in Sizes
    /\ got = [r \in Rows |-> 0]
    /\ throughout = Listed(time, now)
    /\ raised = {}
    /\ lowered = {}
    /\ tied = {r \in throughout : \E q \in throughout \ {r} : time[q] = time[r]}

\* History: how a change of the table moves the rows past one another.
Notice ==
    LET before == Listed(time, now)
        after  == Listed(time', now')
    IN  /\ throughout' = throughout \cap after
        /\ raised'  = raised \cup
               {r \in before \cap after : ~(Above(r, time, now) \subseteq Above(r, time', now'))}
        /\ lowered' = lowered \cup
               {r \in before \cap after : ~(Above(r, time', now') \subseteq Above(r, time, now))}
        /\ tied'    = tied \cup {r \in after : \E q \in after \ {r} : time'[q] = time'[r]}

\* The table changes between two pages.
Change(tm, t) ==
    /\ page > 1
    /\ time' = tm
    /\ now' = t
    /\ UNCHANGED <<list, client>>
    /\ Notice

\* A row is written with the time that its writer has taken, which may be
\* earlier than that of rows already there.
Insert(r) ==
    /\ time[r] = Absent
    /\ \E t \in 1..now : Change([time EXCEPT ![r] = t], now)

Touch(r) ==
    /\ list.moves
    /\ time[r] # Absent
    /\ \E t \in 1..now : t # time[r] /\ Change([time EXCEPT ![r] = t], now)

\* A row is deleted, or ceases to meet the query's conditions.
Leave(r) ==
    /\ list.leaves
    /\ time[r] # Absent
    /\ Change([time EXCEPT ![r] = Absent], now)

Tick ==
    /\ now < MaxTime
    /\ Change(time, now + 1)

\* The client asks for page after page, until one is not full.
Read ==
    /\ page > 0
    /\ \E order \in Orders :
          LET items == Page(order, page, size)
          IN  /\ got' = [r \in Rows |-> IF r \in items THEN got[r] + 1 ELSE got[r]]
              /\ page' = IF Cardinality(items) < NormalizePage(page, size).size
                         THEN 0 ELSE page + 1
    /\ UNCHANGED <<table, size, past>>

Next ==
    \/ Read
    \/ Tick
    \/ \E r \in Rows : Insert(r) \/ Touch(r) \/ Leave(r)

Spec == Init /\ [][Next]_vars

-----------------------------------------------------------------------------
\* A row that stood in the list all the time and that no page has shown has
\* come to stand above one that stood above it, or has had another's time; in
\* a list whose rows neither move nor leave, only the latter, whatever is
\* written meanwhile and however late (store.go, ORDER BY, LIMIT and OFFSET).
MissedExplained ==
    page = 0 => \A r \in throughout : got[r] = 0 =>
        \/ r \in tied
        \/ r \in raised /\ (list.moves \/ list.leaves)

\* A row that two pages show has come to stand below another meanwhile, or has
\* had another's time, or has been away.
RepeatsExplained ==
    \A r \in throughout : got[r] > 1 => r \in lowered \cup tied
=============================================================================
