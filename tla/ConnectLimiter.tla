--------------------------- MODULE ConnectLimiter ---------------------------
(***************************************************************************)
(* The sliding window that limits how often an address may connect         *)
(* (internal/broker/rate_limiter.go).  OnConnect reads the clock first and *)
(* takes the limiter's lock afterwards, so calls reach the window in       *)
(* another order than that of their times; Allow itself is one step, under *)
(* the lock.  A window is the set of the admitted calls it still holds:    *)
(* their order in the slice is not used.                                   *)
(***************************************************************************)
EXTENDS Integers, FiniteSets

CONSTANTS
    Calls,     \* calls of OnConnect
    Keys,      \* the addresses they come from
    KeyOf,     \* the address of each call
    Limit,     \* how many of an address are admitted ...
    Window,    \* ... within this time
    MaxWait,   \* the longest that a call waits for the lock
    MaxTime    \* bound: the clock

ASSUME LimiterAssumption ==
    /\ IsFiniteSet(Calls)
    /\ KeyOf \in [Calls -> Keys]
    /\ Limit \in Nat \ {0}
    /\ Window \in Nat /\ MaxWait \in Nat /\ MaxTime \in Nat

VARIABLES
    now,       \* the clock
    state,     \* where each call is
    at,        \* the time that it has read
    hits       \* connectLimiter.hits

vars == <<now, state, at, hits>>

In(s) == {c \in Calls : state[c] = s}

Init ==
    /\ now = 0
    /\ state = [c \in Calls |-> "new"]
    /\ at = [c \in Calls |-> 0]
    /\ hits = [k \in Keys |-> {}]

ReadClock(c) ==
    /\ state[c] = "new"
    /\ state' = [state EXCEPT ![c] = "waiting"]
    /\ at' = [at EXCEPT ![c] = now]
    /\ UNCHANGED <<now, hits>>

\* The hits of its address that are less than a window older than the call.
Recent(c) == {h \in hits[KeyOf[c]] : at[h] > at[c] - Window}

Decide(c, verdict, window) ==
    /\ state[c] = "waiting"
    /\ state' = [state EXCEPT ![c] = verdict]
    /\ hits' = [hits EXCEPT ![KeyOf[c]] = window]
    /\ UNCHANGED <<now, at>>

\* Broken variant: lets one call too many through.
AdmitOneMore(c) ==
    /\ Cardinality(Recent(c)) <= Limit
    /\ Decide(c, "admitted", Recent(c) \cup {c})

Admit(c) ==
    /\ Cardinality(Recent(c)) < Limit
    /\ Decide(c, "admitted", Recent(c) \cup {c})

\* Broken variant: a refused attempt counts as one of the window's.
RefuseAndCount(c) ==
    /\ Cardinality(Recent(c)) >= Limit
    /\ Decide(c, "refused", Recent(c) \cup {c})

Refuse(c) ==
    /\ Cardinality(Recent(c)) >= Limit
    /\ Decide(c, "refused", Recent(c))

Tick ==
    /\ now < MaxTime
    /\ \A c \in In("waiting") : now < at[c] + MaxWait
    /\ now' = now + 1
    /\ UNCHANGED <<state, at, hits>>

Next ==
    \/ \E c \in Calls : ReadClock(c) \/ Admit(c) \/ Refuse(c)
    \/ Tick

Spec == Init /\ [][Next]_vars

-----------------------------------------------------------------------------
TypeOK ==
    /\ now \in 0 .. MaxTime
    /\ state \in [Calls -> {"new", "waiting", "admitted", "refused"}]
    /\ at \in [Calls -> 0 .. MaxTime]
    /\ hits \in [Keys -> SUBSET Calls]

\* The calls of an address that were admitted with a time in an interval.
Admitted(k, from, until) ==
    {c \in In("admitted") : KeyOf[c] = k /\ at[c] > from /\ at[c] <= until}

\* No more than the limit is admitted in any window, whichever order the calls
\* come in; the window falls short by the time that a call can wait for the
\* lock, since a later call may have dropped hits that an earlier one would
\* have counted (rate_limiter.go).
WithinLimit ==
    \A k \in Keys : \A from \in -1 .. MaxTime :
        Cardinality(Admitted(k, from, from + Window - MaxWait)) <= Limit

\* A call is refused only when as many as the limit of its own address have
\* been admitted and not refused in its window: an address that keeps trying
\* is not kept out by its own attempts (rate_limiter.go).
RefusedForCause ==
    \A c \in In("refused") :
        Cardinality({h \in In("admitted") :
            KeyOf[h] = KeyOf[c] /\ at[h] > at[c] - Window}) >= Limit
=============================================================================
