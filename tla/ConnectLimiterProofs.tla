------------------------ MODULE ConnectLimiterProofs ------------------------
(***************************************************************************)
(* For any number of calls and addresses, any limit and any window: no     *)
(* window admits more than the limit, and nobody is refused without cause. *)
(***************************************************************************)
EXTENDS ConnectLimiter, FiniteSetTheorems, TLAPS

(***************************************************************************)
(* What a window may have dropped: a call waits for the lock a bounded     *)
(* time, so what it drops is older than a window for every later call but  *)
(* for that time.  That is why the bound on the rate needs MaxWait.        *)
(***************************************************************************)
WindowInv ==
    /\ TypeOK
    /\ \A c \in Calls : at[c] =< now
    /\ \A c \in In("waiting") : now =< at[c] + MaxWait
    /\ \A k \in Keys : \A h \in hits[k] : state[h] = "admitted" /\ KeyOf[h] = k
    /\ \A h \in In("admitted") : h \in hits[KeyOf[h]] \/ at[h] =< now - Window

LEMMA InitWindow == Init => WindowInv
  BY LimiterAssumption DEF Init, WindowInv, TypeOK, In

LEMMA NextWindow == WindowInv /\ [Next]_vars => WindowInv'
  <1>. SUFFICES ASSUME WindowInv, [Next]_vars PROVE WindowInv'
    OBVIOUS
  <1>. USE LimiterAssumption DEF WindowInv, TypeOK, In, vars
  <1>1. ASSUME NEW c \in Calls, ReadClock(c) PROVE WindowInv'
    BY <1>1 DEF ReadClock
  <1>2. ASSUME NEW c \in Calls, Admit(c) PROVE WindowInv'
    BY <1>2 DEF Admit, Decide, Recent
  <1>3. ASSUME NEW c \in Calls, Refuse(c) PROVE WindowInv'
    BY <1>3 DEF Refuse, Decide, Recent
  <1>4. CASE Tick
    BY <1>4 DEF Tick
  <1>5. CASE UNCHANGED vars
    BY <1>5
  <1>. QED
    BY <1>1, <1>2, <1>3, <1>4, <1>5 DEF Next

LEMMA WindowAlways == Spec => []WindowInv
  BY InitWindow, NextWindow, PTL DEF Spec

\* Every variable of the limiter keeps its type, and a window holds calls of
\* its own address (rate_limiter.go).
THEOREM TypeCorrect == Spec => []TypeOK
  <1>1. WindowInv => TypeOK
    BY DEF WindowInv
  <1>. QED
    BY <1>1, WindowAlways, PTL

\* A set of calls is finite, and a part of it has no more members.
LEMMA SmallerPart ==
  ASSUME NEW T \in SUBSET Calls, NEW S \in SUBSET T
  PROVE  /\ IsFiniteSet(S) /\ IsFiniteSet(T)
         /\ Cardinality(S) \in Nat /\ Cardinality(T) \in Nat
         /\ Cardinality(S) =< Cardinality(T)
  BY LimiterAssumption, FS_Subset, FS_CardinalityType

\* The admitted calls of an interval after a step are those before it, and the
\* call that the step admits.
LEMMA AdmitWithinLimit ==
  ASSUME WindowInv, WithinLimit, NEW c \in Calls, Admit(c)
  PROVE  WithinLimit'
  <1>. USE LimiterAssumption DEF WindowInv, TypeOK, In
  <1>. SUFFICES ASSUME NEW k \in Keys, NEW from \in -1 .. MaxTime
                PROVE  Cardinality(Admitted(k, from, from + Window - MaxWait)') =< Limit
    BY DEF WithinLimit
  <1>. DEFINE A == Admitted(k, from, from + Window - MaxWait)
  <1>. A \in SUBSET Calls /\ A' \in SUBSET Calls
    BY DEF Admitted
  <1>1. Cardinality(A) =< Limit
    BY DEF WithinLimit
  <1>2. /\ A' \subseteq A \cup {c}
        /\ c \in A' => KeyOf[c] = k /\ at[c] > from /\ at[c] =< from + Window - MaxWait
    BY DEF Admit, Decide, Admitted
  <1>3. CASE c \notin A'
    <2>1. A' \subseteq A
      BY <1>2, <1>3
    <2>. QED
      BY <1>1, <2>1, SmallerPart
  <1>4. CASE c \in A'
    <2>1. A \subseteq Recent(c)
      BY <1>2, <1>4 DEF Admitted, Recent, Admit, Decide
    <2>2. Recent(c) \in SUBSET Calls /\ Cardinality(Recent(c)) < Limit
      BY DEF Admit, Decide, Recent
    <2>3. IsFiniteSet(Recent(c)) /\ Cardinality(Recent(c)) \in Nat
      BY <2>2, SmallerPart
    <2>4. Cardinality(Recent(c) \cup {c}) =< Cardinality(Recent(c)) + 1
      <3>1. \/ Cardinality(Recent(c) \cup {c}) = Cardinality(Recent(c))
            \/ Cardinality(Recent(c) \cup {c}) = Cardinality(Recent(c)) + 1
        BY <2>3, FS_AddElement, Zenon
      <3>. QED
        BY <2>3, <3>1
    <2>5. A' \subseteq Recent(c) \cup {c} /\ Recent(c) \cup {c} \in SUBSET Calls
      BY <1>2, <2>1, <2>2
    <2>6. /\ Cardinality(A') =< Cardinality(Recent(c) \cup {c})
          /\ Cardinality(A') \in Nat /\ Cardinality(Recent(c) \cup {c}) \in Nat
      BY <2>5, SmallerPart
    <2>. QED
      BY <2>2, <2>3, <2>4, <2>6
  <1>. QED
    BY <1>3, <1>4

LEMMA NextWithinLimit == WindowInv /\ WithinLimit /\ [Next]_vars => WithinLimit'
  <1>. SUFFICES ASSUME WindowInv, WithinLimit, [Next]_vars PROVE WithinLimit'
    OBVIOUS
  <1>1. ASSUME NEW c \in Calls, ReadClock(c) \/ Refuse(c) PROVE WithinLimit'
    <2>1. \A k \in Keys : \A from \in -1 .. MaxTime :
              Admitted(k, from, from + Window - MaxWait)' =
              Admitted(k, from, from + Window - MaxWait)
      BY <1>1 DEF ReadClock, Refuse, Decide, Admitted, In, WindowInv, TypeOK
    <2>. QED
      BY <2>1 DEF WithinLimit
  <1>2. CASE Tick \/ UNCHANGED vars
    BY <1>2 DEF Tick, vars, WithinLimit, Admitted, In
  <1>. QED
    BY <1>1, <1>2, AdmitWithinLimit DEF Next

LEMMA InitWithinLimit == Init => WithinLimit
  <1>. SUFFICES ASSUME Init PROVE WithinLimit
    OBVIOUS
  <1>1. \A k \in Keys : \A from \in -1 .. MaxTime :
            Admitted(k, from, from + Window - MaxWait) = {}
    BY DEF Init, Admitted, In
  <1>. QED
    BY <1>1, FS_EmptySet, LimiterAssumption DEF WithinLimit

\* No window admits more than the limit, for any interleaving of the calls
\* between reading the clock and taking the lock (rate_limiter.go).
THEOREM RateIsLimited == Spec => []WithinLimit
  BY InitWithinLimit, NextWithinLimit, WindowAlways, PTL DEF Spec

LEMMA NextRefused == WindowInv /\ RefusedForCause /\ [Next]_vars => RefusedForCause'
  <1>. SUFFICES ASSUME WindowInv, RefusedForCause, [Next]_vars, NEW c \in In("refused")'
                PROVE  (Cardinality({h \in In("admitted") :
                            KeyOf[h] = KeyOf[c] /\ at[h] > at[c] - Window}) >= Limit)'
    BY DEF RefusedForCause
  <1>. USE LimiterAssumption DEF WindowInv, TypeOK, In
  <1>. DEFINE S == {h \in In("admitted") : KeyOf[h] = KeyOf[c] /\ at[h] > at[c] - Window}
  <1>. S \in SUBSET Calls /\ S' \in SUBSET Calls /\ c \in Calls
    OBVIOUS
  <1>1. CASE c \in In("refused")
    <2>1. S \subseteq S'
      BY <1>1 DEF Next, vars, ReadClock, Admit, Refuse, Decide, Tick
    <2>2. Cardinality(S) >= Limit
      BY <1>1 DEF RefusedForCause
    <2>. QED
      BY <2>1, <2>2, SmallerPart
  <1>2. CASE c \notin In("refused")
    <2>1. Refuse(c)
      BY <1>2 DEF Next, vars, ReadClock, Admit, Refuse, Decide, Tick
    <2>2. Recent(c) \subseteq S' /\ Cardinality(Recent(c)) >= Limit
      BY <2>1 DEF Refuse, Decide, Recent
    <2>. QED
      BY <2>2, SmallerPart
  <1>. QED
    BY <1>1, <1>2

\* Refused attempts never count against an address (rate_limiter.go).
THEOREM RefusalsHaveCause == Spec => []RefusedForCause
  <1>1. Init => RefusedForCause
    BY DEF Init, RefusedForCause, In
  <1>. QED
    BY <1>1, NextRefused, WindowAlways, PTL DEF Spec
=============================================================================
