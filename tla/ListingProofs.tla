---------------------------- MODULE ListingProofs ----------------------------
(***************************************************************************)
(* What reading page by page shows and misses, for any finite table, any   *)
(* page sizes and limits, and any number of changes between two pages.     *)
(*                                                                         *)
(* A row that no other listed row shares its time with has one place in    *)
(* every order that a query may return: after those above it, one by one   *)
(* (Place).  So a page shows it when the rows above it fill the pages      *)
(* before and not this one as well (OnPage), and how many there are above  *)
(* it shrinks only when it is raised and grows only when it is lowered.    *)
(***************************************************************************)
EXTENDS Listing, FiniteSetTheorems, TLAPS

L == Listed(time, now)

\* How many of the listed rows stand above one.
Ahead(r) == Cardinality(Above(r, time, now))

TypeOK ==
    /\ list \in Lists
    /\ now \in Nat
    /\ time \in [Rows -> Nat \cup {Absent}]
    /\ page \in Nat /\ size \in Int
    /\ got \in [Rows -> Nat]
    /\ throughout \subseteq L

\* A row that is not tied shares its time with none.
Untied ==
    \A r \in throughout \ tied : \A q \in L \ {r} : time[q] # time[r]

\* A row that has been shown, and not lowered since, stands before the page that
\* comes next.
ShownIsBehind ==
    \A r \in throughout \ tied :
        r \notin lowered /\ got[r] > 0 =>
            /\ got[r] = 1
            /\ page # 0 => Ahead(r) < Offset(page, size)

\* A row that has not been shown, and not raised, is still to come.
UnshownIsAhead ==
    \A r \in throughout \ tied :
        r \notin raised /\ got[r] = 0 =>
            /\ page # 0
            /\ Ahead(r) >= Offset(page, size)

\* Where rows neither move nor leave, none is raised: one that drops out of a
\* query's range is older than those that it stood above.
NoneRaised == ~list.moves /\ ~list.leaves => raised = {}

IInv ==
    /\ TypeOK
    /\ Untied
    /\ ShownIsBehind
    /\ UnshownIsAhead
    /\ NoneRaised

-----------------------------------------------------------------------------
(***************************************************************************)
(* Pages.                                                                  *)
(***************************************************************************)
\* The rows of a table that a query finds are finitely many, each with a time.
LEMMA ListedRows ==
    ASSUME NEW tm \in [Rows -> Nat \cup {Absent}], NEW t \in Nat
    PROVE  /\ Listed(tm, t) \subseteq Rows /\ IsFiniteSet(Listed(tm, t))
           /\ Cardinality(Listed(tm, t)) \in Nat
           /\ \A q \in Listed(tm, t) : tm[q] \in Nat
  <1>1. Listed(tm, t) \subseteq Rows /\ \A q \in Listed(tm, t) : tm[q] \in Nat
    BY DEF Listed
  <1>. QED BY <1>1, ListingAssumption, FS_Subset, FS_CardinalityType
           DEF ListingAssumption

\* So are those above a row; fewer of them are a smaller number.
LEMMA RowsAbove ==
    ASSUME NEW tm \in [Rows -> Nat \cup {Absent}], NEW t \in Nat, NEW r
    PROVE  /\ Above(r, tm, t) \subseteq Rows /\ IsFiniteSet(Above(r, tm, t))
           /\ Cardinality(Above(r, tm, t)) \in Nat
           /\ \A S \in SUBSET Above(r, tm, t) :
                 Cardinality(S) <= Cardinality(Above(r, tm, t))
  <1>1. Above(r, tm, t) \subseteq Rows
    BY DEF Above, Listed
  <1>2. IsFiniteSet(Above(r, tm, t))
    BY <1>1, ListingAssumption, FS_Subset DEF ListingAssumption
  <1>3. Cardinality(Above(r, tm, t)) \in Nat
    BY <1>2, FS_CardinalityType
  <1>4. \A S \in SUBSET Above(r, tm, t) :
            Cardinality(S) <= Cardinality(Above(r, tm, t))
    BY <1>2, FS_Subset
  <1>. QED BY <1>1, <1>2, <1>3, <1>4

\* So many numbers there are from one to another.
LEMMA HowMany ==
    ASSUME NEW a \in Int, NEW b \in Int, a <= b + 1
    PROVE  IsFiniteSet(a .. b) /\ Cardinality(a .. b) = b - a + 1
  <1>1. IsFiniteSet(a .. b) /\ Cardinality(a .. b) = IF a > b THEN 0 ELSE b - a + 1
    BY FS_Interval
  <1>. QED BY <1>1

\* A page begins where the one before it ends.
LEMMA PagesAdjoin ==
    ASSUME NEW p \in Nat, p > 0, NEW s \in Int
    PROVE  /\ NormalizePage(p, s).size \in Nat \ {0}
           /\ Offset(p, s) \in Nat
           /\ Offset(p + 1, s) = Offset(p, s) + NormalizePage(p, s).size
  <1>. DEFINE z == NormalizePage(p, s).size
  <1>1. z \in Nat \ {0}
    BY ListingAssumption DEF ListingAssumption, NormalizePage
  <1>2. /\ NormalizePage(p, s).page = p /\ NormalizePage(p + 1, s).page = p + 1
        /\ NormalizePage(p + 1, s).size = z
    BY DEF NormalizePage
  <1>3. Offset(p, s) = (p - 1) * z /\ Offset(p + 1, s) = ((p + 1) - 1) * z
    BY <1>2 DEF Offset
  <1>. HIDE DEF z
  <1>4. (p - 1) * z \in Nat /\ ((p + 1) - 1) * z = (p - 1) * z + z
    <2>1. \A k \in Nat : k * z \in Nat /\ (k + 1) * z = k * z + z
      BY <1>1
    <2>2. p - 1 \in Nat /\ (p - 1) + 1 = (p + 1) - 1
      OBVIOUS
    <2>. QED BY <2>1, <2>2
  <1>. QED BY <1>1, <1>3, <1>4 DEF z

\* An order goes through the listed rows, each once.
LEMMA OrderIsBijection ==
    ASSUME TypeOK, NEW o \in Orders
    PROVE  /\ Cardinality(L) \in Nat
           /\ o \in [1 .. Cardinality(L) -> L]
           /\ \A i, j \in 1 .. Cardinality(L) : i # j => o[i] # o[j]
           /\ \A q \in L : \E i \in 1 .. Cardinality(L) : o[i] = q
           /\ \A i, j \in 1 .. Cardinality(L) : i < j => time[o[i]] >= time[o[j]]
  <1>. DEFINE n == Cardinality(L)
  <1>1. n \in Nat /\ IsFiniteSet(L)
    BY ListedRows DEF TypeOK, L
  <1>2. /\ o \in [1 .. n -> L]
        /\ \A i, j \in 1 .. n : i # j => o[i] # o[j]
        /\ \A i, j \in DOMAIN o : i < j => time[o[i]] >= time[o[j]]
    BY DEF Orders, SetToSeqs, L
  <1>3. o \in Injection(1 .. n, L)
    BY <1>2 DEF Injection, IsInjective
  <1>4. Cardinality(1 .. n) = n
    BY <1>1, FS_Interval
  <1>5. o \in Surjection(1 .. n, L)
    BY <1>1, <1>3, <1>4, FS_Injection
  <1>6. \A q \in L : \E i \in 1 .. n : o[i] = q
    BY <1>5 DEF Surjection
  <1>. QED BY <1>1, <1>2, <1>6

\* Where a row stands that shares its time with none: after those above it.
LEMMA Place ==
    ASSUME TypeOK, NEW o \in Orders, NEW r \in L,
           \A q \in L \ {r} : time[q] # time[r]
    PROVE  /\ Ahead(r) \in Nat /\ Ahead(r) + 1 \in 1 .. Cardinality(L)
           /\ o[Ahead(r) + 1] = r
  <1>. DEFINE n == Cardinality(L)
  <1>1. PICK k \in 1 .. n : o[k] = r
    BY OrderIsBijection
  <1>2. n \in Nat /\ k \in Nat /\ 1 <= k /\ k - 1 \in Int
    BY OrderIsBijection
  <1>3. \A q \in L : time[q] \in Nat
    BY ListedRows DEF TypeOK, L
  <1>. DEFINE f == [i \in 1 .. k - 1 |-> o[i]]
              A == Above(r, time, now)
  <1>4. \A i \in 1 .. k - 1 : o[i] \in A
    <2>. SUFFICES ASSUME NEW i \in 1 .. k - 1
         PROVE  o[i] \in A
      OBVIOUS
    <2>1. i \in 1 .. n /\ i < k /\ o[i] \in L /\ o[i] # r
      BY <1>1, <1>2, OrderIsBijection
    <2>2. time[o[i]] >= time[r] /\ time[o[i]] # time[r]
      BY <1>1, <2>1, OrderIsBijection
    <2>. QED BY <1>3, <2>1, <2>2 DEF Above, L
  <1>5. \A q \in A : \E i \in 1 .. k - 1 : o[i] = q
    <2>. SUFFICES ASSUME NEW q \in A
         PROVE  \E i \in 1 .. k - 1 : o[i] = q
      OBVIOUS
    <2>1. q \in L /\ time[q] > time[r]
      BY DEF Above, L
    <2>2. PICK i \in 1 .. n : o[i] = q
      BY <2>1, OrderIsBijection
    <2>3. ~(k < i) /\ i # k
      BY <1>1, <1>3, <2>1, <2>2, OrderIsBijection
    <2>. QED BY <1>2, <2>2, <2>3
  <1>6. f \in Bijection(1 .. k - 1, A)
    <2>1. f \in [1 .. k - 1 -> A]
      BY <1>4
    <2>2. \A i, j \in 1 .. k - 1 : i # j => f[i] # f[j]
      BY <1>2, OrderIsBijection
    <2>3. \A q \in A : \E i \in 1 .. k - 1 : f[i] = q
      BY <1>5
    <2>. QED BY <2>1, <2>2, <2>3 DEF Bijection, Injection, Surjection, IsInjective
  <1>7. IsFiniteSet(1 .. k - 1) /\ Cardinality(1 .. k - 1) = k - 1
    <2>1. 1 <= (k - 1) + 1 /\ (k - 1) - 1 + 1 = k - 1
      BY <1>2
    <2>2. IsFiniteSet(1 .. k - 1) /\ Cardinality(1 .. k - 1) = (k - 1) - 1 + 1
      BY <1>2, <2>1, HowMany
    <2>. QED BY <2>1, <2>2
  <1>8. Cardinality(A) = k - 1
    BY <1>6, <1>7, FS_Bijection DEF ExistsBijection
  <1>. QED BY <1>1, <1>2, <1>8 DEF Ahead

\* So a page shows it when those above it fill the pages before, and leave room.
LEMMA OnPage ==
    ASSUME TypeOK, page > 0, NEW o \in Orders, NEW r \in L,
           \A q \in L \ {r} : time[q] # time[r]
    PROVE  r \in Page(o, page, size) <=>
               /\ Offset(page, size) <= Ahead(r)
               /\ Ahead(r) < Offset(page, size) + NormalizePage(page, size).size
  <1>. DEFINE n == Cardinality(L)
              z == NormalizePage(page, size).size
  <1>1. /\ Ahead(r) \in Nat /\ Ahead(r) + 1 \in 1 .. n /\ o[Ahead(r) + 1] = r
        /\ \A i \in 1 .. n : o[i] = r => i = Ahead(r) + 1
    BY Place, OrderIsBijection
  <1>2. Offset(page, size) \in Nat /\ z \in Nat
    BY PagesAdjoin DEF TypeOK
  <1>3. DOMAIN o = 1 .. n
    BY OrderIsBijection
  <1>4. r \in Page(o, page, size) <=>
            \E i \in 1 .. n : Offset(page, size) < i /\ i <= Offset(page, size) + z
                              /\ o[i] = r
    BY <1>3 DEF Page
  <1>. HIDE DEF n, z
  <1>5. r \in Page(o, page, size) <=>
            /\ Offset(page, size) < Ahead(r) + 1
            /\ Ahead(r) + 1 <= Offset(page, size) + z
    BY <1>1, <1>4
  <1>. QED BY <1>1, <1>2, <1>5 DEF z

\* A page is full when the rows reach to its end.
LEMMA PageIsFull ==
    ASSUME TypeOK, page > 0, NEW o \in Orders,
           Offset(page, size) + NormalizePage(page, size).size <= Cardinality(L)
    PROVE  Cardinality(Page(o, page, size)) = NormalizePage(page, size).size
  <1>. DEFINE n == Cardinality(L)
              z == NormalizePage(page, size).size
              from == Offset(page, size)
              f == [i \in from + 1 .. from + z |-> o[i]]
              items == Page(o, page, size)
  <1>1. from \in Nat /\ z \in Nat /\ n \in Nat /\ from + z <= n
    BY PagesAdjoin, OrderIsBijection DEF TypeOK
  <1>2. \A i : (i \in 1 .. n /\ from < i /\ i <= from + z) <=> i \in from + 1 .. from + z
    BY <1>1
  <1>3. items = {o[i] : i \in from + 1 .. from + z}
    BY <1>2, OrderIsBijection DEF Page
  <1>4. \A i, j \in from + 1 .. from + z : i # j => o[i] # o[j]
    BY <1>2, OrderIsBijection
  <1>5. f \in Bijection(from + 1 .. from + z, items)
    BY <1>3, <1>4 DEF Bijection, Injection, Surjection, IsInjective
  <1>6. /\ IsFiniteSet(from + 1 .. from + z)
        /\ Cardinality(from + 1 .. from + z) = z
    <2>1. /\ from + 1 \in Int /\ from + z \in Int /\ from + 1 <= (from + z) + 1
          /\ (from + z) - (from + 1) + 1 = z
      BY <1>1
    <2>. HIDE DEF from, z
    <2>2. /\ IsFiniteSet(from + 1 .. from + z)
          /\ Cardinality(from + 1 .. from + z) = (from + z) - (from + 1) + 1
      BY <2>1, HowMany
    <2>. QED BY <2>1, <2>2
  <1>. QED BY <1>5, <1>6, FS_Bijection DEF ExistsBijection

-----------------------------------------------------------------------------
(***************************************************************************)
(* The steps.                                                              *)
(***************************************************************************)
\* The client begins with the first page, and nothing has happened.
LEMMA InitIInv == Init => IInv
  <1>. SUFFICES ASSUME Init PROVE IInv
    OBVIOUS
  <1>1. TypeOK
    BY ListingAssumption DEF ListingAssumption, Init, TypeOK, L
  <1>2. Offset(page, size) = 0
    <2>1. \A k \in Nat : 0 * k = 0
      OBVIOUS
    <2>2. NormalizePage(1, size).size \in Nat
      BY <1>1, PagesAdjoin DEF TypeOK
    <2>. QED BY <2>1, <2>2 DEF Init, Offset, NormalizePage
  <1>3. \A r : Ahead(r) \in Nat
    BY <1>1, RowsAbove DEF TypeOK, Ahead
  <1>4. Untied
    BY <1>1 DEF Init, Untied, L
  <1>5. ShownIsBehind /\ UnshownIsAhead /\ NoneRaised
    BY <1>1, <1>2, <1>3 DEF Init, TypeOK, L, Listed, ShownIsBehind,
                            UnshownIsAhead, NoneRaised
  <1>. QED BY <1>1, <1>4, <1>5 DEF IInv

\* The next page takes those rows from the unshown to the shown that stand
\* between its ends.
LEMMA ReadKeeps == ASSUME IInv, Read PROVE IInv'
  <1>. DEFINE z == NormalizePage(page, size).size
  <1>1. PICK o \in Orders :
            /\ got' = [r \in Rows |-> IF r \in Page(o, page, size)
                                      THEN got[r] + 1 ELSE got[r]]
            /\ page' = IF Cardinality(Page(o, page, size)) < z THEN 0 ELSE page + 1
    BY DEF Read
  <1>2. /\ page > 0
        /\ UNCHANGED <<list, now, time, size, throughout, raised, lowered, tied>>
        /\ L' = L /\ \A r : Ahead(r)' = Ahead(r)
    BY DEF Read, table, past, L, Ahead, Listed, Above
  <1>3. TypeOK
    BY DEF IInv
  <1>4. TypeOK'
    BY <1>1, <1>2, <1>3 DEF TypeOK
  <1>5. /\ page \in Nat /\ size \in Int
        /\ z \in Nat \ {0} /\ Offset(page, size) \in Nat
        /\ Offset(page + 1, size) = Offset(page, size) + z
    BY <1>2, <1>3, PagesAdjoin DEF TypeOK
  <1>6. ASSUME NEW r \in throughout \ tied
        PROVE  /\ r \in Rows /\ r \in L /\ got[r] \in Nat
               /\ Ahead(r) \in Nat /\ Ahead(r) + 1 <= Cardinality(L)
               /\ r \in Page(o, page, size) <=>
                      /\ Offset(page, size) <= Ahead(r)
                      /\ Ahead(r) < Offset(page, size) + z
    <2>1. r \in L /\ r \in Rows /\ got[r] \in Nat
      BY <1>3 DEF TypeOK, L, Listed
    <2>2. \A q \in L \ {r} : time[q] # time[r]
      BY DEF IInv, Untied
    <2>3. Ahead(r) \in Nat /\ Ahead(r) + 1 <= Cardinality(L)
      BY <1>3, <2>1, <2>2, Place, OrderIsBijection
    <2>. QED BY <1>2, <1>3, <2>1, <2>2, <2>3, OnPage
  <1>. HIDE DEF z
  <1>7. ShownIsBehind'
    <2>. SUFFICES ASSUME NEW r \in throughout \ tied, r \notin lowered, got'[r] > 0
         PROVE  got'[r] = 1 /\ (page' # 0 => Ahead(r) < Offset(page', size))
      BY <1>2 DEF ShownIsBehind
    <2>1. got[r] > 0 => got[r] = 1 /\ Ahead(r) < Offset(page, size)
      BY <1>2, <1>5, <1>6 DEF IInv, ShownIsBehind
    <2>2. got'[r] = IF r \in Page(o, page, size) THEN got[r] + 1 ELSE got[r]
      BY <1>1, <1>6
    <2>3. got'[r] = 1 /\ Ahead(r) < Offset(page, size) + z
      BY <1>5, <1>6, <2>1, <2>2
    <2>4. page' # 0 => page' = page + 1
      BY <1>1
    <2>. QED BY <1>5, <2>3, <2>4
  <1>8. UnshownIsAhead'
    <2>. SUFFICES ASSUME NEW r \in throughout \ tied, r \notin raised, got'[r] = 0
         PROVE  page' # 0 /\ Ahead(r) >= Offset(page', size)
      BY <1>2 DEF UnshownIsAhead
    <2>1. r \notin Page(o, page, size) /\ got[r] = 0
      BY <1>1, <1>6
    <2>2. Ahead(r) >= Offset(page, size) + z
      BY <1>5, <1>6, <2>1 DEF IInv, UnshownIsAhead
    <2>3. Offset(page, size) + z <= Cardinality(L)
      <3>1. Cardinality(L) \in Nat
        BY <1>3, OrderIsBijection
      <3>. QED BY <1>5, <1>6, <2>2, <3>1
    <2>4. Cardinality(Page(o, page, size)) = z
      BY <1>2, <1>3, <2>3, PageIsFull DEF z
    <2>5. page' = page + 1
      BY <1>1, <1>5, <2>4
    <2>. QED BY <1>5, <2>2, <2>5
  <1>9. Untied' /\ NoneRaised'
    BY <1>2 DEF IInv, Untied, NoneRaised
  <1>. QED BY <1>4, <1>7, <1>8, <1>9 DEF IInv

\* A change of the table moves a row only past those that it is noticed to pass.
LEMMA ChangeKeeps ==
    ASSUME IInv, NEW tm \in [Rows -> Nat \cup {Absent}], NEW t \in Nat, Change(tm, t)
    PROVE  TypeOK' /\ Untied' /\ ShownIsBehind' /\ UnshownIsAhead'
  <1>1. /\ time' = tm /\ now' = t /\ UNCHANGED <<list, page, size, got>>
        /\ Notice
    BY DEF Change, client
  <1>2. TypeOK
    BY DEF IInv
  <1>3. /\ L' = Listed(time', now')
        /\ \A r : Ahead(r)' = Cardinality(Above(r, time', now'))
    <2>1. list' = list
      BY <1>1
    <2>. QED BY <2>1 DEF L, Ahead, Above, Listed
  <1>4. /\ throughout' = throughout \cap L' /\ throughout \subseteq L
        /\ TypeOK'
    <2>1. throughout' = throughout \cap L'
      BY <1>1, <1>3 DEF Notice
    <2>. QED BY <1>1, <1>2, <2>1 DEF TypeOK
  <1>5. Untied'
    <2>. SUFFICES ASSUME NEW r \in throughout' \ tied', NEW q \in L' \ {r}
         PROVE  time'[q] # time'[r]
      BY DEF Untied
    <2>1. tied' = tied \cup {s \in L' : \E p \in L' \ {s} : time'[p] = time'[s]}
      BY <1>1, <1>3 DEF Notice
    <2>. QED BY <1>4, <2>1
  <1>6. /\ throughout' \ tied' \subseteq throughout \ tied
        /\ lowered \subseteq lowered' /\ raised \subseteq raised'
    BY <1>1, <1>4 DEF Notice
  <1>7. \A r : /\ Ahead(r) \in Nat /\ Ahead(r)' \in Nat
               /\ Above(r, time', now') \subseteq Above(r, time, now)
                  => Ahead(r)' <= Ahead(r)
               /\ Above(r, time, now) \subseteq Above(r, time', now')
                  => Ahead(r) <= Ahead(r)'
    <2>. SUFFICES ASSUME NEW r
         PROVE  /\ Ahead(r) \in Nat /\ Ahead(r)' \in Nat
                /\ Above(r, time', now') \subseteq Above(r, time, now)
                   => Ahead(r)' <= Ahead(r)
                /\ Above(r, time, now) \subseteq Above(r, time', now')
                   => Ahead(r) <= Ahead(r)'
      OBVIOUS
    <2>1. time' \in [Rows -> Nat \cup {Absent}] /\ now' \in Nat
      BY <1>4 DEF TypeOK
    <2>. QED BY <1>2, <1>3, <2>1, RowsAbove DEF TypeOK, Ahead
  <1>8. \A r \in throughout' :
            /\ r \notin lowered' => Ahead(r)' <= Ahead(r)
            /\ r \notin raised' => Ahead(r) <= Ahead(r)'
    <2>. SUFFICES ASSUME NEW r \in throughout'
         PROVE  /\ r \notin lowered' => Ahead(r)' <= Ahead(r)
                /\ r \notin raised' => Ahead(r) <= Ahead(r)'
      OBVIOUS
    <2>1. r \in Listed(time, now) \cap Listed(time', now')
      BY <1>3, <1>4 DEF L
    <2>2. /\ r \notin lowered' =>
                 Above(r, time', now') \subseteq Above(r, time, now)
          /\ r \notin raised' =>
                 Above(r, time, now) \subseteq Above(r, time', now')
      BY <1>1, <2>1 DEF Notice
    <2>. QED BY <1>7, <2>2
  <1>9. Offset(page, size) \in Nat /\ Offset(page', size') = Offset(page, size)
    BY <1>1, <1>2, PagesAdjoin DEF TypeOK, Change
  <1>10. ShownIsBehind'
    BY <1>1, <1>6, <1>7, <1>8, <1>9 DEF IInv, ShownIsBehind
  <1>11. UnshownIsAhead'
    BY <1>1, <1>6, <1>7, <1>8, <1>9 DEF IInv, UnshownIsAhead
  <1>. QED BY <1>4, <1>5, <1>10, <1>11

\* In a list whose rows neither move nor leave, the rows above one stay: nobody
\* rewrites them, and a range that moves past them has moved past it.
LEMMA NoneRaisedKeeps ==
    ASSUME IInv, ~list.moves, ~list.leaves,
           Tick \/ \E r \in Rows : Insert(r) \/ Touch(r) \/ Leave(r)
    PROVE  raised' = {}
  <1>1. TypeOK /\ raised = {}
    BY DEF IInv, NoneRaised
  <1>2. /\ Notice /\ list' = list
        /\ now' \in Nat /\ now <= now'
        /\ \A q \in Rows : time[q] # Absent => time'[q] = time[q]
        /\ now' = now \/ time' = time
    <2>1. CASE Tick
      BY <1>1, <2>1 DEF Tick, Change, TypeOK
    <2>2. ASSUME NEW r \in Rows, Insert(r)
          PROVE  /\ Notice /\ list' = list /\ now' = now
                 /\ \A q \in Rows : time[q] # Absent => time'[q] = time[q]
      BY <1>1, <2>2 DEF Insert, Change, TypeOK
    <2>3. Tick \/ \E r \in Rows : Insert(r)
      BY DEF Touch, Leave
    <2>4. now \in Nat
      BY <1>1 DEF TypeOK
    <2>. QED BY <2>1, <2>2, <2>3, <2>4
  <1>3. ASSUME NEW r \in Listed(time, now) \cap Listed(time', now'),
               NEW q \in Above(r, time, now)
        PROVE  q \in Above(r, time', now')
    <2>1. /\ r \in Rows
          /\ q \in Rows /\ time[q] # Absent /\ time[q] > time[r]
          /\ list.range => now <= time[q] + Day
          /\ list.range => now' <= time'[r] + Day
          /\ time[r] # Absent
      BY <1>2 DEF Listed, Above
    <2>2. /\ time'[r] = time[r] /\ time'[q] = time[q]
          /\ time[r] \in Nat /\ time[q] \in Nat /\ Day \in Nat
      BY <1>1, <1>2, <2>1, ListingAssumption DEF TypeOK, ListingAssumption
    <2>3. list.range => now' <= time'[q] + Day
      BY <1>1, <1>2, <2>1, <2>2 DEF TypeOK
    <2>. QED BY <1>2, <2>1, <2>2, <2>3 DEF Above, Listed
  <1>. QED BY <1>1, <1>2, <1>3 DEF Notice

\* Every step keeps what is known of the rows.
LEMMA StepKeeps == IInv /\ [Next]_vars => IInv'
  <1>. SUFFICES ASSUME IInv, [Next]_vars PROVE IInv'
    OBVIOUS
  <1>1. TypeOK
    BY DEF IInv
  <1>2. CASE Read
    BY <1>2, ReadKeeps
  <1>3. CASE Tick \/ \E r \in Rows : Insert(r) \/ Touch(r) \/ Leave(r)
    <2>1. \E tm \in [Rows -> Nat \cup {Absent}], t \in Nat : Change(tm, t)
      <3>1. CASE Tick
        BY <1>1, <3>1 DEF Tick, TypeOK
      <3>2. ASSUME NEW r \in Rows, NEW t \in 1 .. now \cup {Absent}
            PROVE  /\ [time EXCEPT ![r] = t] \in [Rows -> Nat \cup {Absent}]
                   /\ now \in Nat
        BY <1>1 DEF TypeOK
      <3>. QED BY <1>3, <3>1, <3>2 DEF Insert, Touch, Leave
    <2>2. TypeOK' /\ Untied' /\ ShownIsBehind' /\ UnshownIsAhead' /\ list' = list
      BY <2>1, ChangeKeeps DEF Change
    <2>3. NoneRaised'
      BY <1>3, <2>2, NoneRaisedKeeps DEF NoneRaised
    <2>. QED BY <2>2, <2>3 DEF IInv
  <1>4. CASE UNCHANGED vars
    BY <1>4 DEF IInv, vars, table, client, past, TypeOK, Untied, ShownIsBehind,
                UnshownIsAhead, NoneRaised, L, Ahead, Listed, Above
  <1>. QED BY <1>2, <1>3, <1>4 DEF Next

\* IInv is an inductive invariant of reading a list while it changes.
THEOREM Inductive == Spec => []IInv
  BY InitIInv, StepKeeps, PTL DEF Spec

\* A row that stood in the list throughout and that no page has shown was raised,
\* or tied; in a list whose rows neither move nor leave, only tied (store.go,
\* ORDER BY, LIMIT and OFFSET).
THEOREM MissesAreExplained == Spec => []MissedExplained
  <1>1. IInv => MissedExplained
    <2>. SUFFICES ASSUME IInv, page = 0, NEW r \in throughout, got[r] = 0
         PROVE  r \in tied \/ (r \in raised /\ (list.moves \/ list.leaves))
      BY DEF MissedExplained
    <2>. QED BY DEF IInv, UnshownIsAhead, NoneRaised
  <1>. QED BY <1>1, Inductive, PTL

\* A row that two pages show was lowered meanwhile, or tied (store.go, ORDER BY,
\* LIMIT and OFFSET).
THEOREM RepeatsAreExplained == Spec => []RepeatsExplained
  <1>1. IInv => RepeatsExplained
    <2>. SUFFICES ASSUME IInv, NEW r \in throughout, got[r] > 1
         PROVE  r \in lowered \cup tied
      BY DEF RepeatsExplained
    <2>1. got[r] \in Nat
      BY DEF IInv, TypeOK, L, Listed
    <2>. QED BY <2>1 DEF IInv, ShownIsBehind
  <1>. QED BY <1>1, Inductive, PTL
=============================================================================
