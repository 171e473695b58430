--------------------------- MODULE StartupProofs ---------------------------
(***************************************************************************)
(* Proofs about module Startup: its types, the ledger of the migrations,   *)
(* and that the rows are the affair of the server that serves.             *)
(***************************************************************************)
EXTENDS Startup, TLAPS

Transaction == {"execute", "record", "commit"}
Past        == {"partition", "bootstrap", "build", "reset", "serve", "up", "closing"}
Holding     == {"reset", "serve", "up", "closing"}

\* The versions up to some point are recorded, nobody has come further, and of
\* those who apply the next one only one has executed its script.
Applied ==
    /\ recorded = 1..Len(effects)
    /\ \A p \in Processes :
          /\ next[p] <= Len(effects) + 1
          /\ at[p] \in Transaction => next[p] <= N
          /\ at[p] = "commit" => next[p] \notin recorded
          /\ at[p] \in Past => next[p] = N + 1
    /\ \A p, q \in Processes :
          InTransaction(p) /\ InTransaction(q) /\ next[p] = next[q] => p = q

\* One server holds the broker; only its devices are connected, and a statement
\* that is under way is one of its own or of a server that has ended.  A server
\* that has issued one has come to serve.
Held ==
    /\ \A p \in Processes : at[p] \in Holding <=> broker = p
    /\ connected # {} => broker # None /\ at[broker] \in {"up", "closing"}
    /\ \A w \in writing : broker = w[1] \/ <<w[1], w[2]>> \in late
    /\ \A w \in writing : at[w[1]] \in {"up", "closing"} \cup Ended

\* The rows, from when they have been set offline.
Rows ==
    \A s \in Servers : at[s] \in {"serve", "up", "closing"} => \A d \in Devices :
        row[d].status = "online" \/ d \in connected =>
            row[d].by = s \/ <<row[d].by, d>> \in late

IInv == TypeOK /\ Applied /\ Held /\ Rows

-----------------------------------------------------------------------------
\* No step leaves the types (every action).
LEMMA TypeStep ==
    ASSUME TypeOK, Applied, [Next]_vars
    PROVE  TypeOK'
  <1> USE StartupAssumption DEF TypeOK, Ended, Processes, migration, presence
  <1>1. CASE UNCHANGED vars
    BY <1>1 DEF vars
  <1>2. ASSUME NEW p \in Processes, Start(p)
        PROVE  TypeOK'
    BY <1>2 DEF Start, GoTo
  <1>3. ASSUME NEW p \in Processes, Check(p)
        PROVE  TypeOK'
    <2>1. CASE next[p] \in recorded /\ next' = [next EXCEPT ![p] = @ + 1]
      BY <1>3, <2>1 DEF Check, GoTo
    <2>2. CASE UNCHANGED next
      BY <1>3, <2>2 DEF Check, GoTo
    <2> QED
      BY <1>3, <2>1, <2>2 DEF Check
  <1>4. ASSUME NEW p \in Processes, Execute(p)
        PROVE  TypeOK'
    BY <1>4 DEF Execute, GoTo, InTransaction
  <1>5. ASSUME NEW p \in Processes, Record(p)
        PROVE  TypeOK'
    BY <1>5 DEF Record, GoTo
  <1>6. ASSUME NEW p \in Processes, Refuse(p)
        PROVE  TypeOK'
    BY <1>6 DEF Refuse, GoTo
  <1>7. ASSUME NEW p \in Processes, Commit(p)
        PROVE  TypeOK'
    <2>1. next[p] \in 1..N /\ next[p] + 1 \in 1..(N + 1)
      BY <1>7 DEF Commit, GoTo, Applied, Transaction
    <2>2. effects' \in Seq(1..N) /\ recorded' \subseteq 1..N
      <3>1. effects' = Append(effects, next[p]) /\ recorded' = recorded \cup {next[p]}
        BY <1>7 DEF Commit
      <3>2. ASSUME NEW S, effects \in Seq(S), next[p] \in S
            PROVE  Append(effects, next[p]) \in Seq(S)
        BY <3>2
      <3> QED
        BY <2>1, <3>1, <3>2
    <2>3. next' \in [Processes -> 1..(N + 1)]
      BY <1>7, <2>1 DEF Commit
    <2> QED
      BY <1>7, <2>2, <2>3 DEF Commit, GoTo
  <1>8. ASSUME NEW p \in Processes, Migrated(p)
        PROVE  TypeOK'
    BY <1>8 DEF Migrated, GoTo
  <1>9. ASSUME NEW c \in Commands, EnsureMessagePartition(c)
        PROVE  TypeOK'
    BY <1>9 DEF EnsureMessagePartition, GoTo
  <1>10. ASSUME NEW s \in Servers, BootstrapAdmin(s)
        PROVE  TypeOK'
    BY <1>10 DEF BootstrapAdmin, GoTo
  <1>11. ASSUME NEW s \in Servers, TakeBroker(s)
        PROVE  TypeOK'
    BY <1>11 DEF TakeBroker, GoTo
  <1>12. ASSUME NEW s \in Servers, FindTaken(s)
        PROVE  TypeOK'
    BY <1>12 DEF FindTaken, GoTo
  <1>13. ASSUME NEW s \in Servers, MarkStaleOnline(s)
        PROVE  TypeOK'
    BY <1>13 DEF MarkStaleOnline, SetStaleOffline, GoTo
  <1>14. ASSUME NEW s \in Servers, Serve(s)
        PROVE  TypeOK'
    BY <1>14 DEF Serve, GoTo
  <1>15. ASSUME NEW s \in Servers, Close(s)
        PROVE  TypeOK'
    <2>1. Leftover \subseteq Servers \X Devices
      BY DEF Leftover
    <2> QED
      BY <1>15, <2>1 DEF Close, GoTo
  <1>16. ASSUME NEW s \in Servers, Stop(s)
        PROVE  TypeOK'
    BY <1>16 DEF Stop, GoTo
  <1>17. ASSUME NEW p \in Processes, Fail(p)
        PROVE  TypeOK'
    <2>1. Leftover \subseteq Servers \X Devices
      BY DEF Leftover
    <2> QED
      BY <1>17, <2>1 DEF Fail
  <1>18. ASSUME NEW s \in Servers, NEW d \in Devices, Connect(s, d)
        PROVE  TypeOK'
    BY <1>18 DEF Connect
  <1>19. ASSUME NEW s \in Servers, NEW d \in Devices, UpsertConnected(s, d)
        PROVE  TypeOK'
    BY <1>19 DEF UpsertConnected, Set
  <1>20. ASSUME NEW s \in Servers, NEW d \in Devices, MarkDisconnected(s, d)
        PROVE  TypeOK'
    <2>1. row' = row \/ row' = [row EXCEPT ![d] = [status |-> "offline", by |-> s]]
      BY <1>20 DEF MarkDisconnected, Set
    <2>2. row' \in [Devices -> [status : {"online", "offline"}, by : Servers \cup {None}]]
      BY <2>1
    <2> QED
      BY <1>20, <2>2 DEF MarkDisconnected
  <1>21. ASSUME NEW s \in Servers, NEW d \in Devices, Disconnect(s, d)
        PROVE  TypeOK'
    BY <1>21 DEF Disconnect
  <1>22. ASSUME NEW w \in writing, StatementFails(w)
        PROVE  TypeOK'
    BY <1>22 DEF StatementFails
  <1> QED
    BY <1>1, <1>2, <1>3, <1>4, <1>5, <1>6, <1>7, <1>8, <1>9, <1>10,
       <1>11, <1>12, <1>13, <1>14, <1>15, <1>16, <1>17, <1>18, <1>19, <1>20,
       <1>21, <1>22
    DEF Next, Step

\* What is recorded grows by the next version only, and by one process at a time
\* (migrations.go, ApplyMigrations).
LEMMA AppliedStep ==
    ASSUME TypeOK, Applied, [Next]_vars
    PROVE  Applied'
  <1> USE StartupAssumption
      DEF TypeOK, Applied, Ended, Processes, Transaction, Past, InTransaction, migration, presence
  <1>1. CASE UNCHANGED vars
    BY <1>1 DEF vars
  <1>2. ASSUME NEW p \in Processes, Start(p)
        PROVE  Applied'
    BY <1>2 DEF Start, GoTo
  <1>3. ASSUME NEW p \in Processes, Check(p)
        PROVE  Applied'
    <2>1. CASE /\ next[p] \in recorded
               /\ GoTo(p, "check", "check")
               /\ next' = [next EXCEPT ![p] = @ + 1]
      <3>1. next[p] + 1 <= Len(effects) + 1
        BY <2>1
      <3> QED
        BY <1>3, <2>1, <3>1 DEF Check, GoTo
    <2>2. CASE GoTo(p, "check", "execute") /\ UNCHANGED next
      BY <1>3, <2>2 DEF Check, GoTo
    <2> QED
      BY <1>3, <2>1, <2>2 DEF Check
  <1>4. ASSUME NEW p \in Processes, Execute(p)
        PROVE  Applied'
    BY <1>4 DEF Execute, GoTo, InTransaction
  <1>5. ASSUME NEW p \in Processes, Record(p)
        PROVE  Applied'
    BY <1>5 DEF Record, GoTo
  <1>6. ASSUME NEW p \in Processes, Refuse(p)
        PROVE  Applied'
    BY <1>6 DEF Refuse, GoTo
  <1>7. ASSUME NEW p \in Processes, Commit(p)
        PROVE  Applied'
    <2>1. at[p] = "commit" /\ next[p] = Len(effects) + 1 /\ next[p] <= N
      BY <1>7 DEF Commit, GoTo
    <2>2. Len(effects') = Len(effects) + 1 /\ recorded' = 1..Len(effects')
      BY <1>7, <2>1 DEF Commit
    <2>3. \A q \in Processes : at[q] = "commit" => q = p
      BY <2>1
    <2>4. \/ next' = [next EXCEPT ![p] = @ + 1] /\ at' = [at EXCEPT ![p] = "check"]
          \/ next' = next /\ at' = [at EXCEPT ![p] = "failed"]
      BY <1>7 DEF Commit, GoTo
    <2>5. ASSUME NEW q \in Processes
          PROVE  /\ next'[q] <= Len(effects') + 1
                 /\ at'[q] \in Transaction => next'[q] <= N
                 /\ at'[q] # "commit"
                 /\ at'[q] \in Past => next'[q] = N + 1
      <3>1. next[q] <= Len(effects) + 1 /\ Len(effects) \in Nat
        OBVIOUS
      <3>2. CASE q = p
        BY <2>1, <2>2, <2>4, <3>1, <3>2
      <3>3. CASE q # p
        <4>1. at'[q] = at[q] /\ next'[q] = next[q]
          BY <2>4, <3>3
        <4> QED
          BY <2>2, <2>3, <3>1, <3>3, <4>1
      <3> QED
        BY <3>2, <3>3
    <2>6. ASSUME NEW q \in Processes, NEW r \in Processes,
                 at'[q] \in {"record", "commit"}, at'[r] \in {"record", "commit"},
                 next'[q] = next'[r]
          PROVE  q = r
      BY <2>4, <2>6
    <2> QED
      BY <2>2, <2>5, <2>6
  <1>8. ASSUME NEW p \in Processes, Migrated(p)
        PROVE  Applied'
    BY <1>8 DEF Migrated, GoTo
  <1>9. ASSUME NEW c \in Commands, EnsureMessagePartition(c)
        PROVE  Applied'
    BY <1>9 DEF EnsureMessagePartition, GoTo
  <1>10. ASSUME NEW s \in Servers, BootstrapAdmin(s)
        PROVE  Applied'
    BY <1>10 DEF BootstrapAdmin, GoTo
  <1>11. ASSUME NEW s \in Servers, TakeBroker(s)
        PROVE  Applied'
    BY <1>11 DEF TakeBroker, GoTo
  <1>12. ASSUME NEW s \in Servers, FindTaken(s)
        PROVE  Applied'
    BY <1>12 DEF FindTaken, GoTo
  <1>13. ASSUME NEW s \in Servers, MarkStaleOnline(s)
        PROVE  Applied'
    BY <1>13 DEF MarkStaleOnline, SetStaleOffline, GoTo
  <1>14. ASSUME NEW s \in Servers, Serve(s)
        PROVE  Applied'
    BY <1>14 DEF Serve, GoTo
  <1>15. ASSUME NEW s \in Servers, Close(s)
        PROVE  Applied'
    BY <1>15 DEF Close, GoTo
  <1>16. ASSUME NEW s \in Servers, Stop(s)
        PROVE  Applied'
    BY <1>16 DEF Stop, GoTo
  <1>17. ASSUME NEW p \in Processes, Fail(p)
        PROVE  Applied'
    BY <1>17 DEF Fail
  <1>18. ASSUME NEW s \in Servers, NEW d \in Devices, Connect(s, d)
        PROVE  Applied'
    BY <1>18 DEF Connect
  <1>19. ASSUME NEW s \in Servers, NEW d \in Devices, UpsertConnected(s, d)
        PROVE  Applied'
    BY <1>19 DEF UpsertConnected, Set
  <1>20. ASSUME NEW s \in Servers, NEW d \in Devices, MarkDisconnected(s, d)
        PROVE  Applied'
    BY <1>20 DEF MarkDisconnected, Set
  <1>21. ASSUME NEW s \in Servers, NEW d \in Devices, Disconnect(s, d)
        PROVE  Applied'
    BY <1>21 DEF Disconnect
  <1>22. ASSUME NEW w \in writing, StatementFails(w)
        PROVE  Applied'
    BY <1>22 DEF StatementFails
  <1> QED
    BY <1>1, <1>2, <1>3, <1>4, <1>5, <1>6, <1>7, <1>8, <1>9, <1>10,
       <1>11, <1>12, <1>13, <1>14, <1>15, <1>16, <1>17, <1>18, <1>19, <1>20,
       <1>21, <1>22
    DEF Next, Step

\* The broker is held by one server, from NewServer until it is closed
\* (server.go, app.go).
LEMMA HeldStep ==
    ASSUME TypeOK, Held, [Next]_vars
    PROVE  Held'
  <1> USE StartupAssumption DEF TypeOK, Held, Ended, Processes, Holding, migration, presence
  <1>1. CASE UNCHANGED vars
    BY <1>1 DEF vars
  <1>2. ASSUME NEW p \in Processes, Start(p)
        PROVE  Held'
    BY <1>2 DEF Start, GoTo
  <1>3. ASSUME NEW p \in Processes, Check(p)
        PROVE  Held'
    BY <1>3 DEF Check, GoTo
  <1>4. ASSUME NEW p \in Processes, Execute(p)
        PROVE  Held'
    BY <1>4 DEF Execute, GoTo, InTransaction
  <1>5. ASSUME NEW p \in Processes, Record(p)
        PROVE  Held'
    BY <1>5 DEF Record, GoTo
  <1>6. ASSUME NEW p \in Processes, Refuse(p)
        PROVE  Held'
    BY <1>6 DEF Refuse, GoTo
  <1>7. ASSUME NEW p \in Processes, Commit(p)
        PROVE  Held'
    BY <1>7 DEF Commit, GoTo
  <1>8. ASSUME NEW p \in Processes, Migrated(p)
        PROVE  Held'
    BY <1>8 DEF Migrated, GoTo
  <1>9. ASSUME NEW c \in Commands, EnsureMessagePartition(c)
        PROVE  Held'
    BY <1>9 DEF EnsureMessagePartition, GoTo
  <1>10. ASSUME NEW s \in Servers, BootstrapAdmin(s)
        PROVE  Held'
    BY <1>10 DEF BootstrapAdmin, GoTo
  <1>11. ASSUME NEW s \in Servers, TakeBroker(s)
        PROVE  Held'
    <2>1. connected = {} /\ s # None
      BY <1>11 DEF TakeBroker
    <2>2. \A p \in Processes : at'[p] \in Holding <=> broker' = p
      BY <1>11, <2>1 DEF TakeBroker, GoTo
    <2>3. \A w \in writing' : <<w[1], w[2]>> \in late'
      BY <1>11, <2>1 DEF TakeBroker
    <2>4. ASSUME NEW w \in writing
          PROVE  at'[w[1]] \in {"up", "closing"} \cup Ended
      BY <1>11 DEF TakeBroker, GoTo
    <2>5. connected' = {} /\ writing' = writing
      BY <1>11, <2>1 DEF TakeBroker
    <2> QED
      BY <2>2, <2>3, <2>4, <2>5
  <1>12. ASSUME NEW s \in Servers, FindTaken(s)
        PROVE  Held'
    BY <1>12 DEF FindTaken, GoTo
  <1>13. ASSUME NEW s \in Servers, MarkStaleOnline(s)
        PROVE  Held'
    BY <1>13 DEF MarkStaleOnline, SetStaleOffline, GoTo
  <1>14. ASSUME NEW s \in Servers, Serve(s)
        PROVE  Held'
    BY <1>14 DEF Serve, GoTo
  <1>15. ASSUME NEW s \in Servers, Close(s)
        PROVE  Held'
    <2>1. broker = s /\ connected = {}
      BY <1>15 DEF Close, GoTo
    <2>2. \A p \in Processes : at'[p] \in Holding <=> broker' = p
      BY <1>15, <2>1 DEF Close, GoTo
    <2>3. \A w \in writing' : <<w[1], w[2]>> \in late'
      BY <1>15 DEF Close, Leftover
    <2>4. ASSUME NEW w \in writing
          PROVE  at'[w[1]] \in {"up", "closing"} \cup Ended
      BY <1>15 DEF Close, GoTo
    <2>5. connected' = {} /\ writing' = writing
      BY <1>15, <2>1 DEF Close
    <2> QED
      BY <2>2, <2>3, <2>4, <2>5
  <1>16. ASSUME NEW s \in Servers, Stop(s)
        PROVE  Held'
    BY <1>16 DEF Stop, GoTo
  <1>17. ASSUME NEW p \in Processes, Fail(p)
        PROVE  Held'
    <2>1. CASE broker = p
      <3>1. /\ broker' = None
            /\ connected' = {}
            /\ late' = late \cup Leftover
            /\ writing' = writing
            /\ at' = [at EXCEPT ![p] = "failed"]
        BY <1>17, <2>1 DEF Fail
      <3>2. \A q \in Processes : at'[q] \in Holding <=> broker' = q
        BY <2>1, <3>1
      <3>3. \A w \in writing' : <<w[1], w[2]>> \in late'
        BY <3>1 DEF Leftover
      <3> QED
        BY <3>1, <3>2, <3>3
    <2>2. CASE broker # p
      <3>1. /\ UNCHANGED <<broker, connected, late, writing>>
            /\ at' = [at EXCEPT ![p] = "failed"]
        BY <1>17, <2>2 DEF Fail
      <3>2. \A q \in Processes : at'[q] \in Holding <=> broker' = q
        BY <2>2, <3>1
      <3>3. connected' # {} => broker' # None /\ at'[broker'] \in {"up", "closing"}
        BY <2>2, <3>1
      <3> QED
        BY <3>1, <3>2, <3>3
    <2> QED
      BY <2>1, <2>2
  <1>18. ASSUME NEW s \in Servers, NEW d \in Devices, Connect(s, d)
        PROVE  Held'
    BY <1>18 DEF Connect
  <1>19. ASSUME NEW s \in Servers, NEW d \in Devices, UpsertConnected(s, d)
        PROVE  Held'
    <2>1. /\ UNCHANGED <<at, broker, late>>
          /\ writing' \subseteq writing
          /\ connected' = connected \/ broker = s
      BY <1>19 DEF UpsertConnected
    <2>2. broker = s => at[s] \in {"up", "closing"}
      <3>1. at[s] \in {"up", "closing"} \cup Ended
        BY <1>19 DEF UpsertConnected
      <3> QED
        BY <3>1
    <2>3. connected' # {} => broker' # None /\ at'[broker'] \in {"up", "closing"}
      BY <2>1, <2>2
    <2> QED
      BY <2>1, <2>3
  <1>20. ASSUME NEW s \in Servers, NEW d \in Devices, MarkDisconnected(s, d)
        PROVE  Held'
    BY <1>20 DEF MarkDisconnected, Set
  <1>21. ASSUME NEW s \in Servers, NEW d \in Devices, Disconnect(s, d)
        PROVE  Held'
    BY <1>21 DEF Disconnect
  <1>22. ASSUME NEW w \in writing, StatementFails(w)
        PROVE  Held'
    BY <1>22 DEF StatementFails
  <1> QED
    BY <1>1, <1>2, <1>3, <1>4, <1>5, <1>6, <1>7, <1>8, <1>9, <1>10,
       <1>11, <1>12, <1>13, <1>14, <1>15, <1>16, <1>17, <1>18, <1>19, <1>20,
       <1>21, <1>22
    DEF Next, Step

\* The rows stay the affair of the server that holds the broker (app.go, Run).
LEMMA RowsStep ==
    ASSUME TypeOK, Held, Rows, [Next]_vars
    PROVE  Rows'
  <1> USE StartupAssumption
      DEF TypeOK, Held, Rows, Ended, Processes, Holding, migration, presence
  <1>1. CASE UNCHANGED vars
    BY <1>1 DEF vars
  <1>2. ASSUME NEW p \in Processes, Start(p)
        PROVE  Rows'
    BY <1>2 DEF Start, GoTo
  <1>3. ASSUME NEW p \in Processes, Check(p)
        PROVE  Rows'
    BY <1>3 DEF Check, GoTo
  <1>4. ASSUME NEW p \in Processes, Execute(p)
        PROVE  Rows'
    BY <1>4 DEF Execute, GoTo, InTransaction
  <1>5. ASSUME NEW p \in Processes, Record(p)
        PROVE  Rows'
    BY <1>5 DEF Record, GoTo
  <1>6. ASSUME NEW p \in Processes, Refuse(p)
        PROVE  Rows'
    BY <1>6 DEF Refuse, GoTo
  <1>7. ASSUME NEW p \in Processes, Commit(p)
        PROVE  Rows'
    BY <1>7 DEF Commit, GoTo
  <1>8. ASSUME NEW p \in Processes, Migrated(p)
        PROVE  Rows'
    BY <1>8 DEF Migrated, GoTo
  <1>9. ASSUME NEW c \in Commands, EnsureMessagePartition(c)
        PROVE  Rows'
    BY <1>9 DEF EnsureMessagePartition, GoTo
  <1>10. ASSUME NEW s \in Servers, BootstrapAdmin(s)
        PROVE  Rows'
    BY <1>10 DEF BootstrapAdmin, GoTo
  <1>11. ASSUME NEW s \in Servers, TakeBroker(s)
        PROVE  Rows'
    BY <1>11 DEF TakeBroker, GoTo
  <1>12. ASSUME NEW s \in Servers, FindTaken(s)
        PROVE  Rows'
    BY <1>12 DEF FindTaken, GoTo
  <1>13. ASSUME NEW s \in Servers, MarkStaleOnline(s)
        PROVE  Rows'
    BY <1>13 DEF MarkStaleOnline, SetStaleOffline, GoTo
  <1>14. ASSUME NEW s \in Servers, Serve(s)
        PROVE  Rows'
    BY <1>14 DEF Serve, GoTo
  <1>15. ASSUME NEW s \in Servers, Close(s)
        PROVE  Rows'
    BY <1>15 DEF Close, GoTo
  <1>16. ASSUME NEW s \in Servers, Stop(s)
        PROVE  Rows'
    BY <1>16 DEF Stop, GoTo
  <1>17. ASSUME NEW p \in Processes, Fail(p)
        PROVE  Rows'
    BY <1>17 DEF Fail
  <1>18. ASSUME NEW s \in Servers, NEW d \in Devices, Connect(s, d)
        PROVE  Rows'
    BY <1>18 DEF Connect
  <1>19. ASSUME NEW s \in Servers, NEW d \in Devices, UpsertConnected(s, d)
        PROVE  Rows'
    <2>1. /\ at' = at /\ late' = late /\ connected' \subseteq connected \cup {d}
          /\ row' = [row EXCEPT ![d] = [status |-> "online", by |-> s]]
          /\ broker = s \/ <<s, d>> \in late
      BY <1>19 DEF UpsertConnected, Set
    <2>2. ASSUME NEW q \in Servers, at[q] \in {"serve", "up", "closing"}, NEW e \in Devices,
                 row'[e].status = "online" \/ e \in connected'
          PROVE  row'[e].by = q \/ <<row'[e].by, e>> \in late'
      <3>1. broker = q
        BY <2>2
      <3>2. CASE e = d
        BY <2>1, <3>1, <3>2
      <3>3. CASE e # d
        BY <2>1, <2>2, <3>3
      <3> QED
        BY <3>2, <3>3
    <2> QED
      BY <2>1, <2>2
  <1>20. ASSUME NEW s \in Servers, NEW d \in Devices, MarkDisconnected(s, d)
        PROVE  Rows'
    <2>1. /\ UNCHANGED <<at, late, connected>>
          /\ row' = row \/ row' = [row EXCEPT ![d] = [status |-> "offline", by |-> s]]
          /\ broker = s \/ <<s, d>> \in late
      BY <1>20 DEF MarkDisconnected, Set
    <2>2. ASSUME NEW q \in Servers, at[q] \in {"serve", "up", "closing"}, NEW e \in Devices,
                 row'[e].status = "online" \/ e \in connected
          PROVE  row'[e].by = q \/ <<row'[e].by, e>> \in late
      <3>1. broker = q
        BY <2>2
      <3>2. CASE row' = row
        BY <2>1, <2>2, <3>2
      <3>3. CASE row' = [row EXCEPT ![d] = [status |-> "offline", by |-> s]] /\ e = d
        BY <2>1, <3>1, <3>3
      <3>4. CASE row' = [row EXCEPT ![d] = [status |-> "offline", by |-> s]] /\ e # d
        BY <2>1, <2>2, <3>4
      <3> QED
        BY <2>1, <3>2, <3>3, <3>4
    <2> QED
      BY <2>1, <2>2
  <1>21. ASSUME NEW s \in Servers, NEW d \in Devices, Disconnect(s, d)
        PROVE  Rows'
    BY <1>21 DEF Disconnect
  <1>22. ASSUME NEW w \in writing, StatementFails(w)
        PROVE  Rows'
    BY <1>22 DEF StatementFails
  <1> QED
    BY <1>1, <1>2, <1>3, <1>4, <1>5, <1>6, <1>7, <1>8, <1>9, <1>10,
       <1>11, <1>12, <1>13, <1>14, <1>15, <1>16, <1>17, <1>18, <1>19, <1>20,
       <1>21, <1>22
    DEF Next, Step

\* The parts of the inductive invariant hold together.
LEMMA Inductive == Spec => []IInv
  <1>1. Init => IInv
    <2> SUFFICES ASSUME Init
                 PROVE  IInv
      OBVIOUS
    <2>1. effects \in Seq(1..N) /\ Len(effects) = 0
      BY DEF Init
    <2>2. TypeOK
      BY <2>1, StartupAssumption DEF Init, TypeOK, Ended
    <2>3. Applied
      <3>1. recorded = 1..Len(effects)
        BY <2>1 DEF Init
      <3>2. \A p \in Processes : at[p] = "new" /\ next[p] = 1
        BY DEF Init
      <3> QED
        BY <2>1, <3>1, <3>2 DEF Applied, Transaction, Past, InTransaction
    <2>4. Held /\ Rows
      <3>1. \A p \in Processes : at[p] = "new" /\ p # broker
        BY StartupAssumption DEF Init, Processes
      <3>2. connected = {} /\ writing = {}
        BY DEF Init
      <3> QED
        BY <3>1, <3>2 DEF Held, Rows, Holding, Processes
    <2> QED
      BY <2>2, <2>3, <2>4 DEF IInv
  <1>2. IInv /\ [Next]_vars => IInv'
    BY TypeStep, AppliedStep, HeldStep, RowsStep DEF IInv
  <1> QED
    BY <1>1, <1>2, PTL DEF Spec

\* Every variable of a start keeps its type (app.go, migrations.go).
THEOREM TypeCorrect == Spec => []TypeOK
  <1>1. IInv => TypeOK
    BY DEF IInv
  <1> QED
    BY <1>1, Inductive, PTL

\* A server that serves does so on all migrations (app.go, New).
THEOREM ServedAreMigrated == Spec => []ServesMigrated
  <1>1. IInv => ServesMigrated
    <2> SUFFICES ASSUME IInv, NEW s \in Servers,
                        at[s] \in {"bootstrap", "build", "reset", "serve", "up"}
                 PROVE  recorded = 1..N
      BY DEF ServesMigrated
    <2>1. N <= Len(effects)
      BY StartupAssumption DEF IInv, TypeOK, Applied, Past, Processes
    <2>2. recorded \subseteq 1..N /\ recorded = 1..Len(effects)
      BY DEF IInv, TypeOK, Applied
    <2> QED
      <3>1. Len(effects) \in Nat /\ N \in Nat
        BY StartupAssumption DEF IInv, TypeOK
      <3>2. 1..N \subseteq 1..Len(effects)
        BY <2>1, <3>1
      <3> QED
        BY <2>2, <3>2
  <1> QED
    BY <1>1, Inductive, PTL

\* While a server serves, no other one decides what the rows say of a device that
\* is connected or shown online, but for statements that an ended server has left
\* behind (app.go, New and Run).
THEOREM PresenceStaysOwn == Spec => []PresenceIsOwn
  <1>1. IInv => PresenceIsOwn
    BY DEF IInv, Rows, PresenceIsOwn
  <1> QED
    BY <1>1, Inductive, PTL

\* A step is an entry in the ledger of migrations, or leaves it alone.
LEMMA LedgerStep ==
    ASSUME IInv, [Next]_vars
    PROVE  [Ledger!Apply]_(Ledger!vars)
  <1> USE DEF Ledger!vars, migration, presence
  <1>1. CASE UNCHANGED vars
    BY <1>1 DEF vars
  <1>2. ASSUME NEW p \in Processes, Commit(p)
        PROVE  Ledger!Apply
    <2>1. next[p] = Len(effects) + 1 /\ next[p] <= N
      BY <1>2, StartupAssumption
      DEF Commit, GoTo, IInv, TypeOK, Applied, Transaction
    <2> QED
      BY <1>2, <2>1, StartupAssumption DEF Commit, Ledger!Apply, IInv, TypeOK
  <1>3. ASSUME NEW p \in Processes, Start(p) \/ Step(p) \/ Fail(p), ~Commit(p)
        PROVE  UNCHANGED <<effects, recorded>>
    BY <1>3
    DEF Start, Step, Fail, Check, Execute, Record, Refuse, Migrated, EnsureMessagePartition,
        BootstrapAdmin, TakeBroker, FindTaken, MarkStaleOnline, Serve, Close
  <1>4. ASSUME NEW s \in Servers, NEW d \in Devices,
               \/ Connect(s, d) \/ UpsertConnected(s, d)
               \/ Disconnect(s, d) \/ MarkDisconnected(s, d)
        PROVE  UNCHANGED <<effects, recorded>>
    BY <1>4 DEF Connect, UpsertConnected, Disconnect, MarkDisconnected
  <1>5. ASSUME NEW s \in Servers, Stop(s)
        PROVE  UNCHANGED <<effects, recorded>>
    BY <1>5 DEF Stop
  <1>6. ASSUME NEW w \in writing, StatementFails(w)
        PROVE  UNCHANGED <<effects, recorded>>
    BY <1>6 DEF StatementFails
  <1> QED
    BY <1>1, <1>2, <1>3, <1>4, <1>5, <1>6 DEF Next

\* The database implements the ledger of migrations (migrations.go).
THEOREM LedgerImplemented == Spec => LedgerSpec
  <1>1. Init => Ledger!Init
    BY DEF Init, Ledger!Init
  <1>2. IInv /\ [Next]_vars => [Ledger!Apply]_(Ledger!vars)
    BY LedgerStep
  <1> QED
    BY <1>1, <1>2, Inductive, PTL DEF Spec, LedgerSpec, Ledger!Spec
=============================================================================
