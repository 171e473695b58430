------------------------------ MODULE Startup ------------------------------
(***************************************************************************)
(* How processes start on one database: mqtter-server (app/app.go, New and *)
(* Run) and mqtter-migrate, several at once, each a run of its own.  All   *)
(* of them apply the migrations (storage/postgres/migrations.go), each in  *)
(* a transaction; a server then takes the broker's store and port          *)
(* (broker/server.go), sets the devices offline that an earlier server     *)
(* left online, and serves until it is stopped or dies.                    *)
(*                                                                         *)
(* The servers share one configuration, so they contend for one broker.    *)
(* Of presence the model keeps what one server can do to the rows of       *)
(* another: the status of each device and the server that has last set it. *)
(* Which connection of a device a statement is about, and whether its      *)
(* session id matches, is left open here; module Ingestion has that.       *)
(***************************************************************************)
EXTENDS Naturals, Sequences

CONSTANTS
    Servers,     \* runs of mqtter-server
    Commands,    \* runs of mqtter-migrate
    N,           \* how many migrations there are, in the order of their names
    Devices,
    None

ASSUME StartupAssumption ==
    /\ N \in Nat
    /\ None \notin Servers \cup Commands
    /\ Servers \cap Commands = {}

VARIABLES
    at,          \* where each process is
    next,        \* the migration that it has come to
    effects,     \* database: the scripts that have taken effect
    recorded,    \* database: schema_migrations
    admin,       \* database: whose password the administrator has
    row,         \* database: the status of each device; history: who set it
    broker,      \* the process that holds the broker's store and port
    connected,   \* the devices connected to it
    writing,     \* the statements about devices that the database has yet to end
    late         \* history: those whose server has ended meanwhile

migration == <<next, effects, recorded>>
presence  == <<row, connected, writing, late>>
vars      == <<at, migration, admin, broker, presence>>

Processes == Servers \cup Commands

Init ==
    /\ at = [p \in Processes |-> "new"]
    /\ next = [p \in Processes |-> 1]
    /\ effects = <<>>
    /\ recorded = {}
    /\ admin = None
    /\ row = [d \in Devices |-> [status |-> "offline", by |-> None]]
    /\ broker = None
    /\ connected = {}
    /\ writing = {}
    /\ late = {}

GoTo(p, from, to) ==
    /\ at[p] = from
    /\ at' = [at EXCEPT ![p] = to]

Start(p) ==
    /\ GoTo(p, "new", "check")
    /\ UNCHANGED <<migration, admin, broker, presence>>

\* isMigrationApplied: a version that is recorded is passed over.
Check(p) ==
    /\ next[p] <= N
    /\ \/ /\ next[p] \in recorded
          /\ GoTo(p, "check", "check")
          /\ next' = [next EXCEPT ![p] = @ + 1]
       \/ /\ next[p] \notin recorded
          /\ GoTo(p, "check", "execute")
          /\ UNCHANGED next
    /\ UNCHANGED <<effects, recorded, admin, broker, presence>>

\* A process inside its transaction, its script executed.
InTransaction(p) == at[p] \in {"record", "commit"}

\* A script creates what another transaction may be creating: it waits for
\* that one.  If that has committed, a script which has waited may be refused.
Execute(p) ==
    /\ \A q \in Processes : InTransaction(q) => next[q] # next[p]
    /\ \/ GoTo(p, "execute", "record")
       \/ next[p] \in recorded /\ GoTo(p, "execute", "lost")
    /\ UNCHANGED <<migration, admin, broker, presence>>

\* Broken variant: a version that is already recorded is taken for recorded.
RecordTwice(p) ==
    /\ GoTo(p, "record", "commit")
    /\ UNCHANGED <<migration, admin, broker, presence>>

\* The version is the primary key of schema_migrations.
Record(p) ==
    /\ next[p] \notin recorded
    /\ GoTo(p, "record", "commit")
    /\ UNCHANGED <<migration, admin, broker, presence>>

\* Broken variant: the transaction is not rolled back, and the pool that is to be
\* closed waits for its connection.
RefuseUnreleased(p) ==
    /\ next[p] \in recorded
    /\ GoTo(p, "record", "record")
    /\ UNCHANGED <<migration, admin, broker, presence>>

\* The version has been recorded since it was asked for: the process ends.
Refuse(p) ==
    /\ next[p] \in recorded
    /\ GoTo(p, "record", "lost")
    /\ UNCHANGED <<migration, admin, broker, presence>>

\* The transaction ends; the answer may be lost, and the process ends on it.
Commit(p) ==
    /\ \/ GoTo(p, "commit", "check") /\ next' = [next EXCEPT ![p] = @ + 1]
       \/ GoTo(p, "commit", "failed") /\ UNCHANGED next
    /\ effects' = Append(effects, next[p])
    /\ recorded' = recorded \cup {next[p]}
    /\ UNCHANGED <<admin, broker, presence>>

\* Broken variant: the loop over the names leaves out the last.
LeaveLast(p) ==
    /\ next[p] >= N
    /\ GoTo(p, "check", IF p \in Servers THEN "bootstrap" ELSE "partition")
    /\ UNCHANGED <<migration, admin, broker, presence>>

\* ApplyMigrations returns.
Migrated(p) ==
    /\ next[p] > N
    /\ GoTo(p, "check", IF p \in Servers THEN "bootstrap" ELSE "partition")
    /\ UNCHANGED <<migration, admin, broker, presence>>

\* mqtter-migrate: the month's partition is there, and the command ends.
EnsureMessagePartition(c) ==
    /\ GoTo(c, "partition", "migrated")
    /\ UNCHANGED <<migration, admin, broker, presence>>

BootstrapAdmin(s) ==
    /\ GoTo(s, "bootstrap", "build")
    /\ admin' = IF admin = None THEN s ELSE admin
    /\ UNCHANGED <<migration, broker, presence>>

\* NewServer: the store's lock, then the port.
TakeBroker(s) ==
    /\ broker = None
    /\ GoTo(s, "build", "reset")
    /\ broker' = s
    /\ UNCHANGED <<migration, admin, presence>>

Set(d, status, s) == row' = [row EXCEPT ![d] = [status |-> status, by |-> s]]

\* WHERE status = 'online'
SetStaleOffline(s) ==
    row' = [d \in Devices |-> IF row[d].status = "online"
                             THEN [status |-> "offline", by |-> s] ELSE row[d]]

\* Broken variant: the devices are set offline before the broker is taken.
ResetThenFindTaken(s) ==
    /\ broker # None
    /\ GoTo(s, "build", "lost")
    /\ SetStaleOffline(s)
    /\ UNCHANGED <<migration, admin, broker, connected, writing, late>>

FindTaken(s) ==
    /\ broker # None
    /\ GoTo(s, "build", "lost")
    /\ UNCHANGED <<migration, admin, broker, presence>>

MarkStaleOnline(s) ==
    /\ GoTo(s, "reset", "serve")
    /\ SetStaleOffline(s)
    /\ UNCHANGED <<migration, admin, broker, connected, writing, late>>

Serve(s) ==
    /\ GoTo(s, "serve", "up")
    /\ UNCHANGED <<migration, admin, broker, presence>>

\* A device connects, beside another connection of its own or not: the hook
\* issues the statement and waits for it, up to its deadline.
Connect(s, d) ==
    /\ at[s] = "up"
    /\ writing' = writing \cup {<<s, d, "connect">>}
    /\ UNCHANGED <<at, migration, admin, broker, row, connected, late>>

\* The statement takes effect.  The device is connected if the hook has waited.
UpsertConnected(s, d) ==
    /\ <<s, d, "connect">> \in writing
    /\ Set(d, "online", s)
    /\ writing' = writing \ {<<s, d, "connect">>}
    /\ \/ UNCHANGED connected
       \/ broker = s /\ connected' = connected \cup {d}
    /\ UNCHANGED <<at, migration, admin, broker, late>>

\* A connection of the device ends and its OnDisconnect issues the statement; the
\* one that has taken over from it may still be there.
Disconnect(s, d) ==
    /\ at[s] \in {"up", "closing"}
    /\ d \in connected
    /\ \/ at[s] = "up" /\ UNCHANGED connected
       \/ connected' = connected \ {d}
    /\ writing' = writing \cup {<<s, d, "disconnect">>}
    /\ UNCHANGED <<at, migration, admin, broker, row, late>>

\* The statement takes effect: a row with another session id it leaves alone.
MarkDisconnected(s, d) ==
    /\ <<s, d, "disconnect">> \in writing
    /\ Set(d, "offline", s) \/ UNCHANGED row
    /\ writing' = writing \ {<<s, d, "disconnect">>}
    /\ UNCHANGED <<at, migration, admin, broker, connected, late>>

\* A statement ends without effect.
StatementFails(w) ==
    /\ w \in writing
    /\ writing' = writing \ {w}
    /\ UNCHANGED <<at, migration, admin, broker, row, connected, late>>

\* A signal, or the failure of the HTTP server.
Stop(s) ==
    /\ GoTo(s, "up", "closing")
    /\ UNCHANGED <<migration, admin, broker, presence>>

\* The statements that a server leaves behind when it ends.
Leftover == {<<w[1], w[2]>> : w \in writing}

\* The broker's Close returns when its clients have gone.  A statement that was
\* given up may still be under way.
Close(s) ==
    /\ GoTo(s, "closing", "stopped")
    /\ connected = {}
    /\ broker' = None
    /\ late' = late \cup Leftover
    /\ UNCHANGED <<migration, admin, row, connected, writing>>

Ended == {"lost", "failed", "migrated", "stopped"}

\* A statement fails, its time is over, or the process dies.  The database
\* rolls its transaction back; what it has been asked it still carries out.
Fail(p) ==
    /\ at[p] \notin Ended \cup {"new"}
    /\ at' = [at EXCEPT ![p] = "failed"]
    /\ IF broker = p
       THEN /\ broker' = None
            /\ connected' = {}
            /\ late' = late \cup Leftover
       ELSE UNCHANGED <<broker, connected, late>>
    /\ UNCHANGED <<migration, admin, row, writing>>

Step(p) ==
    \/ Check(p) \/ Execute(p) \/ Record(p) \/ Refuse(p) \/ Commit(p) \/ Migrated(p)
    \/ p \in Commands /\ EnsureMessagePartition(p)
    \/ /\ p \in Servers
       /\ \/ BootstrapAdmin(p) \/ TakeBroker(p) \/ FindTaken(p)
          \/ MarkStaleOnline(p) \/ Serve(p) \/ Close(p)

Next ==
    \/ \E p \in Processes : Start(p) \/ Step(p) \/ Fail(p)
    \/ \E s \in Servers :
          \/ Stop(s)
          \/ \E d \in Devices :
                \/ Connect(s, d) \/ UpsertConnected(s, d)
                \/ Disconnect(s, d) \/ MarkDisconnected(s, d)
    \/ \E w \in writing : StatementFails(w)

Spec == Init /\ [][Next]_vars

\* A process that can go on does, and the broker, once it closes, takes leave of
\* every client.
FairSpec ==
    /\ Spec
    /\ \A p \in Processes : WF_vars(Step(p))
    /\ \A s \in Servers, d \in Devices :
          WF_vars(at[s] = "closing" /\ Disconnect(s, d))

-----------------------------------------------------------------------------
TypeOK ==
    /\ at \in [Processes -> Ended \cup
           {"new", "check", "execute", "record", "commit", "partition", "bootstrap",
            "build", "reset", "serve", "up", "closing"}]
    /\ next \in [Processes -> 1..(N + 1)]
    /\ effects \in Seq(1..N)
    /\ recorded \subseteq 1..N
    /\ admin \in Servers \cup {None}
    /\ row \in [Devices -> [status : {"online", "offline"},
                           by : Servers \cup {None}]]
    /\ broker \in Servers \cup {None}
    /\ connected \subseteq Devices
    /\ writing \subseteq Servers \X Devices \X {"connect", "disconnect"}
    /\ late \subseteq Servers \X Devices

\* Whoever migrates, and whoever dies or loses the race, each script takes
\* effect once, in order, together with its row (migrations.go).
Ledger == INSTANCE MigrationLedger WITH N <- N, effects <- effects, recorded <- recorded
LedgerSpec == Ledger!Spec

\* No server serves on tables that lack a migration (app.go, New).
ServesMigrated ==
    \A s \in Servers : at[s] \in {"bootstrap", "build", "reset", "serve", "up"} =>
        recorded = 1..N

\* While a server serves, what the rows say is its own affair: a device that is
\* shown online, or that is connected, has its status from this server, not from
\* one that starts beside it nor from one before it, unless a statement that an
\* ended server left behind has reached the row since (app.go, New and Run;
\* store.go, MarkStaleOnline).  Whether the server's own statements then tell
\* the truth is what Ingestion explains.
PresenceIsOwn ==
    \A s \in Servers : at[s] = "up" => \A d \in Devices :
        row[d].status = "online" \/ d \in connected =>
            row[d].by = s \/ <<row[d].by, d>> \in late

\* Nobody waits for ever to start, nor to stop: a process that loses lets the
\* others go on (migrations.go, app.go).
EachDecides ==
    \A p \in Processes :
        at[p] \notin Ended \cup {"new", "up"} ~> at[p] \in Ended \cup {"up"}
=============================================================================
