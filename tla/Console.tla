------------------------------ MODULE Console ------------------------------
(***************************************************************************)
(* The requests of the console that change something: log-in and log-out   *)
(* (service/auth.go), a device's type (service/device.go) and quick        *)
(* actions (service/quick_action.go), behind requireAuth (api/router.go),  *)
(* on the tables of storage/postgres/store.go.  Each statement is a step,  *)
(* so that what a request has read may be changed before it is used; the   *)
(* transaction that changes a type holds its row with SELECT ... FOR       *)
(* UPDATE.  A request that fails validation changes nothing and is not     *)
(* begun here.  Publishing an action is PublishService.Publish: module     *)
(* Publishing; here it is one step, which takes place or fails.            *)
(***************************************************************************)
EXTENDS Sequences

CONSTANTS
    Requests,     \* HTTP requests
    Tokens,       \* session tokens; each is made once
    Devices,
    Types,
    Infrared,     \* domain.InfraredControllerType
    Names,        \* names of quick actions
    Contents,     \* what an action publishes
    Seed,         \* id of an action that exists at first
    None          \* no row, no lock, nothing read

ASSUME ConsoleAssumption ==
    /\ Infrared \in Types
    /\ Seed \notin Requests
    /\ None \notin Requests \cup Types

VARIABLES
    session,      \* admin_sessions: the row of each token
    type,         \* devices.type
    changes,      \* device_type_changes, in the order of the commits
    actions,      \* quick_actions: the row of each device and name
    lock,         \* the transaction that holds each device's row
    at,           \* where each request is
    token,        \* its cookie
    op,           \* what it asks for
    read,         \* what its handler has read and not yet used
    sent,         \* what it has had published
    abandoned,    \* the requests whose last statement is still under way
                  \* although they have been answered with an error
    seen          \* history: what has been the case since each began

tables  == <<session, type, changes, actions, lock>>
request == <<at, token, op, read, sent, abandoned>>
vars    == <<tables, request, seen>>

\* A new row's id is that of the request that makes it.
Ids == Requests \cup {Seed}
Row == [id : Ids, device : Devices, content : Contents]

Ops ==
    {[kind |-> "login"], [kind |-> "logout"]}
        \cup [kind : {"change"}, device : Devices, type : Types]
        \cup [kind : {"create"}, device : Devices, name : Names, content : Contents]
        \cup [kind : {"delete", "execute"}, id : Ids]

Rows == {row \in Row : \E key \in Devices \X Names : actions[key] = row}

Found(id) == {row \in Rows : row.id = id}

Init ==
    /\ session \in [Tokens -> {"absent", "live"}]
    /\ type \in [Devices -> Types]
    /\ changes = <<>>
    /\ \/ actions = [key \in Devices \X Names |-> None]
       \/ \E key \in Devices \X Names, c \in Contents :
              actions = [k \in Devices \X Names |->
                  IF k = key THEN [id |-> Seed, device |-> key[1], content |-> c] ELSE None]
    /\ lock = [d \in Devices |-> None]
    /\ at = [r \in Requests |-> "new"]
    /\ token = [r \in Requests |-> None]
    /\ op = [r \in Requests |-> None]
    /\ read = [r \in Requests |-> None]
    /\ sent = [r \in Requests |-> None]
    /\ abandoned = {}
    /\ seen = [r \in Requests |-> [live |-> FALSE, rows |-> {}, infrared |-> {}]]

GoTo(r, from, to) ==
    /\ at[r] = from
    /\ at' = [at EXCEPT ![r] = to]
    /\ UNCHANGED <<token, op, abandoned>>

\* POST /auth/login is outside requireAuth; every other request goes through it.
Begin(r) ==
    \E o \in Ops, t \in Tokens :
        /\ at[r] = "new"
        /\ at' = [at EXCEPT ![r] = IF o.kind = "login" THEN "login" ELSE "auth"]
        /\ op' = [op EXCEPT ![r] = o]
        /\ token' = [token EXCEPT ![r] = t]
        /\ UNCHANGED <<tables, read, sent, abandoned>>

\* A log-in with the right password: a token that has not been used.
Login(r) ==
    /\ GoTo(r, "login", "done")
    /\ \E t \in Tokens :
          /\ session[t] = "absent"
          /\ session' = [session EXCEPT ![t] = "live"]
    /\ UNCHANGED <<type, changes, actions, lock, read, sent>>

RequireAuth(r) ==
    /\ GoTo(r, "auth", op[r].kind)
    /\ session[token[r]] = "live"
    /\ UNCHANGED <<tables, read, sent>>

Logout(r) ==
    /\ GoTo(r, "logout", "done")
    /\ session' = [session EXCEPT ![token[r]] = "deleted"]
    /\ UNCHANGED <<type, changes, actions, lock, read, sent>>

\* Broken variant: the old type is read without locking the row.
ReadType(r) ==
    /\ GoTo(r, "change", "changing")
    /\ read' = [read EXCEPT ![r] = type[op[r].device]]
    /\ UNCHANGED <<tables, sent>>

\* SELECT type FROM devices ... FOR UPDATE
LockType(r) ==
    /\ GoTo(r, "change", "changing")
    /\ lock[op[r].device] = None
    /\ lock' = [lock EXCEPT ![op[r].device] = r]
    /\ read' = [read EXCEPT ![r] = type[op[r].device]]
    /\ UNCHANGED <<session, type, changes, actions, sent>>

\* The rows that the end of a request's transaction lets go.
Released(r) == [d \in Devices |-> IF lock[d] = r THEN None ELSE lock[d]]

\* UPDATE devices and INSERT INTO device_type_changes, committed.  The entries
\* are in the order of the commits.  Their ids are drawn with the INSERT, so that
\* those of two devices may be in another; a device's own are in this one, since
\* its row is locked from before the INSERT to the commit.
ChangeDeviceType(r) ==
    /\ GoTo(r, "changing", "done")
    /\ type' = [type EXCEPT ![op[r].device] = op[r].type]
    /\ changes' = Append(changes,
           [device |-> op[r].device, old |-> read[r], new |-> op[r].type])
    /\ lock' = Released(r)
    /\ UNCHANGED <<session, actions, read, sent>>

\* Creating an action: the device's type is read, then the row is written over
\* the one with its device and name, which keeps its id.  A new row refers to
\* its device's, so the statement waits for whoever holds that one.
CheckDevice(r) ==
    /\ GoTo(r, "create", "creating")
    /\ type[op[r].device] = Infrared
    /\ UNCHANGED <<tables, read, sent>>

Key(r) == <<op[r].device, op[r].name>>

CreateQuickAction(r) ==
    /\ GoTo(r, "creating", "done")
    /\ actions[Key(r)] = None => lock[op[r].device] = None
    /\ actions' = [actions EXCEPT ![Key(r)] =
           [id |-> IF @ = None THEN r ELSE @.id,
            device |-> op[r].device, content |-> op[r].content]]
    /\ UNCHANGED <<session, type, changes, lock, read, sent>>

DeleteQuickAction(r) ==
    /\ GoTo(r, "delete", "done")
    /\ actions' = [key \in Devices \X Names |->
           IF actions[key] \in Found(op[r].id) THEN None ELSE actions[key]]
    /\ UNCHANGED <<session, type, changes, lock, read, sent>>

GetQuickAction(r) ==
    /\ GoTo(r, "execute", "got")
    /\ \E row \in Found(op[r].id) : read' = [read EXCEPT ![r] = row]
    /\ UNCHANGED <<tables, sent>>

\* Broken variant: the type is checked when the action is created only.
GetAnyDevice(r) ==
    /\ GoTo(r, "got", "publish")
    /\ UNCHANGED <<tables, read, sent>>

GetDevice(r) ==
    /\ GoTo(r, "got", "publish")
    /\ type[read[r].device] = Infrared
    /\ UNCHANGED <<tables, read, sent>>

Publish(r) ==
    /\ GoTo(r, "publish", "done")
    /\ sent' = [sent EXCEPT ![r] = read[r]]
    /\ UNCHANGED <<tables, read>>

\* The last statement of a request, and all that a request may be doing.
Last == {"login", "logout", "changing", "creating", "delete"}
Open == Last \cup {"auth", "change", "create", "execute", "got", "publish"}

\* Broken variant: the transaction of a request that fails is not rolled back.
FailUnreleased(r) ==
    /\ at[r] \in Open
    /\ GoTo(r, at[r], "failed")
    /\ UNCHANGED <<tables, read, sent>>

\* A condition is not met, a statement fails, or the client leaves and with it
\* the context: the request is answered with an error, its transaction undone.
Fail(r) ==
    /\ at[r] \in Open
    /\ GoTo(r, at[r], "failed")
    /\ lock' = Released(r)
    /\ UNCHANGED <<session, type, changes, actions, read, sent>>

\* A session's time is over.  Its row stays.
Expire(t) ==
    /\ session[t] = "live"
    /\ session' = [session EXCEPT ![t] = "expired"]
    /\ UNCHANGED <<type, changes, actions, lock, request>>

\* The client has left: the request is over, but what has been sent to the
\* database, or to the broker, may still take place, or be undone (Fail).
Abandon(r) ==
    /\ at[r] \in Last \cup {"publish"}
    /\ r \notin abandoned
    /\ abandoned' = abandoned \cup {r}
    /\ UNCHANGED <<tables, at, token, op, read, sent>>

\* The process dies.  The database ends what it was asked last.
Crash ==
    /\ \E r \in Requests : at[r] \in Open
    /\ at' = [r \in Requests |-> IF at[r] \in Open \ Last THEN "failed" ELSE at[r]]
    /\ abandoned' = abandoned \cup {r \in Requests : at[r] \in Last}
    /\ UNCHANGED <<tables, token, op, read, sent>>

Serve(r) ==
    \/ Begin(r) \/ Login(r) \/ RequireAuth(r) \/ Logout(r)
    \/ LockType(r) \/ ChangeDeviceType(r)
    \/ CheckDevice(r) \/ CreateQuickAction(r) \/ DeleteQuickAction(r)
    \/ GetQuickAction(r) \/ GetDevice(r) \/ Publish(r)

\* History: a request takes note of the rows from when it has begun.
Notice ==
    seen' = [r \in Requests |->
        IF at'[r] = "new" THEN seen[r]
        ELSE [live     |-> seen[r].live \/ session'[token'[r]] = "live",
              rows     |-> seen[r].rows \cup Rows',
              infrared |-> seen[r].infrared \cup {d \in Devices : type'[d] = Infrared}]]

Next ==
    /\ \/ \E r \in Requests : Serve(r) \/ Fail(r) \/ Abandon(r)
       \/ \E t \in Tokens : Expire(t)
       \/ Crash
    /\ Notice

Spec == Init /\ [][Next]_vars

\* A request that can go on does; the database fails one whose condition is not
\* met, but nothing says that it fails one that waits for a lock.
Waits(r) ==
    /\ \/ at[r] = "change"
       \/ at[r] = "creating" /\ actions[Key(r)] = None
    /\ lock[op[r].device] # None

Refused(r) == ~Waits(r) /\ Fail(r)

FairSpec ==
    Spec /\ \A r \in Requests : WF_vars((Serve(r) \/ Refused(r)) /\ Notice)

-----------------------------------------------------------------------------
TypeOK ==
    /\ session \in [Tokens -> {"absent", "live", "expired", "deleted"}]
    /\ type \in [Devices -> Types]
    /\ changes \in Seq([device : Devices, old : Types, new : Types])
    /\ actions \in [Devices \X Names -> Row \cup {None}]
    /\ lock \in [Devices -> Requests \cup {None}]
    /\ at \in [Requests -> Open \cup {"new", "done", "failed"}]
    /\ token \in [Requests -> Tokens \cup {None}]
    /\ op \in [Requests -> Ops \cup {None}]
    /\ abandoned \subseteq Requests
    /\ read \in [Requests -> Row \cup Types \cup {None}]
    /\ sent \in [Requests -> Row \cup {None}]
    /\ seen \in [Requests -> [live : BOOLEAN, rows : SUBSET Row, infrared : SUBSET Devices]]

\* The type of a device and the history of its changes agree, however many
\* requests change it at once and wherever one fails (store.go).
Ledger == INSTANCE TypeLedger WITH type <- type, ledger <- changes
LedgerSpec == Ledger!Spec

\* What is published is an action that was stored, for a device that was an
\* infrared controller, on a session that was live, at some moment of the very
\* request: none of the three is remembered from before it (quick_action.go,
\* auth.go).
SentAsOfRequest ==
    \A r \in Requests : sent[r] # None =>
        /\ seen[r].live
        /\ sent[r] \in seen[r].rows
        /\ sent[r].device \in seen[r].infrared

\* Every request is answered: one that fails lets go of the device's row, and
\* does not leave the next one waiting for it (store.go).
Answered == \A r \in Requests : at[r] # "new" ~> at[r] \in {"done", "failed"}
=============================================================================
