----------------------------- MODULE Ingestion -----------------------------
(***************************************************************************)
(* The synchronous ingestion path of the broker: the hook that the MQTT    *)
(* library calls (internal/broker/hook.go), the service behind it          *)
(* (internal/service/ingestor.go), the rows of `devices`,                  *)
(* `observed_topics`, `mqtt_messages` and `system_alerts` that it writes   *)
(* (internal/storage/postgres/store.go), and the start-up reset of stale   *)
(* presence (internal/app/app.go).                                         *)
(*                                                                         *)
(* The hooks of one connection run one after the other on the goroutine    *)
(* that reads it; connections run concurrently, two of them possibly with  *)
(* the same client id.  A hook call writes one statement (or transaction)  *)
(* and waits for the answer; between the two the statement takes effect,   *)
(* and a statement whose deadline passes, or whose process dies, may still *)
(* take effect afterwards.  A connection is used once and stands for the   *)
(* random session id that OnConnect draws for it.                          *)
(***************************************************************************)
EXTENDS Naturals, FiniteSets

CONSTANTS
    Conns,       \* network connections, each with its own session id
    Clients,     \* MQTT client ids
    ClientOf,    \* the client id a connection presents
    Malformed,   \* the client ids that ValidateClientID refuses
    Filters,     \* topic filters a client may subscribe to
    MaxPublish,  \* bound: PUBLISH packets per connection
    V5,          \* the connections that speak MQTT 5
    QoS1,        \* the packets of QoS 1; the others are of QoS 0
    Unsupported, \* the packets whose payload ValidateTextPayload refuses
    Faults,      \* what the database may do: "error", "timeout", "alert_error"
    None         \* the empty session id

\* A PUBLISH packet is named by its connection and its number on it.
Packets       == Conns \X (1 .. MaxPublish)
Subscriptions == Clients \X Filters

ASSUME IngestionAssumption ==
    /\ ClientOf \in [Conns -> Clients]
    /\ Malformed \subseteq Clients
    /\ MaxPublish \in Nat
    /\ V5 \subseteq Conns
    /\ QoS1 \subseteq Packets
    /\ Unsupported \subseteq Packets
    /\ Faults \subseteq {"error", "timeout", "alert_error"}
    /\ None \notin Conns

VARIABLES
    up,         \* the process is serving
    pc,         \* where each connection is in its life
    call,       \* the ingestion hook call each connection is in
    sessions,   \* Hook.sessions: the connections with a session id
    published,  \* PUBLISH packets each connection has sent (bounded)
    device,     \* rows of devices: status and session_id
    topics,     \* rows of observed_topics of kind subscribe_filter
    stored,     \* rows of mqtt_messages
    alerts,     \* level of the row of system_alerts with each code
    late,       \* abandoned statements that may still take effect
    routed,     \* publications the library delivered to subscribers
    granted,    \* subscriptions the library made
    holder,     \* history: whose connect was the last to reach the row
    causes      \* history: what has disturbed the row since then

process  == <<up, pc, call, sessions, published>>
database == <<device, topics, stored, alerts, late>>
broker   == <<routed, granted>>
history  == <<holder, causes>>
vars     == <<process, database, broker, history>>

Ops == {"connect", "subscribe", "publish", "disconnect"}

AlertCode ==
    [connect    |-> "device_connect_failed",
     subscribe  |-> "subscription_record_failed",
     publish    |-> "publish_persist_failed",
     disconnect |-> "device_disconnect_record_failed"]

AlertCodes == {AlertCode[op] : op \in Ops} \cup {"stale_online_devices"}

Idle == [op |-> "none", arg |-> {}, session |-> None, stage |-> "idle"]

\* OnPublish rejects a packet of QoS 0 that it has not persisted.  For one of
\* QoS 1 it returns an MQTT 5 reason code, which the library obeys only on a
\* connection that speaks MQTT 5: on any other it logs the error and routes on.
Unheeded == {p \in QoS1 : p[1] \notin V5}

Live == {"connecting", "accepted", "open", "dropped"}

Init ==
    /\ up = TRUE
    /\ pc = [c \in Conns |-> "new"]
    /\ call = [c \in Conns |-> Idle]
    /\ sessions = {}
    /\ published = [c \in Conns |-> 0]
    /\ device = [d \in Clients |-> [status |-> "absent", session |-> None]]
    /\ topics = {}
    /\ stored = {}
    /\ alerts = [a \in AlertCodes |-> "none"]
    /\ late = {}
    /\ routed = {}
    /\ granted = {}
    /\ holder = [d \in Clients |-> None]
    /\ causes = [d \in Clients |-> {}]

(***************************************************************************)
(* Entering a hook.                                                        *)
(***************************************************************************)
SessionID(c) == IF c \in sessions THEN c ELSE None

Ready(c, state) == up /\ pc[c] = state /\ call[c] = Idle

Send(c, op, arg, session) ==
    call' = [call EXCEPT ![c] =
                [op |-> op, arg |-> arg, session |-> session, stage |-> "sent"]]

\* The limiter turns the connection away before it gets a session id.
OnConnectBusy(c) ==
    /\ Ready(c, "new")
    /\ pc' = [pc EXCEPT ![c] = "refused"]
    /\ UNCHANGED <<up, call, sessions, published, database, broker, history>>

\* The session id is registered before the client id is looked at, and
\* nothing takes it back when the connection is then refused.
OnConnectInvalid(c) ==
    /\ Ready(c, "new")
    /\ ClientOf[c] \in Malformed
    /\ sessions' = sessions \cup {c}
    /\ pc' = [pc EXCEPT ![c] = "refused"]
    /\ UNCHANGED <<up, call, published, database, broker, history>>

OnConnect(c) ==
    /\ Ready(c, "new")
    /\ ClientOf[c] \notin Malformed
    /\ sessions' = sessions \cup {c}
    /\ pc' = [pc EXCEPT ![c] = "connecting"]
    /\ Send(c, "connect", {}, c)
    /\ UNCHANGED <<up, published, database, broker, history>>

\* A filter or topic that fails validation makes OnSubscribe and OnPublish leave
\* before the first statement, the packet rejected: a stuttering step.
OnSubscribe(c) ==
    /\ Ready(c, "open")
    /\ \E fs \in SUBSET Filters \ {{}} :
          Send(c, "subscribe", {ClientOf[c]} \X fs, SessionID(c))
    /\ UNCHANGED <<up, pc, sessions, published, database, broker, history>>

OnPublish(c) ==
    /\ Ready(c, "open")
    /\ published[c] < MaxPublish
    /\ <<c, published[c] + 1>> \notin Unsupported
    /\ published' = [published EXCEPT ![c] = @ + 1]
    /\ Send(c, "publish", {<<c, published[c] + 1>>}, SessionID(c))
    /\ UNCHANGED <<up, pc, sessions, database, broker, history>>

\* A payload that is too large or is not text: no statement and no alert.
OnPublishRefused(c) ==
    /\ Ready(c, "open")
    /\ published[c] < MaxPublish
    /\ <<c, published[c] + 1>> \in Unsupported
    /\ published' = [published EXCEPT ![c] = @ + 1]
    /\ routed' = routed \cup ({<<c, published[c] + 1>>} \cap Unheeded)
    /\ UNCHANGED <<up, pc, call, sessions, database, granted, history>>

OnDisconnect(c) ==
    /\ Ready(c, "dropped")
    /\ Send(c, "disconnect", {}, SessionID(c))
    /\ UNCHANGED <<up, pc, sessions, published, database, broker, history>>

(***************************************************************************)
(* A statement takes effect in the database.                               *)
(***************************************************************************)
Statement(c) ==
    [op |-> call[c].op, conn |-> c, arg |-> call[c].arg,
     session |-> call[c].session]

UpsertConnected(s) ==
    LET d == ClientOf[s.conn] IN
    /\ device' = [device EXCEPT ![d] =
                     [status |-> "online", session |-> s.session]]
    /\ holder' = [holder EXCEPT ![d] = s.conn]
    /\ causes' = [causes EXCEPT ![d] =
                     IF s \in late THEN {"orphan_connect"} ELSE {}]
    /\ UNCHANGED <<topics, stored>>

\* An existing row takes the session id of whoever writes, and keeps its
\* status.
EnsureDevice(s) ==
    LET d == ClientOf[s.conn] IN
    /\ device' = [device EXCEPT ![d] =
                     [status |-> IF @.status = "absent" THEN "online"
                                                        ELSE @.status,
                      session |-> s.session]]
    /\ causes' = [causes EXCEPT ![d] =
                     IF holder[d] = s.conn THEN @ ELSE @ \cup {"stale_write"}]
    /\ UNCHANGED holder

RecordSubscription(s) ==
    /\ EnsureDevice(s)
    /\ topics' = topics \cup s.arg
    /\ UNCHANGED stored

PersistPublish(s) ==
    /\ EnsureDevice(s)
    /\ stored' = stored \cup s.arg
    /\ UNCHANGED topics

\* Broken variant: the session id is not compared.
OwnsRowByClient(d, session) == device[d].status # "absent"

\* WHERE client_id = $1 AND ($3 = '' OR session_id = $3)
OwnsRow(d, session) ==
    /\ device[d].status # "absent"
    /\ session = None \/ device[d].session = session

MarkDisconnected(s) ==
    LET d == ClientOf[s.conn] IN
    /\ device' = IF OwnsRow(d, s.session)
                 THEN [device EXCEPT ![d].status = "offline"]
                 ELSE device
    /\ UNCHANGED <<topics, stored, history>>

Execute(s) ==
    \/ s.op = "connect"    /\ UpsertConnected(s)
    \/ s.op = "subscribe"  /\ RecordSubscription(s)
    \/ s.op = "publish"    /\ PersistPublish(s)
    \/ s.op = "disconnect" /\ MarkDisconnected(s)

Land(c) ==
    /\ call[c].stage = "sent"
    /\ Execute(Statement(c))
    /\ call' = [call EXCEPT ![c].stage = "applied"]
    /\ UNCHANGED <<up, pc, sessions, published, alerts, late, broker>>

LateLand(s) ==
    /\ s \in late
    /\ Execute(s)
    /\ late' = late \ {s}
    /\ UNCHANGED <<process, alerts, broker>>

LateAbort(s) ==
    /\ s \in late
    /\ late' = late \ {s}
    /\ UNCHANGED <<process, device, topics, stored, alerts, broker, history>>

(***************************************************************************)
(* The answer, and what the hook does with it.                             *)
(***************************************************************************)
\* Broken variant: nothing is ever taken out of Hook.sessions.
LeaveKeepingSession(c, next) ==
    /\ call' = [call EXCEPT ![c] = Idle]
    /\ pc' = [pc EXCEPT ![c] = next]
    /\ UNCHANGED sessions

\* OnDisconnect drops the session id whether or not the row was updated.
Leave(c, next) ==
    /\ call' = [call EXCEPT ![c] = Idle]
    /\ pc' = [pc EXCEPT ![c] = next]
    /\ sessions' = IF call[c].op = "disconnect" THEN sessions \ {c}
                                                ELSE sessions

\* Broken variant: the hook lets the packet through whatever its write returned.
ReturnIgnoringError(c) ==
    /\ call[c].stage \in {"applied", "failed", "expired"}
    /\ Leave(c, CASE call[c].op = "connect"    -> "accepted"
                  [] call[c].op = "disconnect" -> "closed"
                  [] OTHER                     -> pc[c])
    /\ routed' = IF call[c].op = "publish" THEN routed \cup call[c].arg
                                           ELSE routed
    /\ granted' = IF call[c].op = "subscribe" THEN granted \cup call[c].arg
                                              ELSE granted
    /\ UNCHANGED <<up, published, database, history>>

Return(c) ==
    /\ call[c].stage = "applied"
    /\ Leave(c, CASE call[c].op = "connect"    -> "accepted"
                  [] call[c].op = "disconnect" -> "closed"
                  [] OTHER                     -> pc[c])
    /\ routed' = IF call[c].op = "publish" THEN routed \cup call[c].arg
                                           ELSE routed
    /\ granted' = IF call[c].op = "subscribe" THEN granted \cup call[c].arg
                                              ELSE granted
    /\ UNCHANGED <<up, published, database, history>>

\* Broken variant: MarkDisconnected runs without a deadline.
FaultUnlessDisconnect(c, kind) ==
    /\ kind \in Faults \cap {"error", "timeout"}
    /\ call[c].stage \in {"sent", "applied"}
    /\ call[c].op = "disconnect" => kind = "error"
    /\ call' = [call EXCEPT ![c].stage =
                   IF kind = "timeout" THEN "expired" ELSE "failed"]
    /\ late' = IF call[c].stage = "sent" THEN late \cup {Statement(c)} ELSE late
    /\ UNCHANGED <<up, pc, sessions, published, device, topics, stored, alerts,
                   broker, history>>

\* The call ends with an error: the statement's own, or the deadline's.  One
\* that has not taken effect yet is abandoned, not undone.
Fault(c, kind) ==
    /\ kind \in Faults \cap {"error", "timeout"}
    /\ call[c].stage \in {"sent", "applied"}
    /\ call' = [call EXCEPT ![c].stage =
                   IF kind = "timeout" THEN "expired" ELSE "failed"]
    /\ late' = IF call[c].stage = "sent" THEN late \cup {Statement(c)} ELSE late
    /\ causes' = [causes EXCEPT ![ClientOf[c]] =
          @ \cup (IF call[c].op = "connect" /\ call[c].stage = "applied"
                  THEN {"orphan_connect"} ELSE {})
            \cup (IF call[c].op = "disconnect" /\ call[c].stage = "sent"
                  THEN {"lost_disconnect"} ELSE {})]
    /\ UNCHANGED <<up, pc, sessions, published, device, topics, stored, alerts,
                   broker, holder>>

AlertLevel(c) ==
    IF call[c].stage = "expired" /\ call[c].op # "disconnect"
    THEN "critical" ELSE "warning"

\* What becomes of a packet that has not been persisted.
RouteUnheeded(c) ==
    /\ routed' = IF call[c].op = "publish"
                 THEN routed \cup (call[c].arg \cap Unheeded) ELSE routed
    /\ UNCHANGED granted

\* Broken variant: a disconnect that could not be recorded is tried again.
GiveUpOrRetry(c) ==
    /\ Leave(c, IF call[c].op = "connect" THEN "refused" ELSE pc[c])
    /\ RouteUnheeded(c)

GiveUp(c) ==
    /\ Leave(c, CASE call[c].op = "connect"    -> "refused"
                  [] call[c].op = "disconnect" -> "closed"
                  [] OTHER                     -> pc[c])
    /\ RouteUnheeded(c)

\* Broken variant: only an expired deadline raises an alert.
RaiseOnlyOverload(c) ==
    /\ call[c].stage \in {"failed", "expired"}
    /\ alerts' = IF call[c].stage = "expired"
                 THEN [alerts EXCEPT ![AlertCode[call[c].op]] = AlertLevel(c)]
                 ELSE alerts
    /\ GiveUp(c)
    /\ UNCHANGED <<up, published, device, topics, stored, late, history>>

\* withBackpressure raises its alert with a context that never expires;
\* MarkDisconnected raises it with the one its own statement has used up.
RaiseOk(c) ==
    /\ call[c].stage \in {"failed", "expired"}
    /\ ~(call[c].op = "disconnect" /\ call[c].stage = "expired")
    /\ alerts' = [alerts EXCEPT ![AlertCode[call[c].op]] = AlertLevel(c)]
    /\ GiveUp(c)
    /\ UNCHANGED <<up, published, device, topics, stored, late, history>>

RaiseFail(c) ==
    /\ call[c].stage \in {"failed", "expired"}
    /\ \/ "alert_error" \in Faults
       \/ call[c].op = "disconnect" /\ "timeout" \in Faults
    /\ GiveUp(c)
    /\ UNCHANGED <<up, published, database, history>>

(***************************************************************************)
(* The library around the hooks.                                           *)
(***************************************************************************)
\* An accepted connection takes over from the one its client id had.
TakeOver(c, next) ==
    pc' = [x \in Conns |->
              IF x = c THEN next
              ELSE IF ClientOf[x] = ClientOf[c] /\ pc[x] = "open"
                   THEN "dropped" ELSE pc[x]]

Establish(c) ==
    /\ Ready(c, "accepted")
    /\ TakeOver(c, "open")
    /\ causes' = [causes EXCEPT ![ClientOf[c]] =
                     IF holder[ClientOf[c]] = c THEN @
                                                ELSE @ \cup {"crossed_connect"}]
    /\ UNCHANGED <<up, call, sessions, published, database, broker, holder>>

\* The CONNACK cannot be sent: the client has left, or another connection has
\* taken over in the meantime.  The library does not read from the connection
\* and never calls OnDisconnect for it.
ConnackFails(c) ==
    /\ Ready(c, "accepted")
    /\ TakeOver(c, "unanswered")
    /\ causes' = [causes EXCEPT ![ClientOf[c]] =
                     IF holder[ClientOf[c]] = c THEN @ \cup {"lost_connack"}
                                                ELSE @]
    /\ UNCHANGED <<up, call, sessions, published, database, broker, holder>>

\* The peer leaves, the network fails, or the server is shut down.
Drop(c) ==
    /\ up /\ pc[c] = "open"
    /\ pc' = [pc EXCEPT ![c] = "dropped"]
    /\ UNCHANGED <<up, call, sessions, published, database, broker, history>>

Crash ==
    /\ up
    /\ up' = FALSE
    /\ pc' = [c \in Conns |-> IF pc[c] \in Live THEN "closed" ELSE pc[c]]
    /\ call' = [c \in Conns |-> Idle]
    /\ sessions' = {}
    /\ late' = late \cup
                 {Statement(c) : c \in {x \in Conns : call[x].stage = "sent"}}
    /\ UNCHANGED <<published, device, topics, stored, alerts, broker, history>>

\* Broken variant: the broker serves without the reset.
ServeUnreset ==
    /\ ~up
    /\ up' = TRUE
    /\ holder' = [d \in Clients |-> None]
    /\ causes' = [d \in Clients |-> {}]
    /\ UNCHANGED <<pc, call, sessions, published, database, broker>>

\* Run resets presence before the broker serves.  A reset that fails ends Run:
\* the process stays down, a stuttering step.
MarkStaleOnline ==
    /\ ~up
    /\ up' = TRUE
    /\ device' = [d \in Clients |->
                     IF device[d].status = "online"
                     THEN [device[d] EXCEPT !.status = "stale_offline"]
                     ELSE device[d]]
    /\ LET raised == [alerts EXCEPT !["stale_online_devices"] = "warning"] IN
          IF \A d \in Clients : device[d].status # "online"
          THEN alerts' = alerts
          ELSE alerts' \in {raised} \cup
                           (IF "alert_error" \in Faults THEN {alerts} ELSE {})
    /\ holder' = [d \in Clients |-> None]
    /\ causes' = [d \in Clients |-> {}]
    /\ UNCHANGED <<pc, call, sessions, published, topics, stored, late, broker>>

Hooks(c) ==
    \/ OnConnectBusy(c) \/ OnConnectInvalid(c) \/ OnConnect(c)
    \/ OnSubscribe(c) \/ OnPublish(c) \/ OnPublishRefused(c) \/ OnDisconnect(c)

Answers(c) == Return(c) \/ \E kind \in Faults : Fault(c, kind)

Next ==
    \/ \E c \in Conns :
          \/ Hooks(c) \/ Land(c) \/ Answers(c)
          \/ RaiseOk(c) \/ RaiseFail(c)
          \/ Establish(c) \/ ConnackFails(c) \/ Drop(c)
    \/ \E s \in late : LateLand(s) \/ LateAbort(s)
    \/ Crash
    \/ MarkStaleOnline

Spec == Init /\ [][Next]_vars

\* The deadline of a call ends it whatever the database does, the library calls
\* OnDisconnect when a connection's read loop ends, and an alert gets an answer.
\* A connection whose CONNACK failed never had a read loop.
FairSpec ==
    /\ Spec
    /\ \A c \in Conns :
          /\ WF_vars(OnDisconnect(c))
          /\ WF_vars(Return(c) \/ Fault(c, "timeout"))
          /\ WF_vars(RaiseOk(c) \/ RaiseFail(c))

(***************************************************************************)
(* Properties.                                                             *)
(***************************************************************************)
Statements ==
    [op : Ops, conn : Conns, arg : SUBSET (Packets \cup Subscriptions),
     session : Conns \cup {None}]

Calls ==
    [op : Ops, arg : SUBSET (Packets \cup Subscriptions),
     session : Conns \cup {None},
     stage : {"sent", "applied", "failed", "expired"}] \cup {Idle}

\* Every variable keeps its type: hook.go, ingestor.go, store.go.
TypeOK ==
    /\ up \in BOOLEAN
    /\ pc \in [Conns -> {"new", "connecting", "accepted", "open", "dropped",
                         "closed", "refused", "unanswered"}]
    /\ call \in [Conns -> Calls]
    /\ sessions \subseteq Conns
    /\ published \in [Conns -> 0 .. MaxPublish]
    /\ device \in [Clients -> [status : {"absent", "online", "offline",
                                        "stale_offline"},
                               session : Conns \cup {None}]]
    /\ topics \subseteq Subscriptions
    /\ stored \subseteq Packets
    /\ alerts \in [AlertCodes -> {"none", "warning", "critical"}]
    /\ late \subseteq Statements
    /\ routed \subseteq Packets
    /\ granted \subseteq Subscriptions
    /\ holder \in [Clients -> Conns \cup {None}]
    /\ causes \in [Clients -> SUBSET {"stale_write", "crossed_connect",
                                      "orphan_connect", "lost_disconnect",
                                      "lost_connack"}]

\* A packet that was delivered without a row is of QoS 1 and came on a
\* connection before MQTT 5, where the library routes on although OnPublish has
\* returned its reason code; and then either its payload was refused, or the
\* failed write has left an alert, as long as alerts can be written.
RoutedArePersisted ==
    \A p \in routed \ stored :
        /\ p \in Unheeded
        /\ \/ p \in Unsupported
           \/ alerts[AlertCode["publish"]] # "none"
           \/ "alert_error" \in Faults

\* A subscription the library made is among the observed topics (OnSubscribe
\* replaces every filter of a packet whose recording failed).
GrantedAreRecorded == granted \subseteq topics

\* Hook.sessions holds the live connections and, beside them, only those that
\* OnDisconnect never sees: the ones turned away after their session id was
\* registered (OnConnect), and the ones whose CONNACK failed.
SessionsOfLiving ==
    \A c \in Conns :
        /\ c \in sessions => pc[c] \in Live \cup {"refused", "unanswered"}
        /\ pc[c] \in Live => c \in sessions

\* An open connection whose device is shown offline was disturbed by another
\* connection of the same client id: one that wrote after this one connected,
\* or whose connect and take-over ran in opposite orders.
OfflineExplained ==
    \A c \in Conns :
        up /\ pc[c] = "open" /\ device[ClientOf[c]].status # "online"
            => causes[ClientOf[c]] \cap {"stale_write", "crossed_connect"} # {}

\* A device shown online with no live connection is explained by a stale
\* write, a connect that was recorded after its call had been given up or whose
\* CONNACK failed, or a disconnect that was not recorded.
OnlineExplained ==
    \A d \in Clients :
        /\ up
        /\ device[d].status = "online"
        /\ \A c \in Conns : ClientOf[c] = d => pc[c] \notin Live
        => causes[d] \cap {"stale_write", "orphan_connect", "lost_disconnect",
                           "lost_connack"} # {}

\* A packet of a connection still being served whose payload was not refused, and
\* that is missing from the history, left an alert, whichever way its write
\* failed, as long as alerts themselves can be written (withBackpressure).  A
\* disconnect that is lost may leave none: its alert is raised under the deadline
\* that has passed.
NoSilentLoss ==
    \A c \in Conns : \A n \in 1 .. published[c] :
        /\ up /\ pc[c] \in {"open", "dropped"}
        /\ <<c, n>> \notin stored \cup call[c].arg \cup Unsupported
        => alerts[AlertCode["publish"]] # "none"

\* Every call the library makes into the hook comes back.
HooksReturn == \A c \in Conns : call[c] # Idle ~> call[c] = Idle

\* A connection that was served and has ended gets its disconnect handled, or
\* the process dies.
DropsAreClosed == \A c \in Conns : pc[c] = "dropped" ~> pc[c] = "closed"

\* README.md: a packet is written to the database first, and only when that has
\* succeeded may the broker route it.  That is so where every packet of QoS 1 comes
\* on a connection that speaks MQTT 5; RoutedArePersisted says what is so elsewhere.
WrittenThenRouted == routed \subseteq stored

\* README.md: the console shows whether a device is online; here, that the open
\* connection which was the last to reach the row is shown so.
LatestIsOnline ==
    \A c \in Conns :
        up /\ pc[c] = "open" /\ holder[ClientOf[c]] = c
            => device[ClientOf[c]].status = "online"
=============================================================================
