--------------------------- MODULE IngestionProofs ---------------------------
(***************************************************************************)
(* Type correctness of Ingestion, what the library may deliver that is not *)
(* persisted, that session ids follow connections, and that no packet is   *)
(* lost in silence, for any number of connections, clients, filters and    *)
(* packets, any assignment of clients to connections and any set of faults *)
(* (the last one: any in which alerts can be written); and then what the   *)
(* console shows of a device.                                              *)
(***************************************************************************)
EXTENDS Ingestion, TLAPS

Args == SUBSET (Packets \cup Subscriptions)

Places == {"new", "connecting", "accepted", "open", "dropped", "closed",
           "refused", "unanswered"}

Disturbances == {"stale_write", "crossed_connect", "orphan_connect",
                 "lost_disconnect", "lost_connack"}

\* The disturbances after which a device may be shown online for nothing.
Losses == {"stale_write", "orphan_connect", "lost_disconnect", "lost_connack"}

USE DEF Places, Disturbances, Losses

\* The argument of a write is of the kind its operation inserts.
Fits(s) ==
    /\ s.op = "publish" => s.arg \subseteq Packets
    /\ s.op = "subscribe" => s.arg \subseteq Subscriptions

\* An answered call's rows are there: what Return hands to the library.
Applied ==
    \A c \in Conns :
        call[c].stage = "applied" =>
            /\ call[c].op = "publish" => call[c].arg \subseteq stored
            /\ call[c].op = "subscribe" => call[c].arg \subseteq topics

WellFormed ==
    /\ TypeOK
    /\ \A c \in Conns : Fits(call[c])
    /\ \A s \in late : Fits(s)

IInv == WellFormed /\ Applied /\ RoutedArePersisted /\ GrantedAreRecorded

LEMMA CallFields ==
    ASSUME WellFormed, NEW c \in Conns
    PROVE  /\ call[c] = [op |-> call[c].op, arg |-> call[c].arg,
                         session |-> call[c].session, stage |-> call[c].stage]
           /\ call[c].op \in Ops \cup {"none"}
           /\ call[c].arg \in Args
           /\ call[c].session \in Conns \cup {None}
           /\ call[c].stage \in {"idle", "sent", "applied", "failed", "expired"}
           /\ call[c].stage # "idle" => call[c].op \in Ops
           /\ Fits(call[c])
  BY DEF WellFormed, TypeOK, Calls, Idle, Args, Ops

LEMMA StatementFits ==
    ASSUME WellFormed, NEW c \in Conns, call[c].stage # "idle"
    PROVE  Statement(c) \in Statements /\ Fits(Statement(c))
  BY CallFields DEF Statement, Statements, Fits, Args

\* A statement that takes effect only adds rows, and keeps the types.
LEMMA ExecuteEffect ==
    ASSUME IngestionAssumption, WellFormed,
           NEW s \in Statements, Fits(s), Execute(s)
    PROVE  /\ topics \subseteq topics' /\ stored \subseteq stored'
           /\ topics' \subseteq Subscriptions /\ stored' \subseteq Packets
           /\ device' \in [Clients -> [status : {"absent", "online", "offline",
                                                 "stale_offline"},
                                       session : Conns \cup {None}]]
           /\ holder' \in [Clients -> Conns \cup {None}]
           /\ causes' \in [Clients -> SUBSET Disturbances]
           /\ s.op = "publish" => s.arg \subseteq stored'
           /\ s.op = "subscribe" => s.arg \subseteq topics'
  <1>. DEFINE d == ClientOf[s.conn]
  <1>1. d \in Clients /\ s.conn \in Conns /\ s.session \in Conns \cup {None}
    BY DEF IngestionAssumption, Statements
  <1>2. CASE s.op = "connect" /\ UpsertConnected(s)
    BY <1>1, <1>2 DEF UpsertConnected, WellFormed, TypeOK
  <1>3. CASE s.op = "subscribe" /\ RecordSubscription(s)
    BY <1>1, <1>3 DEF RecordSubscription, EnsureDevice, WellFormed, TypeOK, Fits
  <1>4. CASE s.op = "publish" /\ PersistPublish(s)
    BY <1>1, <1>4 DEF PersistPublish, EnsureDevice, WellFormed, TypeOK, Fits
  <1>5. CASE s.op = "disconnect" /\ MarkDisconnected(s)
    BY <1>1, <1>5 DEF MarkDisconnected, WellFormed, TypeOK, history
  <1>. QED BY <1>2, <1>3, <1>4, <1>5 DEF Execute

LEMMA InitIInv == IngestionAssumption /\ Init => IInv
  BY DEF IngestionAssumption, Init, IInv, WellFormed, Applied, Fits, TypeOK,
         Calls, Idle, AlertCodes, RoutedArePersisted, GrantedAreRecorded

\* Entering a hook: the call is typed and its argument of the right kind.
LEMMA SendKeeps ==
    ASSUME WellFormed, NEW c \in Conns, NEW op \in Ops, NEW arg \in Args,
           NEW session \in Conns \cup {None}, Send(c, op, arg, session),
           op = "publish" => arg \subseteq Packets,
           op = "subscribe" => arg \subseteq Subscriptions
    PROVE  /\ call' \in [Conns -> Calls]
           /\ \A x \in Conns : Fits(call'[x])
           /\ call'[c].stage = "sent"
           /\ \A x \in Conns \ {c} : call'[x] = call[x]
  BY DEF WellFormed, TypeOK, Send, Calls, Fits, Args

\* Leaving a hook.
LEMMA LeaveKeeps ==
    ASSUME WellFormed, NEW c \in Conns, NEW next, Leave(c, next),
           next \in Places
    PROVE  /\ call' \in [Conns -> Calls]
           /\ \A x \in Conns : Fits(call'[x])
           /\ call'[c].stage = "idle"
           /\ \A x \in Conns \ {c} : call'[x] = call[x]
           /\ pc' \in [Conns -> Places]
           /\ sessions' \subseteq Conns
  BY DEF WellFormed, TypeOK, Leave, Calls, Fits, Idle

\* A step that adds rows and leaves the other calls alone keeps Applied.
LEMMA AppliedKeeps ==
    ASSUME Applied, NEW c \in Conns,
           \A x \in Conns \ {c} : call'[x] = call[x],
           stored \subseteq stored', topics \subseteq topics',
           call'[c].stage = "applied" =>
              /\ call'[c].op = "publish" => call'[c].arg \subseteq stored'
              /\ call'[c].op = "subscribe" => call'[c].arg \subseteq topics'
    PROVE  Applied'
  BY DEF Applied

USE IngestionAssumption

\* A step that delivers only what is stored, or what is not heeded for a named
\* reason, keeps RoutedArePersisted.
LEMMA RoutedKeeps ==
    ASSUME RoutedArePersisted, stored \subseteq stored',
           alerts[AlertCode["publish"]] # "none" =>
               alerts'[AlertCode["publish"]] # "none",
           \A p \in routed' \ routed :
               \/ p \in stored'
               \/ /\ p \in Unheeded
                  /\ \/ p \in Unsupported
                     \/ alerts'[AlertCode["publish"]] # "none"
                     \/ "alert_error" \in Faults
    PROVE  RoutedArePersisted'
  BY DEF RoutedArePersisted

LEMMA HooksKeep ==
    ASSUME IInv, NEW c \in Conns, Hooks(c)
    PROVE  IInv'
  <1>. USE DEF IInv
  <1>0. WellFormed /\ TypeOK
    BY DEF WellFormed
  <1>1. SessionID(c) \in Conns \cup {None} /\ ClientOf[c] \in Clients
    BY DEF SessionID, IngestionAssumption
  <1>2. CASE OnConnectBusy(c)
    BY <1>0, <1>2 DEF OnConnectBusy, WellFormed, TypeOK, Applied, Fits,
         database, broker, history, RoutedArePersisted, GrantedAreRecorded
  <1>3. CASE OnConnectInvalid(c)
    BY <1>0, <1>3 DEF OnConnectInvalid, WellFormed, TypeOK, Applied, Fits,
         database, broker, history, RoutedArePersisted, GrantedAreRecorded
  <1>4. CASE OnConnect(c)
    <2>1. Send(c, "connect", {}, c)
      BY <1>4 DEF OnConnect
    <2>2. /\ call' \in [Conns -> Calls]
          /\ \A x \in Conns : Fits(call'[x])
          /\ call'[c].stage = "sent"
          /\ \A x \in Conns \ {c} : call'[x] = call[x]
      BY <1>0, <2>1, SendKeeps DEF Ops, Args
    <2>3. Applied'
      BY <1>4, <2>2, AppliedKeeps DEF OnConnect, database
    <2>. QED
      BY <1>0, <1>4, <2>2, <2>3 DEF OnConnect, WellFormed, TypeOK, Fits,
         database, broker, history, RoutedArePersisted, GrantedAreRecorded
  <1>5. CASE OnSubscribe(c)
    <2>1. PICK fs \in SUBSET Filters \ {{}} :
              Send(c, "subscribe", {ClientOf[c]} \X fs, SessionID(c))
      BY <1>5 DEF OnSubscribe
    <2>2. {ClientOf[c]} \X fs \subseteq Subscriptions
      BY <1>1 DEF Subscriptions
    <2>3. /\ call' \in [Conns -> Calls]
          /\ \A x \in Conns : Fits(call'[x])
          /\ call'[c].stage = "sent"
          /\ \A x \in Conns \ {c} : call'[x] = call[x]
      BY <1>0, <1>1, <2>1, <2>2, SendKeeps DEF Ops, Args
    <2>4. Applied'
      BY <1>5, <2>3, AppliedKeeps DEF OnSubscribe, database
    <2>. QED
      BY <1>0, <1>5, <2>3, <2>4 DEF OnSubscribe, WellFormed, TypeOK, Fits,
         database, broker, history, RoutedArePersisted, GrantedAreRecorded
  <1>6. CASE OnPublish(c)
    <2>1. published[c] + 1 \in 1 .. MaxPublish
      BY <1>0, <1>6 DEF OnPublish, TypeOK, IngestionAssumption
    <2>2. {<<c, published[c] + 1>>} \subseteq Packets
      BY <2>1 DEF Packets
    <2>3. /\ call' \in [Conns -> Calls]
          /\ \A x \in Conns : Fits(call'[x])
          /\ call'[c].stage = "sent"
          /\ \A x \in Conns \ {c} : call'[x] = call[x]
      BY <1>0, <1>1, <1>6, <2>2, SendKeeps DEF OnPublish, Ops, Args
    <2>4. Applied'
      BY <1>6, <2>3, AppliedKeeps DEF OnPublish, database
    <2>5. published' \in [Conns -> 0 .. MaxPublish]
      BY <1>0, <1>6, <2>1 DEF OnPublish, TypeOK
    <2>. QED
      BY <1>0, <1>6, <2>3, <2>4, <2>5 DEF OnPublish, WellFormed, TypeOK, Fits,
         database, broker, history, RoutedArePersisted, GrantedAreRecorded
  \* The packet that is routed is one of those whose payload is refused.
  <1>8. CASE OnPublishRefused(c)
    <2>1. published[c] + 1 \in 1 .. MaxPublish
      BY <1>0, <1>8 DEF OnPublishRefused, TypeOK, IngestionAssumption
    <2>2. published' \in [Conns -> 0 .. MaxPublish] /\ routed' \subseteq Packets
      BY <1>0, <1>8, <2>1 DEF OnPublishRefused, TypeOK, Packets
    <2>3. RoutedArePersisted'
      BY <1>8, RoutedKeeps DEF OnPublishRefused, database
    <2>. QED
      BY <1>0, <1>8, <2>2, <2>3 DEF OnPublishRefused, WellFormed, TypeOK, Fits,
         Applied, database, history, GrantedAreRecorded
  <1>7. CASE OnDisconnect(c)
    <2>1. /\ call' \in [Conns -> Calls]
          /\ \A x \in Conns : Fits(call'[x])
          /\ call'[c].stage = "sent"
          /\ \A x \in Conns \ {c} : call'[x] = call[x]
      BY <1>0, <1>1, <1>7, SendKeeps DEF OnDisconnect, Ops, Args
    <2>2. Applied'
      BY <1>7, <2>1, AppliedKeeps DEF OnDisconnect, database
    <2>. QED
      BY <1>0, <1>7, <2>1, <2>2 DEF OnDisconnect, WellFormed, TypeOK, Fits,
         database, broker, history, RoutedArePersisted, GrantedAreRecorded
  <1>. QED BY <1>2, <1>3, <1>4, <1>5, <1>6, <1>7, <1>8 DEF Hooks

LEMMA StatementsKeep ==
    ASSUME IInv,
           \/ \E c \in Conns : Land(c)
           \/ \E s \in late : LateLand(s) \/ LateAbort(s)
    PROVE  IInv'
  <1>. USE DEF IInv
  <1>0. WellFormed /\ TypeOK
    BY DEF WellFormed
  <1>1. CASE \E c \in Conns : Land(c)
    <2>1. PICK c \in Conns : Land(c)
      BY <1>1
    <2>2. Statement(c) \in Statements /\ Fits(Statement(c))
      BY <1>0, <2>1, StatementFits DEF Land
    <2>3. Execute(Statement(c))
      BY <2>1 DEF Land
    <2>4. /\ call' \in [Conns -> Calls]
          /\ \A x \in Conns : Fits(call'[x])
          /\ \A x \in Conns \ {c} : call'[x] = call[x]
          /\ call'[c].op = Statement(c).op /\ call'[c].arg = Statement(c).arg
      BY <1>0, <2>1 DEF Land, WellFormed, TypeOK, Calls, Fits, Statement, Idle
    <2>5. Applied'
      BY <1>0, <2>2, <2>3, <2>4, ExecuteEffect, AppliedKeeps
    <2>. QED
      BY <1>0, <2>1, <2>2, <2>3, <2>4, <2>5, ExecuteEffect
         DEF Land, WellFormed, TypeOK, broker, RoutedArePersisted,
             GrantedAreRecorded, Fits
  <1>2. CASE \E s \in late : LateLand(s)
    <2>1. PICK s \in late : LateLand(s)
      BY <1>2
    <2>2. s \in Statements /\ Fits(s) /\ Execute(s)
      BY <1>0, <2>1 DEF LateLand, WellFormed, TypeOK
    <2>3. call' = call /\ stored \subseteq stored' /\ topics \subseteq topics'
      BY <1>0, <2>1, <2>2, ExecuteEffect DEF LateLand, process
    <2>4. Applied'
      BY <2>3 DEF Applied
    <2>. QED
      BY <1>0, <2>1, <2>2, <2>3, <2>4, ExecuteEffect
         DEF LateLand, WellFormed, TypeOK, process, broker,
             RoutedArePersisted, GrantedAreRecorded, Fits
  <1>3. CASE \E s \in late : LateAbort(s)
    BY <1>0, <1>3 DEF LateAbort, WellFormed, TypeOK, Applied, Fits, process,
         broker, history, RoutedArePersisted, GrantedAreRecorded
  <1>. QED BY <1>1, <1>2, <1>3

LEMMA AnswersKeep ==
    ASSUME IInv, NEW c \in Conns, Answers(c)
    PROVE  IInv'
  <1>. USE DEF IInv
  <1>0. WellFormed /\ TypeOK
    BY DEF WellFormed
  <1>1. CASE Return(c)
    <2>1. PICK next \in {"accepted", "closed", pc[c]} : Leave(c, next)
      BY <1>1 DEF Return
    <2>2. /\ call' \in [Conns -> Calls]
          /\ \A x \in Conns : Fits(call'[x])
          /\ call'[c].stage = "idle"
          /\ \A x \in Conns \ {c} : call'[x] = call[x]
          /\ pc' \in [Conns -> Places]
          /\ sessions' \subseteq Conns
      BY <1>0, <2>1, LeaveKeeps DEF TypeOK
    <2>3. Applied'
      BY <1>1, <2>2, AppliedKeeps DEF Return, database
    <2>4. /\ call[c].op = "publish" => call[c].arg \subseteq stored
          /\ call[c].op = "subscribe" => call[c].arg \subseteq topics
      BY <1>1 DEF Return, Applied
    <2>5. /\ routed' \subseteq routed \cup stored /\ granted' \subseteq topics
          /\ routed' \subseteq Packets /\ granted' \subseteq Subscriptions
      BY <1>0, <1>1, <2>4 DEF Return, GrantedAreRecorded, TypeOK
    <2>6. RoutedArePersisted'
      BY <1>1, <2>5, RoutedKeeps DEF Return, database
    <2>. QED
      BY <1>0, <1>1, <2>2, <2>3, <2>5, <2>6
         DEF Return, WellFormed, TypeOK, database, history,
             GrantedAreRecorded, Fits
  <1>2. ASSUME NEW kind \in Faults, Fault(c, kind)
        PROVE  IInv'
    <2>1. Statement(c) \in Statements /\ Fits(Statement(c))
      BY <1>0, <1>2, StatementFits DEF Fault
    <2>2. /\ call' \in [Conns -> Calls]
          /\ \A x \in Conns : Fits(call'[x])
          /\ call'[c].stage \in {"expired", "failed"}
          /\ \A x \in Conns \ {c} : call'[x] = call[x]
      <3>1. call'[c].stage \in {"expired", "failed"}
                /\ call' = [call EXCEPT ![c].stage = call'[c].stage]
        BY <1>0, <1>2 DEF Fault, TypeOK
      <3>2. call[c].stage # "idle"
        BY <1>2 DEF Fault
      <3>3. call'[c] \in Calls /\ Fits(call'[c])
        <4>1. call'[c] = [op |-> call[c].op, arg |-> call[c].arg,
                          session |-> call[c].session, stage |-> call'[c].stage]
          BY <1>0, <3>1, CallFields DEF TypeOK
        <4>2. /\ call[c].op \in Ops /\ call[c].arg \in Args
              /\ call[c].session \in Conns \cup {None} /\ Fits(call[c])
          BY <1>0, <3>2, CallFields
        <4>3. call'[c].op = call[c].op /\ call'[c].arg = call[c].arg
          BY <4>1
        <4>. QED BY <3>1, <4>1, <4>2, <4>3 DEF Calls, Fits, Args
      <3>. QED BY <1>0, <3>1, <3>3 DEF WellFormed, TypeOK
    <2>3. Applied'
      BY <1>2, <2>2, AppliedKeeps DEF Fault
    <2>4. late' \subseteq Statements /\ \A s \in late' : Fits(s)
      BY <1>0, <1>2, <2>1 DEF Fault, WellFormed, TypeOK
    <2>5. causes' \in [Clients -> SUBSET Disturbances]
      BY <1>0, <1>2 DEF Fault, TypeOK, IngestionAssumption
    <2>. QED
      BY <1>0, <1>2, <2>2, <2>3, <2>4, <2>5
         DEF Fault, WellFormed, TypeOK, broker,
             RoutedArePersisted, GrantedAreRecorded, Fits
  <1>. QED BY <1>1, <1>2 DEF Answers

LEMMA RaisesKeep ==
    ASSUME IInv, NEW c \in Conns, RaiseOk(c) \/ RaiseFail(c)
    PROVE  IInv'
  <1>. USE DEF IInv
  <1>0. WellFormed /\ TypeOK
    BY DEF WellFormed
  <1>1. PICK next \in {"refused", "closed", pc[c]} : Leave(c, next)
    BY DEF RaiseOk, RaiseFail, GiveUp
  <1>2. /\ call' \in [Conns -> Calls]
        /\ \A x \in Conns : Fits(call'[x])
        /\ call'[c].stage = "idle"
        /\ \A x \in Conns \ {c} : call'[x] = call[x]
        /\ pc' \in [Conns -> Places]
        /\ sessions' \subseteq Conns
    BY <1>0, <1>1, LeaveKeeps DEF TypeOK
  <1>3. Applied'
    BY <1>2, AppliedKeeps DEF RaiseOk, RaiseFail, database
  <1>4. alerts' \in [AlertCodes -> {"none", "warning", "critical"}]
    BY <1>0 DEF RaiseOk, RaiseFail, AlertLevel, TypeOK, database
  <1>5. /\ UNCHANGED granted
        /\ routed' = IF call[c].op = "publish"
                     THEN routed \cup (call[c].arg \cap Unheeded) ELSE routed
    BY DEF RaiseOk, RaiseFail, GiveUp, RouteUnheeded
  <1>6. routed' \subseteq Packets
    BY <1>0, <1>5 DEF TypeOK, Unheeded, IngestionAssumption
  \* An alert is raised before the packet is let go, and none is taken back.
  <1>7. RoutedArePersisted'
    <2>1. /\ alerts[AlertCode["publish"]] # "none" =>
                 alerts'[AlertCode["publish"]] # "none"
          /\ call[c].op = "publish" =>
                 \/ alerts'[AlertCode["publish"]] # "none"
                 \/ "alert_error" \in Faults
      <3>1. CASE RaiseOk(c)
        <4>1. AlertLevel(c) # "none" /\ alerts \in [AlertCodes ->
                  {"none", "warning", "critical"}]
          BY <1>0 DEF AlertLevel, TypeOK
        <4>2. AlertCode["publish"] \in AlertCodes
          BY DEF AlertCodes, Ops
        <4>. QED BY <3>1, <4>1, <4>2 DEF RaiseOk
      <3>2. CASE RaiseFail(c)
        BY <3>2 DEF RaiseFail, database
      <3>. QED BY <3>1, <3>2
    <2>2. stored' = stored
      BY DEF RaiseOk, RaiseFail, database
    <2>. QED BY <1>5, <2>1, <2>2, RoutedKeeps
  <1>. QED
    BY <1>0, <1>2, <1>3, <1>4, <1>5, <1>6, <1>7
       DEF RaiseOk, RaiseFail, WellFormed, TypeOK, database, history,
           GrantedAreRecorded, Fits

LEMMA LibraryKeeps ==
    ASSUME IInv,
           \/ \E c \in Conns : Establish(c) \/ ConnackFails(c) \/ Drop(c)
           \/ Crash \/ MarkStaleOnline
    PROVE  IInv'
  <1>. USE DEF IInv
  <1>0. WellFormed /\ TypeOK
    BY DEF WellFormed
  <1>1. CASE \E c \in Conns : Establish(c) \/ ConnackFails(c)
    <2>1. PICK c \in Conns : Establish(c) \/ ConnackFails(c)
      BY <1>1
    <2>2. causes' \in [Clients -> SUBSET Disturbances]
      BY <1>0, <2>1 DEF Establish, ConnackFails, TypeOK, IngestionAssumption
    <2>. QED
      BY <1>0, <2>1, <2>2 DEF Establish, ConnackFails, TakeOver, WellFormed, TypeOK, Applied, Fits,
           database, broker, RoutedArePersisted, GrantedAreRecorded
  <1>2. CASE \E c \in Conns : Drop(c)
    BY <1>0, <1>2 DEF Drop, WellFormed, TypeOK, Applied, Fits, database,
         broker, history, RoutedArePersisted, GrantedAreRecorded
  <1>3. CASE Crash
    <2>1. /\ call' \in [Conns -> Calls]
          /\ \A x \in Conns : Fits(call'[x]) /\ call'[x].stage = "idle"
      BY <1>3 DEF Crash, Calls, Idle, Fits
    <2>2. \A c \in Conns : call[c].stage = "sent" =>
              Statement(c) \in Statements /\ Fits(Statement(c))
      BY <1>0, StatementFits
    <2>3. late' \subseteq Statements /\ \A s \in late' : Fits(s)
      BY <1>0, <1>3, <2>2 DEF Crash, WellFormed, TypeOK
    <2>. QED
      BY <1>0, <1>3, <2>1, <2>3 DEF Crash, WellFormed, TypeOK, Applied, broker,
           history, RoutedArePersisted, GrantedAreRecorded
  <1>4. CASE MarkStaleOnline
    <2>1. device' \in [Clients -> [status : {"absent", "online", "offline",
                                            "stale_offline"},
                                  session : Conns \cup {None}]]
      BY <1>0, <1>4 DEF MarkStaleOnline, TypeOK
    <2>2. alerts' \in [AlertCodes -> {"none", "warning", "critical"}]
      BY <1>0, <1>4 DEF MarkStaleOnline, TypeOK
    <2>3. alerts'[AlertCode["publish"]] = alerts[AlertCode["publish"]]
      <3>1. AlertCode["publish"] # "stale_online_devices"
        BY DEF AlertCode, Ops
      <3>. QED BY <1>0, <1>4, <3>1 DEF MarkStaleOnline, TypeOK, AlertCodes, Ops
    <2>. QED
      BY <1>0, <1>4, <2>1, <2>2, <2>3 DEF MarkStaleOnline, WellFormed, TypeOK,
           Applied, Fits, broker, RoutedArePersisted, GrantedAreRecorded
  <1>. QED BY <1>1, <1>2, <1>3, <1>4

LEMMA StutterKeeps == IInv /\ UNCHANGED vars => IInv'
  BY DEF IInv, WellFormed, TypeOK, Applied, Fits, RoutedArePersisted,
         GrantedAreRecorded, vars, process, database, broker, history

THEOREM Inductive == Spec => []IInv
  <1>1. Init => IInv
    BY InitIInv
  <1>2. IInv /\ [Next]_vars => IInv'
    BY HooksKeep, StatementsKeep, AnswersKeep, RaisesKeep, LibraryKeeps,
       StutterKeeps DEF Next
  <1>. QED BY <1>1, <1>2, PTL DEF Spec

\* Every reachable state is well typed.
THEOREM TypeCorrect == Spec => []TypeOK
  <1>1. IInv => TypeOK
    BY DEF IInv, WellFormed
  <1>. QED BY <1>1, Inductive, PTL

\* What reaches subscribers without a row is a QoS 1 packet of a connection before
\* MQTT 5, which the library routes although OnPublish has refused it, and it is
\* announced by an alert unless its payload was refused: whatever is abandoned,
\* delayed, lost or interrupted.
THEOREM PersistedBeforeRouted == Spec => []RoutedArePersisted
  <1>1. IInv => RoutedArePersisted
    BY DEF IInv
  <1>. QED BY <1>1, Inductive, PTL

\* Where every packet of QoS 1 comes on an MQTT 5 connection, the library obeys
\* OnPublish each time, and subscribers are never ahead of the history.
THEOREM WrittenBeforeRouted ==
    ASSUME \A p \in QoS1 : p[1] \in V5
    PROVE  Spec => []WrittenThenRouted
  <1>1. IInv => WrittenThenRouted
    BY DEF IInv, RoutedArePersisted, Unheeded, WrittenThenRouted
  <1>. QED BY <1>1, Inductive, PTL

\* OnSubscribe lets a subscription through only once it is recorded.
THEOREM RecordedBeforeGranted == Spec => []GrantedAreRecorded
  <1>1. IInv => GrantedAreRecorded
    BY DEF IInv
  <1>. QED BY <1>1, Inductive, PTL

(***************************************************************************)
(* Sessions and losses.                                                    *)
(***************************************************************************)
\* A hook runs only where the library calls it.
InCall ==
    \A c \in Conns :
        /\ call[c].op = "connect" => pc[c] = "connecting"
        /\ call[c].op \in {"subscribe", "publish"} => pc[c] \in {"open", "dropped"}
        /\ call[c].op = "disconnect" => pc[c] = "dropped"

\* Nothing is published before the connection is open.
Fresh ==
    \A c \in Conns :
        pc[c] \in {"new", "connecting", "accepted"} => published[c] = 0

LifeInv == InCall /\ Fresh /\ SessionsOfLiving

LEMMA HooksLive ==
    ASSUME TypeOK, LifeInv, NEW c \in Conns, Hooks(c)
    PROVE  LifeInv'
  <1>. USE DEF TypeOK, LifeInv, InCall, Fresh, SessionsOfLiving, Live, Ready, Idle
  <1>1. CASE OnConnectBusy(c)
    BY <1>1 DEF OnConnectBusy
  <1>2. CASE OnConnectInvalid(c)
    BY <1>2 DEF OnConnectInvalid
  <1>3. CASE OnConnect(c)
    BY <1>3 DEF OnConnect, Send
  <1>4. CASE OnSubscribe(c)
    BY <1>4 DEF OnSubscribe, Send
  <1>5. CASE OnPublish(c)
    BY <1>5 DEF OnPublish, Send
  <1>6. CASE OnPublishRefused(c)
    BY <1>6 DEF OnPublishRefused
  <1>7. CASE OnDisconnect(c)
    BY <1>7 DEF OnDisconnect, Send
  <1>. QED BY <1>1, <1>2, <1>3, <1>4, <1>5, <1>6, <1>7 DEF Hooks

LEMMA EndsLive ==
    ASSUME WellFormed, LifeInv, NEW c \in Conns,
           \/ Return(c) \/ RaiseOk(c) \/ RaiseFail(c)
           \/ \E kind \in Faults : Fault(c, kind)
    PROVE  LifeInv'
  <1>. USE DEF LifeInv, InCall, Fresh, SessionsOfLiving, Live
  <1>0. TypeOK /\ (call[c].stage # "idle" => call[c].op \in Ops)
    BY CallFields DEF WellFormed
  <1>1. CASE Return(c)
    BY <1>0, <1>1 DEF Return, Leave, Idle, TypeOK, Ops
  <1>2. CASE RaiseOk(c) \/ RaiseFail(c)
    <2>1. PICK next \in {"refused", "closed", pc[c]} :
              /\ Leave(c, next) /\ UNCHANGED published
              /\ next = "refused" => call[c].op = "connect"
              /\ next = "closed" /\ next # pc[c] => call[c].op = "disconnect"
              /\ next = pc[c] => call[c].op \in {"subscribe", "publish"}
      <3>1. /\ call[c].op \in Ops /\ UNCHANGED published
            /\ GiveUp(c)
        BY <1>0, <1>2 DEF RaiseOk, RaiseFail
      <3>2. CASE call[c].op = "connect"
        BY <3>1, <3>2 DEF GiveUp
      <3>3. CASE call[c].op = "disconnect"
        BY <3>1, <3>3 DEF GiveUp
      <3>4. CASE call[c].op \in {"subscribe", "publish"}
        BY <3>1, <3>4 DEF GiveUp
      <3>. QED BY <3>1, <3>2, <3>3, <3>4 DEF Ops
    <2>. QED BY <1>0, <2>1 DEF Leave, Idle, TypeOK
  <1>3. CASE \E kind \in Faults : Fault(c, kind)
    <2>1. \A x \in Conns : call'[x].op = call[x].op
      BY <1>0, <1>3, CallFields DEF Fault, TypeOK, Calls
    <2>. QED BY <1>3, <2>1 DEF Fault
  <1>. QED BY <1>1, <1>2, <1>3

LEMMA OthersLive ==
    ASSUME WellFormed, LifeInv,
           \/ \E c \in Conns : Land(c) \/ Establish(c) \/ ConnackFails(c) \/ Drop(c)
           \/ \E s \in late : LateLand(s) \/ LateAbort(s)
           \/ Crash \/ MarkStaleOnline \/ UNCHANGED vars
    PROVE  LifeInv'
  <1>. USE DEF LifeInv, InCall, Fresh, SessionsOfLiving, Live
  <1>0. TypeOK
    BY DEF WellFormed
  <1>1. CASE \E c \in Conns : Land(c)
    <2>1. \A x \in Conns : call'[x].op = call[x].op
      BY <1>0, <1>1, CallFields DEF Land, TypeOK, Calls
    <2>. QED BY <1>1, <2>1 DEF Land
  <1>2. CASE \E c \in Conns : Establish(c) \/ ConnackFails(c) \/ Drop(c)
    BY <1>0, <1>2 DEF Establish, ConnackFails, TakeOver, Drop, Ready, Idle, TypeOK
  <1>3. CASE \E s \in late : LateLand(s) \/ LateAbort(s)
    BY <1>3 DEF LateLand, LateAbort, process
  <1>4. CASE Crash
    BY <1>0, <1>4 DEF Crash, Idle, TypeOK
  <1>5. CASE MarkStaleOnline \/ UNCHANGED vars
    BY <1>5 DEF MarkStaleOnline, vars, process
  <1>. QED BY <1>1, <1>2, <1>3, <1>4, <1>5

LEMMA LifeInductive == Spec => [](IInv /\ LifeInv)
  <1>1. Init => LifeInv
    BY DEF Init, LifeInv, InCall, Fresh, SessionsOfLiving, Live, Idle
  <1>2. IInv /\ LifeInv /\ [Next]_vars => LifeInv'
    BY HooksLive, EndsLive, OthersLive DEF IInv, WellFormed, Next, Answers
  <1>. QED BY <1>1, <1>2, Inductive, PTL DEF Spec

\* Hook.sessions never keeps the id of a connection that was served and has
\* ended, and never misses a living one.  The ids that stay are those OnConnect
\* registers and then refuses, and those of connections without a CONNACK.
THEOREM SessionsFollowConnections == Spec => []SessionsOfLiving
  <1>1. LifeInv => SessionsOfLiving
    BY DEF LifeInv
  <1>. QED BY <1>1, LifeInductive, PTL

\* Until the publish alert is raised, every packet of a connection being served
\* is in the history or in the hands of the hook, or its payload was refused.
Kept ==
    alerts[AlertCode["publish"]] = "none" =>
        \A c \in Conns : \A n \in 1 .. published[c] :
            pc[c] \in {"open", "dropped"} =>
                \/ <<c, n>> \in stored \cup Unsupported
                \/ call[c].op = "publish" /\ <<c, n>> \in call[c].arg

LEMMA KeptByHooks ==
    ASSUME TypeOK, LifeInv, Kept, NEW c \in Conns, Hooks(c)
    PROVE  Kept'
  <1>. USE DEF TypeOK, Kept, Ready, Idle, database
  <1>1. CASE OnConnectBusy(c) \/ OnConnectInvalid(c)
    BY <1>1 DEF OnConnectBusy, OnConnectInvalid
  <1>2. CASE OnConnect(c)
    BY <1>2 DEF OnConnect, Send
  <1>3. CASE OnSubscribe(c)
    BY <1>3 DEF OnSubscribe, Send
  \* The packet that is added is the argument of the call.
  <1>4. CASE OnPublish(c)
    <2>1. \A n \in 1 .. published[c] + 1 :
              n \in 1 .. published[c] \/ n = published[c] + 1
      BY DEF TypeOK
    <2>2. /\ published' = [published EXCEPT ![c] = @ + 1]
          /\ call'[c].op = "publish" /\ <<c, published[c] + 1>> \in call'[c].arg
          /\ \A x \in Conns \ {c} : call'[x] = call[x]
          /\ call[c].op = "none" /\ UNCHANGED <<pc, stored, alerts>>
      BY <1>4 DEF OnPublish, Send
    <2>. SUFFICES ASSUME alerts'[AlertCode["publish"]] = "none",
                         NEW x \in Conns, NEW n \in 1 .. published'[x],
                         pc'[x] \in {"open", "dropped"}
                  PROVE  \/ <<x, n>> \in stored' \cup Unsupported
                         \/ call'[x].op = "publish" /\ <<x, n>> \in call'[x].arg
      OBVIOUS
    <2>3. CASE x = c
      <3>1. n \in 1 .. published[c] \/ n = published[c] + 1
        BY <2>1, <2>2, <2>3
      <3>. QED BY <2>2, <2>3, <3>1
    <2>4. CASE x # c
      BY <2>2, <2>4
    <2>. QED BY <2>3, <2>4
  <1>5. CASE OnPublishRefused(c)
    <2>1. \A n \in 1 .. published[c] + 1 :
              n \in 1 .. published[c] \/ n = published[c] + 1
      BY DEF TypeOK
    <2>. QED BY <1>5, <2>1 DEF OnPublishRefused
  <1>6. CASE OnDisconnect(c)
    BY <1>6 DEF OnDisconnect, Send
  <1>. QED BY <1>1, <1>2, <1>3, <1>4, <1>5, <1>6 DEF Hooks

LEMMA KeptByStatements ==
    ASSUME IInv, Kept,
           \/ \E c \in Conns : Land(c)
           \/ \E s \in late : LateLand(s) \/ LateAbort(s)
    PROVE  Kept'
  <1>0. WellFormed /\ TypeOK
    BY DEF IInv, WellFormed
  <1>1. /\ stored \subseteq stored'
        /\ UNCHANGED <<pc, published, alerts>>
        /\ \A x \in Conns : /\ call'[x].op = call[x].op
                            /\ call'[x].arg = call[x].arg
    <2>1. CASE \E c \in Conns : Land(c)
      <3>1. PICK c \in Conns : Land(c)
        BY <2>1
      <3>2. Statement(c) \in Statements /\ Fits(Statement(c))
        BY <1>0, <3>1, StatementFits DEF Land
      <3>3. stored \subseteq stored'
        BY <1>0, <3>1, <3>2, ExecuteEffect DEF Land
      <3>. QED BY <1>0, <3>1, <3>3, CallFields DEF Land, TypeOK
    <2>2. CASE \E s \in late : LateLand(s)
      <3>1. PICK s \in late : LateLand(s)
        BY <2>2
      <3>2. s \in Statements /\ Fits(s) /\ Execute(s)
        BY <1>0, <3>1 DEF LateLand, WellFormed, TypeOK
      <3>. QED BY <1>0, <3>1, <3>2, ExecuteEffect DEF LateLand, process
    <2>3. CASE \E s \in late : LateAbort(s)
      BY <2>3 DEF LateAbort, process
    <2>. QED BY <2>1, <2>2, <2>3
  <1>. QED BY <1>1 DEF Kept

LEMMA KeptByEnds ==
    ASSUME IInv, LifeInv, Kept, "alert_error" \notin Faults, NEW c \in Conns,
           \/ Return(c) \/ RaiseOk(c) \/ RaiseFail(c)
           \/ \E kind \in Faults : Fault(c, kind)
    PROVE  Kept'
  <1>0. WellFormed /\ TypeOK /\ (call[c].stage # "idle" => call[c].op \in Ops)
    BY CallFields DEF IInv, WellFormed
  \* Nothing becomes open or dropped here.
  <1>1. CASE Return(c)
    <2>1. call[c].op = "publish" => call[c].arg \subseteq stored
      BY <1>1 DEF Return, IInv, Applied
    <2>2. PICK next \in {"accepted", "closed", pc[c]} : Leave(c, next)
      BY <1>1 DEF Return
    <2>. QED
      BY <1>0, <1>1, <2>1, <2>2 DEF Return, Leave, Kept, Idle, TypeOK, database
  <1>2. CASE RaiseOk(c)
    <2>1. PICK next \in {"refused", "closed", pc[c]} : Leave(c, next)
      BY <1>2 DEF RaiseOk, GiveUp
    <2>2. CASE call[c].op = "publish"
      <3>1. AlertCode[call[c].op] \in AlertCodes
        BY <2>2 DEF AlertCodes, Ops
      <3>2. alerts'[AlertCode["publish"]] # "none"
        BY <1>0, <1>2, <2>2, <3>1 DEF RaiseOk, AlertLevel, TypeOK
      <3>. QED BY <3>2 DEF Kept
    <2>3. CASE call[c].op # "publish"
      <3>1. call[c].op \in {"connect", "subscribe", "disconnect"}
        BY <1>0, <1>2, <2>3 DEF RaiseOk, Ops
      <3>2. AlertCode[call[c].op] # AlertCode["publish"]
        BY <3>1 DEF AlertCode, Ops
      <3>3. alerts'[AlertCode["publish"]] = alerts[AlertCode["publish"]]
        BY <1>0, <1>2, <3>2 DEF RaiseOk, TypeOK, AlertCodes, Ops
      <3>. QED
        BY <1>0, <1>2, <2>1, <2>3, <3>3 DEF RaiseOk, Leave, Kept, Idle, TypeOK
    <2>. QED BY <2>2, <2>3
  \* Only the alert of a disconnect can be lost.
  <1>3. CASE RaiseFail(c)
    <2>1. call[c].op = "disconnect"
      BY <1>3 DEF RaiseFail
    <2>2. Leave(c, "closed")
      BY <1>3, <2>1 DEF RaiseFail, GiveUp
    <2>. QED
      BY <1>0, <1>3, <2>1, <2>2 DEF RaiseFail, Leave, Kept, Idle, TypeOK, database
  <1>4. CASE \E kind \in Faults : Fault(c, kind)
    <2>1. \A x \in Conns : /\ call'[x].op = call[x].op
                           /\ call'[x].arg = call[x].arg
      BY <1>0, <1>4, CallFields DEF Fault, TypeOK
    <2>. QED BY <1>4, <2>1 DEF Fault, Kept
  <1>. QED BY <1>1, <1>2, <1>3, <1>4

LEMMA KeptByLibrary ==
    ASSUME TypeOK, LifeInv, Kept,
           \/ \E c \in Conns : Establish(c) \/ ConnackFails(c) \/ Drop(c)
           \/ Crash \/ MarkStaleOnline \/ UNCHANGED vars
    PROVE  Kept'
  <1>. USE DEF TypeOK, Kept
  <1>1. CASE \E c \in Conns : Establish(c) \/ ConnackFails(c)
    <2>1. PICK c \in Conns : Establish(c) \/ ConnackFails(c)
      BY <1>1
    <2>2. published[c] = 0
      BY <2>1 DEF Establish, ConnackFails, Ready, LifeInv, Fresh
    <2>3. \A x \in Conns \ {c} :
              pc'[x] \in {"open", "dropped"} => pc[x] \in {"open", "dropped"}
      BY <2>1 DEF Establish, ConnackFails, TakeOver
    <2>4. 1 .. published[c] = {}
      BY <2>2
    <2>. QED BY <2>1, <2>3, <2>4 DEF Establish, ConnackFails, database
  <1>2. CASE \E c \in Conns : Drop(c)
    BY <1>2 DEF Drop, database
  <1>3. CASE Crash
    BY <1>3 DEF Crash, Live
  <1>4. CASE MarkStaleOnline
    <2>1. AlertCode["publish"] # "stale_online_devices"
      BY DEF AlertCode, Ops
    <2>2. alerts'[AlertCode["publish"]] = alerts[AlertCode["publish"]]
      BY <1>4, <2>1 DEF MarkStaleOnline, AlertCodes, Ops
    <2>. QED BY <1>4, <2>2 DEF MarkStaleOnline
  <1>5. CASE UNCHANGED vars
    BY <1>5 DEF vars, process, database
  <1>. QED BY <1>1, <1>2, <1>3, <1>4, <1>5

\* As long as alerts can be written, no packet with a payload that is accepted, of
\* a connection still being served, is missing from the history without one
\* (withBackpressure, OnPublish): for any number of connections and packets, and
\* whatever else fails or is late.
THEOREM LossesAreAnnounced ==
    ASSUME "alert_error" \notin Faults
    PROVE  Spec => []NoSilentLoss
  <1>1. Init => Kept
    BY DEF Init, Kept
  <1>2. IInv /\ LifeInv /\ Kept /\ [Next]_vars => Kept'
    BY KeptByHooks, KeptByStatements, KeptByEnds, KeptByLibrary
       DEF IInv, WellFormed, Next, Answers
  <1>3. Kept => NoSilentLoss
    BY DEF Kept, NoSilentLoss
  <1>. QED BY <1>1, <1>2, <1>3, LifeInductive, PTL DEF Spec

-----------------------------------------------------------------------------
(***************************************************************************)
(* What the console shows of a device, for any number of connections of a  *)
(* client and any faults: whenever the row disagrees with the connections, *)
(* one of the named disturbances has happened since the last connect that  *)
(* reached it.  The argument follows `holder`, the connection whose        *)
(* connect that was: without a stale write the row carries its session id, *)
(* so only its own disconnect can turn the row offline.                    *)
(***************************************************************************)
\* Nothing of a connection is left in the database that could disconnect it.
NotLeaving(c) == \A s \in late : s.conn = c => s.op # "disconnect"

\* A statement carries the session id of its connection, which has come as far
\* as the statement says.
Vouched(s) ==
    /\ s.session = s.conn
    /\ s.op = "connect" => pc[s.conn] \in {"connecting", "refused", "closed"}
    /\ s.op = "connect" => NotLeaving(s.conn)
    /\ s.op = "disconnect" => pc[s.conn] \in {"dropped", "closed"}

Signed ==
    /\ \A c \in Conns : call[c].op \in Ops => call[c].session = c
    /\ \A s \in late : Vouched(s)
    /\ \A s \in late : s.op = "connect" /\ pc[s.conn] = "connecting" =>
           call[s.conn].stage \in {"failed", "expired"}

\* The row after a connect has reached it.
Rows ==
    \A d \in Clients : holder[d] # None =>
        /\ device[d].status # "absent"
        /\ ClientOf[holder[d]] = d
        /\ "stale_write" \notin causes[d] => device[d].session = holder[d]

\* The row says online from the moment a connect reaches it.
Shown ==
    \A c \in Conns :
        /\ pc[c] = "accepted" \/ (pc[c] = "connecting" /\ call[c].stage = "applied")
        /\ holder[ClientOf[c]] = c
        /\ "stale_write" \notin causes[ClientOf[c]]
        => device[ClientOf[c]].status = "online"

\* Another connection that holds the row of an open one has not been open, so
\* it will not disconnect before it has taken over.
OpenShown ==
    \A c \in Conns :
        /\ pc[c] = "open"
        /\ causes[ClientOf[c]] \cap {"stale_write", "crossed_connect"} = {}
        => /\ device[ClientOf[c]].status = "online"
           /\ holder[ClientOf[c]] # None
           /\ holder[ClientOf[c]] # c =>
                 /\ pc[holder[ClientOf[c]]] \notin {"open", "dropped"}
                 /\ NotLeaving(holder[ClientOf[c]])

\* A row that is rightly online has a holder that lives and has not yet told
\* the database that it leaves.
Held ==
    \A d \in Clients :
        /\ up /\ device[d].status = "online"
        /\ causes[d] \cap Losses = {}
        => /\ holder[d] # None
           /\ pc[holder[d]] \in Live
           /\ pc[holder[d]] = "connecting" => call[holder[d]].stage = "applied"
           /\ call[holder[d]].op = "disconnect" => call[holder[d]].stage = "sent"

DownClosed == ~up => \A c \in Conns : pc[c] \notin Live

PresenceInv == Signed /\ Rows /\ Shown /\ OpenShown /\ Held /\ DownClosed

Known == WellFormed /\ LifeInv

(***************************************************************************)
(* What a statement does to the rows.                                      *)
(***************************************************************************)
LEMMA ConnectEffect ==
    ASSUME WellFormed, NEW s \in Statements, s.op = "connect", Execute(s),
           NEW d \in Clients
    PROVE  /\ d = ClientOf[s.conn] =>
                 /\ device'[d].status = "online" /\ device'[d].session = s.session
                 /\ holder'[d] = s.conn
                 /\ causes'[d] = IF s \in late THEN {"orphan_connect"} ELSE {}
           /\ d # ClientOf[s.conn] =>
                 device'[d] = device[d] /\ holder'[d] = holder[d]
                     /\ causes'[d] = causes[d]
  BY DEF Execute, UpsertConnected, WellFormed, TypeOK, Statements

LEMMA EnsureEffect ==
    ASSUME WellFormed, NEW s \in Statements, s.op \in {"subscribe", "publish"},
           Execute(s), NEW d \in Clients
    PROVE  /\ holder'[d] = holder[d]
           /\ d = ClientOf[s.conn] =>
                 /\ device'[d].status = IF device[d].status = "absent"
                                        THEN "online" ELSE device[d].status
                 /\ device'[d].session = s.session
                 /\ causes[d] \subseteq causes'[d]
                 /\ holder[d] # s.conn => "stale_write" \in causes'[d]
                 /\ holder[d] = s.conn => causes'[d] = causes[d]
           /\ d # ClientOf[s.conn] =>
                 device'[d] = device[d] /\ causes'[d] = causes[d]
  <1>1. EnsureDevice(s)
    BY DEF Execute, RecordSubscription, PersistPublish
  <1>. QED BY <1>1 DEF EnsureDevice, WellFormed, TypeOK, Statements

LEMMA DisconnectEffect ==
    ASSUME WellFormed, NEW s \in Statements, s.op = "disconnect",
           s.session = s.conn, Execute(s), NEW d \in Clients
    PROVE  /\ holder'[d] = holder[d] /\ causes'[d] = causes[d]
           /\ device'[d].session = device[d].session
           /\ device'[d].status = "absent" <=> device[d].status = "absent"
           /\ device'[d].status # "offline" => device'[d].status = device[d].status
           /\ device'[d].status # device[d].status =>
                 d = ClientOf[s.conn] /\ device[d].session = s.conn
           /\ d = ClientOf[s.conn] /\ device[d].session = s.conn =>
                 device'[d].status # "online"
  <1>1. s.conn # None
    BY DEF Statements, IngestionAssumption
  <1>. QED
    BY <1>1 DEF Execute, MarkDisconnected, OwnsRow, history, WellFormed, TypeOK,
       Statements

(***************************************************************************)
(* A statement that takes effect, in its call or after it.                 *)
(***************************************************************************)
Landing(s) ==
    /\ s \in Statements /\ Execute(s) /\ Vouched(s)
    /\ UNCHANGED <<up, pc>>
    /\ late' \subseteq late
    /\ \A x \in Conns : call'[x].op = call[x].op /\ call'[x].session = call[x].session
    /\ \A x \in Conns \ {s.conn} : call'[x] = call[x]
    /\ \/ s \in late /\ call'[s.conn] = call[s.conn]
       \/ /\ call[s.conn].op = s.op /\ call[s.conn].stage = "sent"
          /\ call'[s.conn].stage = "applied"
    /\ s.op = "connect" =>
          s \in late \/ (pc[s.conn] = "connecting" /\ call'[s.conn].stage = "applied")

LEMMA LandIsLanding ==
    ASSUME Known, PresenceInv, NEW c \in Conns, Land(c)
    PROVE  Landing(Statement(c)) /\ Statement(c).conn = c
  <1>. USE DEF Known, PresenceInv
  <1>1. WellFormed /\ TypeOK /\ call[c].op \in Ops /\ call[c].stage = "sent"
    BY CallFields DEF WellFormed, Land
  <1>2. Statement(c) \in Statements /\ Execute(Statement(c))
    BY <1>1, StatementFits DEF Land
  <1>3. Statement(c).conn = c /\ Statement(c).op = call[c].op
            /\ Statement(c).session = c
    BY <1>1 DEF Statement, Signed
  <1>4. Statement(c).op = "connect" => pc[c] = "connecting" /\ NotLeaving(c)
    BY <1>1, <1>3 DEF LifeInv, InCall, Signed, Vouched, NotLeaving
  <1>5. Statement(c).op = "disconnect" => pc[c] = "dropped"
    BY <1>3 DEF LifeInv, InCall
  <1>6. UNCHANGED <<up, pc, late>>
    BY DEF Land
  <1>7. call' = [call EXCEPT ![c].stage = "applied"]
    BY DEF Land
  <1>8. /\ \A x \in Conns \ {c} : call'[x] = call[x]
        /\ call'[c].op = call[c].op /\ call'[c].session = call[c].session
        /\ call'[c].stage = "applied"
    BY <1>1, <1>7, CallFields DEF TypeOK
  <1>9. Vouched(Statement(c))
    BY <1>3, <1>4, <1>5 DEF Vouched
  <1>. QED
    BY <1>1, <1>2, <1>3, <1>4, <1>6, <1>8, <1>9 DEF Landing

LEMMA LateIsLanding ==
    ASSUME Known, PresenceInv, NEW s \in late, LateLand(s)
    PROVE  Landing(s)
  BY DEF Known, PresenceInv, Signed, WellFormed, TypeOK, LateLand, process, Landing

LEMMA LandingKeepsRows ==
    ASSUME Known, PresenceInv, NEW s, Landing(s)
    PROVE  Rows'
  <1>. USE DEF Known, PresenceInv, Landing, Rows
  <1>1. SUFFICES ASSUME NEW d \in Clients, holder'[d] # None
        PROVE  /\ device'[d].status # "absent"
               /\ ClientOf[holder'[d]] = d
               /\ "stale_write" \notin causes'[d] =>
                      device'[d].session = holder'[d]
    OBVIOUS
  <1>2. CASE s.op = "connect"
    BY <1>1, <1>2, ConnectEffect DEF Vouched
  <1>3. CASE s.op \in {"subscribe", "publish"}
    BY <1>1, <1>3, EnsureEffect DEF Vouched
  <1>4. CASE s.op = "disconnect"
    BY <1>1, <1>4, DisconnectEffect DEF Vouched
  <1>. QED BY <1>2, <1>3, <1>4 DEF Statements, Ops

LEMMA LandingKeepsShown ==
    ASSUME Known, PresenceInv, NEW s, Landing(s)
    PROVE  Shown'
  <1>. USE DEF Known, PresenceInv, Landing, Shown
  <1>. SUFFICES ASSUME NEW c \in Conns,
               \/ pc[c] = "accepted"
               \/ (pc[c] = "connecting" /\ call'[c].stage = "applied"),
               holder'[ClientOf[c]] = c,
               "stale_write" \notin causes'[ClientOf[c]]
       PROVE  device'[ClientOf[c]].status = "online"
    OBVIOUS
  <1>. DEFINE d == ClientOf[c]
  <1>1. d \in Clients /\ c # None
    BY DEF IngestionAssumption
  <1>2. CASE s.op = "connect"
    <2>1. CASE c = s.conn
      BY <1>1, <1>2, <2>1, ConnectEffect
    <2>2. CASE c # s.conn
      BY <1>1, <1>2, <2>2, ConnectEffect
    <2>. QED BY <2>1, <2>2
  <1>3. CASE s.op \in {"subscribe", "publish"}
    <2>1. holder[d] = c /\ "stale_write" \notin causes[d]
      BY <1>1, <1>3, EnsureEffect
    <2>2. c # s.conn \/ call'[c] = call[c]
      BY <1>3 DEF LifeInv, InCall, Landing, Vouched
    <2>. QED BY <1>1, <1>3, <2>1, <2>2, EnsureEffect
  \* Only its own disconnect could do it, and that comes later.
  <1>4. CASE s.op = "disconnect"
    <2>1. c # s.conn
      BY <1>4 DEF Vouched
    <2>2. holder[d] = c /\ "stale_write" \notin causes[d]
      BY <1>1, <1>4, DisconnectEffect DEF Vouched
    <2>3. device[d].session = c /\ device[d].status = "online"
      BY <1>1, <2>1, <2>2 DEF Rows
    <2>. QED BY <1>1, <1>4, <2>1, <2>3, DisconnectEffect DEF Vouched
  <1>. QED BY <1>2, <1>3, <1>4 DEF Statements, Ops

LEMMA LandingKeepsOpenShown ==
    ASSUME Known, PresenceInv, NEW s, Landing(s)
    PROVE  OpenShown'
  <1>. USE DEF Known, PresenceInv, Landing
  <1>. SUFFICES ASSUME NEW c \in Conns, pc[c] = "open",
               causes'[ClientOf[c]] \cap {"stale_write", "crossed_connect"} = {}
       PROVE  /\ device'[ClientOf[c]].status = "online"
              /\ holder'[ClientOf[c]] # None
              /\ holder'[ClientOf[c]] # c =>
                    /\ pc[holder'[ClientOf[c]]] \notin {"open", "dropped"}
                    /\ \A t \in late : t.conn = holder'[ClientOf[c]] =>
                           t.op # "disconnect"
    BY DEF OpenShown, NotLeaving
  <1>. DEFINE d == ClientOf[c]
  <1>1. d \in Clients /\ s.conn # None
    BY DEF IngestionAssumption, Statements
  <1>. DEFINE Undisturbed ==
                /\ device[d].status = "online" /\ holder[d] # None
                /\ holder[d] # c => /\ pc[holder[d]] \notin {"open", "dropped"}
                                    /\ NotLeaving(holder[d])
                /\ "stale_write" \notin causes[d]
  <1>2. causes[d] \subseteq causes'[d] => Undisturbed
    BY DEF OpenShown
  <1>3. CASE s.op = "connect"
    <2>1. CASE d = ClientOf[s.conn]
      <3>1. holder'[d] = s.conn /\ device'[d].status = "online"
        BY <1>1, <1>3, <2>1, ConnectEffect
      <3>2. pc[s.conn] \notin {"open", "dropped"} /\ NotLeaving(s.conn)
        BY <1>3 DEF Vouched
      <3>. QED BY <1>1, <3>1, <3>2 DEF NotLeaving
    <2>2. CASE d # ClientOf[s.conn]
      BY <1>1, <1>2, <1>3, <2>2, ConnectEffect DEF NotLeaving
    <2>. QED BY <2>1, <2>2
  <1>4. CASE s.op \in {"subscribe", "publish"}
    <2>1. Undisturbed /\ holder'[d] = holder[d] /\ device'[d].status = "online"
      BY <1>1, <1>2, <1>4, EnsureEffect
    <2>. QED BY <2>1 DEF NotLeaving
  \* The row carries the holder's session id: neither an open connection nor one
  \* that has not been open disconnects.
  <1>5. CASE s.op = "disconnect"
    <2>1. Undisturbed /\ holder'[d] = holder[d]
      BY <1>1, <1>2, <1>5, DisconnectEffect DEF Vouched
    <2>2. device[d].session = holder[d]
      BY <1>1, <2>1 DEF Rows
    <2>3. pc[s.conn] \in {"dropped", "closed"}
      BY <1>5 DEF Vouched
    <2>4. s \in late \/ pc[s.conn] = "dropped"
      BY <1>5 DEF LifeInv, InCall, Statements
    <2>5. s.conn # holder[d]
      BY <1>5, <2>1, <2>3, <2>4 DEF NotLeaving
    <2>6. device'[d].status = "online"
      BY <1>1, <1>5, <2>1, <2>2, <2>5, DisconnectEffect DEF Vouched
    <2>. QED BY <2>1, <2>6 DEF NotLeaving
  <1>. QED BY <1>3, <1>4, <1>5 DEF Statements, Ops

LEMMA LandingKeepsHeld ==
    ASSUME Known, PresenceInv, NEW s, Landing(s)
    PROVE  Held'
  <1>. USE DEF Known, PresenceInv, Landing
  <1>. SUFFICES ASSUME NEW d \in Clients, up, device'[d].status = "online",
               causes'[d] \cap Losses = {}
       PROVE  /\ holder'[d] # None
              /\ pc[holder'[d]] \in Live
              /\ pc[holder'[d]] = "connecting" =>
                     call'[holder'[d]].stage = "applied"
              /\ call'[holder'[d]].op = "disconnect" =>
                     call'[holder'[d]].stage = "sent"
    BY DEF Held
  <1>. DEFINE RightlyHeld ==
                /\ holder[d] \in Conns /\ holder[d] # None
                /\ ClientOf[holder[d]] = d
                /\ device[d].session = holder[d] /\ device[d].status # "absent"
                /\ pc[holder[d]] \in Live
                /\ pc[holder[d]] = "connecting" => call[holder[d]].stage = "applied"
                /\ call[holder[d]].op = "disconnect" =>
                       call[holder[d]].stage = "sent"
  <1>1. s.conn \in Conns /\ s.conn # None /\ s.op \in Ops
    BY DEF IngestionAssumption, Statements
  <1>2. device[d].status = "online" /\ causes[d] \subseteq causes'[d]
            => RightlyHeld
    <2>. HAVE device[d].status = "online" /\ causes[d] \subseteq causes'[d]
    <2>1. causes[d] \cap Losses = {}
      OBVIOUS
    <2>2. holder[d] \in Conns /\ holder[d] # None
      BY <2>1 DEF Held, WellFormed, TypeOK
    <2>. QED BY <2>1, <2>2 DEF Held, Rows
  <1>3. CASE s.op = "connect"
    <2>1. CASE d = ClientOf[s.conn]
      <3>1. holder'[d] = s.conn /\ s \notin late
        BY <1>3, <2>1, ConnectEffect
      <3>. QED BY <1>1, <1>3, <3>1 DEF Live
    <2>2. CASE d # ClientOf[s.conn]
      <3>1. RightlyHeld /\ holder'[d] = holder[d]
        BY <1>2, <1>3, <2>2, ConnectEffect
      <3>. QED BY <2>2, <3>1
    <2>. QED BY <2>1, <2>2
  <1>4. CASE s.op \in {"subscribe", "publish"}
    <2>1. CASE d = ClientOf[s.conn]
      <3>1. holder[d] = s.conn /\ holder'[d] = s.conn /\ causes'[d] = causes[d]
        BY <1>4, <2>1, EnsureEffect
      <3>2. device[d].status = "online"
        BY <1>1, <1>4, <2>1, <3>1, EnsureEffect DEF Rows
      <3>3. RightlyHeld
        BY <1>2, <3>1, <3>2
      <3>4. call[s.conn].op = s.op => pc[s.conn] # "connecting"
        BY <1>1, <1>4 DEF LifeInv, InCall
      <3>. QED BY <1>1, <1>4, <3>1, <3>3, <3>4
    <2>2. CASE d # ClientOf[s.conn]
      <3>1. RightlyHeld /\ holder'[d] = holder[d]
        BY <1>2, <1>4, <2>2, EnsureEffect
      <3>. QED BY <2>2, <3>1
    <2>. QED BY <2>1, <2>2
  \* The disconnect of the holder would have turned the row offline.
  <1>5. CASE s.op = "disconnect"
    <2>1. device[d].status = "online" /\ causes'[d] = causes[d]
              /\ holder'[d] = holder[d]
      BY <1>5, DisconnectEffect DEF Vouched
    <2>2. RightlyHeld
      BY <1>2, <2>1
    <2>3. holder[d] # s.conn
      BY <1>5, <2>2, DisconnectEffect DEF Vouched
    <2>. QED BY <2>1, <2>2, <2>3
  <1>. QED BY <1>1, <1>3, <1>4, <1>5 DEF Ops

LEMMA LandingKeeps ==
    ASSUME Known, PresenceInv, NEW s, Landing(s)
    PROVE  PresenceInv'
  <1>1. Signed'
    <2>. USE DEF PresenceInv, Landing, Signed
    <2>1. \A t \in late' : Vouched(t)'
      BY DEF Vouched, NotLeaving
    <2>2. ASSUME NEW t \in late', t.op = "connect", pc'[t.conn] = "connecting"
          PROVE  call'[t.conn].stage \in {"failed", "expired"}
      <3>1. t \in late /\ t.conn \in Conns
        BY DEF Known, WellFormed, TypeOK, Statements
      <3>2. call[t.conn].stage \in {"failed", "expired"}
        BY <2>2, <3>1
      <3>. QED BY <3>1, <3>2
    <2>. QED BY <2>1, <2>2
  <1>2. DownClosed'
    BY DEF PresenceInv, Landing, DownClosed
  <1>. QED
    BY <1>1, <1>2, LandingKeepsRows, LandingKeepsShown, LandingKeepsOpenShown,
       LandingKeepsHeld DEF PresenceInv

(***************************************************************************)
(* The other steps leave the rows alone.                                   *)
(***************************************************************************)
LEMMA Domains ==
    ASSUME WellFormed
    PROVE  /\ \A s \in late : s.conn \in Conns /\ s.op \in Ops
           /\ \A d \in Clients : holder[d] # None => holder[d] \in Conns
           /\ \A c \in Conns : ClientOf[c] \in Clients
  BY DEF WellFormed, TypeOK, Statements, IngestionAssumption

LEMMA HooksKeepPresence ==
    ASSUME Known, PresenceInv, NEW c \in Conns, Hooks(c)
    PROVE  PresenceInv'
  <1>. USE Domains DEF Known, PresenceInv
  <1>0. TypeOK
    BY DEF WellFormed
  <1>1. /\ UNCHANGED <<up, device, late, holder, causes>>
        /\ call[c].op = "none" /\ call[c].stage = "idle"
    BY DEF Hooks, OnConnectBusy, OnConnectInvalid, OnConnect, OnSubscribe,
       OnPublish, OnPublishRefused, OnDisconnect, Ready, Idle, database, history
  <1>2. \A x \in Conns \ {c} : pc'[x] = pc[x] /\ call'[x] = call[x]
    BY <1>0 DEF Hooks, OnConnectBusy, OnConnectInvalid, OnConnect, OnSubscribe,
       OnPublish, OnPublishRefused, OnDisconnect, Send, TypeOK
  <1>3. \/ pc'[c] = pc[c] /\ pc[c] # "connecting"
        \/ pc[c] = "new" /\ pc'[c] \in {"refused", "connecting"}
    BY <1>0 DEF Hooks, OnConnectBusy, OnConnectInvalid, OnConnect, OnSubscribe,
       OnPublish, OnPublishRefused, OnDisconnect, Ready, TypeOK
  <1>4. \/ call'[c] = call[c] /\ pc'[c] # "connecting"
        \/ call'[c].stage = "sent" /\ call'[c].session = c
    BY <1>0 DEF Hooks, OnConnectBusy, OnConnectInvalid, OnConnect, OnSubscribe,
       OnPublish, OnPublishRefused, OnDisconnect, Ready, Send, SessionID, TypeOK, LifeInv,
       SessionsOfLiving, Live
  <1>5. Signed'
    <2>1. \A x \in Conns : call'[x].op \in Ops => call'[x].session = x
      BY <1>2, <1>4 DEF Signed
    <2>2. ASSUME NEW s \in late
          PROVE  /\ Vouched(s)'
                 /\ s.op = "connect" /\ pc'[s.conn] = "connecting" =>
                        call'[s.conn].stage \in {"failed", "expired"}
      <3>1. CASE s.conn = c
        <4>1. s.op \in {"connect", "disconnect"} => pc[c] # "new"
          BY <3>1 DEF Signed, Vouched, Ops
        <4>2. s.op \in {"connect", "disconnect"} =>
                  pc'[c] = pc[c] /\ pc[c] # "connecting"
          BY <1>3, <4>1
        <4>. QED BY <1>1, <3>1, <4>2 DEF Signed, Vouched, NotLeaving
      <3>2. CASE s.conn # c
        BY <1>1, <1>2, <3>2 DEF Signed, Vouched, NotLeaving
      <3>. QED BY <3>1, <3>2
    <2>. QED BY <1>1, <2>1, <2>2 DEF Signed
  <1>6. Rows'
    BY <1>1 DEF Rows
  <1>7. Shown'
    BY <1>1, <1>2, <1>3, <1>4 DEF Shown
  <1>8. OpenShown'
    BY <1>1, <1>2, <1>3 DEF OpenShown, NotLeaving
  <1>9. Held'
    BY <1>1, <1>2, <1>3, <1>4 DEF Held, Live
  <1>10. DownClosed'
    BY <1>1, <1>2, <1>3 DEF DownClosed, Live, Hooks, OnConnectBusy,
       OnConnectInvalid, OnConnect, OnSubscribe, OnPublish, OnPublishRefused,
       OnDisconnect, Ready
  <1>. QED BY <1>5, <1>6, <1>7, <1>8, <1>9, <1>10

\* A hook that returns: the connection is accepted, refused or closed, or stays.
LEMMA EndsKeepPresence ==
    ASSUME Known, PresenceInv, NEW c \in Conns,
           Return(c) \/ RaiseOk(c) \/ RaiseFail(c)
    PROVE  PresenceInv'
  <1>. USE Domains DEF Known, PresenceInv
  <1>0. TypeOK /\ (call[c].stage # "idle" => call[c].op \in Ops)
    BY CallFields DEF WellFormed
  <1>1. UNCHANGED <<up, device, late, holder, causes>>
    BY DEF Return, RaiseOk, RaiseFail, database, history
  <1>2. PICK next : Leave(c, next)
    BY DEF Return, RaiseOk, RaiseFail, GiveUp
  <1>3. /\ \A x \in Conns \ {c} : pc'[x] = pc[x] /\ call'[x] = call[x]
        /\ call'[c] = Idle
    BY <1>0, <1>2 DEF Leave, TypeOK
  <1>4. call[c].op \in Ops /\ call[c].stage \in {"applied", "failed", "expired"}
    BY <1>0 DEF Return, RaiseOk, RaiseFail
  <1>5. CASE call[c].op = "connect"
    <2>1. /\ pc[c] = "connecting"
          /\ pc'[c] = IF call[c].stage = "applied" THEN "accepted" ELSE "refused"
      BY <1>0, <1>5 DEF Return, RaiseOk, RaiseFail, GiveUp, Leave, TypeOK,
         LifeInv, InCall
    <2>2. Signed'
      BY <1>1, <1>3, <1>4, <2>1 DEF Signed, Vouched, NotLeaving, Idle, Ops
    <2>3. Rows' /\ DownClosed'
      BY <1>1, <1>3, <2>1 DEF Rows, DownClosed, Live
    <2>4. Shown'
      BY <1>1, <1>3, <2>1 DEF Shown
    <2>5. OpenShown'
      BY <1>1, <1>3, <2>1 DEF OpenShown, NotLeaving
    <2>6. Held'
      BY <1>1, <1>3, <2>1 DEF Held, Live, Idle
    <2>. QED BY <2>2, <2>3, <2>4, <2>5, <2>6
  <1>6. CASE call[c].op = "disconnect"
    <2>1. pc[c] = "dropped" /\ pc'[c] = "closed"
      BY <1>0, <1>6 DEF Return, RaiseOk, RaiseFail, GiveUp, Leave, TypeOK,
         LifeInv, InCall
    <2>2. Signed'
      BY <1>1, <1>3, <1>4, <2>1 DEF Signed, Vouched, NotLeaving, Idle, Ops
    <2>3. Rows' /\ Shown' /\ DownClosed'
      BY <1>1, <1>3, <2>1 DEF Rows, Shown, DownClosed, Live
    <2>4. OpenShown'
      BY <1>1, <1>3, <2>1 DEF OpenShown, NotLeaving
    <2>5. Held'
      BY <1>1, <1>3, <1>4, <1>6 DEF Held
    <2>. QED BY <2>2, <2>3, <2>4, <2>5
  <1>7. CASE call[c].op \in {"subscribe", "publish"}
    <2>1. pc[c] \in {"open", "dropped"} /\ pc'[c] = pc[c]
      BY <1>0, <1>7 DEF Return, RaiseOk, RaiseFail, GiveUp, Leave, TypeOK,
         LifeInv, InCall
    <2>2. Signed'
      BY <1>1, <1>3, <1>4, <2>1 DEF Signed, Vouched, NotLeaving, Idle, Ops
    <2>3. Rows' /\ Shown' /\ DownClosed'
      BY <1>1, <1>3, <2>1 DEF Rows, Shown, DownClosed, Live
    <2>4. OpenShown'
      BY <1>1, <1>3, <2>1 DEF OpenShown, NotLeaving
    <2>5. Held'
      BY <1>1, <1>3, <2>1 DEF Held, Live, Idle
    <2>. QED BY <2>2, <2>3, <2>4, <2>5
  <1>. QED BY <1>4, <1>5, <1>6, <1>7 DEF Ops

LEMMA FaultKeepsPresence ==
    ASSUME Known, PresenceInv, NEW c \in Conns, NEW kind \in Faults,
           Fault(c, kind)
    PROVE  PresenceInv'
  <1>. USE Domains DEF Known, PresenceInv
  <1>0. TypeOK /\ call[c].op \in Ops /\ call[c].stage \in {"sent", "applied"}
    BY CallFields DEF WellFormed, Fault
  <1>1. UNCHANGED <<up, device, pc, holder>>
    BY DEF Fault
  <1>2. /\ \A x \in Conns \ {c} : call'[x] = call[x]
        /\ call'[c].op = call[c].op /\ call'[c].session = call[c].session
        /\ call'[c].stage \in {"failed", "expired"}
    BY <1>0, CallFields DEF Fault, TypeOK
  <1>3. late' = IF call[c].stage = "sent" THEN late \cup {Statement(c)} ELSE late
    BY DEF Fault
  <1>4. /\ Statement(c).op = call[c].op /\ Statement(c).conn = c
        /\ Statement(c).session = c
    BY <1>0 DEF Statement, Signed
  <1>5. /\ \A d \in Clients : causes[d] \subseteq causes'[d]
        /\ call[c].op = "connect" /\ call[c].stage = "applied" =>
               "orphan_connect" \in causes'[ClientOf[c]]
        /\ call[c].op = "disconnect" /\ call[c].stage = "sent" =>
               "lost_disconnect" \in causes'[ClientOf[c]]
    BY <1>0 DEF Fault, TypeOK
  <1>6. /\ call[c].op = "connect" => pc[c] = "connecting"
        /\ call[c].op = "disconnect" => pc[c] = "dropped"
    BY DEF LifeInv, InCall
  <1>7. Signed'
    <2>1. \A x \in Conns : call'[x].op \in Ops => call'[x].session = x
      BY <1>2 DEF Signed
    <2>2. ASSUME NEW s \in late
          PROVE  Vouched(s)'
      <3>1. s.conn = c /\ s.op = "connect" => call[c].op # "disconnect"
        BY <1>6 DEF Signed, Vouched
      <3>. QED BY <1>1, <1>3, <1>4, <3>1 DEF Signed, Vouched, NotLeaving
    <2>3. ASSUME NEW s, s = Statement(c), call[c].stage = "sent"
          PROVE  Vouched(s)'
      <3>1. s.op = "connect" => NotLeaving(c)'
        BY <1>3, <1>4, <1>6, <2>3 DEF Signed, Vouched, NotLeaving
      <3>. QED BY <1>1, <1>4, <1>6, <2>3, <3>1 DEF Vouched
    <2>4. ASSUME NEW s \in late', s.op = "connect", pc'[s.conn] = "connecting"
          PROVE  call'[s.conn].stage \in {"failed", "expired"}
      BY <1>1, <1>2, <1>3, <1>4, <2>4 DEF Signed
    <2>5. \A s \in late' : Vouched(s)'
      BY <1>3, <2>2, <2>3
    <2>. QED BY <2>1, <2>4, <2>5 DEF Signed
  <1>8. Rows'
    BY <1>1, <1>5 DEF Rows
  <1>9. Shown'
    BY <1>1, <1>2, <1>5 DEF Shown
  <1>10. OpenShown'
    <2>1. \A x \in Conns : pc[x] # "dropped" /\ NotLeaving(x) => NotLeaving(x)'
      BY <1>3, <1>4, <1>6 DEF NotLeaving
    <2>. QED BY <1>1, <1>5, <2>1 DEF OpenShown
  \* What the holder of the row loses here is named.
  <1>11. Held'
    <2>. SUFFICES ASSUME NEW d \in Clients, up, device[d].status = "online",
                 causes'[d] \cap Losses = {}
         PROVE  /\ holder[d] # None
                /\ pc[holder[d]] \in Live
                /\ pc[holder[d]] = "connecting" =>
                       call'[holder[d]].stage = "applied"
                /\ call'[holder[d]].op = "disconnect" =>
                       call'[holder[d]].stage = "sent"
      BY <1>1 DEF Held
    <2>1. /\ holder[d] \in Conns /\ holder[d] # None /\ pc[holder[d]] \in Live
          /\ ClientOf[holder[d]] = d
          /\ pc[holder[d]] = "connecting" => call[holder[d]].stage = "applied"
          /\ call[holder[d]].op = "disconnect" => call[holder[d]].stage = "sent"
      BY <1>5 DEF Held, Rows
    <2>2. CASE holder[d] = c
      <3>1. call[c].op \in {"subscribe", "publish"}
        BY <1>0, <1>5, <1>6, <2>1, <2>2 DEF Ops
      <3>2. pc[c] \in {"open", "dropped"}
        BY <3>1 DEF LifeInv, InCall
      <3>. QED BY <1>2, <2>1, <2>2, <3>1, <3>2
    <2>3. CASE holder[d] # c
      BY <1>2, <2>1, <2>3
    <2>. QED BY <2>2, <2>3
  <1>12. DownClosed'
    BY <1>1 DEF DownClosed
  <1>. QED BY <1>7, <1>8, <1>9, <1>10, <1>11, <1>12

LEMMA LateAbortKeepsPresence ==
    ASSUME Known, PresenceInv, NEW s \in late, LateAbort(s)
    PROVE  PresenceInv'
  <1>1. UNCHANGED <<up, pc, call, device, holder, causes>> /\ late' \subseteq late
    BY DEF LateAbort, process, history
  <1>2. Signed'
    BY <1>1 DEF PresenceInv, Signed, Vouched, NotLeaving
  <1>3. Rows' /\ Shown' /\ Held' /\ DownClosed'
    BY <1>1 DEF PresenceInv, Rows, Shown, Held, DownClosed
  <1>4. OpenShown'
    BY <1>1 DEF PresenceInv, OpenShown, NotLeaving
  <1>. QED BY <1>2, <1>3, <1>4 DEF PresenceInv

(***************************************************************************)
(* The library around the hooks, the crash and the restart.                *)
(***************************************************************************)
LEMMA EstablishKeepsPresence ==
    ASSUME Known, PresenceInv, NEW c \in Conns, Establish(c)
    PROVE  PresenceInv'
  <1>. USE Domains DEF Known, PresenceInv
  <1>0. TypeOK
    BY DEF WellFormed
  <1>1. /\ UNCHANGED <<up, call, device, late, holder>>
        /\ up /\ pc[c] = "accepted"
    BY DEF Establish, Ready, database
  <1>2. /\ pc'[c] = "open"
        /\ \A x \in Conns \ {c} :
              pc'[x] = IF ClientOf[x] = ClientOf[c] /\ pc[x] = "open"
                       THEN "dropped" ELSE pc[x]
    BY DEF Establish, TakeOver
  <1>3. /\ \A d \in Clients : causes[d] \subseteq causes'[d]
        /\ \A d \in Clients \ {ClientOf[c]} : causes'[d] = causes[d]
        /\ holder[ClientOf[c]] # c => "crossed_connect" \in causes'[ClientOf[c]]
    BY <1>0 DEF Establish, TypeOK
  <1>4. Signed'
    BY <1>1, <1>2 DEF Signed, Vouched, NotLeaving
  <1>5. Rows'
    BY <1>1, <1>3 DEF Rows
  <1>6. Shown'
    BY <1>1, <1>2, <1>3 DEF Shown
  <1>7. OpenShown'
    <2>. SUFFICES ASSUME NEW x \in Conns, pc'[x] = "open",
                 causes'[ClientOf[x]] \cap {"stale_write", "crossed_connect"} = {}
         PROVE  /\ device[ClientOf[x]].status = "online"
                /\ holder[ClientOf[x]] # None
                /\ holder[ClientOf[x]] # x =>
                      /\ pc'[holder[ClientOf[x]]] \notin {"open", "dropped"}
                      /\ NotLeaving(holder[ClientOf[x]])
      BY <1>1 DEF OpenShown, NotLeaving
    \* The row was its own when it took over.
    <2>1. CASE x = c
      <3>1. holder[ClientOf[c]] = c /\ "stale_write" \notin causes[ClientOf[c]]
        BY <1>3, <2>1
      <3>. QED BY <1>1, <2>1, <3>1 DEF Shown, IngestionAssumption
    \* One that stays open is of another client, and so is the holder of its row.
    <2>2. CASE x # c
      <3>1. pc[x] = "open" /\ ClientOf[x] # ClientOf[c]
        BY <1>2, <2>2
      <3>2. /\ device[ClientOf[x]].status = "online"
            /\ holder[ClientOf[x]] # None
            /\ holder[ClientOf[x]] # x =>
                  /\ pc[holder[ClientOf[x]]] \notin {"open", "dropped"}
                  /\ NotLeaving(holder[ClientOf[x]])
        BY <1>3, <3>1 DEF OpenShown
      <3>3. ClientOf[holder[ClientOf[x]]] = ClientOf[x]
        BY <3>2 DEF Rows
      <3>. QED BY <1>2, <3>1, <3>2, <3>3
    <2>. QED BY <2>1, <2>2
  <1>8. Held'
    BY <1>1, <1>2, <1>3 DEF Held, Live
  <1>9. DownClosed'
    BY <1>1 DEF DownClosed
  <1>. QED BY <1>4, <1>5, <1>6, <1>7, <1>8, <1>9

\* The connection is gone; if the row is its own, that is one of the losses.
LEMMA ConnackKeepsPresence ==
    ASSUME Known, PresenceInv, NEW c \in Conns, ConnackFails(c)
    PROVE  PresenceInv'
  <1>. USE Domains DEF Known, PresenceInv
  <1>0. TypeOK
    BY DEF WellFormed
  <1>1. /\ UNCHANGED <<up, call, device, late, holder>>
        /\ up /\ pc[c] = "accepted"
    BY DEF ConnackFails, Ready, database
  <1>2. /\ pc'[c] = "unanswered"
        /\ \A x \in Conns \ {c} :
              pc'[x] = IF ClientOf[x] = ClientOf[c] /\ pc[x] = "open"
                       THEN "dropped" ELSE pc[x]
    BY DEF ConnackFails, TakeOver
  <1>3. /\ \A d \in Clients : causes[d] \subseteq causes'[d]
        /\ \A d \in Clients \ {ClientOf[c]} : causes'[d] = causes[d]
        /\ "stale_write" \in causes'[ClientOf[c]] =>
               "stale_write" \in causes[ClientOf[c]]
        /\ holder[ClientOf[c]] = c => "lost_connack" \in causes'[ClientOf[c]]
    BY <1>0 DEF ConnackFails, TypeOK
  <1>4. Signed'
    BY <1>1, <1>2 DEF Signed, Vouched, NotLeaving
  <1>5. Rows'
    BY <1>1, <1>3 DEF Rows
  <1>6. Shown'
    BY <1>1, <1>2, <1>3 DEF Shown
  \* Of this client no connection stays open.
  <1>7. OpenShown'
    <2>. SUFFICES ASSUME NEW x \in Conns, pc'[x] = "open",
                 causes'[ClientOf[x]] \cap {"stale_write", "crossed_connect"} = {}
         PROVE  /\ device[ClientOf[x]].status = "online"
                /\ holder[ClientOf[x]] # None
                /\ holder[ClientOf[x]] # x =>
                      /\ pc'[holder[ClientOf[x]]] \notin {"open", "dropped"}
                      /\ NotLeaving(holder[ClientOf[x]])
      BY <1>1 DEF OpenShown, NotLeaving
    <2>1. pc[x] = "open" /\ ClientOf[x] # ClientOf[c]
      BY <1>2
    <2>2. /\ device[ClientOf[x]].status = "online"
          /\ holder[ClientOf[x]] # None
          /\ holder[ClientOf[x]] # x =>
                /\ pc[holder[ClientOf[x]]] \notin {"open", "dropped"}
                /\ NotLeaving(holder[ClientOf[x]])
      BY <1>3, <2>1 DEF OpenShown
    <2>3. ClientOf[holder[ClientOf[x]]] = ClientOf[x]
      BY <2>2 DEF Rows
    <2>. QED BY <1>2, <2>1, <2>2, <2>3
  <1>8. Held'
    <2>. SUFFICES ASSUME NEW d \in Clients, up, device[d].status = "online",
                 causes'[d] \cap Losses = {}
         PROVE  /\ holder[d] # None
                /\ pc'[holder[d]] \in Live
                /\ pc'[holder[d]] = "connecting" => call[holder[d]].stage = "applied"
                /\ call[holder[d]].op = "disconnect" =>
                       call[holder[d]].stage = "sent"
      BY <1>1 DEF Held
    <2>1. /\ holder[d] \in Conns /\ holder[d] # None /\ pc[holder[d]] \in Live
          /\ ClientOf[holder[d]] = d
          /\ pc[holder[d]] = "connecting" => call[holder[d]].stage = "applied"
          /\ call[holder[d]].op = "disconnect" => call[holder[d]].stage = "sent"
      BY <1>3 DEF Held, Rows
    <2>2. holder[d] # c
      BY <1>3, <2>1
    <2>. QED BY <1>2, <2>1, <2>2 DEF Live
  <1>9. DownClosed'
    BY <1>1 DEF DownClosed
  <1>. QED BY <1>4, <1>5, <1>6, <1>7, <1>8, <1>9

LEMMA DropKeepsPresence ==
    ASSUME Known, PresenceInv, NEW c \in Conns, Drop(c)
    PROVE  PresenceInv'
  <1>. USE Domains DEF Known, PresenceInv
  <1>1. /\ UNCHANGED <<up, call, device, late, holder, causes>>
        /\ up /\ pc[c] = "open"
    BY DEF Drop, database, history
  <1>2. pc'[c] = "dropped" /\ \A x \in Conns \ {c} : pc'[x] = pc[x]
    BY DEF Drop, WellFormed, TypeOK
  <1>3. Signed'
    BY <1>1, <1>2 DEF Signed, Vouched, NotLeaving
  <1>4. Rows' /\ Shown' /\ DownClosed'
    BY <1>1, <1>2 DEF Rows, Shown, DownClosed
  <1>5. OpenShown'
    BY <1>1, <1>2 DEF OpenShown, NotLeaving
  <1>6. Held'
    BY <1>1, <1>2 DEF Held, Live
  <1>. QED BY <1>3, <1>4, <1>5, <1>6

LEMMA CrashKeepsPresence ==
    ASSUME Known, PresenceInv, Crash
    PROVE  PresenceInv'
  <1>. USE Domains DEF Known, PresenceInv
  <1>1. UNCHANGED <<device, holder, causes>> /\ ~up'
    BY DEF Crash, history
  <1>2. \A c \in Conns : /\ pc'[c] = IF pc[c] \in Live THEN "closed" ELSE pc[c]
                         /\ call'[c] = Idle
    BY DEF Crash
  <1>3. \A c \in Conns : pc'[c] \notin Live
    BY <1>2 DEF Live
  <1>4. \A s \in late' : s \in late \/ \E c \in Conns :
            call[c].stage = "sent" /\ s = Statement(c)
    BY DEF Crash
  <1>5. ASSUME NEW s \in late'
        PROVE  s.conn \in Conns /\ s.session = s.conn
               /\ (s.op = "connect" =>
                      pc[s.conn] \in {"connecting", "refused", "closed"})
               /\ (s.op = "disconnect" => pc[s.conn] \in {"dropped", "closed"})
               /\ (s.op = "disconnect" /\ s \notin late => pc[s.conn] = "dropped")
               /\ (s.op = "connect" => \A t \in late : t.conn = s.conn =>
                                           t.op # "disconnect")
    <2>1. CASE s \in late
      BY <2>1 DEF Signed, Vouched, NotLeaving
    <2>2. ASSUME NEW c \in Conns, call[c].stage = "sent", s = Statement(c)
          PROVE  /\ s.conn = c /\ s.op = call[c].op /\ s.session = c
                 /\ s.op = "connect" => pc[c] = "connecting"
                 /\ s.op = "disconnect" => pc[c] = "dropped"
      <3>1. call[c].op \in Ops
        BY <2>2, CallFields
      <3>. QED BY <2>2, <3>1 DEF Statement, Signed, LifeInv, InCall
    <2>3. CASE s \notin late
      BY <1>4, <2>2, <2>3 DEF Signed, Vouched
    <2>. QED BY <2>1, <2>3
  <1>6. Signed'
    <2>1. ASSUME NEW s \in late', s.op = "connect", NEW t \in late',
                 t.conn = s.conn
          PROVE  t.op # "disconnect"
      <3>1. CASE t \in late
        BY <1>5, <2>1, <3>1
      <3>2. CASE t \notin late
        BY <1>5, <2>1, <3>2
      <3>. QED BY <3>1, <3>2
    <2>2. \A s \in late' : Vouched(s)'
      BY <1>2, <1>5, <2>1 DEF Vouched, NotLeaving, Live
    <2>3. \A s \in late' : pc'[s.conn] # "connecting"
      BY <1>3, <1>5 DEF Live
    <2>. QED BY <1>2, <2>2, <2>3 DEF Signed, Idle, Ops
  <1>7. Rows' /\ Shown' /\ OpenShown' /\ Held' /\ DownClosed'
    BY <1>1, <1>3 DEF Rows, Shown, OpenShown, Held, DownClosed, Live
  <1>. QED BY <1>6, <1>7

\* The reset leaves nothing online, and nothing is connected yet.
LEMMA ResetKeepsPresence ==
    ASSUME Known, PresenceInv, MarkStaleOnline
    PROVE  PresenceInv'
  <1>. USE DEF Known, PresenceInv
  <1>1. UNCHANGED <<pc, call, late>> /\ ~up
    BY DEF MarkStaleOnline
  <1>2. \A d \in Clients : device'[d].status # "online" /\ holder'[d] = None
    BY DEF MarkStaleOnline, WellFormed, TypeOK
  <1>3. \A c \in Conns : pc[c] \notin Live /\ c # None /\ ClientOf[c] \in Clients
    BY <1>1 DEF DownClosed, IngestionAssumption
  <1>4. Signed'
    BY <1>1 DEF Signed, Vouched, NotLeaving
  <1>5. Rows' /\ Shown' /\ OpenShown' /\ Held' /\ DownClosed'
    BY <1>1, <1>2, <1>3 DEF Rows, Shown, OpenShown, Held, DownClosed, Live
  <1>. QED BY <1>4, <1>5

(***************************************************************************)
(* The theorems.                                                           *)
(***************************************************************************)
LEMMA PresenceInductive == Spec => []PresenceInv
  <1>1. Init => PresenceInv
    BY DEF Init, PresenceInv, Signed, Rows, Shown, OpenShown, Held, DownClosed,
       Idle, Ops, Live
  <1>2. IInv /\ LifeInv /\ PresenceInv /\ [Next]_vars => PresenceInv'
    <2>. SUFFICES ASSUME IInv, LifeInv, PresenceInv, [Next]_vars
         PROVE  PresenceInv'
      OBVIOUS
    <2>1. Known
      BY DEF Known, IInv
    <2>2. ASSUME NEW c \in Conns, Land(c)
          PROVE  PresenceInv'
      BY <2>1, <2>2, LandIsLanding, LandingKeeps
    <2>3. ASSUME NEW s \in late, LateLand(s)
          PROVE  PresenceInv'
      BY <2>1, <2>3, LateIsLanding, LandingKeeps
    <2>4. CASE UNCHANGED vars
      <3>1. UNCHANGED <<up, pc, call, late, device, holder, causes>>
        BY <2>4 DEF vars, process, database, history
      <3>2. Signed'
        BY <3>1 DEF PresenceInv, Signed, Vouched, NotLeaving
      <3>3. Rows' /\ Shown' /\ Held' /\ DownClosed'
        BY <3>1 DEF PresenceInv, Rows, Shown, Held, DownClosed
      <3>4. OpenShown'
        BY <3>1 DEF PresenceInv, OpenShown, NotLeaving
      <3>. QED BY <3>2, <3>3, <3>4 DEF PresenceInv
    <2>. QED
      BY <2>1, <2>2, <2>3, <2>4, HooksKeepPresence, EndsKeepPresence,
         FaultKeepsPresence, LateAbortKeepsPresence, EstablishKeepsPresence,
         ConnackKeepsPresence, DropKeepsPresence, CrashKeepsPresence, ResetKeepsPresence
         DEF Next, Answers
  <1>. QED BY <1>1, <1>2, LifeInductive, PTL DEF Spec

\* An open connection whose device the console shows offline was disturbed: by a
\* write of another connection after its own connect (EnsureDevice takes the
\* session id of whoever writes), or by a connect and a take-over that ran in
\* opposite orders.  Nothing else, whatever fails, is late or crashes.
THEOREM OfflineIsExplained == Spec => []OfflineExplained
  <1>1. PresenceInv => OfflineExplained
    BY DEF PresenceInv, OpenShown, OfflineExplained
  <1>. QED BY <1>1, PresenceInductive, PTL

\* A device shown online that has no live connection is explained by a stale
\* write, an abandoned connect, a connection that ended before its CONNACK was
\* sent, or a lost disconnect; the first connect after that, or a restart
\* (MarkStaleOnline), clears the row again.
THEOREM OnlineIsExplained == Spec => []OnlineExplained
  <1>1. IInv /\ PresenceInv => OnlineExplained
    <2>. SUFFICES ASSUME IInv, PresenceInv, NEW d \in Clients, up,
                 device[d].status = "online",
                 \A c \in Conns : ClientOf[c] = d => pc[c] \notin Live,
                 causes[d] \cap Losses = {}
         PROVE  FALSE
      BY DEF OnlineExplained
    <2>1. holder[d] \in Conns /\ pc[holder[d]] \in Live
      BY Domains DEF PresenceInv, Held, IInv
    <2>2. ClientOf[holder[d]] = d
      BY DEF PresenceInv, Held, Rows
    <2>. QED BY <2>1, <2>2
  <1>. QED BY <1>1, Inductive, PresenceInductive, PTL
=============================================================================
