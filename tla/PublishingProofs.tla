-------------------------- MODULE PublishingProofs --------------------------
(***************************************************************************)
(* Publishing implements CommandAudit, for any number of concurrent calls, *)
(* any moment at which a context ends, any failing statement and any       *)
(* crash.                                                                  *)
(***************************************************************************)
EXTENDS Publishing, TLAPS

\* Where a call is tells what its row and its goroutine may be.
CallFits(p) ==
    /\ step[p] \in {"idle", "create"} => row[p] = "absent" /\ wire[p] = "none"
    /\ step[p] = "publish" => row[p] = "pending" /\ wire[p] = "none"
    /\ step[p] = "wait" => row[p] = "pending"
    /\ step[p] = "mark_failed" =>
          row[p] = "pending" /\ (wire[p] = "failed" \/ p \in cancelled)
    /\ step[p] \in {"record_topic", "mark_published"} =>
          row[p] = "pending" /\ wire[p] = "done"

\* Where a goroutine is tells what has become of its message.
SenderFits(p) ==
    /\ wire[p] \in {"running", "accepted", "refused"} => row[p] = "pending"
    /\ wire[p] \in {"none", "running", "accepted", "refused", "failed"} =>
          p \notin routed
    /\ wire[p] = "accepted" => p \in stored
    /\ wire[p] = "refused" => p \in refused

IInv ==
    /\ TypeOK
    /\ \A p \in Commands : CallFits(p) /\ SenderFits(p)
    /\ RoutedInHistory
    /\ PublishedWasHandled

LEMMA InitIInv == Init => IInv
  BY DEF Init, IInv, TypeOK, CallFits, SenderFits, RoutedInHistory,
         PublishedWasHandled

LEMMA ServiceKeeps == ASSUME IInv, NEW p \in Commands, Service(p) PROVE IInv'
  <1>. USE DEF IInv, TypeOK, CallFits, SenderFits, RoutedInHistory,
           PublishedWasHandled, sender, GoTo, Answer, Reaches
  <1>1. CASE Call(p)
    BY <1>1 DEF Call
  <1>2. CASE CreatePublishCommand(p)
    BY <1>2 DEF CreatePublishCommand
  <1>3. CASE ServerPublish(p)
    BY <1>3 DEF ServerPublish
  <1>4. CASE ReceiveDone(p)
    BY <1>4 DEF ReceiveDone
  <1>5. CASE ReceiveCancelled(p)
    BY <1>5 DEF ReceiveCancelled
  <1>6. CASE MarkFailed(p)
    BY <1>6 DEF MarkFailed
  <1>7. CASE RecordAdminPublishTopic(p)
    BY <1>7 DEF RecordAdminPublishTopic
  <1>8. CASE MarkPublished(p)
    BY <1>8 DEF MarkPublished
  <1>. QED
    BY <1>1, <1>2, <1>3, <1>4, <1>5, <1>6, <1>7, <1>8 DEF Service

LEMMA GoroutineKeeps == ASSUME IInv, NEW p \in Commands, Goroutine(p) PROVE IInv'
  <1>. USE DEF IInv, TypeOK, CallFits, SenderFits, RoutedInHistory,
           PublishedWasHandled, caller
  <1>1. CASE PersistInline(p)
    BY <1>1 DEF PersistInline
  <1>2. CASE Route(p)
    BY <1>2 DEF Route, GoesOn
  <1>3. CASE Reject(p)
    BY <1>3 DEF Reject
  <1>. QED BY <1>1, <1>2, <1>3 DEF Goroutine

LEMMA EnvironmentKeeps ==
    ASSUME IInv, (\E p \in Commands : Cancel(p)) \/ Crash \/ UNCHANGED vars
    PROVE  IInv'
  <1>. USE DEF IInv, TypeOK, CallFits, SenderFits, RoutedInHistory,
           PublishedWasHandled, sender
  <1>1. CASE \E p \in Commands : Cancel(p)
    BY <1>1 DEF Cancel
  <1>2. CASE Crash
    BY <1>2 DEF Crash
  <1>3. CASE UNCHANGED vars
    BY <1>3 DEF vars, caller
  <1>. QED BY <1>1, <1>2, <1>3

LEMMA Inductive == Spec => []IInv
  <1>1. IInv /\ [Next]_vars => IInv'
    BY ServiceKeeps, GoroutineKeeps, EnvironmentKeeps DEF Next
  <1>. QED BY <1>1, InitIInv, PTL DEF Spec

\* Every reachable state is well typed.
THEOREM TypeCorrect == Spec => []TypeOK
  <1>1. IInv => TypeOK
    BY DEF IInv
  <1>. QED BY <1>1, Inductive, PTL

\* A message of the console reaches subscribers only after its row is stored,
\* except one of QoS 1 that the hook has refused, which the library delivers to
\* them nevertheless.
THEOREM HistoryFirst == Spec => []RoutedInHistory
  <1>1. IInv => RoutedInHistory
    BY DEF IInv
  <1>. QED BY <1>1, Inductive, PTL

\* Nothing is on record as published before the library has finished with it.
THEOREM PublishedHandled == Spec => []PublishedWasHandled
  <1>1. IInv => PublishedWasHandled
    BY DEF IInv
  <1>. QED BY <1>1, Inductive, PTL

\* A row left pending by a call that has returned is explained step by step: no
\* step withdraws an explanation.
LEMMA ExplanationStep ==
    ASSUME IInv, PendingExplained, [Next]_vars
    PROVE  PendingExplained'
  <1>. USE DEF IInv, TypeOK, CallFits, PendingExplained
  <1>1. ASSUME NEW p \in Commands, Call(p) \/ CreatePublishCommand(p)
        PROVE  PendingExplained'
    BY <1>1 DEF Call, CreatePublishCommand, GoTo, Answer, sender
  <1>2. ASSUME NEW p \in Commands,
               \/ ServerPublish(p) \/ ReceiveDone(p) \/ ReceiveCancelled(p)
               \/ RecordAdminPublishTopic(p)
        PROVE  PendingExplained'
    BY <1>2 DEF ServerPublish, ReceiveDone, ReceiveCancelled,
         RecordAdminPublishTopic, GoTo, sender
  <1>3. ASSUME NEW p \in Commands, MarkFailed(p) \/ MarkPublished(p)
        PROVE  PendingExplained'
    BY <1>3 DEF MarkFailed, MarkPublished, Answer, sender
  <1>4. ASSUME NEW p \in Commands, Goroutine(p)
        PROVE  PendingExplained'
    BY <1>4 DEF Goroutine, PersistInline, Route, GoesOn, Reject, caller
  <1>5. ASSUME NEW p \in Commands, Cancel(p)
        PROVE  PendingExplained'
    BY <1>5 DEF Cancel, sender
  <1>6. CASE Crash
    BY <1>6 DEF Crash
  <1>7. CASE UNCHANGED vars
    BY <1>7 DEF vars, caller, sender
  <1>. QED
    BY <1>1, <1>2, <1>3, <1>4, <1>5, <1>6, <1>7 DEF Next, Service

\* A command whose call has returned is left pending only by a context that had
\* ended or by a mark that the database failed (publish.go ignores that error).
THEOREM PendingIsExplained == Spec => []PendingExplained
  <1>1. Init => PendingExplained
    BY DEF Init, PendingExplained
  <1>2. IInv /\ PendingExplained /\ [Next]_vars => PendingExplained'
    BY ExplanationStep
  <1>. QED BY <1>1, <1>2, Inductive, PTL DEF Spec

\* A step of the detailed specification is a step of the audit or none.
LEMMA StepRefines ==
    ASSUME IInv, [Next]_vars
    PROVE  [Audit!Next]_(Audit!vars)
  <1>. USE DEF Audit!vars, Audit!Next
  <1>1. ASSUME NEW p \in Commands, CreatePublishCommand(p)
        PROVE  Audit!Record(p) \/ UNCHANGED Audit!vars
    BY <1>1 DEF CreatePublishCommand, sender, Audit!Record, IInv, CallFits
  <1>2. ASSUME NEW p \in Commands, Route(p)
        PROVE  Audit!Deliver(p)
    BY <1>2 DEF Route, GoesOn, Audit!Deliver, IInv, SenderFits
  <1>3. ASSUME NEW p \in Commands, MarkPublished(p)
        PROVE  Audit!Settle(p) \/ UNCHANGED Audit!vars
    BY <1>3 DEF MarkPublished, sender, Audit!Settle, IInv, CallFits
  \* The context has not ended, so it is the library that failed the message.
  <1>4. ASSUME NEW p \in Commands, MarkFailed(p)
        PROVE  Audit!Fail(p) \/ UNCHANGED Audit!vars
    BY <1>4 DEF MarkFailed, Reaches, sender, Audit!Fail, IInv, CallFits, SenderFits
  <1>5. ASSUME NEW p \in Commands,
               \/ Call(p) \/ ServerPublish(p) \/ ReceiveDone(p)
               \/ ReceiveCancelled(p) \/ RecordAdminPublishTopic(p)
               \/ PersistInline(p) \/ Reject(p) \/ Cancel(p)
        PROVE  UNCHANGED Audit!vars
    BY <1>5 DEF Call, ServerPublish, ReceiveDone, ReceiveCancelled,
         RecordAdminPublishTopic, PersistInline, Reject, Cancel, sender
  <1>6. Crash \/ UNCHANGED vars => UNCHANGED Audit!vars
    BY DEF Crash, vars, sender
  <1>. QED
    BY <1>1, <1>2, <1>3, <1>4, <1>5, <1>6 DEF Next, Service, Goroutine

\* publish.go and server.go implement the audit: no message is sent off the
\* record, none is sent twice, and a verdict is never overtaken by a delivery.
THEOREM AuditImplemented == Spec => AuditSpec
  <1>1. Init => Audit!Init
    BY DEF Init, Audit!Init
  <1>2. IInv /\ [Next]_vars => [Audit!Next]_(Audit!vars)
    BY StepRefines
  <1>. QED
    BY <1>1, <1>2, Inductive, PTL DEF Spec, AuditSpec, Audit!Spec
=============================================================================
