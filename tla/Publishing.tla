----------------------------- MODULE Publishing -----------------------------
(***************************************************************************)
(* The publication of a message by the console: PublishService.Publish     *)
(* (internal/service/publish.go), the goroutine that broker.Server.Publish *)
(* hands the message to (internal/broker/server.go), and the rows of       *)
(* `publish_commands` and `mqtt_messages`.                                 *)
(*                                                                         *)
(* A command stands for one call and the fresh id it draws.  The caller's  *)
(* context may be cancelled at any time (the HTTP client leaves, the       *)
(* process shuts down); the goroutine does not see that and goes on.  The  *)
(* library runs the ingestion hook inside it, which persists the message   *)
(* under a deadline of its own.  When the hook returns an error, the       *)
(* library drops a message of QoS 0, and what it then answers is left      *)
(* open; one of QoS 1 it delivers all the same, because the inline client  *)
(* that it publishes as does not speak MQTT 5.                             *)
(***************************************************************************)
CONSTANTS
    Commands,    \* calls of Publish
    QoS1         \* those that ask for QoS 1; the others ask for QoS 0

ASSUME PublishingAssumption == QoS1 \subseteq Commands

VARIABLES
    step,        \* where each call of Publish is
    outcome,     \* what it has told its caller
    cancelled,   \* the calls whose context is done
    row,         \* status of the command's row in publish_commands
    wire,        \* where the goroutine that runs the library's Publish is
    stored,      \* the commands whose message is a row of mqtt_messages
    routed,      \* the commands whose message the library delivered
    lost,        \* history: the marks that the database failed to make
    refused      \* history: the messages whose write the hook took for failed

caller == <<step, outcome, cancelled, lost>>
sender == <<wire, stored, routed, refused>>
vars   == <<caller, row, sender>>

Init ==
    /\ step = [p \in Commands |-> "idle"]
    /\ outcome = [p \in Commands |-> "none"]
    /\ cancelled = {}
    /\ row = [p \in Commands |-> "absent"]
    /\ wire = [p \in Commands |-> "none"]
    /\ stored = {}
    /\ routed = {}
    /\ lost = {}
    /\ refused = {}

(***************************************************************************)
(* A statement under the caller's context.  One that is issued after the   *)
(* context is done never reaches the database; any other may fail, whether *)
(* or not it was carried out.                                              *)
(***************************************************************************)
Reaches(p) == p \notin cancelled

GoTo(p, next) == step' = [step EXCEPT ![p] = next]

Answer(p, result) ==
    /\ step' = [step EXCEPT ![p] = "returned"]
    /\ outcome' = [outcome EXCEPT ![p] = result]

\* A command that fails validation is answered before anything is recorded: a
\* stuttering step.
Call(p) ==
    /\ step[p] = "idle"
    /\ GoTo(p, "create")
    /\ UNCHANGED <<outcome, cancelled, lost, row, sender>>

CreatePublishCommand(p) ==
    /\ step[p] = "create"
    /\ \/ /\ Reaches(p)
          /\ row' = [row EXCEPT ![p] = "pending"]
          /\ \/ GoTo(p, "publish") /\ UNCHANGED outcome
             \/ Answer(p, "error")
       \/ Answer(p, "error") /\ UNCHANGED row
    /\ UNCHANGED <<cancelled, lost, sender>>

\* broker.Server.Publish starts its goroutine and waits.
ServerPublish(p) ==
    /\ step[p] = "publish"
    /\ wire' = [wire EXCEPT ![p] = "running"]
    /\ GoTo(p, "wait")
    /\ UNCHANGED <<outcome, cancelled, lost, row, stored, routed, refused>>

\* Broken variant: the library's error is not looked at.
ReceiveAnything(p) ==
    /\ step[p] = "wait"
    /\ wire[p] \in {"done", "failed"}
    /\ GoTo(p, "record_topic")
    /\ UNCHANGED <<outcome, cancelled, lost, row, sender>>

ReceiveDone(p) ==
    /\ step[p] = "wait"
    /\ \/ wire[p] = "done"   /\ GoTo(p, "record_topic")
       \/ wire[p] = "failed" /\ GoTo(p, "mark_failed")
    /\ UNCHANGED <<outcome, cancelled, lost, row, sender>>

\* Broken variant: the call waits for the library only.
ReceiveNeverCancelled(p) == FALSE /\ ReceiveDone(p)

ReceiveCancelled(p) ==
    /\ step[p] = "wait"
    /\ p \in cancelled
    /\ GoTo(p, "mark_failed")
    /\ UNCHANGED <<outcome, cancelled, lost, row, sender>>

\* Broken variant: the mark is made with a context that outlives the caller's.
MarkFailedDetached(p) ==
    /\ step[p] = "mark_failed"
    /\ row' = [row EXCEPT ![p] = "failed"]
    /\ Answer(p, "error")
    /\ UNCHANGED <<cancelled, lost, sender>>

\* Broken variant: the mark is left out.
MarkFailedForgotten(p) ==
    /\ step[p] = "mark_failed"
    /\ Answer(p, "error")
    /\ UNCHANGED <<cancelled, lost, row, sender>>

\* The result of the mark is ignored: the caller gets the broker's error.
MarkFailed(p) ==
    /\ step[p] = "mark_failed"
    /\ \/ Reaches(p) /\ row' = [row EXCEPT ![p] = "failed"] /\ UNCHANGED lost
       \/ lost' = lost \cup {p} /\ UNCHANGED row
    /\ Answer(p, "error")
    /\ UNCHANGED <<cancelled, sender>>

\* Its result is ignored too; the hook has recorded the same topic already.
RecordAdminPublishTopic(p) ==
    /\ step[p] = "record_topic"
    /\ GoTo(p, "mark_published")
    /\ UNCHANGED <<outcome, cancelled, lost, row, sender>>

MarkPublished(p) ==
    /\ step[p] = "mark_published"
    /\ \/ /\ Reaches(p)
          /\ row' = [row EXCEPT ![p] = "published"]
          /\ \E result \in {"published", "error"} : Answer(p, result)
          /\ UNCHANGED lost
       \/ /\ lost' = lost \cup {p}
          /\ Answer(p, "error")
          /\ UNCHANGED row
    /\ UNCHANGED <<cancelled, sender>>

(***************************************************************************)
(* The goroutine: the library runs the hook, then delivers.                *)
(***************************************************************************)
\* Broken variant: the hook lets the message through without its row.
PersistBestEffort(p) ==
    /\ wire[p] = "running"
    /\ stored' \in {stored, stored \cup {p}}
    /\ wire' = [wire EXCEPT ![p] = "accepted"]
    /\ UNCHANGED <<caller, row, routed, refused>>

\* PersistBeforeRoute for the inline client.  A write that the hook reports as
\* failed may have been made, or be made later.
PersistInline(p) ==
    /\ wire[p] = "running"
    /\ \/ /\ stored' = stored \cup {p}
          /\ wire' = [wire EXCEPT ![p] = "accepted"]
          /\ UNCHANGED refused
       \/ /\ stored' \in {stored, stored \cup {p}}
          /\ wire' = [wire EXCEPT ![p] = "refused"]
          /\ refused' = refused \cup {p}
    /\ UNCHANGED <<caller, row, routed>>

\* ErrServerBusy, the hook's answer for QoS 1, does not stop the library.
GoesOn(p) == wire[p] = "accepted" \/ (wire[p] = "refused" /\ p \in QoS1)

\* Broken variant: the channel has no buffer, so the answer needs a receiver.
RouteUnbuffered(p) ==
    /\ GoesOn(p)
    /\ step[p] = "wait"
    /\ routed' = routed \cup {p}
    /\ wire' = [wire EXCEPT ![p] = "done"]
    /\ UNCHANGED <<caller, row, stored, refused>>

Route(p) ==
    /\ GoesOn(p)
    /\ routed' = routed \cup {p}
    /\ wire' = [wire EXCEPT ![p] = "done"]
    /\ UNCHANGED <<caller, row, stored, refused>>

\* ErrRejectPacket, its answer for QoS 0, does.
Reject(p) ==
    /\ wire[p] = "refused"
    /\ p \notin QoS1
    /\ \E w \in {"done", "failed"} : wire' = [wire EXCEPT ![p] = w]
    /\ UNCHANGED <<caller, row, stored, routed, refused>>

(***************************************************************************)
(* The environment.                                                        *)
(***************************************************************************)
Cancel(p) ==
    /\ step[p] \notin {"idle", "returned"}
    /\ p \notin cancelled
    /\ cancelled' = cancelled \cup {p}
    /\ UNCHANGED <<step, outcome, lost, row, sender>>

\* Nothing of a call survives the process but its rows, and nothing looks at a
\* pending command again.  A call that has not begun is made later.
Crash ==
    /\ \E p \in Commands : step[p] \notin {"idle", "cut"}
    /\ step' = [p \in Commands |-> IF step[p] = "idle" THEN "idle" ELSE "cut"]
    /\ wire' = [p \in Commands |->
                   IF wire[p] \in {"none", "done", "failed"} THEN wire[p]
                                                            ELSE "cut"]
    /\ UNCHANGED <<outcome, cancelled, lost, row, stored, routed, refused>>

Service(p) ==
    \/ Call(p) \/ CreatePublishCommand(p) \/ ServerPublish(p)
    \/ ReceiveDone(p) \/ ReceiveCancelled(p)
    \/ MarkFailed(p) \/ RecordAdminPublishTopic(p) \/ MarkPublished(p)

Goroutine(p) == PersistInline(p) \/ Route(p) \/ Reject(p)

Next ==
    \/ \E p \in Commands : Service(p) \/ Goroutine(p) \/ Cancel(p)
    \/ Crash

Spec == Init /\ [][Next]_vars

\* Statements are answered, and the library delivers or rejects what the hook
\* has judged.  The hook itself may block for as long as its alert does.
FairSpec ==
    /\ Spec
    /\ \A p \in Commands :
          /\ WF_vars(Service(p) /\ step[p] # "idle")
          /\ WF_vars(Route(p) \/ Reject(p))

(***************************************************************************)
(* Properties.                                                             *)
(***************************************************************************)
\* publish.go and server.go keep every variable in its type.
TypeOK ==
    /\ step \in [Commands -> {"idle", "create", "publish", "wait", "mark_failed",
                              "record_topic", "mark_published", "returned",
                              "cut"}]
    /\ outcome \in [Commands -> {"none", "published", "error"}]
    /\ cancelled \subseteq Commands
    /\ row \in [Commands -> {"absent", "pending", "published", "failed"}]
    /\ wire \in [Commands -> {"none", "running", "accepted", "refused", "done",
                              "failed", "cut"}]
    /\ stored \subseteq Commands
    /\ routed \subseteq Commands
    /\ lost \subseteq Commands
    /\ refused \subseteq Commands

\* The audit keeps its promise, whenever the caller's context ends and whatever
\* the goroutine it no longer waits for does (publish.go, server.go).
Audit == INSTANCE CommandAudit WITH Commands <- Commands, row <- row, routed <- routed
AuditSpec == Audit!Spec

\* A message of the console is in the history before subscribers see it, unless
\* it is of QoS 1 and the hook took its write for failed: then the library has
\* delivered it against the hook's answer (hook.go, OnPublish).
RoutedInHistory == routed \ stored \subseteq QoS1 \cap refused

\* A command is on record as published, and its caller is told so, only when
\* the library has finished with the message without an error.  A message of
\* QoS 0 that it dropped at the hook's word may count among these.
PublishedWasHandled ==
    \A p \in Commands :
        /\ row[p] = "published" => wire[p] = "done"
        /\ outcome[p] = "published" => row[p] = "published"

\* A command whose call has returned stays pending only if its context had
\* ended or the database failed the mark (the result of the mark is ignored).
PendingExplained ==
    \A p \in Commands :
        step[p] = "returned" /\ row[p] = "pending" =>
            \/ p \in cancelled
            \/ p \in lost
            \/ wire[p] = "none"

\* A caller that goes away frees its call, however long the hook takes.
CancelledCallsReturn ==
    \A p \in Commands :
        p \in cancelled ~> step[p] \in {"returned", "cut"}

\* The goroutine ends once the library has delivered or rejected the message,
\* also when nobody waits for its answer any more.
GoroutinesEnd ==
    \A p \in Commands : wire[p] \in {"accepted", "refused"}
                            ~> wire[p] \in {"done", "failed", "cut"}
=============================================================================
