---------------------------- MODULE RealtimeHub ----------------------------
(***************************************************************************)
(* The event stream of the console (internal/realtime/hub.go): Publish,    *)
(* called by the hooks of the ingestor for each event, and ServeHTTP, one  *)
(* handler per browser, which subscribes with a buffered channel and       *)
(* copies its events to a websocket.                                       *)
(*                                                                         *)
(* The set of subscribers is under a sync.RWMutex.  Publish sends under    *)
(* the read lock and drops what does not fit; a handler adds and closes    *)
(* its own channel under the write lock.  A writer that waits for the lock *)
(* keeps new readers out, so `writer` is set before the lock is held: it   *)
(* is held once no publisher reads.                                        *)
(*                                                                         *)
(* A channel is named by the handler that made it.  It is closed by that   *)
(* handler alone, when it returns, so the handler never receives from a    *)
(* closed channel; events are values that json.Marshal accepts.  Those two *)
(* branches of ServeHTTP are never taken.                                  *)
(***************************************************************************)
EXTENDS Naturals, Sequences

CONSTANTS
    Handlers,     \* calls of ServeHTTP, and the channels they make
    Publishers,   \* goroutines that publish, one event after the other
    Buffer,       \* the size of a channel
    MaxEvents,    \* bound: the events of each publisher
    None          \* nobody has asked for the write lock

ASSUME HubAssumption ==
    /\ Buffer \in Nat \ {0}
    /\ MaxEvents \in [Publishers -> Nat]
    /\ None \notin Handlers

VARIABLES
    call,          \* where each publisher is
    sent,          \* the number of events it has published
    todo,          \* the channels its loop has still to visit
    writer,        \* the handler that holds or awaits the write lock
    subscribers,   \* Hub.subscribers
    closed,        \* the channels that have been closed
    queue,         \* what each channel holds
    at,            \* where each handler is
    hand,          \* the event that it has received and not yet written
    seen,          \* history: what it has written to its websocket
    gone           \* the handlers whose websocket is known to be broken

publishing == <<call, sent, todo>>
hub        == <<writer, subscribers, closed>>
serving    == <<at, hand, seen>>
vars       == <<publishing, hub, queue, serving, gone>>

Event == [from : Publishers, n : Nat]

Init ==
    /\ call = [p \in Publishers |-> "idle"]
    /\ sent = [p \in Publishers |-> 0]
    /\ todo = [p \in Publishers |-> {}]
    /\ writer = None
    /\ subscribers = {}
    /\ closed = {}
    /\ queue = [h \in Handlers |-> <<>>]
    /\ at = [h \in Handlers |-> "new"]
    /\ hand = [h \in Handlers |-> <<>>]
    /\ seen = [h \in Handlers |-> <<>>]
    /\ gone = {}

(***************************************************************************)
(* Publish.                                                                *)
(***************************************************************************)
Unread == \A p \in Publishers : call[p] # "sending"

Current(p) == [from |-> p, n |-> sent[p]]

Call(p) ==
    /\ call[p] = "idle"
    /\ sent[p] < MaxEvents[p]
    /\ sent' = [sent EXCEPT ![p] = @ + 1]
    /\ call' = [call EXCEPT ![p] = "calling"]
    /\ UNCHANGED <<todo, hub, queue, serving, gone>>

RLock(p) ==
    /\ call[p] = "calling"
    /\ writer = None
    /\ call' = [call EXCEPT ![p] = "sending"]
    /\ todo' = [todo EXCEPT ![p] = subscribers]
    /\ UNCHANGED <<sent, hub, queue, serving, gone>>

Visit(p, h) ==
    /\ h \in todo[p]
    /\ todo' = [todo EXCEPT ![p] = @ \ {h}]
    /\ UNCHANGED <<call, sent, hub, serving, gone>>

\* Broken variant: no default branch, so a full channel makes the loop wait.
SendBlocking(p, h) ==
    /\ Visit(p, h)
    /\ Len(queue[h]) < Buffer
    /\ queue' = [queue EXCEPT ![h] = Append(@, Current(p))]

Send(p, h) ==
    /\ Visit(p, h)
    /\ \/ /\ Len(queue[h]) < Buffer
          /\ queue' = [queue EXCEPT ![h] = Append(@, Current(p))]
       \/ /\ Len(queue[h]) = Buffer
          /\ UNCHANGED queue

RUnlock(p) ==
    /\ call[p] = "sending"
    /\ todo[p] = {}
    /\ call' = [call EXCEPT ![p] = "idle"]
    /\ UNCHANGED <<sent, todo, hub, queue, serving, gone>>

(***************************************************************************)
(* ServeHTTP.                                                              *)
(***************************************************************************)
\* The upgrade to a websocket may fail, and that ends the call.
Upgrade(h) ==
    /\ at[h] = "new"
    /\ \E next \in {"joining", "ended"} : at' = [at EXCEPT ![h] = next]
    /\ UNCHANGED <<publishing, hub, queue, hand, seen, gone>>

Lock(h) ==
    /\ at[h] \in {"joining", "leaving"}
    /\ writer = None
    /\ writer' = h
    /\ UNCHANGED <<publishing, subscribers, closed, queue, serving, gone>>

Subscribe(h) ==
    /\ at[h] = "joining"
    /\ writer = h
    /\ Unread
    /\ subscribers' = subscribers \cup {h}
    /\ writer' = None
    /\ at' = [at EXCEPT ![h] = "selecting"]
    /\ UNCHANGED <<publishing, closed, queue, hand, seen, gone>>

\* Broken variant: cancel closes the channel without waiting for the readers.
CancelUnlocked(h) ==
    /\ at[h] = "leaving"
    /\ writer = h
    /\ subscribers' = subscribers \ {h}
    /\ closed' = closed \cup {h}
    /\ writer' = None
    /\ at' = [at EXCEPT ![h] = "ended"]
    /\ UNCHANGED <<publishing, queue, hand, seen, gone>>

Cancel(h) == Unread /\ CancelUnlocked(h)

Receive(h) ==
    /\ at[h] = "selecting"
    /\ queue[h] # <<>>
    /\ hand' = [hand EXCEPT ![h] = <<Head(queue[h])>>]
    /\ queue' = [queue EXCEPT ![h] = Tail(@)]
    /\ at' = [at EXCEPT ![h] = "writing"]
    /\ UNCHANGED <<publishing, hub, seen, gone>>

\* The context of the request ends; the select may still prefer an event.
ContextDone(h) ==
    /\ at[h] = "selecting"
    /\ at' = [at EXCEPT ![h] = "leaving"]
    /\ UNCHANGED <<publishing, hub, queue, hand, seen, gone>>

\* Broken variant: a write that is slow puts the event back.
WriteOrRequeue(h) ==
    /\ at[h] = "writing"
    /\ h \notin gone
    /\ hand' = [hand EXCEPT ![h] = <<>>]
    /\ \/ seen' = [seen EXCEPT ![h] = @ \o hand[h]] /\ UNCHANGED queue
       \/ /\ Len(queue[h]) < Buffer
          /\ queue' = [queue EXCEPT ![h] = @ \o hand[h]]
          /\ UNCHANGED seen
    /\ at' = [at EXCEPT ![h] = "selecting"]
    /\ UNCHANGED <<publishing, hub, gone>>

\* The write has no deadline: it waits for a browser that does not read.
Write(h) ==
    /\ at[h] = "writing"
    /\ h \notin gone
    /\ seen' = [seen EXCEPT ![h] = @ \o hand[h]]
    /\ hand' = [hand EXCEPT ![h] = <<>>]
    /\ at' = [at EXCEPT ![h] = "selecting"]
    /\ UNCHANGED <<publishing, hub, queue, gone>>

\* Broken variant: the handler goes on after a failed write.
WriteErrorIgnored(h) ==
    /\ at[h] = "writing"
    /\ h \in gone
    /\ hand' = [hand EXCEPT ![h] = <<>>]
    /\ at' = [at EXCEPT ![h] = "selecting"]
    /\ UNCHANGED <<publishing, hub, queue, seen, gone>>

WriteError(h) ==
    /\ at[h] = "writing"
    /\ h \in gone
    /\ hand' = [hand EXCEPT ![h] = <<>>]
    /\ at' = [at EXCEPT ![h] = "leaving"]
    /\ UNCHANGED <<publishing, hub, queue, seen, gone>>

\* The browser has left, and the server's socket has come to know it.  Before
\* that a write still succeeds, also the first one after the browser has closed.
\* Nothing reads from the websocket, so the handler finds out with a write.
Break(h) ==
    /\ at[h] \in {"joining", "selecting", "writing"}
    /\ h \notin gone
    /\ gone' = gone \cup {h}
    /\ UNCHANGED <<publishing, hub, queue, serving>>

Publish(p) == RLock(p) \/ (\E h \in Handlers : Send(p, h)) \/ RUnlock(p)

Serve(h) == Lock(h) \/ Subscribe(h) \/ Cancel(h) \/ Receive(h) \/ WriteError(h)

Next ==
    \/ \E p \in Publishers : Call(p) \/ Publish(p)
    \/ \E h \in Handlers :
           \/ Upgrade(h) \/ Serve(h)
           \/ ContextDone(h) \/ Write(h) \/ Break(h)

Spec == Init /\ [][Next]_vars

\* Goroutines that can run do.  Nothing is assumed of browsers, nor of the
\* context: the server gives up watching a connection that is a websocket.
FairSpec ==
    /\ Spec
    /\ \A p \in Publishers : WF_vars(Publish(p))
    /\ \A h \in Handlers : WF_vars(Serve(h))

(***************************************************************************)
(* Properties.                                                             *)
(***************************************************************************)
\* hub.go keeps every variable in its type, and every channel in its size.
TypeOK ==
    /\ call \in [Publishers -> {"idle", "calling", "sending"}]
    /\ sent \in [Publishers -> Nat]
    /\ todo \in [Publishers -> SUBSET Handlers]
    /\ writer \in Handlers \cup {None}
    /\ subscribers \subseteq Handlers
    /\ closed \subseteq Handlers
    /\ queue \in [Handlers -> Seq(Event)]
    /\ at \in [Handlers -> {"new", "joining", "selecting", "writing", "leaving",
                            "ended"}]
    /\ hand \in [Handlers -> Seq(Event)]
    /\ seen \in [Handlers -> Seq(Event)]
    /\ gone \subseteq Handlers
    /\ \A h \in Handlers : Len(queue[h]) =< Buffer

\* A channel is not closed while a publisher has still to visit it: to send on
\* a closed channel would bring the process down (hub.go, Publish and cancel).
NoSendOnClosed == \A p \in Publishers : todo[p] \cap closed = {}

\* A browser sees the events of a publisher in the order of publication and none
\* twice, though it may miss some: written, in hand and queued, oldest first.
Stream(h) == seen[h] \o hand[h] \o queue[h]

InOrder ==
    \A h \in Handlers :
        \A i, j \in 1..Len(Stream(h)) :
            i < j /\ Stream(h)[i].from = Stream(h)[j].from
                => Stream(h)[i].n < Stream(h)[j].n

\* Publish returns, whatever browsers do: one that does not read, a handler
\* that never ends its write, or a buffer that is full holds up no hook.
PublishersReturn ==
    \A p \in Publishers : call[p] = "calling" ~> call[p] = "idle"

\* The first event that reaches the handler of a websocket which is known to be
\* broken ends it, and its channel is given up.
GoneAreNoticed ==
    \A h \in Handlers :
        h \in gone /\ at[h] = "writing" ~> at[h] = "ended" /\ h \in closed
=============================================================================
