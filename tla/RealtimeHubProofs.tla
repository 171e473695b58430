-------------------------- MODULE RealtimeHubProofs -------------------------
(***************************************************************************)
(* For any number of publishers and browsers and any size of channel: the  *)
(* hub never sends on a closed channel, and what a browser receives of a   *)
(* publisher is in order.                                                  *)
(***************************************************************************)
EXTENDS RealtimeHub, SequenceTheorems, TLAPS

(***************************************************************************)
(* The invariant of the lock: while a publisher has channels to visit it   *)
(* holds the read lock, and they are subscribed; a closed one is not, and  *)
(* its handler has ended, so that it never subscribes again.               *)
(***************************************************************************)
LockInv ==
    /\ TypeOK
    /\ \A p \in Publishers :
          /\ todo[p] \subseteq subscribers
          /\ todo[p] # {} => call[p] = "sending"
    /\ subscribers \cap closed = {}
    /\ \A h \in closed : at[h] = "ended"

LEMMA InitLockInv == Init => LockInv
  BY HubAssumption DEF Init, LockInv, TypeOK

LEMMA PublishKeepsLock ==
  ASSUME LockInv, NEW p \in Publishers, Call(p) \/ Publish(p)
  PROVE  LockInv'
  <1>. USE HubAssumption DEF LockInv, TypeOK, publishing, hub, serving
  <1>1. CASE Call(p)
    BY <1>1 DEF Call
  <1>2. CASE RLock(p)
    BY <1>2 DEF RLock
  <1>3. ASSUME NEW h \in Handlers, Send(p, h) PROVE LockInv'
    <2>1. /\ Append(queue[h], Current(p)) \in Seq(Event)
          /\ Len(Append(queue[h], Current(p))) = Len(queue[h]) + 1
      <3>1. Current(p) \in Event /\ queue[h] \in Seq(Event)
        BY DEF Current, Event
      <3>. QED
        BY <3>1
    <2>2. \/ queue' = queue
          \/ /\ queue' = [queue EXCEPT ![h] = Append(@, Current(p))]
             /\ Len(queue[h]) < Buffer
      BY <1>3 DEF Send
    <2>3. /\ queue' \in [Handlers -> Seq(Event)]
          /\ \A g \in Handlers : Len(queue'[g]) =< Buffer
      <3>1. CASE queue' = queue
        BY <3>1
      <3>2. CASE /\ queue' = [queue EXCEPT ![h] = Append(@, Current(p))]
                 /\ Len(queue[h]) < Buffer
        <4>1. Len(Append(queue[h], Current(p))) =< Buffer
          BY <2>1, <3>2
        <4>. QED
          BY <2>1, <3>2, <4>1
      <3>. QED
        BY <2>2, <3>1, <3>2
    <2>. QED
      BY <1>3, <2>3 DEF Send, Visit
  <1>4. CASE RUnlock(p)
    BY <1>4 DEF RUnlock
  <1>. QED
    BY <1>1, <1>2, <1>3, <1>4 DEF Publish

LEMMA ServeKeepsLock ==
  ASSUME LockInv, NEW h \in Handlers,
         \/ Upgrade(h) \/ Serve(h)
         \/ ContextDone(h) \/ Write(h) \/ Break(h)
  PROVE  LockInv'
  <1>. USE HubAssumption DEF LockInv, TypeOK, publishing, hub, serving
  <1>1. CASE Upgrade(h)
    BY <1>1 DEF Upgrade
  <1>2. CASE Lock(h)
    BY <1>2 DEF Lock
  <1>3. CASE Subscribe(h)
    <2>1. subscribers' \cap closed' = {}
      BY <1>3 DEF Subscribe
    <2>. QED
      BY <1>3, <2>1 DEF Subscribe
  <1>4. CASE Cancel(h)
    <2>1. \A p \in Publishers : todo'[p] = {}
      BY <1>4 DEF Cancel, CancelUnlocked, Unread
    <2>2. subscribers' \cap closed' = {}
      BY <1>4 DEF Cancel, CancelUnlocked
    <2>. QED
      BY <1>4, <2>1, <2>2 DEF Cancel, CancelUnlocked
  <1>5. CASE Receive(h)
    <2>1. /\ Head(queue[h]) \in Event
          /\ Tail(queue[h]) \in Seq(Event)
          /\ Len(Tail(queue[h])) =< Buffer
      BY <1>5 DEF Receive
    <2>2. hand' \in [Handlers -> Seq(Event)]
      BY <1>5, <2>1 DEF Receive
    <2>. QED
      BY <1>5, <2>1, <2>2 DEF Receive
  <1>6. CASE WriteError(h)
    BY <1>6 DEF WriteError
  <1>7. CASE ContextDone(h)
    BY <1>7 DEF ContextDone
  <1>8. CASE Write(h)
    BY <1>8 DEF Write
  <1>9. CASE Break(h)
    BY <1>9 DEF Break
  <1>. QED
    BY <1>1, <1>2, <1>3, <1>4, <1>5, <1>6, <1>7, <1>8, <1>9 DEF Serve

LEMMA LockInvariant == Spec => []LockInv
  <1>1. LockInv /\ [Next]_vars => LockInv'
    <2>1. CASE Next
      BY <2>1, PublishKeepsLock, ServeKeepsLock DEF Next
    <2>2. CASE UNCHANGED vars
      BY <2>2 DEF LockInv, TypeOK, vars, publishing, hub, serving
    <2>. QED
      BY <2>1, <2>2
  <1>. QED
    BY InitLockInv, <1>1, PTL DEF Spec

\* hub.go: a channel never holds more than its buffer, and every variable keeps
\* its type.
THEOREM TypeCorrect == Spec => []TypeOK
  <1>1. LockInv => TypeOK
    BY DEF LockInv
  <1>. QED
    BY LockInvariant, <1>1, PTL

\* hub.go, Publish and cancel: no publisher sends on a closed channel, whenever
\* browsers come and go.
THEOREM SendsAreSafe == Spec => []NoSendOnClosed
  <1>1. LockInv => NoSendOnClosed
    BY DEF LockInv, NoSendOnClosed
  <1>. QED
    BY LockInvariant, <1>1, PTL

(***************************************************************************)
(* The invariant of the order: what has reached a browser or is on its way *)
(* is in order and no later than the publisher's count; and as long as a   *)
(* publisher has still to visit the channel, its event is later than all.  *)
(***************************************************************************)
Ordered(s) ==
    \A i, j \in 1..Len(s) :
        i < j /\ s[i].from = s[j].from => s[i].n < s[j].n

Past(s) == \A i \in 1..Len(s) : s[i].n =< sent[s[i].from]

Before(s, e) == \A i \in 1..Len(s) : s[i].from = e.from => s[i].n < e.n

Owes(p, h) == call[p] = "calling" \/ h \in todo[p]

OrderInv ==
    /\ LockInv
    /\ \A h \in Handlers :
          /\ IF at[h] = "writing" THEN Len(hand[h]) = 1 ELSE hand[h] = <<>>
          /\ Ordered(Stream(h))
          /\ Past(Stream(h))
          /\ \A p \in Publishers : Owes(p, h) => Before(Stream(h), Current(p))

LEMMA StreamType ==
  ASSUME TypeOK, NEW h \in Handlers
  PROVE  /\ Stream(h) \in Seq(Event)
         /\ \A i \in 1..Len(Stream(h)) : /\ Stream(h)[i].n \in Nat
                                       /\ Stream(h)[i].from \in Publishers
                                       /\ sent[Stream(h)[i].from] \in Nat
  <1>1. Stream(h) \in Seq(Event)
    BY DEF TypeOK, Stream
  <1>2. \A i \in 1..Len(Stream(h)) : Stream(h)[i] \in Event
    BY <1>1
  <1>. QED
    BY <1>1, <1>2 DEF TypeOK, Event

LEMMA ConcatAppend ==
  ASSUME NEW a \in Seq(Event), NEW b \in Seq(Event), NEW e \in Event
  PROVE  a \o Append(b, e) = Append(a \o b, e)
  <1>1. Append(b, e) = b \o <<e>> /\ Append(a \o b, e) = (a \o b) \o <<e>>
    BY AppendIsConcat
  <1>2. <<e>> \in Seq(Event)
    OBVIOUS
  <1>. QED
    BY <1>1, <1>2, ConcatAssociative

LEMMA AppendOrdered ==
  ASSUME NEW s \in Seq(Event), NEW e \in Event, Ordered(s), Before(s, e)
  PROVE  Ordered(Append(s, e))
  <1>1. /\ Len(Append(s, e)) = Len(s) + 1
        /\ \A i \in 1..Len(s) : Append(s, e)[i] = s[i]
        /\ Append(s, e)[Len(s) + 1] = e
    BY AppendProperties
  <1>. QED
    BY <1>1 DEF Ordered, Before

LEMMA HeadMoves ==
  ASSUME NEW a \in Seq(Event), NEW b \in Seq(Event), b # <<>>
  PROVE  (a \o <<Head(b)>>) \o Tail(b) = a \o b
  <1>1. <<Head(b)>> \in Seq(Event) /\ Tail(b) \in Seq(Event)
    OBVIOUS
  <1>2. <<Head(b)>> \o Tail(b) = b
    OBVIOUS
  <1>. QED
    BY <1>1, <1>2, ConcatAssociative

\* A stream from which a middle part is taken out is still in order, and holds
\* nothing that was not there.
LEMMA Excise ==
  ASSUME NEW a \in Seq(Event), NEW b \in Seq(Event), NEW c \in Seq(Event)
  PROVE  /\ \A i \in 1..Len(a \o c) :
               \E j \in 1..Len((a \o b) \o c) : (a \o c)[i] = ((a \o b) \o c)[j]
         /\ Ordered((a \o b) \o c) => Ordered(a \o c)
  <1>. DEFINE old == (a \o b) \o c
              new == a \o c
              pos(i) == IF i =< Len(a) THEN i ELSE i + Len(b)
  <1>1. /\ Len(a) \in Nat /\ Len(b) \in Nat /\ Len(c) \in Nat
        /\ Len(new) = Len(a) + Len(c)
        /\ Len(old) = Len(a) + Len(b) + Len(c)
    BY ConcatProperties
  <1>2. ASSUME NEW i \in 1..Len(new)
        PROVE  pos(i) \in 1..Len(old) /\ new[i] = old[pos(i)]
    <2>1. CASE i =< Len(a)
      BY <1>1, <2>1, ConcatProperties
    <2>2. CASE i > Len(a)
      BY <1>1, <2>2, ConcatProperties
    <2>. QED
      BY <1>1, <2>1, <2>2
  <1>3. ASSUME NEW i \in 1..Len(new), NEW j \in 1..Len(new), i < j
        PROVE  pos(i) < pos(j)
    BY <1>1, <1>3
  <1>. HIDE DEF pos, old, new
  <1>4. ASSUME Ordered(old) PROVE Ordered(new)
    BY <1>2, <1>3, <1>4 DEF Ordered
  <1>. QED
    BY <1>2, <1>4 DEF old, new

LEMMA InitOrderInv == Init => OrderInv
  <1>. SUFFICES ASSUME Init PROVE OrderInv
    OBVIOUS
  <1>1. \A h \in Handlers : Stream(h) = <<>>
    <2>1. <<>> \in Seq(Event)
      OBVIOUS
    <2>. QED
      BY <2>1, ConcatEmptySeq DEF Init, Stream
  <1>. QED
    BY <1>1, InitLockInv DEF Init, OrderInv, Ordered, Past, Before, Owes

LEMMA PublishKeepsOrder ==
  ASSUME OrderInv, NEW p \in Publishers, Call(p) \/ Publish(p)
  PROVE  OrderInv'
  <1>1. LockInv'
    BY PublishKeepsLock DEF OrderInv
  <1>2. \A g \in Handlers :
           IF at'[g] = "writing" THEN Len(hand'[g]) = 1 ELSE hand'[g] = <<>>
    BY DEF OrderInv, Call, Publish, RLock, Send, Visit, RUnlock, serving
  <1>3. \A g \in Handlers :
           /\ Stream(g) \in Seq(Event)
           /\ \A i \in 1..Len(Stream(g)) :
                 /\ Stream(g)[i].n \in Nat
                 /\ Stream(g)[i].from \in Publishers
                 /\ sent[Stream(g)[i].from] \in Nat
    BY StreamType DEF OrderInv, LockInv
  <1>. USE DEF TypeOK, LockInv, OrderInv
  <1>4. CASE Call(p)
    <2>1. \A g \in Handlers : Stream(g)' = Stream(g)
      BY <1>4 DEF Call, Stream, serving
    <2>0. /\ sent'[p] = sent[p] + 1
          /\ \A q \in Publishers : sent'[q] >= sent[q]
          /\ \A q \in Publishers : q # p => sent'[q] = sent[q]
      BY <1>4 DEF Call
    <2>2. ASSUME NEW g \in Handlers PROVE Past(Stream(g))'
      <3>1. ASSUME NEW i \in 1..Len(Stream(g))
            PROVE  Stream(g)[i].n =< sent'[Stream(g)[i].from]
        <4>1. /\ Stream(g)[i].n =< sent[Stream(g)[i].from]
              /\ sent'[Stream(g)[i].from] \in Nat
          BY <1>1, <1>3 DEF Past
        <4>. QED
          BY <1>3, <2>0, <4>1
      <3>. QED
        BY <2>1, <3>1 DEF Past
    <2>3. ASSUME NEW g \in Handlers, NEW q \in Publishers, Owes(q, g)'
          PROVE  Before(Stream(g), Current(q))'
      <3>1. CASE q = p
        <4>1. ASSUME NEW i \in 1..Len(Stream(g)), Stream(g)[i].from = p
              PROVE  Stream(g)[i].n < sent'[p]
          <5>1. Stream(g)[i].n =< sent[p]
            BY <4>1 DEF Past
          <5>. QED
            BY <1>3, <2>0, <4>1, <5>1
        <4>. QED
          BY <2>1, <3>1, <4>1 DEF Before, Current
      <3>2. CASE q # p
        BY <1>4, <2>1, <2>3, <3>2 DEF Owes, Before, Current, Call
      <3>. QED
        BY <3>1, <3>2
    <2>. QED
      BY <1>1, <1>2, <2>1, <2>2, <2>3 DEF Ordered
  <1>5. CASE RLock(p) \/ RUnlock(p)
    <2>1. /\ \A g \in Handlers : Stream(g)' = Stream(g)
          /\ sent' = sent
      BY <1>5 DEF RLock, RUnlock, Stream, serving
    <2>2. ASSUME NEW g \in Handlers, NEW q \in Publishers, Owes(q, g)'
          PROVE  Owes(q, g)
      BY <1>5, <2>2 DEF RLock, RUnlock, Owes
    <2>3. ASSUME NEW g \in Handlers
          PROVE  /\ Ordered(Stream(g))'
                 /\ Past(Stream(g))'
                 /\ \A q \in Publishers : Owes(q, g)' =>
                       Before(Stream(g), Current(q))'
      BY <2>1, <2>2 DEF Ordered, Past, Before, Current
    <2>. QED
      BY <1>1, <1>2, <2>3
  <1>6. ASSUME NEW h \in Handlers, Send(p, h) PROVE OrderInv'
    <2>1. /\ Current(p) \in Event
          /\ Current(p)' = Current(p)
          /\ sent' = sent
          /\ Before(Stream(h), Current(p))
      BY <1>6 DEF Send, Visit, Owes, Current, Event
    <2>2. \A g \in Handlers : g # h => Stream(g)' = Stream(g)
      BY <1>6 DEF Send, Visit, Stream, serving
    <2>3. \/ Stream(h)' = Stream(h)
          \/ Stream(h)' = Append(Stream(h), Current(p))
      <3>1. CASE queue' = queue
        BY <1>6, <3>1 DEF Send, Visit, Stream, serving
      <3>2. CASE queue' = [queue EXCEPT ![h] = Append(@, Current(p))]
        <4>1. Stream(h)' = (seen[h] \o hand[h]) \o Append(queue[h], Current(p))
          BY <1>6, <3>2 DEF Send, Visit, Stream, serving
        <4>2. /\ seen[h] \o hand[h] \in Seq(Event)
              /\ queue[h] \in Seq(Event)
          OBVIOUS
        <4>. QED
          BY <2>1, <4>1, <4>2, ConcatAppend DEF Stream
      <3>. QED
        BY <1>6, <3>1, <3>2 DEF Send
    <2>4. /\ Ordered(Stream(h))'
          /\ Past(Stream(h))'
          /\ \A q \in Publishers : q # p /\ Owes(q, h) =>
                Before(Stream(h), Current(q))'
      <3>1. CASE Stream(h)' = Stream(h)
        BY <2>1, <3>1 DEF Ordered, Past, Before, Current
      <3>2. CASE Stream(h)' = Append(Stream(h), Current(p))
        <4>1. Ordered(Append(Stream(h), Current(p)))
          BY <1>3, <2>1, AppendOrdered
        <4>2. /\ Len(Stream(h)') = Len(Stream(h)) + 1
              /\ \A i \in 1..Len(Stream(h)) : Stream(h)'[i] = Stream(h)[i]
              /\ Stream(h)'[Len(Stream(h)) + 1] = Current(p)
          BY <1>3, <2>1, <3>2, AppendProperties
        <4>. DEFINE s == Stream(h)
        <4>3. ASSUME NEW i \in 1..Len(s) + 1
              PROVE  s'[i].n =< sent[s'[i].from]
          <5>1. CASE i \in 1..Len(s)
            BY <4>2, <5>1 DEF Past
          <5>2. CASE i = Len(s) + 1
            <6>1. Current(p).n =< sent[Current(p).from]
              BY DEF Current
            <6>. QED
              BY <4>2, <5>2, <6>1
          <5>. QED
            BY <1>3, <5>1, <5>2
        <4>4. ASSUME NEW q \in Publishers, q # p, Owes(q, h),
                     NEW i \in 1..Len(s) + 1, s'[i].from = q
              PROVE  s'[i].n < sent[q]
          <5>1. i # Len(s) + 1
            BY <4>2, <4>4 DEF Current
          <5>2. i \in 1..Len(s) /\ s'[i] = s[i]
            BY <1>3, <4>2, <5>1
          <5>. QED
            BY <4>4, <5>2 DEF Before, Current
        <4>5. Past(Stream(h))'
          BY <2>1, <4>2, <4>3 DEF Past
        <4>6. \A q \in Publishers : q # p /\ Owes(q, h) =>
                 Before(Stream(h), Current(q))'
          BY <2>1, <4>2, <4>4 DEF Before, Current
        <4>. QED
          BY <3>2, <4>1, <4>5, <4>6 DEF Ordered
      <3>. QED
        BY <2>3, <3>1, <3>2
    <2>5. /\ ~ Owes(p, h)'
          /\ \A g \in Handlers, q \in Publishers : Owes(q, g)' => Owes(q, g)
      BY <1>6 DEF Send, Visit, Owes
    <2>6. ASSUME NEW g \in Handlers, g # h
          PROVE  /\ Ordered(Stream(g))'
                 /\ Past(Stream(g))'
                 /\ \A q \in Publishers : Owes(q, g)' =>
                       Before(Stream(g), Current(q))'
      BY <2>1, <2>2, <2>5, <2>6 DEF Ordered, Past, Before, Current
    <2>. QED
      BY <1>1, <1>2, <2>4, <2>5, <2>6
  <1>. QED
    BY <1>4, <1>5, <1>6 DEF Publish

\* A step of a handler that leaves the streams as they are.
LEMMA StreamsKept ==
  ASSUME OrderInv, LockInv', UNCHANGED publishing,
         \A g \in Handlers :
            /\ Stream(g)' = Stream(g)
            /\ IF at'[g] = "writing" THEN Len(hand'[g]) = 1 ELSE hand'[g] = <<>>
  PROVE  OrderInv'
  <1>1. ASSUME NEW g \in Handlers
        PROVE  /\ Ordered(Stream(g))'
               /\ Past(Stream(g))'
               /\ \A p \in Publishers : Owes(p, g)' =>
                     Before(Stream(g), Current(p))'
    BY DEF OrderInv, publishing, Ordered, Past, Before, Owes, Current
  <1>. QED
    BY <1>1 DEF OrderInv

LEMMA WriteErrorKeepsOrder ==
  ASSUME OrderInv, LockInv', NEW h \in Handlers, WriteError(h)
  PROVE  OrderInv'
  <1>. USE DEF OrderInv, LockInv, TypeOK, publishing
  <1>1. \A g \in Handlers : g # h => Stream(g)' = Stream(g)
    BY DEF WriteError, Stream
  <1>2. /\ seen[h] \in Seq(Event) /\ hand[h] \in Seq(Event)
        /\ queue[h] \in Seq(Event)
    OBVIOUS
  <1>. DEFINE new == seen[h] \o queue[h]
  <1>3. Stream(h)' = new
    <2>1. Stream(h)' = (seen[h] \o <<>>) \o queue[h]
      BY DEF WriteError, Stream
    <2>. QED
      BY <1>2, <2>1, ConcatEmptySeq
  <1>4. /\ \A i \in 1..Len(new) :
              \E j \in 1..Len(Stream(h)) : new[i] = Stream(h)[j]
        /\ Ordered(new)
    <2>1. Ordered((seen[h] \o hand[h]) \o queue[h])
      BY DEF Stream
    <2>. QED
      BY ONLY <1>2, <2>1, Excise DEF Stream, new
  <1>. HIDE DEF new
  <1>5. Ordered(Stream(h))'
    BY <1>3, <1>4 DEF Ordered
  <1>6. UNCHANGED <<call, sent, todo>>
    BY DEF WriteError
  <1>7. Past(Stream(h))'
    <2>1. ASSUME NEW i \in 1..Len(new)
          PROVE  new[i].n =< sent[new[i].from]
      <3>1. PICK j \in 1..Len(Stream(h)) : new[i] = Stream(h)[j]
        BY <1>4
      <3>2. Past(Stream(h))
        OBVIOUS
      <3>. QED
        BY <3>1, <3>2 DEF Past
    <2>. QED
      BY <1>3, <1>6, <2>1 DEF Past
  <1>8. ASSUME NEW p \in Publishers, Owes(p, h)'
        PROVE  Before(Stream(h), Current(p))'
    <2>1. Before(Stream(h), Current(p)) /\ Current(p)' = Current(p)
      <3>1. Owes(p, h)
        BY <1>6, <1>8 DEF Owes
      <3>2. Current(p)' = Current(p)
        BY <1>6 DEF Current
      <3>. QED
        BY <3>1, <3>2
    <2>2. ASSUME NEW i \in 1..Len(new), new[i].from = Current(p).from
          PROVE  new[i].n < Current(p).n
      <3>1. PICK j \in 1..Len(Stream(h)) : new[i] = Stream(h)[j]
        BY <1>4
      <3>2. Stream(h)[j].n < Current(p).n
        BY <2>1, <2>2, <3>1 DEF Before
      <3>. QED
        BY <3>1, <3>2
    <2>. QED
      BY <1>3, <2>1, <2>2 DEF Before
  <1>9. ASSUME NEW g \in Handlers, g # h
         PROVE  /\ Ordered(Stream(g))'
                /\ Past(Stream(g))'
                /\ \A p \in Publishers : Owes(p, g)' =>
                      Before(Stream(g), Current(p))'
    BY <1>1, <1>6, <1>9 DEF Ordered, Past, Before, Owes, Current
  <1>10. \A g \in Handlers :
            IF at'[g] = "writing" THEN Len(hand'[g]) = 1 ELSE hand'[g] = <<>>
    BY DEF WriteError
  <1>. QED
    BY <1>5, <1>7, <1>8, <1>9, <1>10

LEMMA ServeKeepsOrder ==
  ASSUME OrderInv, NEW h \in Handlers,
         \/ Upgrade(h) \/ Serve(h)
         \/ ContextDone(h) \/ Write(h) \/ Break(h)
  PROVE  OrderInv'
  <1>1. LockInv'
    BY ServeKeepsLock DEF OrderInv
  <1>. USE DEF OrderInv, LockInv, TypeOK, serving
  <1>2. ASSUME \/ Upgrade(h) \/ Lock(h) \/ Subscribe(h) \/ Cancel(h)
               \/ ContextDone(h) \/ Break(h)
        PROVE  OrderInv'
    <2>. USE DEF Upgrade, Lock, Subscribe, Cancel, CancelUnlocked, ContextDone,
             Break
    <2>1. UNCHANGED publishing /\ \A g \in Handlers : Stream(g)' = Stream(g)
      BY <1>2 DEF Stream
    <2>2. \A g \in Handlers :
             IF at'[g] = "writing" THEN Len(hand'[g]) = 1 ELSE hand'[g] = <<>>
      BY <1>2
    <2>. QED
      BY <1>1, <2>1, <2>2, StreamsKept
  <1>3. CASE Receive(h)
    <2>1. /\ queue[h] \in Seq(Event) /\ queue[h] # <<>>
          /\ seen[h] \in Seq(Event)
          /\ hand[h] = <<>>
          /\ seen'[h] = seen[h]
          /\ hand'[h] = <<Head(queue[h])>>
          /\ queue'[h] = Tail(queue[h])
      BY <1>3 DEF Receive
    <2>2. Stream(h)' = seen[h] \o queue[h]
      BY <2>1, HeadMoves DEF Stream
    <2>3. Stream(h) = seen[h] \o queue[h]
      BY <2>1, ConcatEmptySeq DEF Stream
    <2>4. \A g \in Handlers : g # h => Stream(g)' = Stream(g)
      BY <1>3 DEF Receive, Stream
    <2>5. \A g \in Handlers :
             IF at'[g] = "writing" THEN Len(hand'[g]) = 1 ELSE hand'[g] = <<>>
      BY <1>3 DEF Receive
    <2>. QED
      BY <1>1, <1>3, <2>2, <2>3, <2>4, <2>5, StreamsKept DEF Receive
  <1>4. CASE Write(h)
    <2>1. /\ seen[h] \in Seq(Event) /\ hand[h] \in Seq(Event)
          /\ seen'[h] = seen[h] \o hand[h]
          /\ hand'[h] = <<>>
          /\ queue'[h] = queue[h]
      BY <1>4 DEF Write
    <2>2. seen[h] \o hand[h] \in Seq(Event)
      BY <2>1
    <2>3. Stream(h)' = Stream(h)
      BY <2>1, <2>2, ConcatEmptySeq DEF Stream
    <2>4. \A g \in Handlers : g # h => Stream(g)' = Stream(g)
      BY <1>4 DEF Write, Stream
    <2>5. \A g \in Handlers :
             IF at'[g] = "writing" THEN Len(hand'[g]) = 1 ELSE hand'[g] = <<>>
      BY <1>4 DEF Write
    <2>. QED
      BY <1>1, <1>4, <2>3, <2>4, <2>5, StreamsKept DEF Write
  <1>5. CASE WriteError(h)
    BY <1>1, <1>5, WriteErrorKeepsOrder
  <1>. QED
    BY <1>2, <1>3, <1>4, <1>5 DEF Serve

\* hub.go: a browser receives the events of a publisher in the order in which
\* they were published and none of them twice, however many are dropped.
THEOREM StreamsInOrder == Spec => []InOrder
  <1>1. OrderInv /\ [Next]_vars => OrderInv'
    <2>1. CASE Next
      BY <2>1, PublishKeepsOrder, ServeKeepsOrder DEF Next
    <2>2. CASE UNCHANGED vars
      <3>1. OrderInv /\ UNCHANGED vars => LockInv'
        BY DEF OrderInv, LockInv, TypeOK, vars, publishing, hub, serving
      <3>2. OrderInv /\ UNCHANGED vars =>
               /\ UNCHANGED publishing
               /\ \A g \in Handlers :
                     /\ Stream(g)' = Stream(g)
                     /\ IF at'[g] = "writing" THEN Len(hand'[g]) = 1
                                               ELSE hand'[g] = <<>>
        BY DEF OrderInv, vars, serving, Stream
      <3>. QED
        BY <2>2, <3>1, <3>2, StreamsKept
    <2>. QED
      BY <2>1, <2>2
  <1>2. OrderInv => InOrder
    BY DEF OrderInv, InOrder, Ordered
  <1>. QED
    BY InitOrderInv, <1>1, <1>2, PTL DEF Spec
=============================================================================
