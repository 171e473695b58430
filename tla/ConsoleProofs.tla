--------------------------- MODULE ConsoleProofs ---------------------------
(***************************************************************************)
(* Proofs about module Console: its types, the chain that the history of   *)
(* device types forms, and that what is published is of the request.       *)
(***************************************************************************)
EXTENDS Console, TLAPS

\* What a request asks for goes with the place it has reached.
Kinds ==
    \A r \in Requests :
        /\ at[r] # "new" => token[r] \in Tokens /\ op[r] \in Ops
        /\ at[r] = "auth" => op[r].kind # "login"
        /\ at[r] \in {"change", "changing"} => op[r].kind = "change"
        /\ at[r] \in {"create", "creating"} => op[r].kind = "create"
        /\ at[r] = "delete" => op[r].kind = "delete"
        /\ at[r] = "execute" => op[r].kind = "execute"
        /\ at[r] \in {"got", "publish"} => read[r] \in Row

\* Whoever changes a type holds the row, and has read what it still says.
Holding ==
    \A r \in Requests : at[r] = "changing" =>
        /\ lock[op[r].device] = r
        /\ read[r] = type[op[r].device]

\* What has been established on the way to a publication.
SinceOf(r) ==
    /\ at[r] \in Open \ {"login", "auth"} => seen[r].live
    /\ at[r] \in {"got", "publish"} => read[r] \in seen[r].rows
    /\ at[r] = "publish" => read[r].device \in seen[r].infrared
    /\ sent[r] # None =>
           /\ at[r] # "new"
           /\ seen[r].live
           /\ sent[r] \in seen[r].rows
           /\ sent[r].device \in seen[r].infrared

Since == \A r \in Requests : SinceOf(r)

IInv == TypeOK /\ Kinds /\ Holding /\ Since

-----------------------------------------------------------------------------
\* The fields of a request's operation (types.go, router.go).
LEMMA OpKinds ==
    ASSUME NEW o \in Ops
    PROVE  /\ o.kind \in {"login", "logout", "change", "create", "delete", "execute"}
           /\ o.kind = "change" => o.device \in Devices /\ o.type \in Types
           /\ o.kind = "create" =>
                  o.device \in Devices /\ o.name \in Names /\ o.content \in Contents
           /\ o.kind \in {"delete", "execute"} => o.id \in Ids
  BY DEF Ops

\* The rows of the table are rows.
LEMMA RowsAreRows == Rows \subseteq Row
  BY DEF Rows

\* No step leaves the types (every action).
LEMMA TypeStep ==
    ASSUME TypeOK, Kinds, Holding, [Next]_vars
    PROVE  TypeOK'
  <1> USE ConsoleAssumption, OpKinds, RowsAreRows
        DEF TypeOK, Open, Last, tables, request
  <1>1. CASE UNCHANGED vars
    BY <1>1 DEF vars
  <1>2. ASSUME Next
        PROVE  seen' \in [Requests -> [live : BOOLEAN, rows : SUBSET Row,
                                       infrared : SUBSET Devices]]
    <2>1. Rows' \subseteq Row
      BY DEF Rows
    <2> QED
      BY <1>2, <2>1 DEF Next, Notice
  <1>3. ASSUME NEW r \in Requests, Serve(r), Next
        PROVE  TypeOK'
    <2> USE <1>2, <1>3
    <2>1. CASE Begin(r)
      BY <2>1 DEF Begin
    <2>2. CASE Login(r)
      BY <2>2 DEF Login, GoTo
    <2>3. CASE RequireAuth(r)
      BY <2>3 DEF RequireAuth, GoTo, Kinds
    <2>4. CASE Logout(r)
      BY <2>4 DEF Logout, GoTo
    <2>5. CASE LockType(r)
      BY <2>5 DEF LockType, GoTo, Kinds
    <2>6. CASE ChangeDeviceType(r)
      <3>1. [device |-> op[r].device, old |-> read[r], new |-> op[r].type]
                \in [device : Devices, old : Types, new : Types]
        BY <2>6 DEF ChangeDeviceType, GoTo, Kinds, Holding
      <3> QED
        BY <2>6, <3>1 DEF ChangeDeviceType, GoTo, Kinds, Released
    <2>7. CASE CheckDevice(r)
      BY <2>7 DEF CheckDevice, GoTo
    <2>8. CASE CreateQuickAction(r)
      BY <2>8 DEF CreateQuickAction, GoTo, Kinds, Key, Row, Ids
    <2>9. CASE DeleteQuickAction(r)
      BY <2>9 DEF DeleteQuickAction, GoTo
    <2>10. CASE GetQuickAction(r)
      BY <2>10 DEF GetQuickAction, GoTo, Found
    <2>11. CASE GetDevice(r)
      BY <2>11 DEF GetDevice, GoTo
    <2>12. CASE Publish(r)
      BY <2>12 DEF Publish, GoTo, Kinds
    <2> QED
      BY <2>1, <2>2, <2>3, <2>4, <2>5, <2>6, <2>7, <2>8, <2>9, <2>10, <2>11, <2>12
      DEF Serve
  <1>4. ASSUME NEW r \in Requests, Fail(r), Next
        PROVE  TypeOK'
    BY <1>2, <1>4 DEF Fail, GoTo, Released
  <1>5. ASSUME NEW r \in Requests, Abandon(r), Next
        PROVE  TypeOK'
    BY <1>2, <1>5 DEF Abandon
  <1>6. ASSUME NEW t \in Tokens, Expire(t), Next
        PROVE  TypeOK'
    BY <1>2, <1>6 DEF Expire
  <1>7. ASSUME Crash, Next
        PROVE  TypeOK'
    BY <1>2, <1>7 DEF Crash
  <1> QED
    BY <1>1, <1>3, <1>4, <1>5, <1>6, <1>7 DEF Next

\* A step keeps what goes with each request's place (every action).
LEMMA KindsStep ==
    ASSUME TypeOK, Kinds, [Next]_vars
    PROVE  Kinds'
  <1> USE DEF TypeOK, tables, request
  <1>1. CASE UNCHANGED vars
    BY <1>1 DEF vars, Kinds
  <1>2. ASSUME NEW r \in Requests, Serve(r)
        PROVE  Kinds'
    <2> USE OpKinds DEF Kinds
    <2>1. CASE Begin(r)
      BY <2>1 DEF Begin
    <2>2. CASE Login(r)
      BY <2>2 DEF Login, GoTo
    <2>3. CASE RequireAuth(r)
      BY <2>3 DEF RequireAuth, GoTo
    <2>4. CASE Logout(r)
      BY <2>4 DEF Logout, GoTo
    <2>5. CASE LockType(r)
      BY <2>5 DEF LockType, GoTo
    <2>6. CASE ChangeDeviceType(r)
      BY <2>6 DEF ChangeDeviceType, GoTo
    <2>7. CASE CheckDevice(r)
      BY <2>7 DEF CheckDevice, GoTo
    <2>8. CASE CreateQuickAction(r)
      BY <2>8 DEF CreateQuickAction, GoTo
    <2>9. CASE DeleteQuickAction(r)
      BY <2>9 DEF DeleteQuickAction, GoTo
    <2>10. CASE GetQuickAction(r)
      BY <2>10, RowsAreRows DEF GetQuickAction, GoTo, Found
    <2>11. CASE GetDevice(r)
      BY <2>11 DEF GetDevice, GoTo
    <2>12. CASE Publish(r)
      BY <2>12 DEF Publish, GoTo
    <2> QED
      BY <1>2, <2>1, <2>2, <2>3, <2>4, <2>5, <2>6, <2>7, <2>8, <2>9, <2>10, <2>11, <2>12
      DEF Serve
  <1>3. ASSUME NEW r \in Requests, Fail(r)
        PROVE  Kinds'
    BY <1>3 DEF Fail, GoTo, Kinds, Open, Last
  <1>4. ASSUME NEW r \in Requests, Abandon(r)
        PROVE  Kinds'
    BY <1>4 DEF Abandon, Kinds
  <1>5. ASSUME NEW t \in Tokens, Expire(t)
        PROVE  Kinds'
    BY <1>5 DEF Expire, Kinds
  <1>6. CASE Crash
    BY <1>6 DEF Crash, Kinds, Open, Last
  <1> QED
    BY <1>1, <1>2, <1>3, <1>4, <1>5, <1>6 DEF Next

\* While one request holds a device's row no other changes its type
\* (store.go, ChangeDeviceType).
LEMMA HoldingStep ==
    ASSUME TypeOK, Kinds, Holding, [Next]_vars
    PROVE  Holding'
  <1> USE OpKinds, ConsoleAssumption DEF TypeOK, Kinds, tables, request
  <1>1. CASE UNCHANGED vars
    BY <1>1 DEF vars, Holding
  <1>2. ASSUME NEW r \in Requests, Serve(r)
        PROVE  Holding'
    <2>1. CASE Begin(r)
      BY <2>1 DEF Begin, Holding
    <2>2. CASE Login(r)
      BY <2>2 DEF Login, GoTo, Holding
    <2>3. CASE RequireAuth(r)
      BY <2>3 DEF RequireAuth, GoTo, Holding
    <2>4. CASE Logout(r)
      BY <2>4 DEF Logout, GoTo, Holding
    <2>5. CASE LockType(r)
      BY <2>5 DEF LockType, GoTo, Holding
    <2>6. CASE ChangeDeviceType(r)
      BY <2>6 DEF ChangeDeviceType, GoTo, Holding, Released
    <2>7. CASE CheckDevice(r)
      BY <2>7 DEF CheckDevice, GoTo, Holding
    <2>8. CASE CreateQuickAction(r)
      BY <2>8 DEF CreateQuickAction, GoTo, Holding
    <2>9. CASE DeleteQuickAction(r)
      BY <2>9 DEF DeleteQuickAction, GoTo, Holding
    <2>10. CASE GetQuickAction(r)
      BY <2>10 DEF GetQuickAction, GoTo, Holding
    <2>11. CASE GetDevice(r)
      BY <2>11 DEF GetDevice, GoTo, Holding
    <2>12. CASE Publish(r)
      BY <2>12 DEF Publish, GoTo, Holding
    <2> QED
      BY <1>2, <2>1, <2>2, <2>3, <2>4, <2>5, <2>6, <2>7, <2>8, <2>9, <2>10, <2>11, <2>12
      DEF Serve
  <1>3. ASSUME NEW r \in Requests, Fail(r)
        PROVE  Holding'
    BY <1>3 DEF Fail, GoTo, Holding, Released
  <1>4. ASSUME NEW r \in Requests, Abandon(r)
        PROVE  Holding'
    BY <1>4 DEF Abandon, Holding
  <1>5. ASSUME NEW t \in Tokens, Expire(t)
        PROVE  Holding'
    BY <1>5 DEF Expire, Holding
  <1>6. CASE Crash
    BY <1>6 DEF Crash, Holding, Open, Last
  <1> QED
    BY <1>1, <1>2, <1>3, <1>4, <1>5, <1>6 DEF Next

\* What a request has noticed stays noticed, and the present is part of it.
LEMMA Noticed ==
    ASSUME TypeOK, Notice, NEW r \in Requests, at'[r] # "new"
    PROVE  /\ seen[r].live => seen'[r].live
           /\ session'[token'[r]] = "live" => seen'[r].live
           /\ seen[r].rows \subseteq seen'[r].rows
           /\ Rows' \subseteq seen'[r].rows
           /\ seen[r].infrared \subseteq seen'[r].infrared
           /\ \A d \in Devices : type'[d] = Infrared => d \in seen'[r].infrared
  BY DEF TypeOK, Notice

\* A request establishes what it needs after it has begun (router.go,
\* quick_action.go).
LEMMA SinceStep ==
    ASSUME TypeOK, Kinds, Since, [Next]_vars
    PROVE  Since'
  <1> USE DEF TypeOK, tables, request
  <1>1. CASE UNCHANGED vars
    BY <1>1 DEF vars, Since, SinceOf
  <1>2. SUFFICES ASSUME Next, NEW q \in Requests
                 PROVE  SinceOf(q)'
    BY <1>1 DEF Since
  <1>3. SinceOf(q)
    BY DEF Since
  <1>4. at'[q] # "new" =>
           /\ seen[q].live => seen'[q].live
           /\ session'[token'[q]] = "live" => seen'[q].live
           /\ seen[q].rows \subseteq seen'[q].rows
           /\ Rows' \subseteq seen'[q].rows
           /\ seen[q].infrared \subseteq seen'[q].infrared
           /\ \A d \in Devices : type'[d] = Infrared => d \in seen'[q].infrared
    BY <1>2, Noticed DEF Next
  <1> USE <1>3, <1>4 DEF SinceOf
  <1>5. ASSUME NEW r \in Requests, Serve(r)
        PROVE  SinceOf(q)'
    <2> USE DEF Open, Last, GoTo
    <2>1. CASE Begin(r)
      BY <2>1 DEF Begin
    <2>2. CASE Login(r)
      BY <2>2 DEF Login
    <2>3. CASE RequireAuth(r)
      BY <2>3, OpKinds DEF RequireAuth, Kinds
    <2>4. CASE Logout(r)
      BY <2>4 DEF Logout
    <2>5. CASE LockType(r)
      BY <2>5 DEF LockType
    <2>6. CASE ChangeDeviceType(r)
      BY <2>6 DEF ChangeDeviceType
    <2>7. CASE CheckDevice(r)
      BY <2>7 DEF CheckDevice
    <2>8. CASE CreateQuickAction(r)
      BY <2>8 DEF CreateQuickAction
    <2>9. CASE DeleteQuickAction(r)
      BY <2>9 DEF DeleteQuickAction
    <2>10. CASE GetQuickAction(r)
      <3>1. Rows' = Rows
        BY <2>10 DEF GetQuickAction, Rows
      <3> QED
        BY <2>10, <3>1 DEF GetQuickAction, Found
    <2>11. CASE GetDevice(r)
      BY <2>11 DEF GetDevice, Kinds, Row
    <2>12. CASE Publish(r)
      BY <2>12 DEF Publish
    <2> QED
      BY <1>5, <2>1, <2>2, <2>3, <2>4, <2>5, <2>6, <2>7, <2>8, <2>9, <2>10, <2>11, <2>12
      DEF Serve
  <1>6. ASSUME NEW r \in Requests, Fail(r)
        PROVE  SinceOf(q)'
    BY <1>6 DEF Fail, GoTo, Open, Last
  <1>7. ASSUME NEW r \in Requests, Abandon(r)
        PROVE  SinceOf(q)'
    BY <1>7 DEF Abandon, Open, Last
  <1>8. ASSUME NEW t \in Tokens, Expire(t)
        PROVE  SinceOf(q)'
    BY <1>8 DEF Expire, Open, Last
  <1>9. CASE Crash
    BY <1>9 DEF Crash, Open, Last
  <1> QED
    BY <1>2, <1>5, <1>6, <1>7, <1>8, <1>9 DEF Next

-----------------------------------------------------------------------------
\* The parts of the inductive invariant hold together.
LEMMA Inductive == Spec => []IInv
  <1>1. Init => IInv
    <2> SUFFICES ASSUME Init
                 PROVE  IInv
      OBVIOUS
    <2>1. actions \in [Devices \X Names -> Row \cup {None}]
      <3>1. ASSUME NEW k \in Devices \X Names, NEW c \in Contents
            PROVE  [id |-> Seed, device |-> k[1], content |-> c] \in Row
        BY DEF Row, Ids
      <3>2. CASE actions = [key \in Devices \X Names |-> None]
        BY <3>2
      <3>3. ASSUME NEW key \in Devices \X Names, NEW c \in Contents,
                   actions = [k \in Devices \X Names |->
                       IF k = key THEN [id |-> Seed, device |-> key[1], content |-> c]
                       ELSE None]
            PROVE  actions \in [Devices \X Names -> Row \cup {None}]
        <4> DEFINE row == [id |-> Seed, device |-> key[1], content |-> c]
        <4>1. row \in Row
          BY <3>1
        <4> HIDE DEF row
        <4>2. actions = [k \in Devices \X Names |-> IF k = key THEN row ELSE None]
          BY <3>3 DEF row
        <4> QED
          BY <4>1, <4>2
      <3> QED
        BY <3>2, <3>3 DEF Init
    <2>2. TypeOK
      <3>1. changes \in Seq([device : Devices, old : Types, new : Types])
        BY DEF Init
      <3>2. session \in [Tokens -> {"absent", "live", "expired", "deleted"}]
        BY DEF Init
      <3>3. /\ lock \in [Devices -> Requests \cup {None}]
            /\ token \in [Requests -> Tokens \cup {None}]
            /\ op \in [Requests -> Ops \cup {None}]
            /\ read \in [Requests -> Row \cup Types \cup {None}]
            /\ sent \in [Requests -> Row \cup {None}]
        BY DEF Init
      <3>4. seen \in [Requests -> [live : BOOLEAN, rows : SUBSET Row,
                                  infrared : SUBSET Devices]]
        BY DEF Init
      <3> QED
        BY <2>1, <3>1, <3>2, <3>3, <3>4 DEF Init, TypeOK
    <2>3. Kinds /\ Holding /\ Since
      BY DEF Init, Kinds, Holding, Since, SinceOf, Open, Last
    <2> QED
      BY <2>2, <2>3 DEF IInv
  <1>2. IInv /\ [Next]_vars => IInv'
    BY TypeStep, KindsStep, HoldingStep, SinceStep DEF IInv
  <1> QED
    BY <1>1, <1>2, PTL DEF Spec

\* Every variable of the console keeps its type (store.go, router.go).
THEOREM TypeCorrect == Spec => []TypeOK
  <1>1. IInv => TypeOK
    BY DEF IInv
  <1> QED
    BY <1>1, Inductive, PTL

\* What is published was stored, for an infrared controller, on a live
\* session, at moments of the very request (quick_action.go, auth.go).
THEOREM SentIsOfRequest == Spec => []SentAsOfRequest
  <1>1. IInv => SentAsOfRequest
    BY DEF IInv, Since, SinceOf, SentAsOfRequest
  <1> QED
    BY <1>1, Inductive, PTL

\* A step of the console is a change of the ledger, or leaves it alone.
LEMMA LedgerStep ==
    ASSUME IInv, [Next]_vars
    PROVE  [Ledger!Next]_(Ledger!vars)
  <1> USE DEF Ledger!vars, tables, request
  <1>1. CASE UNCHANGED vars
    BY <1>1 DEF vars
  <1>2. ASSUME NEW r \in Requests, ChangeDeviceType(r)
        PROVE  Ledger!Next
    <2>1. /\ op[r].device \in Devices
          /\ op[r].type \in Types
          /\ read[r] = type[op[r].device]
      BY <1>2, OpKinds DEF ChangeDeviceType, GoTo, IInv, Kinds, Holding
    <2>2. Ledger!Change(op[r].device, op[r].type)
      BY <1>2, <2>1 DEF ChangeDeviceType, Ledger!Change
    <2> QED
      BY <2>1, <2>2 DEF Ledger!Next
  <1>3. ASSUME NEW r \in Requests, Serve(r), ~ChangeDeviceType(r)
        PROVE  UNCHANGED <<type, changes>>
    BY <1>3
    DEF Serve, Begin, Login, RequireAuth, Logout, LockType, CheckDevice,
        CreateQuickAction, DeleteQuickAction, GetQuickAction, GetDevice, Publish
  <1>4. ASSUME \/ \E r \in Requests : Fail(r) \/ Abandon(r)
               \/ \E t \in Tokens : Expire(t)
               \/ Crash
        PROVE  UNCHANGED <<type, changes>>
    BY <1>4 DEF Fail, Abandon, Expire, Crash
  <1> QED
    BY <1>1, <1>2, <1>3, <1>4 DEF Next

\* The tables of the console implement the ledger of types (store.go,
\* ChangeDeviceType).
THEOREM LedgerImplemented == Spec => LedgerSpec
  <1>1. Init => Ledger!Init
    BY DEF Init, Ledger!Init
  <1>2. IInv /\ [Next]_vars => [Ledger!Next]_(Ledger!vars)
    BY LedgerStep
  <1> QED
    BY <1>1, <1>2, Inductive, PTL DEF Spec, LedgerSpec, Ledger!Spec
=============================================================================
