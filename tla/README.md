# mqtter in TLA+

mqtter is an MQTT broker (the mochi-mqtt library inside one Go process) with a
console: every packet is written to PostgreSQL before the hook lets it through,
and an administrator looks at devices and history, publishes messages, now or on
a schedule, and triggers quick actions.  This directory specifies its behaviour
in TLA+, checks it with TLC and proves its safety properties with TLAPS.  Every definition
is translated from the Go source; `PROJECT.json` names the lines.

## The system

| part | state it keeps | operations | talks to |
|---|---|---|---|
| ingestion hook, `internal/broker/hook.go` | a session id per connection | `OnConnect`, `OnSubscribe`, `OnPublish`, `OnDisconnect`, called by the library | ingestion service, connect limiter |
| ingestion service, `internal/service/ingestor.go` | none | `EnsureConnected`, `RecordSubscribe`, `PersistBeforeRoute`, `MarkDisconnected`, `MarkStaleOnline`, each under a deadline; alerts | store, hub |
| store, `internal/storage/postgres` | the tables | one statement or transaction per method; migrations | PostgreSQL |
| broker server, `internal/broker/server.go` | none | `Publish` starts a goroutine and waits for it or for the caller's context | library |
| console publication, `internal/service/publish.go` | rows of `publish_commands` | `Publish`: record, publish, mark | broker server, store |
| scheduler, `internal/service/scheduled_publish.go` | rows of `scheduled_publish_tasks` and `_runs` | create, cancel, poll, run | console publication, calendar |
| calendar, `internal/domain/schedule.go` | none | next daily and weekly run in a time zone | package `time` |
| realtime hub, `internal/realtime/hub.go` | subscribers and their queues | `Publish`, `Subscribe`, `ServeHTTP` | WebSocket clients |
| connect limiter, `internal/broker/rate_limiter.go` | recent connects per address | `Allow` | |
| quick actions, `internal/service/quick_action.go` | rows of `quick_actions` | create, delete, execute | devices, console publication |
| console sessions, `internal/service/auth.go` | `admin_sessions` | log in, log out, validate; bootstrap | store |
| devices, `internal/service/device.go` | `devices.type`, `device_type_changes` | change a device's type | store |
| lists, `internal/api/router.go` and the `List...` methods of the store | none | a page of devices, topics, messages, commands, quick actions, alerts | store |
| migrations, `internal/storage/postgres/migrations.go` | `schema_migrations` | apply what is missing | PostgreSQL |
| retention, `internal/jobs` | none | delete old messages; nothing starts it | store |
| application, `internal/app/app.go` | none | start: migrate, reset presence, serve, schedule; shut down | all |

What is hard here is what several of these do to one row at once, and what is
left when something ends early.  The hooks of different connections run
concurrently, also those of two connections with the same client id, of which
the second takes over from the first.  A statement whose deadline passes is
abandoned, not undone.  The caller of a publication may go away while the
library is publishing.  The scheduler works on copies of rows that the console
changes meanwhile, and it publishes before it records.  The process may die
between any two statements, and two may start at once.  A client reads a list in
pages while its rows move.  A day of the calendar may have 23 or 25 hours.

What makes each part correct:

- ingestion: nothing is routed or subscribed before it is on record, but for the
  packets that the library routes against the hook's answer; a loss leaves an
  alert; a device is shown online exactly while it is connected, but for named
  causes; hooks come back.
- console publication: a command is recorded before it can be delivered, a
  verdict in the audit is final, a caller that leaves is released.
- scheduler: occurrences are recorded once and in order, a message is repeated
  only when a record was lost, a cancelled task stays so, due tasks are served.
- calendar: the next run is in the future, at its hour, once a day, none missed.
- realtime hub: no send on a closed channel, no publisher that waits for a
  browser, events of a publisher in order, and a browser that has left is noticed.
- connect limiter: no more than the limit in any window, no refusal without a cause.
- console: the history of a device's types is a chain that ends in its type;
  what a quick action publishes was stored and allowed while it was asked for;
  every request is answered.
- lists: a client that reads page after page misses or repeats a row only when
  the list's order explains it.
- start: each migration takes effect once and in order whoever starts, no server
  serves without them, no other process decides what is shown of the devices of
  one that serves, nobody waits for ever.

## Modules

| module | models | extends or uses |
|---|---|---|
| `Ingestion` | hook, ingestion service, presence and history rows, start-up reset | |
| `CommandAudit` | abstract: what the audit of publications promises | |
| `Publishing` | `PublishService.Publish` with the goroutine of `Server.Publish` | implements `CommandAudit` |
| `Scheduler` | scheduled tasks, the poller, cancelling, lost records, crashes | |
| `Calendar` | the calculation of the next run and a task's life under it | |
| `RealtimeHub` | the event stream: publishers and browsers around a read-write lock | |
| `ConnectLimiter` | the sliding window of `OnConnect`'s limiter | |
| `TypeLedger` | abstract: what the history of device types promises | |
| `Console` | sessions, changes of type and quick actions, statement by statement | implements `TypeLedger` |
| `MigrationLedger` | abstract: what migrations promise | |
| `Startup` | servers and the migrating command that start, serve and stop on one database | implements `MigrationLedger` |
| `Listing` | the console's lists, page by page | |
| `MC...` | instances for TLC | the module |
| `...Proofs` | theorems | the module, TLAPS |
| `SchedulerProofs` | those of `Scheduler`, of `Calendar` and of both together | both |

They meet at interfaces that one module assumes and another establishes.
`Publishing` contains the hook's `PersistBeforeRoute` as one step, `PersistInline`,
with the outcomes `Ingestion` derives for it.  `Scheduler` takes from `Publishing`
that a publication's error leaves open whether the message was delivered.
`Scheduler` assumes `NextRunAdvances` of the tasks that repeat, which is
`NextIsFuture` of `Calendar`: `CalendarAdvances` proves it of tasks that run by the
calendar's code.
The hooks of `Ingestion` publish their events through `RealtimeHub`, whose
`PublishersReturn` is why `Ingestion` may leave that call out.
`Console` publishes a quick action in one step, which `Publishing` takes apart.
`Ingestion` leaves the limiter's verdict open, which `ConnectLimiter` derives, and
has one server at a time, which `Startup` establishes (`PresenceIsOwn` rests on the
one holder of the broker).  `Startup` in turn keeps of presence only what a second
process can disturb, who has set a row, and leaves to `Ingestion` whether a server's
own statements tell the truth about its connections.

In every module there are operators marked *Broken variant*.  They are not used
by the specification; each is a definition as a plausible bug would have it, and
putting it in the definition's place makes TLC find the property violated.

### Ingestion

A connection is used once and stands for the session id that `OnConnect` draws
for it.  `pc` says where a connection is: new, connecting (inside `OnConnect`),
accepted (the hook has returned), open, dropped (taken over, or its read loop
ended), closed, refused, or unanswered (its CONNACK could not be sent).  `call` is the hook call a connection is in, with its
statement: *sent*, *applied* once it has taken effect, *failed* or *expired*
when it returned an error.  The hook reads the session id when it is called, and
its statement takes effect later.

| action | code |
|---|---|
| `OnConnectBusy`, `OnConnectInvalid`, `OnConnect` | the three ways through `OnConnect`: the limiter refuses, the client id is invalid, the row is written |
| `OnSubscribe`, `OnPublish`, `OnDisconnect` | the hook up to the statement it issues |
| `OnPublishRefused` | `OnPublish` with a payload that is too large or is not text: no statement |
| `Land` | the statement takes effect: `UpsertConnected`, `RecordSubscription`, `PersistPublish` (the last two through `EnsureDevice`), `MarkDisconnected` |
| `Return` | the statement succeeded and the hook lets the packet through |
| `Fault` | it returned an error; if it had not taken effect it joins `late` |
| `LateLand`, `LateAbort` | what becomes of an abandoned statement |
| `RaiseOk`, `RaiseFail` | the alert is written or is not, and the hook refuses (`GiveUp`) |
| `Establish`, `ConnackFails` | the library inserts the connection and drops the one it takes over from; then its CONNACK is sent, or it is not and the library leaves the connection without `OnDisconnect` |
| `Drop`, `Crash`, `MarkStaleOnline` | a connection ends; the process dies; it starts again |

What becomes of a packet whose `OnPublish` has returned an error depends on the
error.  `ErrRejectPacket`, the hook's answer for QoS 0, stops the library.  For
QoS 1 the hook returns a reason code of MQTT 5 (`ErrServerBusy`,
`ErrPayloadFormatInvalid`), which the library obeys on a connection that speaks
MQTT 5 (`V5`) only: on any other it logs the error and goes on.  `Unheeded` are these
packets, and `RouteUnheeded` and `OnPublishRefused` route them.

`holder` and `causes` are history.  `holder` is the connection whose connect was
the last to reach the row.  `causes` says what has disturbed the row since: a
write of another connection (`stale_write`), a take-over in the opposite order
of the connects (`crossed_connect`), a connect the client was not told of
(`orphan_connect`), a connect whose CONNACK could not be sent (`lost_connack`), a
disconnect that was not written (`lost_disconnect`).  The presence properties say that the row differs from the truth only then.

### Publishing and CommandAudit

`step` is the line `Publish` is at, `wire` where the goroutine is.  Each
statement under the caller's context has an outcome of its own: carried out and
answered, carried out with the answer lost, not carried out; only the last once
the context is done.  The goroutine's message is *accepted* or *refused* by the hook
(`PersistInline`); the library's inline client speaks MQTT 3.1.1, so a refused one of
QoS 1 is delivered all the same (`GoesOn`) and one of QoS 0 is not (`Reject`).
`refused` is history.  `CommandAudit` has two variables, the status on record and
what was delivered.  The refinement is the identity on both, and what makes it
more than that is the goroutine nobody waits for: the code implements the audit
because the mark of failure uses the very context whose end let the caller go,
so that a command that may still be delivered stays pending.  The price is
`PendingExplained`: such a command stays pending for ever.

### Scheduler

`task` and `runs` are the rows.  `batch` holds the copies `RunDue` has read;
`current` is the copy whose message has been published and whose run is not
recorded yet.  `Poll` reads at most `Limit` due tasks, earliest first; `Publish`
is the call of `PublishService.Publish` with its two results, the message
delivered or not; `FinishScheduledRun` records the run in any case and updates
the task only while it is active; `FinishLost` is the transaction that failed;
`Crash` drops the copies.  `delivered`, `lost` and `overrun` are history.  A
crash before anything is published loses nothing and is not counted in `lost`.

### Calendar

The unit is the hour; instants count hours of UTC, local times the hours a
zone's calendar shows.  `Date` is `time.Date` with its two look-ups of the
offset, which decide where a skipped hour goes and which of two equal hours is
meant; `AddDate` is `Date` on the shifted day.  `NextDailyRun` and
`NextWeeklyRun` are the code over them.  The state machine creates a task and
runs it whenever it is due, some time late.

Two operators say of which zones and schedules the properties hold; the code
accepts all.  `Regular`: the zone's change neither skips nor repeats a midnight, and,
where it skips hours, is further from one than the hours it skips.  Summer time's
change by an hour is regular unless it skips the hour before or after midnight (the lemma
`HourChangeIsRegular`).  `HourShown`: no day skips the schedule's hour.  `MCCalendar`
states as an assumption, which TLC evaluates, that its zones are regular and the
one that skips midnight is not.  `NextIsFuture` needs a regular zone only.

### RealtimeHub

A publisher is a goroutine that runs hooks, one event after the other; a handler
is a call of `ServeHTTP`, and its channel has its name.  `sync.RWMutex` lets a
writer that waits keep new readers out: `Lock` announces it (`writer`),
`Subscribe` and `Cancel` hold the lock once no publisher is *sending*.

| action | code |
|---|---|
| `Call`, `RLock`, `RUnlock` | `Publish` up to the read lock, with it, and its release |
| `Send` | one turn of its loop: the event fits or is dropped |
| `Upgrade`, `Lock`, `Subscribe` | `ServeHTTP` up to its loop |
| `Receive`, `Write`, `WriteError`, `ContextDone` | the loop: an event is received, written or not, or the context ends |
| `Cancel` | the deferred `cancel`: delete and close |
| `Break` | the browser has left and the socket is known to be broken: until then, writes succeed |

`seen` is history.  `Stream`, what a browser has seen followed by what is on its
way to it, carries the order.

### ConnectLimiter

`OnConnect` reads the clock (`ReadClock`) before it takes the limiter's lock;
`Admit` and `Refuse` are `Allow` under the lock, on the hits that are less than a
window older than the call's own time (`Recent`).  `MaxWait` is the longest that
a call waits for the lock.  The code limits what it promises by exactly that: a
late call may find hits dropped that it would have counted, so `WithinLimit`
speaks of a window shorter by `MaxWait`.  With a window that is not shortened TLC
finds one hit too many.

### Console and TypeLedger

A request stands at the statement it issues next.

| action | code |
|---|---|
| `Begin`, `RequireAuth` | the router: every request but the log-in is checked against its session once |
| `Login`, `Logout`, `Expire` | the session's row is made, is deleted, or its time is over |
| `LockType`, `ChangeDeviceType` | the transaction of `Store.ChangeDeviceType`: `SELECT ... FOR UPDATE`; update, entry and commit |
| `CheckDevice`, `CreateQuickAction` | the device's type is read; the row is written over the one with its device and name, whose id stays |
| `DeleteQuickAction` | the row goes, if it is there |
| `GetQuickAction`, `GetDevice`, `Publish` | `ExecuteQuickAction`: read the action, check its device, publish |
| `Fail` | a condition is not met, a statement fails, or the client leaves: an error, and the transaction undone |
| `Abandon`, `Crash` | the client or the process is gone while the last statement is under way: it may still take effect |

`TypeLedger` has the types and the entries; its one step changes a type and adds
the entry that names the type before.  Entries are in the order of their commits;
their ids are drawn at the `INSERT`, so that those of different devices may be in
another.  `Console` implements it under the identity
because the row's lock spans reading the old type and committing.  `seen` is
history: what has been the case since a request began.  `SentAsOfRequest` does
not say that the action is still there when it is published, nor that the session
is still live: the code checks each once, and both may have changed by then.

### Startup and MigrationLedger

A process is a run of `mqtter-server` or `mqtter-migrate`, and `at` the step it
has come to.

| action | code |
|---|---|
| `Start`, `Check`, `Execute`, `Record`, `Refuse`, `Commit`, `Migrated` | `ApplyMigrations`: is the version recorded; the script; the row; the end of the transaction |
| `EnsureMessagePartition` | the last thing `mqtter-migrate` does |
| `BootstrapAdmin`, `TakeBroker`, `FindTaken` | `app.New`: the administrator; `NewServer` takes the broker's store and port, or fails because another server has them |
| `MarkStaleOnline`, `Serve`, `Stop`, `Close` | `Run` from its first statement to the end |
| `Connect`, `Disconnect` | the hooks issue a statement about a device |
| `UpsertConnected`, `MarkDisconnected`, `StatementFails` | it takes effect, whether or not the hook has given it up and the server lives, or it comes to nothing |
| `Fail` | a statement of a start fails, or the process dies |

`Execute` waits for another process that has executed the same script and not
ended its transaction, as scripts that create the same table do in PostgreSQL;
one that has waited may be refused by what the other has committed.  A device's row
has its status and, as history, the server that has set it (`by`); `late` is history,
too: the statements under way when their server ended (`Leftover`).  A statement may
be given up and still take effect, a device may be connected while a statement of
an earlier connection of it ends it, and a disconnect may leave a row alone whose
session id is another's: `Startup` allows all of this and says of it only that it is
the server's own doing.

### Listing

A list is a record of what may become of its rows between two pages: whether a
row is given a new time, whether it may leave, and whether the query's range
moves with the clock.  `ListDevices` to `QueryMessages` are these records for the
store's methods.  `NormalizePage`, `Offset` and `Page` are the code; `Orders` are
the results that `ORDER BY` one time stamp allows.  A client asks for page after
page (`Read`) while rows are written, touched, leave and time passes.
`throughout`, `raised`, `lowered` and `tied` are history.  `ListScheduledTasks` is
left out: see *Observed*.

## Runs

| run | instance | shows |
|---|---|---|
| `ingestion_rivals` | three connections of one client id, one publication each, timeouts, failing alerts, crashes; symmetric in the connections | `OfflineExplained`, `OnlineExplained` |
| `ingestion_faults` | one connection before MQTT 5 with a filter and three publications, of QoS 1, of QoS 0, and with a refused payload, beside one with a refused client id; errors and timeouts; fair | `RoutedArePersisted`, `GrantedAreRecorded`, `SessionsOfLiving`, `NoSilentLoss`, `HooksReturn`, `DropsAreClosed` |
| `ingestion_presence` | two connections, no fault at all | violates `LatestIsOnline` |
| `publishing` | two calls of `Publish`, of QoS 1 and of QoS 0; fair | `RoutedInHistory`, `PublishedWasHandled`, `PendingExplained`, `AuditSpec`, `CancelledCallsReturn`, `GoroutinesEnd` |
| `scheduler` | a task that runs once and one that repeats, a poll that reads one of them, five hours, one lost record each; fair | `ActiveHasNext`, `OccurrencesRecordedOnce`, `CountMatches`, `DuplicatesExplained`, `CancelStops`, `CancelIsFinal`, `DueAreServed` |
| `calendar` | eight regular zones, every hour they do not skip, daily and four sets of weekdays | `NextIsFuture`, `AtTimeOfDay`, `NoneMissed`, `EachDayOnce` |
| `calendar_gap` | daily, at any hour, in zones that skip two o'clock or midnight | violates `EachDayOnce` |
| `realtime_hub` | two publishers, three events, two browsers, channels of two; fair | `NoSendOnClosed`, `InOrder`, `PublishersReturn`, `GoneAreNoticed` |
| `connect_limiter` | four calls of one address and one of another, two per window of three, waits of one | `WithinLimit`, `RefusedForCause` |
| `console` | two requests of any kind, one device, one name, two contents; fair | `SentAsOfRequest`, `LedgerSpec`, `Answered` |
| `startup` | two servers, the command, two migrations, one device; fair | `ServesMigrated`, `PresenceIsOwn`, `LedgerSpec`, `EachDecides` |
| `listing` | every list, three rows, pages of one or two | `MissedExplained`, `RepeatsExplained` |

`TypeOK` of each module is proved for every value of the constants where the
module has proofs, and so it is in no run.

Bounds, and why they are enough.  A presence anomaly takes one row and at most
three connections: the one shown, the one that disturbs it, and one between
them; packets matter to the row only as late writes, of which one per
connection and those of its connect and disconnect are enough to overtake each
other.  Refused packets are looked at on one connection, whose three packets, of
QoS 1, of QoS 0 and with a payload that is refused, meet every fault.
`MaxPublish` bounds packets, connections are used once.  Calls of
`Publish` share nothing but the process, so two show every interference.  In
`scheduler` the poll reads one task although two may be due, so that one waits
while the other is published, cancelled or recorded, and could be passed over;
`MaxTime` leaves room for two occurrences of the repeating task and a missed one;
`MaxLost` bounds the records that are lost.  The calendar's horizon covers the
change and a week on both sides.  A channel of two and three events make a full
channel and a channel that holds two events of one publisher; two handlers let
one leave while a publisher has visited the other.  Four calls of one address at
a limit of two fill a window twice, and six units of time are two windows.  Two
requests of the console show every pair of operations, and each reads at most
two things before it acts; a session's row is one, since a request has one
cookie.  Three processes make a winner, a loser and one that comes after both;
with two migrations one may be ahead of another.  Devices have nothing to do with
one another, so one is enough.  Three rows and pages of one make a row that is passed, the one that
passes it and one between them; the page sizes stand for none asked for and one
above the maximum.  A system that has used its connections, calls, requests or
hours up stops, so no run checks for deadlock.

Violations.  `ingestion_presence`: `ensureDevice` overwrites the row's session
id, so a late write of a connection that has been taken over makes the old
connection's disconnect match, and the device is shown offline while its new
connection is open.  `calendar_gap`: in the spring of a zone west of Greenwich, a
daily task at the skipped hour runs twice on the following day; east of it, it
runs an hour late on that day.  Where midnight is skipped (Havana, Santiago), a
task in that hour runs twice on the day before, and it is then due again the
moment it has run, so that every poll until midnight publishes it.  `Scheduler`'s
assumption `NextRunAdvances` is false of such schedules; of those in regular zones
it is proved.

## Fairness

- `Ingestion`: `OnDisconnect` (the library calls it when a read loop ends); an
  answer or the deadline of a call that waits (`context.WithTimeout`); the answer
  to an alert.  The last is an assumption about PostgreSQL only: the alert of
  `withBackpressure` has no deadline.  Nothing makes clients act or the process
  restart.
- `Publishing`: the steps of a call once it has begun, since statements are
  answered or fail; delivery or rejection by the library once the hook has
  judged.  Not the hook itself, which is why `CancelledCallsReturn` holds however
  long it takes.
- `Scheduler`: weak fairness of the poll, which a ticker fires, and of the record
  of a run; strong fairness of publishing, since a crash disables it: a process
  is not killed between its poll and its first publication for ever.
- `RealtimeHub`: goroutines that can run do.  Browsers need not read, so `Write`
  is not fair, nor is `ContextDone`: the server no longer watches a connection
  that has become a websocket.
- `Console`: a request that can go on does; the database answers or refuses each
  statement.  It need not refuse one that waits for a row's lock (`Waits`): such a
  request is answered because the one that holds the lock lets it go.
- `Startup`: a process that can go on does, the database ends each statement, and
  a broker that closes takes leave of every client.  Nobody has to start or stop.

## Theorems

For every value of the constants, under the assumptions stated with them:

- `IngestionProofs`: `TypeCorrect`, `PersistedBeforeRouted`,
  `RecordedBeforeGranted`.  The inductive invariant adds that a publication's
  argument is a packet and a subscription's a subscription, and that an *applied*
  call's rows are there: without that it is not inductive, because `Return` hands
  over what `Land` has written.  Statements only add rows, which is the lemma
  `ExecuteEffect`.  `PersistedBeforeRouted` says which packets are delivered without a
  row, those of QoS 1 that the library routes against the hook's answer, and that
  their loss is announced; `WrittenBeforeRouted` says what the repository's README
  claims, `routed \subseteq stored`, of deployments whose packets of QoS 1 all come on
  MQTT 5 connections.  `SessionsFollowConnections` adds to the invariant
  where a connection may be while a hook runs (`InCall`).  `LossesAreAnnounced`,
  assuming that alerts can be written (`"alert_error" \notin Faults`), says
  `NoSilentLoss`; its invariant `Kept` is that, until the alert of a publication is
  raised, every packet of a connection being served is stored or in the hook's hands.
  Of presence it proves `OfflineIsExplained` and `OnlineIsExplained`, whatever the
  database, the deadlines and crashes do.  Their invariant follows `holder`, the
  connection whose connect was the last to reach the row: without a stale write the
  row carries its session id (`Rows`), so that no other disconnect changes it; a
  connection that holds the row of an open one has not been open itself
  (`OpenShown`); and the holder of a row that is rightly online lives and has not
  told the database that it leaves (`Held`).  What makes it inductive is `Signed`:
  an abandoned connect and an abandoned disconnect of one connection never exist
  together, and no abandoned connect is left of one that has been accepted.
- `PublishingProofs`: `TypeCorrect`, `HistoryFirst`, `PublishedHandled`,
  `PendingIsExplained`, and `AuditImplemented`, which says `Spec => AuditSpec`.
  The invariant relates the
  line a call is at to the status on record, and says that a call that has failed
  without its context having ended has a goroutine that will not deliver.
- `SchedulerProofs`: every invariant of the run `scheduler`, and `CanceledForGood`
  for the action property.  The invariant says of a copy that `RunDue` holds that
  the task still stands at its occurrence unless it has been cancelled, that
  everything on record is earlier, that no task is held twice, and that nothing of
  a task in the batch has been delivered after its cancellation.  It rests on
  `NextRunAdvances`: the occurrence after a run lies after the one just recorded.

  Of the calendar it proves `NextLater` in regular zones, and `TimeOfDayKept`,
  `NothingPassedOver` and `DaysAreDistinct` for hours that every day shows, which are
  the four properties of the run `calendar` for every offset, instant and set of
  weekdays.  The argument: the days of the calendar do not go back even where an
  hour is repeated (`DaysInOrder`), and `Date` stays on the day it is asked for
  (`DateKeepsDay`); so a schedule runs at one instant of each of its days, a later
  day's is later, and what the code finds is the run of the first of its days, from
  today on, that is not over (`FirstRun`).  Where a midnight is skipped `Date` leaves
  the day, and where an hour is skipped its instant shows another one: the run
  `calendar_gap` shows what then happens.

  Of both together: if tasks that repeat run by the calendar's code in regular zones
  and at hours that are shown (`ByCalendar`), they meet `NextRunAdvances`
  (`CalendarAdvances`), every run on record was due at its schedule's hour and
  weekday and no two on one day, whatever is polled late, lost or cancelled
  (`RunsKeepTheCalendar`), and they end only by being cancelled
  (`RepeatsUntilCanceled`).  `DaysOfRuns` is stated there and not in a run; it
  follows from the invariant `OnCalendar`, that every row, copy and record of such a task
  stands at a run of one of its days, and from the order of its records.
- `RealtimeHubProofs`: `TypeCorrect`, `SendsAreSafe`, `StreamsInOrder`.  The first
  two follow from the invariant of the lock: a publisher with channels left to
  visit is sending, and they are subscribed; a closed channel is not, and its
  handler has ended.  Order needs that everything in a stream is no later than
  its publisher's count, and earlier than the current event as long as the
  publisher owes it to that channel; a failed write takes an event out of the
  middle of a stream, which is the lemma `Excise`.
- `ConnectLimiterProofs`: `TypeCorrect`, `RateIsLimited`, `RefusalsHaveCause`.  The
  invariant `WindowInv` says that an address's hits are admitted calls of its own,
  and that an admitted call which is no longer among them is older than any call
  yet to be decided can count, less `MaxWait`.  A call that is admitted then finds
  every admitted call of its shortened window among its recent hits.
- `ConsoleProofs`: `TypeCorrect`, `SentIsOfRequest`, and `LedgerImplemented`, which
  says `Spec => LedgerSpec`.  The invariant says that a request which is about to
  write a type holds the row and has read what it still says (`Holding`), and what
  has been established on the way to a publication (`Since`).
- `StartupProofs`: `TypeCorrect`, `ServedAreMigrated`, `PresenceStaysOwn`, and
  `LedgerImplemented`.  `Applied` says that the recorded versions are those up to
  some point, that nobody has come further, and that of the processes at one
  migration one at most is inside its transaction; `Held` that one server holds the
  broker, and that a statement under way is its own or was left behind by one that has
  ended; `Rows` whose doing the rows are, from the reset on.
- `ListingProofs`: `MissesAreExplained` and `RepeatsAreExplained`, for any finite
  table, any page sizes and any number of changes between two pages.  A row that
  shares its time with none has one place in every order a query may return, after
  the rows above it (`Place`), so a page shows it exactly when those fill the pages
  before it and leave room (`OnPage`).  The invariant is that a row which has been
  shown and not lowered stands before the page that comes next (`ShownIsBehind`),
  one not shown and not raised behind that page's beginning (`UnshownIsAhead`), and that
  nothing is raised where rows neither move nor leave (`NoneRaised`).

Every safety property of a passing run is proved.  Only model-checked is liveness
(`HooksReturn`, `DropsAreClosed`, `CancelledCallsReturn`, `GoroutinesEnd`, `DueAreServed`,
`PublishersReturn`, `GoneAreNoticed`, `Answered`, `EachDecides`), which is out of the
prover's reach, as is induction over data; no theorem needs the latter.

## Assumptions about what is not in the repository

- One server serves on a database at a time (`Startup` shows it for servers that
  share a configuration; two with different stores and ports would reset each
  other's presence); its clock does not go back.
- The MQTT library is mochi-mqtt v2.7.9 (`go.mod`); it is not in the repository.  It
  calls the hooks of a connection one after the other, and `OnDisconnect` after the
  connection's read loop has ended.
- After `OnConnect` has let a connection through it takes the session of its client id
  over, registers the connection and sends the CONNACK.  Where that fails, or the
  packets in flight of the session cannot be sent again, it returns without a read
  loop and without `OnDisconnect` (`ConnackFails`).  Looking the old session up and
  registering the new one are one step here; two connections that do it at once
  could miss each other.
- After an error of `OnPublish` it does not route the packet if the error is
  `ErrRejectPacket`, or if it is a reason code, the connection speaks MQTT 5 and the
  packet is of QoS 1 or 2.  Otherwise it routes it.  The inline client, which the
  console's messages come from, speaks MQTT 3.1.1.  It publishes a will without asking
  `OnPublish`; wills are not modelled.  All this should be looked at again whenever the
  library is updated.
- Its `Close` returns once the clients have gone.
- PostgreSQL decides a transaction that a dead process leaves behind before the
  next process polls for due tasks.
- A token is drawn once; accounts stay as they are.
- A table has finitely many rows.
- A time zone changes its offset once in the time a task is looked at, by whole
  hours; `time.LoadLocation` and `time.Date` are as documented.

## Observed

Facts met while modelling that no run exhibits:

- `ListScheduledTasks` selects `id`, `status` and others unqualified from a join in
  which both tables have them; PostgreSQL rejects that as ambiguous, on every
  call.  No test runs the statement.
- The limiter's key is `cl.Net.Remote`, an address with its port, so that
  hardly two connections share a window; and no key is ever removed.
- The repository's README says that a message is written first and that the broker may
  route it only when that has succeeded.  With the library's version that `go.mod`
  names this is not so of QoS 1 before MQTT 5: a packet of a 3.1.1 client, or of the
  console, is routed although its write has failed, because the hook answers with an
  MQTT 5 reason code and not with `ErrRejectPacket`.  `RoutedArePersisted` and
  `RoutedInHistory` say what holds instead; `WrittenThenRouted` is the claim itself.
- A will is routed without being written to the history, since the library does not
  call `OnPublish` for it.
- The alert about a disconnect that timed out is raised with the context that has
  timed out (`ingestor.go:117`): the device stays online, as `OnlineExplained`
  names it, and no alert says so.
- A page past the last one reports a total of zero, since the total comes with
  the rows.  The page number has no upper limit, so that its offset can overflow;
  the statement then fails.
- Sessions that have expired are never deleted.
- The retention job is started by nothing.

## Not modelled, and the plan

Not modelled for good: the frontend, which reads first pages only; decoding and
encoding in the router; reading the environment; string validation; what the
rows' other columns say; the wiring of services.

Next, in this order:

1. Refinements across modules: that `Publish` of `Scheduler` and of `Console` is what
   `Publishing` makes of it, and the admissions of `Ingestion` what `ConnectLimiter` does.
2. `MessageHistory`: the partitions that publishing makes, at a month's end, and
   retention.
3. `Console` composed with `Publishing`, so that executing is taken apart as well.
4. The weekly loop where midnight is skipped: it asks for the weekday of the
   clock time that does not exist, and can pass a run over.
