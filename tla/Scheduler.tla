----------------------------- MODULE Scheduler -----------------------------
(***************************************************************************)
(* Scheduled publications: creating and cancelling a task, the polling     *)
(* loop and RunDue of internal/service/scheduled_publish.go, and the rows  *)
(* of `scheduled_publish_tasks` and `scheduled_publish_runs` that          *)
(* internal/storage/postgres/store.go keeps.                               *)
(*                                                                         *)
(* One goroutine polls.  It reads up to Limit due tasks and handles the    *)
(* copies it has read one after the other; meanwhile the console cancels   *)
(* tasks, time passes, the recording of a run may fail and the process may *)
(* die.  A transaction that a dead process leaves behind is decided before *)
(* the next process polls.                                                 *)
(***************************************************************************)
EXTENDS Integers, Sequences, FiniteSets

CONSTANTS
    Tasks,       \* task ids
    Once,        \* the tasks of schedule type once; the others repeat
    NextRun,     \* when a task that repeats runs next, seen from a given time
    Limit,       \* how many due tasks a poll reads
    MaxTime,     \* bound: the clock stops there
    MaxLost,     \* bound: crashes and runs that could not be recorded
    None         \* NULL; no next run can be calculated

Times == 0 .. MaxTime

ASSUME SchedulerAssumption ==
    /\ Once \subseteq Tasks
    /\ NextRun \in [Tasks -> [Times -> Nat \cup {None}]]
    /\ Limit \in Nat \ {0}
    /\ MaxTime \in Nat
    /\ MaxLost \in Nat
    /\ None \notin Int /\ None \notin Tasks

\* What Calendar establishes of the code that calculates the next run.
ASSUME NextRunAdvances ==
    \A t \in Tasks \ Once, n \in Times :
        NextRun[t][n] # None => NextRun[t][n] > n

VARIABLES
    now,         \* the clock
    task,        \* rows of scheduled_publish_tasks
    runs,        \* rows of scheduled_publish_runs: scheduled_for, by task
    batch,       \* the copies RunDue has read and not begun
    current,     \* the copy runOne is at, once its message has been published
    delivered,   \* how often the message of each task reached the broker
    lost,        \* history: runs that took place and were not recorded
    overrun      \* history: messages delivered when their task was canceled

rows    == <<task, runs>>
poller  == <<batch, current>>
effects == <<delivered, lost, overrun>>
vars    == <<now, rows, poller, effects>>

NoRun == [task |-> None]

Init ==
    /\ now = 0
    /\ task = [t \in Tasks |-> [status |-> "absent", next |-> None, count |-> 0]]
    /\ runs = [t \in Tasks |-> <<>>]
    /\ batch = {}
    /\ current = NoRun
    /\ delivered = [t \in Tasks |-> 0]
    /\ lost = [t \in Tasks |-> 0]
    /\ overrun = [t \in Tasks |-> 0]

(***************************************************************************)
(* The console.                                                            *)
(***************************************************************************)
\* NextRunForCommand: a date in the future, or the schedule's next one.
FirstRuns(t) == IF t \in Once THEN now + 1 .. MaxTime ELSE {NextRun[t][now]} \ {None}

CreateScheduledPublish(t) ==
    /\ task[t].status = "absent"
    /\ \E n \in FirstRuns(t) :
          task' = [task EXCEPT ![t] = [status |-> "active", next |-> n, count |-> 0]]
    /\ UNCHANGED <<now, runs, poller, effects>>

\* The status the task has is not looked at.
CancelScheduledPublish(t) ==
    /\ task[t].status # "absent"
    /\ task' = [task EXCEPT ![t].status = "canceled", ![t].next = None]
    /\ UNCHANGED <<now, runs, poller, effects>>

(***************************************************************************)
(* The scheduler.                                                          *)
(***************************************************************************)
Due == {t \in Tasks : /\ task[t].status = "active"
                      /\ task[t].next # None
                      /\ task[t].next <= now}

Copy(t) == [task |-> t, for |-> task[t].next]

\* ORDER BY next_run_at LIMIT: no task that is left out is due before one that
\* is read.
Earliest(S) ==
    /\ S \subseteq Due
    /\ Cardinality(S) = IF Cardinality(Due) < Limit THEN Cardinality(Due)
                                                    ELSE Limit
    /\ \A t \in S, u \in Due \ S : task[t].next <= task[u].next

\* Broken variant: the ticker does not wait for the batch that is under way.
PollOverlapping ==
    /\ \E S \in SUBSET Due :
          Earliest(S) /\ batch' = batch \cup {Copy(t) : t \in S}
    /\ UNCHANGED <<now, rows, current, effects>>

\* A poll whose query fails is a stuttering step.
Poll ==
    /\ batch = {} /\ current = NoRun
    /\ \E S \in SUBSET Due : Earliest(S) /\ batch' = {Copy(t) : t \in S}
    /\ UNCHANGED <<now, rows, current, effects>>

\* Broken variant: a publication that fails is tried again at once.
PublishUntilAccepted(s) ==
    /\ current = NoRun
    /\ s \in batch
    /\ \/ batch' = batch /\ current' = current
       \/ /\ batch' = batch \ {s}
          /\ current' = [task |-> s.task, for |-> s.for,
                         result |-> "published", finishedAt |-> now]
    /\ delivered' = [delivered EXCEPT ![s.task] = @ + 1]
    /\ overrun' = [overrun EXCEPT ![s.task] =
                      IF task[s.task].status = "canceled" THEN @ + 1 ELSE @]
    /\ UNCHANGED <<now, rows, lost>>

\* runOne calls Publish with the copy, whatever has become of the task.  By
\* Publishing, an error leaves open whether the message was delivered, and so
\* does success, when the library has rejected the message without an error.
Publish(s) ==
    /\ current = NoRun
    /\ s \in batch
    /\ \A r \in batch : s.for <= r.for
    /\ batch' = batch \ {s}
    /\ \E result \in {"published", "failed"} :
          current' = [task |-> s.task, for |-> s.for, result |-> result,
                      finishedAt |-> now]
    /\ \/ UNCHANGED <<delivered, overrun>>
       \/ /\ delivered' = [delivered EXCEPT ![s.task] = @ + 1]
          /\ overrun' = [overrun EXCEPT ![s.task] =
                            IF task[s.task].status = "canceled" THEN @ + 1 ELSE @]
    /\ UNCHANGED <<now, rows, lost>>

\* Broken variant: the error of the next run's calculation is not looked at.
VerdictUnchecked(r) ==
    IF r.task \in Once
    THEN [status |-> "completed", next |-> None]
    ELSE [status |-> "active", next |-> NextRun[r.task][r.finishedAt]]

\* What runOne makes of the task: status and next run.
Verdict(r) ==
    LET next == NextRun[r.task][r.finishedAt] IN
    IF r.task \in Once
    THEN [status |-> IF r.result = "published" THEN "completed" ELSE "failed",
          next |-> None]
    ELSE [status |-> IF next = None THEN "failed" ELSE "active", next |-> next]

\* Broken variant: the update is not restricted to active tasks.
FinishAnyTask ==
    /\ current # NoRun
    /\ runs' = [runs EXCEPT ![current.task] = Append(@, current.for)]
    /\ task' = [task EXCEPT ![current.task] =
                   [status |-> Verdict(current).status,
                    next |-> Verdict(current).next, count |-> @.count + 1]]
    /\ current' = NoRun
    /\ UNCHANGED <<now, batch, effects>>

\* Broken variant: the run is recorded and the task is left to another statement.
FinishRunOnly ==
    /\ current # NoRun
    /\ runs' = [runs EXCEPT ![current.task] = Append(@, current.for)]
    /\ current' = NoRun
    /\ UNCHANGED <<now, task, batch, effects>>

\* Broken variant: runOne returns early when publishing has failed.
FinishSuccessOnly ==
    /\ current # NoRun
    /\ IF current.result = "failed" THEN UNCHANGED rows
       ELSE /\ runs' = [runs EXCEPT ![current.task] = Append(@, current.for)]
            /\ task' = [task EXCEPT ![current.task].next = None,
                                    ![current.task].status = "completed",
                                    ![current.task].count = @ + 1]
    /\ current' = NoRun
    /\ UNCHANGED <<now, batch, effects>>

\* The run is recorded in any case, the task only updated while it is active.
FinishScheduledRun ==
    /\ current # NoRun
    /\ runs' = [runs EXCEPT ![current.task] = Append(@, current.for)]
    /\ task' = IF task[current.task].status = "active"
               THEN [task EXCEPT ![current.task] =
                        [status |-> Verdict(current).status,
                         next |-> Verdict(current).next,
                         count |-> @.count + 1]]
               ELSE task
    /\ current' = NoRun
    /\ UNCHANGED <<now, batch, effects>>

\* The transaction fails: the error is logged and the task is due as before.
FinishLost ==
    /\ current # NoRun
    /\ lost[current.task] < MaxLost
    /\ lost' = [lost EXCEPT ![current.task] = @ + 1]
    /\ current' = NoRun
    /\ UNCHANGED <<now, rows, batch, delivered, overrun>>

\* Shutting down does to the scheduler what a crash does: the context that its
\* statements use has ended.
Crash ==
    /\ batch # {} \/ current # NoRun
    /\ \/ current = NoRun /\ UNCHANGED lost
       \/ /\ current # NoRun
          /\ lost[current.task] < MaxLost
          /\ lost' = [lost EXCEPT ![current.task] = @ + 1]
    /\ batch' = {}
    /\ current' = NoRun
    /\ UNCHANGED <<now, rows, delivered, overrun>>

Tick ==
    /\ now < MaxTime
    /\ now' = now + 1
    /\ UNCHANGED <<rows, poller, effects>>

Next ==
    \/ \E t \in Tasks : CreateScheduledPublish(t) \/ CancelScheduledPublish(t)
    \/ Poll
    \/ \E s \in batch : Publish(s)
    \/ FinishScheduledRun
    \/ FinishLost
    \/ Crash
    \/ Tick

Spec == Init /\ [][Next]_vars

\* The ticker fires, publishing returns, the database answers, and a process is
\* not killed between its poll and its first publication for ever.
FairSpec ==
    /\ Spec
    /\ WF_vars(Poll)
    /\ SF_vars(\E s \in batch : Publish(s))
    /\ WF_vars(FinishScheduledRun)

(***************************************************************************)
(* Properties.                                                             *)
(***************************************************************************)
Copies == [task : Tasks, for : Nat]

\* scheduled_publish.go and store.go keep every variable in its type.
TypeOK ==
    /\ now \in Times
    /\ task \in [Tasks -> [status : {"absent", "active", "completed", "failed",
                                    "canceled"},
                           next : Nat \cup {None}, count : Nat]]
    /\ runs \in [Tasks -> Seq(Nat)]
    /\ batch \subseteq Copies
    /\ current \in [task : Tasks, for : Nat, result : {"published", "failed"},
                    finishedAt : Times] \cup {NoRun}
    /\ delivered \in [Tasks -> Nat]
    /\ lost \in [Tasks -> Nat]
    /\ overrun \in [Tasks -> Nat]

\* A task has a next run exactly while it is active: one that failed, ended or
\* was canceled is never read again, one that is active is never forgotten
\* (runOne, FinishScheduledRun, CancelScheduledTask).
ActiveHasNext ==
    \A t \in Tasks : task[t].status = "active" <=> task[t].next # None

\* Each occurrence of a task is recorded at most once, in order, through
\* crashes, lost records and missed occurrences (RunDue, FinishScheduledRun).
OccurrencesRecordedOnce ==
    \A t \in Tasks : \A i, j \in 1 .. Len(runs[t]) :
        i < j => runs[t][i] < runs[t][j]

\* run_count is the number of recorded runs, but for the run during which the
\* task was canceled (FinishScheduledRun inserts it and leaves the task).
CountMatches ==
    \A t \in Tasks :
        \/ Len(runs[t]) = task[t].count
        \/ task[t].status = "canceled" /\ Len(runs[t]) = task[t].count + 1

\* A message is delivered more often than its task has runs on record only if
\* the record of a run was lost (Publish comes before FinishScheduledRun).
DuplicatesExplained ==
    \A t \in Tasks :
        delivered[t] <= Len(runs[t]) + lost[t]
                        + (IF current.task = t THEN 1 ELSE 0)

\* Cancelling cannot recall the copy RunDue holds, but nothing after it.
CancelStops == \A t \in Tasks : overrun[t] <= 1

\* A canceled task stays canceled, also when a run of it ends afterwards.
CancelIsFinal ==
    [][\A t \in Tasks : task[t].status = "canceled" => task'[t] = task[t]]_vars

\* A task that is due is run or canceled, whatever the other tasks do and
\* however its own publications fail.
DueAreServed ==
    \A t \in Tasks : \A n \in 0 .. MaxTime :
        /\ task[t].status = "active" /\ task[t].next <= now
        /\ Len(runs[t]) = n
        ~> Len(runs[t]) > n \/ task[t].status # "active"
=============================================================================
