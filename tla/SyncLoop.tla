----------------------------- MODULE SyncLoop -----------------------------
(***************************************************************************)
(* The life of the background task: lifespan runs one batch, starts        *)
(* background_sync_loop and cancels it at shutdown; each turn of the loop  *)
(* sleeps, selects the active jobs and asks the parser server about them   *)
(* through a semaphore.  What a batch does to the rows is ParsePipeline's  *)
(* subject; this module is about two settings the loop reads on its way,   *)
(* parse_poll_interval_seconds and parse_max_concurrent_checks, which the  *)
(* settings page stores as any text.                                       *)
(***************************************************************************)
EXTENDS Integers, FiniteSets

CONSTANTS
  Job,
  Intervals,   \* the values of the interval in this run: "number" or "text"
  Limits       \* the values of the limit; -1 is one that int() or Semaphore()
               \* refuses: text or a negative number

ASSUME SettingsAssumption ==
  /\ Intervals \subseteq {"number", "text"}
  /\ Limits \subseteq Int /\ \A n \in Limits : n >= -1

VARIABLES
  interval, limit,   \* the two settings, as cached
  client,            \* app.state.parser_client is not None
  server,            \* starting, up, stopping, down, or broken
  loop,              \* unborn, sleep, batch, spin, dead, or cancelled
  active,            \* the jobs whose rows are active
  queued, asking,    \* the jobs of the batch before and in get_job_status
  permits,           \* what is left of the semaphore
  bound              \* the limit this batch's semaphore was made with

settings == <<interval, limit>>
batchVars == <<queued, asking, permits, bound>>
vars == <<settings, client, server, loop, active, batchVars>>

TypeOK ==
  /\ interval \in Intervals /\ limit \in Limits
  /\ client \in BOOLEAN
  /\ server \in {"starting", "up", "stopping", "down", "broken"}
  /\ loop \in {"unborn", "sleep", "batch", "spin", "dead", "cancelled"}
  /\ active \in SUBSET Job
  /\ queued \in SUBSET Job /\ asking \in SUBSET Job
  /\ permits \in Nat /\ bound \in Nat

\* get_cached_int raises inside the try of the loop before anything is awaited:
\* the loop goes round for ever and the event loop runs nothing else.
Frozen == loop = "spin"
NextTurn == IF interval = "text" THEN "spin" ELSE "sleep"

\* The first thing the task does is to log the interval, outside the try: the
\* exception ends the task.
FirstTurn == IF interval = "text" THEN "dead" ELSE "sleep"

\* From sync_task.cancel() on, the task goes no further than its present await.
Cancelled == server = "stopping"

\* lifespan awaits resync_pending_jobs before it starts the task.
Resyncing == server = "starting" /\ loop = "unborn"
EndBatch ==
  IF server = "starting"
  THEN server' = "up" /\ loop' = FirstTurn
  ELSE loop' = NextTurn /\ UNCHANGED server

-----------------------------------------------------------------------------
\* A turn of the loop, or the batch at startup: the semaphore is made.
BeginBatch ==
  /\ Resyncing \/ (loop = "sleep" /\ ~Cancelled)
  /\ client /\ active # {} /\ limit >= 0
  /\ loop' = "batch"
  /\ queued' = active /\ asking' = {}
  /\ permits' = limit /\ bound' = limit
  /\ UNCHANGED <<settings, client, server, active>>

\* No client, nothing to do, or an exception that is logged.
\* Variant: at startup the exception is not caught.
SkipBatchRaises ==
  /\ Resyncing \/ (loop = "sleep" /\ ~Cancelled)
  /\ ~client \/ active = {}
  /\ EndBatch
  /\ UNCHANGED <<settings, client, active, batchVars>>
SkipBatch ==
  /\ Resyncing \/ (loop = "sleep" /\ ~Cancelled)
  /\ ~client \/ active = {} \/ limit < 0
  /\ EndBatch
  /\ UNCHANGED <<settings, client, active, batchVars>>

\* sync_with_semaphore: a permit is taken for the call and given back after it.
\* Variant: nobody waits for a permit.
AcquireFreely(j) ==
  /\ loop = "batch" /\ ~Cancelled /\ j \in queued
  /\ queued' = queued \ {j}
  /\ asking' = asking \cup {j}
  /\ permits' = permits - 1
  /\ UNCHANGED <<settings, client, server, loop, active, bound>>
Acquire(j) ==
  /\ loop = "batch" /\ ~Cancelled /\ j \in queued /\ permits > 0
  /\ queued' = queued \ {j}
  /\ asking' = asking \cup {j}
  /\ permits' = permits - 1
  /\ UNCHANGED <<settings, client, server, loop, active, bound>>

\* The call returns, fails or times out.
\* Variant: the permit is not given back.
AnsweredKeeps(j) ==
  /\ loop = "batch" /\ ~Cancelled /\ j \in asking
  /\ asking' = asking \ {j}
  /\ UNCHANGED <<settings, client, server, loop, active, queued, permits, bound>>
Answered(j) ==
  /\ loop = "batch" /\ ~Cancelled /\ j \in asking
  /\ asking' = asking \ {j}
  /\ permits' = permits + 1
  /\ UNCHANGED <<settings, client, server, loop, active, queued, bound>>

\* All have answered: some jobs settle, or the batch fails and is rolled back.
Apply ==
  /\ loop = "batch" /\ ~Cancelled /\ queued = {} /\ asking = {}
  /\ active' \in SUBSET active
  /\ EndBatch
  /\ UNCHANGED <<settings, client, batchVars>>

-----------------------------------------------------------------------------
\* The rest of the process: it runs only while the event loop does.

ChangeSettings ==
  /\ server = "up" /\ ~Frozen
  /\ interval' \in Intervals /\ limit' \in Limits
  /\ UNCHANGED <<client, server, loop, active, batchVars>>

\* Variant: a batch under way takes up the new job.
StartParseJoins(j) ==
  /\ server = "up" /\ ~Frozen /\ client
  /\ active' = active \cup {j}
  /\ queued' = IF loop = "batch" /\ j \notin asking THEN queued \cup {j} ELSE queued
  /\ UNCHANGED <<settings, client, server, loop, asking, permits, bound>>
StartParse(j) ==
  /\ server = "up" /\ ~Frozen /\ client
  /\ active' = active \cup {j}
  /\ UNCHANGED <<settings, client, server, loop, batchVars>>

\* uvicorn ends the lifespan.
Shutdown ==
  /\ server = "up" /\ ~Frozen
  /\ server' = "stopping"
  /\ UNCHANGED <<settings, client, loop, active, batchVars>>

\* sync_task.cancel() raises CancelledError at the task's await, and lifespan
\* waits for it.
\* Variant: the loop takes the cancellation for any other exception.
CancelTaskCaught ==
  /\ Cancelled /\ loop \in {"sleep", "batch"}
  /\ loop' = NextTurn
  /\ UNCHANGED <<settings, client, server, active, batchVars>>
CancelTask ==
  /\ Cancelled /\ loop \in {"sleep", "batch"}
  /\ loop' = "cancelled"
  /\ queued' = {} /\ asking' = {}
  /\ UNCHANGED <<settings, client, server, active, permits, bound>>

Stop ==
  /\ Cancelled /\ loop = "cancelled"
  /\ server' = "down"
  /\ UNCHANGED <<settings, client, loop, active, batchVars>>

\* Awaiting a task that has died raises its exception: lifespan takes it for a
\* failed start, starts another task and yields a second time.
StopFails ==
  /\ Cancelled /\ loop = "dead"
  /\ server' = "broken"
  /\ UNCHANGED <<settings, client, loop, active, batchVars>>

-----------------------------------------------------------------------------
\* A new process finds the settings and the active jobs of the one before.
Init ==
  /\ interval \in Intervals /\ limit \in Limits
  /\ client \in BOOLEAN
  /\ server = "starting" /\ loop = "unborn"
  /\ active \in SUBSET Job
  /\ queued = {} /\ asking = {}
  /\ permits = 0 /\ bound = 0

TaskStep ==
  \/ BeginBatch
  \/ SkipBatch
  \/ \E j \in Job : Acquire(j) \/ Answered(j)
  \/ Apply
  \/ CancelTask
  \/ Stop
  \/ StopFails

Next ==
  \/ TaskStep
  \/ ChangeSettings
  \/ \E j \in Job : StartParse(j)
  \/ Shutdown

\* The event loop runs the task, and every call ends.
Spec == Init /\ [][Next]_vars
FairSpec == Spec /\ WF_vars(TaskStep)

-----------------------------------------------------------------------------
\* The parser server never gets more status calls at once than the setting said
\* when the batch began ("동기화 최대 동시 조회 수"), also while the setting is
\* changed, and also across a startup batch and a turn of the loop.
CallsBounded == Cardinality(asking) <= bound

\* The task can take its next step.
TaskReady ==
  \/ Resyncing \/ (loop = "sleep" /\ ~Cancelled)
  \/ /\ loop = "batch" /\ ~Cancelled
     /\ queued = {} \/ asking # {} \/ permits > 0
  \/ Cancelled /\ loop \in {"sleep", "batch", "cancelled", "dead"}
ReadyExact == TaskReady <=> ENABLED TaskStep

\* While the process lives, the task stands still for three reasons only: the
\* loop is frozen, and then the interval is the text that froze it and nobody can
\* change it any more; the task has died at its first turn; or the semaphore was
\* made with a limit of 0.  In particular no permit is ever lost.
StuckOnlyBySetting ==
  server \notin {"down", "broken"} /\ ~TaskReady =>
    \/ Frozen /\ interval = "text"
    \/ loop = "dead"
    \/ loop = "batch" /\ bound = 0

\* A process whose interval is a number and whose limit is at least 1, however
\* they change, never stands still.
KeepsGoing ==
  [](interval = "number" /\ limit > 0)
    => [](server \notin {"down", "broken"} => TaskReady)

\* Every step of a batch brings its end nearer, and nobody else puts it off: it
\* asks about the jobs it has selected, not about those that arrive meanwhile.
BatchLeft == IF loop = "batch" THEN 2 * Cardinality(queued) + Cardinality(asking) + 1 ELSE 0
BatchEnds == [][loop = "batch" =>
                  BatchLeft' <= BatchLeft /\ (TaskStep => BatchLeft' < BatchLeft)]_vars

\* An active job is asked about as long as the process serves ("미완료 파싱 작업을
\* 주기적으로 parser-server와 동기화").
Polled ==
  \A j \in Job : (client /\ server = "up" /\ j \in active)
                   ~> (j \in asking \/ j \notin active \/ server # "up")

\* So it is while both settings hold numbers, at least 1 for the limit, however
\* they change.
JobsPolled == [](interval = "number" /\ limit > 0) => Polled

\* Rejected for the code: so it is whatever the settings page accepts.
JobsAlwaysPolled == Polled

\* The application comes up whatever it has to synchronise and whatever the
\* settings say ("앱은 정상 시작됩니다"), except for a limit of 0: nobody ever gets
\* a permit from Semaphore(0), and lifespan waits for the startup batch.
ComesUp == [](limit # 0) => (server = "starting" ~> server # "starting")

\* Shutdown ends, in whatever the task is doing, and without an error unless
\* the task has died of an interval that is no number.
StopsCleanly == [](interval = "number") => (server = "stopping" ~> server = "down")
=============================================================================
