--------------------------- MODULE SyncLoopProofs ---------------------------
(***************************************************************************)
(* Proofs that the semaphore bounds the status calls, that only the two    *)
(* settings can stop the loop, and that every batch comes to an end, for   *)
(* any jobs and any values the settings may take while the process runs.   *)
(***************************************************************************)
EXTENDS SyncLoop, FiniteSetTheorems, TLAPS

\* A job of the batch waits or asks; what the batch has taken and what is left
\* make up the semaphore; outside a batch no call is under way.
PermitsAccounted ==
  /\ IsFiniteSet(asking) /\ queued \cap asking = {}
  /\ loop = "batch" => Cardinality(asking) + permits = bound
  /\ loop # "batch" => asking = {}

SyncInv == TypeOK /\ PermitsAccounted

LEMMA SyncInit == Init => SyncInv
BY FS_EmptySet DEF Init, SyncInv, TypeOK, PermitsAccounted

LEMMA BeginStep == SyncInv /\ BeginBatch => SyncInv'
BY SettingsAssumption, FS_EmptySet
   DEF SyncInv, TypeOK, PermitsAccounted, BeginBatch, settings

LEMMA SkipStep == SyncInv /\ SkipBatch => SyncInv'
BY DEF SyncInv, TypeOK, PermitsAccounted, SkipBatch, settings, batchVars, EndBatch,
       FirstTurn, NextTurn, Resyncing

LEMMA ApplyStep == SyncInv /\ Apply => SyncInv'
BY DEF SyncInv, TypeOK, PermitsAccounted, Apply, settings, batchVars, EndBatch,
       FirstTurn, NextTurn

LEMMA AcquireStep == ASSUME SyncInv, NEW j \in Job, Acquire(j) PROVE SyncInv'
<1>1. TypeOK'
  BY DEF SyncInv, TypeOK, Acquire, settings
<1>2. j \notin asking
  BY DEF SyncInv, PermitsAccounted, Acquire
<1>3. IsFiniteSet(asking') /\ Cardinality(asking') = Cardinality(asking) + 1
  BY <1>2, FS_AddElement DEF SyncInv, PermitsAccounted, Acquire
<1>4. Cardinality(asking) \in Nat
  BY FS_CardinalityType DEF SyncInv, PermitsAccounted
<1> QED
  BY <1>1, <1>3, <1>4 DEF SyncInv, TypeOK, PermitsAccounted, Acquire

LEMMA AnsweredStep == ASSUME SyncInv, NEW j \in Job, Answered(j) PROVE SyncInv'
<1>1. IsFiniteSet(asking') /\ Cardinality(asking') = Cardinality(asking) - 1
  BY FS_RemoveElement DEF SyncInv, PermitsAccounted, Answered
<1>2. Cardinality(asking) \in Nat
  BY FS_CardinalityType DEF SyncInv, PermitsAccounted
<1>3. TypeOK'
  BY DEF SyncInv, TypeOK, Answered, settings
<1> QED
  BY <1>1, <1>2, <1>3 DEF SyncInv, TypeOK, PermitsAccounted, Answered

LEMMA OtherStep ==
  ASSUME SyncInv,
         \/ CancelTask \/ Stop \/ StopFails \/ ChangeSettings \/ Shutdown
         \/ \E j \in Job : StartParse(j)
  PROVE  SyncInv'
BY FS_EmptySet
   DEF SyncInv, TypeOK, PermitsAccounted, settings, batchVars, CancelTask, Stop,
       StopFails, ChangeSettings, Shutdown, StartParse

LEMMA SyncNext == SyncInv /\ [Next]_vars => SyncInv'
<1>1. CASE UNCHANGED vars
  BY <1>1 DEF SyncInv, TypeOK, PermitsAccounted, vars, settings, batchVars
<1> QED
  BY <1>1, BeginStep, SkipStep, AcquireStep, AnsweredStep, ApplyStep, OtherStep
     DEF Next, TaskStep

\* The parser server never gets more status calls at once than the setting said
\* when the batch began: for any number of jobs, any limits, and whenever the
\* setting is changed.
THEOREM CallsStayBounded == Spec => []CallsBounded
<1>1. SyncInv => CallsBounded
  BY FS_EmptySet, FS_CardinalityType DEF SyncInv, TypeOK, PermitsAccounted, CallsBounded
<1> QED
  BY <1>1, SyncInit, SyncNext, PTL DEF Spec

\* The task, the semaphore and the two settings keep their types: no permit is
\* given back twice, and none is taken that was not there.
THEOREM SyncLoopTypeCorrect == Spec => []TypeOK
<1>1. SyncInv => TypeOK
  BY DEF SyncInv
<1> QED
  BY <1>1, SyncInit, SyncNext, PTL DEF Spec

-----------------------------------------------------------------------------
\* Progress

\* Where the task can be in each phase of the process; a frozen loop has the
\* text that froze it.
TaskInPlace ==
  /\ server = "starting" => loop \in {"unborn", "batch"}
  /\ server = "up" => loop \in {"sleep", "batch", "spin", "dead"}
  /\ server = "stopping" => loop \in {"sleep", "batch", "dead", "cancelled"}
  /\ Frozen => interval = "text"

LEMMA TaskInPlaceKept == TaskInPlace /\ SyncInv /\ [Next]_vars => TaskInPlace'
BY DEF TaskInPlace, SyncInv, TypeOK, Next, TaskStep, BeginBatch, SkipBatch, Acquire, Answered, Apply, CancelTask,
  Stop, StopFails, ChangeSettings, StartParse, Shutdown, Resyncing, Cancelled, EndBatch,
  FirstTurn, NextTurn, Frozen, vars, settings, batchVars

\* While the process lives, the task stands still only for a text interval or a
\* limit of 0: for any jobs, any values and any changes of the two settings.
THEOREM OnlySettingsStopTheLoop == Spec => []StuckOnlyBySetting
<1>1. Init => TaskInPlace
  BY DEF Init, TaskInPlace, Frozen
<1>2. SyncInv /\ TaskInPlace => StuckOnlyBySetting
  <2> SUFFICES ASSUME SyncInv, TaskInPlace, server \notin {"down", "broken"}, ~TaskReady,
                      loop # "spin", loop # "dead"
               PROVE  loop = "batch" /\ bound = 0
    BY DEF StuckOnlyBySetting, TaskInPlace, Frozen
  <2>1. loop = "batch" /\ asking = {} /\ ~(permits > 0)
    BY DEF SyncInv, TypeOK, TaskInPlace, TaskReady, Resyncing, Cancelled
  <2>2. permits = 0 /\ Cardinality(asking) = 0
    BY <2>1, FS_EmptySet DEF SyncInv, TypeOK
  <2> QED BY <2>1, <2>2 DEF SyncInv, TypeOK, PermitsAccounted
<1> QED BY <1>1, <1>2, SyncInit, SyncNext, TaskInPlaceKept, PTL DEF Spec

\* A process that stands still: it lives, and its task can take no step.
StandsStill == server \notin {"down", "broken"} /\ ~TaskReady

LEMMA StepsNeedReady == SyncInv /\ TaskStep => TaskReady
BY DEF SyncInv, TypeOK, TaskStep, TaskReady, BeginBatch, SkipBatch, Acquire, Answered, Apply,
  CancelTask, Stop, StopFails, Resyncing, Cancelled

\* Whatever has stopped the task has stopped it for good: no setting that is saved
\* and no job that is started gets it going again.  Only the shutdown of the process
\* does, and only where the event loop still runs and the startup is over.
THEOREM StandstillsLast ==
  Spec => [][StandsStill => StandsStill' \/ (Shutdown /\ ~Frozen /\ server = "up")]_vars
<1>1. ASSUME SyncInv, [Next]_vars, StandsStill
      PROVE  StandsStill' \/ (Shutdown /\ ~Frozen /\ server = "up")
  <2>1. ~TaskStep
    BY <1>1, StepsNeedReady DEF StandsStill
  <2>2. CASE ChangeSettings \/ (\E j \in Job : StartParse(j)) \/ UNCHANGED vars
    BY <1>1, <2>2 DEF StandsStill, TaskReady, Resyncing, Cancelled, ChangeSettings, StartParse,
      vars, settings, batchVars
  <2>3. CASE Shutdown
    BY <2>3 DEF Shutdown
  <2> QED BY <1>1, <2>1, <2>2, <2>3 DEF Next
<1>2. SyncInv /\ [Next]_vars
        => [StandsStill => StandsStill' \/ (Shutdown /\ ~Frozen /\ server = "up")]_vars
  BY <1>1
<1>3. Spec => []SyncInv
  BY SyncInit, SyncNext, PTL DEF Spec
<1> QED BY <1>2, <1>3, PTL DEF Spec

\* As long as the interval is a number and the limit is at least 1, the loop is
\* neither frozen nor dead and every semaphore has permits to give.
Sound == interval = "number" /\ limit > 0
LoopSound == loop \notin {"spin", "dead"} /\ (loop = "batch" => bound > 0)

LEMMA LoopSoundKept == SyncInv /\ Sound /\ LoopSound /\ [Next]_vars => LoopSound'
BY DEF Sound, LoopSound, SyncInv, TypeOK, Next, TaskStep, BeginBatch, SkipBatch, Acquire, Answered,
  Apply, CancelTask, Stop, StopFails, ChangeSettings, StartParse, Shutdown, Resyncing,
  Cancelled, EndBatch, FirstTurn, NextTurn, Frozen, vars, settings, batchVars

\* A process whose interval is a number and whose limit is at least 1 never
\* stands still: what JobsPolled, ComesUp and StopsCleanly add is that the event
\* loop runs what is ready.
THEOREM NumbersKeepTheLoopGoing == Spec => KeepsGoing
<1>1. Init => LoopSound
  BY DEF Init, LoopSound
<1>2. LoopSound /\ StuckOnlyBySetting => (server \notin {"down", "broken"} => TaskReady)
  BY DEF LoopSound, StuckOnlyBySetting, Frozen
<1> DEFINE Live == server \notin {"down", "broken"} => TaskReady
<1>3. LoopSound /\ StuckOnlyBySetting => Live
  BY <1>2
<1>4. Spec => []SyncInv
  BY SyncInit, SyncNext, PTL DEF Spec
<1>5. Spec /\ []Sound => []LoopSound
  BY <1>1, <1>4, LoopSoundKept, PTL DEF Spec
<1>6. Spec /\ []Sound => []Live
  BY <1>3, <1>5, OnlySettingsStopTheLoop, PTL
<1> QED BY <1>6 DEF KeepsGoing, Sound

\* While the interval is a number, whatever the limit, the loop neither freezes nor
\* dies, and no shutdown ends in an error: what StopsCleanly adds is that it ends.
THEOREM NumbersStopCleanly ==
  Spec => ([](interval = "number") => [](~Frozen /\ loop # "dead" /\ server # "broken"))
<1> DEFINE Number == interval = "number"
           Whole == ~Frozen /\ loop # "dead" /\ server # "broken"
<1>1. Init => Whole
  BY DEF Init, Frozen
<1>2. Number /\ Whole /\ [Next]_vars => Whole'
  BY DEF Next, TaskStep, BeginBatch, SkipBatch, Acquire, Answered, Apply, CancelTask, Stop, StopFails,
    ChangeSettings, StartParse, Shutdown, EndBatch, FirstTurn, NextTurn, Frozen, vars, settings, batchVars
<1>3. Spec /\ []Number => []Whole
  BY <1>1, <1>2, PTL DEF Spec
<1> QED BY <1>3

\* The work of a batch shrinks with every step of the task and with no other:
\* of finitely many jobs, that is.
THEOREM BatchesEnd == IsFiniteSet(Job) => (Spec => BatchEnds)
<1> SUFFICES ASSUME IsFiniteSet(Job) PROVE Spec => BatchEnds
  OBVIOUS
<1> DEFINE Shrinks == loop = "batch" =>
             BatchLeft' <= BatchLeft /\ (TaskStep => BatchLeft' < BatchLeft)
<1>1. SyncInv /\ [Next]_vars => Shrinks
  <2> SUFFICES ASSUME SyncInv, [Next]_vars, loop = "batch"
               PROVE  BatchLeft' <= BatchLeft /\ (TaskStep => BatchLeft' < BatchLeft)
    OBVIOUS
  <2> DEFINE q == Cardinality(queued)  a == Cardinality(asking)
  <2>1. IsFiniteSet(queued) /\ IsFiniteSet(asking) /\ q \in Nat /\ a \in Nat
    BY FS_Subset, FS_CardinalityType DEF SyncInv, TypeOK
  <2>2. BatchLeft = 2 * q + a + 1
    BY DEF BatchLeft
  <2>3. ASSUME NEW j \in Job, Acquire(j) PROVE BatchLeft' < BatchLeft
    <3>1. j \in queued /\ j \notin asking
      BY <2>3 DEF Acquire, SyncInv, PermitsAccounted
    <3>2. Cardinality(queued') = q - 1 /\ Cardinality(asking') = a + 1
      BY <2>1, <2>3, <3>1, FS_RemoveElement, FS_AddElement DEF Acquire
    <3>3. BatchLeft' = 2 * (q - 1) + (a + 1) + 1
      BY <2>3, <3>2 DEF Acquire, BatchLeft
    <3> QED BY <2>1, <2>2, <3>3
  <2>4. ASSUME NEW j \in Job, Answered(j) PROVE BatchLeft' < BatchLeft
    <3>1. Cardinality(asking') = a - 1
      BY <2>1, <2>4, FS_RemoveElement DEF Answered
    <3>2. BatchLeft' = 2 * q + (a - 1) + 1
      BY <2>4, <3>1 DEF Answered, BatchLeft
    <3> QED BY <2>1, <2>2, <3>2
  <2>5. CASE loop' # "batch"
    <3>1. BatchLeft' = 0
      BY <2>5 DEF BatchLeft
    <3> QED BY <2>1, <2>2, <3>1
  <2>6. CASE Apply \/ CancelTask
    <3>1. loop' # "batch"
      BY <2>6 DEF Apply, CancelTask, EndBatch, FirstTurn, NextTurn
    <3> QED BY <2>5, <3>1
  <2>7. ~BeginBatch /\ ~SkipBatch /\ ~Stop /\ ~StopFails
    BY DEF BeginBatch, SkipBatch, Resyncing, Stop, StopFails
  <2>8. ASSUME ~TaskStep PROVE BatchLeft' <= BatchLeft
    <3>1. UNCHANGED <<loop, queued, asking>>
      BY <2>8 DEF Next, ChangeSettings, StartParse, Shutdown, vars, batchVars
    <3>2. BatchLeft' = BatchLeft
      BY <3>1 DEF BatchLeft
    <3> QED BY <2>1, <2>2, <3>2
  <2>9. TaskStep => BatchLeft' < BatchLeft
    BY <2>3, <2>4, <2>6, <2>7 DEF TaskStep
  <2>10. BatchLeft' < BatchLeft => BatchLeft' <= BatchLeft
    <3>1. CASE loop' = "batch"
      <4>1. SyncInv'
        BY SyncNext
      <4>2. Cardinality(queued') \in Nat /\ Cardinality(asking') \in Nat
        BY <4>1, FS_Subset, FS_CardinalityType DEF SyncInv, TypeOK
      <4> QED BY <2>1, <2>2, <3>1, <4>2 DEF BatchLeft
    <3> QED BY <2>1, <2>2, <2>5, <3>1
  <2> QED BY <2>8, <2>9, <2>10
<1>2. Spec => []SyncInv
  BY SyncInit, SyncNext, PTL DEF Spec
<1>3. Spec => [][Shrinks]_vars
  BY <1>1, <1>2, PTL DEF Spec
<1> QED BY <1>3 DEF BatchEnds
=============================================================================
