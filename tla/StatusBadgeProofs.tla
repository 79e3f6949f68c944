------------------------- MODULE StatusBadgeProofs -------------------------
(***************************************************************************)
(* Proofs about what a browser shows of a job, for every number of files,  *)
(* jobs and requests, any faults and any number of restarts: a badge never *)
(* goes back, and one that has stopped asking is right.  And about the     *)
(* composition of everybody who watches the pipeline: nobody gets in       *)
(* anybody's way.                                                          *)
(***************************************************************************)
EXTENDS WatchedPipeline, PollHistoryProofs

\* What can be shown in the row of a file: a job that was in the table once, so
\* that no row of it can be inserted any more; one of this file, and not ahead of
\* its row, while there is a row.
Showable(b, f) ==
  b.job # NoJob =>
    /\ b.job \in Job /\ ~Coming(b.job)
    /\ b.status \in Active \cup Settled
    /\ rows[b.job] # NoRow =>
         /\ rows[b.job].file = f
         /\ rows[b.job].status = b.status \/ Rank(b.status) < Rank(rows[b.job].status)

\* A retry_raptor works on a job of its file.
RetriesAtHome ==
  \A r \in Request : req[r].pc \in {"recall", "mark"} /\ rows[req[r].job] # NoRow =>
    rows[req[r].job].file = req[r].file

BadgeInv ==
  /\ DOMAIN badge = File
  /\ \A f \in File : Showable(badge[f], f)
  /\ RetriesAtHome

LEMMA StepsOfPipeline == [BadgeNext]_<<vars, badge>> => [Next]_vars
BY DEF BadgeNext, ShowRow, GetParseStatus, RetryAnswered, Next, Continues

LEMMA BadgeInitial == BadgeInit => BadgeInv
BY DEF BadgeInit, BadgeInv, Showable, Bare, Init, Idle, RetriesAtHome

-----------------------------------------------------------------------------
\* What the pipeline does to the rows

\* A row stays with its file.
LEMMA RowsKeepFile ==
  ASSUME Inv, [Next]_vars, NEW j \in Job, rows[j] # NoRow, rows'[j] # NoRow
  PROVE  rows'[j].file = rows[j].file
<1>1. CASE rows' = rows
  BY <1>1
<1>2. CASE BatchCommit \/ \E r \in Request : ResultCommit(r) \/ RetryCommit(r)
  BY <1>2, UpdatesKeepFiles
<1>3. ASSUME NEW r \in Request, StartCommit(r)
      PROVE  rows'[j] = rows[j]
  BY <1>3 DEF StartCommit, At, Inv, TypeOK, RequestsFormed, InsertsFresh
<1>4. ASSUME NEW r \in Request, DeleteCommit(r)
      PROVE  rows'[j] = rows[j]
  BY <1>4 DEF DeleteCommit
<1> QED BY <1>1, <1>2, <1>3, <1>4, RowsWritten

\* Along the edges of the lifecycle the rank grows.
LEMMA MovesClimb ==
  ASSUME NEW s \in Active \cup Settled, NEW t \in Active \cup Settled,
         s = t \/ <<s, t>> \in Lifecycle!Moves
  PROVE  /\ Rank(s) \in 0..2 /\ Rank(t) \in 0..2
         /\ s = t \/ Rank(s) < Rank(t)
BY DEF Active, Settled, Lifecycle!Moves, Lifecycle!Settled, Rank

\* What can be shown now can be shown for good: statuses only climb, and rows that
\* are gone do not come back.
LEMMA ShowableStays ==
  ASSUME Inv, [Next]_vars, NEW f \in File, NEW b, Showable(b, f)
  PROVE  Showable(b, f)'
<1> SUFFICES ASSUME b.job # NoJob
             PROVE  Showable(b, f)'
  BY DEF Showable
<1> DEFINE j == b.job
<1>1. j \in Job /\ ~Coming(j) /\ b.status \in Active \cup Settled
  BY DEF Showable
<1>2. ~Coming(j)'
  <2> HIDE DEF j
  <2>1. \A k \in Job : ~Coming(k) => ~Coming(k)'
    BY ComingEnds
  <2> QED BY <1>1, <2>1
<1>3. ASSUME rows'[j] # NoRow
      PROVE  /\ rows'[j].file = f
             /\ rows'[j].status = b.status \/ Rank(b.status) < Rank(rows'[j].status)
  <2>1. rows[j] # NoRow
    BY <1>1, <1>3, RowMoves
  <2>2. /\ rows[j].file = f
        /\ rows[j].status = b.status \/ Rank(b.status) < Rank(rows[j].status)
    BY <2>1 DEF Showable
  <2>3. \/ rows'[j].status = rows[j].status
        \/ <<rows[j].status, rows'[j].status>> \in Lifecycle!Moves
    BY <1>1, <1>3, <2>1, RowMoves
  <2>4. rows[j].status \in Active \cup Settled /\ rows'[j].status \in Active \cup Settled
    BY <1>1, <1>3, <2>1, NextInv DEF Inv, TypeOK, Row
  <2>5. Rank(rows[j].status) \in 0..2 /\ Rank(rows'[j].status) \in 0..2 /\ Rank(b.status) \in 0..2
    BY DEF Rank
  <2>6. rows'[j].status = rows[j].status \/ Rank(rows[j].status) < Rank(rows'[j].status)
    BY <2>3, <2>4, MovesClimb
  <2>7. rows'[j].file = f
    BY <1>1, <1>3, <2>1, <2>2, RowsKeepFile
  <2> QED BY <2>2, <2>5, <2>6, <2>7
<1> QED BY <1>1, <1>2, <1>3 DEF Showable

\* A retry_raptor keeps its job and file, and has just found them together when
\* it begins.
LEMMA RetryMoves ==
  ASSUME Inv, [Next]_vars, NEW r \in Request, req'[r].pc \in {"recall", "mark"},
         req'[r] # req[r]
  PROVE  /\ rows' = rows
         /\ \/ req[r].pc = "recall" /\ req'[r].job = req[r].job /\ req'[r].file = req[r].file
            \/ rows[req'[r].job].file = req'[r].file
<1> USE DEF Inv, TypeOK, Goto, Finish, Idle
<1>1. ASSUME NEW q \in Request, Continues(q)
      PROVE  q = r /\ RetryCall(r)
  <2>1. q = r
    BY <1>1 DEF Continues, UploadCommit, ParserAccepts, ParserAcceptsUnheard, ParserRefuses,
      StartCommit, StartForeignKeyFails, ResultDownload, ResultDownloadFails, ResultCommit,
      RetryCall, RetryCallFails, RetryCommit, DeleteJob, DeleteUnlink, DeleteMarks, Delete,
      DeleteRow, DeleteFileRow, DeleteCommit, DeadlockVictim, CommitFails
  <2>2. ~(DeleteUnlink(r) \/ DeleteFileRow(r) \/ \E j \in Job : DeleteJob(r, j) \/ DeleteRow(r, j))
    BY DEF DeleteUnlink, DeleteMarks, DeleteFileRow, DeleteJob, DeleteRow, Delete, Deletes
  <2>3. ~(UploadCommit(r) \/ ParserRefuses(r) \/ StartCommit(r) \/ StartForeignKeyFails(r)
           \/ ResultDownloadFails(r) \/ ResultCommit(r) \/ RetryCallFails(r) \/ RetryCommit(r)
           \/ DeleteCommit(r) \/ DeadlockVictim(r) \/ CommitFails(r))
    BY DEF UploadCommit, ParserRefuses, StartCommit, StartForeignKeyFails, ResultDownloadFails,
      ResultCommit, RetryCallFails, RetryCommit, DeleteCommit, DeadlockVictim, CommitFails
  <2>4. ~(ResultDownload(r)
           \/ \E j \in Job : ParserAccepts(r, j) \/ ParserAcceptsUnheard(r, j))
    BY DEF ResultDownload, ParserAccepts, ParserAcceptsUnheard
  <2> QED BY <1>1, <2>1, <2>2, <2>3, <2>4 DEF Continues
<1>2. ASSUME NEW q \in Request, Arrives(q)
      PROVE  \E f \in File, j \in Job : RetryRead(r, f, j)
  BY <1>2 DEF Arrives, UploadWrite, StartParse, ResultRead, RetryRead, DeleteRead
<1>3. CASE Restart
  BY <1>3 DEF Restart
<1>4. CASE BatchStep \/ (\E j \in Job : ParserStep(j) \/ Ages(j)) \/ UNCHANGED vars
  BY <1>4 DEF BatchStep, BatchSelect, SkipCycle, SyncOneJob, BatchRead, BatchDownload,
    BatchDownloadFails, BatchCommit, BatchAbort, ParserStep, ParserPicksUp, ParserFinishes,
    ParserRaptor, ParserForgets, Ages, vars
<1>5. CASE RetryCall(r)
  BY <1>5 DEF RetryCall, At, dbVars
<1>6. ASSUME NEW f \in File, NEW j \in Job, RetryRead(r, f, j)
      PROVE  rows' = rows /\ rows[req'[r].job].file = req'[r].file
  BY <1>6 DEF RetryRead, IsLatest, JobsOf, dbVars
<1> QED BY <1>1, <1>2, <1>3, <1>4, <1>5, <1>6 DEF Next

LEMMA RetriesStayHome == Inv /\ RetriesAtHome /\ [Next]_vars => RetriesAtHome'
<1> SUFFICES ASSUME Inv, RetriesAtHome, [Next]_vars, NEW r \in Request,
                    req'[r].pc \in {"recall", "mark"}, rows'[req'[r].job] # NoRow
             PROVE  rows'[req'[r].job].file = req'[r].file
  BY DEF RetriesAtHome
<1>1. CASE req'[r] # req[r]
  BY <1>1, RetryMoves DEF RetriesAtHome
<1>2. CASE req'[r] = req[r]
  <2> DEFINE j == req[r].job
  <2>1. j \in Job /\ parser[j] # "unborn"
    BY <1>2, NullAssumption DEF Inv, RequestsFormed
  <2>2. ~Coming(j)
    BY <1>2, <2>1 DEF Coming, At, Inv, InsertsFresh
  <2>3. rows[j] # NoRow
    BY <1>2, <2>1, <2>2, RowMoves
  <2> QED BY <1>2, <2>1, <2>3, RowsKeepFile DEF RetriesAtHome
<1> QED BY <1>1, <1>2

-----------------------------------------------------------------------------
\* What a badge shows

\* A row there is can be shown.
LEMMA RowShowable ==
  ASSUME Inv, NEW f \in File, NEW j \in JobsOf(f), NEW b, b.job = j, b.status = rows[j].status
  PROVE  Showable(b, f)
<1>1. j \in Job /\ rows[j] # NoRow /\ rows[j].file = f
  BY DEF JobsOf
<1>2. rows[j].status \in Active \cup Settled
  BY <1>1 DEF Inv, TypeOK, Row
<1>3. ~Coming(j)
  BY <1>1 DEF Coming, At, Inv, RowsTruthful, Earned, InsertsFresh
<1> QED BY <1>1, <1>2, <1>3 DEF Showable

\* Every step puts into a badge what can be shown.
LEMMA BadgeShows ==
  ASSUME Inv, BadgeInv, [BadgeNext]_<<vars, badge>>
  PROVE  /\ DOMAIN badge' = File
         /\ \A f \in File : badge'[f] = badge[f] \/ badge'[f] = Bare \/ Showable(badge'[f], f)
<1>1. CASE UNCHANGED badge
  BY <1>1 DEF BadgeInv
<1>2. ASSUME NEW f \in File, ShowRow(f) \/ GetParseStatus(f)
      PROVE  /\ DOMAIN badge' = File
             /\ \A g \in File : badge'[g] = badge[g] \/ badge'[g] = Bare \/ Showable(badge'[g], g)
  <2>1. ASSUME NEW j \in Job, IsLatest(j, f), badge' = [badge EXCEPT ![f] = BadgeOf(j)]
        PROVE  Showable(badge'[f], f)
    BY <2>1, RowShowable DEF IsLatest, BadgeOf, BadgeInv
  <2> QED BY <1>2, <2>1 DEF ShowRow, GetParseStatus, BadgeInv
<1>3. ASSUME NEW r \in Request, RetryAnswered(r)
      PROVE  /\ DOMAIN badge' = File
             /\ \A g \in File : badge'[g] = badge[g] \/ badge'[g] = Bare \/ Showable(badge'[g], g)
  <2> DEFINE f == req[r].file  j == req[r].job
  <2>1. f \in File /\ j \in JobsOf(f)
    BY <1>3 DEF RetryAnswered, RetryCommit, At, Inv, RequestsFormed, BadgeInv, RetriesAtHome, JobsOf
  <2>2. badge' = [badge EXCEPT ![f] = [BadgeOf(j) EXCEPT !.raptor = "processing"]]
    BY <1>3 DEF RetryAnswered
  <2>3. badge'[f].job = j /\ badge'[f].status = rows[j].status
    BY <2>1, <2>2 DEF BadgeOf, BadgeInv
  <2>4. Showable(badge'[f], f)
    BY <2>1, <2>3, RowShowable
  <2> QED BY <2>1, <2>2, <2>4 DEF BadgeInv
<1> QED BY <1>1, <1>2, <1>3 DEF BadgeNext

LEMMA BadgeStep == Inv /\ BadgeInv /\ [BadgeNext]_<<vars, badge>> => BadgeInv'
<1> SUFFICES ASSUME Inv, BadgeInv, [BadgeNext]_<<vars, badge>>
             PROVE  BadgeInv'
  OBVIOUS
<1>1. [Next]_vars
  BY StepsOfPipeline
<1>2. ASSUME NEW f \in File
      PROVE  Showable(badge[f], f)'
  <2>1. Bare.job = NoJob
    BY DEF Bare
  <2>2. ASSUME NEW b, Showable(b, f), badge'[f] = b
        PROVE  Showable(badge[f], f)'
    <3>1. Showable(b, f)'
      BY <1>1, <2>2, ShowableStays
    <3> QED BY <2>2, <3>1 DEF Showable
  <2>3. CASE badge'[f] = badge[f] \/ Showable(badge'[f], f)
    BY <2>2, <2>3 DEF BadgeInv
  <2>4. CASE badge'[f] = Bare
    BY <2>1, <2>4 DEF Showable
  <2> QED BY <2>3, <2>4, BadgeShows
<1> QED BY <1>1, <1>2, BadgeShows, RetriesStayHome DEF BadgeInv

LEMMA BadgesSound == BadgeSpec => [](Inv /\ BadgeInv)
<1>1. BadgeInit => Inv
  BY InitInv DEF BadgeInit
<1> QED BY <1>1, BadgeInitial, BadgeStep, StepsOfPipeline, NextInv, PTL DEF BadgeSpec

\* A badge that does not ask any more tells the truth for good.
THEOREM StoppedBadgesStayRight == BadgeSpec => []StoppedBadgesRight
<1>1. Inv /\ BadgeInv => StoppedBadgesRight
  BY DEF BadgeInv, Showable, StoppedBadgesRight, Polls, Inv, TypeOK, Row, Rank, Active, Settled
<1> QED BY <1>1, BadgesSound, PTL

-----------------------------------------------------------------------------
\* How a badge moves

\* A badge that is rendered is not behind the one that was there.
LEMMA RenderedForward ==
  ASSUME Inv, BadgeInv, NEW f \in File, ShowRow(f) \/ GetParseStatus(f), NEW g \in File
  PROVE  Forward(g, badge[g], badge'[g])
<1> SUFFICES ASSUME badge[g].job # NoJob, rows[badge[g].job] # NoRow
             PROVE  /\ badge'[g].job # NoJob
                    /\ badge'[g].job = badge[g].job =>
                         \/ badge'[g].status = badge[g].status
                         \/ Rank(badge[g].status) < Rank(badge'[g].status)
                    /\ rows[badge[g].job].created <= rows[badge'[g].job].created
  BY DEF Forward
<1> DEFINE j == badge[g].job
<1>1. /\ j \in JobsOf(g)
      /\ rows[j].status = badge[g].status \/ Rank(badge[g].status) < Rank(rows[j].status)
  BY DEF BadgeInv, Showable, JobsOf
<1>2. CASE badge'[g] = badge[g]
  <2>1. rows[j].created \in Int
    BY <1>1, BoundsAssumption DEF JobsOf, Inv, TypeOK, Row
  <2> QED BY <1>2, <2>1
<1>3. ASSUME badge'[g] # badge[g]
      PROVE  g = f /\ \E k \in Job : IsLatest(k, f) /\ badge' = [badge EXCEPT ![f] = BadgeOf(k)]
  <2>1. g = f
    BY <1>3 DEF ShowRow, GetParseStatus, BadgeInv
  <2> QED BY <1>1, <2>1 DEF ShowRow, GetParseStatus
<1>4. ASSUME NEW k \in Job, IsLatest(k, f), badge' = [badge EXCEPT ![f] = BadgeOf(k)], g = f
      PROVE  /\ badge'[g].job = k /\ badge'[g].status = rows[k].status
             /\ k # NoJob /\ rows[j].created <= rows[k].created
  BY <1>1, <1>4, NullAssumption DEF IsLatest, BadgeOf, BadgeInv
<1> QED BY <1>1, <1>2, <1>3, <1>4

\* The answer to a retry_raptor may show an older job, but never an older status.
LEMMA AnsweredForward ==
  ASSUME Inv, BadgeInv, NEW r \in Request, RetryAnswered(r), NEW g \in File
  PROVE  Forward(g, badge[g], badge'[g])
<1> SUFFICES ASSUME badge[g].job # NoJob, rows[badge[g].job] # NoRow
             PROVE  /\ badge'[g].job # NoJob
                    /\ badge'[g].job = badge[g].job =>
                         \/ badge'[g].status = badge[g].status
                         \/ Rank(badge[g].status) < Rank(badge'[g].status)
                    /\ \/ rows[badge[g].job].created <= rows[badge'[g].job].created
                       \/ req[r].file = g
  BY DEF Forward
<1> DEFINE f == req[r].file  k == req[r].job
<1>1. f \in File /\ k \in Job
  BY DEF RetryAnswered, RetryCommit, At, Inv, RequestsFormed
<1>2. badge' = [badge EXCEPT ![f] = [BadgeOf(k) EXCEPT !.raptor = "processing"]]
  BY DEF RetryAnswered
<1>3. CASE g = f
  <2>1. badge'[g].job = k /\ badge'[g].status = rows[k].status
    BY <1>1, <1>2, <1>3 DEF BadgeOf, BadgeInv
  <2> QED BY <1>1, <1>3, <2>1, NullAssumption DEF BadgeInv, Showable
<1>4. CASE g # f
  <2>1. badge'[g] = badge[g]
    BY <1>2, <1>4 DEF BadgeInv
  <2>2. rows[badge[g].job].created \in Int
    BY BoundsAssumption DEF BadgeInv, Showable, Inv, TypeOK, Row
  <2> QED BY <2>1, <2>2
<1> QED BY <1>3, <1>4

\* A badge never goes back, to an earlier status or to an older job, but for the
\* late answer to a retry_raptor: whatever polls and pages its statuses come from,
\* and whatever the batches, the other handlers and restarts do in between.
THEOREM BadgesOnlyMoveForward == BadgeSpec => BadgesMoveForward
<1>1. ASSUME Inv, BadgeInv, [BadgeNext]_<<vars, badge>>, NEW g \in File
      PROVE  Forward(g, badge[g], badge'[g])
  <2>1. CASE UNCHANGED badge
    <3>1. badge[g].job # NoJob /\ rows[badge[g].job] # NoRow => rows[badge[g].job].created \in Int
      BY <1>1, BoundsAssumption DEF BadgeInv, Showable, Inv, TypeOK, Row
    <3> QED BY <2>1, <3>1 DEF Forward
  <2> QED BY <1>1, <2>1, RenderedForward, AnsweredForward DEF BadgeNext
<1>2. Inv /\ BadgeInv /\ [BadgeNext]_<<vars, badge>>
        => [\A f \in File : Forward(f, badge[f], badge'[f])]_<<vars, badge>>
  BY <1>1
<1> QED BY <1>2, BadgesSound, PTL DEF BadgeSpec, BadgesMoveForward

-----------------------------------------------------------------------------
\* Everybody who watches

LEMMA WatchedSteps ==
  [WatchedNext]_<<vars, badge, observed>> =>
    /\ [BadgeNext]_<<vars, badge>>
    /\ [Next /\ Observe]_<<vars, observed>>
BY DEF WatchedNext, BadgeNext, RetryAnswered, ShowRow, GetParseStatus, Next, Continues

\* The composition that is model-checked is the badges' specification, fairness
\* included, and the observer's: what is proved of either holds there, and neither
\* the browsers nor the observer change what the pipeline does.
THEOREM WatchingIsHarmless == WatchedSpec => BadgeSpec /\ ObservedSpec /\ Spec
<1>1. WatchedInit => BadgeInit /\ HistoryInit /\ Init
  BY DEF WatchedInit, BadgeInit
<1>2. [WatchedNext]_<<vars, badge, observed>> => [Next]_vars
  BY WatchedSteps, StepsOfPipeline
<1> QED BY <1>1, <1>2, WatchedSteps, PTL DEF WatchedSpec, BadgeSpec, ObservedSpec, Spec

\* What the watchers see is right, together: badges that have stopped, badges that
\* move, and the failures counted.
THEOREM WatchersAgree ==
  WatchedSpec => []StoppedBadgesRight /\ BadgesMoveForward /\ []ThreeInARow
BY WatchingIsHarmless, StoppedBadgesStayRight, BadgesOnlyMoveForward, ThreeFailuresInARow, PTL
=============================================================================
