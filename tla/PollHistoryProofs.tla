------------------------- MODULE PollHistoryProofs -------------------------
(***************************************************************************)
(* Proof that a job ends for want of answers only after three failed       *)
(* queries in a row, for every number of files, jobs and requests, any     *)
(* faults and any number of restarts.                                      *)
(***************************************************************************)
EXTENDS PollHistory, ParsePipelineProofs

\* The failures a job has in the table, in the batch's answer and in the batch's
\* draft are backed by as many misses in a row, or a success was lost.
\* An answered query takes them all back: at once for the observer, for the
\* program when its batch commits.
TableCounted(j) ==
  rows[j] # NoRow /\ rows[j].status \in Active =>
    misses[j] >= rows[j].fails \/ j \in forgotten \/ j \in answered

AnswerCounted(j) ==
  rows[j] # NoRow /\ rows[j].status \in Active =>
    /\ j \in batch /\ answer[j] = "error" => misses[j] > rows[j].fails \/ j \in forgotten
    /\ j \in answered /\ j \notin batch /\ draft[j] = NoRow => rows[j].fails = 0

DraftCounted(j) ==
  rows[j] # NoRow /\ draft[j] # NoRow /\ draft[j].status \in Active \cup {"error"} =>
    misses[j] >= draft[j].fails \/ j \in forgotten

EndCounted(j) ==
  rows[j] # NoRow /\ rows[j].status = "error" /\ rows[j].fails = 3 =>
    misses[j] = 3 \/ j \in forgotten

Counted(j) ==
  /\ j \in forgotten => rows[j] # NoRow /\ rows[j].fails > 0
  /\ j \in batch /\ answer[j] \in {"none", "error"} => j \notin answered
  /\ TableCounted(j) /\ AnswerCounted(j) /\ DraftCounted(j) /\ EndCounted(j)

CountInv ==
  /\ misses \in [Job -> 0..3]
  /\ phase = "sleep" => answered = {}
  /\ \A j \in Job : Counted(j)

-----------------------------------------------------------------------------
\* What one answer does to the failure count.
LEMMA SyncedCount ==
  ASSUME NEW row \in Row, NEW a \in Answer \ {"none"}, NEW h \in RaptorStatus, NEW late \in BOOLEAN,
         row.status \in Active, row.fails < 3
  PROVE  LET new == Synced(row, a, h, late) IN
         /\ a = "error" => new # row /\ new.fails = row.fails + 1
         /\ a # "error" /\ new.status \in Active \cup {"error"} => new.fails = 0
<1>1. CASE a = "error"
  <2>1. Synced(row, a, h, late) = CountFailure(row)
    BY <1>1 DEF Synced, Running
  <2>2. row.fails \in 0..3 /\ CountFailure(row).fails = row.fails + 1
    BY DEF Row, CountFailure
  <2> QED BY <1>1, <2>1, <2>2
<1>2. CASE a = "missing"
  BY <1>2 DEF Synced, Row, Active, Running
<1>3. CASE a \in Running /\ row.status = "processing" /\ late
  BY <1>3 DEF Synced, Row, Active, Running
<1>4. CASE a \in Running /\ ~(row.status = "processing" /\ late)
  <2>1. Synced(row, a, h, late) = Refresh(row, a, h)
    BY <1>4 DEF Synced, Running
  <2>2. Refresh(row, a, h).fails = 0
    BY <1>4, RefreshRow
  <2> QED BY <1>4, <2>1, <2>2 DEF Running
<1> QED BY <1>1, <1>2, <1>3, <1>4 DEF Answer

\* The observer in a step in which no query ends and no batch is lost.
LEMMA NothingHeard ==
  ASSUME CountInv, Observe, \A j \in Job : ~Asked(j), ~Dropped
  PROVE  /\ misses' = misses
         /\ phase' # "sleep" => answered' = answered
         /\ phase' = "sleep" => answered' = {}
         /\ \A j \in Job : j \in forgotten' <=> rows'[j] # NoRow /\ rows'[j].fails > 0 /\ j \in forgotten
<1>1. misses' = [j \in Job |-> misses[j]]
  BY DEF Observe
<1> QED BY <1>1 DEF Observe, CountInv

\* Rows that are inserted, deleted or given a result while the batch stands still.
RowAside(j) ==
  \/ rows'[j] = rows[j]
  \/ rows'[j] = NoRow
  \/ /\ rows[j] # NoRow
     /\ rows'[j].status = rows[j].status /\ rows'[j].fails = rows[j].fails
  \/ /\ rows'[j].status = "pending" /\ rows'[j].fails = 0
     /\ draft[j] = NoRow /\ j \notin batch

LEMMA BatchAside ==
  ASSUME Inv, CountInv, Observe, UNCHANGED <<phase, batch, answer, draft>>,
         \A j \in Job : RowAside(j)
  PROVE  CountInv'
<1>1. ~Dropped /\ \A j \in Job : ~Asked(j)
  BY DEF Dropped, Asked
<1>2. /\ misses' = misses /\ answered' = answered
      /\ \A j \in Job : j \in forgotten' <=> rows'[j] # NoRow /\ rows'[j].fails > 0 /\ j \in forgotten
  BY <1>1, NothingHeard DEF CountInv
<1>3. ASSUME NEW j \in Job
      PROVE  Counted(j)'
  <2>1. Counted(j) /\ RowAside(j) /\ misses[j] \in 0..3
    BY DEF CountInv
  <2>2. rows[j] # NoRow => rows[j].fails \in 0..3
    BY DEF Inv, TypeOK, Row
  <2>3. (j \in forgotten => rows[j] # NoRow /\ rows[j].fails > 0)'
    BY <1>2
  <2>4. TableCounted(j)'
    BY <1>2, <2>1, <2>2 DEF Counted, TableCounted, RowAside
  <2>5. AnswerCounted(j)'
    BY <1>2, <2>1, <2>2 DEF Counted, AnswerCounted, RowAside
  <2>6. DraftCounted(j)'
    <3>1. rows[j] # NoRow /\ draft[j] # NoRow => rows[j].status \in Active
      BY DEF Inv, BatchOnActive
    <3>2. draft[j] # NoRow => draft[j].fails \in 0..3
      BY DEF Inv, TypeOK, Row
    <3>3. CASE rows[j] = NoRow /\ draft[j] # NoRow
      BY <2>1, <3>3 DEF RowAside, DraftCounted
    <3>4. CASE rows[j] # NoRow
      <4>1. j \in forgotten => rows[j].fails > 0
        BY <2>1 DEF Counted
      <4> QED BY <1>2, <2>1, <2>2, <3>4, <4>1 DEF Counted, DraftCounted, RowAside
    <3> QED BY <3>3, <3>4 DEF DraftCounted
  <2>7. EndCounted(j)'
    BY <1>2, <2>1, <2>2 DEF Counted, EndCounted, RowAside
  <2> QED BY <1>2, <2>1, <2>3, <2>4, <2>5, <2>6, <2>7 DEF Counted
<1> QED BY <1>2, <1>3 DEF CountInv

\* A query ends.
LEMMA AskStep ==
  ASSUME Inv, CountInv, Observe, NEW k \in Job, SyncOneJob(k)
  PROVE  CountInv'
<1>1. /\ k \in batch /\ answer[k] = "none" /\ phase = "ask" /\ phase' \in {"ask", "apply"}
      /\ rows' = rows /\ batch' = batch /\ draft' = draft
      /\ answer' = [answer EXCEPT ![k] = answer'[k]] /\ answer'[k] # "none"
  BY DEF SyncOneJob, Inv, TypeOK, dbVars
<1>2. ~Dropped /\ \A j \in Job : Asked(j) <=> j = k
  BY <1>1 DEF Dropped, Asked, Inv, TypeOK
<1>3. /\ \A j \in Job : j # k => misses'[j] = misses[j]
      /\ misses'[k] = IF answer'[k] # "error" THEN 0 ELSE IF misses[k] < 3 THEN misses[k] + 1 ELSE 3
      /\ misses' \in [Job -> 0..3]
  <2>1. misses' = [j \in Job |-> IF j # k THEN misses[j] ELSE IF answer'[j] # "error" THEN 0
                                 ELSE IF misses[j] < 3 THEN misses[j] + 1 ELSE 3]
    BY <1>2 DEF Observe
  <2> QED BY <2>1 DEF CountInv
<1>4. answered' = IF answer'[k] # "error" THEN answered \cup {k} ELSE answered
  BY <1>1, <1>2 DEF Observe
<1>5. \A j \in Job : j \in forgotten' <=> rows[j] # NoRow /\ rows[j].fails > 0 /\ j \in forgotten
  BY <1>1, <1>2 DEF Observe
<1>6. Counted(k)'
  <2>1. Counted(k) /\ misses[k] \in 0..3 /\ k \notin answered /\ draft[k] = NoRow
    BY <1>1 DEF CountInv, Counted, Inv, BatchFormed
  <2>2. rows[k] # NoRow => rows[k].fails \in 0..2 /\ rows[k].status \in Active
    BY <1>1 DEF Inv, TypeOK, Row, BatchOnActive, ActiveCountable
  <2>3. TableCounted(k)'
    BY <1>1, <1>3, <1>4, <1>5, <2>1, <2>2 DEF Counted, TableCounted
  <2>4. AnswerCounted(k)' /\ DraftCounted(k)'
    BY <1>1, <1>3, <1>4, <1>5, <2>1, <2>2 DEF Counted, TableCounted, AnswerCounted, DraftCounted
  <2>5. EndCounted(k)'
    BY <1>1, <2>2 DEF EndCounted, Active
  <2> QED BY <1>1, <1>4, <1>5, <2>1, <2>3, <2>4, <2>5 DEF Counted
<1>7. ASSUME NEW j \in Job, j # k
      PROVE  Counted(j)'
  <2>1. answer'[j] = answer[j] /\ (j \in answered' <=> j \in answered)
    BY <1>1, <1>4, <1>7 DEF Inv, TypeOK
  <2> QED BY <1>1, <1>3, <1>5, <1>7, <2>1 DEF CountInv, Counted, TableCounted, AnswerCounted,
                                         DraftCounted, EndCounted
<1> QED BY <1>1, <1>3, <1>6, <1>7 DEF CountInv

\* A batch begins.
LEMMA SelectCounted ==
  ASSUME Inv, CountInv, Observe, BatchSelect
  PROVE  CountInv'
<1>1. /\ phase = "sleep" /\ phase' = "ask" /\ rows' = rows /\ answer' = answer /\ draft' = draft
      /\ answered = {} /\ \A j \in Job : answer[j] = "none" /\ draft[j] = NoRow
  BY DEF BatchSelect, dbVars, CountInv, Inv, BatchFormed
<1>2. /\ misses' = misses /\ answered' = {}
      /\ \A j \in Job : j \in forgotten' <=> rows[j] # NoRow /\ rows[j].fails > 0 /\ j \in forgotten
  BY <1>1, NothingHeard DEF Dropped, Asked
<1> QED BY <1>1, <1>2 DEF CountInv, Counted, TableCounted, AnswerCounted, DraftCounted, EndCounted

\* An answer is applied.
LEMMA ReadCounted ==
  ASSUME Inv, CountInv, Observe, NEW k \in Job, BatchRead(k)
  PROVE  CountInv'
<1> DEFINE new == IF rows[k] = NoRow THEN NoRow
                  ELSE Synced(rows[k], answer[k], heard[k], k \in expired)
<1>1. /\ phase = "apply" /\ k \in batch /\ phase' # "sleep" /\ rows' = rows
      /\ batch' = batch \ {k}
      /\ answer' = [answer EXCEPT ![k] = "none"]
      /\ draft' = [draft EXCEPT ![k] = IF new # rows[k] THEN new ELSE NoRow]
  BY DEF BatchRead, dbVars
<1>2. /\ misses' = misses /\ answered' = answered
      /\ \A j \in Job : j \in forgotten' <=> rows[j] # NoRow /\ rows[j].fails > 0 /\ j \in forgotten
  BY <1>1, NothingHeard DEF Dropped, Asked, Inv, TypeOK
<1>3. rows[k] # NoRow =>
        /\ answer[k] = "error" => new # rows[k] /\ new.fails = rows[k].fails + 1
        /\ answer[k] # "error" /\ new.status \in Active \cup {"error"} => new.fails = 0
        /\ rows[k].status \in Active /\ rows[k].fails \in 0..2
        /\ new # NoRow
  <2> SUFFICES ASSUME rows[k] # NoRow
               PROVE  /\ answer[k] = "error" => new # rows[k] /\ new.fails = rows[k].fails + 1
                      /\ answer[k] # "error" /\ new.status \in Active \cup {"error"} => new.fails = 0
                      /\ rows[k].status \in Active /\ rows[k].fails \in 0..2
                      /\ new # NoRow
    OBVIOUS
  <2> DEFINE row == rows[k]  a == answer[k]  h == heard[k]  late == k \in expired
  <2>1. /\ row \in Row /\ row.status \in Active /\ row.fails \in 0..2 /\ row.fails < 3 /\ ~row.result
        /\ a = "pending" => row.status = "pending"
    BY <1>1 DEF Inv, TypeOK, Row, BatchOnActive, ActiveCountable, AnswersHold
  <2>2. a \in Answer \ {"none"} /\ h \in RaptorStatus /\ late \in BOOLEAN
    BY <1>1 DEF Inv, TypeOK, AnswersHold
  <2>3. new = Synced(row, a, h, late)
    OBVIOUS
  <2> HIDE DEF row, a, h, late, new
  <2>4. new \in Row
    BY <2>1, <2>2, <2>3, SyncedRow
  <2>5. /\ a = "error" => new # row /\ new.fails = row.fails + 1
        /\ a # "error" /\ new.status \in Active \cup {"error"} => new.fails = 0
    BY <2>1, <2>2, <2>3, SyncedCount
  <2> QED BY <2>1, <2>4, <2>5, NullAssumption DEF row, a
<1> HIDE DEF new
<1>4. Counted(k)'
  <2>1. Counted(k) /\ misses[k] \in 0..3
    BY DEF CountInv
  <2>2. (k \in answered => answer[k] # "error") /\ answer'[k] = "none"
        /\ draft'[k] = (IF new # rows[k] THEN new ELSE NoRow) /\ k \notin batch'
    BY <1>1, <2>1 DEF Counted, Inv, TypeOK
  <2>3. TableCounted(k)' /\ EndCounted(k)'
    BY <1>1, <1>2, <2>1 DEF Counted, TableCounted, EndCounted
  <2>4. AnswerCounted(k)'
    BY <1>1, <1>2, <1>3, <2>1, <2>2 DEF AnswerCounted
  <2>5. DraftCounted(k)'
    <3>1. CASE answer[k] = "error"
      BY <1>1, <1>2, <1>3, <2>1, <2>2, <3>1 DEF Counted, AnswerCounted, DraftCounted
    <3>2. CASE answer[k] # "error"
      BY <1>1, <1>2, <1>3, <2>1, <2>2, <3>2 DEF DraftCounted
    <3> QED BY <3>1, <3>2
  <2> QED BY <1>1, <1>2, <2>2, <2>3, <2>4, <2>5 DEF Counted
<1>5. ASSUME NEW j \in Job, j # k
      PROVE  Counted(j)'
  <2>1. answer'[j] = answer[j] /\ draft'[j] = draft[j] /\ (j \in batch' <=> j \in batch)
    BY <1>1, <1>5 DEF Inv, TypeOK
  <2> QED BY <1>1, <1>2, <2>1 DEF CountInv, Counted, TableCounted, AnswerCounted, DraftCounted, EndCounted
<1> QED BY <1>1, <1>2, <1>4, <1>5 DEF CountInv

\* The archive of a completed job is fetched, or not.
LEMMA DownloadCounted ==
  ASSUME Inv, CountInv, Observe, BatchDownload \/ BatchDownloadFails
  PROVE  CountInv'
<1>1. /\ phase = "fetch" /\ phase' = "apply" /\ rows' = rows /\ answer' = answer /\ batch' = batch
      /\ \A j \in Job : /\ draft'[j] = NoRow <=> draft[j] = NoRow
                        /\ draft'[j] # NoRow => /\ draft'[j].status = draft[j].status
                                                /\ draft'[j].fails = draft[j].fails
  <2>1. current \in Job /\ draft[current] \in Row
    BY DEF BatchDownload, BatchDownloadFails, Inv, TypeOK, BatchFormed
  <2>2. CASE BatchDownload
    <3>1. [draft[current] EXCEPT !.result = TRUE] \in Row
      BY <2>1 DEF Row
    <3> QED BY <2>1, <2>2, <3>1, NullAssumption DEF BatchDownload, Inv, TypeOK, dbVars, Row
  <2>3. CASE BatchDownloadFails
    BY <2>3 DEF BatchDownloadFails, dbVars
  <2> QED BY <2>2, <2>3
<1>2. /\ misses' = misses /\ answered' = answered
      /\ \A j \in Job : j \in forgotten' <=> rows[j] # NoRow /\ rows[j].fails > 0 /\ j \in forgotten
  BY <1>1, NothingHeard DEF Dropped, Asked
<1> QED BY <1>1, <1>2 DEF CountInv, Counted, TableCounted, AnswerCounted, DraftCounted, EndCounted

\* The batch commits: the program's counts catch up with the observer's.
LEMMA CommitCounted ==
  ASSUME Inv, CountInv, Observe, BatchCommit
  PROVE  CountInv'
<1>1. /\ phase' = "sleep" /\ batch = {} /\ batch' = {}
      /\ rows' = [j \in Job |-> IF draft[j] # NoRow THEN draft[j] ELSE rows[j]]
      /\ \A j \in Job : answer'[j] = "none" /\ draft'[j] = NoRow
  BY DEF BatchCommit, SyncIdle
<1>2. /\ misses' = misses /\ answered' = {}
      /\ \A j \in Job : j \in forgotten' <=> rows'[j] # NoRow /\ rows'[j].fails > 0 /\ j \in forgotten
  BY <1>1, NothingHeard DEF Dropped, Asked
<1>3. ASSUME NEW j \in Job
      PROVE  Counted(j)'
  <2>1. Counted(j) /\ misses[j] \in 0..3
    BY DEF CountInv
  <2>2. CASE draft[j] # NoRow
    <3>1. rows[j] # NoRow /\ rows'[j] = draft[j] /\ draft[j].fails \in 0..3
      BY <1>1, <2>2, NullAssumption DEF BatchCommit, Flushable, Inv, LocksHold, Locked, TypeOK, Row
    <3> QED BY <1>1, <1>2, <2>1, <2>2, <3>1 DEF Counted, TableCounted, AnswerCounted, DraftCounted,
                                              EndCounted
  <2>3. CASE draft[j] = NoRow
    <3>1. rows'[j] = rows[j]
      BY <1>1, <2>3
    <3> QED BY <1>1, <1>2, <2>1, <2>3, <3>1 DEF Counted, TableCounted, AnswerCounted, DraftCounted,
                                              EndCounted
  <2> QED BY <2>2, <2>3
<1> QED BY <1>1, <1>2, <1>3 DEF CountInv

\* The batch is rolled back, or dies with the process: whoever was answered in it
\* and has failures in the table is written down in `forgotten'.
LEMMA DropCounted ==
  ASSUME Inv, CountInv, Observe, BatchAbort \/ Restart, ~BatchCommit
  PROVE  CountInv'
<1>1. /\ phase' = "sleep" /\ batch' = {} /\ rows' = rows
      /\ \A j \in Job : answer'[j] = "none" /\ draft'[j] = NoRow
  BY DEF BatchAbort, Restart, SyncIdle, dbVars
<1>2. answered' = {} /\ misses' = misses
  <2>1. misses' = [j \in Job |-> misses[j]]
    BY <1>1 DEF Observe, Asked
  <2> QED BY <1>1, <2>1 DEF Observe, CountInv
<1>3. \A j \in Job : j \in forgotten' <=>
        /\ rows[j] # NoRow /\ rows[j].fails > 0
        /\ j \in forgotten \/ j \in answered
  BY <1>1 DEF Observe, Dropped, CountInv
<1>4. ASSUME NEW j \in Job
      PROVE  Counted(j)'
  <2>1. Counted(j) /\ misses[j] \in 0..3 /\ (rows[j] # NoRow => rows[j].fails \in 0..3)
    BY DEF CountInv, Inv, TypeOK, Row
  <2> QED BY <1>1, <1>2, <1>3, <2>1 DEF Counted, TableCounted, AnswerCounted, DraftCounted, EndCounted
<1> QED BY <1>1, <1>2, <1>4 DEF CountInv

\* Everything else leaves the batch as it is.
LEMMA OthersAside ==
  ASSUME Inv, [Next]_vars, ~BatchCommit,
         ~(\/ BatchSelect \/ BatchDownload \/ BatchDownloadFails \/ BatchAbort \/ Restart
           \/ \E j \in Job : SyncOneJob(j) \/ BatchRead(j))
  PROVE  UNCHANGED <<phase, batch, answer, draft>> /\ \A j \in Job : RowAside(j)
<1>1. UNCHANGED <<phase, batch, answer, draft>>
  <2>1. CASE BatchStep
    BY <2>1 DEF BatchStep, SkipCycle, syncVars
  <2>2. ASSUME NEW r \in Request, Continues(r)
        PROVE  UNCHANGED <<phase, batch, answer, draft>>
    BY <2>2 DEF Continues, syncVars, UploadCommit, ParserAccepts, ParserAcceptsUnheard,
      ParserRefuses, StartCommit, StartForeignKeyFails, ResultDownload, ResultDownloadFails,
      ResultCommit, RetryCall, RetryCallFails, RetryCommit, DeleteJob, DeleteUnlink,
      DeleteRow, DeleteFileRow, DeleteCommit, DeadlockVictim, CommitFails
  <2>3. ASSUME NEW r \in Request, Arrives(r)
        PROVE  UNCHANGED <<phase, batch, answer, draft>>
    BY <2>3 DEF Arrives, syncVars, UploadWrite, StartParse, ResultRead, RetryRead, DeleteRead
  <2>4. ASSUME NEW j \in Job, ParserStep(j) \/ Ages(j)
        PROVE  UNCHANGED <<phase, batch, answer, draft>>
    BY <2>4 DEF ParserStep, syncVars, ParserPicksUp, ParserFinishes, ParserRaptor,
      ParserForgets, Ages
  <2>5. CASE UNCHANGED vars
    BY <2>5 DEF vars, syncVars
  <2> QED BY <2>1, <2>2, <2>3, <2>4, <2>5 DEF Next
<1>2. CASE rows' = rows
  BY <1>1, <1>2 DEF RowAside
<1>3. ASSUME NEW r \in Request, StartCommit(r), NEW j \in Job
      PROVE  RowAside(j)
  <2>1. /\ rows' = [rows EXCEPT ![req[r].job] = NewRow(req[r].file, req[r].stamp)]
        /\ req[r].job \in Job /\ draft[req[r].job] = NoRow /\ req[r].job \notin batch
    BY <1>3 DEF StartCommit, At, Inv, RequestsFormed, InsertsFresh
  <2> QED BY <2>1 DEF RowAside, NewRow, Inv, TypeOK
<1>4. ASSUME NEW r \in Request, ResultCommit(r) \/ RetryCommit(r), NEW j \in Job
      PROVE  RowAside(j)
  <2>1. req[r].job \in Job
    BY <1>4 DEF ResultCommit, RetryCommit, At, Inv, RequestsFormed
  <2> QED BY <1>4, <2>1 DEF ResultCommit, RetryCommit, RowAside, Inv, TypeOK, Row
<1>5. ASSUME NEW r \in Request, DeleteCommit(r), NEW j \in Job
      PROVE  RowAside(j)
  BY <1>5 DEF DeleteCommit, RowAside
<1> QED BY <1>1, <1>2, <1>3, <1>4, <1>5, RowsWritten

LEMMA CountStep == Inv /\ CountInv /\ [Next /\ Observe]_<<vars, observed>> => CountInv'
<1>1. CASE UNCHANGED <<vars, observed>>
  BY <1>1 DEF CountInv, Counted, TableCounted, AnswerCounted, DraftCounted, EndCounted,
              vars, observed, dbVars, syncVars
<1>2. CASE Next /\ Observe
  BY <1>2, BatchAside, AskStep, SelectCounted, ReadCounted, DownloadCounted, CommitCounted,
     DropCounted, OthersAside
<1> QED BY <1>1, <1>2

\* Three failed queries in a row end a job for want of answers, never fewer,
\* unless the batch that had heard an answer between them was lost.
THEOREM ThreeFailuresInARow == ObservedSpec => []ThreeInARow
<1>1. Init /\ HistoryInit => CountInv
  BY DEF Init, HistoryInit, CountInv, Counted, TableCounted, AnswerCounted, DraftCounted, EndCounted
<1>2. [Next /\ Observe]_<<vars, observed>> => [Next]_vars
  OBVIOUS
<1>3. CountInv => ThreeInARow
  BY DEF CountInv, Counted, EndCounted, ThreeInARow
<1> QED BY <1>1, <1>2, <1>3, InitInv, NextInv, CountStep, PTL DEF ObservedSpec
=============================================================================
