----------------------- MODULE ParsePipelineProofs -----------------------
(***************************************************************************)
(* Proofs about ParsePipeline for every number of files, jobs, requests    *)
(* and restarts, and every choice of faults.                               *)
(***************************************************************************)
EXTENDS ParsePipeline, TLAPS, FiniteSetTheorems

-----------------------------------------------------------------------------
\* The inductive invariant, one part per idea.

\* What a request holds is what its place in the handler needs.
RequestsFormed ==
  \A r \in Request :
    /\ req[r].pc # "idle" => req[r].file \in File
    /\ req[r].pc \in {"insert", "download", "store", "recall", "mark"} =>
         req[r].job \in Job
    /\ req[r].pc \in {"starting", "insert"} => req[r].stamp \in 1..MaxStamp
    /\ req[r].job # NoJob => parser[req[r].job] # "unborn"

\* A job about to be inserted is new: no row, no place in the batch, and no
\* other request works on it.
InsertsFresh ==
  \A r \in Request : req[r].pc = "insert" =>
    /\ rows[req[r].job] = NoRow
    /\ draft[req[r].job] = NoRow
    /\ req[r].job \notin batch
    /\ \A q \in Request : q # r => req[q].job # req[r].job

\* The handlers that work on a completed job go on finding it completed.
HandlersOnCompleted ==
  \A r \in Request :
    /\ req[r].pc \in {"download", "store", "recall", "mark"} /\ rows[req[r].job] # NoRow =>
         rows[req[r].job].status = "completed"
    /\ req[r].pc = "store" => req[r].job \in zips

\* The phases of the batch: a draft belongs to a job that was applied, and the
\* unflushed one is the one being downloaded.
BatchFormed ==
  /\ phase \in {"sleep", "ask"} => current = NoJob /\ \A j \in Job : draft[j] = NoRow
  /\ phase = "sleep" => batch = {} /\ \A j \in Job : answer[j] = "none"
  /\ phase = "fetch" => current # NoJob /\ NeedsDownload(draft[current])
  /\ current # NoJob => draft[current] # NoRow
  /\ expired \subseteq batch
  /\ \A j \in batch : draft[j] = NoRow

\* Only the batch moves an active job, so its jobs stay active until it commits.
BatchOnActive ==
  \A j \in Job : (j \in batch \/ draft[j] # NoRow) /\ rows[j] # NoRow =>
    rows[j].status \in Active

\* An active job has failed at most twice and has no result yet.
ActiveCountable ==
  \A j \in Job : rows[j] # NoRow /\ rows[j].status \in Active =>
    rows[j].fails < 3 /\ ~rows[j].result

\* An answer stays true of the parser server, and is not behind the row.
AnswersHold ==
  \A j \in batch :
    /\ parser[j] # "unborn"
    /\ phase \in {"apply", "fetch"} => answer[j] # "none"
    /\ answer[j] = "missing" => parser[j] = "gone"
    /\ answer[j] = "pending" /\ rows[j] # NoRow => rows[j].status = "pending"
    /\ answer[j] \in {"processing", "completed", "failed", "other"} =>
         parser[j] \notin {"unborn", "pending"}
    /\ answer[j] \in {"completed", "failed", "other"} => parser[j] \in {answer[j], "gone"}
    /\ j \in expired /\ rows[j] # NoRow => j \in aged

\* A flushed draft is locked, so its row is still there.
LocksHold == \A j \in Job : Locked(j) => rows[j] # NoRow

\* No deletion has come past a row that is locked: it waits for the lock, and
\* a flush waits for the deletion.
LocksExclusive ==
  \A j \in Job, r \in Request : Locked(j) /\ Deletes(r) => j \notin req[r].done

\* A move of the lifecycle, or a failed query that leaves the status alone.
Onward == Lifecycle!Moves \cup {<<"pending", "pending">>, <<"processing", "processing">>}

\* What the batch is going to write is as good as what the table holds.
DraftsSound ==
  \A j \in Job : draft[j] # NoRow =>
    /\ parser[j] # "unborn"
    /\ Backed(draft[j], j)
    /\ draft[j].status \in Active => draft[j].fails < 3 /\ ~draft[j].result
    /\ rows[j] # NoRow =>
         /\ Earned(draft[j], j)
         /\ draft[j].file = rows[j].file
         /\ <<rows[j].status, draft[j].status>> \in Onward

Inv ==
  /\ TypeOK
  /\ RequestsFormed
  /\ InsertsFresh
  /\ HandlersOnCompleted
  /\ BatchFormed
  /\ BatchOnActive
  /\ ActiveCountable
  /\ AnswersHold
  /\ LocksHold
  /\ LocksExclusive
  /\ DraftsSound
  /\ RowsTruthful
  /\ ResultsBacked
  /\ JobsHaveFiles

-----------------------------------------------------------------------------
\* Rows

LEMMA CountFailureRow ==
  ASSUME NEW row \in Row, row.status \in Active, row.fails < 3
  PROVE  /\ CountFailure(row) \in Row
         /\ CountFailure(row).file = row.file
         /\ CountFailure(row).result = row.result
         /\ \/ CountFailure(row).status = "error" /\ CountFailure(row).fails = 3
            \/ CountFailure(row).status = row.status /\ CountFailure(row).fails < 3
<1>1. PICK n \in 0..3, s \in Active \cup Settled :
        /\ CountFailure(row) = [row EXCEPT !.fails = n, !.status = s]
        /\ (s = "error" /\ n = 3) \/ (s = row.status /\ n < 3)
  <2>1. CASE row.fails = 2
    <3>1. 2 + 1 = 3 /\ 3 >= 3 /\ 3 \in 0..3
      OBVIOUS
    <3>2. CountFailure(row) = [row EXCEPT !.fails = 3, !.status = "error"]
      BY <2>1, <3>1 DEF CountFailure
    <3> QED BY <3>1, <3>2 DEF Settled
  <2>2. CASE row.fails \in 0..1
    <3>1. row.fails + 1 \in 0..3 /\ ~(row.fails + 1 >= 3) /\ row.fails + 1 < 3
      BY <2>2
    <3>2. CountFailure(row) = [row EXCEPT !.fails = row.fails + 1, !.status = row.status]
      BY <3>1 DEF CountFailure
    <3> QED BY <3>1, <3>2
  <2>3. row.fails = 2 \/ row.fails \in 0..1
    BY DEF Row
  <2> QED BY <2>1, <2>2, <2>3
<1>2. [row EXCEPT !.fails = n, !.status = s] \in Row
  BY DEF Row
<1> QED BY <1>1, <1>2 DEF Row

LEMMA RefreshRow ==
  ASSUME NEW row \in Row, NEW a \in Running, NEW h \in RaptorStatus
  PROVE  /\ Refresh(row, a, h) \in Row
         /\ Refresh(row, a, h).file = row.file
         /\ Refresh(row, a, h).result = row.result
         /\ Refresh(row, a, h).fails = 0
         /\ Refresh(row, a, h).status = MapParserStatus(a)
<1>1. PICK n \in 0..3 : n = 0
  OBVIOUS
<1>2. PICK s \in Active \cup Settled : s = MapParserStatus(a)
  BY DEF MapParserStatus, Active, Settled
<1>3. PICK p \in RaptorStatus : p = IF h # "none" THEN h ELSE row.raptor
  BY DEF Row
<1>4. Refresh(row, a, h) = [row EXCEPT !.status = s, !.fails = n, !.raptor = p]
  BY <1>1, <1>2, <1>3 DEF Refresh
<1>5. [row EXCEPT !.status = s, !.fails = n, !.raptor = p] \in Row
  BY DEF Row
<1> QED BY <1>1, <1>2, <1>4, <1>5 DEF Row

LEMMA SyncedRow ==
  ASSUME NEW row \in Row, NEW a \in Answer \ {"none"}, NEW h \in RaptorStatus, NEW late \in BOOLEAN,
         row.status \in Active, row.fails < 3, ~row.result,
         a = "pending" => row.status = "pending"
  PROVE LET new == Synced(row, a, h, late) IN
        /\ new \in Row
        /\ new.file = row.file
        /\ ~new.result
        /\ new.status \in Active => new.fails < 3
        /\ <<row.status, new.status>> \in Onward
        /\ new.status \in {"completed", "failed"} => a = new.status
        /\ new.status = "lost" => a = "missing"
        /\ new.status = "timeout" => late /\ row.status = "processing"
        /\ new.status = "error" => new.fails = 3 \/ a = "other"
        /\ new.status = "processing" => a = "processing" \/ row.status = "processing"
<1>1. CASE a = "error"
  <2>1. Synced(row, a, h, late) = CountFailure(row)
    BY <1>1 DEF Synced, Running
  <2> QED BY <1>1, <2>1, CountFailureRow DEF Active, Onward, Lifecycle!Moves, Lifecycle!Settled
<1>2. CASE a = "missing"
  BY <1>2 DEF Synced, Row, Active, Settled, Onward, Lifecycle!Moves, Lifecycle!Settled
<1>3. CASE a \in Running /\ row.status = "processing" /\ late
  BY <1>3 DEF Synced, Row, Active, Settled, Running, Onward, Lifecycle!Moves, Lifecycle!Settled
<1>4. CASE a \in Running /\ ~(row.status = "processing" /\ late)
  <2>1. Synced(row, a, h, late) = Refresh(row, a, h)
    BY <1>4 DEF Synced, Running
  <2>2. /\ Refresh(row, a, h) \in Row
        /\ Refresh(row, a, h).file = row.file
        /\ Refresh(row, a, h).result = row.result
        /\ Refresh(row, a, h).fails = 0
        /\ Refresh(row, a, h).status = MapParserStatus(a)
    BY <1>4, RefreshRow
  <2>3. PICK s \in {"pending", "processing", "completed", "failed", "error"} :
          /\ s = MapParserStatus(a)
          /\ s = a \/ (s = "error" /\ a = "other")
    BY <1>4 DEF MapParserStatus, Running
  <2>4. <<row.status, s>> \in Onward
    BY <2>3 DEF Active, Onward, Lifecycle!Moves, Lifecycle!Settled
  <2> QED BY <1>4, <2>1, <2>2, <2>3, <2>4 DEF Running
<1> QED BY <1>1, <1>2, <1>3, <1>4 DEF Answer

-----------------------------------------------------------------------------
\* The sync task

\* Applying one answer: the new draft is sound because the answer still holds.
LEMMA BatchReadInv ==
  ASSUME NEW j \in Job, Inv, BatchRead(j) PROVE Inv'
<1> DEFINE new == IF rows[j] = NoRow THEN NoRow
                  ELSE Synced(rows[j], answer[j], heard[j], j \in expired)
           dirty == new # rows[j]
<1>1. /\ phase = "apply" /\ j \in batch /\ Flushable /\ ~FlushWaits
      /\ batch' = batch \ {j} /\ expired' = expired \ {j}
      /\ answer' = [answer EXCEPT ![j] = "none"]
      /\ draft' = [draft EXCEPT ![j] = IF dirty THEN new ELSE NoRow]
      /\ current' = IF dirty THEN j ELSE NoJob
      /\ phase' = IF dirty /\ NeedsDownload(new) THEN "fetch" ELSE "apply"
  BY DEF BatchRead
<1>2. dirty => rows[j] # NoRow
  OBVIOUS
<1>3. rows[j] # NoRow =>
        /\ new \in Row
        /\ new.file = rows[j].file
        /\ ~new.result
        /\ new.status \in Active => new.fails < 3
        /\ <<rows[j].status, new.status>> \in Onward
        /\ Earned(new, j)
  <2> SUFFICES ASSUME rows[j] # NoRow
               PROVE  /\ new \in Row
                      /\ new.file = rows[j].file
                      /\ ~new.result
                      /\ new.status \in Active => new.fails < 3
                      /\ <<rows[j].status, new.status>> \in Onward
                      /\ Earned(new, j)
    OBVIOUS
  <2> DEFINE row == rows[j]  a == answer[j]  h == heard[j]  late == j \in expired
  <2>1. /\ row \in Row /\ a \in Answer \ {"none"} /\ h \in RaptorStatus /\ late \in BOOLEAN
        /\ row.status \in Active /\ row.fails < 3 /\ ~row.result
        /\ a = "pending" => row.status = "pending"
    BY <1>1 DEF Inv, TypeOK, BatchOnActive, ActiveCountable, AnswersHold
  <2>2. /\ parser[j] # "unborn"
        /\ row.status = "processing" => parser[j] # "pending"
        /\ late => j \in aged
    BY <1>1 DEF Inv, RowsTruthful, Earned, AnswersHold
  <2>3. /\ a = "missing" => parser[j] = "gone"
        /\ a = "processing" => parser[j] # "pending"
        /\ a \in {"completed", "failed", "other"} => parser[j] \in {a, "gone"}
    BY <1>1 DEF Inv, AnswersHold
  <2>4. new = Synced(row, a, h, late)
    OBVIOUS
  <2> HIDE DEF row, a, h, late, new
  <2>5. /\ new \in Row
        /\ new.file = row.file
        /\ ~new.result
        /\ new.status \in Active => new.fails < 3
        /\ <<row.status, new.status>> \in Onward
        /\ new.status \in {"completed", "failed"} => a = new.status
        /\ new.status = "lost" => a = "missing"
        /\ new.status = "timeout" => late /\ row.status = "processing"
        /\ new.status = "error" => new.fails = 3 \/ a = "other"
        /\ new.status = "processing" => a = "processing" \/ row.status = "processing"
    BY <2>1, <2>4, SyncedRow
  <2>6. Earned(new, j)
    BY <2>2, <2>3, <2>5 DEF Earned
  <2> QED BY <2>5, <2>6 DEF row
<1> HIDE DEF new
<1>4. TypeOK'
  BY <1>1, <1>2, <1>3 DEF BatchRead, Inv, TypeOK, Answer, RaptorStatus, dbVars, diskVars, parserVars, serverVars
<1>5. RequestsFormed' /\ HandlersOnCompleted' /\ ActiveCountable' /\ RowsTruthful' /\ ResultsBacked' /\ JobsHaveFiles'
  BY DEF BatchRead, Inv, RequestsFormed, HandlersOnCompleted, ActiveCountable, RowsTruthful, Earned,
         ResultsBacked, Backed, JobsHaveFiles, dbVars, diskVars, parserVars
<1>6. InsertsFresh'
  BY <1>1, <1>2 DEF BatchRead, Inv, TypeOK, InsertsFresh, RequestsFormed, dbVars, parserVars
<1>7. BatchFormed'
  BY <1>1, <1>2, <1>3, NullAssumption DEF Inv, TypeOK, BatchFormed
<1>8. BatchOnActive'
  BY <1>1, <1>2 DEF BatchRead, Inv, TypeOK, BatchOnActive, dbVars
<1>9. AnswersHold'
  BY <1>1 DEF BatchRead, Inv, TypeOK, AnswersHold, dbVars, parserVars
<1>10. LocksHold'
  BY <1>1, <1>2, NullAssumption DEF BatchRead, Flushable, Inv, TypeOK, LocksHold, Locked, dbVars
<1>11. DraftsSound'
  BY <1>1, <1>2, <1>3 DEF BatchRead, Inv, TypeOK, DraftsSound, AnswersHold, Backed, Earned, dbVars, diskVars, parserVars
<1>12. LocksExclusive'
  <2>1. \A r \in Request : current # NoJob /\ Deletes(r) => current \notin req[r].done
    BY <1>1 DEF FlushWaits, Taken, Holds, Flushable
  <2>2. \A k \in Job : Locked(k)' => Locked(k) \/ k = current
    BY <1>1, NullAssumption DEF Locked, Inv, TypeOK, BatchFormed
  <2>3. \A k \in Job : k = current => current # NoJob
    BY NullAssumption
  <2> QED BY <2>1, <2>2, <2>3 DEF BatchRead, Inv, LocksExclusive, Deletes
<1> QED BY <1>4, <1>5, <1>6, <1>7, <1>8, <1>9, <1>10, <1>11, <1>12 DEF Inv

\* The finished download adds result_path to the draft of a completed job.
LEMMA BatchDownloadInv ==
  ASSUME Inv, BatchDownload PROVE Inv'
<1>1. current \in Job /\ draft[current] \in Row
  BY DEF BatchDownload, Inv, TypeOK, BatchFormed
<1>2. [draft[current] EXCEPT !.result = TRUE] \in Row
  BY <1>1 DEF Row
<1>3. draft' = [draft EXCEPT ![current] = [draft[current] EXCEPT !.result = TRUE]]
  BY DEF BatchDownload
<1>4. draft' \in [Job -> Row \cup {NoRow}] /\ draft'[current] # NoRow
  BY <1>1, <1>2, <1>3, NullAssumption DEF Inv, TypeOK
<1>5. TypeOK'
  BY <1>1, <1>4 DEF BatchDownload, Inv, TypeOK, dbVars, parserVars, serverVars
<1>6. BatchFormed'
  BY <1>1, <1>3, <1>4 DEF BatchDownload, Inv, TypeOK, BatchFormed
<1>7. LocksHold' /\ LocksExclusive' /\ DraftsSound'
  BY <1>1, <1>3 DEF BatchDownload, Inv, TypeOK, BatchFormed, NeedsDownload, LocksHold, Locked,
    LocksExclusive, Deletes, DraftsSound, Earned, Backed, Active, Row, dbVars, parserVars
<1>8. RequestsFormed' /\ InsertsFresh' /\ BatchOnActive'
  BY <1>1, <1>3, <1>4 DEF BatchDownload, Inv, TypeOK, RequestsFormed, InsertsFresh,
    BatchOnActive, BatchFormed, dbVars, parserVars
<1>9. HandlersOnCompleted' /\ ActiveCountable' /\ AnswersHold' /\ RowsTruthful'
        /\ ResultsBacked' /\ JobsHaveFiles'
  BY DEF BatchDownload, Inv, HandlersOnCompleted, ActiveCountable, AnswersHold, RowsTruthful,
    Earned, ResultsBacked, Backed, JobsHaveFiles, dbVars, parserVars
<1> QED BY <1>5, <1>6, <1>7, <1>8, <1>9 DEF Inv

\* The commit writes the drafts: every one of them still has its row, because
\* the flushed ones are locked and the last one is checked by its own UPDATE.
LEMMA BatchCommitInv ==
  ASSUME Inv, BatchCommit PROVE Inv'
<1>1. \A j \in Job : draft[j] # NoRow => rows[j] # NoRow
  BY NullAssumption DEF BatchCommit, Flushable, Inv, LocksHold, Locked
<1>2. \A j \in Job : rows'[j] = IF draft[j] # NoRow THEN draft[j] ELSE rows[j]
  BY DEF BatchCommit
<1>3. \A j \in Job : rows'[j] # NoRow <=> rows[j] # NoRow
  BY <1>1, <1>2
<1>4. \A j \in Job : rows[j] # NoRow =>
        Earned(rows'[j], j) /\ Backed(rows'[j], j) /\ rows'[j].file = rows[j].file
  BY <1>1, <1>2 DEF Inv, DraftsSound, RowsTruthful, ResultsBacked
<1>5. \A j \in Job : rows[j] # NoRow /\ rows'[j].status \in Active =>
         rows'[j].fails < 3 /\ ~rows'[j].result
  BY <1>1, <1>2 DEF Inv, DraftsSound, ActiveCountable
<1>6. RowsTruthful' /\ ResultsBacked' 
  BY <1>3, <1>4 DEF RowsTruthful, ResultsBacked, BatchCommit, diskVars, parserVars, Earned, Backed
<1>7. JobsHaveFiles' 
  BY <1>3, <1>4 DEF Inv, JobsHaveFiles, BatchCommit
<1>8. ActiveCountable'
  BY <1>3, <1>5 DEF ActiveCountable
<1>9. /\ phase' = "sleep" /\ batch' = {} /\ expired' = {} /\ current' = NoJob
      /\ \A j \in Job : draft'[j] = NoRow /\ answer'[j] = "none"
  BY DEF BatchCommit, SyncIdle
<1>10. BatchFormed' /\ AnswersHold' /\ LocksHold' /\ LocksExclusive' /\ DraftsSound' /\ BatchOnActive'
  BY <1>9 DEF BatchFormed, AnswersHold, LocksHold, LocksExclusive, Locked, DraftsSound, BatchOnActive
<1>11. InsertsFresh' /\ RequestsFormed'
  BY <1>3, <1>9 DEF BatchCommit, Inv, InsertsFresh, RequestsFormed, parserVars
<1>12. \A j \in Job : rows[j] # NoRow /\ rows[j].status = "completed" => rows'[j] = rows[j]
  BY <1>2 DEF Inv, BatchOnActive, Active
<1>13. HandlersOnCompleted'
  BY <1>3, <1>12 DEF BatchCommit, Inv, HandlersOnCompleted, RequestsFormed, diskVars
<1>14. TypeOK'
  BY <1>9 DEF BatchCommit, SyncIdle, Inv, TypeOK, Answer, RaptorStatus, diskVars, parserVars
<1> QED BY <1>6, <1>7, <1>8, <1>10, <1>11, <1>13, <1>14 DEF Inv

\* Every step of the sync task.
LEMMA BatchStepInv ==
  ASSUME Inv, BatchStep PROVE Inv'
<1> USE FaultsAssumption, BoundsAssumption, NullAssumption
    DEF Inv, TypeOK, RequestsFormed, InsertsFresh, HandlersOnCompleted, BatchFormed,
        BatchOnActive, ActiveCountable, AnswersHold, LocksHold, LocksExclusive, DraftsSound,
        RowsTruthful, ResultsBacked, JobsHaveFiles,
        vars, dbVars, diskVars, parserVars, serverVars, syncVars,
        Active, Settled, RaptorStatus, Row, ParserStatus, Running, Answer, Idle,
        RequestState, Locked, Deletes, Finish, Goto, Delete, At, Begins, NeedsDownload, Flushable,
        Earned, Backed, Onward, Lifecycle!Moves, Lifecycle!Settled
<1>1. CASE BatchSelect
  BY <1>1 DEF BatchSelect, ActiveRows
<1>2. CASE SkipCycle
  BY <1>2 DEF SkipCycle
<1>3. CASE BatchDownloadFails
  BY <1>3 DEF BatchDownloadFails
<1>4. CASE BatchAbort
  BY <1>4 DEF BatchAbort, SyncIdle
<1>5. ASSUME NEW j \in Job, SyncOneJob(j) PROVE Inv'
  BY <1>5 DEF SyncOneJob, Answers
<1> QED BY <1>1, <1>2, <1>3, <1>4, <1>5, BatchReadInv, BatchDownloadInv, BatchCommitInv DEF BatchStep

-----------------------------------------------------------------------------
\* The requests

\* The parser server names a new job, which nothing else can be working on.
LEMMA ParserAcceptsInv ==
  ASSUME NEW r \in Request, NEW j \in Job, Inv, ParserAccepts(r, j) PROVE Inv'
<1>1. rows[j] = NoRow /\ draft[j] = NoRow /\ j \notin batch
  BY DEF ParserAccepts, Inv, RowsTruthful, Earned, DraftsSound, AnswersHold
<1>2. \A q \in Request : req[q].job # j
  BY NullAssumption DEF ParserAccepts, Inv, RequestsFormed
<1>3. InsertsFresh'
  <2> SUFFICES ASSUME NEW q \in Request, req'[q].pc = "insert"
               PROVE  /\ rows'[req'[q].job] = NoRow
                      /\ draft'[req'[q].job] = NoRow
                      /\ req'[q].job \notin batch'
                      /\ \A p \in Request : p # q => req'[p].job # req'[q].job
    BY DEF InsertsFresh
  <2>1. /\ UNCHANGED <<rows, draft, batch>>
        /\ req'[r].job = j
        /\ \A p \in Request : p # r => req'[p] = req[p]
    BY DEF ParserAccepts, Goto, Inv, TypeOK, dbVars, syncVars
  <2> QED BY <1>1, <1>2, <2>1 DEF Inv, InsertsFresh
<1> USE FaultsAssumption, BoundsAssumption, NullAssumption
    DEF Inv, TypeOK, RequestsFormed, InsertsFresh, HandlersOnCompleted, BatchFormed,
        BatchOnActive, ActiveCountable, AnswersHold, LocksHold, LocksExclusive, DraftsSound,
        RowsTruthful, ResultsBacked, JobsHaveFiles,
        vars, dbVars, diskVars, parserVars, serverVars, syncVars,
        Active, Settled, RaptorStatus, Row, ParserStatus, Running, Answer, Idle,
        RequestState, Locked, Deletes, Finish, Goto, Delete, At, Begins, NeedsDownload, Flushable,
        Earned, Backed, Onward, Lifecycle!Moves, Lifecycle!Settled
<1>4. TypeOK'
  BY DEF ParserAccepts
<1>5. RequestsFormed' /\ HandlersOnCompleted'
  BY DEF ParserAccepts
<1>6. AnswersHold' /\ DraftsSound' /\ RowsTruthful'
  BY DEF ParserAccepts
<1>7. BatchFormed' /\ BatchOnActive' /\ ActiveCountable' /\ LocksHold' /\ LocksExclusive'
        /\ ResultsBacked' /\ JobsHaveFiles'
  BY DEF ParserAccepts
<1> QED BY <1>3, <1>4, <1>5, <1>6, <1>7

\* result_path is written to a row that is still completed, with its archive.
LEMMA ResultCommitInv ==
  ASSUME NEW r \in Request, Inv, ResultCommit(r) PROVE Inv'
<1> DEFINE j == req[r].job
<1>1. j \in Job
  BY DEF ResultCommit, At, Inv, RequestsFormed
<1>2. rows' \in [Job -> Row \cup {NoRow}]
  <2>1. CASE rows[j] = NoRow
    BY <2>1 DEF ResultCommit, Inv, TypeOK
  <2>2. CASE rows[j] # NoRow
    <3>1. [rows[j] EXCEPT !.result = TRUE] \in Row
      BY <1>1, <2>2 DEF Inv, TypeOK, Row
    <3>2. rows' = [rows EXCEPT ![j] = [rows[j] EXCEPT !.result = TRUE]]
      BY <2>2 DEF ResultCommit
    <3> QED BY <1>1, <3>1, <3>2 DEF Inv, TypeOK
  <2> QED BY <2>1, <2>2
<1>3. TypeOK'
  BY <1>2, BoundsAssumption DEF ResultCommit, Inv, TypeOK, Finish, Idle, RequestState,
    diskVars, parserVars, serverVars, syncVars
<1> USE FaultsAssumption, BoundsAssumption, NullAssumption
    DEF Inv, TypeOK, RequestsFormed, InsertsFresh, HandlersOnCompleted, BatchFormed,
        BatchOnActive, ActiveCountable, AnswersHold, LocksHold, LocksExclusive, DraftsSound,
        RowsTruthful, ResultsBacked, JobsHaveFiles,
        vars, dbVars, diskVars, parserVars, serverVars, syncVars,
        Active, Settled, RaptorStatus, Row, ParserStatus, Running, Answer, Idle,
        RequestState, Locked, Deletes, Finish, Goto, Delete, At, Begins, NeedsDownload, Flushable,
        Earned, Backed, Onward, Lifecycle!Moves, Lifecycle!Settled
<1>4. RequestsFormed' /\ InsertsFresh' /\ HandlersOnCompleted'
  BY DEF ResultCommit
<1>5. BatchFormed' /\ BatchOnActive' /\ AnswersHold' /\ LocksHold' /\ LocksExclusive' /\ DraftsSound'
  BY DEF ResultCommit
<1>6. ActiveCountable' /\ RowsTruthful' /\ ResultsBacked' /\ JobsHaveFiles'
  BY DEF ResultCommit
<1> QED BY <1>3, <1>4, <1>5, <1>6

\* delete_job makes the parser server forget: every status is consistent with
\* a job that is gone.
LEMMA DeleteJobInv ==
  ASSUME NEW r \in Request, NEW j \in Job, Inv, DeleteJob(r, j) PROVE Inv'
<1>1. TypeOK'
  <2>1. req' \in [Request -> RequestState]
    BY BoundsAssumption, NullAssumption DEF DeleteJob, At, Delete, Inv, TypeOK, RequestState
  <2>2. parser' \in [Job -> ParserStatus] /\ raptor' \in [Job -> RaptorStatus]
    BY DEF DeleteJob, parserVars, Inv, TypeOK, ParserStatus, RaptorStatus
  <2> QED BY <2>1, <2>2 DEF DeleteJob, Inv, TypeOK, dbVars, diskVars, serverVars, syncVars
<1> USE FaultsAssumption, BoundsAssumption, NullAssumption
    DEF Inv, TypeOK, RequestsFormed, InsertsFresh, HandlersOnCompleted, BatchFormed,
        BatchOnActive, ActiveCountable, AnswersHold, LocksHold, LocksExclusive, DraftsSound,
        RowsTruthful, ResultsBacked, JobsHaveFiles,
        vars, dbVars, diskVars, parserVars, serverVars, syncVars,
        Active, Settled, RaptorStatus, Row, ParserStatus, Running, Answer, Idle,
        RequestState, Locked, Deletes, Finish, Goto, Delete, At, Begins, NeedsDownload, Flushable,
        Earned, Backed, Onward, Lifecycle!Moves, Lifecycle!Settled
<1>2. RequestsFormed' /\ InsertsFresh' /\ HandlersOnCompleted'
  BY DEF DeleteJob
<1>3. AnswersHold' /\ DraftsSound' /\ RowsTruthful'
  BY DEF DeleteJob
<1>4. BatchFormed' /\ BatchOnActive' /\ ActiveCountable' /\ LocksHold' /\ LocksExclusive'
        /\ ResultsBacked' /\ JobsHaveFiles'
  BY DEF DeleteJob
<1> QED BY <1>1, <1>2, <1>3, <1>4

\* The deletion has come past every row of the file, so the batch has locked none.
LEMMA DeleteCommitInv ==
  ASSUME NEW r \in Request, Inv, DeleteCommit(r) PROVE Inv'
<1>0. \A j \in JobsOf(req[r].file) : ~Locked(j)
  BY DEF DeleteCommit, At, Deletes, JobsOf, Inv, LocksExclusive
<1>1. DraftsSound'
  <2>1. SUFFICES ASSUME NEW k \in Job, draft'[k] # NoRow
        PROVE  /\ parser'[k] # "unborn"
               /\ Backed(draft[k], k)'
               /\ draft[k]'.status \in Active => draft[k]'.fails < 3 /\ ~draft[k]'.result
               /\ rows[k]' # NoRow =>
                    /\ Earned(draft[k], k)'
                    /\ draft[k]'.file = rows[k]'.file
                    /\ <<rows[k]'.status, draft[k]'.status>> \in Onward
    BY DEF DraftsSound
  <2>2. UNCHANGED <<draft, parser, zips>>
    BY DEF DeleteCommit, syncVars, parserVars, diskVars
  <2>3. rows'[k] # NoRow => rows'[k] = rows[k] /\ k \notin JobsOf(req[r].file)
    BY DEF DeleteCommit, Inv, TypeOK
  <2>4. k \in aged /\ k \notin JobsOf(req[r].file) => k \in aged'
    BY DEF DeleteCommit
  <2> QED BY <2>1, <2>2, <2>3, <2>4 DEF Inv, DraftsSound, Earned, Backed
<1> USE FaultsAssumption, BoundsAssumption, NullAssumption
    DEF Inv, TypeOK, RequestsFormed, InsertsFresh, HandlersOnCompleted, BatchFormed,
        BatchOnActive, ActiveCountable, AnswersHold, LocksHold, LocksExclusive, DraftsSound,
        RowsTruthful, ResultsBacked, JobsHaveFiles,
        vars, dbVars, diskVars, parserVars, serverVars, syncVars,
        Active, Settled, RaptorStatus, Row, ParserStatus, Running, Answer, Idle,
        RequestState, Locked, Deletes, Finish, Goto, Delete, At, Begins, NeedsDownload, Flushable,
        Earned, Backed, Onward, Lifecycle!Moves, Lifecycle!Settled
<1>2. TypeOK' /\ RequestsFormed' /\ InsertsFresh' /\ HandlersOnCompleted'
  BY DEF DeleteCommit, JobsOf
<1>3. BatchFormed' /\ BatchOnActive' /\ ActiveCountable' /\ AnswersHold' /\ LocksExclusive'
  BY DEF DeleteCommit, JobsOf
<1>5. LocksHold'
  BY <1>0 DEF DeleteCommit, JobsOf
<1>4. RowsTruthful' /\ ResultsBacked' /\ JobsHaveFiles'
  BY DEF DeleteCommit, JobsOf
<1> QED BY <1>1, <1>2, <1>3, <1>4, <1>5

\* Every step of a request in flight.
LEMMA ContinuesInv ==
  ASSUME NEW r \in Request, Inv, Continues(r) PROVE Inv'
<1> USE FaultsAssumption, BoundsAssumption, NullAssumption
    DEF Inv, TypeOK, RequestsFormed, InsertsFresh, HandlersOnCompleted, BatchFormed,
        BatchOnActive, ActiveCountable, AnswersHold, LocksHold, LocksExclusive, DraftsSound,
        RowsTruthful, ResultsBacked, JobsHaveFiles,
        vars, dbVars, diskVars, parserVars, serverVars, syncVars,
        Active, Settled, RaptorStatus, Row, ParserStatus, Running, Answer, Idle,
        RequestState, Locked, Deletes, Finish, Goto, Delete, At, Begins, NeedsDownload, Flushable,
        Earned, Backed, Onward, Lifecycle!Moves, Lifecycle!Settled
<1>1. CASE UploadCommit(r)
  BY <1>1, SMTT(30) DEF UploadCommit
<1>2. CASE ParserRefuses(r)
  BY <1>2, SMTT(30) DEF ParserRefuses
<1>3. CASE StartCommit(r)
  BY <1>3, SMTT(30) DEF StartCommit, NewRow
<1>4. CASE StartForeignKeyFails(r)
  BY <1>4, SMTT(30) DEF StartForeignKeyFails
<1>5. CASE ResultDownload(r)
  BY <1>5, SMTT(30) DEF ResultDownload
<1>6. CASE ResultDownloadFails(r)
  BY <1>6, SMTT(30) DEF ResultDownloadFails
<1>7. CASE RetryCall(r)
  BY <1>7, SMTT(30) DEF RetryCall
<1>8. CASE RetryCallFails(r)
  BY <1>8, SMTT(30) DEF RetryCallFails
<1>9. CASE RetryCommit(r)
  BY <1>9, SMTT(30) DEF RetryCommit
<1>10. CASE DeleteUnlink(r)
  BY <1>10, SMTT(30) DEF DeleteUnlink, DeleteMarks, JobsOf
<1>11. CASE CommitFails(r)
  BY <1>11, SMTT(30) DEF CommitFails
<1>12. ASSUME NEW j \in Job, ParserAcceptsUnheard(r, j) PROVE Inv'
  BY <1>12, SMTT(30) DEF ParserAcceptsUnheard
<1>13. ASSUME NEW j \in Job, DeleteRow(r, j) PROVE Inv'
  BY <1>13, SMTT(30) DEF DeleteRow, Free
<1>14. CASE DeleteFileRow(r)
  BY <1>14, SMTT(30) DEF DeleteFileRow
<1>15. CASE DeadlockVictim(r)
  BY <1>15, SMTT(30) DEF DeadlockVictim
<1> QED BY <1>1, <1>2, <1>3, <1>4, <1>5, <1>6, <1>7, <1>8, <1>9, <1>10, <1>11, <1>12, <1>13, <1>14,
    <1>15, ParserAcceptsInv, ResultCommitInv, DeleteJobInv, DeleteCommitInv DEF Continues

\* Every request that arrives.
LEMMA ArrivesInv ==
  ASSUME NEW r \in Request, Inv, Arrives(r) PROVE Inv'
<1> USE FaultsAssumption, BoundsAssumption, NullAssumption
    DEF Inv, TypeOK, RequestsFormed, InsertsFresh, HandlersOnCompleted, BatchFormed,
        BatchOnActive, ActiveCountable, AnswersHold, LocksHold, LocksExclusive, DraftsSound,
        RowsTruthful, ResultsBacked, JobsHaveFiles,
        vars, dbVars, diskVars, parserVars, serverVars, syncVars,
        Active, Settled, RaptorStatus, Row, ParserStatus, Running, Answer, Idle,
        RequestState, Locked, Deletes, Finish, Goto, Delete, At, Begins, NeedsDownload, Flushable,
        Earned, Backed, Onward, Lifecycle!Moves, Lifecycle!Settled
<1>1. ASSUME NEW f \in File, UploadWrite(r, f) PROVE Inv'
  BY <1>1, UploadDirsAssumption, SMTT(30) DEF UploadWrite
<1>2. ASSUME NEW f \in File, StartParse(r, f) PROVE Inv'
  BY <1>2, SMTT(30) DEF StartParse
<1>3. ASSUME NEW f \in File, DeleteRead(r, f) PROVE Inv'
  BY <1>3, SMTT(30) DEF DeleteRead, JobsOf
<1>4. ASSUME NEW f \in File, NEW j \in Job, ResultRead(r, f, j) PROVE Inv'
  BY <1>4, SMTT(30) DEF ResultRead, IsLatest, JobsOf
<1>5. ASSUME NEW f \in File, NEW j \in Job, RetryRead(r, f, j) PROVE Inv'
  BY <1>5, SMTT(30) DEF RetryRead, IsLatest, JobsOf
<1> QED BY <1>1, <1>2, <1>3, <1>4, <1>5 DEF Arrives

-----------------------------------------------------------------------------
\* The environment

\* The parser server, the clock and a crash.
LEMMA EnvironmentInv ==
  ASSUME Inv, Restart \/ \E j \in Job : ParserStep(j) \/ Ages(j) PROVE Inv'
<1> USE FaultsAssumption, BoundsAssumption, NullAssumption
    DEF Inv, TypeOK, RequestsFormed, InsertsFresh, HandlersOnCompleted, BatchFormed,
        BatchOnActive, ActiveCountable, AnswersHold, LocksHold, LocksExclusive, DraftsSound,
        RowsTruthful, ResultsBacked, JobsHaveFiles,
        vars, dbVars, diskVars, parserVars, serverVars, syncVars,
        Active, Settled, RaptorStatus, Row, ParserStatus, Running, Answer, Idle,
        RequestState, Locked, Deletes, Finish, Goto, Delete, At, Begins, NeedsDownload, Flushable,
        Earned, Backed, Onward, Lifecycle!Moves, Lifecycle!Settled
<1>1. ASSUME NEW j \in Job, ParserPicksUp(j) PROVE Inv'
  BY <1>1, SMTT(30) DEF ParserPicksUp
<1>2. ASSUME NEW j \in Job, ParserFinishes(j) PROVE Inv'
  BY <1>2, SMTT(30) DEF ParserFinishes
<1>3. ASSUME NEW j \in Job, ParserRaptor(j) PROVE Inv'
  BY <1>3, SMTT(30) DEF ParserRaptor
<1>4. ASSUME NEW j \in Job, ParserForgets(j) PROVE Inv'
  BY <1>4, SMTT(30) DEF ParserForgets
<1>5. ASSUME NEW j \in Job, Ages(j) PROVE Inv'
  BY <1>5, SMTT(30) DEF Ages
<1>6. CASE Restart
  BY <1>6, SMTT(30) DEF Restart, SyncIdle
<1> QED BY <1>1, <1>2, <1>3, <1>4, <1>5, <1>6 DEF ParserStep

-----------------------------------------------------------------------------
\* Theorems

LEMMA InitInv == Init => Inv
<1> SUFFICES ASSUME Init PROVE Inv
  OBVIOUS
<1> USE FaultsAssumption, BoundsAssumption, NullAssumption
    DEF Inv, TypeOK, RequestsFormed, InsertsFresh, HandlersOnCompleted, BatchFormed,
        BatchOnActive, ActiveCountable, AnswersHold, LocksHold, LocksExclusive, DraftsSound,
        RowsTruthful, ResultsBacked, JobsHaveFiles,
        vars, dbVars, diskVars, parserVars, serverVars, syncVars,
        Active, Settled, RaptorStatus, Row, ParserStatus, Running, Answer, Idle,
        RequestState, Locked, Deletes, Finish, Goto, Delete, At, Begins, NeedsDownload, Flushable,
        Earned, Backed, Onward, Lifecycle!Moves, Lifecycle!Settled
<1> QED BY DEF Init

LEMMA NextInv == Inv /\ [Next]_vars => Inv'
<1> SUFFICES ASSUME Inv, [Next]_vars PROVE Inv'
  OBVIOUS
<1>1. CASE UNCHANGED vars
  <2> USE FaultsAssumption, BoundsAssumption, NullAssumption
      DEF Inv, TypeOK, RequestsFormed, InsertsFresh, HandlersOnCompleted, BatchFormed,
          BatchOnActive, ActiveCountable, AnswersHold, LocksHold, LocksExclusive, DraftsSound,
          RowsTruthful, ResultsBacked, JobsHaveFiles,
          vars, dbVars, diskVars, parserVars, serverVars, syncVars,
          Active, Settled, RaptorStatus, Row, ParserStatus, Running, Answer, Idle,
          RequestState, Locked, Deletes, Finish, Goto, Delete, At, Begins, NeedsDownload, Flushable,
          Earned, Backed, Onward, Lifecycle!Moves, Lifecycle!Settled
  <2> QED BY <1>1
<1> QED BY <1>1, BatchStepInv, ContinuesInv, ArrivesInv, EnvironmentInv DEF Next

\* The strengthened invariant holds in every reachable state, for any number of
\* files, jobs and requests, any faults and any number of restarts.
THEOREM Invariance == Spec => []Inv
BY InitInv, NextInv, PTL DEF Spec

\* The variables keep their types: in particular no failure count passes three
\* and no draft outgrows a row.
THEOREM TypeCorrect == Spec => []TypeOK
<1>1. Inv => TypeOK
  BY DEF Inv
<1> QED BY <1>1, Invariance, PTL

\* The table never runs ahead of the parser server.
THEOREM TruthfulRows == Spec => []RowsTruthful
<1>1. Inv => RowsTruthful
  BY DEF Inv
<1> QED BY <1>1, Invariance, PTL

\* A result_path means a completed job whose archive is on disk.
THEOREM BackedResults == Spec => []ResultsBacked
<1>1. Inv => ResultsBacked
  BY DEF Inv
<1> QED BY <1>1, Invariance, PTL

\* No job row is left without its file.
THEOREM NoOrphanRows == Spec => []JobsHaveFiles
<1>1. Inv => JobsHaveFiles
  BY DEF Inv
<1> QED BY <1>1, Invariance, PTL

-----------------------------------------------------------------------------
\* The pipeline implements the lifecycle

\* Only a commit writes the table of jobs.
LEMMA RowsWritten ==
  ASSUME [Next]_vars, rows' # rows
  PROVE  \/ BatchCommit
         \/ \E r \in Request : \/ StartCommit(r) \/ ResultCommit(r)
                               \/ RetryCommit(r) \/ DeleteCommit(r)
<1> USE DEF dbVars
<1>1. ASSUME BatchStep PROVE BatchCommit
  BY <1>1 DEF BatchStep, BatchSelect, SkipCycle, SyncOneJob, BatchRead, BatchDownload,
    BatchDownloadFails, BatchAbort
<1>2. ASSUME NEW r \in Request, Continues(r)
      PROVE  StartCommit(r) \/ ResultCommit(r) \/ RetryCommit(r) \/ DeleteCommit(r)
  BY <1>2 DEF Continues, UploadCommit, ParserAccepts, ParserAcceptsUnheard, ParserRefuses,
    StartForeignKeyFails, ResultDownload, ResultDownloadFails, RetryCall, RetryCallFails,
    DeleteJob, DeleteUnlink, DeleteRow, DeleteFileRow, DeadlockVictim, CommitFails
<1>3. ASSUME NEW r \in Request, Arrives(r) PROVE FALSE
  BY <1>3 DEF Arrives, UploadWrite, StartParse, ResultRead, RetryRead, DeleteRead
<1>4. ASSUME Restart \/ \E j \in Job : ParserStep(j) \/ Ages(j) PROVE FALSE
  BY <1>4 DEF ParserStep, ParserPicksUp, ParserFinishes, ParserRaptor, ParserForgets, Ages, Restart
<1> QED BY <1>1, <1>2, <1>3, <1>4 DEF Next, vars

\* The parser server's status of a job is written one job at a time, and never
\* goes back to "unborn".
LEMMA ParserWritten ==
  ASSUME [Next]_vars, parser' # parser
  PROVE  \E k \in Job, s \in ParserStatus \ {"unborn"} : parser' = [parser EXCEPT ![k] = s]
<1>1. \/ \E r \in Request, k \in Job :
           ParserAccepts(r, k) \/ ParserAcceptsUnheard(r, k) \/ DeleteJob(r, k)
      \/ \E k \in Job : ParserPicksUp(k) \/ ParserFinishes(k) \/ ParserForgets(k)
  <2> USE DEF parserVars
  <2>1. ASSUME BatchStep PROVE FALSE
    BY <2>1 DEF BatchStep, BatchSelect, SkipCycle, SyncOneJob, BatchRead, BatchDownload,
      BatchDownloadFails, BatchCommit, BatchAbort
  <2>2. ASSUME NEW r \in Request, Continues(r)
        PROVE  \E k \in Job : ParserAccepts(r, k) \/ ParserAcceptsUnheard(r, k) \/ DeleteJob(r, k)
    BY <2>2 DEF Continues, UploadCommit, ParserRefuses, StartCommit, StartForeignKeyFails,
      ResultDownload, ResultDownloadFails, ResultCommit, RetryCall, RetryCallFails, RetryCommit,
      DeleteUnlink, DeleteRow, DeleteFileRow, DeleteCommit, DeadlockVictim, CommitFails
  <2>3. ASSUME NEW r \in Request, Arrives(r) PROVE FALSE
    BY <2>3 DEF Arrives, UploadWrite, StartParse, ResultRead, RetryRead, DeleteRead
  <2>4. ASSUME NEW k \in Job, ParserStep(k) \/ Ages(k)
        PROVE  ParserPicksUp(k) \/ ParserFinishes(k) \/ ParserForgets(k)
    BY <2>4 DEF ParserStep, ParserRaptor, Ages
  <2>5. ~Restart
    BY DEF Restart
  <2> QED BY <2>1, <2>2, <2>3, <2>4, <2>5 DEF Next, vars
<1> QED BY <1>1 DEF ParserAccepts, ParserAcceptsUnheard, DeleteJob, ParserPicksUp,
      ParserFinishes, ParserForgets, ParserStatus, parserVars

\* A request comes to hold a job for insertion only when the parser server has
\* just named it.
LEMMA InsertsBegin ==
  ASSUME Inv, [Next]_vars, NEW r \in Request, req'[r].pc = "insert"
  PROVE  req'[r] = req[r] \/ parser[req'[r].job] = "unborn"
<1> USE DEF Inv, TypeOK, Goto, Delete, Finish, Idle
<1>1. CASE UNCHANGED req
  BY <1>1
<1>2. ASSUME NEW q \in Request, Continues(q)
      PROVE  req'[r] = req[r] \/ parser[req'[r].job] = "unborn"
  <2>1. CASE q # r
    BY <1>2, <2>1 DEF Continues, UploadCommit, ParserAccepts, ParserAcceptsUnheard, ParserRefuses,
      StartCommit, StartForeignKeyFails, ResultDownload, ResultDownloadFails, ResultCommit,
      RetryCall, RetryCallFails, RetryCommit, DeleteJob, DeleteUnlink, DeleteMarks, DeleteRow,
      DeleteFileRow, DeleteCommit, DeadlockVictim, CommitFails
  <2>2. CASE \E j \in Job : ParserAccepts(r, j)
    BY <2>2 DEF ParserAccepts
  <2>3. CASE /\ q = r /\ Continues(r) /\ ~\E j \in Job : ParserAccepts(r, j)
             /\ ~\E j \in Job : DeleteJob(r, j) \/ DeleteRow(r, j)
             /\ ~DeleteUnlink(r) /\ ~DeleteFileRow(r)
    BY <2>3 DEF Continues, UploadCommit, ParserAcceptsUnheard, ParserRefuses,
      StartCommit, StartForeignKeyFails, ResultDownload, ResultDownloadFails, ResultCommit,
      RetryCall, RetryCallFails, RetryCommit, DeleteCommit, DeadlockVictim, CommitFails
  <2>4. CASE DeleteUnlink(r) \/ DeleteFileRow(r) \/ \E j \in Job : DeleteJob(r, j) \/ DeleteRow(r, j)
    BY <2>4 DEF DeleteUnlink, DeleteMarks, DeleteFileRow, DeleteJob, DeleteRow, Deletes
  <2> QED BY <1>2, <2>1, <2>2, <2>3, <2>4
<1>3. ASSUME NEW q \in Request, Arrives(q)
      PROVE  req'[r] = req[r]
  BY <1>3 DEF Arrives, UploadWrite, StartParse, ResultRead, RetryRead, DeleteRead
<1>4. CASE Restart
  BY <1>4 DEF Restart
<1>5. CASE BatchStep \/ \E j \in Job : ParserStep(j) \/ Ages(j)
  BY <1>1, <1>5 DEF BatchStep, BatchSelect, SkipCycle, SyncOneJob, BatchRead, BatchDownload,
    BatchDownloadFails, BatchCommit, BatchAbort, ParserStep, ParserPicksUp, ParserFinishes,
    ParserRaptor, ParserForgets, Ages
<1> QED BY <1>1, <1>2, <1>3, <1>4, <1>5 DEF Next, vars

\* A row of j may still be inserted.
Coming(j) == parser[j] = "unborn" \/ \E r \in Request : At(r, "insert") /\ req[r].job = j

\* A job whose row can never be inserted stays that way.
LEMMA ComingEnds ==
  ASSUME Inv, [Next]_vars, NEW j \in Job, ~Coming(j)
  PROVE  ~Coming(j)'
<1>1. parser[j] # "unborn" /\ parser'[j] # "unborn"
  BY ParserWritten DEF Coming, Inv, TypeOK
<1>2. ASSUME NEW r \in Request, req'[r].pc = "insert"
      PROVE  req'[r].job # j
  BY <1>1, <1>2, InsertsBegin DEF Coming, At
<1> QED BY <1>1, <1>2 DEF Coming, At

\* What one step does to the row of one job.
LEMMA RowMoves ==
  ASSUME Inv, [Next]_vars, NEW j \in Job
  PROVE  /\ rows[j] = NoRow /\ rows'[j] # NoRow => rows'[j].status = "pending" /\ Coming(j)
         /\ rows[j] # NoRow /\ rows'[j] # NoRow =>
              \/ rows'[j].status = rows[j].status
              \/ <<rows[j].status, rows'[j].status>> \in Lifecycle!Moves
         /\ rows[j] # NoRow => ~Coming(j)
<1>1. rows[j] # NoRow => ~Coming(j)
  BY DEF Coming, At, Inv, RowsTruthful, Earned, InsertsFresh
<1>2. CASE rows' = rows
  BY <1>1, <1>2
<1>3. CASE BatchCommit
  <2>1. rows'[j] = IF draft[j] # NoRow THEN draft[j] ELSE rows[j]
    BY <1>3 DEF BatchCommit
  <2>2. draft[j] # NoRow => rows[j] # NoRow
    BY <1>3, NullAssumption DEF BatchCommit, Flushable, Inv, LocksHold, Locked
  <2>3. draft[j] # NoRow => <<rows[j].status, draft[j].status>> \in Onward
    BY <2>2 DEF Inv, DraftsSound
  <2> QED BY <1>1, <2>1, <2>2, <2>3 DEF Onward
<1>4. ASSUME NEW r \in Request, StartCommit(r)
      PROVE  /\ rows[j] = NoRow /\ rows'[j] # NoRow => rows'[j].status = "pending" /\ Coming(j)
             /\ rows[j] # NoRow => rows'[j] = rows[j]
  <2>1. req[r].job \in Job /\ rows[req[r].job] = NoRow
    BY <1>4 DEF StartCommit, At, Inv, RequestsFormed, InsertsFresh
  <2>2. rows' = [rows EXCEPT ![req[r].job] = NewRow(req[r].file, req[r].stamp)]
    BY <1>4 DEF StartCommit
  <2>3. CASE j = req[r].job
    BY <1>4, <2>1, <2>2, <2>3 DEF StartCommit, NewRow, Coming, Inv, TypeOK
  <2>4. CASE j # req[r].job
    BY <2>2, <2>4 DEF Inv, TypeOK
  <2> QED BY <2>3, <2>4
<1>5. ASSUME NEW r \in Request, ResultCommit(r) \/ RetryCommit(r)
      PROVE  /\ rows'[j] # NoRow => rows[j] # NoRow
             /\ rows[j] # NoRow => rows'[j].status = rows[j].status
  BY <1>5 DEF ResultCommit, RetryCommit, At, Inv, TypeOK, RequestsFormed, Row
<1>6. ASSUME NEW r \in Request, DeleteCommit(r)
      PROVE  rows'[j] = NoRow \/ rows'[j] = rows[j]
  BY <1>6 DEF DeleteCommit
<1> QED BY <1>1, <1>2, <1>3, <1>4, <1>5, <1>6, RowsWritten

\* An update of rows neither makes nor removes one, nor moves it to another file.
LEMMA UpdatesKeepFiles ==
  ASSUME Inv, BatchCommit \/ \E r \in Request : ResultCommit(r) \/ RetryCommit(r), NEW k \in Job
  PROVE  /\ rows'[k] = NoRow <=> rows[k] = NoRow
         /\ rows[k] # NoRow => rows'[k].file = rows[k].file
<1>1. CASE BatchCommit
  <2>1. draft[k] # NoRow => rows[k] # NoRow
    BY <1>1, NullAssumption DEF BatchCommit, Flushable, Inv, LocksHold, Locked
  <2>2. rows'[k] = IF draft[k] # NoRow THEN draft[k] ELSE rows[k]
    BY <1>1 DEF BatchCommit
  <2> QED BY <2>1, <2>2 DEF Inv, DraftsSound
<1>2. ASSUME NEW r \in Request, ResultCommit(r) \/ RetryCommit(r),
             k = req[r].job, rows[k] # NoRow
      PROVE  rows'[k] # NoRow /\ rows'[k].file = rows[k].file
  <2>1. rows[k] \in Row
    BY <1>2 DEF Inv, TypeOK
  <2>2. [rows[k] EXCEPT !.result = TRUE] \in Row /\ [rows[k] EXCEPT !.raptor = "processing"] \in Row
    BY <2>1 DEF Row, RaptorStatus
  <2> QED BY <1>2, <2>1, <2>2, NullAssumption DEF ResultCommit, RetryCommit, Inv, TypeOK, Row
<1>3. ASSUME NEW r \in Request, ResultCommit(r) \/ RetryCommit(r),
             k # req[r].job \/ rows[k] = NoRow
      PROVE  rows'[k] = rows[k]
  BY <1>3 DEF ResultCommit, RetryCommit, Inv, TypeOK
<1> QED BY <1>1, <1>2, <1>3

\* No row ever moves to another file.
LEMMA RowsKeepFiles ==
  ASSUME Inv, [Next]_vars, NEW k \in Job, rows[k] # NoRow, rows'[k] # NoRow
  PROVE  rows'[k].file = rows[k].file
<1>1. ASSUME NEW r \in Request, StartCommit(r) PROVE rows'[k] = rows[k]
  BY <1>1 DEF StartCommit, At, Inv, TypeOK, InsertsFresh
<1>2. ASSUME NEW r \in Request, DeleteCommit(r) PROVE rows'[k] = rows[k]
  BY <1>2 DEF DeleteCommit
<1> QED BY <1>1, <1>2, RowsWritten, UpdatesKeepFiles

\* Every step of the pipeline is a step of the lifecycle or leaves it alone.
LEMMA LifecycleStep == Inv /\ Inv' /\ [Next]_vars => [Lifecycle!Next]_Stage
<1> SUFFICES ASSUME Inv, Inv', [Next]_vars PROVE Lifecycle!Next
  OBVIOUS
<1>1. ASSUME NEW j \in Job
      PROVE  Stage'[j] = Stage[j] \/ <<Stage[j], Stage'[j]>> \in Lifecycle!Moves
  <2>1. Stage[j] = IF rows[j] # NoRow THEN rows[j].status
                   ELSE IF Coming(j) THEN "none" ELSE "gone"
    BY DEF Stage, Coming
  <2>2. Stage'[j] = IF rows'[j] # NoRow THEN rows'[j].status
                    ELSE IF Coming(j)' THEN "none" ELSE "gone"
    BY DEF Stage, Coming
  <2>3. rows[j] # NoRow => rows[j].status \in Active \cup Settled
    BY DEF Inv, TypeOK, Row
  <2> QED BY <2>1, <2>2, <2>3, RowMoves, ComingEnds
        DEF Active, Settled, Lifecycle!Moves, Lifecycle!Settled
<1>2. Stage' \in [Job -> Lifecycle!Stage]
  BY DEF Stage, Inv, TypeOK, Row, Active, Settled, Lifecycle!Stage, Lifecycle!Settled
<1> QED BY <1>1, <1>2 DEF Lifecycle!Next

\* The pipeline implements the lifecycle: whatever the interleaving and the
\* faults, statuses move only along its edges and a deleted job never returns.
THEOREM PipelineImplementsLifecycle == Spec => ImplementsLifecycle
<1>1. Init => Lifecycle!Init
  BY DEF Init, Stage, Lifecycle!Init
<1> QED BY <1>1, InitInv, NextInv, LifecycleStep, PTL DEF Spec, ImplementsLifecycle, Lifecycle!Spec

\* What a batch writes is computed from the row it overwrites: only the batch changes
\* active jobs, and the other handlers only completed ones, so the missing lock
\* on the row in hand does no harm.
THEOREM BatchesLoseNoUpdates == Spec => NoLostUpdates
<1>1. ASSUME Inv, [Next]_vars, NEW j \in Job, draft[j] # NoRow, rows'[j] # rows[j]
      PROVE  rows'[j] \in {draft[j], NoRow}
  <2>1. rows[j] # NoRow => rows[j].status # "completed"
    BY <1>1 DEF Inv, BatchOnActive, Active
  <2>2. CASE BatchCommit
    BY <1>1, <2>2 DEF BatchCommit
  <2>3. ASSUME NEW r \in Request, StartCommit(r) \/ ResultCommit(r) \/ RetryCommit(r)
        PROVE  rows'[j] = rows[j]
    BY <1>1, <2>1, <2>3 DEF StartCommit, ResultCommit, RetryCommit, At, Inv, TypeOK,
      InsertsFresh, HandlersOnCompleted
  <2>4. ASSUME NEW r \in Request, DeleteCommit(r)
        PROVE  rows'[j] = NoRow
    BY <1>1, <2>4 DEF DeleteCommit
  <2> QED BY <1>1, <2>2, <2>3, <2>4, RowsWritten
<1>2. Inv /\ [Next]_vars =>
        [\A j \in Job : draft[j] # NoRow /\ rows'[j] # rows[j] => rows'[j] \in {draft[j], NoRow}]_vars
  BY <1>1
<1> QED BY <1>2, Invariance, PTL DEF Spec, NoLostUpdates

\* A completed job whose RAPTOR the table shows as running.
RaptorShown(j) == Shows(j, {"completed"}) /\ rows[j].raptor = "processing"

\* Once shown, it is shown until the row is deleted, whatever the parser server
\* has long finished and however often anybody asks again: batches take up active
\* jobs only, and no handler writes another RAPTOR status.
THEOREM RaptorShownForGood ==
  Spec => [][\A j \in Job : RaptorShown(j) => rows'[j] = NoRow \/ RaptorShown(j)']_vars
<1>1. ASSUME Inv, [Next]_vars, NEW j \in Job, RaptorShown(j)
      PROVE  rows'[j] = NoRow \/ RaptorShown(j)'
  <2>1. rows[j] \in Row /\ rows[j].status = "completed" /\ rows[j].raptor = "processing"
    BY <1>1 DEF RaptorShown, Shows, Inv, TypeOK
  <2>2. CASE BatchCommit
    <3>1. draft[j] = NoRow
      BY <1>1, <2>1 DEF Inv, BatchOnActive, Active, RaptorShown, Shows
    <3>2. rows'[j] = rows[j]
      BY <2>2, <3>1 DEF BatchCommit
    <3> QED BY <1>1, <3>2 DEF RaptorShown, Shows
  <2>3. ASSUME NEW r \in Request, StartCommit(r) \/ DeleteCommit(r)
        PROVE  rows'[j] = NoRow \/ rows'[j] = rows[j]
    BY <1>1, <2>3 DEF StartCommit, DeleteCommit, At, Inv, TypeOK, RequestsFormed, InsertsFresh,
      RaptorShown, Shows
  <2>4. ASSUME NEW r \in Request, ResultCommit(r) \/ RetryCommit(r), req[r].job = j
        PROVE  RaptorShown(j)'
    <3>1. \/ rows'[j] = [rows[j] EXCEPT !.result = TRUE]
          \/ rows'[j] = [rows[j] EXCEPT !.raptor = "processing"]
      BY <1>1, <2>4 DEF ResultCommit, RetryCommit, RaptorShown, Shows, Inv, TypeOK
    <3>2. rows'[j] \in Row /\ rows'[j].status = "completed" /\ rows'[j].raptor = "processing"
      BY <2>1, <3>1 DEF Row
    <3> QED BY <3>2, NullAssumption DEF RaptorShown, Shows
  <2>5. ASSUME NEW r \in Request, ResultCommit(r) \/ RetryCommit(r), req[r].job # j
        PROVE  rows'[j] = rows[j]
    BY <1>1, <2>5 DEF ResultCommit, RetryCommit, Inv, TypeOK
  <2>6. rows'[j] = rows[j] => RaptorShown(j)'
    BY <1>1 DEF RaptorShown, Shows
  <2> QED BY <1>1, <2>2, <2>3, <2>4, <2>5, <2>6, RowsWritten
<1>2. Inv /\ [Next]_vars
        => [\A j \in Job : RaptorShown(j) => rows'[j] = NoRow \/ RaptorShown(j)']_vars
  BY <1>1
<1> QED BY <1>2, Invariance, PTL DEF Spec

-----------------------------------------------------------------------------
\* The disk

\* An upload has put the bytes into UPLOADS_DIR and not yet the row, and no two
\* uploads share a file; a deletion has found the row, and past its unlink there are
\* no bytes where that says, unless they could not be removed.
HandlersOnDisk ==
  \A r \in Request :
    /\ At(r, "uploaded") =>
         /\ <<uploadDir, req[r].file>> \in disk
         /\ files[req[r].file] = "absent"
         /\ \A q \in Request : At(q, "uploaded") /\ req[q].file = req[r].file => q = r
    /\ req[r].pc \in {"forget", "erase", "cascade"} => files[req[r].file] # "absent"
    /\ Deletes(r) /\ uploadDir = "uploads" /\ "unlink" \notin Faults =>
         StoredPath(req[r].file) \notin disk

\* A step that leaves the disk and the table of files alone.
DiskAlone == files' = files /\ disk' = disk /\ uploadDir' = uploadDir

\* A request that comes to no place where the disk matters, or stays there.
Quiet(r) ==
  \/ req'[r] = req[r]
  \/ req'[r].pc \notin {"uploaded", "forget", "erase", "cascade"}
  \/ req'[r].pc = "forget" /\ files[req'[r].file] # "absent"
  \/ Deletes(r) /\ Deletes(r)' /\ req'[r].file = req[r].file

\* A request that does not leave the stretch from its step on the disk to its commit.
Halfway(r) == req[r].pc \in {"uploaded", "erase", "cascade"}
StaysHalfway(r) == Halfway(r) => Halfway(r)' /\ req'[r].file = req[r].file

\* The steps on the disk, the failures between one and its commit, and the rest.
LEMMA DiskSteps ==
  ASSUME Inv, HandlersOnDisk, [Next]_vars
  PROVE  \/ DiskAlone /\ \A r \in Request : Quiet(r) /\ StaysHalfway(r)
         \/ Restart
         \/ \E r \in Request : CommitFails(r) \/ DeadlockVictim(r)
         \/ \E r \in Request, f \in File : UploadWrite(r, f)
         \/ \E r \in Request : UploadCommit(r) \/ DeleteUnlink(r) \/ DeleteCommit(r)
<1> USE DEF DiskAlone, Quiet, StaysHalfway, Halfway, Deletes, dbVars, diskVars, serverVars
<1>1. CASE UNCHANGED vars
  BY <1>1 DEF vars
<1>2. CASE BatchStep \/ \E j \in Job : ParserStep(j) \/ Ages(j)
  BY <1>2 DEF BatchStep, BatchSelect, SkipCycle, SyncOneJob, BatchRead, BatchDownload,
    BatchDownloadFails, BatchCommit, BatchAbort, ParserStep, ParserPicksUp, ParserFinishes,
    ParserRaptor, ParserForgets, Ages
<1>3. ASSUME NEW r \in Request,
             \/ \E j \in Job : ParserAccepts(r, j) \/ ParserAcceptsUnheard(r, j)
             \/ ParserRefuses(r) \/ StartCommit(r) \/ StartForeignKeyFails(r)
             \/ ResultDownload(r) \/ ResultDownloadFails(r) \/ ResultCommit(r)
             \/ RetryCall(r) \/ RetryCallFails(r) \/ RetryCommit(r)
      PROVE  DiskAlone /\ \A q \in Request : Quiet(q) /\ StaysHalfway(q)
  <2>1. DiskAlone /\ ~Halfway(r) /\ req'[r].pc \notin {"uploaded", "forget", "erase", "cascade"}
    BY <1>3 DEF At, Goto, Finish, Idle, Inv, TypeOK,
      ParserAccepts, ParserAcceptsUnheard, ParserRefuses, StartCommit, StartForeignKeyFails,
      ResultDownload, ResultDownloadFails, ResultCommit, RetryCall, RetryCallFails, RetryCommit
  <2>2. \A q \in Request \ {r} : req'[q] = req[q]
    BY <1>3 DEF Goto, Finish, Inv, TypeOK,
      ParserAccepts, ParserAcceptsUnheard, ParserRefuses, StartCommit, StartForeignKeyFails,
      ResultDownload, ResultDownloadFails, ResultCommit, RetryCall, RetryCallFails, RetryCommit
  <2> QED BY <2>1, <2>2
<1>4. ASSUME NEW r \in Request, DeleteFileRow(r) \/ \E j \in Job : DeleteRow(r, j)
      PROVE  DiskAlone /\ \A q \in Request : Quiet(q) /\ StaysHalfway(q)
  <2>1. DiskAlone /\ Deletes(r) /\ Deletes(r)' /\ req'[r].file = req[r].file
    BY <1>4 DEF At, Delete, Inv, TypeOK, DeleteRow, DeleteFileRow
  <2>2. \A q \in Request \ {r} : req'[q] = req[q]
    BY <1>4 DEF Delete, Inv, TypeOK, DeleteRow, DeleteFileRow
  <2> QED BY <2>1, <2>2
<1>5. ASSUME NEW r \in Request, NEW j \in Job, DeleteJob(r, j)
      PROVE  DiskAlone /\ \A q \in Request : Quiet(q) /\ StaysHalfway(q)
  <2>1. /\ DiskAlone /\ ~Halfway(r)
        /\ req'[r].pc = "forget" /\ files[req'[r].file] # "absent"
    BY <1>5 DEF At, Delete, Inv, TypeOK, DeleteJob, HandlersOnDisk
  <2>2. \A q \in Request \ {r} : req'[q] = req[q]
    BY <1>5 DEF Delete, Inv, TypeOK, DeleteJob
  <2> QED BY <2>1, <2>2
<1>6. ASSUME NEW r \in Request, NEW f \in File,
             \/ StartParse(r, f) \/ DeleteRead(r, f)
             \/ \E j \in Job : ResultRead(r, f, j) \/ RetryRead(r, f, j)
      PROVE  DiskAlone /\ \A q \in Request : Quiet(q) /\ StaysHalfway(q)
  <2>1. /\ DiskAlone /\ ~Halfway(r)
        /\ \/ req'[r].pc \notin {"uploaded", "forget", "erase", "cascade"}
           \/ req'[r].pc = "forget" /\ files[req'[r].file] # "absent"
    BY <1>6 DEF At, Goto, Begins, Inv, TypeOK, StartParse, DeleteRead, ResultRead, RetryRead
  <2>2. \A q \in Request \ {r} : req'[q] = req[q]
    BY <1>6 DEF Goto, Inv, TypeOK, StartParse, DeleteRead, ResultRead, RetryRead
  <2> QED BY <2>1, <2>2
<1> QED BY <1>1, <1>2, <1>3, <1>4, <1>5, <1>6 DEF Next, Continues, Arrives

\* What those steps do.
LEMMA UploadWriteDoes ==
  ASSUME Inv, NEW r \in Request, NEW f \in File, UploadWrite(r, f)
  PROVE  /\ req[r].pc = "idle" /\ files[f] = "absent" /\ BytesOf(f) = {}
         /\ disk' = disk \cup {<<uploadDir, f>>} /\ files' = files /\ uploadDir' = uploadDir
         /\ req'[r].pc = "uploaded" /\ req'[r].file = f
         /\ \A q \in Request \ {r} : req'[q] = req[q]
BY DEF UploadWrite, Begins, At, Goto, Inv, TypeOK, dbVars, serverVars

LEMMA UploadCommitDoes ==
  ASSUME Inv, NEW r \in Request, UploadCommit(r)
  PROVE  /\ req[r].pc = "uploaded" /\ req[r].file \in File
         /\ disk' = disk /\ files' = [files EXCEPT ![req[r].file] = "present"] /\ uploadDir' = uploadDir
         /\ req'[r].pc = "idle"
         /\ \A q \in Request \ {r} : req'[q] = req[q]
BY DEF UploadCommit, At, Finish, Idle, Inv, TypeOK, RequestsFormed, diskVars, serverVars

LEMMA DeleteUnlinkDoes ==
  ASSUME Inv, NEW r \in Request, DeleteUnlink(r)
  PROVE  /\ req[r].pc = "forget" /\ req[r].file \in File
         /\ \/ disk' = disk \ {StoredPath(req[r].file)}
            \/ (uploadDir # "uploads" \/ "unlink" \in Faults) /\ disk' = disk
         /\ files' = files /\ uploadDir' = uploadDir
         /\ req'[r].pc = "erase" /\ req'[r].file = req[r].file
         /\ \A q \in Request \ {r} : req'[q] = req[q]
BY DEF DeleteUnlink, DeleteMarks, Delete, At, Inv, TypeOK, RequestsFormed, dbVars, serverVars

LEMMA DeleteCommitDoes ==
  ASSUME Inv, NEW r \in Request, DeleteCommit(r)
  PROVE  /\ req[r].pc = "cascade" /\ req[r].file \in File
         /\ disk' = disk /\ files' = [files EXCEPT ![req[r].file] = "deleted"] /\ uploadDir' = uploadDir
         /\ req'[r].pc = "idle"
         /\ \A q \in Request \ {r} : req'[q] = req[q]
BY DEF DeleteCommit, At, Finish, Idle, Inv, TypeOK, RequestsFormed, diskVars, serverVars

LEMMA RequestFails ==
  ASSUME Inv, NEW r \in Request, CommitFails(r) \/ DeadlockVictim(r)
  PROVE  /\ DiskAlone
         /\ req'[r].pc = "idle"
         /\ \A q \in Request \ {r} : req'[q] = req[q]
BY DEF CommitFails, DeadlockVictim, DiskAlone, Finish, Idle, Inv, TypeOK, dbVars, diskVars, serverVars

LEMMA QuietKeepsDisk ==
  ASSUME HandlersOnDisk, DiskAlone, \A r \in Request : Quiet(r)
  PROVE  HandlersOnDisk'
<1> SUFFICES ASSUME NEW r \in Request
             PROVE  /\ At(r, "uploaded")' =>
                         /\ <<uploadDir, req[r].file>>' \in disk'
                         /\ files'[req'[r].file] = "absent"
                         /\ \A q \in Request : At(q, "uploaded")' /\ req'[q].file = req'[r].file => q = r
                    /\ req'[r].pc \in {"forget", "erase", "cascade"} => files'[req'[r].file] # "absent"
                    /\ Deletes(r)' /\ uploadDir' = "uploads" /\ "unlink" \notin Faults =>
                         StoredPath(req'[r].file) \notin disk'
  BY DEF HandlersOnDisk, StoredPath
<1>1. \A q \in Request : At(q, "uploaded")' => req'[q] = req[q]
  BY DEF At, Quiet, Deletes
<1>2. Deletes(r)' => Deletes(r) /\ req'[r].file = req[r].file
  BY DEF Deletes, Quiet
<1>3. req'[r].pc \in {"forget", "erase", "cascade"} => files[req'[r].file] # "absent"
  BY DEF Quiet, Deletes, HandlersOnDisk
<1> QED BY <1>1, <1>2, <1>3 DEF HandlersOnDisk, At, DiskAlone

LEMMA HandlersOnDiskKept ==
  ASSUME Inv, HandlersOnDisk, [Next]_vars PROVE HandlersOnDisk'
<1> USE DEF HandlersOnDisk, At, Deletes, StoredPath
<1>1. CASE DiskAlone /\ \A r \in Request : Quiet(r)
  BY <1>1, QuietKeepsDisk
<1>2. CASE Restart
  BY <1>2 DEF Restart, Idle
<1>3. ASSUME NEW r \in Request, CommitFails(r) \/ DeadlockVictim(r) PROVE HandlersOnDisk'
  BY <1>3, RequestFails, QuietKeepsDisk DEF Quiet
<1>4. ASSUME NEW r \in Request, NEW f \in File, UploadWrite(r, f) PROVE HandlersOnDisk'
  <2>0. /\ req[r].pc = "idle" /\ files[f] = "absent" /\ BytesOf(f) = {}
        /\ disk' = disk \cup {<<uploadDir, f>>} /\ files' = files /\ uploadDir' = uploadDir
        /\ req'[r].pc = "uploaded" /\ req'[r].file = f
        /\ \A q \in Request \ {r} : req'[q] = req[q]
    BY <1>4, UploadWriteDoes
  <2>1. \A q \in Request : At(q, "uploaded") => req[q].file # f
    <3>1. <<uploadDir, f>> \notin disk
      BY <2>0 DEF BytesOf
    <3> QED BY <3>1
  <2>2. \A q \in Request : req[q].pc \in {"forget", "erase", "cascade"} => req[q].file # f
    BY <2>0
  <2> QED BY <2>0, <2>1, <2>2
<1>5. ASSUME NEW r \in Request, UploadCommit(r) PROVE HandlersOnDisk'
  <2>1. \A q \in Request \ {r} : At(q, "uploaded") => req[q].file # req[r].file
    BY <1>5, UploadCommitDoes
  <2>2. \A q \in Request : req[q].pc \in {"forget", "erase", "cascade"} =>
          req[q].file \in File
    BY DEF Inv, RequestsFormed
  <2> QED BY <1>5, <2>1, <2>2, UploadCommitDoes DEF Inv, TypeOK
<1>6. ASSUME NEW r \in Request, DeleteUnlink(r) PROVE HandlersOnDisk'
  <2>1. \A q \in Request : At(q, "uploaded") => req[q].file # req[r].file
    BY <1>6, DeleteUnlinkDoes
  <2> QED BY <1>6, <2>1, DeleteUnlinkDoes
<1>7. ASSUME NEW r \in Request, DeleteCommit(r) PROVE HandlersOnDisk'
  <2>1. \A q \in Request : At(q, "uploaded") => req[q].file # req[r].file
    BY <1>7, DeleteCommitDoes
  <2>2. \A q \in Request : req[q].pc \in {"forget", "erase", "cascade"} =>
          req[q].file \in File
    BY DEF Inv, RequestsFormed
  <2> QED BY <1>7, <2>1, <2>2, DeleteCommitDoes DEF Inv, TypeOK
<1> QED BY <1>1, <1>2, <1>3, <1>4, <1>5, <1>6, <1>7, DiskSteps

\* What parts bytes and row of a file, as in PartingsExplained.
PartingCause(f) ==
  \/ Restart
  \/ \E r \in Request : req[r].file = f /\
       \/ CommitFails(r) \/ DeadlockVictim(r)
       \/ UploadCommit(r) /\ uploadDir # "uploads"
       \/ /\ DeleteCommit(r)
          /\ uploadDir # "uploads" \/ BytesOf(f) \ {StoredPath(f)} # {} \/ "unlink" \in Faults

LEMMA NotParted ==
  ASSUME NEW f \in File, files'[f] = files[f], BytesOf(f)' = BytesOf(f),
         \A r \in Request : req[r].file = f => StaysHalfway(r), ~Parted(f)
  PROVE  ~Parted(f)'
<1>1. Agree(f)' <=> Agree(f)
  <2>1. StoredPath(f) \in disk <=> StoredPath(f) \in BytesOf(f)
    BY DEF BytesOf, StoredPath
  <2>2. StoredPath(f) \in disk' <=> StoredPath(f) \in BytesOf(f)'
    BY DEF BytesOf, StoredPath
  <2> QED BY <2>1, <2>2 DEF Agree
<1>2. Between(f) => Between(f)'
  BY DEF Between, StaysHalfway, Halfway
<1> QED BY <1>1, <1>2 DEF Parted

LEMMA PartingsNeedCause ==
  ASSUME Inv, HandlersOnDisk, [Next]_vars, NEW f \in File, ~Parted(f), Parted(f)'
  PROVE  PartingCause(f)
<1> USE DEF StaysHalfway, Halfway
<1>1. CASE DiskAlone /\ \A r \in Request : Quiet(r) /\ StaysHalfway(r)
  BY <1>1, NotParted DEF DiskAlone, BytesOf
<1>2. CASE Restart
  BY <1>2 DEF PartingCause
<1>3. ASSUME NEW r \in Request, CommitFails(r) \/ DeadlockVictim(r) PROVE req[r].file = f
  BY <1>3, RequestFails, NotParted DEF DiskAlone, BytesOf
<1>4. ASSUME NEW r \in Request, NEW g \in File, UploadWrite(r, g) PROVE FALSE
  <2>1. CASE g = f
    BY <1>4, <2>1, UploadWriteDoes DEF Parted, Between
  <2>2. CASE g # f
    <3>1. BytesOf(f)' = BytesOf(f)
      BY <1>4, <2>2, UploadWriteDoes DEF BytesOf
    <3> QED BY <1>4, <3>1, UploadWriteDoes, NotParted
  <2> QED BY <2>1, <2>2
<1>5. ASSUME NEW r \in Request, UploadCommit(r) PROVE req[r].file = f /\ uploadDir # "uploads"
  <2>1. BytesOf(f)' = BytesOf(f)
    BY <1>5, UploadCommitDoes DEF BytesOf
  <2>2. CASE req[r].file # f
    BY <1>5, <2>1, <2>2, UploadCommitDoes, NotParted DEF Inv, TypeOK
  <2>3. CASE req[r].file = f
    <3>1. files'[f] = "present" /\ disk' = disk /\ <<uploadDir, f>> \in disk
      BY <1>5, <2>3, UploadCommitDoes DEF HandlersOnDisk, At, Inv, TypeOK
    <3> QED BY <2>3, <3>1 DEF Parted, Agree, StoredPath
  <2> QED BY <2>2, <2>3
<1>6. ASSUME NEW r \in Request, DeleteUnlink(r) PROVE FALSE
  <2>1. CASE req[r].file = f
    BY <1>6, <2>1, DeleteUnlinkDoes DEF Parted, Between
  <2>2. CASE req[r].file # f
    <3>1. BytesOf(f)' = BytesOf(f)
      BY <1>6, <2>2, DeleteUnlinkDoes DEF BytesOf, StoredPath
    <3> QED BY <1>6, <3>1, DeleteUnlinkDoes, NotParted
  <2> QED BY <2>1, <2>2
<1>7. ASSUME NEW r \in Request, DeleteCommit(r)
      PROVE  /\ req[r].file = f
             /\ uploadDir # "uploads" \/ BytesOf(f) \ {StoredPath(f)} # {} \/ "unlink" \in Faults
  <2>1. BytesOf(f)' = BytesOf(f)
    BY <1>7, DeleteCommitDoes DEF BytesOf
  <2>2. CASE req[r].file # f
    BY <1>7, <2>1, <2>2, DeleteCommitDoes, NotParted DEF Inv, TypeOK
  <2>3. CASE req[r].file = f
    <3>1. files'[f] = "deleted"
      BY <1>7, <2>3, DeleteCommitDoes DEF Inv, TypeOK
    <3>2. BytesOf(f) # {}
      BY <2>1, <3>1 DEF Parted, Agree
    <3>3. uploadDir = "uploads" /\ "unlink" \notin Faults => StoredPath(f) \notin BytesOf(f)
      BY <1>7, <2>3, DeleteCommitDoes DEF HandlersOnDisk, Deletes, BytesOf
    <3> QED BY <2>3, <3>2, <3>3
  <2> QED BY <2>2, <2>3
<1> QED BY <1>1, <1>2, <1>3, <1>4, <1>5, <1>6, <1>7, DiskSteps DEF PartingCause

\* Bytes and row of a file part for the causes PartingsExplained lists and for no
\* other: for any number of concurrent requests, also several for one file, any
\* faults, restarts and UPLOAD_DIRs, and whatever the parser server does.
THEOREM PartingsHaveCauses == Spec => PartingsExplained
<1>1. Init => HandlersOnDisk
  BY DEF Init, HandlersOnDisk, At, Deletes, Idle
<1>2. Inv /\ HandlersOnDisk /\ [Next]_vars => HandlersOnDisk'
  BY HandlersOnDiskKept
<1>3. Inv /\ HandlersOnDisk /\ [Next]_vars =>
        [\A f \in File : ~Parted(f) /\ Parted(f)' =>
           \/ Restart
           \/ \E r \in Request : req[r].file = f /\
                \/ CommitFails(r) \/ DeadlockVictim(r)
                \/ UploadCommit(r) /\ uploadDir # "uploads"
                \/ /\ DeleteCommit(r)
                   /\ uploadDir # "uploads" \/ BytesOf(f) \ {StoredPath(f)} # {} \/ "unlink" \in Faults]_vars
  BY PartingsNeedCause DEF PartingCause
<1> QED BY <1>1, <1>2, <1>3, Invariance, PTL DEF Spec, PartingsExplained

-----------------------------------------------------------------------------
\* Progress

\* While the batch asks, an answer is missing: the last one ends the phase.
AskPending == phase = "ask" => \E j \in batch : answer[j] = "none"

\* However many jobs there may be, only finitely many have a row, and so the
\* work a batch or a deletion takes up is finite.
StoredJobs == {j \in Job : rows[j] # NoRow}
FiniteWork ==
  /\ IsFiniteSet(StoredJobs)
  /\ IsFiniteSet(batch)
  /\ \A r \in Request : IsFiniteSet(req[r].todo) /\ IsFiniteSet(req[r].done)

\* A request and the world outside leave the batch alone.
LEMMA OthersLeaveBatch ==
  ASSUME \/ \E r \in Request : Continues(r) \/ Arrives(r)
         \/ \E j \in Job : ParserStep(j) \/ Ages(j)
         \/ UNCHANGED vars
  PROVE  UNCHANGED syncVars
<1>1. ASSUME NEW r \in Request, Continues(r) PROVE UNCHANGED syncVars
  BY <1>1 DEF Continues, UploadCommit, ParserAccepts, ParserAcceptsUnheard, ParserRefuses,
    StartCommit, StartForeignKeyFails, ResultDownload, ResultDownloadFails, ResultCommit,
    RetryCall, RetryCallFails, RetryCommit, DeleteJob, DeleteUnlink, DeleteRow, DeleteFileRow,
    DeleteCommit, DeadlockVictim, CommitFails
<1>2. ASSUME NEW r \in Request, Arrives(r) PROVE UNCHANGED syncVars
  BY <1>2 DEF Arrives, UploadWrite, StartParse, DeleteRead, ResultRead, RetryRead
<1>3. ASSUME NEW j \in Job, ParserStep(j) \/ Ages(j) PROVE UNCHANGED syncVars
  BY <1>3 DEF ParserStep, ParserPicksUp, ParserFinishes, ParserRaptor, ParserForgets, Ages
<1>4. CASE UNCHANGED vars
  BY <1>4 DEF vars
<1> QED BY <1>1, <1>2, <1>3, <1>4

\* What the sync task does to its batch, one line per kind of step.
LEMMA BatchMoves ==
  ASSUME Inv, BatchStep
  PROVE  \/ BatchSelect
         \/ SkipCycle /\ UNCHANGED syncVars
         \/ \E j \in batch : SyncOneJob(j)
         \/ \E j \in batch :
              phase = "apply" /\ phase' \in {"apply", "fetch"} /\ batch' = batch \ {j}
         \/ phase = "fetch" /\ phase' = "apply" /\ UNCHANGED batch
         \/ phase = "apply" /\ phase' = "sleep" /\ batch' = {}
<1>1. ASSUME NEW j \in Job, SyncOneJob(j) PROVE j \in batch
  BY <1>1 DEF SyncOneJob
<1>2. ASSUME NEW j \in Job, BatchRead(j)
      PROVE  j \in batch /\ phase = "apply" /\ phase' \in {"apply", "fetch"} /\ batch' = batch \ {j}
  BY <1>2 DEF BatchRead
<1>3. CASE BatchDownload \/ BatchDownloadFails
  BY <1>3 DEF BatchDownload, BatchDownloadFails
<1>4. CASE BatchCommit \/ BatchAbort
  BY <1>4 DEF BatchCommit, BatchAbort, SyncIdle
<1>5. CASE SkipCycle
  BY <1>5 DEF SkipCycle
<1> QED BY <1>1, <1>2, <1>3, <1>4, <1>5 DEF BatchStep

\* A handler's step ends its request or takes it to a place with less to do.
LEMMA ContinuesMoves ==
  ASSUME Inv, NEW r \in Request, Continues(r)
  PROVE  /\ ~At(r, "idle")
         /\ \A q \in Request \ {r} : req'[q] = req[q]
         /\ \/ req'[r] = Idle
            \/ /\ req'[r].file = req[r].file
               /\ \/ /\ <<req[r].pc, req'[r].pc>> \in
                          {<<"starting", "insert">>, <<"download", "store">>, <<"recall", "mark">>}
                     /\ req'[r].pc # "insert" => req'[r].job = req[r].job
                     /\ req'[r].todo = {} /\ req'[r].done = {}
                  \/ /\ <<req[r].pc, req'[r].pc>> = <<"forget", "erase">>
                     /\ req'[r].todo \in {req[r].done, JobsOf(req[r].file)} /\ req'[r].done = {}
                  \/ /\ <<req[r].pc, req'[r].pc>> = <<"erase", "cascade">>
                     /\ req'[r].todo = {} /\ req'[r].done = req[r].done
                  \/ /\ req[r].pc \in {"forget", "erase"} /\ req'[r].pc = req[r].pc
                     /\ \E j \in req[r].todo :
                          req'[r].todo = req[r].todo \ {j} /\ req'[r].done = req[r].done \cup {j}
                  \/ /\ req[r].pc = "cascade" /\ req'[r].pc = "cascade" /\ rows' = rows
                     /\ \E j \in JobsOf(req[r].file) \ req[r].done :
                          req'[r].todo = req[r].todo \ {j} /\ req'[r].done = req[r].done \cup {j}
<1> USE DEF Inv, TypeOK, Goto, Delete, Finish, Idle, At
<1>1. CASE UploadCommit(r) \/ ParserRefuses(r) \/ StartCommit(r) \/ StartForeignKeyFails(r)
           \/ ResultDownloadFails(r) \/ ResultCommit(r) \/ RetryCallFails(r) \/ RetryCommit(r)
           \/ DeleteCommit(r) \/ CommitFails(r) \/ \E j \in Job : ParserAcceptsUnheard(r, j)
  BY <1>1 DEF UploadCommit, ParserRefuses, StartCommit, StartForeignKeyFails, ResultDownloadFails,
    ResultCommit, RetryCallFails, RetryCommit, DeleteCommit, CommitFails, ParserAcceptsUnheard
<1>2. CASE \E j \in Job : ParserAccepts(r, j)
  BY <1>2 DEF ParserAccepts
<1>3. CASE ResultDownload(r) \/ RetryCall(r)
  BY <1>3 DEF ResultDownload, RetryCall
<1>4. CASE DeleteUnlink(r)
  BY <1>4 DEF DeleteUnlink, DeleteMarks
<1>5. CASE \E j \in Job : DeleteJob(r, j)
  BY <1>5 DEF DeleteJob
<1>6. ASSUME NEW j \in Job, DeleteRow(r, j), At(r, "erase")
      PROVE  /\ \A q \in Request \ {r} : req'[q] = req[q]
             /\ j \in req[r].todo /\ req'[r].pc = "erase" /\ req'[r].file = req[r].file
             /\ req'[r].todo = req[r].todo \ {j} /\ req'[r].done = req[r].done \cup {j}
  BY <1>6 DEF DeleteRow, Wanted
<1>7. ASSUME NEW j \in Job, DeleteRow(r, j), At(r, "cascade")
      PROVE  /\ \A q \in Request \ {r} : req'[q] = req[q]
             /\ j \in JobsOf(req[r].file) \ req[r].done /\ rows' = rows
             /\ req'[r].pc = "cascade" /\ req'[r].file = req[r].file
             /\ req'[r].todo = req[r].todo \ {j} /\ req'[r].done = req[r].done \cup {j}
  BY <1>7 DEF DeleteRow, Wanted, dbVars
<1>8. CASE \E j \in Job : DeleteRow(r, j)
  BY <1>6, <1>7, <1>8 DEF DeleteRow, Deletes
<1>9. CASE DeleteFileRow(r)
  BY <1>9 DEF DeleteFileRow
<1>10. CASE DeadlockVictim(r)
  BY <1>10 DEF DeadlockVictim, Deletes
<1> QED BY <1>1, <1>2, <1>3, <1>4, <1>5, <1>8, <1>9, <1>10 DEF Continues

\* A request begins in an idle place, with jobs to forget that have rows.
LEMMA ArrivesMoves ==
  ASSUME Inv, NEW r \in Request, Arrives(r)
  PROVE  /\ At(r, "idle")
         /\ \A q \in Request \ {r} : req'[q] = req[q]
         /\ req'[r].todo \subseteq JobsOf(req'[r].file) /\ req'[r].done = {}
         /\ req'[r].pc \notin {"insert", "store", "mark", "erase", "cascade"}
         /\ req'[r].pc \in {"download", "recall"} => req'[r].job \in JobsOf(req'[r].file)
BY DEF Inv, TypeOK, Goto, At, Begins, Arrives, UploadWrite, StartParse, DeleteRead, ResultRead,
  RetryRead, IsLatest

\* Nobody else touches a request, except the crash that ends it.
LEMMA OthersLeaveRequests ==
  ASSUME \/ BatchStep
         \/ \E j \in Job : ParserStep(j) \/ Ages(j)
         \/ UNCHANGED vars
  PROVE  UNCHANGED req
BY DEF BatchStep, BatchSelect, SkipCycle, SyncOneJob, BatchRead, BatchDownload,
  BatchDownloadFails, BatchCommit, BatchAbort, ParserStep, ParserPicksUp, ParserFinishes,
  ParserRaptor, ParserForgets, Ages, vars

LEMMA AskPendingKept ==
  ASSUME Inv, AskPending, [Next]_vars PROVE AskPending'
<1>1. CASE UNCHANGED <<phase, batch, answer>>
  BY <1>1 DEF AskPending
<1>2. CASE BatchSelect
  <2>1. \A j \in batch' : answer'[j] = "none"
    BY <1>2 DEF BatchSelect, ActiveRows, Inv, BatchFormed
  <2>2. batch' # {}
    BY <1>2 DEF BatchSelect
  <2> QED BY <2>1, <2>2 DEF AskPending
<1>3. ASSUME NEW j \in Job, SyncOneJob(j) PROVE AskPending'
  <2> SUFFICES ASSUME phase' = "ask" PROVE \E k \in batch' : answer'[k] = "none"
    BY DEF AskPending
  <2>1. PICK k \in batch \ {j} : answer[k] = "none"
    BY <1>3 DEF SyncOneJob
  <2>2. PICK a \in Answer : answer' = [answer EXCEPT ![j] = a]
    BY <1>3 DEF SyncOneJob
  <2>3. k \in batch' /\ answer'[k] = answer[k]
    BY <1>3, <2>1, <2>2 DEF SyncOneJob, Inv, TypeOK
  <2> QED BY <2>1, <2>3
<1>4. CASE BatchStep
  BY <1>1, <1>2, <1>3, <1>4, BatchMoves DEF AskPending, syncVars, Inv, TypeOK
<1>5. CASE Restart
  BY <1>5 DEF Restart, SyncIdle, AskPending
<1> QED BY <1>1, <1>4, <1>5, OthersLeaveBatch DEF Next, syncVars

\* A step adds at most one row, and takes up no more work than there are rows.
LEMMA FiniteWorkKept ==
  ASSUME Inv, FiniteWork, [Next]_vars PROVE FiniteWork'
<1>1. PICK j : StoredJobs' \subseteq StoredJobs \cup {j}
  <2>1. CASE rows' = rows
    BY <2>1 DEF StoredJobs
  <2>2. CASE BatchCommit
    BY <2>2, NullAssumption DEF BatchCommit, Flushable, Inv, LocksHold, Locked, StoredJobs
  <2>3. ASSUME NEW r \in Request, StartCommit(r) \/ ResultCommit(r) \/ RetryCommit(r)
        PROVE  StoredJobs' \subseteq StoredJobs \cup {req[r].job}
    BY <2>3 DEF StartCommit, ResultCommit, RetryCommit, Inv, TypeOK, StoredJobs
  <2>4. ASSUME NEW r \in Request, DeleteCommit(r) PROVE StoredJobs' \subseteq StoredJobs
    BY <2>4 DEF DeleteCommit, Inv, TypeOK, StoredJobs
  <2> QED BY <2>1, <2>2, <2>3, <2>4, RowsWritten
<1>2. IsFiniteSet(StoredJobs')
  <2>1. IsFiniteSet(StoredJobs \cup {j})
    BY FS_AddElement DEF FiniteWork
  <2> QED BY <1>1, <2>1, FS_Subset
<1>3. IsFiniteSet(batch')
  <2>1. CASE BatchSelect
    <3>1. batch' \subseteq StoredJobs
      BY <2>1 DEF BatchSelect, ActiveRows, StoredJobs
    <3> QED BY <3>1, FS_Subset DEF FiniteWork
  <2>2. CASE batch' \subseteq batch
    BY <2>2, FS_Subset DEF FiniteWork
  <2>3. CASE BatchStep
    BY <2>1, <2>2, <2>3, BatchMoves DEF SyncOneJob, syncVars
  <2>4. CASE Restart
    BY <2>2, <2>4 DEF Restart, SyncIdle
  <2> QED BY <2>2, <2>3, <2>4, OthersLeaveBatch DEF Next, syncVars
<1>4. ASSUME NEW r \in Request PROVE IsFiniteSet(req'[r].todo) /\ IsFiniteSet(req'[r].done)
  <2>1. IsFiniteSet({}) /\ IsFiniteSet(req[r].todo) /\ IsFiniteSet(req[r].done)
    BY FS_EmptySet DEF FiniteWork
  <2>2. \A f : IsFiniteSet(JobsOf(f))
    <3>1. \A f : JobsOf(f) \subseteq StoredJobs
      BY DEF JobsOf, StoredJobs
    <3> QED BY <3>1, FS_Subset DEF FiniteWork
  <2>3. CASE req'[r] = req[r]
    BY <2>1, <2>3
  <2>4. CASE Continues(r)
    <3>1. \A i : IsFiniteSet(req[r].done \cup {i})
      BY <2>1, FS_AddElement
    <3>2. \A i : IsFiniteSet(req[r].todo \ {i})
      BY <2>1, FS_Subset
    <3>3. ASSUME NEW i, req'[r].todo = req[r].todo \ {i}, req'[r].done = req[r].done \cup {i}
          PROVE  IsFiniteSet(req'[r].todo) /\ IsFiniteSet(req'[r].done)
      BY <3>1, <3>2, <3>3
    <3>4. CASE /\ req'[r].todo \in {{}, req[r].done, JobsOf(req[r].file)}
               /\ req'[r].done \in {{}, req[r].done}
      BY <2>1, <2>2, <3>4
    <3>5. CASE req'[r] = Idle
      BY <3>4, <3>5 DEF Idle
    <3> QED BY <2>4, <3>3, <3>4, <3>5, ContinuesMoves
  <2>5. CASE Arrives(r)
    <3>1. req'[r].todo \subseteq JobsOf(req'[r].file) /\ req'[r].done = {}
      BY <2>5, ArrivesMoves
    <3> QED BY <2>1, <2>2, <3>1, FS_Subset
  <2>6. CASE Restart
    BY <2>1, <2>6 DEF Restart, Idle
  <2>7. ASSUME NEW q \in Request, q # r, Continues(q) \/ Arrives(q) PROVE req'[r] = req[r]
    BY <2>7, ContinuesMoves, ArrivesMoves
  <2> QED BY <2>3, <2>4, <2>5, <2>6, <2>7, OthersLeaveRequests DEF Next
<1> QED BY <1>2, <1>3, <1>4 DEF FiniteWork

\* The work left is a number, and the measures fall.
LEMMA BatchShrinks ==
  ASSUME Inv, FiniteWork, BatchStep, phase # "sleep"
  PROVE  BatchLeft' < BatchLeft
<1> DEFINE n == Cardinality(batch)
<1>1. n \in Nat /\ IsFiniteSet(batch)
  BY FS_CardinalityType DEF FiniteWork
<1>2. ASSUME NEW j \in batch, phase = "apply", phase' \in {"apply", "fetch"}, batch' = batch \ {j}
      PROVE  BatchLeft' < BatchLeft
  <2>1. Cardinality(batch') = n - 1
    BY <1>1, <1>2, FS_RemoveElement
  <2>2. BatchLeft = 2 * n + 1 /\ BatchLeft' \in {2 * (n - 1) + 1, 2 * (n - 1) + 2}
    BY <1>2, <2>1 DEF BatchLeft
  <2> QED BY <1>1, <2>2
<1>3. ASSUME NEW j \in batch, SyncOneJob(j) PROVE BatchLeft' < BatchLeft
  <2> DEFINE m == Cardinality(Unanswered)
  <2>1. phase = "ask" /\ j \in Unanswered /\ batch' = batch
    BY <1>3 DEF SyncOneJob, Unanswered
  <2>2. Unanswered' = Unanswered \ {j}
    <3>1. PICK a \in Answer \ {"none"} : answer' = [answer EXCEPT ![j] = a]
      BY <1>3 DEF SyncOneJob
    <3> QED BY <2>1, <3>1 DEF Unanswered, Inv, TypeOK
  <2>3. IsFiniteSet(Unanswered)
    BY <1>1, FS_Subset DEF Unanswered
  <2>4. m \in Nat /\ Cardinality(Unanswered') = m - 1
    BY <2>1, <2>2, <2>3, FS_RemoveElement, FS_CardinalityType
  <2>5. BatchLeft = 2 * n + m + 2 /\ BatchLeft' \in {2 * n + 1, 2 * n + (m - 1) + 2}
    BY <1>3, <2>1, <2>4 DEF BatchLeft, SyncOneJob
  <2> QED BY <1>1, <2>4, <2>5
<1>4. CASE phase = "fetch" /\ phase' = "apply" /\ UNCHANGED batch
  BY <1>1, <1>4 DEF BatchLeft
<1>5. CASE phase = "apply" /\ phase' = "sleep"
  BY <1>1, <1>5 DEF BatchLeft
<1>6. ~BatchSelect /\ ~SkipCycle
  BY DEF BatchSelect, SkipCycle
<1> QED BY <1>2, <1>3, <1>4, <1>5, <1>6, BatchMoves

\* The jobs a request still has to deal with are finitely many.
LEMMA JobsLeftFinite ==
  ASSUME FiniteWork, NEW r \in Request
  PROVE  IsFiniteSet(JobsLeft(r)) /\ Cardinality(JobsLeft(r)) \in Nat
<1>1. JobsOf(req[r].file) \ req[r].done \subseteq StoredJobs
  BY DEF JobsOf, StoredJobs
<1>2. IsFiniteSet(JobsLeft(r))
  BY <1>1, FS_Subset DEF FiniteWork, JobsLeft
<1> QED BY <1>2, FS_CardinalityType

LEMMA RequestShrinks ==
  ASSUME Inv, FiniteWork, NEW r \in Request, Continues(r)
  PROVE  Advances(r)
<1>1. CASE req'[r] = Idle
  <2>1. StagesLeft(r)' = 0
    BY <1>1 DEF StagesLeft, Idle, At
  <2>2. StagesLeft(r) \in {1, 2, 3}
    BY ContinuesMoves DEF StagesLeft, At, Inv, TypeOK, RequestState
  <2> QED BY <2>1, <2>2 DEF Advances
<1>2. CASE <<req[r].pc, req'[r].pc>> \in
             {<<"starting", "insert">>, <<"download", "store">>, <<"recall", "mark">>,
              <<"forget", "erase">>, <<"erase", "cascade">>}
  BY <1>2 DEF StagesLeft, At, Advances
<1>3. ASSUME req'[r].pc = req[r].pc, req[r].pc \in {"forget", "erase", "cascade"},
             NEW j \in JobsLeft(r), JobsLeft(r)' = JobsLeft(r) \ {j}
      PROVE  Advances(r)
  <2>1. Cardinality(JobsLeft(r))' = Cardinality(JobsLeft(r)) - 1
    BY <1>3, JobsLeftFinite, FS_RemoveElement
  <2>2. StagesLeft(r)' = StagesLeft(r)
    BY <1>3 DEF StagesLeft, At
  <2> QED BY <2>1, <2>2, JobsLeftFinite DEF Advances
<1>4. ASSUME req[r].pc \in {"forget", "erase"}, req'[r].pc = req[r].pc,
             NEW j \in req[r].todo, req'[r].todo = req[r].todo \ {j}
      PROVE  Advances(r)
  <2>1. j \in JobsLeft(r) /\ JobsLeft(r)' = JobsLeft(r) \ {j}
    BY <1>4 DEF JobsLeft, At
  <2> QED BY <1>3, <1>4, <2>1
<1>5. ASSUME req[r].pc = "cascade", req'[r].pc = "cascade", rows' = rows, req'[r].file = req[r].file,
             NEW j \in JobsOf(req[r].file) \ req[r].done, req'[r].done = req[r].done \cup {j}
      PROVE  Advances(r)
  <2>1. j \in JobsLeft(r) /\ JobsLeft(r)' = JobsLeft(r) \ {j}
    BY <1>5 DEF JobsLeft, JobsOf, At
  <2> QED BY <1>3, <1>5, <2>1
<1> QED BY <1>1, <1>2, <1>4, <1>5, ContinuesMoves

\* ... and nobody else's step makes them grow.
LEMMA BatchNotPutOff ==
  ASSUME Inv, FiniteWork, [Next]_vars, phase # "sleep"
  PROVE  BatchLeft' <= BatchLeft
<1>1. BatchLeft \in Nat /\ BatchLeft' \in Nat
  <2>1. Cardinality(batch) \in Nat /\ Cardinality(Unanswered) \in Nat
    BY FS_CardinalityType, FS_Subset DEF FiniteWork, Unanswered
  <2>2. FiniteWork' /\ Inv'
    BY FiniteWorkKept, NextInv
  <2>3. Cardinality(batch') \in Nat /\ Cardinality(Unanswered') \in Nat
    BY <2>2, FS_CardinalityType, FS_Subset DEF FiniteWork, Unanswered
  <2> QED BY <2>1, <2>2, <2>3 DEF BatchLeft, Inv, TypeOK
<1>2. CASE UNCHANGED syncVars
  <2>1. BatchLeft' = BatchLeft
    BY <1>2 DEF BatchLeft, Unanswered, syncVars
  <2> QED BY <1>1, <2>1
<1>3. CASE BatchStep
  BY <1>1, <1>3, BatchShrinks
<1>4. CASE Restart
  <2>1. BatchLeft' = 0
    BY <1>4 DEF Restart, SyncIdle, BatchLeft
  <2> QED BY <1>1, <2>1
<1> QED BY <1>2, <1>3, <1>4, OthersLeaveBatch DEF Next

\* While a cascade is under way no job is added to its file.
LEMMA CascadeTakesNoMore ==
  ASSUME Inv, [Next]_vars, NEW r \in Request, At(r, "cascade"), req'[r] = req[r]
  PROVE  JobsOf(req[r].file)' \subseteq JobsOf(req[r].file)
<1> SUFFICES ASSUME NEW k \in Job, rows'[k] # NoRow, rows'[k].file = req[r].file
             PROVE  rows[k] # NoRow /\ rows[k].file = req[r].file
  BY DEF JobsOf
<1>1. rows[k] # NoRow
  <2> SUFFICES ASSUME rows[k] = NoRow PROVE FALSE
    OBVIOUS
  <2>1. PICK q \in Request : StartCommit(q)
    <3>1. ~BatchCommit /\ ~\E q \in Request : ResultCommit(q) \/ RetryCommit(q)
      BY UpdatesKeepFiles
    <3>2. ~\E q \in Request : DeleteCommit(q)
      BY DEF DeleteCommit
    <3> QED BY <3>1, <3>2, RowsWritten
  <2>2. req[q].job = k /\ rows'[k] = NewRow(req[q].file, req[q].stamp)
    BY <2>1 DEF StartCommit, Inv, TypeOK
  <2>3. req[q].file = req[r].file
    BY <2>2 DEF NewRow
  <2>4. q # r
    BY <2>1 DEF StartCommit, At
  <2> QED BY <2>1, <2>3, <2>4 DEF StartCommit, FileFree
<1> QED BY <1>1, RowsKeepFiles

LEMMA RequestNotPutOff ==
  ASSUME Inv, FiniteWork, [Next]_vars, NEW r \in Request, ~At(r, "idle")
  PROVE  NotPutOff(r)
<1>1. CASE req'[r] = req[r]
  <2>1. StagesLeft(r)' = StagesLeft(r)
    BY <1>1 DEF StagesLeft, At
  <2>2. JobsLeft(r)' \subseteq JobsLeft(r)
    BY <1>1, CascadeTakesNoMore DEF JobsLeft, At
  <2>3. Cardinality(JobsLeft(r)) \in Nat /\ Cardinality(JobsLeft(r))' \in Nat
          /\ Cardinality(JobsLeft(r))' <= Cardinality(JobsLeft(r))
    BY <2>2, JobsLeftFinite, FS_Subset, FS_CardinalityType
  <2> QED BY <2>1, <2>3 DEF NotPutOff, Advances
<1>2. CASE Continues(r)
  BY <1>2, RequestShrinks DEF NotPutOff
<1>3. ASSUME NEW q \in Request, q # r, Continues(q) \/ Arrives(q) PROVE req'[r] = req[r]
  BY <1>3, ContinuesMoves, ArrivesMoves
<1>4. ~Arrives(r)
  BY ArrivesMoves
<1>5. CASE Restart
  <2>1. StagesLeft(r)' = 0
    BY <1>5 DEF Restart, Idle, StagesLeft, At
  <2>2. StagesLeft(r) \in {1, 2, 3}
    BY DEF StagesLeft, At, Inv, TypeOK, RequestState
  <2> QED BY <2>1, <2>2 DEF NotPutOff, Advances
<1> QED BY <1>1, <1>2, <1>3, <1>4, <1>5, OthersLeaveRequests DEF Next

\* The jobs a request has to do with.
Concerns(r) ==
  req[r].todo \cup req[r].done \cup
    (IF req[r].pc \in {"download", "store", "recall", "mark"} THEN {req[r].job} ELSE {})

\* They are jobs of its file, or were; none of them is still to come.
OnItsFile ==
  \A r \in Request : \A j \in Concerns(r) :
    ~Coming(j) /\ (rows[j] # NoRow => rows[j].file = req[r].file)

LEMMA ConcernsMove ==
  ASSUME Inv, [Next]_vars, NEW r \in Request
  PROVE  \A j \in Concerns(r)' :
           \/ j \in Concerns(r) /\ req'[r].file = req[r].file
           \/ j \in JobsOf(req'[r].file)
<1> USE DEF Concerns
<1>1. CASE req'[r] = req[r]
  BY <1>1
<1>2. CASE req'[r] = Idle
  BY <1>2 DEF Idle
<1>3. CASE Continues(r)
  BY <1>2, <1>3, ContinuesMoves
<1>4. CASE Arrives(r)
  BY <1>4, ArrivesMoves
<1>5. CASE Restart
  BY <1>2, <1>5 DEF Restart
<1>6. ASSUME NEW q \in Request, q # r, Continues(q) \/ Arrives(q) PROVE req'[r] = req[r]
  BY <1>6, ContinuesMoves, ArrivesMoves
<1> QED BY <1>1, <1>3, <1>4, <1>5, <1>6, OthersLeaveRequests DEF Next

LEMMA OnItsFileKept ==
  ASSUME Inv, OnItsFile, [Next]_vars PROVE OnItsFile'
<1> SUFFICES ASSUME NEW r \in Request, NEW j \in Concerns(r)'
             PROVE  ~Coming(j)' /\ (rows'[j] # NoRow => rows'[j].file = req'[r].file)
  BY DEF OnItsFile
<1>1. j \in Job
  <2>1. Inv'
    BY NextInv
  <2> QED BY <2>1 DEF Concerns, Inv, TypeOK, RequestState, RequestsFormed
<1>2. ~Coming(j) /\ (rows[j] # NoRow => rows[j].file = req'[r].file)
  <2>1. CASE j \in Concerns(r) /\ req'[r].file = req[r].file
    BY <2>1 DEF OnItsFile
  <2>2. CASE j \in JobsOf(req'[r].file)
    BY <1>1, <2>2, RowMoves DEF JobsOf
  <2> QED BY <2>1, <2>2, ConcernsMove
<1>3. rows'[j] # NoRow => rows[j] # NoRow
  BY <1>1, <1>2, RowMoves
<1> QED BY <1>1, <1>2, <1>3, ComingEnds, RowsKeepFiles

LEMMA ProgressInvariance == Spec => [](Inv /\ AskPending /\ FiniteWork /\ OnItsFile)
<1>1. Init => AskPending /\ FiniteWork /\ OnItsFile
  <2> SUFFICES ASSUME Init PROVE AskPending /\ FiniteWork /\ OnItsFile
    OBVIOUS
  <2>1. /\ StoredJobs = {} /\ batch = {} /\ phase # "ask"
        /\ \A r \in Request : req[r].todo = {} /\ req[r].done = {} /\ req[r].pc = "idle"
    BY DEF Init, StoredJobs, Idle
  <2>2. AskPending /\ FiniteWork
    BY <2>1, FS_EmptySet DEF AskPending, FiniteWork
  <2>3. OnItsFile
    BY <2>1 DEF OnItsFile, Concerns
  <2> QED BY <2>2, <2>3
<1>2. Inv /\ AskPending /\ FiniteWork /\ OnItsFile /\ [Next]_vars
        => AskPending' /\ FiniteWork' /\ OnItsFile'
  BY AskPendingKept, FiniteWorkKept, OnItsFileKept
<1> QED BY <1>1, <1>2, InitInv, NextInv, PTL DEF Spec

\* What a request waits for or holds is of its own file.
LEMMA WantedOnFile ==
  ASSUME Inv, OnItsFile, NEW r \in Request, NEW j \in Wanted(r), rows[j] # NoRow
  PROVE  j \in Job /\ rows[j].file = req[r].file
<1>1. CASE At(r, "cascade")
  BY <1>1 DEF Wanted, At, JobsOf
<1>2. CASE ~At(r, "cascade")
  BY <1>2 DEF Wanted, At, OnItsFile, Concerns, Inv, TypeOK, RequestState, RequestsFormed
<1> QED BY <1>1, <1>2

LEMMA HeldOnFile ==
  ASSUME Inv, OnItsFile, NEW r \in Request, NEW j \in Holds(r)
  PROVE  j \in Job /\ Deletes(r) /\ rows[j] # NoRow /\ rows[j].file = req[r].file
BY DEF Holds, OnItsFile, Concerns, Inv, TypeOK, RequestState

\* A deletion in a circle has another deletion of its file in it, or two jobs: one that
\* it waits for and one that the batch waits for.
LEMMA CirclesNeedTwo ==
  ASSUME Inv, OnItsFile, NEW r \in Request, Deletes(r), InCircle(r)
  PROVE  \/ \E j, k \in JobsOf(req[r].file) : j # k
         \/ \E q \in Request \ {r} : Deletes(q) /\ req[q].file = req[r].file
<1> SUFFICES ASSUME ~\E q \in Request \ {r} : Deletes(q) /\ req[q].file = req[r].file
             PROVE  \E j, k \in JobsOf(req[r].file) : j # k
  OBVIOUS
<1>1. PICK C \in SUBSET Party :
        r \in C /\ \A b \in C : (\E c \in C : Awaits(b, c)) /\ (\E c \in C : Awaits(c, b))
  BY DEF InCircle
<1>2. PICK j : j \in Wanted(r) /\ Locked(j)
  <2>1. PICK c \in C : Awaits(r, c)
    BY <1>1
  <2>2. ASSUME c \in Request \ {r} PROVE FALSE
    <3>1. ASSUME NEW i \in Wanted(r) \cap Holds(c) PROVE FALSE
      BY <2>2, <3>1, WantedOnFile, HeldOnFile
    <3>2. ~(At(c, "cascade") /\ req[r].file = req[c].file)
      BY <2>2 DEF At, Deletes
    <3>3. Wanted(r) \cap Holds(c) = {} /\ c # "sync" /\ r # "sync"
      BY <2>2, <3>1, PartyAssumption
    <3> QED BY <2>1, <3>2, <3>3 DEF Awaits
  <2>3. c = "sync"
    BY <2>1, <2>2 DEF Awaits, Party
  <2> QED BY <2>1, <2>3, PartyAssumption DEF Awaits
<1>3. j \in Job /\ rows[j] # NoRow
  BY <1>2 DEF Wanted, Deletes, At, JobsOf, Inv, TypeOK, RequestState, LocksHold
<1>4. j \in JobsOf(req[r].file)
  BY <1>2, <1>3, WantedOnFile DEF JobsOf
<1>5. PICK b \in C : Awaits(b, r)
  BY <1>1
<1>6. CASE b = "sync" /\ FlushWaits /\ current \in Holds(r)
  <2>1. current \in JobsOf(req[r].file)
    BY <1>6, HeldOnFile DEF JobsOf
  <2>2. current # j
    BY <1>2 DEF Locked
  <2> QED BY <1>4, <2>1, <2>2
<1>7. ASSUME b \in Request \ {r} PROVE FALSE
  <2>1. ~Deletes(b)
    <3>1. ASSUME NEW i \in Wanted(b) \cap Holds(r), Deletes(b) PROVE FALSE
      BY <1>7, <3>1, WantedOnFile, HeldOnFile
    <3>2. Deletes(b) => Wanted(b) \cap Holds(r) = {}
      BY <3>1
    <3>3. Deletes(b) => ~At(b, "insert") /\ req[b].file # req[r].file
      BY <1>7 DEF Deletes, At
    <3>4. b # "sync" /\ r # "sync"
      BY <1>7, PartyAssumption
    <3> QED BY <1>5, <3>2, <3>3, <3>4 DEF Awaits
  <2>2. PICK c \in C : Awaits(c, b)
    BY <1>1, <1>5
  <2>3. Holds(b) = {} /\ ~At(b, "cascade") /\ b # "sync"
    BY <1>7, <2>1, PartyAssumption DEF Holds, Deletes, At
  <2> QED BY <2>2, <2>3 DEF Awaits
<1> QED BY <1>5, <1>6, <1>7, PartyAssumption DEF Awaits

\* Nobody waits for what nobody will give: the sync task stands still only for a
\* deletion of its row's file, a handler only for a batch being applied or a deletion of its
\* own file, and deadlocks need two jobs of the file or two deletions of it.
THEOREM NobodyStuck == Spec => []Unblocked
<1>1. Inv /\ AskPending /\ OnItsFile => Unblocked
  <2> SUFFICES ASSUME Inv, AskPending, OnItsFile PROVE Unblocked
    OBVIOUS
  <2>1. ASSUME ~BatchReady
        PROVE  FlushWaits /\ \E r \in Request : Deletes(r) /\ req[r].file = rows[current].file
    <3>1. FlushWaits
      BY <2>1 DEF BatchReady, Inv, TypeOK, AskPending, AnswersHold, BatchFormed
    <3>2. PICK r \in Request : current \in Holds(r)
      BY <3>1 DEF FlushWaits, Taken
    <3> QED BY <3>1, <3>2, HeldOnFile
  <2>2. ASSUME NEW r \in Request, Waits(r)
        PROVE  \/ phase \in {"apply", "fetch"}
               \/ \E q \in Request \ {r} : Deletes(q) /\ req[q].file = req[r].file
    <3>1. CASE Wanted(r) # {} /\ \A j \in Wanted(r) : ~Free(j, r)
      <4>1. PICK j \in Wanted(r) : ~Free(j, r)
        BY <3>1
      <4>2. CASE Locked(j)
        <5>1. j \in Job
          BY <4>1 DEF Wanted, At, JobsOf, Inv, TypeOK, RequestState, RequestsFormed
        <5> QED BY <4>2, <5>1 DEF Locked, Inv, TypeOK, BatchFormed
      <4>3. ASSUME NEW q \in Request \ {r}, j \in Holds(q)
            PROVE  Deletes(q) /\ req[q].file = req[r].file
        BY <4>1, <4>3, HeldOnFile, WantedOnFile
      <4> QED BY <4>1, <4>2, <4>3 DEF Free
    <3>2. CASE ~FileFree(r)
      BY <3>2 DEF FileFree, Deletes, At
    <3> QED BY <2>2, <3>1, <3>2 DEF Waits
  <2> QED BY <2>1, <2>2, CirclesNeedTwo DEF Unblocked
<1> QED BY <1>1, ProgressInvariance, PTL

\* Every step of a batch or of a request brings its end nearer, and nobody else
\* puts it off: with NobodyStuck, what is left of RequestsFinish and ServerStarts
\* is that the event loop runs what is ready and that locks are given in turn.
THEOREM WorkEnds == Spec => WorkShrinks
<1>1. Inv /\ FiniteWork /\ [Next]_vars =>
        /\ phase # "sleep" => BatchLeft' <= BatchLeft /\ (BatchStep => BatchLeft' < BatchLeft)
        /\ \A r \in Request : ~At(r, "idle") => NotPutOff(r) /\ (Continues(r) => Advances(r))
  BY BatchShrinks, RequestShrinks, BatchNotPutOff, RequestNotPutOff
<1> QED BY <1>1, ProgressInvariance, PTL DEF Spec, WorkShrinks

-----------------------------------------------------------------------------
\* What a deletion leaves behind

\* The jobs of a file being deleted are gone at the parser server, or still on
\* the list of the deletion; a start_parse under way has its file.
DeletionsThorough ==
  \A r \in Request, j \in Job : rows[j] # NoRow /\ rows[j].file = req[r].file =>
    /\ At(r, "forget") => j \in req[r].todo \/ parser[j] = "gone"
    /\ Deletes(r) => parser[j] = "gone"
StartsServed ==
  \A r \in Request : req[r].pc \in {"starting", "insert"} =>
    client /\ files[req[r].file] = "present"
RowsNeedClient == ~client => \A j \in Job : rows[j] = NoRow

TrackedInv ==
  /\ Inv
  /\ NoUntrackedParserJob
  /\ DeletionsThorough
  /\ StartsServed
  /\ RowsNeedClient
  /\ ~StartOverlapsDelete

LEMMA TrackedContinues ==
  ASSUME Faults \subseteq {"lose", "unlink"}, TrackedInv, NEW r \in Request, Continues(r)
  PROVE  NoUntrackedParserJob' /\ DeletionsThorough' /\ StartsServed' /\ RowsNeedClient'
<1> USE DEF TrackedInv, NoUntrackedParserJob, DeletionsThorough, StartsServed, RowsNeedClient,
       StartOverlapsDelete, Inv, TypeOK, Goto, Delete, Deletes, Finish, Idle, At, dbVars, diskVars, parserVars,
       serverVars, syncVars
<1>1. CASE UploadCommit(r)
  BY <1>1, SMTT(30) DEF UploadCommit
<1>2. CASE ParserRefuses(r)
  BY <1>2, SMTT(30) DEF ParserRefuses
<1>3. CASE StartCommit(r)
  <2> DEFINE j == req[r].job  f == req[r].file
  <2>1. /\ j \in Job /\ rows' = [rows EXCEPT ![j] = NewRow(f, req[r].stamp)]
        /\ req' = [req EXCEPT ![r] = Idle]
        /\ UNCHANGED <<files, parser, client>> /\ client
    BY <1>3 DEF StartCommit, RequestsFormed
  <2>2. NewRow(f, req[r].stamp) # NoRow /\ NewRow(f, req[r].stamp).file = f
    <3>1. f \in File /\ req[r].stamp \in 1..MaxStamp
      BY <1>3 DEF StartCommit, RequestsFormed
    <3>2. NewRow(f, req[r].stamp) \in Row
      BY <3>1 DEF NewRow, Row, Active, RaptorStatus
    <3> QED BY <3>2, NullAssumption DEF NewRow
  <2>3. \A q \in Request : req[q].pc \in {"forget", "erase", "cascade"} => req[q].file # f
    BY <1>3 DEF StartCommit
  <2>4. NoUntrackedParserJob'
    BY <2>1, <2>2
  <2>5. DeletionsThorough'
    BY <2>1, <2>2, <2>3
  <2>6. StartsServed' /\ RowsNeedClient'
    BY <2>1
  <2> QED BY <2>4, <2>5, <2>6
<1>4. CASE StartForeignKeyFails(r)
  BY <1>4, SMTT(30) DEF StartForeignKeyFails
<1>5. CASE ResultDownload(r) \/ ResultDownloadFails(r)
  BY <1>5, SMTT(30) DEF ResultDownload, ResultDownloadFails
<1>6. CASE ResultCommit(r) \/ RetryCommit(r)
  <2>1. UNCHANGED <<files, parser, client>> /\ req' = [req EXCEPT ![r] = Idle]
          /\ ~At(r, "insert")
    BY <1>6 DEF ResultCommit, RetryCommit
  <2>2. \A k \in Job : /\ rows'[k] = NoRow <=> rows[k] = NoRow
                       /\ rows[k] # NoRow => rows'[k].file = rows[k].file
    BY <1>6, UpdatesKeepFiles
  <2> QED BY <2>1, <2>2
<1>7. CASE RetryCall(r) \/ RetryCallFails(r)
  BY <1>7, SMTT(30) DEF RetryCall, RetryCallFails
<1>8. CASE DeleteUnlink(r)
  BY <1>8, SMTT(30) DEF DeleteUnlink, DeleteMarks
<1>9. CASE DeleteCommit(r)
  <2> DEFINE f == req[r].file
  <2>1. /\ files' = [files EXCEPT ![f] = "deleted"]
        /\ \A k \in Job : rows'[k] = IF rows[k] # NoRow /\ rows[k].file = f THEN NoRow ELSE rows[k]
        /\ req' = [req EXCEPT ![r] = Idle]
        /\ UNCHANGED <<parser, client>> /\ At(r, "cascade")
    BY <1>9 DEF DeleteCommit, JobsOf
  <2>2. \A k \in Job : rows[k] # NoRow /\ rows[k].file = f => parser[k] = "gone"
    BY <2>1
  <2>3. \A q \in Request : req[q].pc \in {"starting", "insert"} => req[q].file # f
    BY <2>1
  <2>4. NoUntrackedParserJob'
    BY <2>1, <2>2 DEF Running
  <2>5. DeletionsThorough'
    BY <2>1
  <2>6. StartsServed' /\ RowsNeedClient'
    BY <2>1, <2>3
  <2> QED BY <2>4, <2>5, <2>6
<1>10. ASSUME NEW j \in Job, DeleteJob(r, j)
      PROVE NoUntrackedParserJob' /\ DeletionsThorough' /\ StartsServed' /\ RowsNeedClient'
  BY <1>10, SMTT(30) DEF DeleteJob, Running
<1>11. ASSUME NEW j \in Job, ParserAccepts(r, j)
      PROVE NoUntrackedParserJob' /\ DeletionsThorough' /\ StartsServed' /\ RowsNeedClient'
  BY <1>11, SMTT(30) DEF ParserAccepts, Running
<1>12. ~CommitFails(r) /\ \A j \in Job : ~ParserAcceptsUnheard(r, j)
  BY DEF CommitFails, ParserAcceptsUnheard
<1>13. CASE DeadlockVictim(r)
  BY <1>13, SMTT(30) DEF DeadlockVictim
<1>14. CASE DeleteFileRow(r)
  BY <1>14, SMTT(30) DEF DeleteFileRow
<1>15. ASSUME NEW j \in Job, DeleteRow(r, j)
      PROVE NoUntrackedParserJob' /\ DeletionsThorough' /\ StartsServed' /\ RowsNeedClient'
  BY <1>15, SMTT(30) DEF DeleteRow
<1> QED BY <1>1, <1>2, <1>3, <1>4, <1>5, <1>6, <1>7, <1>8, <1>9, <1>10, <1>11, <1>12, <1>13, <1>14,
    <1>15 DEF Continues

LEMMA TrackedArrives ==
  ASSUME TrackedInv, NEW r \in Request, Arrives(r)
  PROVE  NoUntrackedParserJob' /\ DeletionsThorough' /\ StartsServed' /\ RowsNeedClient'
<1> USE DEF TrackedInv, NoUntrackedParserJob, DeletionsThorough, StartsServed, RowsNeedClient,
       StartOverlapsDelete, Inv, TypeOK, Goto, Delete, Deletes, Finish, Idle, At, Begins, dbVars, diskVars,
       parserVars, serverVars, syncVars
<1>1. ASSUME NEW f \in File, UploadWrite(r, f) \/ StartParse(r, f) \/ DeleteRead(r, f)
      PROVE  NoUntrackedParserJob' /\ DeletionsThorough' /\ StartsServed' /\ RowsNeedClient'
  BY <1>1, SMTT(30) DEF UploadWrite, StartParse, DeleteRead, JobsOf
<1>2. ASSUME NEW f \in File, NEW j \in Job, ResultRead(r, f, j) \/ RetryRead(r, f, j)
      PROVE  NoUntrackedParserJob' /\ DeletionsThorough' /\ StartsServed' /\ RowsNeedClient'
  BY <1>2, SMTT(30) DEF ResultRead, RetryRead
<1> QED BY <1>1, <1>2 DEF Arrives

LEMMA TrackedOthers ==
  ASSUME MaxRestarts = 0, TrackedInv, [Next]_vars,
         ~\E r \in Request : Continues(r) \/ Arrives(r)
  PROVE  NoUntrackedParserJob' /\ DeletionsThorough' /\ StartsServed' /\ RowsNeedClient'
<1> USE DEF TrackedInv, NoUntrackedParserJob, DeletionsThorough, StartsServed, RowsNeedClient,
       At, Deletes, dbVars, diskVars, parserVars, serverVars, syncVars
<1>1. ASSUME UNCHANGED <<files, rows, parser, client, req>>
      PROVE  NoUntrackedParserJob' /\ DeletionsThorough' /\ StartsServed' /\ RowsNeedClient'
  BY <1>1
<1>2. CASE BatchCommit
  <2>1. UNCHANGED <<files, parser, client, req>>
    BY <1>2 DEF BatchCommit
  <2>2. \A k \in Job : /\ rows'[k] = NoRow <=> rows[k] = NoRow
                       /\ rows[k] # NoRow => rows'[k].file = rows[k].file
    BY <1>2, UpdatesKeepFiles
  <2> QED BY <2>1, <2>2
<1>3. CASE BatchStep /\ ~BatchCommit
  BY <1>1, <1>3 DEF BatchStep, BatchSelect, SkipCycle, SyncOneJob, BatchRead, BatchDownload,
    BatchDownloadFails, BatchAbort
<1>4. ASSUME NEW j \in Job, ParserStep(j)
      PROVE  NoUntrackedParserJob' /\ DeletionsThorough' /\ StartsServed' /\ RowsNeedClient'
  BY <1>4, SMTT(30) DEF ParserStep, ParserPicksUp, ParserFinishes, ParserRaptor, ParserForgets,
    Running, Inv, TypeOK
<1>5. ASSUME NEW j \in Job, Ages(j) PROVE UNCHANGED <<files, rows, parser, client, req>>
  BY <1>5 DEF Ages
<1>6. ~Restart
  BY DEF Restart, Inv, TypeOK
<1> QED BY <1>1, <1>2, <1>3, <1>4, <1>5, <1>6 DEF Next, vars

\* Deleting a file removes its jobs from the parser server as well, unless a
\* start_parse of the same file is under way meanwhile, a call or a commit fails
\* or the process dies: these are all the ways the property of run "untracked"
\* is lost.
THEOREM OnlyOverlapsLeaveJobs ==
  ASSUME Faults \subseteq {"lose", "unlink"}, MaxRestarts = 0
  PROVE  CarefulSpec => []NoUntrackedParserJob
<1>1. Init => TrackedInv
  <2> SUFFICES ASSUME Init PROVE NoUntrackedParserJob /\ DeletionsThorough /\ StartsServed
                                   /\ RowsNeedClient /\ ~StartOverlapsDelete
    BY InitInv DEF TrackedInv
  <2> QED BY DEF Init, NoUntrackedParserJob, DeletionsThorough, StartsServed, RowsNeedClient,
    StartOverlapsDelete, Idle, At, Deletes, Running
<1>2. TrackedInv /\ [Next /\ ~StartOverlapsDelete']_vars => TrackedInv'
  <2> SUFFICES ASSUME TrackedInv, [Next /\ ~StartOverlapsDelete']_vars PROVE TrackedInv'
    OBVIOUS
  <2>1. Inv'
    BY NextInv DEF TrackedInv
  <2>2. NoUntrackedParserJob' /\ DeletionsThorough' /\ StartsServed' /\ RowsNeedClient'
    BY TrackedContinues, TrackedArrives, TrackedOthers
  <2>3. ~StartOverlapsDelete'
    BY DEF TrackedInv, StartOverlapsDelete, vars
  <2> QED BY <2>1, <2>2, <2>3 DEF TrackedInv
<1>3. TrackedInv => NoUntrackedParserJob
  BY DEF TrackedInv
<1> QED BY <1>1, <1>2, <1>3, PTL DEF CarefulSpec
=============================================================================
