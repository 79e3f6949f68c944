-------------------------- MODULE ParsePipeline --------------------------
(***************************************************************************)
(* The parse pipeline of the file manager: the request handlers of         *)
(* file_service and parse_service, the background synchronisation task of  *)
(* background_sync, the PostgreSQL tables they share, the disk, and the    *)
(* external document parser server.                                        *)
(*                                                                         *)
(* The program is one asyncio process: what runs between two awaits is one *)
(* action, and every await is a point where the other tasks run.  Each     *)
(* request and each sync batch has a database session of its own (READ     *)
(* COMMITTED): a row a session changed in memory is sent to the database   *)
(* at its next statement (autoflush), which locks the row until commit.    *)
(* PostgreSQL aborts one of those who wait for each other's locks.         *)
(*                                                                         *)
(* Faults names what may go wrong in a run: "answer" (a call to the parser *)
(* server fails, or its answer is lost), "commit" (the database aborts a   *)
(* transaction: lost connection), "lose" (the parser server forgets a      *)
(* job), "unlink" (the bytes of a file cannot be removed).  A crash and    *)
(* restart may happen MaxRestarts times.                                   *)
(***************************************************************************)
EXTENDS Integers, FiniteSets

CONSTANTS
  File,         \* uploaded files (rows of "files" and their bytes on disk)
  Job,          \* parse jobs, numbered in the order of their rows' ids
  Request,      \* HTTP requests that may be in flight at the same time
  EnableRaptor, \* the setting enable_raptor
  UploadDirs,   \* what UPLOAD_DIR may be when the process starts
  Kinds,        \* bound: the kinds of requests users send
  Faults,       \* the failures allowed in this instance
  MaxRestarts,  \* bound: how many crashes are explored
  MaxStamp,     \* bound: how many different created_at values are kept apart
  NoRow, NoFile, NoJob

\* "uploads" is the default of UPLOAD_DIR, "elsewhere" any directory that does
\* not pass for one around it.
Dir == {"uploads", "elsewhere"}
ASSUME UploadDirsAssumption == UploadDirs \subseteq Dir

Active == {"pending", "processing"}                \* ACTIVE_PARSE_STATUSES
Settled == {"completed", "failed", "error", "timeout", "lost"}
RaptorStatus == {"none", "processing", "finished"}    \* finished: completed or failed
Row == [file : File, status : Active \cup Settled, created : 1..MaxStamp,
        fails : 0..3, raptor : RaptorStatus, result : BOOLEAN]

ASSUME KindsAssumption ==
  EnableRaptor \in BOOLEAN /\ Kinds \subseteq {"upload", "start", "result", "retry", "delete"}
ASSUME FaultsAssumption == Faults \subseteq {"answer", "commit", "lose", "unlink"}
ASSUME BoundsAssumption == MaxRestarts \in Nat /\ MaxStamp \in Nat
ASSUME JobAssumption == Job \subseteq Int
ASSUME PartyAssumption == "sync" \notin Request
ASSUME NullAssumption == NoRow \notin Row /\ NoFile \notin File /\ NoJob \notin Job

VARIABLES
  files,      \* table "files": each file's row is absent, present or deleted
  disk,       \* the bytes there are: of which file, in which directory
  rows,       \* table "parse_jobs"
  zips,       \* the jobs whose result archive is under PARSE_RESULT_DIR
  parser,     \* the parser server's own status of each job
  raptor,     \* the parser server's RAPTOR status of each job
  aged,       \* the rows created more than 24 hours ago
  server,     \* "starting" while lifespan awaits resync_pending_jobs, then "up"
  client,     \* app.state.parser_client is not None
  restarts,   \* crashes so far
  uploadDir,  \* UPLOADS_DIR of this process
  phase,      \* where the sync task is: sleep, ask, apply or fetch
  batch,      \* the jobs of the running batch still to be applied
  answer,     \* what the parser server answered for a job of the batch
  heard,      \* the raptor_status that came with that answer
  expired,    \* the jobs of the batch older than 24 hours at its start
  draft,      \* rows changed by the batch's session and not yet committed
  current,    \* the draft not yet flushed, and so not yet locked
  req         \* the requests in flight

dbVars == <<files, rows>>
diskVars == <<disk, zips>>
parserVars == <<parser, raptor>>
serverVars == <<server, client, restarts, uploadDir>>
syncVars == <<phase, batch, answer, heard, expired, draft, current>>
vars == <<dbVars, diskVars, parserVars, aged, serverVars, syncVars, req>>

ParserStatus == {"unborn", "pending", "processing", "completed", "failed", "other", "gone"}
Running == {"pending", "processing", "completed", "failed", "other"}
Answer == {"none", "error", "missing"} \cup Running

Idle == [pc |-> "idle", file |-> NoFile, job |-> NoJob, todo |-> {}, done |-> {}, stamp |-> 0]
RequestState ==
  [pc : {"idle", "uploaded", "starting", "insert", "download", "store",
         "recall", "mark", "forget", "erase", "cascade"},
   file : File \cup {NoFile}, job : Job \cup {NoJob},
   todo : SUBSET Job, done : SUBSET Job, stamp : 0..MaxStamp]

TypeOK ==
  /\ files \in [File -> {"absent", "present", "deleted"}]
  /\ disk \in SUBSET (Dir \X File)
  /\ rows \in [Job -> Row \cup {NoRow}]
  /\ zips \in SUBSET Job
  /\ parser \in [Job -> ParserStatus]
  /\ raptor \in [Job -> RaptorStatus]
  /\ aged \in SUBSET Job
  /\ server \in {"starting", "up"}
  /\ client \in BOOLEAN
  /\ restarts \in 0..MaxRestarts
  /\ uploadDir \in UploadDirs
  /\ phase \in {"sleep", "ask", "apply", "fetch"}
  /\ batch \in SUBSET Job
  /\ answer \in [Job -> Answer]
  /\ heard \in [Job -> RaptorStatus]
  /\ expired \in SUBSET Job
  /\ draft \in [Job -> Row \cup {NoRow}]
  /\ current \in Job \cup {NoJob}
  /\ req \in [Request -> RequestState]

-----------------------------------------------------------------------------
\* Reading the database

\* Variant: the batch forgets the jobs that are processing.
ActiveRowsPendingOnly == {j \in Job : rows[j] # NoRow /\ rows[j].status = "pending"}
ActiveRows == {j \in Job : rows[j] # NoRow /\ rows[j].status \in Active}
JobsOf(f) == {j \in Job : rows[j] # NoRow /\ rows[j].file = f}

\* order_by(created_at.desc()).limit(1); equal stamps leave the choice open.
IsLatest(j, f) ==
  /\ j \in JobsOf(f)
  /\ \A k \in JobsOf(f) : rows[k].created <= rows[j].created

\* created_at is now(), the time the inserting transaction began: it is taken
\* when the request starts.  Only the order matters, so a new stamp is the
\* successor of the largest one still in use; from MaxStamp on they are equal.
LiveStamps == {rows[j].created : j \in {k \in Job : rows[k] # NoRow}}
                \cup {req[r].stamp : r \in Request}
IsFreshStamp(s) ==
  IF MaxStamp \in LiveStamps THEN s = MaxStamp
  ELSE s - 1 \in LiveStamps \cup {0} /\ \A t \in LiveStamps : t < s

Finish(r) == req' = [req EXCEPT ![r] = Idle]
Goto(r, to, f, j, todo, stamp) ==
  req' = [req EXCEPT ![r] =
            [pc |-> to, file |-> f, job |-> j, todo |-> todo, done |-> {}, stamp |-> stamp]]
At(r, pc) == req[r].pc = pc

\* A request can begin only once the application serves requests.
Begins(r, kind) == server = "up" /\ At(r, "idle") /\ kind \in Kinds

\* delete_file goes on with the jobs todo before it, those in done behind it.
Delete(r, to, todo, done) ==
  req' = [req EXCEPT ![r] = [pc |-> to, file |-> req[r].file, job |-> NoJob,
                             todo |-> todo, done |-> done, stamp |-> 0]]

-----------------------------------------------------------------------------
\* Row locks

\* A flushed row stays locked until the batch commits or aborts.
\* Variant: the update takes no lock.
LockedNever(j) == FALSE
Locked(j) == draft[j] # NoRow /\ j # current

\* A row that a deletion has deleted is locked until that commits or aborts.
Deletes(r) == req[r].pc \in {"erase", "cascade"}
Holds(r) == IF Deletes(r) THEN {j \in req[r].done : rows[j] # NoRow} ELSE {}
Taken(j) == \E r \in Request : j \in Holds(r)
Free(j, r) == ~Locked(j) /\ \A q \in Request \ {r} : j \notin Holds(q)

\* The row of a file is locked by the deletion that has come to it.
FileFree(r) == \A q \in Request \ {r} : ~(At(q, "cascade") /\ req[q].file = req[r].file)

\* The rows a request locks next: a deletion sends its DELETEs in the order of the
\* ids; the cascade takes the rows as it finds them.
Wanted(r) ==
  CASE req[r].pc \in {"store", "mark"} -> {req[r].job}
    [] At(r, "erase") -> {j \in req[r].todo : \A k \in req[r].todo : j <= k}
    [] At(r, "cascade") -> JobsOf(req[r].file) \ req[r].done
    [] OTHER -> {}

\* The flush of "current" finds its row locked.
FlushWaits == phase = "apply" /\ current # NoJob /\ Taken(current)

\* Who waits for whom.
Party == Request \cup {"sync"}
Awaits(a, b) ==
  \/ a = "sync" /\ b \in Request /\ FlushWaits /\ current \in Holds(b)
  \/ a \in Request /\ b = "sync" /\ \E j \in Wanted(a) : Locked(j)
  \/ /\ a \in Request /\ b \in Request \ {a}
     /\ \/ Wanted(a) \cap Holds(b) # {}
        \/ /\ At(a, "insert") \/ (At(a, "erase") /\ req[a].todo = {})
           /\ At(b, "cascade") /\ req[a].file = req[b].file

\* a waits for itself, through others.
InCircle(a) ==
  \E C \in SUBSET Party :
    /\ a \in C
    /\ \A b \in C : (\E c \in C : Awaits(b, c)) /\ (\E c \in C : Awaits(c, b))

-----------------------------------------------------------------------------
\* Background synchronisation: resync_pending_jobs at startup, then
\* background_sync_loop; both run _process_jobs_batch.

\* Variant: the session's changes and locks survive the batch.
SyncIdleKeepsDraft ==
  /\ phase' = "sleep" /\ batch' = {} /\ expired' = {} /\ current' = NoJob
  /\ answer' = [j \in Job |-> "none"] /\ heard' = [j \in Job |-> "none"]
  /\ UNCHANGED draft
SyncIdle ==
  /\ phase' = "sleep"
  /\ batch' = {}
  /\ answer' = [j \in Job |-> "none"]
  /\ heard' = [j \in Job |-> "none"]
  /\ expired' = {}
  /\ draft' = [j \in Job |-> NoRow]
  /\ current' = NoJob

\* select(ParseJob).where(status in ACTIVE), then "now" is taken.
BatchSelect ==
  /\ phase = "sleep" /\ client /\ ActiveRows # {}
  /\ phase' = "ask"
  /\ batch' = ActiveRows
  /\ expired' = ActiveRows \cap aged
  /\ UNCHANGED <<dbVars, diskVars, parserVars, aged, serverVars, answer, heard,
                 draft, current, req>>

\* No client or nothing to do: this cycle is skipped.
\* Variant: resync_pending_jobs does not return when there is nothing to do.
SkipCycleStays == phase = "sleep" /\ (~client \/ ActiveRows = {}) /\ UNCHANGED vars
SkipCycle ==
  /\ phase = "sleep" /\ (~client \/ ActiveRows = {})
  /\ server' = "up"
  /\ UNCHANGED <<dbVars, diskVars, parserVars, aged, client, restarts, uploadDir, syncVars, req>>

\* _sync_one_job: what get_job_status tells of job j, if anything.
Answers(j, a, h) ==
  \/ /\ parser[j] \in Running
     /\ a = parser[j] /\ h = raptor[j]
  \/ /\ parser[j] = "gone"
     /\ a = "missing" /\ h = "none"
  \/ /\ "answer" \in Faults
     /\ a = "error" /\ h = "none"

\* gather: the calls overlap; the batch goes on when all have answered.
SyncOneJob(j) ==
  /\ phase = "ask" /\ j \in batch /\ answer[j] = "none"
  /\ \E a \in Answer \ {"none"}, h \in RaptorStatus :
       /\ Answers(j, a, h)
       /\ answer' = [answer EXCEPT ![j] = a]
       /\ heard' = [heard EXCEPT ![j] = h]
  /\ phase' = IF \A k \in batch \ {j} : answer[k] # "none" THEN "apply" ELSE "ask"
  /\ UNCHANGED <<dbVars, diskVars, parserVars, aged, serverVars, batch, expired,
                 draft, current, req>>

\* Variant: an unknown status is taken for completed.
MapParserStatusHopeful(a) ==
  IF a \in {"pending", "processing", "completed", "failed"} THEN a ELSE "completed"
MapParserStatus(a) ==
  IF a \in {"pending", "processing", "completed", "failed"} THEN a ELSE "error"

\* No answer: the third failure in a row ends the job.
\* Variants: it is ended one failure too early; the count starts again at every
\* failure.
CountFailureEarly(row) ==
  [row EXCEPT !.fails = row.fails + 1,
              !.status = IF row.fails + 1 >= 2 THEN "error" ELSE row.status]
CountFailureRestarts(row) == [row EXCEPT !.fails = 1]
CountFailure(row) ==
  [row EXCEPT !.fails = row.fails + 1,
              !.status = IF row.fails + 1 >= 3 THEN "error" ELSE row.status]

\* An answer in time: the failure count starts again.
\* Variant: it goes on.
RefreshKeepsCount(row, a, h) ==
  [row EXCEPT !.status = MapParserStatus(a),
              !.raptor = IF h # "none" THEN h ELSE row.raptor]
Refresh(row, a, h) ==
  [row EXCEPT !.status = MapParserStatus(a),
              !.fails = 0,
              !.raptor = IF h # "none" THEN h ELSE row.raptor]

\* The row after one answer a (with raptor_status h); late: the row was older
\* than 24 hours when the batch began.  The timeout comes before the answer.
Synced(row, a, h, late) ==
  CASE a = "error" -> CountFailure(row)
    [] a = "missing" -> [row EXCEPT !.status = "lost"]
    [] a \in Running /\ row.status = "processing" /\ late ->
         [row EXCEPT !.status = "timeout"]
    [] OTHER -> Refresh(row, a, h)

NeedsDownload(row) == row.status = "completed" /\ ~row.result

\* An UPDATE must find its row: the pending change of "current" can be flushed.
\* Variant: nobody looks whether the row is still there.
FlushableAlways == TRUE
Flushable == current # NoJob => rows[current] # NoRow

\* One turn of the loop over the answers: the SELECT of row j flushes the
\* previous change, then the answer is applied to the row as it is now.
BatchRead(j) ==
  /\ phase = "apply" /\ j \in batch
  /\ Flushable /\ ~FlushWaits
  /\ batch' = batch \ {j}
  /\ answer' = [answer EXCEPT ![j] = "none"]
  /\ heard' = [heard EXCEPT ![j] = "none"]
  /\ expired' = expired \ {j}
  /\ LET new == IF rows[j] = NoRow THEN NoRow
                ELSE Synced(rows[j], answer[j], heard[j], j \in expired)
         dirty == new # rows[j]
     IN /\ draft' = [draft EXCEPT ![j] = IF dirty THEN new ELSE NoRow]
        /\ current' = IF dirty THEN j ELSE NoJob
        /\ phase' = IF dirty /\ NeedsDownload(new) THEN "fetch" ELSE "apply"
  /\ UNCHANGED <<dbVars, diskVars, parserVars, aged, serverVars, req>>

\* The automatic download of a completed job, awaited inside the transaction.
BatchDownload ==
  /\ phase = "fetch" /\ parser[current] = "completed"
  /\ zips' = zips \cup {current}
  /\ draft' = [draft EXCEPT ![current] = [draft[current] EXCEPT !.result = TRUE]]
  /\ phase' = "apply"
  /\ UNCHANGED <<dbVars, disk, parserVars, aged, serverVars, batch, answer, heard,
                 expired, current, req>>

\* Its failure is logged and the loop goes on.
BatchDownloadFails ==
  /\ phase = "fetch" /\ (parser[current] # "completed" \/ "answer" \in Faults)
  /\ phase' = "apply"
  /\ UNCHANGED <<dbVars, diskVars, parserVars, aged, serverVars, batch, answer,
                 heard, expired, draft, current, req>>

\* The one commit of the batch; at startup resync_pending_jobs then returns.
BatchCommit ==
  /\ phase = "apply" /\ batch = {}
  /\ Flushable /\ ~FlushWaits
  /\ rows' = [j \in Job |-> IF draft[j] # NoRow THEN draft[j] ELSE rows[j]]
  /\ server' = "up"
  /\ SyncIdle
  /\ UNCHANGED <<files, diskVars, parserVars, aged, client, restarts, uploadDir, req>>

\* StaleDataError when the row to update has gone, a deadlock, or a database
\* failure: the changes of the whole batch are rolled back; the caller logs it.
BatchAbort ==
  /\ phase = "apply"
  /\ ~Flushable \/ InCircle("sync") \/ "commit" \in Faults
  /\ server' = "up"
  /\ SyncIdle
  /\ UNCHANGED <<dbVars, diskVars, parserVars, aged, client, restarts, uploadDir, req>>

-----------------------------------------------------------------------------
\* file_service.upload_file

\* Whatever UPLOAD_DIR is, stored_path of a row is "uploads/" and the file's name.
StoredPath(f) == <<"uploads", f>>
BytesOf(f) == {p \in disk : p[2] = f}

\* The bytes are written before the row, into UPLOADS_DIR.
UploadWrite(r, f) ==
  /\ Begins(r, "upload") /\ files[f] = "absent" /\ BytesOf(f) = {}
  /\ disk' = disk \cup {<<uploadDir, f>>}
  /\ Goto(r, "uploaded", f, NoJob, {}, 0)
  /\ UNCHANGED <<dbVars, zips, parserVars, aged, serverVars, syncVars>>

UploadCommit(r) ==
  /\ At(r, "uploaded")
  /\ files' = [files EXCEPT ![req[r].file] = "present"]
  /\ Finish(r)
  /\ UNCHANGED <<rows, diskVars, parserVars, aged, serverVars, syncVars>>

-----------------------------------------------------------------------------
\* parse_service.start_parse

\* get_file_orm, the client and the stored file are checked, then parse_pdf is
\* awaited.  Nothing checks for a job of the file that is still active.
StartParse(r, f) ==
  /\ Begins(r, "start") /\ files[f] = "present" /\ client
  /\ StoredPath(f) \in disk
  /\ \E s \in 1..MaxStamp : IsFreshStamp(s) /\ Goto(r, "starting", f, NoJob, {}, s)
  /\ UNCHANGED <<dbVars, diskVars, parserVars, aged, serverVars, syncVars>>

\* The parser server creates a job and its id is received.
ParserAccepts(r, j) ==
  /\ At(r, "starting") /\ parser[j] = "unborn"
  /\ parser' = [parser EXCEPT ![j] = "pending"]
  /\ Goto(r, "insert", req[r].file, j, {}, req[r].stamp)
  /\ UNCHANGED <<dbVars, diskVars, raptor, aged, serverVars, syncVars>>

\* The parser server creates a job but its answer never arrives.
ParserAcceptsUnheard(r, j) ==
  /\ At(r, "starting") /\ parser[j] = "unborn" /\ "answer" \in Faults
  /\ parser' = [parser EXCEPT ![j] = "pending"]
  /\ Finish(r)
  /\ UNCHANGED <<dbVars, diskVars, raptor, aged, serverVars, syncVars>>

\* No connection, an error status, no job_id, or the stored file went away.
ParserRefuses(r) ==
  /\ At(r, "starting")
  /\ \/ "answer" \in Faults
     \/ StoredPath(req[r].file) \notin disk
     \/ \A j \in Job : parser[j] # "unborn"
  /\ Finish(r)
  /\ UNCHANGED <<dbVars, diskVars, parserVars, aged, serverVars, syncVars>>

NewRow(f, s) == [file |-> f, status |-> "pending", created |-> s, fails |-> 0,
                 raptor |-> "none", result |-> FALSE]

\* The foreign key makes the INSERT wait for a deletion of its file's row.
StartCommit(r) ==
  /\ At(r, "insert") /\ files[req[r].file] = "present" /\ FileFree(r)
  /\ rows' = [rows EXCEPT ![req[r].job] = NewRow(req[r].file, req[r].stamp)]
  /\ Finish(r)
  /\ UNCHANGED <<files, diskVars, parserVars, aged, serverVars, syncVars>>

\* The file was deleted meanwhile: the foreign key refuses the row.
StartForeignKeyFails(r) ==
  /\ At(r, "insert") /\ files[req[r].file] # "present"
  /\ Finish(r)
  /\ UNCHANGED <<dbVars, diskVars, parserVars, aged, serverVars, syncVars>>

-----------------------------------------------------------------------------
\* parse_service.get_parse_result

\* The latest job is read; an archive already there is returned at once (no
\* state changes, so only the other path is a step).
\* Variant: the status of the job is not checked.
ResultReadAny(r, f, j) ==
  /\ Begins(r, "result") /\ files[f] = "present" /\ IsLatest(j, f) /\ client
  /\ Goto(r, "download", f, j, {}, 0)
  /\ UNCHANGED <<dbVars, diskVars, parserVars, aged, serverVars, syncVars>>
ResultRead(r, f, j) ==
  /\ Begins(r, "result") /\ files[f] = "present" /\ IsLatest(j, f)
  /\ rows[j].status = "completed" /\ ~(rows[j].result /\ j \in zips) /\ client
  /\ Goto(r, "download", f, j, {}, 0)
  /\ UNCHANGED <<dbVars, diskVars, parserVars, aged, serverVars, syncVars>>

ResultDownload(r) ==
  /\ At(r, "download") /\ parser[req[r].job] = "completed"
  /\ zips' = zips \cup {req[r].job}
  /\ Goto(r, "store", req[r].file, req[r].job, {}, 0)
  /\ UNCHANGED <<dbVars, disk, parserVars, aged, serverVars, syncVars>>

\* Variant: an error status of the parser server is not treated as a failure.
ResultDownloadFailsUnheard(r) ==
  /\ At(r, "download") /\ "answer" \in Faults
  /\ Finish(r)
  /\ UNCHANGED <<dbVars, diskVars, parserVars, aged, serverVars, syncVars>>
ResultDownloadFails(r) ==
  /\ At(r, "download") /\ (parser[req[r].job] # "completed" \/ "answer" \in Faults)
  /\ Finish(r)
  /\ UNCHANGED <<dbVars, diskVars, parserVars, aged, serverVars, syncVars>>

\* result_path is written, unless the row went away while downloading.
ResultCommit(r) ==
  /\ At(r, "store")
  /\ Free(req[r].job, r)
  /\ rows' = IF rows[req[r].job] = NoRow THEN rows
             ELSE [rows EXCEPT ![req[r].job] =
                     [rows[req[r].job] EXCEPT !.result = TRUE]]
  /\ Finish(r)
  /\ UNCHANGED <<files, diskVars, parserVars, aged, serverVars, syncVars>>

-----------------------------------------------------------------------------
\* parse_service.retry_raptor

RetryRead(r, f, j) ==
  /\ Begins(r, "retry") /\ files[f] = "present" /\ IsLatest(j, f)
  /\ rows[j].status = "completed" /\ client
  /\ Goto(r, "recall", f, j, {}, 0)
  /\ UNCHANGED <<dbVars, diskVars, parserVars, aged, serverVars, syncVars>>

RetryCall(r) ==
  /\ At(r, "recall") /\ parser[req[r].job] = "completed"
  /\ raptor' = [raptor EXCEPT ![req[r].job] = "processing"]
  /\ Goto(r, "mark", req[r].file, req[r].job, {}, 0)
  /\ UNCHANGED <<dbVars, diskVars, parser, aged, serverVars, syncVars>>

\* The call fails; a lost answer may still have restarted RAPTOR.
RetryCallFails(r) ==
  /\ At(r, "recall")
  /\ \/ parser[req[r].job] # "completed" /\ UNCHANGED raptor
     \/ "answer" \in Faults /\ UNCHANGED raptor
     \/ /\ "answer" \in Faults /\ parser[req[r].job] = "completed"
        /\ raptor' = [raptor EXCEPT ![req[r].job] = "processing"]
  /\ Finish(r)
  /\ UNCHANGED <<dbVars, diskVars, parser, aged, serverVars, syncVars>>

\* raptor_status is written, unless the row went away during the call.
RetryCommit(r) ==
  /\ At(r, "mark")
  /\ Free(req[r].job, r)
  /\ rows' = IF rows[req[r].job] = NoRow THEN rows
             ELSE [rows EXCEPT ![req[r].job] =
                     [rows[req[r].job] EXCEPT !.raptor = "processing"]]
  /\ Finish(r)
  /\ UNCHANGED <<files, diskVars, parserVars, aged, serverVars, syncVars>>

-----------------------------------------------------------------------------
\* file_service.delete_file

\* The file and, with a client, its jobs are read.
DeleteRead(r, f) ==
  /\ Begins(r, "delete") /\ files[f] = "present"
  /\ Goto(r, "forget", f, NoJob, IF client THEN JobsOf(f) ELSE {}, 0)
  /\ UNCHANGED <<dbVars, diskVars, parserVars, aged, serverVars, syncVars>>

\* delete_job for one of them; a failure is logged and the deletion goes on.
\* Variant: after each call the jobs of the file are read again.
DeleteJobRereads(r, j) ==
  /\ At(r, "forget") /\ j \in req[r].todo
  /\ parser' = [parser EXCEPT ![j] = "gone"]
  /\ raptor' = [raptor EXCEPT ![j] = "none"]
  /\ Delete(r, "forget", {k \in JobsOf(req[r].file) : parser[k] # "gone"} \ {j},
            req[r].done \cup {j})
  /\ UNCHANGED <<dbVars, diskVars, aged, serverVars, syncVars>>
DeleteJob(r, j) ==
  /\ At(r, "forget") /\ j \in req[r].todo
  /\ \/ /\ parser' = [parser EXCEPT ![j] = "gone"]
        /\ raptor' = [raptor EXCEPT ![j] = "none"]
     \/ "answer" \in Faults /\ UNCHANGED parserVars
  /\ Delete(r, "forget", req[r].todo \ {j}, req[r].done \cup {j})
  /\ UNCHANGED <<dbVars, diskVars, aged, serverVars, syncVars>>

\* db.delete: the rows of the jobs read before, or else read now, are to be deleted.
DeleteMarks(r) ==
  Delete(r, "erase", IF client THEN req[r].done ELSE JobsOf(req[r].file), {})

\* The bytes go first: where stored_path says, if that is inside UPLOADS_DIR.  Any
\* exception is swallowed.
\* Variant: they are left behind.
DeleteUnlinkForgets(r) ==
  /\ At(r, "forget") /\ req[r].todo = {}
  /\ DeleteMarks(r)
  /\ UNCHANGED <<dbVars, diskVars, parserVars, aged, serverVars, syncVars>>
DeleteUnlink(r) ==
  /\ At(r, "forget") /\ req[r].todo = {}
  /\ \/ uploadDir = "uploads" /\ disk' = disk \ {StoredPath(req[r].file)}
     \/ (uploadDir # "uploads" \/ "unlink" \in Faults) /\ UNCHANGED disk
  /\ DeleteMarks(r)
  /\ UNCHANGED <<dbVars, zips, parserVars, aged, serverVars, syncVars>>

\* Then the rows of the jobs, one by one, each locked or waited for; what the
\* cascade finds as well.
DeleteRow(r, j) ==
  /\ Deletes(r) /\ j \in Wanted(r) /\ Free(j, r)
  /\ Delete(r, req[r].pc, req[r].todo \ {j}, req[r].done \cup {j})
  /\ UNCHANGED <<dbVars, diskVars, parserVars, aged, serverVars, syncVars>>

\* After those that were read comes the row of the file, whose cascade takes the
\* rows that have come meanwhile.
DeleteFileRow(r) ==
  /\ At(r, "erase") /\ req[r].todo = {} /\ FileFree(r)
  /\ Delete(r, "cascade", {}, req[r].done)
  /\ UNCHANGED <<dbVars, diskVars, parserVars, aged, serverVars, syncVars>>

DeleteCommit(r) ==
  /\ At(r, "cascade") /\ JobsOf(req[r].file) \subseteq req[r].done
  /\ files' = [files EXCEPT ![req[r].file] = "deleted"]
  /\ rows' = [j \in Job |-> IF j \in JobsOf(req[r].file) THEN NoRow ELSE rows[j]]
  /\ aged' = aged \ JobsOf(req[r].file)
  /\ Finish(r)
  /\ UNCHANGED <<diskVars, parserVars, serverVars, syncVars>>

\* PostgreSQL finds the deletion in a circle and aborts it: 500.
DeadlockVictim(r) ==
  /\ Deletes(r) /\ InCircle(r)
  /\ Finish(r)
  /\ UNCHANGED <<dbVars, diskVars, parserVars, aged, serverVars, syncVars>>

\* The database refuses the statement or the commit of any handler: 500.
CommitFails(r) ==
  /\ "commit" \in Faults
  /\ req[r].pc \in {"uploaded", "insert", "store", "mark", "erase", "cascade"}
  /\ Finish(r)
  /\ UNCHANGED <<dbVars, diskVars, parserVars, aged, serverVars, syncVars>>

-----------------------------------------------------------------------------
\* The parser server and the clock (external)

ParserPicksUp(j) ==
  /\ parser[j] = "pending"
  /\ parser' = [parser EXCEPT ![j] = "processing"]
  /\ UNCHANGED <<dbVars, diskVars, raptor, aged, serverVars, syncVars, req>>

ParserFinishes(j) ==
  /\ parser[j] = "processing"
  /\ \E s \in {"completed", "failed", "other"} : parser' = [parser EXCEPT ![j] = s]
  /\ raptor' \in IF parser'[j] = "completed" /\ EnableRaptor
                 THEN {raptor, [raptor EXCEPT ![j] = "processing"]}
                 ELSE {raptor}
  /\ UNCHANGED <<dbVars, diskVars, aged, serverVars, syncVars, req>>

ParserRaptor(j) ==
  /\ parser[j] = "completed" /\ raptor[j] = "processing"
  /\ raptor' = [raptor EXCEPT ![j] = "finished"]
  /\ UNCHANGED <<dbVars, diskVars, parser, aged, serverVars, syncVars, req>>

ParserForgets(j) ==
  /\ "lose" \in Faults /\ parser[j] \in Running
  /\ parser' = [parser EXCEPT ![j] = "gone"]
  /\ raptor' = [raptor EXCEPT ![j] = "none"]
  /\ UNCHANGED <<dbVars, diskVars, aged, serverVars, syncVars, req>>

\* 24 hours have passed since the row of j was created.
Ages(j) ==
  /\ rows[j] # NoRow /\ j \notin aged
  /\ aged' = aged \cup {j}
  /\ UNCHANGED <<dbVars, diskVars, parserVars, serverVars, syncVars, req>>

\* The process dies and starts again: requests and the batch are gone, open
\* transactions roll back; the new process may or may not reach the parser
\* server, and keeps that outcome for its whole life; its UPLOAD_DIR may be another.
Restart ==
  /\ restarts < MaxRestarts
  /\ restarts' = restarts + 1
  /\ server' = "starting"
  /\ client' \in BOOLEAN
  /\ uploadDir' \in UploadDirs
  /\ SyncIdle
  /\ req' = [r \in Request |-> Idle]
  /\ UNCHANGED <<dbVars, diskVars, parserVars, aged>>

-----------------------------------------------------------------------------
Init ==
  /\ files = [f \in File |-> "absent"]
  /\ disk = {}
  /\ rows = [j \in Job |-> NoRow]
  /\ zips = {}
  /\ parser = [j \in Job |-> "unborn"]
  /\ raptor = [j \in Job |-> "none"]
  /\ aged = {}
  /\ server = "starting"
  /\ client \in BOOLEAN
  /\ restarts = 0
  /\ uploadDir \in UploadDirs
  /\ phase = "sleep"
  /\ batch = {}
  /\ answer = [j \in Job |-> "none"]
  /\ heard = [j \in Job |-> "none"]
  /\ expired = {}
  /\ draft = [j \in Job |-> NoRow]
  /\ current = NoJob
  /\ req = [r \in Request |-> Idle]

BatchStep ==
  \/ BatchSelect
  \/ SkipCycle
  \/ \E j \in Job : SyncOneJob(j) \/ BatchRead(j)
  \/ BatchDownload
  \/ BatchDownloadFails
  \/ BatchCommit
  \/ BatchAbort

\* A request in flight goes on.
Continues(r) ==
  \/ UploadCommit(r)
  \/ \E j \in Job : ParserAccepts(r, j) \/ ParserAcceptsUnheard(r, j)
  \/ ParserRefuses(r)
  \/ StartCommit(r)
  \/ StartForeignKeyFails(r)
  \/ ResultDownload(r)
  \/ ResultDownloadFails(r)
  \/ ResultCommit(r)
  \/ RetryCall(r)
  \/ RetryCallFails(r)
  \/ RetryCommit(r)
  \/ \E j \in Job : DeleteJob(r, j) \/ DeleteRow(r, j)
  \/ DeleteUnlink(r)
  \/ DeleteFileRow(r)
  \/ DeleteCommit(r)
  \/ DeadlockVictim(r)
  \/ CommitFails(r)

\* A user sends a request.
Arrives(r) ==
  \E f \in File :
    \/ UploadWrite(r, f)
    \/ StartParse(r, f)
    \/ DeleteRead(r, f)
    \/ \E j \in Job : ResultRead(r, f, j) \/ RetryRead(r, f, j)

ParserStep(j) ==
  \/ ParserPicksUp(j)
  \/ ParserFinishes(j)
  \/ ParserRaptor(j)
  \/ ParserForgets(j)

Next ==
  \/ BatchStep
  \/ \E r \in Request : Continues(r) \/ Arrives(r)
  \/ \E j \in Job : ParserStep(j) \/ Ages(j)
  \/ Restart

Spec == Init /\ [][Next]_vars

-----------------------------------------------------------------------------
\* Safety

\* What the parser server must have done before a row may show a status.
Earned(row, j) ==
  /\ parser[j] # "unborn"
  /\ row.status \in {"processing", "timeout"} => parser[j] # "pending"
  /\ row.status = "completed" => parser[j] \in {"completed", "gone"}
  /\ row.status = "failed" => parser[j] \in {"failed", "gone"}
  /\ row.status = "lost" => parser[j] = "gone"
  /\ row.status = "timeout" => j \in aged
  /\ row.status = "error" => row.fails = 3 \/ parser[j] \in {"other", "gone"}

\* The table never runs ahead of the parser server: a status shown to the user
\* was reached there (or, for error and timeout, has the cause the code
\* promises), however old the answer it was computed from
\* (_process_jobs_batch applies answers gathered before it opens its session).
RowsTruthful == \A j \in Job : rows[j] # NoRow => Earned(rows[j], j)

\* A row with a result_path is completed and has its archive on disk: neither an
\* aborted batch nor a download overtaken by a deletion leaves half of an update.
Backed(row, j) == row.result => j \in zips /\ row.status = "completed"
ResultsBacked == \A j \in Job : rows[j] # NoRow => Backed(rows[j], j)

\* No job row outlives its file (the cascade of delete_file), even one that is
\* inserted or updated while the deletion runs.
JobsHaveFiles == \A j \in Job : rows[j] # NoRow => files[rows[j].file] = "present"

\* No update is lost: from the moment a batch has read and changed a row until it
\* commits, nobody else writes that row, although it is locked only from the
\* next statement on (autoflush); a deletion may take it away.
NoLostUpdates ==
  [][\A j \in Job : draft[j] # NoRow /\ rows'[j] # rows[j] => rows'[j] \in {draft[j], NoRow}]_vars

\* A file has bytes where its row says, and without a row none.
Agree(f) ==
  IF files[f] = "present" THEN StoredPath(f) \in disk ELSE BytesOf(f) = {}
\* A handler is between its step on the disk and its commit.
Between(f) ==
  \E r \in Request : req[r].pc \in {"uploaded", "erase", "cascade"} /\ req[r].file = f
Parted(f) == ~Agree(f) /\ ~Between(f)

\* Bytes and row of a file never part unnoticed: only when the process dies, when
\* an upload or a deletion of that file fails in the database (also as the victim of
\* a deadlock, without any fault), or when the bytes are not where the row says or
\* cannot be removed.  upload_file and delete_file touch the disk before they
\* commit, and never take that back.
PartingsExplained == [][
  \A f \in File : ~Parted(f) /\ Parted(f)' =>
    \/ Restart
    \/ \E r \in Request : req[r].file = f /\
         \/ CommitFails(r) \/ DeadlockVictim(r)
         \/ UploadCommit(r) /\ uploadDir # "uploads"
         \/ /\ DeleteCommit(r)
            /\ uploadDir # "uploads" \/ BytesOf(f) \ {StoredPath(f)} # {} \/ "unlink" \in Faults
  ]_vars

\* The refinement mapping.  A job without a row is still to come while its
\* insert may happen, and gone for ever otherwise.
Stage == [j \in Job |->
  IF rows[j] # NoRow THEN rows[j].status
  ELSE IF parser[j] = "unborn" \/ \E r \in Request : At(r, "insert") /\ req[r].job = j
       THEN "none" ELSE "gone"]
Lifecycle == INSTANCE ParseJobLifecycle WITH stage <- Stage

\* The pipeline implements the lifecycle of ParseJobLifecycle: settled statuses
\* are final, processing never falls back to pending, and a deleted job never
\* comes back, although a batch writes rows it read before other tasks ran.
ImplementsLifecycle == Lifecycle!Spec

\* Rejected for the code: deleting a file removes its jobs from the parser
\* server as well, when no call fails (the comment above the delete_job loop of
\* delete_file).  A start_parse under way is not seen by that loop; under CarefulSpec,
\* where there is none, the property holds.
NoUntrackedParserJob ==
  \A j \in Job : parser[j] \in Running /\ rows[j] = NoRow =>
    \E r \in Request : At(r, "insert") /\ req[r].job = j

\* The pipeline whose users never let a start_parse and the deletion of the same
\* file overlap.
StartOverlapsDelete ==
  \E q, r \in Request :
    /\ req[q].pc \in {"starting", "insert"}
    /\ req[r].pc \in {"forget", "erase", "cascade"}
    /\ req[q].file = req[r].file
CarefulSpec == Init /\ [][Next /\ ~StartOverlapsDelete']_vars

-----------------------------------------------------------------------------
\* Progress: what can be said of it without fairness

\* The sync task can go on: each of its awaits has something to come back from
\* (a job still to be answered, a SELECT or a commit, a download), unless its flush
\* waits for a row that a deletion has locked.
BatchReady ==
  \/ phase = "sleep"
  \/ phase = "apply" /\ (~FlushWaits \/ InCircle("sync"))
  \/ phase = "ask" /\ \E j \in batch :
       answer[j] = "none" /\ (parser[j] # "unborn" \/ "answer" \in Faults)
  \/ phase = "fetch" /\ current # NoJob

\* A handler waits for rows that others have locked, and for nothing else.
Waits(r) ==
  /\ ~InCircle(r)
  /\ \/ Wanted(r) # {} /\ \A j \in Wanted(r) : ~Free(j, r)
     \/ At(r, "insert") /\ files[req[r].file] = "present" /\ ~FileFree(r)
     \/ At(r, "erase") /\ req[r].todo = {} /\ ~FileFree(r)

\* Nobody waits for what nobody will give: whoever cannot go on waits for a batch
\* being applied, whose locks go with its commit or abort, or for a deletion, and the
\* sync task only for a deletion of its row's file.  They deadlock only over
\* a file with two jobs, or two deletions of one file do.
Unblocked ==
  /\ ~BatchReady => FlushWaits /\ \E r \in Request : Deletes(r) /\ req[r].file = rows[current].file
  /\ \A r \in Request : Waits(r) =>
       phase \in {"apply", "fetch"} \/ \E q \in Request \ {r} : Deletes(q) /\ req[q].file = req[r].file
  /\ \A r \in Request : Deletes(r) /\ InCircle(r) =>
       \/ \E j, k \in JobsOf(req[r].file) : j # k
       \/ \E q \in Request \ {r} : Deletes(q) /\ req[q].file = req[r].file

\* What BatchReady and Waits say of the actions: without faults, they are
\* exactly the states in which the sync task and a handler can take a step.
GuardsExact ==
  /\ BatchReady <=> ENABLED BatchStep
  /\ \A r \in Request : ~At(r, "idle") /\ ~Waits(r) <=> ENABLED Continues(r)

\* Steps left to the batch at most: one answer for each job, one turn and one
\* download for each, the commit.
Unanswered == {j \in batch : answer[j] = "none"}
BatchLeft ==
  CASE phase = "sleep" -> 0
    [] phase = "ask" -> 2 * Cardinality(batch) + Cardinality(Unanswered) + 2
    [] phase = "apply" -> 2 * Cardinality(batch) + 1
    [] phase = "fetch" -> 2 * Cardinality(batch) + 2

\* Where a request is on its way, and the jobs it still has to deal with there.
StagesLeft(r) ==
  CASE At(r, "idle") -> 0
    [] req[r].pc \in {"uploaded", "insert", "store", "mark", "cascade"} -> 1
    [] req[r].pc \in {"starting", "download", "recall", "erase"} -> 2
    [] At(r, "forget") -> 3
JobsLeft(r) ==
  IF At(r, "cascade") THEN JobsOf(req[r].file) \ req[r].done ELSE req[r].todo

Advances(r) ==
  \/ StagesLeft(r)' < StagesLeft(r)
  \/ /\ StagesLeft(r)' = StagesLeft(r)
     /\ Cardinality(JobsLeft(r))' < Cardinality(JobsLeft(r))
NotPutOff(r) ==
  \/ Advances(r)
  \/ StagesLeft(r)' = StagesLeft(r) /\ Cardinality(JobsLeft(r))' = Cardinality(JobsLeft(r))

\* Every step of a batch or of a request brings its end nearer, and nothing
\* anybody else does puts it off: no handler and no batch repeats a call or
\* takes up the work that arrives while it runs, but for the cascade, which takes
\* the jobs it finds when it begins and to which none can be added then.
WorkShrinks == [][
  /\ phase # "sleep" => BatchLeft' <= BatchLeft /\ (BatchStep => BatchLeft' < BatchLeft)
  /\ \A r \in Request : ~At(r, "idle") => NotPutOff(r) /\ (Continues(r) => Advances(r))
  ]_vars

-----------------------------------------------------------------------------
\* Liveness

\* The event loop runs every task that is ready, every awaited call returns or
\* times out, and PostgreSQL gives a lock to those who wait for it in turn, so that
\* nobody is overtaken for ever; time passes; the parser server takes up what it
\* queued.  Users owe nothing, and the parser server need not ever finish a job.
Fairness ==
  /\ SF_vars(BatchStep)
  /\ \A r \in Request : SF_vars(Continues(r))
  /\ \A j \in Job : WF_vars(ParserPicksUp(j)) /\ WF_vars(Ages(j))
FairSpec == Spec /\ Fairness

\* The parser server finishes what it takes up.
ParserFairness ==
  \A j \in Job : WF_vars(ParserFinishes(j)) /\ WF_vars(ParserRaptor(j))
EagerSpec == FairSpec /\ ParserFairness

Shows(j, statuses) == rows[j] # NoRow /\ rows[j].status \in statuses

\* While there is a client, an active job does not stay active for ever: it
\* settles or is deleted, whatever the parser server does or fails to answer,
\* and although a deletion can throw away the batch that would have settled it.
\* Only users who delete again and again can prevent it, when every time their
\* deletion and the batch deadlock.
ActiveJobsSettle ==
  []<>InCircle("sync") \/ \A j \in Job : Shows(j, Active) ~> (~Shows(j, Active) \/ ~client)

\* Every request is answered: none waits for ever on a row the batch has locked
\* or on another request.
RequestsFinish == \A r \in Request : ~At(r, "idle") ~> At(r, "idle")

\* Startup does not hang in resync_pending_jobs.
ServerStarts == server = "starting" ~> server = "up"

\* Rejected for the code: the RAPTOR status of a job keeps being synchronised
\* ("RAPTOR 상태 동기화" in _process_jobs_batch; get_parse_status leaves it to
\* the background task), so it does not show "processing" for ever when the
\* parser server is done with it.
RaptorSettles ==
  \A j \in Job :
    (Shows(j, {"completed"}) /\ rows[j].raptor = "processing")
      ~> (rows[j] = NoRow \/ rows[j].raptor # "processing" \/ ~client)
=============================================================================
