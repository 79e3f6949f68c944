---------------------------- MODULE StatusBadge ----------------------------
(***************************************************************************)
(* The parse pipeline seen by a user: the badge in the row of each file in *)
(* a browser, which asks for the status of the file's latest job every     *)
(* three seconds until what it shows is final.                             *)
(***************************************************************************)
EXTENDS ParsePipeline

VARIABLE badge  \* for each file, the job a browser shows, as it was then

Bare == [job |-> NoJob, status |-> "none", raptor |-> "none"]
BadgeOf(j) == [job |-> j, status |-> rows[j].status, raptor |-> rows[j].raptor]

\* The condition under which parse_status.html, and file_row.html, ask again.
\* Variant: only while the job is queued.
PollsQueued(b) == b.status = "pending"
Polls(b) == b.status \in Active \/ (b.status = "completed" /\ b.raptor = "processing")

\* The file table is rendered: a page is opened, turned, or answers a request.
ShowRow(f) ==
  /\ server = "up"
  /\ \/ \E j \in Job : IsLatest(j, f) /\ badge' = [badge EXCEPT ![f] = BadgeOf(j)]
     \/ JobsOf(f) = {} /\ badge' = [badge EXCEPT ![f] = Bare]
  /\ UNCHANGED vars

\* get_parse_status: the latest job as the table has it, without the parser
\* server.  When file or job are gone it answers 404, which htmx does not put into
\* the page: the badge stays as it is, and asks again.
\* Variant: what the parser server says is read through.
GetParseStatusThrough(f) ==
  /\ server = "up" /\ files[f] = "present" /\ Polls(badge[f])
  /\ \E j \in Job :
       /\ IsLatest(j, f)
       /\ badge' = [badge EXCEPT ![f] = IF parser[j] \notin Running THEN BadgeOf(j) ELSE
            [BadgeOf(j) EXCEPT !.status = MapParserStatus(parser[j])]]
  /\ UNCHANGED vars
GetParseStatus(f) ==
  /\ server = "up" /\ files[f] = "present" /\ Polls(badge[f])
  /\ \E j \in Job : IsLatest(j, f) /\ badge' = [badge EXCEPT ![f] = BadgeOf(j)]
  /\ UNCHANGED vars

\* retry_raptor answers the page that asked with the badge of its job, which was
\* the latest when the request began.
RetryAnswered(r) ==
  /\ RetryCommit(r)
  /\ rows[req[r].job] # NoRow
  /\ badge' = [badge EXCEPT ![req[r].file] =
                  [BadgeOf(req[r].job) EXCEPT !.raptor = "processing"]]

BadgeInit == Init /\ badge = [f \in File |-> Bare]
BadgeNext ==
  \/ Next /\ UNCHANGED badge
  \/ \E r \in Request : RetryAnswered(r)
  \/ \E f \in File : ShowRow(f) \/ GetParseStatus(f)

\* A page that is open keeps asking (hx-trigger "every 3s").
BadgeFairness == Fairness /\ \A f \in File : WF_<<vars, badge>>(GetParseStatus(f))
BadgeSpec == BadgeInit /\ [][BadgeNext]_<<vars, badge>> /\ BadgeFairness

-----------------------------------------------------------------------------
\* A badge that has stopped asking shows the status its job has for good, or had
\* when it was deleted: it never freezes on a status that was still to change, or
\* that a rolled back batch took back.
StoppedBadgesRight ==
  \A f \in File :
    LET b == badge[f] IN
    b.job # NoJob /\ ~Polls(b) => rows[b.job] = NoRow \/ rows[b.job].status = b.status

\* A badge never goes back: of one job it shows ever later statuses, although they
\* come from the polls and from pages rendered in between; and it turns to another
\* job, or to none, only when that one is newer or its own is deleted.  The answer
\* to a retry_raptor is the exception: a newer job may have come during its call.
Rank(status) == CASE status = "pending" -> 0 [] status = "processing" -> 1 [] OTHER -> 2
Forward(f, old, new) ==
  old.job # NoJob /\ rows[old.job] # NoRow =>
    /\ new.job # NoJob
    /\ new.job = old.job => new.status = old.status \/ Rank(old.status) < Rank(new.status)
    /\ \/ rows[old.job].created <= rows[new.job].created
       \/ \E r \in Request : RetryAnswered(r) /\ req[r].file = f
BadgesMoveForward == [][\A f \in File : Forward(f, badge[f], badge'[f])]_<<vars, badge>>

\* Whoever watches a file being parsed gets to see how it ends, or the file is
\* deleted, or there is no client: the badge asks the table only, so this needs the
\* background task, the parser server's failures and restarts notwithstanding.
BadgesSettle ==
  \A f \in File :
    badge[f].status \in Active
      ~> (badge[f].status \notin Active \/ files[f] = "deleted" \/ ~client)
=============================================================================
