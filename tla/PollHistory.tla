--------------------------- MODULE PollHistory ---------------------------
(***************************************************************************)
(* The parse pipeline watched by an observer who counts, for each job, the *)
(* status queries that failed in a row, as they happen.  The program keeps *)
(* that count in retry_failure_count, inside the batch's transaction.      *)
(***************************************************************************)
EXTENDS ParsePipeline

VARIABLES
  misses,    \* the failed queries of each job since the last answered one
  answered,  \* the jobs whose query succeeded in the batch under way
  forgotten  \* the jobs of whose count a success was lost with its batch

Asked(j) == answer[j] = "none" /\ answer'[j] # "none"
Dropped == phase # "sleep" /\ phase' = "sleep" /\ ~BatchCommit

Observe ==
  /\ misses' = [j \in Job |->
       IF ~Asked(j) THEN misses[j]
       ELSE IF answer'[j] # "error" THEN 0
       ELSE IF misses[j] < 3 THEN misses[j] + 1 ELSE 3]
  /\ answered' = IF phase' = "sleep" THEN {}
                 ELSE answered \cup {j \in Job : Asked(j) /\ answer'[j] # "error"}
  /\ forgotten' = {j \in Job :
       /\ rows'[j] # NoRow /\ rows'[j].fails > 0
       /\ j \in forgotten \/ (Dropped /\ j \in answered)}

observed == <<misses, answered, forgotten>>
HistoryInit == misses = [j \in Job |-> 0] /\ answered = {} /\ forgotten = {}
ObservedSpec ==
  /\ Init /\ HistoryInit
  /\ [][Next /\ Observe]_<<vars, observed>>

\* A job ends in error for want of answers only after three failed queries in a
\* row ("3회 연속 상태 조회 실패로 error 상태로 전환", the message _process_jobs_batch
\* stores), unless a batch that had heard an answer was rolled back or lost: that
\* takes back the reset of the count.
ThreeInARow ==
  \A j \in Job : rows[j] # NoRow /\ rows[j].status = "error" /\ rows[j].fails = 3 =>
    misses[j] = 3 \/ j \in forgotten
=============================================================================
