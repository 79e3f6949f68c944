------------------------ MODULE ParseJobLifecycle ------------------------
(***************************************************************************)
(* What the parse pipeline promises about one parse job, seen from outside *)
(* and without saying how: the statuses of ParseJobStatus and the only     *)
(* moves between them.  ParsePipeline is shown to implement it.            *)
(*                                                                         *)
(* A job is "none" before its row is inserted and "gone" once it can never *)
(* be seen (again): its file was deleted, or the row was never written.    *)
(***************************************************************************)
CONSTANT Job

VARIABLE stage

Settled == {"completed", "failed", "error", "timeout", "lost"}
Stage == {"none", "pending", "processing", "gone"} \cup Settled

\* A job is first shown as pending; a pending one never times out, a settled
\* one only disappears, and a job that is gone never comes back.
Moves ==
       {"none"} \X {"pending", "gone"}
  \cup {"pending"} \X ((Settled \ {"timeout"}) \cup {"processing", "gone"})
  \cup {"processing"} \X (Settled \cup {"gone"})
  \cup Settled \X {"gone"}

Init == stage = [j \in Job |-> "none"]

\* One transaction may move several jobs (a sync batch, a cascading delete),
\* each of them along one edge.
Next ==
  /\ stage' \in [Job -> Stage]
  /\ \A j \in Job : stage'[j] = stage[j] \/ <<stage[j], stage'[j]>> \in Moves

Spec == Init /\ [][Next]_stage
=============================================================================
