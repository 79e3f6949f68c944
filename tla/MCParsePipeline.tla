------------------------- MODULE MCParsePipeline -------------------------
(***************************************************************************)
(* Interchangeable files and requests, for runs without liveness; with the *)
(* invariant of the proofs, so that TLC can check it first.                *)
(***************************************************************************)
EXTENDS ParsePipelineProofs, TLC

Symmetry == Permutations(File) \cup Permutations(Request)

\* Bound of the run with two jobs: one deletion at a time.  Two deletions that
\* overlap are in the run with one job.
Deleting == {r \in Request : req[r].pc \in {"forget", "erase", "cascade"}}
OneDeletion == Cardinality(Deleting) <= 1
=============================================================================
