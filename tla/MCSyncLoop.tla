----------------------------- MODULE MCSyncLoop -----------------------------
(***************************************************************************)
(* Values of the two settings that a .cfg cannot write.                    *)
(***************************************************************************)
EXTENDS SyncLoop

\* A refused text or negative number, 0, and two limits below the number of jobs.
MCLimits == {-1, 0, 1, 2}
=============================================================================
