-------------------------- MODULE WatchedPipeline --------------------------
(***************************************************************************)
(* The parse pipeline with everybody who watches it: the badges of         *)
(* StatusBadge, and the observer of PollHistory.                           *)
(***************************************************************************)
EXTENDS StatusBadge, PollHistory

WatchedInit == BadgeInit /\ HistoryInit

WatchedNext ==
  \/ Next /\ Observe /\ UNCHANGED badge
  \/ (\E r \in Request : RetryAnswered(r)) /\ Observe
  \/ \E f \in File : (ShowRow(f) \/ GetParseStatus(f)) /\ UNCHANGED observed

WatchedSpec ==
  /\ WatchedInit /\ [][WatchedNext]_<<vars, badge, observed>>
  /\ BadgeFairness
=============================================================================
