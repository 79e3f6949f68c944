---------------------------- MODULE MCSessions ----------------------------
(***************************************************************************)
(* The default of the two keys and the hours of the three numbers, which a *)
(* .cfg cannot write: a default, a shorter session, and none.              *)
(***************************************************************************)
EXTENDS Sessions

MCDefault == [k \in 1..2 |-> "v1"]
MCHours == [v \in {"v1", "v2", "v3"} |-> CASE v = "v1" -> 2 [] v = "v2" -> 1 [] v = "v3" -> 0]
=============================================================================
