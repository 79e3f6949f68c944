---------------------------- MODULE MCSettings ----------------------------
(***************************************************************************)
(* The default of the two keys, which a .cfg cannot write.                 *)
(***************************************************************************)
EXTENDS Settings

MCDefault == [k \in 1..2 |-> "v1"]
=============================================================================
