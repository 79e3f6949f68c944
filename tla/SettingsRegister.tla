------------------------ MODULE SettingsRegister ------------------------
(***************************************************************************)
(* What the settings promise to the components that read them: one value   *)
(* per key, at most one save behind what is stored.  Settings is shown to  *)
(* implement it as long as requests come one at a time.                    *)
(***************************************************************************)
CONSTANTS Key, Value

VARIABLES
  saved,  \* the stored values
  seen    \* the values that readers get

Init == saved \in [Key -> Value] /\ seen = saved

\* Nothing is saved while readers still have an older value of any key ...
Save ==
  /\ seen = saved
  /\ \E k \in Key, v \in Value : saved' = [saved EXCEPT ![k] = v]
  /\ UNCHANGED seen

\* ... and they never get anything but what is stored.
CatchUp == seen' = saved /\ UNCHANGED saved

Next == Save \/ CatchUp

Spec == Init /\ [][Next]_<<saved, seen>>
=============================================================================
