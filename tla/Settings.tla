----------------------------- MODULE Settings -----------------------------
(***************************************************************************)
(* The system settings: the table app_settings, the process-wide _cache    *)
(* that every other component reads, the two endpoints that change them,   *)
(* and the copy that the chat agent (another process) keeps.               *)
(*                                                                         *)
(* upsert_setting selects the row, awaits the commit, and then writes the  *)
(* cache: three steps between which other requests run.                    *)
(***************************************************************************)
EXTENDS Integers

CONSTANTS
  KeyCount,     \* the keys of SETTING_DEFINITIONS, numbered in its order
  Value,        \* what users type, as text
  Number,       \* the values that int() accepts
  Default,      \* the default of each key
  ExpireKey,    \* the key "session_expire_hours"
  Writer,       \* requests that may be in flight at the same time
  Seeded,       \* whether the table holds a row for every key at the start
  Faults,       \* what may fail: "commit", "notify"
  MaxRestarts,  \* bound: how many restarts are explored
  NoRow

Key == 1..KeyCount

ASSUME KeyAssumption == KeyCount \in Nat /\ ExpireKey \in Key
ASSUME ValueAssumption ==
  /\ Number \subseteq Value /\ NoRow \notin Value
  /\ Default \in [Key -> Value] /\ Default[ExpireKey] \in Number
ASSUME InstanceAssumption ==
  Seeded \in BOOLEAN /\ Faults \subseteq {"commit", "notify"} /\ MaxRestarts \in Nat

VARIABLES
  table,     \* app_settings: the value of each key, NoRow without a row
  cache,     \* _cache
  agent,     \* the agent's copy of the settings ...
  fresh,     \* ... and whether it has one, or must read the table first
  unheard,   \* a request ended without its dropping that copy, since it was read
  writer,    \* the requests
  restarts

vars == <<table, cache, agent, fresh, unheard, writer, restarts>>

\* A form gives values to some of the keys; NoRow stands for a key not in it.
Form == [Key -> Value \cup {NoRow}]
NoForm == [k \in Key |-> NoRow]
Named(form) == {k \in Key : form[k] # NoRow}

Idle == [pc |-> "idle", form |-> NoForm, whole |-> FALSE, key |-> ExpireKey, seen |-> NoRow]
WriterState ==
  [pc : {"idle", "select", "save", "refresh", "notify"},
   form : Form,                 \* what is still to be written
   whole : BOOLEAN,             \* batch_update_settings, not update_setting
   key : Key,                   \* the key upsert_setting is called with
   seen : Value \cup {NoRow}]   \* its row as the SELECT found it

TypeOK ==
  /\ table \in Form
  /\ cache \in [Key -> Value]
  /\ agent \in [Key -> Value]
  /\ fresh \in BOOLEAN /\ unheard \in BOOLEAN
  /\ writer \in [Writer -> WriterState]
  /\ restarts \in 0..MaxRestarts

\* load_cache: the defaults, overlaid with the rows.
\* Variant: the rows alone.
LoadedBare == table
Loaded == [k \in Key |-> IF table[k] # NoRow THEN table[k] ELSE Default[k]]

At(w, pc) == writer[w].pc = pc
Goto(w, pc, form, whole, key, seen) ==
  writer' = [writer EXCEPT ![w] =
               [pc |-> pc, form |-> form, whole |-> whole, key |-> key, seen |-> seen]]
Done(w) == writer' = [writer EXCEPT ![w] = Idle]

-----------------------------------------------------------------------------
\* update_setting (one key) and batch_update_settings (the keys of the form),
\* for an administrator: reading the session parses session_expire_hours, so
\* with another value there no request passes require_admin.
Request(w, form, whole) ==
  /\ At(w, "idle") /\ Named(form) # {}
  /\ cache[ExpireKey] \in Number
  /\ Goto(w, "select", form, whole, ExpireKey, NoRow)
  /\ UNCHANGED <<table, cache, agent, fresh, unheard, restarts>>

UpdateSetting(w) ==
  \E k \in Key, v \in Value : Request(w, [NoForm EXCEPT ![k] = v], FALSE)
BatchUpdate(w) == \E form \in Form : Request(w, form, TRUE)

\* upsert_setting: the row is selected (the loop of the batch update takes the
\* keys in the order of SETTING_DEFINITIONS) ...
\* Variant: the cache is written at once, before the value is committed.
SelectRowCaches(w) ==
  /\ At(w, "select")
  /\ \E k \in Named(writer[w].form) :
       /\ \A i \in Named(writer[w].form) : k <= i
       /\ Goto(w, "save", writer[w].form, writer[w].whole, k, table[k])
       /\ cache' = [cache EXCEPT ![k] = writer[w].form[k]]
  /\ UNCHANGED <<table, agent, fresh, unheard, restarts>>
SelectRow(w) ==
  /\ At(w, "select")
  /\ \E k \in Named(writer[w].form) :
       /\ \A i \in Named(writer[w].form) : k <= i
       /\ Goto(w, "save", writer[w].form, writer[w].whole, k, table[k])
  /\ UNCHANGED <<table, cache, agent, fresh, unheard, restarts>>

New(w) == writer[w].form[writer[w].key]

\* ... and written: a new row is inserted, a changed one updated; for the value
\* it had there is no statement at all.
CommitRow(w) ==
  /\ At(w, "save")
  /\ writer[w].seen = NoRow => table[writer[w].key] = NoRow
  /\ table' = IF writer[w].seen = New(w) THEN table
              ELSE [table EXCEPT ![writer[w].key] = New(w)]
  /\ Goto(w, "refresh", writer[w].form, writer[w].whole, writer[w].key, writer[w].seen)
  /\ UNCHANGED <<cache, agent, fresh, unheard, restarts>>

\* The row was inserted by another request meanwhile, or the database fails:
\* 500.  Keys of the form that were committed before stay, unannounced.
CommitRowFails(w) ==
  /\ At(w, "save")
  /\ \/ writer[w].seen = NoRow /\ table[writer[w].key] # NoRow
     \/ "commit" \in Faults
  /\ Done(w)
  /\ unheard' = TRUE
  /\ UNCHANGED <<table, cache, agent, fresh, restarts>>

\* _refresh_cache_key, then the next key of the form.  After the last one the
\* batch update compares session_expire_hours with what it was: 500 if it is
\* not a number.
RefreshCache(w) ==
  LET rest == [writer[w].form EXCEPT ![writer[w].key] = NoRow]
      more == Named(rest) # {}
      refused == writer[w].whole /\ cache'[ExpireKey] \notin Number
  IN /\ At(w, "refresh")
     /\ cache' = [cache EXCEPT ![writer[w].key] = New(w)]
     /\ \/ /\ more
           /\ Goto(w, "select", rest, writer[w].whole, ExpireKey, NoRow)
           /\ UNCHANGED unheard
        \/ /\ ~more /\ ~refused
           /\ Goto(w, "notify", NoForm, FALSE, ExpireKey, NoRow)
           /\ UNCHANGED unheard
        \/ /\ ~more /\ refused
           /\ Done(w)
           /\ unheard' = TRUE
     /\ UNCHANGED <<table, agent, fresh, restarts>>

\* _notify_agent_cache_invalidation: the agent drops its copy; a failure is
\* logged and ignored.
\* Variant: nobody is notified.
NotifyNobody(w) ==
  /\ At(w, "notify")
  /\ Done(w)
  /\ UNCHANGED <<table, cache, agent, fresh, unheard, restarts>>
Notify(w) ==
  /\ At(w, "notify")
  /\ \/ fresh' = FALSE /\ UNCHANGED unheard
     \/ "notify" \in Faults /\ unheard' = TRUE /\ UNCHANGED fresh
  /\ Done(w)
  /\ UNCHANGED <<table, cache, agent, restarts>>

\* The agent reads the settings when it needs them and has no copy (external).
AgentReads ==
  /\ ~fresh
  /\ fresh' = TRUE
  /\ unheard' = FALSE
  /\ agent' = Loaded
  /\ UNCHANGED <<table, cache, writer, restarts>>

\* The process dies and starts again: lifespan loads the cache.
\* Variant: it starts with the defaults.
RestartUnloaded ==
  /\ restarts < MaxRestarts
  /\ restarts' = restarts + 1
  /\ cache' = Default
  /\ writer' = [w \in Writer |-> Idle]
  /\ unheard' = (unheard \/ \E w \in Writer : ~At(w, "idle"))
  /\ UNCHANGED <<table, agent, fresh>>
Restart ==
  /\ restarts < MaxRestarts
  /\ restarts' = restarts + 1
  /\ cache' = Loaded
  /\ writer' = [w \in Writer |-> Idle]
  /\ unheard' = (unheard \/ \E w \in Writer : ~At(w, "idle"))
  /\ UNCHANGED <<table, agent, fresh>>

-----------------------------------------------------------------------------
Init ==
  /\ table = IF Seeded THEN Default ELSE NoForm
  /\ cache = Loaded
  /\ agent = Default
  /\ fresh = FALSE /\ unheard = FALSE
  /\ writer = [w \in Writer |-> Idle]
  /\ restarts = 0

Handles(w) ==
  \/ UpdateSetting(w)
  \/ BatchUpdate(w)
  \/ SelectRow(w)
  \/ CommitRow(w)
  \/ CommitRowFails(w)
  \/ RefreshCache(w)
  \/ Notify(w)

Next == (\E w \in Writer : Handles(w)) \/ AgentReads \/ Restart

Spec == Init /\ [][Next]_vars

\* The system whose users never save the same key at the same time: no request
\* selects a row that another has selected and not yet come to cache.
SavesOverlap ==
  \E v, w \in Writer :
    /\ v # w /\ writer[v].key = writer[w].key
    /\ writer[v].pc \in {"save", "refresh"} /\ writer[w].pc \in {"save", "refresh"}
SerialSpec == Init /\ [][Next /\ ~SavesOverlap']_vars

-----------------------------------------------------------------------------
\* The cache differs from the table only at a key whose request has committed
\* and not yet come back from its await ("refreshed on every write", the comment
\* on _cache).  Holds, whatever fails, while no two requests save the same key at
\* once; for two that do it does not: their commits and their cache writes may
\* happen in opposite orders.
CacheMatchesTable ==
  \A k \in Key : cache[k] # Loaded[k] =>
    \E w \in Writer : At(w, "refresh") /\ writer[w].key = k

\* The cache and the table together are a register that readers see at most one
\* save late: no request commits a value of any key before the one committed
\* earlier is in the cache, a crash in between is made good by load_cache, and
\* readers never get a value that is not stored ("loaded at startup, refreshed on
\* every write").  For one request at a time: two, even for different keys, may
\* both have committed before either has written the cache.
Register == INSTANCE SettingsRegister WITH saved <- Loaded, seen <- cache
ImplementsRegister == Register!Spec

\* Each key for itself is such a register even for many requests, as long as no
\* two save that key at once: what readers get of it is at most one save behind,
\* whatever is saved of the other keys meanwhile.
Of(k, values) == [i \in {k} |-> values[i]]
KeyRegister(k) ==
  INSTANCE SettingsRegister WITH Key <- {k}, saved <- Of(k, Loaded), seen <- Of(k, cache)
KeysAreRegisters ==  \* = \A k \in Key : KeyRegister(k)!Spec
  /\ \A k \in Key : KeyRegister(k)!Init
  /\ [][\A k \in Key : [KeyRegister(k)!Next]_<<Of(k, Loaded), Of(k, cache)>>]_<<Loaded, cache>>

\* A copy of the agent that is out of date will be dropped: a request that is
\* going to notify is still under way.  The exceptions are requests that end
\* without: update_setting and batch_update_settings notify only at their very
\* end, and a failed notification is not repeated.
AgentCatchesUp ==
  fresh /\ agent # Loaded /\ ~unheard => \E w \in Writer : ~At(w, "idle")
=============================================================================
