-------------------------- MODULE SettingsProofs --------------------------
(***************************************************************************)
(* Proofs about Settings: type correctness for every instance, that the    *)
(* cache follows the table unless two requests save the same key at once   *)
(* and each key is a register then, that one request at a time makes both  *)
(* a register of all keys, and that the agent is left with an old copy     *)
(* only by requests that did not notify.                                   *)
(***************************************************************************)
EXTENDS Settings, TLAPS

\* A request that is writing a key has a value for it.
WritersHaveValues ==
  \A w \in Writer : writer[w].pc \in {"save", "refresh"} => New(w) \in Value

TypeInv == TypeOK /\ WritersHaveValues

LEMMA RequestType ==
  ASSUME TypeInv, NEW w \in Writer, NEW form \in Form, NEW whole \in BOOLEAN,
         Request(w, form, whole)
  PROVE  TypeInv'
BY KeyAssumption, ValueAssumption
   DEF TypeInv, TypeOK, WritersHaveValues, New, Request, Goto, WriterState, Idle, Form,
       NoForm, Named, At

LEMMA SelectType ==
  ASSUME TypeInv, NEW w \in Writer, SelectRow(w)
  PROVE  TypeInv'
BY KeyAssumption, ValueAssumption
   DEF TypeInv, TypeOK, WritersHaveValues, New, SelectRow, Goto, WriterState, Form,
       Named, At

LEMMA CommitType ==
  ASSUME TypeInv, NEW w \in Writer, CommitRow(w)
  PROVE  TypeInv'
BY KeyAssumption, ValueAssumption
   DEF TypeInv, TypeOK, WritersHaveValues, New, CommitRow, Goto, WriterState, Form, At

LEMMA DoneType ==
  ASSUME TypeInv, NEW w \in Writer, Done(w), UNCHANGED <<table, cache, agent, restarts>>,
         fresh' \in BOOLEAN, unheard' \in BOOLEAN
  PROVE  TypeInv'
BY KeyAssumption, ValueAssumption
   DEF TypeInv, TypeOK, WritersHaveValues, New, Done, Goto, WriterState, Idle, Form, NoForm

LEMMA RefreshType ==
  ASSUME TypeInv, NEW w \in Writer, RefreshCache(w)
  PROVE  TypeInv'
<1>1. cache' \in [Key -> Value]
  BY DEF TypeInv, TypeOK, WritersHaveValues, RefreshCache, At, WriterState
<1>2. writer' \in [Writer -> WriterState]
  <2> DEFINE rest == [writer[w].form EXCEPT ![writer[w].key] = NoRow]
  <2>1. writer[w].whole \in BOOLEAN /\ rest \in Form /\ NoForm \in Form
    BY DEF TypeInv, TypeOK, WriterState, Form, NoForm
  <2> HIDE DEF rest
  <2>2. \A f \in Form, b \in BOOLEAN :
          /\ [pc |-> "select", form |-> f, whole |-> b, key |-> ExpireKey, seen |-> NoRow] \in WriterState
          /\ [pc |-> "notify", form |-> f, whole |-> b, key |-> ExpireKey, seen |-> NoRow] \in WriterState
          /\ [pc |-> "idle", form |-> f, whole |-> b, key |-> ExpireKey, seen |-> NoRow] \in WriterState
    BY KeyAssumption DEF WriterState
  <2>3. CASE Goto(w, "select", rest, writer[w].whole, ExpireKey, NoRow)
    BY <2>1, <2>2, <2>3 DEF Goto, TypeInv, TypeOK
  <2>4. CASE Goto(w, "notify", NoForm, FALSE, ExpireKey, NoRow)
    BY <2>1, <2>2, <2>4 DEF Goto, TypeInv, TypeOK
  <2>5. CASE Done(w)
    BY <2>1, <2>2, <2>5 DEF Done, Idle, TypeInv, TypeOK
  <2> QED
    BY <2>3, <2>4, <2>5 DEF RefreshCache, rest
<1>3. WritersHaveValues'
  BY DEF TypeInv, TypeOK, WritersHaveValues, New, RefreshCache, Goto, Done, Idle
<1> QED
  BY <1>1, <1>2, <1>3 DEF TypeInv, TypeOK, RefreshCache

LEMMA InitType == Init => TypeInv
<1> SUFFICES ASSUME Init
             PROVE  TypeInv
  OBVIOUS
<1>1. table \in Form /\ Loaded \in [Key -> Value]
  BY ValueAssumption, InstanceAssumption DEF Init, Loaded, Form, NoForm
<1>2. Idle \in WriterState
  BY KeyAssumption DEF Idle, NoForm, WriterState, Form
<1>3. WritersHaveValues
  BY DEF Init, WritersHaveValues, Idle
<1>4. cache \in [Key -> Value] /\ agent \in [Key -> Value] /\ fresh \in BOOLEAN /\ unheard \in BOOLEAN
  BY <1>1, ValueAssumption DEF Init
<1>5. writer \in [Writer -> WriterState]
  BY <1>2 DEF Init
<1>6. restarts \in 0..MaxRestarts
  BY InstanceAssumption DEF Init
<1> QED
  BY <1>1, <1>3, <1>4, <1>5, <1>6 DEF TypeInv, TypeOK

LEMMA NextType == TypeInv /\ [Next]_vars => TypeInv'
<1> SUFFICES ASSUME TypeInv, [Next]_vars
             PROVE  TypeInv'
  OBVIOUS
<1>1. ASSUME NEW w \in Writer, Handles(w)
      PROVE  TypeInv'
  <2>1. CASE UpdateSetting(w)
    <3> PICK k \in Key, v \in Value : Request(w, [NoForm EXCEPT ![k] = v], FALSE)
      BY <2>1 DEF UpdateSetting
    <3>1. [NoForm EXCEPT ![k] = v] \in Form
      BY DEF NoForm, Form
    <3> QED
      BY <3>1, RequestType
  <2>2. CASE BatchUpdate(w)
    BY <2>2, RequestType DEF BatchUpdate
  <2>3. CASE SelectRow(w)
    BY <2>3, SelectType
  <2>4. CASE CommitRow(w)
    BY <2>4, CommitType
  <2>5. CASE CommitRowFails(w)
    BY <2>5, DoneType DEF CommitRowFails, TypeInv, TypeOK
  <2>6. CASE RefreshCache(w)
    BY <2>6, RefreshType
  <2>7. CASE Notify(w)
    BY <2>7, DoneType DEF Notify, TypeInv, TypeOK
  <2> QED
    BY <1>1, <2>1, <2>2, <2>3, <2>4, <2>5, <2>6, <2>7 DEF Handles
<1>2. CASE AgentReads
  BY <1>2, ValueAssumption
     DEF AgentReads, TypeInv, TypeOK, WritersHaveValues, New, Loaded, Form
<1>3. CASE Restart
  BY <1>3, KeyAssumption, ValueAssumption, InstanceAssumption
     DEF Restart, TypeInv, TypeOK, WritersHaveValues, New, Loaded, WriterState, Idle, Form,
         NoForm
<1>4. CASE UNCHANGED vars
  BY <1>4 DEF vars, TypeInv, TypeOK, WritersHaveValues, New
<1> QED
  BY <1>1, <1>2, <1>3, <1>4 DEF Next

LEMMA AlwaysTyped == Spec => []TypeInv
BY InitType, NextType, PTL DEF Spec

\* The settings, their cache and the requests keep their types: _cache holds a
\* value for every key whatever rows the table has (load_cache).
THEOREM SettingsTypeCorrect == Spec => []TypeOK
<1>1. TypeInv => TypeOK
  BY DEF TypeInv
<1> QED
  BY <1>1, AlwaysTyped, PTL

-----------------------------------------------------------------------------
\* No two requests save the same key at once.

\* Nobody else writes the row between the steps of upsert_setting.
RowsAsSeen ==
  \A w \in Writer :
    /\ At(w, "save") => writer[w].seen = table[writer[w].key]
    /\ At(w, "refresh") => table[writer[w].key] = New(w)

CacheInv == TypeInv /\ RowsAsSeen /\ CacheMatchesTable

\* The steps of one request leave the places of the others alone.
LEMMA OthersStay ==
  ASSUME TypeInv, NEW w \in Writer, Handles(w), NEW v \in Writer, v # w
  PROVE  writer'[v] = writer[v]
BY DEF TypeInv, TypeOK, Handles, UpdateSetting, BatchUpdate, Request, SelectRow, CommitRow,
  CommitRowFails, RefreshCache, Notify, Goto, Done

\* A commit changes the row of its own key, which nobody else is saving.
LEMMA CommitKeepsCacheInv ==
  ASSUME CacheInv, ~SavesOverlap, NEW w \in Writer, CommitRow(w)
  PROVE  RowsAsSeen' /\ CacheMatchesTable'
<1> DEFINE k == writer[w].key
<1> USE DEF CacheInv, TypeInv, TypeOK
<1>1. /\ k \in Key /\ At(w, "save") /\ New(w) \in Value
      /\ writer' = [writer EXCEPT ![w] = [pc |-> "refresh", form |-> writer[w].form,
                      whole |-> writer[w].whole, key |-> k, seen |-> writer[w].seen]]
      /\ cache' = cache
      /\ table' = IF writer[w].seen = New(w) THEN table ELSE [table EXCEPT ![k] = New(w)]
  BY DEF CommitRow, At, Goto, WriterState, WritersHaveValues
<1>2. \A v \in Writer : v # w /\ (At(v, "save") \/ At(v, "refresh")) => writer[v].key # k
  BY <1>1 DEF SavesOverlap, At
<1>3. table'[k] = New(w) /\ \A i \in Key : i # k => table'[i] = table[i]
  BY <1>1 DEF RowsAsSeen, At, Form
<1>4. \A v \in Writer : v # w => writer'[v] = writer[v] /\ New(v)' = New(v)
  BY <1>1 DEF New
<1>5. RowsAsSeen'
  <2>1. At(w, "refresh")' /\ ~At(w, "save")' /\ writer'[w].key = k /\ New(w)' = New(w)
    BY <1>1 DEF At, New
  <2>2. ASSUME NEW v \in Writer, v # w
        PROVE  /\ At(v, "save")' => writer'[v].seen = table'[writer'[v].key]
               /\ At(v, "refresh")' => table'[writer'[v].key] = New(v)'
    BY <1>2, <1>3, <1>4, <2>2 DEF RowsAsSeen, At, WriterState
  <2> QED BY <1>3, <2>1, <2>2 DEF RowsAsSeen
<1>6. CacheMatchesTable'
  <2> SUFFICES ASSUME NEW i \in Key, cache'[i] # Loaded'[i]
               PROVE  \E v \in Writer : At(v, "refresh")' /\ writer'[v].key = i
    BY DEF CacheMatchesTable
  <2>1. CASE i = k
    BY <1>1, <2>1 DEF At
  <2>2. CASE i # k
    <3>1. cache[i] # Loaded[i]
      BY <1>1, <1>3, <2>2 DEF Loaded
    <3>2. PICK v \in Writer : At(v, "refresh") /\ writer[v].key = i
      BY <3>1 DEF CacheMatchesTable
    <3> QED BY <1>4, <2>2, <3>2 DEF At
  <2> QED BY <2>1, <2>2
<1> QED BY <1>5, <1>6

\* A request that writes the cache writes what the table still holds.
LEMMA RefreshKeepsCacheInv ==
  ASSUME CacheInv, NEW w \in Writer, RefreshCache(w)
  PROVE  RowsAsSeen' /\ CacheMatchesTable'
<1> DEFINE k == writer[w].key
<1> USE DEF CacheInv, TypeInv, TypeOK
<1>1. /\ k \in Key /\ At(w, "refresh") /\ table' = table
      /\ cache' = [cache EXCEPT ![k] = New(w)]
  BY DEF RefreshCache, At, WriterState
<1>2. Loaded' = Loaded /\ Loaded[k] = New(w)
  BY <1>1, ValueAssumption DEF Loaded, RowsAsSeen, WritersHaveValues, At
<1>3. writer'[w].pc \notin {"save", "refresh"}
  BY DEF RefreshCache, Goto, Done, Idle
<1>4. \A v \in Writer : v # w => writer'[v] = writer[v]
  BY OthersStay DEF Handles
<1>5. RowsAsSeen'
  BY <1>1, <1>3, <1>4 DEF RowsAsSeen, At, New
<1>6. CacheMatchesTable'
  <2> SUFFICES ASSUME NEW i \in Key, cache'[i] # Loaded'[i]
               PROVE  \E v \in Writer : At(v, "refresh")' /\ writer'[v].key = i
    BY DEF CacheMatchesTable
  <2>1. i # k /\ cache[i] # Loaded[i]
    BY <1>1, <1>2
  <2>2. PICK v \in Writer : At(v, "refresh") /\ writer[v].key = i
    BY <2>1 DEF CacheMatchesTable
  <2> QED BY <1>4, <2>1, <2>2 DEF At
<1> QED BY <1>5, <1>6

\* The other steps of a request write neither the table nor the cache.
LEMMA QuietKeepsCacheInv ==
  ASSUME CacheInv, NEW w \in Writer, Handles(w), ~At(w, "refresh"),
         UNCHANGED <<table, cache>>,
         \/ writer'[w].pc \notin {"save", "refresh"}
         \/ /\ writer'[w].pc = "save"
            /\ writer'[w].seen = table[writer'[w].key]
  PROVE  RowsAsSeen' /\ CacheMatchesTable'
<1>1. \A v \in Writer : v # w => writer'[v] = writer[v]
  BY OthersStay DEF CacheInv
<1>2. Loaded' = Loaded
  BY DEF Loaded
<1>3. RowsAsSeen'
  BY <1>1 DEF CacheInv, RowsAsSeen, At, New
<1>4. CacheMatchesTable'
  BY <1>1, <1>2 DEF CacheInv, CacheMatchesTable, At
<1> QED BY <1>3, <1>4

LEMMA CacheStep == CacheInv /\ ~SavesOverlap /\ [Next]_vars => CacheInv'
<1> SUFFICES ASSUME CacheInv, ~SavesOverlap, [Next]_vars
             PROVE  RowsAsSeen' /\ CacheMatchesTable'
  BY NextType DEF CacheInv
<1>1. ASSUME NEW w \in Writer, Handles(w)
      PROVE  RowsAsSeen' /\ CacheMatchesTable'
  <2> USE DEF At, Goto, Done
  <2>1. CASE UpdateSetting(w) \/ BatchUpdate(w)
    <3>1. PICK form, whole : Request(w, form, whole)
      BY <2>1 DEF UpdateSetting, BatchUpdate
    <3> QED BY <1>1, <3>1, QuietKeepsCacheInv DEF Request, CacheInv, TypeInv, TypeOK
  <2>2. CASE SelectRow(w)
    BY <1>1, <2>2, QuietKeepsCacheInv DEF SelectRow, CacheInv, TypeInv, TypeOK
  <2>3. CASE CommitRowFails(w) \/ Notify(w)
    BY <1>1, <2>3, QuietKeepsCacheInv DEF CommitRowFails, Notify, Idle, CacheInv, TypeInv, TypeOK
  <2> QED
    BY <1>1, <2>1, <2>2, <2>3, CommitKeepsCacheInv, RefreshKeepsCacheInv DEF Handles
<1>2. CASE AgentReads \/ UNCHANGED vars
  BY <1>2 DEF AgentReads, vars, CacheInv, RowsAsSeen, CacheMatchesTable, Loaded, New, At
<1>3. CASE Restart
  BY <1>3 DEF Restart, Idle, CacheInv, RowsAsSeen, CacheMatchesTable, Loaded, At
<1> QED BY <1>1, <1>2, <1>3 DEF Next

LEMMA InitCache == Init => CacheInv
BY InitType DEF Init, CacheInv, RowsAsSeen, CacheMatchesTable, At, Idle

LEMMA SerialCache == Spec /\ []~SavesOverlap => []CacheInv
BY InitCache, CacheStep, PTL DEF Spec

\* However many administrators save settings: while no two of them save the same
\* key at the same time, _cache is what app_settings says except between the
\* commit of upsert_setting and its _refresh_cache_key, although any request may
\* fail, or the process die, at any point.  The overlap is the only cause of the
\* divergence that run "settings_cache" finds.
THEOREM CacheFollowsTable == SerialSpec => []CacheMatchesTable
<1>1. Init => ~SavesOverlap
  BY DEF Init, SavesOverlap, Idle
<1>2. ~SavesOverlap /\ [Next /\ ~SavesOverlap']_vars => ~SavesOverlap'
  BY DEF SavesOverlap, vars
<1>3. SerialSpec => Spec /\ []~SavesOverlap
  BY <1>1, <1>2, PTL DEF SerialSpec, Spec
<1>4. CacheInv => CacheMatchesTable
  BY DEF CacheInv
<1> QED BY <1>3, <1>4, SerialCache, PTL

-----------------------------------------------------------------------------
\* One request at a time.

OneWriter == \A v, w \in Writer : v = w

\* One request cannot overlap another.
LEMMA OneWriterSerial == OneWriter => ~SavesOverlap
BY DEF OneWriter, SavesOverlap

\* A step that stores a value finds the cache up to date; a step that writes the
\* cache makes it so.
LEMMA RegisterStep ==
  ASSUME OneWriter, CacheInv, [Next]_vars
  PROVE  [Register!Next]_<<Loaded, cache>>
<1> USE DEF CacheInv, TypeInv, TypeOK, RowsAsSeen, CacheMatchesTable, At
<1>1. Loaded \in [Key -> Value] /\ cache \in [Key -> Value]
  BY ValueAssumption DEF Loaded, Form
<1>2. CASE table' = table /\ cache' = cache
  BY <1>2 DEF Loaded
<1>3. ASSUME NEW w \in Writer, CommitRow(w)
      PROVE  [Register!Next]_<<Loaded, cache>>
  <2> DEFINE k == writer[w].key
  <2>1. cache = Loaded
    <3>1. \A v \in Writer : ~At(v, "refresh")
      BY <1>3 DEF CommitRow, OneWriter
    <3>2. \A i \in Key : cache[i] = Loaded[i]
      BY <3>1
    <3> QED BY <1>1, <3>2
  <2>2. k \in Key /\ New(w) \in Value /\ cache' = cache
    BY <1>3 DEF CommitRow, WritersHaveValues, WriterState
  <2>3. CASE table' = table
    BY <2>2, <2>3 DEF Loaded
  <2>4. CASE table' = [table EXCEPT ![k] = New(w)]
    <3>1. Loaded' = [Loaded EXCEPT ![k] = New(w)]
      BY <2>2, <2>4, ValueAssumption DEF Loaded, Form
    <3> QED BY <2>1, <2>2, <3>1 DEF Register!Next, Register!Save
  <2> QED BY <1>3, <2>3, <2>4 DEF CommitRow
<1>4. ASSUME NEW w \in Writer, RefreshCache(w)
      PROVE  [Register!Next]_<<Loaded, cache>>
  <2>1. table' = table /\ Loaded' = Loaded
    BY <1>4 DEF RefreshCache, Loaded
  <2>2. New(w) \in Value /\ table[writer[w].key] = New(w) /\ writer[w].key \in Key
        /\ cache' = [cache EXCEPT ![writer[w].key] = New(w)]
    BY <1>4 DEF RefreshCache, WritersHaveValues, WriterState
  <2>3. \A k \in Key : k # writer[w].key => cache[k] = Loaded[k]
    BY <1>4 DEF OneWriter
  <2>4. Loaded[writer[w].key] = New(w)
    BY <2>2, ValueAssumption DEF Loaded
  <2>5. cache' = Loaded
    BY <1>1, <2>2, <2>3, <2>4
  <2> QED BY <2>1, <2>5 DEF Register!Next, Register!CatchUp
<1>5. CASE Restart
  <2>1. cache' = Loaded /\ Loaded' = Loaded
    BY <1>5 DEF Restart, Loaded
  <2> QED BY <2>1 DEF Register!Next, Register!CatchUp
<1>6. CASE UNCHANGED vars \/ AgentReads
  BY <1>2, <1>6 DEF vars, AgentReads
<1>7. ASSUME NEW w \in Writer,
             \/ UpdateSetting(w) \/ BatchUpdate(w) \/ SelectRow(w)
             \/ CommitRowFails(w) \/ Notify(w)
      PROVE  [Register!Next]_<<Loaded, cache>>
  BY <1>2, <1>7 DEF UpdateSetting, BatchUpdate, Request, SelectRow, CommitRowFails, Notify
<1> QED
  BY <1>3, <1>4, <1>5, <1>6, <1>7 DEF Next, Handles

\* One request at a time: table and cache are the register that the readers of
\* the settings may rely on, whatever fails.
THEOREM SettingsImplementRegister == OneWriter => (Spec => ImplementsRegister)
<1> SUFFICES ASSUME OneWriter
             PROVE  Spec => ImplementsRegister
  OBVIOUS
<1>1. Init => CacheInv
  BY InitCache
<1>2. CacheInv /\ [Next]_vars => CacheInv'
  BY CacheStep, OneWriterSerial
<1>3. Init => Register!Init
  <2>1. CacheInv => Loaded \in [Key -> Value]
    BY ValueAssumption DEF CacheInv, TypeInv, TypeOK, Loaded, Form
  <2> QED BY <1>1, <2>1 DEF Init, Register!Init
<1>4. CacheInv /\ [Next]_vars => [Register!Next]_<<Loaded, cache>>
  BY RegisterStep
<1> QED
  BY <1>1, <1>2, <1>3, <1>4, PTL DEF Spec, ImplementsRegister, Register!Spec

-----------------------------------------------------------------------------
\* Many requests, no two of them saving the same key at once: key by key.

\* A request that commits a key finds the cache up to date at that key: whoever
\* committed it before has come to its cache write.
LEMMA KeyRegisterStep ==
  ASSUME CacheInv, ~SavesOverlap, [Next]_vars, NEW k \in Key
  PROVE  [KeyRegister(k)!Next]_<<Of(k, Loaded), Of(k, cache)>>
<1> USE DEF CacheInv, TypeInv, TypeOK
<1>1. Loaded \in [Key -> Value] /\ cache \in [Key -> Value]
  BY ValueAssumption DEF Loaded, Form
<1>2. CASE Loaded'[k] = Loaded[k] /\ cache'[k] = cache[k]
  BY <1>2 DEF Of
<1>3. CASE Loaded'[k] = Loaded[k] /\ cache'[k] = Loaded[k]
  BY <1>3 DEF Of, KeyRegister!Next, KeyRegister!CatchUp
<1>4. ASSUME NEW w \in Writer, CommitRow(w)
      PROVE  [KeyRegister(k)!Next]_<<Of(k, Loaded), Of(k, cache)>>
  <2>1. writer[w].key \in Key /\ New(w) \in Value /\ cache' = cache
    BY <1>4 DEF CommitRow, At, WritersHaveValues, WriterState
  <2>2. CASE table' = table \/ writer[w].key # k
    BY <1>2, <1>4, <2>1, <2>2 DEF CommitRow, Loaded, Form
  <2>3. CASE table' = [table EXCEPT ![writer[w].key] = New(w)] /\ writer[w].key = k
    <3>1. cache[k] = Loaded[k]
      BY <1>4, <2>3 DEF CommitRow, At, CacheMatchesTable, SavesOverlap
    <3>2. Loaded'[k] = New(w)
      BY <2>1, <2>3, ValueAssumption DEF Loaded, Form
    <3>3. Of(k, Loaded)' = [Of(k, Loaded) EXCEPT ![k] = New(w)]
      BY <3>2 DEF Of
    <3> QED
      BY <2>1, <3>1, <3>3 DEF Of, KeyRegister!Next, KeyRegister!Save
  <2> QED BY <1>4, <2>2, <2>3 DEF CommitRow
<1>5. ASSUME NEW w \in Writer, RefreshCache(w)
      PROVE  Loaded'[k] = Loaded[k] /\ cache'[k] \in {cache[k], Loaded[k]}
  <2>1. table' = table /\ cache' = [cache EXCEPT ![writer[w].key] = New(w)]
    BY <1>5 DEF RefreshCache
  <2>2. New(w) \in Value /\ table[writer[w].key] = New(w) /\ writer[w].key \in Key
    BY <1>5 DEF RefreshCache, At, RowsAsSeen, WritersHaveValues, WriterState
  <2>3. Loaded[writer[w].key] = New(w)
    BY <2>2, ValueAssumption DEF Loaded
  <2> QED BY <1>1, <2>1, <2>3 DEF Loaded
<1>6. CASE Restart
  BY <1>3, <1>6 DEF Restart, Loaded
<1>7. CASE table' = table /\ cache' = cache
  BY <1>2, <1>7 DEF Loaded
<1>8. ASSUME NEW w \in Writer,
             \/ UpdateSetting(w) \/ BatchUpdate(w) \/ SelectRow(w)
             \/ CommitRowFails(w) \/ Notify(w)
      PROVE  table' = table /\ cache' = cache
  BY <1>8 DEF UpdateSetting, BatchUpdate, Request, SelectRow, CommitRowFails, Notify
<1> QED
  BY <1>2, <1>3, <1>4, <1>5, <1>6, <1>7, <1>8 DEF Next, Handles, vars, AgentReads

\* However many requests and whatever fails: while no two save the same key at
\* once, each key of table and cache is a register whose readers are at most one
\* save behind.
THEOREM KeysImplementRegisters == SerialSpec => KeysAreRegisters
<1>1. Init => CacheInv /\ ~SavesOverlap
  BY InitCache DEF Init, SavesOverlap, Idle
<1>2. CacheInv /\ ~SavesOverlap /\ [Next /\ ~SavesOverlap']_vars => (CacheInv /\ ~SavesOverlap)'
  BY CacheStep DEF SavesOverlap, vars
<1>3. Init => \A k \in Key : KeyRegister(k)!Init
  <2>1. CacheInv => \A k \in Key : Loaded[k] \in Value
    BY ValueAssumption DEF CacheInv, TypeInv, TypeOK, Loaded, Form
  <2> QED BY <1>1, <2>1 DEF Init, Of, KeyRegister!Init
<1>4. CacheInv /\ ~SavesOverlap /\ [Next /\ ~SavesOverlap']_vars =>
        [\A k \in Key : [KeyRegister(k)!Next]_<<Of(k, Loaded), Of(k, cache)>>]_<<Loaded, cache>>
  BY KeyRegisterStep
<1> QED
  BY <1>1, <1>2, <1>3, <1>4, PTL DEF SerialSpec, KeysAreRegisters

-----------------------------------------------------------------------------
\* The agent's copy

AgentInv == TypeInv /\ AgentCatchesUp

LEMMA AgentStep == AgentInv /\ [Next]_vars => AgentInv'
<1> SUFFICES ASSUME AgentInv, [Next]_vars
             PROVE  AgentInv'
  OBVIOUS
<1>0. TypeInv'
  BY NextType DEF AgentInv
<1> USE DEF AgentInv, TypeInv, TypeOK, AgentCatchesUp, At, Goto, Done
<1>1. ASSUME NEW w \in Writer, Handles(w)
      PROVE  AgentInv'
  <2>1. CASE UpdateSetting(w) \/ BatchUpdate(w)
    <3>1. PICK form, whole : Request(w, form, whole)
      BY <2>1 DEF UpdateSetting, BatchUpdate
    <3> QED
      BY <1>0, <3>1 DEF Request, Loaded
  <2>2. CASE SelectRow(w)
    BY <1>0, <2>2 DEF SelectRow, Loaded, Named
  <2>3. CASE CommitRow(w)
    BY <1>0, <2>3 DEF CommitRow, WriterState
  <2>4. CASE CommitRowFails(w)
    BY <1>0, <2>4 DEF CommitRowFails
  <2>5. CASE RefreshCache(w)
    <3>1. writer'[w].pc \in {"select", "notify"} \/ unheard' = TRUE
      BY <2>5 DEF RefreshCache
    <3> QED
      BY <1>0, <3>1
  <2>6. CASE Notify(w)
    BY <1>0, <2>6 DEF Notify
  <2> QED
    BY <1>1, <2>1, <2>2, <2>3, <2>4, <2>5, <2>6 DEF Handles
<1>2. CASE AgentReads
  BY <1>0, <1>2 DEF AgentReads, Loaded
<1>3. CASE Restart
  BY <1>0, <1>3 DEF Restart, Loaded
<1>4. CASE UNCHANGED vars
  BY <1>0, <1>4 DEF vars, Loaded
<1> QED
  BY <1>1, <1>2, <1>3, <1>4 DEF Next

\* However many administrators save settings at the same time, and whatever
\* fails, the agent's copy is out of date only while a request is under way or
\* after one that ended without dropping it: the last notification comes after
\* the last commit.
THEOREM AgentFollowsTable == Spec => []AgentCatchesUp
<1>1. Init => AgentInv
  BY InitType DEF Init, AgentInv, AgentCatchesUp
<1>2. AgentInv => AgentCatchesUp
  BY DEF AgentInv
<1> QED
  BY <1>1, <1>2, AgentStep, PTL DEF Spec
=============================================================================
