-------------------------- MODULE SessionsProofs --------------------------
(***************************************************************************)
(* Proofs about Sessions: whatever holds of the settings holds with the    *)
(* sessions beside them; from that the cache follows the table, sessions   *)
(* end in time, and a value that locks everybody out stays.                *)
(***************************************************************************)
EXTENDS Sessions, SettingsProofs

\* A browser keeps no cookie that is past its max_age.
CookiesInDate ==
  \A b \in Browser : cookie[b] # NoCookie => cookie[b].keep > 0 /\ Age(b) <= cookie[b].keep

SessionInv ==
  /\ clock \in 0..MaxClock
  /\ cookie \in [Browser -> Cookie \cup {NoCookie}]
  /\ CookiesInDate

LEMMA StepsOfSettings == [SessionNext]_<<vars, sessions>> => [Next]_vars
BY DEF SessionNext, SettingsStep, Login, Logout, Tick

\* Sessions only hold requests back: every run of the settings beside them is a run
\* of Settings, and one in which no two requests save the same key at the same time
\* is one of its SerialSpec.
THEOREM SessionsImplementSettings ==
  /\ SessionSpec => Spec
  /\ SessionSpec /\ []~SavesOverlap => SerialSpec
<1>1. SessionInit => Init
  BY DEF SessionInit
<1> QED BY <1>1, StepsOfSettings, PTL DEF SessionSpec, Spec, SerialSpec

LEMMA SessionInitial == SessionInit => SessionInv
BY SessionsAssumption DEF SessionInit, SessionInv, CookiesInDate

LEMMA LoginKeepsInv ==
  ASSUME TypeOK, SessionInv, NEW b \in Browser, Login(b)
  PROVE  SessionInv'
<1>1. SessionMaxAge \in Int
  BY SessionsAssumption DEF Login, SessionMaxAge, Expires
<1>2. cookie' \in [Browser -> Cookie \cup {NoCookie}] /\ clock' = clock
  BY <1>1 DEF Login, SessionInv, Cookie
<1>3. CookiesInDate'
  BY <1>1, <1>2, SessionsAssumption DEF Login, SessionInv, CookiesInDate, Cookie, Age
<1> QED BY <1>2, <1>3 DEF SessionInv

LEMMA TickKeepsInv == SessionInv /\ Tick => SessionInv'
BY SessionsAssumption DEF SessionInv, CookiesInDate, Cookie, Age, Tick

LEMMA SessionStep ==
  TypeOK /\ SessionInv /\ [SessionNext]_<<vars, sessions>> => SessionInv'
<1> SUFFICES ASSUME TypeOK, SessionInv, [SessionNext]_<<vars, sessions>>
             PROVE  SessionInv'
  OBVIOUS
<1>1. CASE SettingsStep \/ UNCHANGED <<vars, sessions>>
  BY <1>1 DEF SettingsStep, sessions, SessionInv, CookiesInDate, Age
<1>2. ASSUME NEW b \in Browser, Login(b)
      PROVE  SessionInv'
  BY <1>2, LoginKeepsInv
<1>3. ASSUME NEW b \in Browser, Logout(b)
      PROVE  SessionInv'
  BY <1>3 DEF Logout, SessionInv, CookiesInDate, Age
<1>4. CASE Tick
  BY <1>4, TickKeepsInv
<1> QED BY <1>1, <1>2, <1>3, <1>4 DEF SessionNext

LEMMA SessionsSound == SessionSpec => []SessionInv
<1>1. SessionSpec => []TypeOK
  BY SessionsImplementSettings, SettingsTypeCorrect, PTL
<1> QED BY <1>1, SessionInitial, SessionStep, PTL DEF SessionSpec

\* What is proved of the settings holds beside the sessions: the cache follows the
\* table and each key is a register while no two requests save one key, the
\* whole is a register for one request at a time, and the agent catches up.
THEOREM SettingsBesideSessions ==
  /\ SessionSpec => []TypeOK /\ []AgentCatchesUp
  /\ SessionSpec /\ []~SavesOverlap => []CacheMatchesTable /\ KeysAreRegisters
  /\ OneWriter => (SessionSpec => ImplementsRegister)
<1>1. SessionSpec => []TypeOK /\ []AgentCatchesUp
  BY SessionsImplementSettings, SettingsTypeCorrect, AgentFollowsTable, PTL
<1>2. SessionSpec /\ []~SavesOverlap => []CacheMatchesTable /\ KeysAreRegisters
  BY SessionsImplementSettings, CacheFollowsTable, KeysImplementRegisters, PTL
<1>3. ASSUME OneWriter PROVE SessionSpec => ImplementsRegister
  <2>1. Spec => ImplementsRegister
    BY <1>3, SettingsImplementRegister
  <2> QED BY <2>1, SessionsImplementSettings, PTL
<1> QED BY <1>1, <1>2, <1>3

-----------------------------------------------------------------------------
LEMMA InTime == TypeOK /\ SessionInv /\ CacheMatchesTable => AdmissionsInTime
<1> SUFFICES ASSUME TypeOK, SessionInv, CacheMatchesTable, NEW b \in Browser, Admitted(b)
             PROVE  /\ Age(b) <= cookie[b].keep
                    /\ \/ Loaded[ExpireKey] \in Number /\ Age(b) <= Expires(Loaded[ExpireKey])
                       \/ \E w \in Writer : At(w, "refresh") /\ writer[w].key = ExpireKey
  BY DEF AdmissionsInTime
<1>1. Age(b) <= cookie[b].keep
  BY DEF SessionInv, CookiesInDate, Admitted, GetSessionData
<1>2. CASE cache[ExpireKey] = Loaded[ExpireKey]
  BY <1>1, <1>2 DEF Admitted, GetSessionData, SessionMaxAge
<1>3. CASE cache[ExpireKey] # Loaded[ExpireKey]
  BY <1>1, <1>3, KeyAssumption DEF CacheMatchesTable
<1> QED BY <1>2, <1>3

\* While no two requests save the same key at the same time, a lowered
\* session_expire_hours counts as soon as its request has written the cache, for
\* every session there is; no session outlives what it was issued for.
THEOREM SessionsEndInTime == SessionSpec /\ []~SavesOverlap => []AdmissionsInTime
<1>1. SessionSpec /\ []~SavesOverlap => []CacheMatchesTable
  BY SettingsBesideSessions, PTL
<1>2. SessionSpec => []TypeOK
  BY SessionsImplementSettings, SettingsTypeCorrect, PTL
<1> QED BY <1>1, <1>2, SessionsSound, InTime, PTL

-----------------------------------------------------------------------------
\* With nobody let in, nothing begins.
LEMMA NobodyIn ==
  ASSUME TypeOK, SessionInv, CacheMatchesTable, LockedOut, NEW b \in Browser
  PROVE  ~Admitted(b)
<1>1. cache[ExpireKey] = Loaded[ExpireKey]
  BY KeyAssumption DEF CacheMatchesTable, LockedOut, At
<1>2. CASE cookie[b] = NoCookie
  BY <1>2 DEF Admitted, GetSessionData
<1>3. CASE cookie[b] # NoCookie /\ cache[ExpireKey] \in Number
  <2>1. Age(b) > 0 /\ Age(b) \in Int
    BY <1>3, SessionsAssumption DEF LockedOut, Age, SessionInv, Cookie
  <2>2. Hours[cache[ExpireKey]] <= 0 /\ Hours[cache[ExpireKey]] \in Int
    BY <1>1, <1>3, SessionsAssumption DEF LockedOut, Unusable, Expires
  <2> QED BY <2>1, <2>2 DEF Admitted, GetSessionData, SessionMaxAge, Expires
<1>4. CASE cache[ExpireKey] \notin Number
  BY <1>4 DEF Admitted, GetSessionData
<1> QED BY <1>2, <1>3, <1>4

\* The settings stay as they are, and nothing is asked of them.
LEMMA NothingBegins ==
  ASSUME TypeOK, SessionInv, CacheMatchesTable, LockedOut,
         [SessionNext]_<<vars, sessions>>
  PROVE  table' = table /\ \A w \in Writer : At(w, "idle")'
<1>1. CASE SettingsStep
  <2>1. \A w \in Writer : writer'[w].pc = "idle"
    BY <1>1, NobodyIn DEF SettingsStep, Begun, LockedOut
  <2>2. ASSUME NEW w \in Writer, Handles(w)
        PROVE  FALSE
    <3>1. writer[w].pc = "idle" /\ writer[w] \in WriterState /\ writer'[w].pc = "idle"
      BY <2>1 DEF LockedOut, At, TypeOK
    <3>2. ASSUME NEW form \in Form, NEW whole \in BOOLEAN, Request(w, form, whole)
          PROVE  FALSE
      BY <3>1, <3>2 DEF Request, Goto, TypeOK
    <3>3. \A k \in Key, v \in Value : [NoForm EXCEPT ![k] = v] \in Form
      BY DEF NoForm, Form
    <3>4. ~UpdateSetting(w) /\ ~BatchUpdate(w)
      BY <3>2, <3>3 DEF UpdateSetting, BatchUpdate
    <3> QED BY <2>2, <3>1, <3>4 DEF Handles, SelectRow, CommitRow, CommitRowFails, RefreshCache, Notify, At
  <2>3. table' = table
    BY <1>1, <2>2 DEF SettingsStep, Next, AgentReads, Restart
  <2> QED BY <2>1, <2>3 DEF At
<1>2. CASE UNCHANGED vars
  BY <1>2 DEF vars, LockedOut, At
<1> QED BY <1>1, <1>2 DEF SessionNext, Login, Logout, Tick, sessions

\* The sessions there are get older, and no new one can be had.
LEMMA StaysLocked ==
  ASSUME TypeOK, SessionInv, CacheMatchesTable, LockedOut,
         [SessionNext]_<<vars, sessions>>
  PROVE  LockedOut'
<1>1. Unusable(Loaded[ExpireKey])' /\ \A w \in Writer : At(w, "idle")'
  BY NothingBegins DEF LockedOut, Unusable, Expires, Loaded
<1>2. ASSUME NEW b \in Browser, cookie'[b] # NoCookie
      PROVE  Age(b)' > 0
  <2>1. cache[ExpireKey] = Loaded[ExpireKey]
    BY KeyAssumption DEF CacheMatchesTable, LockedOut, At
  <2>2. ASSUME NEW c \in Browser, Login(c)
        PROVE  Age(b)' > 0
    <3>1. ~(SessionMaxAge > 0)
      BY <2>1, <2>2, SessionsAssumption DEF Login, LockedOut, Unusable, Expires, SessionMaxAge
    <3> QED BY <1>2, <2>2, <3>1 DEF Login, LockedOut, Age, SessionInv
  <2>3. ASSUME NEW c \in Browser, Logout(c)
        PROVE  Age(b)' > 0
    BY <1>2, <2>3 DEF Logout, LockedOut, Age, SessionInv
  <2>4. CASE Tick
    BY <1>2, <2>4, SessionsAssumption DEF Tick, LockedOut, Age, SessionInv, Cookie
  <2>5. CASE UNCHANGED sessions
    BY <1>2, <2>5 DEF sessions, LockedOut, Age
  <2> QED BY <2>2, <2>3, <2>4, <2>5 DEF SessionNext, SettingsStep
<1> QED BY <1>1, <1>2 DEF LockedOut

\* While no two requests save the same key at the same time, a
\* session_expire_hours with which nobody can have a session is final: no request
\* gets past require_admin.
THEOREM LockedOutForGood == SessionSpec /\ []~SavesOverlap => NoWayBack
<1>1. SessionSpec /\ []~SavesOverlap => []CacheMatchesTable
  BY SettingsBesideSessions, PTL
<1>2. SessionSpec => []TypeOK
  BY SessionsImplementSettings, SettingsTypeCorrect, PTL
<1>3. TypeOK /\ SessionInv /\ CacheMatchesTable /\ [SessionNext]_<<vars, sessions>>
        => [LockedOut => LockedOut']_<<vars, sessions>>
  BY StaysLocked
<1> QED BY <1>1, <1>2, <1>3, SessionsSound, PTL DEF SessionSpec, NoWayBack
=============================================================================
