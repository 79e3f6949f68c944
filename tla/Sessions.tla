----------------------------- MODULE Sessions -----------------------------
(***************************************************************************)
(* Settings together with the sessions whose length one of them sets.      *)
(*                                                                         *)
(* The length of a session is used twice: as the cookie's max_age when it  *)
(* is issued, which the browser obeys, and as the greatest age of the      *)
(* token when a request comes, as the cache has it then.  Every request    *)
(* that changes a setting needs a session itself.                          *)
(***************************************************************************)
EXTENDS Settings

CONSTANTS
  Browser,   \* each with at most one session cookie
  Hours,     \* what int() makes of each Number
  MaxClock,  \* bound: how many hours are explored
  NoCookie

ASSUME SessionsAssumption ==
  /\ Hours \in [Number -> Int] /\ MaxClock \in Nat
  /\ NoCookie \notin [issued : 0..MaxClock, keep : Int]

VARIABLES
  clock,   \* the hours since the start
  cookie   \* the session cookie of each browser: when it was issued, its max_age

sessions == <<clock, cookie>>
Cookie == [issued : 0..MaxClock, keep : Int]

Age(b) == clock - cookie[b].issued
Expires(value) == Hours[value]

\* _session_max_age, in hours; a text there raises.
SessionMaxAge == Expires(cache[ExpireKey])

\* get_session_data: the token is refused when it is older than that.
\* Variant: loads without max_age.
GetSessionDataForever(b) == cookie[b] # NoCookie
GetSessionData(b) ==
  cookie[b] # NoCookie /\ cache[ExpireKey] \in Number /\ Age(b) <= SessionMaxAge

\* require_auth of an account that stays active; sv never changes.
Admitted(b) == GetSessionData(b)

\* login, once authenticate_user has found the account: create_session.  The
\* browser throws a cookie with a max_age of 0 or less away at once.
Login(b) ==
  /\ cache[ExpireKey] \in Number
  /\ cookie' = [cookie EXCEPT ![b] =
       IF SessionMaxAge > 0 THEN [issued |-> clock, keep |-> SessionMaxAge] ELSE NoCookie]
  /\ UNCHANGED <<vars, clock>>

\* logout: clear_session.
Logout(b) ==
  /\ cookie' = [cookie EXCEPT ![b] = NoCookie]
  /\ UNCHANGED <<vars, clock>>

\* An hour passes; browsers drop the cookies past their max_age (external).
Tick ==
  /\ clock < MaxClock
  /\ clock' = clock + 1
  /\ cookie' = [b \in Browser |->
       IF cookie[b] # NoCookie /\ clock + 1 - cookie[b].issued > cookie[b].keep
       THEN NoCookie ELSE cookie[b]]
  /\ UNCHANGED vars

\* require_admin stands before both endpoints that change a setting.
Begun == \E w \in Writer : At(w, "idle") /\ writer'[w].pc # "idle"
SettingsStep ==
  /\ Next
  /\ Begun => \E b \in Browser : Admitted(b)
  /\ UNCHANGED sessions

SessionInit == Init /\ clock = 0 /\ cookie = [b \in Browser |-> NoCookie]

SessionNext ==
  \/ SettingsStep
  \/ \E b \in Browser : Login(b) \/ Logout(b)
  \/ Tick

SessionSpec == SessionInit /\ [][SessionNext]_<<vars, sessions>>

-----------------------------------------------------------------------------
\* A session that is let in is not older than what was promised when it was
\* issued, nor than what the table says now ("값을 줄이면 기존 로그인 세션이 즉시
\* 만료됩니다", the description of session_expire_hours): a lowered value counts at
\* once, restarts included, but for the moment between the commit that lowers it
\* and the cache.
AdmissionsInTime ==
  \A b \in Browser : Admitted(b) =>
    /\ Age(b) <= cookie[b].keep
    /\ \/ Loaded[ExpireKey] \in Number /\ Age(b) <= Expires(Loaded[ExpireKey])
       \/ \E w \in Writer : At(w, "refresh") /\ writer[w].key = ExpireKey

\* Nobody can have a session of this length.  Locked out: that is what is saved,
\* no request that was let in before is still under way, and no session is new
\* enough to pass with an age of 0.
Unusable(value) == value \notin Number \/ Expires(value) <= 0
LockedOut ==
  /\ Unusable(Loaded[ExpireKey])
  /\ \A w \in Writer : At(w, "idle")
  /\ \A b \in Browser : cookie[b] # NoCookie => Age(b) > 0

\* Once such a value of session_expire_hours has been saved, it stays: no session
\* old or new opens the settings page again, and a restart loads the same value.
\* upsert_setting, which checks no value, lets an administrator do that.
NoWayBack == [][LockedOut => LockedOut']_<<vars, sessions>>
=============================================================================
