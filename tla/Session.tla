------------------------------ MODULE Session ------------------------------
(***************************************************************************)
(* Login sessions (main.cpp, "会话信息").  Container_sessioninfo maps a     *)
(* session id, the MD5 of the user code, to the time the session ends and  *)
(* the SSO refresh token.  HTTP handlers look sessions up, refresh and     *)
(* erase them; a thread of its own erases the expired ones.  Lookups are   *)
(* made without mutex_sessioninfo, so a lookup and the use of what it      *)
(* found are two steps.                                                    *)
(*                                                                         *)
(* Time is counted in units; SessionValid, SessionRefresh stand for        *)
(* SESSION_VALID_TIME and SESSION_REFRESH_TIME.  SESSION_CLEAR_TIME only   *)
(* says how late the clearing may come, which is any time here.            *)
(***************************************************************************)
EXTENDS Naturals

CONSTANTS
  SsoUsers,       (* users of the SSO centre: the same id at every login   *)
  Locals,         (* ids of local logins: a fresh GUID each                *)
  Handlers,       (* HTTP handler threads                                  *)
  None,           (* no session                                            *)
  SessionValid,
  SessionRefresh,
  MaxNow,         (* bound on the time                                     *)
  MaxTokens       (* bound on the refresh tokens the SSO centre issues     *)

Sessions == SsoUsers \cup Locals

ASSUME SessionAssumption ==
  /\ SessionValid \in Nat /\ SessionRefresh \in Nat
  /\ SessionRefresh < SessionValid
  /\ MaxNow \in Nat /\ MaxTokens \in Nat
  /\ None \notin Nat /\ None \notin Sessions

VARIABLES
  now,            (* gettimecount_now()                                    *)
  timeout,        (* Container_sessioninfo[k].timeout_time, or None        *)
  refresh,        (* Container_sessioninfo[k].refresh_token, counted       *)
  sso,            (* the refresh token the SSO centre accepts next         *)
  access,         (* accesstime of the token a login was answered with     *)
  hd,             (* HTTP handlers                                         *)
  clearing,       (* the session the clearing thread is about to erase     *)
  out             (* history: the users ever logged out by the SSO centre  *)

vars == <<now, timeout, refresh, sso, access, hd, clearing, out>>

Idle == [pc |-> "idle", key |-> None, at |-> 0, token |-> 0]

HandlerRecords ==
  [pc : {"idle", "copy", "check", "renew", "add", "erase"},
   key : Sessions \cup {None}, at : 0..MaxNow, token : 0..MaxTokens]

(* A session ends at most SessionValid after the present.                  *)
TypeOK ==
  /\ now \in 0..MaxNow
  /\ timeout \in [Sessions -> {None} \cup 0..now + SessionValid]
  /\ refresh \in [Sessions -> 0..MaxTokens]
  /\ sso \in [Sessions -> 0..MaxTokens]
  /\ access \in [Sessions -> {None} \cup 0..now]
  /\ hd \in [Handlers -> HandlerRecords]
  /\ clearing \in Sessions \cup {None}
  /\ out \subseteq Sessions

Init ==
  /\ now = 0
  /\ timeout = [k \in Sessions |-> None]
  /\ refresh = [k \in Sessions |-> 0]
  /\ sso = [k \in Sessions |-> 0]
  /\ access = [k \in Sessions |-> None]
  /\ hd = [h \in Handlers |-> Idle]
  /\ clearing = None
  /\ out = {}

Present(k) == timeout[k] # None

(* Mutant of Insert: the new validity is counted from the end of the       *)
(* refresh interval.                                                       *)
InsertFurther(k, token) ==
  IF Present(k)
  THEN UNCHANGED <<timeout, refresh>>
  ELSE /\ timeout' = [timeout EXCEPT ![k] = now + SessionRefresh + SessionValid]
       /\ refresh' = [refresh EXCEPT ![k] = token]

(* addsessioninfo: std::map::insert keeps an entry that is already there.  *)
Insert(k, token) ==
  IF Present(k)
  THEN UNCHANGED <<timeout, refresh>>
  ELSE /\ timeout' = [timeout EXCEPT ![k] = now + SessionValid]
       /\ refresh' = [refresh EXCEPT ![k] = token]

Erase(k) ==
  /\ timeout' = [timeout EXCEPT ![k] = None]
  /\ UNCHANGED refresh

Tick ==
  /\ now < MaxNow
  /\ now' = now + 1
  /\ UNCHANGED <<timeout, refresh, sso, access, hd, clearing, out>>

-----------------------------------------------------------------------------
(* Login: getjson_userlogin, for a local user or from the SSO callback.    *)
(* Besides the session, the client gets a token that carries the time.     *)
LoginLocal(k) ==
  /\ k \in Locals /\ access[k] = None
  /\ Insert(k, 0)
  /\ access' = [access EXCEPT ![k] = now]
  /\ UNCHANGED <<now, sso, hd, clearing, out>>

LoginSso(k) ==
  /\ k \in SsoUsers /\ sso[k] < MaxTokens
  /\ sso' = [sso EXCEPT ![k] = @ + 1]
  /\ Insert(k, sso'[k])
  /\ access' = [access EXCEPT ![k] = now]
  /\ UNCHANGED <<now, hd, clearing, out>>

-----------------------------------------------------------------------------
(* A request with a token: getsessioninfo finds the entry ...              *)
Step(h, pc) == hd' = [hd EXCEPT ![h].pc = pc]
Reply(h) == hd' = [hd EXCEPT ![h] = Idle]

Find(h, k) ==
  /\ hd[h].pc = "idle" /\ access[k] # None
  /\ Present(k)
  /\ hd' = [hd EXCEPT ![h] = [pc |-> "copy", key |-> k, at |-> access[k], token |-> 0]]
  /\ UNCHANGED <<now, timeout, refresh, sso, access, clearing, out>>

(* ... and copies it under the mutex.  What an entry erased in between     *)
(* leaves behind is undefined: any token here.                             *)
Copy(h) ==
  /\ hd[h].pc = "copy"
  /\ \E token \in 0..MaxTokens :
       /\ Present(hd[h].key) => token = refresh[hd[h].key]
       /\ hd' = [hd EXCEPT ![h].pc = "check", ![h].token = token]
  /\ UNCHANGED <<now, timeout, refresh, sso, access, clearing, out>>

(* checksession, and whether the token is old enough for a refresh.        *)
Check(h) ==
  /\ hd[h].pc = "check"
  /\ IF Present(hd[h].key) /\ timeout[hd[h].key] > now /\ now > hd[h].at + SessionRefresh
     THEN Step(h, "renew")
     ELSE Reply(h)
  /\ UNCHANGED <<now, timeout, refresh, sso, access, clearing, out>>

(* SSO_gettoken_refresh: the centre takes its latest refresh token only,   *)
(* and answers with the next one; it may also fail.                        *)
Renew(h) ==
  /\ hd[h].pc = "renew"
  /\ \/ /\ hd[h].key \in SsoUsers
        /\ hd[h].token = sso[hd[h].key] /\ sso[hd[h].key] < MaxTokens
        /\ sso' = [sso EXCEPT ![hd[h].key] = @ + 1]
        /\ hd' = [hd EXCEPT ![h].pc = "add", ![h].token = @ + 1]
     \/ hd[h].key \in SsoUsers /\ Reply(h) /\ UNCHANGED sso
     \/ hd[h].key \in Locals /\ Step(h, "add") /\ UNCHANGED sso
  /\ UNCHANGED <<now, timeout, refresh, access, clearing, out>>

(* The extended session is handed to addsessioninfo.                       *)
Add(h) ==
  /\ hd[h].pc = "add"
  /\ Insert(hd[h].key, hd[h].token)
  /\ Reply(h)
  /\ UNCHANGED <<now, sso, access, clearing, out>>

-----------------------------------------------------------------------------
(* The logout callback of the SSO centre: clearsessioninfo finds the entry *)
(* without the mutex and erases it under the mutex.                        *)
LogoutFind(h, k) ==
  /\ hd[h].pc = "idle" /\ k \in SsoUsers
  /\ Present(k)
  /\ hd' = [hd EXCEPT ![h] = [pc |-> "erase", key |-> k, at |-> 0, token |-> 0]]
  /\ UNCHANGED <<now, timeout, refresh, sso, access, clearing, out>>

LogoutErase(h) ==
  /\ hd[h].pc = "erase"
  /\ Erase(hd[h].key)
  /\ out' = out \cup {hd[h].key}
  /\ Reply(h)
  /\ UNCHANGED <<now, sso, access, clearing>>

(* Mutant of ClearFind: timeout_time is taken for the time the session was *)
(* last refreshed.                                                         *)
ClearFindEarly(k) ==
  /\ clearing = None
  /\ Present(k) /\ timeout[k] < now + SessionValid
  /\ clearing' = k
  /\ UNCHANGED <<now, timeout, refresh, sso, access, hd, out>>

(* pthread_clearsession_thread: the test is made without the mutex.        *)
ClearFind(k) ==
  /\ clearing = None
  /\ Present(k) /\ timeout[k] < now
  /\ clearing' = k
  /\ UNCHANGED <<now, timeout, refresh, sso, access, hd, out>>

(* Mutant of ClearErase: the iterator moves on and nothing is erased.      *)
ClearEraseForgets ==
  /\ clearing # None
  /\ clearing' = None
  /\ UNCHANGED <<now, timeout, refresh, sso, access, hd, out>>

ClearErase ==
  /\ clearing # None
  /\ Erase(clearing)
  /\ clearing' = None
  /\ UNCHANGED <<now, sso, access, hd, out>>

Handle(h) == Copy(h) \/ Check(h) \/ Renew(h) \/ Add(h) \/ LogoutErase(h)
Clear == ClearErase \/ \E k \in Sessions : ClearFind(k)

Next ==
  \/ Tick \/ Clear
  \/ \E k \in Sessions : LoginLocal(k) \/ LoginSso(k)
  \/ \E h \in Handlers : Handle(h) \/ \E k \in Sessions : Find(h, k) \/ LogoutFind(h, k)

Spec == Init /\ [][Next]_vars

(* The clearing thread comes round again; handlers end.                    *)
FairSpec == Spec /\ WF_vars(Clear) /\ \A h \in Handlers : WF_vars(Handle(h))

-----------------------------------------------------------------------------
(* The clearing thread never ends a session that checksession would still  *)
(* accept, although it tests and erases in two steps.  The exception is a  *)
(* user the SSO centre has logged out: the entry may have been erased in   *)
(* between, and what the thread holds is then an iterator to nothing, or   *)
(* to the session of the next login.                                       *)
NoLiveSessionCleared ==
  [][\A k \in Sessions \ out :
       clearing = k /\ clearing' = None /\ Present(k) => timeout[k] <= now]_vars

(* An expired session does not stay in the map for ever: the clearing      *)
(* thread finds and erases it, whatever logins and refreshes go on.        *)
ExpiredIsCleared ==
  \A k \in Sessions :
    (Present(k) /\ timeout[k] < now) ~> (~Present(k) \/ timeout[k] >= now)

(* A refresh prolongs the session by SESSION_VALID_TIME: the entry then    *)
(* ends that much after the present ("会话3600秒刷新一次【有效时间延长7000秒】"). *)
RefreshExtends ==
  [][\A h \in Handlers :
       hd[h].pc = "add" /\ hd'[h].pc = "idle" =>
         timeout'[hd[h].key] = now + SessionValid]_vars
=============================================================================
