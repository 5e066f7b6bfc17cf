--------------------------- MODULE Session_proofs ---------------------------
(* Theorems about Session, for any users, handlers and validity times.     *)
EXTENDS Session, TLAPS

-----------------------------------------------------------------------------
(* Types.  The bound on timeout moves with the clock, and what a handler   *)
(* works on is a session.                                                  *)

KeyInv == \A h \in Handlers : hd[h].pc # "idle" => hd[h].key \in Sessions

TypeInv == TypeOK /\ KeyInv

LEMMA TypeInit == Init => TypeInv
  BY SessionAssumption DEF Init, TypeInv, TypeOK, KeyInv, HandlerRecords, Idle

LEMMA InsertType ==
  ASSUME TypeOK, NEW k \in Sessions, NEW token \in 0..MaxTokens, Insert(k, token)
  PROVE  /\ timeout' \in [Sessions -> {None} \cup 0..now + SessionValid]
         /\ refresh' \in [Sessions -> 0..MaxTokens]
<1>1. now + SessionValid \in 0..now + SessionValid
  BY SessionAssumption DEF TypeOK
<1>2. CASE Present(k)
  BY <1>2 DEF Insert, TypeOK
<1>3. CASE ~Present(k)
  BY <1>1, <1>3 DEF Insert, TypeOK
<1> QED
  BY <1>2, <1>3

LEMMA EraseType ==
  ASSUME TypeOK, NEW k, Erase(k)
  PROVE  /\ timeout' \in [Sessions -> {None} \cup 0..now + SessionValid]
         /\ refresh' \in [Sessions -> 0..MaxTokens]
  BY DEF Erase, TypeOK

LEMMA StepType ==
  ASSUME TypeInv, NEW h \in Handlers,
         NEW pc \in {"copy", "check", "renew", "add", "erase"},
         (Step(h, pc) /\ hd[h].pc # "idle") \/ Reply(h)
  PROVE  hd' \in [Handlers -> HandlerRecords] /\ KeyInv'
<1>1. hd[h] \in HandlerRecords
  BY DEF TypeInv, TypeOK
<1>2. Idle \in HandlerRecords /\ Idle.pc = "idle"
  BY SessionAssumption DEF Idle, HandlerRecords
<1>3. CASE Reply(h)
  BY <1>2, <1>3 DEF Reply, TypeInv, TypeOK, KeyInv
<1>4. CASE Step(h, pc) /\ hd[h].pc # "idle"
  <2>1. [hd[h] EXCEPT !.pc = pc] \in HandlerRecords
    BY <1>1 DEF HandlerRecords
  <2>2. hd' \in [Handlers -> HandlerRecords]
    BY <1>4, <2>1 DEF Step, TypeInv, TypeOK
  <2>3. KeyInv'
    BY <1>1, <1>4 DEF Step, TypeInv, TypeOK, KeyInv, HandlerRecords
  <2> QED
    BY <2>2, <2>3
<1> QED
  BY <1>3, <1>4

LEMMA HandleType ==
  ASSUME TypeInv, NEW h \in Handlers, Handle(h)
  PROVE  TypeInv'
<1> USE DEF TypeInv
<1>0. hd[h] \in HandlerRecords
  BY DEF TypeOK
<1>1. CASE Copy(h)
  <2>1. PICK token \in 0..MaxTokens : hd' = [hd EXCEPT ![h].pc = "check", ![h].token = token]
    BY <1>1 DEF Copy
  <2>2. [hd[h] EXCEPT !.pc = "check", !.token = token] \in HandlerRecords
    BY <1>0 DEF HandlerRecords
  <2>3. hd' \in [Handlers -> HandlerRecords]
    BY <2>1, <2>2 DEF TypeOK
  <2>4. KeyInv'
    BY <1>0, <1>1, <2>1 DEF Copy, TypeOK, KeyInv, HandlerRecords
  <2> QED
    BY <1>1, <2>3, <2>4 DEF Copy, TypeOK
<1>2. CASE Check(h)
  <2>1. hd' \in [Handlers -> HandlerRecords] /\ KeyInv'
    BY <1>2, StepType DEF Check
  <2> QED
    BY <1>2, <2>1 DEF Check, TypeOK
<1>3. CASE Renew(h)
  <2>1. CASE /\ hd[h].key \in SsoUsers
             /\ hd[h].token = sso[hd[h].key] /\ sso[hd[h].key] < MaxTokens
             /\ sso' = [sso EXCEPT ![hd[h].key] = @ + 1]
             /\ hd' = [hd EXCEPT ![h].pc = "add", ![h].token = @ + 1]
    <3>1. sso[hd[h].key] + 1 \in 0..MaxTokens /\ hd[h].token + 1 \in 0..MaxTokens
      BY <2>1, SessionAssumption DEF TypeOK, Sessions
    <3>2. sso' \in [Sessions -> 0..MaxTokens]
      BY <2>1, <3>1 DEF TypeOK, Sessions
    <3>3. [hd[h] EXCEPT !.pc = "add", !.token = @ + 1] \in HandlerRecords
      BY <1>0, <3>1 DEF HandlerRecords
    <3>4. hd' \in [Handlers -> HandlerRecords]
      BY <2>1, <3>3 DEF TypeOK
    <3>5. KeyInv'
      BY <1>0, <2>1 DEF TypeOK, KeyInv, HandlerRecords, Sessions
    <3> QED
      BY <1>3, <3>2, <3>4, <3>5 DEF Renew, TypeOK
  <2>2. CASE UNCHANGED sso /\ (Reply(h) \/ Step(h, "add"))
    <3>1. hd' \in [Handlers -> HandlerRecords] /\ KeyInv'
      BY <1>3, <2>2, StepType DEF Renew
    <3> QED
      BY <1>3, <2>2, <3>1 DEF Renew, TypeOK
  <2> QED
    BY <1>3, <2>1, <2>2 DEF Renew
<1>4. CASE Add(h)
  <2>1. hd[h].token \in 0..MaxTokens /\ hd[h].key \in Sessions
    BY <1>0, <1>4 DEF Add, KeyInv, HandlerRecords
  <2>2. hd' \in [Handlers -> HandlerRecords] /\ KeyInv'
    BY <1>4, StepType DEF Add
  <2> QED
    BY <1>4, <2>1, <2>2, InsertType DEF Add, TypeOK
<1>5. CASE LogoutErase(h)
  <2>1. hd' \in [Handlers -> HandlerRecords] /\ KeyInv'
    BY <1>5, StepType DEF LogoutErase
  <2>2. hd[h].key \in Sessions
    BY <1>5 DEF LogoutErase, KeyInv
  <2> QED
    BY <1>5, <2>1, <2>2, EraseType DEF LogoutErase, TypeOK
<1> QED
  BY <1>1, <1>2, <1>3, <1>4, <1>5 DEF Handle

LEMMA TypeStep ==
  ASSUME TypeInv, [Next]_vars
  PROVE  TypeInv'
<1> USE DEF TypeInv
<1>1. CASE UNCHANGED vars
  BY <1>1 DEF vars, TypeOK, KeyInv
<1>2. CASE Tick
  <2>1. now' = now + 1 /\ now' \in 0..MaxNow
    BY <1>2, SessionAssumption DEF Tick, TypeOK
  <2>2. 0..now + SessionValid \subseteq 0..now' + SessionValid /\ 0..now \subseteq 0..now'
    BY <2>1, SessionAssumption DEF TypeOK
  <2> QED
    BY <1>2, <2>1, <2>2 DEF Tick, TypeOK, KeyInv
<1>3. CASE Clear
  BY <1>3, EraseType DEF Clear, ClearErase, ClearFind, TypeOK, KeyInv
<1>4. ASSUME NEW k \in Sessions, LoginLocal(k)
      PROVE  TypeInv'
  <2>1. 0 \in 0..MaxTokens /\ now \in 0..now
    BY SessionAssumption DEF TypeOK
  <2> QED
    BY <1>4, <2>1, InsertType DEF LoginLocal, TypeOK, KeyInv
<1>5. ASSUME NEW k \in Sessions, LoginSso(k)
      PROVE  TypeInv'
  <2>1. sso' \in [Sessions -> 0..MaxTokens] /\ sso'[k] \in 0..MaxTokens /\ now \in 0..now
    BY <1>5, SessionAssumption DEF LoginSso, TypeOK
  <2> QED
    BY <1>5, <2>1, InsertType DEF LoginSso, TypeOK, KeyInv
<1>6. ASSUME NEW h \in Handlers, NEW k \in Sessions, Find(h, k)
      PROVE  TypeInv'
  <2>1. [pc |-> "copy", key |-> k, at |-> access[k], token |-> 0] \in HandlerRecords
    <3>1. access[k] \in 0..MaxNow /\ 0 \in 0..MaxTokens
      BY <1>6, SessionAssumption DEF Find, TypeOK
    <3> QED
      BY <3>1 DEF HandlerRecords
  <2> QED
    BY <1>6, <2>1 DEF Find, TypeOK, KeyInv
<1>7. ASSUME NEW h \in Handlers, NEW k \in Sessions, LogoutFind(h, k)
      PROVE  TypeInv'
  <2>1. [pc |-> "erase", key |-> k, at |-> 0, token |-> 0] \in HandlerRecords
    BY SessionAssumption DEF HandlerRecords
  <2> QED
    BY <1>7, <2>1 DEF LogoutFind, TypeOK, KeyInv
<1> QED
  BY <1>1, <1>2, <1>3, <1>4, <1>5, <1>6, <1>7, HandleType DEF Next

(* Type correctness; in particular no session outlives the present by more *)
(* than SESSION_VALID_TIME.                                                *)
THEOREM TypeCorrect == Spec => []TypeOK
<1>1. TypeInv => TypeOK
  BY DEF TypeInv
<1> QED
  BY <1>1, TypeInit, TypeStep, PTL DEF Spec

-----------------------------------------------------------------------------
(* The clearing thread.  What it has found to be expired stays expired:    *)
(* the clock only goes forward and insert never overwrites.  Only a logout *)
(* erases the entry before it does, so no login can replace it unseen.     *)

FoundExpired ==
  \/ clearing = None
  \/ clearing \in out
  \/ Present(clearing) /\ timeout[clearing] < now

ClearInv == TypeInv /\ FoundExpired

LEMMA ClearInit == Init => ClearInv
  BY TypeInit DEF Init, ClearInv, FoundExpired

LEMMA InsertKeeps ==
  ASSUME TypeOK, NEW k \in Sessions, NEW x \in Sessions, NEW token,
         Present(x), Insert(k, token)
  PROVE  timeout'[x] = timeout[x]
  BY DEF TypeOK, Present, Insert

LEMMA ClearStep ==
  ASSUME ClearInv, [Next]_vars
  PROVE  ClearInv'
<1> USE DEF ClearInv, TypeInv
<1>1. now \in Nat /\ clearing \in Sessions \cup {None}
  BY SessionAssumption DEF TypeOK
<1>2. SUFFICES FoundExpired'
  BY TypeStep
<1>3. CASE UNCHANGED vars
  BY <1>3 DEF vars, FoundExpired, Present
<1>4. CASE Tick
  <2>1. ASSUME Present(clearing), clearing \in Sessions, timeout[clearing] < now
        PROVE  timeout[clearing] < now + 1
    <3>1. timeout[clearing] \in Nat
      BY <2>1, SessionAssumption DEF TypeOK, Present
    <3> QED
      BY <1>1, <2>1, <3>1
  <2> QED
    BY <1>1, <1>4, <2>1 DEF Tick, FoundExpired, Present
<1>5. CASE Clear
  BY <1>1, <1>5, SessionAssumption DEF Clear, ClearErase, ClearFind, FoundExpired, Present
<1>6. ASSUME NEW k \in Sessions, NEW token, Insert(k, token), UNCHANGED <<now, clearing, out>>
      PROVE  FoundExpired'
  BY <1>1, <1>6, InsertKeeps DEF FoundExpired, Present
<1>7. ASSUME NEW k \in Sessions, LoginLocal(k) \/ LoginSso(k)
      PROVE  FoundExpired'
  BY <1>6, <1>7 DEF LoginLocal, LoginSso
<1>8. ASSUME NEW h \in Handlers, NEW k \in Sessions, Find(h, k) \/ LogoutFind(h, k)
      PROVE  FoundExpired'
  BY <1>8 DEF Find, LogoutFind, FoundExpired, Present
<1>9. ASSUME NEW h \in Handlers, Handle(h)
      PROVE  FoundExpired'
  <2>1. CASE Add(h)
    BY <1>6, <2>1 DEF Add, KeyInv
  <2>2. CASE Copy(h) \/ Check(h) \/ Renew(h)
    BY <2>2 DEF Copy, Check, Renew, FoundExpired, Present
  <2>3. CASE LogoutErase(h)
    <3>1. CASE clearing = hd[h].key
      BY <2>3, <3>1 DEF LogoutErase, FoundExpired
    <3>2. CASE clearing # hd[h].key
      BY <1>1, <2>3, <3>2 DEF LogoutErase, Erase, FoundExpired, Present, TypeOK
    <3> QED
      BY <3>1, <3>2
  <2> QED
    BY <1>9, <2>1, <2>2, <2>3 DEF Handle
<1> QED
  BY <1>3, <1>4, <1>5, <1>7, <1>8, <1>9 DEF Next

(* The clearing thread ends expired sessions only, however late it comes   *)
(* to erase what it found, for every user who is not logged out by the SSO *)
(* centre.                                                                 *)
THEOREM ClearsExpiredOnly == Spec => NoLiveSessionCleared
<1> DEFINE A == \A k \in Sessions \ out :
                  clearing = k /\ clearing' = None /\ Present(k) => timeout[k] <= now
<1>1. ClearInv => A
  <2>1. ASSUME ClearInv, NEW k \in Sessions \ out, clearing = k
        PROVE  timeout[k] <= now
    <3>1. timeout[k] < now /\ now \in Nat /\ timeout[k] \in Nat
      BY <2>1, SessionAssumption DEF ClearInv, TypeInv, TypeOK, FoundExpired, Present
    <3> QED
      BY <3>1
  <2> QED
    BY <2>1
<1>2. ClearInv /\ [Next]_vars => [A]_vars
  BY <1>1
<1>3. ClearInv /\ [Next]_vars => ClearInv'
  BY ClearStep
<1> QED
  BY <1>2, <1>3, ClearInit, PTL DEF Spec, NoLiveSessionCleared
=============================================================================
