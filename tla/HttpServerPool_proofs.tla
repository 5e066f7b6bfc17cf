------------------------ MODULE HttpServerPool_proofs ------------------------
(***************************************************************************)
(* For any number of server threads: nothing is freed under a running      *)
(* thread, a stopped or failed pool leaves nothing behind, a started pool  *)
(* is complete, and only a pool without a thread uses a freed event base.  *)
(***************************************************************************)
EXTENDS HttpServerPool, TLAPS

LEMMA Constants == N \in Nat /\ N > 0 /\ MaxStarts \in Nat /\ Slots = 0..N - 1 /\ 0 \in Slots
  BY PoolAssumption DEF Slots

-----------------------------------------------------------------------------
(* The inductive invariant: what is known of each server at each step of   *)
(* the thread that starts and stops.                                       *)

Serving(i) ==
  th[i] \in {"new", "looping", "handling"} /\ base[i] = "live" /\ http[i] = "live" /\ ~brk[i]
Fresh(i) == th[i] = "none" /\ base[i] = "none" /\ http[i] = "none" /\ ~brk[i]
HalfMade(i) == th[i] = "none" /\ base[i] \in {"none", "live"}
Intact(i) ==
  /\ Alive(i) => base[i] = "live" /\ http[i] = "live"
  /\ ~Alive(i) /\ http[i] = "live" => th[i] = "killed"
Gone(i) == ~Alive(i) /\ base[i] = "none" /\ (http[i] = "live" => th[i] = "killed")
Unused(i) == th[i] = "none" /\ base[i] # "live" /\ http[i] # "live"

InStop == pc \in {"break", "wait", "free"}

Bounds ==
  InStop => /\ arr /\ at < count
            /\ then = "undo" => count < N
            /\ then # "undo" => count = N

IdleInv ==
  pc = "idle" => /\ ~arr => \A i \in Slots : Gone(i)
                 /\ arr /\ ~failed => \A i \in Slots : Serving(i)
                 /\ arr /\ failed => \A i \in Slots : Unused(i)

BeginInv == pc = "begin" => ~arr /\ \A i \in Slots : Gone(i)

StartInv ==
  pc \in {"base", "http", "launch"} =>
    /\ arr
    /\ \A i \in Slots :
         /\ i < at => Serving(i)
         /\ i > at => Fresh(i)
    /\ th[at] = "none" /\ ~brk[at]
    /\ base[at] = (IF pc = "base" THEN "none" ELSE "live")
    /\ http[at] = (IF pc = "launch" THEN "live" ELSE "none")

UndoInv ==
  pc = "undo" => /\ HalfMade(at)
                 /\ \A i \in Slots \ {at} : Gone(i) /\ (arr => th[i] = "none")

StopInv ==
  InStop =>
    \A i \in Slots :
      /\ i < count => Intact(i)
      /\ i = count => HalfMade(i)
      /\ i > count => Gone(i)
      /\ pc = "wait" /\ at < i /\ i < count => ~Alive(i)
      /\ pc = "free" /\ i < count => ~Alive(i)
      /\ pc = "free" /\ at < i /\ i < count => base[i] = "none"

DanglingInv == (\E i \in Slots : base[i] = "dangling") => \A k \in Slots : th[k] = "none"

CrashInv == pc = "crashed" => \A i \in Slots : th[i] = "none"

PoolInv ==
  /\ TypeOK /\ Bounds
  /\ IdleInv /\ BeginInv /\ StartInv /\ UndoInv /\ StopInv /\ DanglingInv /\ CrashInv

LEMMA PoolInit == Init => PoolInv
<1> SUFFICES ASSUME Init PROVE PoolInv
  OBVIOUS
<1>1. pc = "idle" /\ at = 0 /\ count = 0 /\ then = "idle" /\ arr = FALSE /\ failed = FALSE /\ starts = 0
  BY DEF Init
<1>2. pc \in Steps /\ at \in Slots /\ count \in 0..N /\ then \in {"idle", "begin", "undo"}
  BY <1>1, Constants DEF Steps
<1>a. arr \in BOOLEAN /\ failed \in BOOLEAN
  BY <1>1
<1>3. starts \in 0..MaxStarts
  BY <1>1, Constants
<1>4. \A i \in Slots : th[i] = "none" /\ base[i] = "none" /\ http[i] = "none"
  BY DEF Init
<1>5. /\ base \in [Slots -> {"none", "live", "dangling"}]
      /\ http \in [Slots -> {"none", "live", "dangling"}]
      /\ brk \in [Slots -> BOOLEAN]
      /\ th \in [Slots -> {"none", "new", "looping", "handling", "leaving", "done", "killed"}]
  BY DEF Init
<1>6. TypeOK
  BY <1>2, <1>a, <1>3, <1>5 DEF TypeOK
<1> QED
  BY <1>1, <1>4, <1>6
     DEF PoolInv, Bounds, InStop, IdleInv, Gone, Alive, BeginInv, StartInv, UndoInv, StopInv,
         DanglingInv, CrashInv

-----------------------------------------------------------------------------
(* Steps of the thread that starts and stops                               *)

LEMMA CallStartStep == ASSUME PoolInv, CallStart PROVE PoolInv'
<1> USE Constants DEF PoolInv
<1>1. UNCHANGED <<arr, base, http, brk, th, failed>>
  BY DEF CallStart, slots
<1>2. pc = "idle" /\ pc' \in {"break", "begin"} /\ (pc' = "begin" <=> ~arr)
  BY DEF CallStart, Stop, Go, TypeOK
<1>3. TypeOK'
  BY <1>1 DEF TypeOK, CallStart, Stop, Go, Steps
<1>4. (Bounds /\ StopInv)'
  BY <1>1, <1>2 DEF Bounds, StopInv, InStop, CallStart, Stop, Go, IdleInv, Intact, Alive, Serving, Unused, TypeOK
<1>5. (BeginInv /\ DanglingInv)'
  BY <1>1, <1>2 DEF BeginInv, IdleInv, Gone, Alive, DanglingInv
<1> QED
  BY <1>2, <1>3, <1>4, <1>5 DEF IdleInv, StartInv, UndoInv, CrashInv

LEMMA CallStopStep == ASSUME PoolInv, CallStop PROVE PoolInv'
<1> USE Constants DEF PoolInv
<1>1. UNCHANGED <<arr, base, http, brk, th, failed>>
  BY DEF CallStop, slots
<1>2. pc = "idle" /\ pc' = "break" /\ arr
  BY DEF CallStop, Stop
<1>3. TypeOK'
  BY <1>1 DEF TypeOK, CallStop, Stop, Steps
<1>4. (Bounds /\ StopInv)'
  BY <1>1, <1>2 DEF Bounds, StopInv, InStop, CallStop, Stop, IdleInv, Intact, Alive, Serving, Unused, TypeOK
<1>5. DanglingInv'
  BY <1>1 DEF DanglingInv
<1> QED
  BY <1>2, <1>3, <1>4, <1>5 DEF IdleInv, BeginInv, StartInv, UndoInv, CrashInv

LEMMA BeginStep == ASSUME PoolInv, Begin PROVE PoolInv'
<1> USE Constants DEF PoolInv
<1>1. pc' \in {"base", "idle"} /\ (pc' = "idle" => failed') /\ at' = 0 /\ arr' = TRUE
  BY DEF Begin, Go, Return
<1>2. \A i \in Slots : Fresh(i)'
  BY DEF Begin, Fresh
<1>3. /\ base' \in [Slots -> {"none", "live", "dangling"}]
      /\ http' \in [Slots -> {"none", "live", "dangling"}]
      /\ brk' \in [Slots -> BOOLEAN]
      /\ th' \in [Slots -> {"none", "new", "looping", "handling", "leaving", "done", "killed"}]
  BY DEF Begin
<1>a. arr' \in BOOLEAN /\ failed' \in BOOLEAN
  BY DEF Begin, TypeOK
<1>b. pc' \in Steps /\ at' \in Slots /\ count' = 0 /\ then' = "idle" /\ starts' = starts
  BY DEF Begin, Go, Return, Steps
<1>4. TypeOK'
  BY <1>3, <1>a, <1>b DEF TypeOK
<1>5. (IdleInv /\ StartInv /\ DanglingInv)'
  BY <1>1, <1>2 DEF IdleInv, StartInv, DanglingInv, Fresh, Unused
<1> QED
  BY <1>1, <1>4, <1>5 DEF Bounds, InStop, BeginInv, UndoInv, StopInv, CrashInv

(* Giving up server at, with nothing changed by the step itself.           *)
LEMMA GiveUpStep ==
  ASSUME PoolInv, pc \in {"base", "http", "launch"}, GiveUp(at),
         UNCHANGED <<arr, slots, failed, starts>>
  PROVE  PoolInv'
<1> USE Constants DEF PoolInv
<1>1. UNCHANGED <<arr, base, http, brk, th, failed, starts>>
  BY DEF slots
<1>2. arr /\ pc' \in {"undo", "break"}
  BY DEF StartInv, GiveUp, Go, Stop
<1>3. TypeOK'
  BY <1>1 DEF TypeOK, GiveUp, Go, Stop, Steps
<1>4. CASE at < 1
  <2>1. pc' = "undo" /\ at' = at /\ \A i \in Slots \ {at} : i > at
    BY <1>4 DEF GiveUp, Go, TypeOK
  <2>2. UndoInv'
    BY <1>1, <2>1 DEF UndoInv, StartInv, Fresh, Gone, Alive, HalfMade
  <2>3. DanglingInv'
    BY <1>1 DEF DanglingInv
  <2> QED
    BY <1>3, <2>1, <2>2, <2>3 DEF Bounds, InStop, IdleInv, BeginInv, StartInv, StopInv, CrashInv
<1>5. CASE ~(at < 1)
  <2>1. pc' = "break" /\ at' = at - 1 /\ count' = at /\ then' = "undo"
    BY <1>5 DEF GiveUp, Stop
  <2>2. Bounds'
    BY <1>1, <1>2, <2>1 DEF Bounds, InStop, TypeOK
  <2>3. \A i \in Slots : /\ i < at => Intact(i)
                         /\ i = at => HalfMade(i)
                         /\ i > at => Gone(i)
    BY DEF StartInv, Serving, Intact, Alive, HalfMade, Fresh, Gone
  <2>4. StopInv'
    BY <1>1, <2>1, <2>3 DEF StopInv, Intact, HalfMade, Gone, Alive
  <2>5. DanglingInv'
    BY <1>1 DEF DanglingInv
  <2> QED
    BY <1>3, <2>1, <2>2, <2>4, <2>5 DEF IdleInv, BeginInv, StartInv, UndoInv, CrashInv
<1> QED
  BY <1>4, <1>5

LEMMA MakeBaseStep == ASSUME PoolInv, MakeBase PROVE PoolInv'
<1> USE Constants DEF PoolInv
<1>1. CASE GiveUp(at) /\ UNCHANGED base
  BY <1>1, GiveUpStep DEF MakeBase, slots
<1>2. CASE base' = [base EXCEPT ![at] = "live"] /\ Go("http", at)
  <2>1. /\ pc = "base" /\ pc' = "http" /\ at' = at /\ UNCHANGED <<arr, http, brk, th>>
        /\ base'[at] = "live" /\ \A i \in Slots \ {at} : base'[i] = base[i]
    BY <1>2 DEF MakeBase, Go, TypeOK
  <2>2. TypeOK'
    BY <1>2 DEF TypeOK, MakeBase, Go, Steps
  <2>3. (StartInv /\ DanglingInv)'
    BY <2>1 DEF StartInv, DanglingInv, Serving, Fresh, TypeOK
  <2> QED
    BY <2>1, <2>2, <2>3 DEF Bounds, InStop, IdleInv, BeginInv, UndoInv, StopInv, CrashInv
<1> QED
  BY <1>1, <1>2 DEF MakeBase

LEMMA MakeHttpStep == ASSUME PoolInv, MakeHttp PROVE PoolInv'
<1> USE Constants DEF PoolInv
<1>1. CASE GiveUp(at) /\ UNCHANGED http
  BY <1>1, GiveUpStep DEF MakeHttp, slots
<1>2. CASE http' = [http EXCEPT ![at] = "live"] /\ Go("launch", at)
  <2>1. /\ pc = "http" /\ pc' = "launch" /\ at' = at /\ UNCHANGED <<arr, base, brk, th>>
        /\ http'[at] = "live" /\ \A i \in Slots \ {at} : http'[i] = http[i]
    BY <1>2 DEF MakeHttp, Go, TypeOK
  <2>2. TypeOK'
    BY <1>2 DEF TypeOK, MakeHttp, Go, Steps
  <2>3. (StartInv /\ DanglingInv)'
    BY <2>1 DEF StartInv, DanglingInv, Serving, Fresh, TypeOK
  <2> QED
    BY <2>1, <2>2, <2>3 DEF Bounds, InStop, IdleInv, BeginInv, UndoInv, StopInv, CrashInv
<1> QED
  BY <1>1, <1>2 DEF MakeHttp

LEMMA LaunchStep == ASSUME PoolInv, Launch PROVE PoolInv'
<1> USE Constants DEF PoolInv
<1>1. CASE GiveUp(at) /\ UNCHANGED <<th, failed>>
  BY <1>1, GiveUpStep DEF Launch, slots
<1>2. CASE /\ th' = [th EXCEPT ![at] = "new"]
           /\ IF at + 1 < N
              THEN Go("base", at + 1) /\ UNCHANGED failed
              ELSE Return /\ failed' = FALSE
  <2>1. /\ pc = "launch" /\ UNCHANGED <<arr, base, http, brk>> /\ arr
        /\ th'[at] = "new" /\ \A i \in Slots \ {at} : th'[i] = th[i]
        /\ at \in 0..N - 1
    BY <1>2 DEF Launch, StartInv, TypeOK
  <2>a. failed' \in BOOLEAN
    BY <1>2 DEF TypeOK
  <2>b. pc' \in Steps /\ at' \in Slots /\ count' = 0 /\ then' = "idle" /\ starts' = starts
    BY <1>2, <2>1 DEF Launch, Go, Return, Steps
  <2>c. th' \in [Slots -> {"none", "new", "looping", "handling", "leaving", "done", "killed"}]
    BY <1>2 DEF TypeOK
  <2>2. TypeOK'
    BY <2>1, <2>a, <2>b, <2>c DEF TypeOK
  <2>3. \A i \in Slots : /\ i <= at => Serving(i)'
                         /\ i > at => Fresh(i)'
    BY <2>1 DEF StartInv, Serving, Fresh
  <2>4. DanglingInv'
    <3>1. \A i \in Slots : base'[i] # "dangling"
      BY <2>1, <2>3 DEF Serving, Fresh
    <3> QED
      BY <3>1 DEF DanglingInv
  <2>5. CASE at + 1 < N
    <3>1. pc' = "base" /\ at' = at + 1 /\ at' \in Slots
      BY <1>2, <2>1, <2>5 DEF Go
    <3>2. StartInv'
      BY <2>1, <2>3, <3>1 DEF StartInv, Fresh
    <3> QED
      BY <2>2, <2>4, <3>1, <3>2 DEF Bounds, InStop, IdleInv, BeginInv, UndoInv, StopInv, CrashInv
  <2>6. CASE ~(at + 1 < N)
    <3>1. pc' = "idle" /\ failed' = FALSE /\ \A i \in Slots : i <= at
      BY <1>2, <2>1, <2>6 DEF Return, Go
    <3>2. IdleInv'
      BY <2>1, <2>3, <3>1 DEF IdleInv
    <3> QED
      BY <2>2, <2>4, <3>1, <3>2 DEF Bounds, InStop, StartInv, BeginInv, UndoInv, StopInv, CrashInv
  <2> QED
    BY <2>5, <2>6
<1> QED
  BY <1>1, <1>2 DEF Launch

LEMMA UndoStep == ASSUME PoolInv, Undo PROVE PoolInv'
<1> USE Constants DEF PoolInv
<1>1. /\ pc = "undo" /\ pc' = "idle" /\ failed' = TRUE /\ UNCHANGED <<arr, brk, th>>
      /\ \A i \in Slots \ {at} : base'[i] = base[i] /\ http'[i] = http[i]
  BY DEF Undo, Return, Go, TypeOK
<1>2. /\ base'[at] = IF base[at] = "live" THEN IF arr THEN "dangling" ELSE "none" ELSE base[at]
      /\ http'[at] = IF http[at] = "live" THEN IF arr THEN "dangling" ELSE "none" ELSE http[at]
      /\ at \in Slots
  BY DEF Undo, TypeOK
<1>3. TypeOK'
  <2>1. /\ base' \in [Slots -> {"none", "live", "dangling"}]
        /\ http' \in [Slots -> {"none", "live", "dangling"}]
    BY DEF TypeOK, Undo
  <2> QED
    BY <1>1, <2>1 DEF TypeOK, Undo, Return, Go, Steps
<1>4. HalfMade(at) /\ \A i \in Slots \ {at} : Gone(i) /\ (arr => th[i] = "none")
  BY <1>1 DEF UndoInv
<1>5. IdleInv'
  BY <1>1, <1>2, <1>4 DEF IdleInv, HalfMade, Gone, Alive, Unused
<1>6. DanglingInv'
  <2>1. CASE arr
    BY <1>1, <1>4, <2>1 DEF DanglingInv, HalfMade
  <2>2. CASE ~arr
    BY <1>1, <1>2, <1>4, <2>2 DEF DanglingInv, HalfMade, Gone
  <2> QED
    BY <2>1, <2>2
<1> QED
  BY <1>1, <1>3, <1>5, <1>6 DEF Bounds, InStop, BeginInv, StartInv, UndoInv, StopInv, CrashInv

LEMMA BreakStep == ASSUME PoolInv, Break PROVE PoolInv'
<1> USE Constants DEF PoolInv
<1>1. pc = "break" /\ UNCHANGED <<arr, base, http, th, failed, starts>> /\ arr /\ at < count
  BY DEF Break, Bounds, InStop
<1>2. DanglingInv'
  BY <1>1 DEF DanglingInv
<1>3. CASE base[at] = "dangling"
  <2>1. pc' = "crashed" /\ at' = at /\ count' = 0 /\ then' = "idle" /\ brk' = brk
    BY <1>3 DEF Break, Go
  <2>2. TypeOK'
    BY <1>1, <2>1 DEF TypeOK, Steps
  <2>3. CrashInv'
    BY <1>1, <1>3 DEF CrashInv, DanglingInv, TypeOK
  <2> QED
    BY <1>2, <2>1, <2>2, <2>3 DEF Bounds, InStop, IdleInv, BeginInv, StartInv, UndoInv, StopInv
<1>4. CASE base[at] # "dangling"
  <2>1. Onward("wait") /\ brk' = [brk EXCEPT ![at] = (base[at] = "live") \/ @]
    BY <1>4 DEF Break
  <2>2. /\ pc' \in {"break", "wait"} /\ at' \in Slots /\ at' < count /\ UNCHANGED <<count, then>>
        /\ pc' = "wait" => at' = count - 1
    BY <1>1, <2>1 DEF Onward, TypeOK
  <2>3. TypeOK'
    <3>1. brk' \in [Slots -> BOOLEAN]
      BY <2>1 DEF TypeOK
    <3> QED
      BY <1>1, <2>2, <3>1 DEF TypeOK, Steps
  <2>4. Bounds'
    BY <1>1, <2>2 DEF Bounds, InStop
  <2>5. StopInv'
    BY <1>1, <2>2 DEF StopInv, InStop, Intact, HalfMade, Gone, Alive, TypeOK
  <2> QED
    BY <1>2, <2>2, <2>3, <2>4, <2>5 DEF IdleInv, BeginInv, StartInv, UndoInv, CrashInv
<1> QED
  BY <1>3, <1>4

LEMMA WaitStep == ASSUME PoolInv, Wait PROVE PoolInv'
<1> USE Constants DEF PoolInv
<1>1. pc = "wait" /\ UNCHANGED <<arr, base, http, brk, failed, starts>> /\ arr /\ at < count
  BY DEF Wait, Bounds, InStop
<1>2. /\ pc' \in {"wait", "free"} /\ at' \in Slots /\ at' < count /\ UNCHANGED <<count, then>>
      /\ pc' = "free" => at' = count - 1 /\ at = 0
      /\ pc' = "wait" => at' = at - 1
  BY <1>1 DEF Wait, Onward, TypeOK
<1>3. /\ \A i \in Slots \ {at} : th'[i] = th[i]
      /\ th'[at] = IF Alive(at) THEN "killed" ELSE th[at]
  BY DEF Wait, TypeOK
<1>4. TypeOK'
  <2>1. th' \in [Slots -> {"none", "new", "looping", "handling", "leaving", "done", "killed"}]
    BY DEF TypeOK, Wait
  <2> QED
    BY <1>1, <1>2, <2>1 DEF TypeOK, Steps
<1>5. Bounds'
  BY <1>1, <1>2 DEF Bounds, InStop
<1>6. \A i \in Slots : Alive(i)' => Alive(i) /\ i # at
  BY <1>3 DEF Alive, TypeOK
<1>7. StopInv'
  <2> SUFFICES ASSUME NEW i \in Slots
               PROVE  /\ i < count => Intact(i)'
                      /\ i = count => HalfMade(i)'
                      /\ i > count => Gone(i)'
                      /\ pc' = "wait" /\ at' < i /\ i < count => ~Alive(i)'
                      /\ pc' = "free" /\ i < count => ~Alive(i)'
                      /\ pc' = "free" /\ at' < i /\ i < count => base'[i] = "none"
    BY <1>2 DEF StopInv
  <2>1. i < count => Intact(i)'
    BY <1>1, <1>3 DEF StopInv, InStop, Intact, Alive, TypeOK
  <2>2. (i = count => HalfMade(i)') /\ (i > count => Gone(i)')
    BY <1>1, <1>3, <1>6 DEF StopInv, InStop, HalfMade, Gone, Alive, TypeOK
  <2>3. i < count /\ i > at => ~Alive(i)
    BY <1>1 DEF StopInv, InStop
  <2> QED
    BY <1>2, <1>6, <2>1, <2>2, <2>3 DEF TypeOK
<1>8. DanglingInv'
  BY <1>1, <1>3 DEF DanglingInv, Alive, TypeOK
<1> QED
  BY <1>2, <1>4, <1>5, <1>7, <1>8 DEF IdleInv, BeginInv, StartInv, UndoInv, CrashInv

LEMMA FreeStep == ASSUME PoolInv, Free PROVE PoolInv'
<1> USE Constants DEF PoolInv
<1>1. pc = "free" /\ UNCHANGED <<http, brk, th, failed, starts>> /\ arr /\ at < count
  BY DEF Free, Bounds, InStop
<1>2. base'[at] = "none" /\ \A i \in Slots \ {at} : base'[i] = base[i]
  BY DEF Free, TypeOK
<1>3. base' \in [Slots -> {"none", "live", "dangling"}]
  BY DEF Free, TypeOK
<1>4. DanglingInv'
  BY <1>1, <1>2 DEF DanglingInv, TypeOK
<1>5. CASE at > 0
  <2>1. pc' = pc /\ at' = at - 1 /\ UNCHANGED <<arr, count, then>>
    BY <1>5 DEF Free, Onward
  <2>2. TypeOK'
    BY <1>1, <1>3, <1>5, <2>1 DEF TypeOK
  <2>3. Bounds'
    BY <1>1, <2>1 DEF Bounds, InStop, TypeOK
  <2>4. StopInv'
    BY <1>1, <1>2, <2>1 DEF StopInv, InStop, Intact, HalfMade, Gone, Alive, TypeOK
  <2> QED
    BY <1>1, <1>4, <2>1, <2>2, <2>3, <2>4 DEF IdleInv, BeginInv, StartInv, UndoInv, CrashInv
<1>6. CASE ~(at > 0)
  <2>1. /\ pc' = then /\ at' = (IF then = "undo" THEN count ELSE 0)
        /\ arr' = FALSE /\ count' = 0 /\ then' = "idle" /\ at = 0
        /\ pc' \in {"idle", "begin", "undo"}
    BY <1>6 DEF Free, Go, TypeOK
  <2>2. at' \in Slots
    BY <1>1, <2>1 DEF Bounds, InStop, TypeOK
  <2>a. arr' \in BOOLEAN
    BY <2>1
  <2>3. TypeOK'
    BY <1>1, <1>3, <2>1, <2>2, <2>a DEF TypeOK, Steps
  <2>4. \A i \in Slots : /\ i # count => Gone(i)'
                         /\ i = count => HalfMade(i)'
    BY <1>1, <1>2, <2>1 DEF StopInv, InStop, Intact, HalfMade, Gone, Alive, TypeOK
  <2>5. CASE then = "undo"
    BY <1>4, <2>1, <2>2, <2>3, <2>4, <2>5
       DEF Bounds, InStop, IdleInv, BeginInv, StartInv, UndoInv, StopInv, CrashInv
  <2>6. CASE then # "undo"
    <3>1. \A i \in Slots : Gone(i)'
      BY <1>1, <2>4, <2>6 DEF Bounds, InStop
    <3> QED
      BY <1>4, <2>1, <2>3, <2>6, <3>1
         DEF Bounds, InStop, IdleInv, BeginInv, StartInv, UndoInv, StopInv, CrashInv
  <2> QED
    BY <2>5, <2>6
<1> QED
  BY <1>5, <1>6

LEMMA BossStep == ASSUME PoolInv, Boss PROVE PoolInv'
  BY CallStartStep, CallStopStep, BeginStep, MakeBaseStep, MakeHttpStep, LaunchStep, UndoStep,
     BreakStep, WaitStep, FreeStep DEF Boss

-----------------------------------------------------------------------------
(* Steps of the server threads                                             *)

LEMMA ThreadStep == ASSUME PoolInv, NEW i \in Slots, Thread(i) PROVE PoolInv'
<1> USE Constants DEF PoolInv
<1>1. /\ UNCHANGED <<pc, at, count, then, arr, base, failed, starts>> /\ Alive(i)
      /\ \A k \in Slots \ {i} : th'[k] = th[k] /\ http'[k] = http[k] /\ brk'[k] = brk[k]
  BY DEF Thread, Dispatch, Handle, Handled, Leave, End, boss, Alive, TypeOK
<1>2. Alive(i)' => http'[i] = http[i]
  BY DEF Thread, Dispatch, Handle, Handled, Leave, End, Alive, TypeOK
<1>3. ~Alive(i)' => http'[i] = "none"
  BY DEF Thread, Dispatch, Handle, Handled, Leave, End, Alive, TypeOK
<1>4. Serving(i) => Serving(i)'
  BY DEF Thread, Dispatch, Handle, Handled, Leave, End, Serving, TypeOK
<1>5. TypeOK'
  <2>1. /\ http' \in [Slots -> {"none", "live", "dangling"}]
        /\ brk' \in [Slots -> BOOLEAN]
        /\ th' \in [Slots -> {"none", "new", "looping", "handling", "leaving", "done", "killed"}]
    BY DEF Thread, Dispatch, Handle, Handled, Leave, End, TypeOK
  <2> QED
    BY <1>1, <2>1 DEF TypeOK
<1>6. /\ \A k \in Slots : /\ Serving(k) => Serving(k)'
                          /\ Intact(k) => Intact(k)'
                          /\ ~Alive(k) => k # i /\ ~Alive(k)'
      /\ \A k \in Slots \ {i} : /\ Fresh(k) => Fresh(k)'
                                /\ HalfMade(k) => HalfMade(k)'
                                /\ Gone(k) => Gone(k)'
                                /\ Unused(k) => Unused(k)'
  BY <1>1, <1>2, <1>3, <1>4 DEF Serving, Intact, Alive, Fresh, HalfMade, Gone, Unused
<1>7. ~Fresh(i) /\ ~HalfMade(i) /\ ~Gone(i) /\ ~Unused(i) /\ th[i] # "none"
  BY <1>1 DEF Alive, Fresh, HalfMade, Gone, Unused
<1>8. (Bounds /\ IdleInv /\ BeginInv)'
  BY <1>1, <1>6, <1>7 DEF Bounds, InStop, IdleInv, BeginInv
<1>9. StartInv'
  BY <1>1, <1>6, <1>7 DEF StartInv, TypeOK
<1>10. UndoInv'
  BY <1>1, <1>6, <1>7 DEF UndoInv, TypeOK
<1>11. StopInv'
  BY <1>1, <1>6, <1>7 DEF StopInv, InStop
<1>12. (DanglingInv /\ CrashInv)'
  BY <1>1, <1>7 DEF DanglingInv, CrashInv
<1> QED
  BY <1>5, <1>8, <1>9, <1>10, <1>11, <1>12

LEMMA PoolStep == PoolInv /\ [Next]_vars => PoolInv'
<1>1. ASSUME PoolInv, UNCHANGED vars PROVE PoolInv'
  BY <1>1 DEF vars, boss, slots, PoolInv, TypeOK, Bounds, InStop, IdleInv, BeginInv, StartInv,
              UndoInv, StopInv, DanglingInv, CrashInv, Serving, Fresh, HalfMade, Intact, Gone,
              Unused, Alive
<1> QED
  BY <1>1, BossStep, ThreadStep DEF Next

LEMMA Invariance == Spec => []PoolInv
  BY PoolInit, PoolStep, PTL DEF Spec

-----------------------------------------------------------------------------
(* The variables have their types; no server is touched that is not there. *)
THEOREM TypeCorrect == Spec => []TypeOK
<1>1. PoolInv => TypeOK
  BY DEF PoolInv
<1> QED
  BY <1>1, Invariance, PTL

(* Nothing is freed under a running thread, wherever a start fails and     *)
(* however slow the threads are when they are stopped.                     *)
THEOREM NothingFreedInUse == Spec => []LiveThreads
<1>1. PoolInv => LiveThreads
  <2> SUFFICES ASSUME PoolInv, NEW i \in Slots, Alive(i)
               PROVE  arr /\ base[i] = "live" /\ http[i] = "live"
    BY DEF LiveThreads
  <2> USE Constants DEF PoolInv
  <2>1. th[i] # "none" /\ ~Gone(i) /\ ~HalfMade(i) /\ ~Fresh(i) /\ ~Unused(i)
    BY DEF Alive, Gone, HalfMade, Fresh, Unused
  <2>2. CASE InStop
    BY <2>1, <2>2 DEF StopInv, Bounds, Intact, TypeOK
  <2>3. CASE pc \in {"base", "http", "launch"}
    BY <2>1, <2>3 DEF StartInv, Serving, TypeOK
  <2>4. CASE pc \in {"idle", "begin", "undo", "crashed"}
    BY <2>1, <2>4 DEF IdleInv, BeginInv, UndoInv, CrashInv, Serving, TypeOK
  <2> QED
    BY <2>2, <2>3, <2>4 DEF TypeOK, Steps, InStop
<1> QED
  BY <1>1, Invariance, PTL

(* A pool that was stopped, or not started, leaves nothing behind.         *)
THEOREM NothingLeft == Spec => []StoppedMeansGone
<1>1. PoolInv => StoppedMeansGone
  BY DEF PoolInv, IdleInv, StoppedMeansGone, Gone, Unused, Alive
<1> QED
  BY <1>1, Invariance, PTL

(* A pool that was started is complete.                                    *)
THEOREM Complete == Spec => []AllServe
<1>1. PoolInv => AllServe
  BY DEF PoolInv, IdleInv, AllServe, Serving, Alive
<1> QED
  BY <1>1, Invariance, PTL

(* Only a pool without threads uses an event base that was freed.          *)
THEOREM CrashWithoutThreads == Spec => []CrashOnlyFirst
<1>1. PoolInv => CrashOnlyFirst
  BY DEF PoolInv, CrashInv, CrashOnlyFirst
<1> QED
  BY <1>1, Invariance, PTL
=============================================================================
