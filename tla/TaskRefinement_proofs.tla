----------------------- MODULE TaskRefinement_proofs -----------------------
(***************************************************************************)
(* The dispatcher implements TaskLifecycle, for every number of tasks,     *)
(* servers, actors, threads and handlers.                                  *)
(***************************************************************************)
EXTENDS TaskRefinement, TaskOutcome_proofs

USE DispatchAssumption, TableAssumption

(* The phase and the holder of one task, and the whole mapping.            *)
Phase(t) == IF Exists(t) /\ BeingWritten(t) THEN "draft" ELSE PhaseOf(dbState[t])

Holder(t) == IF \E s \in Servers : Holds(s, t)
             THEN CHOOSE s \in Servers : Holds(s, t)
             ELSE None

phases == [t \in Tasks |-> IF Exists(t) /\ BeingWritten(t) THEN "draft" ELSE PhaseOf(dbState[t])]

holders == [t \in Tasks |-> IF \E s \in Servers : Holds(s, t)
                            THEN CHOOSE s \in Servers : Holds(s, t)
                            ELSE None]

LifecycleStep == [Lifecycle!Next]_<<phases, holders>>

-----------------------------------------------------------------------------
(* A claimed task has one holder, the server whose key it carries.         *)

HolderInv ==
  \A t \in Tasks :
    /\ \A s \in Servers : Holds(s, t) => Holder(t) = s
    /\ (\A s \in Servers : ~Holds(s, t)) => Holder(t) = None

LEMMA HolderUnique == ClaimInv => HolderInv
<1> SUFFICES ASSUME ClaimInv, NEW t \in Tasks, NEW s \in Servers, Holds(s, t)
             PROVE  Holder(t) = s
  BY DEF HolderInv, Holder
<1> DEFINE c == CHOOSE u \in Servers : Holds(u, t)
<1>1. c \in Servers /\ Holds(c, t)
  OBVIOUS
<1>2. \A u \in Servers : Holds(u, t) => scanned[t] = u
  BY DEF Holds, ClaimInv, Locked
<1> QED
  BY <1>1, <1>2 DEF Holder

LEMMA HolderUniqueNext == ClaimInv' => HolderInv'
  BY HolderUnique, PTL

(* How a step of the table or of a sender shows in the abstract state.     *)
LEMMA NothingMoves ==
  ASSUME \A u \in Tasks : Phase(u)' = Phase(u)
  PROVE  UNCHANGED phases
  BY DEF phases, Phase

LEMMA OneMoves ==
  ASSUME NEW t \in Tasks, \A u \in Tasks \ {t} : Phase(u)' = Phase(u), NEW p, Phase(t)' = p
  PROVE  Lifecycle!Move(t, p)
  BY DEF Phase, Lifecycle!Move

LEMMA OneHeld ==
  ASSUME NEW t \in Tasks, \A u \in Tasks \ {t} : Holder(u)' = Holder(u), NEW s, Holder(t)' = s
  PROVE  Lifecycle!Hold(t, s)
  BY DEF Holder, Lifecycle!Hold

LEMMA NothingHeld ==
  ASSUME HolderInv, HolderInv', \A u \in Tasks, s \in Servers : Holds(s, u)' <=> Holds(s, u)
  PROVE  UNCHANGED holders
<1>1. \A u \in Tasks : Holder(u)' = Holder(u)
  BY DEF HolderInv
<1> QED
  BY <1>1 DEF holders, Holder

-----------------------------------------------------------------------------
(* What the row of a task says while it is dispatched: queued until it is  *)
(* answered, running while a receiver thread waits for it.  This needs     *)
(* connections that work, for a failed send settles a row that is offered  *)
(* to the next actor all the same.                                         *)

Calm == Env \cap {"net", "db", "crash", "late"} = {}

RowInv ==
  \A s \in Servers, t \in Tasks : Contends(s, t) =>
    dbState[t] \in {"deleted"} \cup (CASE sndPc[s] = "announce" -> {"success"}
                                       [] sndPc[s] = "spawn" -> {"merging"}
                                       [] OTHER -> {"waiting", "merging"})

RunInv == \A r \in Threads : Unsettled(r) => dbState[thr[r].for] \in {"merging", "deleted"}

CleanInv == \A t \in Tasks : dbState[t] = "unborn" => scanned[t] = None

RefInv ==
  /\ ExecInv /\ HeldInv /\ FreshInv /\ NoPreview /\ OneKey
  /\ RowInv /\ RunInv /\ CleanInv

(* Who writes the state of a row.                                          *)
LEMMA SenderWrites ==
  ASSUME Calm, TypeInv, NEW s \in Servers, Sender(s), NEW t \in Tasks
  PROVE  \/ dbState'[t] = dbState[t]
         \/ ReplyResult(s) /\ sndTask[s] = t /\ dbState'[t] = "success"
         \/ ReplyAccept(s) /\ sndTask[s] = t /\ dbState'[t] = "merging"
<1>0. TableTypeOK
  BY DEF TypeInv, TypeOK
<1>1. CASE ReplyAccept(s) \/ ReplyResult(s)
  BY <1>0, <1>1 DEF ReplyAccept, ReplyResult, SetMergeState, TableTypeOK
<1>2. ~SendFails(s)
  BY DEF SendFails, Calm
<1> QED
  BY <1>1, <1>2
     DEF Sender, Scan, Fetch, NextActor, SkipActor, NoReply, ReplyConfigError, ReplyBusy,
         AnnounceResult, Spawn, MarkRunning, StoreSocket, Judge, Release, Purge, table,
         ClaimNextRun, ClaimNothing, ClearScannedTime

LEMMA HandlerWrites ==
  ASSUME Calm, ClaimInv, NoPreview, NEW h \in Handlers, Request(h) \/ Handle(h), NEW t \in Tasks
  PROVE  \/ dbState'[t] = dbState[t]
         \/ InsertTask(t) /\ WriteRow(h) /\ Await(h, "state", t)
         \/ RequestRemove(h, t) /\ dbState[t] # "unborn" /\ dbState'[t] = "deleted"
         \/ /\ WriteState(h) /\ hd[h].task = t /\ dbState[t] # "deleted"
            /\ dbState'[t] \in {"saved", "waiting"}
<1>0. TableTypeOK /\ TypeInv
  BY DEF ClaimInv, TypeInv, TypeOK
<1>1. CASE WriteState(h)
  BY <1>0, <1>1 DEF WriteState, SetMergeState, Exists, TableTypeOK
<1>2. CASE WriteRow(h)
  <2>1. ASSUME NEW u \in Tasks, InsertTask(u), Await(h, "state", u)
        PROVE  dbState'[t] = dbState[t] \/ t = u
    BY <1>0, <2>1 DEF InsertTask, TableTypeOK
  <2>2. UNCHANGED dbState \/ \E u \in Tasks : InsertTask(u) /\ Await(h, "state", u)
    BY <1>2 DEF WriteRow, UpdateTask, table
  <2> QED
    BY <1>2, <2>1, <2>2
<1>3. ASSUME NEW u \in Tasks, RequestRemove(h, u)
      PROVE  \/ dbState'[t] = dbState[t]
             \/ RequestRemove(h, t) /\ dbState[t] # "unborn" /\ dbState'[t] = "deleted"
  BY <1>0, <1>3 DEF RequestRemove, DeleteTask, Exists, TableTypeOK
<1> QED
  BY <1>0, <1>1, <1>2, <1>3
     DEF Request, RequestNew, RequestAgain, RequestPriority, SetPriority, Handle, LookUp,
         SyncStart, SyncRun, SyncGiveUp, NoPreview, table

LEMMA RefInit == Init => RefInv
  BY ExecInit
     DEF Init, TableInit, RefInv, HeldInv, FreshInv, NoPreview, OneKey, RowInv, RunInv, CleanInv,
         Contends, Occupies, Unsettled, NoThread, NoHandler, Previewing

LEMMA RefSender ==
  ASSUME Calm, RefInv, NEW s \in Servers, Sender(s)
  PROVE  OneKey' /\ RowInv' /\ RunInv' /\ CleanInv'
<1>0. /\ TypeInv /\ TableTypeOK /\ ClaimInv /\ Locked /\ ThreadInv /\ HandInv
      /\ OneKey /\ RowInv /\ RunInv /\ CleanInv
      /\ sndPc \in [Servers -> SenderPcs] /\ sndTask \in [Servers -> Tasks \cup {None}]
      /\ thr \in [Threads -> ThreadRecords]
  BY DEF RefInv, ExecInv, ClaimInv, TypeInv, TypeOK
<1>1. OneKey'
  BY <1>0, OneKeyStep
<1>2. CleanInv'
  BY <1>0, SenderRows DEF CleanInv, KnownStay
<1>3. ASSUME NEW t \in Tasks, dbState'[t] # dbState[t]
      PROVE  Contends(s, t)
  BY <1>0, <1>3, SenderWrites DEF ReplyResult, ReplyAccept, Offering, Contends
<1>4. RowInv'
  <2>1. ASSUME NEW u \in Servers \ {s}, NEW t \in Tasks, Contends(u, t)'
        PROVE  Contends(u, t) /\ sndPc'[u] = sndPc[u] /\ dbState'[t] = dbState[t]
    <3>1. Contends(u, t) /\ sndPc'[u] = sndPc[u]
      BY <1>0, <2>1, SenderOthers DEF Contends
    <3> QED
      BY <1>0, <1>3, <3>1 DEF Locked
  <2>2. ASSUME NEW t \in Tasks, Contends(s, t)', sndPc'[s] = sndPc[s]
        PROVE  Contends(s, t) /\ dbState'[t] = dbState[t]
    <3>1. Purge(s)
      BY <1>0, <2>2
         DEF Sender, Scan, Fetch, NextActor, SkipActor, SendFails, NoReply, ReplyConfigError,
             ReplyBusy, ReplyResult, AnnounceResult, ReplyAccept, Spawn, MarkRunning,
             StoreSocket, Judge, Release, Offering, Goto, Contends
    <3> QED
      BY <2>2, <3>1 DEF Purge, Contends, snd, table
  <2>3. ASSUME NEW t \in Tasks, Contends(s, t)', sndPc'[s] # sndPc[s]
        PROVE  dbState'[t] \in {"deleted"} \cup (CASE sndPc'[s] = "announce" -> {"success"}
                                                   [] sndPc'[s] = "spawn" -> {"merging"}
                                                   [] OTHER -> {"waiting", "merging"})
    <3>1. CASE Fetch(s)
      BY <1>0, <2>3, <3>1 DEF Fetch, Contends, ClaimedRows, Goto, KeepSender, table
    <3>2. CASE ReplyResult(s) \/ ReplyAccept(s)
      BY <1>0, <2>3, <3>2
         DEF ReplyResult, ReplyAccept, Contends, Goto, KeepSender, Offering, Exists,
             SetMergeState, DbFails, Calm, TableTypeOK
    <3>3. ASSUME sndPc'[s] \notin {"announce", "spawn"}, sndPc[s] # "announce", Contends(s, t),
                 dbState'[t] = dbState[t]
          PROVE  dbState'[t] \in {"deleted", "waiting", "merging"}
      BY <1>0, <3>3 DEF RowInv
    <3>4. CASE NextActor(s) \/ Judge(s)
      BY <1>0, <2>3, <3>3, <3>4 DEF NextActor, Judge, Goto, KeepSender, Contends, table
    <3>5. CASE SkipActor(s) \/ NoReply(s) \/ ReplyConfigError(s) \/ ReplyBusy(s)
      BY <1>0, <2>3, <3>3, <3>5
         DEF SkipActor, NoReply, ReplyConfigError, ReplyBusy, Offering, Goto, KeepSender,
             Contends, table
    <3>6. CASE Spawn(s)
      BY <1>0, <2>3, <3>3, <3>6 DEF Spawn, Goto, KeepSender, Contends, table
    <3>7. ~SendFails(s)
      BY DEF SendFails, Calm
    <3>8. CASE Scan(s) \/ AnnounceResult(s) \/ MarkRunning(s) \/ StoreSocket(s) \/ Release(s)
      BY <1>0, <2>3, <3>8
         DEF Scan, AnnounceResult, MarkRunning, StoreSocket, Release, Goto, Contends
    <3>9. ~Purge(s)
      BY <2>3 DEF Purge, snd
    <3> QED
      BY <2>3, <3>1, <3>2, <3>4, <3>5, <3>6, <3>7, <3>8, <3>9 DEF Sender
  <2> QED
    BY <1>0, <2>1, <2>2, <2>3 DEF RowInv
<1>5. RunInv'
  <2>1. ASSUME NEW r \in Threads, Unsettled(r)
        PROVE  dbState'[thr[r].for] \in {"merging", "deleted"}
    <3>1. Errand(r) /\ Undisputed(r)
      BY <1>0, <2>1 DEF ThreadInv, Runs, Unsettled
    <3> QED
      BY <1>0, <1>3, <2>1, <3>1 DEF RunInv, Errand, Undisputed
  <2>2. CASE Spawn(s)
    <3>1. sndTask[s] \in Tasks /\ dbState'[sndTask[s]] \in {"merging", "deleted"}
      BY <1>0, <2>2 DEF Spawn, HandInv, RowInv, Contends, table
    <3>2. CASE UNCHANGED thr
      BY <2>1, <3>2 DEF RunInv, Unsettled
    <3>3. ASSUME NEW q \in Threads,
                 thr' = [thr EXCEPT ![q] = [pc |-> "start", srv |-> s, for |-> sndTask[s],
                                            task |-> None, sock |-> 0]]
          PROVE  RunInv'
      BY <1>0, <2>1, <3>1, <3>3 DEF RunInv, Unsettled
    <3> QED
      BY <2>2, <3>2, <3>3 DEF Spawn
  <2>3. CASE UNCHANGED thr
    BY <2>1, <2>3 DEF RunInv, Unsettled
  <2> QED
    BY <1>0, <2>2, <2>3, SenderOrdinary DEF Scan, Fetch, Release
<1> QED
  BY <1>1, <1>2, <1>4, <1>5

LEMMA RefReceiver ==
  ASSUME RefInv, NEW r \in Threads, Receiver(r)
  PROVE  OneKey' /\ RowInv' /\ RunInv' /\ CleanInv'
<1>0. /\ TypeInv /\ ExecInv /\ ThreadInv /\ OneKey /\ RowInv /\ RunInv /\ CleanInv
      /\ Runs(r) /\ Errand(r) /\ Undisputed(r)
  BY ReceiverFrame DEF RefInv, ExecInv, ClaimInv, ThreadInv, Runs
<1>1. /\ UNCHANGED <<snd, scanned>> /\ KnownStay
      /\ \A q \in Threads \ {r} : thr'[q] = thr[q]
      /\ thr'[r].pc # "free" => thr'[r].for = thr[r].for
      /\ thr'[r].pc # "start"
  BY <1>0, ReceiverFrame, ReceiverRows
<1>2. \A t \in Tasks : dbState'[t] # dbState[t] => t = thr[r].for /\ ~Unsettled(r)'
  BY <1>0, ReceiverWrites
<1>3. OneKey' /\ CleanInv'
  BY <1>0, <1>1 DEF OneKey, CleanInv, KnownStay, snd
<1>4. RowInv'
  BY <1>0, <1>1, <1>2 DEF RowInv, Contends, Undisputed, snd
<1>5. ASSUME Unsettled(r)'
      PROVE  dbState'[thr'[r].for] \in {"merging", "deleted"}
  <2>1. Unsettled(r)
    BY <1>0, <1>5, UnsettledBefore
  <2> QED
    BY <1>0, <1>1, <1>2, <1>5, <2>1 DEF RunInv, Unsettled, Errand
<1>6. ASSUME NEW q \in Threads \ {r}, Unsettled(q)'
      PROVE  dbState'[thr'[q].for] \in {"merging", "deleted"}
  <2>1. Runs(q) /\ Errand(q) /\ thr[q].for # thr[r].for /\ Unsettled(q)
    BY <1>0, <1>1, <1>6 DEF ThreadInv, Runs, Unsettled
  <2> QED
    BY <1>0, <1>1, <1>2, <2>1 DEF RunInv, Errand
<1> QED
  BY <1>3, <1>4, <1>5, <1>6 DEF RunInv

LEMMA RefHandler ==
  ASSUME Calm, RefInv, NEW h \in Handlers, Request(h) \/ Handle(h)
  PROVE  OneKey' /\ RowInv' /\ RunInv' /\ CleanInv'
<1>0. /\ TypeInv /\ ClaimInv /\ ThreadInv /\ Locked /\ NoPreview /\ FreshInv
      /\ OneKey /\ RowInv /\ RunInv /\ CleanInv
  BY DEF RefInv, ExecInv, ClaimInv
<1>1. UNCHANGED <<snd, thr>>
  BY <1>0, RequestFrame, HandleFrame
<1>2. ASSUME NEW t \in Tasks, scanned[t] # None, dbState[t] # "unborn"
      PROVE  dbState'[t] \in {"deleted", dbState[t]}
  BY <1>0, <1>2, HandlerWrites DEF InsertTask, WriteState, FreshInv, Occupies
<1>3. \A t \in Tasks : scanned'[t] \in {None, scanned[t]}
  BY <1>0, HandlerKeys
<1>4. OneKey'
  BY <1>0, <1>1, <1>3 DEF OneKey, snd
<1>5. CleanInv'
  BY <1>0, <1>3, HandlerRows DEF CleanInv, KnownStay
<1>6. RowInv'
  BY <1>0, <1>1, <1>2 DEF RowInv, Locked, Contends, snd
<1>7. RunInv'
  BY <1>0, <1>1, <1>2 DEF RunInv, ThreadInv, Runs, Unsettled, Errand
<1> QED
  BY <1>4, <1>5, <1>6, <1>7

LEMMA RefStep ==
  ASSUME Orderly, NoPreviewAsked, Calm, RowDefault # "waiting", Courtesy, RefInv, [Next]_vars
  PROVE  RefInv'
<1>0. ExecInv' /\ HeldInv' /\ FreshInv' /\ NoPreview'
  BY ExecStep, HeldStep, FreshStep, NoPreviewStep
     DEF RefInv, ExecInv, ClaimInv, Courtesy, Calm, DbFails
<1>1. CASE UNCHANGED <<snd, thr, table>>
  BY <1>0, <1>1
     DEF RefInv, OneKey, RowInv, RunInv, CleanInv, Contends, Unsettled, snd, table
<1>2. \A s \in Servers : ~Crash(s)
  BY DEF Crash, Calm
<1> QED
  BY <1>0, <1>1, <1>2, RefSender, RefReceiver, RefHandler DEF RefInv, Next, ActorDrops, vars

-----------------------------------------------------------------------------
(* How steps show in the abstract state.                                   *)

LEMMA PhaseKept ==
  ASSUME NEW t \in Tasks, dbState'[t] = dbState[t], UNCHANGED hd
  PROVE  Phase(t)' = Phase(t)
  BY DEF Phase, Exists, BeingWritten

LEMMA PhaseSays ==
  ASSUME FreshInv, NEW t \in Tasks, dbState[t] # "deleted",
         scanned[t] # None \/ dbState[t] = "waiting"
  PROVE  ~BeingWritten(t) /\ Phase(t) = PhaseOf(dbState[t])
  BY DEF Phase, BeingWritten, FreshInv, Occupies

LEMMA Stutters ==
  ASSUME HolderInv, HolderInv', \A t \in Tasks : Phase(t)' = Phase(t),
         \A t \in Tasks, s \in Servers : Holds(s, t)' <=> Holds(s, t)
  PROVE  LifecycleStep
  BY NothingMoves, NothingHeld DEF LifecycleStep

(* One task changes its phase, the rest stays as it is.                    *)
LEMMA Moves ==
  ASSUME HolderInv, HolderInv', NEW t \in Tasks, NEW p, Phase(t)' = p,
         \A u \in Tasks \ {t} : Phase(u)' = Phase(u),
         \A u \in Tasks, s \in Servers : Holds(s, u)' <=> Holds(s, u),
         \/ Phase(t) \in {"unborn", "success", "failed"} /\ Holder(t) = None /\ p = "draft"
         \/ Phase(t) = "draft" /\ Holder(t) = None /\ p = "queued"
         \/ Phase(t) = "queued" /\ Holder(t) \in Servers /\ p \in {"running", "success"}
         \/ Phase(t) = "running" /\ p \in {"success", "failed"}
         \/ Phase(t) # "unborn" /\ p = "deleted"
  PROVE  LifecycleStep
<1>1. Lifecycle!Move(t, p) /\ UNCHANGED holders
  BY OneMoves, NothingHeld
<1>2. phases[t] = Phase(t) /\ holders[t] = Holder(t)
  BY DEF phases, holders, Phase, Holder
<1>3. CASE Phase(t) \in {"unborn", "success", "failed"} /\ Holder(t) = None /\ p = "draft"
  <2>1. Lifecycle!Write(t)
    BY <1>1, <1>2, <1>3 DEF Lifecycle!Write, phases, holders
  <2> QED
    BY <2>1 DEF LifecycleStep, Lifecycle!Next
<1>4. CASE Phase(t) = "draft" /\ Holder(t) = None /\ p = "queued"
  <2>1. Lifecycle!Submit(t)
    BY <1>1, <1>2, <1>4 DEF Lifecycle!Submit, phases, holders
  <2> QED
    BY <2>1 DEF LifecycleStep, Lifecycle!Next
<1>5. CASE Phase(t) = "queued" /\ Holder(t) \in Servers /\ p = "running"
  <2>1. Lifecycle!Start(Holder(t), t)
    BY <1>1, <1>2, <1>5 DEF Lifecycle!Start, phases, holders
  <2> QED
    BY <1>5, <2>1 DEF LifecycleStep, Lifecycle!Next
<1>6. CASE \/ Phase(t) = "queued" /\ Holder(t) \in Servers /\ p = "success"
           \/ Phase(t) = "running" /\ p \in {"success", "failed"}
  <2>1. Lifecycle!Settle(t)
    BY <1>1, <1>2, <1>6 DEF Lifecycle!Settle, phases, holders
  <2> QED
    BY <2>1 DEF LifecycleStep, Lifecycle!Next
<1>7. CASE Phase(t) # "unborn" /\ p = "deleted"
  <2>1. Lifecycle!Remove(t)
    BY <1>1, <1>2, <1>7 DEF Lifecycle!Remove, phases, holders
  <2> QED
    BY <2>1 DEF LifecycleStep, Lifecycle!Next
<1> QED
  BY <1>3, <1>4, <1>5, <1>6, <1>7

(* A sender holds one task at most, and may let go of it.                  *)
LEMMA LetsGo ==
  ASSUME RefInv, HolderInv, HolderInv', NEW s \in Servers, Sender(s),
         \A t \in Tasks : dbState'[t] = dbState[t],
         \A t \in Tasks : ~Holds(s, t)'
  PROVE  LifecycleStep
<1>0. TypeInv /\ ClaimInv /\ Locked /\ OneKey
  BY DEF RefInv, ExecInv, ClaimInv
<1>1. \A u \in Servers \ {s}, t \in Tasks : Holds(u, t)' <=> Holds(u, t)
  BY <1>0, OthersHold
<1>2. \A t \in Tasks : Phase(t)' = Phase(t)
  BY <1>0, SenderRows, PhaseKept
<1>3. CASE \A t \in Tasks : ~Holds(s, t)
  BY <1>1, <1>2, <1>3, Stutters
<1>4. ASSUME NEW t \in Tasks, Holds(s, t)
      PROVE  LifecycleStep
  <2>1. \A u \in Tasks : Holds(s, u) => u = t
    BY <1>0, <1>4 DEF Holds, Contends, OneKey
  <2>2. Holder(t) = s
    BY <1>4 DEF HolderInv
  <2>3. \A u \in Servers \ {s} : ~Holds(u, t)
    BY <1>4, <2>2 DEF HolderInv
  <2>4. Holder(t)' = None
    BY <1>1, <2>3 DEF HolderInv
  <2>5. \A u \in Tasks \ {t} : Holder(u)' = Holder(u)
    BY <1>1, <2>1 DEF HolderInv
  <2>6. Lifecycle!Hold(t, None) /\ UNCHANGED phases
    BY <1>2, <2>4, <2>5, OneHeld, NothingMoves
  <2>7. holders[t] = s
    BY <2>2 DEF holders, Holder
  <2>8. Lifecycle!LetGo(s, t)
    BY <2>6, <2>7 DEF Lifecycle!LetGo, phases, holders
  <2> QED
    BY <2>8 DEF LifecycleStep, Lifecycle!Next
<1> QED
  BY <1>3, <1>4

LEMMA ScanRefines ==
  ASSUME RefInv, HolderInv, HolderInv', NEW s \in Servers, Scan(s)
  PROVE  LifecycleStep
<1>0. /\ TypeInv /\ ClaimInv /\ Locked /\ FreshInv /\ Sender(s)
      /\ sndPc \in [Servers -> SenderPcs] /\ sndTask \in [Servers -> Tasks \cup {None}]
  BY DEF RefInv, ExecInv, ClaimInv, TypeInv, TypeOK, Sender
<1>1. \A t \in Tasks : dbState'[t] = dbState[t]
  BY DEF Scan, ClaimNextRun, ClaimNothing
<1>2. \A t \in Tasks : ~Holds(s, t)
  BY DEF Scan, Holds, Contends
<1>3. CASE ClaimNothing(s) /\ UNCHANGED sndPc
  <2>1. \A t \in Tasks : ~Holds(s, t)'
    BY <1>0, <1>3 DEF Scan, Holds, Contends
  <2> QED
    BY <1>0, <1>1, <2>1, LetsGo
<1>4. ASSUME NEW t \in Tasks, ClaimNextRun(s, t), Goto(s, "fetch")
      PROVE  LifecycleStep
  <2>1. dbState[t] = "waiting" /\ scanned[t] = None
    BY <1>4 DEF ClaimNextRun, Foremost, Scannable
  <2>2. \A u \in Tasks : scanned'[u] = IF u = t THEN s ELSE Outdated(s)[u]
    BY <1>4 DEF ClaimNextRun, Outdated
  <2>3. \A u \in Tasks : Holds(s, u)' <=> u = t
    BY <1>0, <1>4, <2>2 DEF Holds, Contends, Goto, Outdated
  <2>4. \A u \in Servers \ {s}, v \in Tasks : Holds(u, v)' <=> Holds(u, v)
    BY <1>0, OthersHold
  <2>5. \A u \in Servers : ~Holds(u, t)
    BY <1>0, <2>1 DEF Holds, Locked
  <2>6. Holder(t) = None /\ Holder(t)' = s
    BY <2>3, <2>5 DEF HolderInv
  <2>7. \A u \in Tasks \ {t} : Holder(u)' = Holder(u)
    BY <1>2, <2>3, <2>4 DEF HolderInv
  <2>8. ASSUME NEW u \in Tasks
        PROVE  Holder(u) # s
    <3>1. CASE \A v \in Servers : ~Holds(v, u)
      BY <3>1 DEF HolderInv
    <3>2. ASSUME NEW v \in Servers, Holds(v, u)
          PROVE  Holder(u) # s
      BY <1>2, <3>2 DEF HolderInv
    <3> QED
      BY <3>1, <3>2
  <2>9. Lifecycle!Hold(t, s) /\ UNCHANGED phases
    BY <1>0, <1>1, <2>6, <2>7, OneHeld, NothingMoves, PhaseKept, SenderRows
  <2>10. phases[t] = "queued"
    BY <1>0, <2>1, PhaseSays DEF phases, Phase, PhaseOf
  <2>11. holders[t] = None /\ \A u \in Tasks : holders[u] # s
    BY <2>6, <2>8 DEF holders, Holder
  <2>12. Lifecycle!Claim(s, t)
    BY <2>9, <2>10, <2>11 DEF Lifecycle!Claim, phases, holders
  <2> QED
    BY <2>12 DEF LifecycleStep, Lifecycle!Next
<1> QED
  BY <1>3, <1>4 DEF Scan

LEMMA FetchRefines ==
  ASSUME RefInv, HolderInv, HolderInv', NEW s \in Servers, Fetch(s)
  PROVE  LifecycleStep
<1>0. /\ TypeInv /\ ClaimInv /\ OneKey /\ Sender(s)
      /\ sndPc \in [Servers -> SenderPcs] /\ sndTask \in [Servers -> Tasks \cup {None}]
  BY DEF RefInv, ExecInv, ClaimInv, TypeInv, TypeOK, Sender
<1>1. UNCHANGED <<dbState, scanned>>
  BY DEF Fetch, table
<1>2. CASE sndPc'[s] = "scan"
  <2>1. \A t \in Tasks : ~Holds(s, t)'
    BY <1>2 DEF Holds, Contends
  <2> QED
    BY <1>0, <1>1, <2>1, LetsGo
<1>3. ASSUME NEW t \in Tasks, scanned[t] = s, sndTask'[s] = t, sndPc'[s] = "loop"
      PROVE  LifecycleStep
  <2>1. \A u \in Tasks : Holds(s, u) <=> u = t
    BY <1>0, <1>3 DEF Fetch, Holds, Contends, OneKey
  <2>2. \A u \in Tasks : Holds(s, u)' <=> u = t
    BY <1>3 DEF Holds, Contends
  <2>3. \A u \in Tasks, v \in Servers : Holds(v, u)' <=> Holds(v, u)
    BY <1>0, <2>1, <2>2, OthersHold
  <2> QED
    BY <1>0, <1>1, <2>3, Stutters, PhaseKept, SenderRows
<1> QED
  BY <1>0, <1>2, <1>3 DEF Fetch, Goto, KeepSender, ClaimedRows

(* The answer of an actor.                                                 *)
LEMMA ReplyRefines ==
  ASSUME Calm, RefInv, HolderInv, HolderInv', NEW s \in Servers, ReplyResult(s) \/ ReplyAccept(s)
  PROVE  LifecycleStep
<1> SUFFICES ASSUME NEW t, t = sndTask[s]
             PROVE  LifecycleStep
  OBVIOUS
<1>0. /\ TypeInv /\ TableTypeOK /\ ClaimInv /\ Locked /\ FreshInv /\ RowInv /\ Sender(s)
      /\ sndPc \in [Servers -> SenderPcs] /\ sndTask \in [Servers -> Tasks \cup {None}]
  BY DEF RefInv, ExecInv, ClaimInv, TypeInv, TypeOK, Sender
<1>1. Contends(s, t) /\ t \in Tasks /\ sndPc[s] = "send" /\ dbState[t] # "deleted"
  BY DEF ReplyResult, ReplyAccept, Offering, Exists, Contends
<1>2. dbState[t] \in {"waiting", "merging"}
  BY <1>0, <1>1 DEF RowInv
<1>3. \A u \in Tasks, v \in Servers : Holds(v, u)' <=> Holds(v, u)
  <2>1. \A u \in Tasks : Holds(s, u)' <=> Holds(s, u)
    BY <1>0, <1>1 DEF ReplyResult, ReplyAccept, Goto, KeepSender, Holds, Contends
  <2> QED
    BY <1>0, <2>1, OthersHold
<1>4. scanned[t] = s /\ Holder(t) = s
  BY <1>0, <1>1 DEF Locked, Holds, HolderInv
<1>5. Phase(t) = PhaseOf(dbState[t]) /\ ~BeingWritten(t)
  BY <1>0, <1>1, <1>4, PhaseSays
<1>6. \A u \in Tasks \ {t} : Phase(u)' = Phase(u)
  BY <1>0, SenderWrites, SenderRows, PhaseKept
<1>7. UNCHANGED hd /\ Phase(t)' = PhaseOf(dbState'[t])
  BY <1>0, <1>5, SenderRows DEF Phase, BeingWritten
<1>8. CASE dbState'[t] = dbState[t]
  BY <1>0, <1>1, <1>3, <1>6, <1>7, <1>8, Stutters, PhaseKept
<1>9. CASE dbState'[t] # dbState[t]
  <2>1. dbState'[t] = "success" \/ (dbState'[t] = "merging" /\ dbState[t] = "waiting")
    BY <1>0, <1>1, <1>2, <1>9, SenderWrites
  <2>2. \/ Phase(t) = "queued" /\ Holder(t) \in Servers /\ Phase(t)' \in {"running", "success"}
        \/ Phase(t) = "running" /\ Phase(t)' \in {"success", "failed"}
    BY <1>2, <1>4, <1>5, <1>7, <2>1 DEF PhaseOf
  <2> QED
    BY <1>1, <1>3, <1>6, <2>2, Moves
<1> QED
  BY <1>8, <1>9

LEMMA SenderRefines ==
  ASSUME Calm, RefInv, HolderInv, HolderInv', NEW s \in Servers, Sender(s)
  PROVE  LifecycleStep
<1>0. /\ TypeInv /\ ClaimInv
      /\ sndPc \in [Servers -> SenderPcs] /\ sndTask \in [Servers -> Tasks \cup {None}]
  BY DEF RefInv, ExecInv, ClaimInv, TypeInv, TypeOK
<1>1. CASE Scan(s) \/ Fetch(s) \/ ReplyResult(s) \/ ReplyAccept(s)
  BY <1>1, ScanRefines, FetchRefines, ReplyRefines
<1>2. ASSUME UNCHANGED dbState, sndPc'[s] \in {"scan", "mark", "socket"}
      PROVE  LifecycleStep
  BY <1>2, LetsGo DEF Holds, Contends
<1>3. ASSUME UNCHANGED <<dbState, scanned, sndTask>>,
             sndPc[s] \in {"loop", "send", "judge", "clear", "spawn"},
             sndPc'[s] \in {"loop", "send", "judge", "clear"}
      PROVE  LifecycleStep
  <2>1. \A t \in Tasks, u \in Servers : Holds(u, t)' <=> Holds(u, t)
    BY <1>0, <1>3, OthersHold DEF Holds, Contends
  <2> QED
    BY <1>0, <1>3, <2>1, Stutters, PhaseKept, SenderRows
<1>4. CASE AnnounceResult(s) \/ MarkRunning(s) \/ StoreSocket(s) \/ Release(s)
  BY <1>0, <1>2, <1>4
     DEF AnnounceResult, MarkRunning, StoreSocket, Release, Goto, table, ClearScannedTime
<1>5. CASE Spawn(s) \/ Judge(s)
  BY <1>0, <1>2, <1>3, <1>5 DEF Spawn, Judge, Goto, KeepSender, table
<1>6. CASE NextActor(s) \/ SkipActor(s) \/ NoReply(s) \/ ReplyConfigError(s) \/ ReplyBusy(s)
  BY <1>0, <1>3, <1>6
     DEF NextActor, SkipActor, NoReply, ReplyConfigError, ReplyBusy, Offering, Goto, KeepSender,
         table
<1>7. CASE Purge(s)
  BY <1>0, <1>7, Stutters, PhaseKept, SenderRows DEF Purge, Holds, Contends, snd, table
<1>8. ~SendFails(s)
  BY DEF SendFails, Calm
<1> QED
  BY <1>1, <1>4, <1>5, <1>6, <1>7, <1>8 DEF Sender

LEMMA ReceiverRefines ==
  ASSUME RefInv, HolderInv, HolderInv', NEW r \in Threads, Receiver(r)
  PROVE  LifecycleStep
<1>0. TypeInv /\ ExecInv /\ FreshInv /\ RunInv /\ ThreadInv
  BY DEF RefInv, ExecInv, ClaimInv
<1>1. UNCHANGED <<snd, hd, scanned>>
  BY <1>0, ReceiverFrame, ReceiverRows
<1>2. \A t \in Tasks, s \in Servers : Holds(s, t)' <=> Holds(s, t)
  BY <1>1 DEF Holds, Contends, snd
<1>3. CASE \A t \in Tasks : dbState'[t] = dbState[t]
  BY <1>1, <1>2, <1>3, Stutters, PhaseKept
<1>4. ASSUME NEW t \in Tasks, dbState'[t] # dbState[t]
      PROVE  LifecycleStep
  <2>1. /\ t = thr[r].for /\ Runs(r) /\ Unsettled(r) /\ dbState[t] # "deleted"
        /\ dbState'[t] \in {"success", "failed"}
    BY <1>0, <1>4, ReceiverWrites
  <2>2. dbState[t] = "merging" /\ scanned[t] # None
    BY <1>0, <2>1 DEF RunInv, ThreadInv, Errand
  <2>3. ~BeingWritten(t) /\ Phase(t) = PhaseOf(dbState[t])
    BY <1>0, <2>2, PhaseSays
  <2>4. Phase(t)' = PhaseOf(dbState'[t])
    BY <1>1, <2>3 DEF Phase, BeingWritten
  <2>5. Phase(t) = "running" /\ Phase(t)' \in {"success", "failed"}
    BY <2>1, <2>2, <2>3, <2>4 DEF PhaseOf
  <2>6. \A u \in Tasks \ {t} : Phase(u)' = Phase(u)
    BY <1>0, <1>1, <2>1, ReceiverWrites, PhaseKept
  <2> QED
    BY <1>2, <2>5, <2>6, Moves
<1> QED
  BY <1>3, <1>4

(* A handler inserts a row or rewrites one that nobody holds, queues it,   *)
(* or removes it.                                                          *)
LEMMA HandlerRefines ==
  ASSUME RewriteIsAlone, NoPreviewAsked, Calm, RefInv, RefInv', HolderInv, HolderInv',
         NEW h \in Handlers, Request(h) \/ Handle(h)
  PROVE  LifecycleStep
<1>0. /\ TypeInv /\ TableTypeOK /\ ClaimInv /\ Locked /\ NoPreview
      /\ HeldInv /\ FreshInv /\ CleanInv /\ hd \in [Handlers -> HandlerRecords]
  BY DEF RefInv, ExecInv, ClaimInv, TypeInv, TypeOK
<1> hd[h] \in HandlerRecords
  BY <1>0
<1>1. UNCHANGED snd /\ \A k \in Handlers \ {h} : hd'[k] = hd[k]
  BY <1>0, RequestFrame, HandleFrame, HandlerHolds
<1>2. \A t \in Tasks : scanned'[t] = scanned[t] \/ (Free(t) /\ scanned'[t] = None)
  <2>1. ASSUME NEW u \in Tasks, InsertTask(u)
        PROVE  \A t \in Tasks : scanned'[t] = scanned[t]
    BY <1>0, <2>1 DEF InsertTask, CleanInv, TableTypeOK
  <2>2. ASSUME NEW u \in Tasks, Rewrites(h, u)
        PROVE  Free(u) /\ \A t \in Tasks : scanned'[t] = IF t = u THEN None ELSE scanned[t]
    BY <1>0, <2>2 DEF Rewrites, RewriteIsAlone, Exists, TableTypeOK
  <2> QED
    BY <1>0, <2>1, <2>2, RequestFrame, HandleFrame DEF RowsKept
<1>3. \A t \in Tasks, s \in Servers : Holds(s, t)' <=> Holds(s, t)
  BY <1>1, <1>2 DEF Free, Holds, Contends, snd
<1>4. \A t \in Tasks : scanned[t] = None => Holder(t) = None
  BY <1>0 DEF HolderInv, Holds, Locked
<1>5. ASSUME NEW t \in Tasks, RequestRemove(h, t), dbState[t] # "unborn", dbState'[t] = "deleted"
      PROVE  LifecycleStep
  <2>1. \A u \in Tasks \ {t} : dbState'[u] = dbState[u]
    BY <1>0, <1>5 DEF RequestRemove, DeleteTask, TableTypeOK
  <2>2. \A u \in Tasks \ {t} : Phase(u)' = Phase(u)
    BY <1>5, <2>1, PhaseKept DEF RequestRemove
  <2>3. Phase(t) # "unborn" /\ Phase(t)' = "deleted"
    BY <1>0, <1>5 DEF Phase, PhaseOf, Exists, TableTypeOK, RowStates
  <2> QED
    BY <1>3, <2>2, <2>3, Moves
<1>6. ASSUME WriteRow(h), NEW t \in Tasks, InsertTask(t), Await(h, "state", t)
      PROVE  LifecycleStep
  <2>1. InsertTask(t) /\ Await(h, "state", t)
    BY <1>6
  <2>2. hd'[h].pc = "state" /\ hd'[h].task = t /\ hd[h].pc # "state"
    BY <1>0, <1>6, <2>1 DEF Await, WriteRow, HandlerRecords
  <2>3. ASSUME NEW u \in Tasks \ {t}
        PROVE  Phase(u)' = Phase(u)
    <3>1. dbState'[u] = dbState[u]
      BY <1>0, <2>1 DEF InsertTask, TableTypeOK
    <3>2. BeingWritten(u)' <=> BeingWritten(u)
      BY <1>1, <2>2 DEF BeingWritten
    <3> QED
      BY <3>1, <3>2 DEF Phase, Exists
  <2>4. Phase(t) = "unborn"
    BY <2>1 DEF InsertTask, Phase, PhaseOf, Exists
  <2>5. Phase(t)' = "draft"
    <3>1. dbState'[t] = RowDefault
      BY <1>0, <2>1 DEF InsertTask, TableTypeOK
    <3> QED
      BY <2>2, <3>1 DEF Phase, Exists, BeingWritten
  <2>6. Holder(t) = None
    BY <1>0, <1>4, <2>1 DEF InsertTask, CleanInv
  <2> QED
    BY <1>3, <2>3, <2>4, <2>5, <2>6, Moves
<1>7. ASSUME WriteRow(h), NEW t \in Tasks, t = hd[h].task
       PROVE  LifecycleStep
  <2>1. dbState' = dbState
    BY <1>7, TableAssumption DEF WriteRow, UpdateTask, table
  <2>2. hd'[h].pc = "state" /\ hd'[h].task = t /\ hd[h].pc = "write"
    BY <1>0, <1>7, TableAssumption DEF Await, WriteRow, HandlerRecords
  <2>3. ASSUME NEW u \in Tasks \ {t}
        PROVE  Phase(u)' = Phase(u)
    <3>1. BeingWritten(u)' <=> BeingWritten(u)
      BY <1>1, <1>7, <2>2 DEF BeingWritten
    <3> QED
      BY <2>1, <3>1 DEF Phase, Exists
  <2>4. CASE ~Exists(t)
    <3>1. Phase(t)' = Phase(t)
      BY <2>1, <2>4 DEF Phase, Exists
    <3> QED
      BY <1>3, <2>3, <3>1, Stutters
  <2>5. CASE Exists(t)
    <3>1. Free(t) /\ dbState[t] \in {"saved", "success", "failed"}
      BY <1>7, <2>2, <2>5 DEF RewriteIsAlone, Exists
    <3>2. Holder(t) = None
      BY <3>1 DEF Free, HolderInv
    <3>3. ~BeingWritten(t)
      BY <1>0, <1>7, <2>2 DEF BeingWritten, HeldInv, Occupies
    <3>4. Phase(t) \in {"draft", "success", "failed"}
      BY <3>1, <3>3 DEF Phase, PhaseOf
    <3>5. Phase(t)' = "draft"
      BY <2>1, <2>2, <2>5 DEF Phase, Exists, BeingWritten
    <3>6. CASE Phase(t) = "draft"
      BY <1>3, <2>3, <3>5, <3>6, Stutters
    <3>7. CASE Phase(t) \in {"success", "failed"}
      BY <1>3, <2>3, <3>2, <3>5, <3>7, Moves
    <3> QED
      BY <3>4, <3>6, <3>7
  <2> QED
    BY <2>4, <2>5
<1>8. ASSUME WriteState(h), NEW t, t = hd[h].task
      PROVE  LifecycleStep
  <2>1. hd[h].pc = "state" /\ hd'[h].pc = "idle"
    BY <1>0, <1>8 DEF WriteState, Respond, NoHandler, NoPreview
  <2>2. ASSUME NEW u \in Tasks, u # t
        PROVE  Phase(u)' = Phase(u)
    <3>1. dbState'[u] = dbState[u]
      BY <1>0, <1>8, <2>2 DEF WriteState, SetMergeState, TableTypeOK
    <3>2. BeingWritten(u)' <=> BeingWritten(u)
      BY <1>1, <1>8, <2>1, <2>2 DEF BeingWritten
    <3> QED
      BY <3>1, <3>2 DEF Phase, Exists
  <2>3. CASE t \notin Tasks
    BY <1>3, <2>2, <2>3, Stutters
  <2>4. CASE t \in Tasks
    <3>1. BeingWritten(t) /\ (Exists(t) => scanned[t] = None)
      BY <1>0, <1>8, <2>1, <2>4 DEF BeingWritten, FreshInv, Occupies, Exists
    <3>2. ~BeingWritten(t)'
      BY <1>0, <1>1, <1>8, <2>1, <2>4 DEF HeldInv, Occupies, BeingWritten
    <3>3. Phase(t)' = PhaseOf(dbState'[t])
      BY <3>2 DEF Phase
    <3>4. CASE Exists(t)
      <4>1. dbState'[t] \in {"saved", "waiting"}
        BY <1>0, <1>8, <2>4, <3>4 DEF WriteState, SetMergeState, DbFails, Calm, TableTypeOK
      <4>2. Phase(t) = "draft" /\ Holder(t) = None
        BY <1>4, <2>4, <3>1, <3>4 DEF Phase
      <4>3. Phase(t)' \in {"draft", "queued"}
        BY <3>3, <4>1 DEF PhaseOf
      <4>4. CASE Phase(t)' = "draft"
        BY <1>3, <2>2, <4>2, <4>4, Stutters
      <4>5. CASE Phase(t)' = "queued"
        BY <1>3, <2>2, <2>4, <4>2, <4>5, Moves
      <4> QED
        BY <4>3, <4>4, <4>5
    <3>5. CASE ~Exists(t)
      <4>1. dbState'[t] = dbState[t]
        BY <1>8, <3>5 DEF WriteState, SetMergeState
      <4>2. Phase(t)' = Phase(t)
        BY <3>3, <3>5, <4>1 DEF Phase
      <4> QED
        BY <1>3, <2>2, <4>2, Stutters
    <3> QED
      BY <3>4, <3>5
  <2> QED
    BY <2>3, <2>4
<1>9. CASE /\ \A t \in Tasks : dbState'[t] = dbState[t]
           /\ hd'[h].pc # "state" /\ hd[h].pc # "state"
  <2>1. \A t \in Tasks : BeingWritten(t)' <=> BeingWritten(t)
    BY <1>1, <1>9 DEF BeingWritten
  <2>2. \A t \in Tasks : Phase(t)' = Phase(t)
    BY <1>9, <2>1 DEF Phase, Exists
  <2> QED
    BY <1>3, <2>2, Stutters
<1>10. CASE Request(h)
  <2>1. hd[h].pc # "state" /\ hd'[h].pc # "state"
    <3>1. hd[h].pc = "idle"
      BY <1>0, <1>10, RequestFrame
    <3>2. CASE UNCHANGED hd
      BY <3>1, <3>2
    <3>3. ASSUME NEW s \in Servers, NEW op \in Requests, RequestNew(h, s, op)
          PROVE  hd'[h].pc = "write"
      BY <1>0, <3>3 DEF RequestNew, Accept
    <3>4. ASSUME NEW s \in Servers, NEW op \in Requests, NEW t \in Tasks, NEW audio \in BOOLEAN,
                 RequestAgain(h, s, op, t, audio), ~UNCHANGED hd
          PROVE  hd'[h].pc \in {"lookup", "write"}
      BY <1>0, <3>4 DEF RequestAgain, Accept
    <3> QED
      BY <1>10, <3>1, <3>2, <3>3, <3>4 DEF Request, RequestRemove, RequestPriority
  <2>2. ASSUME NEW t \in Tasks, dbState'[t] # dbState[t]
        PROVE  RequestRemove(h, t) /\ dbState[t] # "unborn" /\ dbState'[t] = "deleted"
    <3>1. ~WriteRow(h) /\ ~WriteState(h)
      BY <1>0, <1>10, RequestFrame DEF WriteRow, WriteState
    <3> QED
      BY <1>0, <2>2, <3>1, HandlerWrites
  <2> QED
    BY <1>5, <1>9, <2>1, <2>2
<1>11. CASE Handle(h)
  <2>1. CASE LookUp(h)
    BY <1>0, <1>9, <2>1 DEF LookUp, Await, HandlerRecords, table
  <2>2. CASE WriteRow(h)
    BY <1>0, <1>6, <1>7, <2>2 DEF WriteRow, HandlerRecords, Calm, DbFails
  <2> QED
    BY <1>0, <1>8, <1>11, <2>1, <2>2 DEF Handle, SyncStart, SyncRun, SyncGiveUp, NoPreview
<1> QED
  BY <1>10, <1>11

LEMMA LifecycleInit == Init => Lifecycle!Init
  BY DEF Init, TableInit, Lifecycle!Init, Exists, PhaseOf, Holds, Contends

LEMMA LifecycleNext ==
  ASSUME RewriteIsAlone, NoPreviewAsked, Calm, RefInv, RefInv', [Next]_vars
  PROVE  LifecycleStep
<1>0. HolderInv /\ HolderInv'
  BY HolderUnique, HolderUniqueNext DEF RefInv, ExecInv
<1>1. CASE UNCHANGED <<dbState, scanned, snd, hd>>
  BY <1>0, <1>1, Stutters, PhaseKept DEF Holds, Contends, snd
<1>2. \A s \in Servers : ~Crash(s)
  BY DEF Crash, Calm
<1> QED
  BY <1>0, <1>1, <1>2, SenderRefines, ReceiverRefines, HandlerRefines
     DEF Next, ActorDrops, vars, table

(* Every task lives the life TaskLifecycle describes, if connections and   *)
(* the database work, nothing crashes, a thread begins within the sender's *)
(* rest, clients are orderly and no handler runs a task itself; then       *)
(* neither a missing digital human, a configuration error, a message       *)
(* without a code nor a thread that cannot be created matters.             *)
THEOREM LifecycleImplemented ==
  ASSUME Orderly, NoPreviewAsked, Calm, RowDefault # "waiting"
  PROVE  Spec => ImplementsLifecycle
<1>1. RefInv /\ Courtesy /\ [Next]_vars => RefInv'
  BY RefStep
<1>2. RefInv /\ RefInv' /\ Courtesy /\ [Next]_vars => LifecycleStep
  BY LifecycleNext DEF Courtesy
<1> QED
  BY <1>1, <1>2, RefInit, LifecycleInit, OrderlyCourtesy, PTL
     DEF Spec, ImplementsLifecycle, Lifecycle!Spec, LifecycleStep, phases, holders

=============================================================================
