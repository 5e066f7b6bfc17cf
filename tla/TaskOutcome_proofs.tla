------------------------ MODULE TaskOutcome_proofs ------------------------
(***************************************************************************)
(* More theorems about TaskDispatch: that no task is stranded or executed  *)
(* twice, and what becomes of its outcome.  They all hold for orderly      *)
(* clients: ones that submit every task once, as in ClaimExclusive, and    *)
(* ones that write a task again after they were told that it is settled.   *)
(***************************************************************************)
EXTENDS TaskDispatch_proofs

USE DispatchAssumption, TableAssumption

SubmitsOnce == ClientOps \cap Again = {}

NoPreviewAsked == ClientOps \cap Previewing = {}

(* Clients that write a task again are patient when they wait to be told   *)
(* of its outcome, and can be when what they are told is final.  That it   *)
(* is takes threads that begin in time ("late": the outcome of another     *)
(* task is announced), no previews (the sender announces an outcome that   *)
(* the handler of a preview wrote), and not both a network and a database  *)
(* that fail (a row settled as failed by a send is offered on, and is      *)
(* announced as failed when the next setmergestate fails).                 *)
PatientClients ==
  /\ Env \cap {"hasty", "impatient", "late"} = {}
  /\ "net" \notin Env \/ "db" \notin Env
  /\ NoPreviewAsked
  /\ RowDefault # "waiting"

Orderly == SubmitsOnce \/ PatientClients

(* When a known task is written again by patient clients.                  *)
LEMMA AgainWhen ==
  ASSUME Orderly, NEW h \in Handlers, NEW s \in Servers, NEW op \in Requests,
         NEW t \in Tasks, NEW audio \in BOOLEAN, RequestAgain(h, s, op, t, audio)
  PROVE  /\ PatientClients /\ ~SubmitsOnce
         /\ op \notin Previewing
         /\ \A k \in Handlers : hd[k].task # t
         /\ dbState[t] \in {"saved", "deleted"} \/ (Settled(t) /\ notified[t] = dbState[t])
<1>1. ~SubmitsOnce
  BY DEF RequestAgain, SubmitsOnce
<1>2. PatientClients
  BY <1>1 DEF Orderly
<1> QED
  BY <1>1, <1>2 DEF RequestAgain, Ready, PatientClients, NoPreviewAsked

-----------------------------------------------------------------------------
(* What steps leave alone.                                                 *)

NoNewContender == \A s \in Servers, t \in Tasks : Contends(s, t)' => Contends(s, t)

NoNewFetch == \A s \in Servers : sndPc'[s] = "fetch" => sndPc[s] = "fetch"

(* Every step of a sender but these four leaves keys, locals and threads.  *)
LEMMA SenderOrdinary ==
  ASSUME TypeInv, NEW s \in Servers, Sender(s),
         ~Scan(s), ~Fetch(s), ~Release(s), ~Spawn(s)
  PROVE  RowsKept /\ NoNewContender /\ NoNewFetch /\ UNCHANGED <<sndTask, thr>>
<1> USE DEF Goto, KeepSender
<1>0. TableTypeOK /\ sndPc \in [Servers -> SenderPcs] /\ sndTask \in [Servers -> Tasks \cup {None}]
  BY DEF TypeInv, TypeOK
<1>1. ASSUME UNCHANGED snd
      PROVE  NoNewContender /\ NoNewFetch /\ UNCHANGED sndTask
  BY <1>1 DEF NoNewContender, NoNewFetch, Contends, snd
<1>2. ASSUME NEW pc, sndPc' = [sndPc EXCEPT ![s] = pc], UNCHANGED sndTask,
             sndPc[s] \in {"loop", "send", "judge", "clear", "announce", "spawn"}
               \/ pc \in {"scan", "socket"},
             pc # "fetch"
      PROVE  NoNewContender /\ NoNewFetch
  BY <1>0, <1>2 DEF NoNewContender, NoNewFetch, Contends
<1>3. CASE NextActor(s)
  BY <1>0, <1>2, <1>3, TableRowsKept DEF NextActor
<1>4. CASE SkipActor(s) \/ NoReply(s) \/ ReplyConfigError(s) \/ ReplyBusy(s)
  BY <1>0, <1>2, <1>4, TableRowsKept DEF SkipActor, NoReply, ReplyConfigError, ReplyBusy, Offering
<1>5. CASE SendFails(s)
  BY <1>0, <1>2, <1>5, SetMergeStateKeeps DEF SendFails, Offering
<1>6. CASE ReplyResult(s)
  BY <1>0, <1>2, <1>6, SetMergeStateKeeps DEF ReplyResult, Offering
<1>7. CASE ReplyAccept(s)
  BY <1>0, <1>2, <1>7, SetMergeStateKeeps DEF ReplyAccept, Offering
<1>8. CASE AnnounceResult(s) \/ Judge(s)
  BY <1>0, <1>2, <1>8, TableRowsKept DEF AnnounceResult, Judge
<1>9. CASE MarkRunning(s) \/ StoreSocket(s)
  BY <1>0, <1>2, <1>9, TableRowsKept DEF MarkRunning, StoreSocket
<1>10. CASE Purge(s)
  BY <1>1, <1>10, TableRowsKept DEF Purge
<1> QED
  BY <1>3, <1>4, <1>5, <1>6, <1>7, <1>8, <1>9, <1>10 DEF Sender

(* A receiver thread keeps its own errand, and leaves keys and senders.    *)
LEMMA ReceiverFrame ==
  ASSUME TypeInv, NEW r \in Threads, Receiver(r)
  PROVE  /\ RowsKept /\ UNCHANGED <<snd, hd>>
         /\ \A q \in Threads \ {r} : thr'[q] = thr[q]
         /\ thr[r].pc # "free"
         /\ thr'[r].pc # "free" => thr'[r].for = thr[r].for /\ thr'[r].srv = thr[r].srv
         /\ thr'[r].pc # "start"
<1>0. TableTypeOK /\ thr \in [Threads -> ThreadRecords]
  BY DEF TypeInv, TypeOK
<1>1. RowsKept
  BY <1>0, SetMergeStateKeeps, TableRowsKept
     DEF Receiver, ThreadStart, ReceiveResult, ReceiveNothing, CloseTask, FailTask, ThreadEnd
<1>2. UNCHANGED <<snd, hd>>
  BY DEF Receiver, ThreadStart, ReceiveResult, ReceiveNothing, CloseTask, FailTask, ThreadEnd
<1>3. CASE ThreadStart(r)
  BY <1>0, <1>1, <1>2, <1>3 DEF ThreadStart, Become, ThreadRecords
<1>4. CASE ReceiveResult(r) \/ ReceiveNothing(r) \/ CloseTask(r) \/ FailTask(r)
  BY <1>0, <1>1, <1>2, <1>4 DEF ReceiveResult, ReceiveNothing, CloseTask, FailTask, Become, ThreadRecords
<1>5. CASE ThreadEnd(r)
  BY <1>0, <1>1, <1>2, <1>5 DEF ThreadEnd, NoThread
<1> QED
  BY <1>3, <1>4, <1>5 DEF Receiver

LEMMA RequestFrame ==
  ASSUME TypeInv, NEW h \in Handlers, Request(h)
  PROVE  RowsKept /\ UNCHANGED <<snd, thr, mem, notified>> /\ hd[h].pc = "idle" /\ reqs' = reqs + 1
<1>0. TableTypeOK
  BY DEF TypeInv, TypeOK
<1>1. ASSUME NEW t \in Tasks, NEW p \in 0..MaxPriority, SetPriority(t, p)
      PROVE  RowsKept
  BY <1>1 DEF SetPriority, RowsKept
<1>2. RowsKept
  BY <1>0, <1>1, DeleteKeeps, TableRowsKept
     DEF Request, RequestNew, RequestAgain, RequestRemove, RequestPriority
<1> QED
  BY <1>2 DEF Request, RequestNew, RequestAgain, RequestRemove, RequestPriority

(* A handler inserts a row nobody knew, clears the key of the row it is    *)
(* about to queue again, or leaves all keys.                               *)
Rewrites(h, t) ==
  /\ WriteRow(h) /\ hd[h].pc = "write" /\ hd[h].task = t /\ Exists(t)
  /\ scanned' = [scanned EXCEPT ![t] = None]
  /\ UNCHANGED dbState
  /\ Await(h, "state", t)

LEMMA HandleFrame ==
  ASSUME TypeInv, NEW h \in Handlers, Handle(h)
  PROVE  /\ UNCHANGED <<snd, thr, mem>>
         /\ \/ RowsKept
            \/ WriteRow(h) /\ \E t \in Tasks : InsertTask(t) /\ Await(h, "state", t)
            \/ \E t \in Tasks : Rewrites(h, t)
<1>0. TableTypeOK
  BY DEF TypeInv, TypeOK
<1>1. UNCHANGED <<snd, thr, mem>>
  BY DEF Handle, LookUp, WriteRow, WriteState, SyncStart, SyncRun, SyncGiveUp
<1>2. CASE WriteRow(h)
  BY <1>1, <1>2, TableRowsKept DEF WriteRow, UpdateTask, Exists, Rewrites
<1>3. CASE LookUp(h) \/ WriteState(h) \/ SyncStart(h) \/ SyncRun(h) \/ SyncGiveUp(h)
  BY <1>0, <1>1, <1>3, SetMergeStateKeeps, DeleteKeeps, TableRowsKept
     DEF LookUp, WriteState, SyncStart, SyncRun, SyncGiveUp
<1> QED
  BY <1>2, <1>3 DEF Handle

-----------------------------------------------------------------------------
(* One receiver thread per task.  The row of a thread's task keeps a key,  *)
(* so that no sender can claim it, and no sender that has claimed it is    *)
(* still in its loop.  A thread that has not begun finds in its sender's   *)
(* local the task it was created for, because the sender rests until it    *)
(* has begun.                                                              *)

Runs(r) == thr[r].pc # "free"

Errand(r) ==
  /\ thr[r].for \in Tasks
  /\ scanned[thr[r].for] # None /\ dbState[thr[r].for] # "unborn"
  /\ thr[r].pc = "start" => sndTask[thr[r].srv] = thr[r].for /\ sndPc[thr[r].srv] # "fetch"
  /\ thr[r].task \in {None, thr[r].for}
  /\ thr[r].pc \in {"recv", "heard", "unheard"} => thr[r].task = thr[r].for

Undisputed(r) ==
  \A s \in Servers : /\ ~Contends(s, thr[r].for)
                     /\ sndPc[s] = "fetch" => scanned[thr[r].for] # s

ThreadInv ==
  /\ \A r \in Threads : Runs(r) => Errand(r) /\ Undisputed(r)
  /\ \A r, q \in Threads : Runs(r) /\ Runs(q) /\ thr[r].for = thr[q].for => r = q

(* A sender in its loop has a task in hand.                                *)
HandInv == \A s \in Servers : sndPc[s] \notin {"scan", "fetch"} => sndTask[s] \in Tasks

ExecInv == ClaimInv /\ ThreadInv /\ HandInv

LEMMA ExecInit == Init => ExecInv
  BY ClaimInit DEF Init, ExecInv, ThreadInv, HandInv, Runs, NoThread

(* What every step does to keys: none is cleared but of a task in hand or  *)
(* of a row that is inserted, and only a scan sets new ones.               *)
KeysKept ==
  \A r \in Threads : Runs(r) =>
    /\ scanned'[thr[r].for] # None /\ dbState'[thr[r].for] # "unborn"
    /\ \A s \in Servers : sndPc'[s] = "fetch" => scanned'[thr[r].for] # s

LEMMA RowsKeepKeys ==
  ASSUME ThreadInv, RowsKept, NoNewFetch
  PROVE  KeysKept
  BY DEF ThreadInv, Errand, Undisputed, RowsKept, NoNewFetch, KeysKept

LEMMA ThreadsQuiet ==
  ASSUME ThreadInv, UNCHANGED thr, KeysKept, NoNewContender,
         \A r \in Threads : thr[r].pc = "start" =>
           /\ sndTask'[thr[r].srv] = sndTask[thr[r].srv]
           /\ sndPc'[thr[r].srv] # "fetch"
  PROVE  ThreadInv'
<1>1. ASSUME NEW r \in Threads, Runs(r)'
      PROVE  Errand(r)' /\ Undisputed(r)'
  <2>1. Runs(r) /\ Errand(r) /\ Undisputed(r)
    BY <1>1 DEF Runs, ThreadInv
  <2>2. Errand(r)'
    BY <2>1 DEF Errand, KeysKept
  <2>3. Undisputed(r)'
    BY <2>1 DEF Undisputed, KeysKept, NoNewContender, Errand
  <2> QED
    BY <2>2, <2>3
<1> QED
  BY <1>1 DEF ThreadInv, Runs

LEMMA ScanThreads ==
  ASSUME "late" \notin Env, ExecInv, NEW s \in Servers, Scan(s)
  PROVE  ThreadInv'
<1>0. /\ TableTypeOK /\ sndPc \in [Servers -> SenderPcs]
      /\ sndTask \in [Servers -> Tasks \cup {None}]
      /\ thr \in [Threads -> ThreadRecords] /\ ThreadInv
  BY DEF ExecInv, ClaimInv, TypeInv, TypeOK
<1>1. NoNewContender
  BY <1>0 DEF Scan, Goto, NoNewContender, Contends
<1>2. dbState' = dbState /\ UNCHANGED thr
  BY DEF Scan, ClaimNothing, ClaimNextRun
<1>3. \A u \in Servers \ {s} : sndPc'[u] = sndPc[u] /\ sndTask'[u] = sndTask[u]
  BY <1>0 DEF Scan, Goto
<1>4. ASSUME NEW t \in Tasks, scanned[t] # None
      PROVE  /\ scanned'[t] # None
             /\ \A u \in Servers : scanned'[t] = u => scanned[t] = u /\ u # s
  <2>1. Outdated(s)[t] # None /\ \A u \in Servers : Outdated(s)[t] = u => scanned[t] = u /\ u # s
    BY <1>4 DEF Outdated
  <2>2. scanned'[t] = Outdated(s)[t]
    <3>1. CASE ClaimNothing(s)
      BY <3>1 DEF ClaimNothing
    <3>2. ASSUME NEW x \in Tasks, ClaimNextRun(s, x)
          PROVE  scanned'[t] = Outdated(s)[t]
      <4>1. x # t
        BY <1>4, <3>2 DEF ClaimNextRun, Foremost, Scannable
      <4> QED
        BY <3>2, <4>1 DEF ClaimNextRun, Outdated
    <3> QED
      BY <3>1, <3>2 DEF Scan
  <2> QED
    BY <2>1, <2>2
<1>5. KeysKept
  <2>1. ASSUME NEW r \in Threads, Runs(r)
        PROVE  /\ thr[r].for \in Tasks /\ scanned[thr[r].for] # None
               /\ dbState[thr[r].for] # "unborn" /\ Undisputed(r)
    BY <1>0, <2>1 DEF ThreadInv, Errand
  <2> QED
    BY <1>2, <1>3, <1>4, <2>1 DEF KeysKept, Undisputed
<1>6. \A r \in Threads : thr[r].pc = "start" => thr[r].srv \in Servers /\ thr[r].srv # s /\ sndPc[thr[r].srv] # "fetch"
  <2>1. \A r \in Threads : thr[r].pc = "start" => thr[r].srv # s
    BY DEF Scan, Rested
  <2>2. \A r \in Threads : thr[r].pc = "start" => thr[r].srv \in Servers
    BY DEF ExecInv, ClaimInv, TypeInv, ThreadsHaveServer
  <2>3. \A r \in Threads : thr[r].pc = "start" => sndPc[thr[r].srv] # "fetch"
    BY <1>0 DEF ThreadInv, Runs, Errand
  <2> QED
    BY <2>1, <2>2, <2>3
<1> QED
  BY <1>0, <1>1, <1>2, <1>3, <1>5, <1>6, ThreadsQuiet

(* A sender takes a task in hand that no thread has.                       *)
LEMMA FetchThreads ==
  ASSUME ExecInv, NEW s \in Servers, Fetch(s)
  PROVE  ThreadInv'
<1>0. /\ sndPc \in [Servers -> SenderPcs] /\ sndTask \in [Servers -> Tasks \cup {None}]
      /\ ThreadInv
  BY DEF ExecInv, ClaimInv, TypeInv, TypeOK
<1>1. UNCHANGED <<scanned, dbState, thr>> /\ sndPc[s] = "fetch"
  BY DEF Fetch, table
<1>2. \A u \in Servers : sndPc'[u] = "fetch" => sndPc[u] = "fetch"
  BY <1>0 DEF Fetch, Goto
<1>3. KeysKept
  BY <1>0, <1>1, <1>2, RowsKeepKeys DEF NoNewFetch, RowsKept
<1>4. \A u \in Servers \ {s} : sndPc'[u] = sndPc[u] /\ sndTask'[u] = sndTask[u]
  BY <1>0 DEF Fetch, Goto, KeepSender
<1>5. ASSUME NEW t \in Tasks, Contends(s, t)'
      PROVE  scanned[t] = s
  BY <1>0, <1>1, <1>5 DEF Contends, Fetch, Goto, KeepSender, ClaimedRows
<1>6. ASSUME NEW r \in Threads, Runs(r)'
      PROVE  Errand(r)' /\ Undisputed(r)'
  <2>1. Runs(r) /\ Errand(r) /\ Undisputed(r)
    BY <1>0, <1>1, <1>6 DEF Runs, ThreadInv
  <2>2. thr[r].pc = "start" => thr[r].srv \in Servers /\ thr[r].srv # s
    BY <1>1, <2>1 DEF Errand, ExecInv, ClaimInv, TypeInv, ThreadsHaveServer
  <2>3. Errand(r)'
    BY <1>1, <1>4, <2>1, <2>2 DEF Errand
  <2>4. scanned[thr[r].for] # s
    BY <1>1, <2>1 DEF Undisputed
  <2>5. Undisputed(r)'
    BY <1>1, <1>2, <1>4, <1>5, <2>1, <2>4 DEF Undisputed, Errand, Contends
  <2> QED
    BY <2>3, <2>5
<1> QED
  BY <1>0, <1>1, <1>6 DEF ThreadInv, Runs

LEMMA ReleaseThreads ==
  ASSUME ExecInv, NEW s \in Servers, Release(s)
  PROVE  ThreadInv'
<1>0. /\ TableTypeOK /\ sndPc \in [Servers -> SenderPcs]
      /\ sndTask \in [Servers -> Tasks \cup {None}] /\ ThreadInv
  BY DEF ExecInv, ClaimInv, TypeInv, TypeOK
<1>1. NoNewContender /\ NoNewFetch /\ UNCHANGED <<thr, sndTask, dbState>>
  BY <1>0 DEF Release, Goto, KeepSender, NoNewContender, NoNewFetch, Contends, ClearScannedTime
<1>2. ASSUME NEW r \in Threads, Runs(r)
      PROVE  scanned'[thr[r].for] = scanned[thr[r].for]
  <2>1. thr[r].for \in Tasks /\ ~Contends(s, thr[r].for)
    BY <1>0, <1>2 DEF ThreadInv, Errand, Undisputed
  <2>2. thr[r].for # sndTask[s]
    BY <2>1 DEF Contends, Release
  <2> QED
    BY <1>0, <2>1, <2>2 DEF Release, ClearScannedTime, TableTypeOK
<1>3. KeysKept
  BY <1>0, <1>1, <1>2 DEF KeysKept, ThreadInv, Errand, Undisputed, NoNewFetch
<1>4. \A r \in Threads : thr[r].pc = "start" => sndPc'[thr[r].srv] # "fetch"
  BY <1>0, <1>1 DEF ThreadInv, Errand, Runs, NoNewFetch, ExecInv, ClaimInv, TypeInv, ThreadsHaveServer
<1> QED
  BY <1>0, <1>1, <1>3, <1>4, ThreadsQuiet

(* The only step that creates a thread: its task is in the sender's hand,  *)
(* so no thread has it yet, and the sender lets go of it.                  *)
LEMMA SpawnThreads ==
  ASSUME ExecInv, NEW s \in Servers, Spawn(s)
  PROVE  ThreadInv'
<1> DEFINE t == sndTask[s]
<1>0. /\ sndPc \in [Servers -> SenderPcs] /\ sndTask \in [Servers -> Tasks \cup {None}]
      /\ thr \in [Threads -> ThreadRecords] /\ ThreadInv /\ t \in Tasks
  BY DEF ExecInv, ClaimInv, TypeInv, TypeOK, HandInv, Spawn
<1>1. NoNewContender /\ NoNewFetch /\ UNCHANGED <<sndTask, scanned, dbState>>
  BY <1>0 DEF Spawn, Goto, KeepSender, NoNewContender, NoNewFetch, Contends, table
<1>2. KeysKept
  BY <1>0, <1>1, RowsKeepKeys DEF RowsKept
<1>3. \A r \in Threads : thr[r].pc = "start" => sndPc'[thr[r].srv] # "fetch"
  BY <1>0, <1>1 DEF ThreadInv, Errand, Runs, NoNewFetch, ExecInv, ClaimInv, TypeInv, ThreadsHaveServer
<1>4. CASE UNCHANGED thr
  BY <1>0, <1>1, <1>2, <1>3, <1>4, ThreadsQuiet
<1>5. ASSUME NEW q \in Threads, thr[q].pc = "free",
             thr' = [thr EXCEPT ![q] = [pc |-> "start", srv |-> s, for |-> t,
                                        task |-> None, sock |-> 0]],
             Goto(s, "mark")
      PROVE  ThreadInv'
  <2>1. Contends(s, t) /\ scanned[t] = s /\ dbState[t] # "unborn"
    BY <1>0 DEF Contends, Spawn, ExecInv, ClaimInv, Locked
  <2>2. \A u \in Servers : ~Contends(u, t)' /\ (sndPc'[u] = "fetch" => scanned'[t] # u)
    BY <1>0, <1>1, <1>5, <2>1 DEF Contends, Goto, ExecInv, ClaimInv, Locked
  <2>3. Runs(q)' /\ Errand(q)' /\ Undisputed(q)' /\ thr'[q].for = t
    BY <1>0, <1>1, <1>5, <2>1, <2>2 DEF Runs, Errand, Undisputed, Goto
  <2>4. ASSUME NEW r \in Threads \ {q}, Runs(r)'
        PROVE  Errand(r)' /\ Undisputed(r)' /\ thr'[r].for # t /\ Runs(r) /\ thr'[r] = thr[r]
    <3>1. thr'[r] = thr[r] /\ Runs(r) /\ Errand(r) /\ Undisputed(r)
      BY <1>0, <1>5, <2>4 DEF Runs, ThreadInv
    <3>2. thr[r].for # t
      BY <2>1, <3>1 DEF Undisputed
    <3>3. Errand(r)'
      BY <1>1, <1>3, <3>1 DEF Errand
    <3>4. Undisputed(r)'
      BY <1>1, <1>2, <3>1 DEF Undisputed, KeysKept, NoNewContender, Errand
    <3> QED
      BY <3>1, <3>2, <3>3, <3>4
  <2> QED
    BY <1>0, <2>3, <2>4 DEF ThreadInv
<1> QED
  BY <1>4, <1>5 DEF Spawn

LEMMA SenderHand ==
  ASSUME TypeInv, HandInv, NEW s \in Servers, Sender(s)
  PROVE  HandInv'
<1>0. sndPc \in [Servers -> SenderPcs] /\ sndTask \in [Servers -> Tasks \cup {None}]
  BY DEF TypeInv, TypeOK
<1> USE DEF HandInv, Goto, KeepSender
<1>1. CASE Scan(s)
  BY <1>0, <1>1 DEF Scan
<1>2. CASE Fetch(s)
  BY <1>0, <1>2 DEF Fetch, ClaimedRows
<1>3. CASE Release(s) \/ Spawn(s)
  BY <1>0, <1>3 DEF Release, Spawn
<1>4. CASE ~Scan(s) /\ ~Fetch(s) /\ ~Release(s) /\ ~Spawn(s)
  <2>1. UNCHANGED sndTask
    BY <1>4, SenderOrdinary
  <2>2. sndPc[s] \notin {"scan", "fetch"} \/ UNCHANGED sndPc
    BY <1>4
       DEF Sender, NextActor, SkipActor, SendFails, NoReply, ReplyConfigError, ReplyBusy,
           ReplyResult, AnnounceResult, ReplyAccept, MarkRunning, StoreSocket, Judge, Purge,
           Offering, snd
  <2>3. \A u \in Servers \ {s} : sndPc'[u] = sndPc[u]
    BY <1>0, <1>4
       DEF Sender, NextActor, SkipActor, SendFails, NoReply, ReplyConfigError, ReplyBusy,
           ReplyResult, AnnounceResult, ReplyAccept, MarkRunning, StoreSocket, Judge, Purge, snd
  <2> QED
    BY <2>1, <2>2, <2>3
<1> QED
  BY <1>1, <1>2, <1>3, <1>4

LEMMA SenderThreads ==
  ASSUME "late" \notin Env, ExecInv, NEW s \in Servers, Sender(s)
  PROVE  ThreadInv'
<1>1. CASE ~Scan(s) /\ ~Fetch(s) /\ ~Release(s) /\ ~Spawn(s)
  <2>1. RowsKept /\ NoNewContender /\ NoNewFetch /\ UNCHANGED <<sndTask, thr>>
    BY <1>1, SenderOrdinary DEF ExecInv, ClaimInv
  <2>2. KeysKept
    BY <2>1, RowsKeepKeys DEF ExecInv
  <2>3. \A r \in Threads : thr[r].pc = "start" => sndPc'[thr[r].srv] # "fetch"
    BY <2>1 DEF ExecInv, ThreadInv, Errand, Runs, NoNewFetch, ClaimInv, TypeInv, ThreadsHaveServer
  <2> QED
    BY <2>1, <2>2, <2>3, ThreadsQuiet DEF ExecInv
<1> QED
  BY <1>1, ScanThreads, FetchThreads, ReleaseThreads, SpawnThreads

LEMMA ReceiverThreads ==
  ASSUME ExecInv, NEW r \in Threads, Receiver(r)
  PROVE  ThreadInv'
<1>0. /\ TypeInv /\ thr \in [Threads -> ThreadRecords] /\ ThreadInv
      /\ Runs(r) /\ Errand(r) /\ Undisputed(r)
  BY ReceiverFrame DEF ExecInv, ClaimInv, TypeInv, TypeOK, ThreadInv, Runs
<1>1. /\ RowsKept /\ UNCHANGED snd
      /\ \A q \in Threads \ {r} : thr'[q] = thr[q]
      /\ Runs(r)' => thr'[r].for = thr[r].for
      /\ thr'[r].pc # "start"
  BY <1>0, ReceiverFrame DEF Runs
<1>2. ASSUME Runs(r)'
      PROVE  /\ thr'[r].task \in {None, thr[r].for}
             /\ thr'[r].pc \in {"recv", "heard", "unheard"} => thr'[r].task = thr[r].for
  <2> thr[r] \in ThreadRecords
    BY <1>0
  <2>1. CASE ThreadStart(r)
    <3> DEFINE s == thr[r].srv
               t == sndTask[s]
    <3>1. t = thr[r].for /\ thr[r].task \in {None, t}
      BY <1>0, <2>1 DEF Errand, ThreadStart
    <3>2. \/ thr' = [thr EXCEPT ![r].pc = "recv", ![r].task = t, ![r].sock = memSock[s][t]]
          \/ thr' = [thr EXCEPT ![r].pc = "fail", ![r].task = t]
          \/ thr' = [thr EXCEPT ![r].pc = "fail"]
      BY <2>1 DEF ThreadStart, Become
    <3>3. CASE thr' = [thr EXCEPT ![r].pc = "recv", ![r].task = t, ![r].sock = memSock[s][t]]
      BY <1>0, <3>1, <3>3 DEF ThreadRecords
    <3>4. CASE thr' = [thr EXCEPT ![r].pc = "fail", ![r].task = t]
      BY <1>0, <3>1, <3>4 DEF ThreadRecords
    <3>5. CASE thr' = [thr EXCEPT ![r].pc = "fail"]
      BY <1>0, <3>1, <3>5 DEF ThreadRecords
    <3> QED
      BY <3>2, <3>3, <3>4, <3>5
  <2>2. CASE ReceiveResult(r) \/ ReceiveNothing(r) \/ CloseTask(r) \/ FailTask(r)
    <3>1. \E pc \in ThreadPcs :
             /\ thr' = [thr EXCEPT ![r].pc = pc]
             /\ thr[r].pc \in {"recv", "heard", "unheard"} \/ pc = "notify"
      BY <2>2 DEF ReceiveResult, ReceiveNothing, CloseTask, FailTask, Become, ThreadPcs
    <3>2. thr'[r].task = thr[r].task
      BY <1>0, <3>1 DEF ThreadRecords
    <3>3. thr[r].pc \in {"recv", "heard", "unheard"} \/ thr'[r].pc = "notify"
      BY <1>0, <3>1 DEF ThreadRecords
    <3> QED
      BY <1>0, <3>2, <3>3 DEF Errand
  <2>3. CASE ThreadEnd(r)
    BY <1>0, <1>2, <2>3 DEF ThreadEnd, NoThread, Runs
  <2> QED
    BY <2>1, <2>2, <2>3 DEF Receiver
<1>3. KeysKept
  BY <1>0, <1>1, RowsKeepKeys DEF NoNewFetch, snd
<1>4. \A s \in Servers, t \in Tasks : Contends(s, t)' <=> Contends(s, t)
  BY <1>1 DEF Contends, snd
<1>5. ASSUME NEW q \in Threads, Runs(q)'
      PROVE  Errand(q)' /\ Undisputed(q)' /\ Runs(q) /\ thr'[q].for = thr[q].for
  <2>1. Runs(q) /\ thr'[q].for = thr[q].for
    BY <1>0, <1>1, <1>5 DEF Runs
  <2>2. Errand(q) /\ Undisputed(q)
    BY <1>0, <2>1 DEF ThreadInv
  <2>3. Undisputed(q)'
    BY <1>3, <1>4, <2>1, <2>2 DEF Undisputed, KeysKept, Errand
  <2>4. CASE q = r
    BY <1>1, <1>2, <1>3, <1>5, <2>1, <2>2, <2>3, <2>4 DEF Errand, KeysKept
  <2>5. CASE q # r
    BY <1>1, <1>3, <2>1, <2>2, <2>3, <2>5 DEF Errand, KeysKept, snd
  <2> QED
    BY <2>1, <2>3, <2>4, <2>5
<1> QED
  BY <1>0, <1>5 DEF ThreadInv

LEMMA HandlerThreads ==
  ASSUME RewriteIsAlone, ExecInv, NEW h \in Handlers, Request(h) \/ Handle(h)
  PROVE  ThreadInv'
<1>0. TypeInv /\ ThreadInv /\ TableTypeOK
  BY DEF ExecInv, ClaimInv, TypeInv, TypeOK
<1>1. UNCHANGED <<snd, thr>>
  BY <1>0, RequestFrame, HandleFrame
<1>2. KeysKept
  <2>1. CASE RowsKept
    BY <1>0, <1>1, <2>1, RowsKeepKeys DEF NoNewFetch, snd
  <2>2. ASSUME NEW t \in Tasks, InsertTask(t)
        PROVE  KeysKept
    <3>1. \A u \in Tasks : u # t => scanned'[u] = scanned[u] /\ dbState'[u] = dbState[u]
      BY <1>0, <2>2 DEF InsertTask, TableTypeOK
    <3>2. \A r \in Threads : Runs(r) => thr[r].for # t
      BY <1>0, <2>2 DEF ThreadInv, Errand, InsertTask
    <3> QED
      BY <1>0, <1>1, <3>1, <3>2 DEF KeysKept, ThreadInv, Errand, Undisputed, snd
  <2>3. ASSUME NEW t \in Tasks, Rewrites(h, t)
        PROVE  KeysKept
    <3>1. \A u \in Tasks : u # t => scanned'[u] = scanned[u] /\ dbState'[u] = dbState[u]
      BY <1>0, <2>3 DEF Rewrites, TableTypeOK
    <3>2. \A r \in Threads : Runs(r) => thr[r].for # t
      BY <2>3 DEF Rewrites, RewriteIsAlone, Exists, Free, Runs
    <3> QED
      BY <1>0, <1>1, <3>1, <3>2 DEF KeysKept, ThreadInv, Errand, Undisputed, snd
  <2> QED
    BY <1>0, <2>1, <2>2, <2>3, RequestFrame, HandleFrame
<1>3. NoNewContender
  BY <1>1 DEF NoNewContender, Contends, snd
<1> QED
  BY <1>0, <1>1, <1>2, <1>3, ThreadsQuiet DEF snd, ThreadInv, Errand, Runs

LEMMA CrashThreads ==
  ASSUME ExecInv, NEW s \in Servers, Crash(s)
  PROVE  ThreadInv'
<1>0. /\ sndPc \in [Servers -> SenderPcs] /\ sndTask \in [Servers -> Tasks \cup {None}]
      /\ thr \in [Threads -> ThreadRecords] /\ ThreadInv
  BY DEF ExecInv, ClaimInv, TypeInv, TypeOK
<1>1. \A r \in Threads : Runs(r)' => Runs(r) /\ thr'[r] = thr[r] /\ thr[r].srv # s
  BY <1>0 DEF Crash, Runs, NoThread
<1>2. \A u \in Servers, t \in Tasks : Contends(u, t)' => Contends(u, t)
  BY <1>0 DEF Crash, Contends
<1>3. \A u \in Servers : u # s => sndPc'[u] = sndPc[u] /\ sndTask'[u] = sndTask[u]
  BY <1>0 DEF Crash
<1>4. sndPc'[s] = "scan"
  BY <1>0 DEF Crash
<1>5. ASSUME NEW t \in Tasks, scanned[t] # None
      PROVE  scanned'[t] # None /\ \A u \in Servers : scanned'[t] = u => scanned[t] = u
  BY <1>5 DEF Crash, Outdated
<1>6. ASSUME NEW r \in Threads, Runs(r)'
      PROVE  Errand(r)' /\ Undisputed(r)'
  <2>1. Runs(r) /\ thr'[r] = thr[r] /\ thr[r].srv # s /\ Errand(r) /\ Undisputed(r)
    BY <1>0, <1>1, <1>6 DEF ThreadInv
  <2>2. thr[r].srv \in Servers
    BY <2>1 DEF Runs, ExecInv, ClaimInv, TypeInv, ThreadsHaveServer
  <2>3. dbState' = dbState
    BY DEF Crash
  <2>4. Errand(r)'
    BY <1>3, <1>5, <2>1, <2>2, <2>3 DEF Errand
  <2>5. Undisputed(r)'
    BY <1>2, <1>3, <1>4, <1>5, <2>1 DEF Undisputed, Errand
  <2> QED
    BY <2>4, <2>5
<1> QED
  BY <1>0, <1>1, <1>6 DEF ThreadInv

LEMMA ExecStep ==
  ASSUME RewriteIsAlone, "late" \notin Env, ExecInv, [Next]_vars
  PROVE  ExecInv'
<1>0. ClaimInv' /\ TypeInv
  BY ClaimStep DEF ExecInv, ClaimInv
<1>1. CASE UNCHANGED vars
  BY <1>0, <1>1
     DEF ExecInv, ThreadInv, HandInv, Runs, Errand, Undisputed, Contends, vars, snd, table
<1>2. ASSUME NEW a \in Actors, ActorDrops(a)
      PROVE  ExecInv'
  BY <1>0, <1>2
     DEF ExecInv, ThreadInv, HandInv, Runs, Errand, Undisputed, Contends, ActorDrops, snd, table
<1>3. ASSUME NEW s \in Servers, Sender(s)
      PROVE  ExecInv'
  BY <1>0, <1>3, SenderThreads, SenderHand DEF ExecInv
<1>4. ASSUME NEW s \in Servers, Crash(s)
      PROVE  ExecInv'
  <2>1. HandInv'
    BY <1>0, <1>4 DEF ExecInv, HandInv, Crash, TypeInv, TypeOK
  <2> QED
    BY <1>0, <1>4, <2>1, CrashThreads DEF ExecInv
<1>5. ASSUME NEW r \in Threads, Receiver(r)
      PROVE  ExecInv'
  BY <1>0, <1>5, ReceiverThreads, ReceiverFrame DEF ExecInv, HandInv, snd
<1>6. ASSUME NEW h \in Handlers, Request(h) \/ Handle(h)
      PROVE  ExecInv'
  <2>1. UNCHANGED snd
    BY <1>0, <1>6, RequestFrame, HandleFrame DEF ExecInv, ClaimInv
  <2> QED
    BY <1>0, <1>6, <2>1, HandlerThreads DEF ExecInv, HandInv, snd
<1> QED
  BY <1>1, <1>2, <1>3, <1>4, <1>5, <1>6 DEF Next

-----------------------------------------------------------------------------
(* What handlers hold.  Two handlers never work on the same row: a row is  *)
(* taken up by the handler that inserts it, or by a request of a patient   *)
(* client, when no handler has it.                                         *)

Occupies(h, t) == hd[h].pc # "idle" /\ hd[h].task = t

HeldInv ==
  \A h \in Handlers, t \in Tasks : Occupies(h, t) =>
    /\ dbState[t] # "unborn"
    /\ \A k \in Handlers : Occupies(k, t) => k = h

TakesUp(h, t) ==
  /\ Request(h)
  /\ \E s \in Servers, op \in Requests, audio \in BOOLEAN : RequestAgain(h, s, op, t, audio)
  /\ hd'[h].pc \in {"lookup", "write"}

(* A handler gets to the second statement by an INSERT or an UPDATE.       *)
Written(h, t) ==
  \/ InsertTask(t)
  \/ hd[h].pc = "write" /\ hd[h].task = t /\ UpdateTask(t)

LEMMA HandlerHolds ==
  ASSUME TypeInv, NEW h \in Handlers, Request(h) \/ Handle(h)
  PROVE  /\ \A k \in Handlers \ {h} : hd'[k] = hd[k]
         /\ \A t \in Tasks : Occupies(h, t)' => Occupies(h, t) \/ InsertTask(t) \/ TakesUp(h, t)
         /\ \A t \in Tasks : Occupies(h, t)' /\ hd'[h].pc = "state" => Written(h, t)
<1>0. hd \in [Handlers -> HandlerRecords] /\ hd[h] \in HandlerRecords
  BY DEF TypeInv, TypeOK
<1>1. CASE Request(h)
  <2>1. ASSUME NEW s \in Servers, NEW op \in Requests, NEW t \in Tasks, NEW audio \in BOOLEAN,
               RequestAgain(h, s, op, t, audio), ~UNCHANGED hd
        PROVE  /\ \A k \in Handlers \ {h} : hd'[k] = hd[k]
               /\ hd'[h].pc \in {"lookup", "write"} /\ hd'[h].task \in {t, None}
    BY <1>0, <2>1 DEF RequestAgain, Accept
  <2>2. ASSUME NEW s \in Servers, NEW op \in Requests, RequestNew(h, s, op)
        PROVE  /\ \A k \in Handlers \ {h} : hd'[k] = hd[k]
               /\ hd'[h].task = None
    BY <1>0, <2>2 DEF RequestNew, Accept
  <2>3. CASE UNCHANGED hd
    BY <1>0, <1>1, <2>3, RequestFrame DEF Occupies
  <2>4. ASSUME NEW s \in Servers, NEW op \in Requests, NEW t \in Tasks, NEW audio \in BOOLEAN,
               RequestAgain(h, s, op, t, audio), ~UNCHANGED hd,
               NEW u \in Tasks, Occupies(h, u)'
        PROVE  TakesUp(h, u) /\ hd'[h].pc # "state"
    <3>1. u = t
      BY <2>1, <2>4 DEF Occupies
    <3> QED
      BY <1>1, <2>1, <2>4, <3>1 DEF TakesUp
  <2> QED
    BY <1>1, <2>1, <2>2, <2>3, <2>4 DEF Request, RequestRemove, RequestPriority, Occupies
<1>2. CASE Handle(h)
  <2>1. CASE WriteRow(h)
    BY <1>0, <2>1 DEF WriteRow, Await, Occupies, Written, HandlerRecords
  <2>2. CASE \E pc \in {"sync", "run", "giveup"} : Await(h, pc, hd[h].task) /\ hd[h].pc # "idle"
    BY <1>0, <2>2 DEF Await, Occupies, HandlerRecords
  <2>3. CASE Respond(h)
    BY <1>0, <2>3 DEF Respond, NoHandler, Occupies
  <2>4. CASE UNCHANGED hd /\ hd[h].pc = "run"
    BY <1>0, <2>4 DEF Occupies
  <2>5. CASE LookUp(h)
    BY <1>0, <2>5 DEF LookUp, Await, Occupies, HandlerRecords
  <2> QED
    BY <1>2, <2>1, <2>2, <2>3, <2>4, <2>5
       DEF Handle, WriteState, SyncStart, SyncRun, SyncGiveUp, GiveUp
<1> QED
  BY <1>1, <1>2

LEMMA TakesUpWhen ==
  ASSUME Orderly, NEW h \in Handlers, NEW t \in Tasks, TakesUp(h, t)
  PROVE  /\ PatientClients /\ ~SubmitsOnce
         /\ \A k \in Handlers : hd[k].task # t
         /\ dbState[t] \in {"saved", "deleted"} \/ (Settled(t) /\ notified[t] = dbState[t])
         /\ dbState[t] # "unborn" /\ dbState' = dbState
  BY AgainWhen DEF TakesUp, Settled, RequestAgain, table

(* Senders and receivers change rows, and queue none.                      *)
NothingQueued == \A t \in Tasks : dbState'[t] = "waiting" => dbState[t] = "waiting"

KnownStay == \A t \in Tasks : dbState[t] # "unborn" => dbState'[t] # "unborn"

LEMMA SetMergeStateQuiet ==
  ASSUME TableTypeOK, NEW t, NEW v, v # "waiting", SetMergeState(t, v)
  PROVE  NothingQueued
  BY DEF NothingQueued, SetMergeState, TableTypeOK

LEMMA SenderRows ==
  ASSUME TypeInv, NEW s \in Servers, Sender(s)
  PROVE  /\ NothingQueued /\ KnownStay /\ UNCHANGED hd
         /\ \A t \in Tasks : scanned[t] = None => scanned'[t] = None \/ dbState[t] = "waiting"
<1>0. TableTypeOK
  BY DEF TypeInv, TypeOK
<1>1. UNCHANGED hd
  BY DEF Sender, Scan, Fetch, NextActor, SkipActor, SendFails, NoReply,
     ReplyConfigError, ReplyBusy, ReplyResult, AnnounceResult, ReplyAccept, Spawn,
     MarkRunning, StoreSocket, Judge, Release, Purge
<1>2. CASE Scan(s) \/ Release(s)
  BY <1>0, <1>1, <1>2
     DEF Scan, Release, ClaimNextRun, ClaimNothing, Foremost, Scannable, Outdated, TableTypeOK,
         ClearScannedTime, NothingQueued, KnownStay
<1>3. CASE SendFails(s) \/ ReplyResult(s) \/ ReplyAccept(s)
  BY <1>0, <1>1, <1>3, SetMergeStateKeeps, SetMergeStateQuiet
     DEF SendFails, ReplyResult, ReplyAccept, RowsKept, KnownStay
<1>4. CASE UNCHANGED table
  BY <1>1, <1>4 DEF table, NothingQueued, KnownStay
<1> QED
  BY <1>2, <1>3, <1>4
     DEF Sender, Fetch, NextActor, SkipActor, NoReply, ReplyConfigError, ReplyBusy,
         AnnounceResult, Spawn, MarkRunning, StoreSocket, Judge, Purge

LEMMA ReceiverRows ==
  ASSUME TypeInv, NEW r \in Threads, Receiver(r)
  PROVE  /\ NothingQueued /\ KnownStay /\ UNCHANGED <<hd, scanned>>
<1>0. TableTypeOK
  BY DEF TypeInv, TypeOK
<1>1. RowsKept /\ UNCHANGED hd
  BY ReceiverFrame
<1>2. NothingQueued
  BY <1>0, SetMergeStateQuiet
     DEF Receiver, ThreadStart, ReceiveResult, ReceiveNothing, CloseTask, FailTask, ThreadEnd,
         NothingQueued, table
<1> QED
  BY <1>1, <1>2 DEF RowsKept, KnownStay

(* A handler queues the row it holds, when it has just inserted it.        *)
LEMMA HandlerRows ==
  ASSUME ClaimInv, NEW h \in Handlers, Request(h) \/ Handle(h)
  PROVE  /\ KnownStay
         /\ \A t \in Tasks : scanned[t] = None => scanned'[t] = None
         /\ \A t \in Tasks : dbState'[t] = "waiting" =>
              \/ dbState[t] = "waiting"
              \/ InsertTask(t) /\ RowDefault = "waiting"
              \/ Occupies(h, t) /\ hd[h].pc = "state" /\ hd'[h].pc # "state"
<1>0. TableTypeOK /\ TypeInv /\ hd \in [Handlers -> HandlerRecords]
  BY DEF ClaimInv, TypeInv, TypeOK
<1>1. CASE RowsKept
  <2>1. CASE WriteState(h)
    <3>1. hd[h].pc = "state" /\ hd'[h].pc # "state"
      BY <1>0, <2>1 DEF WriteState, Await, Respond, NoHandler, HandlerRecords
    <3>2. \A t \in Tasks : dbState'[t] = "waiting" => dbState[t] = "waiting" \/ t = hd[h].task
      BY <1>0, <2>1 DEF WriteState, SetMergeState, TableTypeOK
    <3> QED
      BY <1>1, <3>1, <3>2 DEF RowsKept, KnownStay, Occupies
  <2>2. CASE SyncStart(h) \/ SyncRun(h)
    BY <1>0, <1>1, <2>2, SetMergeStateQuiet
       DEF SyncStart, SyncRun, NothingQueued, table, RowsKept, KnownStay
  <2>3. ASSUME NEW t, DeleteTask(t)
        PROVE  NothingQueued
    BY <1>0, <2>3 DEF DeleteTask, NothingQueued, TableTypeOK
  <2>4. CASE SyncGiveUp(h) \/ \E t \in Tasks : RequestRemove(h, t)
    BY <1>1, <2>3, <2>4 DEF SyncGiveUp, RequestRemove, NothingQueued, RowsKept, KnownStay
  <2>5. CASE UNCHANGED dbState
    BY <1>1, <2>5 DEF RowsKept, KnownStay
  <2>6. CASE WriteRow(h)
    BY <1>0, <1>1, <2>6
       DEF WriteRow, InsertTask, UpdateTask, TableTypeOK, RowsKept, KnownStay, table
  <2> QED
    BY <2>1, <2>2, <2>4, <2>5, <2>6
       DEF Request, RequestNew, RequestAgain, RequestPriority, SetPriority, Handle, LookUp, table
<1>2. ASSUME NEW t \in Tasks, InsertTask(t)
      PROVE  /\ KnownStay
             /\ \A u \in Tasks : scanned[u] = None => scanned'[u] = None
             /\ \A u \in Tasks : dbState'[u] = "waiting" =>
                  dbState[u] = "waiting" \/ (InsertTask(u) /\ RowDefault = "waiting")
  <2>1. \A u \in Tasks : u # t => dbState'[u] = dbState[u] /\ scanned'[u] = scanned[u]
    BY <1>0, <1>2 DEF InsertTask, TableTypeOK
  <2>2. dbState'[t] = RowDefault /\ scanned'[t] = None
    BY <1>0, <1>2 DEF InsertTask, TableTypeOK
  <2> QED
    BY <1>2, <2>1, <2>2 DEF KnownStay, InsertTask
<1>3. ASSUME NEW t \in Tasks, Rewrites(h, t)
      PROVE  UNCHANGED dbState /\ \A u \in Tasks : scanned[u] = None => scanned'[u] = None
  BY <1>0, <1>3 DEF Rewrites, TableTypeOK
<1> QED
  BY <1>0, <1>1, <1>2, <1>3, RequestFrame, HandleFrame DEF KnownStay

(* A deleted row stays deleted, for ids are not handed out twice.          *)
DeletedStay == \A t \in Tasks : dbState[t] = "deleted" => dbState'[t] = "deleted"

LEMMA SetMergeStateDeleted ==
  ASSUME TableTypeOK, NEW t, NEW v, SetMergeState(t, v)
  PROVE  DeletedStay
  BY DEF DeletedStay, SetMergeState, Exists, TableTypeOK

LEMMA DeletedStep ==
  ASSUME TypeInv, Next
  PROVE  DeletedStay
<1>0. TableTypeOK
  BY DEF TypeInv, TypeOK
<1>1. CASE UNCHANGED dbState
  BY <1>1 DEF DeletedStay
<1>2. ASSUME NEW t, DeleteTask(t)
      PROVE  DeletedStay
  BY <1>0, <1>2 DEF DeleteTask, DeletedStay, TableTypeOK
<1>3. ASSUME NEW t, InsertTask(t)
      PROVE  DeletedStay
  BY <1>0, <1>3 DEF InsertTask, DeletedStay, TableTypeOK
<1>4. ASSUME NEW s \in Servers, Sender(s)
      PROVE  DeletedStay
  BY <1>0, <1>1, <1>4, SetMergeStateDeleted
     DEF Sender, Scan, Fetch, NextActor, SkipActor, SendFails, NoReply, ReplyConfigError,
         ReplyBusy, ReplyResult, AnnounceResult, ReplyAccept, Spawn, MarkRunning, StoreSocket,
         Judge, Release, Purge, table, ClaimNextRun, ClaimNothing, ClearScannedTime
<1>5. ASSUME NEW r \in Threads, Receiver(r)
      PROVE  DeletedStay
  BY <1>0, <1>1, <1>5, SetMergeStateDeleted
     DEF Receiver, ThreadStart, ReceiveResult, ReceiveNothing, CloseTask, FailTask, ThreadEnd, table
<1>6. ASSUME NEW h \in Handlers, Request(h)
      PROVE  DeletedStay
  BY <1>1, <1>2, <1>6
     DEF Request, RequestNew, RequestAgain, RequestRemove, RequestPriority, SetPriority, table
<1>7. ASSUME NEW h \in Handlers, Handle(h)
      PROVE  DeletedStay
  <2>1. CASE WriteRow(h)
    BY <1>0, <1>1, <1>3, <2>1 DEF WriteRow, UpdateTask, table
  <2> QED
    BY <1>0, <1>1, <1>2, <1>7, <2>1, SetMergeStateDeleted
       DEF Handle, LookUp, WriteState, SyncStart, SyncRun, SyncGiveUp, table
<1> QED
  BY <1>1, <1>4, <1>5, <1>6, <1>7 DEF Next, Crash, ActorDrops, table

LEMMA HeldStep ==
  ASSUME Orderly, ClaimInv, HeldInv, [Next]_vars
  PROVE  HeldInv'
<1>0. TypeInv
  BY DEF ClaimInv
<1>1. CASE UNCHANGED hd /\ KnownStay
  BY <1>1 DEF HeldInv, Occupies, KnownStay
<1>2. ASSUME NEW h \in Handlers, Request(h) \/ Handle(h)
      PROVE  HeldInv'
  <2>0. TableTypeOK
    BY <1>0 DEF TypeInv, TypeOK
  <2>1. KnownStay
    BY <1>2, HandlerRows
  <2>2. \A t \in Tasks : InsertTask(t) => dbState[t] = "unborn" /\ dbState'[t] # "unborn"
    BY <2>0 DEF InsertTask, TableTypeOK
  <2>3. \A k \in Handlers \ {h}, t \in Tasks : Occupies(k, t)' <=> Occupies(k, t)
    BY <1>0, <1>2, HandlerHolds DEF Occupies
  <2>4. \A t \in Tasks : Occupies(h, t)' =>
          \/ Occupies(h, t) \/ InsertTask(t)
          \/ dbState[t] # "unborn" /\ \A k \in Handlers : hd[k].task # t
    BY <1>0, <1>2, HandlerHolds, TakesUpWhen
  <2>5. ASSUME NEW k \in Handlers, NEW t \in Tasks, Occupies(k, t)'
        PROVE  dbState'[t] # "unborn"
    BY <2>1, <2>2, <2>3, <2>4, <2>5 DEF HeldInv, KnownStay
  <2>6. ASSUME NEW k \in Handlers, NEW j \in Handlers, NEW t \in Tasks,
               Occupies(k, t)', Occupies(j, t)'
        PROVE  k = j
    BY <2>2, <2>3, <2>4, <2>6 DEF HeldInv, Occupies
  <2> QED
    BY <2>5, <2>6 DEF HeldInv
<1>3. ASSUME NEW s \in Servers, Crash(s)
      PROVE  HeldInv'
  BY <1>0, <1>3 DEF Crash, HeldInv, Occupies, NoHandler, TypeInv, TypeOK
<1> QED
  BY <1>0, <1>1, <1>2, <1>3, SenderRows, ReceiverRows
     DEF Next, ActorDrops, vars, table, KnownStay

-----------------------------------------------------------------------------
(* Who writes the state of a row, and who announces it.                    *)

LEMMA SenderOthers ==
  ASSUME TypeInv, NEW s \in Servers, Sender(s)
  PROVE  \A u \in Servers \ {s} : sndPc'[u] = sndPc[u] /\ sndTask'[u] = sndTask[u]
<1>0. sndPc \in [Servers -> SenderPcs] /\ sndTask \in [Servers -> Tasks \cup {None}]
  BY DEF TypeInv, TypeOK
<1> USE DEF Goto, KeepSender
<1>1. CASE Scan(s) \/ Fetch(s)
  BY <1>0, <1>1 DEF Scan, Fetch
<1>2. CASE Release(s) \/ Spawn(s) \/ Judge(s) \/ NextActor(s) \/ Purge(s)
  BY <1>0, <1>2 DEF Release, Spawn, Judge, NextActor, Purge, snd
<1>3. CASE SkipActor(s) \/ SendFails(s) \/ NoReply(s) \/ ReplyConfigError(s) \/ ReplyBusy(s)
           \/ ReplyResult(s) \/ ReplyAccept(s)
  BY <1>0, <1>3
     DEF SkipActor, SendFails, NoReply, ReplyConfigError, ReplyBusy, ReplyResult, ReplyAccept
<1>4. CASE AnnounceResult(s) \/ MarkRunning(s) \/ StoreSocket(s)
  BY <1>0, <1>4 DEF AnnounceResult, MarkRunning, StoreSocket
<1> QED
  BY <1>1, <1>2, <1>3, <1>4 DEF Sender

LEMMA SenderChanges ==
  ASSUME TypeInv, NEW s \in Servers, Sender(s), NEW t \in Tasks, dbState'[t] # dbState[t]
  PROVE  /\ sndTask[s] = t /\ sndPc[s] = "send" /\ Exists(t)
         /\ \/ SendFails(s) /\ dbState'[t] = "failed"
            \/ ReplyResult(s) /\ dbState'[t] = "success"
            \/ ReplyAccept(s) /\ dbState'[t] = "merging"
<1>0. TableTypeOK
  BY DEF TypeInv, TypeOK
<1>1. CASE SendFails(s) \/ ReplyAccept(s) \/ ReplyResult(s)
  BY <1>0, <1>1 DEF SendFails, ReplyAccept, ReplyResult, Offering, SetMergeState, TableTypeOK
<1> QED
  BY <1>1
     DEF Sender, Scan, Fetch, NextActor, SkipActor, NoReply, ReplyConfigError, ReplyBusy,
         AnnounceResult, Spawn, MarkRunning, StoreSocket, Judge, Release, Purge, table,
         ClaimNextRun, ClaimNothing, ClearScannedTime

LEMMA SenderTells ==
  ASSUME TypeInv, NEW s \in Servers, Sender(s), NEW t \in Tasks, notified'[t] # notified[t]
  PROVE  /\ sndTask[s] = t /\ sndPc[s] \in {"announce", "spawn"}
         /\ UNCHANGED table /\ notified'[t] = dbState[t]
<1>1. CASE AnnounceResult(s) \/ Spawn(s)
  BY <1>1 DEF AnnounceResult, Spawn, Announce, TypeInv, TypeOK
<1> QED
  BY <1>1
     DEF Sender, Scan, Fetch, NextActor, SkipActor, SendFails, NoReply, ReplyConfigError,
         ReplyBusy, ReplyResult, ReplyAccept, MarkRunning, StoreSocket, Judge, Release, Purge

(* A sender takes only queued tasks in hand.                               *)
LEMMA SenderTakes ==
  ASSUME TypeInv, NEW s \in Servers, Sender(s), NEW t \in Tasks, Holds(s, t)'
  PROVE  Holds(s, t) \/ (Scan(s) /\ dbState[t] = "waiting")
<1>0. sndPc \in [Servers -> SenderPcs] /\ sndTask \in [Servers -> Tasks \cup {None}]
  BY DEF TypeInv, TypeOK
<1>1. CASE Scan(s)
  <2>1. sndPc'[s] = "fetch" /\ scanned'[t] = s
    BY <1>0, <1>1 DEF Scan, Goto, Holds, Contends
  <2>2. PICK x \in Tasks : ClaimNextRun(s, x)
    BY <1>0, <1>1, <2>1 DEF Scan
  <2>3. t = x
    BY <2>1, <2>2 DEF ClaimNextRun, Outdated
  <2> QED
    BY <1>1, <2>2, <2>3 DEF ClaimNextRun, Foremost, Scannable
<1>2. CASE Fetch(s)
  BY <1>0, <1>2 DEF Fetch, Goto, KeepSender, Holds, Contends, ClaimedRows
<1>3. CASE Release(s) \/ Spawn(s)
  BY <1>0, <1>3 DEF Release, Spawn, Goto, KeepSender, Holds, Contends
<1> QED
  BY <1>1, <1>2, <1>3, SenderOrdinary DEF NoNewContender, NoNewFetch, RowsKept, Holds

(* What a sender does is nobody else's business.                           *)
LEMMA OthersHold ==
  ASSUME ClaimInv, NEW s \in Servers, Sender(s)
  PROVE  \A u \in Servers \ {s}, t \in Tasks : Holds(u, t)' <=> Holds(u, t)
<1>0. TypeInv /\ TableTypeOK /\ Locked
  BY DEF ClaimInv, TypeInv, TypeOK
<1>1. \A u \in Servers \ {s}, t \in Tasks : scanned'[t] = u <=> scanned[t] = u
  <2>1. CASE Scan(s)
    <3>1. CASE ClaimNothing(s)
      BY <3>1 DEF ClaimNothing, Outdated
    <3>2. ASSUME NEW x \in Tasks, ClaimNextRun(s, x)
          PROVE  \A u \in Servers \ {s}, t \in Tasks : scanned'[t] = u <=> scanned[t] = u
      <4>1. \A t \in Tasks : scanned'[t] = IF t = x THEN s ELSE Outdated(s)[t]
        BY <3>2 DEF ClaimNextRun, Outdated
      <4>2. scanned[x] = None
        BY <3>2 DEF ClaimNextRun, Foremost, Scannable
      <4> QED
        BY <4>1, <4>2 DEF Outdated
    <3> QED
      BY <2>1, <3>1, <3>2 DEF Scan
  <2>2. CASE Release(s)
    <3>1. sndTask[s] \in Tasks => scanned[sndTask[s]] = s
      BY <1>0, <2>2 DEF Release, Locked, Contends
    <3> QED
      BY <1>0, <2>2, <3>1 DEF Release, ClearScannedTime, Exists, TableTypeOK
  <2>3. CASE Fetch(s) \/ Spawn(s)
    BY <2>3 DEF Fetch, Spawn, table
  <2> QED
    BY <1>0, <2>1, <2>2, <2>3, SenderOrdinary DEF RowsKept
<1> QED
  BY <1>0, <1>1, SenderOthers DEF Holds, Contends

Unsettled(r) == thr[r].pc \in {"start", "recv", "unheard", "fail"}

(* A receiver thread that may still write an outcome has written none.     *)
LEMMA UnsettledBefore ==
  ASSUME TypeInv, NEW r \in Threads, Receiver(r), Unsettled(r)'
  PROVE  Unsettled(r) /\ ~ReceiveResult(r) /\ thr'[r].for = thr[r].for
<1>0. TypeInv /\ thr \in [Threads -> ThreadRecords] /\ thr[r] \in ThreadRecords
  BY DEF TypeInv, TypeOK
<1>1. \A pc : Become(r, pc) => thr'[r].pc = pc
  BY <1>0 DEF Become, ThreadRecords
<1>2. CASE ReceiveResult(r) \/ FailTask(r)
  BY <1>1, <1>2 DEF ReceiveResult, FailTask, Unsettled
<1>3. CASE ThreadEnd(r)
  BY <1>0, <1>3 DEF ThreadEnd, NoThread, Unsettled
<1>4. CASE CloseTask(r)
  BY <1>0, <1>1, <1>4, ReceiverFrame DEF CloseTask, Unsettled, ReceiveResult
<1>5. CASE ThreadStart(r) \/ ReceiveNothing(r)
  <2>1. thr'[r].pc # "free" /\ thr[r].pc \in {"start", "recv"}
    BY <1>5 DEF ThreadStart, ReceiveNothing, Unsettled
  <2>2. ~ReceiveResult(r)
    <3>1. CASE ThreadStart(r)
      BY <3>1 DEF ThreadStart, ReceiveResult
    <3>2. CASE ReceiveNothing(r)
      BY <1>1, <3>2 DEF ReceiveNothing, ReceiveResult
    <3> QED
      BY <1>5, <3>1, <3>2
  <2> QED
    BY <1>0, <2>1, <2>2, ReceiverFrame DEF Unsettled
<1> QED
  BY <1>2, <1>3, <1>4, <1>5 DEF Receiver

LEMMA ReceiverWrites ==
  ASSUME ExecInv, NEW r \in Threads, Receiver(r), NEW t \in Tasks
  PROVE  \/ dbState'[t] = dbState[t]
         \/ /\ t = thr[r].for /\ Runs(r) /\ Unsettled(r) /\ ~Unsettled(r)'
            /\ dbState[t] # "deleted" /\ dbState'[t] \in {"success", "failed"}
<1>0. /\ TableTypeOK /\ TypeInv /\ thr \in [Threads -> ThreadRecords]
  BY DEF ExecInv, ClaimInv, TypeInv, TypeOK
<1>1. Runs(r) /\ Errand(r)
  BY <1>0, ReceiverFrame DEF ExecInv, ThreadInv, Runs
<1>2. \A pc : Become(r, pc) => thr'[r].pc = pc
  BY <1>0 DEF Become, ThreadRecords
<1>3. ASSUME NEW v \in {"success", "failed"}, SetMergeState(thr[r].task, v)
      PROVE  \/ dbState'[t] = dbState[t]
             \/ t = thr[r].for /\ dbState[t] # "deleted" /\ dbState'[t] = v
  <2>1. CASE thr[r].task = None
    BY <1>3, <2>1 DEF SetMergeState, Exists
  <2>2. CASE thr[r].task = thr[r].for
    BY <1>0, <1>3, <2>2 DEF SetMergeState, Exists, TableTypeOK
  <2> QED
    BY <1>1, <2>1, <2>2 DEF Errand
<1>4. CASE ReceiveResult(r)
  BY <1>1, <1>2, <1>3, <1>4 DEF ReceiveResult, Unsettled, table
<1>5. CASE FailTask(r)
  BY <1>1, <1>2, <1>3, <1>5 DEF FailTask, Unsettled
<1> QED
  BY <1>4, <1>5 DEF Receiver, ThreadStart, ReceiveNothing, CloseTask, ThreadEnd, table

LEMMA ReceiverTells ==
  ASSUME ExecInv, NEW r \in Threads, Receiver(r), NEW t \in Tasks, notified'[t] # notified[t]
  PROVE  t = thr[r].for /\ thr'[r].pc = "free" /\ UNCHANGED dbState /\ notified'[t] = dbState[t]
<1>0. TypeInv /\ thr \in [Threads -> ThreadRecords]
  BY DEF ExecInv, ClaimInv, TypeInv, TypeOK
<1>1. Runs(r) /\ Errand(r)
  BY <1>0, ReceiverFrame DEF ExecInv, ThreadInv, Runs
<1>2. ThreadEnd(r)
  BY DEF Receiver, ThreadStart, ReceiveResult, ReceiveNothing, CloseTask, FailTask
<1>3. thr[r].task = t /\ notified'[t] = dbState[t]
  BY <1>0, <1>2 DEF ThreadEnd, Announce, Exists, TypeInv, TypeOK
<1> QED
  BY <1>0, <1>1, <1>2, <1>3 DEF ThreadEnd, Errand, NoThread, table

-----------------------------------------------------------------------------
(* Previews: the handler runs the task itself.                             *)

NoPreview ==
  \A h \in Handlers : hd[h].op \notin Previewing /\ hd[h].pc \notin {"sync", "run", "giveup"}

LEMMA NoPreviewStep ==
  ASSUME NoPreviewAsked, TypeInv, NoPreview, [Next]_vars
  PROVE  NoPreview'
<1>0. hd \in [Handlers -> HandlerRecords]
  BY DEF TypeInv, TypeOK
<1>1. CASE UNCHANGED hd
  BY <1>1 DEF NoPreview
<1>2. ASSUME NEW h \in Handlers, Request(h)
      PROVE  NoPreview'
  <2>1. ASSUME NEW s \in Servers, NEW op \in Requests, RequestNew(h, s, op)
        PROVE  NoPreview'
    BY <1>0, <2>1 DEF RequestNew, Accept, NoPreview, NoPreviewAsked
  <2>2. ASSUME NEW s \in Servers, NEW op \in Requests, NEW t \in Tasks, NEW audio \in BOOLEAN,
               RequestAgain(h, s, op, t, audio)
        PROVE  NoPreview'
    BY <1>0, <2>2 DEF RequestAgain, Accept, NoPreview, NoPreviewAsked
  <2> QED
    BY <1>1, <1>2, <2>1, <2>2 DEF Request, RequestRemove, RequestPriority
<1>3. ASSUME NEW h \in Handlers, Handle(h)
      PROVE  NoPreview'
  <2> hd[h] \in HandlerRecords
    BY <1>0
  <2>1. LookUp(h) \/ WriteRow(h) \/ WriteState(h)
    BY <1>0, <1>3 DEF Handle, SyncStart, SyncRun, SyncGiveUp, NoPreview
  <2>2. CASE LookUp(h) \/ WriteRow(h)
    BY <1>0, <2>2 DEF LookUp, WriteRow, Await, NoPreview, HandlerRecords
  <2>3. CASE WriteState(h)
    BY <1>0, <2>3 DEF WriteState, Respond, NoHandler, NoPreview, Previewing, HandlerRecords
  <2> QED
    BY <2>1, <2>2, <2>3
<1>4. ASSUME NEW s \in Servers, Crash(s)
      PROVE  NoPreview'
  BY <1>0, <1>4 DEF Crash, NoHandler, NoPreview, Previewing
<1> QED
  BY <1>0, <1>1, <1>2, <1>3, <1>4, SenderRows, ReceiverRows DEF Next, ActorDrops, vars

-----------------------------------------------------------------------------
(* Patience.  What a patient client was told of a task is final: while a   *)
(* task is queued, in a sender's hand or in a receiver thread's, its       *)
(* outcome has not been announced, and whoever announces it lets go of the *)
(* task in the same step.  So a request that rewrites a known row finds    *)
(* nobody at work on it, and nobody takes the task up until it is queued.  *)

Unspoken(t) == notified[t] \notin {"success", "failed"}

(* The outcomes that may have been recorded by a sender that holds the     *)
(* task: the result it is about to announce, and a failed send.            *)
Undecided(s, t) ==
  \/ dbState[t] \in {"waiting", "merging", "deleted"}
  \/ dbState[t] = "success" /\ sndPc[s] = "announce"
  \/ dbState[t] = "failed" /\ "net" \in Env /\ sndPc[s] \in {"loop", "send", "judge", "clear"}

QueuedUnspoken == \A t \in Tasks : dbState[t] = "waiting" => Unspoken(t)

HandUnspoken ==
  \A s \in Servers, t \in Tasks : Holds(s, t) => Unspoken(t) /\ Undecided(s, t)

ThreadUnspoken ==
  \A r \in Threads : Runs(r) =>
    /\ Unspoken(thr[r].for)
    /\ \/ dbState[thr[r].for] \in {"waiting", "merging", "deleted"}
       \/ dbState[thr[r].for] \in {"success", "failed"} /\ ~Unsettled(r)

(* A row that was rewritten is still alone when it is about to be queued.  *)
StateIsAlone ==
  \A h \in Handlers, t \in Tasks : Occupies(h, t) /\ hd[h].pc = "state" =>
    \/ dbState[t] = "deleted"
    \/ Free(t) /\ dbState[t] \notin {"unborn", "waiting"}

SpeechInv == QueuedUnspoken /\ HandUnspoken /\ ThreadUnspoken

PatientInv == ExecInv /\ HeldInv /\ NoPreview /\ SpeechInv /\ RewriteIsAlone /\ StateIsAlone

LEMMA PatientInit == Init => PatientInv
  BY ExecInit
     DEF Init, TableInit, PatientInv, HeldInv, Occupies, NoPreview, SpeechInv, QueuedUnspoken,
         HandUnspoken, ThreadUnspoken, RewriteIsAlone, StateIsAlone, NoHandler, NoThread, Holds,
         Contends, Runs, Previewing

(* Nobody holds a task but the one whose key its row carries.              *)
LEMMA HeldByKey ==
  ASSUME ExecInv
  PROVE  /\ \A s \in Servers, t \in Tasks : Holds(s, t) => scanned[t] = s
         /\ \A r \in Threads : Runs(r) =>
              thr[r].for \in Tasks /\ \A s \in Servers : ~Holds(s, thr[r].for)
  BY DEF ExecInv, ClaimInv, Locked, ThreadInv, Errand, Undisputed, Holds

(* A thread is created for the task in the sender's hand.                  *)
LEMMA SenderSpawns ==
  ASSUME ExecInv, NEW s \in Servers, Sender(s), NEW r \in Threads, thr'[r] # thr[r]
  PROVE  Spawn(s) /\ thr[r].pc = "free" /\ thr'[r].for = sndTask[s] /\ Holds(s, sndTask[s])
<1>0. TypeInv /\ thr \in [Threads -> ThreadRecords]
  BY DEF ExecInv, ClaimInv, TypeInv, TypeOK
<1>1. Spawn(s)
  BY <1>0, SenderOrdinary DEF Scan, Fetch, Release
<1> QED
  BY <1>0, <1>1 DEF Spawn, Holds, Contends

(* A row that nobody works on stays so until it is queued.                 *)
LEMMA FreeSender ==
  ASSUME ExecInv, NEW s \in Servers, Sender(s), NEW t \in Tasks, Free(t), dbState[t] # "waiting"
  PROVE  Free(t)' /\ dbState'[t] = dbState[t] /\ notified'[t] = notified[t]
<1>0. TypeInv /\ ClaimInv
  BY DEF ExecInv, ClaimInv
<1>1. \A u \in Servers : ~Holds(u, t)
  BY DEF Free
<1>2. \A u \in Servers : ~Holds(u, t)'
  BY <1>0, <1>1, OthersHold, SenderTakes
<1>3. \A r \in Threads : thr'[r].pc # "free" => thr'[r].for # t
  BY <1>1, SenderSpawns DEF Free
<1>4. dbState'[t] = dbState[t] /\ notified'[t] = notified[t]
  BY <1>0, <1>1, SenderChanges, SenderTells DEF Holds, Contends
<1> QED
  BY <1>2, <1>3, <1>4 DEF Free

LEMMA AnnounceFirst ==
  ASSUME NEW s \in Servers, Sender(s), sndPc[s] = "announce"
  PROVE  AnnounceResult(s)
  BY DEF Sender, Scan, Fetch, NextActor, SkipActor, SendFails, NoReply, ReplyConfigError,
         ReplyBusy, ReplyResult, ReplyAccept, Spawn, MarkRunning, StoreSocket, Judge, Release,
         Purge, Offering

(* The sender's own task: an outcome is announced as it is let go, and a   *)
(* failed send only leads to further offers.                               *)
LEMMA OwnHand ==
  ASSUME PatientClients, PatientInv, NEW s \in Servers, Sender(s), NEW t \in Tasks,
         Holds(s, t), Holds(s, t)'
  PROVE  Unspoken(t)' /\ Undecided(s, t)'
<1>0. /\ TypeInv /\ TableTypeOK /\ sndPc \in [Servers -> SenderPcs]
      /\ sndTask \in [Servers -> Tasks \cup {None}]
      /\ Unspoken(t) /\ Undecided(s, t)
  BY DEF PatientInv, ExecInv, ClaimInv, TypeInv, TypeOK, SpeechInv, HandUnspoken
<1>1. sndPc[s] # "announce"
  <2>1. AnnounceResult(s) => sndPc'[s] = "scan"
    BY <1>0 DEF AnnounceResult, Goto
  <2> QED
    BY <2>1, AnnounceFirst DEF Holds, Contends
<1>2. Unspoken(t)'
  BY <1>0, <1>1, SenderTells DEF Unspoken, Undecided
<1>3. ASSUME dbState'[t] # dbState[t]
      PROVE  Undecided(s, t)'
  <2>1. CASE SendFails(s) /\ dbState'[t] = "failed"
    BY <1>0, <2>1 DEF SendFails, Goto, Undecided
  <2>2. CASE ReplyResult(s) /\ dbState'[t] = "success"
    BY <1>0, <2>2 DEF ReplyResult, Goto, Undecided
  <2>3. CASE dbState'[t] = "merging"
    BY <2>3 DEF Undecided
  <2> QED
    BY <1>0, <1>3, <2>1, <2>2, <2>3, SenderChanges
<1>4. ASSUME dbState'[t] = dbState[t]
      PROVE  Undecided(s, t)'
  <2>1. CASE dbState[t] \in {"waiting", "merging", "deleted"}
    BY <1>4, <2>1 DEF Undecided
  <2>2. ASSUME dbState[t] = "failed", "net" \in Env,
               sndPc[s] \in {"loop", "send", "judge", "clear"}
        PROVE  sndPc'[s] \in {"loop", "send", "judge", "clear"}
    <3>1. sndTask[s] = t /\ Exists(t) /\ ~DbFails
      BY <2>2 DEF Holds, Contends, Exists, DbFails, PatientClients
    <3>2. ~ReplyResult(s) /\ ~ReplyAccept(s)
      BY <1>0, <1>4, <2>2, <3>1 DEF ReplyResult, ReplyAccept, SetMergeState, TableTypeOK
    <3>3. CASE NextActor(s) \/ Judge(s) \/ Release(s)
      BY <1>0, <3>3 DEF NextActor, Judge, Release, Goto, Holds, Contends
    <3>4. CASE SkipActor(s) \/ SendFails(s) \/ NoReply(s) \/ ReplyConfigError(s) \/ ReplyBusy(s)
      BY <1>0, <3>4 DEF SkipActor, SendFails, NoReply, ReplyConfigError, ReplyBusy, Goto
    <3> QED
      BY <2>2, <3>2, <3>3, <3>4
         DEF Sender, Scan, Fetch, AnnounceResult, Spawn, MarkRunning, StoreSocket, Purge
  <2> QED
    BY <1>0, <1>1, <1>4, <2>1, <2>2 DEF Undecided
<1> QED
  BY <1>2, <1>3, <1>4

LEMMA PatientSender ==
  ASSUME PatientClients, PatientInv, NEW s \in Servers, Sender(s)
  PROVE  SpeechInv' /\ RewriteIsAlone' /\ StateIsAlone'
<1>0. /\ TypeInv /\ TableTypeOK /\ ClaimInv /\ ExecInv
      /\ QueuedUnspoken /\ HandUnspoken /\ ThreadUnspoken /\ RewriteIsAlone /\ StateIsAlone
  BY DEF PatientInv, ExecInv, ClaimInv, TypeInv, TypeOK, SpeechInv
<1>1. NothingQueued /\ UNCHANGED hd
  BY <1>0, SenderRows
<1>2. QueuedUnspoken'
  BY <1>0, <1>1, SenderTells DEF QueuedUnspoken, Unspoken, NothingQueued
<1>3. ASSUME NEW t \in Tasks, ~Holds(s, t)
      PROVE  dbState'[t] = dbState[t] /\ notified'[t] = notified[t]
  BY <1>0, <1>3, SenderChanges, SenderTells DEF Holds, Contends
<1>4. ASSUME NEW u \in Servers, NEW t \in Tasks, Holds(u, t)'
      PROVE  Unspoken(t)' /\ Undecided(u, t)'
  <2>1. CASE u # s
    <3>1. Holds(u, t) /\ sndPc'[u] = sndPc[u]
      BY <1>0, <1>4, <2>1, OthersHold, SenderOthers
    <3>2. ~Holds(s, t)
      BY <1>0, <2>1, <3>1, HeldByKey
    <3> QED
      BY <1>0, <1>3, <3>1, <3>2 DEF HandUnspoken, Unspoken, Undecided
  <2>2. CASE u = s /\ Holds(s, t)
    BY <1>4, <2>2, OwnHand
  <2>3. CASE u = s /\ ~Holds(s, t)
    <3>1. dbState[t] = "waiting"
      BY <1>0, <1>4, <2>3, SenderTakes
    <3> QED
      BY <1>0, <1>3, <2>3, <3>1 DEF QueuedUnspoken, Unspoken, Undecided
  <2> QED
    BY <2>1, <2>2, <2>3
<1>5. ASSUME NEW r \in Threads, Runs(r)'
      PROVE  /\ Unspoken(thr[r].for)'
             /\ \/ dbState'[thr'[r].for] \in {"waiting", "merging", "deleted"}
                \/ dbState'[thr'[r].for] \in {"success", "failed"} /\ ~Unsettled(r)'
  <2>1. CASE thr'[r] = thr[r]
    <3>1. Runs(r) /\ thr[r].for \in Tasks /\ ~Holds(s, thr[r].for)
      BY <1>0, <1>5, <2>1, HeldByKey DEF Runs
    <3> QED
      BY <1>0, <1>3, <2>1, <3>1 DEF ThreadUnspoken, Unspoken, Unsettled
  <2>2. ASSUME Spawn(s), NEW t, t = sndTask[s], Holds(s, t), thr'[r].for = t
        PROVE  Unspoken(t)' /\ dbState'[t] \in {"waiting", "merging", "deleted"}
    <3>1. t \in Tasks /\ Unspoken(t) /\ Undecided(s, t) /\ sndPc[s] = "spawn"
      BY <1>0, <2>2 DEF Spawn, ExecInv, HandInv, HandUnspoken
    <3>2. dbState[t] \in {"waiting", "merging", "deleted"} /\ dbState' = dbState
      BY <2>2, <3>1 DEF Undecided, Spawn, table
    <3>3. Unspoken(t)'
      BY <1>0, <3>1, <3>2, SenderTells DEF Unspoken
    <3> QED
      BY <3>2, <3>3
  <2>3. CASE thr'[r] # thr[r]
    BY <1>0, <2>2, <2>3, SenderSpawns
  <2> QED
    BY <2>1, <2>3
<1>6. ASSUME NEW t \in Tasks, dbState[t] = "deleted"
      PROVE  dbState'[t] = "deleted"
  BY <1>0, <1>6, SenderChanges DEF Exists
<1>7. RewriteIsAlone'
  BY <1>0, <1>1, <1>6, FreeSender DEF RewriteIsAlone
<1>8. StateIsAlone'
  BY <1>0, <1>1, <1>6, FreeSender DEF StateIsAlone, Occupies
<1>9. HandUnspoken' /\ ThreadUnspoken'
  BY <1>4, <1>5 DEF HandUnspoken, ThreadUnspoken, Unspoken
<1> QED
  BY <1>2, <1>7, <1>8, <1>9 DEF SpeechInv

(* The thread that ends is the last one to have had its task.              *)
LEMMA PatientReceiver ==
  ASSUME PatientInv, NEW r \in Threads, Receiver(r)
  PROVE  SpeechInv' /\ RewriteIsAlone' /\ StateIsAlone'
<1> DEFINE f == thr[r].for
<1>0. /\ TypeInv /\ ExecInv /\ ThreadInv /\ Runs(r) /\ f \in Tasks
      /\ QueuedUnspoken /\ HandUnspoken /\ ThreadUnspoken /\ RewriteIsAlone /\ StateIsAlone
  BY ReceiverFrame
     DEF PatientInv, ExecInv, ClaimInv, SpeechInv, ThreadInv, Runs, Errand, TypeInv
<1>1. /\ UNCHANGED <<snd, hd, scanned>> /\ NothingQueued
      /\ \A q \in Threads \ {r} : thr'[q] = thr[q]
      /\ Runs(r)' => thr'[r].for = f
  BY <1>0, ReceiverFrame, ReceiverRows DEF Runs
<1>2. \A s \in Servers, t \in Tasks : (Holds(s, t)' <=> Holds(s, t)) /\ (Holds(s, t) => t # f)
  BY <1>0, <1>1, HeldByKey DEF Holds, Contends, snd
<1>3. ASSUME NEW t \in Tasks, t # f
      PROVE  dbState'[t] = dbState[t] /\ notified'[t] = notified[t]
  BY <1>0, <1>3, ReceiverWrites, ReceiverTells
<1>4. QueuedUnspoken'
  BY <1>0, <1>1, ReceiverTells DEF QueuedUnspoken, Unspoken, NothingQueued
<1>5. HandUnspoken'
  BY <1>0, <1>1, <1>2, <1>3 DEF HandUnspoken, Unspoken, Undecided, snd
<1>6. ASSUME NEW q \in Threads \ {r}, Runs(q)'
      PROVE  /\ Unspoken(thr[q].for)' /\ thr'[q] = thr[q]
             /\ \/ dbState'[thr[q].for] \in {"waiting", "merging", "deleted"}
                \/ dbState'[thr[q].for] \in {"success", "failed"} /\ ~Unsettled(q)'
  <2>1. Runs(q) /\ thr'[q] = thr[q]
    BY <1>1, <1>6 DEF Runs
  <2>2. thr[q].for \in Tasks /\ thr[q].for # f
    BY <1>0, <2>1, HeldByKey DEF ThreadInv
  <2> QED
    BY <1>0, <1>3, <2>1, <2>2 DEF ThreadUnspoken, Unspoken, Unsettled
<1>7. ASSUME Runs(r)'
      PROVE  /\ Unspoken(f)'
             /\ \/ dbState'[f] \in {"waiting", "merging", "deleted"}
                \/ dbState'[f] \in {"success", "failed"} /\ ~Unsettled(r)'
  <2>1. Unspoken(f)'
    BY <1>0, <1>1, <1>7, ReceiverTells DEF ThreadUnspoken, Unspoken, Runs
  <2>2. Unsettled(r)' => Unsettled(r)
    BY <1>0, UnsettledBefore
  <2> QED
    BY <1>0, <2>1, <2>2, ReceiverWrites DEF ThreadUnspoken
<1>8. ThreadUnspoken'
  BY <1>1, <1>6, <1>7 DEF ThreadUnspoken, Unspoken
<1>9. ASSUME NEW t \in Tasks, Free(t)
      PROVE  Free(t)' /\ dbState'[t] = dbState[t]
  <2>1. t # f /\ \A q \in Threads : Runs(q)' => Runs(q) /\ thr'[q].for = thr[q].for
    BY <1>0, <1>1, <1>9 DEF Free, Runs
  <2> QED
    BY <1>2, <1>3, <1>9, <2>1 DEF Free, Runs
<1>10. \A t \in Tasks : dbState[t] = "deleted" => dbState'[t] = "deleted"
  BY <1>0, ReceiverWrites
<1> QED
  BY <1>0, <1>1, <1>4, <1>5, <1>8, <1>9, <1>10
     DEF SpeechInv, RewriteIsAlone, StateIsAlone, Occupies

LEMMA HandlerKeys ==
  ASSUME ClaimInv, NEW h \in Handlers, Request(h) \/ Handle(h)
  PROVE  \A t \in Tasks : scanned'[t] \in {None, scanned[t]}
<1>1. CASE RowsKept
  BY <1>1 DEF RowsKept
<1>2. ASSUME NEW u \in Tasks, InsertTask(u) \/ Rewrites(h, u)
      PROVE  \A t \in Tasks : scanned'[t] \in {None, scanned[t]}
  BY <1>2 DEF InsertTask, Rewrites, ClaimInv, TypeInv, TypeOK, TableTypeOK
<1> QED
  BY <1>1, <1>2, RequestFrame, HandleFrame DEF ClaimInv

(* A step of a handler changes nothing for the tasks that others work on.  *)
LEMMA PatientOthers ==
  ASSUME PatientInv, NEW h \in Handlers, Request(h) \/ Handle(h), ~WriteState(h)
  PROVE  /\ UNCHANGED <<snd, thr, notified>>
         /\ \A t \in Tasks : dbState'[t] \in {dbState[t], "deleted"} \/ InsertTask(t)
         /\ \A t \in Tasks : Free(t) => Free(t)'
         /\ \A s \in Servers, t \in Tasks : Holds(s, t)' => Holds(s, t) /\ ~InsertTask(t)
<1>0. /\ TypeInv /\ TableTypeOK /\ ClaimInv /\ NoPreview
  BY DEF PatientInv, ExecInv, ClaimInv, TypeInv, TypeOK
<1>1. UNCHANGED <<snd, thr>>
  BY <1>0, RequestFrame, HandleFrame
<1>2. UNCHANGED notified
  BY <1>0, RequestFrame DEF Handle, LookUp, WriteRow, SyncStart, SyncRun, SyncGiveUp
<1>3. \A t \in Tasks : dbState'[t] \in {dbState[t], "deleted"} \/ InsertTask(t)
  <2>1. ASSUME NEW u \in Tasks, InsertTask(u)
        PROVE  \A t \in Tasks : t # u => dbState'[t] = dbState[t]
    BY <1>0, <2>1 DEF InsertTask, TableTypeOK
  <2>2. CASE WriteRow(h)
    BY <1>0, <2>1, <2>2 DEF WriteRow, UpdateTask, table
  <2>3. ASSUME NEW u \in Tasks, RequestRemove(h, u)
        PROVE  \A t \in Tasks : dbState'[t] \in {dbState[t], "deleted"}
    BY <1>0, <2>3 DEF RequestRemove, DeleteTask, TableTypeOK
  <2> QED
    BY <1>0, <2>2, <2>3
       DEF Request, RequestNew, RequestAgain, RequestPriority, SetPriority, Handle, LookUp,
           SyncStart, SyncRun, SyncGiveUp, NoPreview, table
<1>4. \A s \in Servers, t \in Tasks : Holds(s, t)' => Holds(s, t) /\ ~InsertTask(t)
  <2>1. \A t \in Tasks : scanned'[t] \in {None, scanned[t]}
    BY <1>0, HandlerKeys
  <2>2. \A t \in Tasks : InsertTask(t) => dbState[t] = "unborn" /\ scanned'[t] = None
    BY <1>0 DEF InsertTask, TableTypeOK
  <2> QED
    BY <1>0, <1>1, <2>1, <2>2 DEF Holds, Contends, snd, Locked, ClaimInv
<1>5. \A t \in Tasks : Free(t) => Free(t)'
  BY <1>1, <1>4 DEF Free
<1> QED
  BY <1>1, <1>2, <1>3, <1>4, <1>5

(* What a patient client was told is final, so nobody works on the task.   *)
LEMMA TakesUpFree ==
  ASSUME PatientClients, PatientInv, NEW h \in Handlers, NEW t \in Tasks, TakesUp(h, t)
  PROVE  /\ dbState' = dbState
         /\ dbState[t] = "deleted" \/ (Free(t) /\ dbState[t] \in {"saved", "success", "failed"})
<1>1. /\ dbState' = dbState
      /\ dbState[t] \in {"saved", "deleted"} \/ (Settled(t) /\ notified[t] = dbState[t])
  BY TakesUpWhen DEF Orderly
<1>2. CASE dbState[t] = "deleted"
  BY <1>1, <1>2
<1>3. CASE dbState[t] # "deleted"
  <2>1. dbState[t] = "saved" \/ ~Unspoken(t)
    BY <1>1, <1>3 DEF Settled, Unspoken
  <2>2. \A s \in Servers : ~Holds(s, t)
    BY <2>1 DEF PatientInv, SpeechInv, HandUnspoken, Undecided
  <2>3. \A r \in Threads : thr[r].pc # "free" => thr[r].for # t
    BY <2>1 DEF PatientInv, SpeechInv, ThreadUnspoken, Runs
  <2> QED
    BY <1>1, <1>3, <2>2, <2>3 DEF Free, Settled
<1> QED
  BY <1>2, <1>3

(* The row a handler has in hand, before and after its step.               *)
LEMMA OwnRow ==
  ASSUME PatientClients, PatientInv, NEW h \in Handlers, Request(h) \/ Handle(h), ~WriteState(h),
         NEW t \in Tasks, hd'[h].task = t
  PROVE  /\ hd'[h].pc \in {"lookup", "write"} =>
              dbState'[t] = "deleted" \/ (Free(t)' /\ dbState'[t] \in {"saved", "success", "failed"})
         /\ hd'[h].pc = "state" =>
              dbState'[t] = "deleted" \/ (Free(t)' /\ dbState'[t] \notin {"unborn", "waiting"})
<1>0. /\ TypeInv /\ TableTypeOK /\ NoPreview /\ RewriteIsAlone /\ StateIsAlone /\ ExecInv
      /\ hd \in [Handlers -> HandlerRecords] /\ hd[h] \in HandlerRecords
  BY DEF PatientInv, ExecInv, ClaimInv, TypeInv, TypeOK
<1>1. /\ \A u \in Tasks : Free(u) => Free(u)'
      /\ UNCHANGED <<snd, thr>>
      /\ \A s \in Servers, u \in Tasks : Holds(s, u)' => Holds(s, u) /\ ~InsertTask(u)
  BY PatientOthers
<1>2. CASE Request(h)
  <2>1. CASE TakesUp(h, t) /\ hd'[h].pc # "state"
    BY <1>1, <2>1, TakesUpFree
  <2>2. CASE ~TakesUp(h, t) \/ hd'[h].pc = "state"
    <3>1. hd'[h].pc \in {"lookup", "write", "state"} => FALSE
      <4>1. CASE UNCHANGED hd
        BY <1>0, <1>2, <4>1, RequestFrame
      <4>2. ASSUME NEW s \in Servers, NEW op \in Requests, RequestNew(h, s, op)
            PROVE  FALSE
        BY <1>0, <4>2, TableAssumption DEF RequestNew, Accept
      <4>3. ASSUME NEW s \in Servers, NEW op \in Requests, NEW u \in Tasks, NEW audio \in BOOLEAN,
                   RequestAgain(h, s, op, u, audio), ~UNCHANGED hd
            PROVE  TakesUp(h, t) /\ hd'[h].pc # "state"
        <5>1. hd'[h].pc \in {"lookup", "write"} /\ hd'[h].task \in {u, None}
          BY <1>0, <4>3 DEF RequestAgain, Accept
        <5> QED
          BY <1>2, <4>3, <5>1 DEF TakesUp
      <4> QED
        BY <1>2, <2>2, <4>1, <4>2, <4>3 DEF Request, RequestRemove, RequestPriority
    <3> QED
      BY <3>1
  <2> QED
    BY <2>1, <2>2
<1>3. CASE LookUp(h)
  BY <1>0, <1>1, <1>3 DEF LookUp, Await, HandlerRecords, RewriteIsAlone, table
<1>4. CASE WriteRow(h)
  <2>1. hd'[h].pc = "state"
    BY <1>0, <1>4 DEF WriteRow, Await, HandlerRecords
  <2>2. CASE InsertTask(t)
    <3>1. dbState'[t] = RowDefault /\ dbState[t] = "unborn"
      BY <1>0, <2>2 DEF InsertTask, TableTypeOK
    <3>2. \A s \in Servers : ~Holds(s, t)'
      BY <1>1, <2>2
    <3>3. \A r \in Threads : thr'[r].pc # "free" => thr'[r].for # t
      BY <1>0, <1>1, <3>1 DEF ExecInv, ThreadInv, Runs, Errand
    <3> QED
      BY <2>1, <3>1, <3>2, <3>3, TableAssumption DEF Free, PatientClients
  <2>3. CASE hd[h].task = t
    BY <1>0, <1>1, <1>4, <2>1, <2>3, TableAssumption
       DEF WriteRow, UpdateTask, RewriteIsAlone, table
  <2> QED
    BY <1>0, <1>4, <2>2, <2>3, TableAssumption DEF WriteRow, Await, HandlerRecords
<1> QED
  BY <1>0, <1>2, <1>3, <1>4 DEF Handle, SyncStart, SyncRun, SyncGiveUp, NoPreview

(* setmergestate: the row is nobody else's, and the front end knows        *)
(* nothing of its new submission.                                          *)
LEMMA PatientQueues ==
  ASSUME PatientInv, NEW h \in Handlers, WriteState(h)
  PROVE  SpeechInv' /\ RewriteIsAlone' /\ StateIsAlone'
<1> DEFINE x == hd[h].task
<1>0. /\ TypeInv /\ TableTypeOK /\ NoPreview /\ RewriteIsAlone /\ StateIsAlone /\ HeldInv
      /\ QueuedUnspoken /\ HandUnspoken /\ ThreadUnspoken /\ ExecInv
      /\ hd \in [Handlers -> HandlerRecords] /\ hd[h].pc = "state"
  BY DEF PatientInv, ExecInv, ClaimInv, TypeInv, TypeOK, SpeechInv, WriteState
<1>1. UNCHANGED <<snd, thr, scanned>>
  BY DEF WriteState, SetMergeState
<1>2. \A t \in Tasks : t # x => dbState'[t] = dbState[t] /\ notified'[t] = notified[t]
  BY <1>0 DEF WriteState, SetMergeState, TableTypeOK
<1>3. x \in Tasks => notified'[x] = "none"
  BY DEF WriteState
<1>4. x \in Tasks /\ dbState'[x] # dbState[x] => Free(x)
  BY <1>0 DEF WriteState, SetMergeState, StateIsAlone, Occupies, Exists
<1>5. \A s \in Servers, t \in Tasks : Holds(s, t)' <=> Holds(s, t)
  BY <1>1 DEF Holds, Contends, snd
<1>6. \A t \in Tasks : Free(t)' <=> Free(t)
  BY <1>1, <1>5 DEF Free
<1>7. QueuedUnspoken'
  BY <1>0, <1>2, <1>3 DEF QueuedUnspoken, Unspoken
<1>8. HandUnspoken'
  BY <1>0, <1>1, <1>2, <1>3, <1>4, <1>5 DEF HandUnspoken, Unspoken, Undecided, Free, snd
<1>9. ThreadUnspoken'
  <2>1. ASSUME NEW r \in Threads, Runs(r)'
        PROVE  /\ thr'[r] = thr[r] /\ Runs(r) /\ thr[r].for \in Tasks
               /\ dbState'[thr[r].for] = dbState[thr[r].for]
               /\ Unspoken(thr[r].for)'
    <3>1. thr'[r] = thr[r] /\ Runs(r) /\ thr[r].for \in Tasks
      BY <1>0, <1>1, <2>1, HeldByKey DEF Runs
    <3>2. dbState'[thr[r].for] = dbState[thr[r].for]
      BY <1>2, <1>4, <3>1 DEF Free, Runs
    <3>3. Unspoken(thr[r].for)'
      BY <1>0, <1>1, <1>2, <1>3, <3>1 DEF ThreadUnspoken, Unspoken
    <3> QED
      BY <3>1, <3>2, <3>3
  <2> QED
    BY <1>0, <2>1 DEF ThreadUnspoken, Unspoken, Unsettled
<1>10. ASSUME NEW k \in Handlers, NEW t \in Tasks, hd'[k].task = t, hd'[k].pc # "idle"
       PROVE  k # h /\ hd'[k] = hd[k] /\ dbState'[t] = dbState[t]
  <2>1. hd' = [hd EXCEPT ![h] = NoHandler]
    BY <1>0 DEF WriteState, Respond, NoPreview
  <2>2. k # h /\ hd'[k] = hd[k]
    BY <1>0, <1>10, <2>1 DEF NoHandler
  <2>3. t # x
    BY <1>0, <1>10, <2>2 DEF HeldInv, Occupies
  <2> QED
    BY <1>2, <2>2, <2>3
<1>11. RewriteIsAlone'
  BY <1>0, <1>6, <1>10 DEF RewriteIsAlone
<1>12. StateIsAlone'
  BY <1>0, <1>6, <1>10 DEF StateIsAlone, Occupies
<1> QED
  BY <1>7, <1>8, <1>9, <1>11, <1>12 DEF SpeechInv

LEMMA PatientHandler ==
  ASSUME PatientClients, PatientInv, NEW h \in Handlers, Request(h) \/ Handle(h)
  PROVE  SpeechInv' /\ RewriteIsAlone' /\ StateIsAlone'
<1>0. /\ TypeInv /\ TableTypeOK /\ ExecInv /\ RewriteIsAlone /\ StateIsAlone
      /\ QueuedUnspoken /\ HandUnspoken /\ ThreadUnspoken
  BY DEF PatientInv, ExecInv, ClaimInv, TypeInv, TypeOK, SpeechInv
<1>1. SUFFICES ASSUME ~WriteState(h)
               PROVE  SpeechInv' /\ RewriteIsAlone' /\ StateIsAlone'
  BY PatientQueues
<1>2. /\ UNCHANGED <<snd, thr, notified>>
      /\ \A t \in Tasks : dbState'[t] \in {dbState[t], "deleted"} \/ InsertTask(t)
      /\ \A t \in Tasks : Free(t) => Free(t)'
      /\ \A s \in Servers, t \in Tasks : Holds(s, t)' => Holds(s, t) /\ ~InsertTask(t)
  BY <1>1, PatientOthers
<1>3. \A t \in Tasks : InsertTask(t) => dbState[t] = "unborn" /\ dbState'[t] # "waiting"
  BY <1>0 DEF InsertTask, TableTypeOK, PatientClients
<1>4. QueuedUnspoken'
  BY <1>0, <1>2, <1>3 DEF QueuedUnspoken, Unspoken
<1>5. HandUnspoken'
  BY <1>0, <1>2 DEF HandUnspoken, Unspoken, Undecided, snd
<1>6. ThreadUnspoken'
  BY <1>0, <1>2, <1>3 DEF ThreadUnspoken, Unspoken, Unsettled, Runs, ExecInv, ThreadInv, Errand
<1>7. \A k \in Handlers \ {h} : hd'[k] = hd[k]
  BY <1>0, HandlerHolds
<1>8. RewriteIsAlone'
  <2>1. ASSUME NEW k \in Handlers, NEW t \in Tasks, hd'[k].task = t, hd'[k].pc \in {"lookup", "write"}
        PROVE  dbState'[t] = "deleted" \/ (Free(t)' /\ dbState'[t] \in {"saved", "success", "failed"})
    <3>1. CASE k = h
      BY <1>1, <2>1, <3>1, OwnRow
    <3>2. CASE k # h
      BY <1>0, <1>2, <1>3, <1>7, <2>1, <3>2 DEF RewriteIsAlone
    <3> QED
      BY <3>1, <3>2
  <2> QED
    BY <2>1 DEF RewriteIsAlone
<1>9. StateIsAlone'
  <2>1. ASSUME NEW k \in Handlers, NEW t \in Tasks, hd'[k].task = t, hd'[k].pc = "state"
        PROVE  dbState'[t] = "deleted" \/ (Free(t)' /\ dbState'[t] \notin {"unborn", "waiting"})
    <3>1. CASE k = h
      BY <1>1, <2>1, <3>1, OwnRow
    <3>2. CASE k # h
      BY <1>0, <1>2, <1>3, <1>7, <2>1, <3>2 DEF StateIsAlone, Occupies
    <3> QED
      BY <3>1, <3>2
  <2> QED
    BY <2>1 DEF StateIsAlone, Occupies
<1> QED
  BY <1>4, <1>5, <1>6, <1>8, <1>9 DEF SpeechInv

LEMMA PatientCrash ==
  ASSUME PatientInv, NEW s \in Servers, Crash(s)
  PROVE  SpeechInv' /\ RewriteIsAlone' /\ StateIsAlone'
<1>0. /\ QueuedUnspoken /\ HandUnspoken /\ ThreadUnspoken /\ RewriteIsAlone /\ StateIsAlone
      /\ sndPc \in [Servers -> SenderPcs] /\ sndTask \in [Servers -> Tasks \cup {None}]
      /\ thr \in [Threads -> ThreadRecords] /\ hd \in [Handlers -> HandlerRecords]
  BY DEF PatientInv, ExecInv, ClaimInv, TypeInv, TypeOK, SpeechInv
<1>1. UNCHANGED <<dbState, notified>>
  BY DEF Crash
<1>2. \A u \in Servers, t \in Tasks : Holds(u, t)' => Holds(u, t) /\ sndPc'[u] = sndPc[u]
  BY <1>0 DEF Crash, Holds, Contends, Outdated
<1>3. \A r \in Threads : Runs(r)' => Runs(r) /\ thr'[r] = thr[r]
  BY <1>0 DEF Crash, Runs, NoThread
<1>4. \A h \in Handlers : hd'[h].pc # "idle" => hd'[h] = hd[h]
  BY <1>0 DEF Crash, NoHandler
<1>5. \A t \in Tasks : Free(t) => Free(t)'
  BY <1>2, <1>3 DEF Free, Runs
<1>6. QueuedUnspoken' /\ HandUnspoken'
  BY <1>0, <1>1, <1>2 DEF QueuedUnspoken, HandUnspoken, Unspoken, Undecided
<1>7. ThreadUnspoken'
  BY <1>0, <1>1, <1>3 DEF ThreadUnspoken, Unspoken, Unsettled
<1>8. RewriteIsAlone' /\ StateIsAlone'
  BY <1>0, <1>1, <1>4, <1>5 DEF RewriteIsAlone, StateIsAlone, Occupies
<1> QED
  BY <1>6, <1>7, <1>8 DEF SpeechInv

LEMMA PatientStep ==
  ASSUME PatientClients, PatientInv, [Next]_vars
  PROVE  PatientInv'
<1>0. ExecInv' /\ HeldInv' /\ NoPreview'
  BY ExecStep, HeldStep, NoPreviewStep DEF PatientInv, ExecInv, ClaimInv, PatientClients, Orderly
<1> SUFFICES SpeechInv' /\ RewriteIsAlone' /\ StateIsAlone'
  BY <1>0 DEF PatientInv
<1>1. CASE UNCHANGED <<table, snd, thr, hd, notified>>
  BY <1>1
     DEF PatientInv, SpeechInv, QueuedUnspoken, HandUnspoken, ThreadUnspoken, RewriteIsAlone,
         StateIsAlone, Unspoken, Undecided, Unsettled, Free, Holds, Contends, Runs, Occupies,
         table, snd
<1> QED
  BY <1>1, PatientSender, PatientReceiver, PatientHandler, PatientCrash
     DEF Next, ActorDrops, vars

(* What the steps below ask of the clients.                                *)
Courtesy == RewriteIsAlone /\ (SubmitsOnce => OnlyInserts)

LEMMA OrderlyCourtesy ==
  ASSUME Orderly
  PROVE  Spec => []Courtesy
<1>1. CASE SubmitsOnce
  <2>1. Init => TypeInv /\ OnlyInserts
    BY ClaimInit DEF ClaimInv
  <2>2. TypeInv /\ OnlyInserts /\ [Next]_vars => TypeInv' /\ OnlyInserts'
    BY <1>1, TypeStep, InsertsStep DEF SubmitsOnce
  <2>3. TypeInv /\ OnlyInserts => Courtesy
    BY InsertsAlone DEF Courtesy
  <2> QED
    BY <2>1, <2>2, <2>3, PTL DEF Spec
<1>2. CASE PatientClients /\ ~SubmitsOnce
  <2>1. PatientInv /\ [Next]_vars => PatientInv'
    BY <1>2, PatientStep
  <2>2. PatientInv => Courtesy
    BY <1>2 DEF PatientInv, Courtesy
  <2> QED
    BY <2>1, <2>2, PatientInit, PTL DEF Spec
<1> QED
  BY <1>1, <1>2 DEF Orderly

(* A request that rewrites a known row finds nobody at work on it, neither *)
(* a sender nor a receiver thread, and no row that is queued: the check    *)
(* "task is running" that VideoMake and SaveTask make of the process's map *)
(* says nothing of the other server processes, so it is the order in which *)
(* an outcome is recorded, the task let go of and the front end told that  *)
(* keeps the two apart (getNotifyMsg_ToHtml in pthread_recvtask_thread).   *)
THEOREM RewritesAlone ==
  ASSUME Orderly
  PROVE  Spec => []RewriteIsAlone
  BY OrderlyCourtesy, PTL DEF Courtesy

(* The claim key locks the executor for patient clients too: no two        *)
(* senders contend for a task, though each of its submissions clears the   *)
(* key (getactortask_nextrun, addtaskinfo).                                *)
THEOREM ClaimHolds ==
  ASSUME Orderly
  PROVE  Spec => []ExclusiveClaim
<1>1. ClaimInv /\ Courtesy /\ [Next]_vars => ClaimInv'
  BY ClaimStep DEF Courtesy
<1>2. Init => ClaimInv
  BY ClaimInit
<1>3. ClaimInv => ExclusiveClaim
  BY TableAssumption DEF ClaimInv, Locked, ExclusiveClaim
<1> QED
  BY <1>1, <1>2, <1>3, OrderlyCourtesy, PTL DEF Spec

(* Whatever fails, and across crashes, no task is synthesised for two      *)
(* receiver threads, if a thread begins within the sender's rest and       *)
(* clients are orderly (pthread_recvtask_thread, main.cpp:3078, 3248).     *)
THEOREM ExecutedOnce ==
  ASSUME Orderly, "late" \notin Env
  PROVE  Spec => []SingleExecution
<1>1. ExecInv => SingleExecution
  BY DEF ExecInv, ThreadInv, SingleExecution, Runs, Errand
<1>2. ExecInv /\ Courtesy /\ [Next]_vars => ExecInv'
  BY ExecStep DEF Courtesy
<1> QED
  BY <1>1, <1>2, ExecInit, OrderlyCourtesy, PTL DEF Spec

-----------------------------------------------------------------------------
(* No task is stranded.  A key is set by a scan alone; the scanning server *)
(* finds the one row that carries it, and keeps the task in hand until it  *)
(* has taken the row out of the queue or cleared the key.  It cannot give  *)
(* up half way when no actor answers with a configuration error.           *)

Dependable == Env \cap {"config", "human", "db", "crash"} = {}

FreshInv ==
  \A h \in Handlers, t \in Tasks : Occupies(h, t) /\ hd[h].pc = "state" =>
    dbState[t] # "waiting" /\ (dbState[t] # "deleted" => scanned[t] = None)

Untried ==
  \A s \in Servers : /\ sndFail[s] = 0
                     /\ sndPc[s] \in {"send", "judge", "spawn"} => sndActor[s] > 0

OneKey ==
  \A s \in Servers : sndPc[s] = "fetch" =>
    \A t, u \in Tasks : scanned[t] = s /\ scanned[u] = s => t = u

Dequeued ==
  \A s \in Servers, t \in Tasks : sndTask[s] = t /\ sndPc[s] \in {"announce", "spawn"} =>
    dbState[t] # "waiting"

QueueInv == ClaimInv /\ HeldInv /\ FreshInv /\ Untried /\ OneKey /\ Dequeued /\ NoStranded

LEMMA QueueInit == Init => QueueInv
  BY ClaimInit DEF Init, TableInit, QueueInv, HeldInv, Occupies, FreshInv, Untried, OneKey, Dequeued,
     NoStranded, NoHandler

(* The key of a row is cleared when it is rewritten, if the database       *)
(* answers; of a row that was deleted nothing is changed any more.         *)
LEMMA FreshStep ==
  ASSUME Orderly, SubmitsOnce \/ ~DbFails, RowDefault # "waiting", Courtesy,
         ClaimInv, HeldInv, FreshInv, [Next]_vars
  PROVE  FreshInv'
<1>0. TypeInv /\ TableTypeOK
  BY DEF ClaimInv, TypeInv, TypeOK
<1>1. Next => DeletedStay
  BY <1>0, DeletedStep
<1>2. CASE /\ UNCHANGED hd /\ NothingQueued /\ DeletedStay
           /\ \A t \in Tasks : scanned[t] = None => scanned'[t] = None \/ dbState[t] = "waiting"
  BY <1>2 DEF FreshInv, Occupies, NothingQueued, DeletedStay
<1>3. ASSUME NEW h \in Handlers, Request(h) \/ Handle(h)
      PROVE  FreshInv'
  <2>0. DeletedStay
    BY <1>1, <1>3 DEF Next
  <2>1. ASSUME NEW k \in Handlers \ {h}, NEW t \in Tasks, Occupies(k, t)', hd'[k].pc = "state"
        PROVE  dbState'[t] # "waiting" /\ (dbState'[t] # "deleted" => scanned'[t] = None)
    <3>1. /\ Occupies(k, t) /\ hd[k].pc = "state" /\ dbState[t] # "waiting"
          /\ dbState'[t] # "deleted" => dbState[t] # "deleted" /\ scanned[t] = None
      BY <1>0, <1>3, <2>0, <2>1, HandlerHolds DEF Occupies, FreshInv, DeletedStay
    <3>2. ~Occupies(h, t) /\ ~InsertTask(t)
      BY <3>1 DEF HeldInv, InsertTask
    <3> QED
      BY <1>3, <3>1, <3>2, HandlerRows
  <2>2. ASSUME NEW t \in Tasks, Occupies(h, t)', hd'[h].pc = "state"
        PROVE  dbState'[t] # "waiting" /\ (dbState'[t] # "deleted" => scanned'[t] = None)
    <3>1. Written(h, t)
      BY <1>0, <1>3, <2>2, HandlerHolds
    <3>2. CASE InsertTask(t)
      BY <1>0, <3>2 DEF InsertTask, TableTypeOK
    <3>3. ASSUME hd[h].pc = "write", hd[h].task = t, UpdateTask(t)
          PROVE  dbState'[t] # "waiting" /\ (dbState'[t] # "deleted" => scanned'[t] = None)
      <4>1. ~DbFails
        BY <3>3, TableAssumption DEF Courtesy, OnlyInserts
      <4>2. dbState[t] = "deleted" \/ (Exists(t) /\ dbState[t] # "waiting")
        BY <3>3 DEF Courtesy, RewriteIsAlone, Exists
      <4> QED
        BY <1>0, <3>3, <4>1, <4>2 DEF UpdateTask, Exists, TableTypeOK, table
    <3> QED
      BY <3>1, <3>2, <3>3 DEF Written
  <2> QED
    BY <2>1, <2>2 DEF FreshInv
<1>4. ASSUME NEW s \in Servers, Crash(s)
      PROVE  FreshInv'
  BY <1>0, <1>4 DEF Crash, FreshInv, Occupies, NoHandler, TypeInv, TypeOK, Outdated
<1> QED
  BY <1>0, <1>1, <1>2, <1>3, <1>4, SenderRows, ReceiverRows
     DEF Next, ActorDrops, vars, table, NothingQueued, DeletedStay

LEMMA UntriedStep ==
  ASSUME Dependable, TypeInv, Untried, NEW s \in Servers, Sender(s)
  PROVE  Untried'
<1> USE DEF Untried, Goto, KeepSender
<1>0. /\ sndPc \in [Servers -> SenderPcs] /\ sndActor \in [Servers -> 0..NumActors]
      /\ sndFail \in [Servers -> 0..NumActors]
  BY DEF TypeInv, TypeOK
<1>1. CASE Fetch(s)
  BY <1>0, <1>1 DEF Fetch
<1>2. CASE NextActor(s)
  BY <1>0, <1>2 DEF NextActor
<1>3. ~ReplyConfigError(s)
  BY DEF ReplyConfigError, Dependable
<1>4. ASSUME NEW pc, sndPc' = [sndPc EXCEPT ![s] = pc], UNCHANGED <<sndActor, sndFail>>,
             sndPc[s] \in {"send", "spawn"} \/ pc \notin {"send", "judge", "spawn"}
      PROVE  Untried'
  BY <1>0, <1>4
<1>5. CASE SkipActor(s) \/ SendFails(s) \/ NoReply(s) \/ ReplyBusy(s) \/ ReplyResult(s)
           \/ ReplyAccept(s)
  BY <1>4, <1>5 DEF SkipActor, SendFails, NoReply, ReplyBusy, ReplyResult, ReplyAccept, Offering
<1>6. CASE AnnounceResult(s) \/ Spawn(s) \/ MarkRunning(s) \/ StoreSocket(s) \/ Judge(s) \/ Release(s)
  BY <1>4, <1>6 DEF AnnounceResult, Spawn, MarkRunning, StoreSocket, Judge, Release
<1>7. CASE Scan(s)
  BY <1>0, <1>7 DEF Scan
<1>8. CASE Purge(s)
  BY <1>8 DEF Purge, snd
<1> QED
  BY <1>1, <1>2, <1>3, <1>5, <1>6, <1>7, <1>8 DEF Sender

LEMMA OneKeyStep ==
  ASSUME ClaimInv, OneKey, NEW s \in Servers, Sender(s)
  PROVE  OneKey'
<1>0. /\ TypeInv /\ TableTypeOK /\ sndPc \in [Servers -> SenderPcs]
  BY DEF ClaimInv, TypeInv, TypeOK
<1>1. CASE Scan(s)
  <2>1. \A u \in Servers \ {s} : sndPc'[u] = sndPc[u]
    BY <1>0, <1>1 DEF Scan, Goto
  <2>2. sndPc[s] = "scan"
    BY <1>1 DEF Scan
  <2>3. CASE ClaimNothing(s) /\ UNCHANGED sndPc
    BY <1>0, <2>2, <2>3 DEF ClaimNothing, Outdated, OneKey
  <2>4. ASSUME NEW x \in Tasks, ClaimNextRun(s, x)
        PROVE  OneKey'
    <3>1. \A t \in Tasks : scanned'[t] = IF t = x THEN s ELSE Outdated(s)[t]
      BY <2>4 DEF ClaimNextRun, Outdated
    <3>2. \A t \in Tasks : /\ scanned'[t] = s => t = x
                           /\ \A u \in Servers \ {s} : scanned'[t] = u => scanned[t] = u
      BY <3>1 DEF Outdated
    <3> QED
      BY <2>1, <3>2 DEF OneKey
  <2> QED
    BY <1>1, <2>3, <2>4 DEF Scan
<1>2. CASE Release(s)
  BY <1>0, <1>2 DEF Release, ClearScannedTime, OneKey, Goto, TableTypeOK
<1>3. CASE Fetch(s) \/ Spawn(s)
  BY <1>0, <1>3 DEF Fetch, Spawn, Goto, OneKey, table
<1> QED
  BY <1>0, <1>1, <1>2, <1>3, SenderOrdinary DEF OneKey, RowsKept, NoNewFetch

(* What a row becomes when it leaves the queue by its sender's hand.       *)
LEMMA ReplyDequeues ==
  ASSUME Dependable, TypeInv, NEW s \in Servers, ReplyResult(s) \/ ReplyAccept(s)
  PROVE  sndTask[s] \in Tasks /\ dbState'[sndTask[s]] # "waiting"
<1>0. TableTypeOK
  BY DEF TypeInv, TypeOK
<1> QED
  BY <1>0
     DEF ReplyResult, ReplyAccept, Offering, Exists, SetMergeState, DbFails, Dependable, TableTypeOK

LEMMA DequeuedSender ==
  ASSUME Dependable, TypeInv, Dequeued, NEW s \in Servers, Sender(s)
  PROVE  Dequeued'
<1>0. sndPc \in [Servers -> SenderPcs] /\ sndTask \in [Servers -> Tasks \cup {None}]
  BY DEF TypeInv, TypeOK
<1>1. NothingQueued
  BY SenderRows
<1>2. CASE ReplyResult(s) \/ ReplyAccept(s)
  BY <1>0, <1>1, <1>2, SenderOthers, ReplyDequeues
     DEF Dequeued, NothingQueued, ReplyResult, ReplyAccept, KeepSender
<1>3. CASE sndPc'[s] \notin {"announce", "spawn"} \/ UNCHANGED snd
  BY <1>1, <1>3, SenderOthers DEF Dequeued, NothingQueued, snd
<1>4. CASE Scan(s) \/ Fetch(s) \/ Purge(s)
  BY <1>0, <1>3, <1>4 DEF Scan, Fetch, Purge, Goto
<1>5. CASE Release(s) \/ Spawn(s) \/ Judge(s) \/ NextActor(s)
  BY <1>0, <1>3, <1>5 DEF Release, Spawn, Judge, NextActor, Goto
<1>6. CASE SkipActor(s) \/ SendFails(s) \/ NoReply(s) \/ ReplyConfigError(s) \/ ReplyBusy(s)
  BY <1>0, <1>3, <1>6
     DEF SkipActor, SendFails, NoReply, ReplyConfigError, ReplyBusy, Goto
<1>7. CASE AnnounceResult(s) \/ MarkRunning(s) \/ StoreSocket(s)
  BY <1>0, <1>3, <1>7 DEF AnnounceResult, MarkRunning, StoreSocket, Goto
<1> QED
  BY <1>2, <1>4, <1>5, <1>6, <1>7 DEF Sender

(* Whoever has a queued task in hand keeps it.                             *)
LEMMA StillInHand ==
  ASSUME NoStranded, NothingQueued,
         \A t \in Tasks : scanned[t] = None => scanned'[t] = None,
         \A s \in Servers, t \in Tasks :
           Holds(s, t) => Holds(s, t)' \/ scanned'[t] = None \/ dbState'[t] # "waiting"
  PROVE  NoStranded'
  BY DEF NoStranded, NothingQueued, Holds

LEMMA StrandedSender ==
  ASSUME Dependable, QueueInv, NEW s \in Servers, Sender(s)
  PROVE  NoStranded'
<1> USE DEF Goto, KeepSender
<1>0. /\ TypeInv /\ TableTypeOK /\ sndPc \in [Servers -> SenderPcs]
      /\ sndTask \in [Servers -> Tasks \cup {None}] /\ sndActor \in [Servers -> 0..NumActors]
  BY DEF QueueInv, ClaimInv, TypeInv, TypeOK
<1>1. NothingQueued /\ NoStranded
  BY <1>0, SenderRows DEF QueueInv
<1>2. \A u \in Servers \ {s} : sndPc'[u] = sndPc[u] /\ sndTask'[u] = sndTask[u]
  BY <1>0, SenderOthers
<1>3. CASE Scan(s)
  <2>1. \A t \in Tasks : ~Holds(s, t)
    BY <1>3 DEF Holds, Contends, Scan
  <2>2. \A u \in Servers \ {s}, t \in Tasks : scanned[t] = u => Outdated(s)[t] = u
    BY DEF Outdated
  <2>3. CASE ClaimNothing(s) /\ UNCHANGED sndPc
    BY <1>1, <1>2, <2>1, <2>2, <2>3, StillInHand DEF Holds, Contends, ClaimNothing, Outdated
  <2>4. ASSUME NEW x \in Tasks, ClaimNextRun(s, x), Goto(s, "fetch")
        PROVE  NoStranded'
    <3>1. \A t \in Tasks : scanned'[t] = IF t = x THEN s ELSE Outdated(s)[t]
      BY <2>4 DEF ClaimNextRun, Outdated
    <3>2. Holds(s, x)'
      BY <1>0, <2>4, <3>1 DEF Holds
    <3>3. \A t \in Tasks \ {x} : scanned[t] = None => scanned'[t] = None
      BY <3>1 DEF Outdated
    <3>4. \A u \in Servers, t \in Tasks \ {x} : Holds(u, t) => Holds(u, t)'
      BY <1>2, <2>1, <2>2, <3>1 DEF Holds, Contends
    <3> QED
      BY <1>1, <3>2, <3>3, <3>4 DEF NoStranded, Holds, NothingQueued
  <2> QED
    BY <1>3, <2>3, <2>4 DEF Scan
<1>4. CASE Fetch(s)
  <2>1. UNCHANGED table
    BY <1>4 DEF Fetch
  <2>2. \/ \E t \in ClaimedRows(s) : sndTask'[s] = t /\ sndPc'[s] = "loop"
        \/ ClaimedRows(s) = {}
    BY <1>0, <1>4 DEF Fetch, Dependable, DbFails
  <2>3. ASSUME NEW t \in Tasks, Holds(s, t), dbState[t] = "waiting"
        PROVE  Holds(s, t)'
    <3>1. scanned[t] = s
      BY <1>4, <2>3 DEF Holds, Fetch, Contends
    <3>2. \A u \in ClaimedRows(s) : u = t
      BY <1>4, <3>1 DEF ClaimedRows, QueueInv, OneKey, Fetch
    <3> QED
      BY <2>2, <2>3, <3>1, <3>2 DEF Holds, Contends, ClaimedRows
  <2> QED
    BY <1>1, <1>2, <2>1, <2>3, StillInHand DEF Holds, Contends, table
<1>5. CASE Release(s)
  <2>1. \A t \in Tasks : Holds(s, t) => scanned'[t] = None \/ dbState'[t] # "waiting"
    BY <1>0, <1>5
       DEF Release, ClearScannedTime, Exists, DbFails, Dependable, Holds, Contends, TableTypeOK
  <2>2. \A t \in Tasks : scanned'[t] \in {None, scanned[t]}
    BY <1>0, <1>5 DEF Release, ClearScannedTime, TableTypeOK
  <2> QED
    BY <1>1, <1>2, <2>1, <2>2, StillInHand DEF Holds, Contends
<1>6. ASSUME UNCHANGED scanned,
             \A t \in Tasks : Holds(s, t) => Holds(s, t)' \/ dbState[t] # "waiting"
      PROVE  NoStranded'
  BY <1>1, <1>2, <1>6, StillInHand DEF Holds, Contends, NothingQueued
<1>7. CASE Purge(s)
  BY <1>6, <1>7 DEF Purge, snd, table, Holds, Contends
<1>8. CASE AnnounceResult(s) \/ Spawn(s)
  BY <1>6, <1>8 DEF AnnounceResult, Spawn, table, Holds, Contends, QueueInv, Dequeued
<1>9. CASE Judge(s)
  <2>1. sndPc'[s] = "loop"
    BY <1>0, <1>9 DEF Judge, QueueInv, Untried
  <2> QED
    BY <1>6, <1>9, <2>1 DEF Judge, table, Holds, Contends
<1>10. CASE MarkRunning(s) \/ StoreSocket(s)
  BY <1>6, <1>10 DEF MarkRunning, StoreSocket, table, Holds, Contends
<1>11. ASSUME UNCHANGED <<scanned, sndTask>>,
              sndPc[s] # "fetch",
              sndPc'[s] \in {"send", "clear", "judge", "announce", "spawn"}
       PROVE  NoStranded'
  BY <1>6, <1>11 DEF Holds, Contends
<1>12. CASE NextActor(s) \/ SkipActor(s) \/ NoReply(s) \/ ReplyConfigError(s) \/ ReplyBusy(s)
  BY <1>0, <1>11, <1>12
     DEF NextActor, SkipActor, NoReply, ReplyConfigError, ReplyBusy, Offering, table
<1>13. CASE SendFails(s) \/ ReplyResult(s) \/ ReplyAccept(s)
  BY <1>0, <1>11, <1>13 DEF SendFails, ReplyResult, ReplyAccept, Offering, SetMergeState
<1> QED
  BY <1>3, <1>4, <1>5, <1>7, <1>8, <1>9, <1>10, <1>12, <1>13 DEF Sender

LEMMA QueueStep ==
  ASSUME Orderly, Dependable, RowDefault # "waiting", Courtesy, QueueInv, [Next]_vars
  PROVE  QueueInv'
<1>0. ClaimInv' /\ HeldInv' /\ FreshInv' /\ TypeInv
  BY ClaimStep, HeldStep, FreshStep DEF QueueInv, ClaimInv, Courtesy, Dependable, DbFails
<1> SUFFICES Untried' /\ OneKey' /\ Dequeued' /\ NoStranded'
  BY <1>0 DEF QueueInv
<1>1. CASE UNCHANGED <<snd, table>>
  BY <1>1
     DEF QueueInv, Untried, OneKey, Dequeued, NoStranded, Holds, Contends, snd, table
<1>2. ASSUME NEW s \in Servers, Sender(s)
      PROVE  Untried' /\ OneKey' /\ Dequeued' /\ NoStranded'
  BY <1>0, <1>2, UntriedStep, OneKeyStep, DequeuedSender, StrandedSender DEF QueueInv
<1>3. ASSUME NEW r \in Threads, Receiver(r)
      PROVE  Untried' /\ OneKey' /\ Dequeued' /\ NoStranded'
  <2>1. UNCHANGED <<snd, scanned>> /\ NothingQueued
    BY <1>0, <1>3, ReceiverRows, ReceiverFrame
  <2>2. NoStranded'
    BY <2>1, StillInHand DEF QueueInv, Holds, Contends, snd
  <2> QED
    BY <2>1, <2>2 DEF QueueInv, Untried, OneKey, Dequeued, NothingQueued, snd
<1>4. ASSUME NEW h \in Handlers, Request(h) \/ Handle(h)
      PROVE  Untried' /\ OneKey' /\ Dequeued' /\ NoStranded'
  <2>1. UNCHANGED snd
    BY <1>0, <1>4, RequestFrame, HandleFrame DEF QueueInv, ClaimInv
  <2>2. \A t \in Tasks : dbState'[t] = "waiting" => dbState[t] = "waiting" \/ scanned[t] = None
    <3>1. DeletedStay
      BY <1>0, <1>4, DeletedStep DEF Next
    <3> QED
      BY <1>4, <3>1, HandlerRows DEF QueueInv, FreshInv, DeletedStay
  <2>3. \A t \in Tasks : scanned'[t] \in {None, scanned[t]}
    BY <1>4, HandlerKeys DEF QueueInv
  <2>4. Dequeued'
    BY <2>1, <2>2 DEF QueueInv, Dequeued, ClaimInv, Locked, Contends, snd
  <2>5. NoStranded'
    BY <2>1, <2>2, <2>3 DEF QueueInv, NoStranded, Holds, Contends, snd
  <2>6. OneKey'
    BY <2>1, <2>3 DEF QueueInv, OneKey, snd
  <2> QED
    BY <2>1, <2>4, <2>5, <2>6 DEF QueueInv, Untried, snd
<1>5. ASSUME NEW s \in Servers
      PROVE  ~Crash(s)
  BY DEF Crash, Dependable
<1> QED
  BY <1>1, <1>2, <1>3, <1>4, <1>5 DEF Next, ActorDrops, vars

(* Whatever happens on the network, a queued task can be claimed or is in  *)
(* a sender's hand, if nothing crashes, the database answers, digital      *)
(* humans are not missing, no actor has a configuration error, and clients *)
(* are orderly (getactortask_nextrun, clearscannedtime_id).                *)
THEOREM NothingStranded ==
  ASSUME Orderly, Dependable, RowDefault # "waiting"
  PROVE  Spec => []NoStranded
<1>1. QueueInv => NoStranded
  BY DEF QueueInv
<1>2. QueueInv /\ Courtesy /\ [Next]_vars => QueueInv'
  BY QueueStep
<1> QED
  BY <1>1, <1>2, QueueInit, OrderlyCourtesy, PTL DEF Spec

-----------------------------------------------------------------------------
(* A success is recorded by the sender or the receiver thread that has the *)
(* task, and by nobody else when no handler runs a task itself.  Whoever   *)
(* might still write another outcome has the task too: there is none.      *)

FinalInv ==
  /\ \A s \in Servers, t \in Tasks :
       Contends(s, t) /\ sndPc[s] # "announce" => dbState[t] # "success"
  /\ \A r \in Threads : Unsettled(r) => dbState[thr[r].for] # "success"

OutcomeInv == ExecInv /\ NoPreview /\ FinalInv

(* Who records a success, and who undoes one.                              *)
LEMMA SenderSuccess ==
  ASSUME TypeInv, NEW s \in Servers, Sender(s)
  PROVE  \A t \in Tasks :
           /\ dbState'[t] = "success" => dbState[t] = "success" \/ (ReplyResult(s) /\ sndTask[s] = t)
           /\ dbState[t] = "success" /\ dbState'[t] # "success" =>
                Contends(s, t) /\ sndPc[s] # "announce"
<1>0. TableTypeOK
  BY DEF TypeInv, TypeOK
<1>1. CASE SendFails(s) \/ ReplyAccept(s) \/ ReplyResult(s)
  BY <1>0, <1>1
     DEF SendFails, ReplyAccept, ReplyResult, Offering, SetMergeState, Contends, TableTypeOK
<1>2. CASE UNCHANGED dbState
  BY <1>2
<1> QED
  BY <1>1, <1>2
     DEF Sender, Scan, Fetch, NextActor, SkipActor, NoReply, ReplyConfigError, ReplyBusy,
         AnnounceResult, Spawn, MarkRunning, StoreSocket, Judge, Release, Purge, table,
         ClaimNextRun, ClaimNothing, ClearScannedTime

LEMMA ReceiverSuccess ==
  ASSUME TypeInv, NEW r \in Threads, Receiver(r)
  PROVE  \A t \in Tasks :
           /\ dbState'[t] = "success" =>
                dbState[t] = "success" \/ (ReceiveResult(r) /\ thr[r].task = t)
           /\ dbState[t] = "success" /\ dbState'[t] # "success" =>
                thr[r].pc \in {"recv", "fail"} /\ thr[r].task = t
<1>0. TableTypeOK
  BY DEF TypeInv, TypeOK
<1>1. CASE ReceiveResult(r) \/ FailTask(r)
  BY <1>0, <1>1 DEF ReceiveResult, FailTask, SetMergeState, TableTypeOK, table
<1>2. CASE UNCHANGED dbState
  BY <1>2
<1> QED
  BY <1>1, <1>2 DEF Receiver, ThreadStart, ReceiveNothing, CloseTask, ThreadEnd, table

LEMMA HandlerSuccess ==
  ASSUME ClaimInv, NoPreview, NEW h \in Handlers, Request(h) \/ Handle(h)
  PROVE  \A t \in Tasks : dbState'[t] = "success" =>
           dbState[t] = "success" \/ InsertTask(t)
<1>0. TableTypeOK /\ TypeInv
  BY DEF ClaimInv, TypeInv, TypeOK
<1>1. CASE WriteState(h)
  BY <1>0, <1>1 DEF WriteState, SetMergeState, TableTypeOK
<1>2. CASE WriteRow(h)
  <2>1. CASE UNCHANGED dbState
    BY <2>1
  <2>2. ASSUME NEW u \in Tasks, InsertTask(u)
        PROVE  \A t \in Tasks : t # u => dbState'[t] = dbState[t]
    BY <1>0, <2>2 DEF InsertTask, TableTypeOK
  <2> QED
    BY <1>0, <1>2, <2>1, <2>2 DEF WriteRow, UpdateTask, table
<1>3. ASSUME NEW t, DeleteTask(t)
      PROVE  \A u \in Tasks : dbState'[u] = "success" => dbState[u] = "success"
  BY <1>0, <1>3 DEF DeleteTask, TableTypeOK
<1>4. CASE UNCHANGED dbState \/ \E t \in Tasks : RequestRemove(h, t)
  BY <1>3, <1>4 DEF RequestRemove
<1> QED
  BY <1>1, <1>2, <1>4
     DEF Request, RequestNew, RequestAgain, RequestPriority, SetPriority, Handle, LookUp,
         SyncStart, SyncRun, SyncGiveUp, NoPreview, table

(* A task that has no outcome yet is only in one pair of hands.            *)
LEMMA FinalSender ==
  ASSUME OutcomeInv, NEW s \in Servers, Sender(s)
  PROVE  FinalInv'
<1>0. /\ TypeInv /\ FinalInv /\ ThreadInv /\ HandInv /\ Locked
      /\ sndPc \in [Servers -> SenderPcs] /\ sndTask \in [Servers -> Tasks \cup {None}]
      /\ thr \in [Threads -> ThreadRecords]
  BY DEF OutcomeInv, ExecInv, ClaimInv, TypeInv, TypeOK
<1>1. ASSUME NEW u \in Servers, NEW t \in Tasks, Contends(u, t), sndPc[u] # "announce",
             dbState'[t] = "success"
      PROVE  u = s /\ ReplyResult(s)
  BY <1>0, <1>1, SenderSuccess DEF FinalInv, Locked, Contends, ReplyResult, Offering
<1>2. ASSUME NEW u \in Servers, NEW t \in Tasks, Contends(u, t)', sndPc'[u] # "announce"
      PROVE  dbState'[t] # "success"
  <2>1. CASE Fetch(s) /\ u = s
    BY <1>0, <1>2, <2>1 DEF Fetch, Contends, ClaimedRows, Goto, KeepSender, table
  <2>2. CASE Contends(u, t) /\ sndPc[u] # "announce"
    BY <1>0, <1>1, <1>2, <2>2 DEF ReplyResult, Goto
  <2>3. CASE u # s
    BY <1>0, <1>2, <2>2, <2>3, SenderOthers DEF Contends
  <2>4. CASE ~Fetch(s) /\ u = s
    <3>1. Contends(s, t)
      <4>1. CASE Scan(s) \/ Release(s) \/ Spawn(s)
        BY <1>0, <1>2, <2>4, <4>1 DEF Scan, Release, Spawn, Goto, KeepSender, Contends
      <4> QED
        BY <1>0, <1>2, <2>4, <4>1, SenderOrdinary DEF NoNewContender
    <3>2. CASE sndPc[s] = "announce"
      BY <1>0, <1>2, <2>4, <3>2
         DEF Sender, Scan, Fetch, NextActor, SkipActor, SendFails, NoReply, ReplyConfigError,
             ReplyBusy, ReplyResult, AnnounceResult, ReplyAccept, Spawn, MarkRunning,
             StoreSocket, Judge, Release, Purge, Offering, Goto, Contends
    <3> QED
      BY <2>2, <2>4, <3>1, <3>2
  <2> QED
    BY <2>1, <2>3, <2>4
<1>3. ASSUME NEW r \in Threads, Runs(r), Unsettled(r)
      PROVE  dbState'[thr[r].for] # "success"
  <2>1. Errand(r) /\ Undisputed(r)
    BY <1>0, <1>3 DEF ThreadInv
  <2>2. ReplyResult(s) => Contends(s, sndTask[s])
    BY DEF ReplyResult, Offering, Contends
  <2> QED
    BY <1>0, <1>3, <2>1, <2>2, SenderSuccess DEF FinalInv, Errand, Undisputed
<1>4. CASE Spawn(s)
  <2>1. sndTask[s] \in Tasks /\ dbState'[sndTask[s]] # "success"
    BY <1>0, <1>4 DEF Spawn, HandInv, FinalInv, Contends, table
  <2>2. CASE UNCHANGED thr
    BY <1>2, <1>3, <2>2 DEF FinalInv, Runs, Unsettled
  <2>3. ASSUME NEW q \in Threads,
               thr' = [thr EXCEPT ![q] = [pc |-> "start", srv |-> s, for |-> sndTask[s],
                                          task |-> None, sock |-> 0]]
        PROVE  \A r \in Threads : Unsettled(r)' => dbState'[thr'[r].for] # "success"
    BY <1>0, <1>3, <2>1, <2>3 DEF Unsettled, Runs
  <2> QED
    BY <1>2, <1>4, <2>2, <2>3 DEF Spawn, FinalInv
<1>5. CASE UNCHANGED thr
  BY <1>2, <1>3, <1>5 DEF FinalInv, Runs, Unsettled
<1> QED
  BY <1>0, <1>4, <1>5, SenderOrdinary DEF Scan, Fetch, Release

LEMMA FinalReceiver ==
  ASSUME OutcomeInv, NEW r \in Threads, Receiver(r)
  PROVE  FinalInv'
<1>0. /\ TypeInv /\ FinalInv /\ ThreadInv /\ thr \in [Threads -> ThreadRecords]
      /\ Runs(r) /\ Errand(r) /\ Undisputed(r)
  BY ReceiverFrame DEF OutcomeInv, ExecInv, ClaimInv, TypeInv, TypeOK, ThreadInv, Runs
<1> thr[r] \in ThreadRecords
  BY <1>0
<1>1. \A q \in Threads \ {r} : thr'[q] = thr[q]
  BY <1>0, ReceiverFrame
<1>2. UNCHANGED snd
  BY <1>0, ReceiverFrame
<1>3. \A t \in Tasks : dbState'[t] = "success" =>
        dbState[t] = "success" \/ (ReceiveResult(r) /\ t = thr[r].for)
  BY <1>0, ReceiverSuccess DEF ReceiveResult, Errand
<1>4. \A s \in Servers, t \in Tasks :
        Contends(s, t)' /\ sndPc'[s] # "announce" => dbState'[t] # "success"
  BY <1>0, <1>2, <1>3 DEF FinalInv, Contends, Undisputed, snd
<1>5. ASSUME NEW q \in Threads \ {r}, Unsettled(q)'
      PROVE  dbState'[thr'[q].for] # "success"
  <2>1. Runs(q) /\ Errand(q) /\ thr[q].for # thr[r].for /\ Unsettled(q)
    BY <1>0, <1>1, <1>5 DEF ThreadInv, Runs, Unsettled
  <2> QED
    BY <1>0, <1>1, <1>3, <2>1 DEF FinalInv, Errand
<1>6. Unsettled(r)' => Unsettled(r) /\ ~ReceiveResult(r) /\ thr'[r].for = thr[r].for
  BY <1>0, UnsettledBefore
<1>7. Unsettled(r)' => dbState'[thr'[r].for] # "success"
  BY <1>0, <1>3, <1>6 DEF FinalInv, Errand
<1> QED
  BY <1>4, <1>5, <1>7 DEF FinalInv

LEMMA FinalHandler ==
  ASSUME OutcomeInv, NEW h \in Handlers, Request(h) \/ Handle(h)
  PROVE  FinalInv'
<1>0. TypeInv /\ ThreadInv /\ Locked /\ ClaimInv /\ NoPreview /\ FinalInv
  BY DEF OutcomeInv, ExecInv, ClaimInv
<1>1. UNCHANGED <<snd, thr>>
  BY <1>0, RequestFrame, HandleFrame
<1>2. \A t \in Tasks : dbState'[t] = "success" => dbState[t] \in {"success", "unborn"}
  BY <1>0, HandlerSuccess DEF InsertTask
<1>3. \A s \in Servers, t \in Tasks : Contends(s, t) => dbState[t] # "unborn"
  BY <1>0 DEF Locked
<1>4. \A r \in Threads : Unsettled(r) => thr[r].for \in Tasks /\ dbState[thr[r].for] # "unborn"
  BY <1>0 DEF ThreadInv, Runs, Unsettled, Errand
<1> QED
  BY <1>0, <1>1, <1>2, <1>3, <1>4 DEF FinalInv, Contends, Unsettled, snd

LEMMA OutcomeInit == Init => OutcomeInv
  BY ExecInit
     DEF Init, TableInit, OutcomeInv, NoPreview, FinalInv, NoHandler, Previewing, Contends,
         Unsettled, NoThread

LEMMA OutcomeStep ==
  ASSUME RewriteIsAlone, NoPreviewAsked, "late" \notin Env, OutcomeInv, [Next]_vars
  PROVE  OutcomeInv'
<1>0. ExecInv' /\ NoPreview' /\ TypeInv
  BY ExecStep, NoPreviewStep DEF OutcomeInv, ExecInv, ClaimInv
<1>1. CASE UNCHANGED <<snd, thr, dbState>>
  BY <1>0, <1>1 DEF OutcomeInv, FinalInv, Contends, Unsettled, snd
<1>2. ASSUME NEW s \in Servers, Crash(s)
      PROVE  FinalInv'
  <2>1. /\ sndPc \in [Servers -> SenderPcs] /\ thr \in [Threads -> ThreadRecords]
        /\ sndTask \in [Servers -> Tasks \cup {None}]
    BY <1>0 DEF TypeInv, TypeOK
  <2> QED
    BY <1>2, <2>1 DEF OutcomeInv, FinalInv, Crash, Contends, Unsettled, NoThread
<1> QED
  BY <1>0, <1>1, <1>2, FinalSender, FinalReceiver, FinalHandler
     DEF OutcomeInv, Next, ActorDrops, vars, table

(* Only a client undoes a success that was recorded: no thread that is     *)
(* late with another outcome overwrites it, across failures and crashes,   *)
(* when clients are orderly and no handler runs a task itself              *)
(* (dispose_recvmsg_recv, pthread_recvtask_thread).                        *)
THEOREM SuccessStays ==
  ASSUME Orderly, NoPreviewAsked, "late" \notin Env
  PROVE  Spec => SuccessIsFinal
<1>1. OutcomeInv /\ Courtesy /\ [Next]_vars => OutcomeInv'
  BY OutcomeStep DEF Courtesy
<1>2. ASSUME OutcomeInv, [Next]_vars
      PROVE  [\A t \in Tasks : dbState[t] = "success" /\ dbState'[t] # "success" =>
                \E h \in Handlers : hd'[h] # hd[h] \/ reqs' # reqs]_vars
  <2>0. /\ TypeInv /\ ClaimInv /\ hd \in [Handlers -> HandlerRecords] /\ NoPreview
        /\ TableTypeOK /\ reqs \in Nat
    BY <1>2 DEF OutcomeInv, ExecInv, ClaimInv, TypeInv, TypeOK
  <2> DEFINE Undone == \E t \in Tasks : dbState[t] = "success" /\ dbState'[t] # "success"
  <2>1. ASSUME NEW s \in Servers, Sender(s)
        PROVE  ~Undone
    BY <1>2, <2>0, <2>1, SenderSuccess DEF OutcomeInv, FinalInv
  <2>2. ASSUME NEW r \in Threads, Receiver(r)
        PROVE  ~Undone
    <3>1. Runs(r) /\ Errand(r)
      BY <1>2, <2>0, <2>2, ReceiverFrame DEF OutcomeInv, ExecInv, ThreadInv, Runs
    <3>2. Unsettled(r) => dbState[thr[r].for] # "success"
      BY <1>2 DEF OutcomeInv, FinalInv
    <3> QED
      BY <2>0, <2>2, <3>1, <3>2, ReceiverSuccess DEF Unsettled, Errand
  <2>3. ASSUME NEW h \in Handlers, Request(h)
        PROVE  reqs' # reqs
    BY <2>0, <2>3, RequestFrame
  <2>4. ASSUME NEW h \in Handlers, Handle(h), Undone
        PROVE  hd'[h] # hd[h]
    <3> hd[h] \in HandlerRecords
      BY <2>0
    <3>1. WriteState(h) \/ WriteRow(h)
      BY <2>0, <2>4 DEF Handle, LookUp, SyncStart, SyncRun, SyncGiveUp, NoPreview, table
    <3>2. CASE WriteRow(h)
      BY <2>0, <3>2 DEF WriteRow, Await, HandlerRecords
    <3>3. CASE WriteState(h)
      BY <2>0, <3>3 DEF WriteState, Await, Respond, NoHandler, HandlerRecords
    <3> QED
      BY <3>1, <3>2, <3>3
  <2>5. UNCHANGED dbState => ~Undone
    OBVIOUS
  <2> QED
    BY <1>2, <2>1, <2>2, <2>3, <2>4, <2>5 DEF Next, Crash, ActorDrops, vars, table
<1> QED
  BY <1>1, <1>2, OutcomeInit, OrderlyCourtesy, PTL DEF Spec, SuccessIsFinal

-----------------------------------------------------------------------------
(* A success is announced by the thread that recorded it, before it ends;  *)
(* only a handler that queues a row forgets what has been announced, and   *)
(* then the row is no success any more.  All this takes a database that    *)
(* answers: an announcement that cannot read the row says nothing of it.   *)

ToldInv == OutcomeInv /\ SuccessIsAnnounced

LEMMA ToldInit == Init => ToldInv
  BY OutcomeInit DEF Init, TableInit, ToldInv, SuccessIsAnnounced

(* Tells(t): the thread that recorded the success of t will announce it.   *)
Tells(t) ==
  \/ notified[t] = "success"
  \/ \E s \in Servers : sndTask[s] = t /\ sndPc[s] = "announce"
  \/ \E r \in Threads : thr[r].task = t /\ thr[r].pc \in {"heard", "notify"}

LEMMA ToldSender ==
  ASSUME ~DbFails, ToldInv, NEW s \in Servers, Sender(s), NEW t \in Tasks,
         dbState'[t] = "success"
  PROVE  Tells(t)'
<1>0. /\ TypeInv /\ sndPc \in [Servers -> SenderPcs] /\ sndTask \in [Servers -> Tasks \cup {None}]
      /\ thr \in [Threads -> ThreadRecords] /\ notified \in [Tasks -> RowStates \cup {"none"}]
  BY DEF ToldInv, OutcomeInv, ExecInv, ClaimInv, TypeInv, TypeOK
<1>1. CASE ReplyResult(s) /\ sndTask[s] = t
  BY <1>0, <1>1 DEF ReplyResult, Goto, KeepSender, Tells
<1>2. CASE dbState[t] = "success"
  <2>1. Tells(t)
    BY <1>2 DEF ToldInv, SuccessIsAnnounced, Tells
  <2>2. notified[t] = "success" => notified'[t] = "success"
    <3>1. CASE UNCHANGED notified
      BY <3>1
    <3>2. CASE Announce(sndTask[s])
      BY <1>0, <1>2, <3>2 DEF Announce
    <3> QED
      BY <3>1, <3>2
         DEF Sender, Scan, Fetch, NextActor, SkipActor, SendFails, NoReply, ReplyConfigError,
             ReplyBusy, ReplyResult, AnnounceResult, ReplyAccept, Spawn, MarkRunning,
             StoreSocket, Judge, Release, Purge
  <2>3. ASSUME NEW u \in Servers, sndTask[u] = t, sndPc[u] = "announce"
        PROVE  Tells(t)'
    <3>1. CASE u # s
      BY <1>0, <2>3, <3>1, SenderOthers DEF Tells
    <3>2. CASE u = s
      <4>1. AnnounceResult(s)
        BY <2>3, <3>2
           DEF Sender, Scan, Fetch, NextActor, SkipActor, SendFails, NoReply, ReplyConfigError,
               ReplyBusy, ReplyResult, ReplyAccept, Spawn, MarkRunning, StoreSocket, Judge,
               Release, Purge, Offering
      <4> QED
        BY <1>0, <1>2, <2>3, <3>2, <4>1 DEF AnnounceResult, Announce, Exists, Tells
    <3> QED
      BY <3>1, <3>2
  <2>4. ASSUME NEW r \in Threads, thr[r].task = t, thr[r].pc \in {"heard", "notify"}
        PROVE  thr'[r] = thr[r]
    <3>1. CASE UNCHANGED thr
      BY <3>1
    <3>2. CASE Spawn(s)
      BY <1>0, <2>4, <3>2 DEF Spawn
    <3> QED
      BY <1>0, <3>1, <3>2, SenderOrdinary DEF Scan, Fetch, Release
  <2> QED
    BY <2>1, <2>2, <2>3, <2>4 DEF Tells
<1> QED
  BY <1>0, <1>1, <1>2, SenderSuccess

LEMMA ToldReceiver ==
  ASSUME ~DbFails, ToldInv, NEW r \in Threads, Receiver(r), NEW t \in Tasks,
         dbState'[t] = "success"
  PROVE  Tells(t)'
<1>0. /\ TypeInv /\ thr \in [Threads -> ThreadRecords]
      /\ notified \in [Tasks -> RowStates \cup {"none"}]
  BY DEF ToldInv, OutcomeInv, ExecInv, ClaimInv, TypeInv, TypeOK
<1> thr[r] \in ThreadRecords
  BY <1>0
<1>1. \A pc : Become(r, pc) => thr'[r].pc = pc /\ thr'[r].task = thr[r].task
  BY <1>0 DEF Become, ThreadRecords
<1>2. CASE ReceiveResult(r) /\ thr[r].task = t
  BY <1>1, <1>2 DEF ReceiveResult, Tells
<1>3. CASE dbState[t] = "success"
  <2>1. Tells(t)
    BY <1>3 DEF ToldInv, SuccessIsAnnounced, Tells
  <2>2. UNCHANGED snd /\ \A q \in Threads \ {r} : thr'[q] = thr[q]
    BY <1>0, ReceiverFrame
  <2>3. notified[t] = "success" => notified'[t] = "success"
    <3>1. CASE UNCHANGED notified
      BY <3>1
    <3>2. CASE Announce(thr[r].task)
      BY <1>0, <1>3, <3>2 DEF Announce
    <3> QED
      BY <3>1, <3>2
         DEF Receiver, ThreadStart, ReceiveResult, ReceiveNothing, CloseTask, FailTask, ThreadEnd
  <2>4. CASE thr[r].task = t /\ thr[r].pc \in {"heard", "notify"}
    <3>1. CASE CloseTask(r)
      BY <1>1, <2>4, <3>1 DEF CloseTask, Tells
    <3>2. CASE ThreadEnd(r)
      <4>1. dbState' = dbState
        BY <3>2 DEF ThreadEnd, table
      <4> QED
        BY <1>0, <1>3, <2>4, <3>2, <4>1 DEF ThreadEnd, Announce, Exists, Tells
    <3> QED
      BY <2>4, <3>1, <3>2
         DEF Receiver, ThreadStart, ReceiveResult, ReceiveNothing, FailTask
  <2> QED
    BY <2>1, <2>2, <2>3, <2>4 DEF Tells, snd
<1> QED
  BY <1>0, <1>2, <1>3, ReceiverSuccess

LEMMA ToldHandler ==
  ASSUME ~DbFails, RowDefault # "success", ToldInv,
         NEW h \in Handlers, Request(h) \/ Handle(h), NEW t \in Tasks, dbState'[t] = "success"
  PROVE  Tells(t)'
<1>0. /\ TypeInv /\ ClaimInv /\ NoPreview /\ TableTypeOK
      /\ notified \in [Tasks -> RowStates \cup {"none"}]
  BY DEF ToldInv, OutcomeInv, ExecInv, ClaimInv, TypeInv, TypeOK
<1>1. dbState[t] = "success"
  BY <1>0, HandlerSuccess DEF InsertTask, TableTypeOK
<1>2. Tells(t)
  BY <1>1 DEF ToldInv, SuccessIsAnnounced, Tells
<1>3. UNCHANGED <<snd, thr>>
  BY <1>0, RequestFrame, HandleFrame DEF ClaimInv
<1>4. notified'[t] = notified[t]
  <2>1. CASE WriteState(h)
    <3>1. hd[h].task # t
      BY <1>0, <1>1, <2>1 DEF WriteState, SetMergeState, Exists, TableTypeOK
    <3> QED
      BY <1>0, <2>1, <3>1 DEF WriteState
  <2>2. CASE Request(h)
    BY <1>0, <2>2, RequestFrame
  <2> QED
    BY <2>1, <2>2 DEF Handle, LookUp, WriteRow, SyncStart, SyncRun, SyncGiveUp
<1> QED
  BY <1>2, <1>3, <1>4 DEF Tells, snd

LEMMA ToldStep ==
  ASSUME Orderly, ~DbFails, NoPreviewAsked, Env \cap {"late", "crash"} = {},
         RowDefault \notin {"waiting", "success"}, Courtesy, ToldInv, [Next]_vars
  PROVE  ToldInv'
<1>1. OutcomeInv'
  BY OutcomeStep DEF ToldInv, Courtesy
<1>2. ASSUME NEW t \in Tasks, dbState'[t] = "success"
      PROVE  Tells(t)'
  <2>1. CASE UNCHANGED <<snd, thr, notified, dbState>>
    BY <1>2, <2>1 DEF ToldInv, SuccessIsAnnounced, Tells, snd
  <2>2. \A s \in Servers : ~Crash(s)
    BY DEF Crash
  <2> QED
    BY <1>2, <2>1, <2>2, ToldSender, ToldReceiver, ToldHandler DEF Next, ActorDrops, vars, table
<1> QED
  BY <1>1, <1>2 DEF ToldInv, SuccessIsAnnounced, Tells

(* Every recorded success has been announced, or the thread that recorded  *)
(* it is about to, if no server crashes in between (getNotifyMsg_ToHtml,   *)
(* called by the sender loop and by pthread_recvtask_thread) and the       *)
(* database answers: the result of reading the row is not looked at there, *)
(* and a row that could not be queued again keeps its old success.         *)
THEOREM SuccessIsTold ==
  ASSUME Orderly, ~DbFails, NoPreviewAsked, Env \cap {"late", "crash"} = {},
         RowDefault \notin {"waiting", "success"}
  PROVE  Spec => []SuccessIsAnnounced
<1>1. ToldInv => SuccessIsAnnounced
  BY DEF ToldInv
<1>2. ToldInv /\ Courtesy /\ [Next]_vars => ToldInv'
  BY ToldStep
<1> QED
  BY <1>1, <1>2, ToldInit, OrderlyCourtesy, PTL DEF Spec

-----------------------------------------------------------------------------
(* A merging row is watched.  Each way of making a row merging has an      *)
(* owner: the sender that was answered, then the receiver thread, or the   *)
(* handler of a preview; an owner that leaves sets another state first.    *)
(* For the thread this hangs on the map: it must find the task there, so   *)
(* no entry is erased between the claim and the start of the thread.       *)

AllGoesWell ==
  Env \cap {"early", "spawn", "garbage", "db", "crash", "late", "speechless"} = {}

Owned(t) ==
  \/ \E s \in Servers : sndTask[s] = t /\ sndPc[s] = "spawn"
  \/ \E r \in Threads : thr[r].for = t /\ Unsettled(r)
  \/ \E h \in Handlers : hd[h].task = t /\ hd[h].pc \in {"state", "run"}

Kept(s, t) == memState[s][t] # "absent" \/ dbState[t] = "deleted"

Marked(s, t) == memState[s][t] = "running" \/ dbState[t] = "deleted"

OwnedInv == \A t \in Tasks : dbState[t] = "merging" => Owned(t)

KeptInv == \A s \in Servers, t \in Tasks : Contends(s, t) => Kept(s, t)

MarkedInv ==
  \A r \in Threads : thr[r].pc = "start" =>
    IF sndPc[thr[r].srv] = "mark" THEN Kept(thr[r].srv, thr[r].for)
                                  ELSE Marked(thr[r].srv, thr[r].for)

FoundInv ==
  \A r \in Threads : thr[r].pc = "fail" =>
    thr[r].task = thr[r].for \/ dbState[thr[r].for] = "deleted"

WatchInv == ExecInv /\ OwnedInv /\ KeptInv /\ MarkedInv /\ FoundInv

LEMMA WatchInit == Init => WatchInv
  BY ExecInit
     DEF Init, TableInit, WatchInv, OwnedInv, KeptInv, MarkedInv, FoundInv, Contends, NoThread

(* What a sender does to the map: it erases the entry of the task in hand  *)
(* when it lets go of it, and of deleted rows; it unmarks nothing else.    *)
LEMMA SenderMap ==
  ASSUME AllGoesWell, ExecInv, NEW s \in Servers, Sender(s), NEW u \in Servers, NEW t \in Tasks,
         dbState[t] \notin {"unborn", "deleted"}
  PROVE  \/ u = s /\ Contends(s, t) /\ ~Contends(s, t)' /\ thr' = thr
         \/ /\ memState[u][t] # "absent" => memState'[u][t] # "absent"
            /\ memState[u][t] = "running" => memState'[u][t] = "running"
<1>0. /\ memState \in [Servers -> [Tasks -> {"absent", "waiting", "running"}]]
      /\ sndPc \in [Servers -> SenderPcs]
  BY DEF ExecInv, ClaimInv, TypeInv, TypeOK
<1>1. CASE memState' = memState
  BY <1>1
<1>2. ASSUME NEW x, InsertEntry(s, x)
      PROVE  \/ u = s /\ x = t /\ memState[s][t] = "absent"
             \/ memState'[u][t] = memState[u][t]
  BY <1>0, <1>2 DEF InsertEntry, mem
<1>3. CASE Fetch(s)
  <2>1. memState' = memState \/ \E x \in Tasks : InsertEntry(s, x)
    BY <1>3 DEF Fetch, mem, ClaimedRows
  <2> QED
    BY <1>2, <2>1
<1>4. ASSUME NEW x, MarkEntry(s, x)
      PROVE  \/ memState[u][t] # "absent" /\ memState'[u][t] = "running"
             \/ memState'[u][t] = memState[u][t]
  BY <1>0, <1>4 DEF MarkEntry
<1>5. CASE MarkRunning(s) \/ ReplyBusy(s)
  BY <1>1, <1>4, <1>5 DEF MarkRunning, ReplyBusy, mem
<1>6. ASSUME EraseEntry(s, sndTask[s]), UNCHANGED thr, Goto(s, "scan"),
             sndPc[s] \in {"announce", "judge"}
      PROVE  \/ u = s /\ Contends(s, t) /\ ~Contends(s, t)' /\ thr' = thr
             \/ memState'[u][t] = memState[u][t]
  <2>1. CASE u = s /\ t = sndTask[s]
    BY <1>0, <1>6, <2>1 DEF Goto, Contends
  <2>2. CASE ~(u = s /\ t = sndTask[s])
    BY <1>0, <1>6, <2>2 DEF EraseEntry, mem
  <2> QED
    BY <2>1, <2>2
<1>7. CASE AnnounceResult(s) \/ Judge(s)
  BY <1>1, <1>6, <1>7 DEF AnnounceResult, Judge, mem
<1>8. CASE Purge(s)
  <2>1. PICK D \in SUBSET {x \in Tasks : memState[s][x] # "absent" /\ (~Exists(x) \/ DbFails)} :
          memState' = [memState EXCEPT ![s] =
                         [x \in Tasks |-> IF x \in D THEN "absent" ELSE memState[s][x]]]
    BY <1>8 DEF Purge
  <2>2. t \notin D
    BY <2>1 DEF Exists, DbFails, AllGoesWell
  <2> QED
    BY <1>0, <2>1, <2>2
<1> QED
  BY <1>1, <1>3, <1>5, <1>7, <1>8
     DEF Sender, Scan, NextActor, SkipActor, SendFails, NoReply, ReplyConfigError, ReplyResult,
         ReplyAccept, Spawn, StoreSocket, Release, mem

(* A receiver thread erases no entry but that of its own task.             *)
LEMMA ReceiverMap ==
  ASSUME ExecInv, NEW r \in Threads, Receiver(r), NEW u \in Servers, NEW t \in Tasks,
         t # thr[r].for
  PROVE  memState'[u][t] = memState[u][t]
<1>0. /\ memState \in [Servers -> [Tasks -> {"absent", "waiting", "running"}]]
      /\ Runs(r) /\ Errand(r) /\ thr[r].srv \in Servers
  BY ReceiverFrame
     DEF ExecInv, ClaimInv, TypeInv, TypeOK, ThreadInv, Runs, ThreadsHaveServer
<1>1. EraseEntry(thr[r].srv, thr[r].for) => memState'[u][t] = memState[u][t]
  BY <1>0 DEF EraseEntry, mem
<1>2. CASE ThreadStart(r)
  BY <1>0, <1>1, <1>2 DEF ThreadStart, Errand, mem
<1>3. CASE CloseTask(r)
  BY <1>0, <1>1, <1>3 DEF CloseTask, Errand
<1> QED
  BY <1>2, <1>3 DEF Receiver, ReceiveResult, ReceiveNothing, FailTask, ThreadEnd, mem

LEMMA KeptSender ==
  ASSUME AllGoesWell, WatchInv, DeletedStay, NEW s \in Servers, Sender(s)
  PROVE  KeptInv'
<1>0. /\ TypeInv /\ ExecInv /\ Locked /\ KeptInv
      /\ sndPc \in [Servers -> SenderPcs] /\ sndTask \in [Servers -> Tasks \cup {None}]
      /\ memState \in [Servers -> [Tasks -> {"absent", "waiting", "running"}]]
  BY DEF WatchInv, ExecInv, ClaimInv, TypeInv, TypeOK
<1>1. ASSUME NEW u \in Servers, NEW t \in Tasks, Contends(u, t), Contends(u, t)'
      PROVE  Kept(u, t)'
  <2>1. dbState[t] # "unborn" /\ Kept(u, t)
    BY <1>0, <1>1 DEF Locked, KeptInv
  <2> QED
    BY <1>0, <1>1, <2>1, SenderMap DEF Kept, DeletedStay
<1>2. ASSUME NEW t \in Tasks, Fetch(s), Contends(s, t)'
      PROVE  Kept(s, t)'
  <2>1. InsertEntry(s, t)
    BY <1>0, <1>2 DEF Fetch, Contends, Goto, KeepSender, ClaimedRows
  <2> QED
    BY <1>0, <2>1 DEF InsertEntry, Kept, mem
<1>3. ASSUME NEW u \in Servers, NEW t \in Tasks, Contends(u, t)', ~(Fetch(s) /\ u = s)
      PROVE  Contends(u, t)
  <2>1. CASE u # s
    BY <1>0, <1>3, <2>1, SenderOthers DEF Contends
  <2>2. CASE Scan(s) \/ Release(s) \/ Spawn(s)
    BY <1>0, <1>3, <2>2 DEF Scan, Release, Spawn, Goto, KeepSender, Contends
  <2> QED
    BY <1>0, <1>3, <2>1, <2>2, SenderOrdinary DEF NoNewContender
<1> QED
  BY <1>1, <1>2, <1>3 DEF KeptInv

LEMMA MarkedSender ==
  ASSUME AllGoesWell, WatchInv, DeletedStay, NEW s \in Servers, Sender(s)
  PROVE  MarkedInv'
<1>0. /\ TypeInv /\ ExecInv /\ ThreadInv /\ HandInv /\ KeptInv /\ MarkedInv
      /\ sndPc \in [Servers -> SenderPcs] /\ sndTask \in [Servers -> Tasks \cup {None}]
      /\ memState \in [Servers -> [Tasks -> {"absent", "waiting", "running"}]]
      /\ thr \in [Threads -> ThreadRecords] /\ ThreadsHaveServer
  BY DEF WatchInv, ExecInv, ClaimInv, TypeInv, TypeOK
<1>1. ASSUME NEW r \in Threads, thr[r].pc = "start",
             NEW v, v = thr[r].srv, NEW f, f = thr[r].for
      PROVE  IF sndPc'[v] = "mark" THEN Kept(v, f)' ELSE Marked(v, f)'
  <2>1. /\ v \in Servers /\ f \in Tasks /\ dbState[f] # "unborn"
        /\ sndTask[v] = f /\ sndPc[v] \in {"scan", "mark", "socket"}
        /\ \A u \in Servers : ~Contends(u, f)
    <3>1. Runs(r) /\ Errand(r) /\ Undisputed(r) /\ v \in Servers
      BY <1>0, <1>1 DEF ThreadInv, ThreadsHaveServer, Runs
    <3> QED
      BY <1>0, <1>1, <3>1 DEF Errand, Undisputed, Contends, SenderPcs
  <2>2. Kept(v, f) => Kept(v, f)'
    BY <1>0, <2>1, SenderMap DEF Kept, DeletedStay
  <2>3. Marked(v, f) => Marked(v, f)'
    BY <1>0, <2>1, SenderMap DEF Marked, DeletedStay
  <2>4. IF sndPc[v] = "mark" THEN Kept(v, f) ELSE Marked(v, f)
    BY <1>0, <1>1 DEF MarkedInv
  <2>5. CASE v # s
    BY <1>0, <2>1, <2>2, <2>3, <2>4, <2>5, SenderOthers
  <2>6. CASE v = s /\ MarkRunning(s)
    <3>1. sndPc'[s] # "mark" /\ sndPc[s] = "mark" /\ MarkEntry(s, f)
      BY <1>0, <2>1, <2>6 DEF MarkRunning, Goto
    <3>2. Marked(s, f)'
      BY <1>0, <2>1, <2>4, <2>6, <3>1 DEF MarkEntry, Kept, Marked, DeletedStay
    <3> QED
      BY <2>6, <3>1, <3>2
  <2>7. CASE v = s /\ (StoreSocket(s) \/ Purge(s))
    BY <1>0, <2>1, <2>3, <2>4, <2>7 DEF StoreSocket, Purge, Goto, snd
  <2>8. v = s => MarkRunning(s) \/ StoreSocket(s) \/ Purge(s)
    BY <1>1, <2>1
       DEF Sender, Scan, Fetch, NextActor, SkipActor, SendFails, NoReply, ReplyConfigError,
           ReplyBusy, ReplyResult, AnnounceResult, ReplyAccept, Spawn, Judge, Release, Offering,
           Rested, AllGoesWell
  <2> QED
    BY <2>5, <2>6, <2>7, <2>8
<1>2. ASSUME Spawn(s), NEW t, t = sndTask[s]
      PROVE  MarkedInv'
  <2>1. t \in Tasks /\ Kept(s, t)'
    BY <1>0, <1>2 DEF Spawn, HandInv, KeptInv, Kept, Contends, mem, table
  <2>2. PICK q \in Threads :
          thr' = [thr EXCEPT ![q] = [pc |-> "start", srv |-> s, for |-> t,
                                     task |-> None, sock |-> 0]]
    BY <1>2 DEF Spawn, AllGoesWell
  <2>3. sndPc'[s] = "mark"
    BY <1>0, <1>2 DEF Spawn, Goto, AllGoesWell
  <2>4. /\ thr'[q].srv = s /\ thr'[q].for = t
        /\ \A r \in Threads \ {q} : thr'[r] = thr[r]
    BY <1>0, <2>2
  <2>5. ASSUME NEW r \in Threads, thr'[r].pc = "start", NEW v, v = thr'[r].srv,
               NEW f, f = thr'[r].for
        PROVE  IF sndPc'[v] = "mark" THEN Kept(v, f)' ELSE Marked(v, f)'
    BY <1>1, <2>1, <2>3, <2>4, <2>5
  <2> QED
    BY <2>5 DEF MarkedInv, Kept, Marked
<1>3. CASE UNCHANGED thr
  BY <1>1, <1>3 DEF MarkedInv, Kept, Marked
<1> QED
  BY <1>0, <1>2, <1>3, SenderOrdinary DEF Scan, Fetch, Release

LEMMA FoundSender ==
  ASSUME WatchInv, DeletedStay, NEW s \in Servers, Sender(s)
  PROVE  FoundInv'
<1>0. /\ TypeInv /\ FoundInv /\ thr \in [Threads -> ThreadRecords] /\ ThreadInv
  BY DEF WatchInv, ExecInv, ClaimInv, TypeInv, TypeOK
<1>1. \A r \in Threads : thr[r].pc = "fail" =>
        thr[r].task = thr[r].for \/ dbState'[thr[r].for] = "deleted"
  BY <1>0 DEF FoundInv, DeletedStay, ThreadInv, Runs, Errand
<1>2. CASE UNCHANGED thr
  BY <1>1, <1>2 DEF FoundInv
<1>3. CASE Spawn(s)
  BY <1>0, <1>1, <1>2, <1>3 DEF Spawn, FoundInv
<1> QED
  BY <1>0, <1>2, <1>3, SenderOrdinary DEF Scan, Fetch, Release

LEMMA OwnedSender ==
  ASSUME AllGoesWell, WatchInv, NEW s \in Servers, Sender(s)
  PROVE  OwnedInv'
<1>0. /\ TypeInv /\ TableTypeOK /\ OwnedInv /\ thr \in [Threads -> ThreadRecords]
      /\ sndPc \in [Servers -> SenderPcs] /\ sndTask \in [Servers -> Tasks \cup {None}]
  BY DEF WatchInv, ExecInv, ClaimInv, TypeInv, TypeOK
<1>1. ASSUME NEW t \in Tasks, dbState'[t] = "merging", dbState[t] # "merging"
      PROVE  ReplyAccept(s) /\ sndTask[s] = t
  <2>1. CASE SendFails(s) \/ ReplyAccept(s) \/ ReplyResult(s)
    BY <1>0, <1>1, <2>1 DEF SendFails, ReplyAccept, ReplyResult, SetMergeState, TableTypeOK
  <2> QED
    BY <1>1, <2>1
       DEF Sender, Scan, Fetch, NextActor, SkipActor, NoReply, ReplyConfigError, ReplyBusy,
           AnnounceResult, Spawn, MarkRunning, StoreSocket, Judge, Release, Purge, table,
           ClaimNextRun, ClaimNothing, ClearScannedTime
<1>2. ASSUME NEW t \in Tasks, ReplyAccept(s), sndTask[s] = t
      PROVE  Owned(t)'
  BY <1>0, <1>2 DEF ReplyAccept, Goto, KeepSender, Owned
<1>3. UNCHANGED hd
  BY <1>0, SenderRows
<1>4. ASSUME NEW r \in Threads, Unsettled(r)
      PROVE  thr'[r] = thr[r]
  <2>1. CASE Spawn(s)
    BY <1>0, <1>4, <2>1 DEF Spawn, Unsettled
  <2>2. CASE UNCHANGED thr
    BY <2>2
  <2> QED
    BY <1>0, <2>1, <2>2, SenderOrdinary DEF Scan, Fetch, Release
<1>5. ASSUME NEW u \in Servers, NEW t \in Tasks, sndTask[u] = t, sndPc[u] = "spawn"
      PROVE  Owned(t)'
  <2>1. CASE u # s
    BY <1>0, <1>5, <2>1, SenderOthers DEF Owned
  <2>2. CASE u = s
    <3>1. Spawn(s)
      BY <1>5, <2>2
         DEF Sender, Scan, Fetch, NextActor, SkipActor, SendFails, NoReply, ReplyConfigError,
             ReplyBusy, ReplyResult, AnnounceResult, ReplyAccept, MarkRunning, StoreSocket,
             Judge, Release, Purge, Offering
    <3>2. PICK q \in Threads :
            thr' = [thr EXCEPT ![q] = [pc |-> "start", srv |-> s, for |-> t,
                                       task |-> None, sock |-> 0]]
      BY <1>5, <2>2, <3>1 DEF Spawn, AllGoesWell
    <3>3. thr'[q].for = t /\ Unsettled(q)'
      BY <1>0, <3>2 DEF Unsettled
    <3> QED
      BY <3>3 DEF Owned
  <2> QED
    BY <2>1, <2>2
<1>6. ASSUME NEW t \in Tasks, dbState[t] = "merging"
      PROVE  Owned(t)'
  <2>1. Owned(t)
    BY <1>0, <1>6 DEF OwnedInv
  <2> QED
    BY <1>3, <1>4, <1>5, <2>1 DEF Owned, Unsettled
<1> QED
  BY <1>1, <1>2, <1>6 DEF OwnedInv

LEMMA WatchReceiver ==
  ASSUME AllGoesWell, WatchInv, DeletedStay, NEW r \in Threads, Receiver(r)
  PROVE  OwnedInv' /\ KeptInv' /\ MarkedInv' /\ FoundInv'
<1>0. /\ TypeInv /\ TableTypeOK /\ ExecInv /\ ThreadInv /\ thr \in [Threads -> ThreadRecords]
      /\ OwnedInv /\ KeptInv /\ MarkedInv /\ FoundInv /\ ThreadsHaveServer
      /\ Runs(r) /\ Errand(r) /\ Undisputed(r)
  BY ReceiverFrame DEF WatchInv, ExecInv, ClaimInv, TypeInv, TypeOK, ThreadInv, Runs
<1> thr[r] \in ThreadRecords
  BY <1>0
<1>1. /\ UNCHANGED <<snd, hd>>
      /\ \A q \in Threads \ {r} : thr'[q] = thr[q]
      /\ thr'[r].pc # "start"
      /\ thr'[r].pc # "free" => thr'[r].for = thr[r].for
  BY <1>0, ReceiverFrame
<1>2. \A pc : Become(r, pc) => thr'[r].pc = pc /\ thr'[r].task = thr[r].task
  BY <1>0 DEF Become, ThreadRecords
<1>3. KeptInv'
  <2>1. ASSUME NEW u \in Servers, NEW t \in Tasks, Contends(u, t)'
        PROVE  Kept(u, t)'
    <3>1. Contends(u, t) /\ t # thr[r].for
      BY <1>0, <1>1, <2>1 DEF Contends, Undisputed, snd
    <3> QED
      BY <1>0, <3>1, ReceiverMap DEF KeptInv, Kept, DeletedStay
  <2> QED
    BY <2>1 DEF KeptInv
<1>4. MarkedInv'
  <2>1. ASSUME NEW q \in Threads, thr'[q].pc = "start"
        PROVE  /\ thr'[q] = thr[q] /\ thr[q].srv \in Servers /\ thr[q].for \in Tasks
               /\ memState'[thr[q].srv][thr[q].for] = memState[thr[q].srv][thr[q].for]
    <3>1. q # r /\ thr'[q] = thr[q] /\ Runs(q) /\ Errand(q) /\ thr[q].srv \in Servers
      BY <1>0, <1>1, <2>1 DEF ThreadInv, Runs, ThreadsHaveServer
    <3>2. thr[q].for # thr[r].for
      BY <1>0, <3>1 DEF ThreadInv
    <3> QED
      BY <1>0, <3>1, <3>2, ReceiverMap DEF Errand
  <2> QED
    BY <1>0, <1>1, <2>1 DEF MarkedInv, Kept, Marked, DeletedStay, snd
<1>5. FoundInv'
  <2>1. ASSUME thr'[r].pc = "fail"
        PROVE  thr'[r].task = thr[r].for \/ dbState'[thr[r].for] = "deleted"
    <3>1. CASE ThreadStart(r)
      <4>1. Marked(thr[r].srv, thr[r].for) /\ sndTask[thr[r].srv] = thr[r].for
        BY <1>0, <3>1 DEF ThreadStart, MarkedInv, AllGoesWell, Errand
      <4>2. CASE dbState[thr[r].for] = "deleted"
        BY <1>0, <4>2 DEF DeletedStay, Errand
      <4>3. CASE memState[thr[r].srv][thr[r].for] = "running"
        <5>1. \/ thr' = [thr EXCEPT ![r].pc = "recv", ![r].task = thr[r].for,
                                    ![r].sock = memSock[thr[r].srv][thr[r].for]]
              \/ thr' = [thr EXCEPT ![r].pc = "fail", ![r].task = thr[r].for]
          BY <1>0, <3>1, <4>1, <4>3 DEF ThreadStart, Errand
        <5> QED
          BY <1>0, <5>1 DEF ThreadRecords
      <4> QED
        BY <4>1, <4>2, <4>3 DEF Marked
    <3>2. CASE CloseTask(r)
      BY <1>0, <1>2, <3>2 DEF CloseTask, Errand
    <3>3. CASE ThreadEnd(r)
      BY <1>0, <2>1, <3>3 DEF ThreadEnd, NoThread
    <3> QED
      BY <1>2, <2>1, <3>1, <3>2, <3>3 DEF Receiver, ReceiveResult, ReceiveNothing, FailTask
  <2>2. ASSUME NEW q \in Threads \ {r}, thr'[q].pc = "fail"
        PROVE  thr'[q].task = thr'[q].for \/ dbState'[thr'[q].for] = "deleted"
    BY <1>0, <1>1, <2>2 DEF FoundInv, DeletedStay, ThreadInv, Runs, Errand
  <2> QED
    BY <1>1, <2>1, <2>2 DEF FoundInv
<1>6. OwnedInv'
  <2>1. ASSUME NEW t \in Tasks, dbState'[t] = "merging"
        PROVE  dbState[t] = "merging"
    <3>1. CASE ReceiveResult(r) \/ FailTask(r)
      BY <1>0, <2>1, <3>1 DEF ReceiveResult, FailTask, SetMergeState, TableTypeOK, table
    <3> QED
      BY <2>1, <3>1 DEF Receiver, ThreadStart, ReceiveNothing, CloseTask, ThreadEnd, table
  <2>2. ASSUME NEW t \in Tasks, thr[r].for = t, Unsettled(r), dbState[t] = "merging"
        PROVE  Unsettled(r)' \/ dbState'[t] # "merging"
    <3>1. CASE ThreadStart(r)
      <4>1. \/ thr' = [thr EXCEPT ![r].pc = "recv", ![r].task = sndTask[thr[r].srv],
                                  ![r].sock = memSock[thr[r].srv][sndTask[thr[r].srv]]]
            \/ thr' = [thr EXCEPT ![r].pc = "fail", ![r].task = sndTask[thr[r].srv]]
            \/ Become(r, "fail")
        BY <3>1 DEF ThreadStart
      <4> QED
        BY <1>0, <1>2, <4>1 DEF ThreadRecords, Unsettled
    <3>2. CASE ReceiveResult(r)
      BY <1>0, <2>2, <3>2
         DEF ReceiveResult, SetMergeState, Exists, Errand, AllGoesWell, DbFails, TableTypeOK
    <3>3. CASE FailTask(r)
      BY <1>0, <2>2, <3>3
         DEF FailTask, SetMergeState, Exists, FoundInv, AllGoesWell, DbFails, TableTypeOK
    <3>4. CASE ReceiveNothing(r) \/ CloseTask(r)
      BY <1>2, <2>2, <3>4 DEF ReceiveNothing, CloseTask, Unsettled
    <3> QED
      BY <2>2, <3>1, <3>2, <3>3, <3>4 DEF Receiver, ThreadEnd, Unsettled
  <2>3. Unsettled(r)' => thr'[r].for = thr[r].for
    BY <1>1 DEF Unsettled
  <2> QED
    BY <1>0, <1>1, <2>1, <2>2, <2>3 DEF OwnedInv, Owned, Unsettled, snd
<1> QED
  BY <1>3, <1>4, <1>5, <1>6

LEMMA WatchHandler ==
  ASSUME AllGoesWell, WatchInv, DeletedStay, NEW h \in Handlers, Request(h) \/ Handle(h)
  PROVE  OwnedInv' /\ KeptInv' /\ MarkedInv' /\ FoundInv'
<1>0. /\ TypeInv /\ TableTypeOK /\ ThreadInv /\ hd \in [Handlers -> HandlerRecords]
      /\ OwnedInv /\ KeptInv /\ MarkedInv /\ FoundInv /\ ThreadsHaveServer
  BY DEF WatchInv, ExecInv, ClaimInv, TypeInv, TypeOK
<1>1. UNCHANGED <<snd, thr, mem>>
  BY <1>0, RequestFrame, HandleFrame
<1>2. KeptInv' /\ MarkedInv' /\ FoundInv'
  BY <1>0, <1>1
     DEF KeptInv, MarkedInv, FoundInv, Kept, Marked, DeletedStay, Contends, ThreadInv, Runs,
         Errand, snd, mem
<1>3. CASE Request(h)
  <2>1. \A t \in Tasks : dbState'[t] = "merging" => dbState[t] = "merging"
    <3>1. ASSUME NEW t, DeleteTask(t)
          PROVE  \A u \in Tasks : dbState'[u] = "merging" => dbState[u] = "merging"
      BY <1>0, <3>1 DEF DeleteTask, TableTypeOK
    <3> QED
      BY <1>3, <3>1
         DEF Request, RequestNew, RequestAgain, RequestRemove, RequestPriority, SetPriority, table
  <2>2. \A k \in Handlers : hd[k].pc # "idle" => hd'[k] = hd[k]
    BY <1>0, <1>3
       DEF Request, RequestNew, RequestAgain, RequestRemove, RequestPriority, Accept
  <2>3. \A t \in Tasks : Owned(t) => Owned(t)'
    BY <1>1, <2>2 DEF Owned, Unsettled, snd
  <2> QED
    BY <1>0, <1>2, <2>1, <2>3 DEF OwnedInv
<1>4. CASE Handle(h)
  <2> hd[h] \in HandlerRecords
    BY <1>0
  <2>1. \A k \in Handlers \ {h} : hd'[k] = hd[k]
    BY <1>0, <1>4
       DEF Handle, LookUp, WriteRow, WriteState, SyncStart, SyncRun, SyncGiveUp, GiveUp, Await,
           Respond
  <2>2. ASSUME NEW t \in Tasks, dbState'[t] = "merging",
               dbState[t] # "merging" \/ (hd[h].task = t /\ hd[h].pc \in {"state", "run"})
        PROVE  hd'[h].task = t /\ hd'[h].pc \in {"state", "run"}
    <3>1. CASE WriteRow(h)
      <4>1. CASE UNCHANGED dbState
        BY <2>2, <3>1, <4>1 DEF WriteRow
      <4>2. ASSUME NEW u \in Tasks, InsertTask(u), Await(h, "state", u)
            PROVE  hd'[h].task = t /\ hd'[h].pc \in {"state", "run"}
        BY <1>0, <2>2, <3>1, <4>2 DEF InsertTask, Await, TableTypeOK, HandlerRecords, WriteRow
      <4> QED
        BY <1>0, <3>1, <4>1, <4>2 DEF WriteRow, UpdateTask, table
    <3>2. CASE WriteState(h)
      BY <1>0, <2>2, <3>2
         DEF WriteState, SetMergeState, Exists, DbFails, AllGoesWell, TableTypeOK
    <3>3. CASE SyncStart(h)
      <4>1. dbState'[t] # dbState[t] /\ t \in Tasks
        BY <2>2, <3>3 DEF SyncStart
      <4>2. SetMergeState(hd[h].task, "merging") /\ Await(h, "run", hd[h].task)
        BY <3>3, <4>1 DEF SyncStart, table
      <4>3. t = hd[h].task
        BY <1>0, <4>1, <4>2 DEF SetMergeState, TableTypeOK
      <4> QED
        BY <1>0, <4>2, <4>3 DEF Await, HandlerRecords
    <3>4. CASE SyncRun(h)
      BY <1>0, <2>2, <3>4
         DEF SyncRun, SetMergeState, Exists, DbFails, AllGoesWell, TableTypeOK
    <3>5. CASE SyncGiveUp(h)
      BY <1>0, <2>2, <3>5 DEF SyncGiveUp, DeleteTask, TableTypeOK
    <3>6. ~LookUp(h)
      BY <2>2 DEF LookUp, table
    <3> QED
      BY <1>4, <3>1, <3>2, <3>3, <3>4, <3>5, <3>6 DEF Handle
  <2>3. ASSUME NEW t \in Tasks, dbState'[t] = "merging", dbState[t] = "merging"
        PROVE  Owned(t)'
    <3>1. Owned(t)
      BY <1>0, <2>3 DEF OwnedInv
    <3>2. ASSUME NEW k \in Handlers, hd[k].task = t, hd[k].pc \in {"state", "run"}
          PROVE  hd'[k].task = t /\ hd'[k].pc \in {"state", "run"}
      BY <2>1, <2>2, <2>3, <3>2
    <3> QED
      BY <1>1, <3>1, <3>2 DEF Owned, Unsettled, snd
  <2>4. ASSUME NEW t \in Tasks, dbState'[t] = "merging", dbState[t] # "merging"
        PROVE  Owned(t)'
    BY <2>2, <2>4 DEF Owned
  <2> QED
    BY <1>2, <2>3, <2>4 DEF OwnedInv
<1> QED
  BY <1>2, <1>3, <1>4

LEMMA WatchStep ==
  ASSUME RewriteIsAlone, AllGoesWell, WatchInv, [Next]_vars
  PROVE  WatchInv'
<1>0. ExecInv'
  BY ExecStep DEF WatchInv, AllGoesWell
<1>1. CASE UNCHANGED <<table, mem, snd, thr, hd>>
  BY <1>0, <1>1
     DEF WatchInv, OwnedInv, Owned, Unsettled, KeptInv, Kept, MarkedInv, Marked, FoundInv,
         Contends, table, mem, snd
<1>2. Next => DeletedStay
  BY DeletedStep DEF WatchInv, ExecInv, ClaimInv
<1>3. \A s \in Servers : ~Crash(s)
  BY DEF Crash, AllGoesWell
<1> QED
  BY <1>0, <1>1, <1>2, <1>3, OwnedSender, KeptSender, MarkedSender, FoundSender, WatchReceiver,
     WatchHandler DEF WatchInv, Next, ActorDrops, vars

(* Nobody leaves a merging row behind: not the sender that set it, not the *)
(* receiver thread it created, whatever becomes of the connection, nor the *)
(* handler of a preview; if threads can be created and begin within the    *)
(* sender's rest, actors answer in the protocol and clients are orderly    *)
(* (pthread_recvtask_thread, setstate_actortask, Makesynch).               *)
THEOREM MergingHasOwner ==
  ASSUME Orderly, AllGoesWell
  PROVE  Spec => []MergingIsWatched
<1>1. WatchInv => MergingIsWatched
  BY DEF WatchInv, OwnedInv, Owned, Unsettled, MergingIsWatched
<1>2. WatchInv /\ Courtesy /\ [Next]_vars => WatchInv'
  BY WatchStep DEF Courtesy
<1> QED
  BY <1>1, <1>2, WatchInit, OrderlyCourtesy, PTL DEF Spec

=============================================================================
