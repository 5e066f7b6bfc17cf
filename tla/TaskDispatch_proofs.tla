------------------------ MODULE TaskDispatch_proofs ------------------------
(***************************************************************************)
(* Theorems about TaskDispatch, for every number of tasks, servers,        *)
(* actors, threads and handlers.                                           *)
(***************************************************************************)
EXTENDS TaskDispatch, TLAPS

USE DispatchAssumption, TableAssumption

-----------------------------------------------------------------------------
(* Type correctness is not inductive as it stands: nFailedAssignCnt stays  *)
(* within the number of actors only because it never passes the number of  *)
(* actors that were tried, and a receiver thread reads the map of the      *)
(* server that created it.                                                 *)

TriedBound ==
  \A s \in Servers :
    /\ sndFail[s] <= sndActor[s]
    /\ sndPc[s] = "send" => sndFail[s] < sndActor[s]

ThreadsHaveServer ==
  \A r \in Threads : thr[r].pc # "free" => thr[r].srv \in Servers

TypeInv == TypeOK /\ TriedBound /\ ThreadsHaveServer

LEMMA TypeInit == Init => TypeInv
  BY DEF Init, TableInit, TypeInv, TypeOK, TableTypeOK, TriedBound,
         ThreadsHaveServer, RowStates, SenderPcs, ThreadRecords, HandlerRecords,
         NoThread, NoHandler, ThreadPcs, HandlerPcs, Actors

(* What the statements of TaskTable do to the table's type.                *)
LEMMA SetMergeStateType ==
  ASSUME TableTypeOK, NEW t, NEW v \in RowStates, SetMergeState(t, v)
  PROVE  TableTypeOK'
  BY DEF SetMergeState, TableTypeOK

LEMMA ClaimType ==
  ASSUME TableTypeOK, NEW s \in Servers,
         ClaimNothing(s) \/ \E t \in Tasks : ClaimNextRun(s, t)
  PROVE  TableTypeOK'
<1>1. Outdated(s) \in [Tasks -> Servers \cup {None, Stale}]
  BY DEF Outdated, TableTypeOK
<1>2. scanned' \in [Tasks -> Servers \cup {None, Stale}]
  BY <1>1 DEF ClaimNothing, ClaimNextRun
<1>3. UNCHANGED <<dbState, priority>>
  BY DEF ClaimNothing, ClaimNextRun
<1> QED
  BY <1>2, <1>3 DEF TableTypeOK

LEMMA TableKept ==
  ASSUME TableTypeOK, UNCHANGED table
  PROVE  TableTypeOK'
  BY DEF TableTypeOK, table

(* What the calls on Container_actortaskinfo do to the map's type.         *)
MemTypeOK ==
  /\ memState \in [Servers -> [Tasks -> {"absent", "waiting", "running"}]]
  /\ memSock \in [Servers -> [Tasks -> 0..NumActors]]

LEMMA InsertType ==
  ASSUME MemTypeOK, NEW s \in Servers, NEW t \in Tasks, InsertEntry(s, t)
  PROVE  MemTypeOK'
<1>1. CASE UNCHANGED mem
  BY <1>1 DEF MemTypeOK, mem
<1>2. CASE /\ memState' = [memState EXCEPT ![s][t] = "waiting"]
           /\ memSock' = [memSock EXCEPT ![s][t] = 0]
  <2>1. memState' \in [Servers -> [Tasks -> {"absent", "waiting", "running"}]]
    BY <1>2 DEF MemTypeOK
  <2>2. memSock' \in [Servers -> [Tasks -> 0..NumActors]]
    BY <1>2 DEF MemTypeOK
  <2> QED
    BY <2>1, <2>2 DEF MemTypeOK
<1> QED
  BY <1>1, <1>2 DEF InsertEntry

LEMMA EraseType ==
  ASSUME MemTypeOK, NEW s \in Servers, NEW t, EraseEntry(s, t)
  PROVE  MemTypeOK'
<1>1. CASE UNCHANGED mem
  BY <1>1 DEF MemTypeOK, mem
<1>2. CASE /\ memState' = [memState EXCEPT ![s][t] = "absent"]
           /\ memSock' = [memSock EXCEPT ![s][t] = 0]
           /\ t \in Tasks
  <2>1. memState' \in [Servers -> [Tasks -> {"absent", "waiting", "running"}]]
    BY <1>2 DEF MemTypeOK
  <2>2. memSock' \in [Servers -> [Tasks -> 0..NumActors]]
    BY <1>2 DEF MemTypeOK
  <2> QED
    BY <2>1, <2>2 DEF MemTypeOK
<1> QED
  BY <1>1, <1>2 DEF EraseEntry

LEMMA MarkType ==
  ASSUME MemTypeOK, NEW s \in Servers, NEW t, MarkEntry(s, t)
  PROVE  MemTypeOK'
  BY DEF MemTypeOK, MarkEntry

LEMMA AnnounceType ==
  ASSUME TypeOK, NEW t, Announce(t)
  PROVE  notified' \in [Tasks -> RowStates \cup {"none"}]
  BY DEF TypeOK, TableTypeOK, Announce, Exists

(* Every step of a sender thread keeps the types.                          *)
LEMMA SenderType ==
  ASSUME TypeInv, NEW s \in Servers, Sender(s)
  PROVE  TypeInv'
<1> USE DEF TypeInv, TypeOK, TriedBound, ThreadsHaveServer, Goto, KeepSender,
            mem, snd, Actors, SenderPcs
<1> MemTypeOK
  BY DEF MemTypeOK
<1>1. CASE Scan(s)
  <2>1. TableTypeOK'
    BY <1>1, ClaimType DEF Scan
  <2>2. /\ sndPc' \in [Servers -> SenderPcs]
        /\ sndTask' \in [Servers -> Tasks \cup {None}]
        /\ \A x \in Servers : sndPc'[x] = "send" => sndPc[x] = "send"
    BY <1>1 DEF Scan
  <2> QED
    BY <1>1, <2>1, <2>2 DEF Scan
<1>2. CASE Fetch(s)
  <2>1. TableTypeOK'
    BY <1>2, TableKept DEF Fetch
  <2>2. CASE KeepSender /\ UNCHANGED mem /\ Goto(s, "scan")
    BY <1>2, <2>1, <2>2 DEF Fetch
  <2>3. CASE \E t \in ClaimedRows(s) : sndTask' = [sndTask EXCEPT ![s] = t]
    <3>1. sndTask' \in [Servers -> Tasks \cup {None}]
      BY <2>3 DEF ClaimedRows
    <3>2. MemTypeOK'
      <4>1. CASE UNCHANGED mem
        BY <4>1 DEF MemTypeOK
      <4>2. CASE \E t \in Tasks : InsertEntry(s, t)
        BY <4>2, InsertType
      <4> QED
        BY <1>2, <4>1, <4>2 DEF Fetch, ClaimedRows
    <3>3. \/ sndPc' = [sndPc EXCEPT ![s] = "loop"] /\ sndActor' = [sndActor EXCEPT ![s] = 0]
                                                  /\ sndFail' = [sndFail EXCEPT ![s] = 0]
          \/ sndPc' = [sndPc EXCEPT ![s] = "scan"] /\ UNCHANGED <<sndActor, sndFail>>
      BY <1>2 DEF Fetch
    <3>4. /\ sndPc' \in [Servers -> SenderPcs]
          /\ sndActor' \in [Servers -> 0..NumActors]
          /\ sndFail' \in [Servers -> 0..NumActors]
      <4>1. CASE /\ sndPc' = [sndPc EXCEPT ![s] = "loop"]
                 /\ sndActor' = [sndActor EXCEPT ![s] = 0]
                 /\ sndFail' = [sndFail EXCEPT ![s] = 0]
        BY <4>1
      <4>2. CASE sndPc' = [sndPc EXCEPT ![s] = "scan"] /\ UNCHANGED <<sndActor, sndFail>>
        BY <4>2
      <4> QED
        BY <3>3, <4>1, <4>2
    <3>5. TriedBound'
      BY <3>3
    <3> QED
      BY <1>2, <2>1, <3>1, <3>2, <3>4, <3>5 DEF Fetch, MemTypeOK
  <2> QED
    BY <1>2, <2>2, <2>3 DEF Fetch
<1>3. CASE NextActor(s)
  <2>1. TableTypeOK'
    BY <1>3, TableKept DEF NextActor
  <2>2. CASE sndActor[s] < NumActors
    <3>1. sndActor' = [sndActor EXCEPT ![s] = sndActor[s] + 1]
          /\ sndPc' = [sndPc EXCEPT ![s] = "send"] /\ UNCHANGED sndFail
      BY <1>3, <2>2 DEF NextActor
    <3>2. sndActor[s] + 1 \in 0..NumActors
      BY <2>2
    <3>3. sndActor' \in [Servers -> 0..NumActors] /\ sndPc' \in [Servers -> SenderPcs]
      BY <3>1, <3>2
    <3>4. TriedBound'
      BY <3>1
    <3> QED
      BY <1>3, <2>1, <3>3, <3>4 DEF NextActor
  <2>3. CASE ~(sndActor[s] < NumActors)
    BY <1>3, <2>1, <2>3 DEF NextActor
  <2> QED
    BY <2>2, <2>3
<1>4. CASE SkipActor(s)
  BY <1>4, TableKept DEF SkipActor
<1>5. CASE SendFails(s)
  <2>1. TableTypeOK'
    BY <1>5, SetMergeStateType DEF SendFails, RowStates
  <2> QED
    BY <1>5, <2>1 DEF SendFails
<1>6. CASE NoReply(s)
  BY <1>6, TableKept DEF NoReply, Offering, Exists
<1>7. CASE ReplyConfigError(s)
  BY <1>7, TableKept DEF ReplyConfigError, Offering
<1>8. CASE ReplyBusy(s)
  <2>1. MemTypeOK'
    BY <1>8, MarkType DEF ReplyBusy, MemTypeOK
  <2> QED
    BY <1>8, <2>1, TableKept DEF ReplyBusy, MemTypeOK
<1>9. CASE ReplyResult(s)
  <2>1. TableTypeOK'
    BY <1>9, SetMergeStateType DEF ReplyResult, RowStates
  <2> QED
    BY <1>9, <2>1 DEF ReplyResult
<1>10. CASE AnnounceResult(s)
  <2>1. MemTypeOK' /\ notified' \in [Tasks -> RowStates \cup {"none"}]
    BY <1>10, EraseType, AnnounceType DEF AnnounceResult
  <2> QED
    BY <1>10, <2>1, TableKept DEF AnnounceResult, MemTypeOK
<1>11. CASE ReplyAccept(s)
  <2>1. TableTypeOK'
    BY <1>11, SetMergeStateType DEF ReplyAccept, RowStates
  <2> QED
    BY <1>11, <2>1 DEF ReplyAccept, Offering, Exists
<1>12. CASE Spawn(s)
  <2>1. thr' \in [Threads -> ThreadRecords] /\ ThreadsHaveServer'
    <3>1. CASE UNCHANGED thr
      BY <3>1
    <3>2. CASE \E r \in Threads :
                 thr' = [thr EXCEPT ![r] = [pc |-> "start", srv |-> s, for |-> sndTask[s],
                                            task |-> None, sock |-> 0]]
      BY <3>2 DEF ThreadRecords, ThreadPcs
    <3> QED
      BY <1>12, <3>1, <3>2 DEF Spawn
  <2>2. notified' \in [Tasks -> RowStates \cup {"none"}]
    BY <1>12, AnnounceType DEF Spawn
  <2> QED
    BY <1>12, <2>1, <2>2, TableKept DEF Spawn
<1>13. CASE MarkRunning(s)
  BY <1>13, MarkType, TableKept DEF MarkRunning, MemTypeOK
<1>14. CASE StoreSocket(s)
  BY <1>14, TableKept DEF StoreSocket
<1>15. CASE Judge(s)
  <2>1. MemTypeOK'
    BY <1>15, EraseType DEF Judge, MemTypeOK
  <2> QED
    BY <1>15, <2>1, TableKept DEF Judge, MemTypeOK
<1>16. CASE Release(s)
  BY <1>16 DEF Release, ClearScannedTime, TableTypeOK
<1>17. CASE Purge(s)
  BY <1>17, TableKept DEF Purge
<1> QED
  BY <1>1, <1>2, <1>3, <1>4, <1>5, <1>6, <1>7, <1>8, <1>9, <1>10, <1>11,
     <1>12, <1>13, <1>14, <1>15, <1>16, <1>17 DEF Sender

(* Every step of a receiver thread keeps the types.                        *)
LEMMA ReceiverType ==
  ASSUME TypeInv, NEW r \in Threads, Receiver(r)
  PROVE  TypeInv'
<1> USE DEF TypeInv, TypeOK, TriedBound, ThreadsHaveServer, mem, snd
<1> MemTypeOK
  BY DEF MemTypeOK
<1>0. thr[r] \in ThreadRecords
  OBVIOUS
<1>1. ASSUME NEW pc \in ThreadPcs, Become(r, pc), thr[r].pc # "free"
      PROVE  thr' \in [Threads -> ThreadRecords] /\ ThreadsHaveServer'
  BY <1>0, <1>1 DEF Become, ThreadRecords
<1>2. CASE ThreadStart(r)
  <2> DEFINE s == thr[r].srv
             t == sndTask[s]
  <2>1. s \in Servers /\ t \in Tasks \cup {None}
    BY <1>2 DEF ThreadStart
  <2>2. CASE t # None /\ memState[s][t] = "running" /\ memSock[s][t] # 0
    <3>1. thr' = [thr EXCEPT ![r].pc = "recv", ![r].task = t, ![r].sock = memSock[s][t]]
          /\ UNCHANGED mem
      BY <1>2, <2>2 DEF ThreadStart
    <3>2. memSock[s][t] \in 0..NumActors
      BY <2>1, <2>2
    <3>3. thr' \in [Threads -> ThreadRecords] /\ ThreadsHaveServer'
      BY <1>0, <2>1, <3>1, <3>2 DEF ThreadRecords, ThreadPcs
    <3> QED
      BY <1>2, <3>1, <3>3, TableKept DEF ThreadStart
  <2>3. CASE t # None /\ memState[s][t] = "running" /\ memSock[s][t] = 0
    <3>1. thr' = [thr EXCEPT ![r].pc = "fail", ![r].task = t] /\ EraseEntry(s, t)
      BY <1>2, <2>3 DEF ThreadStart
    <3>2. thr' \in [Threads -> ThreadRecords] /\ ThreadsHaveServer'
      BY <1>0, <2>1, <3>1 DEF ThreadRecords, ThreadPcs
    <3>3. MemTypeOK'
      BY <2>1, <3>1, EraseType
    <3> QED
      BY <1>2, <3>2, <3>3, TableKept DEF ThreadStart, MemTypeOK
  <2>4. CASE ~(t # None /\ memState[s][t] = "running")
    <3>1. Become(r, "fail") /\ UNCHANGED mem /\ thr[r].pc # "free"
      BY <1>2, <2>4 DEF ThreadStart
    <3>2. thr' \in [Threads -> ThreadRecords] /\ ThreadsHaveServer'
      BY <1>1, <3>1 DEF ThreadPcs
    <3> QED
      BY <1>2, <3>1, <3>2, TableKept DEF ThreadStart
  <2> QED
    BY <2>2, <2>3, <2>4
<1>3. CASE ReceiveResult(r)
  <2>1. TableTypeOK'
    BY <1>3, SetMergeStateType, TableKept DEF ReceiveResult, RowStates
  <2>2. thr' \in [Threads -> ThreadRecords] /\ ThreadsHaveServer'
    BY <1>1, <1>3 DEF ReceiveResult, ThreadPcs
  <2>3. job' \in [Actors -> Tasks \cup {None}]
    BY <1>3 DEF ReceiveResult
  <2> QED
    BY <1>3, <2>1, <2>2, <2>3 DEF ReceiveResult
<1>4. CASE ReceiveNothing(r)
  <2>1. thr' \in [Threads -> ThreadRecords] /\ ThreadsHaveServer'
    BY <1>1, <1>4 DEF ReceiveNothing, ThreadPcs
  <2> QED
    BY <1>4, <2>1, TableKept DEF ReceiveNothing
<1>5. CASE CloseTask(r)
  <2>1. thr' \in [Threads -> ThreadRecords] /\ ThreadsHaveServer'
    <3>1. (IF thr[r].pc = "heard" THEN "notify" ELSE "fail") \in ThreadPcs
      BY DEF ThreadPcs
    <3> QED
      BY <1>1, <1>5, <3>1 DEF CloseTask
  <2>2. MemTypeOK'
    BY <1>5, EraseType DEF CloseTask
  <2> QED
    BY <1>5, <2>1, <2>2, TableKept DEF CloseTask, MemTypeOK
<1>6. CASE FailTask(r)
  <2>1. TableTypeOK'
    BY <1>6, SetMergeStateType DEF FailTask, RowStates
  <2>2. thr' \in [Threads -> ThreadRecords] /\ ThreadsHaveServer'
    BY <1>1, <1>6 DEF FailTask, ThreadPcs
  <2> QED
    BY <1>6, <2>1, <2>2 DEF FailTask
<1>7. CASE ThreadEnd(r)
  <2>1. notified' \in [Tasks -> RowStates \cup {"none"}]
    BY <1>7, AnnounceType DEF ThreadEnd
  <2>2. thr' \in [Threads -> ThreadRecords] /\ ThreadsHaveServer'
    BY <1>7 DEF ThreadEnd, NoThread, ThreadRecords, ThreadPcs
  <2> QED
    BY <1>7, <2>1, <2>2, TableKept DEF ThreadEnd
<1> QED
  BY <1>2, <1>3, <1>4, <1>5, <1>6, <1>7 DEF Receiver

(* Every step of an HTTP handler keeps the types.                          *)
LEMMA RequestType ==
  ASSUME TypeInv, NEW h \in Handlers, Request(h)
  PROVE  TypeInv'
<1> USE DEF TypeInv, TypeOK, TriedBound, ThreadsHaveServer, mem, snd
<1>1. ASSUME NEW s \in Servers, NEW op \in Requests, NEW t \in Tasks \cup {None},
             NEW pc \in HandlerPcs, Accept(h, s, op, t, pc)
      PROVE  hd' \in [Handlers -> HandlerRecords]
  BY <1>1 DEF Accept, HandlerRecords
<1>2. ASSUME reqs < MaxRequests, reqs' = reqs + 1
      PROVE  reqs' \in 0..MaxRequests
  BY <1>2
<1>3. ASSUME NEW s \in Servers, NEW op \in Requests, RequestNew(h, s, op)
      PROVE  TypeInv'
  <2>1. hd' \in [Handlers -> HandlerRecords]
    BY <1>1, <1>3 DEF RequestNew, HandlerPcs
  <2> QED
    BY <1>2, <1>3, <2>1, TableKept DEF RequestNew
<1>4. ASSUME NEW s \in Servers, NEW op \in Requests, NEW t \in Tasks, NEW audio \in BOOLEAN,
             RequestAgain(h, s, op, t, audio)
      PROVE  TypeInv'
  <2>1. hd' \in [Handlers -> HandlerRecords]
    BY <1>1, <1>4 DEF RequestAgain, HandlerPcs
  <2> QED
    BY <1>2, <1>4, <2>1, TableKept DEF RequestAgain
<1>5. ASSUME NEW t \in Tasks, RequestRemove(h, t)
      PROVE  TypeInv'
  <2>1. TableTypeOK'
    BY <1>5 DEF RequestRemove, DeleteTask, TableTypeOK, RowStates
  <2> QED
    BY <1>2, <1>5, <2>1 DEF RequestRemove
<1>6. ASSUME NEW t \in Tasks, NEW p \in 0..MaxPriority, RequestPriority(h, t, p)
      PROVE  TypeInv'
  <2>1. TableTypeOK'
    <3>1. CASE priority' = [priority EXCEPT ![t] = p]
      BY <1>6, <3>1 DEF RequestPriority, SetPriority, TableTypeOK
    <3>2. CASE UNCHANGED priority
      BY <1>6, <3>2 DEF RequestPriority, SetPriority, TableTypeOK
    <3> QED
      BY <1>6, <3>1, <3>2 DEF RequestPriority, SetPriority
  <2> QED
    BY <1>2, <1>6, <2>1 DEF RequestPriority
<1> QED
  BY <1>3, <1>4, <1>5, <1>6 DEF Request

LEMMA HandleType ==
  ASSUME TypeInv, NEW h \in Handlers, Handle(h)
  PROVE  TypeInv'
<1> USE DEF TypeInv, TypeOK, TriedBound, ThreadsHaveServer, mem, snd
<1>1. ASSUME NEW t \in Tasks \cup {None}, NEW pc \in HandlerPcs, Await(h, pc, t)
      PROVE  hd' \in [Handlers -> HandlerRecords]
  <2>1. hd[h] \in HandlerRecords
    OBVIOUS
  <2>2. [hd[h] EXCEPT !.pc = pc, !.task = t] \in HandlerRecords
    BY <2>1 DEF HandlerRecords
  <2> QED
    BY <1>1, <2>2 DEF Await
<1>2. ASSUME Respond(h)
      PROVE  hd' \in [Handlers -> HandlerRecords]
  BY <1>2 DEF Respond, NoHandler, HandlerRecords, HandlerPcs
<1>3. hd[h].task \in Tasks \cup {None}
  BY DEF HandlerRecords
<1>4. CASE LookUp(h)
  <2>1. hd' \in [Handlers -> HandlerRecords]
    BY <1>1, <1>3, <1>4 DEF LookUp, HandlerPcs
  <2> QED
    BY <1>4, <2>1, TableKept DEF LookUp
<1>5. CASE WriteRow(h)
  <2>1. hd' \in [Handlers -> HandlerRecords]
    BY <1>1, <1>3, <1>5 DEF WriteRow, HandlerPcs
  <2>2. ASSUME NEW t \in Tasks, InsertTask(t)
        PROVE  TableTypeOK'
    BY <2>2 DEF InsertTask, TableTypeOK, RowStates
  <2>3. ASSUME UpdateTask(hd[h].task)
        PROVE  TableTypeOK'
    <3>1. CASE UNCHANGED table
      BY <3>1, TableKept
    <3>2. CASE /\ scanned' = [scanned EXCEPT ![hd[h].task] = None]
               /\ priority' = [priority EXCEPT ![hd[h].task] = 0]
               /\ UNCHANGED dbState
      <4>1. scanned' \in [Tasks -> Servers \cup {None, Stale}]
        BY <3>2 DEF TableTypeOK
      <4>2. priority' \in [Tasks -> 0..MaxPriority]
        <5>1. 0 \in 0..MaxPriority
          OBVIOUS
        <5>2. priority \in [Tasks -> 0..MaxPriority]
          BY DEF TableTypeOK
        <5>3. \A t \in Tasks : priority'[t] \in 0..MaxPriority
          BY <3>2, <5>1, <5>2
        <5> QED
          BY <3>2, <5>2, <5>3
      <4> QED
        BY <3>2, <4>1, <4>2 DEF TableTypeOK
    <3> QED
      BY <2>3, <3>1, <3>2 DEF UpdateTask
  <2> QED
    BY <1>5, <2>1, <2>2, <2>3, TableKept DEF WriteRow
<1>6. CASE WriteState(h)
  <2>1. TableTypeOK'
    BY <1>6, SetMergeStateType DEF WriteState, RowStates
  <2>2. hd' \in [Handlers -> HandlerRecords]
    BY <1>1, <1>2, <1>3, <1>6 DEF WriteState, HandlerPcs
  <2>3. notified' \in [Tasks -> RowStates \cup {"none"}]
    BY <1>6 DEF WriteState
  <2> QED
    BY <1>6, <2>1, <2>2, <2>3 DEF WriteState
<1>7. CASE SyncStart(h)
  <2>1. TableTypeOK'
    BY <1>7, SetMergeStateType, TableKept DEF SyncStart, RowStates
  <2>2. hd' \in [Handlers -> HandlerRecords]
    BY <1>1, <1>2, <1>3, <1>7 DEF SyncStart, HandlerPcs
  <2> QED
    BY <1>7, <2>1, <2>2 DEF SyncStart
<1>8. CASE SyncRun(h)
  <2>1. TableTypeOK'
    BY <1>8, SetMergeStateType, TableKept DEF SyncRun, RowStates
  <2>2. hd' \in [Handlers -> HandlerRecords]
    BY <1>1, <1>2, <1>3, <1>8 DEF SyncRun, GiveUp, HandlerPcs
  <2> QED
    BY <1>8, <2>1, <2>2 DEF SyncRun
<1>9. CASE SyncGiveUp(h)
  <2>1. TableTypeOK'
    BY <1>9 DEF SyncGiveUp, DeleteTask, TableTypeOK, RowStates
  <2>2. hd' \in [Handlers -> HandlerRecords]
    BY <1>2, <1>9 DEF SyncGiveUp
  <2> QED
    BY <1>9, <2>1, <2>2 DEF SyncGiveUp
<1> QED
  BY <1>4, <1>5, <1>6, <1>7, <1>8, <1>9 DEF Handle

LEMMA CrashType ==
  ASSUME TypeInv, NEW s \in Servers, Crash(s)
  PROVE  TypeInv'
<1> USE DEF TypeInv, TypeOK, TriedBound, ThreadsHaveServer
<1>1. TableTypeOK'
  BY DEF Crash, Outdated, TableTypeOK
<1>2. memState' \in [Servers -> [Tasks -> {"absent", "waiting", "running"}]]
  BY DEF Crash
<1>3. memSock' \in [Servers -> [Tasks -> 0..NumActors]]
  BY DEF Crash
<1>4. /\ sndPc' \in [Servers -> SenderPcs]
      /\ sndTask' \in [Servers -> Tasks \cup {None}]
  BY DEF Crash, SenderPcs
<1>5. /\ sndActor' \in [Servers -> 0..NumActors]
      /\ sndFail' \in [Servers -> 0..NumActors]
  BY DEF Crash
<1>6. TriedBound'
  BY DEF Crash
<1>7. thr' \in [Threads -> ThreadRecords] /\ ThreadsHaveServer'
  BY DEF Crash, NoThread, ThreadRecords, ThreadPcs
<1>8. hd' \in [Handlers -> HandlerRecords]
  BY DEF Crash, NoHandler, HandlerRecords, HandlerPcs
<1> QED
  BY <1>1, <1>2, <1>3, <1>4, <1>5, <1>6, <1>7, <1>8 DEF Crash

LEMMA TypeStep ==
  ASSUME TypeInv, [Next]_vars
  PROVE  TypeInv'
<1>1. CASE UNCHANGED vars
  BY <1>1, TableKept DEF vars, mem, snd, TypeInv, TypeOK, TriedBound, ThreadsHaveServer
<1>2. ASSUME NEW a \in Actors, ActorDrops(a)
      PROVE  TypeInv'
  BY <1>2, TableKept DEF ActorDrops, mem, snd, TypeInv, TypeOK, TriedBound, ThreadsHaveServer
<1> QED
  BY <1>1, <1>2, SenderType, ReceiverType, RequestType, HandleType, CrashType DEF Next

(* Type correctness: every variable of the dispatcher keeps its range, so  *)
(* the sender never offers a task to an actor past the end of its list and *)
(* never counts more refusals than actors.                                 *)
THEOREM TypeCorrect == Spec => []TypeOK
<1>1. TypeInv => TypeOK
  BY DEF TypeInv
<1> QED
  BY <1>1, TypeInit, TypeStep, PTL DEF Spec

-----------------------------------------------------------------------------
(* The claim key as a lock.  A server that works on dispatching a task is  *)
(* the one whose key the row carries; nobody else can claim the row then,  *)
(* since a claim needs an empty key.  The key of a row somebody works on   *)
(* is only cleared by that server itself or by addtaskinfo's UPDATE: the   *)
(* proof needs RewriteIsAlone, which holds for want of rewriting when no   *)
(* client writes a task again.                                             *)

Locked ==
  \A s \in Servers, t \in Tasks :
    Contends(s, t) => scanned[t] = s /\ dbState[t] # "unborn"

OnlyInserts ==
  \A h \in Handlers :
    /\ hd[h].pc # "lookup"
    /\ hd[h].pc = "write" => hd[h].task = None

ClaimInv == TypeInv /\ Locked

LEMMA InsertsAlone == OnlyInserts => RewriteIsAlone
  BY DEF OnlyInserts, RewriteIsAlone

(* What most steps leave of the table: all keys, and every row is known.   *)
RowsKept ==
  /\ scanned' = scanned
  /\ \A t \in Tasks : dbState[t] # "unborn" => dbState'[t] # "unborn"

LEMMA ClaimInit == Init => ClaimInv /\ OnlyInserts
  BY TypeInit DEF Init, ClaimInv, Locked, OnlyInserts, Contends, NoHandler

LEMMA LockedKept ==
  ASSUME Locked, RowsKept,
         \A s \in Servers, t \in Tasks : Contends(s, t)' => Contends(s, t)
  PROVE  Locked'
  BY DEF Locked, RowsKept

LEMMA TableRowsKept ==
  ASSUME UNCHANGED table
  PROVE  RowsKept
  BY DEF RowsKept, table

LEMMA SetMergeStateKeeps ==
  ASSUME TableTypeOK, NEW t, NEW v, v # "unborn", SetMergeState(t, v)
  PROVE  RowsKept
  BY DEF RowsKept, SetMergeState, TableTypeOK

LEMMA DeleteKeeps ==
  ASSUME TableTypeOK, NEW t, DeleteTask(t)
  PROVE  RowsKept
  BY DEF RowsKept, DeleteTask, TableTypeOK

(* The sender's own steps: only Fetch takes a task in hand, and only Scan  *)
(* and Release change keys.                                                *)
LEMMA SenderLocked ==
  ASSUME TypeInv, Locked, NEW s \in Servers, Sender(s)
  PROVE  Locked'
<1> USE DEF Contends, Goto, KeepSender
<1>0. TableTypeOK /\ sndPc \in [Servers -> SenderPcs] /\ sndTask \in [Servers -> Tasks \cup {None}]
  BY DEF TypeInv, TypeOK
<1>1. CASE Scan(s)
  <2>1. ASSUME NEW u \in Servers, NEW t \in Tasks, Contends(u, t)'
        PROVE  Contends(u, t) /\ u # s
    BY <1>0, <1>1, <2>1, TableAssumption DEF Scan
  <2>2. ASSUME NEW u \in Servers \ {s}, NEW t \in Tasks, scanned[t] = u
        PROVE  scanned'[t] = u
    <3>1. Outdated(s)[t] = u
      BY <2>2 DEF Outdated
    <3>2. CASE ClaimNothing(s)
      BY <3>1, <3>2 DEF ClaimNothing
    <3>3. ASSUME NEW x \in Tasks, ClaimNextRun(s, x)
          PROVE  scanned'[t] = u
      <4>1. x # t
        BY <2>2, <3>3, TableAssumption DEF ClaimNextRun, Foremost, Scannable
      <4> QED
        BY <3>1, <3>3, <4>1 DEF ClaimNextRun
    <3> QED
      BY <1>1, <3>2, <3>3 DEF Scan
  <2>3. dbState' = dbState
    BY <1>1 DEF Scan, ClaimNothing, ClaimNextRun
  <2> QED
    BY <2>1, <2>2, <2>3 DEF Locked
<1>2. CASE Fetch(s)
  <2>1. UNCHANGED <<scanned, dbState>>
    BY <1>2 DEF Fetch, table
  <2>2. ASSUME NEW u \in Servers, NEW t \in Tasks, Contends(u, t)'
        PROVE  Contends(u, t) \/ (u = s /\ t \in ClaimedRows(s))
    BY <1>0, <1>2, <2>2 DEF Fetch, ClaimedRows
  <2>3. \A t \in ClaimedRows(s) : scanned[t] = s /\ dbState[t] # "unborn"
    BY DEF ClaimedRows
  <2> QED
    BY <2>1, <2>2, <2>3 DEF Locked
<1>3. CASE Release(s)
  <2>1. ASSUME NEW u \in Servers, NEW t \in Tasks, Contends(u, t)'
        PROVE  Contends(u, t) /\ t # sndTask[s]
    BY <1>0, <1>3, <2>1 DEF Release, Locked
  <2>2. dbState' = dbState /\ \A t \in Tasks : t # sndTask[s] => scanned'[t] = scanned[t]
    BY <1>0, <1>3 DEF Release, ClearScannedTime, TableTypeOK
  <2> QED
    BY <2>1, <2>2 DEF Locked
<1>4. CASE UNCHANGED snd /\ UNCHANGED table
  BY <1>4, TableRowsKept, LockedKept DEF snd
<1>5. ASSUME RowsKept,
             sndPc[s] \in {"loop", "send", "judge", "clear", "announce", "spawn"}
               \/ (\E pc \in {"mark", "socket", "scan"} : Goto(s, pc)),
             \E pc \in SenderPcs : Goto(s, pc), UNCHANGED sndTask
      PROVE  Locked'
  <2>1. ASSUME NEW u \in Servers, NEW t \in Tasks, Contends(u, t)'
        PROVE  Contends(u, t)
    BY <1>0, <1>5, <2>1
  <2> QED
    BY <1>5, <2>1, LockedKept
<1> USE DEF SenderPcs
<1>6. CASE NextActor(s)
  BY <1>5, <1>6, TableRowsKept DEF NextActor
<1>7. CASE SkipActor(s) \/ NoReply(s) \/ ReplyConfigError(s) \/ ReplyBusy(s)
  BY <1>5, <1>7, TableRowsKept DEF SkipActor, NoReply, ReplyConfigError, ReplyBusy, Offering
<1>8. CASE SendFails(s)
  BY <1>0, <1>5, <1>8, SetMergeStateKeeps DEF SendFails, Offering
<1>9. CASE ReplyResult(s)
  BY <1>0, <1>5, <1>9, SetMergeStateKeeps DEF ReplyResult, Offering
<1>10. CASE ReplyAccept(s)
  BY <1>0, <1>5, <1>10, SetMergeStateKeeps DEF ReplyAccept, Offering
<1>11. CASE AnnounceResult(s) \/ Spawn(s) \/ Judge(s)
  BY <1>5, <1>11, TableRowsKept DEF AnnounceResult, Spawn, Judge
<1>12. CASE MarkRunning(s) \/ StoreSocket(s)
  BY <1>5, <1>12, TableRowsKept DEF MarkRunning, StoreSocket
<1>13. CASE Purge(s)
  BY <1>4, <1>13 DEF Purge
<1> QED
  BY <1>1, <1>2, <1>3, <1>6, <1>7, <1>8, <1>9, <1>10, <1>11, <1>12, <1>13 DEF Sender

LEMMA ReceiverLocked ==
  ASSUME TypeInv, Locked, NEW r \in Threads, Receiver(r)
  PROVE  Locked'
<1>0. TableTypeOK
  BY DEF TypeInv, TypeOK
<1>1. UNCHANGED snd
  BY DEF Receiver, ThreadStart, ReceiveResult, ReceiveNothing, CloseTask, FailTask, ThreadEnd
<1>2. RowsKept
  BY <1>0, SetMergeStateKeeps, TableRowsKept
     DEF Receiver, ThreadStart, ReceiveResult, ReceiveNothing, CloseTask, FailTask, ThreadEnd
<1> QED
  BY <1>1, <1>2, LockedKept DEF Contends, snd

LEMMA RequestLocked ==
  ASSUME TypeInv, Locked, NEW h \in Handlers, Request(h)
  PROVE  Locked'
<1>0. TableTypeOK
  BY DEF TypeInv, TypeOK
<1>1. UNCHANGED snd
  BY DEF Request, RequestNew, RequestAgain, RequestRemove, RequestPriority
<1>2. ASSUME NEW t \in Tasks, NEW p \in 0..MaxPriority, SetPriority(t, p)
      PROVE  RowsKept
  BY <1>2 DEF SetPriority, RowsKept
<1>3. RowsKept
  BY <1>0, <1>2, DeleteKeeps, TableRowsKept
     DEF Request, RequestNew, RequestAgain, RequestRemove, RequestPriority
<1> QED
  BY <1>1, <1>3, LockedKept DEF Contends, snd

(* An INSERT clears the key of a row nobody can have in hand yet, and an   *)
(* UPDATE that of a row nobody has in hand.                                *)
LEMMA HandleLocked ==
  ASSUME TypeInv, Locked, RewriteIsAlone, NEW h \in Handlers, Handle(h)
  PROVE  Locked'
<1>0. TableTypeOK
  BY DEF TypeInv, TypeOK
<1>1. UNCHANGED snd
  BY DEF Handle, LookUp, WriteRow, WriteState, SyncStart, SyncRun, SyncGiveUp
<1>2. CASE WriteRow(h)
  <2>1. ASSUME NEW t \in Tasks, InsertTask(t)
        PROVE  Locked'
    <3>1. \A u \in Tasks : u # t => scanned'[u] = scanned[u] /\ dbState'[u] = dbState[u]
      BY <1>0, <2>1 DEF InsertTask, TableTypeOK
    <3>2. \A s \in Servers : ~Contends(s, t)
      BY <2>1 DEF InsertTask, Locked
    <3>3. \A s \in Servers, u \in Tasks : Contends(s, u)' <=> Contends(s, u)
      BY <1>1 DEF Contends, snd
    <3> QED
      BY <3>1, <3>2, <3>3 DEF Locked
  <2>2. CASE UNCHANGED table
    BY <1>1, <2>2, TableRowsKept, LockedKept DEF Contends, snd
  <2>3. ASSUME NEW t \in Tasks, hd[h].task = t, Exists(t), hd[h].pc = "write",
               scanned' = [scanned EXCEPT ![t] = None], UNCHANGED dbState
        PROVE  Locked'
    <3>1. \A s \in Servers : ~Contends(s, t)
      BY <2>3 DEF RewriteIsAlone, Exists, Free, Holds
    <3>2. \A u \in Tasks : u # t => scanned'[u] = scanned[u]
      BY <1>0, <2>3 DEF TableTypeOK
    <3>3. \A s \in Servers, u \in Tasks : Contends(s, u)' <=> Contends(s, u)
      BY <1>1 DEF Contends, snd
    <3> QED
      BY <2>3, <3>1, <3>2, <3>3 DEF Locked
  <2> QED
    BY <1>2, <2>1, <2>2, <2>3 DEF WriteRow, UpdateTask, Exists
<1>3. CASE LookUp(h) \/ WriteState(h) \/ SyncStart(h) \/ SyncRun(h) \/ SyncGiveUp(h)
  <2>1. RowsKept
    BY <1>0, <1>3, SetMergeStateKeeps, DeleteKeeps, TableRowsKept
       DEF LookUp, WriteState, SyncStart, SyncRun, SyncGiveUp
  <2> QED
    BY <1>1, <2>1, LockedKept DEF Contends, snd
<1> QED
  BY <1>2, <1>3 DEF Handle

LEMMA CrashLocked ==
  ASSUME TypeInv, Locked, NEW s \in Servers, Crash(s)
  PROVE  Locked'
<1>0. sndPc \in [Servers -> SenderPcs] /\ sndTask \in [Servers -> Tasks \cup {None}]
  BY DEF TypeInv, TypeOK
<1>1. ASSUME NEW u \in Servers, NEW t \in Tasks, Contends(u, t)'
      PROVE  Contends(u, t) /\ u # s
  BY <1>0, <1>1 DEF Crash, Contends
<1>2. dbState' = dbState /\ \A u \in Servers \ {s}, t \in Tasks :
                              scanned[t] = u => scanned'[t] = u
  BY DEF Crash, Outdated
<1> QED
  BY <1>1, <1>2 DEF Locked

(* A client that writes no known task makes every handler an inserter.     *)
LEMMA InsertsStep ==
  ASSUME ClientOps \cap Again = {}, TypeInv, OnlyInserts, [Next]_vars
  PROVE  OnlyInserts'
<1> USE DEF OnlyInserts
<1>0. hd \in [Handlers -> HandlerRecords]
  BY DEF TypeInv, TypeOK
<1>1. CASE UNCHANGED hd
  BY <1>1
<1>2. ASSUME NEW h \in Handlers, Request(h)
      PROVE  OnlyInserts'
  <2>1. ASSUME NEW s \in Servers, NEW op \in Requests, RequestNew(h, s, op)
        PROVE  OnlyInserts'
    BY <1>0, <2>1 DEF RequestNew, Accept
  <2>2. ASSUME NEW s \in Servers, NEW op \in Requests, NEW t \in Tasks, NEW audio \in BOOLEAN
        PROVE  ~RequestAgain(h, s, op, t, audio)
    BY DEF RequestAgain
  <2> QED
    BY <1>1, <1>2, <2>1, <2>2 DEF Request, RequestRemove, RequestPriority
<1>3. ASSUME NEW h \in Handlers, Handle(h)
      PROVE  OnlyInserts'
  <2>1. hd[h] \in HandlerRecords
    BY <1>0
  <2>2. CASE WriteRow(h)
    BY <1>0, <2>1, <2>2 DEF WriteRow, Await, HandlerRecords
  <2>3. CASE WriteState(h) \/ SyncStart(h) \/ SyncRun(h) \/ SyncGiveUp(h)
    BY <1>0, <2>1, <2>3
       DEF WriteState, SyncStart, SyncRun, SyncGiveUp, GiveUp, Await, Respond, NoHandler,
           HandlerRecords
  <2>4. ~LookUp(h)
    BY DEF LookUp
  <2> QED
    BY <1>3, <2>2, <2>3, <2>4 DEF Handle
<1>4. ASSUME NEW s \in Servers, Crash(s)
      PROVE  OnlyInserts'
  BY <1>0, <1>4 DEF Crash, NoHandler
<1>5. ASSUME NEW s \in Servers, Sender(s)
      PROVE  UNCHANGED hd
  BY <1>5 DEF Sender, Scan, Fetch, NextActor, SkipActor, SendFails, NoReply,
     ReplyConfigError, ReplyBusy, ReplyResult, AnnounceResult, ReplyAccept, Spawn,
     MarkRunning, StoreSocket, Judge, Release, Purge
<1>6. ASSUME NEW r \in Threads, Receiver(r)
      PROVE  UNCHANGED hd
  BY <1>6 DEF Receiver, ThreadStart, ReceiveResult, ReceiveNothing, CloseTask, FailTask, ThreadEnd
<1> QED
  BY <1>1, <1>2, <1>3, <1>4, <1>5, <1>6 DEF Next, ActorDrops, vars

LEMMA ClaimStep ==
  ASSUME RewriteIsAlone, ClaimInv, [Next]_vars
  PROVE  ClaimInv'
<1> USE DEF ClaimInv
<1>1. CASE UNCHANGED vars
  BY <1>1, TypeStep DEF Locked, Contends, vars, snd, table
<1>2. ASSUME NEW a \in Actors, ActorDrops(a)
      PROVE  Locked'
  BY <1>2 DEF ActorDrops, Locked, Contends, snd, table
<1>3. CASE Next
  BY <1>2, <1>3, TypeStep, SenderLocked, ReceiverLocked, RequestLocked,
     HandleLocked, CrashLocked DEF Next
<1> QED
  BY <1>1, <1>3

(* Exclusive claim: whatever fails, crashes or is slow, no two servers     *)
(* dispatch the same task, as long as clients submit every task once.      *)
THEOREM ClaimExclusive ==
  ASSUME ClientOps \cap Again = {}
  PROVE  Spec => []ExclusiveClaim
<1>1. ClaimInv => ExclusiveClaim
  BY DEF ClaimInv, Locked, ExclusiveClaim
<1>2. ClaimInv /\ OnlyInserts /\ [Next]_vars => ClaimInv' /\ OnlyInserts'
  BY ClaimStep, InsertsStep, InsertsAlone DEF ClaimInv
<1> QED
  BY <1>1, <1>2, ClaimInit, PTL DEF Spec

=============================================================================
