---------------------------- MODULE TaskDispatch ----------------------------
(***************************************************************************)
(* Dispatch of synthesis tasks (main.cpp, "VideoMake" part).               *)
(*                                                                         *)
(* Each HttpServer process runs one sender thread: it claims the next      *)
(* waiting row of sbt_doctask, offers the task to the TTS+W2L actors one   *)
(* after the other, and starts a receiver thread when an actor accepts.    *)
(* A receiver thread waits for the actor's result and settles the row.     *)
(* HTTP handler threads create, re-submit, save, delete and re-prioritise  *)
(* tasks at the same time.  All of them touch the table and the process's  *)
(* map Container_actortaskinfo.                                            *)
(***************************************************************************)
EXTENDS TaskTable, FiniteSets

CONSTANTS
  NumActors,    (* length of Container_TTSW2LActor, walked in map order    *)
  Threads,      (* slots for receiver threads alive at the same time       *)
  Handlers,     (* HTTP handler threads                                    *)
  ClientOps,    (* the requests clients send in this instance              *)
  MaxRequests   (* bound on the number of requests                         *)

Requests == {"make", "draft", "sync", "remake", "save", "resync", "remove", "priority"}

New == {"make", "draft", "sync"}         (* without a task id              *)
Again == {"remake", "save", "resync"}    (* the same for a known task      *)
Saving == {"draft", "save"}
Previewing == {"sync", "resync"}

ASSUME DispatchAssumption ==
  /\ NumActors \in Nat
  /\ ClientOps \subseteq Requests
  /\ MaxRequests \in Nat

Actors == 1..NumActors

VARIABLES
  memState,     (* Container_actortaskinfo[t].ActorTaskState, per server   *)
  memSock,      (* ... .ActorTaskSocket: the actor it leads to, 0 for -1   *)
  sndPc,        (* where the sender thread is                              *)
  sndTask,      (* find_actortaskitem.ActorTaskID, a loop local            *)
  sndActor,     (* itFindActor                                             *)
  sndFail,      (* nFailedAssignCnt                                        *)
  job,          (* the task an actor is synthesising                       *)
  thr,          (* receiver threads                                        *)
  hd,           (* HTTP handlers                                           *)
  notified,     (* the last state announced to the front end, per task     *)
  reqs          (* requests received so far                                *)

mem == <<memState, memSock>>
snd == <<sndPc, sndTask, sndActor, sndFail>>
vars == <<table, mem, snd, job, thr, hd, notified, reqs>>

SenderPcs == {"scan", "fetch", "loop", "send", "judge", "clear",
              "announce", "spawn", "mark", "socket"}
ThreadPcs == {"free", "start", "recv", "heard", "unheard", "fail", "notify"}
HandlerPcs == {"idle", "lookup", "write", "state", "sync", "run", "giveup"}

NoThread == [pc |-> "free", srv |-> None, for |-> None, task |-> None, sock |-> 0]
NoHandler == [pc |-> "idle", srv |-> None, op |-> "none", task |-> None]

ThreadRecords == [pc : ThreadPcs, srv : Servers \cup {None}, for : Tasks \cup {None},
                  task : Tasks \cup {None}, sock : 0..NumActors]
HandlerRecords == [pc : HandlerPcs, srv : Servers \cup {None},
                   op : Requests \cup {"none"}, task : Tasks \cup {None}]

TypeOK ==
  /\ TableTypeOK
  /\ memState \in [Servers -> [Tasks -> {"absent", "waiting", "running"}]]
  /\ memSock \in [Servers -> [Tasks -> 0..NumActors]]
  /\ sndPc \in [Servers -> SenderPcs]
  /\ sndTask \in [Servers -> Tasks \cup {None}]
  /\ sndActor \in [Servers -> 0..NumActors]
  /\ sndFail \in [Servers -> 0..NumActors]
  /\ job \in [Actors -> Tasks \cup {None}]
  /\ thr \in [Threads -> ThreadRecords]
  /\ hd \in [Handlers -> HandlerRecords]
  /\ notified \in [Tasks -> RowStates \cup {"none"}]
  /\ reqs \in 0..MaxRequests

Init ==
  /\ TableInit
  /\ memState = [s \in Servers |-> [t \in Tasks |-> "absent"]]
  /\ memSock = [s \in Servers |-> [t \in Tasks |-> 0]]
  /\ sndPc = [s \in Servers |-> "scan"]
  /\ sndTask = [s \in Servers |-> None]
  /\ sndActor = [s \in Servers |-> 0]
  /\ sndFail = [s \in Servers |-> 0]
  /\ job = [a \in Actors |-> None]
  /\ thr = [r \in Threads |-> NoThread]
  /\ hd = [h \in Handlers |-> NoHandler]
  /\ notified = [t \in Tasks |-> "none"]
  /\ reqs = 0

-----------------------------------------------------------------------------
(* Container_actortaskinfo.                                                *)

(* delete_actortask                                                        *)
EraseEntry(s, t) ==
  IF t \in Tasks
  THEN /\ memState' = [memState EXCEPT ![s][t] = "absent"]
       /\ memSock' = [memSock EXCEPT ![s][t] = 0]
  ELSE UNCHANGED mem

(* std::map::insert: an entry that is already there is kept as it is.      *)
InsertEntry(s, t) ==
  IF memState[s][t] = "absent"
  THEN /\ memState' = [memState EXCEPT ![s][t] = "waiting"]
       /\ memSock' = [memSock EXCEPT ![s][t] = 0]
  ELSE UNCHANGED mem

(* setstate_actortask(t, 0)                                                *)
MarkEntry(s, t) ==
  /\ memState' = IF memState[s][t] = "absent" THEN memState
                 ELSE [memState EXCEPT ![s][t] = "running"]
  /\ UNCHANGED memSock

(* getNotifyMsg_ToHtml + sendRabbitmqMsg: announce what the row says now.  *)
(* Without a row, or when it cannot be read, the message that is sent all  *)
(* the same names task 0 in state -1: it says nothing of t.                *)
Announce(t) ==
  \/ Exists(t) /\ notified' = [notified EXCEPT ![t] = dbState[t]]
  \/ (~Exists(t) \/ DbFails) /\ UNCHANGED notified

-----------------------------------------------------------------------------
(* The sender thread of server s.                                          *)

Goto(s, pc) == sndPc' = [sndPc EXCEPT ![s] = pc]

KeepSender == UNCHANGED <<sndTask, sndActor, sndFail>>

(* Its iterations are a second apart: a receiver thread has begun by then, *)
(* except when the system is slow ("late").                                *)
Rested(s) == "late" \in Env \/ \A r \in Threads : ~(thr[r].pc = "start" /\ thr[r].srv = s)

(* getactortask_nextrun, first half.  The loop local is constructed anew.  *)
Scan(s) ==
  /\ sndPc[s] = "scan" /\ Rested(s)
  /\ sndTask' = [sndTask EXCEPT ![s] = None]
  /\ \/ Goto(s, "fetch") /\ \E t \in Tasks : ClaimNextRun(s, t)
     \/ ClaimNothing(s) /\ UNCHANGED sndPc
  /\ UNCHANGED <<mem, sndActor, sndFail, job, thr, hd, notified, reqs>>

(* getactortask_nextrun, second half, and the insertion into the map.  A   *)
(* task whose digital human is missing is dropped with its key still set.  *)
Fetch(s) ==
  /\ sndPc[s] = "fetch"
  /\ \/ \E t \in ClaimedRows(s) :
          /\ sndTask' = [sndTask EXCEPT ![s] = t]
          /\ \/ /\ InsertEntry(s, t)
                /\ Goto(s, "loop")
                /\ sndActor' = [sndActor EXCEPT ![s] = 0]
                /\ sndFail' = [sndFail EXCEPT ![s] = 0]
             \/ /\ Env \cap {"human", "db"} # {}
                /\ Goto(s, "scan")
                /\ UNCHANGED <<mem, sndActor, sndFail>>
     \/ /\ ClaimedRows(s) = {} \/ DbFails
        /\ Goto(s, "scan")
        /\ KeepSender /\ UNCHANGED mem
  /\ UNCHANGED <<table, job, thr, hd, notified, reqs>>

(* Mutant of NextActor: the iterator runs one past the end.                *)
NextActorPastEnd(s) ==
  /\ sndPc[s] = "loop"
  /\ IF sndActor[s] <= NumActors
     THEN Goto(s, "send") /\ sndActor' = [sndActor EXCEPT ![s] = @ + 1]
     ELSE Goto(s, "clear") /\ UNCHANGED sndActor
  /\ UNCHANGED <<table, mem, sndTask, sndFail, job, thr, hd, notified, reqs>>

(* The head of the loop over the actors.                                   *)
NextActor(s) ==
  /\ sndPc[s] = "loop"
  /\ IF sndActor[s] < NumActors
     THEN Goto(s, "send") /\ sndActor' = [sndActor EXCEPT ![s] = @ + 1]
     ELSE Goto(s, "clear") /\ UNCHANGED sndActor
  /\ UNCHANGED <<table, mem, sndTask, sndFail, job, thr, hd, notified, reqs>>

Offering(s) == sndPc[s] = "send" /\ Exists(sndTask[s])

(* gettaskinfo or gethumaninfo fails: nothing is sent to this actor.       *)
SkipActor(s) ==
  /\ sndPc[s] = "send"
  /\ ~Exists(sndTask[s]) \/ Env \cap {"human", "db"} # {}
  /\ Goto(s, "judge") /\ KeepSender
  /\ UNCHANGED <<table, mem, job, thr, hd, notified, reqs>>

(* connect or send fails: the row is settled as failed.                    *)
SendFails(s) ==
  /\ Offering(s) /\ "net" \in Env
  /\ SetMergeState(sndTask[s], "failed")
  /\ Goto(s, "judge") /\ KeepSender
  /\ UNCHANGED <<mem, job, thr, hd, notified, reqs>>

(* No reply within three seconds; an idle actor may have taken the task.   *)
NoReply(s) ==
  /\ Offering(s) /\ "net" \in Env
  /\ \/ UNCHANGED job
     \/ /\ job[sndActor[s]] = None
        /\ job' = [job EXCEPT ![sndActor[s]] = sndTask[s]]
  /\ Goto(s, "judge") /\ KeepSender
  /\ UNCHANGED <<table, mem, thr, hd, notified, reqs>>

(* Codes 1 and 2.                                                          *)
ReplyConfigError(s) ==
  /\ Offering(s) /\ "config" \in Env
  /\ sndFail' = [sndFail EXCEPT ![s] = @ + 1]
  /\ Goto(s, "judge")
  /\ UNCHANGED <<table, mem, sndTask, sndActor, job, thr, hd, notified, reqs>>

(* Code 3 with the message id of the task the actor works on, which may be *)
(* the one kept in the map for it, or that of another dispatch of it.      *)
ReplyBusy(s) ==
  /\ Offering(s) /\ job[sndActor[s]] # None
  /\ MarkEntry(s, job[sndActor[s]]) \/ UNCHANGED mem
  /\ Goto(s, "judge") /\ KeepSender
  /\ UNCHANGED <<table, job, thr, hd, notified, reqs>>

(* Code 0, a result right away: dispose_recvmsg_recv ...                   *)
ReplyResult(s) ==
  /\ Offering(s) /\ "audio" \in Env
  /\ SetMergeState(sndTask[s], "success")
  /\ Goto(s, "announce") /\ KeepSender
  /\ UNCHANGED <<mem, job, thr, hd, notified, reqs>>

(* ... the notification, delete_actortask and the end of the loop.         *)
AnnounceResult(s) ==
  /\ sndPc[s] = "announce"
  /\ Announce(sndTask[s]) /\ EraseEntry(s, sndTask[s])
  /\ Goto(s, "scan") /\ KeepSender
  /\ UNCHANGED <<table, job, thr, hd, reqs>>

(* Code 1000: the actor takes the task; the row is merging.                *)
ReplyAccept(s) ==
  /\ Offering(s) /\ job[sndActor[s]] = None
  /\ job' = [job EXCEPT ![sndActor[s]] = sndTask[s]]
  /\ SetMergeState(sndTask[s], "merging")
  /\ Goto(s, "spawn") /\ KeepSender
  /\ UNCHANGED <<mem, thr, hd, notified, reqs>>

(* The notification and pthread_create, which gets the address of the loop *)
(* local.  A bound: the thread is created when one of the slots is free.   *)
Spawn(s) ==
  /\ sndPc[s] = "spawn"
  /\ Announce(sndTask[s])
  /\ \/ /\ \E r \in Threads :
             /\ thr[r].pc = "free"
             /\ thr' = [thr EXCEPT ![r] = [pc |-> "start", srv |-> s, for |-> sndTask[s],
                                           task |-> None, sock |-> 0]]
        /\ Goto(s, "mark")
     \/ "spawn" \in Env /\ Goto(s, "judge") /\ UNCHANGED thr
  /\ KeepSender
  /\ UNCHANGED <<table, mem, job, hd, reqs>>

(* setstate_actortask(t, 0)                                                *)
MarkRunning(s) ==
  /\ sndPc[s] = "mark"
  /\ MarkEntry(s, sndTask[s])
  /\ Goto(s, "socket") /\ KeepSender
  /\ UNCHANGED <<table, job, thr, hd, notified, reqs>>

(* Mutant of StoreSocket: bSuccessAssign is not set.                       *)
StoreSocketNoBreak(s) ==
  /\ sndPc[s] = "socket"
  /\ memSock' = IF memState[s][sndTask[s]] = "absent" THEN memSock
                ELSE [memSock EXCEPT ![s][sndTask[s]] = sndActor[s]]
  /\ Goto(s, "judge") /\ KeepSender
  /\ UNCHANGED <<table, memState, job, thr, hd, notified, reqs>>

(* setsocketfd_actortask; the task is assigned, the loop ends.             *)
StoreSocket(s) ==
  /\ sndPc[s] = "socket"
  /\ memSock' = IF memState[s][sndTask[s]] = "absent" THEN memSock
                ELSE [memSock EXCEPT ![s][sndTask[s]] = sndActor[s]]
  /\ Goto(s, "scan") /\ KeepSender
  /\ UNCHANGED <<table, memState, job, thr, hd, notified, reqs>>

(* After an actor did not take the task: give up when all refused it.      *)
Judge(s) ==
  /\ sndPc[s] = "judge"
  /\ IF sndFail[s] >= NumActors
     THEN EraseEntry(s, sndTask[s]) /\ Goto(s, "scan")
     ELSE Goto(s, "loop") /\ UNCHANGED mem
  /\ KeepSender
  /\ UNCHANGED <<table, job, thr, hd, notified, reqs>>

(* Mutant of Release: clearscannedtime_id is not called.                   *)
ReleaseKeepsKey(s) ==
  /\ sndPc[s] = "clear"
  /\ Goto(s, "scan") /\ KeepSender
  /\ UNCHANGED <<table, mem, job, thr, hd, notified, reqs>>

(* All actors were tried: the row may be scanned again.                    *)
Release(s) ==
  /\ sndPc[s] = "clear"
  /\ ClearScannedTime(sndTask[s])
  /\ Goto(s, "scan") /\ KeepSender
  /\ UNCHANGED <<mem, job, thr, hd, notified, reqs>>

(* delete_actortask_invalid, once in 3600 iterations.  Erasing while       *)
(* iterating may leave part of the entries in the map.                     *)
Purge(s) ==
  /\ sndPc[s] = "scan"
  /\ \E D \in SUBSET {t \in Tasks : memState[s][t] # "absent" /\ (~Exists(t) \/ DbFails)} :
       /\ D # {}
       /\ memState' = [memState EXCEPT ![s] =
                         [t \in Tasks |-> IF t \in D THEN "absent" ELSE memState[s][t]]]
       /\ memSock' = [memSock EXCEPT ![s] =
                         [t \in Tasks |-> IF t \in D THEN 0 ELSE memSock[s][t]]]
  /\ UNCHANGED <<table, snd, job, thr, hd, notified, reqs>>

Sender(s) ==
  \/ Scan(s) \/ Fetch(s) \/ NextActor(s) \/ SkipActor(s) \/ SendFails(s)
  \/ NoReply(s) \/ ReplyConfigError(s) \/ ReplyBusy(s) \/ ReplyResult(s)
  \/ AnnounceResult(s) \/ ReplyAccept(s) \/ Spawn(s) \/ MarkRunning(s)
  \/ StoreSocket(s) \/ Judge(s) \/ Release(s) \/ Purge(s)

-----------------------------------------------------------------------------
(* Receiver threads.                                                       *)

Become(r, pc) == thr' = [thr EXCEPT ![r].pc = pc]

(* The thread reads the task id through the pointer it was given: what the *)
(* sender's local holds now.  Then it looks the task up without the mutex. *)
ThreadStart(r) ==
  LET s == thr[r].srv
      t == sndTask[s]
  IN
  /\ thr[r].pc = "start"
  /\ "early" \in Env \/ sndPc[s] \notin {"mark", "socket"}
  /\ IF t # None /\ memState[s][t] = "running"
     THEN IF memSock[s][t] # 0
          THEN /\ thr' = [thr EXCEPT ![r].pc = "recv", ![r].task = t,
                                     ![r].sock = memSock[s][t]]
               /\ UNCHANGED mem
          ELSE /\ thr' = [thr EXCEPT ![r].pc = "fail", ![r].task = t]
               /\ EraseEntry(s, t)
     ELSE Become(r, "fail") /\ UNCHANGED mem
  /\ UNCHANGED <<table, snd, job, hd, notified, reqs>>

(* Mutant of ReceiveResult: an error code leaves the row as it is.         *)
ReceiveResultDropsError(r) ==
  /\ thr[r].pc = "recv"
  /\ job[thr[r].sock] = thr[r].task
  /\ job' = [job EXCEPT ![thr[r].sock] = None]
  /\ SetMergeState(thr[r].task, "success") \/ UNCHANGED table
  /\ Become(r, "heard")
  /\ UNCHANGED <<mem, snd, hd, notified, reqs>>

(* Mutant of ReceiveResult: the front end is told of the outcome as soon   *)
(* as it is recorded, while the thread still has its table entry.          *)
ReceiveResultTells(r) ==
  /\ thr[r].pc = "recv"
  /\ job[thr[r].sock] = thr[r].task
  /\ job' = [job EXCEPT ![thr[r].sock] = None]
  /\ SetMergeState(thr[r].task, "success") \/ SetMergeState(thr[r].task, "failed")
  /\ notified' = [notified EXCEPT ![thr[r].task] = dbState'[thr[r].task]]
  /\ Become(r, "heard")
  /\ UNCHANGED <<mem, snd, hd, reqs>>

(* RecvTcpMsg_PNPHDR returns the actor's result; dispose_recvmsg_recv      *)
(* settles the row, unless the message carries no code.                    *)
ReceiveResult(r) ==
  /\ thr[r].pc = "recv"
  /\ job[thr[r].sock] = thr[r].task
  /\ job' = [job EXCEPT ![thr[r].sock] = None]
  /\ \/ SetMergeState(thr[r].task, "success")
     \/ SetMergeState(thr[r].task, "failed")
     \/ "garbage" \in Env /\ UNCHANGED table
  /\ Become(r, "heard")
  /\ UNCHANGED <<mem, snd, hd, notified, reqs>>

(* The connection is lost, or a day has passed.                            *)
ReceiveNothing(r) ==
  /\ thr[r].pc = "recv"
  /\ "net" \in Env \/ job[thr[r].sock] # thr[r].task
  /\ Become(r, "unheard")
  /\ UNCHANGED <<table, mem, snd, job, hd, notified, reqs>>

(* Mutant of CloseTask: bRecvMessage is not looked at.                     *)
CloseTaskThenFail(r) ==
  /\ thr[r].pc \in {"heard", "unheard"}
  /\ EraseEntry(thr[r].srv, thr[r].task)
  /\ Become(r, "fail")
  /\ UNCHANGED <<table, snd, job, hd, notified, reqs>>

(* closesocket and delete_actortask.                                       *)
CloseTask(r) ==
  /\ thr[r].pc \in {"heard", "unheard"}
  /\ EraseEntry(thr[r].srv, thr[r].task)
  /\ Become(r, IF thr[r].pc = "heard" THEN "notify" ELSE "fail")
  /\ UNCHANGED <<table, snd, job, hd, notified, reqs>>

(* No task found or nothing received: the row is settled as failed.        *)
FailTask(r) ==
  /\ thr[r].pc = "fail"
  /\ SetMergeState(thr[r].task, "failed")
  /\ Become(r, "notify")
  /\ UNCHANGED <<mem, snd, job, hd, notified, reqs>>

(* Mutant of ThreadEnd: no notification.                                   *)
ThreadEndSilent(r) ==
  /\ thr[r].pc = "notify"
  /\ thr' = [thr EXCEPT ![r] = NoThread]
  /\ UNCHANGED <<table, mem, snd, job, hd, notified, reqs>>

(* The notification, and the end of the thread.                            *)
ThreadEnd(r) ==
  /\ thr[r].pc = "notify"
  /\ Announce(thr[r].task)
  /\ thr' = [thr EXCEPT ![r] = NoThread]
  /\ UNCHANGED <<table, mem, snd, job, hd, reqs>>

Receiver(r) ==
  \/ ThreadStart(r) \/ ReceiveResult(r) \/ ReceiveNothing(r)
  \/ CloseTask(r) \/ FailTask(r) \/ ThreadEnd(r)

(* An actor ends a job nobody listens to, or drops one ("net").            *)
Listened(a) ==
  \/ \E r \in Threads : thr[r].pc \in {"start", "recv"} /\ thr[r].for = job[a]
  \/ \E s \in Servers : sndPc[s] \in {"spawn", "mark", "socket"} /\ sndTask[s] = job[a]

ActorDrops(a) ==
  /\ job[a] # None
  /\ "net" \in Env \/ ~Listened(a)
  /\ job' = [job EXCEPT ![a] = None]
  /\ UNCHANGED <<table, mem, snd, thr, hd, notified, reqs>>

-----------------------------------------------------------------------------
(* HTTP handlers.                                                          *)

Await(h, pc, t) == hd' = [hd EXCEPT ![h].pc = pc, ![h].task = t]
Respond(h) == hd' = [hd EXCEPT ![h] = NoHandler]

(* The check made before a known task is written: getmergestate must say   *)
(* merging and, unless it is an audio task, this process's map as well.    *)
(* For a row that is not there getmergestate says merging, and so it does  *)
(* when it cannot connect; when its query fails, it does not.              *)
SaysMerging(t) ==
  {dbState[t] = "merging" \/ ~Exists(t)} \cup (IF DbFails THEN BOOLEAN ELSE {})

TaskRuns(s, t, audio, merging) == merging /\ (audio \/ memState[s][t] = "running")

(* When a client writes a task it knows again: after it was told that the  *)
(* task is settled; as soon as the row is settled ("hasty"); or at any     *)
(* time, even while another request writes it ("impatient").               *)
Settled(t) == dbState[t] \in {"success", "failed"}

Ready(t) ==
  \/ "impatient" \in Env
  \/ /\ \A h \in Handlers : hd[h].task # t
     /\ \/ dbState[t] \in {"saved", "deleted"}
        \/ Settled(t) /\ ("hasty" \in Env \/ notified[t] = dbState[t])

Accept(h, s, op, t, pc) ==
  hd' = [hd EXCEPT ![h] = [pc |-> pc, srv |-> s, op |-> op, task |-> t]]

(* VideoMake, SaveTask and the audio preview for a task without an id.     *)
RequestNew(h, s, op) ==
  /\ hd[h].pc = "idle" /\ reqs < MaxRequests
  /\ op \in ClientOps \cap New
  /\ Accept(h, s, op, None, "write")
  /\ reqs' = reqs + 1
  /\ UNCHANGED <<table, mem, snd, job, thr, notified>>

(* The same for a known id: rejected while the task runs.  SaveTask looks  *)
(* first whether the row is there, and writes a new task when it is not.   *)
RequestAgain(h, s, op, t, audio) ==
  /\ hd[h].pc = "idle" /\ reqs < MaxRequests
  /\ op \in ClientOps \cap Again
  /\ dbState[t] # "unborn"
  /\ Ready(t)
  /\ \/ \E merging \in SaysMerging(t) :
          /\ op # "save" \/ Exists(t)
          /\ IF TaskRuns(s, t, audio, merging)
             THEN UNCHANGED hd
             ELSE Accept(h, s, op, t, IF op = "save" THEN "write" ELSE "lookup")
     \/ op = "save" /\ (~Exists(t) \/ DbFails) /\ Accept(h, s, op, None, "write")
  /\ reqs' = reqs + 1
  /\ UNCHANGED <<table, mem, snd, job, thr, notified>>

(* VideoMake looks after its checks: a row that is gone is inserted anew.  *)
LookUp(h) ==
  /\ hd[h].pc = "lookup"
  /\ \/ Exists(hd[h].task) /\ Await(h, "write", hd[h].task)
     \/ (~Exists(hd[h].task) \/ DbFails) /\ Await(h, "write", None)
  /\ UNCHANGED <<table, mem, snd, job, thr, notified, reqs>>

(* addtaskinfo; its result is ignored.                                     *)
WriteRow(h) ==
  /\ hd[h].pc = "write"
  /\ IF hd[h].task = None
     THEN \/ \E t \in Tasks : InsertTask(t) /\ Await(h, "state", t)
          \/ DbFails /\ Await(h, "state", None) /\ UNCHANGED table
     ELSE UpdateTask(hd[h].task) /\ Await(h, "state", hd[h].task)
  /\ UNCHANGED <<mem, snd, job, thr, notified, reqs>>

(* setmergestate: 0xFE for SaveTask, 0xFF for VideoMake.  The front end    *)
(* has been told nothing about this submission yet.                        *)
WriteState(h) ==
  /\ hd[h].pc = "state"
  /\ notified' = [t \in Tasks |-> IF t = hd[h].task THEN "none" ELSE notified[t]]
  /\ SetMergeState(hd[h].task, IF hd[h].op \in Saving THEN "saved" ELSE "waiting")
  /\ IF hd[h].op \in Previewing THEN Await(h, "sync", hd[h].task) ELSE Respond(h)
  /\ UNCHANGED <<mem, snd, job, thr, reqs>>

(* Makesynch: the handler itself runs the task on the TTS actors.          *)
SyncStart(h) ==
  /\ hd[h].pc = "sync"
  /\ \/ Exists(hd[h].task) /\ SetMergeState(hd[h].task, "merging")
                           /\ Await(h, "run", hd[h].task)
     \/ (~Exists(hd[h].task) \/ DbFails) /\ Respond(h) /\ UNCHANGED table
  /\ UNCHANGED <<mem, snd, job, thr, notified, reqs>>

(* getjson_runtask_now on one TTS actor; after a failure the next is tried *)
(* until none is left.  A failed preview of a new audio task is deleted.   *)
GiveUp(h) == Respond(h) \/ (hd[h].op = "sync" /\ Await(h, "giveup", hd[h].task))

SyncRun(h) ==
  /\ hd[h].pc = "run"
  /\ \/ SetMergeState(hd[h].task, "success") /\ Respond(h)
     \/ SetMergeState(hd[h].task, "failed") /\ (UNCHANGED hd \/ GiveUp(h))
     \/ "speechless" \in Env /\ GiveUp(h) /\ UNCHANGED table
  /\ UNCHANGED <<mem, snd, job, thr, notified, reqs>>

SyncGiveUp(h) ==
  /\ hd[h].pc = "giveup"
  /\ DeleteTask(hd[h].task) /\ Respond(h)
  /\ UNCHANGED <<mem, snd, job, thr, notified, reqs>>

(* RemoveTask                                                              *)
RequestRemove(h, t) ==
  /\ hd[h].pc = "idle" /\ reqs < MaxRequests /\ "remove" \in ClientOps
  /\ DeleteTask(t)
  /\ reqs' = reqs + 1
  /\ UNCHANGED <<mem, snd, job, thr, hd, notified>>

(* UpdateTask; the copy of the priority in the map steers nothing.         *)
RequestPriority(h, t, p) ==
  /\ hd[h].pc = "idle" /\ reqs < MaxRequests /\ "priority" \in ClientOps
  /\ SetPriority(t, p)
  /\ reqs' = reqs + 1
  /\ UNCHANGED <<mem, snd, job, thr, hd, notified>>

Request(h) ==
  \/ \E s \in Servers, op \in Requests : RequestNew(h, s, op)
  \/ \E s \in Servers, op \in Requests, t \in Tasks, audio \in BOOLEAN :
       RequestAgain(h, s, op, t, audio)
  \/ \E t \in Tasks : RequestRemove(h, t)
  \/ \E t \in Tasks, p \in 0..MaxPriority : RequestPriority(h, t, p)

Handle(h) ==
  LookUp(h) \/ WriteRow(h) \/ WriteState(h) \/ SyncStart(h) \/ SyncRun(h) \/ SyncGiveUp(h)

-----------------------------------------------------------------------------
(* A server process ends and is started again: only the table survives.    *)
Crash(s) ==
  /\ "crash" \in Env
  /\ memState' = [memState EXCEPT ![s] = [t \in Tasks |-> "absent"]]
  /\ memSock' = [memSock EXCEPT ![s] = [t \in Tasks |-> 0]]
  /\ sndPc' = [sndPc EXCEPT ![s] = "scan"]
  /\ sndTask' = [sndTask EXCEPT ![s] = None]
  /\ sndActor' = [sndActor EXCEPT ![s] = 0]
  /\ sndFail' = [sndFail EXCEPT ![s] = 0]
  /\ thr' = [r \in Threads |-> IF thr[r].srv = s THEN NoThread ELSE thr[r]]
  /\ hd' = [h \in Handlers |-> IF hd[h].srv = s THEN NoHandler ELSE hd[h]]
  /\ scanned' = Outdated(s)
  /\ UNCHANGED <<dbState, priority, job, notified, reqs>>

Next ==
  \/ \E s \in Servers : Sender(s) \/ Crash(s)
  \/ \E r \in Threads : Receiver(r)
  \/ \E a \in Actors : ActorDrops(a)
  \/ \E h \in Handlers : Request(h) \/ Handle(h)

Spec == Init /\ [][Next]_vars

(* Threads that can run do run; clients, failures and crashes owe nothing. *)
Fairness ==
  /\ \A s \in Servers : WF_vars(Sender(s))
  /\ \A r \in Threads : WF_vars(Receiver(r))
  /\ \A a \in Actors : WF_vars(ActorDrops(a))
  /\ \A h \in Handlers : WF_vars(Handle(h))

FairSpec == Spec /\ Fairness

-----------------------------------------------------------------------------
(* Properties.                                                             *)

(* Server s may still offer task t to an actor, or release it.             *)
Contends(s, t) ==
  /\ sndTask[s] = t
  /\ sndPc[s] \in {"loop", "send", "judge", "clear", "announce", "spawn"}

(* The claim key locks the executor: no two servers work on dispatching    *)
(* the same task (getactortask_nextrun).                                   *)
ExclusiveClaim ==
  \A t \in Tasks : \A s1, s2 \in Servers :
    Contends(s1, t) /\ Contends(s2, t) => s1 = s2

(* Server s has claimed task t and has not let go of it.                   *)
Holds(s, t) ==
  \/ sndPc[s] = "fetch" /\ scanned[t] = s
  \/ Contends(s, t)

(* No sender and no receiver thread works on task t.                       *)
Free(t) ==
  /\ \A s \in Servers : ~Holds(s, t)
  /\ \A r \in Threads : thr[r].pc # "free" => thr[r].for # t

(* A request that is about to rewrite a known row rewrites one that nobody *)
(* works on and that is not queued: what a client is told of a task, it is *)
(* told after every thread that could still touch the row has let go of    *)
(* it (getNotifyMsg_ToHtml comes last in pthread_recvtask_thread).         *)
RewriteIsAlone ==
  \A h \in Handlers, t \in Tasks :
    hd[h].task = t /\ hd[h].pc \in {"lookup", "write"} =>
      \/ dbState[t] = "deleted"
      \/ Free(t) /\ dbState[t] \in {"saved", "success", "failed"}

(* A task is never being synthesised for two receiver threads at once.     *)
SingleExecution ==
  \A r1, r2 \in Threads :
    /\ thr[r1].pc = "recv" /\ thr[r2].pc = "recv"
    /\ thr[r1].task = thr[r2].task
    => r1 = r2

(* A waiting row that no scan can pick is in the hands of a sender: no     *)
(* task is left in the queue with its key set and nobody to clear it.      *)
NoStranded ==
  \A t \in Tasks : dbState[t] = "waiting" =>
    \/ scanned[t] = None
    \/ \E s \in Servers : Holds(s, t)

(* A merging row has somebody who will settle it: the sender that just set *)
(* it, a receiver thread, or the handler of a preview.                     *)
MergingIsWatched ==
  \A t \in Tasks : dbState[t] = "merging" =>
    \/ \E s \in Servers : sndTask[s] = t /\ sndPc[s] = "spawn"
    \/ \E r \in Threads : thr[r].for = t /\ thr[r].pc # "notify"
    \/ \E h \in Handlers : hd[h].task = t /\ hd[h].pc # "idle"

(* The check "task is running, please try again" keeps a known task that   *)
(* an actor is working on from being accepted for rewriting.               *)
RunningIsRejected ==
  [][\A h \in Handlers :
       hd[h].pc = "idle" /\ hd'[h].task # None => dbState[hd'[h].task] # "merging"]_vars

(* The front end has been told of every success, once the thread that      *)
(* recorded it is through.                                                 *)
SuccessIsAnnounced ==
  \A t \in Tasks : dbState[t] = "success" =>
    \/ notified[t] = "success"
    \/ \E s \in Servers : sndTask[s] = t /\ sndPc[s] = "announce"
    \/ \E r \in Threads : thr[r].task = t /\ thr[r].pc \in {"heard", "notify"}

(* A recorded success is only undone by a client.                          *)
SuccessIsFinal ==
  [][\A t \in Tasks : dbState[t] = "success" /\ dbState'[t] # "success" =>
       \E h \in Handlers : hd'[h] # hd[h] \/ reqs' # reqs]_vars

(* A receiver thread that found no task or received nothing has failed the *)
(* task it was created for.                                                *)
UnheardIsFailed ==
  [][\A r \in Threads : thr[r].pc = "fail" /\ thr'[r].pc = "notify" =>
       dbState'[thr[r].for] \in {"failed", "deleted"}]_vars

(* No row stays queued or merging for ever: it is settled, or its client   *)
(* deletes it (or keeps it as a draft).                                    *)
EventuallySettled ==
  \A t \in Tasks :
    dbState[t] \in {"waiting", "merging"} ~> dbState[t] \notin {"waiting", "merging"}
=============================================================================
