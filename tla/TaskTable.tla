----------------------------- MODULE TaskTable -----------------------------
(***************************************************************************)
(* The task table sbt_doctask and the statements digitalmysql.cpp runs on  *)
(* it.  Every operator below is one function of namespace digitalmysql:    *)
(* one connection, one SQL statement that changes rows, so one atomic step *)
(* of the callers in main.cpp.  Only the columns that steer the dispatcher *)
(* are kept: state, scannedtime and priority.                              *)
(*                                                                         *)
(* The claim key scannedtime is <time>_<GUID>, generated afresh for every  *)
(* scan.  What the dispatcher can observe of a key is whether it is empty, *)
(* whether it is the key of the scan a server is in the middle of, or      *)
(* whether it is left over from an earlier scan: None, the server, Stale.  *)
(***************************************************************************)
EXTENDS Naturals

CONSTANTS
  Tasks,        (* the task ids the sequence table may hand out            *)
  Servers,      (* the HttpServer processes that share the database        *)
  None,         (* no task (id 0), no server, empty scannedtime            *)
  Stale,        (* a claim key of an earlier scan                          *)
  RowDefault,   (* what column state holds between the INSERT and the      *)
                (* first setmergestate: the column's default               *)
  MaxPriority,  (* bound on priorities                                     *)
  Env           (* the circumstances this instance admits                  *)

RowStates == {"unborn", "deleted", "saved", "waiting", "merging", "success", "failed"}

Circumstances == {"config", "human", "net", "garbage", "audio", "spawn", "early",
                  "late", "db", "crash", "hasty", "impatient", "speechless"}

ASSUME TableAssumption ==
  /\ None \notin Tasks /\ None \notin Servers
  /\ Stale \notin Servers /\ Stale # None
  /\ RowDefault \in {"saved", "waiting", "merging", "success", "failed"}
  /\ MaxPriority \in Nat
  /\ Env \subseteq Circumstances

VARIABLES
  dbState,      (* column state; "unborn" is an id not handed out yet      *)
  scanned,      (* column scannedtime                                      *)
  priority      (* column priority                                         *)

table == <<dbState, scanned, priority>>

TableTypeOK ==
  /\ dbState \in [Tasks -> RowStates]
  /\ scanned \in [Tasks -> Servers \cup {None, Stale}]
  /\ priority \in [Tasks -> 0..MaxPriority]

TableInit ==
  /\ dbState = [t \in Tasks |-> "unborn"]
  /\ scanned = [t \in Tasks |-> None]
  /\ priority = [t \in Tasks |-> 0]

Exists(t) == t \in Tasks /\ dbState[t] \notin {"unborn", "deleted"}

(* Every call opens its own connection; when that fails the call returns   *)
(* false, changes nothing, and most callers ignore it.                     *)
DbFails == "db" \in Env

-----------------------------------------------------------------------------
(* The statements.                                                         *)

(* setmergestate: no row, id 0 or no connection leave the table alone.     *)
SetMergeState(t, v) ==
  /\ \/ Exists(t) /\ dbState' = [dbState EXCEPT ![t] = v]
     \/ ~Exists(t) /\ UNCHANGED dbState
     \/ DbFails /\ UNCHANGED dbState
  /\ UNCHANGED <<scanned, priority>>

(* Mutant of Scannable: the claim does not look at scannedtime.            *)
ScannableTaken == {t \in Tasks : dbState[t] = "waiting"}

(* The rows setscannedtime_nextrun may pick: waiting and not scanned.      *)
Scannable == {t \in Tasks : dbState[t] = "waiting" /\ scanned[t] = None}

Foremost(C) == {t \in C : \A u \in C : priority[u] <= priority[t]}

(* A new key is generated: rows carrying the server's previous one keep a  *)
(* key nobody looks for any more.                                          *)
Outdated(s) == [t \in Tasks |-> IF scanned[t] = s THEN Stale ELSE scanned[t]]

(* setscannedtime_nextrun: one UPDATE ... ORDER BY priority DESC LIMIT 1.  *)
ClaimNextRun(s, t) ==
  /\ t \in Foremost(Scannable)
  /\ scanned' = [Outdated(s) EXCEPT ![t] = s]
  /\ UNCHANGED <<dbState, priority>>

ClaimNothing(s) ==
  /\ Scannable = {} \/ DbFails
  /\ scanned' = Outdated(s)
  /\ UNCHANGED <<dbState, priority>>

(* gettaskinfo_nextrun: the rows with state=255 and this scan's key.       *)
ClaimedRows(s) == {t \in Tasks : dbState[t] = "waiting" /\ scanned[t] = s}

(* clearscannedtime_id.                                                    *)
ClearScannedTime(t) ==
  /\ \/ Exists(t) /\ scanned' = [scanned EXCEPT ![t] = None]
     \/ (~Exists(t) \/ DbFails) /\ UNCHANGED scanned
  /\ UNCHANGED <<dbState, priority>>

(* addtaskinfo, INSERT: a fresh id; the statement does not name state.     *)
InsertTask(t) ==
  /\ dbState[t] = "unborn"
  /\ dbState' = [dbState EXCEPT ![t] = RowDefault]
  /\ scanned' = [scanned EXCEPT ![t] = None]
  /\ priority' = [priority EXCEPT ![t] = 0]

(* addtaskinfo, UPDATE: scannedtime='' and priority=0, state untouched.    *)
UpdateTask(t) ==
  \/ /\ Exists(t)
     /\ scanned' = [scanned EXCEPT ![t] = None]
     /\ priority' = [priority EXCEPT ![t] = 0]
     /\ UNCHANGED dbState
  \/ (~Exists(t) \/ DbFails) /\ UNCHANGED table

(* deletetask_taskid.                                                      *)
DeleteTask(t) ==
  /\ \/ Exists(t) /\ dbState' = [dbState EXCEPT ![t] = "deleted"]
     \/ (~Exists(t) \/ DbFails) /\ UNCHANGED dbState
  /\ UNCHANGED <<scanned, priority>>

(* setpriority.                                                            *)
SetPriority(t, p) ==
  /\ \/ Exists(t) /\ priority' = [priority EXCEPT ![t] = p]
     \/ (~Exists(t) \/ DbFails) /\ UNCHANGED priority
  /\ UNCHANGED <<dbState, scanned>>
=============================================================================
