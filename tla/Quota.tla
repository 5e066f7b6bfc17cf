------------------------------- MODULE Quota -------------------------------
(***************************************************************************)
(* Remaining time.  An account may have videos made while the column       *)
(* remaintime of its root account ("租户") is positive, with a digital human *)
(* while the remaintime of that human is positive.  A finished video is    *)
(* subtracted from the root account (updateuserremaintime_taskid); orders  *)
(* (NewIndent) add to an account or set a human's time; UpdateUser writes  *)
(* a whole account row back; a thread of every server process takes a day  *)
(* from every human at four in the morning.  Each of these reads a column, *)
(* computes, and writes it over another connection.                        *)
(*                                                                         *)
(* Time amounts and the clock are counted in units that the constants      *)
(* choose; the day of the clock begins at 04:00.                           *)
(***************************************************************************)
EXTENDS Integers, FiniteSets

CONSTANTS
  Accounts, Root,     (* users; the root account of each                   *)
  Humans, Owner,      (* digital humans; the root account each belongs to  *)
  Servers,            (* server processes                                  *)
  Workers, Home,      (* HTTP handlers and receiver threads; their process *)
  None,
  Opening,            (* the columns there may be at first                 *)
  Costs,              (* lengths of videos                                 *)
  Appends,            (* amounts of time packages, which may be negative   *)
  Dates,              (* dates orders are made at and deadlines            *)
  YearTime, MonthTime, DayTime,  (* what gettimecount_interval takes each for *)
  IntMax,             (* the largest int                                   *)
  MaxIds,             (* account ids a query on humans names, 10 in the code *)
  Day, Hour, Sleep,   (* clock ticks of a day, an hour, a thread's sleep   *)
  Env,                (* circumstances admitted                            *)
  MaxOps, MaxDay,     (* bounds on the requests and on the days            *)
  MaxRestarts         (* bound on the restarts in the hour of four         *)

Circumstances == {"db", "crash", "fps"}
Columns == Accounts \cup Humans

ASSUME QuotaAssumption ==
  /\ Root \in [Accounts -> Accounts] /\ \A a \in Accounts : Root[Root[a]] = Root[a]
  /\ Owner \in [Humans -> {a \in Accounts : Root[a] = a}]
  /\ Home \in [Workers -> Servers]
  /\ Accounts \cap Humans = {} /\ None \notin Nat \cup Columns
  /\ Opening \subseteq [Columns -> Nat]
  /\ Costs \subseteq Nat /\ Appends \subseteq Int
  /\ Dates \subseteq [year : Nat, month : Nat, day : Nat]
  /\ {YearTime, MonthTime, DayTime, IntMax, MaxIds, MaxOps, MaxDay, MaxRestarts} \subseteq Nat
  /\ Day \in Nat /\ Hour \in Nat /\ Sleep \in Nat /\ Hour < Day
  /\ Env \subseteq Circumstances

(* The thread's sleep, with what a round may take on top of it, is shorter *)
(* than the hour it looks for: 3000 s against 3600 s.                      *)
ASSUME SleepAssumption == Sleep < Hour

VARIABLES
  remain,       (* column remaintime of sbt_userinfo and sbt_humansource   *)
  wk,           (* workers: what they do, between reading and writing      *)
  jobs,         (* videos accepted and not finished, per account           *)
  ops,          (* requests made so far                                    *)
  tod, day,     (* the clock: time since 04:00 and day                     *)
  ht,           (* pthread_sethumanremain_thread of each server            *)
  \* history
  granted,      (* time given to a column                                  *)
  taken,        (* time taken from it by packages of a negative amount     *)
  charged,      (* time used on it                                         *)
  waived,       (* the part of it that exceeded the balance                *)
  lost,         (* columns written with a value not computed from them     *)
  owed,         (* orders that are to change a column, by their numbers    *)
  raised,       (* orders whose column was changed                         *)
  listed,       (* orders recorded in sbt_indentinfo                       *)
  spent,        (* days a server's thread took from a human                *)
  handled,      (* the last day a server's thread went through the humans  *)
  restarts      (* restarts of a server within the hour of four            *)

accounts == <<jobs, ops>>
clock == <<tod, day>>
books == <<granted, taken, charged, waived, lost>>
orders == <<owed, raised, listed>>
daily == <<spent, handled, restarts>>
vars == <<remain, wk, accounts, clock, ht, books, orders, daily>>

IsRoot(a) == Root[a] = a
Children(a) == {c \in Accounts \ {a} : Root[c] = a}

(* Mutant of Less: nothing stops at 0.                                     *)
LessUnbounded(v, c) == v - c

(* Less(v, c): the subtraction that stops at 0.                            *)
Less(v, c) == IF v > c THEN v - c ELSE 0

(* max(0, atoi(text)): a value beyond an int wraps around; what is         *)
(* negative then counts as nothing.                                        *)
AsInt(v) == LET low == v % (2 * (IntMax + 1)) IN IF low > IntMax THEN 0 ELSE low

(* gettimecount_interval: each part of the dates is compared by itself.    *)
Interval(from, to) ==
  YearTime * Less(to.year, from.year)
    + MonthTime * Less(to.month, from.month)
    + DayTime * Less(to.day, from.day)

(* Whether getremaintime_human and setremaintime_human of account a find   *)
(* human h: a root names its children and then itself, but no more than    *)
(* MaxIds of them.                                                         *)
Reaches(a, h) ==
  Owner[h] = Root[a] /\ (IsRoot(a) => Cardinality(Children(a)) < MaxIds)

Fails == "db" \in Env

(* What a statement on human h by the ids of account a may find: when a    *)
(* look-up fails, the children or the parent of a are not among the ids.   *)
Finds(a, h) ==
  {Reaches(a, h)}
    \cup (IF Fails THEN {Owner[h] = Root[a]} \cup (IF IsRoot(a) THEN {} ELSE {FALSE}) ELSE {})

Free == [op |-> "idle", col |-> None, seen |-> 0, by |-> 0, no |-> 0]
Resting == [pc |-> "sleep", wait |-> 0, last |-> None, todo |-> {}, cur |-> None, seen |-> 0]

Init ==
  /\ remain \in Opening
  /\ wk = [w \in Workers |-> Free]
  /\ jobs = [a \in Accounts |-> 0]
  /\ ops = 0
  /\ tod \in Hour..Day - 1 /\ day = 0
  /\ ht = [s \in Servers |-> Resting]
  /\ granted = remain
  /\ taken = [c \in Columns |-> 0]
  /\ charged = [c \in Columns |-> 0]
  /\ waived = [c \in Columns |-> 0]
  /\ lost = {} /\ owed = {} /\ raised = {} /\ listed = {}
  /\ spent = [s \in Servers |-> [h \in Humans |-> 0]]
  /\ handled = [s \in Servers |-> 0]
  /\ restarts = [s \in Servers |-> 0]

-----------------------------------------------------------------------------
(* Steps of a worker                                                       *)
Idle(w) == wk[w].op = "idle"
Request == ops < MaxOps /\ ops' = ops + 1
Read(w, op, col, by, no) ==
  wk' = [wk EXCEPT ![w] = [op |-> op, col |-> col, seen |-> AsInt(remain[col]),
                           by |-> by, no |-> no]]
Finish(w) == wk' = [wk EXCEPT ![w] = Free]

(* A write of v to c, computed from the value seen.                        *)
Write(c, v, seen) ==
  /\ remain' = [remain EXCEPT ![c] = v]
  /\ lost' = IF remain[c] = seen THEN lost ELSE lost \cup {c}

(* Mutant of CheckUser: the account's own time counts.                     *)
CheckUserOwn(w, a) ==
  /\ Idle(w) /\ Request
  /\ AsInt(remain[a]) > 0
  /\ wk' = [wk EXCEPT ![w] = [Free EXCEPT !.op = "check", !.col = a]]
  /\ UNCHANGED <<remain, jobs, clock, ht, books, orders, daily>>

(* VideoMake: the root account must have time left ...                     *)
CheckUser(w, a) ==
  /\ Idle(w) /\ Request
  /\ AsInt(remain[Root[a]]) > 0
  /\ wk' = [wk EXCEPT ![w] = [Free EXCEPT !.op = "check", !.col = a]]
  /\ UNCHANGED <<remain, jobs, clock, ht, books, orders, daily>>

(* ... and then the human; a human that is not found, or not read, is a    *)
(* refusal, too.                                                           *)
CheckHuman(w, h) ==
  /\ wk[w].op = "check"
  /\ \E found \in Finds(wk[w].col, h) :
       \/ /\ found /\ AsInt(remain[h]) > 0
          /\ jobs' = [jobs EXCEPT ![wk[w].col] = @ + 1]
       \/ /\ ~found \/ AsInt(remain[h]) = 0 \/ Fails
          /\ UNCHANGED jobs
  /\ Finish(w)
  /\ UNCHANGED <<remain, ops, clock, ht, books, orders, daily>>

(* dispose_recvmsg_recv has settled a video of account a as a success;     *)
(* updateuserremaintime_taskid reads the root's time ...                   *)
ChargeRead(w, a, c) ==
  /\ Idle(w) /\ jobs[a] > 0
  /\ jobs' = [jobs EXCEPT ![a] = @ - 1]
  /\ \/ UNCHANGED ops /\ Read(w, "charge", Root[a], c, 0)
     \/ Fails /\ UNCHANGED <<ops, wk>>
  /\ UNCHANGED <<remain, clock, ht, books, orders, daily>>

(* Mutant of ChargeWrite: a balance that does not suffice is left alone.   *)
ChargeWriteIfEnough(w) ==
  LET c == wk[w].col
      v == IF wk[w].seen >= wk[w].by THEN wk[w].seen - wk[w].by ELSE wk[w].seen IN
  /\ wk[w].op = "charge"
  /\ \/ /\ Write(c, v, wk[w].seen)
        /\ charged' = [charged EXCEPT ![c] = @ + wk[w].by]
        /\ waived' = [waived EXCEPT ![c] = @ + Less(wk[w].by, wk[w].seen)]
     \/ Fails /\ UNCHANGED <<remain, lost, charged, waived>>
  /\ Finish(w)
  /\ UNCHANGED <<accounts, clock, ht, granted, taken, orders, daily>>

(* ... and writes the rest.  The result of the write is not looked at.     *)
ChargeWrite(w) ==
  LET c == wk[w].col
      v == Less(wk[w].seen, wk[w].by) IN
  /\ wk[w].op = "charge"
  /\ \/ /\ Write(c, v, wk[w].seen)
        /\ charged' = [charged EXCEPT ![c] = @ + wk[w].by]
        /\ waived' = [waived EXCEPT ![c] = @ + Less(wk[w].by, wk[w].seen)]
     \/ Fails /\ UNCHANGED <<remain, lost, charged, waived>>
  /\ Finish(w)
  /\ UNCHANGED <<accounts, clock, ht, granted, taken, orders, daily>>

(* NewIndent, type 4: the time of the account that is named, which need    *)
(* not be a root, is read ...                                              *)
AppendRead(w, a, n) ==
  /\ Idle(w) /\ Request
  /\ Read(w, "append", a, n, ops')
  /\ owed' = owed \cup {ops'}
  /\ UNCHANGED <<remain, jobs, clock, ht, books, raised, listed, daily>>

(* The order is carried out; addindentinfo comes next.                     *)
Record(w, no) == wk' = [wk EXCEPT ![w] = [Free EXCEPT !.op = "record", !.no = no]]

(* c gets seen + n; n is not checked, and neither is the sum.              *)
Append(c, seen, n) ==
  /\ Write(c, seen + n, seen)
  /\ granted' = [granted EXCEPT ![c] = @ + Less(n, 0)]
  /\ taken' = [taken EXCEPT ![c] = @ + Less(-n, 0)]

(* Mutants of AppendWrite: the root's column gets the account's total; and *)
(* an order is recorded even if the write failed.                          *)
AppendWriteToRoot(w) ==
  /\ wk[w].op = "append"
  /\ Append(Root[wk[w].col], wk[w].seen, wk[w].by)
  /\ raised' = raised \cup {wk[w].no}
  /\ Record(w, wk[w].no)
  /\ UNCHANGED <<accounts, clock, ht, charged, waived, owed, listed, daily>>

AppendWriteUnchecked(w) ==
  /\ wk[w].op = "append"
  /\ \/ /\ Append(wk[w].col, wk[w].seen, wk[w].by)
        /\ raised' = raised \cup {wk[w].no}
     \/ Fails /\ UNCHANGED <<remain, lost, granted, taken, raised>>
  /\ Record(w, wk[w].no)
  /\ UNCHANGED <<accounts, clock, ht, charged, waived, owed, listed, daily>>

(* ... and written increased; if that fails, or writing the deadline does, *)
(* nothing is recorded.                                                    *)
AppendWrite(w) ==
  /\ wk[w].op = "append"
  /\ \/ /\ Append(wk[w].col, wk[w].seen, wk[w].by)
        /\ raised' = raised \cup {wk[w].no}
        /\ Record(w, wk[w].no)
     \/ Fails /\ Finish(w) /\ UNCHANGED <<remain, lost, granted, taken, raised>>
  /\ UNCHANGED <<accounts, clock, ht, charged, waived, owed, listed, daily>>

(* Whether an order naming account a is to renew human h: the human is     *)
(* found by the ids of the root account, whatever look-up fails.           *)
Owed(a, h) == Reaches(Root[a], h) /\ (IsRoot(a) \/ ~Fails)

(* NewIndent, types 0 and 1: a human's time is set, whatever it was.  That *)
(* the human exists is all that is asked of it.  The statement is made for *)
(* the root of the account, or for the account if looking for its root     *)
(* fails; an UPDATE that finds no row succeeds all the same.               *)
Renew(w, a, h, from, to) ==
  LET v == Interval(from, to) IN
  /\ Idle(w) /\ Request
  /\ Record(w, ops')
  /\ owed' = IF Owed(a, h) THEN owed \cup {ops'} ELSE owed
  /\ \E r \in {Root[a]} \cup (IF Fails THEN {a} ELSE {}) : \E found \in Finds(r, h) :
       \/ /\ found
          /\ remain' = [remain EXCEPT ![h] = v]
          /\ granted' = [granted EXCEPT ![h] = v]
          /\ taken' = [taken EXCEPT ![h] = 0]
          /\ charged' = [charged EXCEPT ![h] = 0]
          /\ waived' = [waived EXCEPT ![h] = 0]
          /\ lost' = lost \ {h}
          /\ raised' = raised \cup {ops'}
       \/ ~found /\ UNCHANGED <<remain, books, raised>>
  /\ UNCHANGED <<jobs, clock, ht, listed, daily>>

(* NewIndent, types 2 and 3, which set a deadline only, and any other      *)
(* type, which matches no branch: nothing is changed here.                 *)
OtherIndent(w) ==
  /\ Idle(w) /\ Request
  /\ Record(w, ops')
  /\ UNCHANGED <<remain, jobs, clock, ht, books, orders, daily>>

(* addindentinfo, after the change.                                        *)
RecordIndent(w) ==
  /\ wk[w].op = "record"
  /\ \/ listed' = listed \cup {wk[w].no}
     \/ Fails /\ UNCHANGED listed
  /\ Finish(w)
  /\ UNCHANGED <<remain, accounts, clock, ht, books, owed, raised, daily>>

(* UpdateUser reads the row of an account and writes it back, with the     *)
(* time in it (getuserinfo takes it with atoll: no int here).              *)
EditRead(w, a) ==
  /\ Idle(w) /\ Request
  /\ wk' = [wk EXCEPT ![w] = [op |-> "edit", col |-> a, seen |-> remain[a], by |-> 0, no |-> 0]]
  /\ UNCHANGED <<remain, jobs, clock, ht, books, orders, daily>>

EditWrite(w) ==
  /\ wk[w].op = "edit"
  /\ \/ Write(wk[w].col, wk[w].seen, wk[w].seen)
     \/ Fails /\ UNCHANGED <<remain, lost>>
  /\ Finish(w)
  /\ UNCHANGED <<accounts, clock, ht, granted, taken, charged, waived, orders, daily>>

-----------------------------------------------------------------------------
(* pthread_sethumanremain_thread                                           *)

(* Time passes while every thread sleeps: a round ends within the tick it  *)
(* begins in.                                                              *)
Tick ==
  /\ \A s \in Servers : ht[s].pc = "sleep" /\ ht[s].wait > 0
  /\ ht' = [s \in Servers |-> [ht[s] EXCEPT !.wait = @ - 1]]
  /\ IF tod + 1 < Day
     THEN tod' = tod + 1 /\ UNCHANGED day
     ELSE day < MaxDay /\ tod' = 0 /\ day' = day + 1
  /\ UNCHANGED <<remain, wk, accounts, books, orders, daily>>

(* Mutant of Look: the day of the last round is not remembered.            *)
LookEachTime(s) ==
  /\ ht[s].pc = "sleep" /\ ht[s].wait = 0
  /\ IF tod < Hour
     THEN /\ ht' = [ht EXCEPT ![s].pc = "round", ![s].last = day,
                              ![s].todo = {h \in Humans : remain[h] > 0}]
          /\ handled' = [handled EXCEPT ![s] = day]
     ELSE ht' = [ht EXCEPT ![s].pc = "round"] /\ UNCHANGED handled
  /\ UNCHANGED <<remain, wk, accounts, clock, books, orders, spent, restarts>>

(* The thread looks at the clock; in the hour of four, and not yet on this *)
(* day, it asks for the humans with time left.                             *)
Look(s) ==
  /\ ht[s].pc = "sleep" /\ ht[s].wait = 0
  /\ IF tod < Hour /\ ht[s].last # day
     THEN /\ \E todo \in {{h \in Humans : remain[h] > 0}} \cup (IF Fails THEN {{}} ELSE {}) :
               ht' = [ht EXCEPT ![s].pc = "round", ![s].last = day, ![s].todo = todo]
          /\ handled' = [handled EXCEPT ![s] = day]
     ELSE ht' = [ht EXCEPT ![s].pc = "round"] /\ UNCHANGED handled
  /\ UNCHANGED <<remain, wk, accounts, clock, books, orders, spent, restarts>>

DayRead(s, h) ==
  /\ ht[s].pc = "round" /\ ht[s].cur = None /\ h \in ht[s].todo
  /\ \/ ht' = [ht EXCEPT ![s].todo = @ \ {h}, ![s].cur = h, ![s].seen = AsInt(remain[h])]
     \/ Fails /\ ht' = [ht EXCEPT ![s].todo = @ \ {h}]
  /\ UNCHANGED <<remain, wk, accounts, clock, books, orders, daily>>

DayWrite(s) ==
  LET h == ht[s].cur
      v == Less(ht[s].seen, DayTime) IN
  /\ ht[s].pc = "round" /\ h # None
  /\ \/ /\ Write(h, v, ht[s].seen)
        /\ charged' = [charged EXCEPT ![h] = @ + DayTime]
        /\ waived' = [waived EXCEPT ![h] = @ + Less(DayTime, ht[s].seen)]
        /\ spent' = [spent EXCEPT ![s][h] = @ + 1]
     \/ Fails /\ UNCHANGED <<remain, lost, charged, waived, spent>>
  /\ ht' = [ht EXCEPT ![s].cur = None, ![s].seen = 0]
  /\ UNCHANGED <<wk, accounts, clock, granted, taken, orders, handled, restarts>>

(* Mutant of Rest: the thread sleeps for an hour.                          *)
RestAnHour(s) ==
  /\ ht[s].pc = "round" /\ ht[s].todo = {} /\ ht[s].cur = None
  /\ \E wait \in {Hour, Hour + 1} :
       ht' = [ht EXCEPT ![s].pc = "sleep", ![s].wait = wait]
  /\ UNCHANGED <<remain, wk, accounts, clock, books, orders, daily>>

(* The round may have used up a part of the tick: the next look comes      *)
(* after the sleep or one tick later.                                      *)
Rest(s) ==
  /\ ht[s].pc = "round" /\ ht[s].todo = {} /\ ht[s].cur = None
  /\ \E wait \in {Sleep, Sleep + 1} :
       ht' = [ht EXCEPT ![s].pc = "sleep", ![s].wait = wait]
  /\ UNCHANGED <<remain, wk, accounts, clock, books, orders, daily>>

-----------------------------------------------------------------------------
(* A process ends and starts again; charging a video whose video_fps is    *)
(* still 0 divides by it, which ends the process, too.                     *)
Crash(s) ==
  /\ \/ "crash" \in Env
     \/ "fps" \in Env /\ \E w \in Workers : Home[w] = s /\ wk[w].op = "charge" /\ wk[w].seen > 0
  /\ wk' = [w \in Workers |-> IF Home[w] = s THEN Free ELSE wk[w]]
  /\ ht' = [ht EXCEPT ![s] = Resting]
  /\ IF tod < Hour
     THEN restarts[s] < MaxRestarts /\ restarts' = [restarts EXCEPT ![s] = @ + 1]
     ELSE UNCHANGED restarts
  /\ UNCHANGED <<remain, accounts, clock, books, orders, spent, handled>>

Work(w) ==
  \/ ChargeWrite(w) \/ AppendWrite(w) \/ OtherIndent(w) \/ RecordIndent(w) \/ EditWrite(w)
  \/ \E h \in Humans : CheckHuman(w, h)
  \/ \E a \in Accounts :
       \/ CheckUser(w, a) \/ EditRead(w, a)
       \/ \E c \in Costs : ChargeRead(w, a, c)
       \/ \E n \in Appends : AppendRead(w, a, n)
       \/ \E h \in Humans, from \in Dates, to \in Dates : Renew(w, a, h, from, to)

Daily(s) == Look(s) \/ DayWrite(s) \/ Rest(s) \/ \E h \in Humans : DayRead(s, h)

Next ==
  \/ Tick
  \/ \E w \in Workers : Work(w)
  \/ \E s \in Servers : Daily(s) \/ Crash(s)

Spec == Init /\ [][Next]_vars

-----------------------------------------------------------------------------
(* A column is below 0 only after a negative package, and never further    *)
(* than one package takes: reading counts a debt as nothing.               *)
Balances == {v \in Int : v >= 0 \/ \E n \in Appends : v >= n}

WorkerRecords ==
  [op : {"idle", "check", "charge", "append", "edit", "record"},
   col : Columns \cup {None}, seen : Balances, by : Int, no : 0..MaxOps]

ThreadRecords ==
  [pc : {"sleep", "round"}, wait : 0..Sleep + 1, last : {None} \cup 0..MaxDay,
   todo : SUBSET Humans, cur : Humans \cup {None}, seen : Nat]

(* Types; no human's time is below 0, and debts of accounts do not add up  *)
(* (main.cpp:5291, digitalmysql.cpp:1089, 1133).                           *)
TypeOK ==
  /\ remain \in [Columns -> Balances] /\ \A h \in Humans : remain[h] >= 0
  /\ wk \in [Workers -> WorkerRecords]
  /\ jobs \in [Accounts -> Nat] /\ ops \in 0..MaxOps
  /\ tod \in 0..Day - 1 /\ day \in 0..MaxDay
  /\ ht \in [Servers -> ThreadRecords]
  /\ granted \in [Columns -> Nat] /\ taken \in [Columns -> Nat]
  /\ charged \in [Columns -> Nat] /\ waived \in [Columns -> Nat]
  /\ lost \subseteq Columns
  /\ owed \subseteq 0..MaxOps /\ raised \subseteq 0..MaxOps /\ listed \subseteq 0..MaxOps
  /\ spent \in [Servers -> [Humans -> Nat]]
  /\ handled \in [Servers -> 0..MaxDay]
  /\ restarts \in [Servers -> 0..MaxRestarts]

(* No package takes more than an int holds: what is below wraps around and *)
(* reads as time.                                                          *)
DebtsFit == \A n \in Appends : n >= -(IntMax + 1)

(* No interleaving of charges, time packages, edits and crashes leaves an  *)
(* account with more time than it was given: a lost update may take or     *)
(* give back what was used, never more (main.cpp:5288-5292, 2608-2616).    *)
NothingFromNothing == DebtsFit => \A a \in Accounts : remain[a] <= granted[a]

(* An account under a root that was never given time has no video accepted *)
(* or charged, whatever its sub-accounts were given: the check and the     *)
(* charge both look at the root (main.cpp:4537, 2609).                     *)
NothingForNothing ==
  DebtsFit => \A a \in Accounts : granted[Root[a]] = 0 => jobs[a] = 0 /\ charged[Root[a]] = 0

(* The balance is what was given less what was taken and used, except that *)
(* nothing is used below 0, unless an update was lost: some writer had     *)
(* read the column before another changed it, or the column had outgrown   *)
(* an int or was below 0 when it was read.                                 *)
BalanceIsExact ==
  \A c \in Columns \ lost : remain[c] + taken[c] + charged[c] = granted[c] + waived[c]

(* A recorded order that was to change a column had changed it, even if    *)
(* statements fail and processes end: a time package, and a renewal for a  *)
(* human of the root account that is named, or of its root if nothing      *)
(* fails, as long as the query on humans names that root.  Other orders    *)
(* are recorded with nothing done (main.cpp:5199, 5321).                   *)
ListedWasRaised == listed \cap owed \subseteq raised

(* A server takes from a human at most one day per day ("每天04:00执行"),      *)
(* and one more for each time it is restarted in the hour of four: the     *)
(* thread remembers the day it worked on in a local (main.cpp:3309, 3317). *)
AtMostADayPerDay ==
  \A s \in Servers : \A h \in Humans : spent[s][h] <= day + restarts[s]

(* No day is skipped: when the hour of four is over every server's thread  *)
(* has gone through the humans, although it looks at the clock only every  *)
(* 3000 s and the hour has 3600.                                           *)
NoDaySkipped == tod >= Hour => \A s \in Servers : handled[s] = day
=============================================================================
