---------------------------- MODULE Quota_proofs ----------------------------
(* Theorems about Quota, for all accounts, humans, servers, amounts and    *)
(* clocks, and with failing statements and crashes.                        *)
EXTENDS Quota, TLAPS

(* What is read is no more than what is there; of a debt that fits an int  *)
(* it is nothing.                                                          *)
LEMMA AsIntBound ==
  ASSUME NEW v \in Int
  PROVE  /\ AsInt(v) \in Nat
         /\ v >= 0 => AsInt(v) <= v
         /\ v < 0 /\ v >= -(IntMax + 1) => AsInt(v) = 0
<1> DEFINE m == 2 * (IntMax + 1)
<1>1. m \in Nat /\ m > 0 /\ IntMax \in Nat
  BY QuotaAssumption
<1> HIDE DEF m
<1>2. v % m \in Nat
  BY <1>1, SMTT(20)
<1>3. v >= 0 => v % m <= v
  BY <1>1, SMTT(20)
<1>4. v < 0 /\ v >= -m => v % m = v + m
  BY <1>1, SMTT(20)
<1> QED
  BY <1>1, <1>2, <1>3, <1>4 DEF AsInt, m

LEMMA LessNat ==
  ASSUME NEW v \in Nat, NEW c \in Nat
  PROVE  Less(v, c) \in Nat /\ Less(v, c) <= v /\ v + Less(c, v) = Less(v, c) + c
  BY DEF Less

LEMMA IntervalNat ==
  ASSUME NEW from \in Dates, NEW to \in Dates
  PROVE  Interval(from, to) \in Nat
<1>1. /\ Less(to.year, from.year) \in Nat /\ Less(to.month, from.month) \in Nat
      /\ Less(to.day, from.day) \in Nat
  BY QuotaAssumption, LessNat
<1>2. YearTime \in Nat /\ MonthTime \in Nat /\ DayTime \in Nat
  BY QuotaAssumption
<1>3. \A m, n \in Nat : m * n \in Nat
  BY SMTT(20)
<1> HIDE DEF Less
<1>4. /\ YearTime * Less(to.year, from.year) \in Nat
      /\ MonthTime * Less(to.month, from.month) \in Nat
      /\ DayTime * Less(to.day, from.day) \in Nat
  BY <1>1, <1>2, <1>3
<1> QED
  BY <1>4 DEF Interval

-----------------------------------------------------------------------------
(* Types.  A worker between reading and writing has an account's column    *)
(* and, unless it takes the column as it is, no debt.                      *)

WorkerOK(r) ==
  /\ r.op \in {"check", "charge", "append", "edit"} => r.col \in Accounts
  /\ r.op \in {"charge", "append"} => r.seen \in Nat
  /\ r.op = "charge" => r.by \in Nat
  /\ r.op = "append" => r.by \in Appends

WorkersOK == \A w \in Workers : WorkerOK(wk[w])

TypeInv == TypeOK /\ WorkersOK

LEMMA Constants ==
  /\ Root \in [Accounts -> Accounts] /\ \A a \in Accounts : Root[Root[a]] = Root[a]
  /\ Accounts \subseteq Columns /\ Humans \subseteq Columns
  /\ \A c \in Accounts : c \notin Humans
  /\ None \notin Columns /\ None \notin Nat
  /\ Costs \subseteq Nat /\ Appends \subseteq Int
  /\ DayTime \in Nat /\ MaxOps \in Nat /\ MaxDay \in Nat /\ MaxRestarts \in Nat
  /\ Day \in Nat /\ Hour \in Nat /\ Sleep \in Nat /\ Hour < Day /\ Sleep < Hour
  BY QuotaAssumption, SleepAssumption DEF Columns

LEMMA BalanceTypes ==
  /\ Nat \subseteq Balances /\ Balances \subseteq Int
  /\ \A seen \in Nat, n \in Appends : seen + n \in Balances
  BY Constants DEF Balances

LEMMA FreeType == Free \in WorkerRecords
  BY Constants, BalanceTypes DEF Free, WorkerRecords

LEMMA RestingType == Resting \in ThreadRecords
  BY Constants DEF Resting, ThreadRecords

LEMMA TypeInit == Init => TypeInv
<1> SUFFICES ASSUME Init PROVE TypeInv
  OBVIOUS
<1>1. remain \in [Columns -> Nat] /\ remain \in [Columns -> Balances] /\ \A h \in Humans : remain[h] >= 0
  <2>1. remain \in [Columns -> Nat]
    BY QuotaAssumption DEF Init
  <2> QED
    BY <2>1, BalanceTypes, Constants
<1>2. tod \in 0..Day - 1 /\ 0 \in 0..MaxDay /\ 0 \in 0..MaxOps
  BY Constants DEF Init
<1>3. TypeOK
  BY <1>1, <1>2, FreeType, RestingType, Constants DEF Init, TypeOK
<1>4. WorkersOK
  BY DEF Init, WorkersOK, WorkerOK, Free
<1> QED
  BY <1>3, <1>4 DEF TypeInv

LEMMA WorkerType ==
  ASSUME TypeInv, NEW w \in Workers, NEW r \in WorkerRecords, wk' = [wk EXCEPT ![w] = r],
         WorkerOK(r)
  PROVE  wk' \in [Workers -> WorkerRecords] /\ WorkersOK'
  BY DEF TypeInv, TypeOK, WorkersOK

LEMMA FinishType ==
  ASSUME TypeInv, NEW w \in Workers, Finish(w)
  PROVE  wk' \in [Workers -> WorkerRecords] /\ WorkersOK'
<1>1. WorkerOK(Free)
  BY DEF Free, WorkerOK
<1> QED
  BY <1>1, FreeType, WorkerType DEF Finish

LEMMA RecordType ==
  ASSUME TypeInv, NEW w \in Workers, NEW no \in 0..MaxOps, Record(w, no)
  PROVE  wk' \in [Workers -> WorkerRecords] /\ WorkersOK'
<1> DEFINE r == [Free EXCEPT !.op = "record", !.no = no]
<1>1. r \in WorkerRecords /\ WorkerOK(r)
  BY FreeType DEF Free, WorkerRecords, WorkerOK
<1>2. wk' = [wk EXCEPT ![w] = r]
  BY DEF Record
<1> HIDE DEF r
<1> QED
  BY <1>1, <1>2, WorkerType

LEMMA ReadType ==
  ASSUME TypeInv, NEW w \in Workers, NEW op \in {"charge", "append"}, NEW c \in Accounts,
         NEW n \in Int, op = "charge" => n \in Nat, op = "append" => n \in Appends,
         NEW no \in 0..MaxOps, Read(w, op, c, n, no)
  PROVE  wk' \in [Workers -> WorkerRecords] /\ WorkersOK'
<1> DEFINE r == [op |-> op, col |-> c, seen |-> AsInt(remain[c]), by |-> n, no |-> no]
<1>1. remain[c] \in Int
  BY BalanceTypes, Constants DEF TypeInv, TypeOK
<1>2. AsInt(remain[c]) \in Nat /\ AsInt(remain[c]) \in Balances
  BY <1>1, AsIntBound, BalanceTypes
<1> HIDE DEF AsInt
<1>3. r \in WorkerRecords /\ WorkerOK(r)
  BY <1>2, Constants DEF WorkerRecords, WorkerOK
<1>4. wk' = [wk EXCEPT ![w] = r]
  BY DEF Read
<1> HIDE DEF r
<1> QED
  BY <1>3, <1>4, WorkerType

LEMMA WorkType ==
  ASSUME TypeInv, NEW w \in Workers, Work(w)
  PROVE  TypeInv'
<1> USE DEF TypeInv
<1>0. /\ wk[w] \in WorkerRecords /\ wk[w].seen \in Balances /\ wk[w].no \in 0..MaxOps
      /\ wk[w].op \in {"check", "charge", "append", "edit"} =>
           wk[w].col \in Accounts /\ wk[w].col \in Columns /\ wk[w].col \notin Humans
      /\ wk[w].op = "charge" => wk[w].seen \in Nat /\ wk[w].by \in Nat
      /\ wk[w].op = "append" => wk[w].seen \in Nat /\ wk[w].by \in Appends
  BY Constants DEF TypeOK, WorkersOK, WorkerOK, WorkerRecords
<1>a. ops < MaxOps => ops + 1 \in 0..MaxOps
  BY Constants DEF TypeOK
<1>1. ASSUME NEW a \in Accounts, CheckUser(w, a)
      PROVE  TypeInv'
  <2> DEFINE r == [Free EXCEPT !.op = "check", !.col = a]
  <2>1. r \in WorkerRecords /\ WorkerOK(r)
    BY FreeType, Constants DEF Free, WorkerRecords, WorkerOK
  <2>2. wk' = [wk EXCEPT ![w] = r]
    BY <1>1 DEF CheckUser
  <2> HIDE DEF r
  <2>3. wk' \in [Workers -> WorkerRecords] /\ WorkersOK'
    BY <2>1, <2>2, WorkerType
  <2> QED
    BY <1>1, <1>a, <2>3 DEF CheckUser, Request, TypeOK, clock, books, orders, daily
<1>2. ASSUME NEW h \in Humans, CheckHuman(w, h)
      PROVE  TypeInv'
  <2>1. jobs' \in [Accounts -> Nat]
    BY <1>0, <1>2 DEF CheckHuman, TypeOK
  <2> QED
    BY <1>2, <2>1, FinishType DEF CheckHuman, TypeOK, clock, books, orders, daily
<1>3. ASSUME NEW a \in Accounts, NEW c \in Costs, ChargeRead(w, a, c)
      PROVE  TypeInv'
  <2>1. Root[a] \in Accounts /\ c \in Nat /\ c \in Int /\ 0 \in 0..MaxOps
    BY Constants
  <2>2. wk' \in [Workers -> WorkerRecords] /\ WorkersOK'
    <3>1. CASE Read(w, "charge", Root[a], c, 0)
      BY <2>1, <3>1, ReadType
    <3>2. CASE UNCHANGED wk
      BY <3>2 DEF TypeOK, WorkersOK
    <3> QED
      BY <1>3, <3>1, <3>2 DEF ChargeRead
  <2> QED
    BY <1>3, <2>2 DEF ChargeRead, TypeOK, clock, books, orders, daily
<1>4. CASE ChargeWrite(w)
  <2>1. PICK c \in Accounts, v \in Nat, n \in Nat, l \in Nat :
          c = wk[w].col /\ v = Less(wk[w].seen, wk[w].by) /\ n = wk[w].by /\ l = Less(wk[w].by, wk[w].seen)
    BY <1>0, <1>4, LessNat DEF ChargeWrite
  <2>2. v \in Balances /\ c \in Columns /\ c \notin Humans
    BY BalanceTypes, Constants
  <2>3. \/ UNCHANGED <<remain, lost, charged, waived>>
        \/ /\ Write(c, v, wk[w].seen) /\ charged' = [charged EXCEPT ![c] = @ + n]
           /\ waived' = [waived EXCEPT ![c] = @ + l]
    BY <1>4, <2>1 DEF ChargeWrite
  <2>4. /\ remain' \in [Columns -> Balances] /\ (\A h \in Humans : remain'[h] >= 0)
        /\ lost' \subseteq Columns
        /\ charged' \in [Columns -> Nat] /\ waived' \in [Columns -> Nat]
    BY <2>2, <2>3, Constants DEF Write, TypeOK
  <2> QED
    BY <1>4, <2>4, FinishType DEF ChargeWrite, TypeOK, accounts, clock, orders, daily
<1>5. ASSUME NEW a \in Accounts, NEW n \in Appends, AppendRead(w, a, n)
      PROVE  TypeInv'
  <2>1. n \in Int /\ ops' \in 0..MaxOps
    BY <1>5, <1>a, Constants DEF AppendRead, Request
  <2>2. wk' \in [Workers -> WorkerRecords] /\ WorkersOK'
    BY <1>5, <2>1, ReadType DEF AppendRead
  <2> QED
    BY <1>5, <2>1, <2>2 DEF AppendRead, TypeOK, clock, books, daily
<1>6. CASE AppendWrite(w)
  <2>1. wk' \in [Workers -> WorkerRecords] /\ WorkersOK'
    BY <1>0, <1>6, FinishType, RecordType DEF AppendWrite
  <2>2. PICK c \in Accounts, v \in Balances, g \in Nat, d \in Nat :
          /\ c = wk[w].col /\ v = wk[w].seen + wk[w].by
          /\ g = Less(wk[w].by, 0) /\ d = Less(-wk[w].by, 0)
    <3>1. wk[w].col \in Accounts /\ wk[w].seen + wk[w].by \in Balances /\ wk[w].by \in Int
      BY <1>0, <1>6, BalanceTypes, Constants DEF AppendWrite
    <3>2. Less(wk[w].by, 0) \in Nat /\ Less(-wk[w].by, 0) \in Nat
      BY <3>1 DEF Less
    <3> QED
      BY <3>1, <3>2
  <2>3. CASE UNCHANGED <<remain, lost, granted, taken, raised>>
    BY <1>6, <2>1, <2>3 DEF AppendWrite, TypeOK, accounts, clock, daily
  <2>4. CASE Append(wk[w].col, wk[w].seen, wk[w].by) /\ raised' = raised \cup {wk[w].no}
    <3>1. /\ remain' = [remain EXCEPT ![c] = v] /\ lost' \subseteq lost \cup {c}
          /\ granted' = [granted EXCEPT ![c] = @ + g] /\ taken' = [taken EXCEPT ![c] = @ + d]
      BY <2>2, <2>4 DEF Append, Write
    <3>2. /\ remain' \in [Columns -> Balances] /\ (\A h \in Humans : remain'[h] >= 0)
          /\ lost' \subseteq Columns
          /\ granted' \in [Columns -> Nat] /\ taken' \in [Columns -> Nat]
      BY <3>1, Constants DEF TypeOK
    <3>3. raised' \subseteq 0..MaxOps
      BY <1>0, <2>4 DEF TypeOK
    <3> QED
      BY <1>6, <2>1, <3>2, <3>3 DEF AppendWrite, TypeOK, accounts, clock, daily
  <2> QED
    BY <1>6, <2>3, <2>4 DEF AppendWrite
<1>7. ASSUME NEW a \in Accounts, NEW h \in Humans, NEW from \in Dates, NEW to \in Dates,
             Renew(w, a, h, from, to)
      PROVE  TypeInv'
  <2>1. ops' \in 0..MaxOps /\ Interval(from, to) \in Nat /\ h \in Columns
    BY <1>7, <1>a, IntervalNat, Constants DEF Renew, Request
  <2>2. wk' \in [Workers -> WorkerRecords] /\ WorkersOK'
    BY <1>7, <2>1, RecordType DEF Renew
  <2>3. owed' \subseteq 0..MaxOps
    BY <1>7, <2>1 DEF Renew, TypeOK
  <2>4. CASE UNCHANGED <<remain, books, raised>>
    BY <1>7, <2>1, <2>2, <2>3, <2>4 DEF Renew, TypeOK, clock, books, daily
  <2>5. CASE /\ remain' = [remain EXCEPT ![h] = Interval(from, to)]
             /\ granted' = [granted EXCEPT ![h] = Interval(from, to)] /\ taken' = [taken EXCEPT ![h] = 0]
             /\ charged' = [charged EXCEPT ![h] = 0] /\ waived' = [waived EXCEPT ![h] = 0]
             /\ lost' = lost \ {h} /\ raised' = raised \cup {ops'}
    <3>1. PICK v \in Nat : v = Interval(from, to) /\ v \in Balances
      BY <2>1, BalanceTypes
    <3>2. /\ remain' \in [Columns -> Balances] /\ (\A x \in Humans : remain'[x] >= 0)
          /\ granted' \in [Columns -> Nat] /\ taken' \in [Columns -> Nat] /\ charged' \in [Columns -> Nat]
          /\ waived' \in [Columns -> Nat] /\ lost' \subseteq Columns /\ raised' \subseteq 0..MaxOps
      BY <2>1, <2>5, <3>1, Constants DEF TypeOK
    <3> QED
      BY <1>7, <2>1, <2>2, <2>3, <2>5, <3>2 DEF Renew, TypeOK, clock, daily
  <2> QED
    BY <1>7, <2>4, <2>5 DEF Renew
<1>11. CASE OtherIndent(w)
  <2>1. ops' \in 0..MaxOps
    BY <1>11, <1>a DEF OtherIndent, Request
  <2>2. wk' \in [Workers -> WorkerRecords] /\ WorkersOK'
    BY <1>11, <2>1, RecordType DEF OtherIndent
  <2> QED
    BY <1>11, <2>1, <2>2 DEF OtherIndent, TypeOK, clock, books, orders, daily
<1>8. CASE RecordIndent(w)
  BY <1>0, <1>8, FinishType DEF RecordIndent, TypeOK, accounts, clock, books, daily
<1>9. ASSUME NEW a \in Accounts, EditRead(w, a)
      PROVE  TypeInv'
  <2> DEFINE r == [op |-> "edit", col |-> a, seen |-> remain[a], by |-> 0, no |-> 0]
  <2>1. r \in WorkerRecords /\ WorkerOK(r)
    BY Constants DEF WorkerRecords, WorkerOK, TypeOK
  <2>2. wk' = [wk EXCEPT ![w] = r]
    BY <1>9 DEF EditRead
  <2> HIDE DEF r
  <2>3. wk' \in [Workers -> WorkerRecords] /\ WorkersOK'
    BY <2>1, <2>2, WorkerType
  <2> QED
    BY <1>9, <1>a, <2>3 DEF EditRead, Request, TypeOK, clock, books, orders, daily
<1>10. CASE EditWrite(w)
  <2>1. PICK c \in Accounts, v \in Balances : c = wk[w].col /\ v = wk[w].seen
    BY <1>0, <1>10 DEF EditWrite
  <2>2. /\ remain' \in [Columns -> Balances] /\ (\A h \in Humans : remain'[h] >= 0)
        /\ lost' \subseteq Columns
    <3>1. \/ remain' = [remain EXCEPT ![c] = v] /\ lost' \subseteq lost \cup {c}
          \/ UNCHANGED <<remain, lost>>
      BY <1>10, <2>1 DEF EditWrite, Write
    <3> QED
      BY <3>1, Constants DEF TypeOK
  <2> QED
    BY <1>10, <2>2, FinishType DEF EditWrite, TypeOK, accounts, clock, orders, daily
<1> QED
  BY <1>1, <1>2, <1>3, <1>4, <1>5, <1>6, <1>7, <1>8, <1>9, <1>10, <1>11 DEF Work

LEMMA ThreadType ==
  ASSUME TypeOK, NEW s \in Servers, NEW r \in ThreadRecords, ht' = [ht EXCEPT ![s] = r]
  PROVE  ht' \in [Servers -> ThreadRecords]
  BY DEF TypeOK

LEMMA DailyType ==
  ASSUME TypeInv, NEW s \in Servers, Daily(s)
  PROVE  TypeInv'
<1> USE DEF TypeInv
<1>0. ht[s] \in ThreadRecords /\ ht[s].seen \in Nat /\ ht[s].cur \in Humans \cup {None}
  BY DEF TypeOK, ThreadRecords
<1>1. CASE Look(s)
  <2>1. ASSUME NEW todo \in SUBSET Humans,
               ht' = [ht EXCEPT ![s].pc = "round", ![s].last = day, ![s].todo = todo]
        PROVE  ht' \in [Servers -> ThreadRecords]
    <3> DEFINE r == [ht[s] EXCEPT !.pc = "round", !.last = day, !.todo = todo]
    <3>1. r \in ThreadRecords
      BY <1>0 DEF ThreadRecords, TypeOK
    <3>2. ht' = [ht EXCEPT ![s] = r]
      BY <2>1
    <3> HIDE DEF r
    <3> QED
      BY <3>1, <3>2, ThreadType
  <2>2. ASSUME ht' = [ht EXCEPT ![s].pc = "round"]
        PROVE  ht' \in [Servers -> ThreadRecords]
    <3> DEFINE r == [ht[s] EXCEPT !.pc = "round"]
    <3>1. r \in ThreadRecords
      BY <1>0 DEF ThreadRecords
    <3>2. ht' = [ht EXCEPT ![s] = r]
      BY <2>2
    <3> HIDE DEF r
    <3> QED
      BY <3>1, <3>2, ThreadType
  <2>3. ht' \in [Servers -> ThreadRecords]
    <3>1. \/ \E todo \in SUBSET Humans :
               ht' = [ht EXCEPT ![s].pc = "round", ![s].last = day, ![s].todo = todo]
          \/ ht' = [ht EXCEPT ![s].pc = "round"]
      BY <1>1 DEF Look
    <3> QED
      BY <2>1, <2>2, <3>1
  <2> QED
    BY <1>1, <2>3 DEF Look, TypeOK, WorkersOK, accounts, clock, books, orders
<1>2. ASSUME NEW h \in Humans, DayRead(s, h)
      PROVE  TypeInv'
  <2>1. CASE ht' = [ht EXCEPT ![s].todo = @ \ {h}, ![s].cur = h, ![s].seen = AsInt(remain[h])]
    <3> DEFINE r == [ht[s] EXCEPT !.todo = @ \ {h}, !.cur = h, !.seen = AsInt(remain[h])]
    <3>1. AsInt(remain[h]) \in Nat
      <4>1. remain[h] \in Int
        BY BalanceTypes, Constants DEF TypeOK
      <4> QED
        BY <4>1, AsIntBound
    <3>2. r \in ThreadRecords
      BY <1>0, <3>1 DEF ThreadRecords
    <3>3. ht' = [ht EXCEPT ![s] = r]
      BY <2>1
    <3> HIDE DEF r
    <3> QED
      BY <1>2, <3>2, <3>3, ThreadType DEF DayRead, TypeOK, WorkersOK, accounts, clock, books, orders, daily
  <2>2. CASE ht' = [ht EXCEPT ![s].todo = @ \ {h}]
    <3> DEFINE r == [ht[s] EXCEPT !.todo = @ \ {h}]
    <3>1. r \in ThreadRecords
      BY <1>0 DEF ThreadRecords
    <3>2. ht' = [ht EXCEPT ![s] = r]
      BY <2>2
    <3> HIDE DEF r
    <3> QED
      BY <1>2, <3>1, <3>2, ThreadType DEF DayRead, TypeOK, WorkersOK, accounts, clock, books, orders, daily
  <2> QED
    BY <1>2, <2>1, <2>2 DEF DayRead
<1>3. CASE DayWrite(s)
  <2> DEFINE r == [ht[s] EXCEPT !.cur = None, !.seen = 0]
  <2>1. r \in ThreadRecords
    BY <1>0 DEF ThreadRecords
  <2>2. ht' = [ht EXCEPT ![s] = r]
    BY <1>3 DEF DayWrite
  <2> HIDE DEF r
  <2>3. ht' \in [Servers -> ThreadRecords]
    BY <2>1, <2>2, ThreadType
  <2>4. PICK h \in Humans : h = ht[s].cur
    BY <1>0, <1>3 DEF DayWrite
  <2>5. h \in Columns /\ Less(ht[s].seen, DayTime) \in Nat /\ Less(DayTime, ht[s].seen) \in Nat
    BY <1>0, LessNat, Constants
  <2>6. /\ remain' \in [Columns -> Balances] /\ (\A x \in Humans : remain'[x] >= 0)
        /\ charged' \in [Columns -> Nat]
        /\ waived' \in [Columns -> Nat] /\ lost' \subseteq Columns
    <3>1. PICK v \in Nat, d \in Nat, l \in Nat :
            v = Less(ht[s].seen, DayTime) /\ d = DayTime /\ l = Less(DayTime, ht[s].seen)
      BY <2>5, Constants
    <3>2. CASE UNCHANGED <<remain, lost, charged, waived>>
      BY <3>2 DEF TypeOK
    <3>3. CASE /\ Write(h, v, ht[s].seen) /\ charged' = [charged EXCEPT ![h] = @ + d]
               /\ waived' = [waived EXCEPT ![h] = @ + l]
      BY <2>5, <3>3, BalanceTypes, Constants DEF Write, TypeOK
    <3> QED
      BY <1>3, <2>4, <3>1, <3>2, <3>3 DEF DayWrite
  <2>7. spent' \in [Servers -> [Humans -> Nat]]
    <3>1. CASE spent' = [spent EXCEPT ![s][h] = @ + 1]
      <4>1. [spent[s] EXCEPT ![h] = @ + 1] \in [Humans -> Nat]
        BY DEF TypeOK
      <4>2. spent' = [spent EXCEPT ![s] = [spent[s] EXCEPT ![h] = @ + 1]]
        BY <3>1
      <4> QED
        BY <4>1, <4>2 DEF TypeOK
    <3> QED
      BY <1>3, <2>4, <3>1 DEF DayWrite, TypeOK
  <2> QED
    BY <1>3, <2>3, <2>6, <2>7 DEF DayWrite, TypeOK, WorkersOK, accounts, clock, orders
<1>4. CASE Rest(s)
  <2>1. PICK wait \in {Sleep, Sleep + 1} : ht' = [ht EXCEPT ![s].pc = "sleep", ![s].wait = wait]
    BY <1>4 DEF Rest
  <2> DEFINE r == [ht[s] EXCEPT !.pc = "sleep", !.wait = wait]
  <2>2. r \in ThreadRecords
    <3>1. wait \in 0..Sleep + 1
      BY Constants
    <3> QED
      BY <1>0, <3>1 DEF ThreadRecords
  <2>3. ht' = [ht EXCEPT ![s] = r]
    BY <2>1
  <2> HIDE DEF r
  <2> QED
    BY <1>4, <2>2, <2>3, ThreadType DEF Rest, TypeOK, WorkersOK, accounts, clock, books, orders, daily
<1> QED
  BY <1>1, <1>2, <1>3, <1>4 DEF Daily

LEMMA TypeStep ==
  ASSUME TypeInv, [Next]_vars
  PROVE  TypeInv'
<1> USE DEF TypeInv
<1>1. CASE UNCHANGED vars
  BY <1>1 DEF vars, accounts, clock, books, orders, daily, TypeOK, WorkersOK
<1>2. CASE Tick
  <2>1. ASSUME NEW s \in Servers
        PROVE  [ht[s] EXCEPT !.wait = @ - 1] \in ThreadRecords
    <3>1. ht[s] \in ThreadRecords /\ ht[s].wait > 0
      BY <1>2 DEF Tick, TypeOK
    <3>2. ht[s].wait - 1 \in 0..Sleep + 1
      BY <3>1, Constants DEF ThreadRecords
    <3> QED
      BY <3>1, <3>2 DEF ThreadRecords
  <2>2. ht' \in [Servers -> ThreadRecords]
    BY <1>2, <2>1 DEF Tick
  <2>3. tod' \in 0..Day - 1 /\ day' \in 0..MaxDay
    BY <1>2, Constants DEF Tick, TypeOK
  <2> QED
    BY <1>2, <2>2, <2>3 DEF Tick, TypeOK, WorkersOK, accounts, books, orders, daily
<1>3. ASSUME NEW s \in Servers, Crash(s)
      PROVE  TypeInv'
  <2>1. wk' \in [Workers -> WorkerRecords] /\ WorkersOK'
    <3>1. WorkerOK(Free)
      BY DEF WorkerOK, Free
    <3> QED
      BY <1>3, <3>1, FreeType DEF Crash, TypeOK, WorkersOK
  <2>2. ht' \in [Servers -> ThreadRecords]
    BY <1>3, RestingType, ThreadType DEF Crash
  <2> QED
    <3>1. restarts' \in [Servers -> 0..MaxRestarts]
      <4>1. CASE tod < Hour
        <5>1. restarts[s] + 1 \in 0..MaxRestarts
          BY <1>3, <4>1, Constants DEF Crash, TypeOK
        <5> QED
          BY <1>3, <4>1, <5>1 DEF Crash, TypeOK
      <4>2. CASE ~(tod < Hour)
        BY <1>3, <4>2 DEF Crash, TypeOK
      <4> QED
        BY <4>1, <4>2
    <3> QED
      BY <1>3, <2>1, <2>2, <3>1 DEF Crash, TypeOK, accounts, clock, books, orders
<1> QED
  BY <1>1, <1>2, <1>3, WorkType, DailyType DEF Next

(* Types.  No human's time is ever below 0, and an account's is so only     *)
(* after a negative package, never by more than one package takes.         *)
THEOREM TypeCorrect == Spec => []TypeOK
<1>1. TypeInv => TypeOK
  BY DEF TypeInv
<1> QED
  BY <1>1, TypeInit, TypeStep, PTL DEF Spec

-----------------------------------------------------------------------------
(* What steps do to the columns, and what workers learn from them          *)

Took(c, seen, n) ==
  /\ Write(c, Less(seen, n), seen) /\ UNCHANGED <<granted, taken>>
  /\ charged' = [charged EXCEPT ![c] = @ + n]
  /\ waived' = [waived EXCEPT ![c] = @ + Less(n, seen)]

Gave(c, seen, n) == Append(c, seen, n) /\ UNCHANGED <<charged, waived>>

Renewed(h, v) ==
  /\ remain' = [remain EXCEPT ![h] = v] /\ granted' = [granted EXCEPT ![h] = v]
  /\ taken' = [taken EXCEPT ![h] = 0] /\ charged' = [charged EXCEPT ![h] = 0] /\ waived' = [waived EXCEPT ![h] = 0]
  /\ lost' = lost \ {h}

Wrote(c, seen) == Write(c, seen, seen) /\ UNCHANGED <<granted, taken, charged, waived>>

BookSteps ==
  \/ UNCHANGED <<remain, books>>
  \/ \E w \in Workers : wk[w].op = "charge" /\ Took(wk[w].col, wk[w].seen, wk[w].by)
  \/ \E w \in Workers : wk[w].op = "append" /\ Gave(wk[w].col, wk[w].seen, wk[w].by)
  \/ \E w \in Workers : wk[w].op = "edit" /\ Wrote(wk[w].col, wk[w].seen)
  \/ \E h \in Humans, v \in Nat : Renewed(h, v)
  \/ \E h \in Humans, seen \in Nat : Took(h, seen, DayTime)

LEMMA BookStep ==
  ASSUME TypeInv, [Next]_vars
  PROVE  BookSteps
<1>1. ASSUME NEW w \in Workers, NEW a \in Accounts, NEW h \in Humans, NEW from \in Dates,
             NEW to \in Dates, Renew(w, a, h, from, to)
      PROVE  BookSteps
  <2>1. UNCHANGED <<remain, books>> \/ Renewed(h, Interval(from, to))
    BY <1>1 DEF Renew, Renewed
  <2> QED
    BY <2>1, IntervalNat DEF BookSteps
<1>2. ASSUME NEW w \in Workers, ChargeWrite(w) \/ AppendWrite(w) \/ EditWrite(w)
      PROVE  BookSteps
  <2>1. CASE ChargeWrite(w)
    BY <2>1 DEF ChargeWrite, Took, BookSteps, books
  <2>2. CASE AppendWrite(w)
    BY <2>2 DEF AppendWrite, Gave, BookSteps, books
  <2>3. CASE EditWrite(w)
    BY <2>3 DEF EditWrite, Wrote, BookSteps, books
  <2> QED
    BY <1>2, <2>1, <2>2, <2>3
<1>3. ASSUME NEW s \in Servers, DayWrite(s)
      PROVE  BookSteps
  <2>1. ht[s].seen \in Nat /\ ht[s].cur \in Humans \cup {None}
    BY DEF TypeInv, TypeOK, ThreadRecords
  <2> QED
    BY <1>3, <2>1 DEF DayWrite, Took, BookSteps, books
<1>4. ASSUME NEW w \in Workers, NEW a, NEW n,
             \/ CheckUser(w, a) \/ CheckHuman(w, a) \/ ChargeRead(w, a, n)
             \/ AppendRead(w, a, n) \/ EditRead(w, a) \/ OtherIndent(w) \/ RecordIndent(w)
      PROVE  BookSteps
  BY <1>4 DEF CheckUser, CheckHuman, ChargeRead, AppendRead, EditRead, OtherIndent, RecordIndent,
              BookSteps
<1>5. ASSUME NEW s \in Servers, Look(s) \/ Rest(s) \/ Crash(s) \/ \E h \in Humans : DayRead(s, h)
      PROVE  BookSteps
  BY <1>5 DEF Look, Rest, Crash, DayRead, BookSteps
<1>6. CASE Tick \/ UNCHANGED vars
  BY <1>6 DEF Tick, vars, BookSteps
<1>7. ASSUME NEW w \in Workers, Work(w)
      PROVE  BookSteps
  BY <1>1, <1>2, <1>4, <1>7 DEF Work
<1>8. ASSUME NEW s \in Servers, Daily(s) \/ Crash(s)
      PROVE  BookSteps
  BY <1>3, <1>5, <1>8 DEF Daily
<1> QED
  BY <1>6, <1>7, <1>8 DEF Next

(* A worker that has just read a column did so in a step that leaves the   *)
(* columns alone.                                                          *)
WorkerSteps(w) ==
  \/ wk'[w] = wk[w]
  \/ wk'[w].op \in {"idle", "record"}
  \/ /\ UNCHANGED <<remain, books>>
     /\ \/ wk'[w].op = "check" /\ AsInt(remain[Root[wk'[w].col]]) > 0
        \/ /\ wk'[w].op = "charge" /\ wk'[w].seen = AsInt(remain[wk'[w].col])
           /\ \E a \in Accounts : jobs[a] > 0 /\ wk'[w].col = Root[a]
        \/ wk'[w].op = "append" /\ wk'[w].seen = AsInt(remain[wk'[w].col])
        \/ wk'[w].op = "edit" /\ wk'[w].seen = remain[wk'[w].col]

LEMMA WorkerStep ==
  ASSUME TypeInv, [Next]_vars, NEW w \in Workers
  PROVE  WorkerSteps(w)
<1>0. wk \in [Workers -> WorkerRecords] /\ Free.op = "idle" /\ [Free EXCEPT !.op = "record"].op = "record"
  BY DEF TypeInv, TypeOK, Free
<1>1. CASE UNCHANGED wk
  BY <1>1 DEF WorkerSteps
<1>2. ASSUME NEW v \in Workers, Work(v)
      PROVE  WorkerSteps(w)
  <2>1. ASSUME Finish(v) PROVE WorkerSteps(w)
    BY <1>0, <2>1 DEF Finish, WorkerSteps
  <2>2. ASSUME NEW no, Record(v, no) PROVE WorkerSteps(w)
    BY <1>0, <2>2 DEF Record, WorkerSteps, Free
  <2>3. CASE OtherIndent(v) \/ RecordIndent(v) \/ ChargeWrite(v) \/ AppendWrite(v) \/ EditWrite(v)
    BY <2>1, <2>2, <2>3 DEF OtherIndent, RecordIndent, ChargeWrite, AppendWrite, EditWrite
  <2>4. ASSUME NEW h \in Humans, CheckHuman(v, h) PROVE WorkerSteps(w)
    BY <2>1, <2>4 DEF CheckHuman
  <2>5. ASSUME NEW a \in Accounts, CheckUser(v, a) PROVE WorkerSteps(w)
    BY <1>0, <2>5 DEF CheckUser, WorkerSteps, Free
  <2>6. ASSUME NEW a \in Accounts, EditRead(v, a) PROVE WorkerSteps(w)
    BY <1>0, <2>6 DEF EditRead, WorkerSteps
  <2>7. ASSUME NEW a \in Accounts, NEW c \in Costs, ChargeRead(v, a, c) PROVE WorkerSteps(w)
    BY <1>0, <1>1, <2>7 DEF ChargeRead, Read, WorkerSteps
  <2>8. ASSUME NEW a \in Accounts, NEW n \in Appends, AppendRead(v, a, n) PROVE WorkerSteps(w)
    BY <1>0, <2>8 DEF AppendRead, Read, WorkerSteps
  <2>9. ASSUME NEW a \in Accounts, NEW h \in Humans, NEW from \in Dates, NEW to \in Dates,
               Renew(v, a, h, from, to)
        PROVE  WorkerSteps(w)
    BY <2>2, <2>9 DEF Renew
  <2> QED
    BY <1>2, <2>3, <2>4, <2>5, <2>6, <2>7, <2>8, <2>9 DEF Work
<1>3. ASSUME NEW s \in Servers, Crash(s)
      PROVE  WorkerSteps(w)
  BY <1>0, <1>3 DEF Crash, WorkerSteps
<1>4. ASSUME NEW s \in Servers, Daily(s)
      PROVE  UNCHANGED wk
  BY <1>4 DEF Daily, Look, DayRead, DayWrite, Rest
<1> QED
  BY <1>1, <1>2, <1>3, <1>4 DEF Next, Tick, vars

-----------------------------------------------------------------------------
(* Nothing from nothing                                                    *)

(* Who will write an account's column has seen no more than was given.     *)
SeenInv ==
  \A w \in Workers :
    wk[w].op \in {"charge", "append", "edit"} => wk[w].seen <= granted[wk[w].col]

GivenInv == TypeInv /\ (DebtsFit => NothingFromNothing /\ SeenInv)

(* What is read of a column that holds no more than was given is no more   *)
(* than was given, if debts fit an int.                                    *)
LEMMA ReadLess ==
  ASSUME TypeInv, DebtsFit, NEW a \in Accounts, remain[a] <= granted[a]
  PROVE  AsInt(remain[a]) \in Nat /\ AsInt(remain[a]) <= granted[a]
<1>1. remain[a] \in Balances /\ granted[a] \in Nat
  BY Constants DEF TypeInv, TypeOK
<1>2. remain[a] \in Int /\ (remain[a] < 0 => remain[a] >= -(IntMax + 1))
  <2>1. IntMax \in Nat /\ Appends \subseteq Int
    BY QuotaAssumption
  <2>2. remain[a] \in Int
    BY <1>1, BalanceTypes
  <2>3. ASSUME remain[a] < 0
        PROVE  remain[a] >= -(IntMax + 1)
    <3>1. PICK n \in Appends : remain[a] >= n
      BY <1>1, <2>2, <2>3 DEF Balances
    <3>2. n >= -(IntMax + 1) /\ n \in Int
      BY <2>1 DEF DebtsFit
    <3> QED
      BY <2>1, <2>2, <3>1, <3>2
  <2> QED
    BY <2>2, <2>3
<1>3. /\ AsInt(remain[a]) \in Nat
      /\ remain[a] >= 0 => AsInt(remain[a]) <= remain[a]
      /\ remain[a] < 0 => AsInt(remain[a]) = 0
  BY <1>2, AsIntBound
<1> QED
  BY <1>1, <1>2, <1>3

LEMMA GivenStep ==
  ASSUME GivenInv, [Next]_vars
  PROVE  GivenInv'
<1> SUFFICES ASSUME DebtsFit PROVE GivenInv'
  <2>1. DebtsFit' <=> DebtsFit
    BY DEF DebtsFit
  <2>2. TypeInv'
    BY TypeStep DEF GivenInv
  <2> QED
    BY <2>1, <2>2 DEF GivenInv
<1> USE DEF GivenInv
<1>0. /\ TypeInv /\ TypeInv' /\ TypeOK /\ WorkersOK /\ NothingFromNothing /\ SeenInv
      /\ remain \in [Columns -> Int] /\ granted \in [Columns -> Nat]
      /\ remain' \in [Columns -> Int] /\ granted' \in [Columns -> Nat]
      /\ \A a \in Accounts : remain[a] <= granted[a]
  BY TypeStep, BalanceTypes DEF TypeInv, TypeOK, NothingFromNothing
<1>1. ASSUME NEW w \in Workers
      PROVE  /\ wk[w].seen \in Int
             /\ wk[w].op \in {"charge", "append", "edit"} =>
                  wk[w].col \in Accounts /\ wk[w].seen <= granted[wk[w].col]
             /\ wk[w].op \in {"charge", "append"} => wk[w].seen \in Nat
             /\ wk[w].op = "charge" => wk[w].by \in Nat
             /\ wk[w].op = "append" => wk[w].by \in Int
  BY <1>0, BalanceTypes, Constants DEF TypeOK, WorkersOK, WorkerOK, WorkerRecords, SeenInv
<1>2. (\A a \in Accounts : granted[a] <= granted'[a]) /\ NothingFromNothing'
  <2>1. CASE UNCHANGED <<remain, books>>
    BY <1>0, <2>1, Constants DEF books, NothingFromNothing
  <2>2. ASSUME NEW w \in Workers, wk[w].op = "charge", Took(wk[w].col, wk[w].seen, wk[w].by)
        PROVE  (\A a \in Accounts : granted[a] <= granted'[a]) /\ NothingFromNothing'
    <3>1. PICK c \in Accounts, v \in Nat : /\ c = wk[w].col /\ v = Less(wk[w].seen, wk[w].by)
                                        /\ v <= granted[c]
      <4>1. Less(wk[w].seen, wk[w].by) \in Nat /\ Less(wk[w].seen, wk[w].by) <= wk[w].seen
        BY <1>1, <2>2, LessNat
      <4>2. wk[w].col \in Accounts /\ granted[wk[w].col] \in Nat
        BY <1>0, <1>1, <2>2, Constants
      <4>3. Less(wk[w].seen, wk[w].by) <= granted[wk[w].col]
        BY <1>1, <2>2, <4>1, <4>2
      <4> QED
        BY <4>1, <4>2, <4>3
    <3>2. remain' = [remain EXCEPT ![c] = v] /\ granted' = granted
      BY <2>2, <3>1 DEF Took, Write
    <3> QED
      BY <1>0, <3>1, <3>2, Constants DEF NothingFromNothing
  <2>3. ASSUME NEW w \in Workers, wk[w].op = "append", Gave(wk[w].col, wk[w].seen, wk[w].by)
        PROVE  (\A a \in Accounts : granted[a] <= granted'[a]) /\ NothingFromNothing'
    <3>1. PICK c \in Accounts, v \in Nat, n \in Int, g \in Nat :
            c = wk[w].col /\ v = wk[w].seen /\ v <= granted[c] /\ n = wk[w].by /\ g = Less(n, 0) /\ n <= g
      BY <1>1, <2>3 DEF Less
    <3>2. remain' = [remain EXCEPT ![c] = v + n] /\ granted' = [granted EXCEPT ![c] = @ + g]
      BY <2>3, <3>1 DEF Gave, Append, Write
    <3> QED
      BY <1>0, <3>1, <3>2, Constants DEF NothingFromNothing
  <2>4. ASSUME NEW w \in Workers, wk[w].op = "edit", Wrote(wk[w].col, wk[w].seen)
        PROVE  (\A a \in Accounts : granted[a] <= granted'[a]) /\ NothingFromNothing'
    <3>1. PICK c \in Accounts, v \in Int : c = wk[w].col /\ v = wk[w].seen /\ v <= granted[c]
      BY <1>1, <2>4
    <3>2. remain' = [remain EXCEPT ![c] = v] /\ granted' = granted
      BY <2>4, <3>1 DEF Wrote, Write
    <3> QED
      BY <1>0, <3>1, <3>2, Constants DEF NothingFromNothing
  <2>5. ASSUME NEW h \in Humans, NEW v \in Nat, Renewed(h, v) \/ (Took(h, v, DayTime))
        PROVE  (\A a \in Accounts : granted[a] <= granted'[a]) /\ NothingFromNothing'
    <3>1. \A a \in Accounts : remain'[a] = remain[a] /\ granted'[a] = granted[a]
      BY <1>0, <2>5, Constants DEF Renewed, Took, Write
    <3> QED
      BY <1>0, <3>1, Constants DEF NothingFromNothing
  <2> QED
    BY <2>1, <2>2, <2>3, <2>4, <2>5, BookStep DEF BookSteps
<1>3. ASSUME NEW w \in Workers, wk'[w].op \in {"charge", "append", "edit"}
      PROVE  wk'[w].seen <= granted'[wk'[w].col]
  <2>1. wk'[w].col \in Accounts /\ wk'[w].col \in Columns /\ wk'[w].seen \in Int
    BY <1>0, <1>3, BalanceTypes, Constants DEF TypeInv, TypeOK, WorkersOK, WorkerOK, WorkerRecords
  <2>2. CASE wk'[w] = wk[w]
    BY <1>0, <1>1, <1>2, <1>3, <2>1, <2>2, Constants
  <2>3. CASE UNCHANGED <<remain, books>> /\ wk'[w].seen \in {remain[wk'[w].col], AsInt(remain[wk'[w].col])}
    <3>1. PICK c \in Accounts : c = wk'[w].col
      BY <2>1
    <3>2. remain[c] <= granted[c] /\ granted' = granted
      BY <1>0, <2>3, Constants DEF books
    <3>3. AsInt(remain[c]) <= granted[c]
      BY <1>0, <3>2, ReadLess
    <3> QED
      BY <2>3, <3>1, <3>2, <3>3
  <2> QED
    BY <1>3, <2>2, <2>3, WorkerStep DEF WorkerSteps
<1> QED
  BY <1>0, <1>2, <1>3 DEF SeenInv

(* However charges, time packages and edits of an account interleave,      *)
(* fail or are cut off, it never has more time than it was given, as long  *)
(* as no package takes more than an int holds.                             *)
THEOREM NoTimeFromNothing == Spec => []NothingFromNothing
<1>1. Init => GivenInv
  <2>1. Init => NothingFromNothing /\ SeenInv
    BY QuotaAssumption, Constants DEF Init, NothingFromNothing, SeenInv, Free
  <2> QED
    BY <2>1, TypeInit DEF GivenInv
<1>2. GivenInv => NothingFromNothing
  BY DEF GivenInv, NothingFromNothing
<1> QED
  BY <1>1, <1>2, GivenStep, PTL DEF Spec

-----------------------------------------------------------------------------
(* Nothing for nothing                                                     *)

(* A positive balance that was read, a job and a charge under way all mean *)
(* that the root account was given time.                                   *)
PaidInv ==
  /\ \A a \in Accounts : jobs[a] > 0 => granted[Root[a]] > 0
  /\ \A a \in Accounts : charged[a] > 0 => granted[a] > 0
  /\ \A w \in Workers :
       /\ wk[w].op = "check" => granted[Root[wk[w].col]] > 0
       /\ wk[w].op = "charge" => granted[wk[w].col] > 0

PaidAll == GivenInv /\ (DebtsFit => PaidInv)

LEMMA GrantedGrows ==
  ASSUME GivenInv, [Next]_vars, NEW a \in Accounts
  PROVE  granted'[a] >= granted[a] /\ granted[a] \in Nat /\ granted'[a] \in Nat
<1>1. /\ \A c \in Columns : granted[c] \in Nat /\ granted'[c] \in Nat
      /\ granted \in [Columns -> Nat] /\ a \in Columns
      /\ \A w \in Workers : wk[w].by \in Int
  BY TypeStep, Constants DEF GivenInv, TypeInv, TypeOK, WorkerRecords
<1>2. CASE UNCHANGED granted
  BY <1>1, <1>2
<1>3. ASSUME NEW w \in Workers, granted' = [granted EXCEPT ![wk[w].col] = @ + Less(wk[w].by, 0)]
      PROVE  granted'[a] >= granted[a]
  <2>1. PICK g \in Nat : g = Less(wk[w].by, 0)
    BY <1>1 DEF Less
  <2> QED
    BY <1>1, <1>3, <2>1
<1>4. ASSUME NEW h \in Humans, NEW v, granted' = [granted EXCEPT ![h] = v]
      PROVE  granted'[a] >= granted[a]
  BY <1>1, <1>4, Constants
<1> QED
  BY <1>1, <1>2, <1>3, <1>4, BookStep DEF GivenInv, BookSteps, Took, Gave, Append, Renewed, Wrote, books

LEMMA JobsSteps ==
  ASSUME TypeInv, [Next]_vars, NEW a \in Accounts
  PROVE  \/ jobs'[a] <= jobs[a]
         \/ \E w \in Workers : wk[w].op = "check" /\ wk[w].col = a
<1>0. jobs \in [Accounts -> Nat]
  BY DEF TypeInv, TypeOK
<1>1. ASSUME NEW w \in Workers, NEW h \in Humans, CheckHuman(w, h)
      PROVE  \/ jobs'[a] <= jobs[a]
             \/ wk[w].op = "check" /\ wk[w].col = a
  BY <1>0, <1>1 DEF CheckHuman
<1>2. ASSUME NEW w \in Workers, NEW b \in Accounts, NEW c \in Costs, ChargeRead(w, b, c)
      PROVE  jobs'[a] <= jobs[a]
  BY <1>0, <1>2 DEF ChargeRead
<1>3. CASE UNCHANGED jobs
  BY <1>0, <1>3
<1>4. ASSUME NEW w \in Workers, Work(w)
      PROVE  \/ UNCHANGED jobs
             \/ \E h \in Humans : CheckHuman(w, h)
             \/ \E b \in Accounts, c \in Costs : ChargeRead(w, b, c)
  BY <1>4 DEF Work, ChargeWrite, AppendWrite, OtherIndent, RecordIndent, EditWrite, CheckUser,
              EditRead, AppendRead, Renew, accounts
<1>5. ASSUME NEW s \in Servers, Daily(s) \/ Crash(s)
      PROVE  UNCHANGED jobs
  BY <1>5 DEF Daily, Look, DayRead, DayWrite, Rest, Crash, accounts
<1> QED
  BY <1>1, <1>2, <1>3, <1>4, <1>5 DEF Next, Tick, accounts, vars

LEMMA PaidStep ==
  ASSUME PaidAll, [Next]_vars
  PROVE  PaidAll'
<1> SUFFICES ASSUME DebtsFit PROVE PaidAll'
  <2>1. DebtsFit' <=> DebtsFit
    BY DEF DebtsFit
  <2> QED
    BY <2>1, GivenStep DEF PaidAll
<1> USE DEF PaidAll
<1>0. GivenInv' /\ TypeInv /\ TypeInv'
  BY GivenStep DEF GivenInv
<1>1. \A a \in Accounts : /\ granted'[a] >= granted[a] /\ granted[a] \in Nat /\ granted'[a] \in Nat
                          /\ Root[a] \in Accounts
  BY GrantedGrows, Constants
<1>2. ASSUME NEW a \in Accounts, jobs'[a] > 0
      PROVE  granted'[Root[a]] > 0
  <2>1. jobs[a] \in Nat /\ jobs'[a] \in Nat
    BY <1>0 DEF TypeInv, TypeOK
  <2>2. granted[Root[a]] > 0
    BY <1>0, <1>2, <2>1, JobsSteps DEF PaidInv
  <2> QED
    BY <1>1, <2>2
<1>3. ASSUME NEW a \in Accounts, charged'[a] > 0
      PROVE  granted'[a] > 0
  <2>1. /\ charged \in [Columns -> Nat] /\ a \in Columns
        /\ \A w \in Workers : wk[w].by \in Int
    BY <1>0, Constants DEF TypeInv, TypeOK, WorkerRecords
  <2>2. CASE charged'[a] = charged[a]
    BY <1>1, <1>3, <2>2 DEF PaidInv
  <2>3. ASSUME NEW w \in Workers, wk[w].op = "charge",
               charged' = [charged EXCEPT ![wk[w].col] = @ + wk[w].by]
        PROVE  granted'[a] > 0
    <3>1. CASE a = wk[w].col
      BY <1>1, <2>3, <3>1 DEF PaidInv
    <3>2. CASE a # wk[w].col
      BY <2>1, <2>2, <2>3, <3>2
    <3> QED
      BY <3>1, <3>2
  <2>4. ASSUME NEW h \in Humans, NEW v, charged' = [charged EXCEPT ![h] = v]
        PROVE  granted'[a] > 0
    BY <2>1, <2>2, <2>4, Constants
  <2> QED
    BY <1>0, <2>2, <2>3, <2>4, BookStep DEF BookSteps, Took, Gave, Renewed, Wrote, books
<1>4. ASSUME NEW w \in Workers, wk'[w].op \in {"check", "charge"}
      PROVE  LET a == IF wk'[w].op = "check" THEN Root[wk'[w].col] ELSE wk'[w].col
             IN  granted'[a] > 0
  <2>1. PICK c \in Accounts : c = wk'[w].col
    BY <1>0, <1>4 DEF TypeInv, WorkersOK, WorkerOK
  <2>2. CASE wk'[w] = wk[w]
    BY <1>1, <1>4, <2>1, <2>2 DEF PaidInv
  <2>3. CASE wk'[w].op = "check" /\ AsInt(remain[Root[c]]) > 0
    <3>1. remain[Root[c]] <= granted[Root[c]]
      BY <1>0, <1>1 DEF GivenInv, NothingFromNothing
    <3>2. AsInt(remain[Root[c]]) \in Nat /\ AsInt(remain[Root[c]]) <= granted[Root[c]]
      BY <1>0, <1>1, <3>1, ReadLess
    <3>3. granted[Root[c]] > 0 /\ Root[c] \in Accounts
      BY <1>1, <2>3, <3>2
    <3> QED
      BY <1>1, <2>1, <2>3, <3>3
  <2>4. CASE wk'[w].op = "charge" /\ \E a \in Accounts : jobs[a] > 0 /\ c = Root[a]
    BY <1>1, <2>1, <2>4 DEF PaidInv
  <2> QED
    BY <1>0, <1>4, <2>1, <2>2, <2>3, <2>4, WorkerStep DEF WorkerSteps
<1> QED
  BY <1>0, <1>2, <1>3, <1>4 DEF PaidInv

(* No video is accepted or charged under a root account that was never     *)
(* given time, as long as no package takes more than an int holds.         *)
THEOREM NoVideoForNothing == Spec => []NothingForNothing
<1>1. Init => PaidAll
  <2>1. Init => NothingFromNothing /\ SeenInv /\ PaidInv
    BY QuotaAssumption, Constants DEF Init, NothingFromNothing, SeenInv, PaidInv, Free
  <2> QED
    BY <2>1, TypeInit DEF PaidAll, GivenInv
<1>2. PaidAll => NothingForNothing
  <2> SUFFICES ASSUME PaidAll, DebtsFit, NEW a \in Accounts, granted[Root[a]] = 0
               PROVE  jobs[a] = 0 /\ charged[Root[a]] = 0
    BY DEF NothingForNothing
  <2>1. Root[a] \in Accounts /\ jobs[a] \in Nat /\ charged[Root[a]] \in Nat
    BY Constants DEF PaidAll, GivenInv, TypeInv, TypeOK
  <2> QED
    BY <2>1 DEF PaidAll, PaidInv
<1> QED
  BY <1>1, <1>2, PaidStep, PTL DEF Spec

-----------------------------------------------------------------------------
(* The balance                                                             *)

LEMMA BalanceStep ==
  ASSUME TypeInv, BalanceIsExact, [Next]_vars
  PROVE  BalanceIsExact'
<1>0. /\ remain \in [Columns -> Int] /\ granted \in [Columns -> Nat] /\ taken \in [Columns -> Nat]
      /\ charged \in [Columns -> Nat] /\ waived \in [Columns -> Nat]
      /\ \A w \in Workers : /\ wk[w].by \in Int /\ wk[w].seen \in Int
                            /\ wk[w].op = "charge" => wk[w].by \in Nat /\ wk[w].seen \in Nat
  BY BalanceTypes, Constants DEF TypeInv, TypeOK, WorkersOK, WorkerOK, WorkerRecords
<1>1. ASSUME NEW c, NEW seen \in Nat, NEW n \in Nat, Took(c, seen, n)
      PROVE  BalanceIsExact'
  <2>1. PICK v \in Nat, l \in Nat : v = Less(seen, n) /\ l = Less(n, seen) /\ seen + l = v + n
    BY LessNat
  <2> QED
    BY <1>0, <1>1, <2>1 DEF Took, Write, BalanceIsExact
<1>2. ASSUME NEW c, NEW seen \in Int, NEW n \in Int, Gave(c, seen, n)
      PROVE  BalanceIsExact'
  <2>1. PICK g \in Nat, d \in Nat : g = Less(n, 0) /\ d = Less(-n, 0) /\ g - d = n
    BY DEF Less
  <2> QED
    BY <1>0, <1>2, <2>1 DEF Gave, Append, Write, BalanceIsExact
<1>3. ASSUME NEW c, NEW seen \in Int, Wrote(c, seen)
      PROVE  BalanceIsExact'
  BY <1>0, <1>3 DEF Wrote, Write, BalanceIsExact
<1>4. ASSUME NEW h \in Humans, NEW v \in Nat, Renewed(h, v)
      PROVE  BalanceIsExact'
  BY <1>0, <1>4 DEF Renewed, BalanceIsExact
<1>5. CASE UNCHANGED <<remain, books>>
  BY <1>5 DEF books, BalanceIsExact
<1> QED
  BY <1>0, <1>1, <1>2, <1>3, <1>4, <1>5, BookStep, Constants DEF BookSteps

(* The balance is exact as long as no update of it was lost.               *)
THEOREM ExactBalance == Spec => []BalanceIsExact
<1>1. Init => BalanceIsExact
  BY QuotaAssumption DEF Init, BalanceIsExact
<1> QED
  BY <1>1, TypeInit, TypeStep, BalanceStep, PTL DEF Spec

-----------------------------------------------------------------------------
(* Orders                                                                  *)

(* An order under way that is to change a column will have done so before  *)
(* it is recorded; no number is ahead of the requests.                     *)
OrderInv ==
  /\ listed \cap owed \subseteq raised
  /\ \A w \in Workers :
       /\ wk[w].op = "record" /\ wk[w].no \in owed => wk[w].no \in raised
       /\ wk[w].no <= ops
  /\ \A k \in owed \cup listed : k <= ops

LEMMA RecordFields ==
  ASSUME TypeInv, NEW w \in Workers, NEW no, Record(w, no)
  PROVE  wk'[w].no = no /\ \A v \in Workers \ {w} : wk'[v] = wk[v]
  BY DEF Record, Free, TypeInv, TypeOK

LEMMA CheckFields ==
  ASSUME TypeInv, NEW w \in Workers, NEW a \in Accounts,
         wk' = [wk EXCEPT ![w] = [Free EXCEPT !.op = "check", !.col = a]]
  PROVE  wk'[w].op = "check" /\ wk'[w].no = 0 /\ \A v \in Workers \ {w} : wk'[v] = wk[v]
  BY DEF Free, TypeInv, TypeOK

(* Whoever makes a renewal that is owed finds the human.                   *)
LEMMA OwedIsFound ==
  ASSUME NEW a \in Accounts, NEW h \in Humans, Owed(a, h),
         NEW r \in {Root[a]} \cup (IF Fails THEN {a} ELSE {}), NEW found \in Finds(r, h)
  PROVE  found
<1>1. Root[Root[a]] = Root[a] /\ Reaches(Root[a], h) /\ (IsRoot(a) \/ ~Fails)
  BY Constants DEF Owed
<1>2. r = Root[a]
  BY <1>1 DEF IsRoot
<1>3. Owner[h] = Root[Root[a]] /\ IsRoot(Root[a])
  BY <1>1 DEF Reaches, IsRoot
<1> QED
  BY <1>1, <1>2, <1>3 DEF Finds

LEMMA OrderStep ==
  ASSUME TypeInv, OrderInv, [Next]_vars
  PROVE  OrderInv'
<1>0. /\ wk \in [Workers -> WorkerRecords] /\ Free.op = "idle" /\ Free.no = 0 /\ ops \in Nat
      /\ owed \subseteq Nat /\ listed \subseteq Nat /\ \A w \in Workers : wk[w].no \in Nat
  BY Constants DEF TypeInv, TypeOK, WorkerRecords, Free
<1> DEFINE Kept(v) == \A w \in Workers \ {v} : wk'[w] = wk[w]
<1>1. ASSUME UNCHANGED orders, ops' \in {ops, ops + 1},
             \A w \in Workers : wk'[w] = wk[w] \/ (wk'[w].op # "record" /\ wk'[w].no \in {0, ops'})
      PROVE  OrderInv'
  BY <1>0, <1>1 DEF orders, OrderInv
<1>2. ASSUME NEW v \in Workers, Work(v)
      PROVE  OrderInv'
  <2>1. ASSUME Finish(v)
        PROVE  wk'[v].op = "idle" /\ wk'[v].no = 0 /\ Kept(v)
    BY <1>0, <2>1 DEF Finish
  <2>2. CASE RecordIndent(v)
    <3>1. /\ ops' = ops /\ owed' = owed /\ raised' = raised /\ wk[v].op = "record"
          /\ listed' \in {listed, listed \cup {wk[v].no}}
      BY <2>2 DEF RecordIndent, accounts
    <3>2. wk'[v].op = "idle" /\ wk'[v].no = 0 /\ Kept(v)
      BY <2>1, <2>2 DEF RecordIndent
    <3> QED
      BY <1>0, <3>1, <3>2 DEF OrderInv
  <2>3. CASE AppendWrite(v)
    <3>1. ops' = ops /\ owed' = owed /\ listed' = listed
      BY <2>3 DEF AppendWrite, accounts
    <3>2. CASE raised' = raised \cup {wk[v].no} /\ Record(v, wk[v].no)
      <4>1. wk'[v].no = wk[v].no /\ Kept(v)
        BY <3>2, RecordFields
      <4> QED
        BY <3>1, <3>2, <4>1 DEF OrderInv
    <3>3. CASE UNCHANGED raised /\ Finish(v)
      BY <1>0, <2>1, <3>1, <3>3 DEF OrderInv
    <3> QED
      BY <2>3, <3>2, <3>3 DEF AppendWrite
  <2>4. ASSUME NEW a \in Accounts, NEW h \in Humans, NEW from \in Dates, NEW to \in Dates,
               Renew(v, a, h, from, to)
        PROVE  OrderInv'
    <3>1. /\ ops' = ops + 1 /\ listed' = listed
          /\ owed' = IF Owed(a, h) THEN owed \cup {ops'} ELSE owed
      BY <2>4 DEF Renew, Request
    <3>2. wk'[v].no = ops' /\ Kept(v)
      BY <2>4, RecordFields DEF Renew
    <3>3. raised' \in {raised, raised \cup {ops'}} /\ (Owed(a, h) => ops' \in raised')
      BY <2>4, OwedIsFound DEF Renew
    <3>4. ops' \notin owed /\ ops' \notin listed
      BY <1>0, <3>1 DEF OrderInv
    <3> QED
      BY <1>0, <3>1, <3>2, <3>3, <3>4 DEF OrderInv
  <2>5. CASE OtherIndent(v)
    <3>1. ops' = ops + 1 /\ UNCHANGED orders
      BY <2>5 DEF OtherIndent, Request
    <3>2. wk'[v].no = ops' /\ Kept(v)
      BY <2>5, RecordFields DEF OtherIndent
    <3>3. ops' \notin owed
      BY <1>0, <3>1 DEF OrderInv
    <3> QED
      BY <1>0, <3>1, <3>2, <3>3 DEF OrderInv, orders
  <2>6. ASSUME NEW a \in Accounts, NEW n, AppendRead(v, a, n)
        PROVE  OrderInv'
    <3>1. ops' = ops + 1 /\ owed' = owed \cup {ops'} /\ UNCHANGED <<raised, listed>>
      BY <2>6 DEF AppendRead, Request
    <3>2. wk'[v].no = ops' /\ wk'[v].op = "append" /\ Kept(v)
      BY <1>0, <2>6 DEF AppendRead, Read
    <3>3. ops' \notin listed
      BY <1>0, <3>1 DEF OrderInv
    <3>4. \A w \in Workers \ {v} : wk'[w].no # ops'
      BY <1>0, <3>1, <3>2 DEF OrderInv
    <3> QED
      BY <1>0, <3>1, <3>2, <3>3, <3>4 DEF OrderInv
  <2>7. CASE ChargeWrite(v) \/ EditWrite(v) \/ \E h \in Humans : CheckHuman(v, h)
    <3>1. UNCHANGED <<orders, ops>> /\ Finish(v)
      BY <2>7 DEF ChargeWrite, EditWrite, CheckHuman, accounts
    <3> QED
      BY <1>1, <2>1, <3>1
  <2>8. ASSUME NEW a \in Accounts, CheckUser(v, a)
        PROVE  OrderInv'
    <3>1. wk'[v].op = "check" /\ wk'[v].no = 0 /\ Kept(v)
      BY <2>8, CheckFields DEF CheckUser
    <3>2. UNCHANGED orders /\ ops' = ops + 1
      BY <2>8 DEF CheckUser, Request
    <3> QED
      BY <1>1, <3>1, <3>2
  <2>9. ASSUME NEW a \in Accounts, EditRead(v, a)
        PROVE  OrderInv'
    <3>1. wk'[v].op = "edit" /\ wk'[v].no = 0 /\ Kept(v)
      BY <1>0, <2>9 DEF EditRead
    <3>2. UNCHANGED orders /\ ops' = ops + 1
      BY <2>9 DEF EditRead, Request
    <3> QED
      BY <1>1, <3>1, <3>2
  <2>10. ASSUME NEW a \in Accounts, NEW n, ChargeRead(v, a, n)
         PROVE  OrderInv'
    <3>1. UNCHANGED <<orders, ops>>
      BY <2>10 DEF ChargeRead
    <3>2. UNCHANGED wk \/ (wk'[v].op = "charge" /\ wk'[v].no = 0 /\ Kept(v))
      BY <1>0, <2>10 DEF ChargeRead, Read
    <3> QED
      BY <1>1, <3>1, <3>2
  <2> QED
    BY <1>2, <2>2, <2>3, <2>4, <2>5, <2>6, <2>7, <2>8, <2>9, <2>10 DEF Work
<1>3. ASSUME NEW s \in Servers, Daily(s) \/ Crash(s)
      PROVE  OrderInv'
  <2>1. UNCHANGED <<orders, ops>> /\ \A w \in Workers : wk'[w] = wk[w] \/ wk'[w] = Free
    BY <1>0, <1>3 DEF Daily, Look, DayRead, DayWrite, Rest, Crash, accounts
  <2> QED
    BY <1>0, <1>1, <2>1
<1>4. CASE Tick \/ UNCHANGED vars
  <2>1. UNCHANGED <<orders, ops, wk>>
    BY <1>4 DEF Tick, accounts, vars
  <2> QED
    BY <1>1, <2>1
<1> QED
  BY <1>2, <1>3, <1>4 DEF Next

(* A recorded order that was to change a column had changed it: every time *)
(* package, and every renewal of a human that the root account named in    *)
(* the order owns and reaches.                                             *)
THEOREM OrdersCarriedOut == Spec => []ListedWasRaised
<1>1. Init => OrderInv
  BY DEF Init, OrderInv, Free
<1>2. OrderInv => ListedWasRaised
  BY DEF OrderInv, ListedWasRaised
<1> QED
  BY <1>1, <1>2, TypeInit, TypeStep, OrderStep, PTL DEF Spec

-----------------------------------------------------------------------------
(* Days                                                                    *)

(* No thread has worked on a day to come; one that has worked on this day  *)
(* went through the humans, and a sleeping one has nothing left to do.     *)
LastInv ==
  \A s \in Servers :
    /\ ht[s].last # None => ht[s].last <= day
    /\ ht[s].last = day => handled[s] = day
    /\ ht[s].pc = "sleep" => ht[s].todo = {} /\ ht[s].cur = None

(* A day a thread is about to take from a human, and a round it may still  *)
(* begin in this hour.                                                     *)
Due(s, h) == IF h \in ht[s].todo \/ h = ht[s].cur THEN 1 ELSE 0
Ahead(s) == IF tod < Hour /\ ht[s].last # day THEN 1 ELSE 0

(* What a thread took, is about to take and may yet take is a day per day  *)
(* and a day per restart at most.                                          *)
DueInv ==
  \A s \in Servers :
    /\ ht[s].cur \notin ht[s].todo
    /\ \A h \in Humans : spent[s][h] + Due(s, h) + Ahead(s) <= day + restarts[s]

(* In the hour of four a thread that has not worked yet wakes up in time.  *)
WakeInv ==
  /\ tod < Hour =>
       \A s \in Servers : handled[s] = day \/ (ht[s].pc = "sleep" /\ ht[s].wait + tod < Hour)
  /\ NoDaySkipped

DayInv == TypeInv /\ LastInv /\ DueInv /\ WakeInv

LEMMA DayTypes ==
  ASSUME TypeInv
  PROVE  /\ ht \in [Servers -> ThreadRecords] /\ handled \in [Servers -> 0..MaxDay]
         /\ spent \in [Servers -> [Humans -> Nat]] /\ restarts \in [Servers -> Nat]
         /\ day \in Nat /\ tod \in Nat
         /\ None \notin Nat /\ \A h \in Humans : h # None
         /\ \A s \in Servers : /\ ht[s].wait \in Nat /\ ht[s].wait <= Sleep + 1
                               /\ ht[s].todo \subseteq Humans /\ ht[s].cur \in Humans \cup {None}
                               /\ ht[s].last \in {None} \cup 0..MaxDay
         /\ \A s \in Servers, h \in Humans : /\ spent[s][h] \in Nat /\ Due(s, h) \in {0, 1}
                                             /\ Ahead(s) \in {0, 1}
  BY Constants DEF TypeInv, TypeOK, ThreadRecords, Due, Ahead

LEMMA DayInit == Init => DayInv
<1> SUFFICES ASSUME Init PROVE LastInv /\ DueInv /\ WakeInv
  BY TypeInit DEF DayInv
<1>1. \A s \in Servers : /\ ht[s] = Resting /\ handled[s] = 0 /\ restarts[s] = 0
                         /\ \A h \in Humans : spent[s][h] = 0
  BY DEF Init
<1>2. /\ Resting.last = None /\ Resting.pc = "sleep" /\ Resting.todo = {} /\ Resting.cur = None
      /\ \A h \in Humans : h # None
  BY Constants DEF Resting
<1>3. day = 0 /\ tod \in Hour..Day - 1
  BY DEF Init
<1>4. LastInv
  BY <1>1, <1>2, <1>3 DEF LastInv
<1>5. DueInv
  BY <1>1, <1>2, <1>3, Constants DEF DueInv, Due, Ahead
<1>6. WakeInv
  BY <1>1, <1>3, Constants DEF WakeInv, NoDaySkipped
<1> QED
  BY <1>4, <1>5, <1>6

LEMMA DailyDays ==
  ASSUME DayInv, NEW s \in Servers, Daily(s)
  PROVE  LastInv' /\ DueInv' /\ WakeInv'
<1> USE DEF DayInv
<1>a. /\ ht \in [Servers -> ThreadRecords] /\ handled \in [Servers -> 0..MaxDay]
      /\ spent \in [Servers -> [Humans -> Nat]] /\ restarts[s] \in Nat
      /\ day \in Nat /\ tod \in Nat
      /\ \A h \in Humans : h # None
      /\ ht[s] \in ThreadRecords
      /\ ht[s].todo \subseteq Humans /\ ht[s].cur \in Humans \cup {None}
      /\ \A h \in Humans : spent[s][h] \in Nat /\ Due(s, h) \in {0, 1} /\ Ahead(s) \in {0, 1}
  BY DayTypes
<1>c. UNCHANGED <<day, tod, restarts>>
  BY DEF Daily, Look, DayRead, DayWrite, Rest, clock, daily
<1>d. \A k \in Servers \ {s} : ht'[k] = ht[k] /\ spent'[k] = spent[k] /\ handled'[k] = handled[k]
  BY <1>a DEF Daily, Look, DayRead, DayWrite, Rest, daily
<1>0. ASSUME ht'[s].last # None => ht'[s].last <= day,
             ht'[s].last = day => handled'[s] = day,
             ht'[s].pc = "sleep" => ht'[s].todo = {} /\ ht'[s].cur = None,
             ht'[s].cur \notin ht'[s].todo,
             \A h \in Humans : spent'[s][h] + Due(s, h)' + Ahead(s)' <= day + restarts[s],
             tod < Hour => handled'[s] = day \/ (ht'[s].pc = "sleep" /\ ht'[s].wait + tod < Hour),
             tod >= Hour => handled'[s] = day
      PROVE  LastInv' /\ DueInv' /\ WakeInv'
  <2>1. LastInv'
    BY <1>0, <1>c, <1>d DEF LastInv
  <2>2. DueInv'
    BY <1>0, <1>c, <1>d DEF DueInv, Due, Ahead
  <2>3. WakeInv'
    BY <1>0, <1>c, <1>d DEF WakeInv, NoDaySkipped
  <2> QED
    BY <2>1, <2>2, <2>3
<1>e. /\ ht[s].last # None => ht[s].last <= day
      /\ ht[s].last = day => handled[s] = day
      /\ ht[s].pc = "sleep" => ht[s].todo = {} /\ ht[s].cur = None
      /\ ht[s].cur \notin ht[s].todo
      /\ \A h \in Humans : spent[s][h] + Due(s, h) + Ahead(s) <= day + restarts[s]
      /\ tod < Hour => handled[s] = day \/ (ht[s].pc = "sleep" /\ ht[s].wait + tod < Hour)
      /\ tod >= Hour => handled[s] = day
  BY DEF LastInv, DueInv, WakeInv, NoDaySkipped
<1>1. CASE Look(s)
  <2>1. CASE tod < Hour /\ ht[s].last # day
    <3>1. PICK todo \in SUBSET Humans :
            ht' = [ht EXCEPT ![s].pc = "round", ![s].last = day, ![s].todo = todo]
      BY <1>1, <2>1 DEF Look
    <3>2. /\ ht'[s].pc = "round" /\ ht'[s].last = day /\ ht'[s].todo = todo
          /\ ht'[s].cur = None /\ handled'[s] = day /\ spent' = spent
      BY <1>1, <1>a, <1>e, <2>1, <3>1 DEF Look, ThreadRecords
    <3>3. Ahead(s) = 1 /\ Ahead(s)' = 0
      BY <1>c, <2>1, <3>2 DEF Ahead
    <3>4. ASSUME NEW h \in Humans
          PROVE  spent'[s][h] + Due(s, h)' + Ahead(s)' <= day + restarts[s]
      <4>1. spent[s][h] + Due(s, h) + 1 <= day + restarts[s] /\ Due(s, h) \in {0, 1}
        BY <1>a, <1>e, <3>3
      <4>2. Due(s, h)' \in {0, 1} /\ spent'[s][h] = spent[s][h]
        BY <3>2 DEF Due
      <4> QED
        BY <1>a, <3>3, <4>1, <4>2
    <3> QED
      BY <1>0, <1>a, <2>1, <3>2, <3>4, Constants
  <2>2. CASE ~(tod < Hour /\ ht[s].last # day)
    <3>1. /\ ht'[s].pc = "round" /\ ht'[s].last = ht[s].last /\ ht'[s].todo = ht[s].todo
          /\ ht'[s].cur = ht[s].cur /\ handled' = handled /\ spent' = spent
      BY <1>1, <1>a, <2>2 DEF Look, ThreadRecords
    <3>2. Ahead(s)' = Ahead(s) /\ \A h \in Humans : Due(s, h)' = Due(s, h)
      BY <1>c, <3>1 DEF Due, Ahead
    <3>3. handled'[s] = day
      BY <1>a, <1>e, <2>2, <3>1, Constants
    <3> QED
      BY <1>0, <1>e, <3>1, <3>2, <3>3
  <2> QED
    BY <2>1, <2>2
<1>2. ASSUME NEW h \in Humans, DayRead(s, h)
      PROVE  LastInv' /\ DueInv' /\ WakeInv'
  <2>1. /\ ht'[s].pc = ht[s].pc /\ ht[s].pc = "round" /\ ht'[s].last = ht[s].last
        /\ ht'[s].todo = ht[s].todo \ {h} /\ ht'[s].cur \in {None, h} /\ h \in ht[s].todo
        /\ ht[s].cur = None /\ handled' = handled /\ spent' = spent
    BY <1>2, <1>a DEF DayRead, ThreadRecords, daily
  <2>2. Ahead(s)' = Ahead(s)
    BY <1>c, <2>1 DEF Ahead
  <2>3. \A x \in Humans : Due(s, x)' <= Due(s, x) /\ Due(s, x)' \in {0, 1}
    BY <1>a, <2>1 DEF Due
  <2>4. \A x \in Humans : spent'[s][x] + Due(s, x)' + Ahead(s)' <= day + restarts[s]
    BY <1>a, <1>e, <2>1, <2>2, <2>3
  <2>5. None \notin ht[s].todo
    BY <1>a
  <2> QED
    BY <1>0, <1>e, <2>1, <2>4, <2>5
<1>3. CASE DayWrite(s)
  <2>0. /\ ht' = [ht EXCEPT ![s].cur = None, ![s].seen = 0]
        /\ ht[s].pc = "round" /\ ht[s].cur \in Humans /\ handled' = handled
        /\ \/ spent' = [spent EXCEPT ![s][ht[s].cur] = @ + 1]
           \/ spent' = spent
    BY <1>3, <1>a DEF DayWrite
  <2>a. /\ ht'[s].pc = ht[s].pc /\ ht'[s].last = ht[s].last
        /\ ht'[s].todo = ht[s].todo /\ ht'[s].cur = None
    BY <1>a, <2>0 DEF ThreadRecords
  <2>b. spent[s] \in [Humans -> Nat]
    BY <1>a
  <2>c. ASSUME spent' = [spent EXCEPT ![s][ht[s].cur] = @ + 1]
        PROVE  \A x \in Humans :
                 spent'[s][x] = spent[s][x] \/ (x = ht[s].cur /\ spent'[s][x] = spent[s][x] + 1)
    <3>1. spent'[s] = [spent[s] EXCEPT ![ht[s].cur] = spent[s][ht[s].cur] + 1]
      BY <1>a, <2>c
    <3> QED
      BY <2>b, <3>1
  <2>1. PICK h \in Humans :
        /\ h = ht[s].cur
        /\ \A x \in Humans : spent'[s][x] = spent[s][x] \/ (x = h /\ spent'[s][x] = spent[s][x] + 1)
    BY <2>0, <2>c
  <2>2. Ahead(s)' = Ahead(s)
    BY <1>c, <2>a DEF Ahead
  <2>3. ASSUME NEW x \in Humans
        PROVE  spent'[s][x] + Due(s, x)' + Ahead(s)' <= day + restarts[s]
    <3>1. /\ spent[s][x] + Due(s, x) + Ahead(s) <= day + restarts[s]
          /\ spent[s][x] \in Nat /\ Ahead(s) \in {0, 1}
      BY <1>a, <1>e
    <3>2. CASE x = h
      <4>1. Due(s, x)' = 0 /\ Due(s, x) = 1
        BY <1>a, <1>e, <2>1, <2>a, <3>2 DEF Due
      <4> QED
        BY <1>a, <2>1, <2>2, <3>1, <4>1
    <3>3. CASE x # h
      <4>1. Due(s, x)' = Due(s, x) /\ Due(s, x) \in {0, 1} /\ spent'[s][x] = spent[s][x]
        BY <1>a, <2>1, <2>a, <3>3 DEF Due
      <4> QED
        BY <1>a, <2>2, <3>1, <4>1
    <3> QED
      BY <3>2, <3>3
  <2>4. None \notin ht[s].todo
    BY <1>a
  <2> QED
    BY <1>0, <1>e, <2>0, <2>a, <2>3, <2>4
<1>4. CASE Rest(s)
  <2>1. /\ ht[s].pc = "round" /\ ht'[s].pc = "sleep" /\ ht'[s].last = ht[s].last
        /\ ht'[s].todo = {} /\ ht[s].todo = {} /\ ht'[s].cur = None /\ ht[s].cur = None
        /\ handled' = handled /\ spent' = spent
    BY <1>4, <1>a DEF Rest, ThreadRecords, daily
  <2>2. Ahead(s)' = Ahead(s) /\ \A x \in Humans : Due(s, x)' = Due(s, x)
    BY <1>c, <2>1 DEF Due, Ahead
  <2> QED
    BY <1>0, <1>e, <2>1, <2>2
<1> QED
  BY <1>1, <1>2, <1>3, <1>4 DEF Daily

LEMMA DayStep ==
  ASSUME DayInv, [Next]_vars
  PROVE  DayInv'
<1> USE DEF DayInv
<1>a. /\ ht \in [Servers -> ThreadRecords] /\ handled \in [Servers -> 0..MaxDay]
      /\ restarts \in [Servers -> Nat] /\ day \in Nat /\ tod \in Nat
      /\ \A s \in Servers : /\ ht[s].wait \in Nat /\ ht[s].wait <= Sleep + 1
                            /\ ht[s].last \in {None} \cup 0..MaxDay
      /\ None \notin Nat
      /\ \A h \in Humans : h # None
      /\ \A s \in Servers, h \in Humans : /\ spent[s][h] \in Nat /\ Due(s, h) \in {0, 1}
                                          /\ Ahead(s) \in {0, 1}
  BY DayTypes
<1>b. TypeInv'
  BY TypeStep
<1>1. CASE UNCHANGED vars
  BY <1>b, <1>1 DEF vars, clock, daily, LastInv, DueInv, Due, Ahead, WakeInv, NoDaySkipped
<1>2. CASE Tick
  <2>1. \A s \in Servers :
          /\ ht'[s].pc = "sleep" /\ ht[s].pc = "sleep" /\ ht'[s].wait = ht[s].wait - 1 /\ ht[s].wait > 0
          /\ ht'[s].last = ht[s].last /\ ht'[s].todo = ht[s].todo /\ ht'[s].cur = ht[s].cur
    BY <1>2, <1>a DEF Tick, ThreadRecords
  <2>2. UNCHANGED <<spent, handled, restarts>>
    BY <1>2 DEF Tick, daily
  <2>3. \/ tod' = tod + 1 /\ day' = day
        \/ tod' = 0 /\ day' = day + 1 /\ tod + 1 >= Day
    BY <1>2, <1>a, Constants DEF Tick
  <2>4. CASE tod' = tod + 1 /\ day' = day
    <3>1. LastInv'
      BY <2>1, <2>2, <2>4 DEF LastInv
    <3>2. DueInv'
      <4>1. \A s \in Servers : Ahead(s)' <= Ahead(s) /\ Ahead(s)' \in {0, 1}
        BY <1>a, <2>1, <2>4, Constants DEF Ahead
      <4>2. \A s \in Servers, h \in Humans : Due(s, h)' = Due(s, h)
        BY <2>1 DEF Due
      <4>3. ASSUME NEW s \in Servers, NEW h \in Humans
            PROVE  spent'[s][h] + Due(s, h)' + Ahead(s)' <= day' + restarts'[s]
        BY <1>a, <2>2, <2>4, <4>1, <4>2 DEF DueInv
      <4> QED
        BY <2>1, <4>3 DEF DueInv
    <3>3. ASSUME NEW s \in Servers
          PROVE  /\ tod' < Hour => handled'[s] = day' \/ (ht'[s].pc = "sleep" /\ ht'[s].wait + tod' < Hour)
                 /\ tod' >= Hour => handled'[s] = day'
      BY <1>a, <2>1, <2>2, <2>4, Constants DEF WakeInv, NoDaySkipped
    <3> QED
      BY <1>b, <3>1, <3>2, <3>3 DEF WakeInv, NoDaySkipped
  <2>5. CASE tod' = 0 /\ day' = day + 1 /\ tod + 1 >= Day
    <3>a. ~(tod < Hour) /\ ~(tod' >= Hour)
      BY <1>a, <2>1, <2>5, Constants
    <3>1. LastInv'
      <4>1. ASSUME NEW s \in Servers
            PROVE  ht[s].last # None => ht[s].last <= day' /\ ht[s].last # day'
        <5>1. ht[s].last # None => ht[s].last \in Nat /\ ht[s].last <= day
          BY <1>a, Constants DEF LastInv
        <5> QED
          BY <1>a, <2>5, <5>1
      <4>2. \A s \in Servers : ht[s].last = day' => ht[s].last # None
        BY <1>a, <2>5
      <4> QED
        BY <2>1, <2>2, <4>1, <4>2 DEF LastInv
    <3>2. DueInv'
      <4>1. \A s \in Servers : Ahead(s)' \in {0, 1} /\ Ahead(s) = 0
        BY <3>a DEF Ahead
      <4>2. \A s \in Servers, h \in Humans : Due(s, h)' = Due(s, h)
        BY <2>1 DEF Due
      <4>3. ASSUME NEW s \in Servers, NEW h \in Humans
            PROVE  spent'[s][h] + Due(s, h)' + Ahead(s)' <= day' + restarts'[s]
        BY <1>a, <2>2, <2>5, <4>1, <4>2 DEF DueInv
      <4> QED
        BY <2>1, <4>3 DEF DueInv
    <3>3. ASSUME NEW s \in Servers
          PROVE  ht'[s].pc = "sleep" /\ ht'[s].wait + tod' < Hour
      BY <1>a, <2>1, <2>5, Constants
    <3> QED
      BY <1>b, <3>a, <3>1, <3>2, <3>3 DEF WakeInv, NoDaySkipped
  <2> QED
    BY <2>3, <2>4, <2>5
<1>3. ASSUME NEW s \in Servers, Crash(s)
      PROVE  DayInv'
  <2>1. /\ Resting.pc = "sleep" /\ Resting.wait = 0 /\ Resting.last = None
        /\ Resting.todo = {} /\ Resting.cur = None
    BY DEF Resting
  <2>2. /\ ht'[s] = Resting /\ \A k \in Servers \ {s} : ht'[k] = ht[k]
        /\ UNCHANGED <<day, tod, spent, handled>>
    BY <1>3, <1>a DEF Crash, clock
  <2>3. /\ tod < Hour => restarts' = [restarts EXCEPT ![s] = @ + 1]
        /\ ~(tod < Hour) => restarts' = restarts
    BY <1>3 DEF Crash
  <2>4. LastInv'
    BY <1>a, <2>1, <2>2 DEF LastInv
  <2>5. ASSUME NEW k \in Servers, NEW h \in Humans
        PROVE  spent'[k][h] + Due(k, h)' + Ahead(k)' <= day' + restarts'[k]
    <3>0. spent[k][h] + Due(k, h) + Ahead(k) <= day + restarts[k] /\ restarts[k] \in Nat
      BY <1>a DEF DueInv
    <3>1. CASE k = s
      <4>1. Due(k, h)' = 0 /\ (~(tod < Hour) => Ahead(k)' = 0) /\ Ahead(k)' \in {0, 1}
        BY <1>a, <2>1, <2>2, <3>1 DEF Due, Ahead
      <4>2. (tod < Hour => restarts'[k] = restarts[k] + 1) /\ (~(tod < Hour) => restarts'[k] = restarts[k])
        BY <1>a, <2>3, <3>1
      <4> QED
        BY <1>a, <2>2, <3>0, <4>1, <4>2
    <3>2. CASE k # s
      <4>1. Due(k, h)' = Due(k, h) /\ Ahead(k)' = Ahead(k) /\ restarts'[k] = restarts[k]
        BY <1>a, <2>2, <2>3, <3>2 DEF Due, Ahead
      <4> QED
        BY <2>2, <3>0, <4>1
    <3> QED
      BY <3>1, <3>2
  <2>6. DueInv'
    BY <2>1, <2>2, <2>5 DEF DueInv
  <2>7. WakeInv'
    BY <1>a, <2>1, <2>2, Constants DEF WakeInv, NoDaySkipped
  <2> QED
    BY <1>b, <2>4, <2>6, <2>7
<1>4. ASSUME NEW w \in Workers, Work(w)
      PROVE  DayInv'
  <2>1. UNCHANGED <<ht, day, tod, spent, handled, restarts>>
    BY <1>4 DEF Work, ChargeWrite, AppendWrite, OtherIndent, RecordIndent, EditWrite, CheckHuman,
                CheckUser, EditRead, ChargeRead, AppendRead, Renew, clock, daily
  <2> QED
    BY <1>b, <2>1 DEF LastInv, DueInv, Due, Ahead, WakeInv, NoDaySkipped
<1> QED
  BY <1>b, <1>1, <1>2, <1>3, <1>4, DailyDays DEF Next

(* A server takes at most a day per day from a human, and one more per     *)
(* restart within the hour of four.                                        *)
THEOREM ADayPerDay == Spec => []AtMostADayPerDay
<1>1. DayInv => AtMostADayPerDay
  <2> SUFFICES ASSUME DayInv, NEW s \in Servers, NEW h \in Humans
               PROVE  spent[s][h] <= day + restarts[s]
    BY DEF AtMostADayPerDay
  <2>1. /\ spent[s][h] \in Nat /\ day \in Nat /\ restarts[s] \in Nat
        /\ Due(s, h) \in {0, 1} /\ Ahead(s) \in {0, 1}
    BY DayTypes DEF DayInv
  <2>2. spent[s][h] + Due(s, h) + Ahead(s) <= day + restarts[s]
    BY DEF DayInv, DueInv
  <2> QED
    BY <2>1, <2>2
<1> QED
  BY <1>1, DayInit, DayStep, PTL DEF Spec

(* No day is skipped, for any sleep shorter than the hour, with any number *)
(* of restarts.                                                            *)
THEOREM EveryDay == Spec => []NoDaySkipped
<1>1. DayInv => NoDaySkipped
  BY DEF DayInv, WakeInv
<1> QED
  BY <1>1, DayInit, DayStep, PTL DEF Spec

=============================================================================
