------------------------ MODULE TaskVersions_proofs ------------------------
(* Theorems about TaskVersions: what holds for every number of groups,     *)
(* handlers and requests, with failing statements and crashes.             *)
EXTENDS TaskVersions, TLAPS

USE DEF Rows, Marked, Active, Ids

(* Every way a request can begin.                                          *)
BeginAny ==
  \E h \in Handlers, kind \in {"new", "keep", "make", "as"}, g \in Groups, i \in Ids \cup {0},
     pc \in {"seq", "look", "number"} :
    /\ Begin(h, kind, g, i, pc)
    /\ pc = "look" => i \in Ids /\ group[i] = g
    /\ pc # "look" => i = 0
    /\ pc = "seq" => g \notin begun

LEMMA Steps ==
  ASSUME TypeOK, [Next]_vars
  PROVE  \/ UNCHANGED vars
         \/ Collapse
         \/ \E i \in Ids : Remove(i)
         \/ BeginAny
         \/ \E h \in Handlers : Store(h)
<1>1. ASSUME NEW h \in Handlers, NEW g \in Groups, BeginNew(h, g)
      PROVE  BeginAny
  BY <1>1 DEF BeginNew, BeginAny
<1>2. ASSUME NEW h \in Handlers, NEW g \in Groups, BeginAs(h, g)
      PROVE  BeginAny
  BY <1>2 DEF BeginAs, BeginAny
<1>3. ASSUME NEW h \in Handlers, NEW i \in Ids, BeginKeep(h, i) \/ BeginMake(h, i)
      PROVE  BeginAny
  <2>1. group[i] \in Groups
    BY <1>3 DEF BeginKeep, BeginMake, TypeOK
  <2> QED
    BY <1>3, <2>1 DEF BeginKeep, BeginMake, BeginAny
<1> QED
  BY <1>1, <1>2, <1>3 DEF Next

-----------------------------------------------------------------------------
(* Types                                                                   *)

LEMMA TypeInit == Init => TypeOK
<1> SUFFICES ASSUME Init PROVE TypeOK
  OBVIOUS
<1>1. Idle \in HandlerRecords
  BY DEF Idle, HandlerRecords
<1>2. MaxOps \in Nat
  BY VersionsAssumption
<1> QED
  BY <1>1, <1>2 DEF Init, TypeOK, HandlersOK, Idle

LEMMA HandlerType ==
  ASSUME HandlersOK, NEW h \in Handlers, NEW r \in HandlerRecords,
         hd' = [hd EXCEPT ![h] = r],
         r.pc # "idle" => r.group \in Groups,
         r.pc \in {"look", "update", "insert", "off", "on"} => r.id \in Ids,
         r.pc = "taken" => r.next \in Ids
  PROVE  HandlersOK'
  BY DEF HandlersOK

LEMMA StepHandler ==
  ASSUME HandlersOK, NEW h \in Handlers, NEW pc, Step(h, pc), hd[h].pc # "idle",
         \/ pc \in {"update", "off", "on"} /\ hd[h].id \in Ids
         \/ pc = "seq"
  PROVE  HandlersOK'
<1> DEFINE r == [hd[h] EXCEPT !.pc = pc]
<1>1. hd[h] \in HandlerRecords
  BY DEF HandlersOK
<1>2. r \in HandlerRecords /\ r.pc = pc /\ r.id = hd[h].id /\ r.group = hd[h].group
  BY <1>1 DEF HandlerRecords
<1>3. hd' = [hd EXCEPT ![h] = r]
  BY DEF Step
<1>4. hd[h].group \in Groups
  BY DEF HandlersOK
<1> HIDE DEF r
<1> QED
  BY <1>2, <1>3, <1>4, HandlerType

LEMMA AnswerHandler ==
  ASSUME HandlersOK, NEW h \in Handlers, Answer(h)
  PROVE  HandlersOK'
<1>1. Idle \in HandlerRecords /\ Idle.pc = "idle"
  BY VersionsAssumption DEF Idle, HandlerRecords
<1> QED
  BY <1>1, HandlerType DEF Answer

LEMMA NumberedHandler ==
  ASSUME HandlersOK, NEW h \in Handlers, Numbered(h), hd[h].pc = "taken"
  PROVE  HandlersOK'
<1> DEFINE r == [hd[h] EXCEPT !.pc = "insert", !.id = hd[h].next]
<1>1. hd[h] \in HandlerRecords /\ hd[h].next \in Ids /\ hd[h].group \in Groups
  BY DEF HandlersOK
<1>2. r \in HandlerRecords /\ r.pc = "insert" /\ r.id \in Ids /\ r.group \in Groups
  BY <1>1 DEF HandlerRecords
<1>3. hd' = [hd EXCEPT ![h] = r]
  BY DEF Numbered
<1> HIDE DEF r
<1> QED
  BY <1>2, <1>3, HandlerType

LEMMA StoreHandler ==
  ASSUME TypeOK, NEW h \in Handlers, Store(h)
  PROVE  HandlersOK'
<1>0. /\ HandlersOK /\ hd[h] \in HandlerRecords /\ MaxOps \in Nat
      /\ hd[h].pc # "idle" => hd[h].group \in Groups
      /\ hd[h].pc \in {"look", "update", "insert", "off", "on"} => hd[h].id \in Ids
  BY VersionsAssumption DEF TypeOK, HandlersOK
<1>1. CASE Look(h)
  <2> DEFINE r == [hd[h] EXCEPT !.pc = "seq", !.id = IF hd[h].kind = "make" THEN @ ELSE 0]
  <2>1. r \in HandlerRecords /\ r.pc = "seq" /\ r.group \in Groups
    BY <1>0, <1>1 DEF HandlerRecords, Look
  <2>2. hd' = [hd EXCEPT ![h] = r] \/ Step(h, "update")
    BY <1>1 DEF Look
  <2> HIDE DEF r
  <2>3. CASE hd' = [hd EXCEPT ![h] = r]
    BY <1>0, <2>1, <2>3, HandlerType
  <2> QED
    BY <1>0, <1>1, <2>2, <2>3, StepHandler DEF Look
<1>2. CASE Number(h)
  <2>1. ASSUME NEW i \in Ids, hd' = [hd EXCEPT ![h].pc = "seq", ![h].ver = version[i] + 1]
        PROVE  HandlersOK'
    <3> DEFINE r == [hd[h] EXCEPT !.pc = "seq", !.ver = version[i] + 1]
    <3>1. version[i] + 1 \in Nat
      BY DEF TypeOK
    <3>2. r \in HandlerRecords /\ r.pc = "seq" /\ r.group \in Groups
      BY <1>0, <1>2, <3>1 DEF HandlerRecords, Number
    <3>3. hd' = [hd EXCEPT ![h] = r]
      BY <2>1
    <3> HIDE DEF r
    <3> QED
      BY <1>0, <3>2, <3>3, HandlerType
  <2>2. CASE Step(h, "seq")
    BY <1>0, <1>2, <2>2, StepHandler DEF Number
  <2>3. present \subseteq Ids
    BY DEF TypeOK
  <2> QED
    BY <1>2, <2>1, <2>2, <2>3 DEF Number
<1>3. CASE Refuse(h)
  BY <1>0, <1>3, AnswerHandler DEF Refuse
<1>4. CASE SeqRead(h)
  <2> DEFINE r == [hd[h] EXCEPT !.pc = "taken", !.next = seq + 1]
  <2>1. seq + 1 \in Ids
    BY <1>0, <1>4 DEF TypeOK, SeqRead
  <2>2. r \in HandlerRecords /\ r.pc = "taken" /\ r.next \in Ids /\ r.group \in Groups
    BY <1>0, <1>4, <2>1 DEF HandlerRecords, SeqRead
  <2>3. hd' = [hd EXCEPT ![h] = r]
    BY <1>4 DEF SeqRead
  <2> HIDE DEF r
  <2> QED
    BY <1>0, <2>2, <2>3, HandlerType
<1>5. CASE SeqInsert(h)
  <2>1. hd[h].id \in Ids \cup {0}
    BY <1>0 DEF HandlerRecords
  <2> QED
    BY <1>0, <1>5, <2>1, NumberedHandler, AnswerHandler, StepHandler DEF SeqInsert
<1>6. CASE Update(h) \/ Insert(h) \/ MarkOff(h) \/ MarkOn(h)
  BY <1>0, <1>6, StepHandler, AnswerHandler DEF Update, Insert, MarkOff, MarkOn
<1> QED
  BY <1>1, <1>2, <1>3, <1>4, <1>5, <1>6 DEF Store

LEMMA StoreType ==
  ASSUME TypeOK, NEW h \in Handlers, Store(h)
  PROVE  TypeOK'
<1>0. /\ MaxOps \in Nat /\ HandlersOK' /\ hd[h] \in HandlerRecords
      /\ hd[h].pc # "idle" => hd[h].group \in Groups
      /\ hd[h].pc \in {"look", "update", "insert", "off", "on"} => hd[h].id \in Ids
      /\ hd[h].pc = "taken" => hd[h].next \in Ids
  BY StoreHandler, VersionsAssumption DEF TypeOK, HandlersOK
<1>1. CASE Look(h) \/ Number(h) \/ Refuse(h) \/ SeqRead(h)
  BY <1>0, <1>1 DEF TypeOK, Look, Number, Refuse, SeqRead, history, rows
<1>2. CASE Update(h)
  BY <1>0, <1>2 DEF TypeOK, Update, history
<1>3. CASE SeqInsert(h)
  BY <1>0, <1>3 DEF TypeOK, SeqInsert, history, rows
<1>4. CASE Insert(h)
  <2> DEFINE i == hd[h].id
             g == hd[h].group
  <2>1. hd[h].ver \in Nat /\ i \in Ids /\ g \in Groups /\ g # None
    BY <1>0, <1>4, VersionsAssumption DEF HandlerRecords, Insert
  <2>2. CASE /\ present' = present \cup {i}
             /\ group' = [group EXCEPT ![i] = g]
             /\ version' = [version EXCEPT ![i] = hd[h].ver]
             /\ mark' = [mark EXCEPT ![i] = TRUE]
    <3> HIDE DEF i, g
    <3> QED
      BY <1>0, <1>4, <2>1, <2>2 DEF TypeOK, Insert, history
  <2>3. CASE UNCHANGED rows
    BY <1>0, <1>4, <2>3 DEF TypeOK, Insert, history, rows
  <2> QED
    BY <1>4, <2>2, <2>3 DEF Insert
<1>5. CASE MarkOff(h)
  BY <1>0, <1>5 DEF TypeOK, MarkOff
<1>6. CASE MarkOn(h)
  BY <1>0, <1>6 DEF TypeOK, MarkOn
<1> QED
  BY <1>1, <1>2, <1>3, <1>4, <1>5, <1>6 DEF Store

LEMMA TypeStep ==
  ASSUME TypeOK, [Next]_vars
  PROVE  TypeOK'
<1>0. Idle \in HandlerRecords /\ Idle.pc = "idle" /\ MaxOps \in Nat
  BY VersionsAssumption DEF Idle, HandlerRecords
<1>1. CASE UNCHANGED vars
  BY <1>1 DEF vars, rows, history, TypeOK, HandlersOK
<1>2. CASE Collapse
  <2>1. HandlersOK'
    BY <1>0, <1>2 DEF Collapse, HandlersOK
  <2> QED
    BY <1>2, <2>1 DEF Collapse, TypeOK, rows
<1>3. ASSUME NEW i \in Ids, Remove(i)
      PROVE  TypeOK'
  <2>1. group[i] \in Groups
    BY <1>3 DEF TypeOK, Remove
  <2> QED
    BY <1>0, <1>3, <2>1 DEF Remove, TypeOK, HandlersOK
<1>4. CASE BeginAny
  <2>1. PICK h \in Handlers, kind \in {"new", "keep", "make", "as"}, g \in Groups,
             i \in Ids \cup {0}, pc \in {"seq", "look", "number"} :
               Begin(h, kind, g, i, pc) /\ (pc = "look" => i \in Ids)
    BY <1>4 DEF BeginAny
  <2> DEFINE r == [pc |-> pc, kind |-> kind, id |-> i, next |-> 0, group |-> g, ver |-> 0,
                   alone |-> Active(g) = {}]
  <2>2. r \in HandlerRecords /\ r.pc = pc /\ r.group = g /\ r.id = i
    BY DEF HandlerRecords
  <2>3. \A k \in Handlers : hd'[k] = r \/ hd'[k] = hd[k] \/ hd'[k] = [hd[k] EXCEPT !.alone = FALSE]
    BY <2>1 DEF Begin
  <2> HIDE DEF r
  <2>4. HandlersOK'
    <3>1. \A k \in Handlers : hd[k] \in HandlerRecords
      BY DEF TypeOK, HandlersOK
    <3>2. \A k \in Handlers : [hd[k] EXCEPT !.alone = FALSE] \in HandlerRecords
      BY <3>1 DEF HandlerRecords
    <3>3. \A k \in Handlers : hd'[k] \in HandlerRecords
      BY <2>2, <2>3, <3>1, <3>2
    <3>4. hd' = [k \in Handlers |-> hd'[k]]
      BY <2>1 DEF Begin
    <3>5. ASSUME NEW k \in Handlers
          PROVE  \/ hd'[k].pc = pc /\ hd'[k].group = g /\ hd'[k].id = i
                 \/ /\ hd'[k].pc = hd[k].pc /\ hd'[k].group = hd[k].group
                    /\ hd'[k].id = hd[k].id /\ hd'[k].next = hd[k].next
      <4>1. CASE hd'[k] = [hd[k] EXCEPT !.alone = FALSE]
        <5>1. hd[k] \in HandlerRecords
          BY <3>1
        <5> QED
          BY <4>1, <5>1 DEF HandlerRecords
      <4> QED
        BY <2>2, <2>3, <4>1
    <3> QED
      BY <2>1, <3>3, <3>4, <3>5 DEF TypeOK, HandlersOK
  <2> QED
    BY <1>0, <2>1, <2>4 DEF Begin, TypeOK, rows
<1> QED
  BY <1>1, <1>2, <1>3, <1>4, StoreType, Steps

(* Type correctness; in particular a handler that marks, inserts or        *)
(* updates a row always has an id for it.                                  *)
THEOREM TypeCorrect == Spec => []TypeOK
  BY TypeInit, TypeStep, PTL DEF Spec

-----------------------------------------------------------------------------
(* What steps do to the handlers                                           *)

BeginFacts(h, g, i, pc) ==
  /\ hd[h].pc = "idle"
  /\ hd'[h].pc = pc /\ hd'[h].group = g /\ hd'[h].id = i
  /\ hd'[h].alone <=> Active(g) = {}
  /\ \A k \in Handlers \ {h} :
       /\ hd'[k].pc = hd[k].pc /\ hd'[k].group = hd[k].group
       /\ hd'[k].id = hd[k].id /\ hd'[k].ver = hd[k].ver
       /\ hd'[k].alone <=> hd[k].alone /\ k \notin Active(g)
  /\ pc = "look" => i \in Ids /\ group[i] = g
  /\ pc # "look" => i = 0
  /\ pc = "seq" => g \notin begun
  /\ begun' = begun \cup {g}
  /\ muddled' = IF Active(g) = {} THEN muddled ELSE muddled \cup {g}
  /\ crossed' = IF Active(g) = {} THEN crossed ELSE crossed \cup {g}
  /\ UNCHANGED <<present, group, version, mark, seq, latest, unlisted>>

LEMMA BeginFact ==
  ASSUME TypeOK, BeginAny
  PROVE  \E h \in Handlers, g \in Groups, i \in Ids \cup {0}, pc \in {"seq", "look", "number"} :
           BeginFacts(h, g, i, pc)
<1>1. PICK h \in Handlers, kind \in {"new", "keep", "make", "as"}, g \in Groups,
           i \in Ids \cup {0}, pc \in {"seq", "look", "number"} :
             /\ Begin(h, kind, g, i, pc)
             /\ pc = "look" => i \in Ids /\ group[i] = g
             /\ pc # "look" => i = 0
             /\ pc = "seq" => g \notin begun
  BY DEF BeginAny
<1>2. /\ hd'[h].pc = pc /\ hd'[h].group = g /\ hd'[h].id = i
      /\ hd'[h].alone <=> Active(g) = {}
  BY <1>1, Zenon DEF Begin
<1>3. ASSUME NEW k \in Handlers \ {h}
      PROVE  /\ hd'[k].pc = hd[k].pc /\ hd'[k].group = hd[k].group
             /\ hd'[k].id = hd[k].id /\ hd'[k].ver = hd[k].ver
             /\ hd'[k].alone <=> hd[k].alone /\ k \notin Active(g)
  <2>1. hd[k] \in HandlerRecords
    BY DEF TypeOK, HandlersOK
  <2>2. hd'[k] = IF k \in Active(g) THEN [hd[k] EXCEPT !.alone = FALSE] ELSE hd[k]
    BY <1>1 DEF Begin
  <2>3. CASE k \in Active(g)
    BY <2>1, <2>2, <2>3 DEF HandlerRecords
  <2>4. CASE k \notin Active(g)
    <3>1. hd[k].alone \in BOOLEAN
      BY <2>1 DEF HandlerRecords
    <3> QED
      BY <2>2, <2>4, <3>1
  <2> QED
    BY <2>3, <2>4
<1>4. BeginFacts(h, g, i, pc)
  BY <1>1, <1>2, <1>3 DEF Begin, BeginFacts, rows
<1> QED
  BY <1>4

LEMMA StoreOthers ==
  ASSUME HandlersOK, NEW h \in Handlers, Store(h)
  PROVE  /\ \A k \in Handlers \ {h} : hd'[k] = hd[k]
         /\ hd[h].pc # "idle"
         /\ hd'[h].pc # "idle" =>
              hd'[h].group = hd[h].group /\ hd'[h].alone = hd[h].alone
         /\ UNCHANGED begun
<1> USE DEF HandlersOK, HandlerRecords, Step, Answer, Numbered, Idle, history
<1>1. CASE Look(h) \/ Number(h) \/ Refuse(h) \/ SeqRead(h)
  BY <1>1 DEF Look, Number, Refuse, SeqRead
<1>2. CASE Update(h) \/ SeqInsert(h) \/ Insert(h) \/ MarkOff(h) \/ MarkOn(h)
  BY <1>2 DEF Update, SeqInsert, Insert, MarkOff, MarkOn
<1> QED
  BY <1>1, <1>2 DEF Store

-----------------------------------------------------------------------------
(* Ids.  The sequence is ahead of every id a row has had or a handler      *)
(* holds, and a handler keeps to the group of its row.                     *)

Holding == {"look", "update", "seq", "taken"}

RowsInv ==
  /\ \A i \in Ids : i > seq => group[i] = None
  /\ \A h \in Handlers : hd[h].id <= seq /\ (hd[h].pc = "number" => hd[h].id = 0)
  /\ \A h \in Handlers :
       hd[h].pc \in Holding /\ hd[h].id # 0 => group[hd[h].id] = hd[h].group
  /\ \A h \in Handlers :
       hd[h].pc \in {"off", "on"} => group[hd[h].id] \in {None, hd[h].group}

IdsInv == TypeOK /\ RowsInv /\ IdsAreFresh

LEMMA IdsInit == Init => IdsInv
<1> SUFFICES ASSUME Init PROVE RowsInv /\ IdsAreFresh
  BY TypeInit DEF IdsInv
<1> QED
  BY DEF Init, RowsInv, IdsAreFresh, Idle, Holding

LEMMA StoreIds ==
  ASSUME IdsInv, NEW h \in Handlers, Store(h)
  PROVE  RowsInv' /\ IdsAreFresh'
<1> USE DEF IdsInv
<1>0. /\ HandlersOK /\ HandlersOK' /\ MaxOps \in Nat
      /\ \A k \in Handlers \ {h} : hd'[k] = hd[k]
      /\ hd \in [Handlers -> HandlerRecords]
      /\ hd[h].group \in Groups /\ seq \in 0..MaxOps
      /\ \A k \in Handlers : /\ hd[k].id \in Ids \cup {0} /\ hd[k].next \in Ids \cup {0}
                             /\ hd[k].pc # "idle" => hd[k].group # None
  BY StoreOthers, StoreHandler, VersionsAssumption DEF TypeOK, HandlersOK, HandlerRecords
<1>1. ASSUME UNCHANGED <<group, seq>>, hd'[h].id \in {0, hd[h].id},
             \/ hd'[h].pc = "idle"
             \/ hd[h].pc = "number" /\ hd'[h].pc = "seq"
             \/ hd[h].pc \in Holding /\ hd'[h].pc \in Holding
                /\ hd'[h].group = hd[h].group
             \/ /\ hd[h].pc \in Holding \cup {"off", "insert"}
                /\ hd'[h].id = hd[h].id /\ hd'[h].id # 0
                /\ hd'[h].pc \in {"off", "on"} /\ hd'[h].group = hd[h].group
      PROVE  RowsInv' /\ IdsAreFresh'
  <2>1. RowsInv'
    BY <1>0, <1>1 DEF RowsInv, Holding, IdsAreFresh
  <2>2. IdsAreFresh'
    BY <1>0, <1>1 DEF RowsInv, Holding, IdsAreFresh
  <2> QED
    BY <2>1, <2>2
<1>2. CASE Look(h) \/ Number(h) \/ Refuse(h) \/ SeqRead(h)
  <2>1. /\ UNCHANGED <<group, seq>> /\ hd'[h].id \in {0, hd[h].id}
        /\ \/ hd'[h].pc = "idle"
           \/ hd[h].pc = "number" /\ hd'[h].pc = "seq"
           \/ hd[h].pc \in Holding /\ hd'[h].pc \in Holding /\ hd'[h].group = hd[h].group
    BY <1>0, <1>2 DEF Look, Number, Refuse, SeqRead, Holding, HandlerRecords, Idle,
                      Answer, Step, rows
  <2> QED
    BY <1>1, <2>1
<1>3. ASSUME UNCHANGED <<group, seq>>,
             \/ Answer(h)
             \/ Step(h, "off") /\ hd[h].pc \in {"update", "insert"}
             \/ Step(h, "off") /\ hd[h].pc = "taken" /\ hd[h].id # 0
             \/ Step(h, "on") /\ hd[h].pc = "off"
      PROVE  RowsInv' /\ IdsAreFresh'
  <2>1. hd[h].pc \in {"update", "insert", "off"} => hd[h].id # 0
    BY <1>0 DEF HandlersOK
  <2>2. /\ hd'[h].id \in {0, hd[h].id}
        /\ \/ hd'[h].pc = "idle"
           \/ /\ hd[h].pc \in Holding \cup {"off", "insert"}
              /\ hd'[h].id = hd[h].id /\ hd'[h].id # 0
              /\ hd'[h].pc \in {"off", "on"} /\ hd'[h].group = hd[h].group
    BY <1>0, <1>3, <2>1 DEF Holding, HandlerRecords, Idle, Answer, Step
  <2> QED
    BY <1>1, <1>3, <2>2
<1>4. CASE Update(h) \/ MarkOff(h) \/ MarkOn(h)
  BY <1>3, <1>4 DEF Update, MarkOff, MarkOn
<1>5. CASE SeqInsert(h)
  <2>1. CASE hd[h].next > seq /\ seq' = hd[h].next /\ Numbered(h)
    <3>1. /\ hd'[h].pc = "insert" /\ hd'[h].id = hd[h].next /\ group' = group
          /\ hd[h].next \in Ids /\ group[hd[h].next] = None
          /\ \A k \in Handlers : hd[k].id < hd[h].next
      BY <1>0, <1>5, <2>1 DEF SeqInsert, Numbered, rows, HandlerRecords, HandlersOK, RowsInv
    <3>2. RowsInv'
      BY <1>0, <2>1, <3>1 DEF RowsInv, Holding
    <3>3. IdsAreFresh'
      BY <1>0, <2>1, <3>1 DEF RowsInv, IdsAreFresh
    <3> QED
      BY <3>2, <3>3
  <2>2. CASE UNCHANGED seq /\ hd[h].id = 0 /\ Answer(h)
    BY <1>3, <1>5, <2>2 DEF SeqInsert, rows
  <2>3. CASE UNCHANGED seq /\ hd[h].id # 0 /\ Step(h, "off")
    BY <1>3, <1>5, <2>3 DEF SeqInsert, rows
  <2> QED
    BY <1>5, <2>1, <2>2, <2>3 DEF SeqInsert
<1>6. CASE Insert(h)
  <2>1. CASE group' = [group EXCEPT ![hd[h].id] = hd[h].group]
    <3>1. /\ hd'[h].pc = "off" /\ hd'[h].id = hd[h].id /\ hd'[h].group = hd[h].group
          /\ hd[h].pc = "insert" /\ hd[h].id \in Ids /\ group[hd[h].id] = None
          /\ hd[h].id <= seq /\ seq' = seq
      BY <1>0, <1>6 DEF Insert, Step, HandlerRecords, HandlersOK, IdsAreFresh, RowsInv
    <3>2. \A i \in Ids : group'[i] = IF i = hd[h].id THEN hd[h].group ELSE group[i]
      BY <2>1 DEF TypeOK
    <3>3. \A k \in Handlers : hd[k].pc \in {"look", "update", "insert", "off", "on"} => hd[k].id \in Ids
      BY DEF TypeOK, HandlersOK
    <3>4. RowsInv'
      BY <1>0, <3>1, <3>2, <3>3 DEF RowsInv, Holding, IdsAreFresh
    <3>5. IdsAreFresh'
      BY <1>0, <3>1, <3>2, <3>3 DEF RowsInv, Holding, IdsAreFresh
    <3> QED
      BY <3>4, <3>5
  <2>2. CASE UNCHANGED rows
    BY <1>3, <1>6, <2>2 DEF Insert, rows
  <2> QED
    BY <1>6, <2>1, <2>2 DEF Insert
<1> QED
  BY <1>2, <1>4, <1>5, <1>6 DEF Store

LEMMA IdsStep ==
  ASSUME IdsInv, [Next]_vars
  PROVE  IdsInv'
<1> USE DEF IdsInv
<1>1. CASE UNCHANGED vars \/ \E i \in Ids : Remove(i)
  BY <1>1, TypeStep DEF vars, rows, Remove, RowsInv, IdsAreFresh
<1>2. CASE Collapse
  BY <1>2, TypeStep DEF Collapse, rows, RowsInv, IdsAreFresh, Idle, Holding, TypeOK
<1>3. CASE BeginAny
  <2>1. PICK h \in Handlers, g \in Groups, i \in Ids \cup {0}, pc \in {"seq", "look", "number"} :
          BeginFacts(h, g, i, pc)
    BY <1>3, BeginFact
  <2>2. i <= seq /\ seq \in Nat /\ i \in Nat
    BY <2>1, VersionsAssumption DEF BeginFacts, RowsInv, TypeOK
  <2>3. RowsInv'
    BY <2>1, <2>2 DEF BeginFacts, RowsInv, Holding
  <2>4. IdsAreFresh'
    BY <2>1 DEF BeginFacts, IdsAreFresh
  <2> QED
    BY <2>3, <2>4, TypeStep
<1> QED
  BY <1>1, <1>2, <1>3, StoreIds, TypeStep, Steps

(* An id is never given to two tasks, however the two statements of        *)
(* newgetsequencenextvalue interleave and whichever of them fail.          *)
THEOREM FreshIds == Spec => []IdsAreFresh
<1>1. IdsInv => IdsAreFresh
  BY DEF IdsInv
<1> QED
  BY <1>1, IdsInit, IdsStep, PTL DEF Spec

-----------------------------------------------------------------------------
(* The list of works                                                       *)

ListedInv == IdsInv /\ GroupIsListed

LEMMA StoreListed ==
  ASSUME ListedInv, NEW h \in Handlers, Store(h)
  PROVE  GroupIsListed'
<1> USE DEF ListedInv, IdsInv
<1>0. /\ HandlersOK
      /\ \A k \in Handlers \ {h} : hd'[k] = hd[k]
      /\ hd[h].group \in Groups /\ hd[h].pc # "idle"
      /\ hd[h].pc \in {"insert", "update", "off", "on"} => hd[h].id \in Ids
      /\ present \subseteq Ids /\ mark \in [Ids -> BOOLEAN] /\ group \in [Ids -> Groups \cup {None}]
  BY StoreOthers DEF TypeOK, HandlersOK
<1>1. ASSUME UNCHANGED <<present, group, unlisted>>, hd[h].pc # "on",
             \A i \in Ids : mark[i] => mark'[i]
      PROVE  GroupIsListed'
  BY <1>0, <1>1 DEF GroupIsListed
<1>2. CASE Look(h) \/ Number(h) \/ Refuse(h) \/ SeqRead(h) \/ SeqInsert(h)
  BY <1>1, <1>2 DEF Look, Number, Refuse, SeqRead, SeqInsert, rows, history
<1>3. CASE Update(h)
  BY <1>0, <1>1, <1>3 DEF Update, history
<1>4. CASE Insert(h)
  <2>1. CASE UNCHANGED rows
    BY <1>1, <1>4, <2>1 DEF Insert, rows, history
  <2>2. CASE /\ present' = present \cup {hd[h].id}
             /\ group' = [group EXCEPT ![hd[h].id] = hd[h].group]
             /\ mark' = [mark EXCEPT ![hd[h].id] = TRUE]
    <3>0. PICK i \in Ids, g \in Groups : i = hd[h].id /\ g = hd[h].group
      BY <1>0, <1>4 DEF Insert
    <3>1. group[i] = None
      BY <1>4, <3>0 DEF Insert, IdsAreFresh
    <3>2. \A j \in Ids : /\ group'[j] = IF j = i THEN g ELSE group[j]
                         /\ mark'[j] = IF j = i THEN TRUE ELSE mark[j]
      BY <1>0, <2>2, <3>0
    <3>3. \A k \in Handlers : hd'[k].pc = "on" <=> hd[k].pc = "on"
      BY <1>0, <1>4 DEF Insert, Step, HandlersOK, HandlerRecords
    <3>4. \A k \in Handlers : hd[k].pc = "on" => hd'[k] = hd[k]
      BY <1>0, <1>4 DEF Insert
    <3>5. unlisted' = unlisted
      BY <1>4 DEF Insert, history
    <3>6. i \in Marked(g)'
      BY <2>2, <3>0, <3>2
    <3>7. ASSUME NEW x \in Groups \ unlisted, x # g,
                 Rows(x)' # {}, \A k \in Active(x)' : hd'[k].pc # "on"
          PROVE  Marked(x)' # {}
      <4>1. Rows(x)' = Rows(x) /\ Marked(x)' = Marked(x)
        BY <1>0, <2>2, <3>0, <3>1, <3>2, <3>7, VersionsAssumption
      <4>2. \A k \in Active(x) : hd[k].pc # "on"
        BY <3>3, <3>4, <3>7
      <4> QED
        BY <3>7, <4>1, <4>2 DEF GroupIsListed
    <3> QED
      BY <3>5, <3>6, <3>7 DEF GroupIsListed
  <2> QED
    BY <1>4, <2>1, <2>2 DEF Insert
<1>5. CASE MarkOff(h)
  <2>1. CASE UNCHANGED mark
    BY <1>1, <1>5, <2>1 DEF MarkOff
  <2>2. CASE Step(h, "on") /\ mark' = [i \in Ids |-> mark[i] /\ i \notin Rows(hd[h].group)]
    <3>1. hd'[h].pc = "on" /\ hd'[h].group = hd[h].group /\ hd[h].pc = "off"
      BY <1>0, <1>5, <2>2 DEF MarkOff, Step, HandlersOK, HandlerRecords
    <3>2. UNCHANGED <<present, group, unlisted>>
      BY <1>5 DEF MarkOff
    <3>3. h \in Active(hd[h].group)' /\ hd'[h].pc = "on"
      BY <3>1
    <3>4. \A x \in Groups : x # hd[h].group => Marked(x)' = Marked(x)
      BY <1>0, <2>2, <3>2
    <3> QED
      BY <1>0, <3>1, <3>2, <3>3, <3>4 DEF GroupIsListed
  <2> QED
    BY <1>5, <2>1, <2>2 DEF MarkOff
<1>6. CASE MarkOn(h)
  <2>0. PICK i \in Ids, g \in Groups :
          /\ i = hd[h].id /\ g = hd[h].group
          /\ hd[h].pc = "on" /\ UNCHANGED <<present, group>>
    BY <1>0, <1>6 DEF MarkOn
  <2>1. CASE i \in present /\ mark' = [mark EXCEPT ![i] = TRUE] /\ unlisted' = unlisted \ {g}
    <3>1. group[i] = g
      BY <2>0, <2>1 DEF RowsInv, TypeOK
    <3>2. i \in Marked(g)'
      BY <1>0, <2>0, <2>1, <3>1
    <3>3. ASSUME NEW x \in Groups \ unlisted, x # g,
                 Rows(x)' # {}, \A k \in Active(x)' : hd'[k].pc # "on"
          PROVE  Marked(x)' # {}
      <4>1. Marked(x)' = Marked(x) /\ Rows(x)' = Rows(x)
        BY <1>0, <2>0, <2>1, <3>1, <3>3
      <4>2. \A k \in Active(x) : hd[k].pc # "on"
        BY <1>0, <2>0, <3>3
      <4> QED
        BY <3>3, <4>1, <4>2 DEF GroupIsListed
    <3> QED
      BY <2>1, <3>2, <3>3 DEF GroupIsListed
  <2>2. CASE UNCHANGED mark /\ unlisted' = unlisted \cup {g}
    <3>1. ASSUME NEW x \in Groups \ unlisted, x # g,
                 Rows(x)' # {}, \A k \in Active(x)' : hd'[k].pc # "on"
          PROVE  Marked(x)' # {}
      <4>1. \A k \in Active(x) : hd[k].pc # "on"
        BY <1>0, <2>0, <3>1
      <4> QED
        BY <2>0, <2>2, <3>1, <4>1 DEF GroupIsListed
    <3> QED
      BY <2>2, <3>1 DEF GroupIsListed
  <2> QED
    BY <1>6, <2>0, <2>1, <2>2 DEF MarkOn
<1> QED
  BY <1>2, <1>3, <1>4, <1>5, <1>6 DEF Store

LEMMA ListedStep ==
  ASSUME ListedInv, [Next]_vars
  PROVE  ListedInv'
<1> USE DEF ListedInv, IdsInv
<1>0. IdsInv'
  BY IdsStep
<1>1. CASE UNCHANGED vars
  BY <1>0, <1>1 DEF vars, rows, history, GroupIsListed
<1>2. CASE Collapse
  <2>1. \A g \in Groups \ unlisted' : g \notin unlisted /\ \A h \in Active(g) : hd[h].pc # "on"
    BY <1>2 DEF Collapse
  <2>2. GroupIsListed'
    BY <1>2, <2>1 DEF Collapse, rows, GroupIsListed
  <2> QED
    BY <1>0, <2>2
<1>3. ASSUME NEW i \in Ids, Remove(i)
      PROVE  GroupIsListed'
  <2>1. \A g \in Groups \ unlisted' : g \notin unlisted /\ (mark[i] => group[i] # g)
    BY <1>3 DEF Remove
  <2>2. \A j \in Ids : j # i => mark'[j] = mark[j]
    BY <1>3 DEF Remove, TypeOK
  <2>3. \A g \in Groups : (mark[i] => group[i] # g) => Marked(g)' = Marked(g)
    <3>1. ASSUME NEW g \in Groups, mark[i] => group[i] # g
          PROVE  Marked(g)' = Marked(g)
      <4>1. \A j \in Marked(g) : j # i /\ j \in Ids
        BY <3>1 DEF TypeOK
      <4>2. \A j \in Marked(g)' : j # i /\ j \in Ids
        BY <1>3 DEF Remove, TypeOK
      <4> QED
        BY <1>3, <2>2, <4>1, <4>2 DEF Remove
    <3> QED
      BY <3>1
  <2>4. \A g \in Groups : Rows(g)' \subseteq Rows(g) /\ Active(g)' = Active(g)
    BY <1>3 DEF Remove
  <2> QED
    BY <1>3, <2>1, <2>3, <2>4 DEF Remove, GroupIsListed
<1>4. CASE BeginAny
  <2>1. PICK h \in Handlers, g \in Groups, i \in Ids \cup {0}, pc \in {"seq", "look", "number"} :
          BeginFacts(h, g, i, pc)
    BY <1>4, BeginFact
  <2>2. \A x \in Groups : (\A k \in Active(x)' : hd'[k].pc # "on") => \A k \in Active(x) : hd[k].pc # "on"
    BY <2>1 DEF BeginFacts
  <2>3. GroupIsListed'
    BY <2>1, <2>2 DEF BeginFacts, GroupIsListed
  <2> QED
    BY <1>0, <2>3
<1> QED
  BY <1>0, <1>1, <1>2, <1>3, <1>4, StoreListed, Steps

(* A work stays in the list as long as its marked row is not deleted and   *)
(* no save of it ends between "all close" and "open one", even if saves of *)
(* it overlap.                                                             *)
THEOREM ListedWorks == Spec => []GroupIsListed
<1>1. Init => ListedInv
  BY IdsInit DEF ListedInv, Init, GroupIsListed
<1>2. ListedInv => GroupIsListed
  BY DEF ListedInv
<1> QED
  BY <1>1, <1>2, ListedStep, PTL DEF Spec

-----------------------------------------------------------------------------
(* The mark                                                                *)

(* Of a group where no saves overlapped or failed half way at most one     *)
(* handler is at work ...                                                  *)
AloneInv ==
  \A g \in Groups : \A h \in Active(g) :
    /\ hd[h].alone => Active(g) = {h}
    /\ g \notin muddled => hd[h].alone

(* ... between its "all close" and "open one" nothing is marked ...        *)
GapInv == \A g \in Groups : \A h \in Active(g) : hd[h].alone /\ hd[h].pc = "on" => Marked(g) = {}

(* ... and until it touches the marks the row opened last has the only one. *)
KeepInv ==
  \A g \in Groups \ muddled :
    latest[g] # None /\ (\A h \in Active(g) : hd[h].pc \notin {"off", "on"})
      => Marked(g) = {latest[g]}

LatestInv == IdsInv /\ AloneInv /\ GapInv /\ KeepInv

LEMMA StepPc ==
  ASSUME HandlersOK, NEW h \in Handlers, NEW pc, Step(h, pc)
  PROVE  hd'[h].pc = pc
<1>1. hd[h] \in HandlerRecords
  BY DEF HandlersOK
<1> QED
  BY <1>1 DEF Step, HandlersOK, HandlerRecords

LEMMA MarksElsewhere ==
  ASSUME IdsInv, NEW h \in Handlers, Store(h), NEW x \in Groups, x # hd[h].group
  PROVE  /\ Marked(x)' = Marked(x) /\ latest'[x] = latest[x]
         /\ x \in muddled' <=> x \in muddled
<1> USE DEF IdsInv
<1>0. /\ hd[h].pc \in {"insert", "update", "off", "on"} => hd[h].id \in Ids
      /\ present \subseteq Ids /\ mark \in [Ids -> BOOLEAN]
      /\ group \in [Ids -> Groups \cup {None}] /\ None \notin Groups
      /\ latest \in [Groups -> Ids \cup {None}]
  BY VersionsAssumption DEF TypeOK, HandlersOK
<1>1. CASE Look(h) \/ Number(h) \/ Refuse(h) \/ SeqRead(h) \/ SeqInsert(h)
  BY <1>1 DEF Look, Number, Refuse, SeqRead, SeqInsert, rows, history
<1>2. CASE Update(h)
  <2>1. hd[h].id \in present => group[hd[h].id] = hd[h].group
    BY <1>0, <1>2 DEF Update, RowsInv, Holding
  <2> QED
    <3>1. hd[h].id \in Ids /\ UNCHANGED <<present, group, latest, muddled>>
      BY <1>0, <1>2 DEF Update, history
    <3>2. \A i \in Ids : i # hd[h].id => mark'[i] = mark[i]
      BY <1>0, <1>2, <3>1 DEF Update
    <3>3. hd[h].id \notin Rows(x)
      BY <2>1
    <3> QED
      BY <1>0, <3>1, <3>2, <3>3
<1>3. CASE Insert(h)
  <2>1. hd[h].id \in Ids /\ group[hd[h].id] = None /\ UNCHANGED <<latest, muddled>>
    BY <1>0, <1>3 DEF Insert, IdsAreFresh, history
  <2>2. CASE UNCHANGED rows
    BY <2>1, <2>2 DEF rows
  <2>3. CASE /\ present' = present \cup {hd[h].id}
             /\ group' = [group EXCEPT ![hd[h].id] = hd[h].group]
             /\ mark' = [mark EXCEPT ![hd[h].id] = TRUE]
    BY <1>0, <2>1, <2>3
  <2> QED
    BY <1>3, <2>2, <2>3 DEF Insert
<1>4. CASE MarkOff(h)
  BY <1>0, <1>4 DEF MarkOff
<1>5. CASE MarkOn(h)
  <2>1. hd[h].id \in present => group[hd[h].id] = hd[h].group
    BY <1>0, <1>5 DEF MarkOn, RowsInv, TypeOK
  <2>2. hd[h].id \in Ids
    BY <1>0, <1>5 DEF MarkOn
  <2>3. CASE /\ hd[h].id \in present
             /\ mark' = [mark EXCEPT ![hd[h].id] = TRUE]
    BY <1>0, <1>5, <2>1, <2>2, <2>3 DEF MarkOn
  <2>4. CASE UNCHANGED <<mark, latest>>
    BY <1>0, <1>5, <2>4 DEF MarkOn
  <2> QED
    BY <1>5, <2>3, <2>4 DEF MarkOn
<1> QED
  BY <1>1, <1>2, <1>3, <1>4, <1>5 DEF Store

LEMMA StoreMarks ==
  ASSUME LatestInv, NEW h \in Handlers, Store(h)
  PROVE  AloneInv' /\ GapInv' /\ KeepInv'
<1> USE DEF LatestInv, IdsInv
<1>0. PICK g \in Groups :
        /\ g = hd[h].group /\ hd[h].pc # "idle"
        /\ \A k \in Handlers \ {h} : hd'[k] = hd[k]
        /\ hd'[h].pc # "idle" => hd'[h].group = g /\ hd'[h].alone = hd[h].alone
  BY StoreOthers DEF TypeOK, HandlersOK
<1>1. /\ hd[h].pc \in {"insert", "update", "off", "on"} => hd[h].id \in Ids
      /\ present \subseteq Ids /\ mark \in [Ids -> BOOLEAN]
      /\ group \in [Ids -> Groups \cup {None}] /\ None \notin Groups
      /\ latest \in [Groups -> Ids \cup {None}]
      /\ hd \in [Handlers -> HandlerRecords] /\ HandlersOK
  BY VersionsAssumption DEF TypeOK, HandlersOK
<1>2. \A x \in Groups : Active(x)' = IF x = g /\ hd'[h].pc = "idle" THEN Active(x) \ {h} ELSE Active(x)
  BY <1>0
<1>3. \A x \in Groups : x # g =>
        /\ Marked(x)' = Marked(x) /\ latest'[x] = latest[x]
        /\ x \in muddled' <=> x \in muddled
        /\ \A k \in Active(x) : hd'[k] = hd[k]
  BY <1>0, MarksElsewhere
<1>4. h \in Active(g)
  BY <1>0
<1>5. g \in muddled => g \in muddled' \/ (MarkOn(h) /\ hd[h].alone)
  BY <1>0 DEF Store, Look, Number, Refuse, SeqRead, SeqInsert, Update, Insert, MarkOff, MarkOn,
              history
<1>6. MarkOn(h) => hd'[h].pc = "idle"
  BY <1>1 DEF MarkOn, Answer, Idle
<1>7. AloneInv'
  <2>1. ASSUME NEW x \in Groups, NEW k \in Active(x)'
        PROVE  hd'[k].alone => Active(x)' = {k}
    <3>1. k \in Active(x) /\ hd'[k].alone = hd[k].alone
      BY <1>0, <1>2, <2>1
    <3>2. hd[k].alone => Active(x) = {k}
      BY <2>1, <3>1 DEF AloneInv
    <3> QED
      BY <1>2, <2>1, <3>1, <3>2
  <2>2. ASSUME NEW x \in Groups, NEW k \in Active(x)', x \notin muddled'
        PROVE  hd'[k].alone
    <3>1. k \in Active(x) /\ hd'[k].alone = hd[k].alone
      BY <1>0, <1>2, <2>2
    <3>2. CASE x \notin muddled
      BY <3>1, <3>2 DEF AloneInv
    <3>3. CASE x \in muddled
      <4>1. x = g /\ Active(g) = {h} /\ hd'[h].pc = "idle"
        BY <1>3, <1>4, <1>5, <1>6, <2>2, <3>3 DEF AloneInv
      <4> QED
        BY <1>2, <2>2, <4>1
    <3> QED
      BY <3>2, <3>3
  <2> QED
    BY <2>1, <2>2 DEF AloneInv
<1>8. GapInv'
  <2> SUFFICES ASSUME NEW x \in Groups, NEW k \in Active(x)', hd'[k].alone, hd'[k].pc = "on"
               PROVE  Marked(x)' = {}
    BY DEF GapInv
  <2>1. k \in Active(x) /\ hd[k].alone
    BY <1>0, <1>2
  <2>2. CASE k # h
    <3>1. x # g
      BY <1>4, <2>1, <2>2 DEF AloneInv
    <3>2. hd[k].pc = "on"
      BY <1>0, <2>1, <2>2
    <3> QED
      BY <1>3, <2>1, <3>1, <3>2 DEF GapInv
  <2>3. CASE k = h
    <3>1. x = g
      BY <1>0, <2>1, <2>3
    <3>2. MarkOff(h) /\ hd'[h].pc # "idle"
      BY <1>0, <1>1, <1>6, <2>3 DEF Store, Look, Number, Refuse, SeqRead, SeqInsert, Update, Insert,
          Step, Answer, Numbered, Idle, HandlerRecords
    <3>3. mark' = [i \in Ids |-> mark[i] /\ i \notin Rows(g)] /\ UNCHANGED <<present, group>>
      BY <1>0, <1>1, <3>2 DEF MarkOff, Answer, Idle
    <3> QED
      BY <1>1, <3>1, <3>3
  <2> QED
    BY <2>2, <2>3
<1>9. KeepInv'
  <2> SUFFICES ASSUME NEW x \in Groups, x \notin muddled', latest'[x] # None,
                      \A k \in Active(x)' : hd'[k].pc \notin {"off", "on"}
               PROVE  Marked(x)' = {latest'[x]}
    BY DEF KeepInv
  <2>1. CASE x # g
    BY <1>2, <1>3, <2>1 DEF KeepInv
  <2>2. CASE x = g
    <3>1. CASE Look(h) \/ Number(h) \/ Refuse(h) \/ SeqRead(h) \/ SeqInsert(h)
      <4>1. /\ UNCHANGED <<rows, latest, muddled>> /\ hd[h].pc \notin {"off", "on"}
        BY <3>1 DEF Look, Number, Refuse, SeqRead, SeqInsert, rows, history
      <4>2. \A k \in Active(x) : hd[k].pc \notin {"off", "on"}
        BY <1>0, <1>2, <4>1
      <4> QED
        BY <4>1, <4>2 DEF KeepInv, rows
    <3>2. CASE Update(h) \/ Insert(h)
      <4>1. hd'[h].pc = "off"
        BY <1>1, <3>2, StepPc DEF Update, Insert
      <4> QED
        BY <1>2, <1>4, <2>2, <4>1
    <3>3. CASE MarkOff(h)
      <4>1. hd'[h].pc = "on" \/ g \in muddled'
        BY <1>0, <1>1, <3>3, StepPc DEF MarkOff
      <4> QED
        BY <1>2, <1>4, <2>2, <4>1
    <3>4. CASE MarkOn(h)
      <4>1. CASE g \in muddled'
        BY <2>2, <4>1
      <4>2. CASE g \notin muddled'
        <5>1. hd[h].alone
          BY <1>4, <1>5, <4>2 DEF AloneInv
        <5>2. PICK i \in present : /\ i = hd[h].id /\ mark' = [mark EXCEPT ![i] = TRUE]
                                  /\ latest' = [latest EXCEPT ![g] = i]
                                  /\ UNCHANGED <<present, group>>
          BY <1>0, <3>4, <4>2 DEF MarkOn
        <5>3. Marked(g) = {} /\ group[i] = g
          BY <1>0, <1>1, <1>4, <3>4, <5>1, <5>2 DEF GapInv, MarkOn, RowsInv, TypeOK
        <5>4. Marked(g)' = {i}
          BY <1>1, <5>2, <5>3
        <5> QED
          BY <1>1, <2>2, <5>2, <5>4
      <4> QED
        BY <4>1, <4>2
    <3> QED
      BY <3>1, <3>2, <3>3, <3>4 DEF Store
  <2> QED
    BY <2>1, <2>2
<1> QED
  BY <1>7, <1>8, <1>9

LEMMA LatestStep ==
  ASSUME LatestInv, [Next]_vars
  PROVE  LatestInv'
<1> USE DEF LatestInv
<1>0. IdsInv' /\ TypeOK
  BY IdsStep DEF IdsInv
<1>1. CASE UNCHANGED vars
  BY <1>0, <1>1 DEF vars, rows, history, AloneInv, GapInv, KeepInv
<1>2. CASE Collapse
  <2>1. \A g \in Groups : Active(g)' = {} /\ (g \notin muddled' => Active(g) = {} /\ g \notin muddled)
    BY <1>2 DEF Collapse, Idle
  <2>2. \A g \in Groups : Marked(g)' = Marked(g)
    BY <1>2 DEF Collapse, rows
  <2> QED
    BY <1>0, <1>2, <2>1, <2>2 DEF Collapse, AloneInv, GapInv, KeepInv
<1>3. ASSUME NEW i \in Ids, Remove(i)
      PROVE  LatestInv'
  <2>1. \A g \in Groups : Marked(g)' \subseteq Marked(g) /\ Active(g)' = Active(g)
    <3>1. \A g \in Groups : \A j \in Marked(g)' : j \in Marked(g)
      <4>1. ASSUME NEW g \in Groups, NEW j \in Marked(g)'
            PROVE  j \in Marked(g)
        <5>1. j # i /\ j \in Ids
          BY <1>0, <1>3, <4>1 DEF Remove, TypeOK
        <5> QED
          BY <1>0, <1>3, <4>1, <5>1 DEF Remove, TypeOK
      <4> QED
        BY <4>1
    <3> QED
      BY <1>3, <3>1 DEF Remove
  <2>2. \A g \in Groups \ muddled' : Marked(g)' = Marked(g) /\ g \notin muddled
    <3>1. \A g \in Groups \ muddled' : g \notin muddled /\ i \notin Marked(g)
      BY <1>3 DEF Remove
    <3>2. \A g \in Groups \ muddled' : \A j \in Marked(g) : j \in Marked(g)'
      <4>1. ASSUME NEW g \in Groups \ muddled', NEW j \in Marked(g)
            PROVE  j \in Marked(g)'
        <5>1. j # i /\ j \in Ids
          BY <1>0, <3>1, <4>1 DEF TypeOK
        <5> QED
          BY <1>0, <1>3, <4>1, <5>1 DEF Remove, TypeOK
      <4> QED
        BY <4>1
    <3> QED
      BY <2>1, <3>1, <3>2
  <2>3. UNCHANGED <<hd, latest>>
    BY <1>3 DEF Remove
  <2> QED
    BY <1>0, <2>1, <2>2, <2>3 DEF AloneInv, GapInv, KeepInv
<1>4. CASE BeginAny
  <2>1. PICK h \in Handlers, g \in Groups, i \in Ids \cup {0}, pc \in {"seq", "look", "number"} :
          BeginFacts(h, g, i, pc)
    BY <1>0, <1>4, BeginFact
  <2>2. \A x \in Groups : /\ Active(x)' = IF x = g THEN Active(x) \cup {h} ELSE Active(x)
                          /\ Marked(x)' = Marked(x)
    BY <2>1 DEF BeginFacts
  <2>3. \A x \in Groups \ muddled' : x \notin muddled /\ (x = g => Active(g) = {})
    BY <2>1 DEF BeginFacts
  <2>4. AloneInv'
    <3> SUFFICES ASSUME NEW x \in Groups, NEW k \in Active(x)'
                 PROVE  /\ hd'[k].alone => Active(x)' = {k}
                        /\ x \notin muddled' => hd'[k].alone
      BY DEF AloneInv
    <3>1. CASE k = h
      BY <2>1, <2>2, <2>3, <3>1 DEF BeginFacts
    <3>2. CASE k # h
      <4>1. k \in Active(x) /\ (hd'[k].alone => hd[k].alone /\ x # g)
        BY <2>1, <2>2, <3>2 DEF BeginFacts
      <4>2. /\ hd[k].alone => Active(x) = {k}
            /\ x \notin muddled => hd[k].alone
        BY <4>1 DEF AloneInv
      <4>3. x # g => (hd'[k].alone <=> hd[k].alone)
        BY <2>1, <3>2, <4>1 DEF BeginFacts
      <4> QED
        BY <2>2, <2>3, <4>1, <4>2, <4>3
    <3> QED
      BY <3>1, <3>2
  <2>5. GapInv'
    <3> SUFFICES ASSUME NEW x \in Groups, NEW k \in Active(x)', hd'[k].alone, hd'[k].pc = "on"
                 PROVE  Marked(x)' = {}
      BY DEF GapInv
    <3>1. k # h
      BY <2>1 DEF BeginFacts
    <3>2. k \in Active(x) /\ hd[k].alone /\ hd[k].pc = "on"
      BY <2>1, <2>2, <3>1 DEF BeginFacts
    <3> QED
      BY <2>2, <3>2 DEF GapInv
  <2>6. KeepInv'
    BY <2>1, <2>2, <2>3 DEF BeginFacts, KeepInv
  <2> QED
    BY <1>0, <2>4, <2>5, <2>6
<1> QED
  BY <1>0, <1>1, <1>2, <1>3, <1>4, StoreMarks, Steps

(* Between saves exactly the row saved last is marked, if no two saves of  *)
(* the group overlapped and none failed half way since.                    *)
THEOREM LatestMarked == Spec => []MarkIsLatest
<1>1. Init => LatestInv
  <2>1. Init => AloneInv /\ GapInv /\ KeepInv
    BY DEF Init, Idle, AloneInv, GapInv, KeepInv
  <2> QED
    BY <2>1, IdsInit DEF LatestInv
<1>2. LatestInv => MarkIsLatest
  BY DEF LatestInv, KeepInv, MarkIsLatest
<1> QED
  BY <1>1, <1>2, LatestStep, PTL DEF Spec

-----------------------------------------------------------------------------
(* Versions                                                                *)

(* Where no saves crossed a group has one handler at most, whose version   *)
(* is larger than those that are there; groups that were never named have  *)
(* no rows.                                                                *)
NumberInv ==
  /\ \A g \in Groups \ crossed : \A h, k \in Active(g) : h = k
  /\ \A g \in Groups \ crossed : \A h \in Active(g) :
       hd[h].pc \in {"seq", "taken", "insert"} => \A i \in Rows(g) : version[i] < hd[h].ver
  /\ \A g \in Groups \ begun : Rows(g) = {} /\ Active(g) = {}

DifferInv == IdsInv /\ NumberInv /\ VersionsDiffer

LEMMA StoreVersions ==
  ASSUME DifferInv, NEW h \in Handlers, Store(h)
  PROVE  NumberInv' /\ VersionsDiffer'
<1> USE DEF DifferInv, IdsInv
<1>0. PICK g \in Groups :
        /\ g = hd[h].group /\ hd[h].pc # "idle"
        /\ \A k \in Handlers \ {h} : hd'[k] = hd[k]
        /\ hd'[h].pc # "idle" => hd'[h].group = g
        /\ UNCHANGED begun
  BY StoreOthers DEF TypeOK, HandlersOK
<1>1. /\ hd[h].pc \in {"insert", "update", "off", "on"} => hd[h].id \in Ids
      /\ present \subseteq Ids /\ version \in [Ids -> Nat]
      /\ group \in [Ids -> Groups \cup {None}] /\ None \notin Groups
      /\ hd \in [Handlers -> HandlerRecords] /\ HandlersOK
      /\ hd[h].ver \in Nat /\ hd[h] \in HandlerRecords
  BY VersionsAssumption DEF TypeOK, HandlersOK, HandlerRecords
<1>2. \A x \in Groups : Active(x)' = IF x = g /\ hd'[h].pc = "idle" THEN Active(x) \ {h} ELSE Active(x)
  BY <1>0
<1>3. h \in Active(g) /\ g \in begun
  BY <1>0 DEF NumberInv
<1>4. crossed \subseteq crossed'
  BY DEF Store, Look, Number, Refuse, SeqRead, SeqInsert, Update, Insert, MarkOff, MarkOn, history
<1>5. ASSUME UNCHANGED <<present, group, version>>,
             hd'[h].pc \in {"seq", "taken", "insert"} =>
               \/ hd[h].pc \in {"seq", "taken"} /\ hd'[h].ver = hd[h].ver
               \/ \A i \in Rows(g) : version[i] < hd'[h].ver
               \/ g \in crossed'
      PROVE  NumberInv' /\ VersionsDiffer'
  <2>1. \A x \in Groups : Rows(x)' = Rows(x)
    BY <1>5
  <2>2. ASSUME NEW x \in Groups \ crossed', NEW k \in Active(x)',
               hd'[k].pc \in {"seq", "taken", "insert"}, NEW i \in Rows(x)
        PROVE  version[i] < hd'[k].ver
    <3>1. k \in Active(x) /\ x \notin crossed
      BY <1>2, <1>4, <2>2
    <3>2. CASE k = h
      <4>1. x = g
        BY <1>0, <3>1, <3>2
      <4> QED
        BY <1>5, <2>2, <3>1, <3>2, <4>1 DEF NumberInv
    <3>3. CASE k # h
      BY <1>0, <2>2, <3>1, <3>3 DEF NumberInv
    <3> QED
      BY <3>2, <3>3
  <2>3. NumberInv'
    BY <1>0, <1>2, <1>4, <1>5, <2>1, <2>2 DEF NumberInv
  <2>4. VersionsDiffer'
    BY <1>4, <1>5, <2>1 DEF VersionsDiffer
  <2> QED
    BY <2>3, <2>4
<1>6. CASE Look(h) \/ Refuse(h) \/ SeqRead(h) \/ SeqInsert(h) \/ Update(h) \/ MarkOff(h) \/ MarkOn(h)
  <2>1. UNCHANGED <<present, group, version>>
    BY <1>6 DEF Look, Refuse, SeqRead, SeqInsert, Update, MarkOff, MarkOn, rows
  <2>2. hd'[h].pc \in {"seq", "taken", "insert"} =>
          \/ hd[h].pc \in {"seq", "taken"} /\ hd'[h].ver = hd[h].ver
          \/ g \in crossed'
    <3>1. CASE Look(h)
      BY <1>0, <1>1, <3>1, StepPc DEF Look
    <3>2. CASE Refuse(h) \/ SeqRead(h) \/ SeqInsert(h)
      BY <1>1, <3>2, StepPc DEF Refuse, SeqRead, SeqInsert, Answer, Idle, Numbered, HandlerRecords
    <3>3. CASE Update(h) \/ MarkOff(h) \/ MarkOn(h)
      BY <1>1, <3>3, StepPc DEF Update, MarkOff, MarkOn, Answer, Idle
    <3> QED
      BY <1>6, <3>1, <3>2, <3>3
  <2> QED
    BY <1>5, <2>1, <2>2
<1>7. CASE Number(h)
  <2>1. UNCHANGED <<present, group, version>>
    BY <1>7 DEF Number, rows
  <2>2. (\A i \in Rows(g) : version[i] < hd'[h].ver) \/ g \in crossed'
    <3>1. CASE g \in crossed'
      BY <3>1
    <3>2. CASE g \notin crossed'
      <4>1. PICK i \in Rows(g) : /\ \A j \in Rows(g) : version[j] <= version[i]
                                /\ hd' = [hd EXCEPT ![h].pc = "seq", ![h].ver = version[i] + 1]
        BY <1>0, <1>7, <3>2 DEF Number
      <4>2. hd'[h].ver = version[i] + 1
        BY <1>1, <4>1 DEF HandlerRecords
      <4>3. \A j \in Rows(g) : version[j] \in Nat
        BY <1>1
      <4> QED
        BY <4>1, <4>2, <4>3
    <3> QED
      BY <3>1, <3>2
  <2> QED
    BY <1>5, <2>1, <2>2
<1>8. CASE Insert(h)
  <2>0. hd[h].pc = "insert" /\ hd'[h].pc = "off" /\ crossed' = crossed
    BY <1>1, <1>8, StepPc DEF Insert, history
  <2>1. CASE UNCHANGED rows
    BY <1>5, <2>0, <2>1 DEF rows
  <2>2. CASE /\ present' = present \cup {hd[h].id}
             /\ group' = [group EXCEPT ![hd[h].id] = hd[h].group]
             /\ version' = [version EXCEPT ![hd[h].id] = hd[h].ver]
    <3>1. PICK i \in Ids, v \in Nat : i = hd[h].id /\ v = hd[h].ver
      BY <1>1, <2>0
    <3>2. group[i] = None
      BY <2>0, <3>1 DEF IdsAreFresh
    <3>3. \A x \in Groups : Rows(x)' = IF x = g THEN Rows(x) \cup {i} ELSE Rows(x)
      BY <1>0, <1>1, <2>2, <3>1, <3>2
    <3>4. \A j \in Ids : version'[j] = IF j = i THEN v ELSE version[j]
      BY <1>1, <2>2, <3>1
    <3>5. \A x \in Groups : i \notin Rows(x) /\ Rows(x) \subseteq Ids
      BY <1>1, <3>2
    <3>6. g \notin crossed => \A j \in Rows(g) : version[j] < v
      BY <1>3, <2>0, <3>1 DEF NumberInv
    <3>7. VersionsDiffer'
      <4> SUFFICES ASSUME NEW x \in Groups \ crossed, NEW j \in Rows(x)', NEW k \in Rows(x)',
                          version'[j] = version'[k]
                   PROVE  j = k
        BY <2>0 DEF VersionsDiffer
      <4>1. CASE j \in Rows(x) /\ k \in Rows(x)
        BY <3>4, <3>5, <4>1 DEF VersionsDiffer
      <4>2. CASE x = g /\ (j = i \/ k = i)
        <5>1. \A l \in Rows(g) : version'[l] < v /\ version'[l] \in Nat
          BY <1>1, <3>4, <3>5, <3>6, <4>2
        <5> QED
          BY <3>3, <3>4, <4>2, <5>1
      <4> QED
        BY <3>3, <4>1, <4>2
    <3>8. NumberInv'
      <4>1. ASSUME NEW x \in Groups \ crossed', NEW k \in Active(x)',
                   hd'[k].pc \in {"seq", "taken", "insert"}, NEW j \in Rows(x)'
            PROVE  version'[j] < hd'[k].ver
        <5>1. k \in Active(x) /\ k # h /\ hd'[k] = hd[k]
          BY <1>0, <1>2, <2>0, <4>1
        <5>2. x # g
          BY <1>3, <2>0, <5>1 DEF NumberInv
        <5> QED
          BY <2>0, <3>3, <3>4, <3>5, <4>1, <5>1, <5>2 DEF NumberInv
      <4>2. \A x \in Groups \ begun' : Rows(x)' = {} /\ Active(x)' = {}
        BY <1>0, <1>2, <1>3, <3>3 DEF NumberInv
      <4> QED
        BY <1>2, <2>0, <4>1, <4>2 DEF NumberInv
    <3> QED
      BY <3>7, <3>8
  <2> QED
    BY <1>8, <2>1, <2>2 DEF Insert
<1> QED
  BY <1>6, <1>7, <1>8 DEF Store

LEMMA DifferStep ==
  ASSUME DifferInv, [Next]_vars
  PROVE  DifferInv'
<1> USE DEF DifferInv
<1>0. IdsInv' /\ TypeOK
  BY IdsStep DEF IdsInv
<1>1. CASE UNCHANGED vars
  BY <1>0, <1>1 DEF vars, rows, history, NumberInv, VersionsDiffer
<1>2. CASE Collapse
  <2>1. \A g \in Groups : Active(g)' = {}
    BY <1>2 DEF Collapse, Idle
  <2> QED
    BY <1>0, <1>2, <2>1 DEF Collapse, rows, NumberInv, VersionsDiffer
<1>3. ASSUME NEW i \in Ids, Remove(i)
      PROVE  DifferInv'
  <2>1. /\ UNCHANGED <<hd, version, begun, crossed>>
        /\ \A g \in Groups : Rows(g)' \subseteq Rows(g)
    BY <1>3 DEF Remove
  <2> QED
    BY <1>0, <2>1 DEF NumberInv, VersionsDiffer
<1>4. CASE BeginAny
  <2>1. PICK h \in Handlers, g \in Groups, i \in Ids \cup {0}, pc \in {"seq", "look", "number"} :
          BeginFacts(h, g, i, pc)
    BY <1>0, <1>4, BeginFact
  <2>2. \A x \in Groups : /\ Active(x)' = IF x = g THEN Active(x) \cup {h} ELSE Active(x)
                          /\ Rows(x)' = Rows(x)
    BY <2>1 DEF BeginFacts
  <2>3. \A x \in Groups \ crossed' : x \notin crossed /\ (x = g => Active(g) = {})
    BY <2>1 DEF BeginFacts
  <2>4. VersionsDiffer'
    BY <2>1, <2>2, <2>3 DEF BeginFacts, VersionsDiffer
  <2>5. NumberInv'
    <3>1. ASSUME NEW x \in Groups \ crossed', NEW k \in Active(x)',
                 hd'[k].pc \in {"seq", "taken", "insert"}, NEW j \in Rows(x)
          PROVE  version[j] < hd'[k].ver
      <4>1. CASE k = h
        <5>1. pc = "seq" /\ x = g
          BY <2>1, <3>1, <4>1 DEF BeginFacts
        <5> QED
          BY <2>1, <3>1, <5>1 DEF BeginFacts, NumberInv
      <4>2. CASE k # h
        <5>1. k \in Active(x) /\ hd'[k].pc = hd[k].pc /\ hd'[k].ver = hd[k].ver
          BY <2>1, <2>2, <4>2 DEF BeginFacts
        <5> QED
          BY <2>3, <3>1, <5>1 DEF NumberInv
      <4> QED
        BY <4>1, <4>2
    <3>2. \A x \in Groups \ begun' : Rows(x)' = {} /\ Active(x)' = {}
      BY <2>1, <2>2 DEF BeginFacts, NumberInv
    <3>3. \A x \in Groups \ crossed' : \A k, l \in Active(x)' : k = l
      BY <2>2, <2>3 DEF NumberInv
    <3>4. version' = version
      BY <2>1 DEF BeginFacts
    <3> QED
      BY <2>2, <3>1, <3>2, <3>3, <3>4 DEF NumberInv
  <2> QED
    BY <1>0, <2>4, <2>5
<1>5. ASSUME NEW h \in Handlers, Store(h)
      PROVE  DifferInv'
  BY <1>0, <1>5, StoreVersions
<1> QED
  BY <1>0, <1>1, <1>2, <1>3, <1>4, <1>5, Steps

(* No two rows of a group have the same version unless saves of the group  *)
(* overlapped, a deleted task was saved again, or a query failed.          *)
THEOREM DifferentVersions == Spec => []VersionsDiffer
<1>1. Init => DifferInv
  <2>1. Init => NumberInv /\ VersionsDiffer
    BY DEF Init, Idle, NumberInv, VersionsDiffer
  <2> QED
    BY <2>1, IdsInit DEF DifferInv
<1>2. DifferInv => VersionsDiffer
  BY DEF DifferInv
<1> QED
  BY <1>1, <1>2, DifferStep, PTL DEF Spec

=============================================================================
