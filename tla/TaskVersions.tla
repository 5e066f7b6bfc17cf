---------------------------- MODULE TaskVersions ----------------------------
(***************************************************************************)
(* Ids, versions and edit marks of tasks.  A task is a row of sbt_doctask; *)
(* the rows of one group are versions of one work, and the row edited last *)
(* is marked (islastedit): the list of works shows marked rows only.       *)
(* SaveTask and VideoMake store a row in several statements: look whether  *)
(* it exists, find the next version, take an id from the sequence table,   *)
(* insert or update the row, close all marks of the group, open one.       *)
(*                                                                         *)
(* Handlers of all server processes are alike here.  Clients name a task   *)
(* together with the group and the version they were told.                 *)
(***************************************************************************)
EXTENDS Naturals, FiniteSets

CONSTANTS
  Groups,       (* TaskGroupID, GUIDs                                      *)
  Handlers,     (* HTTP handler threads                                    *)
  None,
  Env,          (* circumstances: "db", a statement fails; "crash"         *)
  MaxOps        (* bound on the requests                                   *)

ASSUME VersionsAssumption ==
  MaxOps \in Nat /\ None \notin Nat \cup Groups /\ Env \subseteq {"db", "crash"}

Ids == 1..MaxOps

VARIABLES
  present,      (* the rows there are                                      *)
  group,        (* column groupid; kept for rows that were deleted         *)
  version,      (* column version                                          *)
  mark,         (* column islastedit                                       *)
  seq,          (* the largest id in the sequence table                    *)
  hd,           (* HTTP handlers                                           *)
  ops,          (* requests made so far                                    *)
  \* history
  begun,        (* groups ever named in a request                          *)
  latest,       (* the row of a group that settasklastedit opened last     *)
  muddled,      (* groups edited by two at a time, or incompletely         *)
  unlisted,     (* groups whose marked row was deleted or never opened     *)
  crossed       (* groups where a version was chosen from stale knowledge  *)

rows == <<present, group, version, mark>>
history == <<begun, latest, muddled, unlisted, crossed>>
vars == <<rows, seq, hd, ops, history>>

Idle == [pc |-> "idle", kind |-> "new", id |-> 0, next |-> 0, group |-> None, ver |-> 0,
         alone |-> FALSE]

Init ==
  /\ present = {} /\ seq = 0 /\ ops = 0
  /\ group = [i \in Ids |-> None]
  /\ version = [i \in Ids |-> 0]
  /\ mark = [i \in Ids |-> FALSE]
  /\ hd = [h \in Handlers |-> Idle]
  /\ begun = {} /\ muddled = {} /\ unlisted = {} /\ crossed = {}
  /\ latest = [g \in Groups |-> None]

Fails == "db" \in Env

Rows(g) == {i \in present : group[i] = g}
Marked(g) == {i \in Rows(g) : mark[i]}
Active(g) == {h \in Handlers : hd[h].pc # "idle" /\ hd[h].group = g}

Step(h, pc) == hd' = [hd EXCEPT ![h].pc = pc]
Answer(h) == hd' = [hd EXCEPT ![h] = Idle]

-----------------------------------------------------------------------------
(* A request to store a task begins.  Whoever is at work on the group as   *)
(* well makes it an overlap for both.                                      *)
Begin(h, kind, g, i, pc) ==
  /\ hd[h].pc = "idle" /\ ops < MaxOps
  /\ ops' = ops + 1
  /\ begun' = begun \cup {g}
  /\ hd' = [k \in Handlers |->
       IF k = h THEN [pc |-> pc, kind |-> kind, id |-> i, next |-> 0, group |-> g, ver |-> 0,
                      alone |-> Active(g) = {}]
       ELSE IF k \in Active(g) THEN [hd[k] EXCEPT !.alone = FALSE]
       ELSE hd[k]]
  /\ IF Active(g) = {}
     THEN UNCHANGED <<muddled, crossed>>
     ELSE muddled' = muddled \cup {g} /\ crossed' = crossed \cup {g}
  /\ UNCHANGED <<rows, seq, latest, unlisted>>

(* Without a task id: a new work, in a group with a fresh GUID.            *)
BeginNew(h, g) == g \notin begun /\ Begin(h, "new", g, 0, "seq")

(* With the id of a task: SaveTask with SaveType 0, and VideoMake.         *)
BeginKeep(h, i) == group[i] # None /\ Begin(h, "keep", group[i], i, "look")
BeginMake(h, i) == group[i] # None /\ Begin(h, "make", group[i], i, "look")

(* SaveTask with SaveType 1: a new version of a group.                     *)
BeginAs(h, g) == Begin(h, "as", g, 0, "number")

(* isexisttask_taskid; it also says no when it cannot connect.  A task     *)
(* that is not there becomes a new row with version 0; SaveTask forgets    *)
(* the id, VideoMake does not.                                             *)
Look(h) ==
  /\ hd[h].pc = "look"
  /\ \/ /\ hd[h].id \in present
        /\ Step(h, "update") /\ UNCHANGED crossed
     \/ /\ hd[h].id \notin present \/ Fails
        /\ hd' = [hd EXCEPT ![h].pc = "seq", ![h].id = IF hd[h].kind = "make" THEN @ ELSE 0]
        /\ crossed' = crossed \cup {hd[h].group}
  /\ UNCHANGED <<rows, seq, ops, begun, latest, muddled, unlisted>>

(* Mutant of Number: the versions are counted.                             *)
NumberCount(h) ==
  /\ hd[h].pc = "number" /\ Rows(hd[h].group) # {}
  /\ hd' = [hd EXCEPT ![h].pc = "seq", ![h].ver = Cardinality(Rows(hd[h].group))]
  /\ UNCHANGED <<rows, seq, ops, history>>

(* gettasknextversion: the largest version of the group and 1; 0 when the  *)
(* statement fails.  The largest of no rows is NULL, see Collapse.         *)
Number(h) ==
  /\ hd[h].pc = "number"
  /\ \/ \E i \in Rows(hd[h].group) :
          /\ \A j \in Rows(hd[h].group) : version[j] <= version[i]
          /\ hd' = [hd EXCEPT ![h].pc = "seq", ![h].ver = version[i] + 1]
          /\ UNCHANGED crossed
     \/ /\ Fails
        /\ Step(h, "seq")
        /\ crossed' = crossed \cup {hd[h].group}
  /\ UNCHANGED <<rows, seq, ops, begun, latest, muddled, unlisted>>

(* "task is running": the request is refused before anything is written;   *)
(* VideoMake asks before it looks, SaveTask afterwards.                    *)
Refuse(h) ==
  /\ \/ hd[h].kind = "make" /\ hd[h].pc = "look"
     \/ hd[h].kind = "keep" /\ hd[h].pc = "update"
  /\ Answer(h)
  /\ UNCHANGED <<rows, seq, ops, history>>

(* addtaskinfo, UPDATE: the row is marked with its other columns; groupid  *)
(* and, for these clients, version stay.                                   *)
Update(h) ==
  /\ hd[h].pc = "update"
  /\ \/ mark' = [mark EXCEPT ![hd[h].id] = hd[h].id \in present \/ @]
     \/ Fails /\ UNCHANGED mark
  /\ Step(h, "off")
  /\ UNCHANGED <<present, group, version, seq, ops, history>>

(* newgetsequencenextvalue reads the largest id handed out ...  (MaxOps     *)
(* bounds the ids, too; a request takes no more than one.)                 *)
SeqRead(h) ==
  /\ hd[h].pc = "seq" /\ seq < MaxOps
  /\ hd' = [hd EXCEPT ![h].pc = "taken", ![h].next = seq + 1]
  /\ UNCHANGED <<rows, seq, ops, history>>

Numbered(h) == hd' = [hd EXCEPT ![h].pc = "insert", ![h].id = hd[h].next]

(* Mutants of SeqInsert: a task without an id is marked all the same; and  *)
(* whether the insert succeeded is not looked at.                          *)
SeqInsertGoesOn(h) ==
  /\ hd[h].pc = "taken"
  /\ \/ hd[h].next > seq /\ seq' = hd[h].next /\ Numbered(h)
     \/ (hd[h].next <= seq \/ Fails) /\ Step(h, "off") /\ UNCHANGED seq
  /\ UNCHANGED <<rows, ops, history>>

SeqInsertUnchecked(h) ==
  /\ hd[h].pc = "taken"
  /\ seq' = hd[h].next /\ Numbered(h)
  /\ UNCHANGED <<rows, ops, history>>

(* ... and inserts the next one, the key of its table.  When that fails    *)
(* nothing is stored, but VideoMake may still hold the id it was given:    *)
(* settasklastedit does nothing for a task id of 0 only.                   *)
SeqInsert(h) ==
  /\ hd[h].pc = "taken"
  /\ \/ hd[h].next > seq /\ seq' = hd[h].next /\ Numbered(h)
     \/ /\ hd[h].next <= seq \/ Fails
        /\ IF hd[h].id = 0 THEN Answer(h) ELSE Step(h, "off")
        /\ UNCHANGED seq
  /\ UNCHANGED <<rows, ops, history>>

(* addtaskinfo, INSERT.  When it fails the handler keeps the id.           *)
Insert(h) ==
  LET i == hd[h].id IN
  /\ hd[h].pc = "insert"
  /\ \/ /\ present' = present \cup {i}
        /\ group' = [group EXCEPT ![i] = hd[h].group]
        /\ version' = [version EXCEPT ![i] = hd[h].ver]
        /\ mark' = [mark EXCEPT ![i] = TRUE]
     \/ Fails /\ UNCHANGED rows
  /\ Step(h, "off")
  /\ UNCHANGED <<seq, ops, history>>

(* Mutants of MarkOff: only the row itself is closed; all marks are closed *)
(* and that is all.                                                        *)
MarkOffOne(h) ==
  /\ hd[h].pc = "off"
  /\ mark' = [mark EXCEPT ![hd[h].id] = FALSE]
  /\ Step(h, "on")
  /\ UNCHANGED <<present, group, version, seq, ops, history>>

MarkOffOnly(h) ==
  /\ hd[h].pc = "off"
  /\ mark' = [i \in Ids |-> mark[i] /\ i \notin Rows(hd[h].group)]
  /\ Answer(h)
  /\ UNCHANGED <<present, group, version, seq, ops, history>>

(* settasklastedit closes the marks of the group ("all close") ...         *)
MarkOff(h) ==
  /\ hd[h].pc = "off"
  /\ \/ /\ mark' = [i \in Ids |-> mark[i] /\ i \notin Rows(hd[h].group)]
        /\ Step(h, "on") /\ UNCHANGED muddled
     \/ /\ Fails /\ UNCHANGED mark
        /\ Answer(h)
        /\ muddled' = muddled \cup {hd[h].group}
  /\ UNCHANGED <<present, group, version, seq, ops, begun, latest, unlisted, crossed>>

(* ... and opens one ("open one task"); the row may be gone by then.       *)
MarkOn(h) ==
  LET g == hd[h].group
      i == hd[h].id IN
  /\ hd[h].pc = "on"
  /\ \/ /\ i \in present
        /\ mark' = [mark EXCEPT ![i] = TRUE]
        /\ latest' = [latest EXCEPT ![g] = i]
        /\ muddled' = IF hd[h].alone THEN muddled \ {g} ELSE muddled
        /\ unlisted' = unlisted \ {g}
     \/ /\ i \notin present \/ Fails
        /\ muddled' = muddled \cup {g} /\ unlisted' = unlisted \cup {g}
        /\ UNCHANGED <<mark, latest>>
  /\ Answer(h)
  /\ UNCHANGED <<present, group, version, seq, ops, begun, crossed>>

(* RemoveTask: one DELETE.  Nobody else of the group is marked instead.    *)
Remove(i) ==
  /\ i \in present /\ ops < MaxOps
  /\ ops' = ops + 1
  /\ present' = present \ {i}
  /\ mark' = [mark EXCEPT ![i] = FALSE]
  /\ IF mark[i]
     THEN muddled' = muddled \cup {group[i]} /\ unlisted' = unlisted \cup {group[i]}
     ELSE UNCHANGED <<muddled, unlisted>>
  /\ UNCHANGED <<group, version, seq, hd, begun, latest, crossed>>

(* The process ends: because it was stopped, or because atoi was given the *)
(* NULL that is the largest version of an empty group.                     *)
Collapse ==
  /\ \/ "crash" \in Env
     \/ \E h \in Handlers : hd[h].pc = "number" /\ Rows(hd[h].group) = {}
  /\ hd' = [h \in Handlers |-> Idle]
  /\ muddled' = muddled \cup {g \in Groups : Active(g) # {}}
  /\ unlisted' = unlisted \cup {g \in Groups : \E h \in Active(g) : hd[h].pc = "on"}
  /\ UNCHANGED <<rows, seq, ops, begun, latest, crossed>>

Store(h) ==
  \/ Look(h) \/ Number(h) \/ Refuse(h) \/ Update(h) \/ SeqRead(h) \/ SeqInsert(h)
  \/ Insert(h) \/ MarkOff(h) \/ MarkOn(h)

Next ==
  \/ Collapse
  \/ \E i \in Ids : Remove(i)
  \/ \E h \in Handlers :
       \/ Store(h)
       \/ \E g \in Groups : BeginNew(h, g) \/ BeginAs(h, g)
       \/ \E i \in Ids : BeginKeep(h, i) \/ BeginMake(h, i)

Spec == Init /\ [][Next]_vars

-----------------------------------------------------------------------------
HandlerRecords ==
  [pc : {"idle", "look", "number", "update", "seq", "taken", "insert", "off", "on"},
   kind : {"new", "keep", "make", "as"}, id : Ids \cup {0}, next : Ids \cup {0},
   group : Groups \cup {None}, ver : Nat, alone : BOOLEAN]

(* A handler at work has a group, and the id of the row it works on, which *)
(* is never the 0 of a task that could not be stored.                      *)
HandlersOK ==
  /\ hd \in [Handlers -> HandlerRecords]
  /\ \A h \in Handlers :
       /\ hd[h].pc # "idle" => hd[h].group \in Groups
       /\ hd[h].pc \in {"look", "update", "insert", "off", "on"} => hd[h].id \in Ids
       /\ hd[h].pc = "taken" => hd[h].next \in Ids

(* The type invariant; in particular nothing is marked, inserted or        *)
(* updated for a task that has no id (digitalmysql.cpp:2617, 3217).        *)
TypeOK ==
  /\ present \subseteq Ids /\ \A i \in present : group[i] # None
  /\ group \in [Ids -> Groups \cup {None}]
  /\ version \in [Ids -> Nat]
  /\ mark \in [Ids -> BOOLEAN]
  /\ seq \in 0..MaxOps /\ ops \in 0..MaxOps
  /\ HandlersOK
  /\ begun \subseteq Groups /\ muddled \subseteq Groups
  /\ unlisted \subseteq Groups /\ crossed \subseteq Groups
  /\ latest \in [Groups -> Ids \cup {None}]

(* An id is never given to two tasks, not even to one that was deleted:    *)
(* a handler about to insert has an id no row ever had and no other        *)
(* handler holds, although reading the sequence and advancing it are two   *)
(* statements (digitalmysql.cpp:94, 113).                                  *)
IdsAreFresh ==
  \A h \in Handlers : hd[h].pc = "insert" =>
    /\ group[hd[h].id] = None
    /\ \A k \in Handlers \ {h} : hd[k].pc \in {"insert", "off", "on"} => hd[k].id # hd[h].id

(* A work does not disappear from the list: between saves a group with     *)
(* rows has a marked one, even if saves of it overlapped, unless the       *)
(* marked row was deleted or a save ended between its two statements       *)
(* (digitalmysql.cpp:3238-3242; the list is made at 3442).                 *)
GroupIsListed ==
  \A g \in Groups \ unlisted :
    Rows(g) # {} /\ (\A h \in Active(g) : hd[h].pc # "on") => Marked(g) # {}

(* Between saves exactly the row that was saved last is marked, if no two  *)
(* saves overlapped and none failed half way since ("open one task").      *)
MarkIsLatest ==
  \A g \in Groups \ muddled :
    Active(g) = {} /\ latest[g] # None => Marked(g) = {latest[g]}

(* No two rows of a group have the same version ("最大版本号+1"), unless     *)
(* saves of the group overlapped, a deleted task was saved again, or a     *)
(* query failed.                                                           *)
VersionsDiffer ==
  \A g \in Groups \ crossed : \A i, j \in Rows(g) : version[i] = version[j] => i = j
=============================================================================
