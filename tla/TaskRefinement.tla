-------------------------- MODULE TaskRefinement --------------------------
(***************************************************************************)
(* The dispatcher implements TaskLifecycle.  The phase of a task is what   *)
(* its row says, except that a row whose request has not set the state yet *)
(* is still being written; its holder is the server whose sender has       *)
(* claimed the row and has not let go of it.                               *)
(***************************************************************************)
EXTENDS TaskDispatch

PhaseOf(state) ==
  CASE state = "saved" -> "draft"
    [] state = "waiting" -> "queued"
    [] state = "merging" -> "running"
    [] OTHER -> state

BeingWritten(t) == \E h \in Handlers : hd[h].pc = "state" /\ hd[h].task = t

Lifecycle == INSTANCE TaskLifecycle WITH
  phase  <- [t \in Tasks |->
               IF Exists(t) /\ BeingWritten(t) THEN "draft" ELSE PhaseOf(dbState[t])],
  holder <- [t \in Tasks |->
               IF \E s \in Servers : Holds(s, t)
               THEN CHOOSE s \in Servers : Holds(s, t)
               ELSE None]

(* Every task lives the life TaskLifecycle describes, with requests from   *)
(* several handlers and two servers at work.                               *)
ImplementsLifecycle == Lifecycle!Spec
=============================================================================
