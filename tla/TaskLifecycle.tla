--------------------------- MODULE TaskLifecycle ---------------------------
(***************************************************************************)
(* What the dispatcher promises of a task, without saying how: a task that *)
(* is submitted is queued, one server at a time holds it, an actor runs it *)
(* at most once per submission, it is settled once, and only its client    *)
(* takes it out of a settled state again.                                  *)
(***************************************************************************)
CONSTANTS Tasks, Servers, None

VARIABLES
  phase,        (* where the task is in its life                           *)
  holder        (* the server that is dispatching it                       *)

Phases == {"unborn", "draft", "queued", "running", "success", "failed", "deleted"}

Init ==
  /\ phase = [t \in Tasks |-> "unborn"]
  /\ holder = [t \in Tasks |-> None]

Move(t, p) == phase' = [phase EXCEPT ![t] = p]
Hold(t, s) == holder' = [holder EXCEPT ![t] = s]

(* The client writes the task, and queues what it has written.             *)
Write(t) ==
  /\ phase[t] \in {"unborn", "success", "failed"}
  /\ holder[t] = None
  /\ Move(t, "draft") /\ UNCHANGED holder

Submit(t) ==
  /\ phase[t] = "draft" /\ holder[t] = None
  /\ Move(t, "queued") /\ UNCHANGED holder

(* One server takes a queued task that nobody holds, and lets go of it.    *)
Claim(s, t) ==
  /\ phase[t] = "queued" /\ holder[t] = None
  /\ \A u \in Tasks : holder[u] # s
  /\ Hold(t, s) /\ UNCHANGED phase

LetGo(s, t) ==
  /\ holder[t] = s
  /\ Hold(t, None) /\ UNCHANGED phase

(* An actor takes the task from its holder.                                *)
Start(s, t) ==
  /\ phase[t] = "queued" /\ holder[t] = s
  /\ Move(t, "running") /\ UNCHANGED holder

(* The result: of an actor that runs the task, or one it gave right away.  *)
Settle(t) ==
  /\ \/ phase[t] = "running" /\ (Move(t, "success") \/ Move(t, "failed"))
     \/ phase[t] = "queued" /\ holder[t] # None /\ Move(t, "success")
  /\ UNCHANGED holder

Remove(t) ==
  /\ phase[t] # "unborn"
  /\ Move(t, "deleted") /\ UNCHANGED holder

Next ==
  \E t \in Tasks :
    \/ Write(t) \/ Submit(t) \/ Settle(t) \/ Remove(t)
    \/ \E s \in Servers : Claim(s, t) \/ LetGo(s, t) \/ Start(s, t)

Spec == Init /\ [][Next]_<<phase, holder>>
=============================================================================
