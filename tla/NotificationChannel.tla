------------------------ MODULE NotificationChannel ------------------------
(***************************************************************************)
(* What the publisher promises to the threads that call send, without      *)
(* saying how: every notification accepted is delivered to the broker once *)
(* or given up once, and the oldest always goes first.  A notification is  *)
(* the number of its place in the order in which they were accepted.       *)
(***************************************************************************)
EXTENDS Integers, Sequences

VARIABLES
  accepted,     (* how many have been accepted                             *)
  waiting,      (* those whose fate is open                                *)
  got,          (* what the broker has got, in order                       *)
  dropped       (* those given up                                          *)

Init == accepted = 0 /\ waiting = {} /\ got = <<>> /\ dropped = {}

Accept ==
  /\ accepted' = accepted + 1
  /\ waiting' = waiting \cup {accepted'}
  /\ UNCHANGED <<got, dropped>>

(* The fate of the oldest notification is decided, for good.               *)
Resolve(m) ==
  /\ m \in waiting /\ \A k \in waiting : m <= k
  /\ waiting' = waiting \ {m}
  /\ UNCHANGED accepted

Deliver(m) == Resolve(m) /\ got' = Append(got, m) /\ UNCHANGED dropped

GiveUp(m) == Resolve(m) /\ dropped' = dropped \cup {m} /\ UNCHANGED got

Next == Accept \/ \E m \in waiting : Deliver(m) \/ GiveUp(m)

Spec == Init /\ [][Next]_<<accepted, waiting, got, dropped>>
=============================================================================
