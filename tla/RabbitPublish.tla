--------------------------- MODULE RabbitPublish ---------------------------
(***************************************************************************)
(* The publisher of notifications (mmRabbitmq.cpp, cwRabbitmqPublish).     *)
(* send() is called by the sender thread and the receiver threads of the   *)
(* dispatcher: it appends to m_list under the mutex and posts the          *)
(* semaphore.  One thread takes what is in m_list and hands it to the      *)
(* broker; it reconnects when the connection is gone, and drops what it    *)
(* has in hand meanwhile.                                                  *)
(*                                                                         *)
(* A notification is the number it has in the order in which notifications *)
(* entered m_list; Beat is the heartbeat of an idle publisher.             *)
(***************************************************************************)
EXTENDS Integers, Sequences

CONSTANTS
  Producers,    (* the threads that call send                              *)
  Total,        (* bound on the notifications sent                         *)
  Faults        (* "broker" breaks connections, "stop" destroys the        *)
                (* publisher, which the class allows and main never does   *)

ASSUME PublishAssumption ==
  /\ Total \in Nat
  /\ Faults \subseteq {"broker", "stop"}

VARIABLES
  sent,         (* notifications that entered m_list so far                *)
  queue,        (* m_list                                                  *)
  posts,        (* the count of the semaphore m_handle                     *)
  prod,         (* producers: idle, or between unlock and post             *)
  stop,         (* the destructor: not called, flag set, semaphore posted  *)
  pc,           (* where the publisher's thread is                         *)
  list,         (* its local list                                          *)
  connected,    (* rabbitmqFlag                                            *)
  live,         (* whether the connection it holds still works             *)
  link,         (* whether the broker can be reached                       *)
  declared,     (* exchangeMap: the exchanges it has declared              *)
  broker,       (* notifications the broker has got                        *)
  lost          (* notifications dropped                                   *)

shared == <<sent, queue, posts, prod, stop>>
connection == <<connected, live, link, declared>>
vars == <<shared, pc, list, connection, broker, lost>>

Beat == 0
Numbers == 1..Total
Exchange(m) == IF m = Beat THEN "heartbeat" ELSE "task"

TypeOK ==
  /\ sent \in 0..Total
  /\ queue \in Seq(Numbers)
  /\ posts \in Nat
  /\ prod \in [Producers -> {"idle", "post"}]
  /\ stop \in {"no", "flag", "posted"}
  /\ pc \in {"start", "wait", "reconnect", "take", "deal", "ended"}
  /\ list \in Seq(Numbers \cup {Beat})
  /\ connected \in BOOLEAN /\ live \in BOOLEAN /\ link \in BOOLEAN
  /\ declared \subseteq {"task", "heartbeat"}
  /\ broker \in Seq(Numbers)
  /\ lost \subseteq Numbers

Init ==
  /\ sent = 0 /\ queue = <<>> /\ posts = 0
  /\ prod = [p \in Producers |-> "idle"]
  /\ stop = "no"
  /\ pc = "start" /\ list = <<>>
  /\ connected = FALSE /\ live = FALSE
  /\ link = TRUE \/ ("broker" \in Faults /\ link = FALSE)
  /\ declared = {}
  /\ broker = <<>> /\ lost = {}

-----------------------------------------------------------------------------
(* send: append under the mutex, then post.                                *)
Push(p) ==
  /\ prod[p] = "idle" /\ sent < Total
  /\ stop = "no"
  /\ sent' = sent + 1
  /\ queue' = Append(queue, sent')
  /\ prod' = [prod EXCEPT ![p] = "post"]
  /\ UNCHANGED <<posts, stop, pc, list, connection, broker, lost>>

(* Mutant of Post: the semaphore is not posted.                            *)
PostForgotten(p) ==
  /\ prod[p] = "post"
  /\ prod' = [prod EXCEPT ![p] = "idle"]
  /\ UNCHANGED <<sent, queue, posts, stop, pc, list, connection, broker, lost>>

Post(p) ==
  /\ prod[p] = "post"
  /\ posts' = posts + 1
  /\ prod' = [prod EXCEPT ![p] = "idle"]
  /\ UNCHANGED <<sent, queue, stop, pc, list, connection, broker, lost>>

(* cwBaseThread::stop, from the destructor: no producer is left by then.   *)
Stop ==
  /\ "stop" \in Faults
  /\ stop = "no" /\ \A p \in Producers : prod[p] = "idle"
  /\ stop' = "flag"
  /\ UNCHANGED <<sent, queue, posts, prod, pc, list, connection, broker, lost>>

StopPost ==
  /\ stop = "flag"
  /\ stop' = "posted" /\ posts' = posts + 1
  /\ UNCHANGED <<sent, queue, prod, pc, list, connection, broker, lost>>

(* Environment: the broker, or the network, goes away and comes back.  A   *)
(* connection that broke does not work again.                              *)
LinkDown ==
  /\ "broker" \in Faults /\ link
  /\ link' = FALSE /\ live' = FALSE
  /\ UNCHANGED <<shared, pc, list, connected, declared, broker, lost>>

LinkUp ==
  /\ ~link /\ link' = TRUE
  /\ UNCHANGED <<shared, pc, list, connected, live, declared, broker, lost>>

-----------------------------------------------------------------------------
(* The publisher's thread (run).                                           *)

(* rabbitmq_initial and rabbitmq_publish_initial.                          *)
Connect == connected' = link /\ live' = link /\ UNCHANGED <<link, declared>>

Start ==
  /\ pc = "start" /\ pc' = "wait"
  /\ Connect
  /\ UNCHANGED <<shared, list, broker, lost>>

(* Mutant of Wake: a time-out counts as a post.                            *)
WakeUncounted ==
  /\ pc = "wait"
  /\ posts' = posts - 1
  /\ pc' = IF stop = "no" THEN "reconnect" ELSE "ended"
  /\ UNCHANGED <<sent, queue, prod, stop, list, connection, broker, lost>>

(* semaphore_timedwait: a post, or five seconds.  Then the exit flag.      *)
Wake ==
  /\ pc = "wait"
  /\ posts' = IF posts > 0 THEN posts - 1 ELSE 0
  /\ pc' = IF stop = "no" THEN "reconnect" ELSE "ended"
  /\ UNCHANGED <<sent, queue, prod, stop, list, connection, broker, lost>>

(* Mutant of Reconnect: the thread tries until it is connected.            *)
ReconnectInsists ==
  /\ pc = "reconnect"
  /\ \/ connected /\ UNCHANGED connection
     \/ ~connected /\ link /\ Connect
  /\ pc' = "take"
  /\ UNCHANGED <<shared, list, broker, lost>>

(* Without a connection: one attempt, when the interval since the last one *)
(* is over.                                                                *)
Reconnect ==
  /\ pc = "reconnect"
  /\ UNCHANGED connection \/ (~connected /\ Connect)
  /\ pc' = "take"
  /\ UNCHANGED <<shared, list, broker, lost>>

(* Mutant of Take: m_list is copied.                                       *)
TakeCopy ==
  /\ pc = "take"
  /\ list' = queue
  /\ pc' = "deal"
  /\ UNCHANGED <<shared, connection, broker, lost>>

(* m_list is moved to the front of the local list; an idle publisher may   *)
(* have a heartbeat to send.                                               *)
Take ==
  /\ pc = "take"
  /\ queue' = <<>>
  /\ \/ list' = queue \o list
     \/ queue \o list = <<>> /\ list' = <<Beat>>
  /\ pc' = "deal"
  /\ UNCHANGED <<sent, posts, prod, stop, connection, broker, lost>>

Dealing == pc = "deal" /\ list # <<>>

(* The notification at hand is done with; nobody is told of a lost one     *)
(* (m_pFunc is null).                                                      *)
Done == list' = Tail(list)
Lose == lost' = lost \cup ({Head(list)} \ {Beat}) /\ Done
Disconnect == connected' = FALSE /\ live' = FALSE

(* Mutant of DropUnconnected: the whole list is given up.                  *)
DropAllUnconnected ==
  /\ Dealing /\ ~connected
  /\ lost' = lost \cup ({Head(list)} \ {Beat}) /\ list' = <<>>
  /\ UNCHANGED <<shared, pc, connection, broker>>

(* Mutant of DropUnconnected: the newest notification goes first.          *)
DropNewestUnconnected ==
  /\ Dealing /\ ~connected
  /\ lost' = lost \cup ({list[Len(list)]} \ {Beat})
  /\ list' = SubSeq(list, 1, Len(list) - 1)
  /\ UNCHANGED <<shared, pc, connection, broker>>

DropUnconnected ==
  /\ Dealing /\ ~connected
  /\ Lose
  /\ UNCHANGED <<shared, pc, connection, broker>>

(* The exchange is declared when it is new, then the message is published. *)
Publish ==
  /\ Dealing /\ connected /\ live
  /\ declared' = declared \cup {Exchange(Head(list))}
  /\ broker' = IF Head(list) = Beat THEN broker ELSE Append(broker, Head(list))
  /\ Done
  /\ UNCHANGED <<shared, pc, connected, live, link, lost>>

(* On a broken connection: declaring fails, publishing may fail, or it     *)
(* succeeds as far as the publisher can tell.                              *)
PublishFails ==
  /\ Dealing /\ connected /\ ~live
  /\ Disconnect /\ Lose
  /\ UNCHANGED <<shared, pc, link, declared, broker>>

PublishUnnoticed ==
  /\ Dealing /\ connected /\ ~live
  /\ Exchange(Head(list)) \in declared
  /\ Lose
  /\ UNCHANGED <<shared, pc, connection, broker>>

DealDone ==
  /\ pc = "deal" /\ list = <<>>
  /\ pc' = "wait"
  /\ UNCHANGED <<shared, list, connection, broker, lost>>

Run ==
  \/ Start \/ Wake \/ Reconnect \/ Take \/ DropUnconnected
  \/ Publish \/ PublishFails \/ PublishUnnoticed \/ DealDone

Next ==
  \/ \E p \in Producers : Push(p) \/ Post(p)
  \/ Stop \/ StopPost \/ LinkDown \/ LinkUp
  \/ Run

Spec == Init /\ [][Next]_vars

(* The threads go on; the broker and the network owe nothing.              *)
FairSpec ==
  /\ Spec
  /\ WF_vars(Run) /\ WF_vars(StopPost)
  /\ \A p \in Producers : WF_vars(Post(p))

-----------------------------------------------------------------------------
(* Properties.                                                             *)

Elements(s) == {s[i] : i \in DOMAIN s}

(* What the broker has got, what the thread has in hand and what waits.    *)
Pipeline == broker \o list \o queue

(* Notifications reach the broker in the order in which they were sent,    *)
(* each at most once, across lost connections and reconnects: the front    *)
(* end never sees "merging" after "success".                               *)
InOrder ==
  \A i, j \in DOMAIN Pipeline :
    i < j /\ Pipeline[i] # Beat /\ Pipeline[j] # Beat => Pipeline[i] < Pipeline[j]

(* No notification disappears: each one sent is with the broker, in hand,  *)
(* waiting, or was dropped, and a dropped one is nowhere else.             *)
Accounted ==
  /\ Elements(Pipeline) \ {Beat} = (1..sent) \ lost
  /\ lost \subseteq 1..sent

(* What send accepted is delivered or dropped, once each and always the    *)
(* oldest first, however the list is moved about, whoever sends meanwhile  *)
(* and whenever the connection is lost.                                    *)
Channel == INSTANCE NotificationChannel WITH
  accepted <- sent,
  waiting  <- (Elements(list) \cup Elements(queue)) \ {Beat},
  got      <- broker,
  dropped  <- lost

ImplementsChannel == Channel!Spec

(* A waiting notification has a wake-up on its way: delivery never depends *)
(* on the five second time-out of semaphore_timedwait.                     *)
NoLostWakeup ==
  queue # <<>> /\ pc # "ended" =>
    \/ posts > 0
    \/ \E p \in Producers : prod[p] = "post"
    \/ pc \in {"reconnect", "take"}

(* Every notification is dealt with, connected or not, until the publisher *)
(* is stopped: a dead broker does not make the queue grow for ever.        *)
EventuallyHandled ==
  \A m \in Numbers : sent >= m ~> (m \in lost \cup Elements(broker) \/ pc = "ended")
=============================================================================
