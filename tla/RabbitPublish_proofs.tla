------------------------ MODULE RabbitPublish_proofs ------------------------
(***************************************************************************)
(* Theorems about RabbitPublish, for every number of producers and         *)
(* notifications.                                                          *)
(***************************************************************************)
EXTENDS RabbitPublish, TLAPS

USE PublishAssumption

-----------------------------------------------------------------------------
(* Type correctness.  The local list is empty between two rounds: each     *)
(* round of the for loop ends with list.clear().                           *)

ListEmptied == pc # "deal" => list = <<>>

TypeInv == TypeOK /\ ListEmptied

LEMMA TypeInit == Init => TypeInv
<1> SUFFICES ASSUME Init
             PROVE  TypeInv
  OBVIOUS
<1> USE DEF Init
<1>1. queue \in Seq(Numbers) /\ list \in Seq(Numbers \cup {Beat}) /\ broker \in Seq(Numbers)
  OBVIOUS
<1>2. connected \in BOOLEAN /\ live \in BOOLEAN /\ link \in BOOLEAN
  OBVIOUS
<1>3. prod \in [Producers -> {"idle", "post"}]
  OBVIOUS
<1>4. /\ sent \in 0..Total /\ posts \in Nat /\ lost \subseteq Numbers
      /\ declared \subseteq {"task", "heartbeat"}
  OBVIOUS
<1>5. list = <<>> /\ stop = "no" /\ pc = "start"
  OBVIOUS
<1> HIDE DEF Init
<1> QED
  BY <1>1, <1>2, <1>3, <1>4, <1>5 DEF TypeInv, TypeOK, ListEmptied

LEMMA TypeNext == TypeInv /\ [Next]_vars => TypeInv'
<1> SUFFICES ASSUME TypeInv, [Next]_vars
             PROVE  TypeInv'
  OBVIOUS
<1> USE DEF TypeInv, TypeOK, ListEmptied
<1>1. ASSUME NEW p \in Producers, Push(p)
      PROVE  TypeInv'
  BY <1>1 DEF Push, connection, Numbers
<1>2. ASSUME NEW p \in Producers, Post(p)
      PROVE  TypeInv'
  BY <1>2 DEF Post, connection
<1>3. CASE Stop \/ StopPost
  <2>1. /\ stop' \in {"no", "flag", "posted"}
        /\ posts' \in Nat
        /\ UNCHANGED <<sent, queue, prod, pc, list, connection, broker, lost>>
    BY <1>3 DEF Stop, StopPost
  <2> QED
    BY <2>1 DEF connection
<1>4. CASE LinkDown \/ LinkUp
  BY <1>4 DEF LinkDown, LinkUp, shared
<1>5. CASE Start
  BY <1>5 DEF Start, Connect, shared
<1>6. CASE Wake
  BY <1>6 DEF Wake, connection
<1>7. CASE Reconnect
  BY <1>7 DEF Reconnect, Connect, shared, connection
<1>8. CASE Take
  <2>1. queue \o list \in Seq(Numbers \cup {Beat})
    OBVIOUS
  <2>2. list' \in Seq(Numbers \cup {Beat})
    <3>1. <<Beat>> \in Seq(Numbers \cup {Beat})
      OBVIOUS
    <3> QED
      BY <1>8, <2>1, <3>1 DEF Take
  <2>3. queue' \in Seq(Numbers)
    BY <1>8 DEF Take
  <2> QED
    BY <1>8, <2>2, <2>3 DEF Take, connection
<1>9. CASE DropUnconnected \/ PublishFails \/ PublishUnnoticed
  <2>1. list # <<>> /\ list' = Tail(list) /\ lost' = lost \cup ({Head(list)} \ {Beat})
    BY <1>9 DEF DropUnconnected, PublishFails, PublishUnnoticed, Lose, Done, Dealing
  <2>2. Head(list) \in Numbers \cup {Beat} /\ Tail(list) \in Seq(Numbers \cup {Beat})
    BY <2>1
  <2> QED
    BY <1>9, <2>1, <2>2
       DEF DropUnconnected, PublishFails, PublishUnnoticed, Disconnect, Dealing,
           shared, connection
<1>10. CASE Publish
  <2>1. Head(list) \in Numbers \cup {Beat} /\ Tail(list) \in Seq(Numbers \cup {Beat})
    BY <1>10 DEF Publish, Dealing
  <2>2. Exchange(Head(list)) \in {"task", "heartbeat"}
    BY DEF Exchange
  <2>3. broker' \in Seq(Numbers)
    BY <1>10, <2>1 DEF Publish
  <2> QED
    BY <1>10, <2>1, <2>2, <2>3 DEF Publish, Done, Dealing, shared
<1>11. CASE DealDone
  BY <1>11 DEF DealDone, shared, connection
<1>12. CASE UNCHANGED vars
  BY <1>12 DEF vars, shared, connection
<1> QED
  BY <1>1, <1>2, <1>3, <1>4, <1>5, <1>6, <1>7, <1>8, <1>9, <1>10, <1>11, <1>12
     DEF Next, Run

(* Type correctness of the publisher.                                      *)
THEOREM TypeCorrect == Spec => []TypeOK
<1>1. TypeInv => TypeOK
  BY DEF TypeInv
<1> QED
  BY TypeInit, TypeNext, <1>1, PTL DEF Spec

LEMMA TypeInvAlways == Spec => []TypeInv
  BY TypeInit, TypeNext, PTL DEF Spec

-----------------------------------------------------------------------------
(* A waiting notification has a wake-up on its way: each append is         *)
(* followed by its post, and the thread empties the queue after it has     *)
(* consumed one, so NoLostWakeup is inductive on its own.                  *)
LEMMA WakeupNext == TypeOK /\ NoLostWakeup /\ [Next]_vars => NoLostWakeup'
<1> SUFFICES ASSUME TypeOK, NoLostWakeup, [Next]_vars
             PROVE  NoLostWakeup'
  OBVIOUS
<1> USE DEF NoLostWakeup, TypeOK
<1>1. ASSUME NEW p \in Producers, Push(p)
      PROVE  NoLostWakeup'
  <2>1. prod'[p] = "post"
    BY <1>1 DEF Push
  <2> QED
    BY <2>1
<1>2. ASSUME NEW p \in Producers, Post(p)
      PROVE  NoLostWakeup'
  <2>1. posts' > 0
    BY <1>2 DEF Post
  <2> QED
    BY <2>1
<1>3. CASE Stop \/ StopPost
  BY <1>3 DEF Stop, StopPost
<1>4. CASE LinkDown \/ LinkUp
  BY <1>4 DEF LinkDown, LinkUp, shared
<1>5. CASE Run
  BY <1>5 DEF Run, Start, Wake, Reconnect, Take, DropUnconnected, Publish,
              PublishFails, PublishUnnoticed, DealDone, Dealing, shared
<1>6. CASE UNCHANGED vars
  BY <1>6 DEF vars, shared
<1> QED
  BY <1>1, <1>2, <1>3, <1>4, <1>5, <1>6 DEF Next

(* Delivery never depends on the time-out of semaphore_timedwait: no       *)
(* interleaving of send's unlock and post with the thread loses a wake-up. *)
THEOREM WakeupNotLost == Spec => []NoLostWakeup
<1>1. Init => NoLostWakeup
  BY DEF Init, NoLostWakeup
<1> QED
  BY TypeCorrect, WakeupNext, <1>1, PTL DEF Spec

-----------------------------------------------------------------------------
(* Order and account.  Both are about one long sequence, of which a step   *)
(* moves an element from one part to the next; they are proved of the      *)
(* parts.  A part is rising when its notifications are, and one part is    *)
(* below another when all its notifications are.                           *)

Notes(s) == Elements(s) \ {Beat}

Rising(s) ==
  \A i, j \in DOMAIN s : i < j /\ s[i] # Beat /\ s[j] # Beat => s[i] < s[j]

Below(A, B) == \A x \in A, y \in B : x < y

(* Appending adds one element.                                             *)
LEMMA ElementsAppend ==
  ASSUME NEW S, NEW s \in Seq(S), NEW x \in S
  PROVE  Elements(Append(s, x)) = Elements(s) \cup {x}
<1>1. /\ DOMAIN s = 1..Len(s) /\ Len(s) \in Nat
      /\ DOMAIN Append(s, x) = 1..(Len(s) + 1)
      /\ \A i \in 1..Len(s) : Append(s, x)[i] = s[i]
      /\ Append(s, x)[Len(s) + 1] = x
  OBVIOUS
<1>2. Elements(Append(s, x)) \subseteq Elements(s) \cup {x}
  BY <1>1 DEF Elements
<1>3. Elements(s) \subseteq Elements(Append(s, x))
  BY <1>1 DEF Elements
<1>4. x \in Elements(Append(s, x))
  BY <1>1 DEF Elements
<1> QED
  BY <1>2, <1>3, <1>4

(* A sequence is its head and its tail.                                    *)
LEMMA ElementsTail ==
  ASSUME NEW S, NEW s \in Seq(S), s # <<>>
  PROVE  Elements(s) = {Head(s)} \cup Elements(Tail(s))
<1>1. /\ DOMAIN s = 1..Len(s) /\ Len(s) \in Nat /\ Len(s) >= 1
      /\ DOMAIN Tail(s) = 1..(Len(s) - 1)
      /\ \A i \in 1..(Len(s) - 1) : Tail(s)[i] = s[i + 1]
      /\ Head(s) = s[1]
  OBVIOUS
<1>2. Elements(s) \subseteq {Head(s)} \cup Elements(Tail(s))
  <2> SUFFICES ASSUME NEW i \in 1..Len(s), i # 1
               PROVE  s[i] \in Elements(Tail(s))
    BY <1>1 DEF Elements
  <2>1. i - 1 \in 1..(Len(s) - 1) /\ s[i] = Tail(s)[i - 1]
    BY <1>1
  <2> QED
    BY <1>1, <2>1 DEF Elements
<1>3. Elements(Tail(s)) \subseteq Elements(s)
  <2> SUFFICES ASSUME NEW i \in 1..(Len(s) - 1)
               PROVE  Tail(s)[i] \in Elements(s)
    BY <1>1 DEF Elements
  <2>1. i + 1 \in 1..Len(s) /\ Tail(s)[i] = s[i + 1]
    BY <1>1
  <2> QED
    BY <1>1, <2>1 DEF Elements
<1>4. Head(s) \in Elements(s)
  BY <1>1 DEF Elements
<1> QED
  BY <1>2, <1>3, <1>4

(* The elements of a concatenation.                                        *)
LEMMA ElementsConcat ==
  ASSUME NEW S, NEW s \in Seq(S), NEW t \in Seq(S)
  PROVE  Elements(s \o t) = Elements(s) \cup Elements(t)
<1>1. /\ DOMAIN s = 1..Len(s) /\ Len(s) \in Nat
      /\ DOMAIN t = 1..Len(t) /\ Len(t) \in Nat
      /\ DOMAIN (s \o t) = 1..(Len(s) + Len(t))
      /\ \A i \in 1..Len(s) : (s \o t)[i] = s[i]
      /\ \A i \in 1..Len(t) : (s \o t)[Len(s) + i] = t[i]
  OBVIOUS
<1>2. Elements(s \o t) \subseteq Elements(s) \cup Elements(t)
  <2> SUFFICES ASSUME NEW i \in 1..(Len(s) + Len(t)), i \notin 1..Len(s)
               PROVE  (s \o t)[i] \in Elements(t)
    BY <1>1 DEF Elements
  <2>1. i - Len(s) \in 1..Len(t) /\ Len(s) + (i - Len(s)) = i
    BY <1>1
  <2>2. (s \o t)[i] = t[i - Len(s)]
    BY <1>1, <2>1
  <2> QED
    BY <1>1, <2>1, <2>2 DEF Elements
<1>3. Elements(s) \subseteq Elements(s \o t)
  BY <1>1 DEF Elements
<1>4. Elements(t) \subseteq Elements(s \o t)
  <2> SUFFICES ASSUME NEW i \in 1..Len(t)
               PROVE  t[i] \in Elements(s \o t)
    BY <1>1 DEF Elements
  <2>1. Len(s) + i \in 1..(Len(s) + Len(t)) /\ t[i] = (s \o t)[Len(s) + i]
    BY <1>1
  <2> QED
    BY <1>1, <2>1 DEF Elements
<1> QED
  BY <1>2, <1>3, <1>4

(* A rising sequence stays rising without its head, which is below the     *)
(* rest; with a larger element at its end; and with a larger one behind.   *)
LEMMA RisingTail ==
  ASSUME NEW s \in Seq(Nat), s # <<>>, Rising(s)
  PROVE  /\ Rising(Tail(s))
         /\ Head(s) # Beat => Below({Head(s)}, Notes(Tail(s)))
<1>1. /\ DOMAIN s = 1..Len(s) /\ Len(s) \in Nat /\ Len(s) >= 1
      /\ DOMAIN Tail(s) = 1..(Len(s) - 1)
      /\ \A i \in 1..(Len(s) - 1) : Tail(s)[i] = s[i + 1]
      /\ Head(s) = s[1]
  OBVIOUS
<1>2. Rising(Tail(s))
  <2> SUFFICES ASSUME NEW i \in 1..(Len(s) - 1), NEW j \in 1..(Len(s) - 1),
                      i < j, s[i + 1] # Beat, s[j + 1] # Beat
               PROVE  s[i + 1] < s[j + 1]
    BY <1>1 DEF Rising
  <2>1. i + 1 \in DOMAIN s /\ j + 1 \in DOMAIN s /\ i + 1 < j + 1
    BY <1>1
  <2> QED
    BY <2>1 DEF Rising
<1>3. ASSUME Head(s) # Beat
      PROVE  Below({Head(s)}, Notes(Tail(s)))
  <2> SUFFICES ASSUME NEW i \in 1..(Len(s) - 1), s[i + 1] # Beat
               PROVE  s[1] < s[i + 1]
    BY <1>1 DEF Below, Notes, Elements
  <2>1. 1 \in DOMAIN s /\ i + 1 \in DOMAIN s /\ 1 < i + 1
    BY <1>1
  <2> QED
    BY <1>1, <1>3, <2>1 DEF Rising
<1> QED
  BY <1>2, <1>3

LEMMA RisingAppend ==
  ASSUME NEW s \in Seq(Nat), NEW x \in Nat, Rising(s), Below(Notes(s), {x})
  PROVE  Rising(Append(s, x))
<1>1. /\ DOMAIN s = 1..Len(s) /\ Len(s) \in Nat
      /\ DOMAIN Append(s, x) = 1..(Len(s) + 1)
      /\ \A i \in 1..Len(s) : Append(s, x)[i] = s[i]
      /\ Append(s, x)[Len(s) + 1] = x
  OBVIOUS
<1> DEFINE a == Append(s, x)
<1> SUFFICES ASSUME NEW i \in 1..(Len(s) + 1), NEW j \in 1..(Len(s) + 1),
                    i < j, a[i] # Beat, a[j] # Beat
             PROVE  a[i] < a[j]
  BY <1>1 DEF Rising
<1>2. i \in 1..Len(s) /\ a[i] = s[i]
  BY <1>1
<1>3. CASE j \in 1..Len(s)
  <2>1. a[j] = s[j]
    BY <1>1, <1>3
  <2> QED
    BY <1>1, <1>2, <1>3, <2>1 DEF Rising
<1>4. CASE j = Len(s) + 1
  <2>1. a[j] = x
    BY <1>1, <1>4
  <2>2. s[i] \in Notes(s)
    BY <1>1, <1>2 DEF Notes, Elements
  <2> QED
    BY <1>2, <2>1, <2>2 DEF Below
<1> QED
  BY <1>1, <1>3, <1>4

LEMMA RisingConcat ==
  ASSUME NEW s \in Seq(Nat), NEW t \in Seq(Nat), Rising(s), Rising(t),
         Below(Notes(s), Notes(t))
  PROVE  Rising(s \o t)
<1>1. /\ DOMAIN s = 1..Len(s) /\ Len(s) \in Nat
      /\ DOMAIN t = 1..Len(t) /\ Len(t) \in Nat
      /\ DOMAIN (s \o t) = 1..(Len(s) + Len(t))
      /\ \A i \in 1..Len(s) : (s \o t)[i] = s[i]
      /\ \A i \in 1..Len(t) : (s \o t)[Len(s) + i] = t[i]
  OBVIOUS
<1> DEFINE c == s \o t
<1> SUFFICES ASSUME NEW i \in 1..(Len(s) + Len(t)), NEW j \in 1..(Len(s) + Len(t)),
                    i < j, c[i] # Beat, c[j] # Beat
             PROVE  c[i] < c[j]
  BY <1>1 DEF Rising
<1>2. ASSUME NEW k \in 1..(Len(s) + Len(t)), k \notin 1..Len(s)
      PROVE  k - Len(s) \in 1..Len(t) /\ c[k] = t[k - Len(s)]
  <2>1. k - Len(s) \in 1..Len(t) /\ Len(s) + (k - Len(s)) = k
    BY <1>1, <1>2
  <2> QED
    BY <1>1, <2>1
<1>3. CASE i \in 1..Len(s) /\ j \in 1..Len(s)
  <2>1. c[i] = s[i] /\ c[j] = s[j]
    BY <1>1, <1>3
  <2> QED
    BY <1>1, <1>3, <2>1 DEF Rising
<1>4. CASE i \in 1..Len(s) /\ j \notin 1..Len(s)
  <2>1. c[i] = s[i] /\ j - Len(s) \in 1..Len(t) /\ c[j] = t[j - Len(s)]
    BY <1>1, <1>2, <1>4
  <2>2. s[i] \in Notes(s) /\ t[j - Len(s)] \in Notes(t)
    BY <1>1, <1>4, <2>1 DEF Notes, Elements
  <2> QED
    BY <2>1, <2>2 DEF Below
<1>5. CASE i \notin 1..Len(s) /\ j \notin 1..Len(s)
  <2>1. /\ i - Len(s) \in 1..Len(t) /\ c[i] = t[i - Len(s)]
        /\ j - Len(s) \in 1..Len(t) /\ c[j] = t[j - Len(s)]
    BY <1>2, <1>5
  <2>2. i - Len(s) < j - Len(s)
    BY <1>1
  <2> QED
    BY <1>1, <2>1, <2>2 DEF Rising
<1> QED
  BY <1>1, <1>3, <1>4, <1>5

-----------------------------------------------------------------------------
(* What the broker has got is below what the thread has in hand, which is  *)
(* below what waits; together they are what was sent and not dropped.      *)

PartsOrdered ==
  /\ Rising(broker) /\ Rising(list) /\ Rising(queue)
  /\ Below(Notes(broker), Notes(list))
  /\ Below(Notes(broker), Notes(queue))
  /\ Below(Notes(list), Notes(queue))

PartsComplete ==
  /\ Notes(broker) \cup Notes(list) \cup Notes(queue) = (1..sent) \ lost
  /\ lost \subseteq 1..sent

OrderInv == PartsOrdered /\ PartsComplete

LEMMA PartsAreSequences ==
  ASSUME TypeInv
  PROVE  /\ queue \in Seq(Nat) /\ list \in Seq(Nat) /\ broker \in Seq(Nat)
         /\ Notes(queue) \subseteq Nat /\ Notes(list) \subseteq Nat
         /\ Notes(broker) \subseteq Nat
<1>1. queue \in Seq(Nat) /\ list \in Seq(Nat) /\ broker \in Seq(Nat)
  BY DEF TypeInv, TypeOK, Numbers, Beat
<1>2. ASSUME NEW s \in Seq(Nat)
      PROVE  Notes(s) \subseteq Nat
  BY <1>2 DEF Notes, Elements
<1> QED
  BY <1>1, <1>2

LEMMA EmptyParts == Notes(<<>>) = {} /\ Rising(<<>>) /\ Notes(<<Beat>>) = {} /\ Rising(<<Beat>>)
  BY DEF Notes, Elements, Rising

LEMMA OrderInit == Init => OrderInv
<1> SUFFICES ASSUME Init
             PROVE  OrderInv
  OBVIOUS
<1>1. queue = <<>> /\ list = <<>> /\ broker = <<>> /\ sent = 0 /\ lost = {}
  BY DEF Init
<1> QED
  BY <1>1, EmptyParts DEF OrderInv, PartsOrdered, PartsComplete, Below

(* A step that touches neither the three parts nor the account.            *)
LEMMA OrderKept ==
  ASSUME OrderInv, UNCHANGED <<queue, list, broker, sent, lost>>
  PROVE  OrderInv'
  BY DEF OrderInv, PartsOrdered, PartsComplete, Notes, Elements, Rising, Below

LEMMA OrderPush ==
  ASSUME TypeInv, OrderInv, NEW p \in Producers, Push(p)
  PROVE  OrderInv'
<1>1. /\ queue' = Append(queue, sent + 1) /\ sent' = sent + 1 /\ sent \in Nat
      /\ list' = list /\ broker' = broker /\ lost' = lost
  BY DEF Push, TypeInv, TypeOK
<1>2. Elements(queue') = Elements(queue) \cup {sent + 1}
  BY <1>1, PartsAreSequences, ElementsAppend
<1>3. Notes(queue') = Notes(queue) \cup {sent + 1}
  BY <1>1, <1>2 DEF Notes, Beat
<1>4. /\ Below(Notes(queue), {sent + 1}) /\ Below(Notes(list), {sent + 1})
      /\ Below(Notes(broker), {sent + 1})
  BY <1>1 DEF OrderInv, PartsComplete, Below
<1>5. Rising(queue')
  BY <1>1, <1>4, PartsAreSequences, RisingAppend DEF OrderInv, PartsOrdered
<1>6. Notes(list') = Notes(list) /\ Notes(broker') = Notes(broker)
  BY <1>1
<1>7. Rising(list') /\ Rising(broker')
  BY <1>1 DEF OrderInv, PartsOrdered
<1>8. PartsOrdered'
  BY <1>3, <1>4, <1>5, <1>6, <1>7 DEF OrderInv, PartsOrdered, Below
<1>9. 1..sent' = (1..sent) \cup {sent + 1} /\ sent + 1 \notin lost
  BY <1>1 DEF OrderInv, PartsComplete
<1>10. PartsComplete'
  BY <1>1, <1>3, <1>6, <1>9 DEF OrderInv, PartsComplete
<1> QED
  BY <1>8, <1>10 DEF OrderInv

LEMMA OrderTake ==
  ASSUME TypeInv, OrderInv, Take
  PROVE  OrderInv'
<1>1. /\ queue' = <<>> /\ list = <<>>
      /\ broker' = broker /\ lost' = lost /\ sent' = sent
  BY DEF Take, TypeInv, ListEmptied
<1>2. Elements(queue \o list) = Elements(queue) \cup Elements(list)
  BY PartsAreSequences, ElementsConcat
<1>3. Notes(queue \o list) = Notes(queue) /\ Notes(list) = {}
  BY <1>1, <1>2, EmptyParts DEF Notes
<1>4. Rising(list') /\ Notes(list') = Notes(queue)
  <2>1. CASE list' = queue \o list
    <3>1. Rising(queue \o list)
      BY <1>3, PartsAreSequences, RisingConcat DEF OrderInv, PartsOrdered, Below
    <3> QED
      BY <2>1, <3>1, <1>3
  <2>2. CASE queue \o list = <<>> /\ list' = <<Beat>>
    BY <2>2, <1>3, EmptyParts
  <2> QED
    BY <2>1, <2>2 DEF Take
<1>5. Rising(queue') /\ Notes(queue') = {}
  BY <1>1, EmptyParts
<1>6. Rising(broker') /\ Notes(broker') = Notes(broker)
  BY <1>1 DEF OrderInv, PartsOrdered
<1>7. PartsOrdered'
  BY <1>4, <1>5, <1>6 DEF OrderInv, PartsOrdered, Below
<1>8. PartsComplete'
  BY <1>1, <1>3, <1>4, <1>5, <1>6 DEF OrderInv, PartsComplete
<1> QED
  BY <1>7, <1>8 DEF OrderInv

(* The head of the local list goes: to the broker, or it is dropped.       *)
LEMMA OrderHead ==
  ASSUME TypeInv, OrderInv, list # <<>>
  PROVE  /\ Rising(Tail(list))
         /\ Notes(list) = ({Head(list)} \ {Beat}) \cup Notes(Tail(list))
         /\ Below({Head(list)} \ {Beat}, Notes(Tail(list)))
         /\ Below(Notes(broker), {Head(list)} \ {Beat})
         /\ Below({Head(list)} \ {Beat}, Notes(queue))
         /\ {Head(list)} \ {Beat} \subseteq Nat
         /\ Head(list) \in Nat
<1>1. Elements(list) = {Head(list)} \cup Elements(Tail(list))
  BY PartsAreSequences, ElementsTail
<1>2. Notes(list) = ({Head(list)} \ {Beat}) \cup Notes(Tail(list))
  BY <1>1 DEF Notes
<1>3. /\ Rising(Tail(list))
      /\ Head(list) # Beat => Below({Head(list)}, Notes(Tail(list)))
  BY PartsAreSequences, RisingTail DEF OrderInv, PartsOrdered
<1>4. Below({Head(list)} \ {Beat}, Notes(Tail(list)))
  BY <1>3 DEF Below
<1>5. /\ Below(Notes(broker), {Head(list)} \ {Beat})
      /\ Below({Head(list)} \ {Beat}, Notes(queue))
  BY <1>2 DEF OrderInv, PartsOrdered, Below
<1>6. Head(list) \in Nat
  BY PartsAreSequences
<1> QED
  BY <1>2, <1>3, <1>4, <1>5, <1>6

LEMMA OrderLose ==
  ASSUME TypeInv, OrderInv, list # <<>>, Lose,
         UNCHANGED <<queue, broker, sent>>
  PROVE  OrderInv'
<1> DEFINE head == {Head(list)} \ {Beat}
<1>1. list' = Tail(list) /\ lost' = lost \cup head
  BY DEF Lose, Done
<1>2. /\ Rising(list') /\ Notes(list) = head \cup Notes(list')
      /\ Below(head, Notes(list')) /\ Below(Notes(broker), head)
      /\ Below(head, Notes(queue)) /\ head \subseteq Nat
  BY <1>1, OrderHead
<1>3. Notes(queue') = Notes(queue) /\ Notes(broker') = Notes(broker)
  OBVIOUS
<1>4. Rising(queue') /\ Rising(broker')
  BY DEF OrderInv, PartsOrdered
<1> HIDE DEF head
<1>5. PartsOrdered'
  BY <1>2, <1>3, <1>4 DEF OrderInv, PartsOrdered, Below
<1>6. head \cap (Notes(list') \cup Notes(broker) \cup Notes(queue)) = {}
  BY <1>2, PartsAreSequences DEF Below
<1>7. head \subseteq 1..sent
  BY <1>2 DEF OrderInv, PartsComplete
<1>8. PartsComplete'
  BY <1>1, <1>2, <1>3, <1>6, <1>7 DEF OrderInv, PartsComplete
<1> QED
  BY <1>5, <1>8 DEF OrderInv

LEMMA OrderPublish ==
  ASSUME TypeInv, OrderInv, Publish
  PROVE  OrderInv'
<1> DEFINE head == {Head(list)} \ {Beat}
<1>1. /\ list # <<>> /\ list' = Tail(list)
      /\ lost' = lost /\ queue' = queue /\ sent' = sent
  BY DEF Publish, Dealing, Done, shared
<1>2. /\ Rising(list') /\ Notes(list) = head \cup Notes(list')
      /\ Below(head, Notes(list')) /\ Below(Notes(broker), head)
      /\ Below(head, Notes(queue)) /\ Head(list) \in Nat
  BY <1>1, OrderHead
<1>3. Notes(broker') = Notes(broker) \cup head /\ Rising(broker')
  <2>1. CASE Head(list) = Beat
    <3>1. broker' = broker /\ head = {}
      BY <2>1 DEF Publish
    <3> QED
      BY <3>1 DEF OrderInv, PartsOrdered
  <2>2. CASE Head(list) # Beat
    <3>1. broker' = Append(broker, Head(list)) /\ head = {Head(list)}
      BY <2>2 DEF Publish
    <3>2. Elements(broker') = Elements(broker) \cup {Head(list)}
      BY <1>2, <3>1, PartsAreSequences, ElementsAppend
    <3>3. Rising(broker')
      BY <1>2, <3>1, PartsAreSequences, RisingAppend DEF OrderInv, PartsOrdered
    <3> QED
      BY <3>1, <3>2, <3>3 DEF Notes
  <2> QED
    BY <2>1, <2>2
<1>4. Notes(queue') = Notes(queue) /\ Rising(queue')
  BY <1>1 DEF OrderInv, PartsOrdered
<1> HIDE DEF head
<1>5. PartsOrdered'
  BY <1>2, <1>3, <1>4 DEF OrderInv, PartsOrdered, Below
<1>6. PartsComplete'
  BY <1>1, <1>2, <1>3, <1>4 DEF OrderInv, PartsComplete
<1> QED
  BY <1>5, <1>6 DEF OrderInv

LEMMA OrderNext == TypeInv /\ OrderInv /\ [Next]_vars => OrderInv'
<1> SUFFICES ASSUME TypeInv, OrderInv, [Next]_vars
             PROVE  OrderInv'
  OBVIOUS
<1>1. ASSUME NEW p \in Producers, Push(p)
      PROVE  OrderInv'
  BY <1>1, OrderPush
<1>2. ASSUME NEW p \in Producers, Post(p)
      PROVE  OrderInv'
  BY <1>2, OrderKept DEF Post
<1>3. CASE Stop \/ StopPost \/ LinkDown \/ LinkUp
  BY <1>3, OrderKept DEF Stop, StopPost, LinkDown, LinkUp, shared
<1>4. CASE Start \/ Wake \/ Reconnect \/ DealDone \/ UNCHANGED vars
  BY <1>4, OrderKept DEF Start, Wake, Reconnect, DealDone, vars, shared
<1>5. CASE Take
  BY <1>5, OrderTake
<1>6. CASE DropUnconnected \/ PublishFails \/ PublishUnnoticed
  BY <1>6, OrderLose
     DEF DropUnconnected, PublishFails, PublishUnnoticed, Dealing, shared
<1>7. CASE Publish
  BY <1>7, OrderPublish
<1> QED
  BY <1>1, <1>2, <1>3, <1>4, <1>5, <1>6, <1>7 DEF Next, Run

LEMMA OrderAlways == Spec => [](TypeInv /\ OrderInv)
<1>1. TypeInv /\ OrderInv /\ [Next]_vars => TypeInv' /\ OrderInv'
  BY TypeNext, OrderNext
<1> QED
  BY TypeInit, OrderInit, <1>1, PTL DEF Spec

(* Notifications reach the broker in the order in which they were sent,    *)
(* each at most once, across lost connections and reconnects: splicing the *)
(* queue into the local list and dropping from its head keep the order.    *)
THEOREM PublishedInOrder == Spec => []InOrder
<1>1. TypeInv /\ OrderInv => InOrder
  <2> SUFFICES ASSUME TypeInv, OrderInv
               PROVE  Rising(Pipeline)
    BY DEF InOrder, Rising
  <2>1. broker \o list \in Seq(Nat) /\ Rising(broker \o list)
    BY PartsAreSequences, RisingConcat DEF OrderInv, PartsOrdered
  <2>2. Elements(broker \o list) = Elements(broker) \cup Elements(list)
    BY PartsAreSequences, ElementsConcat
  <2>3. Below(Notes(broker \o list), Notes(queue))
    BY <2>2 DEF OrderInv, PartsOrdered, Below, Notes
  <2> QED
    BY <2>1, <2>3, PartsAreSequences, RisingConcat DEF Pipeline, OrderInv, PartsOrdered
<1> QED
  BY OrderAlways, <1>1, PTL

(* Every notification sent is with the broker, in hand, waiting, or was    *)
(* dropped, and a dropped one is nowhere else.                             *)
THEOREM AllAccounted == Spec => []Accounted
<1>1. TypeInv /\ OrderInv => Accounted
  <2> SUFFICES ASSUME TypeInv, OrderInv
               PROVE  Accounted
    OBVIOUS
  <2>1. broker \o list \in Seq(Nat)
    BY PartsAreSequences
  <2>2. Elements(Pipeline) = Elements(broker) \cup Elements(list) \cup Elements(queue)
    <3>1. Elements(broker \o list) = Elements(broker) \cup Elements(list)
      BY PartsAreSequences, ElementsConcat
    <3> DEFINE front == broker \o list
    <3>2. front \in Seq(Nat) /\ queue \in Seq(Nat)
      BY <2>1, PartsAreSequences
    <3> HIDE DEF front
    <3>3. Elements(front \o queue) = Elements(front) \cup Elements(queue)
      BY <3>2, ElementsConcat
    <3> QED
      BY <3>1, <3>3 DEF Pipeline, front
  <2> QED
    BY <2>2 DEF Accounted, OrderInv, PartsComplete, Notes
<1> QED
  BY OrderAlways, <1>1, PTL

-----------------------------------------------------------------------------
(* The publisher implements NotificationChannel.  By the order of the      *)
(* parts, the head of the local list is the oldest of all that wait.       *)

Waiting == (Elements(list) \cup Elements(queue)) \ {Beat}

ChannelStep == [Channel!Next]_<<sent, Waiting, broker, lost>>

LEMMA ChannelInit == Init => Channel!Init
  BY DEF Init, Channel!Init, Elements

LEMMA ChannelStutters ==
  ASSUME UNCHANGED <<sent, Waiting, broker, lost>>
  PROVE  ChannelStep
  BY DEF ChannelStep

LEMMA ChannelPush ==
  ASSUME TypeInv, NEW p \in Producers, Push(p)
  PROVE  ChannelStep
<1>1. /\ queue' = Append(queue, sent + 1) /\ sent' = sent + 1 /\ sent \in Nat
      /\ list' = list /\ broker' = broker /\ lost' = lost
  BY DEF Push, TypeInv, TypeOK
<1>2. Elements(queue') = Elements(queue) \cup {sent + 1}
  BY <1>1, PartsAreSequences, ElementsAppend
<1>3. Elements(list') = Elements(list)
  BY <1>1
<1>4. Waiting' = Waiting \cup {sent'}
  BY <1>1, <1>2, <1>3 DEF Waiting, Beat
<1>5. Channel!Accept
  BY <1>1, <1>4 DEF Channel!Accept, Waiting
<1> QED
  BY <1>5 DEF ChannelStep, Channel!Next

(* The splice changes where notifications wait, not which ones do.         *)
LEMMA ChannelTake ==
  ASSUME TypeInv, Take
  PROVE  ChannelStep
<1>1. /\ queue' = <<>> /\ list = <<>>
      /\ broker' = broker /\ lost' = lost /\ sent' = sent
  BY DEF Take, TypeInv, ListEmptied
<1>2. Elements(queue \o list) = Elements(queue) \cup Elements(list)
  BY PartsAreSequences, ElementsConcat
<1>3. Elements(list') \ {Beat} = Waiting
  <2>1. CASE list' = queue \o list
    BY <2>1, <1>2 DEF Waiting
  <2>2. CASE queue \o list = <<>> /\ list' = <<Beat>>
    BY <2>2, <1>2, EmptyParts DEF Waiting, Notes
  <2> QED
    BY <2>1, <2>2 DEF Take
<1>4. Waiting' = Waiting
  BY <1>1, <1>3, EmptyParts DEF Waiting, Notes
<1> QED
  BY <1>1, <1>4, ChannelStutters

(* The head of the local list leaves it: a notification is resolved, and   *)
(* nothing is when the head is a heartbeat.                                *)
LEMMA HeadResolved ==
  ASSUME TypeInv, OrderInv, list # <<>>, list' = Tail(list), UNCHANGED <<queue, sent>>
  PROVE  /\ Head(list) # Beat => Head(list) \in Waiting /\ Channel!Resolve(Head(list))
         /\ Head(list) = Beat => Waiting' = Waiting
<1> DEFINE m == Head(list)
<1>1. /\ Notes(list) = ({m} \ {Beat}) \cup Notes(list')
      /\ Below({m} \ {Beat}, Notes(list')) /\ Below({m} \ {Beat}, Notes(queue))
      /\ m \in Nat
  BY OrderHead
<1>2. /\ Waiting = Notes(list) \cup Notes(queue)
      /\ Waiting' = Notes(list') \cup Notes(queue)
  BY DEF Waiting, Notes
<1> HIDE DEF m
<1>3. ASSUME m # Beat
      PROVE  m \in Waiting /\ Channel!Resolve(m)
  <2>1. \A k \in Waiting : m = k \/ m < k
    BY <1>1, <1>2, <1>3 DEF Below
  <2>2. Waiting \subseteq Nat
    BY <1>2, PartsAreSequences
  <2>3. m \in Waiting /\ \A k \in Waiting : m <= k
    BY <1>1, <1>2, <1>3, <2>1, <2>2
  <2>4. m \notin Notes(list') /\ m \notin Notes(queue)
    BY <1>1, <1>3 DEF Below
  <2>5. Waiting' = Waiting \ {m}
    BY <1>1, <1>2, <1>3, <2>4
  <2> QED
    BY <2>3, <2>5 DEF Channel!Resolve, Waiting
<1> QED
  BY <1>1, <1>2, <1>3 DEF m

LEMMA ChannelLose ==
  ASSUME TypeInv, OrderInv, list # <<>>, Lose, UNCHANGED <<queue, broker, sent>>
  PROVE  ChannelStep
<1>1. list' = Tail(list) /\ lost' = lost \cup ({Head(list)} \ {Beat})
  BY DEF Lose, Done
<1>2. CASE Head(list) = Beat
  BY <1>1, <1>2, HeadResolved, ChannelStutters
<1>3. CASE Head(list) # Beat
  <2>1. Head(list) \in Waiting /\ Channel!GiveUp(Head(list))
    BY <1>1, <1>3, HeadResolved DEF Channel!GiveUp
  <2> QED
    BY <2>1 DEF ChannelStep, Channel!Next, Waiting
<1> QED
  BY <1>2, <1>3

LEMMA ChannelPublish ==
  ASSUME TypeInv, OrderInv, Publish
  PROVE  ChannelStep
<1>1. /\ list # <<>> /\ list' = Tail(list)
      /\ lost' = lost /\ queue' = queue /\ sent' = sent
  BY DEF Publish, Dealing, Done, shared
<1>2. CASE Head(list) = Beat
  BY <1>1, <1>2, HeadResolved, ChannelStutters DEF Publish
<1>3. CASE Head(list) # Beat
  <2>1. broker' = Append(broker, Head(list))
    BY <1>3 DEF Publish
  <2>2. Head(list) \in Waiting /\ Channel!Deliver(Head(list))
    BY <1>1, <1>3, <2>1, HeadResolved DEF Channel!Deliver
  <2> QED
    BY <2>2 DEF ChannelStep, Channel!Next, Waiting
<1> QED
  BY <1>2, <1>3

LEMMA ChannelNext == TypeInv /\ OrderInv /\ [Next]_vars => ChannelStep
<1> SUFFICES ASSUME TypeInv, OrderInv, [Next]_vars
             PROVE  ChannelStep
  OBVIOUS
<1>1. ASSUME UNCHANGED <<queue, list, broker, sent, lost>>
      PROVE  ChannelStep
  <2>1. Waiting' = Waiting
    BY <1>1 DEF Waiting, Elements
  <2> QED
    BY <1>1, <2>1, ChannelStutters
<1>2. ASSUME NEW p \in Producers, Push(p) \/ Post(p)
      PROVE  ChannelStep
  BY <1>1, <1>2, ChannelPush DEF Post
<1>3. CASE Stop \/ StopPost \/ LinkDown \/ LinkUp
  BY <1>1, <1>3 DEF Stop, StopPost, LinkDown, LinkUp, shared
<1>4. CASE Start \/ Wake \/ Reconnect \/ DealDone \/ UNCHANGED vars
  BY <1>1, <1>4 DEF Start, Wake, Reconnect, DealDone, vars, shared
<1>5. CASE Take
  BY <1>5, ChannelTake
<1>6. CASE DropUnconnected \/ PublishFails \/ PublishUnnoticed
  BY <1>6, ChannelLose
     DEF DropUnconnected, PublishFails, PublishUnnoticed, Dealing, shared
<1>7. CASE Publish
  BY <1>7, ChannelPublish
<1> QED
  BY <1>2, <1>3, <1>4, <1>5, <1>6, <1>7 DEF Next, Run

(* What send accepted is delivered or dropped, once each and always the    *)
(* oldest first, for any number of threads that send, and however often    *)
(* the connection is lost.                                                 *)
THEOREM ChannelImplemented == Spec => ImplementsChannel
<1>1. TypeInv /\ OrderInv /\ [Next]_vars => ChannelStep
  BY ChannelNext
<1> QED
  BY <1>1, ChannelInit, OrderAlways, PTL
     DEF Spec, ImplementsChannel, Channel!Spec, ChannelStep, Waiting
=============================================================================
