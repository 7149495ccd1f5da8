-------------------------- MODULE TaskQueue_proofs --------------------------
(***************************************************************************)
(* What TaskQueue promises beyond the guards of its steps, for each time an *)
(* item is put on the queue.  PriorityQueue implements it (QueueRefines), so *)
(* it holds of the code with the handouts that its concurrent requests give. *)
(***************************************************************************)
EXTENDS TaskQueue, TLAPS

\* An item is at no more runners than Handouts for each time it was put on the
\* queue, and while it waits none of them has the copy that waits (pop).
FewHandouts ==
  \A i \in Ids :
    received[i] + taken[i] <= Handouts * (IF i \in queue THEN enqueued[i] - 1 ELSE enqueued[i])

Types ==
  /\ queue \subseteq Ids
  /\ enqueued \in [Ids -> Nat] /\ taken \in [Ids -> Nat] /\ received \in [Ids -> Nat]

LEMMA TypesStep == Types /\ [ANext]_avars => Types'
<1> SUFFICES ASSUME Types, [ANext]_avars PROVE Types'
  OBVIOUS
<1> USE DEF Types
<1>1. ASSUME NEW i \in Ids, Enqueue(i) \/ Dequeue(i) \/ DequeueAgain(i) PROVE Types'
  BY <1>1 DEF Enqueue, Dequeue, DequeueAgain
<1>2. ASSUME NEW i \in Ids, Deliver(i) PROVE Types'
  BY <1>2 DEF Deliver
<1>3. CASE Lose
  BY <1>3 DEF Lose
<1>4. CASE UNCHANGED avars
  BY <1>4 DEF avars
<1> QED BY <1>1, <1>2, <1>3, <1>4 DEF ANext

\* The copies that runners get, and those on their way, never exceed what the
\* times that the item was put on the queue allow.
THEOREM HandoutsKept ==
  ASSUME Handouts \in Nat \ {0}
  PROVE  ASpec => []FewHandouts
<1>1. \A h, n \in Nat : h * n \in Nat
  OBVIOUS
<1>2. \A h \in Nat \ {0} : \A n, m \in Nat : m <= h * n => m + 1 <= h * (n + 1)
  OBVIOUS
<1> DEFINE Inv == Types /\ FewHandouts /\ \A i \in queue : enqueued[i] > 0
<1>3. AInit => Inv
  BY DEF AInit, Types, FewHandouts
<1>4. Inv /\ [ANext]_avars => Inv'
  <2> SUFFICES ASSUME Inv, [ANext]_avars PROVE FewHandouts' /\ \A i \in queue' : enqueued'[i] > 0
    BY TypesStep
  <2> USE DEF Types
  <2>1. ASSUME NEW i \in Ids, Enqueue(i) PROVE FewHandouts' /\ \A j \in queue' : enqueued'[j] > 0
    <3>1. (enqueued[i] + 1) - 1 = enqueued[i]
      OBVIOUS
    <3> QED BY <2>1, <3>1 DEF Enqueue, FewHandouts
  <2>2. ASSUME NEW i \in Ids, Dequeue(i) PROVE FewHandouts' /\ \A j \in queue' : enqueued'[j] > 0
    <3>1. enqueued[i] - 1 \in Nat /\ received[i] + taken[i] \in Nat
      BY <2>2 DEF Dequeue
    <3>2. received[i] + taken[i] <= Handouts * (enqueued[i] - 1)
      BY <2>2 DEF Dequeue, FewHandouts
    <3>3. (received[i] + taken[i]) + 1 <= Handouts * ((enqueued[i] - 1) + 1)
      BY <1>2, <3>1, <3>2
    <3>4. received[i] + (taken[i] + 1) <= Handouts * enqueued[i]
      BY <3>1, <3>3
    <3> QED BY <2>2, <3>4 DEF Dequeue, FewHandouts
  <2>3. ASSUME NEW i \in Ids, DequeueAgain(i) PROVE FewHandouts' /\ \A j \in queue' : enqueued'[j] > 0
    <3>1. received[i] + (taken[i] + 1) <= Handouts * enqueued[i]
      <4>1. Handouts * enqueued[i] \in Nat
        BY <1>1
      <4> QED BY <2>3, <4>1 DEF DequeueAgain
    <3> QED BY <2>3, <3>1 DEF DequeueAgain, FewHandouts
  <2>4. ASSUME NEW i \in Ids, Deliver(i) PROVE FewHandouts' /\ \A j \in queue' : enqueued'[j] > 0
    <3>1. (received[i] + 1) + (taken[i] - 1) = received[i] + taken[i]
      OBVIOUS
    <3> QED BY <2>4, <3>1 DEF Deliver, FewHandouts
  <2>5. CASE Lose
    <3>1. \A i \in Ids : received[i] + 0 <= received[i] + taken[i]
      OBVIOUS
    <3>2. \A i \in Ids : Handouts * (IF i \in queue THEN enqueued[i] - 1 ELSE enqueued[i]) \in Int
      OBVIOUS
    <3> QED BY <2>5, <3>1, <3>2 DEF Lose, FewHandouts
  <2>6. CASE UNCHANGED avars
    BY <2>6 DEF avars, FewHandouts
  <2> QED BY <2>1, <2>2, <2>3, <2>4, <2>5, <2>6 DEF ANext
<1> QED BY <1>3, <1>4, PTL DEF ASpec
=============================================================================
