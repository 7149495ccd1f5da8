----------------------------- MODULE TaskQueue -----------------------------
(***************************************************************************)
(* What a scheduler's queue promises, one atomic step per event: a bounded  *)
(* queue that holds few tasks of one hash, gives every item it accepted to  *)
(* a runner unless the process is killed, and gives it to few runners.      *)
(* With Capacity = maxsize, Copies = 1 and Handouts = 1 this is the queue   *)
(* that the docstrings of queues/pq.py describe; PriorityQueue implements   *)
(* it with the values that its number of concurrent requests allows.        *)
(***************************************************************************)
EXTENDS Integers, FiniteSets

CONSTANTS
  Ids,
  create_hash,  \* the hash of the task an id was made for
  Capacity,     \* the most items the queue holds
  Copies,       \* the most items of one hash it holds
  Handouts      \* the most runners that get an item, for each time it is pushed

VARIABLES
  queue,        \* the ids on the queue
  enqueued,     \* how often an id was put on the queue
  taken,        \* copies of an item on their way to a runner
  received      \* copies of an item that runners got

avars == <<queue, enqueued, taken, received>>

AInit ==
  /\ queue = {}
  /\ enqueued = [i \in Ids |-> 0]
  /\ taken = [i \in Ids |-> 0]
  /\ received = [i \in Ids |-> 0]

Enqueue(i) ==
  /\ i \notin queue
  /\ Cardinality(queue) < Capacity
  /\ Cardinality({j \in queue : create_hash[j] = create_hash[i]}) < Copies
  /\ queue' = queue \cup {i}
  /\ enqueued' = [enqueued EXCEPT ![i] = @ + 1]
  /\ UNCHANGED <<taken, received>>

Dequeue(i) ==
  /\ i \in queue
  /\ queue' = queue \ {i}
  /\ taken' = [taken EXCEPT ![i] = @ + 1]
  /\ UNCHANGED <<enqueued, received>>

\* A popper that read the item before another one removed it.
DequeueAgain(i) ==
  /\ i \notin queue
  /\ received[i] + taken[i] < Handouts * enqueued[i]
  /\ taken' = [taken EXCEPT ![i] = @ + 1]
  /\ UNCHANGED <<queue, enqueued, received>>

Deliver(i) ==
  /\ taken[i] > 0
  /\ taken' = [taken EXCEPT ![i] = @ - 1]
  /\ received' = [received EXCEPT ![i] = @ + 1]
  /\ UNCHANGED <<queue, enqueued>>

\* The process is killed.
Lose ==
  /\ taken' = [i \in Ids |-> 0]
  /\ UNCHANGED <<queue, enqueued, received>>

ANext ==
  \/ \E i \in Ids : Enqueue(i) \/ Dequeue(i) \/ DequeueAgain(i) \/ Deliver(i)
  \/ Lose

ASpec == AInit /\ [][ANext]_avars
=============================================================================
