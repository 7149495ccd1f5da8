--------------------------- MODULE PriorityQueue ---------------------------
(***************************************************************************)
(* The priority queue of one scheduler and everything a request does to it: *)
(* queues/pq.py over repositories/sqlalchemy/pq_store.py, the task records  *)
(* of repositories/sqlalchemy/task_store.py, push_item_to_queue, post_push, *)
(* pop_item_from_queue and post_pop of schedulers/scheduler.py, and the     *)
(* endpoints push_queue, pop_queue and patch_task of server/server.py.      *)
(*                                                                          *)
(* The queue lives in the table "items" and the task records in the table   *)
(* "tasks".  Every method of a store opens a transaction of its own, so one *)
(* request is a sequence of transactions and the requests of the server's   *)
(* thread pool and of the populator thread interleave between them.  One    *)
(* action is one transaction with the code up to the next one.  The process *)
(* may be killed between any two of them; the tables survive.               *)
(***************************************************************************)
EXTENDS Integers, FiniteSets

CONSTANTS
  Ids,          \* uuids: of an item, and of the task made from it
  Hashes,       \* what create_hash returns
  Priorities,   \* lower goes first (peek orders by priority ascending)
  create_hash,  \* the hash of the data an id was made for
  PushItems,    \* the items clients and the populator push
  Filters,      \* the sets of hashes that the filters of a pop let through
  Pushers, Poppers, Patchers,   \* the threads that serve each kind of request
  MaxSize,      \* maxsize; 0 is unbounded
  allow_replace, allow_updates, allow_priority_updates,
  PatchStatuses,                \* statuses a runner reports with patch_task
  None,         \* SQL NULL, and Python's None
  MaxPushes,    \* bound: admitted pushes of one id
  MaxCrashes    \* bound: kills of the process

Threads == Pushers \cup Poppers \cup Patchers

TaskStatus == {"pending", "queued", "dispatched", "running", "completed", "failed"}

Item == [id : Ids, hash : Hashes \cup {None}, priority : Priorities]

Row == [hash : Hashes \cup {None}, priority : Priorities]

ASSUME QueueAssumption ==
  /\ IsFiniteSet(Ids) /\ IsFiniteSet(Threads)
  /\ create_hash \in [Ids -> Hashes]
  /\ Priorities \subseteq Int
  /\ PushItems \subseteq {p \in Item : p.hash \in {None, create_hash[p.id]}}
  /\ Filters \subseteq SUBSET Hashes
  /\ MaxSize \in Nat /\ MaxPushes \in Nat /\ MaxCrashes \in Nat
  /\ {allow_replace, allow_updates, allow_priority_updates} \subseteq BOOLEAN
  /\ PatchStatuses \subseteq TaskStatus

ASSUME NoneAssumption ==
  None \notin Row \cup Item \cup TaskStatus \cup Hashes \cup Ids

VARIABLES
  items,      \* table items: the row of an id, None if there is none
  tasks,      \* table tasks: the status recorded for an id, None if no record
  pc,         \* where the request of each thread is
  p_item,     \* the item a thread's request is about (of a patch: its id)
  admitted,   \* history: pushes of an id that found room
  inserted,   \* history: rows inserted for an id
  received,   \* history: copies of an item handed to a runner
  crashes     \* history: kills of the process

vars == <<items, tasks, pc, p_item, admitted, inserted, received, crashes>>

History == <<admitted, inserted, received, crashes>>

PushSteps == {"push_lookup", "push_insert", "push_update", "push_relookup"}
PostPushSteps == {"post_push", "post_push_update", "post_push_create"}
PostPopSteps == {"post_pop", "post_pop_update"}
Locations == {"idle", "pop_select", "pop_remove", "patch_update"}
                \cup PushSteps \cup PostPushSteps \cup PostPopSteps

Init ==
  /\ items = [i \in Ids |-> None]
  /\ tasks = [i \in Ids |-> None]
  /\ pc = [t \in Threads |-> "idle"]
  /\ p_item = [t \in Threads |-> None]
  /\ admitted = [i \in Ids |-> 0]
  /\ inserted = [i \in Ids |-> 0]
  /\ received = [i \in Ids |-> 0]
  /\ crashes = 0

----------------------------------------------------------------------------
(* What the stores answer. *)

Queued == {i \in Ids : items[i] # None}

\* Mutation of Full: one item too many.
FullLate == MaxSize # 0 /\ Cardinality(Queued) > MaxSize

Full == MaxSize # 0 /\ Cardinality(Queued) >= MaxSize

\* get_item_by_hash takes the row with the latest created_at.  created_at is
\* part of what the client sends, so any row with the hash can be that one.
ItemsByHash(h) == {i \in Queued : items[i].hash = h}

\* The decision of push for an item whose hash the row of id j has.  Task data
\* contain the task's own id, so they differ exactly when the ids do.
Allowed(p, j) ==
  \/ allow_replace
  \/ allow_updates /\ p.id # j
  \/ allow_priority_updates /\ p.priority # items[j].priority

Goto(t, l) == pc' = [pc EXCEPT ![t] = l]

\* The request of t ends, with an answer or with an error.
Return(t) ==
  /\ Goto(t, "idle")
  /\ p_item' = [p_item EXCEPT ![t] = None]

----------------------------------------------------------------------------
(* push_queue, and the populator's push_item_to_queue.  A push that finds    *)
(* the queue full is refused and changes nothing: it is a stuttering step.   *)

Push(t, p) ==
  /\ t \in Pushers /\ pc[t] = "idle" /\ admitted[p.id] < MaxPushes
  /\ ~Full
  /\ Goto(t, "push_lookup")
  /\ p_item' = [p_item EXCEPT ![t] = p]
  /\ admitted' = [admitted EXCEPT ![p.id] = @ + 1]
  /\ UNCHANGED <<items, tasks, inserted, received, crashes>>

\* Mutation of PushAbsent: the lookup is by id instead of by hash.
PushAbsentId(t) ==
  /\ pc[t] = "push_lookup"
  /\ items[p_item[t].id] = None
  /\ Goto(t, "push_insert")
  /\ UNCHANGED <<items, tasks, p_item, History>>

PushAbsent(t) ==
  /\ pc[t] = "push_lookup"
  /\ ItemsByHash(create_hash[p_item[t].id]) = {}
  /\ Goto(t, "push_insert")
  /\ UNCHANGED <<items, tasks, p_item, History>>

PushPresent(t) ==
  /\ pc[t] = "push_lookup"
  /\ \E j \in ItemsByHash(create_hash[p_item[t].id]) :
       \/ /\ Allowed(p_item[t], j)
          /\ Goto(t, "push_update")
          /\ UNCHANGED p_item
       \/ ~Allowed(p_item[t], j) /\ Return(t)       \* NotAllowedError
  /\ UNCHANGED <<items, tasks, History>>

\* Mutation of PushInsert: the request ends without post_push.
PushInsertOnly(t) ==
  LET i == p_item[t].id
  IN  /\ pc[t] = "push_insert" /\ items[i] = None
      /\ items' = [items EXCEPT ![i] =
           [hash |-> create_hash[i], priority |-> p_item[t].priority]]
      /\ inserted' = [inserted EXCEPT ![i] = @ + 1]
      /\ Return(t)
      /\ UNCHANGED <<tasks, admitted, received, crashes>>

\* Mutation of PushInsert: the hash is the one the client sent, or none.
PushInsertUnhashed(t) ==
  LET i == p_item[t].id
  IN  /\ pc[t] = "push_insert"
      /\ items[i] = None
      /\ items' = [items EXCEPT ![i] =
           [hash |-> p_item[t].hash, priority |-> p_item[t].priority]]
      /\ inserted' = [inserted EXCEPT ![i] = @ + 1]
      /\ Goto(t, "post_push")
      /\ UNCHANGED <<tasks, p_item, admitted, received, crashes>>

PushInsert(t) ==
  LET i == p_item[t].id
      h == create_hash[i]
  IN  /\ pc[t] = "push_insert"
      /\ items[i] = None
      /\ items' = [items EXCEPT ![i] = [hash |-> h, priority |-> p_item[t].priority]]
      /\ p_item' = [p_item EXCEPT ![t].hash = h]
      /\ inserted' = [inserted EXCEPT ![i] = @ + 1]
      /\ Goto(t, "post_push")
      /\ UNCHANGED <<tasks, admitted, received, crashes>>

\* The primary key is taken: IntegrityError, which no caller handles.
PushConflict(t) ==
  /\ pc[t] = "push_insert"
  /\ items[p_item[t].id] # None
  /\ Return(t)
  /\ UNCHANGED <<items, tasks, History>>

\* update writes the columns of the row whose id is the pushed item's own id:
\* that may be no row, and the hash column gets what the client sent.
PushUpdate(t) ==
  LET i == p_item[t].id
  IN  /\ pc[t] = "push_update"
      /\ items' = [items EXCEPT ![i] =
           IF @ = None THEN None
           ELSE [hash |-> p_item[t].hash, priority |-> p_item[t].priority]]
      /\ Goto(t, "push_relookup")
      /\ UNCHANGED <<tasks, p_item, History>>

PushRelookup(t) ==
  /\ pc[t] = "push_relookup"
  /\ IF ItemsByHash(create_hash[p_item[t].id]) = {}
       THEN Return(t)                        \* PrioritizedItemNotFoundError
       ELSE Goto(t, "post_push") /\ UNCHANGED p_item
  /\ UNCHANGED <<items, tasks, History>>

PostPush(t) ==
  /\ pc[t] = "post_push"
  /\ Goto(t, IF tasks[p_item[t].id] # None THEN "post_push_update"
                                           ELSE "post_push_create")
  /\ UNCHANGED <<items, tasks, p_item, History>>

PostPushUpdate(t) ==
  /\ pc[t] = "post_push_update"
  /\ tasks' = [tasks EXCEPT ![p_item[t].id] = "queued"]
  /\ Return(t)
  /\ UNCHANGED <<items, History>>

\* A record that another push created meanwhile makes this one fail.
PostPushCreate(t) ==
  /\ pc[t] = "post_push_create"
  /\ tasks' = [tasks EXCEPT ![p_item[t].id] = IF @ = None THEN "queued" ELSE @]
  /\ Return(t)
  /\ UNCHANGED <<items, History>>

----------------------------------------------------------------------------
(* pop_queue.  A pop that finds the queue empty is a stuttering step.        *)

Pop(t) ==
  /\ t \in Poppers /\ pc[t] = "idle"
  /\ Queued # {}
  /\ Goto(t, "pop_select")
  /\ UNCHANGED <<items, tasks, p_item, History>>

\* The query has no ORDER BY: its first row is any row the filters let through.
PopSelect(t, filter) ==
  /\ pc[t] = "pop_select"
  /\ \E i \in {j \in Queued : create_hash[j] \in filter} :
       p_item' = [p_item EXCEPT ![t] =
         [id |-> i, hash |-> items[i].hash, priority |-> items[i].priority]]
  /\ Goto(t, "pop_remove")
  /\ UNCHANGED <<items, tasks, History>>

\* Mutation of PopNothing: pop goes on without an item.
PopNothingUnchecked(t, filter) ==
  /\ pc[t] = "pop_select"
  /\ {j \in Queued : create_hash[j] \in filter} = {}
  /\ Goto(t, "pop_remove")
  /\ UNCHANGED <<items, tasks, p_item, History>>

PopNothing(t, filter) ==
  /\ pc[t] = "pop_select"
  /\ {j \in Queued : create_hash[j] \in filter} = {}
  /\ Return(t)
  /\ UNCHANGED <<items, tasks, History>>

\* Mutation of PopRemove: the row stays.
PopKeep(t) ==
  /\ pc[t] = "pop_remove"
  /\ Goto(t, "post_pop")
  /\ UNCHANGED <<items, tasks, p_item, History>>

PopRemove(t) ==
  /\ pc[t] = "pop_remove"
  /\ items' = [items EXCEPT ![p_item[t].id] = None]
  /\ Goto(t, "post_pop")
  /\ UNCHANGED <<tasks, p_item, History>>

\* The runner gets the item with the answer of the request.
Respond(t) ==
  /\ received' = [received EXCEPT ![p_item[t].id] = @ + 1]
  /\ Return(t)
  /\ UNCHANGED <<admitted, inserted, crashes>>

\* Mutation of PostPop: an item without a record is not handed out.
PostPopSilent(t) ==
  /\ pc[t] = "post_pop"
  /\ IF tasks[p_item[t].id] = None
       THEN Return(t)
       ELSE Goto(t, "post_pop_update") /\ UNCHANGED p_item
  /\ UNCHANGED <<items, tasks, History>>

\* Mutation of PostPop: the answer goes out before the record is updated.
PostPopEarly(t) ==
  /\ pc[t] = "post_pop"
  /\ received' = [received EXCEPT ![p_item[t].id] = @ + 1]
  /\ Goto(t, "post_pop_update")
  /\ UNCHANGED <<items, tasks, p_item, admitted, inserted, crashes>>

PostPop(t) ==
  /\ pc[t] = "post_pop"
  /\ IF tasks[p_item[t].id] = None
       THEN Respond(t)
       ELSE Goto(t, "post_pop_update") /\ UNCHANGED <<p_item, History>>
  /\ UNCHANGED <<items, tasks>>

PostPopUpdate(t) ==
  /\ pc[t] = "post_pop_update"
  /\ tasks' = [tasks EXCEPT ![p_item[t].id] = "dispatched"]
  /\ Respond(t)
  /\ UNCHANGED items

----------------------------------------------------------------------------
(* patch_task: a runner that received the item reports the task's status.    *)

Patch(t, i) ==
  /\ t \in Patchers /\ pc[t] = "idle"
  /\ received[i] > 0 /\ tasks[i] # None
  /\ Goto(t, "patch_update")
  /\ p_item' = [p_item EXCEPT ![t] = i]
  /\ UNCHANGED <<items, tasks, History>>

PatchUpdate(t) ==
  /\ pc[t] = "patch_update"
  /\ \E s \in PatchStatuses : tasks' = [tasks EXCEPT ![p_item[t]] = s]
  /\ Return(t)
  /\ UNCHANGED <<items, History>>

----------------------------------------------------------------------------
\* The process is killed (App.shutdown ends in os._exit) and started again.
Crash ==
  /\ crashes < MaxCrashes
  /\ crashes' = crashes + 1
  /\ pc' = [t \in Threads |-> "idle"]
  /\ p_item' = [t \in Threads |-> None]
  /\ UNCHANGED <<items, tasks, admitted, inserted, received>>

\* The transactions that follow the first one of a request.
Step(t) ==
  \/ PushAbsent(t) \/ PushPresent(t) \/ PushInsert(t) \/ PushConflict(t)
  \/ PushUpdate(t) \/ PushRelookup(t)
  \/ PostPush(t) \/ PostPushUpdate(t) \/ PostPushCreate(t)
  \/ \E filter \in Filters : PopSelect(t, filter) \/ PopNothing(t, filter)
  \/ PopRemove(t) \/ PostPop(t) \/ PostPopUpdate(t)
  \/ PatchUpdate(t)

Next ==
  \/ \E t \in Threads :
       \/ Step(t)
       \/ \E p \in PushItems : Push(t, p)
       \/ Pop(t)
       \/ \E i \in Ids : Patch(t, i)
  \/ Crash

Spec == Init /\ [][Next]_vars

\* Threads of a running process are scheduled, and runners poll for work.
FairSpec ==
  /\ Spec
  /\ \A t \in Threads : WF_vars(Step(t)) /\ WF_vars(Pop(t))
----------------------------------------------------------------------------
(* What the queue promises.                                                 *)

\* Threads past the full() check of push that may still insert a row.
Inserting == {t \in Pushers : pc[t] \in {"push_lookup", "push_insert"}}

\* Threads that removed the row of i and have not answered yet.
Holding(i) == {t \in Poppers : pc[t] \in PostPopSteps /\ p_item[t].id = i}

\* Each variable has its type, and a thread in the middle of a request is of
\* the kind that serves it and knows the item the request is about.
TypeOK ==
  /\ items \in [Ids -> Row \cup {None}]
  /\ tasks \in [Ids -> TaskStatus \cup {None}]
  /\ pc \in [Threads -> Locations]
  /\ p_item \in [Threads -> Item \cup Ids \cup {None}]
  /\ admitted \in [Ids -> Nat] /\ inserted \in [Ids -> Nat] /\ received \in [Ids -> Nat]
  /\ crashes \in Nat
  /\ \A t \in Threads :
       /\ pc[t] \in PushSteps \cup PostPushSteps => t \in Pushers /\ p_item[t] \in Item
       /\ pc[t] = "pop_select" => t \in Poppers
       /\ pc[t] \in {"pop_remove"} \cup PostPopSteps => t \in Poppers /\ p_item[t] \in Item
       /\ pc[t] = "patch_update" => p_item[t] \in Ids

\* maxsize is checked in a transaction before the one that inserts, so what
\* bounds the queue is maxsize plus one late insert per other pusher; with a
\* single pusher the queue never exceeds maxsize (PriorityQueue.push, full).
SizeBound ==
  MaxSize # 0 => Cardinality(Queued) <= MaxSize + Cardinality(Pushers) - 1

\* The clients that push always fill in the hash, as the populators do.
AllHashed == \A p \in PushItems : p.hash # None

\* The lookup by hash keeps a task from being on the queue twice, up to the
\* pushers that looked before another one inserted (PriorityQueue.push).
DuplicateBound ==
  AllHashed => \A h \in Hashes : Cardinality(ItemsByHash(h)) <= Cardinality(Pushers)

\* A row without a hash, which no lookup by hash finds, is the result of a second
\* push of its id: the first one fills in the hash (PriorityQueue.push).
HashedUnlessUpdated ==
  \A i \in Queued : items[i].hash = None => admitted[i] > 1

\* pop reads a row and removes it in two transactions: of every insert at most
\* one copy per concurrent popper is handed out, one copy with one popper.
CopiesBound == \A i \in Ids : received[i] <= Cardinality(Poppers) * inserted[i]

\* Every row ever inserted is on the queue, in the hands of a popper that will
\* answer, or was handed to a runner; a kill loses at most what the poppers
\* held (pop_item_from_queue removes before it answers).
NothingLost ==
  \A i \in Ids :
    inserted[i] <= received[i] + Cardinality(Holding(i))
                   + (IF i \in Queued THEN 1 ELSE 0) + Cardinality(Poppers) * crashes

\* As long as the process is not killed, an item on the queue has a task record
\* or its push is about to write one: post_pop and patch_task will find it.
RowIsRecorded ==
  crashes = 0 =>
    \A i \in Queued :
      \/ tasks[i] # None
      \/ \E t \in Pushers : pc[t] \in PostPushSteps /\ p_item[t].id = i

\* A task that was pushed once and still is on the queue is never shown as
\* dispatched or finished: no write of post_pop or patch_task reaches it early.
WaitingIsQueued ==
  \A i \in Queued : admitted[i] <= 1 => tasks[i] \in {None, "queued"}

Finished == {"completed", "failed"}

\* With one popper, no request takes back the outcome that a runner reported
\* for a task pushed once: every blind write of the task row comes earlier.
OutcomeIsFinal ==
  [][\A i \in Ids : admitted[i] <= 1 /\ tasks[i] \in Finished => tasks'[i] \in Finished]_vars

\* Runners that keep polling get every item on the queue, whatever row the
\* unordered query of pop picks, once pushing has stopped (MaxPushes).
EveryItemIsDelivered ==
  \A i \in Ids : i \in Queued ~> received[i] > 0
----------------------------------------------------------------------------
(* The inductive strengthening: each bound also counts the requests that are *)
(* already past the check that the bound rests on.                           *)

\* Threads that read the row of i, whether or not they removed it yet.
Popping(i) ==
  {t \in Poppers : pc[t] \in {"pop_remove"} \cup PostPopSteps /\ p_item[t].id = i}

\* Threads that found no row with hash h and are about to insert one.
InsertingHash(h) ==
  {t \in Pushers : pc[t] = "push_insert" /\ create_hash[p_item[t].id] = h}

SizeInv ==
  MaxSize # 0 =>
    Cardinality(Queued) + Cardinality(Inserting) <= MaxSize + Cardinality(Pushers) - 1

HashInv ==
  AllHashed =>
    /\ \A i \in Queued : items[i].hash = create_hash[i]
    /\ \A t \in Pushers : pc[t] \in PushSteps => p_item[t].hash = create_hash[p_item[t].id]

DuplicateInv ==
  AllHashed =>
    \A h \in Hashes :
      Cardinality(ItemsByHash(h)) + Cardinality(InsertingHash(h)) <= Cardinality(Pushers)

CopiesInv ==
  \A i \in Ids :
    /\ i \in Queued => /\ inserted[i] > 0
                       /\ received[i] + Cardinality(Holding(i))
                            <= Cardinality(Poppers) * (inserted[i] - 1)
    /\ i \notin Queued => received[i] + Cardinality(Popping(i))
                            <= Cardinality(Poppers) * inserted[i]

\* What every step of every request preserves, and what makes the bounds hold.
RequestInv == SizeInv /\ HashInv /\ DuplicateInv /\ CopiesInv

----------------------------------------------------------------------------
(* The queue implements TaskQueue, its bounds loosened by what concurrent    *)
(* requests can do to it.                                                    *)

Promise == INSTANCE TaskQueue WITH
  Capacity <- IF MaxSize = 0 THEN Cardinality(Ids) ELSE MaxSize + Cardinality(Pushers) - 1,
  Copies <- IF AllHashed THEN Cardinality(Pushers) ELSE Cardinality(Ids),
  Handouts <- Cardinality(Poppers),
  queue <- Queued,
  enqueued <- inserted,
  taken <- [i \in Ids |-> Cardinality(Holding(i))]

\* Seen from the table, every request is a few atomic events of TaskQueue: an
\* insert, a removal, a late removal, an answer, the loss of a kill.
ImplementsTaskQueue == Promise!ASpec
=============================================================================
