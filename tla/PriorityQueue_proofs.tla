----------------------- MODULE PriorityQueue_proofs -----------------------
(* Proofs about PriorityQueue, for every set of ids, threads and items.     *)
EXTENDS PriorityQueue, FiniteSetTheorems, TLAPS

(***************************************************************************)
(* Types.                                                                   *)
(***************************************************************************)

\* Every step keeps the types of the tables, the requests and the counters.
LEMMA TypeStep == TypeOK /\ [Next]_vars => TypeOK'
<1> SUFFICES ASSUME TypeOK, [Next]_vars PROVE TypeOK'
  OBVIOUS
<1> USE QueueAssumption, NoneAssumption
    DEF TypeOK, Locations, PushSteps, PostPushSteps, PostPopSteps, History, Goto, Return
<1>1. CASE UNCHANGED vars
  BY <1>1 DEF vars
<1>2. ASSUME NEW t \in Threads, NEW p \in PushItems, Push(t, p) PROVE TypeOK'
  BY <1>2 DEF Push, Item
<1>3. ASSUME NEW t \in Threads, PushAbsent(t) PROVE TypeOK'
  BY <1>3 DEF PushAbsent
<1>4. ASSUME NEW t \in Threads, PushPresent(t) PROVE TypeOK'
  BY <1>4 DEF PushPresent
<1>5. ASSUME NEW t \in Threads, PushInsert(t) PROVE TypeOK'
  BY <1>5 DEF PushInsert, Item, Row
<1>6. ASSUME NEW t \in Threads, PushConflict(t) PROVE TypeOK'
  BY <1>6 DEF PushConflict
<1>7. ASSUME NEW t \in Threads, PushUpdate(t) PROVE TypeOK'
  BY <1>7 DEF PushUpdate, Item, Row
<1>8. ASSUME NEW t \in Threads, PushRelookup(t) PROVE TypeOK'
  BY <1>8 DEF PushRelookup
<1>9. ASSUME NEW t \in Threads, PostPush(t) PROVE TypeOK'
  BY <1>9 DEF PostPush
<1>10. ASSUME NEW t \in Threads, PostPushUpdate(t) PROVE TypeOK'
  BY <1>10 DEF PostPushUpdate, TaskStatus, Item
<1>11. ASSUME NEW t \in Threads, PostPushCreate(t) PROVE TypeOK'
  BY <1>11 DEF PostPushCreate, TaskStatus, Item
<1>12. ASSUME NEW t \in Threads, Pop(t) PROVE TypeOK'
  BY <1>12 DEF Pop
<1>13. ASSUME NEW t \in Threads, NEW f \in Filters, PopSelect(t, f) PROVE TypeOK'
  BY <1>13 DEF PopSelect, Queued, Item, Row
<1>14. ASSUME NEW t \in Threads, NEW f \in Filters, PopNothing(t, f) PROVE TypeOK'
  BY <1>14 DEF PopNothing
<1>15. ASSUME NEW t \in Threads, PopRemove(t) PROVE TypeOK'
  BY <1>15 DEF PopRemove, Item
<1>16. ASSUME NEW t \in Threads, PostPop(t) PROVE TypeOK'
  BY <1>16 DEF PostPop, Respond, Item
<1>17. ASSUME NEW t \in Threads, PostPopUpdate(t) PROVE TypeOK'
  BY <1>17 DEF PostPopUpdate, Respond, Item, TaskStatus
<1>18. ASSUME NEW t \in Threads, NEW i \in Ids, Patch(t, i) PROVE TypeOK'
  BY <1>18 DEF Patch
<1>19. ASSUME NEW t \in Threads, PatchUpdate(t) PROVE TypeOK'
  BY <1>19 DEF PatchUpdate
<1>20. CASE Crash
  BY <1>20 DEF Crash
<1> QED
  BY <1>1, <1>2, <1>3, <1>4, <1>5, <1>6, <1>7, <1>8, <1>9, <1>10, <1>11, <1>12, <1>13,
     <1>14, <1>15, <1>16, <1>17, <1>18, <1>19, <1>20 DEF Next, Step

\* The tables, the requests and the counters keep their types: the base of
\* every other proof here.
THEOREM TypeCorrect == Spec => []TypeOK
<1>1. Init => TypeOK
  BY QueueAssumption DEF Init, TypeOK, Locations, PushSteps, PostPushSteps, PostPopSteps
<1> QED
  BY <1>1, TypeStep, PTL DEF Spec

(***************************************************************************)
(* What the steps do to the sets of requests that the bounds count.         *)
(***************************************************************************)

\* The sets the bounds count are finite, in every state.
LEMMA FiniteParts ==
  /\ \A S \in SUBSET Ids :
       IsFiniteSet(S) /\ Cardinality(S) \in Nat /\ Cardinality(S) <= Cardinality(Ids)
  /\ \A S \in SUBSET Pushers :
       IsFiniteSet(S) /\ Cardinality(S) \in Nat /\ Cardinality(S) <= Cardinality(Pushers)
  /\ \A S \in SUBSET Poppers :
       IsFiniteSet(S) /\ Cardinality(S) \in Nat /\ Cardinality(S) <= Cardinality(Poppers)
<1>1. IsFiniteSet(Ids) /\ IsFiniteSet(Pushers) /\ IsFiniteSet(Poppers)
  <2>1. IsFiniteSet(Threads) /\ Pushers \in SUBSET Threads /\ Poppers \in SUBSET Threads
    BY QueueAssumption DEF Threads
  <2> QED
    BY <2>1, QueueAssumption, FS_Subset
<1> QED
  BY <1>1, FS_Subset, FS_CardinalityType

\* Of two finite sets of ids or of pushers, the smaller one counts less.
LEMMA Smaller ==
  ASSUME NEW S, NEW T \in SUBSET S, S \subseteq Ids \/ S \subseteq Pushers \/ S \subseteq Poppers
  PROVE  Cardinality(T) \in Nat /\ Cardinality(S) \in Nat /\ Cardinality(T) <= Cardinality(S)
<1>1. IsFiniteSet(S) /\ Cardinality(S) \in Nat
  BY FiniteParts
<1>2. IsFiniteSet(T) /\ Cardinality(T) <= Cardinality(S)
  BY <1>1, FS_Subset
<1> QED
  BY <1>1, <1>2, FS_CardinalityType

\* A step that leaves the table items alone, hands nothing out, takes nothing
\* from it, and lets no request past the checks of push.
Quiet ==
  /\ UNCHANGED <<items, History>>
  /\ Inserting' \subseteq Inserting
  /\ \A h \in Hashes : InsertingHash(h)' \subseteq InsertingHash(h)
  /\ \A i \in Ids : Holding(i)' = Holding(i) /\ Popping(i)' = Popping(i)
  /\ \A t \in Threads : pc'[t] \in PushSteps => pc[t] \in PushSteps /\ p_item'[t] = p_item[t]

LEMMA QuietSteps ==
  ASSUME TypeOK, NEW t \in Threads,
         \/ PushPresent(t) \/ PushConflict(t) \/ PushRelookup(t)
         \/ PostPush(t) \/ PostPushUpdate(t) \/ PostPushCreate(t)
         \/ Pop(t) \/ \E f \in Filters : PopNothing(t, f)
         \/ \E i \in Ids : Patch(t, i)
         \/ PatchUpdate(t)
         \/ PostPop(t) /\ tasks[p_item[t].id] # None
  PROVE  Quiet
<1>1. UNCHANGED <<items, History>>
  BY DEF PushPresent, PushConflict, PushRelookup, PostPush, PostPushUpdate, PostPushCreate,
         Pop, PopNothing, Patch, PatchUpdate, PostPop
<1>2. \A u \in Threads : u # t => pc'[u] = pc[u] /\ p_item'[u] = p_item[u]
  BY DEF PushPresent, PushConflict, PushRelookup, PostPush, PostPushUpdate, PostPushCreate,
         Pop, PopNothing, Patch, PatchUpdate, PostPop, Goto, Return, TypeOK
<1>3. /\ pc'[t] \notin {"push_lookup", "push_insert"}
      /\ pc'[t] \in PushSteps => pc[t] \in PushSteps /\ p_item'[t] = p_item[t]
  BY DEF PushPresent, PushConflict, PushRelookup, PostPush, PostPushUpdate, PostPushCreate,
         Pop, PopNothing, Patch, PatchUpdate, PostPop, Goto, Return, TypeOK, PushSteps
<1>4. \/ pc[t] \notin {"pop_remove"} \cup PostPopSteps /\ pc'[t] \notin {"pop_remove"} \cup PostPopSteps
      \/ pc[t] \in PostPopSteps /\ pc'[t] \in PostPopSteps /\ p_item'[t] = p_item[t]
  BY DEF PushPresent, PushConflict, PushRelookup, PostPush, PostPushUpdate, PostPushCreate,
         Pop, PopNothing, Patch, PatchUpdate, PostPop, Goto, Return, TypeOK, PostPopSteps
<1>5. Pushers \subseteq Threads /\ Poppers \subseteq Threads
  BY DEF Threads
<1>6. Inserting' \subseteq Inserting
  BY <1>2, <1>3, <1>5 DEF Inserting
<1>7. \A h \in Hashes : InsertingHash(h)' \subseteq InsertingHash(h)
  BY <1>2, <1>3, <1>5 DEF InsertingHash
<1>8. \A i \in Ids : Holding(i)' = Holding(i)
  BY <1>2, <1>4, <1>5 DEF Holding, PostPopSteps
<1>9. \A i \in Ids : Popping(i)' = Popping(i)
  BY <1>2, <1>4, <1>5 DEF Popping, PostPopSteps
<1>10. \A u \in Threads : pc'[u] \in PushSteps => pc[u] \in PushSteps /\ p_item'[u] = p_item[u]
  BY <1>2, <1>3
<1> QED
  BY <1>1, <1>6, <1>7, <1>8, <1>9, <1>10 DEF Quiet

\* An insert adds a row for an id that has none.
LEMMA InsertEffect ==
  ASSUME TypeOK, NEW t \in Threads, PushInsert(t)
  PROVE  /\ t \in Pushers /\ pc[t] = "push_insert" /\ p_item[t] \in Item
         /\ p_item[t].id \in Ids /\ p_item[t].id \notin Queued
         /\ create_hash[p_item[t].id] \in Hashes /\ p_item[t].priority \in Priorities
         /\ Queued' = Queued \cup {p_item[t].id}
<1>1. t \in Pushers /\ pc[t] = "push_insert" /\ p_item[t] \in Item
  BY DEF PushInsert, TypeOK, PushSteps
<1>2. p_item[t].id \in Ids /\ p_item[t].priority \in Priorities
  BY <1>1 DEF Item
<1>3. create_hash[p_item[t].id] \in Hashes
  BY <1>2, QueueAssumption
<1>4. p_item[t].id \notin Queued
  BY DEF PushInsert, Queued
<1>5. [hash |-> create_hash[p_item[t].id], priority |-> p_item[t].priority] # None
  BY <1>2, <1>3, NoneAssumption DEF Row
<1>6. Queued' = Queued \cup {p_item[t].id}
  BY <1>2, <1>5 DEF PushInsert, Queued, TypeOK
<1> QED
  BY <1>1, <1>2, <1>3, <1>4, <1>6

\* The steps that hand an item to a runner.
Answer(t) == (PostPop(t) /\ tasks[p_item[t].id] = None) \/ PostPopUpdate(t)

\* Every step is quiet or one of the eight that the bounds are about.
LEMMA StepCases ==
  ASSUME TypeOK, [Next]_vars
  PROVE  \/ Quiet
         \/ \E t \in Threads :
              \/ \E p \in PushItems : Push(t, p)
              \/ PushAbsent(t) \/ PushInsert(t) \/ PushUpdate(t)
              \/ \E f \in Filters : PopSelect(t, f)
              \/ PopRemove(t) \/ Answer(t)
         \/ Crash
<1>1. CASE UNCHANGED vars
  <2>1. Quiet
    BY <1>1 DEF vars, Quiet, History, Inserting, InsertingHash, Holding, Popping
  <2> QED
    BY <2>1
<1>2. ASSUME NEW t \in Threads, Step(t) PROVE
         \/ Quiet
         \/ PushAbsent(t) \/ PushInsert(t) \/ PushUpdate(t)
         \/ \E f \in Filters : PopSelect(t, f)
         \/ PopRemove(t) \/ Answer(t)
  BY <1>2, QuietSteps DEF Step, Answer
<1>3. ASSUME NEW t \in Threads, Pop(t) \/ \E i \in Ids : Patch(t, i) PROVE Quiet
  BY <1>3, QuietSteps
<1> QED
  BY <1>1, <1>2, <1>3 DEF Next

\* The requests that the bounds count, where the program starts.
LEMMA InitRequests == Init => SizeInv /\ HashInv /\ DuplicateInv /\ CopiesInv
<1> SUFFICES ASSUME Init PROVE SizeInv /\ HashInv /\ DuplicateInv /\ CopiesInv
  OBVIOUS
<1>1. /\ Queued = {} /\ Inserting = {}
      /\ \A h \in Hashes : ItemsByHash(h) = {} /\ InsertingHash(h) = {}
      /\ \A i \in Ids : Popping(i) = {} /\ received[i] = 0 /\ inserted[i] = 0
      /\ \A t \in Pushers : pc[t] \notin PushSteps
  BY DEF Init, Queued, Inserting, ItemsByHash, InsertingHash, Popping, PushSteps, PostPopSteps, Threads
<1>2. Cardinality({}) = 0 /\ Cardinality(Pushers) \in Nat /\ Cardinality(Poppers) \in Nat
  BY FS_EmptySet, FiniteParts
<1>3. SizeInv
  BY <1>1, <1>2, QueueAssumption DEF SizeInv
<1>4. HashInv
  BY <1>1 DEF HashInv
<1>5. DuplicateInv
  BY <1>1, <1>2 DEF DuplicateInv
<1>6. CopiesInv
  <2>1. Cardinality(Poppers) * 0 = 0
    BY <1>2
  <2> QED
    BY <1>1, <1>2, <2>1 DEF CopiesInv
<1> QED
  BY <1>3, <1>4, <1>5, <1>6

(***************************************************************************)
(* The size of the queue.                                                   *)
(***************************************************************************)

\* A row that is waiting for its insert already counts against maxsize.
LEMMA SizeStep ==
  ASSUME TypeOK, SizeInv, [Next]_vars
  PROVE  SizeInv'
<1> SUFFICES ASSUME MaxSize # 0
             PROVE  Cardinality(Queued') + Cardinality(Inserting')
                      <= MaxSize + Cardinality(Pushers) - 1
  BY DEF SizeInv
<1> USE QueueAssumption
<1>1. /\ Queued \subseteq Ids /\ Queued' \subseteq Ids
      /\ Inserting \subseteq Pushers /\ Inserting' \subseteq Pushers
  BY DEF Queued, Inserting
<1>2. /\ Cardinality(Queued) \in Nat /\ Cardinality(Queued') \in Nat
      /\ Cardinality(Inserting) \in Nat /\ Cardinality(Inserting') \in Nat
      /\ Cardinality(Inserting') <= Cardinality(Pushers) /\ Cardinality(Pushers) \in Nat
      /\ IsFiniteSet(Queued) /\ IsFiniteSet(Inserting)
  BY <1>1, FiniteParts
<1>3. Cardinality(Queued) + Cardinality(Inserting) <= MaxSize + Cardinality(Pushers) - 1
  BY DEF SizeInv
<1>4. ASSUME Queued' \subseteq Queued, Inserting' \subseteq Inserting
      PROVE  Cardinality(Queued') + Cardinality(Inserting')
               <= MaxSize + Cardinality(Pushers) - 1
  <2>1. Cardinality(Queued') <= Cardinality(Queued)
    BY <1>1, <1>4, Smaller
  <2>2. Cardinality(Inserting') <= Cardinality(Inserting)
    BY <1>1, <1>4, Smaller
  <2> QED
    BY <1>2, <1>3, <2>1, <2>2
<1>5. CASE Quiet
  BY <1>4, <1>5 DEF Quiet, Queued
<1>6. ASSUME NEW t \in Threads, NEW p \in PushItems, Push(t, p)
      PROVE  Cardinality(Queued') + Cardinality(Inserting')
               <= MaxSize + Cardinality(Pushers) - 1
  <2>1. Queued' = Queued /\ Cardinality(Queued) < MaxSize
    BY <1>2, <1>6 DEF Push, Full, Queued
  <2> QED
    BY <1>2, <2>1
<1>7. ASSUME NEW t \in Threads, PushInsert(t)
      PROVE  Cardinality(Queued') + Cardinality(Inserting')
               <= MaxSize + Cardinality(Pushers) - 1
  <2>1. p_item[t].id \in Ids /\ t \in Pushers
    BY <1>7, InsertEffect
  <2>2. Queued' = Queued \cup {p_item[t].id} /\ p_item[t].id \notin Queued
    BY <1>7, InsertEffect
  <2>3. Inserting' = Inserting \ {t} /\ t \in Inserting
    BY <1>7, <2>1 DEF PushInsert, Inserting, TypeOK, Goto, Threads
  <2>4. Cardinality(Queued') = Cardinality(Queued) + 1
    BY <1>2, <2>2, FS_AddElement
  <2>5. Cardinality(Inserting') = Cardinality(Inserting) - 1
    BY <1>2, <2>3, FS_RemoveElement
  <2> QED
    BY <1>2, <1>3, <2>4, <2>5
<1>8. ASSUME NEW t \in Threads, PushAbsent(t) PROVE Queued' = Queued /\ Inserting' = Inserting
  BY <1>8 DEF PushAbsent, Queued, Inserting, TypeOK, Goto, Threads
<1>9. ASSUME NEW t \in Threads, PushUpdate(t) PROVE Queued' = Queued /\ Inserting' = Inserting
  <2>1. Queued' = Queued
    BY <1>9, NoneAssumption DEF PushUpdate, Queued, TypeOK, Row, Item, PushSteps
  <2> QED
    BY <1>9, <2>1 DEF PushUpdate, Inserting, TypeOK, Goto, Threads
<1>10. ASSUME NEW t \in Threads, NEW f \in Filters, PopSelect(t, f)
       PROVE  Queued' = Queued /\ Inserting' = Inserting
  BY <1>10 DEF PopSelect, Queued, Inserting, TypeOK, Goto, Threads
<1>11. ASSUME NEW t \in Threads, PopRemove(t)
       PROVE  Queued' \subseteq Queued /\ Inserting' = Inserting
  BY <1>11 DEF PopRemove, Queued, Inserting, TypeOK, Goto, Threads
<1>12. ASSUME NEW t \in Threads, Answer(t) PROVE Queued' = Queued /\ Inserting' = Inserting
  BY <1>12 DEF Answer, PostPop, PostPopUpdate, Respond, Return, Queued, Inserting, TypeOK, Goto, Threads
<1>13. CASE Crash
  <2>1. Queued' = Queued /\ Inserting' \subseteq Inserting
    BY <1>13 DEF Crash, Queued, Inserting, Threads
  <2> QED
    BY <1>4, <2>1
<1> QED
  BY <1>4, <1>5, <1>6, <1>7, <1>8, <1>9, <1>10, <1>11, <1>12, <1>13, StepCases

\* The queue never holds more than maxsize items plus one late insert for each
\* pusher but one, for every number of threads, ids and kills.
THEOREM SizeCorrect == Spec => []SizeBound
<1>1. Init => SizeInv
  BY InitRequests
<1>2. TypeOK /\ SizeInv /\ [Next]_vars => SizeInv'
  BY SizeStep
<1>3. SizeInv => SizeBound
  <2>1. Cardinality(Queued) \in Nat /\ Cardinality(Inserting) \in Nat /\ Cardinality(Pushers) \in Nat
    BY FiniteParts DEF Queued, Inserting
  <2> QED
    BY <2>1, QueueAssumption DEF SizeInv, SizeBound
<1> QED
  BY <1>1, <1>2, <1>3, TypeCorrect, PTL DEF Spec

(***************************************************************************)
(* One task on the queue.                                                   *)
(***************************************************************************)

\* If clients fill in the hash, the hash column is what create_hash says.
LEMMA HashStep ==
  ASSUME TypeOK, HashInv, [Next]_vars
  PROVE  HashInv'
<1> SUFFICES ASSUME AllHashed
             PROVE  /\ \A i \in Queued' : items'[i].hash = create_hash[i]
                    /\ \A u \in Pushers : pc'[u] \in PushSteps =>
                                            p_item'[u].hash = create_hash[p_item'[u].id]
  BY DEF HashInv, AllHashed
<1>1. /\ \A i \in Queued : items[i].hash = create_hash[i]
      /\ \A u \in Pushers : pc[u] \in PushSteps => p_item[u].hash = create_hash[p_item[u].id]
  BY DEF HashInv
<1> DEFINE Goal == /\ \A i \in Queued' : items'[i].hash = create_hash[i]
                   /\ \A u \in Pushers : pc'[u] \in PushSteps =>
                                           p_item'[u].hash = create_hash[p_item'[u].id]
<1> USE <1>1 DEF TypeOK, Goto, Queued, Threads
<1>2. CASE Quiet
  BY <1>2 DEF Quiet
<1>3. ASSUME NEW t \in Threads, NEW p \in PushItems, Push(t, p) PROVE Goal
  <2>1. p.hash = create_hash[p.id] /\ p \in Item
    BY QueueAssumption DEF AllHashed
  <2> QED
    BY <1>3, <2>1 DEF Push
<1>4. ASSUME NEW t \in Threads, PushAbsent(t) PROVE Goal
  BY <1>4 DEF PushAbsent, PushSteps
<1>5. ASSUME NEW t \in Threads, PushInsert(t) PROVE Goal
  <2>1. p_item[t] \in Item /\ t \in Pushers
    BY <1>5 DEF PushInsert, PushSteps
  <2>2. pc'[t] \notin PushSteps
    BY <1>5 DEF PushInsert, PushSteps
  <2> QED
    BY <1>5, <2>1, <2>2 DEF PushInsert, Item
<1>6. ASSUME NEW t \in Threads, PushUpdate(t) PROVE Goal
  <2>1. p_item[t] \in Item /\ t \in Pushers /\ pc[t] \in PushSteps
    BY <1>6 DEF PushUpdate, PushSteps
  <2> QED
    BY <1>6, <2>1 DEF PushUpdate, Item
<1>7. ASSUME NEW t \in Threads, NEW f \in Filters, PopSelect(t, f) PROVE Goal
  BY <1>7 DEF PopSelect, PushSteps
<1>8. ASSUME NEW t \in Threads, PopRemove(t) PROVE Goal
  BY <1>8 DEF PopRemove, PushSteps
<1>9. ASSUME NEW t \in Threads, Answer(t) PROVE Goal
  BY <1>9 DEF Answer, PostPop, PostPopUpdate, Respond, Return, PushSteps
<1>10. CASE Crash
  BY <1>10 DEF Crash, PushSteps
<1> QED
  BY <1>2, <1>3, <1>4, <1>5, <1>6, <1>7, <1>8, <1>9, <1>10, StepCases

\* A pusher that found no row with a hash counts with the rows of that hash.
LEMMA DuplicateStep ==
  ASSUME TypeOK, HashInv, DuplicateInv, [Next]_vars
  PROVE  DuplicateInv'
<1> SUFFICES ASSUME AllHashed, NEW h \in Hashes
             PROVE  Cardinality(ItemsByHash(h)') + Cardinality(InsertingHash(h)')
                      <= Cardinality(Pushers)
  BY DEF DuplicateInv, AllHashed
<1> DEFINE Goal == Cardinality(ItemsByHash(h)') + Cardinality(InsertingHash(h)')
                     <= Cardinality(Pushers)
<1>1. /\ ItemsByHash(h) \subseteq Ids /\ ItemsByHash(h)' \subseteq Ids
      /\ InsertingHash(h) \subseteq Pushers /\ InsertingHash(h)' \subseteq Pushers
  BY DEF ItemsByHash, Queued, InsertingHash
<1>2. /\ Cardinality(ItemsByHash(h)) \in Nat /\ Cardinality(ItemsByHash(h)') \in Nat
      /\ Cardinality(InsertingHash(h)) \in Nat /\ Cardinality(InsertingHash(h)') \in Nat
      /\ Cardinality(InsertingHash(h)') <= Cardinality(Pushers)
      /\ Cardinality(Pushers) \in Nat
      /\ IsFiniteSet(ItemsByHash(h)) /\ IsFiniteSet(InsertingHash(h))
  BY <1>1, FiniteParts
<1>3. Cardinality(ItemsByHash(h)) + Cardinality(InsertingHash(h)) <= Cardinality(Pushers)
  BY DEF DuplicateInv
<1>4. ASSUME ItemsByHash(h)' \subseteq ItemsByHash(h), InsertingHash(h)' \subseteq InsertingHash(h)
      PROVE  Goal
  <2>1. Cardinality(ItemsByHash(h)') <= Cardinality(ItemsByHash(h))
    BY <1>1, <1>4, Smaller
  <2>2. Cardinality(InsertingHash(h)') <= Cardinality(InsertingHash(h))
    BY <1>1, <1>4, Smaller
  <2> QED
    BY <1>2, <1>3, <2>1, <2>2
<1> DEFINE Shrinks == /\ ItemsByHash(h)' \subseteq ItemsByHash(h)
                      /\ InsertingHash(h)' \subseteq InsertingHash(h)
<1>5. CASE Quiet
  BY <1>4, <1>5 DEF Quiet, ItemsByHash, Queued
<1>6. ASSUME NEW t \in Threads, NEW p \in PushItems, Push(t, p) PROVE Shrinks
  BY <1>6 DEF Push, ItemsByHash, Queued, InsertingHash, TypeOK, Goto, Threads
<1>7. ASSUME NEW t \in Threads, PushAbsent(t) PROVE Goal
  <2>1. ItemsByHash(h)' = ItemsByHash(h)
    BY <1>7 DEF PushAbsent, ItemsByHash, Queued
  <2>2. CASE create_hash[p_item[t].id] = h
    <3>1. ItemsByHash(h) = {}
      BY <1>7, <2>2 DEF PushAbsent
    <3> QED
      BY <1>2, <2>1, <3>1, FS_EmptySet
  <2>3. CASE create_hash[p_item[t].id] # h
    <3>1. InsertingHash(h)' \subseteq InsertingHash(h)
      BY <1>7, <2>3 DEF PushAbsent, InsertingHash, TypeOK, Goto, Threads
    <3> QED
      BY <1>4, <2>1, <3>1
  <2> QED
    BY <2>2, <2>3
<1>8. ASSUME NEW t \in Threads, PushInsert(t) PROVE Goal
  <2>1. p_item[t] \in Item /\ t \in Pushers /\ p_item[t].id \in Ids
    BY <1>8 DEF PushInsert, TypeOK, PushSteps, Item
  <2> DEFINE i == p_item[t].id
  <2>2. CASE create_hash[i] = h
    <3>1. ItemsByHash(h)' = ItemsByHash(h) \cup {i} /\ i \notin ItemsByHash(h)
      BY <1>8, <2>1, <2>2, NoneAssumption, QueueAssumption
         DEF PushInsert, ItemsByHash, Queued, TypeOK, Row, Item
    <3>2. InsertingHash(h)' = InsertingHash(h) \ {t} /\ t \in InsertingHash(h)
      BY <1>8, <2>1, <2>2 DEF PushInsert, InsertingHash, TypeOK, Goto, Threads
    <3>3. Cardinality(ItemsByHash(h)') = Cardinality(ItemsByHash(h)) + 1
      BY <1>2, <3>1, FS_AddElement
    <3>4. Cardinality(InsertingHash(h)') = Cardinality(InsertingHash(h)) - 1
      BY <1>2, <3>2, FS_RemoveElement
    <3> QED
      BY <1>2, <1>3, <3>3, <3>4
  <2>3. CASE create_hash[i] # h
    <3>1. ItemsByHash(h)' \subseteq ItemsByHash(h)
      BY <1>8, <2>1, <2>3 DEF PushInsert, ItemsByHash, Queued, TypeOK
    <3>2. InsertingHash(h)' \subseteq InsertingHash(h)
      BY <1>8, <2>1 DEF PushInsert, InsertingHash, TypeOK, Goto, Threads
    <3> QED
      BY <1>4, <3>1, <3>2
  <2> QED
    BY <2>2, <2>3
<1>9. ASSUME NEW t \in Threads, PushUpdate(t) PROVE Shrinks
  <2>1. /\ p_item[t] \in Item /\ t \in Pushers /\ p_item[t].id \in Ids
        /\ p_item[t].hash = create_hash[p_item[t].id]
    BY <1>9 DEF PushUpdate, TypeOK, PushSteps, Item, HashInv
  <2>2. \A i \in Queued : items[i].hash = create_hash[i]
    BY DEF HashInv
  <2>3. ItemsByHash(h)' \subseteq ItemsByHash(h)
    BY <1>9, <2>1, <2>2 DEF PushUpdate, ItemsByHash, Queued, TypeOK
  <2> QED
    BY <1>9, <2>3 DEF PushUpdate, InsertingHash, TypeOK, Goto, Threads
<1>10. ASSUME NEW t \in Threads, NEW f \in Filters, PopSelect(t, f) PROVE Shrinks
  BY <1>10 DEF PopSelect, ItemsByHash, Queued, InsertingHash, TypeOK, Goto, Threads
<1>11. ASSUME NEW t \in Threads, PopRemove(t) PROVE Shrinks
  BY <1>11 DEF PopRemove, ItemsByHash, Queued, InsertingHash, TypeOK, Goto, Threads
<1>12. ASSUME NEW t \in Threads, Answer(t) PROVE Shrinks
  BY <1>12 DEF Answer, PostPop, PostPopUpdate, Respond, Return, ItemsByHash, Queued,
               InsertingHash, TypeOK, Goto, Threads
<1>13. CASE Crash
  <2>1. Shrinks
    BY <1>13 DEF Crash, ItemsByHash, Queued, InsertingHash, Threads
  <2> QED
    BY <1>4, <2>1
<1> QED
  BY <1>4, <1>5, <1>6, <1>7, <1>8, <1>9, <1>10, <1>11, <1>12, <1>13, StepCases

\* Where clients fill in the hash, a task is on the queue at most as often as
\* there are concurrent pushers: once, with one.
THEOREM DuplicateCorrect == Spec => []DuplicateBound
<1>1. Init => HashInv /\ DuplicateInv
  BY InitRequests
<1>2. TypeOK /\ HashInv /\ DuplicateInv /\ [Next]_vars => HashInv' /\ DuplicateInv'
  BY HashStep, DuplicateStep
<1>3. DuplicateInv => DuplicateBound
  <2> SUFFICES ASSUME DuplicateInv, AllHashed, NEW h \in Hashes
               PROVE  Cardinality(ItemsByHash(h)) <= Cardinality(Pushers)
    BY DEF DuplicateBound
  <2>1. /\ Cardinality(ItemsByHash(h)) \in Nat /\ Cardinality(InsertingHash(h)) \in Nat
        /\ Cardinality(Pushers) \in Nat
    BY FiniteParts DEF ItemsByHash, Queued, InsertingHash
  <2> QED
    BY <2>1 DEF DuplicateInv
<1> QED
  BY <1>1, <1>2, <1>3, TypeCorrect, PTL DEF Spec

(***************************************************************************)
(* Copies handed out, and copies lost.                                      *)
(***************************************************************************)

\* The poppers of an item, before and after a step that is not quiet.
SamePoppers ==
  \A i \in Ids : Holding(i)' = Holding(i) /\ Popping(i)' = Popping(i)

LEMMA PopperSets ==
  ASSUME TypeOK, NEW t \in Threads
  PROVE  /\ \A p \in PushItems : Push(t, p) => SamePoppers
         /\ PushAbsent(t) \/ PushInsert(t) \/ PushUpdate(t) => SamePoppers
         /\ \A f \in Filters : PopSelect(t, f) =>
              /\ \A i \in Ids : Holding(i)' = Holding(i)
              /\ \A i \in Ids \ Queued : Popping(i)' = Popping(i)
         /\ PopRemove(t) =>
              /\ p_item[t].id \in Ids
              /\ \A i \in Ids : Popping(i)' = Popping(i) /\ t \notin Holding(i)
              /\ \A i \in Ids : Holding(i)' = IF i = p_item[t].id THEN Holding(i) \cup {t}
                                                               ELSE Holding(i)
              /\ t \in Popping(p_item[t].id)
         /\ Answer(t) =>
              /\ p_item[t].id \in Ids
              /\ \A i \in Ids : /\ Holding(i)' = Holding(i) \ {t} /\ Popping(i)' = Popping(i) \ {t}
                                /\ t \in Holding(i) <=> i = p_item[t].id
                                /\ t \in Popping(i) <=> i = p_item[t].id
<1> USE DEF TypeOK, Goto, Threads, SamePoppers, Holding, Popping, PostPopSteps
<1>1. ASSUME NEW p \in PushItems, Push(t, p) PROVE SamePoppers
  BY <1>1 DEF Push
<1>2. ASSUME PushAbsent(t) \/ PushInsert(t) \/ PushUpdate(t) PROVE SamePoppers
  <2>1. \A u \in Threads : u # t => pc'[u] = pc[u] /\ p_item'[u] = p_item[u]
    BY <1>2 DEF PushAbsent, PushInsert, PushUpdate
  <2>2. {pc[t], pc'[t]} \cap ({"pop_remove"} \cup PostPopSteps) = {}
    BY <1>2 DEF PushAbsent, PushInsert, PushUpdate
  <2> QED
    BY <2>1, <2>2
<1>3. ASSUME NEW f \in Filters, PopSelect(t, f)
      PROVE  /\ \A i \in Ids : Holding(i)' = Holding(i)
             /\ \A i \in Ids \ Queued : Popping(i)' = Popping(i)
  BY <1>3 DEF PopSelect
<1>4. ASSUME PopRemove(t)
      PROVE  /\ p_item[t].id \in Ids
             /\ \A i \in Ids : Popping(i)' = Popping(i) /\ t \notin Holding(i)
             /\ \A i \in Ids : Holding(i)' = IF i = p_item[t].id THEN Holding(i) \cup {t}
                                                              ELSE Holding(i)
             /\ t \in Popping(p_item[t].id)
  BY <1>4 DEF PopRemove, Item
<1>5. ASSUME Answer(t)
      PROVE  /\ p_item[t].id \in Ids
             /\ \A i \in Ids : /\ Holding(i)' = Holding(i) \ {t} /\ Popping(i)' = Popping(i) \ {t}
                               /\ t \in Holding(i) <=> i = p_item[t].id
                               /\ t \in Popping(i) <=> i = p_item[t].id
  <2>1. /\ pc[t] \in PostPopSteps /\ pc' = [pc EXCEPT ![t] = "idle"]
        /\ p_item' = [p_item EXCEPT ![t] = None]
    BY <1>5 DEF Answer, PostPop, PostPopUpdate, Respond, Return
  <2>2. t \in Poppers /\ p_item[t].id \in Ids
    BY <2>1 DEF Item
  <2> QED
    BY <2>1, <2>2
<1> QED
  BY <1>1, <1>2, <1>3, <1>4, <1>5

\* What is handed out or on its way is bounded by the poppers of each insert.
LEMMA CopiesStep ==
  ASSUME TypeOK, CopiesInv, [Next]_vars
  PROVE  CopiesInv'
<1> DEFINE P == Cardinality(Poppers)
           Good(i) == /\ i \in Queued => /\ inserted[i] > 0
                                         /\ received[i] + Cardinality(Holding(i)) <= P * (inserted[i] - 1)
                      /\ i \notin Queued => received[i] + Cardinality(Popping(i)) <= P * inserted[i]
<1> SUFFICES ASSUME NEW i \in Ids PROVE Good(i)'
  BY DEF CopiesInv
<1>1. Good(i)
  BY DEF CopiesInv
<1>2. /\ Cardinality(Holding(i)) \in Nat /\ Cardinality(Holding(i)') \in Nat
      /\ Cardinality(Popping(i)) \in Nat /\ Cardinality(Popping(i)') \in Nat
      /\ IsFiniteSet(Holding(i)) /\ IsFiniteSet(Popping(i))
      /\ P \in Nat /\ Cardinality(Popping(i)) <= P
  BY FiniteParts DEF Holding, Popping
<1>3. Cardinality(Holding(i)) <= Cardinality(Popping(i))
  BY Smaller DEF Holding, Popping
<1>4. received[i] \in Nat /\ inserted[i] \in Nat
  BY DEF TypeOK
<1> HIDE DEF P
<1>5. ASSUME SamePoppers, Queued' = Queued, UNCHANGED <<inserted, received>> PROVE Good(i)'
  BY <1>1, <1>5 DEF SamePoppers
<1>6. CASE Quiet
  BY <1>5, <1>6 DEF Quiet, SamePoppers, Queued, History
<1>7. ASSUME NEW t \in Threads, NEW p \in PushItems, Push(t, p) PROVE Good(i)'
  BY <1>5, <1>7, PopperSets DEF Push, Queued
<1>8. ASSUME NEW t \in Threads, PushAbsent(t) PROVE Good(i)'
  BY <1>5, <1>8, PopperSets DEF PushAbsent, Queued, History
<1>9. ASSUME NEW t \in Threads, PushInsert(t) PROVE Good(i)'
  <2>1. SamePoppers /\ received' = received
    BY <1>9, PopperSets DEF PushInsert
  <2>2. p_item[t].id \in Ids
    BY <1>9 DEF PushInsert, TypeOK, PushSteps, Item
  <2>3. CASE i = p_item[t].id
    <3>1. i \notin Queued /\ inserted'[i] = inserted[i] + 1
      BY <1>9, <2>3 DEF PushInsert, Queued, TypeOK
    <3>2. i \in Queued'
      BY <1>9, <2>3, InsertEffect
    <3>3. received[i] + Cardinality(Holding(i)) <= P * inserted[i]
      BY <1>1, <1>2, <1>3, <1>4, <3>1
    <3> QED
      BY <1>2, <1>4, <2>1, <3>1, <3>2, <3>3 DEF SamePoppers
  <2>4. CASE i # p_item[t].id
    <3>1. (i \in Queued <=> i \in Queued') /\ inserted'[i] = inserted[i]
      BY <1>9, <2>2, <2>4 DEF PushInsert, Queued, TypeOK
    <3> QED
      BY <1>1, <2>1, <3>1 DEF SamePoppers
  <2> QED
    BY <2>3, <2>4
<1>10. ASSUME NEW t \in Threads, PushUpdate(t) PROVE Good(i)'
  <2>1. Queued' = Queued
    BY <1>10, NoneAssumption DEF PushUpdate, Queued, TypeOK, Row, Item, PushSteps
  <2> QED
    BY <1>5, <1>10, <2>1, PopperSets DEF PushUpdate, History
<1>11. ASSUME NEW t \in Threads, NEW f \in Filters, PopSelect(t, f) PROVE Good(i)'
  <2>1. Holding(i)' = Holding(i) /\ (i \notin Queued => Popping(i)' = Popping(i))
    BY <1>11, PopperSets
  <2>2. Queued' = Queued /\ inserted' = inserted /\ received' = received
    BY <1>11 DEF PopSelect, Queued, History
  <2> QED
    BY <1>1, <2>1, <2>2
<1>12. ASSUME NEW t \in Threads, PopRemove(t) PROVE Good(i)'
  <2>1. inserted' = inserted /\ received' = received
    BY <1>12 DEF PopRemove, History
  <2>2. CASE i = p_item[t].id
    <3>1. i \notin Queued' /\ Popping(i)' = Popping(i)
      BY <1>12, <2>2, PopperSets DEF PopRemove, Queued, TypeOK
    <3>2. received[i] + Cardinality(Popping(i)) <= P * inserted[i]
      <4>1. CASE i \notin Queued
        BY <1>1, <4>1
      <4>2. CASE i \in Queued
        <5>1. received[i] <= P * (inserted[i] - 1)
          BY <1>1, <1>2, <1>4, <4>2
        <5>2. P * (inserted[i] - 1) + P = P * inserted[i]
          BY <1>2, <1>4
        <5> QED
          BY <1>2, <1>4, <5>1, <5>2
      <4> QED
        BY <4>1, <4>2
    <3> QED
      BY <2>1, <3>1, <3>2
  <2>3. CASE i # p_item[t].id
    <3>1. (i \in Queued <=> i \in Queued') /\ Holding(i)' = Holding(i) /\ Popping(i)' = Popping(i)
      BY <1>12, <2>3, PopperSets DEF PopRemove, Queued, TypeOK
    <3> QED
      BY <1>1, <2>1, <3>1
  <2> QED
    BY <2>2, <2>3
<1>13. ASSUME NEW t \in Threads, Answer(t) PROVE Good(i)'
  <2>1. Queued' = Queued /\ inserted' = inserted
    BY <1>13 DEF Answer, PostPop, PostPopUpdate, Respond, Queued
  <2>2. received' = [received EXCEPT ![p_item[t].id] = @ + 1]
    BY <1>13 DEF Answer, PostPop, PostPopUpdate, Respond
  <2>3. CASE i = p_item[t].id
    <3>1. /\ Holding(i)' = Holding(i) \ {t} /\ t \in Holding(i)
          /\ Popping(i)' = Popping(i) \ {t} /\ t \in Popping(i)
      BY <1>13, <2>3, PopperSets
    <3>2. /\ Cardinality(Holding(i)') = Cardinality(Holding(i)) - 1
          /\ Cardinality(Popping(i)') = Cardinality(Popping(i)) - 1
      BY <1>2, <3>1, FS_RemoveElement
    <3>3. received'[i] = received[i] + 1
      BY <2>2, <2>3 DEF TypeOK
    <3>4. /\ received'[i] + Cardinality(Holding(i)') = received[i] + Cardinality(Holding(i))
          /\ received'[i] + Cardinality(Popping(i)') = received[i] + Cardinality(Popping(i))
      BY <1>2, <1>4, <3>2, <3>3
    <3> QED
      BY <1>1, <2>1, <3>4
  <2>4. CASE i # p_item[t].id
    <3>1. Holding(i)' = Holding(i) /\ Popping(i)' = Popping(i) /\ received'[i] = received[i]
      <4>1. received'[i] = received[i]
        BY <2>2, <2>4 DEF TypeOK
      <4>2. /\ Holding(i)' = Holding(i) \ {t} /\ Popping(i)' = Popping(i) \ {t}
            /\ t \notin Holding(i) /\ t \notin Popping(i)
        BY <1>13, <2>4, PopperSets
      <4> QED
        BY <4>1, <4>2
    <3> QED
      BY <1>1, <2>1, <3>1
  <2> QED
    BY <2>3, <2>4
<1>14. CASE Crash
  <2>1. Holding(i)' = {} /\ Popping(i)' = {}
    BY <1>14 DEF Crash, Holding, Popping, PostPopSteps, Threads
  <2>2. Queued' = Queued /\ inserted' = inserted /\ received' = received
    BY <1>14 DEF Crash, Queued
  <2>3. Cardinality(Holding(i)') = 0 /\ Cardinality(Popping(i)') = 0
    BY <2>1, FS_EmptySet
  <2>4. i \in Queued => received[i] <= P * (inserted[i] - 1)
    BY <1>1, <1>2, <1>4
  <2>5. i \notin Queued => received[i] <= P * inserted[i]
    BY <1>1, <1>2, <1>4
  <2> QED
    BY <1>1, <1>2, <1>4, <2>2, <2>3, <2>4, <2>5
<1> QED
  BY <1>6, <1>7, <1>8, <1>9, <1>10, <1>11, <1>12, <1>13, <1>14, StepCases

\* An item is handed out at most once per popper each time it is put on the
\* queue, through any interleaving, kill and renewed push.
THEOREM CopiesCorrect == Spec => []CopiesBound
<1>1. Init => CopiesInv
  BY InitRequests
<1>2. TypeOK /\ CopiesInv /\ [Next]_vars => CopiesInv'
  BY CopiesStep
<1>3. TypeOK /\ CopiesInv => CopiesBound
  <2> SUFFICES ASSUME TypeOK, CopiesInv, NEW i \in Ids
               PROVE  received[i] <= Cardinality(Poppers) * inserted[i]
    BY DEF CopiesBound
  <2>1. /\ Cardinality(Holding(i)) \in Nat /\ Cardinality(Popping(i)) \in Nat
        /\ Cardinality(Poppers) \in Nat
    BY FiniteParts DEF Holding, Popping
  <2>2. received[i] \in Nat /\ inserted[i] \in Nat
    BY DEF TypeOK
  <2>3. CASE i \in Queued
    <3>1. received[i] <= Cardinality(Poppers) * (inserted[i] - 1)
      BY <2>1, <2>2, <2>3 DEF CopiesInv
    <3>2. Cardinality(Poppers) * (inserted[i] - 1) <= Cardinality(Poppers) * inserted[i]
      BY <2>1, <2>2
    <3> QED
      BY <2>1, <2>2, <3>1, <3>2
  <2>4. CASE i \notin Queued
    BY <2>1, <2>2, <2>4 DEF CopiesInv
  <2> QED
    BY <2>3, <2>4
<1> QED
  BY <1>1, <1>2, <1>3, TypeCorrect, PTL DEF Spec

\* What was inserted is on the queue, on its way, handed out or lost in a kill.
LEMMA LossStep ==
  ASSUME TypeOK, NothingLost, [Next]_vars
  PROVE  NothingLost'
<1> DEFINE P == Cardinality(Poppers)
           H(i) == Cardinality(Holding(i))
           On(i) == IF i \in Queued THEN 1 ELSE 0
           Good(i) == inserted[i] <= received[i] + H(i) + On(i) + P * crashes
<1> SUFFICES ASSUME NEW i \in Ids PROVE Good(i)'
  BY DEF NothingLost
<1>1. Good(i)
  BY DEF NothingLost
<1>2. /\ H(i) \in Nat /\ H(i)' \in Nat /\ IsFiniteSet(Holding(i))
      /\ P \in Nat /\ H(i) <= P
  BY FiniteParts DEF Holding
<1>3. received[i] \in Nat /\ inserted[i] \in Nat /\ crashes \in Nat
  BY DEF TypeOK
<1>4. P * crashes \in Nat
  BY <1>2, <1>3
<1> HIDE DEF P
<1>5. ASSUME Holding(i)' = Holding(i), i \in Queued <=> i \in Queued',
             UNCHANGED <<inserted, received, crashes>>
      PROVE  Good(i)'
  BY <1>1, <1>5
<1>6. CASE Quiet
  BY <1>5, <1>6 DEF Quiet, Queued, History
<1>7. ASSUME NEW t \in Threads, NEW p \in PushItems, Push(t, p) PROVE Good(i)'
  BY <1>5, <1>7, PopperSets DEF Push, Queued, SamePoppers
<1>8. ASSUME NEW t \in Threads, PushAbsent(t) PROVE Good(i)'
  BY <1>5, <1>8, PopperSets DEF PushAbsent, Queued, SamePoppers, History
<1>9. ASSUME NEW t \in Threads, PushInsert(t) PROVE Good(i)'
  <2>1. H(i)' = H(i) /\ received' = received /\ crashes' = crashes
    BY <1>9, PopperSets DEF PushInsert, SamePoppers
  <2>2. p_item[t].id \in Ids /\ p_item[t].priority \in Priorities
    BY <1>9 DEF PushInsert, TypeOK, PushSteps, Item
  <2>3. CASE i = p_item[t].id
    <3>1. i \notin Queued /\ inserted'[i] = inserted[i] + 1
      BY <1>9, <2>3 DEF PushInsert, Queued, TypeOK
    <3>2. i \in Queued'
      BY <1>9, <2>3, InsertEffect
    <3> QED
      BY <1>1, <1>2, <1>3, <1>4, <2>1, <3>1, <3>2
  <2>4. CASE i # p_item[t].id
    <3>1. (i \in Queued <=> i \in Queued') /\ inserted'[i] = inserted[i]
      BY <1>9, <2>2, <2>4 DEF PushInsert, Queued, TypeOK
    <3> QED
      BY <1>1, <2>1, <3>1
  <2> QED
    BY <2>3, <2>4
<1>10. ASSUME NEW t \in Threads, PushUpdate(t) PROVE Good(i)'
  <2>1. Queued' = Queued
    BY <1>10, NoneAssumption DEF PushUpdate, Queued, TypeOK, Row, Item, PushSteps
  <2> QED
    BY <1>5, <1>10, <2>1, PopperSets DEF PushUpdate, History, SamePoppers
<1>11. ASSUME NEW t \in Threads, NEW f \in Filters, PopSelect(t, f) PROVE Good(i)'
  BY <1>5, <1>11, PopperSets DEF PopSelect, Queued, History
<1>12. ASSUME NEW t \in Threads, PopRemove(t) PROVE Good(i)'
  <2>1. UNCHANGED <<inserted, received, crashes>>
    BY <1>12 DEF PopRemove, History
  <2>2. CASE i = p_item[t].id
    <3>1. Holding(i)' = Holding(i) \cup {t} /\ t \notin Holding(i)
      BY <1>12, <2>2, PopperSets
    <3>2. H(i)' = H(i) + 1
      BY <1>2, <3>1, FS_AddElement
    <3>3. On(i)' >= On(i) - 1
      OBVIOUS
    <3> QED
      BY <1>1, <1>2, <1>3, <1>4, <2>1, <3>2, <3>3
  <2>3. CASE i # p_item[t].id
    BY <1>5, <1>12, <2>1, <2>3, PopperSets DEF PopRemove, Queued, TypeOK
  <2> QED
    BY <2>2, <2>3
<1>13. ASSUME NEW t \in Threads, Answer(t) PROVE Good(i)'
  <2>1. Queued' = Queued /\ inserted' = inserted /\ crashes' = crashes
    BY <1>13 DEF Answer, PostPop, PostPopUpdate, Respond, Queued
  <2>2. received' = [received EXCEPT ![p_item[t].id] = @ + 1]
    BY <1>13 DEF Answer, PostPop, PostPopUpdate, Respond
  <2>3. CASE i = p_item[t].id
    <3>1. Holding(i)' = Holding(i) \ {t} /\ t \in Holding(i)
      BY <1>13, <2>3, PopperSets
    <3>2. H(i)' = H(i) - 1
      BY <1>2, <3>1, FS_RemoveElement
    <3>3. received'[i] = received[i] + 1
      BY <2>2, <2>3 DEF TypeOK
    <3> QED
      BY <1>1, <1>2, <1>3, <1>4, <2>1, <3>2, <3>3
  <2>4. CASE i # p_item[t].id
    <3>1. received'[i] = received[i]
      BY <2>2, <2>4 DEF TypeOK
    <3>2. Holding(i)' = Holding(i) \ {t} /\ t \notin Holding(i)
      BY <1>13, <2>4, PopperSets
    <3>3. Holding(i)' = Holding(i)
      BY <3>2
    <3> QED
      BY <1>1, <2>1, <3>1, <3>3
  <2> QED
    BY <2>3, <2>4
<1>14. CASE Crash
  <2>1. Queued' = Queued /\ inserted' = inserted /\ received' = received /\ crashes' = crashes + 1
    BY <1>14 DEF Crash, Queued
  <2>2. P * (crashes + 1) = P * crashes + P
    BY <1>2, <1>3
  <2> QED
    BY <1>1, <1>2, <1>3, <1>4, <2>1, <2>2
<1> QED
  BY <1>6, <1>7, <1>8, <1>9, <1>10, <1>11, <1>12, <1>13, <1>14, StepCases

\* No accepted item disappears: it is on the queue, on its way or with a runner,
\* save for what the poppers held when the process was killed.
THEOREM LossCorrect == Spec => []NothingLost
<1>1. Init => NothingLost
  <2> SUFFICES ASSUME Init, NEW i \in Ids
               PROVE  inserted[i] <= received[i] + Cardinality(Holding(i))
                        + (IF i \in Queued THEN 1 ELSE 0) + Cardinality(Poppers) * crashes
    BY DEF NothingLost
  <2>1. inserted[i] = 0 /\ received[i] = 0 /\ crashes = 0
    BY DEF Init
  <2>2. Cardinality(Holding(i)) \in Nat /\ Cardinality(Poppers) \in Nat
    BY FiniteParts DEF Holding
  <2> QED
    BY <2>1, <2>2
<1>2. TypeOK /\ NothingLost /\ [Next]_vars => NothingLost'
  BY LossStep
<1> QED
  BY <1>1, <1>2, TypeCorrect, PTL DEF Spec

(***************************************************************************)
(* The queue and its task records.                                          *)
(***************************************************************************)

\* Up to the first kill, post_push has written or will write the record of
\* every row of the queue.
THEOREM RecordCorrect == Spec => []RowIsRecorded
<1>1. Init => RowIsRecorded
  BY DEF Init, RowIsRecorded, Queued
<1>2. TypeOK /\ RowIsRecorded /\ [Next]_vars => RowIsRecorded'
  <2> SUFFICES ASSUME TypeOK, RowIsRecorded, [Next]_vars, crashes' = 0, NEW i \in Ids, i \in Queued'
               PROVE  \/ tasks'[i] # None
                      \/ \E t \in Pushers : pc'[t] \in PostPushSteps /\ p_item'[t].id = i
    BY DEF RowIsRecorded, Queued
  <2> DEFINE Goal == \/ tasks'[i] # None
                     \/ \E t \in Pushers : pc'[t] \in PostPushSteps /\ p_item'[t].id = i
  <2>1. i \in Queued /\ crashes = 0 =>
          \/ tasks[i] # None
          \/ \E t \in Pushers : pc[t] \in PostPushSteps /\ p_item[t].id = i
    BY DEF RowIsRecorded
  <2> USE <2>1 DEF Goto, Return, PostPushSteps, Queued, TypeOK, Threads
  <2>2. CASE UNCHANGED vars
    BY <2>2 DEF vars
  <2>3. ASSUME NEW t \in Threads, NEW p \in PushItems, Push(t, p) PROVE Goal
    BY <2>3 DEF Push
  <2>4. ASSUME NEW t \in Threads, PushAbsent(t) \/ PushPresent(t) \/ PushConflict(t) PROVE Goal
    BY <2>4 DEF PushAbsent, PushPresent, PushConflict, History
  <2>5. ASSUME NEW t \in Threads, PushInsert(t) PROVE Goal
    <3>1. t \in Pushers /\ p_item[t] \in Item /\ pc'[t] \in PostPushSteps
      BY <2>5 DEF PushInsert, PushSteps
    <3>2. CASE i = p_item[t].id
      <4>1. p_item'[t].id = i
        BY <2>5, <3>1, <3>2 DEF PushInsert, Item
      <4> QED
        BY <3>1, <4>1
    <3>3. CASE i # p_item[t].id
      BY <2>5, <3>1, <3>3 DEF PushInsert
    <3> QED
      BY <3>2, <3>3
  <2>6. ASSUME NEW t \in Threads, PushUpdate(t) PROVE Goal
    <3>1. items[i] # None
      BY <2>6 DEF PushUpdate
    <3> QED
      BY <2>6, <3>1 DEF PushUpdate, History
  <2>7. ASSUME NEW t \in Threads, PushRelookup(t) PROVE Goal
    BY <2>7 DEF PushRelookup, History
  <2>8. ASSUME NEW t \in Threads, PostPush(t) PROVE Goal
    <3>1. pc'[t] \in PostPushSteps /\ \A u \in Threads \ {t} : pc'[u] = pc[u]
      BY <2>8 DEF PostPush
    <3> QED
      BY <2>8, <3>1 DEF PostPush, History
  <2>9. ASSUME NEW t \in Threads, PostPushUpdate(t) PROVE Goal
    <3>1. tasks' = [tasks EXCEPT ![p_item[t].id] = "queued"] /\ "queued" # None
      BY <2>9, NoneAssumption DEF PostPushUpdate, TaskStatus
    <3>2. CASE i = p_item[t].id
      BY <3>1, <3>2
    <3>3. CASE i # p_item[t].id
      BY <2>9, <3>1, <3>3 DEF PostPushUpdate, History
    <3> QED
      BY <3>2, <3>3
  <2>10. ASSUME NEW t \in Threads, PostPushCreate(t) PROVE Goal
    <3>1. /\ tasks' = [tasks EXCEPT ![p_item[t].id] = IF @ = None THEN "queued" ELSE @]
          /\ "queued" # None
      BY <2>10, NoneAssumption DEF PostPushCreate, TaskStatus
    <3>2. CASE i = p_item[t].id
      BY <3>1, <3>2
    <3>3. CASE i # p_item[t].id
      BY <2>10, <3>1, <3>3 DEF PostPushCreate, History
    <3> QED
      BY <3>2, <3>3
  <2>11. ASSUME NEW t \in Threads, Pop(t) PROVE Goal
    BY <2>11 DEF Pop, History
  <2>12. ASSUME NEW t \in Threads, NEW f \in Filters, PopSelect(t, f) \/ PopNothing(t, f) PROVE Goal
    BY <2>12 DEF PopSelect, PopNothing, History
  <2>13. ASSUME NEW t \in Threads, PopRemove(t) PROVE Goal
    BY <2>13 DEF PopRemove, History
  <2>14. ASSUME NEW t \in Threads, PostPop(t) PROVE Goal
    BY <2>14 DEF PostPop, Respond, History
  <2>15. ASSUME NEW t \in Threads, PostPopUpdate(t) PROVE Goal
    <3>1. "dispatched" # None
      BY NoneAssumption DEF TaskStatus
    <3> QED
      BY <2>15, <3>1 DEF PostPopUpdate, Respond
  <2>16. ASSUME NEW t \in Threads, NEW j \in Ids, Patch(t, j) PROVE Goal
    BY <2>16 DEF Patch, History
  <2>17. ASSUME NEW t \in Threads, PatchUpdate(t) PROVE Goal
    <3>1. \A s \in PatchStatuses : s # None
      BY NoneAssumption, QueueAssumption
    <3> QED
      BY <2>17, <3>1 DEF PatchUpdate, History
  <2>18. CASE Crash
    BY <2>18 DEF Crash
  <2> QED
    BY <2>2, <2>3, <2>4, <2>5, <2>6, <2>7, <2>8, <2>9, <2>10, <2>11, <2>12, <2>13,
       <2>14, <2>15, <2>16, <2>17, <2>18 DEF Next, Step
<1> QED
  BY <1>1, <1>2, TypeCorrect, PTL DEF Spec

(***************************************************************************)
(* A task that is pushed once.                                              *)
(***************************************************************************)

\* Pushers of an id that may still insert its row or update it.
Underway(i) ==
  {t \in Pushers : pc[t] \in {"push_lookup", "push_insert", "push_update"} /\ p_item[t].id = i}

\* Pushers of an id that may still write its record.
Pushing(i) == {t \in Pushers : pc[t] \in PushSteps \cup PostPushSteps /\ p_item[t].id = i}

\* Each admitted push inserts a row at most once, or updates one, and there are
\* no more pushers of an id than it was admitted.
AdmitInv ==
  \A i \in Ids : /\ inserted[i] + Cardinality(Underway(i)) <= admitted[i]
                 /\ Cardinality(Pushing(i)) <= admitted[i]

\* No step but the first of a push brings a thread into it.
FewerPushers ==
  /\ UNCHANGED admitted
  /\ \A i \in Ids : Underway(i)' \subseteq Underway(i) /\ Pushing(i)' \subseteq Pushing(i)

LEMMA PusherSets ==
  ASSUME TypeOK, NEW t \in Threads
  PROVE  /\ \A p \in PushItems : Push(t, p) =>
              /\ p.id \in Ids
              /\ \A i \in Ids : /\ Underway(i)' \subseteq Underway(i) \cup {t}
                                /\ Pushing(i)' \subseteq Pushing(i) \cup {t}
                                /\ i # p.id => Underway(i)' = Underway(i) /\ Pushing(i)' = Pushing(i)
         /\ Step(t) \/ Pop(t) \/ (\E i \in Ids : Patch(t, i)) => FewerPushers
         /\ PushInsert(t) => \A i \in Ids : t \notin Underway(i)'
         /\ PostPushUpdate(t) \/ PostPushCreate(t) => \A i \in Ids : t \notin Pushing(i)'
<1> USE DEF TypeOK, Goto, Return, Threads, FewerPushers, Underway, Pushing, PushSteps, PostPushSteps,
            History
<1>1. ASSUME NEW p \in PushItems, Push(t, p)
      PROVE  /\ p.id \in Ids
             /\ \A i \in Ids : /\ Underway(i)' \subseteq Underway(i) \cup {t}
                               /\ Pushing(i)' \subseteq Pushing(i) \cup {t}
                               /\ i # p.id => Underway(i)' = Underway(i) /\ Pushing(i)' = Pushing(i)
  <2>1. p \in Item /\ p.id \in Ids
    BY QueueAssumption DEF Item
  <2>2. \A u \in Threads : u # t => pc'[u] = pc[u] /\ p_item'[u] = p_item[u]
    BY <1>1 DEF Push
  <2>3. pc[t] = "idle" /\ pc'[t] = "push_lookup" /\ p_item'[t] = p
    BY <1>1 DEF Push
  <2> QED
    BY <2>1, <2>2, <2>3
<1>2. ASSUME PushAbsent(t) \/ PushPresent(t) \/ PushConflict(t) PROVE FewerPushers
  BY <1>2 DEF PushAbsent, PushPresent, PushConflict
<1>3. ASSUME PushInsert(t) PROVE FewerPushers /\ \A i \in Ids : t \notin Underway(i)'
  <2>1. p_item[t] \in Item /\ t \in Pushers
    BY <1>3 DEF PushInsert
  <2>2. \A u \in Threads : u # t => pc'[u] = pc[u] /\ p_item'[u] = p_item[u]
    BY <1>3 DEF PushInsert
  <2>3. pc[t] = "push_insert" /\ pc'[t] = "post_push" /\ p_item'[t].id = p_item[t].id
    BY <1>3, <2>1 DEF PushInsert, Item
  <2>4. UNCHANGED admitted
    BY <1>3 DEF PushInsert
  <2> QED
    BY <2>2, <2>3, <2>4
<1>4. ASSUME PushUpdate(t) \/ PushRelookup(t) \/ PostPush(t) PROVE FewerPushers
  BY <1>4 DEF PushUpdate, PushRelookup, PostPush
<1>5. ASSUME PostPushUpdate(t) \/ PostPushCreate(t)
      PROVE  FewerPushers /\ \A i \in Ids : t \notin Pushing(i)'
  BY <1>5 DEF PostPushUpdate, PostPushCreate
<1>6. ASSUME \/ \E f \in Filters : PopSelect(t, f) \/ PopNothing(t, f)
             \/ PopRemove(t) \/ Pop(t)
      PROVE  FewerPushers
  BY <1>6 DEF PopSelect, PopNothing, PopRemove, Pop
<1>7. ASSUME PostPop(t) \/ PostPopUpdate(t) PROVE FewerPushers
  BY <1>7 DEF PostPop, PostPopUpdate, Respond
<1>8. ASSUME PatchUpdate(t) \/ \E i \in Ids : Patch(t, i) PROVE FewerPushers
  BY <1>8 DEF PatchUpdate, Patch
<1> QED
  BY <1>1, <1>2, <1>3, <1>4, <1>5, <1>6, <1>7, <1>8 DEF Step

\* The pushers of an id are counted.
LEMMA FinitePushers ==
  \A i \in Ids : /\ IsFiniteSet(Underway(i)) /\ Cardinality(Underway(i)) \in Nat
                 /\ IsFiniteSet(Pushing(i)) /\ Cardinality(Pushing(i)) \in Nat
  BY FiniteParts DEF Underway, Pushing

\* A set with at most one more element counts at most one more.
LEMMA OneMore ==
  ASSUME NEW S, IsFiniteSet(S), NEW t, NEW R \in SUBSET (S \cup {t})
  PROVE  /\ Cardinality(R) \in Nat /\ Cardinality(S) \in Nat
         /\ Cardinality(R) <= Cardinality(S) + 1
<1>1. IsFiniteSet(S \cup {t})
  BY FS_AddElement
<1>2. Cardinality(S) \in Nat /\ Cardinality(S \cup {t}) \in {Cardinality(S), Cardinality(S) + 1}
  BY FS_AddElement, FS_CardinalityType
<1>3. IsFiniteSet(R) /\ Cardinality(R) <= Cardinality(S \cup {t})
  BY <1>1, FS_Subset
<1> QED
  BY <1>2, <1>3, FS_CardinalityType

\* A set without one of its elements counts less.
LEMMA OneLess ==
  ASSUME NEW S, IsFiniteSet(S), NEW t \in S, NEW R \in SUBSET (S \ {t})
  PROVE  /\ Cardinality(R) \in Nat /\ Cardinality(S) \in Nat
         /\ Cardinality(R) <= Cardinality(S) - 1
<1>1. IsFiniteSet(S \ {t}) /\ Cardinality(S \ {t}) = Cardinality(S) - 1
  BY FS_RemoveElement
<1>2. IsFiniteSet(R) /\ Cardinality(R) <= Cardinality(S \ {t})
  BY <1>1, FS_Subset
<1> QED
  BY <1>1, <1>2, FS_CardinalityType

\* Every insert uses up the admission it belongs to.
LEMMA AdmitStep == TypeOK /\ AdmitInv /\ [Next]_vars => AdmitInv'
<1> SUFFICES ASSUME TypeOK, AdmitInv, [Next]_vars, NEW i \in Ids
             PROVE  /\ inserted'[i] + Cardinality(Underway(i)') <= admitted'[i]
                    /\ Cardinality(Pushing(i)') <= admitted'[i]
  BY DEF AdmitInv
<1> DEFINE Goal == /\ inserted'[i] + Cardinality(Underway(i)') <= admitted'[i]
                   /\ Cardinality(Pushing(i)') <= admitted'[i]
<1>1. /\ inserted[i] \in Nat /\ admitted[i] \in Nat
      /\ IsFiniteSet(Underway(i)) /\ Cardinality(Underway(i)) \in Nat
      /\ IsFiniteSet(Pushing(i)) /\ Cardinality(Pushing(i)) \in Nat
      /\ inserted[i] + Cardinality(Underway(i)) <= admitted[i]
      /\ Cardinality(Pushing(i)) <= admitted[i]
  BY FinitePushers DEF TypeOK, AdmitInv
<1>2. ASSUME UNCHANGED <<inserted, admitted>>, Underway(i)' \subseteq Underway(i), Pushing(i)' \subseteq Pushing(i)
      PROVE  Goal
  <2>1. /\ Cardinality(Underway(i)') \in Nat /\ Cardinality(Underway(i)') <= Cardinality(Underway(i))
        /\ Cardinality(Pushing(i)') \in Nat /\ Cardinality(Pushing(i)') <= Cardinality(Pushing(i))
    BY <1>1, <1>2, FS_Subset, FS_CardinalityType
  <2> QED
    BY <1>1, <1>2, <2>1
<1>3. CASE UNCHANGED vars
  BY <1>2, <1>3 DEF vars, Underway, Pushing
<1>4. ASSUME NEW t \in Threads, NEW p \in PushItems, Push(t, p) PROVE Goal
  <2>1. UNCHANGED inserted /\ admitted' = [admitted EXCEPT ![p.id] = @ + 1]
    BY <1>4 DEF Push
  <2>2. CASE i = p.id
    <3>1. admitted'[i] = admitted[i] + 1 /\ inserted'[i] = inserted[i]
      BY <2>1, <2>2 DEF TypeOK
    <3>2. Underway(i)' \in SUBSET (Underway(i) \cup {t}) /\ Pushing(i)' \in SUBSET (Pushing(i) \cup {t})
      BY <1>4, PusherSets
    <3>3. Cardinality(Underway(i)') <= Cardinality(Underway(i)) + 1 /\ Cardinality(Underway(i)') \in Nat
      BY <1>1, <3>2, OneMore
    <3>4. Cardinality(Pushing(i)') <= Cardinality(Pushing(i)) + 1 /\ Cardinality(Pushing(i)') \in Nat
      BY <1>1, <3>2, OneMore
    <3> QED
      BY <1>1, <3>1, <3>3, <3>4
  <2>3. CASE i # p.id
    <3>1. Underway(i)' = Underway(i) /\ Pushing(i)' = Pushing(i)
      BY <1>4, <2>3, PusherSets
    <3>2. admitted'[i] = admitted[i] /\ inserted'[i] = inserted[i]
      BY <2>1, <2>3 DEF TypeOK
    <3> QED
      BY <1>1, <3>1, <3>2
  <2> QED
    BY <2>2, <2>3
<1>5. ASSUME NEW t \in Threads, PushInsert(t) PROVE Goal
  <2>1. FewerPushers /\ t \notin Underway(i)'
    BY <1>5, PusherSets DEF Step
  <2>2. inserted' = [inserted EXCEPT ![p_item[t].id] = @ + 1]
    BY <1>5 DEF PushInsert
  <2>3. CASE i = p_item[t].id
    <3>1. t \in Underway(i)
      BY <1>5, <2>3, InsertEffect DEF Underway
    <3>2. Underway(i)' \in SUBSET (Underway(i) \ {t}) /\ Pushing(i)' \subseteq Pushing(i)
      BY <2>1 DEF FewerPushers
    <3>3. Cardinality(Underway(i)') <= Cardinality(Underway(i)) - 1 /\ Cardinality(Underway(i)') \in Nat
      BY <1>1, <3>1, <3>2, OneLess
    <3>4. Cardinality(Pushing(i)') <= Cardinality(Pushing(i)) /\ Cardinality(Pushing(i)') \in Nat
      BY <1>1, <3>2, FS_Subset, FS_CardinalityType
    <3>5. inserted'[i] = inserted[i] + 1 /\ admitted'[i] = admitted[i]
      BY <2>1, <2>2, <2>3 DEF TypeOK, FewerPushers
    <3> QED
      BY <1>1, <3>3, <3>4, <3>5
  <2>4. CASE i # p_item[t].id
    <3>1. inserted'[i] = inserted[i] /\ admitted'[i] = admitted[i]
      BY <2>1, <2>2, <2>4 DEF TypeOK, FewerPushers
    <3>2. /\ Cardinality(Underway(i)') <= Cardinality(Underway(i)) /\ Cardinality(Underway(i)') \in Nat
          /\ Cardinality(Pushing(i)') <= Cardinality(Pushing(i)) /\ Cardinality(Pushing(i)') \in Nat
      BY <1>1, <2>1, FS_Subset, FS_CardinalityType DEF FewerPushers
    <3> QED
      BY <1>1, <3>1, <3>2
  <2> QED
    BY <2>3, <2>4
<1>6. ASSUME NEW t \in Threads, Step(t) \/ Pop(t) \/ (\E j \in Ids : Patch(t, j)), ~PushInsert(t) PROVE Goal
  <2>1. FewerPushers
    BY <1>6, PusherSets
  <2>2. UNCHANGED inserted
    BY <1>6 DEF Step, Pop, Patch, PushAbsent, PushPresent, PushConflict, PushUpdate, PushRelookup,
       PostPush, PostPushUpdate, PostPushCreate, PopSelect, PopNothing, PopRemove, PostPop,
       PostPopUpdate, PatchUpdate, Respond, History
  <2> QED
    BY <1>2, <2>1, <2>2 DEF FewerPushers
<1>7. CASE Crash
  <2>1. Underway(i)' = {} /\ Pushing(i)' = {} /\ UNCHANGED <<inserted, admitted>>
    BY <1>7 DEF Crash, Underway, Pushing, PushSteps, PostPushSteps, Threads
  <2> QED
    BY <1>2, <2>1
<1> QED
  BY <1>3, <1>4, <1>5, <1>6, <1>7 DEF Next

SingleInv == TypeOK /\ CopiesInv /\ AdmitInv

LEMMA SingleInvariance == Spec => []SingleInv
<1>1. Init => CopiesInv /\ AdmitInv
  <2> SUFFICES ASSUME Init, NEW i \in Ids PROVE Underway(i) = {} /\ Pushing(i) = {} /\ inserted[i] = 0 /\ admitted[i] = 0
    BY InitRequests, FS_EmptySet DEF AdmitInv
  <2> QED
    BY DEF Init, Underway, Pushing, PushSteps, PostPushSteps, Threads
<1>2. TypeOK /\ CopiesInv /\ AdmitInv /\ [Next]_vars => CopiesInv' /\ AdmitInv'
  BY CopiesStep, AdmitStep
<1> QED
  BY <1>1, <1>2, TypeCorrect, PTL DEF Spec, SingleInv

\* The second push of an id is what erases the hash of its row: PushUpdate finds
\* the row of the push that was admitted before it.
THEOREM HashesCorrect == Spec => []HashedUnlessUpdated
<1>1. Init => HashedUnlessUpdated
  BY DEF Init, HashedUnlessUpdated, Queued
<1>2. SingleInv /\ HashedUnlessUpdated /\ [Next]_vars => HashedUnlessUpdated'
  <2> SUFFICES ASSUME SingleInv, HashedUnlessUpdated, [Next]_vars, NEW i \in Ids,
                      i \in Queued', items'[i].hash = None
               PROVE  admitted'[i] > 1
    BY DEF HashedUnlessUpdated, Queued
  <2>1. admitted[i] \in Nat /\ admitted'[i] \in Nat /\ admitted'[i] >= admitted[i]
    <3>1. TypeOK'
      BY TypeStep DEF SingleInv
    <3>2. UNCHANGED admitted \/ \E t \in Threads : \E p \in PushItems : Push(t, p)
      BY PusherSets DEF Next, vars, Crash, SingleInv, FewerPushers
    <3> QED
      BY <3>1, <3>2 DEF SingleInv, TypeOK, Push
  <2>2. CASE items'[i] = items[i]
    <3>1. i \in Queued /\ items[i].hash = None
      BY <2>2 DEF Queued
    <3> QED
      BY <2>1, <3>1 DEF HashedUnlessUpdated
  <2>3. ASSUME NEW t \in Threads, PushInsert(t), items'[i] # items[i] PROVE FALSE
    <3>1. i = p_item[t].id /\ items'[i].hash = create_hash[i]
      BY <2>3 DEF PushInsert, SingleInv, TypeOK
    <3> QED
      BY <3>1, QueueAssumption, NoneAssumption
  <2>4. ASSUME NEW t \in Threads, PushUpdate(t), items'[i] # items[i] PROVE admitted'[i] > 1
    <3>1. i = p_item[t].id /\ i \in Queued
      BY <2>4 DEF PushUpdate, SingleInv, TypeOK, Queued
    <3>2. t \in Underway(i)
      BY <2>4, <3>1 DEF PushUpdate, SingleInv, TypeOK, Underway, PushSteps
    <3>3. Cardinality(Underway(i)) \in Nat /\ Cardinality(Underway(i)) > 0
      BY <3>2, FinitePushers, FS_EmptySet
    <3>4. inserted[i] \in Nat /\ inserted[i] > 0
      BY <3>1 DEF SingleInv, TypeOK, CopiesInv
    <3> QED
      BY <2>1, <3>3, <3>4 DEF SingleInv, AdmitInv
  <2>5. ASSUME NEW t \in Threads, PopRemove(t), items'[i] # items[i] PROVE FALSE
    BY <2>5 DEF PopRemove, SingleInv, TypeOK, Queued
  <2>6. CASE \E t \in Threads : PushInsert(t) \/ PushUpdate(t) \/ PopRemove(t)
    BY <2>2, <2>3, <2>4, <2>5, <2>6
  <2>7. CASE UNCHANGED items
    BY <2>2, <2>7
  <2> QED
    BY <2>6, <2>7 DEF Next, Step, vars, Crash, Push, Pop, Patch, PushAbsent, PushPresent, PushConflict,
       PushRelookup, PostPush, PostPushUpdate, PostPushCreate, PopSelect, PopNothing, PostPop,
       PostPopUpdate, PatchUpdate
<1> QED
  BY <1>1, <1>2, SingleInvariance, PTL DEF Spec

\* No request but those that found the record of a task is about to update it,
\* and runners only report on items they received.
FoundInv ==
  \A t \in Threads :
    /\ pc[t] = "post_pop_update" => tasks[p_item[t].id] # None
    /\ pc[t] = "patch_update" => tasks[p_item[t]] # None /\ received[p_item[t]] > 0

\* Nobody has had the item of a task in his hands: it was never inserted, or it
\* still is on the queue and was pushed once.
Unseen(i) == inserted[i] = 0 \/ (i \in Queued /\ admitted[i] <= 1)

WaitInv == \A i \in Ids : Unseen(i) => tasks[i] \in {None, "queued"}

\* The three ways in which a record changes.
LEMMA TaskWrites ==
  ASSUME TypeOK, [Next]_vars, NEW i \in Ids, tasks'[i] # tasks[i]
  PROVE  \/ tasks'[i] = "queued" /\ \E t \in Pushing(i) : t \notin Pushing(i)'
         \/ tasks'[i] = "dispatched" /\ \E t \in Holding(i) : pc[t] = "post_pop_update"
         \/ /\ tasks'[i] \in PatchStatuses
            /\ \E t \in Threads : pc[t] = "patch_update" /\ p_item[t] = i
<1> USE DEF TypeOK
<1>1. ASSUME NEW t \in Threads, PostPushUpdate(t)
      PROVE  tasks'[i] = "queued" /\ \E u \in Pushing(i) : u \notin Pushing(i)'
  <2>1. t \in Pushing(i)
    BY <1>1 DEF PostPushUpdate, Pushing, PostPushSteps
  <2> QED
    BY <1>1, <2>1, PusherSets DEF PostPushUpdate
<1>2. ASSUME NEW t \in Threads, PostPushCreate(t)
      PROVE  tasks'[i] = "queued" /\ \E u \in Pushing(i) : u \notin Pushing(i)'
  <2>1. t \in Pushing(i)
    BY <1>2 DEF PostPushCreate, Pushing, PostPushSteps
  <2> QED
    BY <1>2, <2>1, PusherSets DEF PostPushCreate
<1>3. ASSUME NEW t \in Threads, PostPopUpdate(t)
      PROVE  tasks'[i] = "dispatched" /\ \E u \in Holding(i) : pc[u] = "post_pop_update"
  BY <1>3 DEF PostPopUpdate, Holding, PostPopSteps
<1>4. ASSUME NEW t \in Threads, PatchUpdate(t)
      PROVE  /\ tasks'[i] \in PatchStatuses
             /\ \E u \in Threads : pc[u] = "patch_update" /\ p_item[u] = i
  BY <1>4 DEF PatchUpdate
<1>5. \/ \E t \in Threads : PostPushUpdate(t) \/ PostPushCreate(t) \/ PostPopUpdate(t) \/ PatchUpdate(t)
      \/ UNCHANGED tasks
  BY DEF Next, Step, vars, Crash, Push, Pop, Patch, PushAbsent, PushPresent, PushInsert, PushConflict,
     PushUpdate, PushRelookup, PostPush, PopSelect, PopNothing, PopRemove, PostPop
<1> QED
  BY <1>1, <1>2, <1>3, <1>4, <1>5

\* The counters never decrease, and no record is ever deleted.
LEMMA Grows ==
  TypeOK /\ [Next]_vars =>
    \A i \in Ids : /\ admitted'[i] >= admitted[i] /\ inserted'[i] >= inserted[i]
                   /\ received'[i] >= received[i]
                   /\ tasks[i] # None => tasks'[i] # None
<1> SUFFICES ASSUME TypeOK, [Next]_vars, NEW i \in Ids
             PROVE  /\ admitted'[i] >= admitted[i] /\ inserted'[i] >= inserted[i]
                    /\ received'[i] >= received[i]
                    /\ tasks[i] # None => tasks'[i] # None
  OBVIOUS
<1>1. \/ UNCHANGED <<admitted, inserted, received>>
      \/ \E t \in Threads : \/ PushInsert(t) \/ PostPop(t) \/ PostPopUpdate(t)
                            \/ \E p \in PushItems : Push(t, p)
  BY DEF Next, Step, vars, Crash, Pop, Patch, PushAbsent, PushPresent, PushConflict, PushUpdate,
     PushRelookup, PostPush, PostPushUpdate, PostPushCreate, PopSelect, PopNothing, PopRemove,
     PatchUpdate, History
<1>2. admitted'[i] >= admitted[i] /\ inserted'[i] >= inserted[i] /\ received'[i] >= received[i]
  <2>1. ASSUME NEW t \in Threads, PostPop(t) \/ PostPopUpdate(t)
        PROVE  /\ UNCHANGED <<admitted, inserted>>
               /\ \/ received' = received
                  \/ received' = [received EXCEPT ![p_item[t].id] = @ + 1]
    BY <2>1 DEF PostPop, PostPopUpdate, Respond, History
  <2>2. ASSUME NEW t \in Threads, PushInsert(t) \/ \E p \in PushItems : Push(t, p)
        PROVE  admitted'[i] >= admitted[i] /\ inserted'[i] >= inserted[i] /\ received' = received
    BY <2>2 DEF TypeOK, Push, PushInsert
  <2> QED
    BY <1>1, <2>1, <2>2 DEF TypeOK
<1>3. tasks[i] # None => tasks'[i] # None
  BY TaskWrites, NoneAssumption, QueueAssumption DEF TaskStatus
<1> QED
  BY <1>2, <1>3

LEMMA FoundStep == TypeOK /\ FoundInv /\ [Next]_vars => FoundInv'
<1> SUFFICES ASSUME TypeOK, FoundInv, [Next]_vars, NEW t \in Threads
             PROVE  /\ pc'[t] = "post_pop_update" => tasks'[p_item'[t].id] # None
                    /\ pc'[t] = "patch_update" => tasks'[p_item'[t]] # None /\ received'[p_item'[t]] > 0
  BY DEF FoundInv
<1>1. CASE pc'[t] = pc[t] /\ p_item'[t] = p_item[t]
  <2>1. CASE pc[t] = "post_pop_update"
    <3>1. p_item[t].id \in Ids
      BY <2>1 DEF TypeOK, PostPopSteps, Item
    <3> QED
      BY <1>1, <2>1, <3>1, Grows DEF FoundInv
  <2>2. CASE pc[t] = "patch_update"
    <3>1. p_item[t] \in Ids /\ received[p_item[t]] \in Nat /\ received[p_item[t]] > 0
      BY <2>2 DEF TypeOK, FoundInv
    <3>2. received'[p_item[t]] \in Nat
      BY <3>1, TypeStep DEF TypeOK
    <3> QED
      BY <1>1, <2>2, <3>1, <3>2, Grows DEF FoundInv
  <2> QED
    BY <1>1, <2>1, <2>2
<1>2. CASE PostPop(t) \/ \E i \in Ids : Patch(t, i)
  <2>1. ASSUME NEW i \in Ids, Patch(t, i)
        PROVE  /\ pc'[t] = "patch_update" /\ p_item'[t] = i
               /\ tasks'[i] # None /\ received'[i] > 0
    BY <2>1 DEF Patch, Goto, TypeOK, History
  <2>2. CASE PostPop(t) /\ tasks[p_item[t].id] = None
    BY <2>2 DEF PostPop, Respond, Return, Goto, TypeOK
  <2>3. CASE PostPop(t) /\ tasks[p_item[t].id] # None
    BY <2>3 DEF PostPop, Goto, TypeOK
  <2> QED
    BY <1>2, <2>1, <2>2, <2>3
<1>3. CASE pc'[t] \notin {"post_pop_update", "patch_update"}
  BY <1>3
<1>4. \/ pc'[t] = pc[t] /\ p_item'[t] = p_item[t]
      \/ PostPop(t) \/ \E i \in Ids : Patch(t, i)
      \/ pc'[t] \notin {"post_pop_update", "patch_update"}
  <2>1. ASSUME NEW u \in Threads,
               \/ Step(u) \/ Pop(u) \/ (\E p \in PushItems : Push(u, p)) \/ (\E i \in Ids : Patch(u, i))
        PROVE  /\ \A v \in Threads : v # u => pc'[v] = pc[v] /\ p_item'[v] = p_item[v]
               /\ \/ PostPop(u) \/ \E i \in Ids : Patch(u, i)
                  \/ pc'[u] \notin {"post_pop_update", "patch_update"}
    BY <2>1 DEF TypeOK, Goto, Return, Step, Push, Pop, Patch, PushAbsent, PushPresent, PushInsert,
       PushConflict, PushUpdate, PushRelookup, PostPush, PostPushUpdate, PostPushCreate, PopSelect,
       PopNothing, PopRemove, PostPop, PostPopUpdate, PatchUpdate, Respond
  <2>2. CASE Crash
    BY <2>2 DEF Crash
  <2>3. CASE UNCHANGED vars
    BY <2>3 DEF vars
  <2> QED
    BY <2>1, <2>2, <2>3 DEF Next
<1> QED
  BY <1>1, <1>2, <1>3, <1>4

\* Of a task nobody has seen, no copy is out.
LEMMA NothingOut ==
  ASSUME SingleInv, NEW i \in Ids, Unseen(i)
  PROVE  received[i] = 0 /\ Holding(i) = {}
<1>1. /\ admitted[i] \in Nat /\ inserted[i] \in Nat /\ received[i] \in Nat
      /\ Cardinality(Poppers) \in Nat
      /\ IsFiniteSet(Holding(i)) /\ Cardinality(Holding(i)) \in Nat
      /\ IsFiniteSet(Popping(i)) /\ Cardinality(Popping(i)) \in Nat
      /\ Cardinality(Underway(i)) \in Nat
  BY FiniteParts, FinitePushers DEF SingleInv, TypeOK, Holding, Popping
<1>2. Cardinality(Poppers) * 0 = 0
  BY <1>1
<1>3. CASE i \in Queued
  <2>1. inserted[i] = 1
    BY <1>1, <1>3 DEF Unseen, SingleInv, CopiesInv, AdmitInv
  <2>2. received[i] + Cardinality(Holding(i)) <= 0
    BY <1>2, <1>3, <2>1 DEF SingleInv, CopiesInv
  <2> QED
    BY <1>1, <2>2, FS_EmptySet
<1>4. CASE i \notin Queued
  <2>1. received[i] + Cardinality(Popping(i)) <= 0
    BY <1>2, <1>4 DEF Unseen, SingleInv, CopiesInv
  <2>2. Popping(i) = {}
    BY <1>1, <2>1, FS_EmptySet
  <2> QED
    BY <1>1, <2>1, <2>2 DEF Holding, Popping
<1> QED
  BY <1>3, <1>4

\* A task that is unseen after a step was unseen before it.
LEMMA UnseenBefore ==
  ASSUME SingleInv, [Next]_vars, NEW i \in Ids, Unseen(i)'
  PROVE  Unseen(i)
<1>1. /\ admitted[i] \in Nat /\ inserted[i] \in Nat /\ Cardinality(Underway(i)) \in Nat
      /\ admitted'[i] \in Nat /\ inserted'[i] \in Nat
      /\ admitted'[i] >= admitted[i] /\ inserted'[i] >= inserted[i]
  BY FinitePushers, TypeStep, Grows DEF SingleInv, TypeOK
<1>2. CASE inserted'[i] = 0
  BY <1>1, <1>2 DEF Unseen
<1>3. ASSUME i \in Queued', i \notin Queued, admitted'[i] <= 1 PROVE Unseen(i)
  <2>1. ASSUME NEW t \in Threads, PushInsert(t) PROVE inserted[i] = 0
    <3>1. i = p_item[t].id /\ t \in Underway(i)
      BY <1>3, <2>1, InsertEffect DEF SingleInv, Underway
    <3>2. Cardinality(Underway(i)) # 0
      BY <3>1, FinitePushers, FS_EmptySet
    <3> QED
      BY <1>1, <1>3, <3>2 DEF SingleInv, AdmitInv
  <2>2. \/ \E t \in Threads : PushInsert(t) \/ PushUpdate(t) \/ PopRemove(t)
        \/ UNCHANGED items
    BY DEF Next, Step, vars, Crash, Push, Pop, Patch, PushAbsent, PushPresent, PushConflict,
       PushRelookup, PostPush, PostPushUpdate, PostPushCreate, PopSelect, PopNothing, PostPop,
       PostPopUpdate, PatchUpdate
  <2>3. ASSUME NEW t \in Threads, PushUpdate(t) \/ PopRemove(t) PROVE FALSE
    BY <1>3, <2>3 DEF PushUpdate, PopRemove, SingleInv, TypeOK, Queued
  <2> QED
    BY <1>3, <2>1, <2>2, <2>3 DEF Unseen, Queued
<1> QED
  BY <1>1, <1>2, <1>3 DEF Unseen

LEMMA WaitStep == SingleInv /\ FoundInv /\ WaitInv /\ [Next]_vars => WaitInv'
<1> SUFFICES ASSUME SingleInv, FoundInv, WaitInv, [Next]_vars, NEW i \in Ids, Unseen(i)'
             PROVE  tasks'[i] \in {None, "queued"}
  BY DEF WaitInv
<1>1. Unseen(i) /\ tasks[i] \in {None, "queued"}
  BY UnseenBefore DEF WaitInv
<1>2. received[i] = 0 /\ Holding(i) = {}
  BY <1>1, NothingOut
<1> QED
  BY <1>1, <1>2, TaskWrites DEF SingleInv, FoundInv

LEMMA WaitInvariance == Spec => [](SingleInv /\ FoundInv /\ WaitInv)
<1>1. Init => FoundInv /\ WaitInv
  BY DEF Init, FoundInv, WaitInv
<1>2. SingleInv /\ FoundInv /\ WaitInv /\ [Next]_vars => FoundInv' /\ WaitInv'
  BY FoundStep, WaitStep DEF SingleInv
<1> QED
  BY <1>1, <1>2, SingleInvariance, PTL DEF Spec

\* While a task that was pushed once waits on the queue no copy of it is out, so
\* there is no popper and no runner that could write its record.
THEOREM WaitingCorrect == Spec => []WaitingIsQueued
<1>1. WaitInv => WaitingIsQueued
  BY DEF WaitInv, Unseen, WaitingIsQueued, Queued
<1> QED
  BY <1>1, WaitInvariance, PTL

\* A push that was admitted first and alone finds no record, and a finished
\* task was received.
OutcomeInv ==
  \A i \in Ids : /\ admitted[i] = 0 => tasks[i] = None
                 /\ admitted[i] <= 1 /\ Pushing(i) # {} => tasks[i] = None
                 /\ tasks[i] \in Finished => received[i] > 0

LEMMA OutcomeStep == SingleInv /\ FoundInv /\ OutcomeInv /\ [Next]_vars => OutcomeInv'
<1> SUFFICES ASSUME SingleInv, FoundInv, OutcomeInv, [Next]_vars, NEW i \in Ids
             PROVE  /\ admitted'[i] = 0 => tasks'[i] = None
                    /\ admitted'[i] <= 1 /\ Pushing(i)' # {} => tasks'[i] = None
                    /\ tasks'[i] \in Finished => received'[i] > 0
  BY DEF OutcomeInv
<1>1. /\ admitted[i] \in Nat /\ admitted'[i] \in Nat /\ admitted'[i] >= admitted[i]
      /\ received[i] \in Nat /\ received'[i] \in Nat /\ received'[i] >= received[i]
      /\ IsFiniteSet(Pushing(i)) /\ Cardinality(Pushing(i)) \in Nat
      /\ Cardinality(Pushing(i)) <= admitted[i]
  BY FinitePushers, TypeStep, Grows DEF SingleInv, TypeOK, AdmitInv
<1>2. ASSUME tasks[i] = None, tasks'[i] # None PROVE \E t \in Pushing(i) : t \notin Pushing(i)'
  BY <1>2, TaskWrites DEF SingleInv, FoundInv, Holding, Threads
<1>3. admitted'[i] = 0 => tasks'[i] = None
  <2>1. ASSUME admitted'[i] = 0 PROVE tasks[i] = None /\ Pushing(i) = {}
    <3>1. admitted[i] = 0
      BY <1>1, <2>1
    <3> QED
      BY <1>1, <3>1, FS_EmptySet DEF OutcomeInv
  <2> QED
    BY <1>2, <2>1
<1>4. ASSUME admitted'[i] <= 1, Pushing(i)' # {} PROVE tasks'[i] = None
  <2>1. ASSUME NEW t \in Threads, NEW p \in PushItems, Push(t, p), i = p.id PROVE tasks'[i] = None
    <3>1. admitted[i] = 0 /\ tasks' = tasks
      BY <1>1, <1>4, <2>1 DEF Push, SingleInv, TypeOK
    <3> QED
      BY <3>1 DEF OutcomeInv
  <2>2. CASE Pushing(i)' \subseteq Pushing(i)
    <3>1. tasks[i] = None
      BY <1>1, <1>4, <2>2 DEF OutcomeInv
    <3>2. ASSUME NEW t \in Pushing(i), t \notin Pushing(i)' PROVE FALSE
      <4>1. Pushing(i)' \in SUBSET (Pushing(i) \ {t})
        BY <2>2, <3>2
      <4>2. Cardinality(Pushing(i)') <= 0 /\ Cardinality(Pushing(i)') \in Nat
        BY <1>1, <1>4, <4>1, OneLess
      <4>3. IsFiniteSet(Pushing(i)')
        BY <1>1, <2>2, FS_Subset
      <4> QED
        BY <1>4, <4>2, <4>3, FS_EmptySet
    <3> QED
      BY <1>2, <3>1, <3>2
  <2>3. \/ \E t \in Threads : \E p \in PushItems : Push(t, p) /\ i = p.id
        \/ Pushing(i)' \subseteq Pushing(i)
    <3>1. CASE UNCHANGED vars
      BY <3>1 DEF vars, Pushing
    <3>2. CASE Crash
      BY <3>2 DEF Crash, Pushing, PushSteps, PostPushSteps, Threads
    <3>3. ASSUME NEW t \in Threads, NEW p \in PushItems, Push(t, p), i # p.id
          PROVE  Pushing(i)' \subseteq Pushing(i)
      BY <3>3, PusherSets DEF SingleInv
    <3>4. ASSUME NEW t \in Threads, Step(t) \/ Pop(t) \/ (\E j \in Ids : Patch(t, j))
          PROVE  Pushing(i)' \subseteq Pushing(i)
      BY <3>4, PusherSets DEF SingleInv, FewerPushers
    <3> QED
      BY <3>1, <3>2, <3>3, <3>4 DEF Next
  <2> QED
    BY <2>1, <2>2, <2>3
<1>5. ASSUME tasks'[i] \in Finished PROVE received'[i] > 0
  <2>1. CASE tasks'[i] = tasks[i]
    BY <1>1, <1>5, <2>1 DEF OutcomeInv
  <2>2. CASE tasks'[i] # tasks[i]
    <3>1. \E t \in Threads : pc[t] = "patch_update" /\ p_item[t] = i
      BY <1>5, <2>2, TaskWrites DEF SingleInv, Finished
    <3> QED
      BY <1>1, <3>1 DEF FoundInv
  <2> QED
    BY <2>1, <2>2
<1> QED
  BY <1>3, <1>4, <1>5

\* With one popper and runners that report only outcomes, the outcome of a task
\* pushed once is never taken back.
THEOREM OutcomesAreFinal ==
  ASSUME Cardinality(Poppers) <= 1, PatchStatuses \subseteq Finished
  PROVE  Spec => OutcomeIsFinal
<1>1. Init => OutcomeInv
  BY NoneAssumption DEF Init, OutcomeInv, Finished, TaskStatus
<1>2. SingleInv /\ FoundInv /\ OutcomeInv /\ [Next]_vars => OutcomeInv'
  BY OutcomeStep
<1>3. SingleInv /\ FoundInv /\ OutcomeInv /\ [Next]_vars
      => [\A i \in Ids : admitted[i] <= 1 /\ tasks[i] \in Finished => tasks'[i] \in Finished]_vars
  <2> SUFFICES ASSUME SingleInv, FoundInv, OutcomeInv, [Next]_vars,
                      NEW i \in Ids, admitted[i] <= 1, tasks[i] \in Finished
               PROVE  tasks'[i] \in Finished
    OBVIOUS
  <2>1. tasks[i] # None /\ received[i] > 0
    BY NoneAssumption DEF OutcomeInv, Finished, TaskStatus
  <2>2. Pushing(i) = {}
    BY <2>1 DEF OutcomeInv
  <2>3. Holding(i) = {}
    <3>1. /\ admitted[i] \in Nat /\ inserted[i] \in Nat /\ received[i] \in Nat
          /\ Cardinality(Poppers) \in Nat
          /\ IsFiniteSet(Popping(i)) /\ Cardinality(Popping(i)) \in Nat
          /\ Cardinality(Underway(i)) \in Nat
      BY FiniteParts, FinitePushers DEF SingleInv, TypeOK, Popping
    <3>2. inserted[i] \in {0, 1} /\ Cardinality(Poppers) \in {0, 1}
      BY <3>1 DEF SingleInv, AdmitInv
    <3>3. Cardinality(Poppers) * inserted[i] <= 1
      BY <3>2
    <3>4. i \notin Queued
      BY <2>1, NothingOut DEF Unseen
    <3>5. received[i] + Cardinality(Popping(i)) <= Cardinality(Poppers) * inserted[i]
      BY <3>4 DEF SingleInv, CopiesInv
    <3>6. Cardinality(Popping(i)) = 0
      BY <2>1, <3>1, <3>2, <3>3, <3>5
    <3> QED
      BY <3>1, <3>6, FS_EmptySet DEF Holding, Popping
  <2> QED
    BY <2>2, <2>3, TaskWrites DEF SingleInv
<1> QED
  BY <1>1, <1>2, <1>3, WaitInvariance, PTL DEF Spec, OutcomeIsFinal

(***************************************************************************)
(* The queue implements TaskQueue.                                          *)
(***************************************************************************)

\* The size of the queue when a pusher that found room inserts its row.
LEMMA RoomToInsert ==
  ASSUME TypeOK, SizeInv, NEW t \in Threads, PushInsert(t)
  PROVE  Cardinality(Queued)
           < (IF MaxSize = 0 THEN Cardinality(Ids) ELSE MaxSize + Cardinality(Pushers) - 1)
<1>1. /\ Queued \in SUBSET Ids /\ Inserting \in SUBSET Pushers
      /\ Cardinality(Queued) \in Nat /\ Cardinality(Inserting) \in Nat
      /\ Cardinality(Pushers) \in Nat /\ Cardinality(Ids) \in Nat
      /\ Cardinality(Queued) <= Cardinality(Ids)
  BY FiniteParts DEF Queued, Inserting
<1>2. t \in Inserting /\ p_item[t].id \in Ids /\ p_item[t].id \notin Queued
  BY DEF PushInsert, Inserting, TypeOK, PushSteps, Item, Queued
<1>3. CASE MaxSize = 0
  <2>1. Cardinality(Queued) # Cardinality(Ids)
    BY <1>1, <1>2, FS_Subset, QueueAssumption
  <2> QED
    BY <1>1, <1>3, <2>1
<1>4. CASE MaxSize # 0
  <2>1. Cardinality(Inserting) # 0
    BY <1>1, <1>2, FiniteParts, FS_EmptySet
  <2> QED
    BY <1>1, <1>4, <2>1, QueueAssumption DEF SizeInv
<1> QED
  BY <1>3, <1>4

\* The rows of its hash when a pusher that found none inserts one.
LEMMA FewToInsert ==
  ASSUME TypeOK, HashInv, DuplicateInv, NEW t \in Threads, PushInsert(t)
  PROVE  Cardinality({j \in Queued : create_hash[j] = create_hash[p_item[t].id]})
           < (IF AllHashed THEN Cardinality(Pushers) ELSE Cardinality(Ids))
<1> DEFINE h == create_hash[p_item[t].id]
           S == {j \in Queued : create_hash[j] = h}
<1>1. /\ p_item[t].id \in Ids /\ p_item[t].id \notin Queued /\ h \in Hashes
      /\ t \in Pushers /\ pc[t] = "push_insert"
  BY InsertEffect
<1>2. S \in SUBSET Ids /\ InsertingHash(h) \in SUBSET Pushers
  BY DEF Queued, InsertingHash
<1>3. /\ IsFiniteSet(S) /\ Cardinality(S) \in Nat /\ Cardinality(S) <= Cardinality(Ids)
      /\ IsFiniteSet(InsertingHash(h)) /\ Cardinality(InsertingHash(h)) \in Nat
      /\ Cardinality(Pushers) \in Nat /\ Cardinality(Ids) \in Nat
  <2>1. Ids \in SUBSET Ids /\ Pushers \in SUBSET Pushers
    OBVIOUS
  <2> QED
    BY <1>2, <2>1, FiniteParts
<1>4. CASE ~AllHashed
  <2>1. Cardinality(S) # Cardinality(Ids)
    BY <1>1, <1>2, FS_Subset, QueueAssumption
  <2> QED
    BY <1>3, <1>4, <2>1
<1>5. CASE AllHashed
  <2>1. S = ItemsByHash(h)
    BY <1>5 DEF HashInv, ItemsByHash
  <2>2. t \in InsertingHash(h)
    BY <1>1 DEF InsertingHash
  <2>3. Cardinality(InsertingHash(h)) # 0
    BY <1>3, <2>2, FS_EmptySet
  <2>4. Cardinality(S) + Cardinality(InsertingHash(h)) <= Cardinality(Pushers)
    BY <1>1, <1>5, <2>1 DEF DuplicateInv
  <2> QED
    BY <1>3, <1>5, <2>3, <2>4
<1> QED
  BY <1>4, <1>5

\* Counting means the same in the instance of TaskQueue.
LEMMA SameCount == \A S : Promise!Cardinality(S) = Cardinality(S)
  BY DEF Promise!Cardinality, Cardinality

\* Each step of a request is an atomic event of TaskQueue or a stuttering step.
LEMMA StepRefines ==
  ASSUME TypeOK, SizeInv, HashInv, DuplicateInv, CopiesInv, [Next]_vars
  PROVE  [Promise!ANext]_(Promise!avars)
<1> DEFINE taken == [i \in Ids |-> Cardinality(Holding(i))]
<1>1. \A i \in Ids : IsFiniteSet(Holding(i)) /\ IsFiniteSet(Popping(i))
                     /\ Cardinality(Holding(i)) \in Nat /\ Cardinality(Popping(i)) \in Nat
  BY FiniteParts DEF Holding, Popping
<1>2. ASSUME SamePoppers, Queued' = Queued, UNCHANGED <<inserted, received>>
      PROVE  UNCHANGED Promise!avars
  BY <1>2 DEF Promise!avars, SamePoppers
<1>3. CASE Quiet
  BY <1>2, <1>3 DEF Quiet, SamePoppers, Queued, History
<1>4. ASSUME NEW t \in Threads, NEW p \in PushItems, Push(t, p) PROVE UNCHANGED Promise!avars
  BY <1>2, <1>4, PopperSets DEF Push, Queued
<1>5. ASSUME NEW t \in Threads, PushAbsent(t) PROVE UNCHANGED Promise!avars
  BY <1>2, <1>5, PopperSets DEF PushAbsent, Queued, History
<1>6. ASSUME NEW t \in Threads, PushInsert(t) PROVE \E i \in Ids : Promise!Enqueue(i)
  <2> DEFINE j == p_item[t].id
  <2>1. j \in Ids /\ j \notin Queued /\ Queued' = Queued \cup {j}
    BY <1>6, InsertEffect
  <2>2. inserted' = [inserted EXCEPT ![j] = @ + 1] /\ received' = received
    BY <1>6 DEF PushInsert
  <2>3. taken' = taken
    BY <1>6, PopperSets DEF SamePoppers
  <2>4. Cardinality(Queued)
          < (IF MaxSize = 0 THEN Cardinality(Ids) ELSE MaxSize + Cardinality(Pushers) - 1)
    BY <1>6, RoomToInsert
  <2>5. Cardinality({k \in Queued : create_hash[k] = create_hash[j]})
          < (IF AllHashed THEN Cardinality(Pushers) ELSE Cardinality(Ids))
    BY <1>6, FewToInsert
  <2>6. Promise!Enqueue(j)
    BY <2>1, <2>2, <2>3, <2>4, <2>5, SameCount DEF Promise!Enqueue
  <2> QED
    BY <2>1, <2>6
<1>7. ASSUME NEW t \in Threads, PushUpdate(t) PROVE UNCHANGED Promise!avars
  <2>1. Queued' = Queued
    BY <1>7, NoneAssumption DEF PushUpdate, Queued, TypeOK, Row, Item, PushSteps
  <2> QED
    BY <1>2, <1>7, <2>1, PopperSets DEF PushUpdate, History
<1>8. ASSUME NEW t \in Threads, NEW f \in Filters, PopSelect(t, f) PROVE UNCHANGED Promise!avars
  <2>1. taken' = taken
    BY <1>8, PopperSets
  <2> QED
    BY <1>8, <2>1 DEF PopSelect, Queued, History, Promise!avars
<1>9. ASSUME NEW t \in Threads, PopRemove(t)
      PROVE  \E i \in Ids : Promise!Dequeue(i) \/ Promise!DequeueAgain(i)
  <2> DEFINE j == p_item[t].id
  <2>1. /\ j \in Ids /\ t \in Popping(j) /\ t \notin Holding(j)
        /\ \A i \in Ids : Holding(i)' = IF i = j THEN Holding(i) \cup {t} ELSE Holding(i)
    BY <1>9, PopperSets
  <2>2. \A i \in Ids : Cardinality(Holding(i)') =
           IF i = j THEN Cardinality(Holding(i)) + 1 ELSE Cardinality(Holding(i))
    BY <1>1, <2>1, FS_AddElement
  <2>3. taken' = [taken EXCEPT ![j] = @ + 1]
    BY <2>1, <2>2
  <2>4. Queued' = Queued \ {j} /\ inserted' = inserted /\ received' = received
    BY <1>9, <2>1 DEF PopRemove, Queued, TypeOK, History
  <2>5. CASE j \in Queued
    BY <2>1, <2>3, <2>4, <2>5 DEF Promise!Dequeue
  <2>6. CASE j \notin Queued
    <3>1. Holding(j) \cup {t} \subseteq Popping(j)
      BY <2>1 DEF Holding, Popping
    <3>2. Cardinality(Holding(j)) + 1 <= Cardinality(Popping(j))
      <4>1. Cardinality(Holding(j) \cup {t}) = Cardinality(Holding(j)) + 1
        BY <1>1, <2>1, FS_AddElement
      <4>2. Popping(j) \subseteq Poppers
        BY DEF Popping
      <4>3. Cardinality(Holding(j) \cup {t}) <= Cardinality(Popping(j))
        BY <3>1, <4>2, Smaller
      <4> QED
        BY <4>1, <4>3
    <3>3. received[j] + Cardinality(Popping(j)) <= Cardinality(Poppers) * inserted[j]
      BY <2>1, <2>6 DEF CopiesInv
    <3>4. received[j] \in Nat /\ inserted[j] \in Nat /\ Cardinality(Poppers) \in Nat
      BY <2>1, FiniteParts DEF TypeOK
    <3>5. Cardinality(Poppers) * inserted[j] \in Nat
      BY <3>4
    <3>6. received[j] + taken[j] < Cardinality(Poppers) * inserted[j]
      BY <1>1, <2>1, <3>2, <3>3, <3>4, <3>5
    <3>7. Queued' = Queued
      BY <2>4, <2>6
    <3> QED
      BY <2>1, <2>3, <2>4, <2>6, <3>6, <3>7 DEF Promise!DequeueAgain
  <2> QED
    BY <2>5, <2>6
<1>10. ASSUME NEW t \in Threads, Answer(t) PROVE \E i \in Ids : Promise!Deliver(i)
  <2> DEFINE j == p_item[t].id
  <2>1. /\ j \in Ids
        /\ \A i \in Ids : Holding(i)' = Holding(i) \ {t} /\ (t \in Holding(i) <=> i = j)
    BY <1>10, PopperSets
  <2>2. \A i \in Ids : Cardinality(Holding(i)') =
           IF i = j THEN Cardinality(Holding(i)) - 1 ELSE Cardinality(Holding(i))
    BY <1>1, <2>1, FS_RemoveElement
  <2>3. taken' = [taken EXCEPT ![j] = @ - 1]
    BY <2>1, <2>2
  <2>4. Queued' = Queued /\ inserted' = inserted /\ received' = [received EXCEPT ![j] = @ + 1]
    BY <1>10 DEF Answer, PostPop, PostPopUpdate, Respond, Queued
  <2>5. taken[j] > 0
    <3>1. Holding(j) # {}
      BY <2>1
    <3> QED
      BY <1>1, <2>1, <3>1, FS_EmptySet
  <2> QED
    BY <2>1, <2>3, <2>4, <2>5 DEF Promise!Deliver
<1>11. CASE Crash
  <2>1. \A i \in Ids : Holding(i)' = {}
    BY <1>11 DEF Crash, Holding, PostPopSteps, Threads
  <2>2. taken' = [i \in Ids |-> 0]
    BY <2>1, FS_EmptySet
  <2>3. Promise!Lose
    BY <1>11, <2>2 DEF Crash, Queued, Promise!Lose
  <2> QED
    BY <2>3 DEF Promise!ANext
<1> QED
  BY <1>3, <1>4, <1>5, <1>6, <1>7, <1>8, <1>9, <1>10, <1>11, StepCases DEF Promise!ANext

\* The store and the requests over it implement a bounded queue of atomic
\* events: this is the promise a client of the scheduler can rely on.
THEOREM QueueRefines == Spec => ImplementsTaskQueue
<1>1. Init => Promise!AInit
  <2> SUFFICES ASSUME Init PROVE Promise!AInit
    OBVIOUS
  <2>1. \A i \in Ids : Holding(i) = {}
    BY DEF Init, Holding, PostPopSteps, Threads
  <2> QED
    BY <2>1, FS_EmptySet DEF Init, Queued, Promise!AInit
<1>2. Init => SizeInv /\ HashInv /\ DuplicateInv /\ CopiesInv
  BY InitRequests
<1>3. /\ TypeOK /\ SizeInv /\ HashInv /\ DuplicateInv /\ CopiesInv /\ [Next]_vars
      => SizeInv' /\ HashInv' /\ DuplicateInv' /\ CopiesInv'
  BY SizeStep, HashStep, DuplicateStep, CopiesStep
<1>4. /\ TypeOK /\ SizeInv /\ HashInv /\ DuplicateInv /\ CopiesInv /\ [Next]_vars
      => [Promise!ANext]_(Promise!avars)
  BY StepRefines
<1> QED
  BY <1>1, <1>2, <1>3, <1>4, TypeCorrect, PTL DEF Spec, ImplementsTaskQueue, Promise!ASpec
=============================================================================
