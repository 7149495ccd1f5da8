--------------------- MODULE NormalizerScheduler_proofs ---------------------
(* Proofs about NormalizerScheduler, for every set of raw files, mime types   *)
(* and normalizers and every size of the queue.                               *)
EXTENDS NormalizerScheduler, FiniteSetTheorems, TLAPS

(***************************************************************************)
(* Tasks and their hashes.                                                  *)
(***************************************************************************)

\* A task is a normalizer, a raw file and a mime type that pairs them.
LEMMA TaskParts ==
  /\ \A t \in Tasks : /\ t[1] \in Normalizers /\ t[2] \in Raws /\ t[3] \in MimeTypes
                      /\ Hash(t) \in Hashes
  /\ \A r \in Raws : \A p \in Pairs(r) :
       <<p[1], r, p[2]>> \in Tasks /\ <<p[1], r, p[2]>>[2] = r
  BY DEF Tasks, Pairs, Hashes

\* There are finitely many tasks and hashes.
LEMMA FiniteTasks == IsFiniteSet(Tasks) /\ IsFiniteSet(Hashes)
<1> DEFINE Nested == (Normalizers \X Raws) \X MimeTypes
           Flat == Normalizers \X Raws \X MimeTypes
           flatten == [p \in Nested |-> <<p[1][1], p[1][2], p[2]>>]
           hash == [t \in Tasks |-> Hash(t)]
<1>1. IsFiniteSet(Nested)
  BY NormalizerAssumption, FS_Product
<1>2. flatten \in Surjection(Nested, Flat)
  <2>1. flatten \in [Nested -> Flat]
    OBVIOUS
  <2>2. ASSUME NEW t \in Flat PROVE \E p \in Nested : flatten[p] = t
    <3>1. <<<<t[1], t[2]>>, t[3]>> \in Nested /\ flatten[<<<<t[1], t[2]>>, t[3]>>] = t
      BY <2>2
    <3> QED
      BY <3>1
  <2> QED
    BY <2>1, <2>2 DEF Surjection
<1>3. IsFiniteSet(Flat)
  BY <1>1, <1>2, FS_Surjection
<1>4. IsFiniteSet(Tasks)
  BY <1>3, FS_Subset DEF Tasks
<1>5. hash \in Surjection(Tasks, Hashes)
  BY DEF Surjection, Hashes
<1> QED
  BY <1>4, <1>5, FS_Surjection

(***************************************************************************)
(* Types.                                                                   *)
(***************************************************************************)

\* Where the populator is tells what it holds.
ItemsInv ==
  /\ raw_data = None <=> pc = "loop"
  /\ pc \in {"loop", "update"} => p_items = {}
  /\ pc = "create" => todo \subseteq Pairs(raw_data)
  /\ \A t \in p_items : t[2] = raw_data
  /\ p_item # None <=> pc = "post"
  /\ pc = "post" => p_item[2] = raw_data

TypeInv == TypeOK /\ ItemsInv

LEMMA TypeStep == TypeInv /\ [Next]_vars => TypeInv'
<1> SUFFICES ASSUME TypeInv, [Next]_vars PROVE TypeInv'
  OBVIOUS
<1> USE NormalizerAssumption DEF TypeInv, TypeOK, ItemsInv, populator, history, items
<1>1. CASE UNCHANGED vars
  BY <1>1 DEF vars
<1>2. CASE RawData
  BY <1>2 DEF RawData
<1>3. CASE UpdateBoefjeTask
  BY <1>3 DEF UpdateBoefjeTask, Pairs, TaskStatus
<1>4. ASSUME NEW m \in MimeTypes, SkipMimeType(m) PROVE TypeInv'
  BY <1>4 DEF SkipMimeType
<1>5. ASSUME NEW n \in Normalizers, NEW m \in MimeTypes, CreateTask(n, m) PROVE TypeInv'
  <2>1. <<n, raw_data, m>> \in Tasks /\ <<n, raw_data, m>>[2] = raw_data
    BY <1>5, TaskParts DEF CreateTask
  <2> QED
    BY <1>5, <2>1 DEF CreateTask
<1>6. CASE Created
  BY <1>6 DEF Created
<1>7. CASE Space
  BY <1>7 DEF Space
<1>8. ASSUME NEW t \in Tasks, PushItem(t) PROVE TypeInv'
  BY <1>8, TaskParts DEF PushItem, TaskStatus
<1>9. CASE Pushed \/ PostPush
  BY <1>9 DEF Pushed, PostPush, TaskStatus
<1>10. ASSUME NEW t \in Tasks, NormalizerMeta(t) PROVE TypeInv'
  BY <1>10 DEF NormalizerMeta
<1>11. CASE UpdateNormalizerTask
  BY <1>11 DEF UpdateNormalizerTask, TaskStatus
<1>12. ASSUME NEW r \in Raws, Publish(r) PROVE TypeInv'
  BY <1>12 DEF Publish
<1>13. ASSUME NEW b \in Runs, PatchBoefje(b) PROVE TypeInv'
  BY <1>13 DEF PatchBoefje, Finished, TaskStatus
<1>14. ASSUME NEW h \in Hashes, ApiPush(h) PROVE TypeInv'
  BY <1>14 DEF ApiPush
<1>15. ASSUME NEW h \in Hashes, ApiPop(h) PROVE TypeInv'
  BY <1>15 DEF ApiPop
<1>16. ASSUME NEW t \in Tasks, Normalize(t) \/ PostPop(t) PROVE TypeInv'
  BY <1>16 DEF Normalize, PostPop, TaskStatus
<1>17. CASE Crash
  <2>1. crashes' \in Nat
    BY <1>17 DEF Crash
  <2>2. UNCHANGED <<raw, metas, boefje, tasks, queue, running, published, overtaken>>
    BY <1>17 DEF Crash
  <2> QED
    BY <1>17, <2>1, <2>2 DEF Crash
<1> QED
  BY <1>1, <1>2, <1>3, <1>4, <1>5, <1>6, <1>7, <1>8, <1>9, <1>10, <1>11, <1>12, <1>13, <1>14,
     <1>15, <1>16, <1>17 DEF Next, Populator, StatusThread

LEMMA TypeInit == Init => TypeInv
<1> SUFFICES ASSUME Init PROVE TypeInv
  OBVIOUS
<1>1. boefje \in [Runs -> TaskStatus \cup {None}]
  BY DEF Init, TaskStatus
<1>2. tasks \in [Tasks -> TaskStatus \cup {None}] /\ queue \in [Hashes -> Tasks \cup {Client, None}]
  BY DEF Init
<1>3. raw \in Seq(Raws)
  BY DEF Init
<1> QED
  BY <1>1, <1>2, <1>3 DEF Init, TypeInv, TypeOK, ItemsInv

LEMMA TypeInvariance == Spec => []TypeInv
  BY TypeInit, TypeStep, PTL DEF Spec

\* The messages, the records, the rows and what the populator holds keep their
\* types: the base of every other proof here.
THEOREM TypeCorrect == Spec => []TypeOK
<1>1. TypeInv => TypeOK
  BY DEF TypeInv
<1> QED
  BY <1>1, TypeInvariance, PTL

(***************************************************************************)
(* Rows and their records.                                                  *)
(***************************************************************************)

\* A raw file that the populator has not read yet.
Unread(r) == r \notin published \/ \E i \in 1..Len(raw) : raw[i] = r

\* A raw file is published, and read, at most once.
RawInv ==
  /\ \A i \in 1..Len(raw) : raw[i] \in published
  /\ \A i, j \in 1..Len(raw) : raw[i] = raw[j] => i = j
  /\ raw_data # None => ~Unread(raw_data)

LEMMA RawStep == TypeInv /\ RawInv /\ [Next]_vars => RawInv'
<1> SUFFICES ASSUME TypeInv, RawInv, [Next]_vars PROVE RawInv'
  OBVIOUS
<1> USE DEF RawInv, Unread, populator, history, items
<1>1. CASE UNCHANGED vars
  BY <1>1 DEF vars
<1>2. CASE RawData
  <2>1. raw \in Seq(Raws) /\ raw # <<>>
    BY <1>2 DEF RawData, TypeInv, TypeOK
  <2>2. /\ Len(raw') = Len(raw) - 1 /\ Len(raw) \in Nat \ {0} /\ raw_data' = raw[1]
        /\ \A i \in 1..Len(raw') : raw'[i] = raw[i + 1] /\ i + 1 \in 1..Len(raw)
    BY <1>2, <2>1 DEF RawData
  <2>3. UNCHANGED published
    BY <1>2 DEF RawData
  <2>4. 1 \in 1..Len(raw)
    BY <2>2
  <2>5. \A i \in 1..Len(raw') : raw'[i] # raw[1]
    BY <2>2, <2>4
  <2>6. \A i, j \in 1..Len(raw') : raw'[i] = raw'[j] => i = j
    BY <2>2
  <2> QED
    BY <2>2, <2>3, <2>4, <2>5, <2>6
<1>3. ASSUME NEW r \in Raws, Publish(r) PROVE RawInv'
  <2>1. /\ raw \in Seq(Raws) /\ raw' = Append(raw, r)
        /\ r \notin published /\ published' = published \cup {r}
        /\ UNCHANGED raw_data
    BY <1>3 DEF Publish, TypeInv, TypeOK
  <2>2. /\ Len(raw) \in Nat /\ Len(raw') = Len(raw) + 1 /\ raw'[Len(raw) + 1] = r
        /\ \A i \in 1..Len(raw) : raw'[i] = raw[i]
    BY <2>1
  <2>3. \A i \in 1..Len(raw') : i \in 1..Len(raw) \/ i = Len(raw) + 1
    BY <2>2
  <2>4. \A i \in 1..Len(raw) : raw[i] # r
    BY <2>1
  <2> QED
    BY <2>1, <2>2, <2>3, <2>4
<1>4. CASE UpdateBoefjeTask \/ Created \/ Space \/ PostPush \/ Pushed
  BY <1>4 DEF UpdateBoefjeTask, Created, Space, PostPush, Pushed
<1>5. CASE \E m \in MimeTypes : SkipMimeType(m) \/ \E n \in Normalizers : CreateTask(n, m)
  BY <1>5 DEF SkipMimeType, CreateTask
<1>6. CASE \E t \in Tasks : PushItem(t) \/ NormalizerMeta(t) \/ PostPop(t) \/ Normalize(t)
  BY <1>6 DEF PushItem, NormalizerMeta, PostPop, Normalize
<1>7. CASE UpdateNormalizerTask \/ \E b \in Runs : PatchBoefje(b)
  BY <1>7 DEF UpdateNormalizerTask, PatchBoefje
<1>8. CASE \E h \in Hashes : ApiPush(h) \/ ApiPop(h)
  BY <1>8 DEF ApiPush, ApiPop
<1>9. CASE Crash
  BY <1>9 DEF Crash
<1> QED
  BY <1>1, <1>2, <1>3, <1>4, <1>5, <1>6, <1>7, <1>8, <1>9 DEF Next, Populator, StatusThread

\* A task that the populator is making, or may still push.
Making(t) == t[2] = raw_data /\ (pc \in {"push", "post"} => t \in p_items)

\* A task that nobody has heard of.
Untouched(t) ==
  /\ tasks[t] = None /\ t \notin popped \cup running \cup metas
  /\ meta # t /\ p_item # t
  /\ \A h \in Hashes : queue[h] # t

UntouchedInv == \A t \in Tasks : Unread(t[2]) \/ Making(t) => Untouched(t)

\* The task of a row has the row's hash, and no pop, runner or result of it is
\* about: what they write is never about a task that waits.
QueueInv ==
  \A h \in Hashes : queue[h] \in Tasks =>
    /\ Hash(queue[h]) = h
    /\ queue[h] \notin popped \cup running \cup metas /\ meta # queue[h]

LEMMA QueueStep ==
  TypeInv /\ RawInv /\ UntouchedInv /\ QueueInv /\ [Next]_vars => UntouchedInv' /\ QueueInv'
<1> SUFFICES ASSUME TypeInv, RawInv, UntouchedInv, QueueInv, [Next]_vars
             PROVE  UntouchedInv' /\ QueueInv'
  OBVIOUS
<1> DEFINE Good == UntouchedInv /\ QueueInv
<1> USE DEF UntouchedInv, QueueInv, Untouched, populator, history, items
<1>1. CASE UNCHANGED vars
  BY <1>1 DEF vars, Making, Unread
<1>2. CASE RawData
  <2>1. raw \in Seq(Raws) /\ raw # <<>> /\ pc = "loop" /\ raw_data' \in Raws
    BY <1>2 DEF RawData, TypeInv, TypeOK
  <2>2. /\ Len(raw) \in Nat \ {0} /\ raw_data' = raw[1] /\ 1 \in 1..Len(raw)
        /\ \A i \in 1..Len(raw') : raw'[i] = raw[i + 1] /\ i + 1 \in 1..Len(raw)
    BY <1>2, <2>1 DEF RawData
  <2>3. UNCHANGED <<tasks, popped, running, metas, meta, queue, published, p_item>>
    BY <1>2 DEF RawData
  <2>4. \A t \in Tasks : (Unread(t[2]) \/ Making(t))' => Unread(t[2])
    BY <2>2, <2>3 DEF Unread, Making
  <2> QED
    BY <2>3, <2>4
<1>3. ASSUME NEW r \in Raws, Publish(r) PROVE Good'
  <2>1. \A s : Unread(s)' => Unread(s)
    <3>1. /\ raw \in Seq(Raws) /\ raw' = Append(raw, r)
          /\ r \notin published /\ published' = published \cup {r}
      BY <1>3 DEF Publish, TypeInv, TypeOK
    <3>2. \A i \in 1..Len(raw') : (i \in 1..Len(raw) /\ raw'[i] = raw[i]) \/ raw'[i] = r
      BY <3>1
    <3> QED
      BY <3>1, <3>2 DEF Unread
  <2> QED
    BY <1>3, <2>1 DEF Publish, Making
<1>4. CASE UpdateBoefjeTask \/ Created \/ Space \/ Pushed
  <2>1. /\ UNCHANGED <<tasks, popped, running, metas, meta, queue, published, raw, p_item>>
        /\ \A t \in Tasks : Making(t)' => Making(t)
    BY <1>4, NormalizerAssumption, TaskParts DEF UpdateBoefjeTask, Created, Space, Pushed, Making, TypeInv, ItemsInv
  <2> QED
    BY <2>1 DEF Unread
<1>5. CASE \E m \in MimeTypes : SkipMimeType(m) \/ \E n \in Normalizers : CreateTask(n, m)
  BY <1>5 DEF SkipMimeType, CreateTask, Unread, Making
<1>6. ASSUME NEW t \in Tasks, PushItem(t) PROVE Good'
  <2> DEFINE h == Hash(t)
  <2>1. t[2] = raw_data /\ Making(t) /\ Untouched(t) /\ h \in Hashes
    BY <1>6, TaskParts DEF PushItem, Making, TypeInv, ItemsInv
  <2>2. /\ UNCHANGED <<raw, published, popped, running, metas, meta, raw_data, tasks>>
        /\ pc = "push" /\ pc' \in {"push", "post"}
    BY <1>6 DEF PushItem
  <2>3. ~Making(t)' /\ ~Unread(t[2])'
    BY <1>6, <2>1, <2>2 DEF PushItem, Making, RawInv, Unread, TypeInv, ItemsInv
  <2>4. \A u \in Tasks : (Unread(u[2]) \/ Making(u))' => u # t /\ Untouched(u)
    BY <1>6, <2>2, <2>3 DEF PushItem, Unread, Making
  <2>5. /\ \A g \in Hashes : queue'[g] = queue[g] \/ (g = h /\ queue'[g] = t)
        /\ p_item' \in {p_item, t}
    BY <1>6 DEF PushItem, TypeInv, TypeOK
  <2> QED
    BY <2>1, <2>2, <2>4, <2>5
<1>7. CASE PostPush
  <2>1. p_item \in Tasks /\ p_item' = None /\ \A u \in Tasks : u # p_item => tasks'[u] = tasks[u]
    BY <1>7 DEF PostPush, TypeInv, TypeOK, ItemsInv
  <2>2. /\ UNCHANGED <<raw, published, raw_data, p_items, popped, running, metas, meta, queue>>
        /\ pc = "post" /\ pc' = "push" /\ \A u \in Tasks : u # None
    BY <1>7, NormalizerAssumption DEF PostPush
  <2>3. \A u \in Tasks : (Unread(u[2]) \/ Making(u))' => Untouched(u)
    BY <2>2 DEF Unread, Making
  <2> QED
    BY <2>1, <2>2, <2>3
<1>8. ASSUME NEW t \in Tasks, NormalizerMeta(t) PROVE Good'
  BY <1>8 DEF NormalizerMeta, Unread, Making
<1>9. CASE UpdateNormalizerTask
  <2>1. meta \in Tasks /\ \A u \in Tasks : u # meta => tasks'[u] = tasks[u]
    BY <1>9 DEF UpdateNormalizerTask, TypeInv, TypeOK
  <2>2. /\ UNCHANGED <<raw, published, raw_data, pc, p_items, p_item, popped, running, metas, queue>>
        /\ meta' = None /\ \A u \in Tasks : u # None
    BY <1>9, NormalizerAssumption DEF UpdateNormalizerTask
  <2> QED
    BY <2>1, <2>2 DEF Unread, Making
<1>10. ASSUME NEW b \in Runs, PatchBoefje(b) PROVE Good'
  BY <1>10 DEF PatchBoefje, Unread, Making
<1>11. ASSUME NEW h \in Hashes, ApiPush(h) PROVE Good'
  BY <1>11, NormalizerAssumption DEF ApiPush, Unread, Making, TypeInv, TypeOK
<1>12. ASSUME NEW h \in Hashes, ApiPop(h) PROVE Good'
  <2>1. \A g \in Hashes : g # h => queue'[g] = queue[g]
    BY <1>12 DEF ApiPop, TypeInv, TypeOK
  <2>2. queue'[h] = None /\ \A u \in Tasks : u # None /\ u # Client
    BY <1>12, NormalizerAssumption DEF ApiPop, TypeInv, TypeOK
  <2>3. UNCHANGED <<raw, published, raw_data, pc, p_items, p_item, tasks, running, metas, meta>>
    BY <1>12 DEF ApiPop
  <2>4. CASE queue[h] = Client
    BY <1>12, <2>1, <2>2, <2>3, <2>4 DEF ApiPop, Unread, Making
  <2>5. CASE queue[h] # Client
    <3>1. queue[h] \in Tasks
      BY <1>12, <2>5 DEF ApiPop, TypeInv, TypeOK
    <3>2. popped' = popped \cup {queue[h]}
      BY <1>12, <2>5 DEF ApiPop
    <3>3. \A g \in Hashes : g # h => queue[g] # queue[h]
      BY <3>1
    <3>4. \A u \in Tasks : Unread(u[2]) \/ Making(u) => u # queue[h]
      OBVIOUS
    <3>5. UntouchedInv'
      BY <2>1, <2>2, <2>3, <3>2, <3>4 DEF Unread, Making
    <3>6. QueueInv'
      BY <2>1, <2>2, <2>3, <3>2, <3>3
    <3> QED
      BY <3>5, <3>6
  <2> QED
    BY <2>4, <2>5
<1>13. ASSUME NEW t \in Tasks, PostPop(t) PROVE Good'
  <2>1. \A u \in Tasks : u # t => tasks'[u] = tasks[u]
    BY <1>13 DEF PostPop, TypeInv, TypeOK
  <2>2. UNCHANGED <<raw, published, raw_data, pc, p_items, p_item, queue, metas, meta>>
    BY <1>13 DEF PostPop
  <2>3. popped' \cup running' = popped \cup running /\ t \in popped
    BY <1>13 DEF PostPop
  <2>4. UntouchedInv'
    BY <2>1, <2>2, <2>3 DEF Unread, Making
  <2>5. QueueInv'
    BY <2>2, <2>3
  <2> QED
    BY <2>4, <2>5
<1>14. ASSUME NEW t \in Tasks, Normalize(t) PROVE Good'
  BY <1>14 DEF Normalize, Unread, Making
<1>15. CASE Crash
  <2>1. \A t \in Tasks : ~Making(t)' /\ t # None
    BY <1>15, TaskParts, NormalizerAssumption DEF Crash, Making
  <2>2. /\ UNCHANGED <<raw, metas, tasks, queue, running, published>>
        /\ popped' = {} /\ meta' = None /\ p_item' = None
    BY <1>15 DEF Crash
  <2> QED
    BY <2>1, <2>2 DEF Unread
<1> QED
  BY <1>1, <1>2, <1>3, <1>4, <1>5, <1>6, <1>7, <1>8, <1>9, <1>10, <1>11, <1>12, <1>13, <1>14, <1>15
     DEF Next, Populator, StatusThread

\* There are finitely many rows, so that the unrecorded ones can be counted.
LEMMA FiniteUnrecorded ==
  /\ Unrecorded \subseteq Hashes /\ IsFiniteSet(Unrecorded)
  /\ Cardinality(Unrecorded) \in Nat
  BY FiniteTasks, FS_Subset, FS_CardinalityType DEF Unrecorded

\* Every step but a kill only takes rows away from the unrecorded ones: a push makes
\* its row p_item, and the record of p_item comes before the next push.
LEMMA UnrecordedShrink ==
  ASSUME TypeInv, UntouchedInv, QueueInv, [Next]_vars, ~Crash
  PROVE  Unrecorded' \subseteq Unrecorded /\ UNCHANGED crashes
<1> USE DEF Unrecorded, populator, history, items
<1>1. CASE UNCHANGED vars
  BY <1>1 DEF vars
<1>2. CASE RawData \/ UpdateBoefjeTask \/ Created \/ Space \/ Pushed
  BY <1>2 DEF RawData, UpdateBoefjeTask, Created, Space, Pushed
<1>3. CASE \E m \in MimeTypes : SkipMimeType(m) \/ \E n \in Normalizers : CreateTask(n, m)
  BY <1>3 DEF SkipMimeType, CreateTask
<1>4. ASSUME NEW t \in Tasks, PushItem(t)
      PROVE  Unrecorded' \subseteq Unrecorded /\ UNCHANGED crashes
  <2>1. p_item = None /\ None \notin Tasks
    BY <1>4, NormalizerAssumption DEF PushItem, TypeInv, ItemsInv
  <2>2. UNCHANGED <<tasks, crashes>>
    BY <1>4 DEF PushItem
  <2>3. \A g \in Hashes : queue'[g] = queue[g] \/ (queue'[g] = t /\ p_item' = t)
    BY <1>4 DEF PushItem, TypeInv, TypeOK
  <2> QED
    BY <2>1, <2>2, <2>3
<1>5. CASE PostPush
  <2>1. p_item \in Tasks /\ tasks'[p_item] = "queued" /\ \A u \in Tasks : u # p_item => tasks'[u] = tasks[u]
    BY <1>5 DEF PostPush, TypeInv, TypeOK, ItemsInv
  <2>2. UNCHANGED <<queue, crashes>>
    BY <1>5 DEF PostPush
  <2> QED
    BY <2>1, <2>2
<1>6. ASSUME NEW t \in Tasks, NormalizerMeta(t) \/ Normalize(t)
      PROVE  Unrecorded' \subseteq Unrecorded /\ UNCHANGED crashes
  BY <1>6 DEF NormalizerMeta, Normalize
<1>7. CASE UpdateNormalizerTask
  <2>1. \A u \in Tasks : u # meta => tasks'[u] = tasks[u]
    BY <1>7 DEF UpdateNormalizerTask, TypeInv, TypeOK
  <2>2. UNCHANGED <<queue, p_item, crashes>>
    BY <1>7 DEF UpdateNormalizerTask
  <2> QED
    BY <2>1, <2>2 DEF QueueInv
<1>8. CASE (\E r \in Raws : Publish(r)) \/ \E b \in Runs : PatchBoefje(b)
  BY <1>8 DEF Publish, PatchBoefje
<1>9. ASSUME NEW h \in Hashes, ApiPush(h) \/ ApiPop(h)
      PROVE  Unrecorded' \subseteq Unrecorded /\ UNCHANGED crashes
  <2>1. UNCHANGED <<tasks, p_item, crashes>>
    BY <1>9 DEF ApiPush, ApiPop
  <2>2. \A g \in Hashes : queue'[g] \in Tasks => queue'[g] = queue[g]
    BY <1>9, NormalizerAssumption DEF ApiPush, ApiPop, TypeInv, TypeOK
  <2> QED
    BY <2>1, <2>2
<1>10. ASSUME NEW t \in Tasks, PostPop(t)
       PROVE  Unrecorded' \subseteq Unrecorded /\ UNCHANGED crashes
  <2>1. \A u \in Tasks : u # t => tasks'[u] = tasks[u]
    BY <1>10 DEF PostPop, TypeInv, TypeOK
  <2>2. UNCHANGED <<queue, p_item, crashes>> /\ t \in popped
    BY <1>10 DEF PostPop
  <2> QED
    BY <2>1, <2>2 DEF QueueInv
<1> QED
  BY <1>1, <1>2, <1>3, <1>4, <1>5, <1>6, <1>7, <1>8, <1>9, <1>10 DEF Next, Populator, StatusThread

\* A kill leaves one row more at most: that of p_item.
LEMMA UnrecordedStep ==
  TypeInv /\ TypeInv' /\ UntouchedInv /\ QueueInv /\ QueuedIsRecorded /\ [Next]_vars => QueuedIsRecorded'
<1> SUFFICES ASSUME TypeInv, TypeInv', UntouchedInv, QueueInv, QueuedIsRecorded, [Next]_vars
             PROVE  Cardinality(Unrecorded') <= crashes'
  BY DEF QueuedIsRecorded
<1>1. Cardinality(Unrecorded) <= crashes /\ crashes \in Nat
  BY DEF QueuedIsRecorded, TypeInv, TypeOK
<1>2. /\ IsFiniteSet(Unrecorded) /\ Cardinality(Unrecorded) \in Nat
      /\ IsFiniteSet(Unrecorded') /\ Cardinality(Unrecorded') \in Nat
  <2>1. IsFiniteSet(Hashes) /\ Unrecorded \subseteq Hashes /\ Unrecorded' \subseteq Hashes
    BY FiniteTasks DEF Unrecorded
  <2> QED
    BY <2>1, FS_Subset, FS_CardinalityType
<1>3. CASE ~Crash
  <2>1. Unrecorded' \subseteq Unrecorded /\ crashes' = crashes
    BY <1>3, UnrecordedShrink
  <2>2. Cardinality(Unrecorded') <= Cardinality(Unrecorded)
    BY <1>2, <2>1, FS_Subset
  <2> QED
    BY <1>1, <1>2, <2>1, <2>2
<1>4. CASE Crash
  <2> DEFINE h == Hash(p_item)
  <2>1. crashes' = crashes + 1 /\ UNCHANGED <<queue, tasks>>
    BY <1>4 DEF Crash
  <2>2. \A g \in Hashes : queue[g] \in Tasks /\ queue[g] = p_item => g = h
    BY DEF QueueInv
  <2>3. Unrecorded' \subseteq Unrecorded \cup {h}
    BY <2>1, <2>2 DEF Unrecorded
  <2>4. /\ IsFiniteSet(Unrecorded \cup {h})
        /\ Cardinality(Unrecorded \cup {h}) \in {Cardinality(Unrecorded), Cardinality(Unrecorded) + 1}
    BY <1>2, FS_AddElement
  <2>5. Cardinality(Unrecorded') <= Cardinality(Unrecorded \cup {h})
    BY <2>3, <2>4, FS_Subset
  <2> QED
    BY <1>1, <1>2, <2>1, <2>4, <2>5
<1> QED
  BY <1>3, <1>4

QueueIInv == TypeInv /\ RawInv /\ UntouchedInv /\ QueueInv /\ QueuedIsRecorded

LEMMA QueueInvariance == Spec => []QueueIInv
<1>1. Init => RawInv /\ UntouchedInv /\ QueueInv /\ QueuedIsRecorded
  <2> SUFFICES ASSUME Init PROVE RawInv /\ UntouchedInv /\ QueueInv /\ QueuedIsRecorded
    OBVIOUS
  <2>1. \A t \in Tasks : t # None
    BY NormalizerAssumption
  <2>2. Len(raw) = 0 /\ raw_data = None
    BY DEF Init
  <2>3. RawInv
    BY <2>2 DEF RawInv
  <2>4. QueuedIsRecorded
    <3>1. Unrecorded = {} /\ crashes = 0
      BY <2>1 DEF Init, Unrecorded
    <3> QED
      BY <3>1, FS_EmptySet DEF QueuedIsRecorded
  <2> QED
    BY <2>1, <2>3, <2>4 DEF Init, UntouchedInv, Untouched, QueueInv
<1>2. QueueIInv /\ [Next]_vars => QueueIInv'
  BY TypeStep, RawStep, QueueStep, UnrecordedStep DEF QueueIInv
<1>3. Init => QueueIInv
  BY <1>1, NormalizerAssumption, TypeInit DEF QueueIInv
<1> QED
  BY <1>2, <1>3, PTL DEF Spec

\* Rows without a record that says queued, or a push that is about to write it, are
\* the work of kills, one each: pops and results that come early, and tasks of the
\* same hash, never leave one behind.
THEOREM QueuedAreRecorded == Spec => []QueuedIsRecorded
<1>1. QueueIInv => QueuedIsRecorded
  BY DEF QueueIInv
<1> QED
  BY <1>1, QueueInvariance, PTL

(***************************************************************************)
(* Raw files with an error.                                                 *)
(***************************************************************************)

Bad(r) == has_error[r] /\ boefje_meta[r] \in Recorded

\* The record of a run never goes away, so that every error is seen before tasks
\* are made.
ErrorInv ==
  /\ \A b \in Recorded : boefje[b] # None
  /\ pc \in {"create", "wait", "push", "post"} => ~Bad(raw_data)
  /\ \A t \in Tasks : Bad(t[2]) =>
       t \notin p_items \cup popped \cup running /\ tasks[t] = None
  /\ \A h \in Hashes : queue[h] \in Tasks => ~Bad(queue[h][2])

LEMMA ErrorStep == TypeInv /\ ErrorInv /\ [Next]_vars => ErrorInv'
<1> SUFFICES ASSUME TypeInv, ErrorInv, [Next]_vars PROVE ErrorInv'
  OBVIOUS
<1> USE DEF ErrorInv, populator, history, items
<1>1. CASE UNCHANGED vars
  BY <1>1 DEF vars
<1>2. CASE RawData
  BY <1>2 DEF RawData
<1>3. CASE UpdateBoefjeTask
  <2> DEFINE b == boefje_meta[raw_data]
  <2>1. raw_data \in Raws /\ b \in Runs
    BY <1>3, NormalizerAssumption DEF UpdateBoefjeTask, TypeInv, TypeOK, ItemsInv
  <2>2. \A c \in Runs : boefje[c] # None => boefje'[c] # None
    BY <1>3, <2>1, NormalizerAssumption DEF UpdateBoefjeTask, TypeInv, TypeOK, TaskStatus
  <2>3. pc' = "create" => ~Bad(raw_data)
    BY <1>3 DEF UpdateBoefjeTask, Bad
  <2> QED
    BY <1>3, <2>2, <2>3, NormalizerAssumption DEF UpdateBoefjeTask
<1>4. ASSUME NEW m \in MimeTypes, SkipMimeType(m) PROVE ErrorInv'
  BY <1>4 DEF SkipMimeType
<1>5. ASSUME NEW n \in Normalizers, NEW m \in MimeTypes, CreateTask(n, m) PROVE ErrorInv'
  <2>1. \A t \in p_items' : t \in p_items \/ t[2] = raw_data
    BY <1>5 DEF CreateTask
  <2> QED
    BY <1>5, <2>1 DEF CreateTask
<1>6. CASE Created \/ Space \/ Pushed
  BY <1>6 DEF Created, Space, Pushed
<1>7. ASSUME NEW t \in Tasks, PushItem(t) PROVE ErrorInv'
  <2>1. ~Bad(t[2])
    BY <1>7 DEF PushItem
  <2>2. \A h \in Hashes : queue'[h] = queue[h] \/ queue'[h] = t
    BY <1>7 DEF PushItem, TypeInv, TypeOK
  <2> QED
    BY <1>7, <2>1, <2>2 DEF PushItem
<1>8. ASSUME NEW t \in Tasks, NormalizerMeta(t) \/ PostPop(t) \/ Normalize(t) PROVE ErrorInv'
  BY <1>8 DEF NormalizerMeta, PostPop, Normalize, TypeInv, TypeOK
<1>9. CASE UpdateNormalizerTask \/ PostPush
  <2>1. CASE UpdateNormalizerTask
    BY <2>1 DEF UpdateNormalizerTask, TypeInv, TypeOK
  <2>2. CASE PostPush
    <3>1. p_item \in Tasks /\ ~Bad(p_item[2])
      BY <2>2 DEF PostPush, TypeInv, TypeOK, ItemsInv
    <3>2. \A u \in Tasks : Bad(u[2]) => tasks'[u] = tasks[u]
      BY <2>2, <3>1 DEF PostPush, TypeInv, TypeOK
    <3> QED
      BY <2>2, <3>2 DEF PostPush
  <2> QED
    BY <1>9, <2>1, <2>2
<1>10. CASE \E r \in Raws : Publish(r)
  BY <1>10 DEF Publish
<1>11. ASSUME NEW b \in Runs, PatchBoefje(b) PROVE ErrorInv'
  <2>1. \A c \in Runs : boefje[c] # None => boefje'[c] # None
    BY <1>11, NormalizerAssumption DEF PatchBoefje, Finished, TaskStatus, TypeInv, TypeOK
  <2> QED
    BY <1>11, <2>1, NormalizerAssumption DEF PatchBoefje
<1>12. ASSUME NEW h \in Hashes, ApiPush(h) PROVE ErrorInv'
  BY <1>12, NormalizerAssumption DEF ApiPush, TypeInv, TypeOK
<1>13. ASSUME NEW h \in Hashes, ApiPop(h) PROVE ErrorInv'
  <2>1. \A g \in Hashes : queue'[g] \in Tasks => queue'[g] = queue[g]
    BY <1>13, NormalizerAssumption DEF ApiPop, TypeInv, TypeOK
  <2>2. \A u \in Tasks : Bad(u[2]) => (u \in popped' => u \in popped)
    BY <1>13 DEF ApiPop
  <2> QED
    BY <1>13, <2>1, <2>2 DEF ApiPop
<1>14. CASE Crash
  BY <1>14 DEF Crash
<1> QED
  BY <1>1, <1>2, <1>3, <1>4, <1>5, <1>6, <1>7, <1>8, <1>9, <1>10, <1>11, <1>12, <1>13, <1>14
     DEF Next, Populator, StatusThread

\* No normalizer gets a raw file with an error whose run has a record, whatever
\* the other raw files of that run and its runner report.
THEOREM ErrorsEndThere == Spec => []ErrorsAreNotNormalized
<1>1. Init => ErrorInv
  BY NormalizerAssumption DEF Init, ErrorInv, TaskStatus
<1>2. ErrorInv => ErrorsAreNotNormalized
  BY DEF ErrorInv, ErrorsAreNotNormalized, Bad
<1> QED
  BY <1>1, <1>2, ErrorStep, TypeInvariance, PTL DEF Spec

(***************************************************************************)
(* Room for all tasks of a message.                                         *)
(***************************************************************************)

\* Until a client pushes there is room for what is still to be pushed.
RoomInv ==
  pc \in {"push", "post"} /\ ~raced => MaxSize = 0 \/ Cardinality(p_items) + QSize <= MaxSize

\* The sizes that the wait compares are numbers.
LEMMA Sizes ==
  \A S : S \subseteq Tasks \/ S \subseteq Hashes => IsFiniteSet(S) /\ Cardinality(S) \in Nat
  BY FiniteTasks, FS_Subset, FS_CardinalityType

\* A row more or less is one more or less.
LEMMA RowsChange ==
  ASSUME TypeOK, TypeOK', NEW h \in Hashes, \A g \in Hashes \ {h} : queue'[g] = queue[g]
  PROVE  QSize' <= QSize + 1 /\ (queue'[h] = None => QSize' <= QSize)
<1> DEFINE Rowed == {g \in Hashes : queue[g] # None}
<1>1. IsFiniteSet(Rowed) /\ IsFiniteSet(Rowed') /\ Cardinality(Rowed) \in Nat /\ Cardinality(Rowed') \in Nat
  BY Sizes
<1>2. Rowed' \subseteq Rowed \cup {h} /\ (queue'[h] = None => Rowed' \subseteq Rowed)
  OBVIOUS
<1>3. /\ IsFiniteSet(Rowed \cup {h}) /\ Cardinality(Rowed \cup {h}) \in Nat
      /\ Cardinality(Rowed \cup {h}) <= Cardinality(Rowed) + 1
  <2>1. IsFiniteSet(Rowed \cup {h})
    BY <1>1, FS_AddElement
  <2>2. Cardinality(Rowed \cup {h}) \in {Cardinality(Rowed), Cardinality(Rowed) + 1}
    BY <1>1, FS_AddElement
  <2> QED
    BY <1>1, <2>1, <2>2
<1>4. Cardinality(Rowed') <= Cardinality(Rowed) + 1
  <2>1. Cardinality(Rowed') <= Cardinality(Rowed \cup {h})
    BY <1>2, <1>3, FS_Subset
  <2> QED
    BY <1>1, <1>3, <2>1
<1>5. queue'[h] = None => Cardinality(Rowed') <= Cardinality(Rowed)
  BY <1>1, <1>2, FS_Subset
<1> QED
  BY <1>4, <1>5 DEF QSize

LEMMA RoomStep == TypeInv /\ TypeInv' /\ RoomInv /\ [Next]_vars => RoomInv'
<1> SUFFICES ASSUME TypeInv, TypeInv', RoomInv, [Next]_vars PROVE RoomInv'
  OBVIOUS
<1> USE DEF RoomInv, populator, history, items
<1>0. /\ Cardinality(p_items) \in Nat /\ QSize \in Nat /\ IsFiniteSet(p_items)
      /\ Cardinality(p_items') \in Nat /\ QSize' \in Nat /\ MaxSize \in Nat
  <2>1. p_items \subseteq Tasks /\ p_items' \subseteq Tasks
    BY DEF TypeInv, TypeOK
  <2>2. QSize \in Nat /\ QSize' \in Nat
    BY Sizes DEF QSize
  <2> QED
    BY <2>1, <2>2, Sizes, NormalizerAssumption
<1>1. CASE UNCHANGED vars
  BY <1>1 DEF vars, QSize
<1>2. CASE RawData \/ UpdateBoefjeTask \/ Created \/ Pushed \/ Crash
  BY <1>2 DEF RawData, UpdateBoefjeTask, Created, Pushed, Crash
<1>3. CASE \E m \in MimeTypes : SkipMimeType(m) \/ \E n \in Normalizers : CreateTask(n, m)
  BY <1>3 DEF SkipMimeType, CreateTask
<1>4. CASE Space
  <2>1. UNCHANGED <<queue, p_items>> /\ (MaxSize = 0 \/ Cardinality(p_items) <= MaxSize - QSize)
    BY <1>4 DEF Space
  <2>2. QSize' = QSize
    BY <2>1 DEF QSize
  <2> QED
    BY <1>0, <2>1, <2>2
<1>5. ASSUME NEW t \in Tasks, PushItem(t) PROVE RoomInv'
  <2>1. Cardinality(p_items') = Cardinality(p_items) - 1
    BY <1>0, <1>5, FS_RemoveElement DEF PushItem
  <2>2. QSize' <= QSize + 1
    <3>1. Hash(t) \in Hashes /\ \A g \in Hashes \ {Hash(t)} : queue'[g] = queue[g]
      BY <1>5, TaskParts DEF PushItem, TypeInv, TypeOK
    <3> QED
      BY <3>1, RowsChange DEF TypeInv
  <2> QED
    BY <1>0, <1>5, <2>1, <2>2 DEF PushItem
<1>6. CASE \/ \E t \in Tasks : NormalizerMeta(t) \/ PostPop(t) \/ Normalize(t)
           \/ UpdateNormalizerTask \/ PostPush
           \/ \E r \in Raws : Publish(r)
           \/ \E b \in Runs : PatchBoefje(b)
  <2>1. /\ UNCHANGED <<queue, p_items, raced>>
        /\ pc' \in {"push", "post"} => pc \in {"push", "post"}
    BY <1>6 DEF NormalizerMeta, PostPop, Normalize, UpdateNormalizerTask, PostPush, Publish, PatchBoefje
  <2> QED
    BY <2>1 DEF QSize
<1>7. ASSUME NEW h \in Hashes, ApiPush(h) PROVE RoomInv'
  BY <1>7 DEF ApiPush
<1>8. ASSUME NEW h \in Hashes, ApiPop(h) PROVE RoomInv'
  <2>1. queue'[h] = None /\ \A g \in Hashes \ {h} : queue'[g] = queue[g]
    BY <1>8 DEF ApiPop, TypeInv, TypeOK
  <2>2. QSize' <= QSize
    BY <2>1, RowsChange DEF TypeInv
  <2>3. UNCHANGED <<p_items, pc, raced>>
    BY <1>8 DEF ApiPop
  <2> QED
    BY <1>0, <2>2, <2>3
<1> QED
  BY <1>1, <1>2, <1>3, <1>4, <1>5, <1>6, <1>7, <1>8 DEF Next, Populator, StatusThread

\* push_items_to_queue loses a task only to another one of the same hash that waits
\* on the queue, with its record unless there was a kill, or after a client's push
\* took the room that the wait had found.
THEOREM DroppedAreTwins == Spec => DropsAreTwins
<1> DEFINE Twin(t) == raced \/ \E u \in Tasks \ {t} : /\ queue[Hash(t)] = u
                                                     /\ (tasks[u] = "queued" \/ crashes > 0)
           Twins == \A t \in p_items \ p_items' : pc = "push" /\ pc' = "push" => Twin(t)
<1>1. Init => RoomInv
  BY DEF Init, RoomInv
<1>2. QueueIInv /\ QueueIInv' /\ RoomInv /\ [Next]_vars => RoomInv'
  BY RoomStep DEF QueueIInv
<1>3. QueueIInv /\ RoomInv /\ [Next]_vars => [Twins]_vars
  <2> SUFFICES ASSUME QueueIInv, RoomInv, [Next]_vars PROVE Twins \/ UNCHANGED vars
    OBVIOUS
  <2> USE DEF populator, history, items
  <2>1. ASSUME NEW t \in Tasks, PushItem(t) PROVE Twins
    <3> DEFINE h == Hash(t)
    <3>1. /\ h \in Hashes /\ t \in p_items /\ p_items \ p_items' = {t}
          /\ pc = "push" /\ p_item = None /\ None \notin Tasks
      BY <2>1, TaskParts, NormalizerAssumption DEF PushItem, QueueIInv, TypeInv, ItemsInv
    <3>2. CASE Full
      <4>1. /\ Cardinality(p_items) \in Nat /\ QSize \in Nat /\ MaxSize \in Nat
            /\ Cardinality(p_items) # 0
        <5>1. p_items \subseteq Tasks /\ p_items # {}
          BY <3>1 DEF QueueIInv, TypeInv, TypeOK
        <5>2. QSize \in Nat
          BY Sizes DEF QSize
        <5> QED
          BY <5>1, <5>2, Sizes, FS_EmptySet, NormalizerAssumption
      <4>2. raced
        BY <3>1, <3>2, <4>1 DEF RoomInv, Full
      <4> QED
        BY <3>1, <4>2
    <3>3. CASE queue[h] \notin {None, Client}
      <4>1. queue[h] \in Tasks
        BY <3>1, <3>3 DEF QueueIInv, TypeInv, TypeOK
      <4>2. queue[h] # t
        BY <3>1 DEF QueueIInv, TypeInv, ItemsInv, UntouchedInv, Making, Untouched
      <4>3. crashes > 0 \/ tasks[queue[h]] = "queued"
        <5> SUFFICES ASSUME ~(crashes > 0) PROVE tasks[queue[h]] = "queued"
          OBVIOUS
        <5>1. crashes = 0
          BY DEF QueueIInv, TypeInv, TypeOK
        <5>2. Unrecorded = {}
          BY <5>1, FiniteUnrecorded, FS_EmptySet DEF QueueIInv, QueuedIsRecorded
        <5> QED
          BY <3>1, <4>1, <5>2 DEF Unrecorded
      <4>4. Twin(t)
        BY <4>1, <4>2, <4>3
      <4> QED
        BY <3>1, <4>4
    <3>4. CASE ~Full /\ queue[h] \in {None, Client}
      BY <2>1, <3>4 DEF PushItem
    <3> QED
      BY <3>2, <3>3, <3>4
  <2>2. CASE RawData \/ UpdateBoefjeTask \/ Created \/ Space \/ PostPush \/ Pushed
             \/ UpdateNormalizerTask \/ Crash
    BY <2>2 DEF RawData, UpdateBoefjeTask, Created, Space, PostPush, Pushed, UpdateNormalizerTask, Crash
  <2>3. CASE \E m \in MimeTypes : SkipMimeType(m) \/ \E n \in Normalizers : CreateTask(n, m)
    BY <2>3 DEF SkipMimeType, CreateTask
  <2>4. CASE \/ \E t \in Tasks : NormalizerMeta(t) \/ PostPop(t) \/ Normalize(t)
             \/ \E r \in Raws : Publish(r)
             \/ \E b \in Runs : PatchBoefje(b)
             \/ \E h \in Hashes : ApiPush(h) \/ ApiPop(h)
    BY <2>4 DEF NormalizerMeta, PostPop, Normalize, Publish, PatchBoefje, ApiPush, ApiPop
  <2> QED
    BY <2>1, <2>2, <2>3, <2>4 DEF Next, Populator, StatusThread
<1> QED
  BY <1>1, <1>2, <1>3, QueueInvariance, PTL DEF Spec, DropsAreTwins

=============================================================================
