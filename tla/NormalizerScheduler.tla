------------------------ MODULE NormalizerScheduler ------------------------
(***************************************************************************)
(* The normalizer scheduler, schedulers/normalizer.py: it reads raw data    *)
(* messages, closes the boefje task they belong to, makes a task for each   *)
(* normalizer of their mime types, waits for room for all of them and       *)
(* pushes them.  A second thread reads the results of normalizers and       *)
(* closes their tasks.                                                      *)
(*                                                                          *)
(* A normalizer task is a normalizer, a raw file and the mime type that     *)
(* brought them together; its hash is the normalizer and the boefje run.    *)
(* Its priority is the end of that run, so all tasks of one hash that this  *)
(* scheduler makes have the same.  As in BoefjeScheduler a push inserts the *)
(* row and then writes the record, and a pop removes the row and then       *)
(* updates the record: pops, results and kills may come between the two.    *)
(***************************************************************************)
EXTENDS Integers, Sequences, FiniteSets

CONSTANTS
  Raws, Runs, MimeTypes, Normalizers,
  boefje_meta,      \* of a raw file: the boefje run it comes from
  mime_types,       \* of a raw file: its mime types
  has_error,        \* of a raw file: whether one of them starts with "error/"
  normalizers_for,  \* of a mime type: the normalizers that take it
  enabled,          \* of a normalizer
  Recorded,         \* the runs that have a task record
  MaxSize,          \* maxsize of the queue; 0 is unbounded
  ClientsPush,      \* whether clients of the API push normalizer tasks too
  ServicesFail,     \* whether Katalogus can fail
  Client,           \* a row that a client pushed, with a priority of its own
  None,
  MaxCrashes        \* bound: kills of the process

Pairs(r) == {p \in Normalizers \X MimeTypes : p[2] \in mime_types[r] /\ p[1] \in normalizers_for[p[2]]}

Tasks == {t \in Normalizers \X Raws \X MimeTypes : <<t[1], t[3]>> \in Pairs(t[2])}

Hash(t) == <<t[1], boefje_meta[t[2]]>>

Hashes == {Hash(t) : t \in Tasks}

TaskStatus == {"queued", "dispatched", "completed", "failed"}
Finished == {"completed", "failed"}

ASSUME NormalizerAssumption ==
  /\ IsFiniteSet(Raws) /\ IsFiniteSet(Normalizers) /\ IsFiniteSet(MimeTypes)
  /\ boefje_meta \in [Raws -> Runs] /\ Recorded \subseteq Runs
  /\ mime_types \in [Raws -> SUBSET MimeTypes] /\ has_error \in [Raws -> BOOLEAN]
  /\ normalizers_for \in [MimeTypes -> SUBSET Normalizers]
  /\ enabled \in [Normalizers -> BOOLEAN]
  /\ MaxSize \in Nat /\ MaxCrashes \in Nat /\ {ClientsPush, ServicesFail} \subseteq BOOLEAN
  /\ None \notin Raws \cup TaskStatus \cup Tasks \cup {Client} /\ Client \notin Tasks

VARIABLES
  raw,       \* RabbitMQ: the raw data messages
  metas,     \* RabbitMQ: the tasks whose normalizer meta waits
  boefje,    \* record of a run: its status, None if there is none
  tasks,     \* record of a normalizer task: its status, None if there is none
  queue,     \* row of a hash: None, the task it is of, or Client
  popped,    \* tasks whose row a pop has removed, before its post_pop
  running,   \* tasks that runners have
  pc,        \* where the populator is
  raw_data,  \* the message it works on
  todo,      \* pairs of normalizer and mime type it still has to look at
  p_items,   \* the tasks it is going to push
  p_item,    \* the one it pushed last, until its record is written
  meta,      \* the task whose result the other thread has read
  published, raced, overtaken, crashes  \* history: messages sent, a client's push since
             \* the wait for room, tasks whose result came before their record, kills

items == <<queue, popped, running>>
populator == <<pc, raw_data, todo, p_items, p_item>>
history == <<published, raced, overtaken, crashes>>
vars == <<raw, metas, boefje, tasks, items, populator, meta, history>>

Init ==
  /\ raw = <<>> /\ metas = {}
  /\ boefje = [b \in Runs |-> IF b \in Recorded THEN "dispatched" ELSE None]
  /\ tasks = [t \in Tasks |-> None]
  /\ queue = [h \in Hashes |-> None]
  /\ popped = {} /\ running = {}
  /\ pc = "loop" /\ raw_data = None /\ todo = {} /\ p_items = {} /\ p_item = None
  /\ meta = None
  /\ published = {} /\ raced = FALSE /\ overtaken = {} /\ crashes = 0

QSize == Cardinality({h \in Hashes : queue[h] # None})

Full == MaxSize # 0 /\ QSize >= MaxSize

----------------------------------------------------------------------------
(* populate_queue.  The loop ends, and is called again, while the queue is   *)
(* full, no message waits or RabbitMQ cannot be reached.                     *)

\* A message is acknowledged as it is read: a kill loses it.
RawData ==
  /\ pc = "loop" /\ ~Full /\ raw # <<>>
  /\ raw_data' = Head(raw) /\ raw' = Tail(raw)
  /\ pc' = "update"
  /\ UNCHANGED <<metas, boefje, tasks, items, todo, p_items, p_item, meta, history>>

\* Mutation of UpdateBoefjeTask: the record says failed, the tasks are made.
UpdateBoefjeTaskOnly ==
  LET b == boefje_meta[raw_data]
  IN  /\ pc = "update"
      /\ boefje' = [boefje EXCEPT ![b] =
           IF @ = None THEN None ELSE IF has_error[raw_data] THEN "failed" ELSE "completed"]
      /\ pc' = "create" /\ todo' = Pairs(raw_data)
      /\ UNCHANGED <<raw, raw_data, metas, tasks, items, p_items, p_item, meta, history>>

\* The status of the boefje task follows from the mime types.  An error ends the
\* work on the message, if the task has a record.
UpdateBoefjeTask ==
  LET b == boefje_meta[raw_data]
      failed == has_error[raw_data] /\ boefje[b] # None
  IN  /\ pc = "update"
      /\ boefje' = [boefje EXCEPT ![b] =
           IF @ = None THEN None ELSE IF failed THEN "failed" ELSE "completed"]
      /\ IF failed
           THEN pc' = "loop" /\ raw_data' = None /\ UNCHANGED todo
           ELSE pc' = "create" /\ todo' = Pairs(raw_data) /\ UNCHANGED raw_data
      /\ UNCHANGED <<raw, metas, tasks, items, p_items, p_item, meta, history>>

\* create_tasks_for_raw_data asks the queue, not the tasks it made so far.
CreateTask(n, m) ==
  LET t == <<n, raw_data, m>>
  IN  /\ pc = "create" /\ <<n, m>> \in todo
      /\ todo' = todo \ {<<n, m>>}
      /\ p_items' = IF enabled[n] /\ queue[Hash(t)] = None
                      THEN p_items \cup {t} ELSE p_items
      /\ UNCHANGED <<raw, metas, boefje, tasks, items, pc, raw_data, p_item, meta, history>>

\* Katalogus cannot be reached: the mime type gets no tasks.
SkipMimeType(m) ==
  /\ pc = "create" /\ ServicesFail
  /\ \A n \in normalizers_for[m] : <<n, m>> \in todo
  /\ todo' = {p \in todo : p[2] # m}
  /\ UNCHANGED <<raw, metas, boefje, tasks, items, pc, raw_data, p_items, p_item, meta, history>>

Created ==
  /\ pc = "create" /\ todo = {}
  /\ IF p_items = {} THEN pc' = "loop" /\ raw_data' = None
                     ELSE pc' = "wait" /\ UNCHANGED raw_data
  /\ UNCHANGED <<raw, metas, boefje, tasks, items, todo, p_items, p_item, meta, history>>

\* Mutation of Space: room for one task is enough.
SpaceForOne ==
  /\ pc = "wait" /\ ~Full
  /\ pc' = "push" /\ raced' = FALSE
  /\ UNCHANGED <<raw, metas, boefje, tasks, items, raw_data, todo, p_items, p_item, meta,
                 published, overtaken, crashes>>

\* Mutation of Space: without room the message is given up.
SpaceOrGiveUp ==
  /\ pc = "wait" /\ raced' = FALSE
  /\ IF MaxSize = 0 \/ Cardinality(p_items) <= MaxSize - QSize
       THEN pc' = "push" /\ UNCHANGED <<raw_data, p_items>>
       ELSE pc' = "loop" /\ raw_data' = None /\ p_items' = {}
  /\ UNCHANGED <<raw, metas, boefje, tasks, items, todo, p_item, meta,
                 published, overtaken, crashes>>

\* It waits until there is room for all of them.
Space ==
  /\ pc = "wait"
  /\ MaxSize = 0 \/ Cardinality(p_items) <= MaxSize - QSize
  /\ pc' = "push" /\ raced' = FALSE
  /\ UNCHANGED <<raw, metas, boefje, tasks, items, raw_data, todo, p_items, p_item, meta,
                 published, overtaken, crashes>>

\* push_items_to_queue goes on when a push is refused.  A row of a client, with
\* another priority, stays as it is; the task gets its record all the same.  What
\* else a push raises is raised again and ends the program: Crash.
PushItem(t) ==
  LET h == Hash(t)
      refused == Full \/ queue[h] \notin {None, Client}  \* the same priority
  IN  /\ pc = "push" /\ t \in p_items
      /\ p_items' = p_items \ {t}
      /\ IF refused
           THEN UNCHANGED <<pc, p_item, queue>>
           ELSE /\ pc' = "post" /\ p_item' = t
                /\ queue' = [queue EXCEPT ![h] = IF @ = None THEN t ELSE @]
      /\ UNCHANGED <<raw, metas, boefje, tasks, popped, running, raw_data, todo, meta,
                     published, raced, overtaken, crashes>>

\* post_push writes the record, whatever became of the row.
PostPush ==
  /\ pc = "post"
  /\ tasks' = [tasks EXCEPT ![p_item] = "queued"]
  /\ pc' = "push" /\ p_item' = None
  /\ UNCHANGED <<raw, metas, boefje, items, raw_data, todo, p_items, meta, history>>

Pushed ==
  /\ pc = "push" /\ p_items = {}
  /\ pc' = "loop" /\ raw_data' = None /\ raced' = FALSE
  /\ UNCHANGED <<raw, metas, boefje, tasks, items, todo, p_items, p_item, meta,
                 published, overtaken, crashes>>

Populator ==
  \/ RawData \/ UpdateBoefjeTask
  \/ \E m \in MimeTypes : SkipMimeType(m) \/ \E n \in Normalizers : CreateTask(n, m)
  \/ Created \/ Space
  \/ (\E t \in Tasks : PushItem(t)) \/ PostPush \/ Pushed

----------------------------------------------------------------------------
(* update_normalizer_task_status.                                            *)

NormalizerMeta(t) ==
  /\ meta = None /\ t \in metas
  /\ meta' = t /\ metas' = metas \ {t}
  /\ UNCHANGED <<raw, boefje, tasks, items, populator, history>>

UpdateNormalizerTask ==
  /\ meta # None
  /\ tasks' = [tasks EXCEPT ![meta] = IF @ = None THEN None ELSE "completed"]
  /\ overtaken' = IF tasks[meta] = None THEN overtaken \cup {meta} ELSE overtaken
  /\ meta' = None
  /\ UNCHANGED <<raw, metas, boefje, items, populator, published, raced, crashes>>

StatusThread == (\E t \in Tasks : NormalizerMeta(t)) \/ UpdateNormalizerTask

----------------------------------------------------------------------------
(* The world: runners, clients of the API, Bytes and kills.                  *)

\* Bytes publishes a raw file, once the run it comes from was dispatched.
Publish(r) ==
  /\ r \notin published
  /\ published' = published \cup {r}
  /\ raw' = Append(raw, r)
  /\ UNCHANGED <<metas, boefje, tasks, items, populator, meta,
                 raced, overtaken, crashes>>

\* The runner of a boefje reports its status as well.
PatchBoefje(b) ==
  /\ boefje[b] # None
  /\ \E s \in Finished : boefje' = [boefje EXCEPT ![b] = s]
  /\ UNCHANGED <<raw, metas, tasks, items, populator, meta, history>>

ApiPush(h) ==
  /\ ClientsPush /\ ~Full /\ queue[h] = None
  /\ queue' = [queue EXCEPT ![h] = Client]
  /\ raced' = (pc \in {"push", "post"})
  /\ UNCHANGED <<raw, metas, boefje, tasks, popped, running, populator, meta,
                 published, overtaken, crashes>>

\* Mutation of ApiPop: the row stays on the queue.
ApiPopKeep(h) ==
  /\ queue[h] \in Tasks
  /\ popped' = popped \cup {queue[h]}
  /\ UNCHANGED <<raw, metas, boefje, tasks, queue, running, populator, meta, history>>

ApiPop(h) ==
  /\ queue[h] # None
  /\ queue' = [queue EXCEPT ![h] = None]
  /\ popped' = IF queue[h] = Client THEN popped ELSE popped \cup {queue[h]}
  /\ UNCHANGED <<raw, metas, boefje, tasks, running, populator, meta, history>>

\* post_pop updates the record if it is there, and the runner gets the item.
PostPop(t) ==
  /\ t \in popped
  /\ popped' = popped \ {t} /\ running' = running \cup {t}
  /\ tasks' = [tasks EXCEPT ![t] = IF @ = None THEN None ELSE "dispatched"]
  /\ UNCHANGED <<raw, metas, boefje, queue, populator, meta, history>>

\* A normalizer is done: Bytes publishes its meta.
Normalize(t) ==
  /\ t \in running
  /\ running' = running \ {t} /\ metas' = metas \cup {t}
  /\ UNCHANGED <<raw, boefje, tasks, queue, popped, populator, meta, history>>

\* A kill, or an exception that ends the program; it starts again.  A row stays
\* without its record, what was popped and not answered is gone.
Crash ==
  /\ crashes < MaxCrashes
  /\ crashes' = crashes + 1
  /\ pc' = "loop" /\ raw_data' = None /\ todo' = {} /\ p_items' = {} /\ p_item' = None
  /\ meta' = None /\ popped' = {} /\ raced' = FALSE
  /\ UNCHANGED <<raw, metas, boefje, tasks, queue, running, published, overtaken>>

Next ==
  \/ Populator \/ StatusThread
  \/ \E r \in Raws : Publish(r)
  \/ \E b \in Runs : PatchBoefje(b)
  \/ \E h \in Hashes : ApiPush(h) \/ ApiPop(h)
  \/ \E t \in Tasks : PostPop(t) \/ Normalize(t)
  \/ Crash

Spec == Init /\ [][Next]_vars

\* Both threads are scheduled, and runners work.
FairSpec ==
  /\ Spec /\ WF_vars(Populator) /\ WF_vars(StatusThread)
  /\ \A h \in Hashes : WF_vars(ApiPop(h))
  /\ \A t \in Tasks : WF_vars(PostPop(t)) /\ WF_vars(Normalize(t)) /\ SF_vars(NormalizerMeta(t))

----------------------------------------------------------------------------
(* What the normalizer scheduler promises.                                  *)

TypeOK ==
  /\ raw \in Seq(Raws) /\ metas \subseteq Tasks
  /\ popped \subseteq Tasks /\ running \subseteq Tasks
  /\ boefje \in [Runs -> TaskStatus \cup {None}]
  /\ tasks \in [Tasks -> TaskStatus \cup {None}]
  /\ queue \in [Hashes -> Tasks \cup {Client, None}]
  /\ pc \in {"loop", "update", "create", "wait", "push", "post"}
  /\ raw_data \in Raws \cup {None}
  /\ todo \subseteq Normalizers \X MimeTypes /\ p_items \subseteq Tasks
  /\ p_item \in Tasks \cup {None} /\ meta \in Tasks \cup {None}
  /\ published \subseteq Raws
  /\ raced \in BOOLEAN /\ overtaken \subseteq Tasks /\ crashes \in Nat

\* The wait makes room for all tasks of a message at once: a push of the
\* populator is refused only while a task of the same hash waits on the queue, with
\* its record unless a kill took that, or because a client pushed after the wait.
\* push_items_to_queue forgets what is refused.
DropsAreTwins ==
  [][\A t \in p_items \ p_items' : pc = "push" /\ pc' = "push" =>
       raced \/ \E u \in Tasks \ {t} : /\ queue[Hash(t)] = u
                                      /\ (tasks[u] = "queued" \/ crashes > 0)]_vars

\* Rows whose record does not say queued, and that no push is about to correct.
Unrecorded ==
  {h \in Hashes : queue[h] \in Tasks /\ tasks[queue[h]] # "queued" /\ queue[h] # p_item}

\* A task that waits on the queue has a record that says so, whatever raw files of
\* the same run, early pops and results of other tasks do meanwhile: each kill can
\* leave at most one row without it.
QueuedIsRecorded == Cardinality(Unrecorded) <= crashes

\* A raw file with an error gets no normalizer tasks if its run has a record,
\* whatever the other raw files of the run and the runner say of that run.  The
\* error of a run without a record is not looked for.
ErrorsAreNotNormalized ==
  \A t \in Tasks : has_error[t[2]] /\ boefje_meta[t[2]] \in Recorded =>
    t \notin p_items /\ tasks[t] = None /\ t \notin running

Wanted(r) == {p[1] : p \in {q \in Pairs(r) : enabled[q[1]]}}

\* "For every mime-type of the raw file a task is created with its associated
\* normalizers" (docs/design.md): each enabled normalizer of a raw file completes
\* a task for it in the end, through the wait for room and the tasks that have
\* the same hash, and its record says so unless the result came before it.
RawDataAreNormalized ==
  \A r \in Raws : \A n \in Wanted(r) :
    r \in published /\ ~has_error[r] ~>
      \E m \in mime_types[r] : <<n, r, m>> \in Tasks /\ (tasks[<<n, r, m>>] = "completed" \/ <<n, r, m>> \in overtaken)

=============================================================================
