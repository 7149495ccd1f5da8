-------------------------- MODULE BoefjeScheduler --------------------------
(***************************************************************************)
(* The populator of a boefje scheduler, schedulers/boefje.py: it turns scan *)
(* level mutations and random objects into tasks, checks each task against  *)
(* the task records and against Bytes, waits for room and pushes it.        *)
(*                                                                          *)
(* A task is a boefje on an object; its hash is that pair.  Of the records  *)
(* of a hash only the latest matters to the populator, so the model keeps   *)
(* that one and counts the runs of older ones.  Time is kept as ages that   *)
(* stop at the grace period.                                                *)
(*                                                                          *)
(* Rows and records are written in transactions of their own.  A push is a  *)
(* step that inserts the row (PushTask, ApiPush) and one that writes the    *)
(* record (PostPush, ApiPostPush); a pop is a step that removes the row     *)
(* (ApiPop) and one that updates the record, if it finds one, and hands the *)
(* item out (PostPop).  Other requests, or a kill, may come between the     *)
(* two.  What the transactions inside the queue's own push and pop do to    *)
(* each other, and the reads and writes of one record, is the subject of    *)
(* PriorityQueue: here it would only change which status a record keeps.    *)
(***************************************************************************)
EXTENDS Integers, Sequences, FiniteSets

CONSTANTS
  OOIs, Boefjes,
  plugin,         \* of a boefje: enabled, and its scan_level or None
  scan_level,     \* of an object: the level of its scan profile, or None
  boefjes_for,    \* of an object: the boefjes that take its type
  MaxSize,        \* maxsize of the queue; 0 is unbounded
  Grace,          \* pq_populate_grace_period, in ticks
  Clients,        \* requests of the API that push; they send hash and new id
  Self,           \* the populator, among those that push
  Jobs,           \* what clients push: tasks, each with a priority
  ServicesFail,   \* whether Bytes, Katalogus, Octopoes and RabbitMQ can fail
  ReportsStart,   \* whether Bytes knows of a run before it ended
  Kills,          \* whether the program may be killed; it starts again
  None,
  MaxMutations,   \* bound: messages waiting in RabbitMQ
  MaxOlder        \* bound: runs of older records that are counted for one task

Tasks == {h \in Boefjes \X OOIs : h[1] \in boefjes_for[h[2]]}

TaskStatus == {"queued", "dispatched", "completed", "failed"}
Finished == {"completed", "failed"}

Pushers == Clients \cup {Self}

\* A row is of the latest record of its task, of an older one or none, or of a push
\* that has not written its record yet.
Rows == [priority : Nat, of : {"latest", "older"} \cup Pushers]

\* What becomes of an item that left the queue: post_pop is due, the runner stores
\* its results in Bytes and reports the status of the task.
Duties == {"pop", "store", "patch"}

MaxTries == 3

ASSUME BoefjeAssumption ==
  /\ IsFiniteSet(OOIs) /\ IsFiniteSet(Boefjes) /\ IsFiniteSet(Clients)
  /\ \A b \in Boefjes : plugin[b].enabled \in BOOLEAN /\ plugin[b].scan_level \in Nat \cup {None}
  /\ \A o \in OOIs : scan_level[o] \in Nat \cup {None} /\ boefjes_for[o] \subseteq Boefjes
  /\ MaxSize \in Nat /\ Grace \in Nat \ {0}
  /\ ServicesFail \in BOOLEAN /\ ReportsStart \in BOOLEAN /\ Kills \in BOOLEAN
  /\ MaxMutations \in Nat /\ MaxOlder \in Nat
  /\ Jobs \subseteq Tasks \X Nat
  /\ None \notin Nat /\ None \notin OOIs /\ None \notin TaskStatus /\ None \notin Tasks
  /\ None \notin Rows /\ None \notin {"started", "ended"}
  /\ Self \notin Clients /\ {"latest", "older"} \cap Pushers = {}

VARIABLES
  mutations,  \* RabbitMQ: the objects of the waiting messages, None for no value
  queue,      \* row of a task: None, or its priority and whose it is
  latest,     \* status of the latest record of a task, None if there is none
  age,        \* age of that record: modified_at never moves after its creation
  duties,     \* what is still to be done for the item of the latest record
  older,      \* runs of older records, or of none, in progress
  client,     \* the task that a client pushed and whose record is not written yet
  early,      \* of a push without its record: the duties of its item, if popped
  bytes,      \* last run of a task in Bytes: None, "started" or "ended"
  ended,      \* age of the end of that run
  pc, phase,  \* where the populator is, and in which of its two loops
  oois,       \* random objects it still has to look at
  todo,       \* tasks of the current object it still has to look at
  task,       \* the task it looks at
  task_db,    \* the status it read for that task
  score,      \* the priority it computed
  tries,      \* tasks it was not allowed to make since the loop began
  raced, touched, made, lost, orphans
              \* history: a client pushed since the populator looked for the task on
              \* the queue; a push of its task by a client was under way since its
              \* first look at it; age of the last record it made of a task; tasks of
              \* which an item was lost and no result was stored since; tasks of which
              \* a kill left an item without its record, and none was made since

records == <<queue, latest, age, duties, older, client, early>>
world == <<mutations, records, bytes, ended>>
locals == <<phase, oois, todo, task, task_db, score, tries>>
history == <<raced, touched, made, lost, orphans>>
vars == <<world, pc, locals, history>>

Init ==
  /\ mutations = <<>>
  /\ queue = [h \in Tasks |-> None]
  /\ latest = [h \in Tasks |-> None]
  /\ age = [h \in Tasks |-> Grace]
  /\ duties = [h \in Tasks |-> {}]
  /\ older = [h \in Tasks |-> 0]
  /\ client = [c \in Clients |-> None] /\ early = [p \in Pushers |-> {}]
  /\ bytes = [h \in Tasks |-> None]
  /\ ended = [h \in Tasks |-> Grace]
  /\ pc = "loop" /\ phase = "mutations"
  /\ oois = {} /\ todo = {} /\ task = None /\ task_db = None /\ score = None /\ tries = 0
  /\ raced = FALSE /\ touched = FALSE
  /\ made = [h \in Tasks |-> Grace] /\ lost = {} /\ orphans = {}

----------------------------------------------------------------------------
(* The queue, and the records that post_push and post_pop write.            *)

QSize == Cardinality({h \in Tasks : queue[h] # None})

Full == MaxSize # 0 /\ QSize >= MaxSize

\* The push of a fresh id inserts a row, unless its task has one: then it updates
\* the row with the fresh id, which is none.
Insert(p, h, priority) ==
  queue' = [queue EXCEPT ![h] = IF @ = None THEN [priority |-> priority, of |-> p] ELSE @]

\* The task of a push that has not written its record yet.
Pushing(p) == IF p # Self THEN client[p] ELSE IF pc = "post" THEN task ELSE None

\* The item of a task left the queue and its runner has not stored its results.
Out(d) == d \cap {"pop", "store"} # {}

\* The new record is the latest one of h; what the previous one was about is now
\* the past.  The row, or what became of it, is the record's if p inserted it.
post_push(p, h) ==
  /\ Out(duties[h]) => older[h] < MaxOlder
  /\ latest' = [latest EXCEPT ![h] = "queued"]
  /\ age' = [age EXCEPT ![h] = 0]
  /\ duties' = [duties EXCEPT ![h] = early[p]]
  /\ early' = [early EXCEPT ![p] = {}]
  /\ older' = [older EXCEPT ![h] = IF Out(duties[h]) THEN @ + 1 ELSE @]
  /\ queue' = [queue EXCEPT ![h] =
       IF @ # None /\ @.of = p THEN [@ EXCEPT !.of = "latest"]
       ELSE IF @ # None /\ @.of = "latest" THEN [@ EXCEPT !.of = "older"] ELSE @]
  /\ orphans' = orphans \ {h}

\* What push raises for a task pushed with a fresh id.
Refused(h, priority) ==
  \/ Full                                                     \* QueueFullError
  \/ queue[h] # None /\ queue[h].priority = priority          \* NotAllowedError

----------------------------------------------------------------------------
(* The populator.                                                           *)

InPhase(p) == pc = "loop" /\ phase = p

NextPhase ==
  /\ phase' = IF phase = "mutations" THEN "random" ELSE "mutations"
  /\ pc' = "loop" /\ tries' = 0 /\ oois' = {} /\ todo' = {} /\ task' = None
  /\ UNCHANGED <<task_db, score>>

NextTask ==
  pc' = "boefje" /\ task' = None /\ task_db' = None /\ score' = None /\ touched' = FALSE

\* push_tasks_for_scan_profile_mutations ends when the queue is full, when no
\* message is left or when RabbitMQ cannot be reached.
MutationsDone ==
  /\ InPhase("mutations")
  /\ Full \/ mutations = <<>> \/ ServicesFail
  /\ NextPhase
  /\ UNCHANGED <<world, history>>

\* A message is acknowledged as it is read.
Mutation ==
  /\ InPhase("mutations") /\ ~Full /\ mutations # <<>>
  /\ mutations' = Tail(mutations)
  /\ IF Head(mutations) = None
       THEN UNCHANGED <<pc, oois>>
       ELSE pc' = "ooi" /\ oois' = {Head(mutations)}
  /\ UNCHANGED <<records, bytes, ended, phase, todo, task, task_db, score, tries, history>>

\* push_tasks_for_random_objects ends when the queue is full, when there are no
\* objects, or when Octopoes cannot be reached; populate_queue is called again.
RandomDone ==
  /\ InPhase("random")
  /\ Full \/ OOIs = {} \/ ServicesFail
  /\ NextPhase
  /\ UNCHANGED <<world, history>>

RandomObjects(objects) ==
  /\ InPhase("random") /\ ~Full /\ objects # {}
  /\ pc' = "ooi" /\ oois' = objects
  /\ UNCHANGED <<world, phase, todo, task, task_db, score, tries, history>>

\* get_boefjes_for_ooi returns an empty list when Katalogus cannot be reached.
Ooi(o) ==
  /\ pc = "ooi" /\ o \in oois
  /\ oois' = oois \ {o}
  /\ pc' = "boefje"
  /\ \/ todo' = {h \in Tasks : h[2] = o}
     \/ ServicesFail /\ todo' = {}
  /\ UNCHANGED <<world, phase, task, task_db, score, tries, history>>

OoiDone ==
  /\ pc = "boefje" /\ todo = {}
  /\ pc' = IF oois = {} THEN "loop" ELSE "ooi"
  /\ UNCHANGED <<world, locals, history>>

\* Three tasks that were not allowed end the loop over random objects.
GiveUp ==
  /\ pc = "boefje" /\ todo # {} /\ phase = "random" /\ tries >= MaxTries
  /\ NextPhase
  /\ UNCHANGED <<world, history>>

is_task_allowed_to_run(b, o) ==
  /\ plugin[b].enabled
  /\ scan_level[o] # None
  /\ plugin[b].scan_level # None
  /\ plugin[b].scan_level <= scan_level[o]

\* Mutation of CheckAllowed: the loop over random objects does not look at tries.
CheckAllowedTireless(h) ==
  /\ pc = "boefje" /\ h \in todo
  /\ todo' = todo \ {h}
  /\ IF is_task_allowed_to_run(h[1], h[2])
       THEN pc' = "running_db" /\ task' = h /\ UNCHANGED tries
       ELSE /\ tries' = IF phase = "random" THEN tries + 1 ELSE tries
            /\ UNCHANGED <<pc, task>>
  /\ UNCHANGED <<world, phase, oois, task_db, score, history>>

CheckAllowed(h) ==
  /\ pc = "boefje" /\ h \in todo
  /\ phase = "random" => tries < MaxTries
  /\ todo' = todo \ {h}
  /\ IF is_task_allowed_to_run(h[1], h[2])
       THEN pc' = "running_db" /\ task' = h /\ UNCHANGED tries
       ELSE /\ tries' = IF phase = "random" THEN tries + 1 ELSE tries
            /\ UNCHANGED <<pc, task>>
  /\ UNCHANGED <<world, phase, oois, task_db, score, history>>

RunningDb ==
  /\ pc = "running_db"
  /\ task_db' = latest[task]
  /\ touched' = (\E c \in Clients : client[c] = task)
  /\ pc' = "running_bytes"
  /\ UNCHANGED <<world, phase, oois, todo, task, score, tries, raced, made, lost, orphans>>

\* Mutation of NotRunning: the record is not asked.
NotRunningByBytes ==
  /\ pc = "running_bytes"
  /\ bytes[task] \in {None, "ended"}
  /\ pc' = "grace_db" /\ task_db' = None
  /\ UNCHANGED <<world, phase, oois, todo, task, score, tries, history>>

\* is_task_running says it is not.  A record that is finished while Bytes has no
\* run is an error, and a task with an error is skipped like a running one.
NotRunning ==
  /\ pc = "running_bytes"
  /\ bytes[task] = "ended" \/ (bytes[task] = None /\ task_db = None)
  /\ pc' = "grace_db" /\ task_db' = None
  /\ UNCHANGED <<world, phase, oois, todo, task, score, tries, history>>

\* Mutation of Running: a record is enough, whatever Bytes knows.
RunningByRecord ==
  /\ pc = "running_bytes"
  /\ bytes[task] = "started" \/ task_db # None \/ ServicesFail
  /\ NextTask
  /\ UNCHANGED <<world, phase, oois, todo, tries, raced, made, lost, orphans>>

Running ==
  /\ pc = "running_bytes"
  /\ \/ bytes[task] = "started"
     \/ bytes[task] = None /\ task_db # None
     \/ ServicesFail
  /\ NextTask
  /\ UNCHANGED <<world, phase, oois, todo, tries, raced, made, lost, orphans>>

\* Mutation of GracePassedDb: one tick too early.
GracePassedDbEarly ==
  /\ pc = "grace_db"
  /\ latest[task] = None \/ age[task] >= Grace - 1
  /\ pc' = "grace_bytes"
  /\ UNCHANGED <<world, locals, history>>

\* has_grace_period_passed: the record first, then Bytes.
GracePassedDb ==
  /\ pc = "grace_db"
  /\ latest[task] = None \/ age[task] >= Grace
  /\ pc' = "grace_bytes"
  /\ UNCHANGED <<world, locals, history>>

GracePassedBytes ==
  /\ pc = "grace_bytes"
  /\ bytes[task] # "ended" \/ ended[task] >= Grace
  /\ pc' = "on_queue"
  /\ UNCHANGED <<world, locals, history>>

InGrace ==
  /\ \/ pc = "grace_db" /\ latest[task] # None /\ age[task] < Grace
     \/ pc = "grace_bytes" /\ (ServicesFail \/ (bytes[task] = "ended" /\ ended[task] < Grace))
  /\ NextTask
  /\ UNCHANGED <<world, phase, oois, todo, tries, raced, made, lost, orphans>>

\* Mutation of OnQueue: the queue is not looked at.
OnQueueUnchecked ==
  /\ pc = "on_queue"
  /\ pc' = "space" /\ score' = IF latest[task] = None THEN 2 ELSE 3
  /\ UNCHANGED <<world, phase, oois, todo, task, task_db, tries, history>>

\* The ranker gives 2 to a task that has no earlier one (BoefjeRanker).
OnQueue ==
  /\ pc = "on_queue"
  /\ IF queue[task] # None
       THEN NextTask
       ELSE /\ pc' = "space"
            /\ score' = IF latest[task] = None THEN 2 ELSE 3
            /\ UNCHANGED <<task, task_db, touched>>
  /\ UNCHANGED <<world, phase, oois, todo, tries, raced, made, lost, orphans>>

\* While there is no room the populator sleeps and looks again.
Space ==
  /\ pc = "space" /\ ~Full
  /\ pc' = "push"
  /\ UNCHANGED <<world, locals, history>>

PushTask ==
  /\ pc = "push" /\ ~Refused(task, score)
  /\ Insert(Self, task, score)
  /\ pc' = "post"
  /\ raced' = FALSE
  /\ UNCHANGED <<mutations, latest, age, duties, older, client, early, bytes, ended,
                 locals, touched, made, lost, orphans>>

PostPush ==
  /\ pc = "post"
  /\ post_push(Self, task)
  /\ made' = [made EXCEPT ![task] = 0]
  /\ NextTask
  /\ UNCHANGED <<mutations, client, bytes, ended, phase, oois, todo, tries, raced, lost>>

\* What push raises leaves populate_queue: ThreadRunner.run stops the program.
PushRaises ==
  /\ pc = "push" /\ Refused(task, score)
  /\ pc' = "dead"
  /\ UNCHANGED <<world, locals, history>>

Populator ==
  \/ MutationsDone \/ Mutation \/ RandomDone
  \/ \E objects \in SUBSET OOIs : RandomObjects(objects)
  \/ \E o \in OOIs : Ooi(o)
  \/ OoiDone \/ GiveUp
  \/ \E h \in Tasks : CheckAllowed(h)
  \/ RunningDb \/ Running \/ NotRunning
  \/ GracePassedDb \/ GracePassedBytes \/ InGrace
  \/ OnQueue \/ Space \/ PushTask \/ PostPush \/ PushRaises

----------------------------------------------------------------------------
(* The world around it: clients of the API, runners, Octopoes and time.     *)

Mutate(o) ==
  /\ Len(mutations) < MaxMutations
  /\ mutations' = Append(mutations, o)
  /\ UNCHANGED <<records, bytes, ended, pc, locals, history>>

\* The populator's death is the end of the program, the server included.
Serving == pc # "dead"

ApiPush(c, h, priority) ==
  /\ Serving
  /\ client[c] = None /\ ~Refused(h, priority)
  /\ Insert(c, h, priority)
  /\ client' = [client EXCEPT ![c] = h]
  /\ raced' = (pc \in {"space", "push"})
  /\ touched' = (touched \/ h = task)
  /\ UNCHANGED <<mutations, latest, age, duties, older, early, bytes, ended, pc, locals,
                 made, lost, orphans>>

ApiPostPush(c) ==
  /\ Serving
  /\ client[c] # None
  /\ post_push(c, client[c])
  /\ client' = [client EXCEPT ![c] = None]
  /\ UNCHANGED <<mutations, bytes, ended, pc, locals, raced, touched, made, lost>>

\* The row is removed; what a runner does for an older record is only counted.
ApiPop(h) ==
  /\ Serving
  /\ queue[h] # None
  /\ queue' = [queue EXCEPT ![h] = None]
  /\ \/ /\ queue[h].of = "latest"
        /\ duties' = [duties EXCEPT ![h] = {"pop"}]
        /\ UNCHANGED <<older, early>>
     \/ /\ queue[h].of = "older" /\ older[h] < MaxOlder
        /\ older' = [older EXCEPT ![h] = @ + 1]
        /\ UNCHANGED <<duties, early>>
     \/ /\ queue[h].of \in Pushers
        /\ early' = [early EXCEPT ![queue[h].of] = {"pop"}]
        /\ UNCHANGED <<duties, older>>
  /\ UNCHANGED <<mutations, latest, age, client, bytes, ended, pc, locals, history>>

\* Mutation of PostPop: without a record the request fails, its row is gone.
PostPopFound(h) ==
  /\ Serving
  /\ \/ /\ "pop" \in duties[h]
        /\ latest' = [latest EXCEPT ![h] = "dispatched"]
        /\ duties' = [duties EXCEPT ![h] = {"store", "patch"}]
        /\ UNCHANGED early
     \/ \E p \in Pushers :
        /\ Pushing(p) = h /\ "pop" \in early[p]
        /\ early' = [early EXCEPT ![p] = {}]
        /\ UNCHANGED <<latest, duties>>
  /\ UNCHANGED <<mutations, queue, age, older, client, bytes, ended, pc, locals, history>>

\* post_pop updates the record if it is there, and the runner gets the item.
PostPop(h) ==
  /\ Serving
  /\ \/ /\ "pop" \in duties[h]
        /\ latest' = [latest EXCEPT ![h] = "dispatched"]
        /\ duties' = [duties EXCEPT ![h] = {"store", "patch"}]
        /\ UNCHANGED early
     \/ \E p \in Pushers :
        /\ Pushing(p) = h /\ "pop" \in early[p]
        /\ early' = [early EXCEPT ![p] = {"store", "patch"}]
        /\ UNCHANGED <<latest, duties>>
  /\ UNCHANGED <<mutations, queue, age, older, client, bytes, ended, pc, locals, history>>

\* A runner has an item of h and has not stored its results yet.
AtRunner(h) ==
  \/ "store" \in duties[h] \/ older[h] > 0
  \/ \E p \in Pushers : Pushing(p) = h /\ "store" \in early[p]

BytesStart(h) ==
  /\ ReportsStart
  /\ AtRunner(h)
  /\ bytes' = [bytes EXCEPT ![h] = "started"]
  /\ UNCHANGED <<mutations, records, ended, pc, locals, history>>

\* An item of h for which d is due loses the duties D.
Discharge(h, d, D) ==
  \/ /\ d \in duties[h]
     /\ duties' = [duties EXCEPT ![h] = @ \ D]
     /\ UNCHANGED <<older, early>>
  \/ /\ d = "store" /\ older[h] > 0
     /\ older' = [older EXCEPT ![h] = @ - 1]
     /\ UNCHANGED <<duties, early>>
  \/ \E p \in Pushers :
     /\ Pushing(p) = h /\ d \in early[p]
     /\ early' = [early EXCEPT ![p] = @ \ D]
     /\ UNCHANGED <<duties, older>>

\* A runner of h stores its results.
BytesEnd(h) ==
  /\ Discharge(h, "store", {"store"})
  /\ bytes' = [bytes EXCEPT ![h] = "ended"]
  /\ ended' = [ended EXCEPT ![h] = 0]
  /\ lost' = lost \ {h}
  /\ UNCHANGED <<mutations, queue, latest, age, client, pc, locals,
                 raced, touched, made, orphans>>

\* patch_task answers 404 if there is no record yet.
PatchTask(h) ==
  /\ Serving
  /\ Discharge(h, "patch", {"patch"})
  /\ IF duties' # duties
       THEN \E s \in Finished : latest' = [latest EXCEPT ![h] = s]
       ELSE UNCHANGED latest
  /\ UNCHANGED <<mutations, queue, age, client, bytes, ended, pc, locals, history>>

\* A runner dies: what it has not reported yet nobody will report.
RunnerDies(h) ==
  /\ \/ Discharge(h, "store", {"store", "patch"}) /\ lost' = lost \cup {h}
     \/ Discharge(h, "patch", {"patch"}) /\ UNCHANGED lost
  /\ UNCHANGED <<mutations, queue, latest, age, client, bytes, ended, pc, locals,
                 raced, touched, made, orphans>>

\* The items of h that pushes without a record have, with d still to be done.
Early(h, d) == {p \in Pushers : Pushing(p) = h /\ d \in early[p]}

\* The program is killed, or has stopped, and starts again.  No record follows for
\* the rows of pushes under way, and what was popped and not handed out is gone.
Restart ==
  /\ Kills
  /\ pc' = "loop" /\ phase' = "mutations" /\ oois' = {} /\ todo' = {}
  /\ task' = None /\ task_db' = None /\ score' = None /\ tries' = 0
  /\ client' = [c \in Clients |-> None] /\ early' = [p \in Pushers |-> {}]
  /\ queue' = [h \in Tasks |-> IF queue[h] # None /\ queue[h].of \in Pushers
                                THEN [queue[h] EXCEPT !.of = "older"] ELSE queue[h]]
  /\ duties' = [h \in Tasks |-> IF "pop" \in duties[h] THEN {} ELSE duties[h]]
  /\ \A h \in Tasks : older[h] + Cardinality(Early(h, "store")) <= MaxOlder
  /\ older' = [h \in Tasks |-> older[h] + Cardinality(Early(h, "store"))]
  /\ lost' = lost \cup {h \in Tasks : "pop" \in duties[h] \/ Early(h, "pop") # {}}
  /\ orphans' = orphans \cup {h \in Tasks : \E p \in Pushers : Pushing(p) = h}
  /\ raced' = FALSE /\ touched' = FALSE
  /\ UNCHANGED <<mutations, latest, age, bytes, ended, made>>

Older(a) == [h \in Tasks |-> IF a[h] < Grace THEN a[h] + 1 ELSE a[h]]

Tick ==
  /\ age' = Older(age) /\ ended' = Older(ended) /\ made' = Older(made)
  /\ UNCHANGED <<mutations, queue, latest, duties, older, client, early, bytes, pc, locals,
                 raced, touched, lost, orphans>>

Runner(h) == ApiPop(h) \/ PostPop(h) \/ BytesEnd(h) \/ PatchTask(h)

World ==
  \/ \E o \in OOIs \cup {None} : Mutate(o)
  \/ \E c \in Clients : \/ \E job \in Jobs : ApiPush(c, job[1], job[2])
                        \/ ApiPostPush(c)
  \/ \E h \in Tasks : Runner(h) \/ BytesStart(h) \/ RunnerDies(h)
  \/ Restart \/ Tick

Next == Populator \/ World

Spec == Init /\ [][Next]_vars

\* Runners work and report, time passes, the populator's thread is scheduled, and
\* the random draws of Octopoes reach every object.
FairSpec ==
  /\ Spec
  /\ WF_vars(Populator) /\ WF_vars(Tick)
  /\ \A h \in Tasks : /\ WF_vars(ApiPop(h)) /\ WF_vars(PostPop(h))
                       /\ WF_vars(BytesEnd(h)) /\ WF_vars(PatchTask(h))
  /\ \A o \in OOIs : SF_vars(RandomObjects({o}))

----------------------------------------------------------------------------
(* What the populator promises.                                             *)

TypeOK ==
  /\ mutations \in Seq(OOIs \cup {None})
  /\ queue \in [Tasks -> Rows \cup {None}]
  /\ latest \in [Tasks -> TaskStatus \cup {None}]
  /\ age \in [Tasks -> 0..Grace] /\ ended \in [Tasks -> 0..Grace]
  /\ duties \in [Tasks -> SUBSET Duties]
  /\ client \in [Clients -> Tasks \cup {None}] /\ early \in [Pushers -> SUBSET Duties]
  /\ older \in [Tasks -> 0..MaxOlder]
  /\ bytes \in [Tasks -> {None, "started", "ended"}]
  /\ pc \in {"loop", "ooi", "boefje", "running_db", "running_bytes", "grace_db",
             "grace_bytes", "on_queue", "space", "push", "post", "dead"}
  /\ phase \in {"mutations", "random"}
  /\ oois \subseteq OOIs /\ todo \subseteq Tasks
  /\ task \in Tasks \cup {None} /\ task_db \in TaskStatus \cup {None}
  /\ score \in {None, 2, 3} /\ tries \in 0..MaxTries
  /\ raced \in BOOLEAN /\ touched \in BOOLEAN
  /\ made \in [Tasks -> 0..Grace] /\ lost \subseteq Tasks /\ orphans \subseteq Tasks

\* The populator puts the task that it looked at on the queue.
Pushes == pc = "push" /\ pc' = "post"

\* The task is on the queue, or popped and its results are not stored.
Processing(h) ==
  \/ queue[h] # None \/ Out(duties[h]) \/ older[h] > 0
  \/ \E p \in Pushers : Pushing(p) = h /\ Out(early[p])

\* A task with a record, of which no run is left, and whose runs Bytes does not
\* know to have ended: is_task_running will skip it for ever.
Abandoned(h) == latest[h] # None /\ ~Processing(h) /\ bytes[h] # "ended"

\* The populator pushes outside of any try, and what the queue raises stops the
\* program.  Only a client's push between the populator's last look at the queue
\* and its own push makes it raise.
DiesByRaceOnly == pc = "dead" => raced

\* Only an item that was lost can block a task for ever: with a runner that died
\* before it stored its results, or with the scheduler that was killed between the
\* pop and its answer.  A record that says queued though its item is gone (the pop
\* came before post_push), or that never had a row (the push found one of another
\* priority), does not: some run of the task still ends in Bytes.
OnlyLossBlocks == \A h \in Tasks : Abandoned(h) => h \in lost

\* Two records that the populator makes of one task are at least the grace period
\* apart, whatever clients push, however often it is killed, and however long it
\* waited for room between its checks and its push.  So are its push and the record
\* before it, unless that is of a client whose push was under way since the
\* populator's first look.
SpacedByGrace ==
  [][Pushes => /\ made[task] >= Grace
               /\ latest[task] = None \/ age[task] >= Grace \/ touched]_vars

\* Until Bytes has a first run of a task, the populator does not push it again while
\* it is on the queue or at a runner (is_task_running), unless a client's push of
\* it was under way since its first look, or a kill left an item without a record.
FirstRunIsExclusive ==
  [][Pushes /\ bytes[task] = None /\ ~touched /\ task \notin orphans => ~Processing(task)]_vars

\* A task that may run gets on the queue again and again: no outcome of a run,
\* no order of its reports and no state of the queue blocks it for good.  Only a
\* runner that dies does, since is_task_running waits for its result for ever, and
\* what it blocks is its own task alone.
EveryTaskReturns ==
  \A h \in Tasks : is_task_allowed_to_run(h[1], h[2]) =>
    []<>(queue[h] # None) \/ <>[]Abandoned(h)
=============================================================================
