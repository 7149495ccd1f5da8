# A verification project for the KAT scheduler (mula)

The scheduler decides which *boefjes* (scans) and *normalizers* (parsers of scan
results) run, puts them as tasks on priority queues, and hands them to runners
that poll its HTTP API. This directory holds TLA+ models of its core, what TLC
checks about them on small instances, and what TLAPS proves about them for
instances of every size. Paths below are relative to the repository.

## 1. Inventory

| component | state | operations | interacts with |
|---|---|---|---|
| **PriorityQueue** `scheduler/queues/pq.py`, `repositories/sqlalchemy/pq_store.py` | table `items`: id, hash, priority, scheduler, data | `push` (full? lookup by hash, allowed?, insert or update, lookup again), `pop` (select, remove), `peek`, `remove`, `qsize`, `full` | PostgreSQL, one transaction per store method; called by the populator threads and by the server's thread pool |
| **Task records** `repositories/sqlalchemy/task_store.py`, `models/tasks.py` | table `tasks`: id, hash, status, modified_at | create, update (whole row), lookups | `post_push`, `post_pop`, `patch_task`, both schedulers |
| **Scheduler** `schedulers/scheduler.py` | threads, the stop event | `push_item_to_queue` + `post_push`, `pop_item_from_queue` + `post_pop`, `push_items_to_queue`, `run`, `stop` | queue, task records |
| **BoefjeScheduler** `schedulers/boefje.py` | locals of one thread | `populate_queue`: mutations, then random objects; each task passes `is_task_allowed_to_run`, `is_task_running`, `has_grace_period_passed`, `is_item_on_queue`, a wait for room, a push | RabbitMQ, Octopoes, Katalogus, Bytes, task records, queue |
| **NormalizerScheduler** `schedulers/normalizer.py` | locals of two threads | `populate_queue`: raw file, status of the boefje task, tasks, a wait for room, pushes; `update_normalizer_task_status` | RabbitMQ, Katalogus, task records, queue |
| **App, ThreadRunner** `app.py`, `utils/thread.py` | dict of schedulers, one stop event for everything | start, `monitor_organisations`, shutdown | Katalogus; every thread |
| **Server** `server/server.py`, `server/pagination.py` | none of its own | `push_queue`, `pop_queue`, `patch_task`, `patch_scheduler`, listings with pages and links | clients, runners |
| **Katalogus cache** `connectors/services/katalogus.py`, `utils/dict_utils.py` | expiring dicts, per organisation | lookup, flush | all schedulers share it |
| **Rankers** `rankers/` | none | age to priority | schedulers |
| **Listeners** `connectors/listeners/` | a connection for each read | `basic_get`, decode, acknowledge, validate | RabbitMQ; one thread for each queue |
| **Services** `connectors/services/` | sessions, a token of Bytes | HTTP with retries, login | Octopoes, Katalogus, Bytes |
| **Configuration, context, datastore, migrations** | environment, sessions | construction | everything |

What is hard here, and what makes each component correct:

* **Queue.** Nothing is held across the transactions of one request, so requests
  interleave at each of them. Correct is: a bound on the number of rows and of
  rows per task, no item lost, no item handed out more often than concurrency
  explains, a record for each row, statuses that never run backwards.
* **Boefje scheduler.** Four checks against three stores, then a wait of any
  length, then a push that relies on all of them. Rows and records are written in
  transactions of their own, so that a record may say queued of a task that has no row.
  Correct is: a task is not made twice within its grace period or while its first run is
  on, no such record blocks it for ever, the push does not raise, and a task comes back
  in the end.
* **Normalizer scheduler.** Messages are acknowledged first and refused pushes
  are dropped silently. Correct is: nothing is dropped but what is on the queue
  already, what waits has a record that says so, and a raw file is normalized in the end.
* **App.** Organisations change while threads start and stop. Correct is: an
  organisation has all of its schedulers and threads or none, threads of removed
  schedulers end, a shutdown ends the process.
* **Katalogus cache.** Flushes that are not atomic and may outlast the lifetime of
  what they fill. Correct is: between flushes an answer is that of some complete
  listing, one thread fills the cache, and no lookup stops the program.
* **Listeners.** A message is acknowledged before it is worked on and after it is
  parsed. Correct is: it is worked on once, unless a kill or a broken connection is
  to blame, and one message does not keep others from being read.
* **Listings.** The count and the rows of each page are snapshots of their own.
  Correct is: a walk along the links gets each row that stays, once.
* **Ranker.** The older, the more urgent.

`PROJECT.json` lists every hazard at its line, with the properties for it.

## 2. Modules

    PriorityQueue ---- TaskQueue            (INSTANCE: PriorityQueue implements it)
      |-- PriorityQueue_proofs              (theorems)
      |-- MCPriorityQueue                   (instances for TLC)
    TaskQueue
      |-- TaskQueue_proofs                  (theorems)
    BoefjeScheduler, NormalizerScheduler, App, KatalogusCache, Listener, TaskListing
      |-- <module>_proofs                   (theorems)
      |-- MC<module>                        (instances for TLC)
    BoefjeRanker ---- MCBoefjeRanker

Operators marked "Mutation of ..." are variants of an action with a plausible
mistake. No specification uses them; put in the place of the action they make a
property fail, which is how we know that the property watches the code.

### PriorityQueue: the queue, transaction by transaction

`items` and `tasks` are the two tables. Each thread has a program counter `pc` and
the item of its request, `p_item`. An action is one transaction of a store with
the Python code up to the next one:

| code | actions |
|---|---|
| `push_queue`, `PriorityQueue.push` | `Push` (admitted unless full), `PushAbsent` / `PushPresent` (lookup by hash; `Allowed` is the decision), `PushInsert` or `PushConflict` (primary key taken), `PushUpdate`, `PushRelookup` |
| `Scheduler.post_push` | `PostPush`, then `PostPushUpdate` or `PostPushCreate` |
| `pop_queue`, `PriorityQueue.pop` | `Pop`, `PopSelect` (any row the filter lets through: the query has no order) or `PopNothing`, `PopRemove` |
| `Scheduler.post_pop` | `PostPop`, `PostPopUpdate` |
| `patch_task` | `Patch`, `PatchUpdate` |
| a kill, `os._exit` | `Crash`: the requests are gone, the tables stay |

Data are abstracted to what decides something: an item is its id, the hash the
client sent (or none) and a priority. The data of a task contain its own id, so
data differ exactly when ids do. The row that `get_item_by_hash` returns is any
row with the hash, since `created_at` is part of what the client sends. Statuses
are kept in full. A history counts admitted pushes, inserts and copies handed out
for each id; `MaxPushes` and `MaxCrashes` are the only bounds.

### TaskQueue: what a queue promises

`Enqueue`, `Dequeue`, `DequeueAgain`, `Deliver`, `Lose`, with a capacity, a number
of copies per hash and a number of handouts per insert. With all of them as the
docstrings have it (maxsize, 1 and 1) it is the queue that the documentation
describes. The code implements it with maxsize + pushers - 1, the number of
pushers, and the number of poppers (`ImplementsTaskQueue`).

### BoefjeScheduler: the populator

One program counter for the populator's thread, one step for each of its requests
to a service or to the database. Of each task (a boefje on an object, which is its
hash) the model keeps the row on the queue, the latest record with its age, what is
still to be done for the item of that record (`duties`: its `post_pop`, the results, the
report), the runs of older records, and what Bytes knows. Time is the age of a record
and of the end of a run, up to the grace period.

The row and the record are steps of their own, as they are transactions of their own:

| code | populator | client |
|---|---|---|
| `PriorityQueue.push` (`queues/pq.py:165`) | `PushTask` | `ApiPush` |
| `Scheduler.post_push` (`scheduler.py:82-106`) | `PostPush` | `ApiPostPush` |

| code | step |
|---|---|
| `PriorityQueue.pop` (`queues/pq.py:90-105`) | `ApiPop` |
| `Scheduler.post_pop` (`scheduler.py:108-145`) | `PostPop`: updates the record if there is one, and hands the item out |

Between an insert and its record the row belongs to the pusher (`of`), and a pop that
comes then leaves the item to `early`: its `post_pop` finds no record, its runner may even
be done before `post_push` writes that the task is queued. `PatchTask` answers 404 meanwhile.
What the transactions inside the queue's own push and pop do to each other is the
subject of PriorityQueue.

Clients push what is in `Jobs`, with any new id (`ApiPush`); runners pop, store and
report (`ApiPop`, `PostPop`, `BytesStart`, `BytesEnd`, `PatchTask`) and may die at any
point between (`RunnerDies`); Octopoes publishes mutations (`Mutate`), time passes (`Tick`),
and the program may be killed at any point and starts again (`Restart`): rows of pushes
under way stay without a record, and what was popped and not handed out is gone. The
ranker gives 2 to a first run and 3 stands for every other priority it can give. The
history has what the properties need to know of the past: whether a client pushed (`raced`,
`touched`), when the populator last made a record (`made`), of which task an item was
lost (`lost`) or cut off from its record (`orphans`).

### NormalizerScheduler: raw files to tasks

Two threads, each with its own steps: the populator (`RawData`,
`UpdateBoefjeTask`, `CreateTask` and `SkipMimeType`, `Created`, `Space`, `PushItem` and
`PostPush`, `Pushed`) and the reader of results (`NormalizerMeta`, `UpdateNormalizerTask`). A
task is a normalizer, a raw file and a mime type; its hash is the normalizer and the
boefje run (`NormalizerTask.__hash__`). A mime type that starts with `error/` is a
property of the raw file. All tasks of a hash have the same priority (the end of the
run), so a second push is refused; a client's row has a priority of its own.
As in BoefjeScheduler the row comes before the record (`PushItem`, then `PostPush`) and goes
before it (`ApiPop`, then `PostPop`); a runner may have the item, and its result may have been
read, before there is a record to update (`overtaken`). `Crash` is a kill at any point, or
what `push_items_to_queue` raises again (`scheduler.py:219-227`): between the two steps
of a push it leaves a row without a record.
`SkipMimeType` is the failure of Katalogus, which skips the mime type. Pairs of a
normalizer and a mime type are looked at in any order: what Katalogus returns has none.

### App: threads and organisations

`main` runs through the two initialisers, `RunThread` for each thread and `RunMonitor`, the wait for the stop event and the
shutdown; `size` and `seen` are its iterator over the dict of schedulers, `stopping` and
`joins` the one over the threads of a scheduler. `monitor` is `monitor_organisations`,
each dict update, `stop`, thread object (`MonitorCreate`) and thread start (`MonitorStart`) a
step; `starting` has the threads that `run` of a scheduler has yet to create. A thread is none, created, before its check of the stop event, in its target, or ended. `join`
waits at most five seconds, hence for any time: `ShutdownJoined` and `MonitorStop`
do not wait for the thread. A thread that the monitor adds to the dict while main iterates
over it, or one that is created but not yet started, makes the shutdown raise
(`ShutdownCrash`). `Alive` is the process: `os._exit` ends all threads, the death
of the main thread does not.

### KatalogusCache: lists that expire while they are read and filled

The cache of normalizers by mime type, for one type: per organisation no entry
(`None`) or how often its list has each plugin. `age` is the time since the current
lifetime began. The access that finds the cache expired empties it, begins a new
lifetime and raises `ExpiredError`, under one lock (`Lookup`); its thread then fills
the cache: `GetOrganisations`, and for each organisation `ClearOrganisation`, `GetPlugins`,
for each plugin `GetItem` (an access of its own, which may find the cache expired
again) and `AppendPlugin`, which holds no lock: by then the dict that the access returned
may have left the cache (`detached`), `OrganisationDone`; then `FlushDone` and the second access, `Again`. `Main`
does the first flush from the constructor, when part of the lifetime is gone already:
it is counted from the import of the module. `RequestFails` is a failed request at either of
the two; populators survive some of them, the constructor none. Lookups that find
the cache valid change nothing and are left out. The history says what Katalogus
listed since the lifetime began (`shown`), whether the last flush failed or met another
one (`torn`) and whether it took longer than the lifetime (`outlasted`). The cache
of boefjes by type goes through the same steps.

### Listener: one thread and its queue in RabbitMQ

A turn of the loop is `BasicGet`, `Decode` (`json.loads`), `BasicAck`, `Validate`
(the pydantic model), `Work`. An acknowledgement is not confirmed: `BasicAckLost` is the connection
that breaks first, which the thread may or may not notice. The broker puts
back what a lost connection leaves unacknowledged, to its old place (`Requeue`); an
exception, or a `Kill`, ends the process, and a new one starts (`Restart`). Bodies are
valid, not JSON, or JSON that does not fit the model: the last two stop the
program before and after the acknowledgement. The history has the messages that were
worked on (`handled`) and how often one was worked on that had been before
(`repeated`).

### TaskListing: walks through pages

The rows of `tasks` in the order of their creation, with a status; a client starts at any page
with a status or none and follows the links one way. `Count` and `GetPage` are the two
statements of a request, each with a snapshot of its own, and between any two of
them tasks are created (`CreateTask`) and change their status (`UpdateTask`), by which they enter
and leave the listing. A history counts those moves, and has the rows that the walk
should come by (`wanted`) and those it came by (`seen`, and `repeated` for how often it
came by one again).

### BoefjeRanker: age to priority

`rank` in whole numbers: the integer part of `M * exp(-ln(M)/d * x)` is the root of
order d of `M^(d-x)`, found by `CHOOSE`. The timedelta is what matters:
`.seconds` is the difference without its days (`% Day`).

## 3. Runs

All runs finish; bounds are per run, in the `.cfg` of its name. Deadlock is checked
except where the system may stop: the bounded pushes of the queue run out, and the
programs of App and KatalogusCache exit.

| run | instance | shows |
|---|---|---|
| QueuePool | 3 ids (two of one task), pushed again, 2 threads that push and pop, maxsize 1, items with and without hash, filters, 1 kill | `TypeOK`, `SizeBound`, `RowIsRecorded`, `HashedUnlessUpdated`, `CopiesBound`, `NothingLost`, `ImplementsTaskQueue` |
| QueueHandoff | 2 ids of one task, each pushed twice, one pusher, one popper, one patcher, maxsize 2, fair | `DuplicateBound`, `WaitingIsQueued`, `OutcomeIsFinal`, `EveryItemIsDelivered` |
| BoefjePopulate | 1 task, maxsize 1, grace 3 ticks, a client that pushes it, failing services, runs that report their start, runners that die, kills | `OnlyLossBlocks`, `SpacedByGrace`, `FirstRunIsExclusive` |
| BoefjeRace | an enabled and a disabled boefje, maxsize 2, a client that pushes the task of the first with the ranker's 2 and 3, a mutation | `TypeOK`, `DiesByRaceOnly` |
| BoefjeReturns | one boefje on 2 objects, maxsize 1, runners that work or die, fair | `EveryTaskReturns` |
| NormalizerPopulate | 2 raw files of one run, one of them an error, 3 normalizers (one disabled), maxsize 3, clients, failures, 2 kills | `QueuedIsRecorded`, `ErrorsAreNotNormalized`, `DropsAreTwins` |
| NormalizerDelivers | 2 raw files of different runs, one of a run without a record, 2 normalizers, maxsize 3, fair | `RawDataAreNormalized` |
| AppRuns | 2 organisations, 2 changes of Katalogus, failing services, fair | `TypeOK`, `OrphansEnd`, `AddedCompletely`, `AdditionsDoNotStop`, `NewOrganisationsAreServed`, `StopEnds` |
| CacheLookups | 2 organisations, 2 plugins, 2 populators and the constructor, lifetime of 1 tick, 1 change, failing requests, fair | `TypeOK`, `SettledIsComplete`, `OneFlush`, `DiesOnlyIfOutlasted`, `EventuallyCurrent` |
| ListenerReads | 5 messages, the second of a wrong form, the fourth not JSON, 2 broken connections, 2 kills, fair | `TypeOK`, `RepeatedByDrop`, `LostByKill`, `EveryMessageLeaves` |
| ListingWalks | 4 tasks, 2 statuses, pages of 0, 1 and 2 rows, both directions, 2 moves during a walk, fair | `TypeOK`, `MissedByMoves`, `RepeatedByMoves`, `WalkEnds` |
| DocRanker | maximum 10, 2 days of 4 ticks, grace 3 | `ThreeAfterMaxDays` is violated |

Why the bounds are enough. Races in the queue need two requests of a kind and two ids
of one hash; the third id gives a row that is not involved, and is the
item too many by which `SizeBound` could fail. Two pushes of an id reach every path of pushing
again; `MaxPushes` bounds work, not interleavings. Every safety property of every run is
also proved without bounds (section 4); only the liveness ones rest on
the bounds. In BoefjePopulate everything is about one task: its row, its records and those who
push, pop, patch and kill; with maxsize 1 the populator waits for room whenever the client was
faster. Other tasks matter only through the place they take, which BoefjeReturns
has. BoefjeRace has room for a second row, so that what is refused is a push of a task that has a
row already: with maxsize 1 a populator waits for that row to go. A queue that a client's push of
another task filled is covered by the proof alone (`RaceInv`), since two tasks that move
are too many states for a run. One client and the populator are two pushes under way at once; `MaxOlder` lets two
older runs go on. A grace period of three ticks tells "too early" from "just in time" and leaves
time between the record and the end of the run; one waiting message is enough since the
populator takes one at a time. In NormalizerPopulate the second kill shows that
`QueuedIsRecorded` counts them. Maxsize 3 is the
number of tasks of the largest raw file: the least that lets it through. Two
organisations let one be added while another is removed; two changes let one go and
come back. AppRuns has populating switched off, which leaves one thread for each
organisation, started by itself. With both threads of a normalizer scheduler and one change the same
properties hold; with two changes that instance is too large for a run.
In the cache two populators and the constructor give flushes that overlap; two
organisations let one be filled while another still waits; a lifetime of one tick
ends in the middle of a flush and also after it. Two broken connections return one
message twice, or two messages in the wrong order; a message of either kind that
stops the program has readable ones before and after it. A page of one row puts every
row on a boundary, one of two rows has the last page half full; with two moves a row can
enter and leave in one walk. The ranker's four ticks a day and a grace period of
three make the first whole day after the grace period a state of the run.

QueuePool checks safety only and is reduced by the symmetry of its two threads, which do
the same work.

Fairness. Threads of a process are scheduled (weak fairness of each thread's steps);
runners poll `pop_queue` and report (weak fairness of `ApiPop`, `PostPop`, `BytesEnd`,
`PatchTask`, `Normalize`); requests end; time passes (`Tick`). Two conditions are strong. Octopoes
draws random objects, so each object is drawn again and again (`SF` of
`RandomObjects({o})`); and RabbitMQ keeps its queue in order, so a waiting
result is read in the end (`SF` of `NormalizerMeta`). In BoefjeReturns every boefje is
enabled: with a disabled one, three refusals end the loop over random objects, and that the
draws avoid this often enough is a matter of probability, not of fairness.
`ServicesFail` is off in the liveness runs of the schedulers. A runner that dies
blocks its task for good, since `is_task_running` has no timeout; `EveryTaskReturns`
says that it blocks no other one. In App services may fail, since a failure is an
answer there too: the program stops.

In the cache each thread takes its steps, some populator looks things up, and time passes; what
`EventuallyCurrent` assumes beyond that, that flushes stop failing, is in the
property. The listener's thread runs, a stopped program is started again (the
deployment restarts the container), and the broker notices connections that are gone
(heartbeats); nothing makes messages arrive. A walking client follows its links.

### What the code does otherwise than its text says

One run checks a sentence of the repository, and TLC finds the code in disagreement:
the ranker's docstring has priorities come down to 3 after `max_days` days and stay
there (`rankers/boefje.py:15-18`). The code takes `.seconds` of the time since
the grace period, which never reaches a day: the priority starts anew every
day (DocRanker).

The models show more of them, for which there is no run of its own. With capacity
maxsize, one copy and one handout, TaskQueue would be the queue of the docstrings, and
it is not what the code implements:

* two pushes take the last place (`queues/pq.py:128`; `docs/configuration.md:80`), and
  two pops return one row (`queues/pq.py:99`; `tests/unit/test_queue.py:278`);
* an allowed update with a fresh id changes no row (`pq_store.py:68`; `queues/pq.py:38-41`)
  and leaves a record that says queued (`schedulers/scheduler.py:106`; lines 83-84);
* a pop between the insert and `post_push` finds no record, and `post_push` then says queued
  of a task that a runner has (`schedulers/scheduler.py:192`; lines 109-110);
* a kill between the two leaves a row without a record (`schedulers/scheduler.py:192`;
  lines 83-84);
* an update may write a null hash, so that the task is queued twice (`pq_store.py:69`;
  `models/tasks.py:113-115`);
* a task is made again while a runner has it, if that run was patched early or an older
  one goes on (`schedulers/boefje.py:532`; `docs/design.md:194`);
* mutations wait behind the random objects (`schedulers/boefje.py:248`;
  `docs/design.md:174`), do not get priority 2 if the task ran before
  (`schedulers/boefje.py:195`; `docs/design.md:174-177`), and `tries` is never reset
  (`schedulers/boefje.py:293-297`);
* an organisation that comes between the two requests of the start keeps half of its
  schedulers (`app.py:185`; lines 103-104), and a change of organisations during a
  shutdown kills main before `os._exit` (`app.py:66`; lines 74-76);
* an error in a raw file counts only if its run has a record
  (`schedulers/normalizer.py:100`; lines 98-99), and of two raw files of one run the second
  may get no tasks (`models/tasks.py:91`; `docs/design.md:208-209`);
* pop does not return the highest priority, since the query has no order
  (`pq_store.py:33`; `queues/pq.py:91`);
* an organisation that leaves Katalogus stops the whole program instead of its own
  threads: all of them share the stop event that `join` sets (`utils/thread.py:52`;
  `app.py:179-180`). `AdditionsDoNotStop` says that additions do not;
* a raw file with more tasks than maxsize waits for room for ever, and so do those
  behind it (`schedulers/normalizer.py:136`; `docs/design.md:201`);
* while a flush is on, and after one that failed, a lookup gets part of the plugins or
  none, without an error (`connectors/services/katalogus.py:39-60`;
  `docs/design.md:208-209`): raw files that are read then miss normalizers.

Three more facts that no text contradicts. A body that is not JSON is not
acknowledged, stops the program, comes back and stops the next one; what is behind it
in the queue may wait for ever, which is why `EveryMessageLeaves` leaves it out. A listing
whose last page is full links to an empty one (`offset + limit <= count`), and an
offset smaller than the limit has no previous link, so that the rows before
it are out of reach (`skew`). Pages of limit 0 link to themselves.

## 4. Proofs

Every invariant and every action property that a passing run checks is a theorem about
its module's `Spec`: for sets of any (finite) size, any capacities, grace periods,
lifetimes and limits, and any number of pushes, messages, kills and changes. The
assumptions on the constants are those the modules state (`QueueAssumption`,
`BoefjeAssumption`, ...), which TLC evaluates in each run; the hypotheses that single
theorems add are named below. Each proof has an inductive invariant, a step lemma with
one case per action, and a last step for the temporal part. TLC finds each of these
invariants true on the instances of section 3.

### PriorityQueue_proofs

| theorem | property |
|---|---|
| `TypeCorrect` | `TypeOK` |
| `SizeCorrect` | `SizeBound` |
| `DuplicateCorrect` | `DuplicateBound` |
| `CopiesCorrect` | `CopiesBound` |
| `LossCorrect` | `NothingLost` |
| `RecordCorrect` | `RowIsRecorded` |
| `HashesCorrect` | `HashedUnlessUpdated` |
| `WaitingCorrect` | `WaitingIsQueued` |
| `OutcomesAreFinal` | `OutcomeIsFinal`, if there is at most one popper and runners report outcomes |
| `QueueRefines` | `ImplementsTaskQueue` |

The bounds are not inductive, since a request that passed its check is not in the
table yet. The strengthening counts it: `SizeInv` adds the pushers between `full()` and
their insert (`Inserting`), `DuplicateInv` the pushers that found no row of a hash and
are about to insert one (`InsertingHash`), over `HashInv`, which says that hashes on
the queue and in requests are those of the data. `CopiesInv` has two cases: while a row is
on the queue none of its current copies has left, so the copies so far are at most
poppers times (inserts - 1); once it is gone, copies handed out and poppers that still
hold one are at most poppers times inserts. `TypeOK` is inductive: it holds the link
between `pc` and the item of a request. `NothingLost` and `RowIsRecorded` are inductive
over `TypeOK`. Each has a step lemma with a case per action; `QuietSteps` disposes of the
actions that move no row.

The three properties about ids that were pushed once follow each id through that push.
`AdmitInv` says that inserts and pushes under way together are at most the pushes
admitted, so that an id pushed once and inserted has no push left that could write: that gives
`HashedUnlessUpdated`, as only a second push (`PushUpdate`) erases a hash. `WaitInv` says
that the record of an id that nobody has had in his hands (`Unseen`: not inserted, or
still on the queue after one push) is missing or says queued; `FoundInv` that a request
about to update a record has found one. `OutcomeInv` goes on from there: once the
item was handed out no write is left but those of runners. It needs its two
hypotheses. A second popper with a copy of the item writes "dispatched" over the outcome,
and a runner may itself report "running" after "completed": patch_task takes any status.

`QueueRefines` uses the same invariants as guards: `RoomToInsert` (from `SizeInv`) and
`FewToInsert` (from `DuplicateInv`) give the guards of `Enqueue`, `CopiesInv` that of
`DequeueAgain`; every other step stutters, delivers or loses.

### TaskQueue_proofs

| theorem | states |
|---|---|
| `HandoutsKept` | `FewHandouts`: no more runners than Handouts for each time an item was put there |

What the abstract queue promises over its own history: `queue`, the copies under way and
those received. The theorem assumes at least one handout. It is inductive because it is tighter
while the item waits: the times before the current one must account for all copies that
are out. By `QueueRefines` it holds of the code, with the handouts that its concurrent
requests give. That the capacity and the copies of a hash are kept is the guard of
`Enqueue`; what it means for the code is `SizeCorrect` and `DuplicateCorrect`. No run has this
definition as a property.

### BoefjeScheduler_proofs

| theorem | property |
|---|---|
| `TypeCorrect` | `TypeOK` |
| `RefusedByRaceOnly` | `DiesByRaceOnly` |
| `OnlyLossesBlock` | `OnlyLossBlocks` |
| `RecordsAreSpaced` | `SpacedByGrace` |
| `FirstRunsAreExclusive` | `FirstRunIsExclusive` |

All of them hold with clients that push what they like, with pops, results and kills between
any two transactions.

That every record which says queued has a row is false of the code, and no theorem here: a pop between the
insert and `post_push` leaves such a record, and so does a push of a fresh id that changes
no row. What must not follow from it is that `is_task_running` skips the task for
ever. `HandInv` says that each item is in one hand: on the queue, popped before its record
was written (`early`), or with the record (`duties`), and that a task without a record has
an item only by a push under way or by a kill. `BlockInv` says of a task with a
record or a push under way that some item of it is still on its way, or a run of it ended in
Bytes, or an item was lost; each step that takes an item out of one hand puts it in another, in
Bytes or in `lost`. `OnlyLossBlocks` is what remains of it when nobody pushes.

The others say which of its checks the populator can still rely on at which step, though the
world moves. `RaceInv`: unless a client pushed (`raced`) the task of a populator
that waits or pushes is not on the queue, and there is room when it pushes, as rows only
leave meanwhile. `TouchInv`: a push of its task by a client that is under way since its first
look is noticed (`touched`); the look that counts is the first one, since a record that
came before it is read and one that comes later is of such a push. `GraceInv`: the
populator's own last record (`made`) is past the grace period once it got past its check,
whatever clients do, since their records are only younger; and so is the latest one unless
touched. `FirstInv`: a populator that saw neither a record nor a run in Bytes is right about
both, though it reads them at two moments; with `HandInv` a task without a record then has no
item, unless a kill left one (`orphans`).

### NormalizerScheduler_proofs

| theorem | property |
|---|---|
| `TypeCorrect` | `TypeOK` (which no run lists: it is the base of the proofs, and TLC would only repeat it) |
| `QueuedAreRecorded` | `QueuedIsRecorded` |
| `ErrorsEndThere` | `ErrorsAreNotNormalized` |
| `DroppedAreTwins` | `DropsAreTwins` |

`QueuedIsRecorded` counts: a kill can leave one row without a record, that of the push under way,
and nothing else adds to such rows (`UnrecordedShrink`, `UnrecordedStep`). What could add to them is
a late write: the reader of results, or the `post_pop` of an early pop, writes the
status of a task whose row is on the queue again. It cannot come again: a raw file is published
and read once (`RawInv`), a task is untouched until its raw file is read
and it is pushed (`UntouchedInv`), and the task of a row is in no pop, at no runner and in no
message (`QueueInv`). `ErrorInv` carries the error of a raw file from the check to the tasks, rows
and runners that it must not reach. `RoomInv` says that the room the wait found is
enough for all tasks still to be pushed, until a client pushes: what is refused then has a
twin on the queue, and by the count above its record says so unless there was a kill.

### App_proofs

| theorem | property |
|---|---|
| `TypeCorrect` | `TypeOK` |
| `OrphansAreTold` | `OrphansEnd` |
| `AdditionsAreWhole` | `AddedCompletely` |
| `ComingIsHarmless` | `AdditionsDoNotStop` |

`StartInv` says that until main is in its loop there is no monitor, nor a scheduler of a later organisation; `CurrentInv` ties the step of
the monitor to the scheduler it is about. `HalvesInv` is the core of
`AddedCompletely`: between two steps of a round, what the monitor still has to add
and remove accounts for every organisation that is served by halves; `StartedInv` has the threads
of the scheduler that is being started, one by one. `GrowInv` follows
a Katalogus that only grew: the monitor then has nothing to remove, so nobody joins, and
only an exception sets the event.

### KatalogusCache_proofs

| theorem | property |
|---|---|
| `TypeCorrect` | `TypeOK` |
| `OneFlushCorrect` | `OneFlush` |
| `DiesCorrect` | `DiesOnlyIfOutlasted` |
| `SettledCorrect` | `SettledIsComplete` |

`OneFlush` is not inductive: a second flush can begin as soon as the cache expires, so the
proof has to know that a cache which expires under a flush is marked `outlasted`.
`FlushInv` says so, of flushes and of lookups between their flush and their second access,
and says that a flush finds the organisation it fills, as only an expiry
removes it; `DiesCorrect` needs that to exclude `KeyError`. `FillInv` is how far the only flush is
(`Progress`: lists made, the list being made, those to come, and that the dict it holds is
still in the cache) as long as it is alone and does not fail; after it every list is one that Katalogus had. The bound in `TypeOK`, that no
list has a plugin more often than there are threads, needs `CountInv`: the copies of a
plugin in a list, and the flushes that will append it without emptying the list
before (`Appending`), are at most the threads.

### Listener_proofs

| theorem | property |
|---|---|
| `TypeCorrect` | `TypeOK` |
| `LossCorrect` | `LostByKill` |
| `RepeatCorrect` | `RepeatedByDrop` |

Until it is acknowledged the broker has the message of the thread (`KeptInv`), so only a kill
past that point loses one. `RepeatInv` pays for repetitions in advance: those done, messages that were
worked on and the broker still has (`Returning`), the message past its
acknowledgement that will be one of them (`Past`), and an acknowledgement that will not
arrive (`Late`) are together at most the connections that broke.

### TaskListing_proofs

| theorem | property |
|---|---|
| `TypeCorrect` | `TypeOK` |
| `MissedCorrect` | `MissedByMoves` |
| `RepeatCorrect` | `RepeatedByMoves` |

The first part is about sets of numbers alone: the place of a row is the number of newer
ones; no two rows share a place (`OnePlace`), before place k there are at most k rows
(`FrontBound`) and all but k are behind (`BackBound`); a row that enters or leaves moves at most one
row over a boundary, and one that leaves in place of a row before it moves none more
(`EnterBack`, `EnterFront`, `LeaveEffect`). The second part is the walk. Along next the
boundary is the offset: missed rows before it are at most the rows that left, and
seen rows behind it, which will come again, with those that came again are at most the rows that
entered (`ForwardInv`). Along previous the boundary is the end of the page and the roles
change, and rows that were seen and are gone count too, since they may return before the walk
(`BackwardInv`). A page moves the rows on it over the boundary and into `seen` at once. At the
end `BackBound` and the count tell what is behind the last page (`slipped`), and the offset
that cannot be lowered any more is `skew`.

### What stays with TLC

All liveness (`EveryItemIsDelivered`, `EveryTaskReturns`, `NewOrganisationsAreServed`,
`StopEnds`, `RawDataAreNormalized`, `EventuallyCurrent`, `EveryMessageLeaves`, `WalkEnds`):
fairness is a statement about ENABLED, which the prover does not handle. BoefjeRanker has
one run, with one refuted property, and no theorem.

## 5. Not modelled

* The session of Bytes (`services.py:105`): its threads share the headers of one
  client, among them the token. A request with a wrong token is refused, and the
  schedulers take a refused request as a failed one.
* The cache of plugins by id and `get_plugin_by_id`, which nothing reads.
* `peek` and `remove` of the queue, `cancel_tasks`, `basic_consume` and
  `BoefjeRankerTimeBased`, which the program does not call.
* `patch_scheduler`: it changes a flag that is read once, when the threads start.
* HTTP and its retries: a request answers or fails.
* Configuration, logging, metrics, health, schema migrations.

## 6. Plan

Done so far, in the order of importance: PriorityQueue with its refinement,
BoefjeScheduler, App, NormalizerScheduler, KatalogusCache, Listener and TaskListing, with
proofs of all their safety properties; BoefjeRanker. To come:

1. The session of Bytes: two threads, one token, a login that both may do.
2. A composition of the two schedulers over one task table: a boefje run from its push to
   the normalizers of its raw files.
