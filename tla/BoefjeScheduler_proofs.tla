----------------------- MODULE BoefjeScheduler_proofs -----------------------
(* Proofs about BoefjeScheduler, for every set of objects and boefjes, every  *)
(* size of the queue and every grace period.                                  *)
EXTENDS BoefjeScheduler, FiniteSetTheorems, TLAPS

(***************************************************************************)
(* Types.                                                                   *)
(***************************************************************************)

\* From its checks to the end of its push the populator has a task, and from the
\* wait for room on a priority.
LocalsInv ==
  /\ pc \in {"running_db", "running_bytes", "grace_db", "grace_bytes", "on_queue", "space",
             "push", "post"} => task \in Tasks
  /\ pc \in {"space", "push"} => score \in {2, 3}

\* The queue, the records and the duties of popped items keep their types.
RecordsOK ==
  /\ queue \in [Tasks -> Rows \cup {None}]
  /\ latest \in [Tasks -> TaskStatus \cup {None}]
  /\ age \in [Tasks -> 0..Grace]
  /\ duties \in [Tasks -> SUBSET Duties]
  /\ older \in [Tasks -> 0..MaxOlder]
  /\ early \in [Pushers -> SUBSET Duties]

\* An inserted row is one of its pusher.
LEMMA InsertType ==
  ASSUME RecordsOK, NEW p \in Pushers, NEW h \in Tasks, NEW n \in Nat, Insert(p, h, n)
  PROVE  queue' \in [Tasks -> Rows \cup {None}]
<1>1. [priority |-> n, of |-> p] \in Rows
  BY DEF Rows
<1> QED
  BY <1>1 DEF RecordsOK, Insert

\* Only whose a row is changes when a record is written.
LEMMA PostPushType ==
  ASSUME RecordsOK, NEW p \in Pushers, NEW h \in Tasks, post_push(p, h)
  PROVE  RecordsOK'
<1> USE DEF RecordsOK
<1>1. /\ older[h] \in 0..MaxOlder /\ duties[h] \subseteq Duties /\ early[p] \subseteq Duties
      /\ MaxOlder \in Nat /\ Grace \in Nat
      /\ queue[h] # None => queue[h] \in Rows
  BY BoefjeAssumption
<1>2. queue' \in [Tasks -> Rows \cup {None}]
  <2>1. ASSUME queue[h] # None, NEW w \in {"latest", "older"}
        PROVE  [queue[h] EXCEPT !.of = w] \in Rows
    BY <1>1, <2>1 DEF Rows
  <2> QED
    BY <1>1, <2>1 DEF post_push
<1>3. latest' \in [Tasks -> TaskStatus \cup {None}]
  BY DEF post_push, TaskStatus
<1>4. /\ age' \in [Tasks -> 0..Grace] /\ duties' \in [Tasks -> SUBSET Duties]
      /\ early' \in [Pushers -> SUBSET Duties]
  BY <1>1 DEF post_push
<1>5. older' \in [Tasks -> 0..MaxOlder]
  BY <1>1 DEF post_push
<1> QED
  BY <1>2, <1>3, <1>4, <1>5

\* What is still to be done for an item only shrinks when a runner does it.
LEMMA DischargeType ==
  ASSUME RecordsOK, NEW h \in Tasks, NEW d, NEW D, Discharge(h, d, D)
  PROVE  /\ duties' \in [Tasks -> SUBSET Duties]
         /\ older' \in [Tasks -> 0..MaxOlder]
         /\ early' \in [Pushers -> SUBSET Duties]
<1> USE DEF RecordsOK
<1>1. older[h] \in 0..MaxOlder /\ duties[h] \subseteq Duties /\ MaxOlder \in Nat
  BY BoefjeAssumption
<1>2. older[h] > 0 => older[h] - 1 \in 0..MaxOlder
  BY <1>1
<1>3. CASE d \in duties[h] /\ duties' = [duties EXCEPT ![h] = @ \ D] /\ UNCHANGED <<older, early>>
  BY <1>1, <1>3
<1>4. CASE older[h] > 0 /\ older' = [older EXCEPT ![h] = @ - 1] /\ UNCHANGED <<duties, early>>
  BY <1>2, <1>4
<1>5. ASSUME NEW p \in Pushers, early' = [early EXCEPT ![p] = @ \ D], UNCHANGED <<duties, older>>
      PROVE  early' \in [Pushers -> SUBSET Duties] /\ UNCHANGED <<duties, older>>
  <2>1. early[p] \subseteq Duties
    OBVIOUS
  <2> QED
    BY <1>5, <2>1
<1> QED
  BY <1>3, <1>4, <1>5 DEF Discharge

TypeInv == TypeOK /\ LocalsInv

LEMMA JobsAreTasks == \A job \in Jobs : job[1] \in Tasks /\ job[2] \in Nat
BY BoefjeAssumption

LEMMA FiniteEarly ==
  ASSUME NEW h, NEW d
  PROVE  IsFiniteSet(Early(h, d))
<1>1. IsFiniteSet(Pushers)
  BY BoefjeAssumption, FS_AddElement DEF Pushers
<1> QED
  BY <1>1, FS_Subset DEF Early

\* The records, the runs and the populator's locals keep their types.
LEMMA TypeStep == TypeInv /\ [Next]_vars => TypeInv'
<1> SUFFICES ASSUME TypeInv, [Next]_vars PROVE TypeInv'
  OBVIOUS
<1> USE BoefjeAssumption
    DEF TypeInv, TypeOK, LocalsInv, records, world, locals, history, NextPhase, NextTask, InPhase
<1>0. RecordsOK
  BY DEF RecordsOK
<1>1. CASE UNCHANGED vars
  BY <1>1 DEF vars
<1>2. CASE MutationsDone \/ RandomDone \/ GiveUp
  BY <1>2 DEF MutationsDone, RandomDone, GiveUp, MaxTries
<1>3. CASE Mutation
  BY <1>3 DEF Mutation
<1>4. ASSUME NEW objects \in SUBSET OOIs, RandomObjects(objects) PROVE TypeInv'
  BY <1>4 DEF RandomObjects
<1>5. ASSUME NEW o \in OOIs, Ooi(o) PROVE TypeInv'
  BY <1>5 DEF Ooi
<1>6. CASE OoiDone
  BY <1>6 DEF OoiDone
<1>7. ASSUME NEW h \in Tasks, CheckAllowed(h) PROVE TypeInv'
  BY <1>7 DEF CheckAllowed, MaxTries
<1>8. CASE RunningDb
  BY <1>8 DEF RunningDb
<1>9. CASE NotRunning \/ Running
  BY <1>9 DEF NotRunning, Running
<1>10. CASE GracePassedDb \/ GracePassedBytes \/ InGrace
  BY <1>10 DEF GracePassedDb, GracePassedBytes, InGrace
<1>11. CASE OnQueue
  BY <1>11 DEF OnQueue
<1>12. CASE Space \/ PushRaises
  BY <1>12 DEF Space, PushRaises
<1>13. CASE PushTask
  <2>1. score \in Nat /\ task \in Tasks /\ Self \in Pushers
    BY <1>13 DEF PushTask, Pushers
  <2>2. queue' \in [Tasks -> Rows \cup {None}]
    BY <1>0, <1>13, <2>1, InsertType DEF PushTask
  <2> QED
    BY <1>13, <2>2 DEF PushTask
<1>14. CASE PostPush
  <2>1. RecordsOK'
    BY <1>0, <1>14, PostPushType DEF PostPush, Pushers
  <2>2. made' \in [Tasks -> 0..Grace]
    BY <1>14 DEF PostPush
  <2>3. /\ task' = None /\ task_db' = None /\ score' = None /\ pc' = "boefje"
        /\ touched' = FALSE /\ orphans' \subseteq Tasks
        /\ UNCHANGED <<mutations, client, bytes, ended, phase, oois, todo, tries, raced, lost>>
    BY <1>14 DEF PostPush, post_push
  <2> QED
    BY <2>1, <2>2, <2>3 DEF RecordsOK
<1>15. ASSUME NEW o \in OOIs \cup {None}, Mutate(o) PROVE TypeInv'
  BY <1>15 DEF Mutate
<1>16. ASSUME NEW c \in Clients, NEW h \in Tasks, NEW n \in Nat, ApiPush(c, h, n) PROVE TypeInv'
  <2>1. queue' \in [Tasks -> Rows \cup {None}]
    BY <1>0, <1>16, InsertType DEF ApiPush, Pushers
  <2> QED
    BY <1>16, <2>1 DEF ApiPush
<1>17. ASSUME NEW c \in Clients, ApiPostPush(c) PROVE TypeInv'
  <2>1. RecordsOK'
    BY <1>0, <1>17, PostPushType DEF ApiPostPush, Pushers
  <2>2. orphans' \subseteq Tasks
    BY <1>17 DEF ApiPostPush, post_push
  <2> QED
    BY <1>17, <2>1, <2>2 DEF ApiPostPush, RecordsOK
<1>18. ASSUME NEW h \in Tasks, ApiPop(h) PROVE TypeInv'
  <2>1. older[h] \in 0..MaxOlder /\ MaxOlder \in Nat
    OBVIOUS
  <2>2. queue' \in [Tasks -> Rows \cup {None}] /\ {"pop"} \in SUBSET Duties
    BY <1>18 DEF ApiPop, Duties
  <2>3. /\ duties' \in [Tasks -> SUBSET Duties] /\ older' \in [Tasks -> 0..MaxOlder]
        /\ early' \in [Pushers -> SUBSET Duties]
    <3>1. CASE duties' = [duties EXCEPT ![h] = {"pop"}] /\ UNCHANGED <<older, early>>
      BY <2>2, <3>1
    <3>2. CASE /\ older[h] < MaxOlder /\ older' = [older EXCEPT ![h] = @ + 1]
               /\ UNCHANGED <<duties, early>>
      BY <2>1, <3>2
    <3>3. CASE /\ early' = [early EXCEPT ![queue[h].of] = {"pop"}]
               /\ UNCHANGED <<duties, older>>
      BY <2>2, <3>3
    <3> QED
      BY <1>18, <3>1, <3>2, <3>3 DEF ApiPop
  <2> QED
    BY <1>18, <2>2, <2>3 DEF ApiPop
<1>19. ASSUME NEW h \in Tasks, PostPop(h) PROVE TypeInv'
  <2>1. latest' \in [Tasks -> TaskStatus \cup {None}]
    BY <1>19 DEF PostPop, TaskStatus
  <2>2. {"store", "patch"} \in SUBSET Duties
    BY DEF Duties
  <2>3. duties' \in [Tasks -> SUBSET Duties] /\ early' \in [Pushers -> SUBSET Duties]
    <3>1. CASE duties' = [duties EXCEPT ![h] = {"store", "patch"}] /\ UNCHANGED early
      BY <2>2, <3>1
    <3>2. CASE \E p \in Pushers : /\ early' = [early EXCEPT ![p] = {"store", "patch"}]
                                   /\ UNCHANGED duties
      BY <2>2, <3>2
    <3> QED
      BY <1>19, <3>1, <3>2 DEF PostPop
  <2> QED
    BY <1>19, <2>1, <2>3 DEF PostPop
<1>20. ASSUME NEW h \in Tasks, BytesStart(h) PROVE TypeInv'
  BY <1>20 DEF BytesStart
<1>21. ASSUME NEW h \in Tasks, BytesEnd(h) PROVE TypeInv'
  <2>1. /\ duties' \in [Tasks -> SUBSET Duties] /\ older' \in [Tasks -> 0..MaxOlder]
        /\ early' \in [Pushers -> SUBSET Duties]
    BY <1>0, <1>21, DischargeType DEF BytesEnd
  <2>2. bytes' \in [Tasks -> {None, "started", "ended"}] /\ ended' \in [Tasks -> 0..Grace]
    BY <1>21 DEF BytesEnd
  <2>3. lost' \subseteq Tasks
    BY <1>21 DEF BytesEnd
  <2>4. /\ UNCHANGED <<mutations, queue, latest, age, client, pc, phase, oois, todo, task>>
        /\ UNCHANGED <<task_db, score, tries, raced, touched, made, orphans>>
    BY <1>21 DEF BytesEnd
  <2> QED
    BY <2>1, <2>2, <2>3, <2>4
<1>22. ASSUME NEW h \in Tasks, PatchTask(h) PROVE TypeInv'
  <2>1. /\ duties' \in [Tasks -> SUBSET Duties] /\ older' \in [Tasks -> 0..MaxOlder]
        /\ early' \in [Pushers -> SUBSET Duties]
    BY <1>0, <1>22, DischargeType DEF PatchTask
  <2>2. latest' \in [Tasks -> TaskStatus \cup {None}]
    BY <1>22 DEF PatchTask, Finished, TaskStatus
  <2> QED
    BY <1>22, <2>1, <2>2 DEF PatchTask
<1>23. ASSUME NEW h \in Tasks, RunnerDies(h) PROVE TypeInv'
  <2>1. /\ duties' \in [Tasks -> SUBSET Duties] /\ older' \in [Tasks -> 0..MaxOlder]
        /\ early' \in [Pushers -> SUBSET Duties]
    BY <1>0, <1>23, DischargeType DEF RunnerDies
  <2> QED
    BY <1>23, <2>1 DEF RunnerDies
<1>24. CASE Restart
  <2>1. queue' \in [Tasks -> Rows \cup {None}]
    <3>1. ASSUME NEW h \in Tasks, queue[h] # None PROVE [queue[h] EXCEPT !.of = "older"] \in Rows
      <4>1. queue[h] \in Rows
        BY <3>1
      <4> QED
        BY <4>1 DEF Rows
    <3> QED
      BY <1>24, <3>1 DEF Restart
  <2>2. /\ duties' \in [Tasks -> SUBSET Duties] /\ early' \in [Pushers -> SUBSET Duties]
        /\ client' \in [Clients -> Tasks \cup {None}]
    BY <1>24 DEF Restart
  <2>3. older' \in [Tasks -> 0..MaxOlder]
    <3>1. ASSUME NEW h \in Tasks
          PROVE  older[h] + Cardinality(Early(h, "store")) \in 0..MaxOlder
      <4>1. Cardinality(Early(h, "store")) \in Nat
        BY FiniteEarly, FS_CardinalityType
      <4>2. older[h] \in Nat /\ older[h] + Cardinality(Early(h, "store")) <= MaxOlder
        BY <1>24 DEF Restart
      <4> QED
        BY <4>1, <4>2
    <3> QED
      BY <1>24, <3>1 DEF Restart
  <2>4. /\ lost' \subseteq Tasks /\ orphans' \subseteq Tasks /\ tries' \in 0..MaxTries
        /\ raced' = FALSE /\ touched' = FALSE
    BY <1>24 DEF Restart, MaxTries
  <2>5. /\ pc' = "loop" /\ phase' = "mutations" /\ oois' = {} /\ todo' = {}
        /\ task' = None /\ task_db' = None /\ score' = None
        /\ UNCHANGED <<mutations, latest, age, bytes, ended, made>>
    BY <1>24 DEF Restart
  <2> QED
    BY <2>1, <2>2, <2>3, <2>4, <2>5
<1>25. CASE Tick
  BY <1>25 DEF Tick, Older
<1> QED
  BY <1>1, <1>2, <1>3, <1>4, <1>5, <1>6, <1>7, <1>8, <1>9, <1>10, <1>11, <1>12, <1>13, <1>14,
     <1>15, <1>16, <1>17, <1>18, <1>19, <1>20, <1>21, <1>22, <1>23, <1>24, <1>25,
     JobsAreTasks
     DEF Next, Populator, World, Runner

\* The queue, the records, the runs in Bytes and the populator's locals keep their
\* types: the base of every other proof here.
LEMMA TypeInvariance == Spec => []TypeInv
<1>1. Init => TypeInv
  <2> SUFFICES ASSUME Init PROVE TypeInv
    OBVIOUS
  <2>1. RecordsOK
    BY BoefjeAssumption DEF Init, RecordsOK
  <2>2. ended \in [Tasks -> 0..Grace] /\ bytes \in [Tasks -> {None, "started", "ended"}]
    BY BoefjeAssumption DEF Init
  <2>3. mutations \in Seq(OOIs \cup {None}) /\ task = None /\ task_db = None /\ score = None
    BY DEF Init
  <2>4. tries \in 0..MaxTries /\ made \in [Tasks -> 0..Grace]
    BY BoefjeAssumption DEF Init, MaxTries
  <2>5. client \in [Clients -> Tasks \cup {None}]
    BY DEF Init
  <2> QED
    BY <2>1, <2>2, <2>3, <2>4, <2>5 DEF Init, TypeInv, TypeOK, LocalsInv, RecordsOK
<1> QED
  BY <1>1, TypeStep, PTL DEF Spec

THEOREM TypeCorrect == Spec => []TypeOK
<1>1. TypeInv => TypeOK
  BY DEF TypeInv
<1> QED
  BY <1>1, TypeInvariance, PTL

(***************************************************************************)
(* What populate_queue raises.                                              *)
(***************************************************************************)

\* Unless a client pushed since the populator looked, its task is not on the queue
\* and there is room for it.
RaceInv ==
  /\ pc \in {"space", "push"} /\ ~raced => queue[task] = None
  /\ pc = "push" /\ ~raced => ~Full
  /\ DiesByRaceOnly

\* A queue from which tasks went only, or none, is as full or less.
LEMMA LessFull ==
  ASSUME \A h \in Tasks : queue'[h] # None => queue[h] # None, ~Full
  PROVE  ~Full'
<1> DEFINE Rowed == {h \in Tasks : queue[h] # None}
<1>1. IsFiniteSet(Tasks)
  <2>1. IsFiniteSet(Boefjes \X OOIs)
    BY BoefjeAssumption, FS_Product
  <2> QED
    BY <2>1, FS_Subset DEF Tasks
<1>2. IsFiniteSet(Rowed) /\ Rowed' \subseteq Rowed
  BY <1>1, FS_Subset
<1>3. Cardinality(Rowed') <= Cardinality(Rowed) /\ Cardinality(Rowed) \in Nat /\ Cardinality(Rowed') \in Nat
  BY <1>2, FS_Subset, FS_CardinalityType
<1> QED
  BY <1>3, BoefjeAssumption DEF Full, QSize

LEMMA RaceStep == TypeInv /\ RaceInv /\ [Next]_vars => RaceInv'
<1> SUFFICES ASSUME TypeInv, RaceInv, [Next]_vars PROVE RaceInv'
  OBVIOUS
<1> USE DEF RaceInv, DiesByRaceOnly, records, world, locals, history, NextPhase, NextTask, InPhase
<1>1. CASE UNCHANGED vars
  BY <1>1 DEF vars, Full, QSize
<1>2. CASE MutationsDone \/ RandomDone \/ GiveUp
  BY <1>2 DEF MutationsDone, RandomDone, GiveUp
<1>3. CASE Mutation \/ \E objects \in SUBSET OOIs : RandomObjects(objects)
  BY <1>3 DEF Mutation, RandomObjects
<1>4. CASE OoiDone \/ (\E o \in OOIs : Ooi(o)) \/ (\E h \in Tasks : CheckAllowed(h))
  BY <1>4 DEF OoiDone, Ooi, CheckAllowed
<1>5. CASE RunningDb \/ NotRunning \/ Running
  BY <1>5 DEF RunningDb, NotRunning, Running
<1>6. CASE GracePassedDb \/ GracePassedBytes \/ InGrace
  BY <1>6 DEF GracePassedDb, GracePassedBytes, InGrace
<1>7. CASE OnQueue
  BY <1>7 DEF OnQueue
<1>8. CASE Space
  BY <1>8 DEF Space, Full, QSize
<1>9. CASE PushTask \/ PostPush
  BY <1>9 DEF PushTask, PostPush
<1>10. CASE PushRaises
  BY <1>10 DEF PushRaises, Refused
<1>11. ASSUME NEW c \in Clients, NEW h \in Tasks, NEW n \in Nat, ApiPush(c, h, n) PROVE RaceInv'
  BY <1>11 DEF ApiPush, Serving
<1>12. ASSUME \A g \in Tasks : queue'[g] # None => queue[g] # None,
              UNCHANGED <<pc, task, raced>>
       PROVE  RaceInv'
  <2>1. ~Full => ~Full'
    BY <1>12, LessFull
  <2>2. pc \in {"space", "push"} => task \in Tasks
    BY DEF TypeInv, LocalsInv
  <2> QED
    BY <1>12, <2>1, <2>2
<1>13. ASSUME NEW c \in Clients, ApiPostPush(c) PROVE RaceInv'
  <2>1. \A g \in Tasks : queue'[g] # None => queue[g] # None
    BY <1>13 DEF ApiPostPush, post_push, TypeInv, TypeOK
  <2> QED
    BY <1>12, <1>13, <2>1 DEF ApiPostPush
<1>14. ASSUME NEW h \in Tasks, ApiPop(h) PROVE RaceInv'
  <2>1. \A g \in Tasks : queue'[g] # None => queue[g] # None
    BY <1>14 DEF ApiPop, TypeInv, TypeOK
  <2> QED
    BY <1>12, <1>14, <2>1 DEF ApiPop
<1>15. CASE \/ \E o \in OOIs \cup {None} : Mutate(o)
            \/ \E h \in Tasks : \/ PostPop(h) \/ BytesStart(h) \/ BytesEnd(h)
                              \/ PatchTask(h) \/ RunnerDies(h)
            \/ Tick
  BY <1>12, <1>15 DEF Mutate, PostPop, BytesStart, BytesEnd, PatchTask, RunnerDies, Tick
<1>16. CASE Restart
  BY <1>16 DEF Restart
<1> QED
  BY <1>1, <1>2, <1>3, <1>4, <1>5, <1>6, <1>7, <1>8, <1>9, <1>10, <1>11, <1>13, <1>14, <1>15,
     <1>16, JobsAreTasks DEF Next, Populator, World, Runner

\* The populator's own push is refused, which ends the program, only when a client
\* pushed between the populator's last look at the queue (OnQueue) and that push:
\* for every size of the queue and whatever runners, time and Bytes do in between.
THEOREM RefusedByRaceOnly == Spec => []DiesByRaceOnly
<1>1. Init => RaceInv
  BY DEF Init, RaceInv, DiesByRaceOnly
<1>2. RaceInv => DiesByRaceOnly
  BY DEF RaceInv
<1> QED
  BY <1>1, <1>2, RaceStep, TypeInvariance, PTL DEF Spec

(***************************************************************************)
(* Rows, records and items on their way between them.                       *)
(***************************************************************************)

\* Nothing happens to a row, a record, an item or a run, and nobody starts or ends
\* a push.
Idle ==
  /\ UNCHANGED <<queue, latest, duties, older, client, early, bytes, lost, orphans>>
  /\ \A p \in Pushers : Pushing(p)' = Pushing(p)

\* Whose push is under way: of a client by its request, of the populator by pc.
LEMMA PushersPush ==
  /\ \A c \in Clients : c \in Pushers /\ c # Self /\ Pushing(c) = client[c]
  /\ Self \in Pushers /\ Pushing(Self) = IF pc = "post" THEN task ELSE None
  /\ \A p \in Pushers : p # Self => p \in Clients
  /\ None \notin Tasks /\ "latest" \notin Pushers /\ "older" \notin Pushers
BY BoefjeAssumption DEF Pushers, Pushing

\* What the steps mean for rows, records and items: most of the populator's steps,
\* mutations and time are idle.
LEMMA IdleSteps ==
  ASSUME TypeInv, [Next]_vars
  PROVE  \/ Idle \/ PushTask \/ PostPush \/ Restart
         \/ \E c \in Clients : \/ \E h \in Tasks, n \in Nat : ApiPush(c, h, n)
                               \/ ApiPostPush(c)
         \/ \E h \in Tasks : \/ ApiPop(h) \/ PostPop(h) \/ BytesStart(h)
                             \/ BytesEnd(h) \/ PatchTask(h) \/ RunnerDies(h)
<1> USE DEF Idle, records, world, locals, history, NextPhase, NextTask, InPhase
<1>1. ASSUME client' = client,
             \/ pc' = pc /\ task' = task
             \/ pc # "post" /\ pc' # "post"
      PROVE  \A p \in Pushers : Pushing(p)' = Pushing(p)
  BY <1>1 DEF Pushing
<1>2. CASE UNCHANGED vars
  BY <1>1, <1>2 DEF vars
<1>3. CASE MutationsDone \/ RandomDone \/ GiveUp
  BY <1>1, <1>3 DEF MutationsDone, RandomDone, GiveUp
<1>4. CASE Mutation \/ \E objects \in SUBSET OOIs : RandomObjects(objects)
  BY <1>1, <1>4 DEF Mutation, RandomObjects
<1>5. CASE OoiDone \/ (\E o \in OOIs : Ooi(o)) \/ (\E h \in Tasks : CheckAllowed(h))
  BY <1>1, <1>5 DEF OoiDone, Ooi, CheckAllowed
<1>6. CASE RunningDb \/ NotRunning \/ Running
  BY <1>1, <1>6 DEF RunningDb, NotRunning, Running
<1>7. CASE GracePassedDb \/ GracePassedBytes \/ InGrace
  BY <1>1, <1>7 DEF GracePassedDb, GracePassedBytes, InGrace
<1>8. CASE OnQueue
  BY <1>1, <1>8 DEF OnQueue
<1>9. CASE Space \/ PushRaises
  BY <1>1, <1>9 DEF Space, PushRaises
<1>10. CASE Tick \/ \E o \in OOIs \cup {None} : Mutate(o)
  BY <1>1, <1>10 DEF Tick, Mutate
<1> QED
  BY <1>2, <1>3, <1>4, <1>5, <1>6, <1>7, <1>8, <1>9, <1>10, JobsAreTasks
     DEF Next, Populator, World, Runner

\* Who holds an item holds it alone: the item of a push without its record is its
\* row or in early, the item of the latest record is its row or in duties.  And a
\* task without a record has no row and no item but of a push under way, or one that
\* a kill cut off from its record.
HandInv ==
  /\ \A p \in Pushers : early[p] # {} => Pushing(p) \in Tasks
  /\ \A h \in Tasks : queue[h] # None =>
       /\ \A p \in Pushers : queue[h].of = p => Pushing(p) = h /\ early[p] = {}
       /\ queue[h].of = "latest" => duties[h] = {}
  /\ \A h \in Tasks : latest[h] = None =>
       /\ queue[h] # None => queue[h].of # "latest"
       /\ duties[h] = {}
       /\ h \notin orphans => older[h] = 0 /\ (queue[h] # None => queue[h].of \in Pushers)

\* A row that a push inserts is its own.
LEMMA InsertHands ==
  ASSUME TypeInv, HandInv, NEW p \in Pushers, NEW h \in Tasks, NEW n \in Nat,
         Insert(p, h, n), Pushing(p) \notin Tasks, Pushing(p)' = h,
         \A q \in Pushers : q # p => Pushing(q)' = Pushing(q),
         UNCHANGED <<latest, duties, older, early, orphans>>
  PROVE  HandInv'
<1>1. early[p] = {}
  BY DEF HandInv
<1>2. \A g \in Tasks : queue'[g] = queue[g] \/ (g = h /\ queue'[g] = [priority |-> n, of |-> p])
  BY DEF Insert, TypeInv, TypeOK
<1>3. \A q \in Pushers : early[q] # {} => q # p
  BY <1>1
<1>4. \A g \in Tasks : queue[g] # None /\ queue[g].of \in Pushers => queue[g].of # p
  BY DEF HandInv
<1>5. p # "latest"
  BY PushersPush
<1> QED
  BY <1>1, <1>2, <1>3, <1>4, <1>5 DEF HandInv

\* When the record is written the item becomes the record's.
LEMMA PostPushHands ==
  ASSUME TypeInv, HandInv, NEW p \in Pushers, NEW h \in Tasks, post_push(p, h),
         Pushing(p) = h, \A q \in Pushers : q # p => Pushing(q)' = Pushing(q)
  PROVE  HandInv'
<1>1. /\ early' = [early EXCEPT ![p] = {}] /\ duties' = [duties EXCEPT ![h] = early[p]]
      /\ latest' = [latest EXCEPT ![h] = "queued"]
      /\ \A g \in Tasks : g # h => older'[g] = older[g]
  BY DEF post_push, TypeInv, TypeOK
<1>2. \A q \in Pushers : early'[q] # {} => q # p /\ early'[q] = early[q]
  BY <1>1 DEF TypeInv, TypeOK
<1>3. \A g \in Tasks : g # h => /\ queue'[g] = queue[g] /\ duties'[g] = duties[g]
                                /\ latest'[g] = latest[g] /\ older'[g] = older[g]
  BY <1>1 DEF post_push, TypeInv, TypeOK
<1>4. /\ latest'[h] = "queued" /\ "queued" # None
      /\ duties'[h] = early[p]
  BY <1>1, BoefjeAssumption DEF TypeInv, TypeOK, TaskStatus
<1>5. queue[h] # None => queue[h] \in Rows
  BY DEF TypeInv, TypeOK
<1>6. queue'[h] # None =>
        \/ queue[h] # None /\ queue[h].of = p /\ queue'[h].of = "latest"
        \/ queue'[h].of = "older"
        \/ queue[h] # None /\ queue'[h] = queue[h] /\ queue[h].of \notin {p, "latest"}
  BY <1>5 DEF post_push, TypeInv, TypeOK, Rows
<1>7. \A g \in Tasks \ {h} : queue[g] # None => queue[g].of # p
  BY DEF HandInv
<1>8. p \notin {"latest", "older"} /\ "latest" \notin Pushers /\ "older" \notin Pushers
  BY PushersPush
<1>9. \A q \in Pushers : early'[q] # {} => Pushing(q)' \in Tasks
  BY <1>2 DEF HandInv
<1>10. queue'[h] # None =>
         /\ \A q \in Pushers : queue'[h].of = q => Pushing(q)' = h /\ early'[q] = {}
         /\ queue'[h].of = "latest" => duties'[h] = {}
  <2>1. CASE queue[h] # None /\ queue[h].of = p /\ queue'[h].of = "latest"
    BY <2>1, <1>4, <1>8 DEF HandInv
  <2>2. CASE queue'[h].of = "older"
    BY <2>2, <1>8
  <2>3. CASE queue[h] # None /\ queue'[h] = queue[h] /\ queue[h].of \notin {p, "latest"}
    BY <2>3, <1>2 DEF HandInv
  <2> QED
    BY <1>6, <2>1, <2>2, <2>3
<1>11. \A g \in Tasks \ {h} : queue'[g] # None =>
         /\ \A q \in Pushers : queue'[g].of = q => Pushing(q)' = g /\ early'[q] = {}
         /\ queue'[g].of = "latest" => duties'[g] = {}
  BY <1>2, <1>3, <1>7 DEF HandInv
<1>12. \A g \in Tasks : latest'[g] = None =>
         /\ queue'[g] # None => queue'[g].of # "latest"
         /\ duties'[g] = {}
         /\ g \notin orphans' => older'[g] = 0 /\ (queue'[g] # None => queue'[g].of \in Pushers)
  BY <1>3, <1>4 DEF HandInv, post_push
<1> QED
  BY <1>9, <1>10, <1>11, <1>12 DEF HandInv

\* What is discharged was due, so it was neither on the queue nor without a record
\* or a push.
LEMMA DischargeHands ==
  ASSUME TypeInv, HandInv, NEW h \in Tasks, NEW d, NEW D, Discharge(h, d, D),
         UNCHANGED <<queue, orphans>>, \A q \in Pushers : Pushing(q)' = Pushing(q),
         \A g \in Tasks : latest'[g] = None => latest[g] = None
  PROVE  HandInv'
<1>1. \A g \in Tasks : duties'[g] \subseteq duties[g]
  BY DEF Discharge, TypeInv, TypeOK
<1>2. \A q \in Pushers : early'[q] \subseteq early[q]
  BY DEF Discharge, TypeInv, TypeOK
<1>3. \A g \in Tasks : older'[g] = older[g] \/ older[g] > 0
  BY DEF Discharge, TypeInv, TypeOK
<1> QED
  BY <1>1, <1>2, <1>3 DEF HandInv

\* A popped row's item has its pop before it, and no other row.
LEMMA PopHands ==
  ASSUME TypeInv, HandInv, NEW h \in Tasks, ApiPop(h)
  PROVE  HandInv'
<1>1. \A p \in Pushers : Pushing(p)' = Pushing(p)
  BY DEF ApiPop, Pushing, locals
<1>2. /\ queue'[h] = None /\ UNCHANGED <<latest, orphans>>
      /\ \A g \in Tasks \ {h} : queue'[g] = queue[g]
  BY DEF ApiPop, history, TypeInv, TypeOK
<1>3. queue[h] # None /\ queue[h].of \in {"latest", "older"} \cup Pushers
  BY DEF ApiPop, TypeInv, TypeOK, Rows
<1>4. CASE queue[h].of = "latest"
  <2>1. duties' = [duties EXCEPT ![h] = {"pop"}] /\ UNCHANGED <<older, early>>
    BY <1>4, PushersPush DEF ApiPop
  <2>2. latest[h] # None
    BY <1>3, <1>4, PushersPush DEF HandInv
  <2>3. \A g \in Tasks \ {h} : duties'[g] = duties[g]
    BY <2>1 DEF TypeInv, TypeOK
  <2> QED
    BY <1>1, <1>2, <2>1, <2>2, <2>3 DEF HandInv
<1>5. CASE queue[h].of = "older"
  <2>1. \A g \in Tasks \ {h} : older'[g] = older[g]
    BY <1>5, PushersPush DEF ApiPop, TypeInv, TypeOK
  <2>2. UNCHANGED <<duties, early>>
    BY <1>5, PushersPush DEF ApiPop
  <2>3. latest[h] # None \/ h \in orphans
    BY <1>3, <1>5, PushersPush DEF HandInv
  <2> QED
    BY <1>1, <1>2, <2>1, <2>2, <2>3 DEF HandInv
<1>6. ASSUME NEW p \in Pushers, queue[h].of = p PROVE HandInv'
  <2>1. early' = [early EXCEPT ![p] = {"pop"}] /\ UNCHANGED <<duties, older>>
    BY <1>6, PushersPush DEF ApiPop
  <2>2. Pushing(p) = h
    BY <1>3, <1>6 DEF HandInv
  <2>3. \A q \in Pushers : q # p => early'[q] = early[q]
    BY <2>1 DEF TypeInv, TypeOK
  <2>4. \A q \in Pushers : early'[q] # {} => Pushing(q)' \in Tasks
    BY <1>1, <2>2, <2>3 DEF HandInv
  <2>5. \A g \in Tasks : queue'[g] # None =>
          /\ \A q \in Pushers : queue'[g].of = q => Pushing(q)' = g /\ early'[q] = {}
          /\ queue'[g].of = "latest" => duties'[g] = {}
    BY <1>1, <1>2, <2>1, <2>2, <2>3 DEF HandInv
  <2>6. \A g \in Tasks : latest'[g] = None =>
          /\ queue'[g] # None => queue'[g].of # "latest"
          /\ duties'[g] = {}
          /\ g \notin orphans' => older'[g] = 0 /\ (queue'[g] # None => queue'[g].of \in Pushers)
    BY <1>2, <2>1 DEF HandInv
  <2> QED
    BY <2>4, <2>5, <2>6 DEF HandInv
<1> QED
  BY <1>3, <1>4, <1>5, <1>6

\* post_pop finds the item where the pop left it.
LEMMA PostPopHands ==
  ASSUME TypeInv, HandInv, NEW h \in Tasks, PostPop(h)
  PROVE  HandInv'
<1>1. \A p \in Pushers : Pushing(p)' = Pushing(p)
  BY DEF PostPop, Pushing, locals
<1>2. UNCHANGED <<queue, older, orphans>>
  BY DEF PostPop, history
<1>3. CASE /\ "pop" \in duties[h] /\ duties' = [duties EXCEPT ![h] = {"store", "patch"}]
           /\ latest' = [latest EXCEPT ![h] = "dispatched"] /\ UNCHANGED early
  <2>2. \A g \in Tasks : latest'[g] = None => latest[g] = None /\ g # h
    BY <1>3, BoefjeAssumption DEF TypeInv, TypeOK, TaskStatus
  <2>3. \A g \in Tasks \ {h} : duties'[g] = duties[g]
    BY <1>3 DEF TypeInv, TypeOK
  <2>4. duties[h] # {}
    BY <1>3
  <2> QED
    BY <1>1, <1>2, <1>3, <2>2, <2>3, <2>4 DEF HandInv
<1>4. ASSUME NEW p \in Pushers, Pushing(p) = h, "pop" \in early[p], UNCHANGED <<latest, duties>>,
             early' = [early EXCEPT ![p] = {"store", "patch"}]
      PROVE  HandInv'
  <2>1. \A q \in Pushers : q # p => early'[q] = early[q]
    BY <1>4 DEF TypeInv, TypeOK
  <2>2. early[p] # {}
    BY <1>4
  <2> QED
    BY <1>1, <1>2, <1>4, <2>1, <2>2 DEF HandInv
<1> QED
  BY <1>3, <1>4 DEF PostPop

\* After a start nobody pushes, and what was cut off has no record of its own.
LEMMA RestartHands ==
  ASSUME TypeInv, HandInv, Restart
  PROVE  HandInv'
<1>1. \A p \in Pushers : early'[p] = {}
  BY DEF Restart
<1>2. ASSUME NEW h \in Tasks, queue'[h] # None
      PROVE  /\ queue[h] # None
             /\ \/ queue'[h] = queue[h] /\ queue[h].of \notin Pushers
                \/ queue'[h].of = "older" /\ queue[h].of \in Pushers
             /\ queue'[h].of \notin Pushers
  <2>1. queue[h] # None
    BY <1>2 DEF Restart
  <2>2. queue[h] \in Rows
    BY <2>1 DEF TypeInv, TypeOK
  <2>3. [queue[h] EXCEPT !.of = "older"].of = "older"
    BY <2>2 DEF Rows
  <2> QED
    BY <2>1, <2>3, PushersPush DEF Restart
<1>3. ASSUME NEW h \in Tasks, queue'[h] # None, queue'[h].of = "latest"
      PROVE  duties'[h] = {}
  BY <1>2, <1>3, PushersPush DEF Restart, HandInv
<1>4. ASSUME NEW h \in Tasks, latest'[h] = None, h \notin orphans'
      PROVE  queue'[h] = None /\ older'[h] = 0
  <2>1. h \notin orphans /\ latest[h] = None /\ \A p \in Pushers : Pushing(p) # h
    BY <1>4 DEF Restart
  <2>2. queue'[h] = None
    BY <1>2, <2>1 DEF HandInv
  <2>3. Early(h, "store") = {}
    BY <2>1 DEF Early
  <2>4. older'[h] = older[h] + 0 /\ older[h] = 0
    BY <2>1, <2>3, FS_EmptySet DEF Restart, HandInv
  <2> QED
    BY <2>2, <2>4
<1>5. ASSUME NEW h \in Tasks, latest'[h] = None
      PROVE  duties'[h] = {} /\ (queue'[h] # None => queue'[h].of # "latest")
  BY <1>2, <1>5 DEF Restart, HandInv
<1> QED
  BY <1>1, <1>2, <1>3, <1>4, <1>5 DEF HandInv

LEMMA HandStep == TypeInv /\ HandInv /\ [Next]_vars => HandInv'
<1> SUFFICES ASSUME TypeInv, HandInv, [Next]_vars PROVE HandInv'
  OBVIOUS
<1>1. CASE Idle
  BY <1>1 DEF Idle, HandInv
<1>2. CASE PushTask
  <2>1. task \in Tasks /\ score \in Nat
    BY <1>2 DEF PushTask, TypeInv, LocalsInv
  <2>2. /\ Pushing(Self) = None /\ Pushing(Self)' = task
        /\ \A q \in Pushers : q # Self => Pushing(q)' = Pushing(q)
    BY <1>2 DEF PushTask, Pushing, locals
  <2> QED
    BY <1>2, <2>1, <2>2, InsertHands, PushersPush DEF PushTask
<1>3. CASE PostPush
  <2>1. task \in Tasks
    BY <1>3 DEF PostPush, TypeInv, LocalsInv
  <2>2. /\ Pushing(Self) = task
        /\ \A q \in Pushers : q # Self => Pushing(q)' = Pushing(q)
    BY <1>3 DEF PostPush, Pushing
  <2> QED
    BY <1>3, <2>1, <2>2, PostPushHands, PushersPush DEF PostPush
<1>4. ASSUME NEW c \in Clients, NEW h \in Tasks, NEW n \in Nat, ApiPush(c, h, n) PROVE HandInv'
  <2>1. /\ Pushing(c) = None /\ Pushing(c)' = h
        /\ \A q \in Pushers : q # c => Pushing(q)' = Pushing(q)
    BY <1>4, PushersPush DEF ApiPush, Pushing, Pushers, TypeInv, TypeOK, locals
  <2> QED
    BY <1>4, <2>1, InsertHands, PushersPush DEF ApiPush
<1>5. ASSUME NEW c \in Clients, ApiPostPush(c) PROVE HandInv'
  <2>1. /\ Pushing(c) = client[c] /\ client[c] \in Tasks
        /\ \A q \in Pushers : q # c => Pushing(q)' = Pushing(q)
    BY <1>5, PushersPush DEF ApiPostPush, Pushing, Pushers, TypeInv, TypeOK, locals
  <2> QED
    BY <1>5, <2>1, PostPushHands, PushersPush DEF ApiPostPush
<1>6. ASSUME NEW h \in Tasks, BytesStart(h) PROVE HandInv'
  BY <1>6 DEF BytesStart, records, locals, history, Pushing, HandInv
<1>7. ASSUME NEW h \in Tasks, BytesEnd(h) \/ PatchTask(h) \/ RunnerDies(h) PROVE HandInv'
  <2>1. \A p \in Pushers : Pushing(p)' = Pushing(p)
    BY <1>7 DEF BytesEnd, PatchTask, RunnerDies, Pushing, locals
  <2>2. /\ UNCHANGED <<queue, orphans>>
        /\ \E d, D : Discharge(h, d, D)
    BY <1>7 DEF BytesEnd, PatchTask, RunnerDies, history
  <2>3. \A g \in Tasks : latest'[g] = None => latest[g] = None
    BY <1>7, BoefjeAssumption
       DEF BytesEnd, PatchTask, RunnerDies, Finished, TypeInv, TypeOK, TaskStatus
  <2> QED
    BY <2>1, <2>2, <2>3, DischargeHands
<1> QED
  BY <1>1, <1>2, <1>3, <1>4, <1>5, <1>6, <1>7, IdleSteps, PopHands, PostPopHands, RestartHands

\* An item is always in one hand.
LEMMA HandInvariance == Spec => []HandInv
<1>1. Init => HandInv
  BY DEF Init, HandInv
<1> QED
  BY <1>1, HandStep, TypeInvariance, PTL DEF Spec

\* A task that has a record, or a push under way, has an item that was not lost, or
\* a result in Bytes, or lost its item.
BlockInv ==
  \A h \in Tasks : latest[h] # None \/ (\E p \in Pushers : Pushing(p) = h) =>
    bytes[h] = "ended" \/ Processing(h) \/ h \in lost

LEMMA BlockStep == TypeInv /\ HandInv /\ BlockInv /\ [Next]_vars => BlockInv'
<1> SUFFICES ASSUME TypeInv, HandInv, BlockInv, [Next]_vars PROVE BlockInv'
  OBVIOUS
<1>0. ASSUME \A h \in Tasks : Processing(h) => Processing(h)',
             \A h \in Tasks : latest'[h] # None \/ (\E p \in Pushers : Pushing(p)' = h) =>
               \/ latest[h] # None \/ (\E p \in Pushers : Pushing(p) = h)
               \/ Processing(h)',
             UNCHANGED <<bytes, lost>>
      PROVE  BlockInv'
  BY <1>0 DEF BlockInv
<1>1. CASE Idle
  BY <1>1 DEF Idle, BlockInv, Processing
<1>2. ASSUME NEW p \in Pushers, NEW h \in Tasks, NEW n \in Nat, Insert(p, h, n),
             Pushing(p) \notin Tasks, Pushing(p)' = h,
             \A q \in Pushers : q # p => Pushing(q)' = Pushing(q),
             UNCHANGED <<latest, duties, older, early, bytes, lost>>
      PROVE  BlockInv'
  <2>1. queue'[h] # None /\ \A g \in Tasks : queue[g] # None => queue'[g] # None
    <3>1. [priority |-> n, of |-> p] \in Rows
      BY <1>2 DEF Rows
    <3> QED
      BY <1>2, <3>1, BoefjeAssumption DEF Insert, TypeInv, TypeOK
  <2>2. \A g \in Tasks : Processing(g) => Processing(g)'
    BY <1>2, <2>1 DEF Processing
  <2>3. Processing(h)'
    BY <2>1 DEF Processing
  <2>4. \A g \in Tasks \ {h} : (\E q \in Pushers : Pushing(q)' = g) => \E q \in Pushers : Pushing(q) = g
    BY <1>2
  <2> QED
    BY <1>0, <1>2, <2>2, <2>3, <2>4
<1>3. ASSUME NEW p \in Pushers, NEW h \in Tasks, post_push(p, h), Pushing(p) = h,
             Pushing(p)' = None, \A q \in Pushers : q # p => Pushing(q)' = Pushing(q),
             UNCHANGED <<bytes, lost>>
      PROVE  BlockInv'
  <2>1. /\ \A g \in Tasks : queue[g] # None => queue'[g] # None
        /\ \A g \in Tasks \ {h} : duties'[g] = duties[g] /\ older'[g] = older[g] /\ latest'[g] = latest[g]
        /\ duties'[h] = early[p]
        /\ Out(duties[h]) => older'[h] > 0
        /\ older[h] > 0 => older'[h] > 0
        /\ \A q \in Pushers : q # p => early'[q] = early[q]
    <3>1. older[h] \in Nat
      BY BoefjeAssumption DEF TypeInv, TypeOK
    <3>2. \A g \in Tasks : queue[g] # None => queue'[g] # None
      <4>1. queue[h] # None => queue[h] \in Rows
        BY DEF TypeInv, TypeOK
      <4>2. ASSUME queue[h] # None, NEW w \in {"latest", "older"}
            PROVE  [queue[h] EXCEPT !.of = w] \in Rows
        BY <4>1, <4>2 DEF Rows
      <4> QED
        BY <1>3, <4>2, BoefjeAssumption DEF post_push, TypeInv, TypeOK
    <3> QED
      BY <1>3, <3>1, <3>2 DEF post_push, TypeInv, TypeOK
  <2>2. ASSUME NEW g \in Tasks, Processing(g) PROVE Processing(g)'
    <3>1. CASE queue[g] # None \/ Out(duties[g]) \/ older[g] > 0
      BY <2>1, <3>1 DEF Processing
    <3>2. ASSUME NEW q \in Pushers, Pushing(q) = g, Out(early[q]) PROVE Processing(g)'
      BY <1>3, <2>1, <3>2 DEF Processing
    <3> QED
      BY <2>2, <3>1, <3>2 DEF Processing
  <2>3. \A g \in Tasks : latest'[g] # None \/ (\E q \in Pushers : Pushing(q)' = g) =>
          latest[g] # None \/ \E q \in Pushers : Pushing(q) = g
    BY <1>3, <2>1, PushersPush
  <2> QED
    BY <1>0, <1>3, <2>2, <2>3
<1>4. CASE PushTask
  <2>1. task \in Tasks /\ score \in Nat
    BY <1>4 DEF PushTask, TypeInv, LocalsInv
  <2>2. /\ Pushing(Self) = None /\ Pushing(Self)' = task
        /\ \A q \in Pushers : q # Self => Pushing(q)' = Pushing(q)
    BY <1>4 DEF PushTask, Pushing, locals
  <2> QED
    BY <1>2, <1>4, <2>1, <2>2, PushersPush DEF PushTask
<1>5. CASE PostPush
  <2>1. task \in Tasks
    BY <1>5 DEF PostPush, TypeInv, LocalsInv
  <2>2. /\ Pushing(Self) = task /\ Pushing(Self)' = None
        /\ \A q \in Pushers : q # Self => Pushing(q)' = Pushing(q)
    BY <1>5 DEF PostPush, Pushing, NextTask
  <2> QED
    BY <1>3, <1>5, <2>1, <2>2, PushersPush DEF PostPush
<1>6. ASSUME NEW c \in Clients, NEW h \in Tasks, NEW n \in Nat, ApiPush(c, h, n) PROVE BlockInv'
  <2>1. /\ Pushing(c) = None /\ Pushing(c)' = h
        /\ \A q \in Pushers : q # c => Pushing(q)' = Pushing(q)
    BY <1>6, PushersPush DEF ApiPush, Pushing, Pushers, TypeInv, TypeOK, locals
  <2> QED
    BY <1>2, <1>6, <2>1, PushersPush DEF ApiPush
<1>7. ASSUME NEW c \in Clients, ApiPostPush(c) PROVE BlockInv'
  <2>1. /\ Pushing(c) = client[c] /\ client[c] \in Tasks /\ Pushing(c)' = None
        /\ \A q \in Pushers : q # c => Pushing(q)' = Pushing(q)
    BY <1>7, PushersPush DEF ApiPostPush, Pushing, Pushers, TypeInv, TypeOK, locals
  <2> QED
    BY <1>3, <1>7, <2>1, PushersPush DEF ApiPostPush, history
<1>8. ASSUME NEW h \in Tasks, ApiPop(h) PROVE BlockInv'
  <2>1. \A p \in Pushers : Pushing(p)' = Pushing(p)
    BY <1>8 DEF ApiPop, Pushing, locals
  <2>2. Processing(h)'
    <3>1. queue[h].of \in {"latest", "older"} \cup Pushers /\ older[h] \in Nat /\ queue[h] # None
      BY <1>8, BoefjeAssumption DEF ApiPop, TypeInv, TypeOK, Rows
    <3>2. CASE duties' = [duties EXCEPT ![h] = {"pop"}]
      BY <3>2 DEF Processing, Out, TypeInv, TypeOK
    <3>3. CASE older' = [older EXCEPT ![h] = @ + 1]
      BY <3>1, <3>3 DEF Processing, TypeInv, TypeOK
    <3>4. ASSUME NEW p \in Pushers, queue[h].of = p, early' = [early EXCEPT ![p] = {"pop"}]
          PROVE  Processing(h)'
      <4>1. Pushing(p)' = h /\ early'[p] = {"pop"}
        BY <2>1, <3>1, <3>4 DEF HandInv, TypeInv, TypeOK
      <4> QED
        BY <4>1 DEF Processing, Out
    <3> QED
      BY <1>8, <3>2, <3>3, <3>4 DEF ApiPop
  <2>3. ASSUME NEW g \in Tasks \ {h}, Processing(g) PROVE Processing(g)'
    <3>1. queue'[g] = queue[g] /\ duties'[g] = duties[g] /\ older'[g] = older[g]
      BY <1>8 DEF ApiPop, TypeInv, TypeOK
    <3>2. \A p \in Pushers : Pushing(p) = g => early'[p] = early[p]
      BY <1>8 DEF ApiPop, HandInv, TypeInv, TypeOK
    <3> QED
      BY <2>1, <2>3, <3>1, <3>2 DEF Processing
  <2> QED
    BY <1>0, <1>8, <2>1, <2>2, <2>3 DEF ApiPop, history
<1>9. ASSUME NEW h \in Tasks, PostPop(h) PROVE BlockInv'
  <2>1. \A p \in Pushers : Pushing(p)' = Pushing(p)
    BY <1>9 DEF PostPop, Pushing, locals
  <2>2. ASSUME NEW g \in Tasks, Processing(g) PROVE Processing(g)'
    <3>1. queue'[g] = queue[g] /\ older'[g] = older[g]
      BY <1>9 DEF PostPop
    <3>2. ASSUME Out(duties[g]) PROVE Out(duties'[g])
      <4>1. duties'[g] = duties[g] \/ duties'[g] = {"store", "patch"}
        BY <1>9 DEF PostPop, TypeInv, TypeOK
      <4> QED
        BY <3>2, <4>1 DEF Out
    <3>3. ASSUME NEW p \in Pushers, Out(early[p]) PROVE Out(early'[p])
      <4>1. early'[p] = early[p] \/ early'[p] = {"store", "patch"}
        BY <1>9 DEF PostPop, TypeInv, TypeOK
      <4> QED
        BY <3>3, <4>1 DEF Out
    <3> QED
      BY <2>1, <2>2, <3>1, <3>2, <3>3 DEF Processing
  <2>3. \A g \in Tasks : latest'[g] # None => latest[g] # None \/ Processing(g)'
    BY <1>9 DEF PostPop, TypeInv, TypeOK, HandInv
  <2> QED
    BY <1>0, <1>9, <2>1, <2>2, <2>3 DEF PostPop, history
<1>10. ASSUME NEW h \in Tasks, BytesStart(h) PROVE BlockInv'
  <2>1. \A p \in Pushers : Pushing(p)' = Pushing(p)
    BY <1>10 DEF BytesStart, Pushing, locals, records
  <2>2. \A g \in Tasks : Processing(g)' = Processing(g)
    BY <1>10, <2>1 DEF BytesStart, records, Processing
  <2>3. Processing(h)
    BY <1>10 DEF BytesStart, AtRunner, Processing, Out
  <2> QED
    BY <1>10, <2>1, <2>2, <2>3 DEF BytesStart, records, history, BlockInv, TypeInv, TypeOK
<1>11. ASSUME NEW h \in Tasks, BytesEnd(h) \/ PatchTask(h) \/ RunnerDies(h) PROVE BlockInv'
  <2>1. \A p \in Pushers : Pushing(p)' = Pushing(p)
    BY <1>11 DEF BytesEnd, PatchTask, RunnerDies, Pushing, locals
  <2>2. PICK d \in Duties, D \in SUBSET Duties :
          /\ Discharge(h, d, D)
          /\ \/ d = "patch" /\ D = {"patch"}
             \/ bytes'[h] = "ended"
             \/ h \in lost'
    BY <1>11 DEF BytesEnd, PatchTask, RunnerDies, Duties, TypeInv, TypeOK
  <2>3. \A g \in Tasks \ {h} : bytes'[g] = bytes[g] /\ (g \in lost' <=> g \in lost)
    BY <1>11 DEF BytesEnd, PatchTask, RunnerDies, TypeInv, TypeOK, history
  <2>4. UNCHANGED queue
    BY <1>11 DEF BytesEnd, PatchTask, RunnerDies
  <2>5. ASSUME NEW g \in Tasks \ {h}, Processing(g) PROVE Processing(g)'
    <3>1. duties'[g] = duties[g] /\ older'[g] = older[g]
      BY <2>2 DEF Discharge, TypeInv, TypeOK
    <3>2. \A p \in Pushers : Pushing(p) = g => early'[p] = early[p]
      BY <2>2 DEF Discharge, TypeInv, TypeOK
    <3> QED
      BY <2>1, <2>4, <2>5, <3>1, <3>2 DEF Processing
  <2>6. \A g \in Tasks : latest'[g] # None => latest[g] # None
    BY <1>11, <2>2 DEF BytesEnd, PatchTask, RunnerDies, Discharge, HandInv, TypeInv, TypeOK
  <2>7. CASE d = "patch" /\ D = {"patch"}
    <3>1. Processing(h) => Processing(h)'
      <4>1. Out(duties[h]) => Out(duties'[h])
        BY <2>2, <2>7 DEF Discharge, Out, TypeInv, TypeOK
      <4>2. \A p \in Pushers : Out(early[p]) => Out(early'[p])
        BY <2>2, <2>7 DEF Discharge, Out, TypeInv, TypeOK
      <4>3. older'[h] = older[h]
        BY <2>2, <2>7 DEF Discharge
      <4> QED
        BY <2>1, <2>4, <4>1, <4>2, <4>3 DEF Processing
    <3>2. bytes[h] = "ended" => bytes'[h] = "ended"
      BY <1>11 DEF BytesEnd, PatchTask, RunnerDies, TypeInv, TypeOK
    <3>3. h \in lost => h \in lost' \/ bytes'[h] = "ended"
      BY <1>11 DEF BytesEnd, PatchTask, RunnerDies, history, TypeInv, TypeOK
    <3> QED
      BY <2>1, <2>3, <2>5, <2>6, <3>1, <3>2, <3>3 DEF BlockInv
  <2>8. CASE bytes'[h] = "ended" \/ h \in lost'
    BY <2>1, <2>3, <2>5, <2>6, <2>8 DEF BlockInv
  <2> QED
    BY <2>2, <2>7, <2>8
<1>12. CASE Restart
  <2>1. \A p \in Pushers : Pushing(p)' \notin Tasks
    BY <1>12, PushersPush DEF Restart, Pushing, Pushers
  <2>2. ASSUME NEW h \in Tasks, Processing(h) PROVE Processing(h)' \/ h \in lost'
    <3>0. /\ older[h] \in Nat /\ Cardinality(Early(h, "store")) \in Nat
          /\ older'[h] = older[h] + Cardinality(Early(h, "store"))
      BY <1>12, FiniteEarly, FS_CardinalityType, BoefjeAssumption DEF Restart, TypeInv, TypeOK
    <3>1. CASE queue[h] # None
      <4>1. queue[h] \in Rows /\ [queue[h] EXCEPT !.of = "older"] \in Rows
        BY <3>1 DEF TypeInv, TypeOK, Rows
      <4>2. queue'[h] # None
        BY <1>12, <3>1, <4>1, BoefjeAssumption DEF Restart
      <4> QED
        BY <4>2 DEF Processing
    <3>2. CASE Out(duties[h])
      BY <1>12, <3>2 DEF Restart, Processing, Out
    <3>3. CASE older[h] > 0
      BY <3>0, <3>3 DEF Processing
    <3>4. ASSUME NEW p \in Pushers, Pushing(p) = h, "pop" \in early[p] PROVE h \in lost'
      BY <1>12, <3>4 DEF Restart, Early
    <3>5. ASSUME NEW p \in Pushers, Pushing(p) = h, "store" \in early[p] PROVE Processing(h)'
      <4>1. Early(h, "store") # {}
        BY <3>5 DEF Early
      <4>2. Cardinality(Early(h, "store")) # 0
        BY <4>1, FiniteEarly, FS_EmptySet
      <4> QED
        BY <3>0, <4>2 DEF Processing
    <3> QED
      BY <2>2, <3>1, <3>2, <3>3, <3>4, <3>5 DEF Processing, Out
  <2>3. UNCHANGED <<latest, bytes>> /\ lost \subseteq lost'
    BY <1>12 DEF Restart
  <2> QED
    BY <2>1, <2>2, <2>3 DEF BlockInv
<1> QED
  BY <1>1, <1>4, <1>5, <1>6, <1>7, <1>8, <1>9, <1>10, <1>11, <1>12, IdleSteps

\* The populator never waits for ever for a run that is not lost: with any number of
\* clients that push, with pops, kills and the populator's own push anywhere between
\* an insert and its record, a task is abandoned only if an item of it was lost, with
\* a runner that died or between the pop and its answer.
THEOREM OnlyLossesBlock == Spec => []OnlyLossBlocks
<1>1. Init => BlockInv
  BY PushersPush DEF Init, BlockInv, Pushing
<1>2. BlockInv => OnlyLossBlocks
  BY DEF BlockInv, OnlyLossBlocks, Abandoned
<1> QED
  BY <1>1, <1>2, BlockStep, HandInvariance, TypeInvariance, PTL DEF Spec

(***************************************************************************)
(* What the populator's checks still mean when it pushes.                   *)
(***************************************************************************)

\* The populator's steps between its first look at a task and its push.
Looked == {"running_bytes", "grace_db", "grace_bytes", "on_queue", "space", "push"}

\* A client's push of the task that is under way since the first look is noticed.
TouchInv == pc \in Looked /\ ~touched => \A c \in Clients : client[c] # task

\* The record of a task is no older than the last one that the populator made of
\* it.  Past its check of the record the populator's own is as old as the grace
\* period, and so is the latest one unless a client made it since.
GraceInv ==
  /\ TouchInv
  /\ \A h \in Tasks : age[h] <= made[h] /\ (latest[h] = None => age[h] = Grace)
  /\ pc \in Looked \ {"running_bytes", "grace_db"} =>
       made[task] = Grace /\ (age[task] = Grace \/ touched)

\* No step of a client gets past that notice.
LEMMA LookedSteps ==
  ASSUME TypeInv, TouchInv, [Next]_vars, pc' \in Looked
  PROVE  TouchInv'
<1> USE DEF TouchInv, Looked, records, world, locals, history, NextPhase, NextTask, InPhase
<1>1. CASE UNCHANGED vars
  BY <1>1 DEF vars
<1>2. CASE MutationsDone \/ RandomDone \/ GiveUp \/ Mutation \/ OoiDone
  BY <1>2 DEF MutationsDone, RandomDone, GiveUp, Mutation, OoiDone
<1>3. CASE \/ \E objects \in SUBSET OOIs : RandomObjects(objects)
           \/ \E o \in OOIs : Ooi(o)
           \/ \E h \in Tasks : CheckAllowed(h)
  BY <1>3 DEF RandomObjects, Ooi, CheckAllowed
<1>4. CASE RunningDb
  BY <1>4 DEF RunningDb
<1>5. CASE NotRunning \/ Running \/ GracePassedDb \/ GracePassedBytes \/ InGrace
  BY <1>5 DEF NotRunning, Running, GracePassedDb, GracePassedBytes, InGrace
<1>6. CASE OnQueue \/ Space \/ PushTask \/ PostPush \/ PushRaises
  BY <1>6 DEF OnQueue, Space, PushTask, PostPush, PushRaises
<1>7. ASSUME NEW c \in Clients, NEW h \in Tasks, NEW n \in Nat, ApiPush(c, h, n) PROVE TouchInv'
  <2>1. /\ client' = [client EXCEPT ![c] = h] /\ touched' = (touched \/ h = task)
        /\ pc' = pc /\ task' = task
    BY <1>7 DEF ApiPush
  <2>2. \A d \in Clients : client'[d] = client[d] \/ client'[d] = h
    BY <2>1 DEF TypeInv, TypeOK
  <2> QED
    BY <2>1, <2>2
<1>8. ASSUME NEW c \in Clients, ApiPostPush(c) PROVE TouchInv'
  <2>1. client' = [client EXCEPT ![c] = None] /\ UNCHANGED <<touched, pc, task>>
    BY <1>8 DEF ApiPostPush
  <2>2. task \in Tasks /\ task # None
    BY <1>8, <2>1, BoefjeAssumption DEF TypeInv, LocalsInv
  <2>3. \A d \in Clients : client'[d] = client[d] \/ client'[d] = None
    BY <2>1 DEF TypeInv, TypeOK
  <2> QED
    BY <2>1, <2>2, <2>3
<1>9. ASSUME NEW h \in Tasks, Runner(h) \/ BytesStart(h) \/ RunnerDies(h) PROVE TouchInv'
  BY <1>9 DEF Runner, ApiPop, PostPop, BytesStart, BytesEnd, PatchTask, RunnerDies
<1>10. CASE Tick \/ \E o \in OOIs \cup {None} : Mutate(o)
  BY <1>10 DEF Tick, Mutate
<1>11. CASE Restart
  BY <1>11 DEF Restart
<1> QED
  BY <1>1, <1>2, <1>3, <1>4, <1>5, <1>6, <1>7, <1>8, <1>9, <1>10, <1>11, JobsAreTasks
     DEF Next, Populator, World

\* Ages only grow, unless a record is made.
LEMMA AgesGrow ==
  ASSUME TypeInv, NEW a, a \in [Tasks -> 0..Grace], NEW h \in Tasks
  PROVE  /\ Older(a)[h] \in 0..Grace /\ Older(a)[h] >= a[h]
         /\ a[h] < Grace => Older(a)[h] = a[h] + 1
         /\ a[h] = Grace => Older(a)[h] = Grace
BY BoefjeAssumption DEF Older

LEMMA GraceStep == TypeInv /\ GraceInv /\ [Next]_vars => GraceInv'
<1> SUFFICES ASSUME TypeInv, GraceInv, [Next]_vars PROVE GraceInv'
  OBVIOUS
<1>0. TouchInv'
  BY LookedSteps DEF GraceInv, TouchInv
<1> DEFINE Past == Looked \ {"running_bytes", "grace_db"}
           Ages == \A h \in Tasks : age[h] <= made[h] /\ (latest[h] = None => age[h] = Grace)
           Spaced == pc \in Past => made[task] = Grace /\ (age[task] = Grace \/ touched)
<1> HIDE DEF Past, Ages, Spaced
<1>1. Ages /\ Spaced
  BY DEF GraceInv, Ages, Spaced, Past
<1>2. Ages' /\ Spaced' => GraceInv'
  BY <1>0 DEF GraceInv, Ages, Spaced, Past
<1>3. (pc \in Looked => task \in Tasks) /\ Past \subseteq Looked
      /\ Past = {"grace_bytes", "on_queue", "space", "push"}
  BY DEF TypeInv, LocalsInv, Looked, Past
<1> USE DEF records, world, locals, history, NextPhase, NextTask, InPhase
<1>4. CASE UNCHANGED vars
  BY <1>1, <1>2, <1>4 DEF vars, Ages, Spaced
<1>5. ASSUME UNCHANGED <<latest, age, made>>, pc' \notin Past PROVE GraceInv'
  BY <1>1, <1>2, <1>5 DEF Ages, Spaced
<1>6. CASE \/ MutationsDone \/ RandomDone \/ GiveUp \/ Mutation \/ OoiDone
           \/ \E objects \in SUBSET OOIs : RandomObjects(objects)
           \/ \E o \in OOIs : Ooi(o)
           \/ \E h \in Tasks : CheckAllowed(h)
           \/ RunningDb \/ NotRunning \/ Running \/ InGrace \/ PushTask \/ PushRaises \/ Restart
  <2>1. UNCHANGED <<latest, age, made>> /\ pc' \notin Past
    BY <1>3, <1>6 DEF MutationsDone, RandomDone, GiveUp, Mutation, OoiDone, RandomObjects, Ooi,
       CheckAllowed, RunningDb, NotRunning, Running, InGrace, PushTask, PushRaises, Restart
  <2> QED
    BY <1>5, <2>1
<1>7. CASE GracePassedDb
  <2>1. UNCHANGED <<latest, age, made, task>> /\ task \in Tasks
    BY <1>3, <1>7 DEF GracePassedDb, Looked
  <2>2. age[task] \in 0..Grace /\ made[task] \in 0..Grace /\ age[task] <= made[task]
    BY <1>1, <2>1 DEF Ages, TypeInv, TypeOK
  <2>3. age[task] = Grace
    BY <1>1, <1>7, <2>1, <2>2, BoefjeAssumption DEF GracePassedDb, Ages
  <2>4. made[task] = Grace
    BY <2>2, <2>3, BoefjeAssumption
  <2> QED
    BY <1>1, <1>2, <2>1, <2>3, <2>4 DEF Ages, Spaced
<1>8. CASE GracePassedBytes \/ OnQueue \/ Space
  <2>1. UNCHANGED <<latest, age, made>>
    BY <1>8 DEF GracePassedBytes, OnQueue, Space
  <2>2. pc' \in Past => pc \in Past /\ UNCHANGED <<task, touched>>
    BY <1>3, <1>8 DEF GracePassedBytes, OnQueue, Space
  <2> QED
    BY <1>1, <1>2, <2>1, <2>2 DEF Ages, Spaced
<1>9. ASSUME NEW p \in Pushers, NEW h \in Tasks, post_push(p, h),
             \/ made' = [made EXCEPT ![h] = 0] /\ pc' \notin Past
             \/ UNCHANGED <<made, pc, task, touched>> /\ (pc \in Past /\ task = h => touched)
      PROVE  GraceInv'
  <2>1. /\ age'[h] = 0 /\ latest'[h] = "queued" /\ "queued" # None
        /\ \A g \in Tasks \ {h} : age'[g] = age[g] /\ latest'[g] = latest[g]
        /\ made'[h] \in 0..Grace /\ \A g \in Tasks \ {h} : made'[g] = made[g]
    BY <1>9, BoefjeAssumption DEF post_push, TypeInv, TypeOK, TaskStatus
  <2>2. Ages'
    BY <1>1, <2>1 DEF Ages
  <2>3. Spaced'
    BY <1>1, <1>3, <1>9, <2>1 DEF Spaced
  <2> QED
    BY <1>2, <2>2, <2>3
<1>10. CASE PostPush
  <2>1. pc' \notin Past
    BY <1>3, <1>10 DEF PostPush
  <2> QED
    BY <1>9, <1>10, <2>1, PushersPush DEF PostPush, TypeInv, LocalsInv
<1>11. ASSUME NEW c \in Clients, ApiPostPush(c) PROVE GraceInv'
  <2>1. client[c] \in Tasks /\ post_push(c, client[c])
        /\ UNCHANGED <<made, pc, task, touched>>
    BY <1>11 DEF ApiPostPush, TypeInv, TypeOK
  <2>2. pc \in Past /\ task = client[c] => touched
    BY <1>3 DEF GraceInv, TouchInv
  <2> QED
    BY <1>9, <2>1, <2>2, PushersPush
<1>12. ASSUME UNCHANGED <<age, made, pc, task>>, touched => touched',
              \A h \in Tasks : latest'[h] = None => latest[h] = None
       PROVE  GraceInv'
  BY <1>1, <1>2, <1>12 DEF Ages, Spaced
<1>13. ASSUME NEW c \in Clients, NEW h \in Tasks, NEW n \in Nat, ApiPush(c, h, n) PROVE GraceInv'
  BY <1>12, <1>13 DEF ApiPush
<1>14. ASSUME NEW h \in Tasks, Runner(h) \/ BytesStart(h) \/ RunnerDies(h) PROVE GraceInv'
  <2>1. \A g \in Tasks : latest'[g] = None => latest[g] = None
    BY <1>14, BoefjeAssumption DEF Runner, ApiPop, PostPop, BytesStart, BytesEnd, PatchTask,
       RunnerDies, Finished, TypeInv, TypeOK, TaskStatus
  <2> QED
    BY <1>12, <1>14, <2>1 DEF Runner, ApiPop, PostPop, BytesStart, BytesEnd, PatchTask, RunnerDies
<1>15. CASE \E o \in OOIs \cup {None} : Mutate(o)
  BY <1>12, <1>15 DEF Mutate
<1>16. CASE Tick
  <2>1. ASSUME NEW h \in Tasks
        PROVE  /\ age'[h] <= made'[h] /\ (age[h] = Grace => age'[h] = Grace)
               /\ (made[h] = Grace => made'[h] = Grace)
    <3>1. /\ age' = Older(age) /\ made' = Older(made) /\ age[h] <= made[h]
          /\ age[h] \in 0..Grace /\ made[h] \in 0..Grace /\ Grace \in Nat
      BY <1>1, <1>16, BoefjeAssumption DEF Tick, Ages, TypeInv, TypeOK
    <3>2. /\ age'[h] \in 0..Grace /\ made'[h] \in 0..Grace
          /\ age[h] < Grace => age'[h] = age[h] + 1
          /\ age[h] = Grace => age'[h] = Grace
          /\ made[h] < Grace => made'[h] = made[h] + 1
          /\ made[h] = Grace => made'[h] = Grace
      BY <3>1, AgesGrow DEF TypeInv, TypeOK
    <3> QED
      BY <3>1, <3>2
  <2> QED
    BY <1>1, <1>2, <1>3, <1>16, <2>1 DEF Tick, Ages, Spaced
<1> QED
  BY <1>4, <1>6, <1>7, <1>8, <1>10, <1>11, <1>13, <1>14, <1>15, <1>16, JobsAreTasks
     DEF Next, Populator, World

\* Whatever clients push, and however long the populator waits for room, no two of
\* its own records of a task are nearer than the grace period, and none of its
\* pushes is nearer to the latest record than that, unless it is of a client whose
\* push was under way since the populator first looked.
THEOREM RecordsAreSpaced == Spec => SpacedByGrace
<1>1. Init => GraceInv
  BY BoefjeAssumption DEF Init, GraceInv, TouchInv, Looked
<1>2. GraceInv /\ TypeInv /\ [Next]_vars =>
        [Pushes => /\ made[task] >= Grace
                   /\ latest[task] = None \/ age[task] >= Grace \/ touched]_vars
  BY BoefjeAssumption DEF GraceInv, Pushes, Looked
<1> QED
  BY <1>1, <1>2, GraceStep, TypeInvariance, PTL DEF Spec, SpacedByGrace

\* Without a run in Bytes the populator got past is_task_running only where there
\* was no record, and there is still none, unless a client pushed.
FirstInv ==
  /\ TouchInv
  /\ pc = "running_bytes" /\ task_db = None => latest[task] = None \/ touched
  /\ pc \in Looked \ {"running_bytes"} /\ bytes[task] = None => latest[task] = None \/ touched

LEMMA FirstStep == TypeInv /\ HandInv /\ FirstInv /\ [Next]_vars => FirstInv'
<1> SUFFICES ASSUME TypeInv, HandInv, FirstInv, [Next]_vars PROVE FirstInv'
  OBVIOUS
<1>0. TouchInv'
  BY LookedSteps DEF FirstInv, TouchInv
<1>1. pc \in Looked => task \in Tasks
  BY DEF TypeInv, LocalsInv, Looked
<1> USE <1>0 DEF FirstInv, records, world, locals, history, NextPhase, NextTask, InPhase
<1>2. CASE UNCHANGED vars
  BY <1>2 DEF vars
<1>3. CASE \/ MutationsDone \/ RandomDone \/ GiveUp \/ Mutation \/ OoiDone
           \/ \E objects \in SUBSET OOIs : RandomObjects(objects)
           \/ \E o \in OOIs : Ooi(o)
           \/ \E h \in Tasks : CheckAllowed(h)
           \/ Running \/ InGrace \/ PushTask \/ PostPush \/ PushRaises \/ Restart
  <2>1. pc' \notin Looked
    BY <1>3 DEF MutationsDone, RandomDone, GiveUp, Mutation, OoiDone, RandomObjects, Ooi,
       CheckAllowed, Running, InGrace, PushTask, PostPush, PushRaises, Restart, Looked
  <2> QED
    BY <2>1 DEF Looked
<1>4. CASE RunningDb
  BY <1>4 DEF RunningDb, Looked
<1>5. CASE NotRunning
  BY <1>5, BoefjeAssumption DEF NotRunning, Looked
<1>6. CASE GracePassedDb \/ GracePassedBytes \/ OnQueue \/ Space
  BY <1>6 DEF GracePassedDb, GracePassedBytes, OnQueue, Space, Looked
<1>7. ASSUME UNCHANGED <<pc, task, task_db>>, touched => touched',
             pc \in Looked => /\ bytes'[task] = None => bytes[task] = None
                              /\ latest[task] = None => latest'[task] = None \/ touched'
      PROVE  FirstInv'
  BY <1>7 DEF Looked
<1>8. ASSUME NEW c \in Clients, NEW h \in Tasks, NEW n \in Nat, ApiPush(c, h, n) PROVE FirstInv'
  BY <1>7, <1>8 DEF ApiPush
<1>9. ASSUME NEW c \in Clients, ApiPostPush(c) PROVE FirstInv'
  <2>1. pc \in Looked => client[c] # task \/ touched
    BY DEF TouchInv
  <2>2. client[c] # task => latest'[task] = latest[task]
    BY <1>9 DEF ApiPostPush, post_push, TypeInv, TypeOK
  <2>3. UNCHANGED <<pc, task, task_db, touched, bytes>>
    BY <1>9 DEF ApiPostPush
  <2> QED
    BY <1>7, <2>1, <2>2, <2>3
<1>10. ASSUME NEW h \in Tasks, Runner(h) \/ BytesStart(h) \/ RunnerDies(h) PROVE FirstInv'
  <2>1. \A g \in Tasks : bytes'[g] = None => bytes[g] = None
    BY <1>10, BoefjeAssumption DEF Runner, ApiPop, PostPop, BytesStart, BytesEnd, PatchTask,
       RunnerDies, TypeInv, TypeOK
  <2>2. \A g \in Tasks : latest[g] = None => latest'[g] = None
    BY <1>10 DEF Runner, ApiPop, PostPop, BytesStart, BytesEnd, PatchTask, RunnerDies, Discharge,
       HandInv, TypeInv, TypeOK
  <2>3. UNCHANGED <<pc, task, task_db, touched>>
    BY <1>10 DEF Runner, ApiPop, PostPop, BytesStart, BytesEnd, PatchTask, RunnerDies
  <2> QED
    BY <1>1, <1>7, <2>1, <2>2, <2>3
<1>11. CASE Tick \/ \E o \in OOIs \cup {None} : Mutate(o)
  BY <1>7, <1>11 DEF Tick, Mutate
<1> QED
  BY <1>2, <1>3, <1>4, <1>5, <1>6, <1>8, <1>9, <1>10, <1>11, JobsAreTasks
     DEF Next, Populator, World

\* Until Bytes has a run of it, a task is not pushed again while its row is on the
\* queue, its item between the queue and its record, or its runner at work:
\* is_task_running reads the record and Bytes at two moments, and only a client's
\* push of the task since the first of them, or an item that a kill left without a
\* record, fools it.
THEOREM FirstRunsAreExclusive == Spec => FirstRunIsExclusive
<1>1. Init => FirstInv
  BY DEF Init, FirstInv, TouchInv, Looked
<1>2. TypeInv /\ HandInv /\ FirstInv /\ [Next]_vars =>
        [Pushes /\ bytes[task] = None /\ ~touched /\ task \notin orphans => ~Processing(task)]_vars
  <2> SUFFICES ASSUME TypeInv, HandInv, FirstInv, pc = "push", bytes[task] = None, ~touched,
                      task \notin orphans
               PROVE  ~Processing(task)
    BY DEF Pushes
  <2>1. task \in Tasks /\ latest[task] = None /\ \A c \in Clients : client[c] # task
    BY DEF FirstInv, TouchInv, Looked, TypeInv, LocalsInv
  <2>2. \A p \in Pushers : Pushing(p) # task
    BY <2>1, PushersPush
  <2>3. ~ \E p \in Pushers : Pushing(p) = task /\ Out(early[p])
    BY <2>2
  <2>4. queue[task] = None
    BY <2>1, <2>2 DEF HandInv
  <2>5. ~Out(duties[task]) /\ ~(older[task] > 0)
    BY <2>1 DEF HandInv, Out
  <2> QED
    BY <2>3, <2>4, <2>5 DEF Processing
<1> QED
  BY <1>1, <1>2, FirstStep, HandInvariance, TypeInvariance, PTL DEF Spec, FirstRunIsExclusive

=============================================================================
