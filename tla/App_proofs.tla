----------------------------- MODULE App_proofs -----------------------------
(* Proofs about App, for every set of organisations and of threads.         *)
EXTENDS App, FiniteSetTheorems, TLAPS

(***************************************************************************)
(* The inductive invariant, in parts.                                       *)
(***************************************************************************)

\* Until main is in its loop there is no monitor, and the dict has no scheduler of
\* an organisation that came after the start; until it runs there are no threads.
StartInv ==
  main \in {"init_boefje", "init_normalizer", "run"} =>
    /\ monitor = "none"
    /\ schedulers \subseteq Kinds \X at_start
    /\ removals = {} /\ additions = {}
    /\ main # "run" => ~stop_event /\ \A t \in Threads : thread[t] = "none"
    /\ main = "init_boefje" => schedulers = {} /\ at_start = {}

\* The scheduler that the monitor adds is in the dict already, the one it removes
\* is still there to be removed and has set the event if it has a thread.
CurrentInv ==
  /\ monitor \in {"create", "start"} => current \in schedulers /\ starting \subseteq ThreadsOf(current)
  /\ monitor = "pop" => current \in removals /\ (ThreadsOf(current) # {} => stop_event)

Running(s) == \A t \in ThreadsOf(s) : thread[t] \in {"check", "target"}

\* Of the scheduler that the monitor starts, each thread that it no longer has to
\* start runs, but for one that it has just created.
StartedInv ==
  monitor \in {"create", "start"} /\ ~stop_event =>
    \A t \in ThreadsOf(current) \ starting :
      thread[t] \in {"check", "target"} \/ (monitor = "start" /\ thread[t] = "created")

\* An organisation to add has no scheduler.
AdditionsInv ==
  monitor \in {"remove", "pop", "add", "create", "start"} =>
    \A o \in additions, k \in Kinds : <<k, o>> \notin schedulers

\* Of an organisation to remove, every scheduler is.
RemovalsInv ==
  monitor \in {"remove", "pop"} =>
    \A s \in removals, k \in Kinds : <<k, s[2]>> \in schedulers => <<k, s[2]>> \in removals

\* While the monitor adds an organisation it knows which half is done.
AddingInv ==
  monitor \in {"create", "start"} =>
    IF current[1] = "normalizer"
      THEN <<"boefje", current[2]>> \notin schedulers
      ELSE /\ <<"normalizer", current[2]>> \in schedulers
           /\ ~stop_event => Running(<<"normalizer", current[2]>>)

Unserved(o) == \A k \in Kinds : <<k, o>> \notin schedulers

Removing(o) ==
  /\ monitor \in {"remove", "pop"}
  /\ \A k \in Kinds : <<k, o>> \in schedulers => <<k, o>> \in removals

Adding(o) == monitor \in {"create", "start"} /\ current[2] = o

\* What the monitor still has to do accounts for every organisation that is
\* served by halves.
HalvesInv ==
  ~stop_event =>
    \A o \in Orgs \ at_start : Unserved(o) \/ Served(o) \/ Removing(o) \/ Adding(o)

AddInv == AdditionsInv /\ RemovalsInv /\ StartedInv /\ AddingInv /\ HalvesInv

\* Every organisation that came after the start was a change.  As long as these
\* are all the changes the monitor finds nothing to remove.
GrowInv ==
  /\ main # "init_boefje" => Cardinality(katalogus \ at_start) <= changes
  /\ Grown =>
       /\ \A s \in schedulers : s[2] \in katalogus
       /\ additions \subseteq katalogus /\ removals = {}
       /\ stop_event => raised

(***************************************************************************)
(* Lemmas about the keys of the dict.                                       *)
(***************************************************************************)

\* A key of the dict of schedulers is a kind and an organisation.
LEMMA Keys ==
  /\ \A s \in Schedulers : s = <<s[1], s[2]>> /\ s[1] \in Kinds /\ s[2] \in Orgs /\ s # <<>>
  /\ \A k \in Kinds, o \in Orgs :
       <<k, o>> \in Schedulers /\ <<k, o>>[1] = k /\ <<k, o>>[2] = o
  /\ "boefje" \in Kinds /\ "normalizer" \in Kinds
  /\ \A k \in Kinds : k = "boefje" \/ k = "normalizer"
  BY DEF Schedulers, Kinds

\* There are finitely many keys.
LEMMA FiniteKeys == \A S \in SUBSET Schedulers : IsFiniteSet(S) /\ Cardinality(S) \in Nat
<1>1. IsFiniteSet(Kinds)
  <2>1. IsFiniteSet({} \cup {"boefje"})
    BY FS_EmptySet, FS_AddElement
  <2>2. IsFiniteSet(({} \cup {"boefje"}) \cup {"normalizer"})
    BY <2>1, FS_AddElement
  <2>3. Kinds = ({} \cup {"boefje"}) \cup {"normalizer"}
    BY DEF Kinds
  <2> QED
    BY <2>2, <2>3
<1>2. IsFiniteSet(Schedulers)
  BY <1>1, AppAssumption, FS_Product DEF Schedulers
<1> QED
  BY <1>2, FS_Subset, FS_CardinalityType

\* The set difference that Grown counts is finite.
LEMMA FiniteNews ==
  ASSUME NEW S \in SUBSET Orgs, NEW T
  PROVE  IsFiniteSet(S \ T) /\ Cardinality(S \ T) \in Nat
<1>1. IsFiniteSet(S \ T)
  BY AppAssumption, FS_Subset, S \ T \subseteq Orgs
<1> QED
  BY <1>1, FS_CardinalityType

(***************************************************************************)
(* Types, and the threads that outlive their scheduler.                     *)
(***************************************************************************)

\* The dict, the threads and the places of main and the monitor keep their types:
\* the base of every other proof here.
LEMMA TypeStep == TypeOK /\ CurrentInv /\ [Next]_vars => TypeOK'
<1> SUFFICES ASSUME TypeOK, CurrentInv, [Next]_vars PROVE TypeOK'
  OBVIOUS
<1> USE DEF TypeOK, CurrentInv, MainSteps, MonitorSteps, mainvars, monitorvars
<1>0. CASE UNCHANGED vars
  BY <1>0 DEF vars
<1>1. CASE InitializeBoefjeSchedulers
  BY <1>1 DEF InitializeBoefjeSchedulers, Initialize, Schedulers, Kinds
<1>2. CASE InitializeNormalizerSchedulers
  BY <1>2 DEF InitializeNormalizerSchedulers, Initialize, Schedulers, Kinds
<1>3. CASE RunMonitor \/ \E t \in Threads : RunThread(t)
  BY <1>3 DEF RunMonitor, RunThread
<1>4. CASE Shutdown
  BY <1>4, FiniteKeys DEF Shutdown
<1>5. ASSUME NEW s \in Schedulers, ShutdownNext(s) PROVE TypeOK'
  BY <1>5 DEF ShutdownNext, KeptThreads, ThreadsOf
<1>6. CASE ShutdownJoined
  BY <1>6 DEF ShutdownJoined
<1>7. CASE ShutdownCrash
  BY <1>7 DEF ShutdownCrash
<1>8. CASE Exit
  BY <1>8 DEF Exit
<1>9. ASSUME NEW t \in Threads, ThreadCheck(t) PROVE TypeOK'
  BY <1>9 DEF ThreadCheck
<1>10. ASSUME NEW t \in Threads, ThreadTarget(t) PROVE TypeOK'
  BY <1>10 DEF ThreadTarget
<1>11. CASE MonitorCheck
  BY <1>11 DEF MonitorCheck
<1>12. CASE MonitorOrgs
  BY <1>12 DEF MonitorOrgs
<1>13. CASE MonitorRaises
  BY <1>13 DEF MonitorRaises
<1>14. ASSUME NEW s \in Schedulers, MonitorStop(s) PROVE TypeOK'
  BY <1>14 DEF MonitorStop
<1>15. CASE MonitorPop
  BY <1>15 DEF MonitorPop
<1>16. CASE MonitorRemoved
  BY <1>16 DEF MonitorRemoved
<1>17. ASSUME NEW o \in Orgs, MonitorAdd(o) PROVE TypeOK'
  BY <1>17, Keys DEF MonitorAdd, ThreadsOf
<1>18. CASE MonitorStart \/ \E t \in Threads : MonitorCreate(t)
  BY <1>18 DEF MonitorStart, MonitorCreate
<1>19. CASE MonitorStarted
  <2>1. current \in Schedulers /\ <<"boefje", current[2]>> \in Schedulers
    BY <1>19, Keys DEF MonitorStarted
  <2> QED
    BY <1>19, <2>1 DEF MonitorStarted, ThreadsOf
<1>20. CASE MonitorAdded
  BY <1>20 DEF MonitorAdded
<1>21. ASSUME NEW o \in Orgs, Change(o) PROVE TypeOK'
  BY <1>21 DEF Change
<1> QED
  BY <1>0, <1>1, <1>2, <1>3, <1>4, <1>5, <1>6, <1>7, <1>8, <1>9, <1>10, <1>11, <1>12, <1>13,
     <1>14, <1>15, <1>16, <1>17, <1>18, <1>19, <1>20, <1>21 DEF Next, Main, Monitor

\* Until main starts the threads, nothing else moves.
LEMMA StartStep == TypeOK /\ StartInv /\ [Next]_vars => StartInv'
<1> SUFFICES ASSUME TypeOK, StartInv, [Next]_vars PROVE StartInv'
  OBVIOUS
<1> USE DEF StartInv, mainvars, monitorvars
<1>0. CASE UNCHANGED vars
  BY <1>0 DEF vars
<1>1. CASE InitializeBoefjeSchedulers
  BY <1>1, Keys DEF InitializeBoefjeSchedulers, Initialize
<1>2. CASE InitializeNormalizerSchedulers
  BY <1>2, Keys DEF InitializeNormalizerSchedulers, Initialize
<1>3. CASE RunMonitor \/ \E t \in Threads : RunThread(t)
  BY <1>3 DEF RunMonitor, RunThread
<1>4. CASE Shutdown
  BY <1>4 DEF Shutdown
<1>5. ASSUME NEW s \in Schedulers, ShutdownNext(s) PROVE StartInv'
  BY <1>5 DEF ShutdownNext
<1>6. CASE ShutdownJoined \/ ShutdownCrash \/ Exit
  BY <1>6 DEF ShutdownJoined, ShutdownCrash, Exit
<1>7. ASSUME NEW t \in Threads, ThreadCheck(t) \/ ThreadTarget(t) PROVE StartInv'
  BY <1>7 DEF ThreadCheck, ThreadTarget
<1>8. CASE MonitorCheck \/ MonitorOrgs \/ MonitorRaises
  BY <1>8 DEF MonitorCheck, MonitorOrgs, MonitorRaises
<1>9. ASSUME NEW s \in Schedulers, MonitorStop(s) PROVE StartInv'
  BY <1>9 DEF MonitorStop
<1>10. CASE MonitorPop \/ MonitorRemoved \/ MonitorAdded
  BY <1>10 DEF MonitorPop, MonitorRemoved, MonitorAdded
<1>11. ASSUME NEW o \in Orgs, MonitorAdd(o) PROVE StartInv'
  BY <1>11 DEF MonitorAdd
<1>12. CASE MonitorStart \/ MonitorStarted \/ \E t \in Threads : MonitorCreate(t)
  BY <1>12 DEF MonitorCreate, MonitorStart, MonitorStarted
<1>13. ASSUME NEW o \in Orgs, Change(o) PROVE StartInv'
  BY <1>13 DEF Change
<1> QED
  BY <1>0, <1>1, <1>2, <1>3, <1>4, <1>5, <1>6, <1>7, <1>8, <1>9, <1>10, <1>11, <1>12, <1>13
     DEF Next, Main, Monitor

\* What the monitor removes or adds is in the dict, and its threads know.
LEMMA CurrentStep == TypeOK /\ StartInv /\ CurrentInv /\ [Next]_vars => CurrentInv'
<1> SUFFICES ASSUME TypeOK, StartInv, CurrentInv, [Next]_vars PROVE CurrentInv'
  OBVIOUS
<1> USE DEF CurrentInv, mainvars, monitorvars
<1>0. CASE UNCHANGED vars
  BY <1>0 DEF vars
<1>1. CASE \/ InitializeBoefjeSchedulers \/ InitializeNormalizerSchedulers
           \/ RunMonitor \/ \E t \in Threads : RunThread(t)
  BY <1>1 DEF InitializeBoefjeSchedulers, InitializeNormalizerSchedulers, Initialize, RunMonitor,
              RunThread
<1>2. CASE Shutdown \/ \E s \in Schedulers : ShutdownNext(s)
  BY <1>2 DEF Shutdown, ShutdownNext
<1>3. CASE ShutdownJoined \/ ShutdownCrash \/ Exit
  BY <1>3 DEF ShutdownJoined, ShutdownCrash, Exit
<1>4. ASSUME NEW t \in Threads, ThreadCheck(t) \/ ThreadTarget(t) PROVE CurrentInv'
  BY <1>4 DEF ThreadCheck, ThreadTarget
<1>5. CASE MonitorCheck \/ MonitorOrgs \/ MonitorRaises
  BY <1>5 DEF MonitorCheck, MonitorOrgs, MonitorRaises
<1>6. ASSUME NEW s \in Schedulers, MonitorStop(s) PROVE CurrentInv'
  BY <1>6 DEF MonitorStop
<1>7. CASE MonitorPop \/ MonitorRemoved \/ MonitorAdded
  BY <1>7 DEF MonitorPop, MonitorRemoved, MonitorAdded
<1>8. ASSUME NEW o \in Orgs, MonitorAdd(o) PROVE CurrentInv'
  BY <1>8 DEF MonitorAdd
<1>9. CASE MonitorStart \/ \E t \in Threads : MonitorCreate(t)
  BY <1>9 DEF MonitorStart, MonitorCreate
<1>10. CASE MonitorStarted
  BY <1>10 DEF MonitorStarted
<1>11. ASSUME NEW o \in Orgs, Change(o) PROVE CurrentInv'
  BY <1>11 DEF Change
<1> QED
  BY <1>0, <1>1, <1>2, <1>3, <1>4, <1>5, <1>6, <1>7, <1>8, <1>9, <1>10, <1>11
     DEF Next, Main, Monitor

\* A thread without a scheduler comes only from a pop after a join, and the join
\* has set the event for good.
LEMMA OrphansStep == TypeOK /\ CurrentInv /\ OrphansEnd /\ [Next]_vars => OrphansEnd'
<1> SUFFICES ASSUME TypeOK, CurrentInv, OrphansEnd, [Next]_vars PROVE OrphansEnd'
  OBVIOUS
<1> USE DEF OrphansEnd, mainvars, monitorvars
<1>0. CASE UNCHANGED vars
  BY <1>0 DEF vars
<1>1. CASE InitializeBoefjeSchedulers \/ InitializeNormalizerSchedulers
  BY <1>1 DEF InitializeBoefjeSchedulers, InitializeNormalizerSchedulers, Initialize
<1>2. CASE RunMonitor \/ \E t \in Threads : RunThread(t)
  BY <1>2 DEF RunMonitor, RunThread, TypeOK
<1>3. CASE Shutdown \/ \E s \in Schedulers : ShutdownNext(s)
  BY <1>3 DEF Shutdown, ShutdownNext
<1>4. CASE ShutdownJoined \/ ShutdownCrash \/ Exit
  BY <1>4 DEF ShutdownJoined, ShutdownCrash, Exit
<1>5. ASSUME NEW t \in Threads, ThreadCheck(t) \/ ThreadTarget(t) PROVE OrphansEnd'
  BY <1>5 DEF ThreadCheck, ThreadTarget, TypeOK
<1>6. CASE MonitorCheck \/ MonitorOrgs \/ MonitorRaises
  BY <1>6 DEF MonitorCheck, MonitorOrgs, MonitorRaises
<1>7. ASSUME NEW s \in Schedulers, MonitorStop(s) PROVE OrphansEnd'
  BY <1>7 DEF MonitorStop
<1>8. CASE MonitorPop
  <2>1. \A t \in Threads : t[1] = current => stop_event
    BY <1>8 DEF MonitorPop, CurrentInv, ThreadsOf
  <2> QED
    BY <1>8, <2>1 DEF MonitorPop
<1>9. CASE MonitorRemoved \/ MonitorAdded
  BY <1>9 DEF MonitorRemoved, MonitorAdded
<1>10. ASSUME NEW o \in Orgs, MonitorAdd(o) PROVE OrphansEnd'
  BY <1>10 DEF MonitorAdd
<1>11. CASE MonitorStarted \/ \E t \in Threads : MonitorCreate(t)
  BY <1>11 DEF MonitorStarted, MonitorCreate, TypeOK
<1>12. CASE MonitorStart
  BY <1>12 DEF MonitorStart, CurrentInv
<1>13. ASSUME NEW o \in Orgs, Change(o) PROVE OrphansEnd'
  BY <1>13 DEF Change
<1> QED
  BY <1>0, <1>1, <1>2, <1>3, <1>4, <1>5, <1>6, <1>7, <1>8, <1>9, <1>10, <1>11, <1>12, <1>13
     DEF Next, Main, Monitor

(***************************************************************************)
(* Organisations that come are served by both schedulers.                   *)
(***************************************************************************)

\* Between two rounds no organisation that came after the start is served by
\* halves, as every step of a round leaves the rest of it to do.
LEMMA AddStep ==
  TypeOK /\ StartInv /\ CurrentInv /\ AddInv /\ [Next]_vars => AddInv'
<1> SUFFICES ASSUME TypeOK, StartInv, CurrentInv, AddInv, [Next]_vars PROVE AddInv'
  OBVIOUS
<1> USE DEF AddInv, AdditionsInv, RemovalsInv, StartedInv, AddingInv, HalvesInv, Unserved, Removing, Adding,
            Served, Running, mainvars, monitorvars
<1>0. CASE UNCHANGED vars
  BY <1>0 DEF vars
<1>1. CASE InitializeBoefjeSchedulers \/ InitializeNormalizerSchedulers
  BY <1>1, Keys DEF InitializeBoefjeSchedulers, InitializeNormalizerSchedulers, Initialize, StartInv
<1>2. CASE RunMonitor \/ \E t \in Threads : RunThread(t)
  BY <1>2, Keys DEF RunMonitor, RunThread, StartInv
<1>3. CASE Shutdown \/ \E s \in Schedulers : ShutdownNext(s)
  BY <1>3 DEF Shutdown, ShutdownNext
<1>4. CASE ShutdownJoined \/ ShutdownCrash \/ Exit
  BY <1>4 DEF ShutdownJoined, ShutdownCrash, Exit
<1>5. ASSUME NEW t \in Threads, ThreadCheck(t) \/ ThreadTarget(t) PROVE AddInv'
  BY <1>5 DEF ThreadCheck, ThreadTarget, TypeOK, ThreadsOf
<1>6. CASE MonitorCheck
  BY <1>6 DEF MonitorCheck
<1>7. CASE MonitorOrgs
  BY <1>7, Keys DEF MonitorOrgs, TypeOK
<1>8. CASE MonitorRaises
  BY <1>8 DEF MonitorRaises
<1>9. ASSUME NEW s \in Schedulers, MonitorStop(s) PROVE AddInv'
  BY <1>9 DEF MonitorStop
<1>10. CASE MonitorPop
  BY <1>10, Keys DEF MonitorPop, CurrentInv, TypeOK
<1>11. CASE MonitorRemoved
  BY <1>11 DEF MonitorRemoved
<1>12. ASSUME NEW o \in Orgs, MonitorAdd(o) PROVE AddInv'
  BY <1>12, Keys DEF MonitorAdd
<1>13. ASSUME NEW t \in Threads, MonitorCreate(t) PROVE AddInv'
  BY <1>13, Keys DEF MonitorCreate, CurrentInv, TypeOK, ThreadsOf
<1>14. CASE MonitorStart
  BY <1>14, Keys DEF MonitorStart, CurrentInv, TypeOK, ThreadsOf
<1>17. CASE MonitorStarted
  BY <1>17, Keys DEF MonitorStarted, CurrentInv, TypeOK, ThreadsOf
<1>15. CASE MonitorAdded
  BY <1>15 DEF MonitorAdded
<1>16. ASSUME NEW o \in Orgs, Change(o) PROVE AddInv'
  BY <1>16 DEF Change
<1> QED
  BY <1>0, <1>1, <1>2, <1>3, <1>4, <1>5, <1>6, <1>7, <1>8, <1>9, <1>10, <1>11, <1>12, <1>13,
     <1>14, <1>15, <1>16, <1>17 DEF Next, Main, Monitor

(***************************************************************************)
(* Organisations that come do not stop the program.                         *)
(***************************************************************************)

\* A change that leaves Katalogus only grown found it only grown, and added one.
LEMMA GrownBefore ==
  ASSUME TypeOK, StartInv, GrowInv, NEW o \in Orgs, Change(o), Grown', main # "init_boefje"
  PROVE  Grown /\ katalogus \subseteq katalogus'
<1>1. /\ IsFiniteSet(katalogus \ at_start) /\ Cardinality(katalogus \ at_start) \in Nat
      /\ changes \in Nat /\ Cardinality(katalogus \ at_start) <= changes
  BY FiniteNews DEF TypeOK, GrowInv
<1>2. at_start' = at_start /\ changes' = changes + 1 /\ changes' = Cardinality(katalogus' \ at_start)
  BY DEF Change, Grown
<1>3. o \notin katalogus
  <2> SUFFICES ASSUME o \in katalogus PROVE FALSE
    OBVIOUS
  <2>1. katalogus' \ at_start \subseteq katalogus \ at_start
    BY DEF Change
  <2>2. Cardinality(katalogus' \ at_start) <= Cardinality(katalogus \ at_start)
    BY <1>1, <2>1, FS_Subset
  <2> QED
    BY <1>1, <1>2, <2>2, FiniteNews DEF TypeOK
<1>4. katalogus' = katalogus \cup {o}
  BY <1>3 DEF Change
<1>5. o \notin at_start
  <2> SUFFICES ASSUME o \in at_start PROVE FALSE
    OBVIOUS
  <2>1. katalogus' \ at_start = katalogus \ at_start
    BY <1>4
  <2> QED
    BY <1>1, <1>2, <2>1
<1>6. katalogus' \ at_start = (katalogus \ at_start) \cup {o} /\ o \notin katalogus \ at_start
  BY <1>3, <1>4, <1>5
<1>7. Cardinality(katalogus' \ at_start) = Cardinality(katalogus \ at_start) + 1
  BY <1>1, <1>6, FS_AddElement
<1>8. at_start \subseteq katalogus
  BY <1>2, <1>4, <1>5 DEF Grown
<1>9. changes = Cardinality(katalogus \ at_start)
  BY <1>1, <1>2, <1>7
<1> QED
  BY <1>4, <1>8, <1>9 DEF Grown

\* While only additions happened the monitor has nothing to join, so that only an
\* exception sets the event.
LEMMA GrowStep ==
  TypeOK /\ StartInv /\ CurrentInv /\ GrowInv /\ [Next]_vars => GrowInv'
<1> SUFFICES ASSUME TypeOK, StartInv, CurrentInv, GrowInv, [Next]_vars PROVE GrowInv'
  OBVIOUS
<1> USE DEF mainvars, monitorvars
<1>1. CASE UNCHANGED vars
  BY <1>1 DEF vars, GrowInv, Grown
<1>2. CASE InitializeBoefjeSchedulers \/ InitializeNormalizerSchedulers
  <2>1. katalogus \ at_start' = {} /\ Cardinality({}) = 0 /\ changes \in Nat
    BY <1>2, FS_EmptySet DEF InitializeBoefjeSchedulers, InitializeNormalizerSchedulers,
       Initialize, TypeOK
  <2>2. /\ UNCHANGED <<katalogus, changes, stop_event, additions, removals>> /\ ~stop_event
        /\ additions = {} /\ removals = {} /\ \A s \in schedulers' : s[2] \in at_start'
    BY <1>2, Keys DEF InitializeBoefjeSchedulers, InitializeNormalizerSchedulers,
       Initialize, StartInv
  <2> QED
    BY <2>1, <2>2 DEF GrowInv, Grown
<1>3. ASSUME NEW o \in Orgs, Change(o), main # "init_boefje" PROVE GrowInv'
  <2>1. Grown' => Grown /\ katalogus \subseteq katalogus'
    BY <1>3, GrownBefore
  <2>2. Cardinality(katalogus' \ at_start) <= changes + 1
    <3>1. /\ IsFiniteSet(katalogus \ at_start) /\ Cardinality(katalogus \ at_start) \in Nat
          /\ changes \in Nat /\ Cardinality(katalogus \ at_start) <= changes
      BY <1>3, FiniteNews DEF TypeOK, GrowInv
    <3>2. katalogus' \ at_start \subseteq (katalogus \ at_start) \cup {o}
      BY <1>3 DEF Change
    <3>3. /\ IsFiniteSet((katalogus \ at_start) \cup {o})
          /\ Cardinality((katalogus \ at_start) \cup {o}) <= Cardinality(katalogus \ at_start) + 1
      BY <3>1, FS_AddElement
    <3>4. Cardinality(katalogus' \ at_start) <= Cardinality((katalogus \ at_start) \cup {o})
      BY <3>2, <3>3, FS_Subset
    <3>5. /\ Cardinality(katalogus' \ at_start) \in Nat
          /\ Cardinality((katalogus \ at_start) \cup {o}) \in Nat
      BY <3>2, <3>3, FS_Subset, FS_CardinalityType
    <3> QED
      BY <3>1, <3>3, <3>4, <3>5
  <2> QED
    BY <1>3, <2>1, <2>2 DEF Change, GrowInv
<1>4. ASSUME NEW o \in Orgs, Change(o), main = "init_boefje" PROVE GrowInv'
  BY <1>4 DEF Change, GrowInv, StartInv
<1>5. CASE \/ RunMonitor \/ (\E t \in Threads : RunThread(t)) \/ Shutdown
           \/ ShutdownJoined \/ ShutdownCrash \/ Exit \/ \E s \in Schedulers : ShutdownNext(s)
  <2>1. UNCHANGED <<katalogus, at_start, changes, schedulers, additions, removals, stop_event, raised>>
    BY <1>5 DEF RunMonitor, RunThread, Shutdown, ShutdownJoined, ShutdownCrash, Exit, ShutdownNext
  <2>2. main' # "init_boefje" => main # "init_boefje"
    BY <1>5 DEF RunMonitor, RunThread, Shutdown, ShutdownJoined, ShutdownCrash, Exit, ShutdownNext
  <2> QED
    BY <2>1, <2>2 DEF GrowInv, Grown
<1>6. ASSUME NEW t \in Threads, ThreadCheck(t) \/ ThreadTarget(t) PROVE GrowInv'
  BY <1>6 DEF ThreadCheck, ThreadTarget, GrowInv, Grown
<1>7. CASE MonitorCheck \/ MonitorOrgs \/ MonitorRaises
  BY <1>7 DEF MonitorCheck, MonitorOrgs, MonitorRaises, GrowInv, Grown
<1>8. ASSUME NEW s \in Schedulers, MonitorStop(s) PROVE GrowInv'
  BY <1>8 DEF MonitorStop, GrowInv, Grown
<1>9. CASE MonitorPop
  BY <1>9 DEF MonitorPop, CurrentInv, GrowInv, Grown
<1>10. CASE \/ MonitorRemoved \/ MonitorAdded \/ MonitorStart
            \/ \E t \in Threads : MonitorCreate(t)
  <2>1. UNCHANGED <<katalogus, at_start, changes, schedulers, additions, removals, stop_event, raised, main>>
    BY <1>10 DEF MonitorRemoved, MonitorAdded, MonitorStart, MonitorCreate
  <2> QED
    BY <2>1 DEF GrowInv, Grown
<1>11. ASSUME NEW o \in Orgs, MonitorAdd(o) PROVE GrowInv'
  BY <1>11, Keys DEF MonitorAdd, GrowInv, Grown
<1>12. CASE MonitorStarted
  BY <1>12, Keys DEF MonitorStarted, CurrentInv, TypeOK, GrowInv, Grown
<1> QED
  BY <1>1, <1>2, <1>3, <1>4, <1>5, <1>6, <1>7, <1>8, <1>9, <1>10, <1>11, <1>12
     DEF Next, Main, Monitor

(***************************************************************************)
(* The theorems.                                                            *)
(***************************************************************************)

IInv == TypeOK /\ StartInv /\ CurrentInv /\ OrphansEnd /\ AddInv /\ GrowInv

\* The inductive invariant holds of every behaviour of the application.
LEMMA Invariance == Spec => []IInv
<1>1. Init => IInv
  <2> SUFFICES ASSUME Init PROVE IInv
    OBVIOUS
  <2>1. TypeOK
    BY DEF Init, TypeOK, MainSteps, MonitorSteps
  <2>2. StartInv /\ CurrentInv /\ OrphansEnd
    BY DEF Init, StartInv, CurrentInv, OrphansEnd
  <2>3. AddInv
    BY DEF Init, AddInv, AdditionsInv, RemovalsInv, AddingInv, StartedInv, HalvesInv, Unserved
  <2>4. GrowInv
    BY DEF Init, GrowInv
  <2> QED
    BY <2>1, <2>2, <2>3, <2>4 DEF IInv
<1>2. IInv /\ [Next]_vars => IInv'
  BY TypeStep, StartStep, CurrentStep, OrphansStep, AddStep, GrowStep DEF IInv
<1> QED
  BY <1>1, <1>2, PTL DEF Spec

\* The dict, the threads and the places of main and the monitor keep their types,
\* for every set of organisations and every set of threads.
THEOREM TypeCorrect == Spec => []TypeOK
<1>1. IInv => TypeOK
  BY DEF IInv
<1> QED
  BY <1>1, Invariance, PTL

\* A thread whose scheduler left the dict looks at a set event when its round is
\* over: App.remove_scheduler and monitor_organisations leave no thread that
\* populates for an organisation that is gone.
THEOREM OrphansAreTold == Spec => []OrphansEnd
<1>1. IInv => OrphansEnd
  BY DEF IInv
<1> QED
  BY <1>1, Invariance, PTL

\* An organisation that monitor_organisations found gets both schedulers, with
\* all their threads, before the next round: wherever Katalogus changes and other
\* threads move between the steps.
THEOREM AdditionsAreWhole == Spec => []AddedCompletely
<1>1. IInv => AddedCompletely
  BY DEF IInv, AddInv, HalvesInv, AddedCompletely, Unserved, Removing, Adding
<1> QED
  BY <1>1, Invariance, PTL

\* However many organisations come, the program keeps running: the stop event is
\* set by an exception or after an organisation went.
THEOREM ComingIsHarmless == Spec => []AdditionsDoNotStop
<1>1. IInv => AdditionsDoNotStop
  BY DEF IInv, GrowInv, AdditionsDoNotStop
<1> QED
  BY <1>1, Invariance, PTL

=============================================================================
