-------------------------------- MODULE App --------------------------------
(***************************************************************************)
(* The application, app.py: its schedulers in one dict, the threads that    *)
(* run them (utils/thread.py) and the monitor that follows the              *)
(* organisations of Katalogus.                                              *)
(*                                                                          *)
(* Main starts everything, then waits for the stop event and shuts down.    *)
(* All threads of all schedulers share that one event.  While main iterates *)
(* over the dict of schedulers, or over the threads of one of them, the     *)
(* monitor may still change it, which Python answers with a RuntimeError in *)
(* main.                                                                    *)
(***************************************************************************)
EXTENDS Integers, FiniteSets

CONSTANTS
  Orgs,         \* organisations that Katalogus may know
  threads_of,   \* of a kind of scheduler: the names of the threads it runs
  ServicesFail, \* whether Katalogus and the work of a thread can fail
  MaxChanges    \* bound: organisations added to or removed from Katalogus

Kinds == {"boefje", "normalizer"}

Schedulers == Kinds \X Orgs

\* Per organisation a boefje and a normalizer scheduler, each with its threads.
Threads == {t \in Schedulers \X UNION {threads_of[k] : k \in Kinds} :
              t[2] \in threads_of[t[1][1]]}

ThreadsOf(s) == {t \in Threads : t[1] = s}

ASSUME AppAssumption ==
  /\ IsFiniteSet(Orgs)
  /\ \A k \in Kinds : IsFiniteSet(threads_of[k])
  /\ ServicesFail \in BOOLEAN /\ MaxChanges \in Nat

VARIABLES
  katalogus,   \* organisations in Katalogus
  stop_event,  \* the event every ThreadRunner looks at
  schedulers,  \* keys of the dict App.schedulers
  thread,      \* ThreadRunner: "none", "created", "check", "target" or "ended"
  main,        \* where the main thread is
  size, seen,  \* its iterator over the dict: the size it began with, the keys it had
  stopping, joins,  \* the scheduler it stops, and the threads that one had then
  monitor,     \* where monitor_organisations is
  removals, additions,  \* what it still has to remove and add
  current,     \* the scheduler it is removing or adding
  starting,    \* the threads it still has to start for that one
  at_start,    \* history: organisations that main saw while it initialised
  raised,      \* history: the target of some thread raised an exception
  changes      \* history: changes of Katalogus

mainvars == <<main, size, seen, stopping, joins>>
monitorvars == <<monitor, removals, additions, current, starting>>
vars == <<katalogus, stop_event, schedulers, thread, mainvars, monitorvars,
          at_start, raised, changes>>

MainSteps == {"init_boefje", "init_normalizer", "run", "loop", "next", "join", "exited", "crashed"}
MonitorSteps == {"none", "check", "orgs", "remove", "pop", "add", "create", "start", "ended"}

Init ==
  /\ katalogus \in SUBSET Orgs
  /\ stop_event = FALSE
  /\ schedulers = {}
  /\ thread = [t \in Threads |-> "none"]
  /\ main = "init_boefje" /\ size = 0 /\ seen = {} /\ stopping = <<>> /\ joins = {}
  /\ monitor = "none" /\ removals = {} /\ additions = {} /\ current = <<>> /\ starting = {}
  /\ at_start = {} /\ raised = FALSE /\ changes = 0

----------------------------------------------------------------------------
(* The main thread: App.__init__, run and shutdown.                         *)

\* Each kind of scheduler is created for what a request of its own returns.
Initialize(k, here, next) ==
  /\ main = here
  /\ schedulers' = schedulers \cup ({k} \X katalogus)
  /\ at_start' = at_start \cup katalogus
  /\ main' = next
  /\ UNCHANGED <<katalogus, stop_event, thread, size, seen, stopping, joins, monitorvars,
                 raised, changes>>

InitializeBoefjeSchedulers == Initialize("boefje", "init_boefje", "init_normalizer")
InitializeNormalizerSchedulers == Initialize("normalizer", "init_normalizer", "run")

\* Starts the threads of all schedulers, one after another, and then the monitor.
RunThread(t) ==
  /\ main = "run" /\ t[1] \in schedulers /\ thread[t] = "none"
  /\ thread' = [thread EXCEPT ![t] = "check"]
  /\ UNCHANGED <<katalogus, stop_event, schedulers, mainvars, monitorvars, at_start, raised, changes>>

RunMonitor ==
  /\ main = "run"
  /\ \A t \in Threads : t[1] \in schedulers => thread[t] # "none"
  /\ monitor' = "check"
  /\ main' = "loop"
  /\ UNCHANGED <<katalogus, stop_event, schedulers, thread, size, seen, stopping, joins,
                 removals, additions, current, starting, at_start, raised, changes>>

Shutdown ==
  /\ main = "loop" /\ stop_event
  /\ main' = "next" /\ size' = Cardinality(schedulers) /\ seen' = {}
  /\ UNCHANGED <<katalogus, stop_event, schedulers, thread, stopping, joins, monitorvars,
                 at_start, raised, changes>>

\* The threads in the dict of s: run_in_thread adds them one by one.
KeptThreads(s) == ThreadsOf(s) \ starting

\* The next scheduler of the dict, and an iterator over its threads.
ShutdownNext(s) ==
  /\ main = "next" /\ Cardinality(schedulers) = size
  /\ s \in schedulers \ seen
  /\ seen' = seen \cup {s}
  /\ stopping' = s /\ joins' = KeptThreads(s)
  /\ main' = "join"
  /\ UNCHANGED <<katalogus, stop_event, schedulers, thread, size, monitorvars, at_start, raised, changes>>

\* The iteration still sees the threads it began with, and each was started.
Joinable ==
  KeptThreads(stopping) = joins /\ \A t \in joins : thread[t] # "created"

\* Mutation of ShutdownJoined: join without a timeout.
ShutdownJoinedPatient ==
  /\ main = "join" /\ Joinable
  /\ \A t \in joins : thread[t] = "ended"
  /\ main' = "next" /\ stopping' = <<>> /\ joins' = {}
  /\ UNCHANGED <<katalogus, stop_event, schedulers, thread, size, seen, monitorvars, at_start, raised, changes>>

\* The threads of the scheduler ended, or the five seconds of each join did.
ShutdownJoined ==
  /\ main = "join" /\ Joinable
  /\ main' = "next" /\ stopping' = <<>> /\ joins' = {}
  /\ UNCHANGED <<katalogus, stop_event, schedulers, thread, size, seen, monitorvars, at_start, raised, changes>>

\* "dictionary changed size during iteration", of the schedulers or of the threads of
\* one.  Joining a thread that is created and not yet started is a RuntimeError too.
ShutdownCrash ==
  /\ \/ main = "next" /\ Cardinality(schedulers) # size
     \/ main = "join" /\ ~Joinable
  /\ main' = "crashed"
  /\ UNCHANGED <<katalogus, stop_event, schedulers, thread, size, seen, stopping, joins,
                 monitorvars, at_start, raised, changes>>

\* After the joins of the server and the monitor: os._exit.
Exit ==
  /\ main = "next" /\ Cardinality(schedulers) = size /\ schedulers \subseteq seen
  /\ main' = "exited"
  /\ UNCHANGED <<katalogus, stop_event, schedulers, thread, size, seen, stopping, joins,
                 monitorvars, at_start, raised, changes>>

Main ==
  \/ InitializeBoefjeSchedulers \/ InitializeNormalizerSchedulers
  \/ (\E t \in Threads : RunThread(t)) \/ RunMonitor
  \/ Shutdown \/ (\E s \in Schedulers : ShutdownNext(s)) \/ ShutdownJoined
  \/ ShutdownCrash \/ Exit

Alive == main # "exited"

----------------------------------------------------------------------------
(* ThreadRunner.run: the populators and the reader of normalizer results.    *)

ThreadCheck(t) ==
  /\ Alive /\ thread[t] = "check"
  /\ thread' = [thread EXCEPT ![t] = IF stop_event THEN "ended" ELSE "target"]
  /\ UNCHANGED <<katalogus, stop_event, schedulers, mainvars, monitorvars, at_start, raised, changes>>

\* The target returns, or raises: then the runner sets the stop event.
ThreadTarget(t) ==
  /\ Alive /\ thread[t] = "target"
  /\ thread' = [thread EXCEPT ![t] = "check"]
  /\ \/ UNCHANGED <<stop_event, raised>>
     \/ ServicesFail /\ stop_event' = TRUE /\ raised' = TRUE
  /\ UNCHANGED <<katalogus, schedulers, mainvars, monitorvars, at_start, changes>>

----------------------------------------------------------------------------
(* monitor_organisations, in a ThreadRunner of its own.                     *)

MonitorCheck ==
  /\ Alive /\ monitor = "check"
  /\ monitor' = IF stop_event THEN "ended" ELSE "orgs"
  /\ UNCHANGED <<katalogus, stop_event, schedulers, thread, mainvars, removals, additions,
                 current, starting, at_start, raised, changes>>

\* Mutation of MonitorOrgs: ids of organisations where ids of schedulers belong.
MonitorOrgsIds ==
  /\ Alive /\ monitor = "orgs"
  /\ removals' = {s[2] : s \in {r \in schedulers : r[2] \notin katalogus}}
  /\ additions' = {o \in katalogus : \A k \in Kinds : <<k, o>> \notin schedulers}
  /\ monitor' = "remove"
  /\ UNCHANGED <<katalogus, stop_event, schedulers, thread, mainvars, current, starting,
                 at_start, raised, changes>>

\* Mutation of MonitorOrgs: the difference is taken the wrong way round.
MonitorOrgsSwapped ==
  /\ Alive /\ monitor = "orgs"
  /\ removals' = {s \in schedulers : s[2] \in katalogus}
  /\ additions' = {o \in katalogus : \A k \in Kinds : <<k, o>> \notin schedulers}
  /\ monitor' = "remove"
  /\ UNCHANGED <<katalogus, stop_event, schedulers, thread, mainvars, current, starting,
                 at_start, raised, changes>>

MonitorOrgs ==
  /\ Alive /\ monitor = "orgs"
  /\ removals' = {s \in schedulers : s[2] \notin katalogus}
  /\ additions' = {o \in katalogus : \A k \in Kinds : <<k, o>> \notin schedulers}
  /\ monitor' = "remove"
  /\ UNCHANGED <<katalogus, stop_event, schedulers, thread, mainvars, current, starting,
                 at_start, raised, changes>>

\* Katalogus cannot be reached, by get_organisations or by get_organisation.
MonitorRaises ==
  /\ Alive /\ ServicesFail
  /\ monitor = "orgs" \/ (monitor = "add" /\ additions # {})
  /\ monitor' = "check" /\ additions' = {}
  /\ stop_event' = TRUE /\ raised' = TRUE
  /\ UNCHANGED <<katalogus, schedulers, thread, mainvars, removals, current, starting,
                 at_start, changes>>

\* Mutation of MonitorStop: join does not set the event.
MonitorStopQuiet(s) ==
  /\ Alive /\ monitor = "remove" /\ s \in removals
  /\ current' = s /\ monitor' = "pop"
  /\ UNCHANGED <<katalogus, stop_event, schedulers, thread, mainvars, removals, additions, starting,
                 at_start, raised, changes>>

\* Scheduler.stop joins the threads, and ThreadRunner.join sets the stop event.
MonitorStop(s) ==
  /\ Alive /\ monitor = "remove" /\ s \in removals
  /\ stop_event' = (stop_event \/ ThreadsOf(s) # {})
  /\ current' = s /\ monitor' = "pop"
  /\ UNCHANGED <<katalogus, schedulers, thread, mainvars, removals, additions, starting,
                 at_start, raised, changes>>

MonitorPop ==
  /\ Alive /\ monitor = "pop"
  /\ schedulers' = schedulers \ {current}
  /\ removals' = removals \ {current}
  /\ current' = <<>> /\ monitor' = "remove"
  /\ UNCHANGED <<katalogus, stop_event, thread, mainvars, additions, starting, at_start, raised, changes>>

MonitorRemoved ==
  /\ Alive /\ monitor = "remove" /\ removals = {}
  /\ monitor' = "add"
  /\ UNCHANGED <<katalogus, stop_event, schedulers, thread, mainvars, removals, additions,
                 current, starting, at_start, raised, changes>>

\* The normalizer scheduler of an organisation comes first, then its boefje one.
MonitorAdd(o) ==
  /\ Alive /\ monitor = "add" /\ o \in additions
  /\ additions' = additions \ {o}
  /\ current' = <<"normalizer", o>>
  /\ schedulers' = schedulers \cup {current'}
  /\ starting' = ThreadsOf(current')
  /\ monitor' = "create"
  /\ UNCHANGED <<katalogus, stop_event, thread, mainvars, removals, at_start, raised, changes>>

\* Scheduler.run: run_in_thread keeps a thread in the dict, then starts it.
MonitorCreate(t) ==
  /\ Alive /\ monitor = "create" /\ t \in starting
  /\ starting' = starting \ {t}
  /\ thread' = [thread EXCEPT ![t] = "created"]
  /\ monitor' = "start"
  /\ UNCHANGED <<katalogus, stop_event, schedulers, mainvars, removals, additions, current,
                 at_start, raised, changes>>

\* Mutation of MonitorStart: the thread is kept, not started.
MonitorStartNone ==
  /\ Alive /\ monitor = "start"
  /\ monitor' = "create"
  /\ UNCHANGED <<katalogus, stop_event, schedulers, thread, mainvars, removals, additions,
                 current, starting, at_start, raised, changes>>

MonitorStart ==
  /\ Alive /\ monitor = "start"
  /\ thread' = [t \in Threads |->
       IF t[1] = current /\ thread[t] = "created" THEN "check" ELSE thread[t]]
  /\ monitor' = "create"
  /\ UNCHANGED <<katalogus, stop_event, schedulers, mainvars, removals, additions, current,
                 starting, at_start, raised, changes>>

\* Mutation of MonitorStarted: the boefje scheduler is forgotten.
MonitorStartedOne ==
  /\ Alive /\ monitor = "create" /\ starting = {}
  /\ current' = <<>> /\ monitor' = "add"
  /\ UNCHANGED <<katalogus, stop_event, schedulers, thread, mainvars, removals, additions,
                 starting, at_start, raised, changes>>

MonitorStarted ==
  /\ Alive /\ monitor = "create" /\ starting = {}
  /\ IF current[1] = "normalizer"
       THEN /\ current' = <<"boefje", current[2]>>
            /\ schedulers' = schedulers \cup {current'}
            /\ starting' = ThreadsOf(current')
            /\ UNCHANGED monitor
       ELSE current' = <<>> /\ monitor' = "add" /\ UNCHANGED <<schedulers, starting>>
  /\ UNCHANGED <<katalogus, stop_event, thread, mainvars, removals, additions, at_start, raised, changes>>

MonitorAdded ==
  /\ Alive /\ monitor = "add" /\ additions = {}
  /\ monitor' = "check"
  /\ UNCHANGED <<katalogus, stop_event, schedulers, thread, mainvars, removals, additions,
                 current, starting, at_start, raised, changes>>

Monitor ==
  \/ MonitorCheck \/ MonitorOrgs \/ MonitorRaises
  \/ (\E s \in Schedulers : MonitorStop(s)) \/ MonitorPop \/ MonitorRemoved
  \/ (\E o \in Orgs : MonitorAdd(o)) \/ (\E t \in Threads : MonitorCreate(t))
  \/ MonitorStart \/ MonitorStarted \/ MonitorAdded

\* Somebody adds an organisation in Katalogus, or removes one.
Change(o) ==
  /\ changes < MaxChanges
  /\ katalogus' = IF o \in katalogus THEN katalogus \ {o} ELSE katalogus \cup {o}
  /\ changes' = changes + 1
  /\ UNCHANGED <<stop_event, schedulers, thread, mainvars, monitorvars, at_start, raised>>

Next ==
  \/ Main \/ Monitor
  \/ \E t \in Threads : ThreadCheck(t) \/ ThreadTarget(t)
  \/ \E o \in Orgs : Change(o)

Spec == Init /\ [][Next]_vars

\* The operating system schedules every thread, and requests to Katalogus end.
FairSpec ==
  /\ Spec /\ WF_vars(Main) /\ WF_vars(Monitor)
  /\ \A t \in Threads : WF_vars(ThreadCheck(t))

----------------------------------------------------------------------------
(* What the application promises.                                           *)

TypeOK ==
  /\ katalogus \subseteq Orgs /\ at_start \subseteq Orgs /\ additions \subseteq Orgs
  /\ {stop_event, raised} \subseteq BOOLEAN
  /\ schedulers \subseteq Schedulers /\ seen \subseteq Schedulers /\ removals \subseteq Schedulers
  /\ thread \in [Threads -> {"none", "created", "check", "target", "ended"}]
  /\ main \in MainSteps /\ monitor \in MonitorSteps
  /\ size \in Nat /\ changes \in Nat
  /\ {current, stopping} \subseteq Schedulers \cup {<<>>}
  /\ starting \subseteq Threads /\ joins \subseteq Threads

Served(o) ==
  \A k \in Kinds : /\ <<k, o>> \in schedulers
                   /\ \A t \in ThreadsOf(<<k, o>>) : thread[t] \in {"check", "target"}

\* A thread of a scheduler that is no longer in the dict ends with the round it
\* is in, though the join of monitor_organisations gave up on it after 5 seconds.
OrphansEnd ==
  \A t \in Threads :
    thread[t] \in {"check", "target"} /\ t[1] \notin schedulers => stop_event

\* Between two rounds of the monitor, and unless the program is to stop, an
\* organisation that came after the start has both of its schedulers or none,
\* with all their threads running.
AddedCompletely ==
  monitor = "check" /\ ~stop_event =>
    \A o \in Orgs \ at_start :
      (\E k \in Kinds : <<k, o>> \in schedulers) => Served(o)

\* An organisation that came after the start is served, unless it goes away
\* again or the program stops, however the changes of Katalogus fall between the
\* requests and the dict updates of monitor_organisations.
NewOrganisationsAreServed ==
  \A o \in Orgs :
    main = "loop" /\ o \in katalogus \ at_start ~> Served(o) \/ o \notin katalogus \/ stop_event

\* All that changed in Katalogus since the start are organisations that came.
Grown == at_start \subseteq katalogus /\ changes = Cardinality(katalogus \ at_start)

\* The scheduler of a removed organisation takes the whole program with it, as its
\* join sets the event that all threads share.  New organisations do not: until
\* one goes, only an exception stops the program.
AdditionsDoNotStop == stop_event /\ Grown => raised

\* Once the stop event is set the process exits, whatever its threads do: "We're
\* calling this here, because we want to issue a shutdown from within a thread,
\* otherwise it will not exit a docker container" (App.shutdown).  It is so while
\* Katalogus leaves the organisations alone; if it does not, the monitor may
\* change the dict that main iterates over, and main dies (ShutdownCrash).
StopEnds == stop_event ~> main = "exited" \/ changes > 0

=============================================================================
