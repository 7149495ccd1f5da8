--------------------------- MODULE KatalogusCache ---------------------------
(***************************************************************************)
(* The cache of normalizers by organisation and mime type that the client   *)
(* of Katalogus keeps (connectors/services/katalogus.py); the one of boefjes *)
(* by object type is filled and read by the same steps.  It is an           *)
(* ExpiringDict (utils/dict_utils.py): every access holds its lock, and the *)
(* access that finds it expired empties it, starts a new lifetime and       *)
(* raises ExpiredError.  The lookup that gets the error fills it again, by  *)
(* a request for the organisations and one for the plugins of each, while   *)
(* the populators of all other organisations go on reading.                 *)
(*                                                                          *)
(* One type stands for all: what a lookup answers is the list of an         *)
(* organisation, and a lookup that finds a valid cache changes nothing.     *)
(***************************************************************************)
EXTENDS Integers, FiniteSets

CONSTANTS
  Orgs, Plugins,
  Threads,       \* the populators; they share one client
  Main,          \* the thread that constructs the client
  Lifetime,      \* lifetime of the cache, in ticks
  None,          \* an organisation that is not in the cache
  MaxChanges     \* bound: changes of what Katalogus has

ASSUME CacheAssumption ==
  /\ IsFiniteSet(Orgs) /\ IsFiniteSet(Plugins) /\ IsFiniteSet(Threads)
  /\ Main \notin Threads
  /\ Lifetime \in Nat /\ MaxChanges \in Nat
  /\ None \notin [Plugins -> Nat] /\ None \notin Orgs

Clients == Threads \cup {Main}

VARIABLES
  catalogue,  \* Katalogus: the plugins of the type that an organisation has
  cache,      \* of an organisation: None, or how often its list has a plugin
  age,        \* ticks since the lifetime began; more than Lifetime is expired
  pc,         \* where each thread is
  orgs,       \* organisations whose list a flush still has to make
  org,        \* the organisation whose list it makes
  plugins,    \* the plugins it still has to append
  detached,   \* threads that hold a dict that is no longer in the cache
  started,    \* the constructor is done
  fate,       \* "running", or the exception that stopped the program
  shown, torn, outlasted, changes  \* history: what Katalogus listed since the
              \* lifetime began; whether the last flush failed or met another
              \* one; whether it outlasted the lifetime; changes so far

flushes == <<pc, orgs, org, plugins, detached>>
history == <<shown, torn, outlasted, changes>>
vars == <<catalogue, cache, age, flushes, started, fate, history>>

Expired == age > Lifetime

\* The list of the plugins in S.
Listing(S) == [p \in Plugins |-> IF p \in S THEN 1 ELSE 0]

FlushSteps == {"organisations", "clear", "request", "append", "hold"}

Flushing == {t \in Clients : pc[t] \in FlushSteps}

\* ExpiringDict.__init__ takes its start from the import of the module, before
\* HTTPService waits for the host to be healthy.
Init ==
  /\ catalogue \in [Orgs -> {Plugins}]
  /\ cache = [o \in Orgs |-> None]
  /\ age \in 0..Lifetime + 1
  /\ pc = [t \in Clients |-> IF t = Main THEN "organisations" ELSE "idle"]
  /\ orgs = [t \in Clients |-> {}]
  /\ org = [t \in Clients |-> None]
  /\ plugins = [t \in Clients |-> {}] /\ detached = {}
  /\ started = FALSE /\ fate = "running"
  /\ shown = [o \in Orgs |-> {catalogue[o]}]
  /\ torn = FALSE /\ outlasted = Expired /\ changes = 0

Running == fate = "running"

Goto(t, l) == pc' = [pc EXCEPT ![t] = l]

\* Between an access to the cache and the append to what it returned.
Holding == {t \in Clients : pc[t] = "hold"}

\* An access finds the cache expired: the dicts in it are dropped.
Expire ==
  /\ cache' = [o \in Orgs |-> None] /\ detached' = Holding
  /\ age' = 0
  /\ shown' = [o \in Orgs |-> {catalogue[o]}]

\* What leaves a lookup stops the program, and a new one starts from Init; of the
\* requests that fail the callers handle some (RequestFails).
Die(error) == fate' = error

----------------------------------------------------------------------------
(* A lookup that finds the cache expired; other lookups only read.           *)

\* Mutation of Lookup: a new lifetime begins when the flush is done.
LookupUnrenewed(t) ==
  /\ Running /\ started /\ t \in Threads /\ pc[t] = "idle"
  /\ Expired
  /\ cache' = [o \in Orgs |-> None] /\ shown' = [o \in Orgs |-> {catalogue[o]}]
  /\ detached' = Holding /\ Goto(t, "organisations")
  /\ torn' = (Flushing # {})
  /\ outlasted' = (Flushing # {} /\ outlasted)
  /\ UNCHANGED <<catalogue, age, orgs, org, plugins, started, fate, changes>>

\* Mutation of Lookup: the expired entries stay until they are overwritten.
LookupUnflushed(t) ==
  /\ Running /\ started /\ t \in Threads /\ pc[t] = "idle"
  /\ Expired
  /\ age' = 0 /\ shown' = [o \in Orgs |-> {catalogue[o]}]
  /\ torn' = FALSE /\ outlasted' = FALSE
  /\ UNCHANGED <<catalogue, cache, flushes, started, fate, changes>>

Lookup(t) ==
  /\ Running /\ started /\ t \in Threads /\ pc[t] = "idle"
  /\ Expired
  /\ Expire
  /\ Goto(t, "organisations")
  /\ torn' = (Flushing # {})
  /\ outlasted' = (Flushing # {} /\ outlasted)
  /\ UNCHANGED <<catalogue, orgs, org, plugins, started, fate, changes>>

\* Mutation of GetOrganisations: only the list that was asked for is made again.
GetOrganisation(t) ==
  /\ Running /\ pc[t] = "organisations"
  /\ \E o \in Orgs : orgs' = [orgs EXCEPT ![t] = {o}]
  /\ Goto(t, "clear")
  /\ UNCHANGED <<catalogue, cache, age, org, plugins, detached, started, fate, history>>

GetOrganisations(t) ==
  /\ Running /\ pc[t] = "organisations"
  /\ orgs' = [orgs EXCEPT ![t] = Orgs]
  /\ Goto(t, "clear")
  /\ UNCHANGED <<catalogue, cache, age, org, plugins, detached, started, fate, history>>

\* The next organisation gets an empty dict; the answer has them in any order.
ClearOrganisation(t, o) ==
  /\ Running /\ pc[t] = "clear" /\ o \in orgs[t]
  /\ cache' = [cache EXCEPT ![o] = Listing({})]
  /\ orgs' = [orgs EXCEPT ![t] = @ \ {o}]
  /\ org' = [org EXCEPT ![t] = o]
  /\ detached' = detached \cup {s \in Holding : org[s] = o}
  /\ Goto(t, "request")
  /\ UNCHANGED <<catalogue, age, plugins, started, fate, history>>

GetPlugins(t) ==
  /\ Running /\ pc[t] = "request"
  /\ plugins' = [plugins EXCEPT ![t] = catalogue[org[t]]]
  /\ Goto(t, "append")
  /\ UNCHANGED <<catalogue, cache, age, orgs, org, detached, started, fate, history>>

\* cache[org.id].setdefault(type_, []).append(plugin): the access to the cache is
\* one like any other, it may find it expired, or without the organisation.
GetItem(t) ==
  /\ Running /\ pc[t] = "append" /\ plugins[t] # {}
  /\ IF Expired THEN Expire /\ Die("ExpiredError") /\ UNCHANGED pc
     ELSE /\ IF cache[org[t]] = None THEN Die("KeyError") /\ UNCHANGED pc
                                    ELSE Goto(t, "hold") /\ UNCHANGED fate
          /\ UNCHANGED <<cache, age, shown, detached>>
  /\ UNCHANGED <<catalogue, orgs, org, plugins, started, torn, outlasted, changes>>

\* Mutation of AppendPlugin: the plugin is appended again and again.
AppendPluginAgain(t, p) ==
  /\ Running /\ pc[t] = "hold" /\ p \in plugins[t]
  /\ Goto(t, "append") /\ detached' = detached \ {t}
  /\ t \notin detached /\ cache' = [cache EXCEPT ![org[t]][p] = @ + 1]
  /\ UNCHANGED <<catalogue, age, orgs, org, plugins, started, fate, history>>

\* The append holds no lock; to a dict that left the cache it adds what nobody
\* will read.
AppendPlugin(t, p) ==
  /\ Running /\ pc[t] = "hold" /\ p \in plugins[t]
  /\ IF t \in detached THEN UNCHANGED cache
                       ELSE cache' = [cache EXCEPT ![org[t]][p] = @ + 1]
  /\ plugins' = [plugins EXCEPT ![t] = @ \ {p}]
  /\ Goto(t, "append") /\ detached' = detached \ {t}
  /\ UNCHANGED <<catalogue, age, orgs, org, started, fate, history>>

OrganisationDone(t) ==
  /\ Running /\ pc[t] = "append" /\ plugins[t] = {}
  /\ Goto(t, "clear")
  /\ org' = [org EXCEPT ![t] = None]
  /\ UNCHANGED <<catalogue, cache, age, orgs, plugins, detached, started, fate, history>>

FlushDone(t) ==
  /\ Running /\ pc[t] = "clear" /\ orgs[t] = {}
  /\ Goto(t, IF t = Main THEN "idle" ELSE "again")
  /\ started' = (started \/ t = Main)
  /\ UNCHANGED <<catalogue, cache, age, orgs, org, plugins, detached, fate, history>>

\* The second access of the lookup.
Again(t) ==
  /\ Running /\ pc[t] = "again"
  /\ Goto(t, "idle")
  /\ IF Expired THEN Expire /\ Die("ExpiredError")
                ELSE UNCHANGED <<cache, age, shown, detached, fate>>
  /\ UNCHANGED <<catalogue, orgs, org, plugins, started, torn, outlasted, changes>>

\* A request fails.  A populator goes on without an answer if Katalogus cannot be
\* reached; a read timeout, or an answer that does not parse, it does not handle,
\* and the constructor handles nothing.
RequestFails(t) ==
  /\ Running /\ pc[t] \in {"organisations", "request"}
  /\ Goto(t, "idle")
  /\ orgs' = [orgs EXCEPT ![t] = {}] /\ org' = [org EXCEPT ![t] = None]
  /\ torn' = TRUE
  /\ Die("RequestError") \/ (t # Main /\ UNCHANGED fate)
  /\ UNCHANGED <<catalogue, cache, age, plugins, detached, started, shown, outlasted, changes>>

Flush(t) ==
  \/ GetOrganisations(t) \/ GetPlugins(t) \/ GetItem(t)
  \/ \E o \in Orgs : ClearOrganisation(t, o)
  \/ \E p \in Plugins : AppendPlugin(t, p)
  \/ OrganisationDone(t) \/ FlushDone(t) \/ Again(t) \/ RequestFails(t)

----------------------------------------------------------------------------
(* Katalogus and time.                                                       *)

Change(o, S) ==
  /\ changes < MaxChanges /\ S # catalogue[o]
  /\ catalogue' = [catalogue EXCEPT ![o] = S]
  /\ shown' = [shown EXCEPT ![o] = @ \cup {S}]
  /\ changes' = changes + 1
  /\ UNCHANGED <<cache, age, flushes, started, fate, torn, outlasted>>

Tick ==
  /\ Running /\ ~Expired
  /\ age' = age + 1
  /\ outlasted' = (outlasted \/ (age = Lifetime /\ (Flushing # {} \/ \E t \in Clients : pc[t] = "again")))
  /\ UNCHANGED <<catalogue, cache, flushes, started, fate, shown, torn, changes>>

Next ==
  \/ \E t \in Clients : Lookup(t) \/ Flush(t)
  \/ \E o \in Orgs, S \in SUBSET Plugins : Change(o, S)
  \/ Tick

Spec == Init /\ [][Next]_vars

\* Threads are scheduled, populators keep looking, requests end and time passes.
FairSpec ==
  /\ Spec /\ WF_vars(Tick) /\ WF_vars(\E t \in Threads : Lookup(t))
  /\ \A t \in Clients : WF_vars(Flush(t))
----------------------------------------------------------------------------
(* What the cache promises.                                                  *)

TypeOK ==
  /\ catalogue \in [Orgs -> SUBSET Plugins]
  /\ cache \in [Orgs -> [Plugins -> 0..Cardinality(Clients)] \cup {None}]
  /\ age \in 0..Lifetime + 1
  /\ pc \in [Clients -> FlushSteps \cup {"idle", "again"}]
  /\ orgs \in [Clients -> SUBSET Orgs]
  /\ org \in [Clients -> Orgs \cup {None}]
  /\ plugins \in [Clients -> SUBSET Plugins] /\ detached \subseteq Holding
  /\ started \in BOOLEAN
  /\ fate \in {"running", "RequestError", "ExpiredError", "KeyError"}
  /\ shown \in [Orgs -> SUBSET SUBSET Plugins]
  /\ torn \in BOOLEAN /\ outlasted \in BOOLEAN /\ changes \in 0..MaxChanges

\* No flush is on, and the last one neither failed nor met another.
Settled == Running /\ Flushing = {} /\ ~torn

Lists(o, S) == cache[o] = Listing(S)

\* Once a flush is done, every lookup until the end of the lifetime answers with
\* a list that Katalogus had since the lifetime began, each plugin once: a flush
\* by one thread plugin by plugin does not lose or double what others read.
SettledIsComplete ==
  started /\ Settled => \A o \in Orgs : \E S \in shown[o] : Lists(o, S)

\* The lock and the new lifetime make the first thread that finds the cache
\* expired the only one that fills it, unless that takes longer than the
\* lifetime (ExpiringDict.__getitem__).
OneFlush == Cardinality(Flushing) > 1 => outlasted

\* A lookup stops the program only if a flush, or the health checks before the
\* first one, took longer than the lifetime.
DiesOnlyIfOutlasted == fate \in {"ExpiredError", "KeyError"} => outlasted

\* What a failed flush or two concurrent ones leave behind is repaired by a later
\* one, and what Katalogus has shows in the end.
EventuallyCurrent ==
  <>[](Running /\ ~torn) => []<>(\A o \in Orgs : Lists(o, catalogue[o]))
=============================================================================
