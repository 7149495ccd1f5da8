----------------------- MODULE KatalogusCache_proofs -----------------------
(***************************************************************************)
(* Proofs about KatalogusCache, for any organisations, plugins, threads and *)
(* lifetime: who fills the cache, and when a lookup may stop the program.   *)
(***************************************************************************)
EXTENDS KatalogusCache, FiniteSetTheorems, TLAPS

\* Who makes the list of an organisation.
MakingSteps == {"request", "append", "hold"}

\* The types that the arguments below use; the lists in the cache may have any
\* length, and a dict that a thread holds is in the cache or known to have left.
Types ==
  /\ catalogue \in [Orgs -> SUBSET Plugins]
  /\ cache \in [Orgs -> [Plugins -> Nat] \cup {None}]
  /\ age \in Nat
  /\ pc \in [Clients -> FlushSteps \cup {"idle", "again"}]
  /\ orgs \in [Clients -> SUBSET Orgs]
  /\ org \in [Clients -> Orgs \cup {None}]
  /\ plugins \in [Clients -> SUBSET Plugins]
  /\ detached \subseteq Holding
  /\ \A t \in Clients : pc[t] \in MakingSteps => org[t] \in Orgs
  /\ \A t \in Holding \ detached : cache[org[t]] # None

\* Who is in the middle of a lookup.
Active == {t \in Clients : pc[t] \in FlushSteps \cup {"again"}}

\* A flush that is on, and a lookup between its flush and its second access, find
\* the cache valid, and the organisation that they fill in it, unless they have
\* outlasted the lifetime.  Without that a second thread cannot begin a flush.
FlushInv ==
  /\ \A s, t \in Flushing : s = t \/ outlasted
  /\ Expired /\ Active # {} => outlasted
  /\ \A t \in Clients :
       pc[t] \in MakingSteps /\ cache[org[t]] = None => outlasted

\* What every step preserves.
CacheInv == Types /\ FlushInv /\ DiesOnlyIfOutlasted

\* A list is no missing one.
LEMMA ListingType == \A S : Listing(S) \in [Plugins -> Nat] /\ Listing(S) # None
BY CacheAssumption DEF CacheAssumption, Listing

\* The constructor starts with the only flush, of a cache that may be expired.
LEMMA InitCacheInv == Init => CacheInv
<1> SUFFICES ASSUME Init PROVE CacheInv
  OBVIOUS
<1>1. Types
  BY CacheAssumption DEF Init, Types, CacheAssumption, Clients, FlushSteps, MakingSteps, Holding
<1>2. Active = {Main} /\ Flushing = {Main}
  BY CacheAssumption DEF Init, Active, Flushing, FlushSteps, Clients, CacheAssumption
<1>3. FlushInv
  BY <1>2 DEF Init, FlushInv, Expired, MakingSteps
<1>4. DiesOnlyIfOutlasted
  BY DEF Init, DiesOnlyIfOutlasted
<1> QED BY <1>1, <1>3, <1>4 DEF CacheInv

\* The types are inductive.
LEMMA NextTypes == Types /\ [Next]_vars => Types'
<1> SUFFICES ASSUME Types, [Next]_vars PROVE Types'
  OBVIOUS
<1> USE CacheAssumption DEF Types, CacheAssumption, FlushSteps, MakingSteps, Holding
<1>1. ASSUME NEW t \in Clients, Lookup(t) PROVE Types'
  BY <1>1 DEF Lookup, Expire, Goto
<1>2. ASSUME NEW t \in Clients, GetOrganisations(t) PROVE Types'
  BY <1>2 DEF GetOrganisations, Goto
<1>3. ASSUME NEW t \in Clients, GetPlugins(t) PROVE Types'
  BY <1>3 DEF GetPlugins, Goto
<1>4. ASSUME NEW t \in Clients, NEW o \in Orgs, ClearOrganisation(t, o) PROVE Types'
  BY <1>4, ListingType DEF ClearOrganisation, Goto
<1>5. ASSUME NEW t \in Clients, NEW p \in Plugins, AppendPlugin(t, p) PROVE Types'
  BY <1>5 DEF AppendPlugin, Goto
<1>6. ASSUME NEW t \in Clients, OrganisationDone(t) PROVE Types'
  BY <1>6 DEF OrganisationDone, Goto
<1>7. ASSUME NEW t \in Clients, FlushDone(t) PROVE Types'
  BY <1>7 DEF FlushDone, Goto
<1>8. ASSUME NEW t \in Clients, Again(t) PROVE Types'
  BY <1>8 DEF Again, Expire, Goto
<1>9. ASSUME NEW t \in Clients, RequestFails(t) PROVE Types'
  BY <1>9 DEF RequestFails, Goto
<1>10. ASSUME NEW o \in Orgs, NEW S \in SUBSET Plugins, Change(o, S) PROVE Types'
  BY <1>10 DEF Change, flushes
<1>11. ASSUME Tick PROVE Types'
  BY <1>11 DEF Tick, flushes
<1>12. ASSUME UNCHANGED vars PROVE Types'
  BY <1>12 DEF vars, flushes
<1>13. ASSUME NEW t \in Clients, GetItem(t) PROVE Types'
  BY <1>13 DEF GetItem, Expire, Goto
<1> QED BY <1>1, <1>2, <1>3, <1>4, <1>5, <1>6, <1>7, <1>8, <1>9, <1>10, <1>11, <1>12, <1>13
        DEF Next, Flush

\* A step of t within a flush, or the end of one, that leaves the lifetime alone
\* and keeps what the others know of the cache.
LEMMA QuietStep ==
  ASSUME CacheInv, NEW t \in Clients, t \in Active, Types',
         UNCHANGED <<age, outlasted>>,
         \A s \in Clients \ {t} : pc'[s] = pc[s] /\ org'[s] = org[s],
         \A o \in Orgs : cache'[o] = None => cache[o] = None,
         pc'[t] \in FlushSteps => pc[t] \in FlushSteps,
         pc'[t] \in MakingSteps => cache'[org'[t]] # None \/ outlasted
  PROVE  FlushInv'
<1> USE DEF CacheInv, Types
<1>1. Flushing' \subseteq Flushing /\ Active' \subseteq Active
  BY DEF Flushing, Active, FlushSteps
<1>2. (\A r, s \in Flushing : r = s \/ outlasted)'
  BY <1>1 DEF FlushInv
<1>3. (Expired /\ Active # {} => outlasted)'
  BY <1>1 DEF FlushInv, Expired
<1>4. (\A s \in Clients :
         pc[s] \in MakingSteps /\ cache[org[s]] = None => outlasted)'
  BY DEF FlushInv
<1> QED BY <1>2, <1>3, <1>4 DEF FlushInv

\* No step breaks it: a lookup begins a flush when the cache is expired, which the
\* flushes that are on have then outlasted; the other steps of a flush are quiet.
LEMMA NextFlushInv == CacheInv /\ [Next]_vars => FlushInv'
<1> SUFFICES ASSUME CacheInv, [Next]_vars PROVE FlushInv'
  OBVIOUS
<1>0. Types'
  BY NextTypes DEF CacheInv
<1> USE CacheAssumption DEF CacheInv, CacheAssumption, MakingSteps
<1>1. ASSUME NEW t \in Clients, Lookup(t) PROVE FlushInv'
  <2>1. Expired /\ ~Expired'
    BY <1>1 DEF Lookup, Expire, Expired
  <2>2. Flushing' = Flushing \cup {t}
    BY <1>1 DEF Lookup, Goto, Flushing, FlushSteps, Types
  <2>3. CASE Flushing = {}
    <3>1. Flushing' = {t}
      BY <2>2, <2>3
    <3>2. \A s \in Clients : pc'[s] \notin MakingSteps
      BY <1>1, <2>3 DEF Lookup, Goto, Flushing, FlushSteps, Types
    <3> QED BY <1>1, <2>1, <3>1, <3>2 DEF Lookup, FlushInv
  <2>4. CASE Flushing # {}
    <3>1. outlasted
      BY <2>1, <2>4 DEF FlushInv, Flushing, Active
    <3>2. outlasted'
      BY <1>1, <2>4, <3>1 DEF Lookup
    <3> QED BY <1>1, <3>2 DEF Lookup, FlushInv
  <2> QED BY <2>3, <2>4
<1>2. ASSUME NEW t \in Clients, GetOrganisations(t) PROVE FlushInv'
  BY <1>0, <1>2, QuietStep DEF GetOrganisations, Goto, history, Active, FlushSteps, Types
<1>3. ASSUME NEW t \in Clients, GetPlugins(t) PROVE FlushInv'
  BY <1>0, <1>3, QuietStep DEF GetPlugins, Goto, history, Active, FlushSteps, Types, FlushInv
<1>4. ASSUME NEW t \in Clients, NEW o \in Orgs, ClearOrganisation(t, o) PROVE FlushInv'
  BY <1>0, <1>4, QuietStep, ListingType
  DEF ClearOrganisation, Goto, history, Active, FlushSteps, Types
<1>5. ASSUME NEW t \in Clients, NEW p \in Plugins, AppendPlugin(t, p) PROVE FlushInv'
  <2>1. pc[t] = "hold" /\ \A o \in Orgs : cache'[o] = None => cache[o] = None
    BY <1>5, CacheAssumption DEF AppendPlugin, CacheAssumption, Types
  <2> QED
    BY <1>0, <1>5, <2>1, QuietStep DEF AppendPlugin, Goto, history, Active, FlushSteps, Types,
                                       FlushInv
<1>13. ASSUME NEW t \in Clients, GetItem(t) PROVE FlushInv'
  <2>1. CASE Expired
    <3>1. outlasted
      BY <1>13, <2>1 DEF GetItem, FlushInv, Active, FlushSteps
    <3> QED BY <1>13, <3>1 DEF GetItem, FlushInv, Active, Flushing
  <2>2. CASE ~Expired
    BY <1>0, <1>13, <2>2, QuietStep
    DEF GetItem, Goto, Active, FlushSteps, Types, FlushInv
  <2> QED BY <2>1, <2>2
<1>6. ASSUME NEW t \in Clients, OrganisationDone(t) PROVE FlushInv'
  BY <1>0, <1>6, QuietStep DEF OrganisationDone, Goto, history, Active, FlushSteps, Types
<1>7. ASSUME NEW t \in Clients, FlushDone(t) PROVE FlushInv'
  BY <1>0, <1>7, QuietStep DEF FlushDone, Goto, history, Active, FlushSteps, Types
<1>8. ASSUME NEW t \in Clients, Again(t) PROVE FlushInv'
  <2>1. CASE Expired
    <3>1. outlasted
      BY <1>8, <2>1 DEF Again, FlushInv, Active
    <3> QED BY <1>8, <3>1 DEF Again, Goto, FlushInv, Active, Types, FlushSteps
  <2>2. CASE ~Expired
    BY <1>0, <1>8, <2>2, QuietStep DEF Again, Goto, Active, FlushSteps, Types
  <2> QED BY <2>1, <2>2
<1>9. ASSUME NEW t \in Clients, RequestFails(t) PROVE FlushInv'
  BY <1>0, <1>9, QuietStep DEF RequestFails, Goto, Active, FlushSteps, Types
<1>10. ASSUME NEW o \in Orgs, NEW S \in SUBSET Plugins, Change(o, S) PROVE FlushInv'
  BY <1>10 DEF Change, flushes, FlushInv, Flushing, Active, Expired
<1>11. ASSUME Tick PROVE FlushInv'
  <2>1. Active' = Active /\ Flushing' = Flushing
    BY <1>11 DEF Tick, flushes, Active, Flushing
  <2>2. Expired' /\ Active # {} => outlasted'
    <3>1. Expired' => age = Lifetime
      BY <1>11 DEF Tick, Expired, Types
    <3>2. Active # {} => Flushing # {} \/ \E t \in Clients : pc[t] = "again"
      BY DEF Active, Flushing
    <3> QED BY <1>11, <3>1, <3>2 DEF Tick
  <2> QED BY <1>11, <2>1, <2>2 DEF Tick, flushes, FlushInv
<1>12. CASE UNCHANGED vars
  BY <1>12 DEF vars, flushes, history, FlushInv, Flushing, Active, Expired
<1> QED BY <1>1, <1>2, <1>3, <1>4, <1>5, <1>6, <1>7, <1>8, <1>9, <1>10, <1>11, <1>12, <1>13
        DEF Next, Flush

\* An exception comes from an access that found the cache expired, or without the
\* organisation, in the middle of a lookup; FlushInv says what that means.
LEMMA NextDies == CacheInv /\ [Next]_vars => DiesOnlyIfOutlasted'
<1> SUFFICES ASSUME CacheInv, [Next]_vars PROVE DiesOnlyIfOutlasted'
  OBVIOUS
<1> USE DEF CacheInv, DiesOnlyIfOutlasted
<1>1. ASSUME NEW t \in Clients, Lookup(t) PROVE DiesOnlyIfOutlasted'
  BY <1>1 DEF Lookup, Running
<1>2. ASSUME NEW t \in Clients, GetItem(t) PROVE DiesOnlyIfOutlasted'
  <2>1. Expired \/ cache[org[t]] = None => outlasted
    BY <1>2 DEF GetItem, FlushInv, Active, FlushSteps, MakingSteps
  <2> QED BY <1>2, <2>1 DEF GetItem, Die
<1>3. ASSUME NEW t \in Clients, Again(t) PROVE DiesOnlyIfOutlasted'
  <2>1. Expired => outlasted
    BY <1>3 DEF Again, FlushInv, Active
  <2> QED BY <1>3, <2>1 DEF Again, Die
<1>4. ASSUME NEW t \in Clients, RequestFails(t) PROVE DiesOnlyIfOutlasted'
  BY <1>4 DEF RequestFails, Die
<1>5. ASSUME NEW t \in Clients,
             \/ GetOrganisations(t) \/ GetPlugins(t)
             \/ \E o \in Orgs : ClearOrganisation(t, o)
             \/ \E p \in Plugins : AppendPlugin(t, p)
             \/ OrganisationDone(t) \/ FlushDone(t)
      PROVE DiesOnlyIfOutlasted'
  BY <1>5 DEF GetOrganisations, GetPlugins, ClearOrganisation, AppendPlugin,
              OrganisationDone, FlushDone, history
<1>6. ASSUME NEW o \in Orgs, NEW S \in SUBSET Plugins, Change(o, S)
      PROVE DiesOnlyIfOutlasted'
  BY <1>6 DEF Change
<1>7. CASE Tick
  BY <1>7 DEF Tick
<1>8. CASE UNCHANGED vars
  BY <1>8 DEF vars, history
<1> QED BY <1>1, <1>2, <1>3, <1>4, <1>5, <1>6, <1>7, <1>8 DEF Next, Flush

\* All of it together.
LEMMA CacheInvariant == Spec => []CacheInv
<1>1. CacheInv /\ [Next]_vars => CacheInv'
  BY NextTypes, NextFlushInv, NextDies DEF CacheInv
<1> QED BY InitCacheInv, <1>1, PTL DEF Spec

\* Whatever the number of populators, organisations and plugins, one thread fills
\* the cache, unless a flush outlasted the lifetime.
THEOREM OneFlushCorrect == Spec => []OneFlush
<1>1. CacheInv => OneFlush
  <2> SUFFICES ASSUME CacheInv, Cardinality(Flushing) > 1, ~outlasted PROVE FALSE
    BY DEF OneFlush
  <2>1. \A s, t \in Flushing : s = t
    BY DEF CacheInv, FlushInv
  <2>2. CASE Flushing = {}
    BY <2>2, FS_EmptySet
  <2>3. ASSUME NEW t \in Flushing PROVE FALSE
    <3>1. Flushing = {t}
      BY <2>1
    <3> QED BY <3>1, FS_Singleton
  <2> QED BY <2>2, <2>3
<1> QED BY CacheInvariant, <1>1, PTL

\* No lookup stops the program by ExpiredError or KeyError unless a flush, or the
\* start of the program, outlasted the lifetime.
THEOREM DiesCorrect == Spec => []DiesOnlyIfOutlasted
BY CacheInvariant, PTL DEF CacheInv

----------------------------------------------------------------------------
(* What a flush has done so far.                                             *)

\* Katalogus shows lists of plugins.
ShownInv == shown \in [Orgs -> SUBSET SUBSET Plugins]

LEMMA ShownStep == Types /\ ShownInv /\ [Next]_vars => ShownInv'
<1> SUFFICES ASSUME Types, ShownInv, [Next]_vars PROVE ShownInv'
  OBVIOUS
<1>1. ASSUME Expire PROVE ShownInv'
  BY <1>1 DEF Expire, ShownInv, Types
<1>2. ASSUME NEW o \in Orgs, NEW S \in SUBSET Plugins, Change(o, S) PROVE ShownInv'
  BY <1>2 DEF Change, ShownInv
<1>3. \/ Expire \/ UNCHANGED shown
      \/ \E o \in Orgs, S \in SUBSET Plugins : Change(o, S)
  BY DEF Next, Flush, Lookup, GetOrganisations, GetPlugins, ClearOrganisation, GetItem,
         AppendPlugin, OrganisationDone, FlushDone, Again, RequestFails, Tick, vars, history
<1> QED BY <1>1, <1>2, <1>3 DEF ShownInv

LEMMA ShownCorrect == Spec => []ShownInv
<1>1. Init => ShownInv
  BY DEF Init, ShownInv
<1> QED BY <1>1, ShownStep, CacheInvariant, PTL DEF Spec, CacheInv

\* The list of an organisation is one that Katalogus had, each plugin once.
Complete(o) == \E S \in shown[o] : Lists(o, S)

\* How far the flush of t is: it has made the lists of the organisations that it
\* no longer has to, but for the one it is at.
Progress(t) ==
  /\ pc[t] = "clear" => \A o \in Orgs \ orgs[t] : Complete(o)
  /\ pc[t] \in MakingSteps => \A o \in Orgs \ (orgs[t] \cup {org[t]}) : Complete(o)
  /\ pc[t] = "request" => Lists(org[t], {})
  /\ pc[t] = "hold" => t \notin detached
  /\ pc[t] \in {"append", "hold"} =>
       \E S \in shown[org[t]] : plugins[t] \subseteq S /\ Lists(org[t], S \ plugins[t])

\* While no flush fails or meets another one, the only one that is on knows what
\* is in the cache, and without one all lists are made.
FillInv ==
  /\ \A o \in Orgs : catalogue[o] \in shown[o]
  /\ Running /\ ~torn =>
       /\ \A s, t \in Flushing : s = t
       /\ \A t \in Clients : Progress(t)
       /\ ~started => Main \in Flushing
       /\ started /\ Flushing = {} => \A o \in Orgs : Complete(o)

LEMMA InitFill == Init => FillInv
BY CacheAssumption DEF Init, FillInv, Progress, Flushing, FlushSteps, MakingSteps, Clients,
                       CacheAssumption

\* A step of a flush, while it is the only one: what the others know is nothing.
LEMMA FlushProgress ==
  ASSUME CacheInv, FillInv, NEW t \in Clients, t \in Flushing, UNCHANGED <<catalogue, shown>>,
         \A s \in Clients \ {t} : pc'[s] = pc[s],
         Running' /\ ~torn' => Running /\ ~torn,
         Running' /\ ~torn' => Progress(t)',
         t \in Flushing',
         UNCHANGED started
  PROVE  FillInv'
<1> SUFFICES ASSUME Running', ~torn' PROVE FillInv'
  BY DEF FillInv
<1>1. \A s \in Clients : s \in Flushing <=> s = t
  BY DEF FillInv, Flushing
<1>2. \A s \in Clients \ {t} : pc'[s] \notin FlushSteps
  BY <1>1 DEF Flushing
<1>3. \A s \in Clients \ {t} : Progress(s)'
  BY <1>2 DEF Progress, FlushSteps, MakingSteps
<1>4. Flushing' = Flushing
  BY <1>1, <1>2 DEF Flushing
<1> QED BY <1>1, <1>3, <1>4 DEF FillInv

\* Appending a plugin once makes the list of one more.
LEMMA OneMorePlugin ==
  ASSUME NEW S \in SUBSET Plugins, NEW R \in SUBSET S, NEW p \in R
  PROVE  [Listing(S \ R) EXCEPT ![p] = @ + 1] = Listing(S \ (R \ {p}))
BY DEF Listing

LEMMA FillStep == CacheInv /\ ShownInv /\ FillInv /\ [Next]_vars => FillInv'
<1> SUFFICES ASSUME CacheInv, ShownInv, FillInv, [Next]_vars PROVE FillInv'
  OBVIOUS
<1> USE DEF CacheInv, MakingSteps
<1>1. ASSUME NEW t \in Clients, Lookup(t) PROVE FillInv'
  <2>1. \A o \in Orgs : catalogue'[o] \in shown'[o]
    BY <1>1 DEF Lookup, Expire
  <2>2. ASSUME ~torn' PROVE Flushing' = {t} /\ pc'[t] = "organisations" /\ started'
    BY <1>1, <2>2 DEF Lookup, Goto, Flushing, FlushSteps, Types
  <2>3. ASSUME ~torn', NEW s \in Clients PROVE Progress(s)'
    BY <2>2, <2>3 DEF Progress, Flushing, FlushSteps
  <2> QED BY <2>1, <2>2, <2>3 DEF FillInv
<1>2. ASSUME NEW t \in Clients, GetOrganisations(t) PROVE FillInv'
  <2>1. Progress(t)'
    BY <1>2 DEF GetOrganisations, Goto, Types, Progress
  <2> QED
    BY <1>2, <2>1, FlushProgress
    DEF GetOrganisations, Goto, Types, history, Running, Flushing, FlushSteps
<1>3. ASSUME NEW t \in Clients, GetPlugins(t) PROVE FillInv'
  <2>1. pc[t] = "request" /\ pc'[t] = "append" /\ org[t] \in Orgs
        /\ plugins'[t] = catalogue[org[t]]
    BY <1>3 DEF GetPlugins, Goto, Types
  <2>2. ASSUME Running, ~torn PROVE Progress(t)'
    <3>1. Progress(t) /\ catalogue[org[t]] \in shown[org[t]]
      BY <2>1, <2>2 DEF FillInv
    <3>2. UNCHANGED <<cache, orgs, org, shown>>
      BY <1>3 DEF GetPlugins, history
    <3>3. \A o \in Orgs \ (orgs[t] \cup {org[t]}) : Complete(o)'
      BY <2>1, <3>1, <3>2 DEF Progress, Complete, Lists
    <3>4. catalogue[org[t]] \ plugins'[t] = {} /\ plugins'[t] \subseteq catalogue[org[t]]
      BY <2>1
    <3>5. cache'[org'[t]] = Listing(catalogue[org[t]] \ plugins'[t])
      BY <2>1, <3>1, <3>2, <3>4 DEF Progress, Lists
    <3>6. catalogue[org[t]] \in shown'[org'[t]]
      BY <3>1, <3>2
    <3> QED BY <2>1, <3>2, <3>3, <3>4, <3>5, <3>6 DEF Progress, Lists
  <2> QED
    BY <1>3, <2>2, FlushProgress DEF GetPlugins, Goto, Types, history, Running, Flushing, FlushSteps
<1>4. ASSUME NEW t \in Clients, NEW o \in Orgs, ClearOrganisation(t, o) PROVE FillInv'
  <2>1. pc[t] = "clear" /\ pc'[t] = "request" /\ org'[t] = o /\ orgs'[t] = orgs[t] \ {o}
        /\ shown' = shown /\ cache'[o] = Listing({})
        /\ \A q \in Orgs \ {o} : cache'[q] = cache[q]
    BY <1>4 DEF ClearOrganisation, Goto, Types, history
  <2>2. ASSUME Running, ~torn PROVE Progress(t)'
    <3>1. \A q \in Orgs \ orgs[t] : Complete(q)
      BY <2>1, <2>2 DEF FillInv, Progress
    <3> QED BY <2>1, <3>1 DEF Progress, Complete, Lists
  <2> QED
    BY <1>4, <2>2, FlushProgress
    DEF ClearOrganisation, Goto, Types, history, Running, Flushing, FlushSteps
<1>5. ASSUME NEW t \in Clients, NEW p \in Plugins, AppendPlugin(t, p) PROVE FillInv'
  <2> DEFINE o == org[t]
  <2>1. /\ pc[t] = "hold" /\ pc' = [pc EXCEPT ![t] = "append"]
        /\ p \in plugins[t] /\ o \in Orgs
        /\ t \notin detached => cache' = [cache EXCEPT ![o][p] = @ + 1] /\ cache[o] # None
        /\ plugins' = [plugins EXCEPT ![t] = @ \ {p}]
        /\ UNCHANGED <<catalogue, shown, orgs, org, started, torn, fate>>
    BY <1>5 DEF AppendPlugin, Goto, Types, history, Holding
  <2>2. ASSUME Running, ~torn PROVE Progress(t)'
    <3>1. Progress(t) /\ t \notin detached
      BY <2>1, <2>2 DEF FillInv, Progress
    <3>2. PICK S \in shown[o] : plugins[t] \subseteq S /\ Lists(o, S \ plugins[t])
      BY <2>1, <3>1 DEF Progress
    <3>3. S \in SUBSET Plugins
      BY <2>1, <3>2 DEF ShownInv
    <3>4. cache'[o] = [cache[o] EXCEPT ![p] = @ + 1] /\ plugins'[t] = plugins[t] \ {p}
      BY <2>1, <3>1 DEF Types
    <3>5. cache'[o] = Listing(S \ plugins'[t])
      <4>1. plugins[t] \in SUBSET S /\ p \in plugins[t]
        BY <2>1, <3>2
      <4>2. [Listing(S \ plugins[t]) EXCEPT ![p] = @ + 1] = Listing(S \ (plugins[t] \ {p}))
        BY <3>3, <4>1, OneMorePlugin
      <4>3. cache[o] = Listing(S \ plugins[t])
        BY <3>2 DEF Lists
      <4> QED BY <3>4, <4>2, <4>3
    <3>6. \A q \in Orgs \ {o} : cache'[q] = cache[q]
      BY <2>1, <3>1 DEF Types
    <3>7. \A q \in Orgs \ (orgs[t] \cup {o}) : Complete(q)'
      BY <2>1, <3>1, <3>6 DEF Progress, Complete, Lists
    <3>8. S \in shown'[o] /\ plugins'[t] \subseteq S /\ Lists(o, S \ plugins[t])' /\ pc'[t] = "append"
      BY <2>1, <3>2, <3>4, <3>5 DEF Lists, Types
    <3> QED BY <2>1, <3>7, <3>8 DEF Progress, Lists
  <2> QED
    BY <2>1, <2>2, FlushProgress DEF Running, Flushing, FlushSteps, Types
<1>12. ASSUME NEW t \in Clients, GetItem(t) PROVE FillInv'
  <2>1. CASE Expired \/ cache[org[t]] = None
    <3>1. ~Running' /\ catalogue' = catalogue
      BY <1>12, <2>1 DEF GetItem, Die, Running
    <3>2. \A o \in Orgs : catalogue'[o] \in shown'[o]
      BY <1>12, <2>1 DEF GetItem, Expire, FillInv
    <3> QED BY <3>1, <3>2 DEF FillInv
  <2>2. CASE ~Expired /\ cache[org[t]] # None
    <3>1. /\ pc[t] = "append" /\ pc' = [pc EXCEPT ![t] = "hold"] /\ t \notin detached
          /\ UNCHANGED <<catalogue, cache, shown, detached, orgs, org, plugins, started, torn, fate>>
      BY <1>12, <2>2 DEF GetItem, Goto, Types, Holding
    <3>2. ASSUME Running, ~torn PROVE Progress(t)'
      <4>1. Progress(t)
        BY <3>2 DEF FillInv
      <4> QED BY <3>1, <4>1 DEF Progress, Complete, Lists, Types
    <3> QED BY <3>1, <3>2, FlushProgress DEF Running, Flushing, FlushSteps, Types
  <2> QED BY <2>1, <2>2
<1>6. ASSUME NEW t \in Clients, OrganisationDone(t) PROVE FillInv'
  <2>1. pc[t] = "append" /\ pc'[t] = "clear" /\ plugins[t] = {} /\ org[t] \in Orgs
        /\ UNCHANGED <<cache, orgs, shown>>
    BY <1>6 DEF OrganisationDone, Goto, Types, history
  <2>2. ASSUME Running, ~torn PROVE Progress(t)'
    <3>1. Progress(t)
      BY <2>2 DEF FillInv
    <3>2. \A S : S \ {} = S
      OBVIOUS
    <3>3. Complete(org[t])
      BY <2>1, <3>1, <3>2 DEF Progress, Complete
    <3> QED BY <2>1, <3>1, <3>3 DEF Progress, Complete, Lists
  <2> QED
    BY <1>6, <2>2, FlushProgress
    DEF OrganisationDone, Goto, Types, history, Running, Flushing, FlushSteps
<1>7. ASSUME NEW t \in Clients, FlushDone(t) PROVE FillInv'
  <2>1. pc[t] = "clear" /\ orgs[t] = {} /\ t \in Flushing
        /\ UNCHANGED <<catalogue, cache, shown, torn, fate>>
    BY <1>7 DEF FlushDone, history, Flushing, FlushSteps
  <2>2. Flushing' = Flushing \ {t}
    BY <1>7 DEF FlushDone, Goto, Types, Flushing, FlushSteps
  <2>3. ASSUME Running, ~torn
        PROVE  Flushing' = {} /\ started' /\ (\A s \in Clients : Progress(s)')
               /\ \A o \in Orgs : Complete(o)'
    <3>1. Flushing = {t}
      BY <2>1, <2>3 DEF FillInv
    <3>2. started'
      BY <1>7, <2>3, <3>1 DEF FlushDone, FillInv
    <3>3. \A o \in Orgs : Complete(o)'
      BY <2>1, <2>3 DEF FillInv, Progress, Complete, Lists
    <3>4. \A s \in Clients : Progress(s)'
      BY <2>2, <3>1 DEF Progress, Flushing, FlushSteps
    <3> QED BY <2>2, <3>1, <3>2, <3>3, <3>4
  <2> QED BY <2>1, <2>3 DEF FillInv, Running
<1>8. ASSUME NEW t \in Clients, Again(t) PROVE FillInv'
  <2>1. CASE Expired
    BY <1>8, <2>1 DEF Again, Expire, Die, FillInv, Running
  <2>2. CASE ~Expired
    <3>1. Flushing' = Flushing /\ UNCHANGED <<catalogue, cache, shown, orgs, org, plugins, detached, started, torn, fate>>
      BY <1>8, <2>2 DEF Again, Goto, Types, Flushing, FlushSteps
    <3>2. \A s \in Clients : Progress(s) => Progress(s)'
      BY <1>8, <3>1 DEF Again, Goto, Types, Progress, Complete, Lists
    <3> QED BY <3>1, <3>2 DEF FillInv, Running, Complete, Lists
  <2> QED BY <2>1, <2>2
<1>9. ASSUME NEW t \in Clients, RequestFails(t) PROVE FillInv'
  BY <1>9 DEF RequestFails, FillInv
<1>10. ASSUME NEW o \in Orgs, NEW S \in SUBSET Plugins, Change(o, S) PROVE FillInv'
  <2>1. \A q \in Orgs : shown[q] \subseteq shown'[q] /\ catalogue'[q] \in shown'[q]
    BY <1>10 DEF Change, FillInv, ShownInv, Types
  <2>2. UNCHANGED <<cache, pc, orgs, org, plugins, detached, started, torn, fate, Flushing>>
    BY <1>10 DEF Change, flushes, Flushing
  <2>3. \A q \in Orgs : Complete(q) => Complete(q)'
    BY <2>1, <2>2 DEF Complete, Lists
  <2>4. \A t \in Clients : Progress(t) => Progress(t)'
    BY <2>1, <2>2, <2>3 DEF Progress, Lists, Types
  <2> QED BY <2>1, <2>2, <2>3, <2>4 DEF FillInv, Running
<1>11. CASE Tick \/ UNCHANGED vars
  BY <1>11 DEF Tick, vars, flushes, history, FillInv, Progress, Complete, Lists, Flushing, Running
<1> QED BY <1>1, <1>2, <1>3, <1>4, <1>5, <1>6, <1>7, <1>8, <1>9, <1>10, <1>11, <1>12 DEF Next, Flush

\* After a flush that was alone every lookup of the lifetime answers with a whole
\* list, whatever the others read meanwhile.
THEOREM SettledCorrect == Spec => []SettledIsComplete
<1>1. FillInv => SettledIsComplete
  BY DEF FillInv, SettledIsComplete, Settled, Complete
<1>2. Spec => []FillInv
  BY InitFill, FillStep, CacheInvariant, ShownCorrect, PTL DEF Spec
<1> QED BY <1>1, <1>2, PTL

----------------------------------------------------------------------------
(* How often a list can have a plugin.                                       *)

\* The flushes that may still append p to the list of o without emptying it
\* before.
Appending(o, p) ==
  {t \in Clients : /\ pc[t] \in MakingSteps /\ org[t] = o
                   /\ pc[t] # "request" => p \in plugins[t]}

\* Each flush appends a plugin once to a list that it has emptied.
CountInv ==
  \A o \in Orgs, p \in Plugins :
    cache[o] # None => cache[o][p] + Cardinality(Appending(o, p)) <= Cardinality(Clients)

\* The bounds of the counters, and the ways to stop.
BoundInv ==
  /\ age <= Lifetime + 1
  /\ started \in BOOLEAN /\ torn \in BOOLEAN /\ outlasted \in BOOLEAN
  /\ fate \in {"running", "RequestError", "ExpiredError", "KeyError"}
  /\ changes \in 0..MaxChanges

LEMMA FiniteAppending ==
  /\ IsFiniteSet(Clients) /\ Cardinality(Clients) \in Nat
  /\ \A o \in Orgs, p \in Plugins :
       /\ IsFiniteSet(Appending(o, p)) /\ Cardinality(Appending(o, p)) \in Nat
       /\ Cardinality(Appending(o, p)) <= Cardinality(Clients)
<1>1. IsFiniteSet(Clients)
  BY CacheAssumption, FS_AddElement DEF CacheAssumption, Clients
<1>2. ASSUME NEW o \in Orgs, NEW p \in Plugins PROVE Appending(o, p) \subseteq Clients
  BY DEF Appending
<1> QED BY <1>1, <1>2, FS_Subset, FS_CardinalityType

\* A step that keeps a list, or drops it, while nobody begins to append to it.
LEMMA CountQuiet ==
  ASSUME Types, CountInv, NEW o \in Orgs, NEW p \in Plugins,
         cache'[o] \in {cache[o], None},
         Appending(o, p)' \subseteq Appending(o, p),
         cache'[o] # None
  PROVE  cache'[o][p] + Cardinality(Appending(o, p)') <= Cardinality(Clients)
<1>1. /\ Cardinality(Appending(o, p)') \in Nat
      /\ Cardinality(Appending(o, p)') <= Cardinality(Appending(o, p))
      /\ Cardinality(Appending(o, p)) \in Nat /\ Cardinality(Clients) \in Nat
  BY FiniteAppending, FS_Subset, FS_CardinalityType
<1>2. cache'[o] = cache[o] /\ cache[o][p] \in Nat
  BY DEF Types
<1>3. cache[o][p] + Cardinality(Appending(o, p)) <= Cardinality(Clients)
  BY <1>2 DEF CountInv
<1> QED BY <1>1, <1>2, <1>3

LEMMA CountStep == Types /\ CountInv /\ [Next]_vars => CountInv'
<1> SUFFICES ASSUME Types, CountInv, [Next]_vars, NEW o \in Orgs, NEW p \in Plugins,
                    cache'[o] # None
             PROVE  cache'[o][p] + Cardinality(Appending(o, p)') <= Cardinality(Clients)
  BY DEF CountInv
<1> DEFINE Goal == cache'[o][p] + Cardinality(Appending(o, p)') <= Cardinality(Clients)
           Kept == cache'[o] \in {cache[o], None} /\ Appending(o, p)' \subseteq Appending(o, p)
<1> USE DEF MakingSteps
<1>0. Types'
  BY NextTypes
<1>1. ASSUME NEW t \in Clients, NEW r \in Orgs, ClearOrganisation(t, r) PROVE Goal
  <2>1. CASE o = r
    <3>1. Cardinality(Appending(o, p)') \in Nat
             /\ Cardinality(Appending(o, p)') <= Cardinality(Clients)
      <4>1. Appending(o, p)' \subseteq Clients
        BY DEF Appending
      <4> QED BY <4>1, FiniteAppending, FS_Subset, FS_CardinalityType
    <3>2. cache'[o][p] = 0
      BY <1>1, <2>1 DEF ClearOrganisation, Types, Listing
    <3> QED BY <3>1, <3>2, FiniteAppending
  <2>2. CASE o # r
    <3>1. Kept
      BY <1>1, <2>2 DEF ClearOrganisation, Goto, Types, Appending
    <3> QED BY <3>1, CountQuiet
  <2> QED BY <2>1, <2>2
<1>2. ASSUME NEW t \in Clients, NEW q \in Plugins, AppendPlugin(t, q) PROVE Goal
  <2>1. Appending(o, p)' \subseteq Appending(o, p)
    BY <1>2 DEF AppendPlugin, Goto, Types, Appending
  <2>2. CASE t \in detached \/ org[t] # o
    <3>1. cache'[o] = cache[o]
      BY <1>2, <2>2 DEF AppendPlugin, Types
    <3> QED BY <2>1, <3>1, CountQuiet
  <2>3. CASE t \notin detached /\ org[t] = o
    <3>1. /\ cache[o] # None /\ cache[o][p] \in Nat
          /\ cache'[o][p] = IF q = p THEN cache[o][p] + 1 ELSE cache[o][p]
      BY <1>2, <2>3 DEF AppendPlugin, Types, Holding
    <3>2. cache[o][p] + Cardinality(Appending(o, p)) <= Cardinality(Clients)
      BY <3>1 DEF CountInv
    <3>3. CASE q # p
      <4>1. /\ Cardinality(Appending(o, p)') \in Nat
            /\ Cardinality(Appending(o, p)') <= Cardinality(Appending(o, p))
        BY <2>1, FiniteAppending, FS_Subset, FS_CardinalityType
      <4> QED BY <3>1, <3>2, <3>3, <4>1, FiniteAppending
    <3>4. CASE q = p
      <4>1. t \in Appending(o, p)
        BY <1>2, <2>3, <3>4 DEF AppendPlugin, Appending
      <4>2. Appending(o, p)' \in SUBSET (Appending(o, p) \ {t})
        BY <1>2, <2>3, <3>4 DEF AppendPlugin, Goto, Types, Appending
      <4>3. /\ IsFiniteSet(Appending(o, p) \ {t})
            /\ Cardinality(Appending(o, p) \ {t}) = Cardinality(Appending(o, p)) - 1
        BY <4>1, FiniteAppending, FS_RemoveElement
      <4>4. /\ Cardinality(Appending(o, p)') \in Nat
            /\ Cardinality(Appending(o, p)') <= Cardinality(Appending(o, p)) - 1
        BY <4>2, <4>3, FS_Subset, FS_CardinalityType
      <4> QED BY <3>1, <3>2, <3>4, <4>4, FiniteAppending
    <3> QED BY <3>3, <3>4
  <2> QED BY <2>2, <2>3
<1>3. ASSUME NEW t \in Clients, Lookup(t) \/ Again(t) \/ GetItem(t) PROVE Kept
  BY <1>3 DEF Lookup, Again, GetItem, Expire, Goto, Types, Appending
<1>4. ASSUME NEW t \in Clients,
             \/ GetOrganisations(t) \/ GetPlugins(t) \/ OrganisationDone(t)
             \/ FlushDone(t) \/ RequestFails(t)
      PROVE  Kept
  BY <1>4 DEF GetOrganisations, GetPlugins, OrganisationDone, FlushDone, RequestFails, Goto, Types,
              Appending
<1>5. CASE Tick \/ UNCHANGED vars \/ \E r \in Orgs, S \in SUBSET Plugins : Change(r, S)
  <2>1. Kept
    BY <1>5 DEF Tick, vars, flushes, history, Change, Appending
  <2> QED BY <2>1, CountQuiet
<1> QED BY <1>1, <1>2, <1>3, <1>4, <1>5, CountQuiet DEF Next, Flush

LEMMA BoundStep == Types /\ BoundInv /\ [Next]_vars => BoundInv'
<1> SUFFICES ASSUME Types, BoundInv, [Next]_vars PROVE BoundInv'
  OBVIOUS
<1> USE CacheAssumption DEF CacheAssumption, BoundInv, Types
<1>1. CASE \E t \in Clients : Lookup(t) \/ Again(t) \/ GetItem(t)
  <2>1. ASSUME NEW t \in Clients, Lookup(t) PROVE BoundInv'
    BY <2>1 DEF Lookup, Expire
  <2>2. ASSUME NEW t \in Clients, Again(t) PROVE BoundInv'
    BY <2>2 DEF Again, Expire, Die
  <2>3. ASSUME NEW t \in Clients, GetItem(t) PROVE BoundInv'
    BY <2>3 DEF GetItem, Expire, Die
  <2> QED BY <1>1, <2>1, <2>2, <2>3
<1>2. CASE \E t \in Clients : \/ GetOrganisations(t) \/ GetPlugins(t) \/ OrganisationDone(t)
                              \/ FlushDone(t) \/ \E o \in Orgs : ClearOrganisation(t, o)
                              \/ \E p \in Plugins : AppendPlugin(t, p)
  BY <1>2 DEF GetOrganisations, GetPlugins, OrganisationDone, FlushDone, ClearOrganisation,
              AppendPlugin, history
<1>3. CASE \E t \in Clients : RequestFails(t)
  BY <1>3 DEF RequestFails, Die
<1>4. CASE \E o \in Orgs, S \in SUBSET Plugins : Change(o, S)
  BY <1>4 DEF Change
<1>5. CASE Tick
  BY <1>5 DEF Tick, Expired
<1>6. CASE UNCHANGED vars
  BY <1>6 DEF vars, history
<1> QED BY <1>1, <1>2, <1>3, <1>4, <1>5, <1>6 DEF Next, Flush

\* Each variable has its type; in particular no list ever has a plugin more often
\* than there are threads that could append it, whatever flushes meet.
THEOREM TypeCorrect == Spec => []TypeOK
<1>1. Init => CountInv /\ BoundInv
  <2>1. Init => CountInv
    BY DEF Init, CountInv
  <2>2. Init => BoundInv
    <3> SUFFICES ASSUME Init PROVE BoundInv
      OBVIOUS
    <3>1. age <= Lifetime + 1 /\ changes \in 0..MaxChanges
      BY CacheAssumption DEF Init, CacheAssumption
    <3>2. outlasted \in BOOLEAN
      BY DEF Init, Expired
    <3> QED BY <3>1, <3>2 DEF Init, BoundInv
  <2> QED BY <2>1, <2>2
<1>2. Types /\ CountInv /\ BoundInv /\ [Next]_vars => CountInv' /\ BoundInv'
  BY CountStep, BoundStep
<1>3. Types /\ CountInv /\ BoundInv /\ ShownInv => TypeOK
  <2> SUFFICES ASSUME Types, CountInv, BoundInv, ShownInv PROVE TypeOK
    OBVIOUS
  <2>1. age \in 0..Lifetime + 1
    BY CacheAssumption DEF CacheAssumption, Types, BoundInv
  <2>2. ASSUME NEW o \in Orgs, cache[o] # None PROVE cache[o] \in [Plugins -> 0..Cardinality(Clients)]
    <3>1. cache[o] \in [Plugins -> Nat]
      BY <2>2 DEF Types
    <3>2. ASSUME NEW p \in Plugins PROVE cache[o][p] \in 0..Cardinality(Clients)
      <4>1. cache[o][p] \in Nat /\ cache[o][p] + Cardinality(Appending(o, p)) <= Cardinality(Clients)
        BY <2>2, <3>1 DEF CountInv
      <4> QED BY <4>1, FiniteAppending
    <3> QED BY <3>1, <3>2
  <2>3. cache \in [Orgs -> [Plugins -> 0..Cardinality(Clients)] \cup {None}]
    BY <2>2 DEF Types
  <2> QED BY <2>1, <2>3 DEF Types, BoundInv, ShownInv, TypeOK
<1> QED BY <1>1, <1>2, <1>3, CacheInvariant, ShownCorrect, PTL DEF Spec, CacheInv
=============================================================================
