---------------------------- MODULE TaskListing ----------------------------
(***************************************************************************)
(* A client that walks through the tasks page by page while tasks are       *)
(* created and change their status: list_tasks of server/server.py,         *)
(* get_tasks of repositories/sqlalchemy/task_store.py and                   *)
(* server/pagination.py.                                                    *)
(*                                                                          *)
(* Tasks are numbered as they are created; a listing has the newest first.  *)
(* Its count and its page are two statements, each of which sees what is    *)
(* committed by then.  The other parameters of list_tasks choose rows as    *)
(* the status does, by columns that do not change.                          *)
(***************************************************************************)
EXTENDS Integers, FiniteSets

CONSTANTS
  Statuses,   \* of a task record
  Limits,     \* limits that clients ask for
  None,       \* no status asked for; no record
  MaxTasks,   \* bound: tasks
  MaxMoves    \* bound: rows that enter or leave the listing during a walk

ASSUME ListingAssumption ==
  /\ "queued" \in Statuses /\ None \notin Statuses /\ Limits \subseteq Nat
  /\ MaxTasks \in Nat /\ MaxMoves \in Nat

VARIABLES
  created,    \* table tasks: how many there are
  tasks,      \* table tasks: the status of each
  pc,         \* where the walk is
  rel,        \* the link it follows, "next" or "previous"
  status,     \* the status it asks for
  limit, offset,
  count,      \* what the first statement counted
  wanted,     \* history: rows it should come by, while they stay in the listing
  seen,       \* history: rows it came by
  repeated,   \* history: how often it got one again, counted to MaxMoves + 1
  skew,       \* history: rows of its first page that are before a page boundary
  entered, left, slipped  \* history: rows that entered and left the listing during
              \* the walk, and that entered between a count and its page

table == <<created, tasks>>
request == <<rel, status, limit, offset>>
moves == <<entered, left, slipped>>
walked == <<seen, repeated>>
vars == <<table, pc, request, count, wanted, walked, skew, moves>>

Ids == 1..MaxTasks

Init ==
  /\ created = 0 /\ tasks = [t \in Ids |-> None]
  /\ pc = "idle" /\ rel = "next" /\ status = None /\ limit = 0 /\ offset = 0
  /\ count = 0
  /\ wanted = {} /\ seen = {} /\ repeated = 0 /\ skew = 0
  /\ entered = 0 /\ left = 0 /\ slipped = 0

Walking == pc \in {"count", "page"}

\* The rows that a listing for status s has.
Rows(s) == {t \in 1..created : s \in {None, tasks[t]}}

\* How many rows come before t.
Position(t, s) == Cardinality({u \in Rows(s) : u > t})

\* ORDER BY created_at DESC OFFSET off LIMIT lim
Page(s, off, lim) == {t \in Rows(s) : Position(t, s) \in off..(off + lim - 1)}

----------------------------------------------------------------------------
(* The walk.                                                                 *)

\* The first request of a walk.
Start(r, s, lim, off) ==
  /\ pc = "idle"
  /\ pc' = "count" /\ rel' = r /\ status' = s /\ limit' = lim /\ offset' = off
  /\ wanted' = {t \in Rows(s) : IF r = "next" THEN Position(t, s) >= off
                                              ELSE Position(t, s) < off + lim}
  /\ skew' = IF r = "previous" /\ lim > 0 THEN off % lim ELSE 0
  /\ UNCHANGED <<table, count, walked, moves>>

Count ==
  /\ pc = "count"
  /\ count' = Cardinality(Rows(status))
  /\ pc' = "page"
  /\ UNCHANGED <<table, request, wanted, walked, skew, moves>>

HasNext == offset + limit <= count

\* Mutation of HasPrevious: the first page has one as well.
HasPreviousAlways == offset >= 0

HasPrevious == offset - limit >= 0

\* The page with its links; the client follows the one it walks along, to Link.
Walk(Link) ==
  /\ pc = "page"
  /\ seen' = seen \cup Page(status, offset, limit)
  /\ repeated' = LET again == repeated + Cardinality(seen \cap Page(status, offset, limit))
                 IN  IF again > MaxMoves THEN MaxMoves + 1 ELSE again
  /\ IF (IF rel = "next" THEN HasNext ELSE HasPrevious)
       THEN pc' = "count" /\ offset' = Link
       ELSE pc' = "done" /\ UNCHANGED offset
  /\ UNCHANGED <<table, rel, status, limit, count, wanted, skew, moves>>

\* Mutation of GetPage: the next page starts a row too late.
GetPageLate == Walk(IF rel = "next" THEN offset + limit + 1 ELSE offset - limit)

\* Mutation of GetPage: a link has the offset of the request.
GetPageAgain == Walk(offset)

GetPage == Walk(IF rel = "next" THEN offset + limit ELSE offset - limit)

----------------------------------------------------------------------------
(* The table changes.                                                        *)

\* What the walk notices of a change that makes the row of t match or not.
Move(t, before, after) ==
  IF ~Walking \/ before = after THEN UNCHANGED <<wanted, moves>>
  ELSE /\ entered + left < MaxMoves
       /\ entered' = IF after THEN entered + 1 ELSE entered
       /\ slipped' = IF after /\ pc = "page" THEN slipped + 1 ELSE slipped
       /\ left' = IF before THEN left + 1 ELSE left
       /\ wanted' = wanted \ {t}

\* post_push is what creates a task, and says queued of it.
CreateTask ==
  /\ created < MaxTasks
  /\ created' = created + 1
  /\ tasks' = [tasks EXCEPT ![created'] = "queued"]
  /\ Move(created', FALSE, status \in {None, "queued"})
  /\ UNCHANGED <<pc, request, count, walked, skew>>

UpdateTask(t, s) ==
  /\ t <= created /\ s # tasks[t]
  /\ tasks' = [tasks EXCEPT ![t] = s]
  /\ Move(t, status \in {None, tasks[t]}, status \in {None, s})
  /\ UNCHANGED <<created, pc, request, count, walked, skew>>

Next ==
  \/ \E r \in {"next", "previous"}, s \in Statuses \cup {None}, lim \in Limits, off \in 0..MaxTasks :
       Start(r, s, lim, off)
  \/ Count \/ GetPage
  \/ CreateTask
  \/ \E t \in Ids, s \in Statuses : UpdateTask(t, s)

Spec == Init /\ [][Next]_vars

\* The client follows the links, and the server answers.
FairSpec == Spec /\ WF_vars(Count \/ GetPage)

----------------------------------------------------------------------------
(* What a walk gets.                                                         *)

\* Rows it should have come by.
Missed == wanted \ seen

\* Each variable has its type.  No link has a negative offset, which the database
\* refuses, and no walk goes past the page behind the last row.
TypeOK ==
  /\ created \in 0..MaxTasks
  /\ \A t \in Ids : tasks[t] \in IF t <= created THEN Statuses ELSE {None}
  /\ pc \in {"idle", "count", "page", "done"} /\ rel \in {"next", "previous"}
  /\ status \in Statuses \cup {None} /\ limit \in Limits \cup {0}
  /\ offset \in 0..MaxTasks
  /\ count \in 0..created /\ wanted \subseteq 1..created /\ seen \subseteq 1..created
  /\ repeated \in 0..(MaxMoves + 1)
  /\ {skew, entered, left, slipped} \subseteq Nat

\* Along next, a walk misses a row that is there all the time only for one that
\* left the listing before it, or for one that entered between a count and its
\* page.  Along previous, it misses one for each that entered, and those before
\* the first page boundary if it did not start at one.
MissedByMoves ==
  pc = "done" /\ limit > 0 =>
    Cardinality(Missed) <= IF rel = "next" THEN left + slipped ELSE entered + skew

\* It gets a row twice only for one that entered, or along previous left.
RepeatedByMoves ==
  limit > 0 => repeated <= IF rel = "next" THEN entered ELSE left

\* Each walk ends once the rows keep their places, though the links lead up to
\* the empty page behind the last row (<=).  Pages of no rows (limit 0) link to
\* themselves.
WalkEnds == (Walking /\ limit > 0) ~> pc = "done"
=============================================================================
