---------------------------- MODULE BoefjeRanker ----------------------------
(***************************************************************************)
(* The priority of a boefje task, from the age of the last one of its hash: *)
(* BoefjeRanker.rank of rankers/boefje.py under the populator, which ranks a *)
(* task that has passed its grace period and makes a new record of it.      *)
(*                                                                          *)
(* A tick stands for a second, and a day has fewer of them.                  *)
(***************************************************************************)
EXTENDS Integers

CONSTANTS
  MAX_PRIORITY, MAX_DAYS,
  Day,       \* ticks of a day
  Grace,     \* pq_populate_grace_period, in ticks
  None,      \* there is no earlier task
  MaxAge     \* bound: ages that are told apart

VARIABLES
  age,       \* of the last task of the hash: now - prior_tasks[0].modified_at
  ranked     \* history: the age at the last call of rank, and its result

vars == <<age, ranked>>

max_days == MAX_DAYS * Day

Init ==
  /\ age = None
  /\ ranked = [age |-> None, score |-> 2]

\* timedelta.seconds is what is left of the difference without its days; it is
\* not negative for a negative difference either.
run_since_grace_period(a) == (a - Grace) % Day

\* The integer part of MAX_PRIORITY * e ^ (-(ln MAX_PRIORITY / max_days) * x) + 2,
\* which is the root of order max_days of MAX_PRIORITY ^ (max_days - x), and 2.
Decay(x) ==
  2 + CHOOSE n \in 1..MAX_PRIORITY :
        n ^ max_days <= MAX_PRIORITY ^ (max_days - x) /\ MAX_PRIORITY ^ (max_days - x) < (n + 1) ^ max_days

rank(a) ==
  IF a = None THEN 2
  ELSE IF run_since_grace_period(a) < 0 THEN -1
  ELSE Decay(run_since_grace_period(a))

\* The populator ranks the task and pushes it: it has a new record.
Rank ==
  /\ age # None => age >= Grace
  /\ ranked' = [age |-> age, score |-> rank(age)]
  /\ age' = 0

Tick ==
  /\ age # None /\ age < MaxAge
  /\ age' = age + 1
  /\ UNCHANGED ranked

Next == Rank \/ Tick

Spec == Init /\ [][Next]_vars

----------------------------------------------------------------------------
(* What the docstring says, where the code differs.                          *)

\* "We want a task to get a priority of 3 when `max_days` days are gone by, and
\* thus it should have a lower bound of 3 for every day past those `max_days`"
\* (BoefjeRanker.rank).
ThreeAfterMaxDays ==
  ranked.age # None /\ ranked.age >= Grace + max_days => ranked.score = 3
=============================================================================
