------------------------------- MODULE MCApp -------------------------------
(* Small instances of App for TLC.  With populating switched off              *)
(* (SCHEDULER_BOEFJE_POPULATE, SCHEDULER_NORMALIZER_POPULATE) a boefje        *)
(* scheduler runs no thread and a normalizer scheduler its reader of results. *)
EXTENDS App

StatusThread == [k \in Kinds |-> IF k = "boefje" THEN {} ELSE {"status"}]
=============================================================================
