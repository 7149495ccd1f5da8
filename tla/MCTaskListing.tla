--------------------------- MODULE MCTaskListing ---------------------------
(* A small instance of TaskListing for TLC.                                  *)
EXTENDS TaskListing
=============================================================================
