--------------------------- MODULE MCBoefjeRanker ---------------------------
(* A small instance of BoefjeRanker for TLC.                                 *)
EXTENDS BoefjeRanker
=============================================================================
