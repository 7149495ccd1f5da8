-------------------------- MODULE MCKatalogusCache --------------------------
(* Small instances of KatalogusCache for TLC.                                *)
EXTENDS KatalogusCache

CONSTANTS org1, org2, n1, n2, p1, p2, main

TwoThreads == {p1, p2}
=============================================================================
