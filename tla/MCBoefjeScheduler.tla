------------------------- MODULE MCBoefjeScheduler -------------------------
(* Small instances of BoefjeScheduler for TLC.  b1 and b2 are alike and may   *)
(* run on the object, b3 is disabled.                                        *)
EXTENDS BoefjeScheduler

CONSTANTS b1, b2, b3, o1, c1

Plugin == [b \in Boefjes |-> [enabled |-> b # b3, scan_level |-> 1]]

\* The client pushes the task of b1 with the priorities that the ranker gives.
RankedJobs == {<<b1, o1>>} \X {2, 3}

ScanLevel == [o \in OOIs |-> 3]

\* Every boefje takes its type.
AllBoefjes == [o \in OOIs |-> Boefjes]
=============================================================================
