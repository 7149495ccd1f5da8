----------------------- MODULE MCNormalizerScheduler -----------------------
(* Small instances of NormalizerScheduler for TLC.  r1 and r2 come from the  *)
(* same run b1, r3 from b2; r2 has an error.  n1 takes both mime types, n2   *)
(* only m2, and n3, which takes m1, is disabled.                             *)
EXTENDS NormalizerScheduler

CONSTANTS r1, r2, r3, b1, b2, m1, m2, n1, n2, n3

BoefjeMeta == [r \in Raws |-> IF r = r3 THEN b2 ELSE b1]
MimeTypesOf == [r \in Raws |-> IF r = r1 THEN {m1, m2} ELSE {m1}]
HasError == [r \in Raws |-> r = r2]
NoError == [r \in Raws |-> FALSE]
NormalizersFor == [m \in MimeTypes |-> IF m = m1 THEN {n1, n3} \cap Normalizers
                                                 ELSE {n1, n2} \cap Normalizers]
Enabled == [n \in Normalizers |-> n # n3]
=============================================================================
