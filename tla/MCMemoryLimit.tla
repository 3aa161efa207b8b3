--------------------------- MODULE MCMemoryLimit ---------------------------
(* Three sends of two sizes against a budget that holds one large, two small *)
(* or only one small payload; both policies and the unlimited budget too.    *)
EXTENDS MemoryLimit

CONSTANTS s1, s2, s3

MCSenders == {s1, s2, s3}
MCBytes == [s \in MCSenders |-> IF s = s1 THEN 2 ELSE 1]
MCLimits == {0, 1, 2}
=============================================================================
