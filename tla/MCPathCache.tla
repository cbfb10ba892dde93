---------------------------- MODULE MCPathCache ----------------------------
(* TLC instances of PathCache: processes p1, p2, p3; paths a, on the host,  *)
(* and b, which is not.                                                     *)
EXTENDS PathCache

CONSTANTS p1, p2, p3, a, b

\* All three need a, and two of them b as well.
MCNeeds == [p \in Task |-> IF p = p1 THEN {a} ELSE {a, b}]

\* Everybody needs everything.
MCNeedsAll == [p \in Task |-> Target]
=============================================================================
