-------------------------- MODULE MCModelProcesses --------------------------
(* TLC instances of ModelProcesses: tasks t1, t2, t3, functions f and g,    *)
(* executables a and b with their host paths ha and hb.                     *)
EXTENDS ModelProcesses

CONSTANTS t1, t2, t3, f, g, a, b, ha, hb, none

MCHostPath == [s \in Target |-> IF s = a THEN ha ELSE hb]

\* The largest task first.
MCtids == <<t1, t2, t3>>
MCtidsOfTwo == <<t1, t2>>

\* .satmodh is new, or has a line of an earlier processing.
MCNoLeftover == <<>>
MCLeftover == <<hb>>
=============================================================================
