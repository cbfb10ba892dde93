----------------------------- MODULE IdRegistry -----------------------------
(***************************************************************************)
(* What a symbol table file promises to the processes that share it: a     *)
(* symbol without an id gets the next one, and the ids given stay.         *)
(***************************************************************************)
EXTENDS Integers, Sequences

CONSTANT Symbol

VARIABLE given      \* the symbols that have an id, in the order of their ids

Distinct(q) == \A i, j \in DOMAIN q : q[i] = q[j] => i = j

Init == given \in Seq(Symbol) /\ Distinct(given)

Give(s) ==
  /\ \A i \in DOMAIN given : given[i] # s
  /\ given' = Append(given, s)

Next == \E s \in Symbol : Give(s)

Spec == Init /\ [][Next]_given
=============================================================================
