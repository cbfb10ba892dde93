--------------------------- MODULE MCAddressSpaces ---------------------------
(* TLC instance of AddressSpaces: one process is there when recording starts, *)
(* with an executable mapped; another one may be forked.                      *)
EXTENDS AddressSpaces

CONSTANTS x, y
MCFirst == <<1>>
MCMapped == [p \in Pid |-> [a \in UserAddr |-> IF a = 2 THEN x ELSE None]]
=============================================================================
