------------------------------ MODULE MCValues ------------------------------
(* A small instance of Values for TLC. *)
EXTENDS Values

CONSTANTS t, u

\* t is the text of the string u, and u is the text of a typed parameter whose
\* value is no float8.
MCJsonText ==
  [x \in Texts |-> IF x = t THEN <<"text", u>> ELSE <<"param", Num(Pow2[W8 + 1] + 1), <<"json">>>>]
=============================================================================
