----------------------------- MODULE MCSessions -----------------------------
(* Small instances of Sessions for TLC. *)
EXTENDS Sessions

CONSTANTS a, b

\* A function imports one module or both; a DO block imports both.
MCImportSets ==
  [o \in Owners |-> IF o = DoBlock THEN {{a, b}} ELSE {{a}, {a, b}}]

\* DO blocks that differ in what they import.
MCDoImportSets == [o \in Owners |-> IF o = DoBlock THEN {{a}, {a, b}} ELSE {{}}]
=============================================================================
