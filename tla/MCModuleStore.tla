--------------------------- MODULE MCModuleStore ---------------------------
(* Small instances of ModuleStore for TLC. *)
EXTENDS ModuleStore, TLC

CONSTANTS a, b, m, n, leaf, toN, toA

MCImportsOf ==
  [s \in Sources |->
     (leaf :> {} @@ toN :> {b, n} @@ toA :> {a})[s]]

\* Two modules and two bare names: a imports b and the name n, or nothing;
\* b imports a, which is a cycle.
MCServed == a :> {Absent, leaf, toN} @@ b :> {Absent, toA}
MCCaps   == {{a}, {a, b}}
=============================================================================
