--------------------------- MODULE MCModuleCaches ---------------------------
(* Small instances of ModuleCaches for TLC. *)
EXTENDS ModuleCaches, TLC

CONSTANTS a, b, m, n, v, w

\* No imports, one name with either URL, and two names.
MCImportMaps ==
  { m :> Absent @@ n :> Absent, m :> a @@ n :> Absent,
    m :> b @@ n :> Absent, m :> a @@ n :> b }

\* No imports, and two names with their URLs one way or the other.
MCSwappedMaps ==
  {m :> Absent @@ n :> Absent, m :> a @@ n :> b, m :> b @@ n :> a}

\* Two versions of a.
MCServed == a :> {v, w} @@ b :> {v}

\* One version of each module.
MCServedOnce == a :> {v} @@ b :> {v}

\* Functions, and bodies, are interchangeable.
MCSymmetry == Permutations(Oids) \cup Permutations(Bodies)
=============================================================================
