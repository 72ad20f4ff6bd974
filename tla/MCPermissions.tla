--------------------------- MODULE MCPermissions ---------------------------
(* Small instances of Permissions for TLC. *)
EXTENDS Permissions, TLC

CONSTANTS i1, i2, bad, r1, r2, read

MCItems  == {i1, i2, bad}
MCCovers == i1 :> {r1} @@ i2 :> {r2} @@ bad :> {}
MCUnder  == i1 :> {r1} @@ i2 :> {} @@ bad :> {}

\* One kind of code, every form of text.
MCOneKind == {"function"}
MCTexts ==
  read :> {Blank, Star, List({}), List({i1}), List({i1, i2})}
  @@ Import :> {Blank, List({i2}), List({i1, bad})}
  @@ PgExecute :> {Blank, List({i1})}
MCImportCaps == {Blank, List({i2}), List({i1, bad})}

\* Functions and DO blocks, side by side.
MCBothKinds == {"function", "do"}
MCFewTexts ==
  Import :> {Blank, List({i1}), List({i2})} @@ PgExecute :> {Blank, Off, Star}
MCFewImportCaps == {Blank}
=============================================================================
