----------------------------- MODULE MCBackend -----------------------------
(* Small instances of Backend for TLC. *)
EXTENDS Backend, TLC

CONSTANTS f, g, do, s1, p1, p0, t1, t2

MCTwo       == {f, g}
MCOne       == {f}
MCSources   == {s1}
MCGrants    == {p0, p1}
MCSlots     == {t1, t2}
MCOneSlot   == {t1}
=============================================================================
