----------------------------- MODULE MCCatalog -----------------------------
(* Values of Catalog's constants for TLC.                                  *)
EXTENDS Catalog, TLC

CONSTANTS n1, n2, t1, t2, a, b

\* One table, and then another column of it and a second table.
MCFirst == t1 :> {a}
MCSecond == (t1 :> {b}) @@ (t2 :> {a})
MCShapes == {MCFirst, MCSecond}

MCSweepOrder == <<n1, n2>>

\* Only the first source changes.
MCChanges == (n1 :> 1) @@ (n2 :> 0)
=============================================================================
