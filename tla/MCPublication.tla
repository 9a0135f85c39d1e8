---------------------------- MODULE MCPublication ----------------------------
(* Values of Publication's constants for TLC.                              *)
EXTENDS Publication, TLC

CONSTANTS c1, c2, c3, broken, beta

\* Safety: three documents, so that a namespace can move on twice; a label
\* next to those numbering gives, and one that it cannot continue.
MCContents == {c1, c2, c3}
MCExplicitVersions == {<<1, 1, 0>>, beta}
MCUnnumbered == {beta}
MCNone == {}

\* Liveness: fewer documents, one that does not parse, and the first label.
MCFewContents == {c1, c2, broken}
MCMalformed == {broken}
MCFewExplicit == {<<1, 0, 0>>}

\* Requests are interchangeable, and so are the three documents.
MCSymmetry == Permutations(Workers) \cup Permutations(MCContents)
=============================================================================
