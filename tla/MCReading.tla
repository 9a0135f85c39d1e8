------------------------------ MODULE MCReading ------------------------------
(* Values of Reading's constants for TLC.                                  *)
EXTENDS Reading, TLC

CONSTANTS n1, n2, t1, t2, t3, u1, s1, x1, x2, o1, o2

MCTermOrder == <<t1, t2, t3, u1>>

\* The base IRI of n2 extends that of n1.
MCUnder == (n1 :> {t1, t2, t3, u1}) @@ (n2 :> {u1})
MCBaseLength == (n1 :> 1) @@ (n2 :> 2)

A == [deprecated |-> FALSE, successors |-> {}, reason |-> FALSE, typed |-> TRUE]
D(succ, why) == [deprecated |-> TRUE, successors |-> succ, reason |-> why, typed |-> TRUE]
Untyped(entry) == [entry EXCEPT !.typed = FALSE]

\* n1: t3 is added, t2 replaced by t1, and neither is a class any more; then
\* t3 is dropped, which blocks unless the base was version 1.
\* n2: u1 is deprecated without a successor, but for a reason.
MCContent == (n1 :> << (t1 :> A) @@ (t2 :> A),
                       (t1 :> Untyped(A)) @@ (t2 :> Untyped(D({t1}, FALSE))) @@ (t3 :> A),
                       (t1 :> A) @@ (t2 :> D({t1}, FALSE)) >>)
             @@ (n2 :> << (u1 :> A), (u1 :> D({}, TRUE)), (u1 :> D({}, FALSE)) >>)

MCKinds == {"approve", "project", "retire", "revive", "crash", "fault",
            "query", "log", "audit", "purge",
            "revise", "register", "remove", "scan", "askSource",
            "declare", "revoke", "list", "assign", "unassign", "resolve",
            "rebuild", "search", "export", "measure", "health"}

\* What a behaviour is made of: one of these loads.
Load(some) == [k \in MCKinds |-> IF k \in DOMAIN some THEN some[k] ELSE 0]
MCQuotas ==
    {Load([query |-> 2, approve |-> 1, project |-> 1]),
     Load([query |-> 1, approve |-> 1, project |-> 1, fault |-> 2]),
     Load([query |-> 2, retire |-> 1, revive |-> 1, crash |-> 1]),
     Load([query |-> 2, purge |-> 1]),
     Load([revise |-> 2, approve |-> 1, scan |-> 1, fault |-> 1]),
     Load([revise |-> 2, remove |-> 1, register |-> 1, crash |-> 1]),
     Load([revise |-> 1, askSource |-> 2, retire |-> 1, audit |-> 1, fault |-> 1]),
     Load([revise |-> 1, askSource |-> 2, log |-> 1, purge |-> 1]),
     Load([revise |-> 1, measure |-> 1, approve |-> 1, remove |-> 1, crash |-> 1]),
     Load([declare |-> 2, revoke |-> 1, audit |-> 1]),
     Load([declare |-> 2, export |-> 1]),
     Load([rebuild |-> 2, declare |-> 1, audit |-> 1]),
     Load([declare |-> 2, list |-> 1, approve |-> 1, fault |-> 1]),
     Load([health |-> 1, query |-> 1, declare |-> 1]),
     Load([health |-> 1, assign |-> 1, declare |-> 1, approve |-> 1, fault |-> 1]),
     Load([assign |-> 2, unassign |-> 1, resolve |-> 1]),
     Load([rebuild |-> 3, approve |-> 1, crash |-> 1]),
     Load([rebuild |-> 2, search |-> 1, approve |-> 2, fault |-> 1])}

MCAsked == {[form |-> "select", want |-> {t1, t2}],
            [form |-> "construct", want |-> {t1, t2, t3, u1}],
            [form |-> "ask", want |-> {t1}],
            [form |-> "update", want |-> {t1}]}

MCNamespaceOf == s1 :> n1
OneMapping(classes, predicates, tables) ==
    [wellFormed |-> TRUE, inside |-> TRUE,
     classes |-> classes, predicates |-> predicates, tables |-> tables]
MCMappings == {OneMapping({t1}, {t2}, {x1}),
               OneMapping({t1}, {}, {x1, x2}),
               OneMapping({}, {u1}, {x2}),
               [OneMapping({t1}, {}, {x1}) EXCEPT !.inside = FALSE],
               [OneMapping({}, {}, {}) EXCEPT !.wellFormed = FALSE]}
MCCatalogs == {{x1}, {x1, x2}}

MCClaims == {<<n1, t1, u1>>, <<n2, u1, t2>>}
MCNamespaceSeq == <<n1, n2>>
MCOwned == {<<n1, t1>>, <<n2, u1>>}
MCOwnersOf == (n1 :> {o1}) @@ (n2 :> {})

\* A shape with two target classes, and one whose properties exceed the limit.
MCTargets == (n1 :> << << [shape |-> "S", class |-> t1, paths |-> <<t2, u1>>],
                          [shape |-> "S", class |-> t3, paths |-> <<>>],
                          [shape |-> "T", class |-> t1, paths |-> <<t2>>] >>,
                       << [shape |-> "S", class |-> t1, paths |-> <<t2>>],
                          [shape |-> "U", class |-> t2, paths |-> <<t3>>] >>, <<>> >>)
             @@ (n2 :> << <<>>, <<>>, <<>> >>)

MCFirstCatalog == {x1}

MCQuestions == {[trigram |-> <<t2, t1>>, vector |-> <<t3, t1, t2, u1>>],
                [trigram |-> <<u1>>, vector |-> <<u1, t2, t3, t1>>]}

Symmetric == Permutations(Workers)
=============================================================================
