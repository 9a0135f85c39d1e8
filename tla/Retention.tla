------------------------------ MODULE Retention ------------------------------
(***************************************************************************)
(* ontology_core.retention: which versions of a namespace the triple store *)
(* should hold, as a function of their states.  Versions are numbered in   *)
(* the order of their labels; approvedAt is 0 where the column is NULL.    *)
(***************************************************************************)
EXTENDS Naturals, FiniteSets

InState(status, s) == {v \in DOMAIN status : status[v] = s}

\* The sort key: approved_at, then the label.
Newer(approvedAt, u, v) == \/ approvedAt[u] > approvedAt[v]
                           \/ approvedAt[u] = approvedAt[v] /\ u > v

\* The current version: the newest of the approved ones, if there are any.
CurrentOf(status, approvedAt) ==
    {v \in InState(status, "approved") :
        \A u \in InState(status, "approved") \ {v} : Newer(approvedAt, v, u)}

\* The `retain` newest superseded versions.
Retained(status, approvedAt, retain) ==
    {v \in InState(status, "superseded") :
        Cardinality({u \in InState(status, "superseded") :
                        Newer(approvedAt, u, v)}) < retain}

\* decide_projection, as the versions to load into the default graph and into
\* their named graphs.  All others are skipped.
Targets(status, approvedAt, retain) ==
    [default |-> CurrentOf(status, approvedAt),
     named   |-> InState(status, "approved") \cup InState(status, "in-review")
                     \cup Retained(status, approvedAt, retain)]
=============================================================================
