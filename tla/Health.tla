-------------------------------- MODULE Health --------------------------------
(***************************************************************************)
(* The health of a namespace, put together from one table after another    *)
(* while they change: the terms of the current version, those never        *)
(* queried, those without an owner, and the mappings that are disputed or  *)
(* whose targets are deprecated or cannot be known.  What cannot be        *)
(* measured is reported as such, never as nought.  Nothing is stored.      *)
(*                                                                         *)
(* The window in which a term counts as referenced is longer than any      *)
(* behaviour here.  The age of the version, its SHACL violations, versions *)
(* not projected and the number of questions are left out.                 *)
(***************************************************************************)
EXTENDS AccessLog, TermMappings

Unmeasured == None

\* measure: the versions, of which the current one.
BeginHealth(w, n) ==
    /\ n \in Readable
    /\ Ask(w, [kind |-> "health", pc |-> "terms", ns |-> n, version |-> CurrentApproved(n),
               terms |-> Unmeasured, unreferenced |-> Unmeasured, ownerless |-> Unmeasured,
               from |-> current, rows |-> {}, disputed |-> 0, todo |-> <<>>, states |-> <<>>])
    /\ UNCHANGED <<vocabulary, trail, records, registers>>

\* _measure_from_blob: its terms under base_iri, none if there is no version.
ReadTerms(w) ==
    /\ request[w].kind = "health" /\ request[w].pc = "terms"
    /\ LET r == request[w]
           terms == IF r.version = 0 THEN {}
                    ELSE DOMAIN Content[r.ns][r.version] \cap Under[r.ns]
       IN  \/ Goes(w, [r EXCEPT !.pc = "access", !.terms = terms])
           \/ /\ r.version # 0 /\ Spend("fault")
              /\ request' = [request EXCEPT ![w].pc = "access"]
              /\ UNCHANGED asked
    /\ UNCHANGED <<vocabulary, trail, records, registers>>

\* compute_health: the terms of the version that meet neither table.
Among(terms, S) == IF terms = Unmeasured THEN Unmeasured ELSE terms \cap S

ReadStatistics(w) ==
    /\ request[w].kind = "health" /\ request[w].pc = "access"
    /\ LET r == request[w]
       IN  Goes(w, [r EXCEPT !.pc = "owners",
                !.unreferenced = Among(r.terms, {t \in Terms : counts[<<r.ns, t>>] = 0})])
    /\ UNCHANGED <<vocabulary, trail, records, registers>>

ReadOwners(w) ==
    /\ request[w].kind = "health" /\ request[w].pc = "owners"
    /\ LET r == request[w]
           owned == {t \in Terms : RowsAt(owners, <<r.ns, t>>) # {}}
       IN  Goes(w, [r EXCEPT !.pc = "mappings", !.ownerless = Among(r.terms, Terms \ owned)])
    /\ UNCHANGED <<vocabulary, trail, records, registers>>

\* The mappings of the namespace and, in a second query, the other side.
ReadMappings(w) ==
    /\ request[w].kind = "health" /\ request[w].pc = "mappings"
    /\ LET rows == {mappings[i] : i \in Outgoing(request[w].ns)}
       IN  Goes(w, [request[w] EXCEPT !.pc = "other", !.rows = rows,
                        !.states = [t \in {m.key[3] : m \in rows} |-> Unknown]])
    /\ UNCHANGED <<vocabulary, trail, records, registers>>

CountDisputed(w) ==
    /\ request[w].kind = "health" /\ request[w].pc = "other"
    /\ LET r == request[w]
       IN  Goes(w, [r EXCEPT !.pc = "targets", !.todo = TargetNamespaces(r.rows),
                        !.disputed = Cardinality({m \in r.rows : Compared(m).disputed})])
    /\ UNCHANGED <<vocabulary, trail, records, registers>>

\* _count_target_status: by resolve_target_lifecycles, as for a list.
CountTargets(w) ==
    /\ request[w].kind = "health" /\ request[w].pc = "targets" /\ request[w].todo # <<>>
    /\ ResolveNamespace(w)
    /\ UNCHANGED <<vocabulary, trail, records, registers>>

AnswerHealth(w) ==
    /\ request[w].kind = "health" /\ request[w].pc = "targets" /\ request[w].todo = <<>>
    /\ Answers(w, request[w])
    /\ UNCHANGED <<vocabulary, trail, records, registers>>

DeprecatedTargets(r) == {m \in r.rows : r.states[m.key[3]].status = "deprecated"}
UnknownTargets(r) == {m \in r.rows : r.states[m.key[3]] = Unknown}

HealthNext ==
    \E w \in Workers :
        \/ \E n \in Namespaces : BeginHealth(w, n)
        \/ ReadTerms(w) \/ ReadStatistics(w) \/ ReadOwners(w) \/ ReadMappings(w)
        \/ CountDisputed(w) \/ CountTargets(w) \/ AnswerHealth(w)

-----------------------------------------------------------------------------
\* A report is about the terms of one version, current when it began; of those
\* it calls referenced each has been counted; what could not be read is not
\* reported as empty; and every mapping it counts as having a deprecated target
\* has one in a version approved since (measure of services/health.py).
HealthTruthful ==
    \A w \in Workers :
        LET r == request[w]
        IN  r.kind = "health" /\ r.pc = "answered" =>
               /\ r.version = r.from[r.ns]
               /\ r.terms = Unmeasured <=> r.unreferenced = Unmeasured
               /\ r.terms = Unmeasured <=> r.ownerless = Unmeasured
               /\ r.terms # Unmeasured =>
                     \A t \in r.terms \ r.unreferenced :
                        \E i \in DOMAIN log : log[i].ns = r.ns
                                              /\ \E k \in DOMAIN log[i].terms : log[i].terms[k] = t
               /\ \A m \in DeprecatedTargets(r) :
                     \E n \in Readable : \E v \in 1 .. current[n] :
                        v >= r.from[n] /\ m.key[3] \in DeprecatedIn(Content[n][v])
=============================================================================
