---------------------------- MODULE SparqlGateway ----------------------------
(***************************************************************************)
(* Queries of the default graph of a namespace.  A query is a form and the *)
(* terms it asks for; its answer is one row, or one triple, for each of    *)
(* them that the served version has as a subject.  The gateway caps rows   *)
(* and refuses graphs, asks the store a second time which terms are        *)
(* deprecated, reads the current version, and records what it answered;    *)
(* the graph may be replaced before each of these steps.                   *)
(***************************************************************************)
EXTENDS AccessLog

CONSTANTS Asked,        \* queries: records with a form and the terms wanted
          MaxResults,   \* SPARQL_MAX_RESULTS
          MaxTriples    \* SPARQL_MAX_TRIPLES

\* query_form, and the forms that ensure_agent_safe_query lets through.
Forms == {"select", "ask", "construct", "describe", "update", "service", "unknown"}
SafeForms == Forms \ {"update", "service", "unknown"}
ReturnsRdf(form) == form \in {"construct", "describe"}

ASSUME Gateway ==
    /\ \A q \in Asked : q.form \in Forms /\ q.want \subseteq Terms
    /\ MaxResults \in Nat /\ MaxTriples \in Nat

-----------------------------------------------------------------------------
\* Not retired, and a query that may be put to the store.  `from` is a ghost:
\* the version the answer comes from.
BeginQuery(w, n, q) ==
    /\ n \notin retired /\ q.form \in SafeForms
    /\ Ask(w, [kind |-> "query", pc |-> "send", ns |-> n, form |-> q.form, want |-> q.want,
               since |-> asked, from |-> 0, rows |-> <<>>, delivered |-> <<>>,
               truncated |-> FALSE, warned |-> {}, rec |-> NoRecord])
    /\ UNCHANGED <<vocabulary, trail, records>>

\* The answer of the store: an ASK has no rows.
Bindings(r) ==
    IF served[r.ns] = 0 \/ r.form = "ask" THEN <<>>
    ELSE Sorted(r.want \cap DOMAIN Content[r.ns][served[r.ns]])

\* cap_bindings.
CapBindings(rows) ==
    IF Len(rows) <= MaxResults THEN [payload |-> rows, truncated |-> FALSE]
    ELSE [payload |-> SubSeq(rows, 1, MaxResults), truncated |-> TRUE]

\* The first query to the store; the dataset of a namespace that was retired
\* meanwhile may be gone, or the store fail: 502.
SendSelect(w) ==
    /\ request[w].kind = "query" /\ request[w].pc = "send"
    /\ ~ReturnsRdf(request[w].form)
    /\ LET rows == Bindings(request[w])
           capped == CapBindings(rows)
       IN  Goes(w, [request[w] EXCEPT !.pc = "warn", !.from = served[request[w].ns], !.rows = rows,
                        !.delivered = capped.payload, !.truncated = capped.truncated])
    /\ UNCHANGED <<vocabulary, trail, records>>

\* load_construct_result: too large a graph is refused whole (413).
SendConstruct(w) ==
    /\ request[w].kind = "query" /\ request[w].pc = "send"
    /\ ReturnsRdf(request[w].form)
    /\ LET rows == Bindings(request[w])
       IN  IF Len(rows) > MaxTriples THEN Refused(w)
           ELSE Goes(w, [request[w] EXCEPT !.pc = "warn", !.from = served[request[w].ns],
                             !.rows = rows, !.delivered = rows])
    /\ UNCHANGED <<vocabulary, trail, records>>

StoreFails(w) ==
    /\ request[w].kind = "query" /\ request[w].pc = "send" /\ Spend("fault")
    /\ request' = [request EXCEPT ![w] = Idle]
    /\ UNCHANGED <<asked, vocabulary, trail, records>>

\* deprecated_terms_in_dataset: the second query.
DeprecatedTerms(n) == IF served[n] = 0 THEN {} ELSE DeprecatedIn(Content[n][served[n]])

\* deprecated_iris_in_results and deprecated_iris_in_graph.
Found(r, deprecated) == {r.delivered[i] : i \in DOMAIN r.delivered} \cap deprecated

\* A store that does not answer the second query means no warnings.
Warn(w) ==
    /\ request[w].kind = "query" /\ request[w].pc = "warn"
    /\ \/ /\ request' = [request EXCEPT ![w].pc = "record",
                             ![w].warned = Found(request[w], DeprecatedTerms(request[w].ns))]
          /\ UNCHANGED quota
       \/ /\ Spend("fault")
          /\ request' = [request EXCEPT ![w].pc = "record"]
    /\ UNCHANGED <<asked, vocabulary, trail, records>>

\* _row_count and count_triples; an ASK has neither, which is not 0.
RowCount(r, rows) == IF r.form = "ask" THEN None ELSE Len(rows)

\* Mutant: the rows delivered are counted, not those of the whole answer.
QueryRecordOfDelivered(r) ==
    Record(r, CurrentApproved(r.ns), None, 0, RowCount(r, r.delivered),
           ReturnedTerms(r.rows, r.ns))

\* The current version is read now, and the whole answer is counted.
QueryRecord(r) ==
    Record(r, CurrentApproved(r.ns), None, 0, RowCount(r, r.rows),
           IF ReturnsRdf(r.form)
           THEN TermsWithPrefix({r.rows[i] : i \in DOMAIN r.rows}, r.ns)
           ELSE ReturnedTerms(r.rows, r.ns))

\* _record_access.  The event is flushed and has its id.
RecordAccess(w) ==
    /\ request[w].kind = "query" /\ request[w].pc = "record"
    /\ Goes(w, Recording(request[w], QueryRecord(request[w])))
    /\ lastEvent' = lastEvent + 1
    /\ UNCHANGED <<vocabulary, trail, log, counts>>

GatewayNext ==
    \E w \in Workers :
        \/ \E n \in Namespaces, q \in Asked : BeginQuery(w, n, q)
        \/ SendSelect(w) \/ SendConstruct(w) \/ StoreFails(w)
        \/ Warn(w) \/ RecordAccess(w)

-----------------------------------------------------------------------------
\* An answer is honest: a SELECT that was cut says so, no graph is cut, the
\* warnings are about terms in it, the log has the length of the whole answer
\* and a version no older than the one it came from (run_query of sparql.py).
AnswerHonest ==
    /\ \A w \in Workers :
          LET r == request[w]
          IN  r.kind = "query" /\ r.pc = "answered" =>
                 /\ r.truncated <=> r.delivered # r.rows
                 /\ ReturnsRdf(r.form) => r.delivered = r.rows
                 /\ r.warned \subseteq {r.delivered[i] : i \in DOMAIN r.delivered}
    /\ \A i \in DOMAIN log :
          log[i].source = None => /\ log[i].rows \in {None, Len(log[i].complete)}
                                  /\ log[i].rows = None => log[i].terms = <<>>
                                  /\ log[i].version >= log[i].from
=============================================================================
