------------------------------ MODULE TermSearch ------------------------------
(***************************************************************************)
(* The index of the terms of each namespace, a projection of one approved  *)
(* version, and searches of it.  A rebuild reads the version, has its      *)
(* terms embedded by a remote model, and replaces all rows of the          *)
(* namespace in one transaction; two rebuilds may overlap.  A search       *)
(* queries the index along two routes, one statement after the other, and  *)
(* fuses them; the index may be replaced in between.                       *)
(*                                                                         *)
(* A question is what the two routes make of it: the terms that are close  *)
(* enough by trigrams and all terms by the model, each from the closest.   *)
(***************************************************************************)
EXTENDS Vocabulary

CONSTANTS Questions,   \* records [trigram, vector] of sequences of terms
          Limits,      \* limits that are asked for
          MaxLimit,    \* MAX_LIMIT
          RrfK         \* RRF_K

VARIABLE index         \* term_embeddings: committed rows

ASSUME Search ==
    /\ \A q \in Questions : /\ q.trigram \in Seq(Terms) /\ q.vector \in Seq(Terms)
                           /\ \A t \in Terms : \E i \in DOMAIN q.vector : q.vector[i] = t
    /\ Limits \subseteq Nat /\ MaxLimit \in Nat \ {0} /\ RrfK \in Nat

SearchInit == index = {}

RowsIn(n) == {row \in index : row.ns = n}

\* term_texts: of the subjects, classes and properties only.
Embedded(content) == {t \in DOMAIN content : content[t].typed}

\* The rows of version v, written by the rebuild begun at `by`.
Texts(n, v, by) == {[ns |-> n, term |-> t, version |-> v, by |-> by,
                     deprecated |-> Content[n][v][t].deprecated] : t \in Embedded(Content[n][v])}

-----------------------------------------------------------------------------
\* Rebuilding.  A namespace that is not retired, and its approved version,
\* which has terms to embed.
BeginRebuild(w, n) ==
    /\ n \notin retired /\ CurrentApproved(n) # 0
    /\ Embedded(Content[n][CurrentApproved(n)]) # {}
    /\ Ask(w, [kind |-> "rebuild", pc |-> "embed", ns |-> n, version |-> CurrentApproved(n),
               by |-> asked, doomed |-> {}, aid |-> 0])
    /\ UNCHANGED <<vocabulary, trail, index>>

\* The deletion has begun when its statement has seen the committed rows.
Embed(w) ==
    /\ request[w].kind = "rebuild" /\ request[w].pc = "embed"
    /\ Goes(w, [request[w] EXCEPT !.pc = "delete", !.doomed = RowsIn(request[w].ns)])
    /\ UNCHANGED <<vocabulary, trail, index>>

\* Blob cannot be read or the model fails, for some batch: 404, nothing done.
EmbedFails(w) ==
    /\ request[w].kind = "rebuild" /\ request[w].pc = "embed" /\ Spend("fault")
    /\ request' = [request EXCEPT ![w] = Idle]
    /\ UNCHANGED <<asked, vocabulary, trail, index>>

\* What a transaction has locked by deleting or inserting it.
Deleting(x) == IF request[x].kind = "rebuild" /\ request[x].pc \in {"insert", "inserted"}
               THEN request[x].doomed ELSE {}
Inserting(x) == IF request[x].kind = "rebuild" /\ request[x].pc = "inserted"
                THEN Texts(request[x].ns, request[x].version, request[x].by) ELSE {}

\* It waits for rows that another is deleting, and leaves those alone that
\* are gone by then; it does not see what others inserted since.
DeleteTerms(w) ==
    /\ request[w].kind = "rebuild" /\ request[w].pc = "delete"
    /\ \A x \in Workers \ {w} : Deleting(x) \cap request[w].doomed = {}
    /\ Goes(w, [request[w] EXCEPT !.pc = "insert", !.doomed = @ \cap index])
    /\ UNCHANGED <<vocabulary, trail, index>>

SameTerm(rows, others) == \E a \in rows, b \in others : a.ns = b.ns /\ a.term = b.term

\* Mutant: there is no unique constraint on namespace and term_iri.
InsertedAnyway(rows, others) == FALSE

\* uq_term_embeddings_ns_term.
Duplicates(rows, others) == SameTerm(rows, others)

\* The insertions wait for those of the same terms, and fail on a committed row.
InsertTerms(w) ==
    /\ request[w].kind = "rebuild" /\ request[w].pc = "insert"
    /\ LET r == request[w]
           rows == Texts(r.ns, r.version, r.by)
       IN  /\ \A x \in Workers \ {w} : ~SameTerm(rows, Inserting(x))
           /\ IF Duplicates(rows, index \ r.doomed)
              THEN Refused(w) /\ UNCHANGED lastAudit
              ELSE /\ Goes(w, [r EXCEPT !.pc = "inserted", !.aid = lastAudit + 1])
                   /\ Audited
    /\ UNCHANGED <<vocabulary, audit, index>>

CommitRebuild(w) ==
    /\ request[w].kind = "rebuild" /\ request[w].pc = "inserted"
    /\ index' = (index \ Deleting(w)) \cup Inserting(w)
    /\ audit' = AuditRow(request[w], request[w].aid)
    /\ Answers(w, request[w])
    /\ UNCHANGED <<vocabulary, lastAudit>>

-----------------------------------------------------------------------------
ClampLimit(limit) == IF limit < 1 THEN 1 ELSE IF limit > MaxLimit THEN MaxLimit ELSE limit

Cut(s, limit) == SubSeq(s, 1, IF Len(s) < limit THEN Len(s) ELSE limit)

\* The first `limit` rows of the index in the order of one route.
Route(n, order, limit) ==
    LET there == Chosen(order, {i \in DOMAIN order : \E row \in RowsIn(n) : row.term = order[i]})
        best  == Cut(there, limit)
    IN  [i \in DOMAIN best |-> CHOOSE row \in RowsIn(n) : row.term = best[i]]

RankIn(rows, t) == IF \E i \in DOMAIN rows : rows[i].term = t
                   THEN CHOOSE i \in DOMAIN rows : rows[i].term = t ELSE 0

\* 1 / (RRF_K + rank) on each route; two sums are compared as fractions.
Share(rank) == IF rank = 0 THEN <<0, 1>> ELSE <<1, RrfK + rank>>
Score(vector, trigram, t) ==
    LET a == Share(RankIn(vector, t))
        b == Share(RankIn(trigram, t))
    IN  <<a[1] * b[2] + b[1] * a[2], a[2] * b[2]>>
Above(a, b) == a[1] * b[2] > b[1] * a[2]

CodePoint(t) == CHOOSE i \in DOMAIN TermOrder : TermOrder[i] = t

\* fuse: by score, then by code point; a term met on both routes has the text
\* and the deprecation of its row on the vector route.
Fuse(vector, trigram, limit) ==
    LET terms == {vector[i].term : i \in DOMAIN vector}
                    \cup {trigram[i].term : i \in DOMAIN trigram}
        S(t)  == Score(vector, trigram, t)
        Before(t, u) == \/ Above(S(t), S(u))
                        \/ ~Above(S(u), S(t)) /\ CodePoint(t) < CodePoint(u)
        At(i) == CHOOSE t \in terms : Cardinality({u \in terms : Before(u, t)}) + 1 = i
        Meta(t) == IF RankIn(vector, t) # 0 THEN vector[RankIn(vector, t)]
                   ELSE trigram[RankIn(trigram, t)]
    IN  Cut([i \in 1 .. Cardinality(terms) |-> Meta(At(i))], limit)

\* search_terms: count, then the trigram route.
BeginSearch(w, n, q, limit) ==
    /\ Ask(w, [kind |-> "search", pc |-> "trigram", ns |-> n, question |-> q,
               limit |-> ClampLimit(limit), embedded |-> Cardinality(RowsIn(n)),
               trigram |-> <<>>, vector |-> <<>>, available |-> TRUE, hits |-> <<>>])
    /\ UNCHANGED <<vocabulary, trail, index>>

SearchTrigram(w) ==
    /\ request[w].kind = "search" /\ request[w].pc = "trigram"
    /\ LET r == request[w]
       IN  Goes(w, [r EXCEPT !.pc = "vector", !.available = r.embedded # 0,
                             !.trigram = Route(r.ns, r.question.trigram, r.limit)])
    /\ UNCHANGED <<vocabulary, trail, index>>

\* The vector route, if anything was embedded when the rows were counted.
SearchVector(w) ==
    /\ request[w].kind = "search" /\ request[w].pc = "vector"
    /\ LET r == request[w]
           vector == IF r.available THEN Route(r.ns, r.question.vector, r.limit) ELSE <<>>
       IN  Answers(w, [r EXCEPT !.vector = vector, !.hits = Fuse(vector, r.trigram, r.limit)])
    /\ UNCHANGED <<vocabulary, trail, index>>

\* The question cannot be embedded: the trigram route alone, and a note.
QuestionNotEmbedded(w) ==
    /\ request[w].kind = "search" /\ request[w].pc = "vector" /\ request[w].available
    /\ Spend("fault")
    /\ LET r == request[w]
       IN  request' = [request EXCEPT ![w] =
                          [r EXCEPT !.pc = "answered", !.available = FALSE,
                                    !.hits = Fuse(<<>>, r.trigram, r.limit)]]
    /\ UNCHANGED <<asked, vocabulary, trail, index>>

SearchNext ==
    \E w \in Workers :
        \/ \E n \in Namespaces : \/ BeginRebuild(w, n)
                                 \/ \E q \in Questions, k \in Limits : BeginSearch(w, n, q, k)
        \/ Embed(w) \/ EmbedFails(w) \/ DeleteTerms(w) \/ InsertTerms(w) \/ CommitRebuild(w)
        \/ SearchTrigram(w) \/ SearchVector(w) \/ QuestionNotEmbedded(w)

-----------------------------------------------------------------------------
IndexTypes == \A row \in index : row.ns \in Namespaces /\ row.term \in Terms

\* The index never has a part of a version, nor a term twice, however rebuilds
\* overlap: each row is as a rebuild read it in a version that was approved, with
\* all others of that rebuild, and one row for a term, because the unique key
\* fails one of two rebuilds that would meet (rebuild_embeddings, replace).  The
\* rows may be of two versions: approval compares subjects, classes or not, so
\* that two versions need have no embedded term in common, and then the key has
\* nothing to refuse when both rebuilds deleted before either committed.
\* And a search answers within its limit, no term twice, and only with terms as
\* they were in an approved version; it says that the vector route was available
\* exactly if that route found rows (search_terms).
SearchSound ==
    /\ \A row \in index :
          /\ row.version \in 1 .. current[row.ns]
          /\ row \in Texts(row.ns, row.version, row.by)
          /\ Texts(row.ns, row.version, row.by) \subseteq index
    /\ \A a, b \in index : a.ns = b.ns /\ a.term = b.term => a = b
    /\ \A w \in Workers :
          LET r == request[w]
          IN  r.kind = "search" /\ r.pc = "answered" =>
                 /\ Len(r.hits) <= r.limit
                 /\ \A i, j \in DOMAIN r.hits : r.hits[i].term = r.hits[j].term => i = j
                 /\ \A i \in DOMAIN r.hits :
                       \E v \in 1 .. current[r.ns] :
                          r.hits[i] \in Texts(r.ns, v, r.hits[i].by)
                 /\ r.available <=> r.vector # <<>>
=============================================================================
