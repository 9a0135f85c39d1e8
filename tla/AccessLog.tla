------------------------------ MODULE AccessLog ------------------------------
(***************************************************************************)
(* The access log of queries, the statistics of terms kept beside it, and  *)
(* their readers: one page of the log or of the audit trail after another, *)
(* and purging.  A query is recorded in a transaction that inserts the     *)
(* event, which takes an id at once, and upserts the counts of the terms   *)
(* in the order given, holding their rows until it commits; so events      *)
(* become visible in another order than that of their ids.                 *)
(*                                                                         *)
(* Ghosts: an event keeps the terms it counted and the number of rows of   *)
(* its answer (`complete`), and is marked, not deleted, by a purge.        *)
(***************************************************************************)
EXTENDS Vocabulary

CONSTANT PageSize      \* the limit of the readers of pages

VARIABLES log,         \* access_events: a function from ids to committed rows
          lastEvent,   \* the last id given to an event
          counts       \* term_access, of every namespace and term

records == <<log, lastEvent, counts>>

ASSUME PagesNotEmpty == PageSize \in Nat \ {0}

LogInit == log = <<>> /\ lastEvent = 0
           /\ counts = [p \in Namespaces \X Terms |-> 0]

-----------------------------------------------------------------------------
\* The record of one query, as build_access_record and its two siblings make
\* it; terms is the sequence that the upsert will follow.
Record(r, version, source, revision, rows, terms) ==
    [ns |-> r.ns, occurred |-> r.since, version |-> version,
     source |-> source, revision |-> revision, rows |-> rows,
     terms |-> terms, complete |-> r.rows, from |-> r.from, purged |-> FALSE]

\* Mutant: the terms of a graph are a set that nobody sorts.
TermsBackwards(iris, n) ==
    LET s == Sorted(iris \cap Under[n])
    IN  [i \in DOMAIN s |-> s[Len(s) + 1 - i]]

\* terms_with_prefix.
TermsWithPrefix(iris, n) == Sorted(iris \cap Under[n])

\* returned_terms.
ReturnedTerms(rows, n) == Sorted({rows[i] : i \in DOMAIN rows} \cap Under[n])

\* Request r begins to be recorded as e, with no lock held yet.
Recording(r, e) == [r EXCEPT !.pc = "upsert",
                             !.rec = [id |-> lastEvent + 1, event |-> e, held |-> {}]]
NoRecord == [id |-> 0, event |-> None, held |-> {}]

Held(w) == IF request[w].pc = "upsert" THEN request[w].rec.held ELSE {}

\* The terms whose rows the upsert of w still needs, by their places, and the
\* first of them.
Row(w, k) == <<request[w].ns, request[w].rec.event.terms[k]>>
Todo(w) == IF request[w].pc = "upsert"
           THEN {k \in DOMAIN request[w].rec.event.terms : Row(w, k) \notin Held(w)} ELSE {}
First(w) == {k \in Todo(w) : \A j \in Todo(w) : k <= j}

Waits(w, x) == w # x /\ \E k \in First(w) : Row(w, k) \in Held(x)

UpsertTerm(w) ==
    /\ \A x \in Workers : ~Waits(w, x)
    /\ \E k \in First(w) :
          Goes(w, [request[w] EXCEPT !.rec.held = @ \cup {Row(w, k)}])
    /\ UNCHANGED <<vocabulary, trail, records>>

\* Mutant: the count that was read before the row was locked is written back.
CountedOnce(held) == [p \in DOMAIN counts |-> IF p \in held THEN 1 ELSE counts[p]]

\* Mutant: the rows of this query take the place of the table.
CountedAnew(held) == [p \in held |-> counts[p] + 1]

\* ON CONFLICT DO UPDATE SET access_count = access_count + 1.
Counted(held) == [p \in DOMAIN counts |-> counts[p] + (IF p \in held THEN 1 ELSE 0)]

CommitRecord(w) ==
    /\ request[w].pc = "upsert" /\ Todo(w) = {}
    /\ LET rec == request[w].rec
       IN  /\ log' = [i \in DOMAIN log \cup {rec.id} |->
                        IF i = rec.id THEN rec.event ELSE log[i]]
           /\ counts' = Counted(rec.held)
    /\ Answers(w, request[w])
    /\ UNCHANGED <<vocabulary, trail, lastEvent>>

\* The log cannot be written: nothing of it remains, and the answer is given.
RecordFails(w) ==
    /\ request[w].pc = "upsert" /\ Spend("fault")
    /\ request' = [request EXCEPT ![w].pc = "answered"]
    /\ UNCHANGED <<asked, vocabulary, trail, records>>

-----------------------------------------------------------------------------
\* Purging: the rows that are selected by their time are deleted.
Kept(n) == {i \in DOMAIN log : log[i].ns = n /\ ~log[i].purged}

BeginPurge(w, n, before) ==
    /\ Ask(w, [kind |-> "purge", pc |-> "delete", ns |-> n,
               rows |-> {i \in Kept(n) : log[i].occurred < before}])
    /\ UNCHANGED <<vocabulary, trail, records>>

\* The deletion waits for no recording; rows another purge took are not there.
DeleteRows(w) ==
    /\ request[w].kind = "purge" /\ request[w].pc = "delete"
    /\ Audited
    /\ audit' = AuditRow(request[w], lastAudit')
    /\ log' = [i \in DOMAIN log |-> IF i \in request[w].rows
                                    THEN [log[i] EXCEPT !.purged = TRUE] ELSE log[i]]
    /\ Answers(w, request[w])
    /\ UNCHANGED <<vocabulary, lastEvent, counts>>

-----------------------------------------------------------------------------
\* Mutant: one row less is fetched, and no page seems to have a successor.
PageShort(ids, cursor) ==
    LET below == {i \in ids : cursor = 0 \/ i < cursor}
        rows  == {i \in below : Cardinality({j \in below : j > i}) < PageSize}
    IN  [rows |-> rows, next |-> 0]

\* query and query_events: the rows below the cursor, newest first, and the id
\* of the last one if there are more; 0 stands for no cursor.
Page(ids, cursor) ==
    LET below == {i \in ids : cursor = 0 \/ i < cursor}
        rows  == {i \in below : Cardinality({j \in below : j > i}) < PageSize}
    IN  [rows |-> rows,
         next |-> IF below = rows THEN 0 ELSE CHOOSE i \in rows : \A j \in rows : i <= j]

\* A reader that asks for page after page.
Pages(kind, n, ids) == [kind |-> kind, pc |-> "page", ns |-> n, cursor |-> 0,
                        due |-> ids, seen |-> {}, twice |-> FALSE]

Turned(r, page) == [r EXCEPT !.pc = IF page.next = 0 THEN "answered" ELSE "page",
                             !.cursor = page.next,
                             !.seen = @ \cup page.rows,
                             !.twice = @ \/ (r.seen \cap page.rows # {})]

BeginPages(w, n) ==
    /\ \/ Ask(w, Pages("log", n, Kept(n)))
       \/ Ask(w, Pages("audit", n, AuditOf(n)))
    /\ UNCHANGED <<vocabulary, trail, records>>

ReadLog(w) ==
    /\ request[w].kind = "log" /\ request[w].pc = "page"
    /\ Goes(w, Turned(request[w], Page(Kept(request[w].ns), request[w].cursor)))
    /\ UNCHANGED <<vocabulary, trail, records>>

ReadAudit(w) ==
    /\ request[w].kind = "audit" /\ request[w].pc = "page"
    /\ Goes(w, Turned(request[w], Page(AuditOf(request[w].ns), request[w].cursor)))
    /\ UNCHANGED <<vocabulary, trail, records>>

\* export_provenance: one page, with the mark `truncated` if rows are left out.
ExportProvenance(w, n) ==
    /\ LET page == Page(AuditOf(n), 0)
       IN  Ask(w, [kind |-> "export", pc |-> "answered", ns |-> n, due |-> AuditOf(n),
                   seen |-> page.rows, truncated |-> page.next # 0])
    /\ UNCHANGED <<vocabulary, trail, records>>

LogNext ==
    \E w \in Workers :
        \/ UpsertTerm(w) \/ CommitRecord(w) \/ RecordFails(w)
        \/ \E n \in Namespaces : \/ BeginPages(w, n) \/ ExportProvenance(w, n)
                                 \/ \E before \in 0 .. asked : BeginPurge(w, n, before)
        \/ DeleteRows(w) \/ ReadLog(w) \/ ReadAudit(w)

-----------------------------------------------------------------------------
LogTypes ==
    /\ lastEvent \in Nat /\ DOMAIN log \subseteq 1 .. lastEvent
    /\ counts \in [Namespaces \X Terms -> Nat]
    /\ \A i \in DOMAIN log : log[i].ns \in Namespaces /\ log[i].terms \in Seq(Terms)

\* The count of each term is the number of recorded answers it was in, however
\* recordings overlap, fail, or are purged from the log afterwards: the upsert
\* adds to the row as it is when it is locked (record of repositories/access.py).
CountsMatch ==
    \A n \in Namespaces, t \in Terms :
        counts[<<n, t>>] = Cardinality({i \in DOMAIN log :
            log[i].ns = n /\ \E k \in DOMAIN log[i].terms : log[i].terms[k] = t})

\* Recordings never wait for each other in a circle: all of them lock the rows
\* of their terms in the same order (returned_terms and terms_with_prefix sort).
NoLockCycle ==
    \A S \in (SUBSET Workers) \ {{}} : \E w \in S : \A x \in S : ~Waits(w, x)

\* A reader that follows the cursor to the end has seen every row that was
\* there when it began and has not been purged, and none of them twice, while
\* rows with lower ids than some it had seen were still being committed; an
\* export that leaves rows out is marked as truncated.
PagesComplete ==
    \A w \in Workers :
        /\ request[w].kind = "export" =>
              request[w].truncated \/ request[w].due \subseteq request[w].seen
        /\ request[w].kind \in {"log", "audit"} =>
              /\ ~request[w].twice
              /\ request[w].pc = "answered" =>
                    LET gone == IF request[w].kind = "log"
                                THEN {i \in DOMAIN log : log[i].purged} ELSE {}
                    IN  request[w].due \ gone \subseteq request[w].seen
=============================================================================
