---------------------------- MODULE VirtualGraph ----------------------------
(***************************************************************************)
(* R2RML mappings over the scanned sources of a namespace, and queries of  *)
(* the virtual graph they define.  A mapping is checked against the scan   *)
(* catalog and the current version, read one after the other and long      *)
(* before it is stored; sources, scans and versions change in between.     *)
(* The catalog is the abstract one of SourceCatalog.tla, that Catalog.tla  *)
(* implements.                                                             *)
(*                                                                         *)
(* A mapping, as parse_mapping summarises it, is a record: well formed or  *)
(* not, its subjects inside the namespace or not, the classes and          *)
(* predicates it asserts and the tables it reads.  Runs are ranked as      *)
(* latest_succeeded_run does.                                              *)
(***************************************************************************)
EXTENDS SparqlGateway

CONSTANTS Sources,     \* names of scan sources
          NamespaceOf, \* the namespace each source belongs to
          Mappings,    \* contents that are submitted
          Catalogs,    \* sets of tables that scans may observe
          Ranks,       \* bound: ranks of runs
          FirstRank, FirstCatalog   \* of the run each source begins with

VARIABLES source,      \* the registered id of each source
          ids,         \* the last id given to a source
          observed,    \* completed observations
          vkg          \* vkg_mappings

mediation == <<source, ids, observed, vkg>>

ASSUME Mediation ==
    /\ IsFiniteSet(Sources) /\ None \notin Nat
    /\ NamespaceOf \in [Sources -> Namespaces]
    /\ \A m \in Mappings : /\ m.wellFormed \in BOOLEAN /\ m.inside \in BOOLEAN
                           /\ m.classes \cup m.predicates \subseteq Terms
    /\ Ranks \subseteq Nat /\ FirstRank \in Ranks /\ FirstCatalog \in Catalogs

Scans == INSTANCE SourceCatalog WITH Names <- Sources

\* One run of each source has succeeded.
MediationInit ==
    /\ \E f \in [Sources -> 1 .. Cardinality(Sources)] :
          /\ \A m, n \in Sources : f[m] = f[n] => m = n
          /\ source = f
    /\ ids = Cardinality(Sources)
    /\ observed = {[run |-> FirstRank, source |-> i, catalog |-> FirstCatalog] : i \in 1 .. ids}
    /\ vkg = {}

-----------------------------------------------------------------------------
\* Rows that w inserted and has not committed.
Pending(w) == IF request[w].pc = "inserted" /\ request[w].kind = "revise"
              THEN {[source |-> request[w].source, revision |-> request[w].revision]} ELSE {}

RevisionsOf(id) == {m.revision : m \in {x \in vkg : x.source = id}}
LastRevision(id) == CHOOSE k \in RevisionsOf(id) \cup {0} : \A j \in RevisionsOf(id) : j <= k

\* Outside: sources come and go, and scans of them complete.  A foreign key
\* makes the removal wait for insertions, and takes the mappings with it.
RegisterSource(n) ==
    /\ Spend("register") /\ Scans!Register(n)
    /\ UNCHANGED <<vocabulary, trail, request, asked, records, vkg>>

RemoveSource(n) ==
    /\ Spend("remove") /\ Scans!Remove(n)
    /\ \A w \in Workers : \A p \in Pending(w) : p.source # source[n]
    /\ vkg' = {m \in vkg : m.source # source[n]}
    /\ UNCHANGED <<vocabulary, trail, request, asked, records>>

CompleteScan(n) ==
    /\ Spend("scan") /\ source[n] # None
    /\ \E r \in Ranks, c \in Catalogs :
          /\ \A o \in observed : o.run # r
          /\ observed' = observed \cup {[run |-> r, source |-> source[n], catalog |-> c]}
    /\ UNCHANGED <<vocabulary, trail, request, asked, records, source, ids, vkg>>

-----------------------------------------------------------------------------
\* Revising.  _check_subjects and _check_foreign_vocabulary: the subjects lie
\* under the data prefix, and no asserted term belongs to another namespace.
Asserted(m) == m.classes \cup m.predicates
OwnTerms(m, n) == {t \in Asserted(m) : OwningNamespace(t) = n}
ForeignTerms(m, n) == {t \in Asserted(m) : OwningNamespace(t) \notin {n, None}}

BeginRevise(w, n, m) ==
    /\ source[n] # None /\ NamespaceOf[n] \notin retired
    /\ m.wellFormed /\ m.inside /\ ForeignTerms(m, NamespaceOf[n]) = {}
    /\ Ask(w, [kind |-> "revise", pc |-> "tables", ns |-> NamespaceOf[n],
               source |-> source[n], mapping |-> m, against |-> 0, revision |-> 0,
               run |-> 0, aid |-> 0])
    /\ UNCHANGED <<vocabulary, trail, records, mediation>>

\* _observed_tables: the tables of the latest run that succeeded, if any.
Latest(id) == LET seen == {o \in observed : o.source = id}
              IN  {o \in seen : \A p \in seen : p.run <= o.run}

\* _check_tables.
TablesKnown(m, o) == m.tables \subseteq o.catalog

CheckTables(w) ==
    /\ request[w].kind = "revise" /\ request[w].pc = "tables"
    /\ LET latest == Latest(request[w].source)
           known == {o \in latest : TablesKnown(request[w].mapping, o)}
       IN  IF known = {} THEN Refused(w)
           ELSE \E o \in known :
                   Goes(w, [request[w] EXCEPT !.pc = "terms", !.run = o.run])
    /\ UNCHANGED <<vocabulary, trail, records, mediation>>

\* _check_own_vocabulary: with no approved version there is nothing to check.
TermsActive(m, n, v) ==
    v = 0 \/ \A t \in OwnTerms(m, n) : Lifecycle(Content[n][v], t).status = "active"

CheckTerms(w) ==
    /\ request[w].kind = "revise" /\ request[w].pc = "terms"
    /\ LET v == CurrentApproved(request[w].ns)
       IN  IF TermsActive(request[w].mapping, request[w].ns, v)
           THEN Goes(w, [request[w] EXCEPT !.pc = "number", !.against = v])
           ELSE Refused(w)
    /\ UNCHANGED <<vocabulary, trail, records, mediation>>

\* The Turtle of the current version is read from Blob, and that fails.
BlobFails(w) ==
    /\ request[w].kind = "revise" /\ request[w].pc = "terms" /\ Spend("fault")
    /\ request' = [request EXCEPT ![w] = Idle]
    /\ UNCHANGED <<asked, vocabulary, trail, records, mediation>>

\* add: max(revision) + 1, and then the insertion, which waits for one of the
\* same key, and fails if that was committed or the source is gone.
NumberMapping(w) ==
    /\ request[w].kind = "revise" /\ request[w].pc = "number"
    /\ Goes(w, [request[w] EXCEPT !.pc = "insert",
                                  !.revision = LastRevision(request[w].source) + 1])
    /\ UNCHANGED <<vocabulary, trail, records, mediation>>

\* Mutant: there is no unique constraint on source_id and revision.
Overtaken(id, k) == TRUE

Untaken(id, k) == k \notin RevisionsOf(id)

InsertMapping(w) ==
    /\ request[w].kind = "revise" /\ request[w].pc = "insert"
    /\ LET id == request[w].source
           k  == request[w].revision
       IN  /\ \A x \in Workers \ {w} : [source |-> id, revision |-> k] \notin Pending(x)
           /\ IF id \in Scans!Registered /\ Untaken(id, k)
              THEN /\ Goes(w, [request[w] EXCEPT !.pc = "inserted", !.aid = lastAudit + 1])
                   /\ Audited
              ELSE Refused(w) /\ UNCHANGED lastAudit
    /\ UNCHANGED <<vocabulary, audit, records, mediation>>

CommitMapping(w) ==
    /\ request[w].kind = "revise" /\ request[w].pc = "inserted"
    /\ LET r == request[w]
       IN  /\ vkg' = vkg \cup {[source |-> r.source, revision |-> r.revision, ns |-> r.ns,
                                mapping |-> r.mapping, against |-> r.against, run |-> r.run]}
           /\ audit' = AuditRow(r, r.aid)
    /\ Answers(w, request[w])
    /\ UNCHANGED <<vocabulary, lastAudit, records, source, ids, observed>>

-----------------------------------------------------------------------------
\* Querying the virtual graph.  The source must be registered and have a
\* mapping; its active revision is read before the query is sent.
BeginAskSource(w, n, q) ==
    /\ source[n] # None /\ NamespaceOf[n] \notin retired
    /\ RevisionsOf(source[n]) # {} /\ q.form \in SafeForms
    /\ Ask(w, [kind |-> "askSource", pc |-> "send", ns |-> NamespaceOf[n], name |-> n,
               form |-> q.form, want |-> q.want, revision |-> LastRevision(source[n]),
               since |-> asked, from |-> 0, rows |-> <<>>, delivered |-> <<>>,
               truncated |-> FALSE, warned |-> {}, rec |-> NoRecord])
    /\ UNCHANGED <<vocabulary, trail, records, mediation>>

\* The virtual graph answers with data of the source.  Rows are capped, a
\* graph is not.
SendSource(w) ==
    /\ request[w].kind = "askSource" /\ request[w].pc = "send"
    /\ LET rows == IF request[w].form = "ask" THEN <<>> ELSE Sorted(request[w].want)
           capped == IF ReturnsRdf(request[w].form)
                     THEN [payload |-> rows, truncated |-> FALSE] ELSE CapBindings(rows)
       IN  Goes(w, [request[w] EXCEPT !.pc = "record", !.rows = rows,
                        !.delivered = capped.payload, !.truncated = capped.truncated])
    /\ UNCHANGED <<vocabulary, trail, records, mediation>>

\* No endpoint is configured (503), or it does not answer (502).
SourceSilent(w) ==
    /\ request[w].kind = "askSource" /\ request[w].pc = "send" /\ Spend("fault")
    /\ request' = [request EXCEPT ![w] = Idle]
    /\ UNCHANGED <<asked, vocabulary, trail, records, mediation>>

\* _record_vkg_access: no version and no terms, but the source and revision.
RecordVkgAccess(w) ==
    /\ request[w].kind = "askSource" /\ request[w].pc = "record"
    /\ LET r == request[w]
       IN  Goes(w, Recording(r, Record(r, 0, r.name, r.revision, RowCount(r, r.rows), <<>>)))
    /\ lastEvent' = lastEvent + 1
    /\ UNCHANGED <<vocabulary, trail, log, counts, mediation>>

Revising(w) == \/ \E n \in Sources, m \in Mappings : BeginRevise(w, n, m)
               \/ CheckTables(w) \/ CheckTerms(w) \/ BlobFails(w)
               \/ NumberMapping(w) \/ InsertMapping(w) \/ CommitMapping(w)

Asking(w) == \/ \E n \in Sources, q \in Asked : BeginAskSource(w, n, q)
             \/ SendSource(w) \/ SourceSilent(w) \/ RecordVkgAccess(w)

MediationNext ==
    \/ \E n \in Sources : RegisterSource(n) \/ RemoveSource(n) \/ CompleteScan(n)
    \/ \E w \in Workers : Revising(w) \/ Asking(w)

-----------------------------------------------------------------------------
MediationTypes ==
    /\ source \in [Sources -> (1 .. ids) \cup {None}]
    /\ \A o \in observed : o.run \in Ranks /\ o.source \in 1 .. ids
    /\ \A m \in vkg : m.revision \in Nat /\ m.ns \in Namespaces /\ m.against \in Nat

\* Every stored mapping stands on what it was checked against: a run of its
\* own source, not one registered later under the same name, that observed all
\* the tables it reads, and terms that are present and not deprecated in the
\* version it names, which was approved.  The revisions of a source are
\* numbered from 1 without gaps or doubles, so the highest is the active one
\* (validate_mapping of services/vkg.py, add of repositories/vkg.py).
RevisionsGrounded ==
    /\ \A m \in vkg :
          /\ m.source \in Scans!Registered
          /\ \E o \in observed : /\ o.run = m.run /\ o.source = m.source
                                 /\ m.mapping.tables \subseteq o.catalog
          /\ m.against <= current[m.ns]
          /\ m.against # 0 =>
                \A t \in OwnTerms(m.mapping, m.ns) :
                    Lifecycle(Content[m.ns][m.against], t) = Active
    /\ \A m, x \in vkg : m.source = x.source /\ m.revision = x.revision => m = x
    /\ \A id \in {m.source : m \in vkg} :
          RevisionsOf(id) = 1 .. Cardinality(RevisionsOf(id))
=============================================================================
