----------------------------- MODULE TermMappings -----------------------------
(***************************************************************************)
(* SKOS mappings from terms of a namespace to terms anywhere, each in the  *)
(* namespace that declared it, and the owners of terms.  Both are tables   *)
(* with a unique key that requests read, decide upon, and write without a  *)
(* lock.  A list of mappings is decorated with what the other side         *)
(* declared and with the state of each target, read namespace by namespace *)
(* from the version that is current at that moment.                        *)
(***************************************************************************)
EXTENDS Vocabulary

CONSTANTS Claims,       \* <<n, s, t>>: n may map term s to term t
          Predicates,   \* a subset of MappingPredicate
          Readable,     \* namespaces the reader of a list may read
          NamespaceSeq, \* the namespaces, sorted
          MaxTargetNamespaces,
          Owned,        \* pairs of a namespace and a term whose owner is assigned
          Principals,   \* persons
          OwnersOf      \* the owners of each namespace, by role

VARIABLES mappings,     \* term_mappings: a function from row ids
          owners,       \* term_owners: a function from row ids
          lastRow       \* the last row id given in either table

registers == <<mappings, owners, lastRow>>

RegistersInit == mappings = <<>> /\ owners = <<>> /\ lastRow = 0

\* _INVERSE.
InverseOf == [p \in {"exactMatch", "closeMatch", "relatedMatch", "broadMatch", "narrowMatch"} |->
               CASE p = "broadMatch" -> "narrowMatch"
                 [] p = "narrowMatch" -> "broadMatch"
                 [] OTHER -> p]

ASSUME Registers ==
    /\ Claims \subseteq Namespaces \X Terms \X Terms
    /\ Predicates \subseteq DOMAIN InverseOf
    /\ Readable \subseteq Namespaces
    /\ {NamespaceSeq[i] : i \in DOMAIN NamespaceSeq} = Namespaces
    /\ MaxTargetNamespaces \in Nat
    /\ Owned \subseteq Namespaces \X Terms
    /\ OwnersOf \in [Namespaces -> SUBSET Principals]

-----------------------------------------------------------------------------
\* Rows with a key, in either table: the key is unique.
RowsAt(table, key) == {i \in DOMAIN table : table[i].key = key}
Put(table, i, row) == [j \in DOMAIN table \cup {i} |-> IF j = i THEN row ELSE table[j]]
Without(table, S) == [j \in DOMAIN table \ S |-> table[j]]

\* What a request that read the row at its key, or none, writes: an insertion,
\* which fails if the key is taken by now, or an UPDATE by id of the columns
\* that differ from what it read, which fails if that row is gone.
Written(table, r, new) ==
    IF r.found = 0 THEN Put(table, lastRow + 1, new)
    ELSE Put(table, r.found, [c \in DOMAIN new |->
                                 IF new[c] = r.old[c] THEN table[r.found][c] ELSE new[c]])

\* Mutant: there is no unique constraint.
WritableAlways(table, r) == TRUE

Writable(table, r) == IF r.found = 0 THEN RowsAt(table, r.key) = {}
                                     ELSE r.found \in DOMAIN table

Read(table, key) ==
    LET rows == RowsAt(table, key)
    IN  IF rows = {} THEN [found |-> 0, old |-> <<>>]
        ELSE LET i == CHOOSE j \in rows : TRUE IN [found |-> i, old |-> table[i]]

Writing(kind, n, key, read, new) ==
    [kind |-> kind, pc |-> "write", ns |-> n, key |-> key,
     found |-> read.found, old |-> read.old, new |-> new]

-----------------------------------------------------------------------------
\* declare: validated, the two terms differ, and the row read.
BeginDeclare(w, key, p) ==
    /\ key[1] \notin retired /\ key[2] # key[3]
    /\ Ask(w, Writing("declare", key[1], key, Read(mappings, key),
                      [key |-> key, predicate |-> p, by |-> w]))
    /\ UNCHANGED <<vocabulary, trail, registers>>

\* Flushed, audited and committed, or answered 500.
CommitDeclare(w) ==
    /\ request[w].kind = "declare" /\ request[w].pc = "write"
    /\ IF Writable(mappings, request[w])
       THEN /\ mappings' = Written(mappings, request[w], request[w].new)
            /\ lastRow' = lastRow + (IF request[w].found = 0 THEN 1 ELSE 0)
            /\ Audited /\ audit' = AuditRow(request[w], lastAudit')
            /\ Goes(w, [request[w] EXCEPT !.pc = "reread"])
       ELSE Refused(w) /\ UNCHANGED <<mappings, lastRow, trail>>
    /\ UNCHANGED <<vocabulary, owners>>

\* The answer is the row as it is read after the commit: 500 if it is gone.
AnswerDeclare(w) ==
    /\ request[w].kind = "declare" /\ request[w].pc = "reread"
    /\ IF RowsAt(mappings, request[w].key) = {} THEN Refused(w) ELSE Answers(w, request[w])
    /\ UNCHANGED <<vocabulary, trail, registers>>

\* revoke reads the row (404 if there is none) and deletes by the key.
BeginRevoke(w, key) ==
    /\ RowsAt(mappings, key) # {}
    /\ Ask(w, Writing("revoke", key[1], key, Read(mappings, key), <<>>))
    /\ UNCHANGED <<vocabulary, trail, registers>>

CommitRevoke(w) ==
    /\ request[w].kind = "revoke" /\ request[w].pc = "write"
    /\ mappings' = Without(mappings, RowsAt(mappings, request[w].key))
    /\ Audited /\ audit' = AuditRow(request[w], lastAudit')
    /\ Answers(w, request[w])
    /\ UNCHANGED <<vocabulary, owners, lastRow>>

-----------------------------------------------------------------------------
\* Listing: the rows, then the other side, then the targets.
Outgoing(n) == {i \in DOMAIN mappings : mappings[i].key[1] = n}
Incoming(n) == {i \in DOMAIN mappings : mappings[i].key[1] # n
                                         /\ mappings[i].key[3] \in Under[n]}

\* `from` is a ghost: the versions that were current when the list was begun.
BeginList(w, n) ==
    /\ n \in Readable
    /\ \E S \in {Outgoing(n), Incoming(n)} :
          Ask(w, [kind |-> "list", pc |-> "other", ns |-> n, from |-> current,
                  rows |-> {mappings[i] : i \in S}, sides |-> <<>>,
                  todo |-> <<>>, states |-> <<>>])
    /\ UNCHANGED <<vocabulary, trail, registers>>

\* compare_with_counterpart: what the other side declared, if anything.
Compared(row) ==
    LET other == {i \in DOMAIN mappings : /\ mappings[i].key[2] = row.key[3]
                                          /\ mappings[i].key[3] = row.key[2]}
    IN  IF other = {} THEN [reciprocal |-> FALSE, disputed |-> FALSE]
        ELSE [reciprocal |-> TRUE,
              disputed |-> mappings[CHOOSE i \in other : \A j \in other : j <= i].predicate
                              # InverseOf[row.predicate]]

\* The namespaces that own targets, in order, up to the limit.
TargetNamespaces(rows) ==
    LET owning == {OwningNamespace(m.key[3]) : m \in rows}
        all == SelectSeq(NamespaceSeq, LAMBDA n : n \in owning)
    IN  SubSeq(all, 1, IF Len(all) < MaxTargetNamespaces THEN Len(all) ELSE MaxTargetNamespaces)

ReadOther(w) ==
    /\ request[w].kind = "list" /\ request[w].pc = "other"
    /\ LET r == request[w]
       IN  Goes(w, [r EXCEPT !.pc = "targets", !.todo = TargetNamespaces(r.rows),
                        !.sides = [m \in r.rows |-> Compared(m)],
                        !.states = [t \in {m.key[3] : m \in r.rows} |-> Unknown]])
    /\ UNCHANGED <<vocabulary, trail, registers>>

\* Mutant: a namespace that may not be read has nothing to show.
ResolvedOrAbsent(n, t) == IF n \in Readable /\ CurrentApproved(n) # 0
                          THEN Lifecycle(Content[n][CurrentApproved(n)], t) ELSE Absent

\* The states of targets in n: unknown without the role or a current version.
Resolved(n, t) == IF n \in Readable /\ CurrentApproved(n) # 0
                  THEN Lifecycle(Content[n][CurrentApproved(n)], t) ELSE Unknown

\* resolve_target_lifecycles, of the next namespace; a Blob that cannot be read
\* leaves its targets unknown.
ResolveNamespace(w) ==
    LET r == request[w]
        n == Head(r.todo)
        states == [t \in DOMAIN r.states |->
                      IF OwningNamespace(t) = n THEN Resolved(n, t) ELSE r.states[t]]
    IN  \/ Goes(w, [r EXCEPT !.todo = Tail(@), !.states = states])
        \/ /\ Spend("fault")
           /\ request' = [request EXCEPT ![w] = [r EXCEPT !.todo = Tail(@)]]
           /\ UNCHANGED asked

ResolveTargets(w) ==
    /\ request[w].kind = "list" /\ request[w].pc = "targets" /\ request[w].todo # <<>>
    /\ ResolveNamespace(w)
    /\ UNCHANGED <<vocabulary, trail, registers>>

AnswerList(w) ==
    /\ request[w].kind = "list" /\ request[w].pc = "targets" /\ request[w].todo = <<>>
    /\ Answers(w, request[w])
    /\ UNCHANGED <<vocabulary, trail, registers>>

-----------------------------------------------------------------------------
\* Owners of terms.  Neither assigning nor taking away looks at whether the
\* namespace is retired or the term exists, and neither is audited.
BeginAssign(w, key, p) ==
    /\ Ask(w, Writing("assign", key[1], key, Read(owners, key),
                      [key |-> key, principal |-> p, by |-> w]))
    /\ UNCHANGED <<vocabulary, trail, registers>>

CommitAssign(w) ==
    /\ request[w].kind = "assign" /\ request[w].pc = "write"
    /\ IF Writable(owners, request[w])
       THEN /\ owners' = Written(owners, request[w], request[w].new)
            /\ lastRow' = lastRow + (IF request[w].found = 0 THEN 1 ELSE 0)
            /\ Answers(w, request[w])
       ELSE Refused(w) /\ UNCHANGED <<owners, lastRow>>
    /\ UNCHANGED <<vocabulary, trail, mappings>>

\* unassign reads the row (404 if there is none) and deletes it by its id.
BeginUnassign(w, key) ==
    /\ RowsAt(owners, key) # {}
    /\ Ask(w, Writing("unassign", key[1], key, Read(owners, key), <<>>))
    /\ UNCHANGED <<vocabulary, trail, registers>>

CommitUnassign(w) ==
    /\ request[w].kind = "unassign" /\ request[w].pc = "write"
    /\ owners' = Without(owners, {request[w].found})
    /\ Answers(w, request[w])
    /\ UNCHANGED <<vocabulary, trail, mappings, lastRow>>

\* resolve_many, of one term: its owner, or else the owners of the namespace,
\* or else nobody.
BeginResolve(w, key) ==
    /\ Ask(w, [kind |-> "resolve", pc |-> "fallback", ns |-> key[1],
               owner |-> {owners[i].principal : i \in RowsAt(owners, key)},
               origin |-> None, whom |-> {}])
    /\ UNCHANGED <<vocabulary, trail, registers>>

AnswerResolve(w) ==
    /\ request[w].kind = "resolve" /\ request[w].pc = "fallback"
    /\ LET r == request[w]
           fallback == OwnersOf[r.ns]
       IN  Answers(w, [r EXCEPT
                !.origin = IF r.owner # {} THEN "term-owner"
                           ELSE IF fallback # {} THEN "namespace-owners" ELSE "unresolved",
                !.whom = IF r.owner # {} THEN r.owner ELSE fallback])
    /\ UNCHANGED <<vocabulary, trail, registers>>

MappingsNext(w) ==
    \/ \E key \in Claims : \/ \E p \in Predicates : BeginDeclare(w, key, p)
                           \/ BeginRevoke(w, key)
    \/ \E n \in Namespaces : BeginList(w, n)
    \/ CommitDeclare(w) \/ AnswerDeclare(w) \/ CommitRevoke(w)
    \/ ReadOther(w) \/ ResolveTargets(w) \/ AnswerList(w)

OwnersNext(w) ==
    \/ \E key \in Owned : \/ \E p \in Principals : BeginAssign(w, key, p)
                          \/ BeginUnassign(w, key) \/ BeginResolve(w, key)
    \/ CommitAssign(w) \/ CommitUnassign(w) \/ AnswerResolve(w)

RegistersNext == \E w \in Workers : MappingsNext(w) \/ OwnersNext(w)

-----------------------------------------------------------------------------
RegisterTypes ==
    /\ lastRow \in Nat
    /\ DOMAIN mappings \cup DOMAIN owners \subseteq 1 .. lastRow
    /\ \A i \in DOMAIN mappings : mappings[i].predicate \in Predicates
    /\ \A i \in DOMAIN owners : owners[i].principal \in Principals

\* However requests that read nothing and insert overlap, two terms have one
\* mapping in a namespace and a term has one owner; and a namespace never has
\* more mappings than audited declarations (declare and revoke of
\* repositories/mappings.py, assign of repositories/term_owners.py).
OneRowPerKey ==
    /\ \A i, j \in DOMAIN mappings : mappings[i].key = mappings[j].key => i = j
    /\ \A i, j \in DOMAIN owners : owners[i].key = owners[j].key => i = j
    /\ \A n \in Namespaces :
          Cardinality(Outgoing(n))
             <= Cardinality({i \in AuditOf(n) : audit[i].action = "declare"})

\* What a list says of a target is known from the namespace its IRI belongs
\* to by the longest base IRI, one that the reader may read, and is true of a
\* version that was approved while the list was being made; all else is
\* called unknown, never absent or active (resolve_target_lifecycles).
ListTruthful ==
    \A w \in Workers :
        LET r == request[w]
        IN  r.kind = "list" /\ r.pc = "answered" =>
               \A t \in {m.key[3] : m \in r.rows} :
                   r.states[t] # Unknown =>
                       \E n \in Readable :
                           /\ t \in Under[n]
                           /\ \A m \in Namespaces : t \in Under[m] => BaseLength[m] <= BaseLength[n]
                           /\ \E v \in 1 .. current[n] :
                                 /\ v >= r.from[n]
                                 /\ r.states[t] = Lifecycle(Content[n][v], t)
=============================================================================
