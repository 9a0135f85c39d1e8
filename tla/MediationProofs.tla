---------------------------- MODULE MediationProofs ----------------------------
(***************************************************************************)
(* Every stored mapping of a virtual graph stands on a scan of its own     *)
(* source and on terms of an approved version, and the revisions of a      *)
(* source are numbered without gaps, although each of the checks is made   *)
(* long before the mapping is stored.  The invariant that carries the      *)
(* proof says what each request in between still knows: that its source    *)
(* never comes back once it was removed, that observations and versions    *)
(* only accumulate, and that the revision before its own is there.         *)
(*                                                                         *)
(* Then the answers of queries, which say when they were cut, and the      *)
(* measurements of divergence, whose limit of probes is accounted for.     *)
(***************************************************************************)
EXTENDS RequestProofs

\* What a mapping, stored or about to be, was checked against.
Grounded(m) == \E o \in observed : /\ o.run = m.run /\ o.source = m.source
                                   /\ m.mapping.tables \subseteq o.catalog

Checked(m) == /\ m.ns \in Namespaces /\ m.against \in Nat /\ m.against <= current[m.ns]
              /\ m.against # 0 =>
                    \A t \in OwnTerms(m.mapping, m.ns) :
                        Lifecycle(Content[m.ns][m.against], t) = Active

Follows(m) == m.revision - 1 \in RevisionsOf(m.source) \cup {0}

SourcesSound ==
    /\ ids \in Nat /\ source \in [Sources -> (1 .. ids) \cup {None}]
    /\ \A m, n \in Sources : source[m] # None /\ source[m] = source[n] => m = n

ScansSound == \A o \in observed : o.run \in Ranks /\ o.source \in 1 .. ids

RowsSound == \A m \in vkg : m.source \in Scans!Registered /\ Grounded(m) /\ Checked(m)

RevisionsUnique ==
    \A m, x \in vkg : m.source = x.source /\ m.revision = x.revision => m = x

RevisionsWithoutGaps == \A id \in Nat : \E c \in Nat : RevisionsOf(id) = 1 .. c

ReviseSound(r) ==
    r.kind = "revise" /\ r.pc # "answered" =>
        /\ r.ns \in Namespaces /\ r.source \in 1 .. ids
        /\ r.pc \in {"terms", "number", "insert", "inserted"} /\ r.source \in Scans!Registered
              => Grounded(r)
        /\ r.pc \in {"number", "insert", "inserted"} => Checked(r)
        /\ r.pc \in {"insert", "inserted"} =>
              r.revision \in Nat \ {0} /\ (r.source \in Scans!Registered => Follows(r))
        /\ r.pc = "inserted" =>
              r.source \in Scans!Registered /\ r.revision \notin RevisionsOf(r.source)

RevisesSound == \A w \in Workers : ReviseSound(request[w])

Inserted(r) == r.kind = "revise" /\ r.pc = "inserted"

InsertsApart ==
    \A w, x \in Workers :
        /\ Inserted(request[w]) /\ Inserted(request[x])
        /\ request[w].source = request[x].source /\ request[w].revision = request[x].revision
        => w = x

MediationInv == /\ Shape /\ SourcesSound /\ RowsSound /\ RevisionsUnique
                /\ RevisionsWithoutGaps /\ RevisesSound /\ InsertsApart

-----------------------------------------------------------------------------
\* What was checked remains so when versions are approved.
LEMMA CheckedRemains == ASSUME NEW m, Checked(m), Shape, Grows PROVE Checked(m)'
BY DEF Checked, Grows, Shape, Versions

\* A step that writes nothing here, and lets no revision begin or move.
LEMMA MediationSteady ==
    ASSUME MediationInv, Shape', Grows, UNCHANGED mediation,
           \A w \in Workers : \/ request'[w] = request[w]
                              \/ request'[w].kind # "revise" \/ request'[w].pc = "answered"
    PROVE  MediationInv'
<1> USE DEF mediation
<1>1. SourcesSound' /\ RevisionsUnique' /\ RevisionsWithoutGaps'
  BY DEF MediationInv, SourcesSound, RevisionsUnique, RevisionsWithoutGaps, RevisionsOf
<1>2. RowsSound'
  <2>1. ASSUME NEW m \in vkg PROVE Checked(m)'
    BY CheckedRemains DEF MediationInv, RowsSound
  <2>2. QED
    BY <2>1 DEF MediationInv, RowsSound, Grounded, Scans!Registered
<1>3. RevisesSound'
  <2> SUFFICES ASSUME NEW w \in Workers, request'[w] = request[w] PROVE ReviseSound(request[w])'
    BY DEF RevisesSound, ReviseSound
  <2> DEFINE r == request[w]
  <2>1. ReviseSound(r)
    BY DEF MediationInv, RevisesSound
  <2>2. QED
    BY <2>1, CheckedRemains DEF ReviseSound, Checked, Grounded, Follows, RevisionsOf, Grows,
       MediationInv, Shape, Scans!Registered
<1>4. InsertsApart'
  BY DEF MediationInv, InsertsApart, Inserted
<1>5. QED
  BY <1>1, <1>2, <1>3, <1>4 DEF MediationInv

-----------------------------------------------------------------------------
\* One request moves to where it is sound, and nothing is written.
LEMMA RequestMoves ==
    ASSUME MediationInv, Shape', UNCHANGED <<mediation, current>>, NEW w \in Workers,
           \A x \in Workers \ {w} : request'[x] = request[x],
           ReviseSound(request[w])',
           Inserted(request'[w]) =>
              \A x \in Workers \ {w} : ~ /\ Inserted(request[x])
                                         /\ request[x].source = request'[w].source
                                         /\ request[x].revision = request'[w].revision
    PROVE  MediationInv'
<1> USE DEF mediation
<1>1. SourcesSound' /\ RevisionsUnique' /\ RevisionsWithoutGaps'
  BY DEF MediationInv, SourcesSound, RevisionsUnique, RevisionsWithoutGaps, RevisionsOf
<1>2. RowsSound'
  BY DEF MediationInv, RowsSound, Grounded, Checked, Scans!Registered
<1>3. RevisesSound'
  <2>1. ASSUME NEW x \in Workers \ {w} PROVE ReviseSound(request[x])'
    BY DEF MediationInv, RevisesSound, ReviseSound, Checked, Grounded, Follows, RevisionsOf,
       Scans!Registered
  <2>2. QED
    BY <2>1 DEF RevisesSound
<1>4. InsertsApart'
  BY DEF MediationInv, InsertsApart, Inserted
<1>5. QED
  BY <1>1, <1>2, <1>3, <1>4 DEF MediationInv

LEMMA BeginReviseKeeps ==
    ASSUME MediationInv, Shape', NEW w \in Workers, NEW n \in Sources, NEW m,
           BeginRevise(w, n, m)
    PROVE  MediationInv'
<1>1. /\ request'[w].kind = "revise" /\ request'[w].pc = "tables"
      /\ request'[w].ns = NamespaceOf[n] /\ request'[w].source = source[n]
      /\ \A x \in Workers \ {w} : request'[x] = request[x]
      /\ source[n] # None /\ UNCHANGED <<mediation, current>>
  BY DEF BeginRevise, Ask, MediationInv, Shape, vocabulary
<1>2. ReviseSound(request[w])' /\ ~Inserted(request'[w])
  BY <1>1, Mediation DEF ReviseSound, Inserted, MediationInv, SourcesSound, mediation
<1>3. QED
  BY <1>1, <1>2, RequestMoves

\* A request that is refused, or that is of another kind, knows nothing.
LEMMA RefusedKeeps ==
    ASSUME MediationInv, Shape', UNCHANGED <<mediation, current>>, NEW w \in Workers, Refused(w)
    PROVE  MediationInv'
<1>1. request'[w] = Idle /\ \A x \in Workers \ {w} : request'[x] = request[x]
  BY DEF Refused, Goes, MediationInv, Shape
<1>2. ReviseSound(request[w])' /\ ~Inserted(request'[w])
  BY <1>1 DEF ReviseSound, Inserted, Idle
<1>3. QED
  BY <1>1, <1>2, RequestMoves

LEMMA CheckTablesKeeps ==
    ASSUME MediationInv, Shape', NEW w \in Workers, CheckTables(w) PROVE MediationInv'
<1>1. UNCHANGED <<mediation, current>> /\ request[w].kind = "revise" /\ request[w].pc = "tables"
  BY DEF CheckTables, vocabulary
<1>2. ASSUME NEW o \in observed, o.source = request[w].source,
             request[w].mapping.tables \subseteq o.catalog,
             Goes(w, [request[w] EXCEPT !.pc = "terms", !.run = o.run])
      PROVE  MediationInv'
  <2> DEFINE r == [request[w] EXCEPT !.pc = "terms", !.run = o.run]
  <2>1. /\ r.kind = "revise" /\ r.pc = "terms" /\ r.run = o.run /\ r.ns = request[w].ns
        /\ r.source = request[w].source /\ r.mapping = request[w].mapping
    BY <1>1, Fields DEF MediationInv, Shape, HasShape
  <2>2. request' = [request EXCEPT ![w] = r] /\ DOMAIN request = Workers
    BY <1>2 DEF Goes, MediationInv, Shape
  <2> HIDE DEF r
  <2>3. request'[w] = r /\ \A x \in Workers \ {w} : request'[x] = request[x]
    BY <2>2
  <2>4. request[w].ns \in Namespaces /\ request[w].source \in 1 .. ids
    BY <1>1 DEF MediationInv, RevisesSound, ReviseSound
  <2>5. ReviseSound(request[w])' /\ ~Inserted(request'[w])
    BY <1>1, <1>2, <2>1, <2>3, <2>4 DEF ReviseSound, Inserted, Grounded, mediation
  <2>6. QED
    BY <1>1, <2>3, <2>5, RequestMoves
<1>3. Refused(w) \/ \E o \in observed :
          /\ o.source = request[w].source /\ request[w].mapping.tables \subseteq o.catalog
          /\ Goes(w, [request[w] EXCEPT !.pc = "terms", !.run = o.run])
  BY DEF CheckTables, Latest, TablesKnown
<1>4. QED
  BY <1>1, <1>2, <1>3, RefusedKeeps

LEMMA CheckTermsKeeps ==
    ASSUME MediationInv, Shape', NEW w \in Workers, CheckTerms(w) PROVE MediationInv'
<1> DEFINE v == current[request[w].ns]
           r == [request[w] EXCEPT !.pc = "number", !.against = v]
<1>1. UNCHANGED <<mediation, current>> /\ request[w].kind = "revise" /\ request[w].pc = "terms"
  BY DEF CheckTerms, vocabulary
<1>2. CASE TermsActive(request[w].mapping, request[w].ns, v) /\ Goes(w, r)
  <2>1. /\ r.kind = "revise" /\ r.pc = "number" /\ r.run = request[w].run /\ r.ns = request[w].ns
        /\ r.source = request[w].source /\ r.mapping = request[w].mapping /\ r.against = v
    BY <1>1, Fields DEF MediationInv, Shape, HasShape
  <2>2. request' = [request EXCEPT ![w] = r] /\ DOMAIN request = Workers
    BY <1>2 DEF Goes, MediationInv, Shape
  <2>3. ReviseSound(request[w])
    BY DEF MediationInv, RevisesSound
  <2> HIDE DEF r
  <2>4. request'[w] = r /\ \A x \in Workers \ {w} : request'[x] = request[x]
    BY <2>2
  <2>5. v \in Nat /\ request[w].ns \in Namespaces
    BY <1>1, <2>3 DEF ReviseSound, MediationInv, Shape, Versions
  <2>6. v # 0 => \A t \in OwnTerms(request[w].mapping, request[w].ns) :
                    Lifecycle(Content[request[w].ns][v], t) = Active
    BY <1>2 DEF TermsActive, Lifecycle, Active, Absent
  <2>7. Checked(r)
    BY <2>1, <2>5, <2>6 DEF Checked
  <2>8. ReviseSound(request[w])' /\ ~Inserted(request'[w])
    BY <1>1, <2>1, <2>3, <2>4, <2>7
       DEF ReviseSound, Inserted, Grounded, Checked, mediation, Scans!Registered
  <2>9. QED
    BY <1>1, <2>4, <2>8, RequestMoves
<1>3. QED
  BY <1>1, <1>2, RefusedKeeps DEF CheckTerms, CurrentApproved

\* The number is one more than a revision that is there.
LEMMA NumberMappingKeeps ==
    ASSUME MediationInv, Shape', NEW w \in Workers, NumberMapping(w) PROVE MediationInv'
<1> DEFINE k == LastRevision(request[w].source) + 1
           r == [request[w] EXCEPT !.pc = "insert", !.revision = k]
<1>1. UNCHANGED <<mediation, current>> /\ request[w].kind = "revise" /\ request[w].pc = "number"
  BY DEF NumberMapping, vocabulary
<1>2. ReviseSound(request[w])
  BY DEF MediationInv, RevisesSound
<1>3. LastRevision(request[w].source) \in RevisionsOf(request[w].source) \cup {0}
      /\ LastRevision(request[w].source) \in Nat
  <2>1. SourcesSound /\ request[w].source \in Nat
    BY <1>1, <1>2 DEF ReviseSound, MediationInv, SourcesSound
  <2>2. PICK c \in Nat : RevisionsOf(request[w].source) = 1 .. c
    BY <2>1 DEF MediationInv, RevisionsWithoutGaps
  <2>3. \E i \in RevisionsOf(request[w].source) \cup {0} :
            \A j \in RevisionsOf(request[w].source) : j <= i
    <3>1. c \in RevisionsOf(request[w].source) \cup {0}
      BY <2>2
    <3>2. QED
      BY <2>2, <3>1
  <2>4. LastRevision(request[w].source) \in RevisionsOf(request[w].source) \cup {0}
    BY <2>3 DEF LastRevision
  <2>5. QED
    BY <2>2, <2>4
<1>4. /\ r.kind = "revise" /\ r.pc = "insert" /\ r.run = request[w].run /\ r.ns = request[w].ns
      /\ r.source = request[w].source /\ r.mapping = request[w].mapping
      /\ r.against = request[w].against /\ r.revision = k
  BY <1>1, Fields DEF MediationInv, Shape, HasShape
<1>5. request' = [request EXCEPT ![w] = r] /\ DOMAIN request = Workers
  BY DEF NumberMapping, Goes, MediationInv, Shape
<1> HIDE DEF r
<1>6. request'[w] = r /\ \A x \in Workers \ {w} : request'[x] = request[x]
  BY <1>5
<1>7. k \in Nat \ {0} /\ k - 1 \in RevisionsOf(request[w].source) \cup {0}
  BY <1>3
<1> HIDE DEF k
<1>8. ReviseSound(request[w])' /\ ~Inserted(request'[w])
  BY <1>1, <1>2, <1>4, <1>6, <1>7
     DEF ReviseSound, Inserted, Grounded, Checked, Follows, RevisionsOf, mediation, Scans!Registered
<1>9. QED
  BY <1>1, <1>6, <1>8, RequestMoves

LEMMA InsertMappingKeeps ==
    ASSUME MediationInv, Shape', NEW w \in Workers, InsertMapping(w) PROVE MediationInv'
<1> DEFINE r == [request[w] EXCEPT !.pc = "inserted", !.aid = lastAudit + 1]
<1>1. UNCHANGED <<mediation, current>> /\ request[w].kind = "revise" /\ request[w].pc = "insert"
  BY DEF InsertMapping, vocabulary
<1>2. CASE /\ request[w].source \in Scans!Registered
           /\ Untaken(request[w].source, request[w].revision) /\ Goes(w, r)
  <2>1. /\ r.kind = "revise" /\ r.pc = "inserted" /\ r.run = request[w].run /\ r.ns = request[w].ns
        /\ r.source = request[w].source /\ r.mapping = request[w].mapping
        /\ r.against = request[w].against /\ r.revision = request[w].revision
    BY <1>1, Fields DEF MediationInv, Shape, HasShape
  <2>2. request' = [request EXCEPT ![w] = r] /\ DOMAIN request = Workers
    BY <1>2 DEF Goes, MediationInv, Shape
  <2> HIDE DEF r
  <2>3. request'[w] = r /\ \A x \in Workers \ {w} : request'[x] = request[x]
    BY <2>2
  <2>4. ReviseSound(request[w])
    BY DEF MediationInv, RevisesSound
  <2>5. ReviseSound(request[w])'
    BY <1>1, <1>2, <2>1, <2>3, <2>4
       DEF ReviseSound, Grounded, Checked, Follows, RevisionsOf, Untaken, mediation, Scans!Registered
  <2>6. \A x \in Workers \ {w} : ~ /\ Inserted(request[x])
                                   /\ request[x].source = request'[w].source
                                   /\ request[x].revision = request'[w].revision
    BY <2>1, <2>3 DEF InsertMapping, Pending, Inserted
  <2>7. QED
    BY <1>1, <2>3, <2>5, <2>6, RequestMoves
<1>3. QED
  BY <1>1, <1>2, RefusedKeeps DEF InsertMapping

-----------------------------------------------------------------------------
\* The mapping is stored: its revision is the next one.
LEMMA CommitMappingKeeps ==
    ASSUME MediationInv, Shape', NEW w \in Workers, CommitMapping(w) PROVE MediationInv'
<1> DEFINE r == request[w]
           m == [source |-> r.source, revision |-> r.revision, ns |-> r.ns,
                 mapping |-> r.mapping, against |-> r.against, run |-> r.run]
<1>1. /\ r.kind = "revise" /\ r.pc = "inserted" /\ vkg' = vkg \cup {m}
      /\ UNCHANGED <<current, source, ids, observed>>
  BY DEF CommitMapping, vocabulary
<1>2. /\ request'[w].pc = "answered"
      /\ \A x \in Workers \ {w} : request'[x] = request[x]
  BY Answered DEF CommitMapping, MediationInv, Shape, Moves
<1>3. /\ r.source \in 1 .. ids /\ Grounded(r) /\ Checked(r) /\ r.revision \in Nat \ {0}
      /\ Follows(r) /\ r.source \in Scans!Registered /\ r.revision \notin RevisionsOf(r.source)
  BY <1>1 DEF MediationInv, RevisesSound, ReviseSound
<1>4. ASSUME NEW id
      PROVE  RevisionsOf(id)' = RevisionsOf(id) \cup (IF id = r.source THEN {r.revision} ELSE {})
  <2>1. m.source = r.source /\ m.revision = r.revision
    OBVIOUS
  <2> HIDE DEF m, r
  <2>2. CASE id = r.source
    BY <1>1, <2>1, <2>2 DEF RevisionsOf
  <2>3. CASE id # r.source
    BY <1>1, <2>1, <2>3 DEF RevisionsOf
  <2>4. QED
    BY <2>2, <2>3
<1>5. SourcesSound'
  BY <1>1 DEF MediationInv, SourcesSound
<1>6. RowsSound'
  BY <1>1, <1>3 DEF MediationInv, RowsSound, Grounded, Checked, Scans!Registered
<1>7. RevisionsUnique'
  <2>1. \A x \in vkg : x.source = m.source => x.revision # m.revision
    BY <1>3 DEF RevisionsOf
  <2>2. QED
    BY <1>1, <2>1 DEF MediationInv, RevisionsUnique
<1>8. RevisionsWithoutGaps'
  <2> SUFFICES ASSUME NEW id \in Nat PROVE \E c \in Nat : RevisionsOf(id)' = 1 .. c
    BY DEF RevisionsWithoutGaps
  <2>1. PICK c \in Nat : RevisionsOf(id) = 1 .. c
    BY DEF MediationInv, RevisionsWithoutGaps
  <2>2. CASE id = r.source
    <3>1. r.revision = c + 1
      BY <1>3, <2>1, <2>2 DEF Follows
    <3>2. RevisionsOf(id)' = (1 .. c) \cup {c + 1}
      BY <1>4, <2>1, <2>2, <3>1
    <3>3. (1 .. c) \cup {c + 1} = 1 .. (c + 1)
      BY <2>1
    <3>4. QED
      BY <3>2, <3>3
  <2>3. CASE id # r.source
    BY <1>4, <2>1, <2>3
  <2>4. QED
    BY <2>2, <2>3
<1>9. RevisesSound'
  <2> SUFFICES ASSUME NEW x \in Workers \ {w} PROVE ReviseSound(request[x])'
    BY <1>2 DEF RevisesSound, ReviseSound
  <2>1. ReviseSound(request[x]) /\ request'[x] = request[x]
    BY <1>2 DEF MediationInv, RevisesSound
  <2>2. Inserted(request[x]) /\ request[x].source = r.source => request[x].revision # r.revision
    BY <1>1 DEF MediationInv, InsertsApart, Inserted
  <2>3. ASSUME Inserted(request[x]) PROVE request[x].revision \notin RevisionsOf(request[x].source)'
    BY <1>4, <2>1, <2>2, <2>3 DEF ReviseSound, Inserted
  <2>4. Follows(request[x]) => Follows(request[x])'
    BY <1>4, <2>1 DEF Follows
  <2>5. Grounded(request[x]) => Grounded(request[x])'
    BY <1>1, <2>1 DEF Grounded
  <2>6. Checked(request[x]) => Checked(request[x])'
    BY <1>1, <2>1 DEF Checked
  <2>7. QED
    BY <1>1, <2>1, <2>3, <2>4, <2>5, <2>6 DEF ReviseSound, Inserted, Scans!Registered
<1>10. InsertsApart'
  BY <1>2 DEF MediationInv, InsertsApart, Inserted
<1>11. QED
  BY <1>5, <1>6, <1>7, <1>8, <1>9, <1>10 DEF MediationInv

\* A new source has an id that no request and no mapping has met.
LEMMA RegisterSourceKeeps ==
    ASSUME MediationInv, Shape', NEW n \in Sources, RegisterSource(n) PROVE MediationInv'
<1>1. /\ UNCHANGED <<request, current, observed, vkg>> /\ source[n] = None
      /\ ids' = ids + 1 /\ source' = [source EXCEPT ![n] = ids + 1]
  BY DEF RegisterSource, Scans!Register, vocabulary
<1>2. SourcesSound'
  BY <1>1, Mediation DEF MediationInv, SourcesSound
<1>3. \A id \in 1 .. ids : id \in Scans!Registered <=> id \in Scans!Registered'
  BY <1>1, Mediation DEF Scans!Registered, MediationInv, SourcesSound
<1>4. Scans!Registered \subseteq 1 .. ids
  BY DEF Scans!Registered, MediationInv, SourcesSound
<1>5. RowsSound'
  BY <1>1, <1>3, <1>4 DEF MediationInv, RowsSound, Grounded, Checked
<1>6. RevisionsUnique' /\ RevisionsWithoutGaps' /\ InsertsApart'
  BY <1>1 DEF MediationInv, RevisionsUnique, RevisionsWithoutGaps, RevisionsOf, InsertsApart, Inserted
<1>7. RevisesSound'
  <2> SUFFICES ASSUME NEW w \in Workers PROVE ReviseSound(request[w])'
    BY DEF RevisesSound
  <2>1. ReviseSound(request[w]) /\ ids \in Nat
    BY DEF MediationInv, RevisesSound, SourcesSound
  <2>2. QED
    BY <1>1, <1>3, <2>1 DEF ReviseSound, Grounded, Checked, Follows, RevisionsOf
<1>8. QED
  BY <1>2, <1>5, <1>6, <1>7 DEF MediationInv

\* A source that is removed takes its mappings along, and no request that has
\* inserted one waits for it.
LEMMA RemoveSourceKeeps ==
    ASSUME MediationInv, Shape', NEW n \in Sources, RemoveSource(n) PROVE MediationInv'
<1> DEFINE gone == source[n]
<1>1. /\ UNCHANGED <<request, current, ids>> /\ gone # None
      /\ source' = [source EXCEPT ![n] = None]
      /\ observed' = {o \in observed : o.source # gone}
      /\ vkg' = {m \in vkg : m.source # gone}
  BY DEF RemoveSource, Scans!Remove, vocabulary
<1>2. \A w \in Workers : Inserted(request[w]) => request[w].source # gone
  BY DEF RemoveSource, Pending, Inserted
<1>3. SourcesSound'
  BY <1>1 DEF MediationInv, SourcesSound
<1>4. \A id : id \in Scans!Registered' <=> id \in Scans!Registered /\ id # gone
  BY <1>1 DEF Scans!Registered, MediationInv, SourcesSound
<1>5. \A id : RevisionsOf(id)' = IF id = gone THEN {} ELSE RevisionsOf(id)
  BY <1>1 DEF RevisionsOf
<1> HIDE DEF gone
<1>6. RowsSound'
  <2> SUFFICES ASSUME NEW m \in vkg, m.source # gone
               PROVE  m.source \in Scans!Registered' /\ Grounded(m)' /\ Checked(m)'
    BY <1>1 DEF RowsSound
  <2>1. m.source \in Scans!Registered /\ Grounded(m) /\ Checked(m)
    BY DEF MediationInv, RowsSound
  <2>2. QED
    BY <1>1, <1>4, <2>1 DEF Grounded, Checked
<1>7. RevisionsUnique'
  BY <1>1 DEF MediationInv, RevisionsUnique
<1>8. RevisionsWithoutGaps'
  <2> SUFFICES ASSUME NEW id \in Nat PROVE \E c \in Nat : RevisionsOf(id)' = 1 .. c
    BY DEF RevisionsWithoutGaps
  <2>1. CASE id = gone
    <3>1. RevisionsOf(id)' = 1 .. 0
      BY <1>5, <2>1
    <3>2. QED
      BY <3>1
  <2>2. CASE id # gone
    BY <1>5, <2>2 DEF MediationInv, RevisionsWithoutGaps
  <2>3. QED
    BY <2>1, <2>2
<1>9. RevisesSound'
  <2> SUFFICES ASSUME NEW w \in Workers PROVE ReviseSound(request[w])'
    BY DEF RevisesSound
  <2> DEFINE r == request[w]
  <2>1. ReviseSound(r)
    BY DEF MediationInv, RevisesSound
  <2>2. r.source # gone => (Grounded(r) => Grounded(r)') /\ (Follows(r) => Follows(r)')
    BY <1>1, <1>5 DEF Grounded, Follows
  <2>3. Checked(r) => Checked(r)'
    BY <1>1 DEF Checked
  <2>4. Inserted(r) => r.source # gone
    BY <1>2
  <2>5. QED
    BY <1>1, <1>4, <1>5, <2>1, <2>2, <2>3, <2>4 DEF ReviseSound, Inserted
<1>10. InsertsApart'
  BY <1>1 DEF MediationInv, InsertsApart, Inserted
<1>11. QED
  BY <1>3, <1>6, <1>7, <1>8, <1>9, <1>10 DEF MediationInv

LEMMA CompleteScanKeeps ==
    ASSUME MediationInv, Shape', NEW n \in Sources, CompleteScan(n) PROVE MediationInv'
<1>1. UNCHANGED <<request, current, source, ids, vkg>> /\ observed \subseteq observed'
  BY DEF CompleteScan, vocabulary
<1>2. SourcesSound' /\ RevisionsUnique' /\ RevisionsWithoutGaps' /\ InsertsApart'
  BY <1>1 DEF MediationInv, SourcesSound, RevisionsUnique, RevisionsWithoutGaps, RevisionsOf,
     InsertsApart, Inserted
<1>3. RowsSound'
  BY <1>1 DEF MediationInv, RowsSound, Grounded, Checked, Scans!Registered
<1>4. RevisesSound'
  <2> SUFFICES ASSUME NEW w \in Workers PROVE ReviseSound(request[w])'
    BY DEF RevisesSound
  <2>1. ReviseSound(request[w])
    BY DEF MediationInv, RevisesSound
  <2>2. QED
    BY <1>1, <2>1 DEF ReviseSound, Grounded, Checked, Follows, RevisionsOf, Scans!Registered
<1>5. QED
  BY <1>2, <1>3, <1>4 DEF MediationInv

-----------------------------------------------------------------------------
\* At first each source has a number of its own and there are no mappings.
LEMMA MediationAtFirst == ASSUME Init PROVE MediationInv
<1>1. SourcesSound
  <2>1. Cardinality(Sources) \in Nat
    BY Mediation, FS_CardinalityType
  <2>2. QED
    BY <2>1 DEF Init, MediationInit, SourcesSound
<1>2. RowsSound /\ RevisionsUnique
  BY DEF Init, MediationInit, RowsSound, RevisionsUnique
<1>3. RevisionsWithoutGaps
  <2>1. \A id : RevisionsOf(id) = 1 .. 0
    BY DEF Init, MediationInit, RevisionsOf
  <2>2. QED
    BY <2>1 DEF RevisionsWithoutGaps
<1>4. RevisesSound /\ InsertsApart
  BY DEF Init, VocabularyInit, RevisesSound, ReviseSound, InsertsApart, Inserted, Idle
<1>5. QED
  BY <1>1, <1>2, <1>3, <1>4, ShapeAtFirst DEF MediationInv

\* The requests of other components are of other kinds.
LEMMA OthersKeepMappings ==
    ASSUME MediationInv, Shape', UNCHANGED mediation,
           NEW kinds, Touches(kinds), "revise" \notin kinds
    PROVE  MediationInv'
<1>1. Grows /\ \A w \in Workers : request'[w] = request[w] \/ request'[w].kind # "revise"
  BY DEF Touches, Moves, Grows, MediationInv, Shape, Versions, vocabulary
<1>2. QED
  BY <1>1, MediationSteady

LEMMA MediationKept == ASSUME MediationInv, [Next]_vars PROVE MediationInv'
<1>1. Shape /\ Shape'
  BY ShapeKept DEF MediationInv
<1>2. CASE Quiet
  <2>1. \A w \in Workers : \/ request'[w] = request[w]
                           \/ request'[w].kind # "revise" \/ request'[w].pc = "answered"
    BY <1>1, <1>2 DEF Quiet, Moves, Busy, Shape
  <2>2. QED
    BY <1>1, <1>2, <2>1, MediationSteady DEF Quiet
<1>3. CASE LoudAccess
  BY <1>1, <1>3, AccessTouches, OthersKeepMappings DEF LoudAccess
<1>4. CASE LoudSources
  BY <1>1, <1>4, RegisterSourceKeeps, RemoveSourceKeeps, CompleteScanKeeps DEF LoudSources
<1>5. CASE LoudRevising
  BY <1>1, <1>5, BeginReviseKeeps, CheckTablesKeeps, CheckTermsKeeps, NumberMappingKeeps,
     InsertMappingKeeps, CommitMappingKeeps DEF LoudRevising
<1>6. CASE LoudAsking
  BY <1>1, <1>6, AskingTouches, OthersKeepMappings DEF LoudAsking, RecordVkgAccess
<1>7. CASE LoudRegisters
  BY <1>1, <1>7, RegistersTouches, OthersKeepMappings DEF LoudRegisters
<1>8. CASE LoudSearch
  BY <1>1, <1>8, SearchTouches, OthersKeepMappings DEF LoudSearch
<1>9. QED
  BY <1>1, <1>2, <1>3, <1>4, <1>5, <1>6, <1>7, <1>8, Steps

\* Scans have a rank and observe a source that was registered.
LEMMA ScansAtFirst == ASSUME Init PROVE ScansSound
<1>1. Cardinality(Sources) \in Nat
  BY Mediation, FS_CardinalityType
<1>2. QED
  BY <1>1, Mediation DEF Init, MediationInit, ScansSound

LEMMA ScansKept == ASSUME MediationInv, ScansSound, [Next]_vars PROVE ScansSound'
<1>1. ids \in Nat /\ source \in [Sources -> (1 .. ids) \cup {None}] /\ Shape
  BY DEF MediationInv, SourcesSound
<1>2. ASSUME NEW n \in Sources, RegisterSource(n) PROVE ScansSound'
  <2>1. UNCHANGED observed /\ ids' = ids + 1
    BY <1>2 DEF RegisterSource, Scans!Register
  <2>2. QED
    BY <1>1, <2>1 DEF ScansSound
<1>3. ASSUME NEW n \in Sources, RemoveSource(n) PROVE ScansSound'
  BY <1>3 DEF RemoveSource, Scans!Remove, ScansSound
<1>4. ASSUME NEW n \in Sources, CompleteScan(n) PROVE ScansSound'
  BY <1>1, <1>4 DEF CompleteScan, ScansSound
<1>5. CASE UNCHANGED <<ids, observed>>
  BY <1>5 DEF ScansSound
<1>6. CASE LoudRevising
  BY <1>5, <1>6 DEF LoudRevising, BeginRevise, CheckTables, CheckTerms, NumberMapping,
     InsertMapping, CommitMapping, mediation
<1>7. QED
  BY <1>1, <1>2, <1>3, <1>4, <1>5, <1>6, Steps DEF Quiet, LoudAccess, LoudSources, LoudAsking,
     RecordVkgAccess, LoudRegisters, LoudSearch, mediation

LEMMA MediationTypesHold == MediationInv /\ ScansSound => MediationTypes
<1> SUFFICES ASSUME MediationInv, ScansSound PROVE MediationTypes
  OBVIOUS
<1>1. ASSUME NEW m \in vkg PROVE m.revision \in Nat
  <2>1. m.source \in Nat /\ m.revision \in RevisionsOf(m.source)
    BY DEF MediationInv, RowsSound, SourcesSound, Scans!Registered, RevisionsOf
  <2>2. PICK c \in Nat : RevisionsOf(m.source) = 1 .. c
    BY <2>1 DEF MediationInv, RevisionsWithoutGaps
  <2>3. QED
    BY <2>1, <2>2
<1>2. QED
  BY <1>1 DEF MediationInv, SourcesSound, RowsSound, Checked, ScansSound, MediationTypes

\* The inductive invariant of the mappings of virtual graphs.
THEOREM MediationInvariant == Spec => []MediationInv
<1>1. QED
  BY MediationAtFirst, MediationKept, PTL DEF Spec

\* However long a revision takes, whatever is removed, registered again, scanned,
\* approved or retired meanwhile, and however many revisions overlap, a stored
\* mapping stands on what it was checked against, and the revisions of a source
\* are numbered without gaps (validate_mapping of services/vkg.py, add of
\* repositories/vkg.py).
THEOREM RevisionsAlwaysGrounded == Spec => []RevisionsGrounded
<1>1. ASSUME MediationInv PROVE RevisionsGrounded
  <2>1. \A m \in vkg :
          /\ m.source \in Scans!Registered
          /\ \E o \in observed : /\ o.run = m.run /\ o.source = m.source
                                 /\ m.mapping.tables \subseteq o.catalog
          /\ m.against <= current[m.ns]
          /\ m.against # 0 =>
                \A t \in OwnTerms(m.mapping, m.ns) :
                    Lifecycle(Content[m.ns][m.against], t) = Active
    BY <1>1 DEF MediationInv, RowsSound, Grounded, Checked
  <2>2. \A m, x \in vkg : m.source = x.source /\ m.revision = x.revision => m = x
    BY <1>1 DEF MediationInv, RevisionsUnique
  <2>3. ASSUME NEW m \in vkg
        PROVE  RevisionsOf(m.source) = 1 .. Cardinality(RevisionsOf(m.source))
    <3>1. m.source \in Nat
      BY <1>1 DEF MediationInv, RowsSound, SourcesSound, Scans!Registered
    <3>2. PICK c \in Nat : RevisionsOf(m.source) = 1 .. c
      BY <1>1, <3>1 DEF MediationInv, RevisionsWithoutGaps
    <3>3. Cardinality(1 .. c) = c
      BY FS_Interval
    <3>4. QED
      BY <3>2, <3>3
  <2>4. QED
    BY <2>1, <2>2, <2>3 DEF RevisionsGrounded
<1>2. QED
  BY MediationInvariant, <1>1, PTL

-----------------------------------------------------------------------------
\* What the log says of an answer.
EventHonest(e) == /\ e.rows \in {None, Len(e.complete)}
                  /\ e.rows = None => e.terms = <<>>
                  /\ e.version \in Nat /\ e.from \in Nat /\ e.from <= e.version
                  /\ e.ns \in Namespaces /\ e.terms \in Seq(Terms)

\* An answer in the making, while the current versions are cur.
AnswerSound(r, cur) ==
    r.kind \in {"query", "askSource"} =>
        /\ {"kind", "pc", "ns", "form", "want", "since", "from", "rows", "delivered",
            "truncated", "warned", "rec"} \subseteq DOMAIN r
        /\ r.ns \in Namespaces /\ r.rows \in Seq(Terms)
        /\ r.form = "ask" => r.rows = <<>>
        /\ r.truncated = (r.delivered # r.rows)
        /\ ReturnsRdf(r.form) => r.delivered = r.rows
        /\ r.warned \subseteq {r.delivered[i] : i \in DOMAIN r.delivered}
        /\ r.from \in Nat /\ r.from <= cur[r.ns]
        /\ r.kind = "askSource" => r.from = 0
        /\ r.pc = "send" => r.warned = {} /\ r.delivered = <<>> /\ r.rows = <<>> /\ r.truncated = FALSE
        /\ r.pc = "upsert" => EventHonest(r.rec.event)

AnswersInv == /\ AccessInv
              /\ \A w \in Workers : AnswerSound(request[w], current)
              /\ \A i \in DOMAIN log : EventHonest(log[i])

LEMMA AnswersAtFirst == ASSUME Init PROVE AnswersInv
BY AccessAtFirst DEF Init, VocabularyInit, LogInit, AnswersInv, AnswerSound, Idle

\* Versions only grow.
LEMMA AnswerStays ==
    ASSUME NEW r, NEW cur, NEW later, AnswerSound(r, cur),
           cur \in [Namespaces -> Nat], later \in [Namespaces -> Nat],
           \A n \in Namespaces : cur[n] <= later[n]
    PROVE  AnswerSound(r, later)
BY DEF AnswerSound

\* Rows are cut, or they are the answer.
LEMMA Capped ==
    ASSUME NEW rows \in Seq(Terms)
    PROVE  CapBindings(rows).truncated = (CapBindings(rows).payload # rows)
<1>1. Len(rows) \in Nat /\ MaxResults \in Nat
  BY Gateway
<1>2. CASE Len(rows) <= MaxResults
  BY <1>2 DEF CapBindings
<1>3. CASE ~(Len(rows) <= MaxResults)
  <2>1. Len(SubSeq(rows, 1, MaxResults)) = MaxResults
    BY <1>1, <1>3
  <2>2. SubSeq(rows, 1, MaxResults) # rows
    BY <1>1, <1>3, <2>1
  <2>3. QED
    BY <1>3, <2>2 DEF CapBindings
<1>4. QED
  BY <1>2, <1>3

LEMMA BindingRows == ASSUME NEW r PROVE Bindings(r) \in Seq(Terms) /\ (r.form = "ask" => Bindings(r) = <<>>)
BY SortedOnes DEF Bindings

\* The steps of queries, of the graph and of sources.
LEMMA AnswerOfOne ==
    ASSUME AnswersInv, NEW w \in Workers, QueryStep(w), Moves(w), Versions
    PROVE  AnswerSound(request'[w], current)
<1> DEFINE r == request[w]
           q == request'[w]
<1>1. DOMAIN request = Workers /\ AnswerSound(r, current) /\ HasShape(r)
  BY DEF AnswersInv, AccessInv, Shape
<1>2. ASSUME {"kind", "pc", "ns", "form", "want", "since", "from", "rows", "delivered",
              "truncated", "warned", "rec"} \subseteq DOMAIN q,
             q.pc = "send", q.ns \in Namespaces, q.from = 0, q.rows = <<>>,
             q.delivered = <<>>, q.truncated = FALSE, q.warned = {}
      PROVE  AnswerSound(q, current)
  <2>1. <<>> \in Seq(Terms) /\ current[q.ns] \in Nat /\ 0 <= current[q.ns]
    BY <1>2 DEF Versions
  <2>2. q.warned \subseteq {q.delivered[i] : i \in DOMAIN q.delivered}
    BY <1>2
  <2>3. q.truncated = (q.delivered # q.rows) /\ q.pc # "upsert" /\ (ReturnsRdf(q.form) => q.delivered = q.rows)
    BY <1>2
  <2>4. q.rows \in Seq(Terms) /\ q.from \in Nat /\ q.from <= current[q.ns]
    BY <1>2, <2>1
  <2> HIDE DEF q
  <2>5. QED
    BY <1>2, <2>2, <2>3, <2>4 DEF AnswerSound
<1>3. ASSUME NEW n \in Namespaces, NEW x \in Asked, BeginQuery(w, n, x)
      PROVE  AnswerSound(q, current)
  <2>1. q = [kind |-> "query", pc |-> "send", ns |-> n, form |-> x.form, want |-> x.want,
             since |-> asked, from |-> 0, rows |-> <<>>, delivered |-> <<>>,
             truncated |-> FALSE, warned |-> {}, rec |-> NoRecord]
    BY <1>1, <1>3 DEF BeginQuery, Ask
  <2> HIDE DEF q
  <2>2. QED
    BY <1>2, <2>1 DEF q
<1>4. ASSUME NEW n \in Sources, NEW x \in Asked, BeginAskSource(w, n, x)
      PROVE  AnswerSound(q, current)
  <2>1. q = [kind |-> "askSource", pc |-> "send", ns |-> NamespaceOf[n], name |-> n,
             form |-> x.form, want |-> x.want, revision |-> LastRevision(source[n]),
             since |-> asked, from |-> 0, rows |-> <<>>, delivered |-> <<>>,
             truncated |-> FALSE, warned |-> {}, rec |-> NoRecord]
    BY <1>1, <1>4 DEF BeginAskSource, Ask
  <2>2. NamespaceOf[n] \in Namespaces
    BY Mediation
  <2> HIDE DEF q
  <2>3. QED
    BY <1>2, <2>1, <2>2 DEF q
<1>5. ASSUME SendSelect(w) PROVE AnswerSound(q, current)
  <2> DEFINE rows == Bindings(r)
             capped == CapBindings(rows)
  <2>1. rows \in Seq(Terms) /\ (r.form = "ask" => rows = <<>>)
        /\ capped.truncated = (capped.payload # rows)
    BY BindingRows, Capped
  <2>2. /\ q = [r EXCEPT !.pc = "warn", !.from = served[r.ns], !.rows = rows,
                         !.delivered = capped.payload, !.truncated = capped.truncated]
        /\ r.kind = "query" /\ r.pc = "send" /\ ~ReturnsRdf(r.form)
    BY <1>1, <1>5 DEF SendSelect, Goes
  <2> HIDE DEF rows, capped, q, r
  <2>3. QED
    BY <1>1, <2>1, <2>2 DEF AnswerSound, Versions
<1>6. ASSUME SendConstruct(w) PROVE AnswerSound(q, current)
  <2> DEFINE rows == Bindings(r)
  <2>1. rows \in Seq(Terms) /\ (r.form = "ask" => rows = <<>>)
    BY BindingRows
  <2>2. /\ \/ q = [r EXCEPT !.pc = "warn", !.from = served[r.ns], !.rows = rows,
                             !.delivered = rows]
           \/ q = Idle
        /\ r.kind = "query" /\ r.pc = "send"
    BY <1>1, <1>6 DEF SendConstruct, Goes, Refused
  <2> HIDE DEF rows, q, r
  <2>3. CASE q = Idle
    BY <2>3 DEF AnswerSound, Idle
  <2>4. CASE q # Idle
    BY <1>1, <2>1, <2>2, <2>4 DEF AnswerSound, Versions
  <2>5. QED
    BY <2>3, <2>4
<1>7. ASSUME Warn(w) PROVE AnswerSound(q, current)
  <2>1. /\ \/ q = [r EXCEPT !.pc = "record", !.warned = Found(r, DeprecatedTerms(r.ns))]
           \/ q = [r EXCEPT !.pc = "record"]
        /\ r.kind = "query" /\ r.pc = "warn"
    BY <1>1, <1>7 DEF Warn
  <2>2. Found(r, DeprecatedTerms(r.ns)) \subseteq {r.delivered[i] : i \in DOMAIN r.delivered}
    BY DEF Found
  <2> HIDE DEF q, r
  <2>3. CASE q = [r EXCEPT !.pc = "record"]
    BY <1>1, <2>1, <2>3 DEF AnswerSound
  <2>4. CASE q = [r EXCEPT !.pc = "record", !.warned = Found(r, DeprecatedTerms(r.ns))]
    <3> DEFINE found == Found(r, DeprecatedTerms(r.ns))
    <3> HIDE DEF found
    <3>1. q = [r EXCEPT !.pc = "record", !.warned = found] /\ found \subseteq {r.delivered[i] : i \in DOMAIN r.delivered}
      BY <2>2, <2>4 DEF found
    <3>2. QED
      BY <1>1, <2>1, <3>1 DEF AnswerSound
  <2>5. QED
    BY <2>1, <2>3, <2>4
<1>8. ASSUME SendSource(w) PROVE AnswerSound(q, current)
  <2> DEFINE rows == IF r.form = "ask" THEN <<>> ELSE Sorted(r.want)
             capped == IF ReturnsRdf(r.form)
                       THEN [payload |-> rows, truncated |-> FALSE] ELSE CapBindings(rows)
  <2>1. rows \in Seq(Terms) /\ (r.form = "ask" => rows = <<>>)
    BY SortedOnes
  <2>2. /\ capped.truncated = (capped.payload # rows)
        /\ ReturnsRdf(r.form) => capped.payload = rows
    BY <2>1, Capped
  <2>3. /\ q = [r EXCEPT !.pc = "record", !.rows = rows,
                         !.delivered = capped.payload, !.truncated = capped.truncated]
        /\ r.kind = "askSource" /\ r.pc = "send"
    BY <1>1, <1>8 DEF SendSource, Goes
  <2> HIDE DEF rows, capped, q, r
  <2>4. QED
    BY <1>1, <2>1, <2>2, <2>3 DEF AnswerSound
<1>9. ASSUME RecordFails(w) PROVE AnswerSound(q, current)
  <2>1. q = [r EXCEPT !.pc = "answered"]
    BY <1>1, <1>9 DEF RecordFails
  <2> HIDE DEF q, r
  <2>2. QED
    BY <1>1, <2>1 DEF AnswerSound, HasShape
<1>10. QED
  BY <1>3, <1>4, <1>5, <1>6, <1>7, <1>8, <1>9 DEF QueryStep

-----------------------------------------------------------------------------
\* What QueryRecord says is right.
LEMMA RecordHonest ==
    ASSUME NEW r, AnswerSound(r, current), r.kind = "query", Versions
    PROVE  EventHonest(QueryRecord(r))
<1> DEFINE e == QueryRecord(r)
<1>1. /\ e.rows = RowCount(r, r.rows) /\ e.complete = r.rows /\ e.from = r.from
      /\ e.version = current[r.ns]
      /\ e.terms = IF ReturnsRdf(r.form)
                   THEN TermsWithPrefix({r.rows[i] : i \in DOMAIN r.rows}, r.ns)
                   ELSE ReturnedTerms(r.rows, r.ns)
      /\ e.ns = r.ns /\ e.terms \in Seq(Terms)
  BY SortedOnes DEF QueryRecord, Record, CurrentApproved, TermsWithPrefix, ReturnedTerms
<1>2. /\ r.rows \in Seq(Terms) /\ r.ns \in Namespaces /\ r.from \in Nat /\ r.from <= current[r.ns]
      /\ r.form = "ask" => r.rows = <<>>
  BY DEF AnswerSound
<1>3. Len(r.rows) \in Nat /\ current[r.ns] \in Nat /\ Len(r.rows) # None
  BY <1>2, Mediation DEF Versions
<1> HIDE DEF e
<1>4. ASSUME r.form = "ask" PROVE EventHonest(e)
  <2>1. r.rows = <<>> /\ e.rows = None
    BY <1>1, <1>2, <1>4 DEF RowCount
  <2>2. {r.rows[i] : i \in DOMAIN r.rows} \cap Under[r.ns] = {} /\ ~ReturnsRdf(r.form)
    BY <1>4, <2>1 DEF ReturnsRdf
  <2>3. e.terms = <<>>
    BY <1>1, <2>2, SortedNone DEF ReturnedTerms
  <2>4. QED
    BY <1>1, <1>2, <1>3, <2>1, <2>3 DEF EventHonest
<1>5. ASSUME r.form # "ask" PROVE EventHonest(e)
  BY <1>1, <1>2, <1>3, <1>5 DEF EventHonest, RowCount
<1>6. QED
  BY <1>4, <1>5 DEF e

\* The steps of recording.
LEMMA AnswerRecorded ==
    ASSUME AnswersInv, NEW w \in Workers, UpsertTerm(w) \/ RecordAccess(w) \/ RecordVkgAccess(w)
                                           \/ CommitRecord(w), request'[w] # request[w]
    PROVE  AnswerSound(request'[w], current)
<1> DEFINE r == request[w]
           q == request'[w]
<1>1. DOMAIN request = Workers /\ AnswerSound(r, current) /\ HasShape(r) /\ Versions
  BY DEF AnswersInv, AccessInv, Shape
<1>2. ASSUME NEW k, q = [r EXCEPT !.rec.held = @ \cup {Row(w, k)}], r.pc = "upsert"
      PROVE  AnswerSound(q, current)
  <2>1. {"kind", "rec"} \subseteq DOMAIN r /\ {"id", "event", "held"} \subseteq DOMAIN r.rec
    BY <1>1, <1>2 DEF HasShape
  <2>2. q.rec.event = r.rec.event
    BY <1>2, <2>1
  <2> HIDE DEF q, r
  <2>3. QED
    BY <1>1, <1>2, <2>1, <2>2 DEF AnswerSound
<1>3. ASSUME NEW e, q = Recording(r, e), EventHonest(e), r.kind \in {"query", "askSource"}
      PROVE  AnswerSound(q, current)
  <2>1. q = [r EXCEPT !.pc = "upsert", !.rec = [id |-> lastEvent + 1, event |-> e, held |-> {}]]
    BY <1>3 DEF Recording
  <2>2. {"kind", "pc", "rec"} \subseteq DOMAIN r
    BY <1>1, <1>3 DEF HasShape
  <2>3. q.rec.event = e /\ q.pc = "upsert"
    BY <2>1, <2>2
  <2> HIDE DEF q, r
  <2>4. QED
    BY <1>1, <1>3, <2>1, <2>2, <2>3 DEF AnswerSound
<1>4. CASE UpsertTerm(w)
  <2>1. r.pc = "upsert"
    BY <1>4 DEF UpsertTerm, First, Todo
  <2>2. PICK k \in First(w) : q = [r EXCEPT !.rec.held = @ \cup {Row(w, k)}]
    BY <1>1, <1>4 DEF UpsertTerm, Goes
  <2>3. QED
    BY <1>2, <2>1, <2>2
<1>5. CASE RecordAccess(w)
  <2>1. q = Recording(r, QueryRecord(r)) /\ r.kind = "query"
    BY <1>1, <1>5 DEF RecordAccess, Goes
  <2>2. EventHonest(QueryRecord(r))
    BY <1>1, <2>1, RecordHonest
  <2>3. QED
    BY <1>3, <2>1, <2>2
<1>6. CASE RecordVkgAccess(w)
  <2> DEFINE e == Record(r, 0, r.name, r.revision, RowCount(r, r.rows), <<>>)
  <2>1. q = Recording(r, e) /\ r.kind = "askSource"
    BY <1>1, <1>6 DEF RecordVkgAccess, Goes
  <2>2. EventHonest(e)
    BY <1>1, <2>1 DEF AnswerSound, Record, RowCount, EventHonest
  <2> HIDE DEF e
  <2>3. QED
    BY <1>3, <2>1, <2>2
<1>7. ASSUME CommitRecord(w) PROVE AnswerSound(q, current)
  <2>1. q = [r EXCEPT !.pc = "answered"]
    BY <1>1, <1>7 DEF CommitRecord, Answers, Goes
  <2> HIDE DEF q, r
  <2>2. QED
    BY <1>1, <2>1 DEF AnswerSound, HasShape
<1>8. QED
  BY <1>4, <1>5, <1>6, <1>7

LEMMA EventsHonest ==
    ASSUME AnswersInv, [Next]_vars PROVE \A i \in DOMAIN log' : EventHonest(log'[i])
<1>1. Shape
  BY DEF AnswersInv, AccessInv
<1>2. CASE log' = log
  BY <1>2 DEF AnswersInv
<1>3. ASSUME NEW w \in Workers, CommitRecord(w) PROVE \A i \in DOMAIN log' : EventHonest(log'[i])
  <2>1. EventHonest(request[w].rec.event)
    BY <1>1, <1>3 DEF CommitRecord, Shape, HasShape, AnswersInv, AnswerSound
  <2>2. QED
    BY <1>3, <2>1 DEF CommitRecord, AnswersInv
<1>4. ASSUME NEW w \in Workers, DeleteRows(w) PROVE \A i \in DOMAIN log' : EventHonest(log'[i])
  <2>1. ASSUME NEW e, EventHonest(e) PROVE EventHonest([e EXCEPT !.purged = TRUE])
    BY <2>1 DEF EventHonest
  <2>2. QED
    BY <1>4, <2>1 DEF DeleteRows, AnswersInv
<1>5. CASE LoudAccess
  BY <1>2, <1>3, <1>4, <1>5 DEF LoudAccess, UpsertTerm, RecordAccess, records
<1>6. CASE LoudRevising
  <2>1. UNCHANGED records
    BY <1>6 DEF LoudRevising, BeginRevise, CheckTables, CheckTerms, NumberMapping,
               InsertMapping, CommitMapping
  <2>2. QED
    BY <1>2, <2>1 DEF records
<1>7. QED
  BY <1>1, <1>2, <1>5, <1>6, Steps DEF Quiet, LoudSources, RegisterSource, RemoveSource,
     CompleteScan, LoudAsking, RecordVkgAccess, LoudRegisters, LoudSearch, records

LEMMA AnswersKept == ASSUME AnswersInv, [Next]_vars PROVE AnswersInv'
<1>1. Shape /\ Shape' /\ AccessInv'
  BY AccessKept DEF AnswersInv, AccessInv
<1>2. /\ current \in [Namespaces -> Nat] /\ current' \in [Namespaces -> Nat] /\ Versions
      /\ \A n \in Namespaces : current[n] <= current'[n]
  BY <1>1, AlwaysGrows DEF Shape, Versions, Grows
<1>3. ASSUME NEW w \in Workers PROVE AnswerSound(request'[w], current)
  <2>1. CASE request'[w] = request[w]
    BY <2>1 DEF AnswersInv
  <2>2. CASE request'[w].kind \notin {"query", "askSource"}
    BY <2>2 DEF AnswerSound
  <2>3. CASE request'[w] # request[w] /\ request'[w].kind \in {"query", "askSource"}
    <3>1. /\ Moves(w)
          /\ QueryStep(w) \/ LoudAccess \/ LoudAsking
      BY <1>1, <2>3, Movers DEF KnownStep, Idle
    <3>2. CASE QueryStep(w)
      BY <1>2, <3>1, <3>2, AnswerOfOne
    <3>3. ASSUME NEW x \in Workers, x # w PROVE request'[x] = request[x]
      BY <3>1, <3>3, <1>1 DEF Moves, Shape
    <3>4. ASSUME NEW x \in Workers, UpsertTerm(x) \/ RecordAccess(x) \/ RecordVkgAccess(x)
                                    \/ CommitRecord(x) \/ DeleteRows(x)
          PROVE  x = w
      <4>1. \A y \in Workers \ {x} : request'[y] = request[y]
        BY <3>4, <1>1 DEF UpsertTerm, RecordAccess, RecordVkgAccess, CommitRecord, DeleteRows,
                          Answers, Goes, Shape
      <4>2. QED
        BY <2>3, <4>1
    <3>5. ~DeleteRows(w)
      BY <1>1, <2>3, Answered DEF DeleteRows
    <3>6. QED
      BY <2>3, <3>1, <3>2, <3>4, <3>5, AnswerRecorded DEF LoudAccess, LoudAsking
  <2>4. QED
    BY <2>1, <2>2, <2>3
<1>4. \A w \in Workers : AnswerSound(request'[w], current')
  BY <1>2, <1>3, AnswerStays
<1>5. QED
  BY <1>1, <1>4, EventsHonest DEF AnswersInv

LEMMA AnswersAreHonest == ASSUME AnswersInv PROVE AnswerHonest
BY DEF AnswersInv, AccessInv, Shape, AnswerSound, EventHonest, AnswerHonest

-----------------------------------------------------------------------------
\* Induction over the numbers up to n.
LEMMA UpTo ==
    ASSUME NEW n \in Nat, NEW S, 0 \in S, \A i \in 1 .. n : i - 1 \in S => i \in S
    PROVE  0 .. n \subseteq S
<1> DEFINE Bad == {i \in 0 .. n : i \notin S}
<1> SUFFICES ASSUME Bad # {} PROVE FALSE
  OBVIOUS
<1>1. PICK i \in Bad : \A j \in Bad : i <= j
  <2>1. Bad \in SUBSET Nat
    OBVIOUS
  <2> HIDE DEF Bad
  <2>2. QED
    BY <2>1, LeastOf
<1>2. i \in 1 .. n /\ i - 1 \in 0 .. n
  BY <1>1
<1>3. i - 1 \in S
  BY <1>1, <1>2
<1>4. QED
  BY <1>1, <1>2, <1>3

\* Prefix sums of costs are numbers, and grow.
LEMMA SumsNat ==
    ASSUME NEW costs \in Seq(Nat)
    PROVE  /\ Len(costs) \in Nat
           /\ \A i \in 0 .. Len(costs) : Sums(costs)[i] \in Nat
           /\ Sums(costs)[0] = 0
           /\ \A i \in 1 .. Len(costs) : Sums(costs)[i] = Sums(costs)[i - 1] + costs[i]
           /\ \A i \in 0 .. Len(costs) : Sums(costs)[i] <= Sums(costs)[Len(costs)]
<1> DEFINE n == Len(costs)
           f == Sums(costs)
<1>1. n \in Nat /\ \A i \in 1 .. n : costs[i] \in Nat
  OBVIOUS
<1>2. f[0] = 0 /\ \A i \in 1 .. n : f[i] = f[i - 1] + costs[i]
  BY <1>1, SumsStep
<1> HIDE DEF f, n
<1>3. \A i \in 0 .. n : f[i] \in Nat
  <2> DEFINE S == {i \in 0 .. n : f[i] \in Nat}
  <2>1. 0 \in S
    BY <1>1, <1>2
  <2>2. ASSUME NEW i \in 1 .. n, i - 1 \in S PROVE i \in S
    <3>1. f[i] = f[i - 1] + costs[i] /\ costs[i] \in Nat /\ f[i - 1] \in Nat
      BY <1>1, <1>2, <2>2
    <3>2. QED
      BY <1>1, <3>1
  <2> HIDE DEF S
  <2>3. 0 .. n \subseteq S
    BY <1>1, <2>1, <2>2, UpTo
  <2>4. QED
    BY <2>3 DEF S
<1>4. \A i \in 0 .. n : f[i] <= f[n]
  <2> DEFINE S == {k \in 0 .. n : f[n - k] <= f[n]}
  <2>1. 0 \in S
    BY <1>1, <1>3
  <2>2. ASSUME NEW k \in 1 .. n, k - 1 \in S PROVE k \in S
    <3>1. f[n - (k - 1)] = f[n - k] + costs[n - (k - 1)]
      <4>1. n - (k - 1) \in 1 .. n /\ (n - (k - 1)) - 1 = n - k
        BY <1>1
      <4>2. QED
        BY <1>2, <4>1
    <3>2. costs[n - (k - 1)] \in Nat /\ f[n - k] \in Nat /\ f[n - (k - 1)] <= f[n] /\ f[n] \in Nat
      BY <1>1, <1>3, <2>2
    <3>3. QED
      BY <3>1, <3>2
  <2> HIDE DEF S
  <2>3. 0 .. n \subseteq S
    BY <1>1, <2>1, <2>2, UpTo
  <2>4. ASSUME NEW i \in 0 .. n PROVE f[i] <= f[n]
    <3>1. n - i \in S /\ n - (n - i) = i
      BY <1>1, <2>3
    <3>2. QED
      BY <3>1 DEF S
  <2>5. QED
    BY <2>4
<1>5. QED
  BY <1>1, <1>2, <1>3, <1>4 DEF f, n

-----------------------------------------------------------------------------
\* The targets of a shape in one version, as Measuring has them.
AreTargets(targets) == /\ Len(targets) \in Nat /\ DOMAIN targets = 1 .. Len(targets)
                       /\ \A i \in DOMAIN targets : targets[i].paths \in Seq(Terms)

\* What is wanted of a target are its properties that the mapping makes.
AllWanted(m, target) ==
    \A k \in DOMAIN target.paths : target.paths[k] \in m.predicates =>
       \E l \in DOMAIN Wanted(m, target) : Wanted(m, target)[l] = target.paths[k]

LEMMA WantedOnes ==
    ASSUME NEW m, NEW target, target.paths \in Seq(Terms)
    PROVE  /\ Wanted(m, target) \in Seq(Terms) /\ Len(Wanted(m, target)) \in Nat
           /\ AllWanted(m, target)
<1> DEFINE P == {k \in DOMAIN target.paths : target.paths[k] \in m.predicates}
           s == target.paths
<1>1. P \in SUBSET DOMAIN s /\ s \in Seq(Terms)
  OBVIOUS
<1>2. Wanted(m, target) = Chosen(s, P)
  BY DEF Wanted
<1> HIDE DEF P
<1>3. /\ Chosen(s, P) \in Seq(Terms)
      /\ \A i \in P : \E k \in DOMAIN Chosen(s, P) : Chosen(s, P)[k] = s[i]
  BY <1>1, ChosenOnes
<1>4. ASSUME NEW k \in DOMAIN s, s[k] \in m.predicates
      PROVE  \E l \in DOMAIN Wanted(m, target) : Wanted(m, target)[l] = s[k]
  <2>1. k \in P
    BY <1>4 DEF P
  <2>2. QED
    BY <1>2, <1>3, <2>1, Zenon
<1>5. Len(Chosen(s, P)) \in Nat
  BY <1>3, LenProperties
<1>6. AllWanted(m, target)
  BY <1>4 DEF AllWanted
<1>7. QED
  BY <1>2, <1>3, <1>5, <1>6, Zenon

\* What one target costs, of all that is needed and of what is planned.
Cost(m, target) == IF Mapped(m, target) THEN 1 + Len(Wanted(m, target)) ELSE 0
PlanCost(plan, i) == IF i \in DOMAIN plan THEN 1 + Len(plan[i]) ELSE 0

\* No more is planned than the limit, and what is planned is all that is
\* needed only if every target is planned, with all that is wanted of it.
PlanRight(m, targets, plan) ==
    /\ DOMAIN plan \subseteq {i \in DOMAIN targets : Mapped(m, targets[i])}
    /\ \A i \in DOMAIN plan : plan[i] \in Seq(Terms)
    /\ CountPlanned(plan, targets) \in Nat /\ TotalProbes(m, targets) \in Nat
    /\ CountPlanned(plan, targets) <= MaxProbes
    /\ TotalProbes(m, targets) = CountPlanned(plan, targets) =>
          \A i \in DOMAIN targets : Mapped(m, targets[i]) =>
             i \in DOMAIN plan /\ plan[i] = Wanted(m, targets[i])

LEMMA PlanIsRight ==
    ASSUME NEW m, NEW targets, AreTargets(targets)
    PROVE  PlanRight(m, targets, PlanProbes(m, targets))
<1> DEFINE n == Len(targets)
           plan == PlanProbes(m, targets)
           costs == [i \in DOMAIN targets |-> Cost(m, targets[i])]
           paid == [i \in DOMAIN targets |-> PlanCost(plan, i)]
           need == Sums(costs)
           sent == Sums(paid)
           wanted(i) == Wanted(m, targets[i])
<1>1. n \in Nat /\ DOMAIN targets = 1 .. n /\ MaxProbes \in Nat
  BY Measuring DEF AreTargets
<1>2. \A i \in 1 .. n : wanted(i) \in Seq(Terms) /\ Len(wanted(i)) \in Nat
  BY <1>1, WantedOnes DEF AreTargets
<1>3. costs \in Seq(Nat) /\ Len(costs) = n /\ \A i \in 1 .. n : costs[i] = Cost(m, targets[i])
  <2>1. costs \in [1 .. n -> Nat]
    BY <1>1, <1>2 DEF Cost
  <2>2. QED
    BY <1>1, <2>1
<1>4. /\ \A i \in 0 .. n : need[i] \in Nat /\ need[i] <= need[n]
      /\ need[0] = 0
      /\ \A i \in 1 .. n : need[i] = need[i - 1] + costs[i]
  <2> HIDE DEF costs
  <2>1. QED
    BY <1>3, SumsNat
<1>5. Needed(m, targets) = need /\ TotalProbes(m, targets) = need[n]
  BY DEF Needed, TotalProbes, Cost
<1> HIDE DEF need
<1>6. /\ DOMAIN plan = {i \in 1 .. n : Mapped(m, targets[i]) /\ MaxProbes - need[i - 1] > 0}
      /\ \A i \in DOMAIN plan :
            plan[i] = SubSeq(wanted(i), 1, IF Len(wanted(i)) < MaxProbes - need[i - 1]
                                           THEN Len(wanted(i)) ELSE MaxProbes - need[i - 1] - 1)
  BY <1>1, <1>5 DEF PlanProbes
<1> HIDE DEF plan
<1>7. ASSUME NEW i \in DOMAIN plan
      PROVE  /\ plan[i] \in Seq(Terms) /\ Len(plan[i]) \in Nat
             /\ 1 + Len(plan[i]) <= costs[i] /\ 1 + Len(plan[i]) <= MaxProbes - need[i - 1]
             /\ Len(wanted(i)) < MaxProbes - need[i - 1] => plan[i] = wanted(i)
  <2> DEFINE s == wanted(i)
             left == MaxProbes - need[i - 1]
             k == IF Len(s) < left THEN Len(s) ELSE left - 1
  <2>1. /\ i \in 1 .. n /\ left > 0 /\ Mapped(m, targets[i]) /\ need[i - 1] \in Nat
        /\ plan[i] = SubSeq(s, 1, k) /\ s \in Seq(Terms) /\ Len(s) \in Nat
        /\ costs[i] = 1 + Len(s)
    BY <1>1, <1>2, <1>3, <1>4, <1>6 DEF Cost
  <2> HIDE DEF s
  <2>2. left \in Int /\ k \in 0 .. Len(s) /\ k <= left - 1
    BY <1>1, <2>1
  <2> HIDE DEF k, left
  <2>3. plan[i] \in Seq(Terms) /\ Len(plan[i]) = k
    BY <2>1, <2>2
  <2>4. Len(s) < left => plan[i] = s
    <3>1. SUFFICES ASSUME Len(s) < left PROVE plan[i] = s
      OBVIOUS
    <3>2. k = Len(s)
      BY <3>1 DEF k
    <3>3. SubSeq(s, 1, Len(s)) = s
      BY <2>1
    <3>4. QED
      BY <2>1, <3>2, <3>3
  <2>5. 1 + Len(plan[i]) <= costs[i] /\ 1 + Len(plan[i]) <= left
    BY <2>1, <2>2, <2>3
  <2>6. QED
    BY <2>2, <2>3, <2>4, <2>5 DEF left, s
<1> HIDE DEF wanted
<1>8. /\ paid \in Seq(Nat) /\ Len(paid) = n
      /\ \A i \in 1 .. n : paid[i] = PlanCost(plan, i)
  <2>1. paid \in [1 .. n -> Nat]
    BY <1>1, <1>7 DEF PlanCost
  <2>2. QED
    BY <1>1, <2>1
<1>9. /\ \A i \in 0 .. n : sent[i] \in Nat
      /\ sent[0] = 0
      /\ \A i \in 1 .. n : sent[i] = sent[i - 1] + paid[i]
  <2> HIDE DEF paid
  <2>1. QED
    BY <1>8, SumsNat
<1>10. CountPlanned(plan, targets) = sent[n]
  BY DEF CountPlanned, PlanCost
<1> HIDE DEF sent, paid, costs
<1>11. sent[n] <= MaxProbes
  <2> DEFINE S == {i \in 0 .. n : sent[i] <= MaxProbes /\ sent[i] <= need[i]}
  <2>1. 0 \in S
    BY <1>1, <1>4, <1>9
  <2>2. ASSUME NEW i \in 1 .. n, i - 1 \in S PROVE i \in S
    <3>1. /\ sent[i - 1] <= MaxProbes /\ sent[i - 1] <= need[i - 1]
          /\ sent[i - 1] \in Nat /\ need[i - 1] \in Nat /\ i \in 0 .. n
          /\ sent[i] = sent[i - 1] + paid[i] /\ need[i] = need[i - 1] + costs[i]
          /\ costs[i] \in Nat
      BY <1>1, <1>3, <1>4, <1>9, <2>2
    <3>2. paid[i] <= costs[i] /\ paid[i] \in Nat /\ (paid[i] = 0 \/ paid[i] <= MaxProbes - need[i - 1])
      BY <1>7, <1>8, <3>1 DEF PlanCost
    <3>3. sent[i] <= MaxProbes /\ sent[i] <= need[i]
      BY <1>1, <3>1, <3>2
    <3>4. QED
      BY <3>1, <3>3
  <2> HIDE DEF S
  <2>3. 0 .. n \subseteq S
    BY <1>1, <2>1, <2>2, UpTo
  <2>4. QED
    BY <1>1, <2>3 DEF S
<1>12. ASSUME need[n] = sent[n], NEW i \in 1 .. n, Mapped(m, targets[i])
       PROVE  i \in DOMAIN plan /\ plan[i] = wanted(i)
  <2>1. /\ need[i] <= need[n] /\ need[n] <= MaxProbes /\ need[i - 1] \in Nat /\ need[i] \in Nat
        /\ need[i] = need[i - 1] + costs[i] /\ costs[i] = 1 + Len(wanted(i)) /\ Len(wanted(i)) \in Nat
        /\ need[n] \in Nat
    BY <1>1, <1>2, <1>3, <1>4, <1>11, <1>12 DEF Cost, wanted
  <2>2. Len(wanted(i)) < MaxProbes - need[i - 1] /\ MaxProbes - need[i - 1] > 0
    BY <1>1, <2>1
  <2>3. QED
    BY <1>6, <1>7, <1>12, <2>2
<1>13. need[n] \in Nat /\ sent[n] \in Nat
  BY <1>1, <1>4, <1>9
<1>14. QED
  BY <1>1, <1>5, <1>6, <1>7, <1>10, <1>11, <1>12, <1>13 DEF PlanRight, wanted, plan

-----------------------------------------------------------------------------
\* A target that was probed is reported.
Probed(r, target, probes) ==
    \E present \in {"yes", "no", "failed"},
       missing \in [{probes[k] : k \in DOMAIN probes} -> {"none", "some", "failed"}] :
          Report(target, r.mapping, present, missing) \in r.report

\* What a measurement has planned, probed and reported.
MeasureTrue(r, targets) ==
    /\ r.plan = PlanProbes(r.mapping, targets)
    /\ r.skipped = TotalProbes(r.mapping, targets) - CountPlanned(r.plan, targets)
    /\ r.issued \in Int /\ r.issued <= CountPlanned(r.plan, targets)
    /\ r.todo \subseteq DOMAIN r.plan
    /\ \A i \in DOMAIN r.plan \ r.todo : Probed(r, targets[i], r.plan[i])
    /\ r.pc = "answered" => r.todo = {} /\ Rest(r.mapping, targets, r.plan) \subseteq r.report

MeasureShaped(r) ==
    /\ {"kind", "pc", "ns", "source", "version", "mapping", "revision", "plan", "todo",
        "report", "skipped", "issued", "noShapes"} \subseteq DOMAIN r
    /\ r.ns \in Namespaces /\ r.version \in DOMAIN Content[r.ns]
    /\ r.pc \in {"mapping", "probe", "answered"}

MeasureSound(r) ==
    r.kind = "measure" =>
        /\ MeasureShaped(r)
        /\ r.pc # "mapping" /\ ~r.noShapes => MeasureTrue(r, Targets[r.ns][r.version])

LEMMA VersionTargets ==
    ASSUME NEW n \in Namespaces, NEW v \in DOMAIN Content[n]
    PROVE  AreTargets(Targets[n][v])
BY Measuring DEF AreTargets

RangeOf(s) == {s[k] : k \in DOMAIN s}

LEMMA RangeFinite ==
    ASSUME NEW S, NEW s \in Seq(S)
    PROVE  IsFiniteSet(RangeOf(s)) /\ Cardinality(RangeOf(s)) \in Nat
<1> DEFINE R == {s[k] : k \in DOMAIN s}
<1>1. IsFiniteSet(DOMAIN s)
  BY FS_Interval, LenProperties
<1>2. s \in Surjection(DOMAIN s, R)
  BY DEF Surjection
<1> HIDE DEF R
<1>3. IsFiniteSet(R)
  BY <1>1, <1>2, FS_Surjection
<1>4. QED
  BY <1>3, FS_CardinalityType DEF R, RangeOf

\* The kinds of steps of a measurement, each from a sound request.
LEMMA MeasureOfOne ==
    ASSUME Shape, NEW w \in Workers, MeasureSound(request[w]), MeasureStep(w)
    PROVE  MeasureSound(request'[w])
<1> DEFINE r == request[w]
           q == request'[w]
<1>1. DOMAIN request = Workers /\ HasShape(r) /\ Versions
  BY DEF Shape
<1>2. ASSUME NEW n \in Sources, BeginMeasure(w, n) PROVE MeasureSound(q)
  <2> DEFINE ns == NamespaceOf[n]
  <2>1. q = [kind |-> "measure", pc |-> "mapping", ns |-> ns,
               source |-> source[n], version |-> current[ns],
               mapping |-> None, revision |-> 0, plan |-> <<>>, todo |-> {},
               report |-> {}, skipped |-> 0, issued |-> 0, noShapes |-> FALSE]
        /\ current[ns] # 0
    BY <1>1, <1>2 DEF BeginMeasure, Ask, CurrentApproved
  <2>2. ns \in Namespaces /\ current[ns] \in DOMAIN Content[ns]
    BY <1>1, <2>1, Vocabularies, Mediation DEF Versions
  <2> HIDE DEF q, ns
  <2>3. QED
    BY <2>1, <2>2 DEF MeasureSound, MeasureShaped
<1>3. ASSUME PlanMeasure(w) PROVE MeasureSound(q)
  <2>1. r.kind = "measure" /\ r.pc = "mapping" /\ (q = Idle \/ \E x \in vkg : q = Planned(r, x))
    BY <1>1, <1>3 DEF PlanMeasure, Goes, Refused
  <2>2. ASSUME NEW x, q = Planned(r, x) PROVE MeasureSound(q)
    <3> DEFINE targets == Targets[r.ns][r.version]
               plan == PlanProbes(x.mapping, targets)
               total == TotalProbes(x.mapping, targets)
               count == CountPlanned(plan, targets)
    <3>1. q = [r EXCEPT !.pc = IF targets = <<>> THEN "answered" ELSE "probe",
                  !.noShapes = targets = <<>>,
                  !.mapping = x.mapping, !.revision = x.revision,
                  !.plan = plan, !.todo = DOMAIN plan,
                  !.skipped = total - count,
                  !.issued = count]
      BY <2>2 DEF Planned
    <3>2. count \in Nat
      BY <2>1, VersionTargets, PlanIsRight DEF MeasureSound, MeasureShaped, PlanRight
    <3>3. MeasureShaped(r)
      BY <2>1 DEF MeasureSound
    <3> HIDE DEF plan, total, count, q, r, targets
    <3>4. /\ q.kind = "measure" /\ q.ns = r.ns /\ q.version = r.version /\ DOMAIN q = DOMAIN r
          /\ q.plan = plan /\ q.todo = DOMAIN plan /\ q.skipped = total - count /\ q.issued = count
          /\ q.mapping = x.mapping /\ q.noShapes = (targets = <<>>)
          /\ q.pc = IF targets = <<>> THEN "answered" ELSE "probe"
      BY <2>1, <3>1, <3>3 DEF MeasureShaped
    <3>5. ~q.noShapes => MeasureTrue(q, targets)
      <4>1. q.plan = PlanProbes(q.mapping, targets) /\ q.todo = DOMAIN q.plan
        BY <3>4 DEF plan
      <4>2. q.skipped = TotalProbes(q.mapping, targets) - CountPlanned(q.plan, targets)
        BY <3>4 DEF total, count
      <4>3. q.issued \in Int /\ q.issued <= CountPlanned(q.plan, targets)
        BY <3>2, <3>4 DEF count
      <4>4. ~q.noShapes => q.pc # "answered"
        BY <3>4
      <4>5. QED
        BY <4>1, <4>2, <4>3, <4>4 DEF MeasureTrue
    <3>6. targets = Targets[q.ns][q.version] /\ MeasureShaped(q)
      BY <3>3, <3>4 DEF targets, MeasureShaped
    <3>7. QED
      BY <3>4, <3>5, <3>6 DEF MeasureSound
  <2>3. QED
    BY <2>1, <2>2 DEF MeasureSound, Idle
<1>4. ASSUME ProbeTarget(w) PROVE MeasureSound(q)
  <2> DEFINE targets == Targets[r.ns][r.version]
             i == CHOOSE j \in r.todo : \A k \in r.todo : j <= k
             paths == {r.plan[i][k] : k \in DOMAIN r.plan[i]}
  <2>1. r.kind = "measure" /\ r.pc = "probe" /\ r.todo # {}
    BY <1>4 DEF ProbeTarget
  <2>2. PICK present \in {"yes", "no", "failed"}, missing \in [paths -> {"none", "some", "failed"}] :
           q = [r EXCEPT !.todo = @ \ {i},
                         !.report = @ \cup {Report(targets[i], r.mapping, present, missing)},
                         !.issued = @ - (IF present = "yes" THEN 0 ELSE Cardinality(paths))]
    BY <1>1, <1>4 DEF ProbeTarget, Goes
  <2> DEFINE report == Report(targets[i], r.mapping, present, missing)
             less == IF present = "yes" THEN 0 ELSE Cardinality(paths)
  <2>3. q = [r EXCEPT !.todo = @ \ {i}, !.report = @ \cup {report}, !.issued = @ - less]
    BY <2>2
  <2>4. MeasureShaped(r)
    BY <2>1 DEF MeasureSound
  <2>5. ~r.noShapes => i \in r.todo /\ less \in Nat
    <3> SUFFICES ASSUME ~r.noShapes PROVE i \in r.todo /\ less \in Nat
      OBVIOUS
    <3>1. r.plan = PlanProbes(r.mapping, targets) /\ r.todo \subseteq DOMAIN r.plan
      BY <2>1 DEF MeasureSound, MeasureTrue
    <3>2. AreTargets(targets) /\ PlanRight(r.mapping, targets, r.plan)
      BY <2>4, <3>1, VersionTargets, PlanIsRight DEF MeasureShaped
    <3> HIDE DEF targets, less
    <3>3. DOMAIN r.plan \subseteq Nat /\ \A j \in DOMAIN r.plan : r.plan[j] \in Seq(Terms)
      BY <3>2 DEF AreTargets, PlanRight
    <3>4. i \in r.todo
      <4>1. r.todo \in SUBSET Nat
        BY <3>1, <3>3
      <4>2. \E j \in r.todo : \A k \in r.todo : j <= k
        BY <2>1, <4>1, LeastOf
      <4>3. QED
        BY <4>2
    <3>5. r.plan[i] \in Seq(Terms)
      BY <3>1, <3>3, <3>4
    <3>6. less \in Nat
      <4> DEFINE s == r.plan[i]
      <4>1. less = IF present = "yes" THEN 0 ELSE Cardinality({s[k] : k \in DOMAIN s})
        BY DEF less
      <4>2. s \in Seq(Terms)
        BY <3>5
      <4> HIDE DEF s
      <4>3. Cardinality(RangeOf(s)) \in Nat
        BY <4>2, RangeFinite
      <4>4. QED
        BY <4>1, <4>3 DEF RangeOf
    <3>7. QED
      BY <3>4, <3>6
  <2>6. \E m \in [{r.plan[i][k] : k \in DOMAIN r.plan[i]} -> {"none", "some", "failed"}] :
           report = Report(targets[i], r.mapping, present, m)
    BY <2>2
  <2> HIDE DEF less, report, q, targets, i, r
  <2>7. /\ q.kind = "measure" /\ q.ns = r.ns /\ q.version = r.version /\ DOMAIN q = DOMAIN r
        /\ q.pc = "probe" /\ q.noShapes = r.noShapes /\ q.plan = r.plan /\ q.mapping = r.mapping
        /\ q.todo = r.todo \ {i} /\ q.report = r.report \cup {report} /\ q.issued = r.issued - less
        /\ q.skipped = r.skipped
    BY <2>1, <2>3, <2>4 DEF MeasureShaped
  <2>8. Probed(q, targets[i], q.plan[i])
    <3>1. PICK m \in [{r.plan[i][k] : k \in DOMAIN r.plan[i]} -> {"none", "some", "failed"}] :
             report = Report(targets[i], r.mapping, present, m)
      BY <2>6
    <3>2. Report(targets[i], q.mapping, present, m) \in q.report
      BY <2>7, <3>1
    <3>3. q.plan[i] = r.plan[i]
      BY <2>7
    <3>4. QED
      BY <3>2, <3>3 DEF Probed
  <2>9. \A t, p : Probed(r, t, p) => Probed(q, t, p)
    BY <2>7 DEF Probed
  <2>10. CASE r.noShapes
    BY <2>4, <2>7, <2>10 DEF MeasureSound, MeasureShaped
  <2>11. CASE ~r.noShapes
    <3>1. MeasureTrue(r, targets)
      BY <2>1, <2>11 DEF MeasureSound, targets, r
    <3>2. AreTargets(targets) /\ CountPlanned(r.plan, targets) \in Nat
      BY <2>4, <3>1, VersionTargets, PlanIsRight DEF MeasureShaped, targets, MeasureTrue, PlanRight
    <3>3. q.issued \in Int /\ q.issued <= CountPlanned(q.plan, targets)
      BY <2>5, <2>7, <2>11, <3>1, <3>2 DEF MeasureTrue
    <3>4. \A j \in DOMAIN q.plan \ q.todo : Probed(q, targets[j], q.plan[j])
      BY <2>7, <2>8, <2>9, <3>1 DEF MeasureTrue
    <3>5. MeasureTrue(q, targets)
      BY <2>7, <3>1, <3>3, <3>4 DEF MeasureTrue
    <3>6. targets = Targets[q.ns][q.version] /\ MeasureShaped(q)
      BY <2>4, <2>7 DEF targets, MeasureShaped
    <3>7. QED
      BY <3>5, <3>6 DEF MeasureSound
  <2>12. QED
    BY <2>10, <2>11
<1>5. ASSUME AnswerMeasure(w) PROVE MeasureSound(q)
  <2> DEFINE rest == Rest(r.mapping, Targets[r.ns][r.version], r.plan)
  <2>1. r.kind = "measure" /\ r.pc = "probe" /\ r.todo = {}
        /\ q = [[r EXCEPT !.report = @ \cup rest] EXCEPT !.pc = "answered"]
    BY <1>1, <1>5 DEF AnswerMeasure, Answers, Goes
  <2> HIDE DEF q, rest
  <2> MeasureShaped(r)
    BY <2>1 DEF MeasureSound
  <2>2. /\ q.kind = "measure" /\ q.ns = r.ns /\ q.version = r.version /\ DOMAIN q = DOMAIN r
        /\ q.pc = "answered" /\ q.noShapes = r.noShapes /\ q.plan = r.plan /\ q.mapping = r.mapping
        /\ q.todo = {} /\ q.report = r.report \cup rest /\ q.issued = r.issued /\ q.skipped = r.skipped
    BY <2>1 DEF MeasureShaped
  <2>3. \A t, p : Probed(r, t, p) => Probed(q, t, p)
    BY <2>2 DEF Probed
  <2>4. rest = Rest(q.mapping, Targets[q.ns][q.version], q.plan) /\ rest \subseteq q.report
    BY <2>2 DEF rest
  <2>5. QED
    BY <2>1, <2>2, <2>3, <2>4 DEF MeasureSound, MeasureShaped, MeasureTrue
<1>6. QED
  BY <1>2, <1>3, <1>4, <1>5 DEF MeasureStep

MeasuresSound == \A w \in Workers : MeasureSound(request[w])

LEMMA MeasuresKept == ASSUME Shape, MeasuresSound, [Next]_vars PROVE MeasuresSound'
<1>1. ASSUME NEW w \in Workers PROVE MeasureSound(request'[w])
  <2>1. CASE request'[w] = request[w]
    BY <2>1 DEF MeasuresSound
  <2>2. CASE request'[w].kind # "measure"
    BY <2>2 DEF MeasureSound
  <2>3. CASE request'[w] # request[w] /\ request'[w].kind = "measure"
    <3>1. MeasureStep(w)
      BY <2>3, Movers DEF KnownStep, Idle
    <3>2. QED
      BY <3>1, MeasureOfOne DEF MeasuresSound
  <2>4. QED
    BY <2>1, <2>2, <2>3
<1>2. QED
  BY <1>1 DEF MeasuresSound

\* What MeasureHonest asks, of one target.
MeasureTells(r, targets, i) ==
    LET Of == {c \in r.report : c.shape = targets[i].shape /\ c.class = targets[i].class}
    IN  /\ Of = {} => \E c \in r.report : c.shape = targets[i].shape
        /\ Conclusive(r) /\ Mapped(r.mapping, targets[i]) =>
              \E c \in Of : /\ c.status \in {"matched", "empty"}
                            /\ c.status = "matched" =>
                                  {targets[i].paths[k] : k \in DOMAIN targets[i].paths}
                                     \subseteq DOMAIN c.properties

\* What an ended measurement says is what MeasureHonest asks of it.
LEMMA MeasureIsHonest ==
    ASSUME NEW m, NEW targets, AreTargets(targets), NEW r, r.mapping = m, MeasureTrue(r, targets),
           r.pc = "answered", NEW i \in DOMAIN targets
    PROVE  MeasureTells(r, targets, i)
<1> DEFINE Of(j) == {c \in r.report : c.shape = targets[j].shape /\ c.class = targets[j].class}
           plan == r.plan
<1>1. PlanRight(m, targets, plan) /\ MaxProbes \in Nat
  BY PlanIsRight, Measuring DEF MeasureTrue
<1>2. r.issued <= MaxProbes
  BY <1>1 DEF MeasureTrue, PlanRight
<1>3. ASSUME NEW j \in DOMAIN plan
      PROVE  \E present \in {"yes", "no", "failed"},
                missing \in [{plan[j][k] : k \in DOMAIN plan[j]} -> {"none", "some", "failed"}] :
                   Report(targets[j], m, present, missing) \in r.report
  BY <1>3 DEF MeasureTrue, Probed
<1>4. \A present, missing, t :
         /\ Report(t, m, present, missing).shape = t.shape
         /\ Report(t, m, present, missing).class = t.class
         /\ Report(t, m, present, missing).status = ClassStatus[present]
  BY DEF Report
<1>5. ASSUME Of(i) = {} PROVE \E c \in r.report : c.shape = targets[i].shape
  <2>1. CASE \E j \in DOMAIN plan : targets[j].shape = targets[i].shape
    <3>1. PICK j \in DOMAIN plan : targets[j].shape = targets[i].shape
      BY <2>1
    <3>2. PICK present \in {"yes", "no", "failed"},
               missing \in [{plan[j][k] : k \in DOMAIN plan[j]} -> {"none", "some", "failed"}] :
                  Report(targets[j], m, present, missing) \in r.report
      BY <1>3
    <3>3. Report(targets[j], m, present, missing).shape = targets[i].shape
      BY <1>4, <3>1
    <3>4. QED
      BY <3>2, <3>3
  <2>2. CASE \A j \in DOMAIN plan : targets[j].shape # targets[i].shape
    <3> DEFINE c == Unprobed(targets[i], IF Mapped(m, targets[i]) THEN "unknown" ELSE "unmapped")
    <3>1. c \in Rest(m, targets, plan)
      BY <2>2 DEF Rest
    <3>2. c \in r.report /\ c.shape = targets[i].shape
      BY <3>1 DEF MeasureTrue, Unprobed
    <3>3. QED
      BY <3>2
  <2>3. QED
    BY <2>1, <2>2
<1>6. ASSUME Conclusive(r), Mapped(m, targets[i])
      PROVE  \E c \in Of(i) :
                /\ c.status \in {"matched", "empty"}
                /\ c.status = "matched" =>
                      {targets[i].paths[k] : k \in DOMAIN targets[i].paths} \subseteq DOMAIN c.properties
  <2>1. i \in DOMAIN plan /\ plan[i] = Wanted(m, targets[i])
    <3>1. TotalProbes(m, targets) - CountPlanned(plan, targets) = 0
      BY <1>6 DEF MeasureTrue, Conclusive
    <3>2. TotalProbes(m, targets) = CountPlanned(plan, targets)
      BY <1>1, <3>1 DEF PlanRight
    <3>3. QED
      BY <1>1, <1>6, <3>2 DEF PlanRight
  <2>2. PICK present \in {"yes", "no", "failed"},
             missing \in [{plan[i][k] : k \in DOMAIN plan[i]} -> {"none", "some", "failed"}] :
                Report(targets[i], m, present, missing) \in r.report
    BY <1>3, <2>1
  <2> DEFINE c == Report(targets[i], m, present, missing)
  <2>3. c \in Of(i) /\ c.status = ClassStatus[present] /\ c.status # "unknown"
    BY <1>4, <1>6, <2>2 DEF Conclusive
  <2>4. c.status \in {"matched", "empty"} /\ (c.status = "matched" => present = "yes")
    BY <2>3 DEF ClassStatus
  <2>5. ASSUME present = "yes", NEW k \in DOMAIN targets[i].paths
        PROVE  targets[i].paths[k] \in DOMAIN c.properties
    <3> DEFINE p == targets[i].paths[k]
    <3>1. DOMAIN c.properties = DOMAIN missing \cup ({targets[i].paths[l] : l \in DOMAIN targets[i].paths} \ m.predicates)
      BY <2>5 DEF Report
    <3>2. CASE p \in m.predicates
      <4>1. \E l \in DOMAIN Wanted(m, targets[i]) : Wanted(m, targets[i])[l] = p
        <5> DEFINE t == targets[i]
        <5>1. t.paths \in Seq(Terms)
          BY DEF AreTargets
        <5>2. k \in DOMAIN t.paths /\ t.paths[k] \in m.predicates
          BY <2>5, <3>2
        <5> HIDE DEF t
        <5>3. \E l \in DOMAIN Wanted(m, t) : Wanted(m, t)[l] = t.paths[k]
          <6>1. AllWanted(m, t)
            BY <5>1, WantedOnes
          <6>2. QED
            BY <5>2, <6>1 DEF AllWanted
        <5>4. QED
          BY <5>3 DEF t
      <4>2. p \in DOMAIN missing
        BY <2>1, <4>1
      <4>3. QED
        BY <3>1, <4>2
    <3>3. CASE p \notin m.predicates
      BY <3>1, <3>3
    <3>4. QED
      BY <3>2, <3>3
  <2> HIDE DEF c
  <2>6. QED
    BY <2>3, <2>4, <2>5
<1>7. QED
  BY <1>2, <1>5, <1>6 DEF MeasureTells

LEMMA MeasuresAreHonest == ASSUME MeasuresSound PROVE MeasureHonest
<1> SUFFICES ASSUME NEW w \in Workers, request[w].kind = "measure", request[w].pc = "answered",
                    ~request[w].noShapes
             PROVE  LET r == request[w]
                        targets == Targets[r.ns][r.version]
                    IN  r.issued <= MaxProbes /\ \A i \in DOMAIN targets : MeasureTells(r, targets, i)
  BY DEF MeasureHonest, MeasureTells
<1> DEFINE r == request[w]
           targets == Targets[r.ns][r.version]
<1>1. MeasureShaped(r) /\ MeasureTrue(r, targets) /\ r.pc = "answered"
  BY DEF MeasuresSound, MeasureSound
<1>2. AreTargets(targets)
  BY <1>1, VersionTargets DEF MeasureShaped
<1> HIDE DEF r, targets
<1>3. PlanRight(r.mapping, targets, r.plan) /\ MaxProbes \in Nat
  BY <1>1, <1>2, PlanIsRight, Measuring DEF MeasureTrue
<1>4. r.issued <= MaxProbes
  BY <1>1, <1>3 DEF MeasureTrue, PlanRight
<1>5. \A i \in DOMAIN targets : MeasureTells(r, targets, i)
  BY <1>1, <1>2, MeasureIsHonest
<1>6. QED
  BY <1>4, <1>5 DEF r, targets

\* No answer of a query or of a measurement claims more than was read, whatever
\* is approved and served meanwhile.
THEOREM AnswersAlwaysHonest == Spec => []AnswersHonest
<1> DEFINE Inv == AnswersInv /\ MeasuresSound
<1>1. Init => Inv
  BY AnswersAtFirst DEF Init, VocabularyInit, MeasuresSound, MeasureSound, Idle
<1>2. Inv /\ [Next]_vars => Inv'
  BY AnswersKept, MeasuresKept DEF AnswersInv, AccessInv
<1>3. Inv => AnswersHonest
  BY AnswersAreHonest, MeasuresAreHonest DEF AnswersHonest
<1>4. QED
  BY <1>1, <1>2, <1>3, PTL DEF Spec
=============================================================================
