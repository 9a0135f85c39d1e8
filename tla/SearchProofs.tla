---------------------------- MODULE SearchProofs ----------------------------
(***************************************************************************)
(* The index of terms never has a part of what a rebuild wrote, nor a term *)
(* twice, although every rebuild deletes what it saw before and inserts    *)
(* what it read long ago; and a search answers with terms as they were in  *)
(* an approved version, although its two routes may find two different     *)
(* indexes.  The invariant says what each rebuild in flight has doomed and *)
(* has inserted: always all that one rebuild wrote, and beside what others *)
(* leave.  At the end, the types of all components together.               *)
(***************************************************************************)
EXTENDS RegistersProofs, MediationProofs

\* Rebuilds in flight, the rows that each has locked by deleting them, and
\* those that it writes.
Rebuilding(r) == r.kind = "rebuild" /\ r.pc # "answered"
Holding(r) == IF Rebuilding(r) /\ r.pc \in {"insert", "inserted"} THEN r.doomed ELSE {}
Writes(r) == Texts(r.ns, r.version, r.by)

\* A row with all others that its rebuild wrote.
Whole(rows) == \A row \in rows : row \in Writes(row) /\ Writes(row) \subseteq rows

OneEach(rows) == \A a, b \in rows : a.ns = b.ns /\ a.term = b.term => a = b

OfVersions(rows, cur) ==
    \A row \in rows : row.ns \in Namespaces /\ row.version \in 1 .. cur[row.ns]

RebuildKnown(r, cur) ==
    /\ {"kind", "pc", "ns", "version", "by", "doomed", "aid"} \subseteq DOMAIN r
    /\ r.pc \in {"embed", "delete", "insert", "inserted"}
    /\ r.ns \in Namespaces /\ r.version \in 1 .. cur[r.ns]
    /\ Embedded(Content[r.ns][r.version]) # {}
    /\ Whole(r.doomed) /\ \A row \in r.doomed : row.ns = r.ns

\* Once a rebuild has deleted, nobody else takes its rows away; once it has
\* inserted, nobody else brings its terms.
DoomSound(r, ind) ==
    /\ r.pc \in {"insert", "inserted"} => r.doomed \subseteq ind
    /\ r.pc = "inserted" => ~SameTerm(Writes(r), ind \ r.doomed)

RebuildSound(r, cur, ind) == Rebuilding(r) => RebuildKnown(r, cur) /\ DoomSound(r, ind)

Apart(r, q) ==
    Rebuilding(r) /\ Rebuilding(q) =>
        /\ Holding(r) \cap Holding(q) = {}
        /\ r.pc = "inserted" /\ q.pc = "inserted" => ~SameTerm(Writes(r), Writes(q))

IndexInv ==
    /\ Shape
    /\ Whole(index) /\ OneEach(index) /\ OfVersions(index, current)
    /\ \A w \in Workers : RebuildSound(request[w], current, index)
    /\ \A w, x \in Workers : w # x => Apart(request[w], request[x])

LEMMA IndexAtFirst == ASSUME Init PROVE IndexInv
<1>1. Shape
  BY ShapeAtFirst
<1>2. index = {} /\ \A w \in Workers : ~Rebuilding(request[w])
  BY DEF Init, VocabularyInit, SearchInit, Idle, Rebuilding
<1>3. /\ \A w \in Workers : RebuildSound(request[w], current, index)
      /\ \A w, x \in Workers : w # x => Apart(request[w], request[x])
  BY <1>2 DEF RebuildSound, Apart
<1>4. QED
  BY <1>1, <1>2, <1>3 DEF IndexInv, Whole, OneEach, OfVersions

-----------------------------------------------------------------------------
\* The rows of one rebuild are whole, and of different terms.
LEMMA TextRows ==
    ASSUME NEW n, NEW v, NEW by
    PROVE  /\ \A row \in Texts(n, v, by) :
                 row.ns = n /\ row.version = v /\ row.by = by /\ row.term \in Embedded(Content[n][v])
           /\ \A a, b \in Texts(n, v, by) : a.term = b.term => a = b
           /\ Embedded(Content[n][v]) # {} => Texts(n, v, by) # {}
           /\ Whole(Texts(n, v, by)) /\ OneEach(Texts(n, v, by))
<1>1. \A row \in Texts(n, v, by) :
         row.ns = n /\ row.version = v /\ row.by = by /\ row.term \in Embedded(Content[n][v])
  BY DEF Texts
<1>2. ASSUME NEW t \in Embedded(Content[n][v]) PROVE Texts(n, v, by) # {}
  BY DEF Texts
<1>3. \A a, b \in Texts(n, v, by) : a.term = b.term => a = b
  BY DEF Texts
<1>4. Whole(Texts(n, v, by)) /\ OneEach(Texts(n, v, by))
  BY <1>1, <1>3 DEF Whole, OneEach, Writes
<1>5. QED
  BY <1>1, <1>2, <1>3, <1>4

\* What is common to two wholes is whole, and what is left of one without the other.
LEMMA WholeParts ==
    ASSUME NEW S, NEW T, Whole(S), Whole(T) PROVE Whole(S \cap T) /\ Whole(S \ T) /\ Whole(S \cup T)
<1>1. ASSUME NEW row \in S, NEW other \in Writes(row), other \in T PROVE row \in T
  <2>1. Writes(other) = Writes(row)
    BY TextRows DEF Writes
  <2>2. row \in Writes(other) /\ Writes(other) \subseteq T
    BY <1>1, <2>1 DEF Whole
  <2>3. QED
    BY <2>2
<1>2. QED
  BY <1>1 DEF Whole

LEMMA RowsOfNamespace ==
    ASSUME NEW S, Whole(S), NEW n PROVE Whole({row \in S : row.ns = n})
<1>1. ASSUME NEW row \in S, NEW other \in Writes(row) PROVE other.ns = row.ns
  BY TextRows DEF Writes
<1>2. QED
  BY <1>1 DEF Whole

-----------------------------------------------------------------------------
\* The index stays and one request moves.
LEMMA RebuildStays ==
    ASSUME NEW r, NEW ind, NEW cur, NEW later, RebuildSound(r, cur, ind),
           cur \in [Namespaces -> Nat], later \in [Namespaces -> Nat],
           \A n \in Namespaces : cur[n] <= later[n]
    PROVE  RebuildSound(r, later, ind)
<1> SUFFICES ASSUME Rebuilding(r) PROVE RebuildKnown(r, later)
  BY DEF RebuildSound
<1>1. RebuildKnown(r, cur)
  BY DEF RebuildSound
<1>2. cur[r.ns] <= later[r.ns] /\ cur[r.ns] \in Nat /\ later[r.ns] \in Nat
  BY <1>1 DEF RebuildKnown
<1>3. r.version \in 1 .. later[r.ns]
  BY <1>1, <1>2 DEF RebuildKnown
<1>4. QED
  BY <1>1, <1>3 DEF RebuildKnown

LEMMA VersionsStay ==
    ASSUME NEW rows, NEW cur, NEW later, OfVersions(rows, cur),
           cur \in [Namespaces -> Nat], later \in [Namespaces -> Nat],
           \A n \in Namespaces : cur[n] <= later[n]
    PROVE  OfVersions(rows, later)
<1>1. ASSUME NEW row \in rows PROVE row.ns \in Namespaces /\ row.version \in 1 .. later[row.ns]
  <2>1. row.ns \in Namespaces /\ row.version \in 1 .. cur[row.ns]
    BY DEF OfVersions
  <2>2. cur[row.ns] \in Nat /\ later[row.ns] \in Nat /\ cur[row.ns] <= later[row.ns]
    BY <2>1
  <2>3. QED
    BY <2>1, <2>2
<1>2. QED
  BY <1>1 DEF OfVersions

LEMMA Onward == ASSUME Shape, [Next]_vars
    PROVE  /\ Shape'
           /\ current \in [Namespaces -> Nat] /\ current' \in [Namespaces -> Nat]
           /\ \A n \in Namespaces : current[n] <= current'[n]
<1>1. Shape' /\ Grows
  BY ShapeKept, AlwaysGrows
<1>2. QED
  BY <1>1 DEF Shape, Versions, Grows

LEMMA RequestMoved ==
    ASSUME IndexInv, [Next]_vars, index' = index, NEW w \in Workers,
           \A x \in Workers \ {w} : request'[x] = request[x],
           RebuildSound(request'[w], current', index),
           \A x \in Workers \ {w} : /\ Apart(request'[w], request[x])
                                      /\ Apart(request[x], request'[w])
    PROVE  IndexInv'
<1>1. /\ Shape'
      /\ current \in [Namespaces -> Nat] /\ current' \in [Namespaces -> Nat]
      /\ \A n \in Namespaces : current[n] <= current'[n]
  BY Onward DEF IndexInv
<1>2. ASSUME NEW x \in Workers PROVE RebuildSound(request'[x], current', index)
  <2>1. CASE x = w
    BY <2>1
  <2>2. CASE x # w
    <3>1. RebuildSound(request[x], current, index) /\ request'[x] = request[x]
      BY <2>2 DEF IndexInv
    <3>2. QED
      BY <1>1, <3>1, RebuildStays
  <2>3. QED
    BY <2>1, <2>2
<1>3. OfVersions(index, current')
  BY <1>1, VersionsStay DEF IndexInv
<1>4. \A x, y \in Workers : x # y => Apart(request'[x], request'[y])
  BY DEF IndexInv
<1>5. QED
  BY <1>1, <1>2, <1>3, <1>4 DEF IndexInv

\* A request that is not a rebuild in flight disturbs none.
LEMMA OthersMoved ==
    ASSUME IndexInv, [Next]_vars, index' = index,
           \A x \in Workers : request'[x] = request[x] \/ ~Rebuilding(request'[x])
    PROVE  IndexInv'
<1>1. /\ Shape'
      /\ current \in [Namespaces -> Nat] /\ current' \in [Namespaces -> Nat]
      /\ \A n \in Namespaces : current[n] <= current'[n]
  BY Onward DEF IndexInv
<1>2. ASSUME NEW x \in Workers PROVE RebuildSound(request'[x], current', index)
  <2>1. CASE ~Rebuilding(request'[x])
    BY <2>1 DEF RebuildSound
  <2>2. CASE request'[x] = request[x]
    <3>1. RebuildSound(request[x], current, index)
      BY DEF IndexInv
    <3>2. QED
      BY <1>1, <2>2, <3>1, RebuildStays
  <2>3. QED
    BY <2>1, <2>2
<1>3. OfVersions(index, current')
  BY <1>1, VersionsStay DEF IndexInv
<1>4. \A x, y \in Workers : x # y => Apart(request'[x], request'[y])
  <2>1. ASSUME NEW x \in Workers, NEW y \in Workers, x # y PROVE Apart(request'[x], request'[y])
    <3>1. CASE ~Rebuilding(request'[x]) \/ ~Rebuilding(request'[y])
      BY <3>1 DEF Apart
    <3>2. CASE request'[x] = request[x] /\ request'[y] = request[y]
      BY <2>1, <3>2 DEF IndexInv
    <3>3. QED
      BY <3>1, <3>2
  <2>2. QED
    BY <2>1
<1>5. QED
  BY <1>1, <1>2, <1>3, <1>4 DEF IndexInv

-----------------------------------------------------------------------------
LEMMA BeginRebuildKeeps ==
    ASSUME IndexInv, [Next]_vars, NEW w \in Workers, NEW n \in Namespaces, BeginRebuild(w, n)
    PROVE  IndexInv'
<1> DEFINE q == request'[w]
<1>1. /\ index' = index /\ current' = current
      /\ \A x \in Workers \ {w} : request'[x] = request[x]
      /\ q = [kind |-> "rebuild", pc |-> "embed", ns |-> n, version |-> current[n],
               by |-> asked, doomed |-> {}, aid |-> 0]
      /\ current[n] \in 1 .. current[n] /\ Embedded(Content[n][current[n]]) # {}
  BY DEF BeginRebuild, Ask, CurrentApproved, IndexInv, Shape, Versions, vocabulary
<1> HIDE DEF q
<1>2. RebuildSound(q, current', index)
  BY <1>1 DEF RebuildSound, RebuildKnown, DoomSound, Whole
<1>3. \A x \in Workers \ {w} : Apart(q, request[x]) /\ Apart(request[x], q)
  BY <1>1 DEF Apart, Holding
<1>4. QED
  BY <1>1, <1>2, <1>3, RequestMoved DEF q

LEMMA EmbedKeeps ==
    ASSUME IndexInv, [Next]_vars, NEW w \in Workers, Embed(w) PROVE IndexInv'
<1> DEFINE r == request[w]
           q == request'[w]
           rows == {row \in index : row.ns = r.ns}
<1>1. /\ index' = index /\ current' = current
      /\ \A x \in Workers \ {w} : request'[x] = request[x]
      /\ q = [r EXCEPT !.pc = "delete", !.doomed = rows]
      /\ r.kind = "rebuild" /\ r.pc = "embed" /\ RebuildSound(r, current, index)
  BY DEF Embed, Goes, RowsIn, IndexInv, Shape, vocabulary
<1>2. Whole(rows) /\ \A row \in rows : row.ns = r.ns
  BY RowsOfNamespace DEF IndexInv
<1> HIDE DEF q, r, rows
<1>3. RebuildKnown(r, current)
  BY <1>1 DEF RebuildSound, Rebuilding
<1>4. /\ q.kind = "rebuild" /\ q.pc = "delete" /\ q.ns = r.ns /\ q.by = r.by
      /\ q.version = r.version /\ q.doomed = rows /\ DOMAIN q = DOMAIN r
  BY <1>1, <1>3 DEF RebuildKnown
<1>5. RebuildSound(q, current', index)
  BY <1>1, <1>2, <1>3, <1>4 DEF RebuildSound, RebuildKnown, DoomSound
<1>6. \A x \in Workers \ {w} : Apart(q, request[x]) /\ Apart(request[x], q)
  BY <1>4 DEF Apart, Holding
<1>7. QED
  BY <1>1, <1>5, <1>6, RequestMoved DEF q

LEMMA DeleteTermsKeeps ==
    ASSUME IndexInv, [Next]_vars, NEW w \in Workers, DeleteTerms(w) PROVE IndexInv'
<1> DEFINE r == request[w]
           q == request'[w]
<1>1. /\ index' = index /\ current' = current
      /\ \A x \in Workers \ {w} : request'[x] = request[x] /\ Deleting(x) \cap r.doomed = {}
      /\ q = [r EXCEPT !.pc = "insert", !.doomed = r.doomed \cap index]
      /\ r.kind = "rebuild" /\ r.pc = "delete" /\ RebuildSound(r, current, index)
  <2>1. RebuildKnown(r, current) /\ RebuildSound(r, current, index)
    BY DEF DeleteTerms, IndexInv, RebuildSound, Rebuilding
  <2>2. "doomed" \in DOMAIN r /\ "pc" \in DOMAIN r
    BY <2>1 DEF RebuildKnown
  <2>3. QED
    BY <2>1, <2>2 DEF DeleteTerms, Goes, IndexInv, Shape, vocabulary
<1> HIDE DEF q, r
<1>2. RebuildKnown(r, current)
  BY <1>1 DEF RebuildSound, Rebuilding
<1>3. /\ q.kind = "rebuild" /\ q.pc = "insert" /\ q.ns = r.ns /\ q.by = r.by
      /\ q.version = r.version /\ q.doomed = r.doomed \cap index /\ DOMAIN q = DOMAIN r
  BY <1>1, <1>2 DEF RebuildKnown
<1>4. Whole(q.doomed)
  <2>1. Whole(r.doomed) /\ Whole(index)
    BY <1>2 DEF RebuildKnown, IndexInv
  <2>2. QED
    BY <1>3, <2>1, WholeParts
<1>5. RebuildSound(q, current', index)
  BY <1>1, <1>2, <1>3, <1>4 DEF RebuildSound, RebuildKnown, DoomSound
<1>6. ASSUME NEW x \in Workers \ {w} PROVE Apart(q, request[x]) /\ Apart(request[x], q)
  <2> DEFINE o == request[x]
  <2>1. Holding(o) \cap r.doomed = {}
    BY <1>1 DEF Deleting, Holding, Rebuilding
  <2> HIDE DEF o
  <2>2. Holding(q) \cap Holding(o) = {}
    BY <1>3, <2>1 DEF Holding
  <2>3. QED
    BY <1>3, <2>2 DEF Apart, o
<1>7. QED
  BY <1>1, <1>5, <1>6, RequestMoved DEF q

\* The unique key: what is inserted beside rows that were not deleted, and
\* beside what another inserts, has no term in common with them.
LEMMA InsertTermsKeeps ==
    ASSUME IndexInv, [Next]_vars, NEW w \in Workers, InsertTerms(w) PROVE IndexInv'
<1> DEFINE r == request[w]
           q == request'[w]
<1>1. /\ index' = index /\ current' = current
      /\ \A x \in Workers \ {w} : request'[x] = request[x] /\ ~SameTerm(Writes(r), Inserting(x))
      /\ \/ q = Idle
         \/ /\ q = [r EXCEPT !.pc = "inserted", !.aid = lastAudit + 1]
            /\ ~SameTerm(Writes(r), index \ r.doomed)
      /\ r.kind = "rebuild" /\ r.pc = "insert" /\ RebuildSound(r, current, index)
  BY DEF InsertTerms, Goes, Refused, Duplicates, Writes, IndexInv, Shape, vocabulary
<1>2. CASE q = Idle
  BY <1>1, <1>2, OthersMoved DEF Rebuilding, Idle
<1> HIDE DEF q, r
<1>3. RebuildKnown(r, current) /\ DoomSound(r, index)
  BY <1>1 DEF RebuildSound, Rebuilding
<1>4. CASE q # Idle
  <2>1. /\ q.kind = "rebuild" /\ q.pc = "inserted" /\ q.ns = r.ns /\ q.by = r.by
        /\ q.version = r.version /\ q.doomed = r.doomed /\ DOMAIN q = DOMAIN r
        /\ ~SameTerm(Writes(r), index \ r.doomed)
    BY <1>1, <1>3, <1>4 DEF RebuildKnown
  <2>2. Writes(q) = Writes(r)
    BY <2>1 DEF Writes
  <2>3. RebuildSound(q, current', index)
    BY <1>1, <1>3, <2>1, <2>2 DEF RebuildSound, RebuildKnown, DoomSound
  <2>4. ASSUME NEW x \in Workers \ {w} PROVE Apart(q, request[x]) /\ Apart(request[x], q)
    <3> DEFINE o == request[x]
    <3>1. Apart(r, o) /\ Apart(o, r)
      BY DEF IndexInv, r
    <3>2. Rebuilding(o) /\ o.pc = "inserted" => ~SameTerm(Writes(r), Writes(o))
      BY <1>1 DEF Inserting, Rebuilding, Writes
    <3> HIDE DEF o
    <3>3. Holding(q) = r.doomed /\ Holding(r) = r.doomed
      BY <1>1, <2>1 DEF Holding, Rebuilding
    <3>4. SameTerm(Writes(o), Writes(r)) => SameTerm(Writes(r), Writes(o))
      BY DEF SameTerm
    <3>5. QED
      BY <1>1, <2>1, <2>2, <3>1, <3>2, <3>3, <3>4 DEF Apart, Rebuilding, o
  <2>5. QED
    BY <1>1, <2>3, <2>4, RequestMoved DEF q
<1>5. QED
  BY <1>2, <1>4 DEF q

-----------------------------------------------------------------------------
\* The commit replaces what was doomed.
LEMMA CommittedRows ==
    ASSUME IndexInv, NEW w \in Workers, CommitRebuild(w)
    PROVE  LET r == request[w]
           IN  /\ RebuildKnown(r, current) /\ DoomSound(r, index)
               /\ r.pc = "inserted" /\ Rebuilding(r)
               /\ index' = (index \ r.doomed) \cup Writes(r)
<1> DEFINE r == request[w]
<1>1. /\ r.kind = "rebuild" /\ r.pc = "inserted" /\ RebuildSound(r, current, index)
      /\ index' = (index \ Deleting(w)) \cup Inserting(w)
  BY DEF CommitRebuild, IndexInv
<1>2. Deleting(w) = r.doomed /\ Inserting(w) = Writes(r)
  BY <1>1 DEF Deleting, Inserting, Writes
<1>3. RebuildKnown(r, current) /\ DoomSound(r, index) /\ Rebuilding(r)
  BY <1>1 DEF RebuildSound, Rebuilding
<1>4. QED
  BY <1>1, <1>2, <1>3

LEMMA CommitRebuildKeeps ==
    ASSUME IndexInv, [Next]_vars, NEW w \in Workers, CommitRebuild(w) PROVE IndexInv'
<1> DEFINE r == request[w]
           rows == Writes(r)
<1>1. /\ Shape' /\ current' = current
      /\ \A x \in Workers \ {w} : request'[x] = request[x]
      /\ ~Rebuilding(request'[w])
  <2>1. Shape' /\ Shape
    BY Onward DEF IndexInv
  <2>2. request'[w].pc = "answered"
    BY <2>1, Answered DEF CommitRebuild
  <2>3. QED
    BY <2>1, <2>2 DEF CommitRebuild, Answers, Goes, Rebuilding, vocabulary
<1>2. /\ RebuildKnown(r, current) /\ DoomSound(r, index)
      /\ r.pc = "inserted" /\ Rebuilding(r)
      /\ index' = (index \ r.doomed) \cup rows
  BY CommittedRows
<1>3. Whole(rows) /\ OneEach(rows) /\ ~SameTerm(rows, index \ r.doomed)
  BY <1>2, TextRows DEF Writes, DoomSound
<1>4. \A row \in rows : row.ns = r.ns /\ row.version = r.version
  BY TextRows DEF Writes
<1>5. Whole(index')
  <2>1. Whole(index) /\ Whole(r.doomed)
    BY <1>2 DEF IndexInv, RebuildKnown
  <2>2. Whole(index \ r.doomed)
    BY <2>1, WholeParts
  <2> HIDE DEF r, rows
  <2>3. QED
    BY <1>2, <1>3, <2>2, WholeParts
<1>6. OneEach(index') /\ OfVersions(index', current')
  <2>1. OneEach(index) /\ OfVersions(index, current) /\ r.ns \in Namespaces /\ r.version \in 1 .. current[r.ns]
    BY <1>2 DEF IndexInv, RebuildKnown
  <2> HIDE DEF r, rows
  <2>2. OneEach(index')
    BY <1>2, <1>3, <2>1 DEF OneEach, SameTerm
  <2>3. OfVersions(index', current')
    BY <1>1, <1>2, <1>4, <2>1 DEF OfVersions
  <2>4. QED
    BY <2>2, <2>3
<1>7. ASSUME NEW x \in Workers PROVE RebuildSound(request'[x], current', index')
  <2>1. CASE x = w
    BY <1>1, <2>1 DEF RebuildSound
  <2>2. CASE x # w
    <3> DEFINE o == request[x]
    <3>1. request'[x] = o /\ RebuildSound(o, current, index) /\ Apart(o, r)
      BY <1>1, <2>2 DEF IndexInv
    <3> HIDE DEF o, r, rows
    <3>2. CASE ~Rebuilding(o)
      BY <1>1, <3>1, <3>2 DEF RebuildSound
    <3>3. CASE Rebuilding(o)
      <4>1. RebuildKnown(o, current) /\ DoomSound(o, index)
        BY <3>1, <3>3 DEF RebuildSound
      <4>2. o.pc \in {"insert", "inserted"} => o.doomed \cap r.doomed = {}
        BY <1>2, <3>1, <3>3 DEF Apart, Holding
      <4>3. o.pc = "inserted" => ~SameTerm(Writes(o), rows)
        BY <1>2, <3>1, <3>3 DEF Apart, rows
      <4>4. o.pc \in {"insert", "inserted"} => o.doomed \subseteq index'
        BY <1>2, <4>1, <4>2 DEF DoomSound
      <4>5. o.pc = "inserted" => ~SameTerm(Writes(o), index' \ o.doomed)
        BY <1>2, <4>1, <4>3 DEF DoomSound, SameTerm
      <4>6. QED
        BY <1>1, <3>1, <4>1, <4>4, <4>5 DEF RebuildSound, DoomSound
    <3>4. QED
      BY <3>2, <3>3
  <2>3. QED
    BY <2>1, <2>2
<1>8. \A x, y \in Workers : x # y => Apart(request'[x], request'[y])
  <2>1. ASSUME NEW x \in Workers, NEW y \in Workers, x # y PROVE Apart(request'[x], request'[y])
    <3>1. CASE x = w \/ y = w
      BY <1>1, <3>1 DEF Apart
    <3>2. CASE x # w /\ y # w
      BY <1>1, <2>1, <3>2 DEF IndexInv
    <3>3. QED
      BY <3>1, <3>2
  <2>2. QED
    BY <2>1
<1>9. QED
  BY <1>1, <1>5, <1>6, <1>7, <1>8 DEF IndexInv

\* Only the commit of a rebuild writes the index.
LEMMA OnlyCommits ==
    ASSUME Shape, [Next]_vars PROVE index' = index \/ \E w \in Workers : CommitRebuild(w)
<1>1. CASE \E w \in Workers : RebuildStep(w) \/ InsertTerms(w)
  BY <1>1 DEF RebuildStep, BeginRebuild, Embed, EmbedFails, DeleteTerms, InsertTerms
<1>2. CASE LoudRevising
  BY <1>2 DEF LoudRevising
<1>3. QED
  BY <1>1, <1>2, Steps DEF Quiet, LoudAccess, LoudSources, LoudAsking, LoudRegisters, LoudSearch

LEMMA IndexKept == ASSUME IndexInv, [Next]_vars PROVE IndexInv'
<1>1. Shape
  BY DEF IndexInv
<1>2. CASE \E w \in Workers : InsertTerms(w) \/ CommitRebuild(w)
  BY <1>2, InsertTermsKeeps, CommitRebuildKeeps
<1>3. CASE \E w \in Workers : RebuildStep(w)
  BY <1>3, BeginRebuildKeeps, EmbedKeeps, DeleteTermsKeeps DEF RebuildStep
<1>4. CASE /\ ~\E w \in Workers : InsertTerms(w) \/ CommitRebuild(w)
           /\ ~\E w \in Workers : RebuildStep(w)
  <2>1. index' = index
    BY <1>1, <1>4, OnlyCommits
  <2>2. ASSUME NEW x \in Workers, request'[x] # request[x] PROVE ~Rebuilding(request'[x])
    <3>1. ~LoudSearch /\ ~RebuildStep(x)
      BY <1>4 DEF LoudSearch
    <3>2. request'[x].kind # "rebuild"
      BY <1>1, <2>2, <3>1, Movers DEF KnownStep, Idle
    <3>3. QED
      BY <3>2 DEF Rebuilding
  <2>3. QED
    BY <2>1, <2>2, OthersMoved
<1>5. QED
  BY <1>2, <1>3, <1>4

-----------------------------------------------------------------------------
\* Fractions with a denominator above zero.
LEMMA TimesMore ==
    ASSUME NEW a \in Nat, NEW b \in Nat, NEW c \in Nat
    PROVE  /\ a > b /\ c > 0 => a * c > b * c
           /\ a >= b => a * c >= b * c
           /\ a * c > b * c => a > b
           /\ a * c \in Nat
OBVIOUS

LEMMA Shuffled ==
    ASSUME NEW a \in Nat, NEW b \in Nat, NEW c \in Nat
    PROVE  (a * b) * c = (a * c) * b
OBVIOUS

Fraction(p) == p[1] \in Nat /\ p[2] \in Nat /\ p[2] > 0

LEMMA AboveTrans ==
    ASSUME NEW p, NEW q, NEW r, Fraction(p), Fraction(q), Fraction(r)
    PROVE  /\ ~Above(p, p)
           /\ Above(p, q) => ~Above(q, p)
           /\ Above(p, q) /\ ~Above(r, q) => Above(p, r)
           /\ ~Above(q, p) /\ Above(q, r) => Above(p, r)
           /\ ~Above(q, p) /\ ~Above(r, q) => ~Above(r, p)
<1> DEFINE pq == p[1] * q[2]
           qp == q[1] * p[2]
           qr == q[1] * r[2]
           rq == r[1] * q[2]
           pr == p[1] * r[2]
           rp == r[1] * p[2]
<1>1. /\ p[1] \in Nat /\ p[2] \in Nat /\ q[1] \in Nat /\ q[2] \in Nat /\ r[1] \in Nat /\ r[2] \in Nat
      /\ p[2] > 0 /\ q[2] > 0 /\ r[2] > 0
  BY DEF Fraction
<1>2. /\ pq \in Nat /\ qp \in Nat /\ qr \in Nat /\ rq \in Nat /\ pr \in Nat /\ rp \in Nat
  BY <1>1, TimesMore
<1>3. /\ pq * r[2] = pr * q[2] /\ qp * r[2] = qr * p[2] /\ rq * p[2] = rp * q[2]
  BY <1>1, Shuffled
<1> DEFINE A == pq * r[2]
           B == qp * r[2]
           C == rq * p[2]
<1>4. A \in Nat /\ B \in Nat /\ C \in Nat
  BY <1>1, <1>2, TimesMore
<1>5. /\ pq > qp => A > B
      /\ pq >= qp => A >= B
  BY <1>1, <1>2, TimesMore
<1>6. /\ qr > rq => B > C
      /\ qr >= rq => B >= C
  BY <1>1, <1>2, <1>3, TimesMore
<1>7. /\ A > C => pr > rp
      /\ rp > pr => C > A
  BY <1>1, <1>2, <1>3, TimesMore
<1>8. /\ Above(p, q) <=> pq > qp
      /\ Above(q, p) <=> qp > pq
      /\ Above(q, r) <=> qr > rq
      /\ Above(r, q) <=> rq > qr
      /\ Above(p, r) <=> pr > rp
      /\ Above(r, p) <=> rp > pr
      /\ ~Above(p, p)
  BY <1>1 DEF Above
<1> HIDE DEF pq, qp, qr, rq, pr, rp, A, B, C
<1>9. QED
  BY <1>2, <1>4, <1>5, <1>6, <1>7, <1>8

-----------------------------------------------------------------------------
\* The rows of one route, and the rank of a term in them.
RowsOf(rows) == \E n \in Nat : DOMAIN rows = 1 .. n

LEMMA RankFound ==
    ASSUME NEW rows, RowsOf(rows), NEW t
    PROVE  /\ RankIn(rows, t) \in Nat
           /\ RankIn(rows, t) # 0 => RankIn(rows, t) \in DOMAIN rows /\ rows[RankIn(rows, t)].term = t
           /\ (\E i \in DOMAIN rows : rows[i].term = t) => RankIn(rows, t) # 0
<1>1. PICK n \in Nat : DOMAIN rows = 1 .. n
  BY DEF RowsOf
<1>2. CASE \E i \in DOMAIN rows : rows[i].term = t
  <2>1. RankIn(rows, t) \in DOMAIN rows /\ rows[RankIn(rows, t)].term = t
    BY <1>2 DEF RankIn
  <2>2. QED
    BY <1>1, <2>1
<1>3. CASE ~\E i \in DOMAIN rows : rows[i].term = t
  BY <1>3 DEF RankIn
<1>4. QED
  BY <1>2, <1>3

LEMMA ScoreIs ==
    ASSUME NEW vector, NEW trigram, RowsOf(vector), RowsOf(trigram), NEW t
    PROVE  Fraction(Score(vector, trigram, t))
<1> DEFINE a == Share(RankIn(vector, t))
           b == Share(RankIn(trigram, t))
<1>1. ASSUME NEW k \in Nat PROVE Fraction(Share(k))
  BY Search DEF Share, Fraction
<1>2. Fraction(a) /\ Fraction(b)
  BY <1>1, RankFound
<1>3. Score(vector, trigram, t) = <<a[1] * b[2] + b[1] * a[2], a[2] * b[2]>>
  BY DEF Score
<1> HIDE DEF a, b
<1>4. /\ a[1] * b[2] \in Nat /\ b[1] * a[2] \in Nat /\ a[2] * b[2] \in Nat
      /\ a[2] * b[2] > 0
  <2>1. a[1] \in Nat /\ a[2] \in Nat /\ b[1] \in Nat /\ b[2] \in Nat /\ a[2] > 0 /\ b[2] > 0
    BY <1>2 DEF Fraction
  <2>2. a[2] * b[2] > 0 * b[2]
    BY <2>1, TimesMore
  <2>3. QED
    BY <2>1, <2>2, TimesMore
<1> DEFINE x == a[1] * b[2]
           y == b[1] * a[2]
           z == a[2] * b[2]
<1>5. Score(vector, trigram, t) = <<x + y, z>> /\ x \in Nat /\ y \in Nat /\ z \in Nat /\ z > 0
  BY <1>3, <1>4
<1> HIDE DEF x, y, z
<1>6. QED
  BY <1>5 DEF Fraction

-----------------------------------------------------------------------------
\* Fused, each term has one place.
LEMMA CutRows ==
    ASSUME NEW S, NEW s \in Seq(S), NEW k \in Nat
    PROVE  /\ Cut(s, k) \in Seq(S) /\ Len(Cut(s, k)) <= k
           /\ DOMAIN Cut(s, k) \subseteq DOMAIN s
           /\ s # <<>> /\ k > 0 => DOMAIN Cut(s, k) # {}
           /\ \A i \in DOMAIN Cut(s, k) : Cut(s, k)[i] = s[i]
<1> DEFINE m == IF Len(s) < k THEN Len(s) ELSE k
           c == SubSeq(s, 1, m)
<1>1. Len(s) \in Nat /\ m \in Nat /\ m <= Len(s) /\ m <= k /\ DOMAIN s = 1 .. Len(s)
  BY LenProperties
<1>2. Cut(s, k) = c
  BY DEF Cut
<1> HIDE DEF m
<1>3. c \in Seq(S) /\ Len(c) = m /\ \A i \in 1 .. m : c[i] = s[i]
  BY <1>1
<1>4. DOMAIN c = 1 .. m
  BY <1>1, <1>3, LenProperties
<1>5. s # <<>> /\ k > 0 => m # 0
  <2>1. s # <<>> => Len(s) # 0
    BY EmptySeq
  <2>2. QED
    BY <1>1, <2>1 DEF m
<1> HIDE DEF c
<1>6. s # <<>> /\ k > 0 => DOMAIN c # {}
  <2>1. m # 0 => 1 \in 1 .. m
    BY <1>1
  <2>2. QED
    BY <1>4, <1>5, <2>1
<1>7. Len(c) <= k /\ DOMAIN c \subseteq DOMAIN s /\ \A i \in DOMAIN c : c[i] = s[i]
  BY <1>1, <1>3, <1>4
<1>8. QED
  BY <1>2, <1>3, <1>6, <1>7

\* The hits are rows of the two routes, each of another term.
FusedOf(hits, vector, trigram, limit) ==
    /\ hits \in Seq({vector[i] : i \in DOMAIN vector} \cup {trigram[i] : i \in DOMAIN trigram})
    /\ Len(hits) <= limit
    /\ \A i, j \in DOMAIN hits : hits[i].term = hits[j].term => i = j

LEMMA Fused ==
    ASSUME NEW vector, NEW trigram, NEW limit \in Nat, RowsOf(vector), RowsOf(trigram),
           \A i \in DOMAIN vector : vector[i].term \in Terms,
           \A i \in DOMAIN trigram : trigram[i].term \in Terms
    PROVE  FusedOf(Fuse(vector, trigram, limit), vector, trigram, limit)
<1> DEFINE terms == {vector[i].term : i \in DOMAIN vector}
                       \cup {trigram[i].term : i \in DOMAIN trigram}
           S(t)  == Score(vector, trigram, t)
           Before(t, u) == \/ Above(S(t), S(u))
                           \/ ~Above(S(u), S(t)) /\ CodePoint(t) < CodePoint(u)
           At(i) == CHOOSE t \in terms : Cardinality({u \in terms : Before(u, t)}) + 1 = i
           Meta(t) == IF RankIn(vector, t) # 0 THEN vector[RankIn(vector, t)]
                      ELSE trigram[RankIn(trigram, t)]
           rows == {vector[i] : i \in DOMAIN vector} \cup {trigram[i] : i \in DOMAIN trigram}
           all == [i \in 1 .. Cardinality(terms) |-> Meta(At(i))]
           R == {p \in terms \X terms : Before(p[1], p[2])}
<1>1. Fuse(vector, trigram, limit) = Cut(all, limit)
  BY DEF Fuse
<1>2. terms \in SUBSET Terms
  OBVIOUS
<1>3. IsFiniteSet(terms)
  <2>1. ASSUME NEW s, RowsOf(s) PROVE IsFiniteSet({s[i].term : i \in DOMAIN s})
    <3>1. PICK n \in Nat : DOMAIN s = 1 .. n
      BY <2>1 DEF RowsOf
    <3>2. IsFiniteSet(DOMAIN s)
      BY <3>1, FS_Interval
    <3> DEFINE T == {s[i].term : i \in DOMAIN s}
               f == [i \in DOMAIN s |-> s[i].term]
    <3>3. f \in Surjection(DOMAIN s, T)
      BY DEF Surjection
    <3> HIDE DEF T, f
    <3>4. IsFiniteSet(T)
      BY <3>2, <3>3, FS_Surjection
    <3>5. QED
      BY <3>4 DEF T
  <2>2. QED
    BY <2>1, FS_Union
<1>4. \A t : Fraction(S(t))
  BY ScoreIs
<1>5. \A t \in Terms : CodePoint(t) \in Nat /\ \A u \in Terms : CodePoint(t) = CodePoint(u) => t = u
  BY CodePoints
<1>6. Orders(R, terms)
  <2> HIDE DEF terms, S
  <2>1. ASSUME NEW t \in terms PROVE ~Before(t, t)
    BY <1>2, <1>4, <1>5, AboveTrans
  <2>2. ASSUME NEW t \in terms, NEW u \in terms PROVE t = u \/ Before(t, u) \/ Before(u, t)
    BY <1>2, <1>5
  <2>3. ASSUME NEW t \in terms, NEW u \in terms, NEW v \in terms, Before(t, u), Before(u, v)
        PROVE  Before(t, v)
    <3>1. Fraction(S(t)) /\ Fraction(S(u)) /\ Fraction(S(v))
      BY <1>4
    <3>2. /\ Above(S(t), S(u)) /\ ~Above(S(v), S(u)) => Above(S(t), S(v))
          /\ ~Above(S(u), S(t)) /\ Above(S(u), S(v)) => Above(S(t), S(v))
          /\ ~Above(S(u), S(t)) /\ ~Above(S(v), S(u)) => ~Above(S(v), S(t))
          /\ Above(S(u), S(v)) => ~Above(S(v), S(u))
      BY <3>1, AboveTrans
    <3>3. CodePoint(t) < CodePoint(u) /\ CodePoint(u) < CodePoint(v) => CodePoint(t) < CodePoint(v)
      BY <1>2, <1>5
    <3>4. QED
      BY <2>3, <3>2, <3>3
  <2> HIDE DEF Before
  <2>4. QED
    BY <2>1, <2>2, <2>3 DEF Orders
<1>7. Ranked(terms, R)
  <2> HIDE DEF terms, R
  <2>1. QED
    BY <1>3, <1>6, RankProperties
<1> DEFINE N == Cardinality(terms)
<1>8. N \in Nat
  BY <1>3, FS_CardinalityType
<1>9. \A t \in terms : Rank(terms, R, t) = Cardinality({u \in terms : Before(u, t)})
  <2> HIDE DEF terms, Before
  <2>1. ASSUME NEW t \in terms PROVE {u \in terms : <<u, t>> \in R} = {u \in terms : Before(u, t)}
    OBVIOUS
  <2>2. QED
    BY <2>1 DEF Rank
<1>10. ASSUME NEW i \in 1 .. N PROVE At(i) \in terms /\ Rank(terms, R, At(i)) = i - 1
  <2> HIDE DEF terms, Before, R
  <2>1. i - 1 \in 0 .. N - 1 /\ N \in Nat
    BY <1>8
  <2>2. PICK t \in terms : Rank(terms, R, t) = i - 1
    BY <1>7, <2>1 DEF Ranked
  <2>3. \A u \in terms : Rank(terms, R, u) \in Nat
    BY <1>7, <1>8 DEF Ranked
  <2>4. \E u \in terms : Cardinality({v \in terms : Before(v, u)}) + 1 = i
    BY <1>9, <2>2, <2>3
  <2>5. At(i) \in terms /\ Cardinality({v \in terms : Before(v, At(i))}) + 1 = i
    BY <2>4
  <2> HIDE DEF At
  <2>6. QED
    BY <1>9, <2>3, <2>5
<1>11. ASSUME NEW t \in terms PROVE Meta(t) \in rows /\ Meta(t).term = t
  <2>1. \/ RankIn(vector, t) \in DOMAIN vector /\ vector[RankIn(vector, t)].term = t /\ RankIn(vector, t) # 0
        \/ /\ RankIn(vector, t) = 0
           /\ RankIn(trigram, t) \in DOMAIN trigram /\ trigram[RankIn(trigram, t)].term = t
    BY RankFound
  <2>2. QED
    BY <2>1
<1> HIDE DEF terms, S, Before, At, Meta, R, rows
<1>12. all \in Seq(rows) /\ DOMAIN all = 1 .. N
  <2>1. \A i \in 1 .. N : Meta(At(i)) \in rows
    BY <1>10, <1>11
  <2>2. QED
    BY <1>8, <2>1
<1>13. ASSUME NEW i \in 1 .. N, NEW j \in 1 .. N, all[i].term = all[j].term PROVE i = j
  <2>1. At(i) = At(j)
    BY <1>10, <1>11, <1>13
  <2>2. i - 1 = j - 1
    BY <1>10, <2>1
  <2>3. QED
    BY <1>8, <2>2
<1> HIDE DEF all, N
<1> DEFINE c == Cut(all, limit)
<1>14. /\ c \in Seq(rows) /\ Len(c) <= limit
       /\ DOMAIN c \subseteq DOMAIN all /\ \A i \in DOMAIN c : c[i] = all[i]
  BY <1>12, CutRows
<1> HIDE DEF c
<1>15. FusedOf(c, vector, trigram, limit)
  BY <1>12, <1>13, <1>14 DEF FusedOf, rows
<1>16. QED
  BY <1>1, <1>15 DEF c

-----------------------------------------------------------------------------
\* What is found are rows as a rebuild wrote them of an approved version.
Approved(row, n, cur) == \E v \in 1 .. cur[n] : row \in Texts(n, v, row.by)

Traced(rows, n, cur) ==
    RowsOf(rows) /\ \A i \in DOMAIN rows : rows[i].term \in Terms /\ Approved(rows[i], n, cur)

HitsSound(hits, n, limit, cur) ==
    /\ Len(hits) <= limit
    /\ \A i, j \in DOMAIN hits : hits[i].term = hits[j].term => i = j
    /\ \A i \in DOMAIN hits : Approved(hits[i], n, cur)

\* A namespace with rows never loses its last: no rebuild commits without any.
NonEmpty(rows, n) == \E row \in rows : row.ns = n

FindKnown(r, cur) ==
    /\ {"pc", "ns", "question", "limit", "embedded", "trigram", "vector",
         "available", "hits"} \subseteq DOMAIN r
    /\ r.ns \in Namespaces /\ r.question \in Questions /\ r.limit \in Nat \ {0}
    /\ Traced(r.trigram, r.ns, cur)

FindSound(r, cur, ind) ==
    r.kind = "search" =>
        /\ FindKnown(r, cur)
        /\ r.pc = "trigram" => (r.embedded # 0 => NonEmpty(ind, r.ns))
        /\ r.pc = "vector" => (r.available => NonEmpty(ind, r.ns))
        /\ r.pc # "answered" => r.vector = <<>>
        /\ r.pc = "answered" => /\ HitsSound(r.hits, r.ns, r.limit, cur)
                                /\ r.available <=> r.vector # <<>>

SearchInv == IndexInv /\ \A w \in Workers : FindSound(request[w], current, index)

LEMMA EmptyFound == ASSUME NEW n, NEW cur PROVE Traced(<<>>, n, cur)
<1>1. DOMAIN <<>> = 1 .. 0
  OBVIOUS
<1>2. QED
  BY <1>1 DEF Traced, RowsOf

LEMMA RowTerms ==
    ASSUME IndexInv, NEW row \in index
    PROVE  /\ row.ns \in Namespaces /\ row.version \in 1 .. current[row.ns]
           /\ row \in Texts(row.ns, row.version, row.by) /\ row.term \in Terms
<1>1. /\ row.ns \in Namespaces /\ row.version \in 1 .. current[row.ns]
      /\ row \in Texts(row.ns, row.version, row.by)
  BY DEF IndexInv, OfVersions, Whole, Writes
<1>2. row.term \in DOMAIN Content[row.ns][row.version]
  BY <1>1, TextRows DEF Embedded
<1>3. row.version \in DOMAIN Content[row.ns]
  BY <1>1, Vocabularies DEF IndexInv, Shape, Versions
<1>4. QED
  BY <1>1, <1>2, <1>3, Vocabularies

LEMMA RouteFound ==
    ASSUME IndexInv, NEW n \in Namespaces, NEW order \in Seq(Terms), NEW limit \in Nat
    PROVE  /\ Traced(Route(n, order, limit), n, current)
           /\ /\ NonEmpty(index, n) /\ limit # 0
              /\ \A t \in Terms : \E i \in DOMAIN order : order[i] = t
              => Route(n, order, limit) # <<>>
<1> DEFINE P == {i \in DOMAIN order : \E row \in RowsIn(n) : row.term = order[i]}
           there == Chosen(order, P)
           best == Cut(there, limit)
           rows == [i \in DOMAIN best |-> CHOOSE row \in RowsIn(n) : row.term = best[i]]
<1>1. Route(n, order, limit) = rows
  BY DEF Route
<1>2. \A i \in P : \E row \in RowsIn(n) : row.term = order[i]
  OBVIOUS
<1>3. P \in SUBSET DOMAIN order
  OBVIOUS
<1> HIDE DEF P
<1>4. /\ there \in Seq(Terms) /\ \A k \in DOMAIN there : \E i \in P : there[k] = order[i]
      /\ \A i \in P : \E k \in DOMAIN there : there[k] = order[i]
  BY <1>3, ChosenOnes
<1> HIDE DEF there
<1>5. /\ best \in Seq(Terms) /\ DOMAIN best \subseteq DOMAIN there
      /\ \A i \in DOMAIN best : best[i] = there[i]
      /\ there # <<>> /\ limit > 0 => DOMAIN best # {}
  BY <1>4, CutRows
<1> HIDE DEF best
<1>6. ASSUME NEW i \in DOMAIN best PROVE rows[i] \in RowsIn(n) /\ rows[i].term = best[i]
  <2>1. \E row \in RowsIn(n) : row.term = best[i]
    BY <1>2, <1>4, <1>5
  <2>2. QED
    BY <2>1
<1>7. DOMAIN rows = DOMAIN best /\ DOMAIN best = 1 .. Len(best) /\ Len(best) \in Nat
  BY <1>5, LenProperties
<1>8. ASSUME NEW i \in DOMAIN best PROVE best[i] \in Terms
  BY <1>5, <1>7, ElementOfSeq
<1> HIDE DEF rows
<1>9. ASSUME NEW row \in RowsIn(n) PROVE Approved(row, n, current)
  BY RowTerms DEF Approved, RowsIn
<1>10. Traced(rows, n, current)
  BY <1>6, <1>7, <1>8, <1>9 DEF Traced, RowsOf
<1>11. ASSUME NonEmpty(index, n), limit # 0,
              \A t \in Terms : \E i \in DOMAIN order : order[i] = t
       PROVE  rows # <<>>
  <2>1. PICK row \in index : row.ns = n
    BY <1>11 DEF NonEmpty
  <2>2. row.term \in Terms
    BY <2>1, RowTerms
  <2>3. PICK i \in DOMAIN order : order[i] = row.term
    BY <1>11, <2>2
  <2>4. i \in P
    BY <2>1, <2>3 DEF P, RowsIn
  <2>5. there # <<>>
    BY <1>4, <2>4
  <2>6. DOMAIN rows # {}
    BY <1>5, <1>7, <1>11, <2>5
  <2>7. QED
    BY <2>6
<1>12. QED
  BY <1>1, <1>10, <1>11

LEMMA FusedFound ==
    ASSUME NEW n, NEW cur, NEW limit \in Nat, NEW vector, NEW trigram,
           Traced(vector, n, cur), Traced(trigram, n, cur)
    PROVE  HitsSound(Fuse(vector, trigram, limit), n, limit, cur)
<1> DEFINE hits == Fuse(vector, trigram, limit)
           rows == {vector[i] : i \in DOMAIN vector} \cup {trigram[i] : i \in DOMAIN trigram}
<1>1. FusedOf(hits, vector, trigram, limit)
  BY Fused DEF Traced
<1> HIDE DEF hits
<1>2. hits \in Seq(rows)
  BY <1>1 DEF FusedOf
<1>3. \A row \in rows : Approved(row, n, cur)
  BY DEF Traced
<1> HIDE DEF rows
<1>4. ASSUME NEW i \in DOMAIN hits PROVE Approved(hits[i], n, cur)
  <2>1. hits[i] \in rows
    BY <1>2, LenProperties, ElementOfSeq
  <2>2. QED
    BY <1>3, <2>1
<1>5. QED
  BY <1>1, <1>4 DEF FusedOf, HitsSound, hits

LEMMA FindStays ==
    ASSUME NEW r, NEW cur, NEW later, NEW ind, NEW next, FindSound(r, cur, ind),
           cur \in [Namespaces -> Nat], later \in [Namespaces -> Nat],
           \A n \in Namespaces : cur[n] <= later[n],
           \A n \in Namespaces : NonEmpty(ind, n) => NonEmpty(next, n)
    PROVE  FindSound(r, later, next)
<1> SUFFICES ASSUME r.kind = "search" PROVE FindSound(r, later, next)
  BY DEF FindSound
<1>1. r.ns \in Namespaces /\ FindKnown(r, cur)
  BY DEF FindSound, FindKnown
<1>2. 1 .. cur[r.ns] \subseteq 1 .. later[r.ns]
  BY <1>1
<1>3. ASSUME NEW row, Approved(row, r.ns, cur) PROVE Approved(row, r.ns, later)
  BY <1>2, <1>3 DEF Approved
<1>4. FindKnown(r, later)
  BY <1>1, <1>3 DEF FindKnown, Traced
<1>5. r.pc = "answered" => HitsSound(r.hits, r.ns, r.limit, later)
  BY <1>3 DEF FindSound, HitsSound
<1>6. QED
  BY <1>1, <1>4, <1>5 DEF FindSound

LEMMA FindOfOne ==
    ASSUME SearchInv, NEW w \in Workers, FindStep(w)
    PROVE  FindSound(request'[w], current, index)
<1> DEFINE r == request[w]
           q == request'[w]
<1>1. DOMAIN request = Workers /\ FindSound(r, current, index) /\ IndexInv
  BY DEF SearchInv, IndexInv, Shape
<1>2. ASSUME NEW n \in Namespaces, NEW question \in Questions, NEW k \in Limits,
             BeginSearch(w, n, question, k)
      PROVE  FindSound(q, current, index)
  <2>1. q = [kind |-> "search", pc |-> "trigram", ns |-> n, question |-> question,
             limit |-> ClampLimit(k), embedded |-> Cardinality(RowsIn(n)),
             trigram |-> <<>>, vector |-> <<>>, available |-> TRUE, hits |-> <<>>]
    BY <1>1, <1>2 DEF BeginSearch, Ask
  <2>2. ClampLimit(k) \in Nat \ {0}
    BY Search DEF ClampLimit
  <2>3. Cardinality(RowsIn(n)) # 0 => NonEmpty(index, n)
    BY FS_EmptySet DEF RowsIn, NonEmpty
  <2> HIDE DEF q
  <2>4. QED
    BY <2>1, <2>2, <2>3, EmptyFound DEF FindSound, FindKnown
<1>3. ASSUME SearchTrigram(w) PROVE FindSound(q, current, index)
  <2> DEFINE rows == Route(r.ns, r.question.trigram, r.limit)
  <2>1. /\ r.kind = "search" /\ r.pc = "trigram"
        /\ q = [r EXCEPT !.pc = "vector", !.available = r.embedded # 0, !.trigram = rows]
    BY <1>1, <1>3 DEF SearchTrigram, Goes
  <2>2. FindKnown(r, current) /\ r.ns \in Namespaces /\ r.limit \in Nat /\ r.question.trigram \in Seq(Terms)
    BY <1>1, <2>1, Search DEF FindSound, FindKnown
  <2>3. Traced(rows, r.ns, current)
    BY <1>1, <2>2, RouteFound
  <2> HIDE DEF q, r, rows
  <2>4. /\ q.kind = "search" /\ q.pc = "vector" /\ q.ns = r.ns /\ q.question = r.question
        /\ q.limit = r.limit /\ q.trigram = rows /\ q.vector = r.vector /\ DOMAIN q = DOMAIN r
    BY <2>1, <2>2 DEF FindKnown
  <2>5. q.available => r.embedded # 0
    BY <2>1, <2>2 DEF FindKnown
  <2>6. FindKnown(q, current)
    BY <2>2, <2>3, <2>4 DEF FindKnown
  <2>7. QED
    BY <1>1, <2>1, <2>4, <2>5, <2>6 DEF FindSound
<1>4. ASSUME SearchVector(w) PROVE FindSound(q, current, index)
  <2> DEFINE route == Route(r.ns, r.question.vector, r.limit)
             vector == IF r.available THEN route ELSE <<>>
             hits == Fuse(vector, r.trigram, r.limit)
  <2>1. r.kind = "search" /\ r.pc = "vector" /\ FindKnown(r, current)
    BY <1>1, <1>4 DEF SearchVector, FindSound
  <2>2. q = [r EXCEPT !.vector = vector, !.hits = hits, !.pc = "answered"]
    BY <1>1, <1>4, <2>1 DEF SearchVector, Answers, Goes, FindKnown
  <2>3. /\ r.ns \in Namespaces /\ r.limit \in Nat /\ r.limit # 0 /\ r.question.vector \in Seq(Terms)
        /\ \A t \in Terms : \E i \in DOMAIN r.question.vector : r.question.vector[i] = t
    BY <2>1, Search DEF FindKnown
  <2>4. Traced(route, r.ns, current) /\ (NonEmpty(index, r.ns) => route # <<>>)
    BY <1>1, <2>3, RouteFound
  <2>5. Traced(vector, r.ns, current)
    BY <2>4, EmptyFound
  <2>6. r.available <=> vector # <<>>
    BY <1>1, <2>1, <2>4 DEF FindSound
  <2> HIDE DEF vector
  <2>7. HitsSound(hits, r.ns, r.limit, current)
    BY <2>1, <2>3, <2>5, FusedFound DEF FindKnown
  <2> HIDE DEF q, r, hits
  <2>8. /\ q.kind = "search" /\ q.pc = "answered" /\ q.ns = r.ns /\ q.question = r.question
        /\ q.limit = r.limit /\ q.trigram = r.trigram /\ q.vector = vector /\ q.hits = hits
        /\ q.available = r.available /\ DOMAIN q = DOMAIN r
    BY <2>1, <2>2 DEF FindKnown
  <2>9. FindKnown(q, current)
    BY <2>1, <2>8 DEF FindKnown
  <2>10. QED
    BY <2>6, <2>7, <2>8, <2>9 DEF FindSound
<1>5. ASSUME QuestionNotEmbedded(w) PROVE FindSound(q, current, index)
  <2> DEFINE hits == Fuse(<<>>, r.trigram, r.limit)
  <2>1. /\ r.kind = "search" /\ r.pc = "vector" /\ FindKnown(r, current) /\ r.vector = <<>>
        /\ q = [r EXCEPT !.pc = "answered", !.available = FALSE, !.hits = hits]
    BY <1>1, <1>5 DEF QuestionNotEmbedded, FindSound
  <2>2. HitsSound(hits, r.ns, r.limit, current)
    BY <2>1, EmptyFound, FusedFound DEF FindKnown
  <2> HIDE DEF q, r, hits
  <2>3. /\ q.kind = "search" /\ q.pc = "answered" /\ q.ns = r.ns /\ q.question = r.question
        /\ q.limit = r.limit /\ q.trigram = r.trigram /\ q.vector = <<>> /\ q.hits = hits
        /\ ~q.available /\ DOMAIN q = DOMAIN r
    BY <2>1 DEF FindKnown
  <2>4. FindKnown(q, current)
    BY <2>1, <2>3 DEF FindKnown
  <2>5. QED
    BY <2>2, <2>3, <2>4 DEF FindSound
<1>6. QED
  BY <1>2, <1>3, <1>4, <1>5 DEF FindStep

\* A rebuild deletes rows of its own namespace only, and leaves rows there.
LEMMA NoneEmptied ==
    ASSUME IndexInv, [Next]_vars, NEW n \in Namespaces, NonEmpty(index, n)
    PROVE  NonEmpty(index', n)
<1>1. Shape
  BY DEF IndexInv
<1>2. CASE index' = index
  BY <1>2
<1>3. ASSUME NEW w \in Workers, CommitRebuild(w) PROVE NonEmpty(index', n)
  <2> DEFINE r == request[w]
  <2>1. /\ RebuildKnown(r, current) /\ index' = (index \ r.doomed) \cup Writes(r)
    BY <1>3, CommittedRows
  <2>2. PICK row \in index : row.ns = n
    BY DEF NonEmpty
  <2>3. PICK mine : mine \in Writes(r) /\ mine.ns = r.ns
    <3>1. Writes(r) # {}
      BY <2>1, TextRows DEF RebuildKnown, Writes
    <3>2. QED
      BY <3>1, TextRows DEF Writes
  <2> HIDE DEF r
  <2>4. CASE r.ns = n
    BY <2>1, <2>3, <2>4 DEF NonEmpty
  <2>5. CASE r.ns # n
    <3>1. row \notin r.doomed
      BY <2>1, <2>2, <2>5 DEF RebuildKnown
    <3>2. QED
      BY <2>1, <2>2, <3>1 DEF NonEmpty
  <2>6. QED
    BY <2>4, <2>5
<1>4. QED
  BY <1>1, <1>2, <1>3, OnlyCommits

LEMMA SearchKept == ASSUME SearchInv, [Next]_vars PROVE SearchInv'
<1>1. IndexInv /\ Shape
  BY DEF SearchInv, IndexInv
<1>2. /\ current \in [Namespaces -> Nat] /\ current' \in [Namespaces -> Nat]
      /\ \A n \in Namespaces : current[n] <= current'[n]
      /\ \A n \in Namespaces : NonEmpty(index, n) => NonEmpty(index', n)
  BY <1>1, Onward, NoneEmptied
<1>3. ASSUME NEW x \in Workers PROVE FindSound(request'[x], current', index')
  <2>1. FindSound(request'[x], current, index)
    <3>1. CASE request'[x] = request[x]
      BY <3>1 DEF SearchInv
    <3>2. CASE request'[x] # request[x]
      <4>1. request'[x].kind = "search" => FindStep(x)
        BY <1>1, <3>2, Movers DEF KnownStep, Idle, LoudAccess, LoudSources, LoudAsking,
           LoudRevising, LoudRegisters, LoudSearch
      <4>2. QED
        BY <4>1, FindOfOne DEF FindSound
    <3>3. QED
      BY <3>1, <3>2
  <2>2. QED
    BY <1>2, <2>1, FindStays
<1>4. QED
  BY <1>1, <1>3, IndexKept DEF SearchInv

\* The inductive invariant of the index and of searches of it.
THEOREM SearchInvariant == Spec => []SearchInv
<1>1. Init => SearchInv
  BY IndexAtFirst DEF Init, VocabularyInit, SearchInv, FindSound, Idle
<1>2. SearchInv /\ [Next]_vars => SearchInv'
  BY SearchKept
<1>3. QED
  BY <1>1, <1>2, PTL DEF Spec

\* However many rebuilds overlap, of whatever versions, and whatever is approved
\* or retired meanwhile, each row of the index is as it was in an approved version
\* and has all others of its rebuild beside it, and a term has one row; and a search
\* answers within its limit, no term twice, and only with rows a rebuild wrote of an
\* approved version, and the vector route is reported available exactly if it
\* found rows (rebuild_embeddings, replace, search_terms and fuse).
THEOREM SearchAlwaysSound == Spec => []SearchSound
<1>1. SearchInv => SearchSound
  <2> SUFFICES ASSUME SearchInv PROVE SearchSound
    OBVIOUS
  <2>1. ASSUME NEW row \in index
        PROVE  /\ row.version \in 1 .. current[row.ns]
               /\ row \in Texts(row.ns, row.version, row.by)
               /\ Texts(row.ns, row.version, row.by) \subseteq index
    BY DEF SearchInv, IndexInv, Whole, Writes, OfVersions
  <2>2. \A a, b \in index : a.ns = b.ns /\ a.term = b.term => a = b
    BY DEF SearchInv, IndexInv, OneEach
  <2>3. ASSUME NEW w \in Workers, request[w].kind = "search", request[w].pc = "answered"
        PROVE  LET r == request[w]
               IN  /\ Len(r.hits) <= r.limit
                   /\ \A i, j \in DOMAIN r.hits : r.hits[i].term = r.hits[j].term => i = j
                   /\ \A i \in DOMAIN r.hits :
                         \E v \in 1 .. current[r.ns] :
                            r.hits[i] \in Texts(r.ns, v, r.hits[i].by)
                   /\ r.available <=> r.vector # <<>>
    <3>1. FindSound(request[w], current, index)
      BY DEF SearchInv
    <3>2. QED
      BY <2>3, <3>1 DEF FindSound, HitsSound, Approved
  <2>4. QED
    BY <2>1, <2>2, <2>3 DEF SearchSound
<1>2. QED
  BY <1>1, SearchInvariant, PTL

-----------------------------------------------------------------------------
LEMMA VocabularyTypesHold == TrailInv /\ Clock => VocabularyTypes
BY DEF TrailInv, TrailSound, Shape, Versions, Clock, VocabularyTypes

LEMMA LogTypesHold == AnswersInv => LogTypes
BY DEF AnswersInv, EventHonest, AccessInv, LogSound, LogTypes

LEMMA IndexTypesHold == IndexInv => IndexTypes
BY RowTerms DEF IndexTypes

\* Every table of every component keeps the columns its readers expect, and ids
\* are below the last one given, whatever requests are in flight (the tables of
\* alembic/versions as the repositories read and write them).
THEOREM TypesAlwaysOK == Spec => []TypeOK
<1> DEFINE TypesInv == /\ TrailInv /\ Clock /\ AnswersInv /\ RegistersInv
                       /\ MediationInv /\ ScansSound /\ IndexInv
<1>1. Init => TypesInv
  BY TrailAtFirst, ClockAtFirst, AnswersAtFirst, RegistersAtFirst, MediationAtFirst,
     ScansAtFirst, IndexAtFirst
<1>2. TypesInv /\ [Next]_vars => TypesInv'
  BY TrailKept, ClockKept, AnswersKept, RegistersKept, MediationKept, ScansKept, IndexKept
<1>3. TypesInv => TypeOK
  BY VocabularyTypesHold, LogTypesHold, MediationTypesHold, RegisterTypesHold, IndexTypesHold
     DEF TypeOK
<1>4. QED
  BY <1>1, <1>2, <1>3, PTL DEF Spec
=============================================================================
