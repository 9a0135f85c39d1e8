---------------------------- MODULE RegistersProofs ----------------------------
(***************************************************************************)
(* The tables of mappings and owners have one row for each key, however    *)
(* requests that read nothing and insert overlap, and whatever the other   *)
(* components audit meanwhile.  The reports that are put together from     *)
(* them and from many versions, lists of mappings and health, are true:    *)
(* what they have collected so far was so of a version current since.      *)
(***************************************************************************)
EXTENDS RequestProofs

\* The two tables.  Unique says of one of them that its key is.
Numbered(table) == DOMAIN table \subseteq 1 .. lastRow
Unique(table) == \A i, j \in DOMAIN table : table[i].key = table[j].key => i = j

TablesSound == /\ lastRow \in Nat /\ Numbered(mappings) /\ Numbered(owners)
               /\ Unique(mappings) /\ Unique(owners)

\* Column c of a table, or of what is about to be written, has values of C.
Column(table, c, C) == \A i \in DOMAIN table : table[i][c] \in C
Holds(row, c, C) == c \in DOMAIN row /\ row[c] \in C

ColumnsSound == /\ Column(mappings, "predicate", Predicates)
                /\ Column(owners, "principal", Principals)

\* What a request is about to write has the key it was read at.
WriteSound(r) ==
    r.kind \in {"declare", "assign"} /\ r.pc = "write" =>
        /\ r.ns = r.key[1]
        /\ "key" \in DOMAIN r.new /\ r.new.key = r.key
        /\ r.found # 0 => r.old.key = r.key
        /\ r.kind = "declare" => Holds(r.new, "predicate", Predicates)
        /\ r.kind = "assign" => Holds(r.new, "principal", Principals)

WritesSound == \A w \in Workers : WriteSound(request[w])

\* The audited declarations of namespace n, and that there are enough of them.
Declarations(n) == {i \in DOMAIN audit : audit[i].ns = n /\ audit[i].action = "declare"}
DeclaredEnough ==
    \A n \in Namespaces : Cardinality(Outgoing(n)) <= Cardinality(Declarations(n))

RegistersInv == /\ TrailInv /\ TablesSound /\ ColumnsSound /\ WritesSound
                /\ DeclaredEnough

-----------------------------------------------------------------------------
\* What two operations do to a table.
LEMMA WithoutUnique ==
    ASSUME NEW table, NEW S, Unique(table), Numbered(table)
    PROVE  Unique(Without(table, S)) /\ Numbered(Without(table, S))
BY DEF Unique, Numbered, Without

LEMMA WithoutColumn ==
    ASSUME NEW table, NEW S, NEW c, NEW C, Column(table, c, C)
    PROVE  Column(Without(table, S), c, C)
BY DEF Column, Without

\* An UPDATE leaves a column as it is, or writes what the request has for it.
LEMMA WrittenColumn ==
    ASSUME NEW table, NEW r, NEW c, NEW C, Column(table, c, C), Writable(table, r),
           Holds(r.new, c, C)
    PROVE  Column(Written(table, r, r.new), c, C)
<1> DEFINE new == r.new
           row == [d \in DOMAIN new |-> IF new[d] = r.old[d] THEN table[r.found][d] ELSE new[d]]
<1>1. CASE r.found = 0
  BY <1>1 DEF Written, Put, Column, Holds
<1>2. CASE r.found # 0
  <2>1. row[c] \in C
    BY <1>2 DEF Column, Holds, Writable
  <2>2. Written(table, r, new) = Put(table, r.found, row)
    BY <1>2 DEF Written
  <2> HIDE DEF row, new
  <2>3. Column(Put(table, r.found, row), c, C)
    BY <2>1 DEF Column, Put
  <2>4. QED
    BY <2>2, <2>3 DEF new
<1>3. QED
  BY <1>1, <1>2

LEMMA WrittenRow ==
    ASSUME NEW table, NEW r, Numbered(table), lastRow \in Nat, Writable(table, r),
           "key" \in DOMAIN r.new, r.new.key = r.key, r.found # 0 => r.old.key = r.key
    PROVE  LET t == Written(table, r, r.new)
               i == IF r.found = 0 THEN lastRow + 1 ELSE r.found
           IN  /\ DOMAIN t = DOMAIN table \cup {i}
               /\ \A j \in DOMAIN table \ {i} : t[j] = table[j]
               /\ t[i].key = IF r.found = 0 THEN r.key ELSE table[i].key
               /\ r.found = 0 <=> i \notin DOMAIN table
<1>1. CASE r.found = 0
  BY <1>1 DEF Written, Put, Numbered, Writable
<1>2. CASE r.found # 0
  <2> DEFINE row == [c \in DOMAIN r.new |-> IF r.new[c] = r.old[c]
                                            THEN table[r.found][c] ELSE r.new[c]]
  <2>1. row.key = table[r.found].key
    BY <1>2
  <2>2. Written(table, r, r.new) = Put(table, r.found, row) /\ r.found \in DOMAIN table
    BY <1>2 DEF Written, Writable
  <2> HIDE DEF row
  <2>3. QED
    BY <1>2, <2>1, <2>2 DEF Put
<1>3. QED
  BY <1>1, <1>2

LEMMA WrittenUnique ==
    ASSUME NEW table, NEW r, Numbered(table), Unique(table), lastRow \in Nat,
           Writable(table, r),
           "key" \in DOMAIN r.new, r.new.key = r.key, r.found # 0 => r.old.key = r.key
    PROVE  /\ Unique(Written(table, r, r.new))
           /\ DOMAIN Written(table, r, r.new)
                 \subseteq 1 .. (lastRow + (IF r.found = 0 THEN 1 ELSE 0))
<1> DEFINE t == Written(table, r, r.new)
           i == IF r.found = 0 THEN lastRow + 1 ELSE r.found
<1>1. /\ DOMAIN t = DOMAIN table \cup {i}
      /\ \A j \in DOMAIN table \ {i} : t[j] = table[j]
      /\ t[i].key = IF r.found = 0 THEN r.key ELSE table[i].key
      /\ r.found = 0 <=> i \notin DOMAIN table
  BY WrittenRow
<1>2. r.found = 0 => \A j \in DOMAIN table : table[j].key # r.key
  BY DEF Writable, RowsAt
<1> HIDE DEF t
<1>3. Unique(t)
  BY <1>1, <1>2 DEF Unique
<1>4. DOMAIN t \subseteq 1 .. (lastRow + (IF r.found = 0 THEN 1 ELSE 0))
  BY <1>1 DEF Numbered
<1>5. QED
  BY <1>3, <1>4 DEF t

\* What was read at a key has that key.
LEMMA ReadFinds ==
    ASSUME NEW table, NEW key
    PROVE  Read(table, key).found # 0 => Read(table, key).old.key = key
BY DEF Read, RowsAt

-----------------------------------------------------------------------------
LEMMA DeclaredFinite ==
    ASSUME TrailInv, TablesSound, NEW n
    PROVE  IsFiniteSet(Declarations(n)) /\ IsFiniteSet(Outgoing(n))
<1>1. IsFiniteSet(1 .. lastAudit) /\ IsFiniteSet(1 .. lastRow)
  <2>1. lastAudit \in Int /\ lastRow \in Int /\ 1 \in Int
    BY DEF TrailInv, TrailSound, TablesSound
  <2>2. QED
    BY <2>1, FS_Interval
<1>2. Declarations(n) \subseteq 1 .. lastAudit /\ Outgoing(n) \subseteq 1 .. lastRow
  BY DEF TrailInv, TrailSound, TablesSound, Numbered, Declarations, Outgoing
<1>3. QED
  BY <1>1, <1>2, FS_Subset

\* While no mapping is added, there are enough declarations.
LEMMA EnoughRemain ==
    ASSUME RegistersInv, TrailInv', TablesSound', TrailAppended,
           \A n \in Namespaces : Outgoing(n)' \subseteq Outgoing(n)
    PROVE  DeclaredEnough'
<1> SUFFICES ASSUME NEW n \in Namespaces
             PROVE  Cardinality(Outgoing(n)') <= Cardinality(Declarations(n)')
  BY DEF DeclaredEnough
<1>1. IsFiniteSet(Declarations(n)) /\ IsFiniteSet(Outgoing(n))
  BY DeclaredFinite DEF RegistersInv
<1>2. IsFiniteSet(Declarations(n)')
  <2>1. IsFiniteSet((1 .. lastAudit)')
    BY FS_Interval DEF TrailInv, TrailSound
  <2>2. Declarations(n)' \subseteq (1 .. lastAudit)'
    BY DEF TrailInv, TrailSound, Declarations
  <2>3. QED
    BY <2>1, <2>2, FS_Subset
<1>3. Declarations(n) \subseteq Declarations(n)'
  BY DEF TrailAppended, Declarations
<1>4. Cardinality(Outgoing(n)') <= Cardinality(Outgoing(n))
  BY <1>1, FS_Subset
<1>5. Cardinality(Declarations(n)) <= Cardinality(Declarations(n)')
  BY <1>2, <1>3, FS_Subset
<1>6. /\ Cardinality(Outgoing(n)) \in Nat /\ Cardinality(Outgoing(n)') \in Nat
      /\ Cardinality(Declarations(n)) \in Nat /\ Cardinality(Declarations(n)') \in Nat
  BY <1>1, <1>2, FS_Subset, FS_CardinalityType
<1>7. QED
  BY <1>4, <1>5, <1>6 DEF RegistersInv, DeclaredEnough

\* A step that writes neither table, and lets no request read for a write.
LEMMA TablesSteady ==
    ASSUME RegistersInv, TrailInv', TrailAppended, UNCHANGED registers,
           \A w \in Workers : \/ request'[w] = request[w]
                              \/ request'[w].kind \notin {"declare", "assign"}
                              \/ request'[w].pc # "write"
    PROVE  RegistersInv'
<1> USE DEF registers
<1>1. TablesSound'
  BY DEF RegistersInv, TablesSound, Numbered, Unique
<1>2. WritesSound'
  BY DEF RegistersInv, WritesSound, WriteSound
<1>3. DeclaredEnough'
  BY <1>1, EnoughRemain DEF Outgoing
<1>4. ColumnsSound'
  BY DEF RegistersInv, ColumnsSound
<1>5. QED
  BY <1>1, <1>2, <1>3, <1>4 DEF RegistersInv

LEMMA BeginWriteKeeps ==
    ASSUME RegistersInv, TrailInv', TrailAppended, UNCHANGED registers, NEW w \in Workers,
           WriteSound(request'[w]), \A x \in Workers \ {w} : request'[x] = request[x]
    PROVE  RegistersInv'
<1> USE DEF registers
<1>1. TablesSound'
  BY DEF RegistersInv, TablesSound, Numbered, Unique
<1>2. WritesSound'
  BY DEF RegistersInv, WritesSound, WriteSound
<1>3. DeclaredEnough'
  BY <1>1, EnoughRemain DEF Outgoing
<1>4. ColumnsSound'
  BY DEF RegistersInv, ColumnsSound
<1>5. QED
  BY <1>1, <1>2, <1>3, <1>4 DEF RegistersInv

LEMMA BeginDeclareKeeps ==
    ASSUME RegistersInv, TrailInv', TrailAppended, NEW w \in Workers, NEW key,
           NEW p \in Predicates, BeginDeclare(w, key, p)
    PROVE  RegistersInv'
<1> DEFINE new == [key |-> key, predicate |-> p, by |-> w]
           r == Writing("declare", key[1], key, Read(mappings, key), new)
<1>1. /\ r.ns = key[1] /\ r.key = key /\ r.found = Read(mappings, key).found
      /\ r.old = Read(mappings, key).old /\ "key" \in DOMAIN r.new /\ r.new.key = key
      /\ r.kind = "declare" /\ Holds(r.new, "predicate", Predicates)
  BY DEF Writing, Holds
<1>2. request' = [request EXCEPT ![w] = r] /\ UNCHANGED registers /\ DOMAIN request = Workers
  BY DEF BeginDeclare, Ask, RegistersInv, TrailInv, Shape
<1> HIDE DEF r
<1>3. WriteSound(request'[w])
  BY <1>1, <1>2, ReadFinds DEF WriteSound
<1>4. QED
  BY <1>2, <1>3, BeginWriteKeeps

LEMMA BeginAssignKeeps ==
    ASSUME RegistersInv, TrailInv', TrailAppended, NEW w \in Workers, NEW key,
           NEW p \in Principals, BeginAssign(w, key, p)
    PROVE  RegistersInv'
<1> DEFINE new == [key |-> key, principal |-> p, by |-> w]
           r == Writing("assign", key[1], key, Read(owners, key), new)
<1>1. /\ r.ns = key[1] /\ r.key = key /\ r.found = Read(owners, key).found
      /\ r.old = Read(owners, key).old /\ "key" \in DOMAIN r.new /\ r.new.key = key
      /\ r.kind = "assign" /\ Holds(r.new, "principal", Principals)
  BY DEF Writing, Holds
<1>2. request' = [request EXCEPT ![w] = r] /\ UNCHANGED registers /\ DOMAIN request = Workers
  BY DEF BeginAssign, Ask, RegistersInv, TrailInv, Shape
<1> HIDE DEF r
<1>3. WriteSound(request'[w])
  BY <1>1, <1>2, ReadFinds DEF WriteSound
<1>4. QED
  BY <1>2, <1>3, BeginWriteKeeps

-----------------------------------------------------------------------------
\* A request that has written is not about to write.
LEMMA WritesRemain ==
    ASSUME RegistersInv, NEW w \in Workers, request'[w].pc # "write",
           \A x \in Workers \ {w} : request'[x] = request[x]
    PROVE  WritesSound'
BY DEF RegistersInv, WritesSound, WriteSound

\* The mapping is inserted, and audited, or updated.
LEMMA CommitDeclareKeeps ==
    ASSUME RegistersInv, TrailInv', TrailAppended, NEW w \in Workers, CommitDeclare(w)
    PROVE  RegistersInv'
<1> DEFINE r == request[w]
<1>1. CASE Refused(w) /\ UNCHANGED registers
  <2>1. Idle.pc = "idle" /\ request' = [request EXCEPT ![w] = Idle] /\ DOMAIN request = Workers
    BY <1>1 DEF Refused, Idle, Goes, RegistersInv, TrailInv, Shape
  <2>2. QED
    BY <1>1, <2>1, TablesSteady
<1>2. CASE /\ Writable(mappings, r) /\ mappings' = Written(mappings, r, r.new)
           /\ lastRow' = lastRow + (IF r.found = 0 THEN 1 ELSE 0)
           /\ Audited /\ audit' = AuditRow(r, lastAudit')
           /\ Goes(w, [r EXCEPT !.pc = "reread"]) /\ UNCHANGED owners
  <2> DEFINE i == IF r.found = 0 THEN lastRow + 1 ELSE r.found
             id == lastAudit'
  <2>1. /\ r.kind = "declare" /\ r.ns = r.key[1]
        /\ "key" \in DOMAIN r.new /\ r.new.key = r.key /\ (r.found # 0 => r.old.key = r.key)
    BY DEF CommitDeclare, RegistersInv, WritesSound, WriteSound
  <2>2. Numbered(mappings) /\ Unique(mappings) /\ lastRow \in Nat /\ Numbered(owners) /\ Unique(owners)
    BY DEF RegistersInv, TablesSound
  <2>3. TablesSound'
    <3>1. /\ Unique(Written(mappings, r, r.new))
          /\ DOMAIN Written(mappings, r, r.new) \subseteq 1 .. (lastRow + (IF r.found = 0 THEN 1 ELSE 0))
      BY <1>2, <2>1, <2>2, WrittenUnique
    <3>2. QED
      BY <1>2, <2>2, <3>1 DEF TablesSound, Numbered, Unique
  <2>4. request'[w].pc # "write" /\ \A x \in Workers \ {w} : request'[x] = request[x]
    BY <1>2, Fields DEF Goes, RegistersInv, TrailInv, Shape
  <2>5. WritesSound'
    BY <2>4, WritesRemain
  <2>6. /\ DOMAIN mappings' = DOMAIN mappings \cup {i}
        /\ \A j \in DOMAIN mappings \ {i} : mappings'[j] = mappings[j]
        /\ mappings'[i].key = IF r.found = 0 THEN r.key ELSE mappings[i].key
        /\ r.found = 0 <=> i \notin DOMAIN mappings
    <3> DEFINE t == Written(mappings, r, r.new)
    <3>1. /\ DOMAIN t = DOMAIN mappings \cup {i}
          /\ \A j \in DOMAIN mappings \ {i} : t[j] = mappings[j]
          /\ t[i].key = IF r.found = 0 THEN r.key ELSE mappings[i].key
          /\ r.found = 0 <=> i \notin DOMAIN mappings
      BY <1>2, <2>1, <2>2, WrittenRow
    <3>2. mappings' = t
      BY <1>2
    <3> HIDE DEF t, i
    <3>3. QED
      BY <3>1, <3>2
  <2>7. DeclaredEnough'
    <3>1. CASE r.found # 0
      <4>1. \A n \in Namespaces : Outgoing(n)' \subseteq Outgoing(n)
        BY <2>6, <3>1 DEF Outgoing
      <4>2. QED
        BY <2>3, <4>1, EnoughRemain
    <3>2. CASE r.found = 0
      <4> SUFFICES ASSUME NEW n \in Namespaces
                   PROVE  Cardinality(Outgoing(n)') <= Cardinality(Declarations(n)')
        BY DEF DeclaredEnough
      <4>1. IsFiniteSet(Declarations(n)) /\ IsFiniteSet(Outgoing(n))
        BY DeclaredFinite DEF RegistersInv
      <4>2. /\ lastAudit' \notin DOMAIN audit
            /\ DOMAIN audit' = DOMAIN audit \cup {lastAudit'}
            /\ \A k \in DOMAIN audit : audit'[k] = audit[k]
            /\ audit'[lastAudit'] = [ns |-> r.ns, action |-> "declare"]
        BY <1>2, <2>1 DEF Audited, AuditRow, RegistersInv, TrailInv, TrailSound
      <4>3. Declarations(n)' = IF r.ns = n THEN Declarations(n) \cup {lastAudit'} ELSE Declarations(n)
        BY <4>2 DEF Declarations
      <4>4. Outgoing(n)' = IF r.ns = n THEN Outgoing(n) \cup {i} ELSE Outgoing(n)
        BY <2>1, <2>6, <3>2 DEF Outgoing
      <4>5. lastAudit' \notin Declarations(n) /\ i \notin Outgoing(n)
        BY <2>6, <3>2, <4>2 DEF Declarations, Outgoing
      <4>6. /\ Cardinality(Declarations(n) \cup {lastAudit'}) = Cardinality(Declarations(n)) + 1
            /\ Cardinality(Outgoing(n) \cup {i}) = Cardinality(Outgoing(n)) + 1
        BY <4>1, <4>5, FS_AddElement
      <4>7. Cardinality(Outgoing(n)) \in Nat /\ Cardinality(Declarations(n)) \in Nat
            /\ Cardinality(Outgoing(n)) <= Cardinality(Declarations(n))
        BY <4>1, FS_CardinalityType DEF RegistersInv, DeclaredEnough
      <4>8. QED
        BY <4>3, <4>4, <4>6, <4>7
    <3>3. QED
      BY <3>1, <3>2
  <2>8. ColumnsSound'
    <3>1. Holds(r.new, "predicate", Predicates) /\ Column(mappings, "predicate", Predicates)
      BY DEF CommitDeclare, RegistersInv, WritesSound, WriteSound, ColumnsSound
    <3>2. Column(Written(mappings, r, r.new), "predicate", Predicates)
      BY <1>2, <3>1, WrittenColumn
    <3>3. QED
      BY <1>2, <3>2 DEF RegistersInv, ColumnsSound
  <2>9. QED
    BY <2>3, <2>5, <2>7, <2>8 DEF RegistersInv
<1>3. QED
  BY <1>1, <1>2 DEF CommitDeclare, registers

LEMMA CommitRevokeKeeps ==
    ASSUME RegistersInv, TrailInv', TrailAppended, NEW w \in Workers, CommitRevoke(w)
    PROVE  RegistersInv'
<1>1. request'[w].pc # "write" /\ \A x \in Workers \ {w} : request'[x] = request[x]
  BY Answered DEF CommitRevoke, RegistersInv, TrailInv, Shape, Moves
<1>2. TablesSound'
  BY WithoutUnique DEF CommitRevoke, RegistersInv, TablesSound, Numbered, Unique
<1>3. \A n \in Namespaces : Outgoing(n)' \subseteq Outgoing(n)
  BY DEF CommitRevoke, Without, Outgoing
<1>4. ColumnsSound'
  BY WithoutColumn DEF CommitRevoke, RegistersInv, ColumnsSound
<1>5. QED
  BY <1>1, <1>2, <1>3, <1>4, WritesRemain, EnoughRemain DEF RegistersInv

LEMMA CommitAssignKeeps ==
    ASSUME RegistersInv, TrailInv', TrailAppended, NEW w \in Workers, CommitAssign(w)
    PROVE  RegistersInv'
<1> DEFINE r == request[w]
<1>1. CASE Refused(w) /\ UNCHANGED registers
  <2>1. Idle.pc = "idle" /\ request' = [request EXCEPT ![w] = Idle] /\ DOMAIN request = Workers
    BY <1>1 DEF Refused, Idle, Goes, RegistersInv, TrailInv, Shape
  <2>2. QED
    BY <1>1, <2>1, TablesSteady
<1>2. CASE /\ Writable(owners, r) /\ owners' = Written(owners, r, r.new)
           /\ lastRow' = lastRow + (IF r.found = 0 THEN 1 ELSE 0)
           /\ Answers(w, r) /\ UNCHANGED mappings
  <2>1. "key" \in DOMAIN r.new /\ r.new.key = r.key /\ (r.found # 0 => r.old.key = r.key)
    BY DEF CommitAssign, RegistersInv, WritesSound, WriteSound
  <2>2. Numbered(mappings) /\ Unique(mappings) /\ lastRow \in Nat /\ Numbered(owners) /\ Unique(owners)
    BY DEF RegistersInv, TablesSound
  <2>3. TablesSound'
    <3>1. /\ Unique(Written(owners, r, r.new))
          /\ DOMAIN Written(owners, r, r.new) \subseteq 1 .. (lastRow + (IF r.found = 0 THEN 1 ELSE 0))
      BY <1>2, <2>1, <2>2, WrittenUnique
    <3>2. QED
      BY <1>2, <2>2, <3>1 DEF TablesSound, Numbered, Unique
  <2>4. request'[w].pc # "write" /\ \A x \in Workers \ {w} : request'[x] = request[x]
    BY <1>2, Answered DEF RegistersInv, TrailInv, Shape, Moves
  <2>5. ColumnsSound'
    <3>1. Holds(r.new, "principal", Principals) /\ Column(owners, "principal", Principals)
      BY DEF CommitAssign, RegistersInv, WritesSound, WriteSound, ColumnsSound
    <3>2. Column(Written(owners, r, r.new), "principal", Principals)
      BY <1>2, <3>1, WrittenColumn
    <3>3. QED
      BY <1>2, <3>2 DEF RegistersInv, ColumnsSound
  <2>6. QED
    BY <1>2, <2>3, <2>4, <2>5, WritesRemain, EnoughRemain DEF RegistersInv, Outgoing
<1>3. QED
  BY <1>1, <1>2 DEF CommitAssign, registers

LEMMA CommitUnassignKeeps ==
    ASSUME RegistersInv, TrailInv', TrailAppended, NEW w \in Workers, CommitUnassign(w)
    PROVE  RegistersInv'
<1>1. request'[w].pc # "write" /\ \A x \in Workers \ {w} : request'[x] = request[x]
  BY Answered DEF CommitUnassign, RegistersInv, TrailInv, Shape, Moves
<1>2. TablesSound'
  BY WithoutUnique DEF CommitUnassign, RegistersInv, TablesSound, Numbered, Unique
<1>3. ColumnsSound'
  BY WithoutColumn DEF CommitUnassign, RegistersInv, ColumnsSound
<1>4. QED
  BY <1>1, <1>2, <1>3, WritesRemain, EnoughRemain DEF CommitUnassign, RegistersInv, Outgoing

-----------------------------------------------------------------------------
LEMMA RegistersAtFirst == ASSUME Init PROVE RegistersInv
<1>1. TablesSound
  BY DEF Init, RegistersInit, TablesSound, Numbered, Unique
<1>2. WritesSound
  BY DEF Init, VocabularyInit, WritesSound, WriteSound, Idle
<1>3. DeclaredEnough
  <2>1. \A n \in Namespaces : Outgoing(n) = {} /\ Declarations(n) = {}
    BY DEF Init, VocabularyInit, RegistersInit, Outgoing, Declarations
  <2>2. QED
    BY <2>1, FS_EmptySet DEF DeclaredEnough
<1>4. ColumnsSound
  BY DEF Init, RegistersInit, ColumnsSound, Column
<1>5. QED
  BY <1>1, <1>2, <1>3, <1>4, TrailAtFirst DEF RegistersInv

\* The other components touch neither table, and their requests are of other kinds.
LEMMA OthersKeepTables ==
    ASSUME RegistersInv, TrailInv', TrailAppended, UNCHANGED registers,
           NEW kinds, Touches(kinds), kinds \cap {"declare", "assign"} = {}
    PROVE  RegistersInv'
<1>1. \A w \in Workers : request'[w] = request[w] \/ request'[w].kind \notin {"declare", "assign"}
  BY DEF Touches, Moves, RegistersInv, TrailInv, Shape
<1>2. QED
  BY <1>1, TablesSteady

LEMMA RegistersKept == ASSUME RegistersInv, [Next]_vars PROVE RegistersInv'
<1>1. Shape /\ TrailInv' /\ TrailAppended
  BY TrailKept DEF RegistersInv, TrailInv
<1>2. CASE Quiet
  <2>1. \A w \in Workers : \/ request'[w] = request[w]
                           \/ request'[w].kind \notin {"declare", "assign"}
                           \/ request'[w].pc # "write"
    BY <1>1, <1>2 DEF Quiet, Moves, Busy, Shape
  <2>2. QED
    BY <1>1, <1>2, <2>1, TablesSteady DEF Quiet
<1>3. CASE LoudAccess
  BY <1>1, <1>3, AccessTouches, OthersKeepTables DEF LoudAccess
<1>4. CASE LoudSources
  BY <1>1, <1>4, TablesSteady DEF LoudSources, RegisterSource, RemoveSource, CompleteScan
<1>5. CASE LoudRevising
  BY <1>1, <1>5, RevisingTouches, OthersKeepTables DEF LoudRevising
<1>6. CASE LoudAsking
  BY <1>1, <1>6, AskingTouches, OthersKeepTables DEF LoudAsking
<1>7. CASE LoudRegisters
  BY <1>1, <1>7, BeginDeclareKeeps, BeginAssignKeeps, CommitDeclareKeeps, CommitRevokeKeeps,
     CommitAssignKeeps, CommitUnassignKeeps DEF LoudRegisters
<1>8. CASE LoudSearch
  BY <1>1, <1>8, SearchTouches, OthersKeepTables DEF LoudSearch
<1>9. QED
  BY <1>1, <1>2, <1>3, <1>4, <1>5, <1>6, <1>7, <1>8, Steps

\* The inductive invariant of the two tables.
THEOREM RegistersInvariant == Spec => []RegistersInv
<1>1. QED
  BY RegistersAtFirst, RegistersKept, PTL DEF Spec

\* However declarations and assignments overlap, two terms have one mapping in a
\* namespace and a term has one owner, and no mapping is there that was not
\* audited (declare of repositories/mappings.py, assign of term_owners.py).
THEOREM OneRowPerKeyHolds == Spec => []OneRowPerKey
<1>1. RegistersInv => OneRowPerKey
  <2>1. \A n \in Namespaces :
            Declarations(n) = {i \in AuditOf(n) : audit[i].action = "declare"}
    BY DEF Declarations, AuditOf
  <2>2. QED
    BY <2>1 DEF RegistersInv, TablesSound, Unique, DeclaredEnough, OneRowPerKey
<1>2. QED
  BY RegistersInvariant, <1>1, PTL

\* The columns of the tables have their types.
LEMMA RegisterTypesHold == RegistersInv => RegisterTypes
<1>1. ColumnsSound => /\ \A i \in DOMAIN mappings : mappings[i].predicate \in Predicates
                      /\ \A i \in DOMAIN owners : owners[i].principal \in Principals
  BY DEF ColumnsSound, Column
<1>2. QED
  BY <1>1 DEF RegistersInv, TablesSound, Numbered, RegisterTypes

-----------------------------------------------------------------------------
\* The owner of a term has the longest of the base IRIs it begins with.
LEMMA LongestOwner ==
    ASSUME NEW t, OwningNamespace(t) \in Namespaces
    PROVE  /\ t \in Under[OwningNamespace(t)]
           /\ \A m \in Namespaces : t \in Under[m] => BaseLength[m] <= BaseLength[OwningNamespace(t)]
<1> DEFINE S == {n \in Namespaces : t \in Under[n]}
           over(n) == {m \in S : BaseLength[m] > BaseLength[n]}
           K == {Cardinality(over(n)) : n \in S}
<1>1. S # {}
  BY Vocabularies DEF OwningNamespace
<1>2. ASSUME NEW n \in S PROVE IsFiniteSet(over(n)) /\ Cardinality(over(n)) \in Nat
  <2>1. over(n) \in SUBSET Namespaces /\ IsFiniteSet(Namespaces)
    BY Vocabularies
  <2> HIDE DEF over
  <2>2. QED
    BY <2>1, FS_Subset, FS_CardinalityType
<1>3. PICK k \in K : \A l \in K : k <= l
  <2>1. K \in SUBSET Nat /\ K # {}
    BY <1>1, <1>2
  <2> HIDE DEF K
  <2>2. QED
    BY <2>1, LeastOf
<1>4. PICK n \in S : k = Cardinality(over(n))
  OBVIOUS
<1>5. ASSUME NEW m \in S, BaseLength[m] > BaseLength[n] PROVE FALSE
  <2>1. BaseLength[m] \in Nat /\ BaseLength[n] \in Nat /\ \A x \in S : BaseLength[x] \in Nat
    BY Vocabularies
  <2>2. over(m) \subseteq over(n) /\ m \in over(n) /\ m \notin over(m)
    BY <1>5, <2>1
  <2>3. Cardinality(over(m)) \in K /\ IsFiniteSet(over(n)) /\ Cardinality(over(m)) \in Nat
        /\ Cardinality(over(n)) \in Nat
    BY <1>2
  <2>4. k <= Cardinality(over(m))
    BY <1>3, <2>3
  <2> HIDE DEF over, K
  <2>5. Cardinality(over(m)) < Cardinality(over(n))
    <3>1. over(m) \in SUBSET over(n) /\ over(m) # over(n)
      BY <2>2
    <3>2. QED
      BY <2>3, <3>1, FS_Subset
  <2>6. QED
    BY <1>4, <2>3, <2>4, <2>5
<1>6. \A m \in S : BaseLength[m] <= BaseLength[n]
  <2>1. \A m \in S : BaseLength[m] \in Nat /\ BaseLength[n] \in Nat
    BY Vocabularies
  <2>2. QED
    BY <1>5, <2>1
<1>7. OwningNamespace(t) = CHOOSE x \in S : \A m \in S : BaseLength[m] <= BaseLength[x]
  BY <1>1 DEF OwningNamespace
<1> HIDE DEF S
<1>8. OwningNamespace(t) \in S /\ \A m \in S : BaseLength[m] <= BaseLength[OwningNamespace(t)]
  BY <1>6, <1>7, Zenon
<1>9. QED
  BY <1>8 DEF S

-----------------------------------------------------------------------------
\* What is said of target t is true of a version of its owner, from those
\* current at first to those current now.
Truth(said, t, from, cur) ==
    said # Unknown =>
        /\ OwningNamespace(t) \in Readable
        /\ \E v \in 1 .. cur[OwningNamespace(t)] :
              /\ v >= from[OwningNamespace(t)]
              /\ said = Lifecycle(Content[OwningNamespace(t)][v], t)

AllTrue(said, since, cur) == \A t \in DOMAIN said : Truth(said[t], t, since, cur)

\* Request r goes on as q, and its targets have these states.
Resolving(r, q) ==
    \E todo, states : /\ q = [r EXCEPT !.todo = todo, !.states = states]
                      /\ DOMAIN states = DOMAIN r.states
                      /\ AllTrue(states, r.from, current)

\* The terms that recorded answers of a namespace had.
Logged(events, n) ==
    {t \in Terms : \E i \in DOMAIN events :
        events[i].ns = n /\ \E k \in DOMAIN events[i].terms : events[i].terms[k] = t}

\* A list or a report in the making, while the current versions are cur.
StatesSound(r, cur) ==
    /\ {"kind", "pc", "ns", "from", "rows", "todo", "states"} \subseteq DOMAIN r
    /\ r.from \in [Namespaces -> Nat] /\ \A n \in Namespaces : r.from[n] <= cur[n]
    /\ AllTrue(r.states, r.from, cur)
    /\ r.pc \in {"targets", "answered"} => DOMAIN r.states = {m.key[3] : m \in r.rows}

ListSound(r, cur) ==
    r.kind = "list" =>
        /\ "sides" \in DOMAIN r /\ r.pc \in {"other", "targets", "answered"}
        /\ StatesSound(r, cur)

Later(pc, pcs) == pc \in pcs \cup {"other", "targets", "answered"}

HealthSound(r, cur, logged) ==
    r.kind = "health" =>
        /\ {"version", "terms", "unreferenced", "ownerless", "disputed"} \subseteq DOMAIN r
        /\ StatesSound(r, cur)
        /\ r.ns \in Namespaces /\ r.version = r.from[r.ns]
        /\ r.pc = "other" => DOMAIN r.states = {m.key[3] : m \in r.rows}
        /\ r.terms = Unmeasured \/ r.terms \in SUBSET Terms
        /\ Later(r.pc, {"owners", "mappings"}) =>
              /\ r.terms = Unmeasured <=> r.unreferenced = Unmeasured
              /\ r.terms # Unmeasured => r.terms \ r.unreferenced \subseteq logged
        /\ Later(r.pc, {"mappings"}) => (r.terms = Unmeasured <=> r.ownerless = Unmeasured)

ReportsSound ==
    \A w \in Workers : /\ ListSound(request[w], current)
                       /\ HealthSound(request[w], current, Logged(log, request[w].ns))

ReportsInv == AccessInv /\ ReportsSound

LEMMA ReportsAtFirst == ASSUME Init PROVE ReportsInv
BY AccessAtFirst DEF Init, VocabularyInit, ReportsInv, ReportsSound, ListSound, HealthSound, Idle

\* Versions and the log only grow.
LEMMA TruthStays ==
    ASSUME NEW said, NEW t, NEW from, NEW cur, NEW later, Truth(said, t, from, cur),
           cur \in [Namespaces -> Nat], later \in [Namespaces -> Nat],
           \A n \in Namespaces : cur[n] <= later[n]
    PROVE  Truth(said, t, from, later)
BY Registers DEF Truth

LEMMA StatesStay ==
    ASSUME NEW r, NEW cur, NEW later, StatesSound(r, cur),
           cur \in [Namespaces -> Nat], later \in [Namespaces -> Nat],
           \A n \in Namespaces : cur[n] <= later[n]
    PROVE  StatesSound(r, later)
<1>1. \A n \in Namespaces : r.from[n] <= later[n]
  BY DEF StatesSound
<1>2. AllTrue(r.states, r.from, later)
  <2> DEFINE same == r.states
             start == r.from
  <2>1. AllTrue(same, start, cur)
    BY DEF StatesSound
  <2> HIDE DEF same, start
  <2>2. AllTrue(same, start, later)
    BY <2>1, TruthStays, Zenon DEF AllTrue
  <2>3. QED
    BY <2>2 DEF same, start
<1>3. QED
  BY <1>1, <1>2 DEF StatesSound

LEMMA LoggedGrows == ASSUME LogGrows, NEW n PROVE Logged(log, n) \subseteq Logged(log', n)
BY DEF LogGrows, Logged

\* Resolving the targets of one namespace.
LEMMA TargetsResolved ==
    ASSUME Shape, NEW w \in Workers, StatesSound(request[w], current), ResolveNamespace(w)
    PROVE  Resolving(request[w], request'[w])
<1> DEFINE r == request[w]
           n == Head(r.todo)
           q == request'[w]
           rest == Tail(r.todo)
           same == r.states
           start == r.from
           states == [t \in DOMAIN same |->
                         IF OwningNamespace(t) = n THEN Resolved(n, t) ELSE same[t]]
<1>1. /\ {"states", "todo"} \subseteq DOMAIN r /\ start \in [Namespaces -> Nat]
      /\ current \in [Namespaces -> Nat]
      /\ \A m \in Namespaces : start[m] <= current[m]
      /\ AllTrue(same, start, current)
  BY DEF StatesSound, Shape, Versions
<1>2. \/ q = [r EXCEPT !.todo = rest, !.states = states]
      \/ q = [r EXCEPT !.todo = rest, !.states = same]
  <2>1. \/ request'[w] = [r EXCEPT !.todo = Tail(@), !.states = states]
        \/ request'[w] = [r EXCEPT !.todo = Tail(@)]
    BY DEF ResolveNamespace, Goes, Shape
  <2>2. QED
    BY <1>1, <2>1
<1> HIDE DEF r, q, n, rest, same, start
<1>3. ASSUME NEW t, OwningNamespace(t) = n
      PROVE  Truth(Resolved(n, t), t, start, current)
  <2>1. CASE n \in Readable /\ current[n] # 0
    <3>1. n \in Namespaces /\ current[n] \in 1 .. current[n] /\ current[n] >= start[n]
      BY <1>1, <2>1, Registers
    <3>2. Resolved(n, t) = Lifecycle(Content[n][current[n]], t)
      BY <2>1 DEF Resolved, CurrentApproved
    <3>3. QED
      BY <1>3, <2>1, <3>1, <3>2 DEF Truth
  <2>2. CASE ~(n \in Readable /\ current[n] # 0)
    BY <2>2 DEF Resolved, CurrentApproved, Truth
  <2>3. QED
    BY <2>1, <2>2
<1>4. AllTrue(states, start, current)
  <2>1. ASSUME NEW t \in DOMAIN same PROVE Truth(states[t], t, start, current)
    <3>1. CASE OwningNamespace(t) = n
      <4>1. states[t] = Resolved(n, t)
        BY <3>1
      <4> HIDE DEF states
      <4>2. QED
        BY <1>3, <3>1, <4>1
    <3>2. CASE OwningNamespace(t) # n
      <4>1. states[t] = same[t]
        BY <3>2
      <4>2. Truth(same[t], t, start, current)
        BY <1>1, Zenon DEF AllTrue
      <4> HIDE DEF states
      <4>3. QED
        BY <4>1, <4>2
    <3>3. QED
      BY <3>1, <3>2
  <2>2. DOMAIN states = DOMAIN same
    OBVIOUS
  <2> HIDE DEF states
  <2>3. QED
    BY <2>1, <2>2, Zenon DEF AllTrue
<1>5. DOMAIN states = DOMAIN same
  OBVIOUS
<1> HIDE DEF states
<1>6. Resolving(r, q)
  BY <1>1, <1>2, <1>4, <1>5 DEF Resolving, same, start
<1>7. QED
  BY <1>6 DEF r, q

LEMMA ListOfOne ==
    ASSUME Shape, NEW w \in Workers, ListSound(request[w], current), ListStep(w)
    PROVE  ListSound(request'[w], current)
<1> DEFINE r == request[w]
           q == request'[w]
<1>1. DOMAIN request = Workers /\ current \in [Namespaces -> Nat]
  BY DEF Shape, Versions
<1>2. ASSUME NEW n \in Namespaces, BeginList(w, n) PROVE ListSound(q, current)
  <2>1. PICK S : q = [kind |-> "list", pc |-> "other", ns |-> n, from |-> current,
                  rows |-> {mappings[i] : i \in S}, sides |-> <<>>,
                  todo |-> <<>>, states |-> <<>>]
    BY <1>1, <1>2 DEF BeginList, Ask
  <2>2. \A m \in Namespaces : current[m] <= current[m]
    BY <1>1
  <2> HIDE DEF q
  <2>3. QED
    BY <1>1, <2>1, <2>2 DEF ListSound, StatesSound, AllTrue
<1>3. ASSUME ReadOther(w) PROVE ListSound(q, current)
  <2> DEFINE states == [t \in {m.key[3] : m \in r.rows} |-> Unknown]
             todo == TargetNamespaces(r.rows)
             sides == [m \in r.rows |-> Compared(m)]
  <2>1. r.kind = "list" /\ q = [r EXCEPT !.pc = "targets", !.todo = todo, !.sides = sides, !.states = states]
    BY <1>1, <1>3 DEF ReadOther, Goes
  <2>2. DOMAIN states = {m.key[3] : m \in r.rows} /\ \A t \in DOMAIN states : states[t] = Unknown
    OBVIOUS
  <2>3. AllTrue(states, r.from, current)
    BY <2>2 DEF AllTrue, Truth
  <2> HIDE DEF q, states, todo, sides
  <2>4. QED
    BY <2>1, <2>2, <2>3 DEF ListSound, StatesSound
<1>4. ASSUME ResolveTargets(w) PROVE ListSound(q, current)
  <2>1. r.kind = "list" /\ r.pc = "targets" /\ StatesSound(r, current) /\ "sides" \in DOMAIN r
    BY <1>4 DEF ResolveTargets, ListSound
  <2>2. PICK todo, states : /\ q = [r EXCEPT !.todo = todo, !.states = states]
                            /\ DOMAIN states = DOMAIN r.states
                            /\ AllTrue(states, r.from, current)
    BY <1>4, <2>1, TargetsResolved DEF ResolveTargets, Resolving
  <2> HIDE DEF q, r
  <2>3. QED
    BY <2>1, <2>2 DEF ListSound, StatesSound
<1>5. ASSUME AnswerList(w) PROVE ListSound(q, current)
  <2>1. r.kind = "list" /\ r.pc = "targets" /\ q = [r EXCEPT !.pc = "answered"]
        /\ ListSound(r, current)
    BY <1>1, <1>5 DEF AnswerList, Answers, Goes
  <2> HIDE DEF q, r
  <2>2. QED
    BY <2>1 DEF ListSound, StatesSound
<1>6. QED
  BY <1>2, <1>3, <1>4, <1>5 DEF ListStep

-----------------------------------------------------------------------------
\* The health of one namespace.
LEMMA AmongTells ==
    ASSUME NEW terms, terms = Unmeasured \/ terms \in SUBSET Terms, NEW S
    PROVE  /\ terms = Unmeasured <=> Among(terms, S) = Unmeasured
           /\ terms # Unmeasured => Among(terms, S) = terms \cap S
<1>1. CASE terms = Unmeasured
  BY <1>1 DEF Among
<1>2. CASE terms # Unmeasured
  <2>1. Among(terms, S) = terms \cap S /\ terms \cap S \in SUBSET Terms
    BY <1>2 DEF Among
  <2>2. QED
    BY <1>2, <2>1, Vocabularies DEF Unmeasured
<1>3. QED
  BY <1>1, <1>2

LEMMA CountedLogged ==
    ASSUME CountsMatch, NEW n \in Namespaces, NEW t \in Terms, counts[<<n, t>>] # 0
    PROVE  t \in Logged(log, n)
<1>1. Counting(n, t) # {}
  <2>1. counts[<<n, t>>] = Cardinality(Counting(n, t))
    BY DEF CountsMatch, Counting, Mentions
  <2>2. QED
    BY <2>1, FS_EmptySet
<1>2. QED
  BY <1>1 DEF Counting, Mentions, Logged

LEMMA HealthOfOne ==
    ASSUME ReportsInv, NEW w \in Workers, ReportStep(w)
    PROVE  HealthSound(request'[w], current, Logged(log, request'[w].ns))
<1> DEFINE r == request[w]
           q == request'[w]
           logged == Logged(log, r.ns)
           Sound(x) == HealthSound(x, current, Logged(log, x.ns))
<1>1. DOMAIN request = Workers /\ current \in [Namespaces -> Nat] /\ Shape /\ CountsMatch
  BY DEF ReportsInv, AccessInv, Shape, Versions
<1>2. r.kind = "health" => HealthSound(r, current, logged)
  BY DEF ReportsInv, ReportsSound
<1>3. ASSUME NEW n \in Namespaces, BeginHealth(w, n) PROVE Sound(q)
  <2>1. q = [kind |-> "health", pc |-> "terms", ns |-> n, version |-> current[n],
               terms |-> Unmeasured, unreferenced |-> Unmeasured, ownerless |-> Unmeasured,
               from |-> current, rows |-> {}, disputed |-> 0, todo |-> <<>>, states |-> <<>>]
    BY <1>1, <1>3 DEF BeginHealth, Ask, CurrentApproved
  <2>2. \A m \in Namespaces : current[m] <= current[m]
    BY <1>1
  <2> HIDE DEF q
  <2>3. AllTrue(q.states, q.from, current)
    BY <2>1 DEF AllTrue
  <2>4. QED
    BY <1>1, <2>1, <2>2, <2>3 DEF HealthSound, StatesSound, Later
<1>4. ASSUME ReadTerms(w) PROVE Sound(q)
  <2> DEFINE terms == IF r.version = 0 THEN {}
                      ELSE DOMAIN Content[r.ns][r.version] \cap Under[r.ns]
  <2>1. /\ r.kind = "health" /\ r.pc = "terms"
        /\ q = [r EXCEPT !.pc = "access", !.terms = terms] \/ q = [r EXCEPT !.pc = "access"]
    BY <1>1, <1>4 DEF ReadTerms, Goes
  <2>2. terms \in SUBSET Terms
    <3>1. r.ns \in Namespaces
      BY <1>2, <2>1 DEF HealthSound
    <3>2. QED
      BY <3>1, Vocabularies
  <2>3. HealthSound(r, current, logged)
    BY <1>2, <2>1
  <2> HIDE DEF q, r, terms
  <2>4. q.ns = r.ns
    BY <2>1, <2>3 DEF HealthSound, StatesSound
  <2>5. QED
    BY <2>1, <2>2, <2>3, <2>4 DEF HealthSound, StatesSound, Later
<1>5. ASSUME ReadStatistics(w) PROVE Sound(q)
  <2> DEFINE S == {t \in Terms : counts[<<r.ns, t>>] = 0}
             unreferenced == Among(r.terms, S)
  <2>1. /\ r.kind = "health" /\ r.pc = "access"
        /\ q = [r EXCEPT !.pc = "owners", !.unreferenced = unreferenced]
    BY <1>1, <1>5 DEF ReadStatistics, Goes
  <2>2. HealthSound(r, current, logged)
    BY <1>2, <2>1
  <2>3. r.terms = Unmeasured \/ r.terms \in SUBSET Terms
    BY <2>1, <2>2 DEF HealthSound
  <2>4. /\ r.terms = Unmeasured <=> unreferenced = Unmeasured
        /\ r.terms # Unmeasured => unreferenced = r.terms \cap S
    BY <2>3, AmongTells
  <2>5. r.terms # Unmeasured => r.terms \ unreferenced \subseteq logged
    <3>1. r.ns \in Namespaces
      BY <2>1, <2>2 DEF HealthSound
    <3>2. \A t \in Terms : t \notin S => t \in logged
      BY <1>1, <3>1, CountedLogged
    <3> HIDE DEF S, unreferenced, logged
    <3>3. QED
      BY <2>3, <2>4, <3>2
  <2> HIDE DEF q, r, unreferenced
  <2>6. q.ns = r.ns
    BY <2>1
  <2>7. QED
    BY <2>1, <2>2, <2>4, <2>5, <2>6 DEF HealthSound, StatesSound, Later
<1>6. ASSUME ReadOwners(w) PROVE Sound(q)
  <2> DEFINE owned == {t \in Terms : RowsAt(owners, <<r.ns, t>>) # {}}
             ownerless == Among(r.terms, Terms \ owned)
  <2>1. /\ r.kind = "health" /\ r.pc = "owners"
        /\ q = [r EXCEPT !.pc = "mappings", !.ownerless = ownerless]
    BY <1>1, <1>6 DEF ReadOwners, Goes
  <2>2. HealthSound(r, current, logged)
    BY <1>2, <2>1
  <2>3. r.terms = Unmeasured \/ r.terms \in SUBSET Terms
    BY <2>1, <2>2 DEF HealthSound
  <2>4. r.terms = Unmeasured <=> ownerless = Unmeasured
    BY <2>3, AmongTells
  <2> HIDE DEF q, r, ownerless
  <2>5. q.ns = r.ns
    BY <2>1
  <2>6. QED
    BY <2>1, <2>2, <2>4, <2>5 DEF HealthSound, StatesSound, Later
<1>7. ASSUME ReadMappings(w) PROVE Sound(q)
  <2> DEFINE rows == {mappings[i] : i \in Outgoing(r.ns)}
             states == [t \in {m.key[3] : m \in rows} |-> Unknown]
  <2>1. /\ r.kind = "health" /\ r.pc = "mappings"
        /\ q = [r EXCEPT !.pc = "other", !.rows = rows, !.states = states]
    BY <1>1, <1>7 DEF ReadMappings, Goes
  <2>2. HealthSound(r, current, logged)
    BY <1>2, <2>1
  <2>3. DOMAIN states = {m.key[3] : m \in rows} /\ \A t \in DOMAIN states : states[t] = Unknown
    OBVIOUS
  <2> HIDE DEF q, r, rows, states
  <2>4. AllTrue(states, r.from, current)
    BY <2>3 DEF AllTrue, Truth
  <2>5. q.ns = r.ns
    BY <2>1
  <2>6. QED
    BY <2>1, <2>2, <2>3, <2>4, <2>5 DEF HealthSound, StatesSound, Later
<1>8. ASSUME CountDisputed(w) PROVE Sound(q)
  <2> DEFINE todo == TargetNamespaces(r.rows)
             disputed == Cardinality({m \in r.rows : Compared(m).disputed})
  <2>1. /\ r.kind = "health" /\ r.pc = "other"
        /\ q = [r EXCEPT !.pc = "targets", !.todo = todo, !.disputed = disputed]
    BY <1>1, <1>8 DEF CountDisputed, Goes
  <2>2. HealthSound(r, current, logged)
    BY <1>2, <2>1
  <2> HIDE DEF q, r, todo, disputed
  <2>3. q.ns = r.ns
    BY <2>1
  <2>4. QED
    BY <2>1, <2>2, <2>3 DEF HealthSound, StatesSound, Later
<1>9. ASSUME CountTargets(w) PROVE Sound(q)
  <2>1. r.kind = "health" /\ r.pc = "targets" /\ HealthSound(r, current, logged)
    BY <1>2, <1>9 DEF CountTargets
  <2>2. StatesSound(r, current)
    BY <2>1 DEF HealthSound
  <2>3. PICK todo, states : /\ q = [r EXCEPT !.todo = todo, !.states = states]
                            /\ DOMAIN states = DOMAIN r.states
                            /\ AllTrue(states, r.from, current)
    BY <1>1, <1>9, <2>2, TargetsResolved DEF CountTargets, Resolving
  <2> HIDE DEF q, r
  <2>4. q.ns = r.ns
    BY <2>3
  <2>5. QED
    BY <2>1, <2>3, <2>4 DEF HealthSound, StatesSound, Later
<1>10. ASSUME AnswerHealth(w) PROVE Sound(q)
  <2>1. /\ r.kind = "health" /\ r.pc = "targets" /\ q = [r EXCEPT !.pc = "answered"]
        /\ HealthSound(r, current, logged)
    BY <1>1, <1>2, <1>10 DEF AnswerHealth, Answers, Goes
  <2> HIDE DEF q, r
  <2>2. q.ns = r.ns
    BY <2>1
  <2>3. QED
    BY <2>1, <2>2 DEF HealthSound, StatesSound, Later
<1>11. QED
  BY <1>3, <1>4, <1>5, <1>6, <1>7, <1>8, <1>9, <1>10 DEF ReportStep

-----------------------------------------------------------------------------
LEMMA ReportStays ==
    ASSUME NEW r, NEW cur, NEW later, NEW logged, NEW more, HealthSound(r, cur, logged),
           logged \subseteq more,
           cur \in [Namespaces -> Nat], later \in [Namespaces -> Nat],
           \A n \in Namespaces : cur[n] <= later[n]
    PROVE  HealthSound(r, later, more)
<1>1. r.kind = "health" => StatesSound(r, later)
  BY StatesStay DEF HealthSound
<1>2. QED
  BY <1>1 DEF HealthSound

LEMMA ReportsKept == ASSUME ReportsInv, [Next]_vars PROVE ReportsInv'
<1>1. Shape /\ AccessInv /\ AccessInv' /\ LogGrows
  BY AccessKept, LogKept DEF ReportsInv, AccessInv
<1>2. /\ current \in [Namespaces -> Nat] /\ current' \in [Namespaces -> Nat]
      /\ \A n \in Namespaces : current[n] <= current'[n]
  BY <1>1, AlwaysGrows DEF Shape, Versions, Grows
<1>3. ASSUME NEW w \in Workers
      PROVE  ListSound(request'[w], current) /\ HealthSound(request'[w], current, Logged(log, request'[w].ns))
  <2>1. CASE request'[w] = request[w]
    BY <2>1 DEF ReportsInv, ReportsSound
  <2>2. CASE request'[w].kind \notin {"list", "health"}
    BY <2>2 DEF ListSound, HealthSound
  <2>3. CASE request'[w] # request[w] /\ request'[w].kind = "list"
    <3>1. ListStep(w)
      BY <1>1, <2>3, Movers DEF KnownStep, Idle
    <3>2. ListSound(request'[w], current)
      BY <1>1, <3>1, ListOfOne DEF ReportsInv, ReportsSound
    <3>3. QED
      BY <2>3, <3>2 DEF HealthSound
  <2>4. CASE request'[w] # request[w] /\ request'[w].kind = "health"
    <3>1. ReportStep(w)
      BY <1>1, <2>4, Movers DEF KnownStep, Idle
    <3>2. HealthSound(request'[w], current, Logged(log, request'[w].ns))
      BY <3>1, HealthOfOne
    <3>3. QED
      BY <2>4, <3>2 DEF ListSound
  <2>5. QED
    BY <2>1, <2>2, <2>3, <2>4
<1>4. ASSUME NEW w \in Workers PROVE ListSound(request'[w], current')
  <2> DEFINE r == request'[w]
  <2>1. ListSound(r, current)
    BY <1>3
  <2> HIDE DEF r
  <2>2. r.kind = "list" => StatesSound(r, current')
    BY <1>2, <2>1, StatesStay DEF ListSound
  <2>3. ListSound(r, current')
    BY <2>1, <2>2 DEF ListSound
  <2>4. QED
    BY <2>3 DEF r
<1>5. ASSUME NEW w \in Workers PROVE HealthSound(request'[w], current', Logged(log', request'[w].ns))
  <2> DEFINE r == request'[w]
             n == request'[w].ns
  <2>1. HealthSound(r, current, Logged(log, n))
    BY <1>3
  <2> HIDE DEF r, n
  <2>2. Logged(log, n) \subseteq Logged(log', n)
    BY <1>1, LoggedGrows
  <2>3. HealthSound(r, current', Logged(log', n))
    BY <1>2, <2>1, <2>2, ReportStays
  <2>4. QED
    BY <2>3 DEF r, n
<1>6. ReportsSound'
  BY <1>4, <1>5 DEF ReportsSound
<1>7. QED
  BY <1>1, <1>6 DEF ReportsInv

LEMMA ListsAreTruthful == ASSUME ReportsSound PROVE ListTruthful
<1> SUFFICES ASSUME NEW w \in Workers, request[w].kind = "list", request[w].pc = "answered",
                    NEW t \in {m.key[3] : m \in request[w].rows}, request[w].states[t] # Unknown
             PROVE  \E n \in Readable :
                       /\ t \in Under[n]
                       /\ \A m \in Namespaces : t \in Under[m] => BaseLength[m] <= BaseLength[n]
                       /\ \E v \in 1 .. current[n] :
                             /\ v >= request[w].from[n]
                             /\ request[w].states[t] = Lifecycle(Content[n][v], t)
  BY DEF ListTruthful
<1>1. t \in DOMAIN request[w].states /\ AllTrue(request[w].states, request[w].from, current)
  BY DEF ReportsSound, ListSound, StatesSound
<1>2. Truth(request[w].states[t], t, request[w].from, current)
  BY <1>1 DEF AllTrue
<1>3. OwningNamespace(t) \in Readable /\ OwningNamespace(t) \in Namespaces
  BY <1>2, Registers DEF Truth
<1>4. QED
  BY <1>2, <1>3, LongestOwner DEF Truth

LEMMA HealthIsTruthful == ASSUME ReportsSound PROVE HealthTruthful
<1> SUFFICES ASSUME NEW w \in Workers, request[w].kind = "health", request[w].pc = "answered"
             PROVE  LET r == request[w]
                    IN  /\ r.version = r.from[r.ns]
                        /\ r.terms = Unmeasured <=> r.unreferenced = Unmeasured
                        /\ r.terms = Unmeasured <=> r.ownerless = Unmeasured
                        /\ r.terms # Unmeasured =>
                              \A t \in r.terms \ r.unreferenced :
                                 \E i \in DOMAIN log : log[i].ns = r.ns
                                       /\ \E k \in DOMAIN log[i].terms : log[i].terms[k] = t
                        /\ \A m \in DeprecatedTargets(r) :
                              \E n \in Readable : \E v \in 1 .. current[n] :
                                 v >= r.from[n] /\ m.key[3] \in DeprecatedIn(Content[n][v])
  BY Zenon DEF HealthTruthful
<1> DEFINE r == request[w]
<1>1. HealthSound(r, current, Logged(log, r.ns))
  BY DEF ReportsSound
<1>2. /\ r.version = r.from[r.ns]
      /\ r.terms = Unmeasured <=> r.unreferenced = Unmeasured
      /\ r.terms = Unmeasured <=> r.ownerless = Unmeasured
      /\ r.terms # Unmeasured => r.terms \ r.unreferenced \subseteq Logged(log, r.ns)
      /\ DOMAIN r.states = {m.key[3] : m \in r.rows}
      /\ AllTrue(r.states, r.from, current)
  BY <1>1 DEF HealthSound, StatesSound, Later
<1>3. ASSUME NEW m \in DeprecatedTargets(r)
      PROVE  \E n \in Readable : \E v \in 1 .. current[n] :
                v >= r.from[n] /\ m.key[3] \in DeprecatedIn(Content[n][v])
  <2> DEFINE t == m.key[3]
             said == r.states[t]
             n == OwningNamespace(t)
  <2>1. t \in DOMAIN r.states /\ said.status = "deprecated"
    BY <1>2 DEF DeprecatedTargets
  <2>2. Truth(said, t, r.from, current)
    BY <1>2, <2>1 DEF AllTrue
  <2> HIDE DEF said, t
  <2>3. said # Unknown
    BY <2>1 DEF Unknown
  <2>4. PICK v \in 1 .. current[n] : v >= r.from[n] /\ said = Lifecycle(Content[n][v], t)
    BY <2>2, <2>3 DEF Truth
  <2>5. t \in DeprecatedIn(Content[n][v])
    BY <2>1, <2>4 DEF Lifecycle, Absent, Active, DeprecatedIn
  <2>6. n \in Readable
    BY <2>2, <2>3 DEF Truth
  <2> HIDE DEF n
  <2>7. QED
    BY <2>4, <2>5, <2>6 DEF t
<1>4. ASSUME NEW t \in r.terms \ r.unreferenced, r.terms # Unmeasured
      PROVE  \E i \in DOMAIN log : log[i].ns = r.ns
                /\ \E k \in DOMAIN log[i].terms : log[i].terms[k] = t
  BY <1>2, <1>4 DEF Logged
<1>5. /\ r.version = r.from[r.ns]
      /\ r.terms = Unmeasured <=> r.unreferenced = Unmeasured
      /\ r.terms = Unmeasured <=> r.ownerless = Unmeasured
  BY <1>2
<1> HIDE DEF r
<1>6. QED
  BY <1>3, <1>4, <1>5 DEF r

\* Nothing a list of mappings or a report of health says was untrue of every
\* version approved while it was made: what is read of one namespace after the
\* other stays true of some version, for current versions only grow, and a term
\* that is called referenced was in a recorded answer, for counts and log agree
\* (resolve_target_lifecycles, measure of services/health.py).
THEOREM ReportsAlwaysTruthful == Spec => []ReportsTruthful
<1>1. Init => ReportsInv
  BY ReportsAtFirst
<1>2. ReportsInv /\ [Next]_vars => ReportsInv'
  BY ReportsKept
<1>3. ReportsInv => ReportsTruthful
  BY ListsAreTruthful, HealthIsTruthful DEF ReportsInv, ReportsTruthful
<1>4. QED
  BY <1>1, <1>2, <1>3, PTL DEF Spec
=============================================================================
