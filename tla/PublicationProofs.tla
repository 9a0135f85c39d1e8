-------------------------- MODULE PublicationProofs --------------------------
(***************************************************************************)
(* Publication.tla is correct for any number of requests, documents and    *)
(* labels.  The inductive invariant is the conjunction of the type         *)
(* invariant, KnowledgeHolds (what the holder of the row lock read is      *)
(* still so) and the four safety properties, which are not inductive       *)
(* without it: each step that ends a transaction acts on what an earlier   *)
(* step of the same transaction read.                                      *)
(***************************************************************************)
EXTENDS Publication, TLAPS

IInv == /\ TypeOK
        /\ KnowledgeHolds
        /\ NoOrphanedTTL
        /\ RecordedHasTTL
        /\ ContentPublishedOnce
        /\ LineageTruthful

\* The latest version is a label, or None in a namespace without versions.
LEMMA LatestType ==
    ASSUME rows \in Seq(Row)
    PROVE  /\ Latest \in Labels \cup {NoVersion}
           /\ Latest = NoVersion <=> rows = <<>>
<1>1. CASE rows = <<>>
  BY <1>1 DEF Latest
<1>2. CASE rows # <<>>
  <2>1. Len(rows) \in DOMAIN rows
    BY <1>2
  <2>2. rows[Len(rows)] \in Row
    BY <2>1
  <2> QED
    BY <1>2, <2>2, Constants DEF Constants, Latest, Row
<1> QED
  BY <1>1, <1>2

\* Automatic numbering gives a label whenever it is not refused.
LEMMA ResolvedType ==
    ASSUME rows \in Seq(Row), NEW r \in Request, ~Invalid(r)
    PROVE  Resolved(r) \in Labels
<1>1. CASE r.version # Automatic
  BY <1>1, Constants DEF Constants, Resolved, Request
<1>2. CASE r.version = Automatic
  <2>1. CASE Latest = NoVersion
    BY <1>2, <2>1 DEF Resolved, NextVersion, Labels, Numbered
  <2>2. CASE Latest # NoVersion
    <3>1. Latest \in Numbered
      BY <1>2, <2>2, LatestType DEF Invalid, Labels
    <3>2. <<Latest[1], Latest[2] + 1, 0>> \in Numbered
      BY <3>1 DEF Numbered
    <3> QED
      BY <1>2, <2>2, <3>2 DEF Resolved, NextVersion, Labels
  <2> QED
    BY <2>1, <2>2
<1> QED
  BY <1>1, <1>2

-----------------------------------------------------------------------------
(* Type correctness.  It needs KnowledgeHolds: only there is it said that  *)
(* a request in "put" has a request and a job to speak of.                 *)

LEMMA AnswerType ==
    ASSUME TypeOK, NEW w \in Workers, NEW a \in Resting, Answer(w, a)
    PROVE  /\ pc' \in [Workers -> Resting \cup Waiting \cup Holding]
           /\ req' \in [Workers -> Request \cup {NoRequest}]
           /\ job' \in [Workers -> Job \cup {NoJob}]
BY DEF TypeOK, Answer

LEMMA UploadType ==
    ASSUME TypeOK, NEW v \in Labels, NEW c \in Contents
    PROVE  /\ DOMAIN Upload(v, c) \subseteq Labels
           /\ \A x \in DOMAIN Upload(v, c) : Upload(v, c)[x] \in Contents
BY DEF TypeOK, Upload

LEMMA TypeStep == TypeOK /\ KnowledgeHolds /\ [Next]_vars => TypeOK'
<1> SUFFICES ASSUME TypeOK, KnowledgeHolds, [Next]_vars
             PROVE  TypeOK'
  OBVIOUS
<1> USE DEF Resting, Answers, Waiting, Holding
<1>1. CASE UNCHANGED vars
  BY <1>1 DEF TypeOK, vars
<1>2. ASSUME NEW w \in Workers, BeginPublish(w) \/ Begin(w)
      PROVE  TypeOK'
  <2>1. CASE BeginPublish(w)
    <3>1. Taken \subseteq Labels
      <4>1. \A i \in DOMAIN rows : rows[i] \in Row
        BY DEF TypeOK
      <4> QED
        BY <4>1 DEF Taken, Row
    <3>2. req' \in [Workers -> Request \cup {NoRequest}]
      BY <2>1, <3>1 DEF BeginPublish, TypeOK, Request
    <3> QED
      BY <2>1, <3>2 DEF BeginPublish, TypeOK
  <2>2. CASE Begin(w)
    BY <2>2 DEF Begin, TypeOK
  <2> QED
    BY <1>2, <2>1, <2>2
<1>3. ASSUME NEW w \in Workers,
             \/ CreateNamespace(w) \/ PublishRefused(w) \/ PublishReused(w)
             \/ PublishConflict(w) \/ PublishInvalid(w) \/ Retire(w)
             \/ Unretire(w) \/ DeleteUnknown(w) \/ Crash(w)
             \/ DeleteRefused(w) \/ RecordTaken(w)
      PROVE  TypeOK'
  <2>1. /\ rows' = rows /\ blob' = blob
        /\ row' \in {"absent", "active", "retired"}
        /\ lock' \in Workers \cup {Nobody}
        /\ \E a \in Resting : Answer(w, a)
    BY <1>3 DEF CreateNamespace, PublishRefused, PublishReused,
                PublishConflict, PublishInvalid, Retire, Unretire,
                DeleteUnknown, Crash, DeleteRefused, RecordTaken, Release,
                TypeOK
  <2> QED
    BY <2>1, AnswerType DEF TypeOK
<1>4. ASSUME NEW w \in Workers, PublishPlanned(w)
      PROVE  TypeOK'
  <2>1. req[w] \in Request
    BY <1>4 DEF PublishPlanned, Turn, KnowledgeHolds, Knows
  <2>2. Resolved(req[w]) \in Labels
    BY <1>4, <2>1, ResolvedType DEF PublishPlanned, TypeOK
  <2>3. Resolve(req[w]) \in Job
    BY <2>1, <2>2 DEF Resolve, Job, Request
  <2> QED
    BY <1>4, <2>3 DEF PublishPlanned, TypeOK
<1>5. ASSUME NEW w \in Workers, PutVersion(w) \/ PutFails(w)
      PROVE  TypeOK'
  <2>1. job[w].version \in Labels /\ req[w].content \in Contents
    BY <1>5 DEF PutVersion, PutFails, KnowledgeHolds, Knows, Job, Request
  <2> DEFINE uploaded == Upload(job[w].version, req[w].content)
  <2>2. /\ DOMAIN uploaded \subseteq Labels
        /\ \A x \in DOMAIN uploaded : uploaded[x] \in Contents
    BY <2>1, UploadType
  <2>3. blob' = uploaded \/ blob' = blob
    BY <1>5 DEF PutVersion, PutFails
  <2> HIDE DEF uploaded
  <2>4. /\ DOMAIN blob' \subseteq Labels
        /\ \A x \in DOMAIN blob' : blob'[x] \in Contents
    BY <2>2, <2>3 DEF TypeOK
  <2>5. CASE PutVersion(w)
    BY <2>4, <2>5 DEF PutVersion, TypeOK
  <2>6. CASE PutFails(w)
    BY <2>4, <2>6, AnswerType DEF PutFails, Release, TypeOK
  <2> QED
    BY <1>5, <2>5, <2>6
<1>6. ASSUME NEW w \in Workers, RecordCreated(w)
      PROVE  TypeOK'
  <2>1. [version |-> job[w].version, content |-> req[w].content,
         editedFrom |-> job[w].editedFrom, recorded |-> job[w].recorded] \in Row
    BY <1>6 DEF RecordCreated, KnowledgeHolds, Knows, Job, Request, Row
  <2>2. rows' \in Seq(Row)
    BY <1>6, <2>1 DEF RecordCreated, TypeOK
  <2> QED
    BY <1>6, <2>2, AnswerType DEF RecordCreated, Release, TypeOK
<1>7. ASSUME NEW w \in Workers, DeleteLocks(w) \/ ListEmpty(w)
      PROVE  TypeOK'
  BY <1>7 DEF DeleteLocks, ListEmpty, TypeOK
<1>8. ASSUME NEW w \in Workers, DropNamespace(w)
      PROVE  TypeOK'
  <2>1. rows' \in Seq(Row)
    BY <1>8 DEF DropNamespace
  <2> QED
    BY <1>8, <2>1, AnswerType DEF DropNamespace, Release, TypeOK
<1> QED
  BY <1>1, <1>2, <1>3, <1>4, <1>5, <1>6, <1>7, <1>8
     DEF Next, Step, Acquire, Proceed

-----------------------------------------------------------------------------
(* What the holder of the lock knows stays so.                             *)

\* A request that takes no step keeps its knowledge if nothing it could have
\* read changes, or if it does not hold the lock.
LEMMA Bystander ==
    ASSUME KnowledgeHolds, NEW w \in Workers, NEW v \in Workers, v # w,
           pc'[v] = pc[v], req'[v] = req[v], job'[v] = job[v],
           \/ lock \in {w, Nobody}
           \/ UNCHANGED <<row, rows, blob, lock>>
    PROVE  Knows(v)'
<1>1. CASE lock \in {w, Nobody}
  <2>1. pc[v] \notin Holding
    BY <1>1, Constants DEF Constants, KnowledgeHolds, Knows
  <2> QED
    BY <2>1 DEF KnowledgeHolds, Knows, Holding
<1>2. CASE UNCHANGED <<row, rows, blob, lock>>
  BY <1>2 DEF KnowledgeHolds, Knows, Latest, Published
<1> QED
  BY <1>1, <1>2

\* After its answer a request claims to know nothing.
LEMMA Answered ==
    ASSUME TypeOK, NEW w \in Workers, NEW a \in Resting, Answer(w, a)
    PROVE  /\ Knows(w)'
           /\ \A v \in Workers \ {w} :
                  pc'[v] = pc[v] /\ req'[v] = req[v] /\ job'[v] = job[v]
BY DEF TypeOK, Answer, Knows, Resting, Answers, Holding

LEMMA KnowledgeStep == TypeOK /\ KnowledgeHolds /\ [Next]_vars => KnowledgeHolds'
<1> SUFFICES ASSUME TypeOK, KnowledgeHolds, [Next]_vars
             PROVE  KnowledgeHolds'
  OBVIOUS
<1>1. CASE UNCHANGED vars
  BY <1>1 DEF KnowledgeHolds, Knows, vars, Latest, Published
<1>2. ASSUME NEW w \in Workers, BeginPublish(w) \/ Begin(w)
      PROVE  KnowledgeHolds'
  <2>1. /\ UNCHANGED <<row, rows, blob, lock>>
        /\ \A v \in Workers \ {w} :
               pc'[v] = pc[v] /\ req'[v] = req[v] /\ job'[v] = job[v]
        /\ pc'[w] \in Waiting
    BY <1>2 DEF BeginPublish, Begin, TypeOK, Waiting
  <2>2. pc'[w] = "publish" => req'[w] \in Request
    <3>1. \A i \in DOMAIN rows : rows[i] \in Row
      BY DEF TypeOK
    <3>2. Taken \subseteq Labels
      BY <3>1 DEF Taken, Row
    <3> QED
      BY <1>2, <3>2 DEF BeginPublish, Begin, Request, TypeOK, Waiting
  <2>3. Knows(w)'
    BY <2>1, <2>2 DEF Knows, Waiting, Holding
  <2> QED
    BY <2>1, <2>3, Bystander DEF KnowledgeHolds
\* The steps that answer under the lock, without it, or by dying.
<1>3. ASSUME NEW w \in Workers,
             \/ PublishRefused(w) \/ PublishReused(w) \/ PublishConflict(w)
             \/ PublishInvalid(w) \/ Retire(w) \/ Unretire(w)
             \/ DeleteUnknown(w) \/ PutFails(w) \/ RecordTaken(w)
             \/ RecordCreated(w) \/ DeleteRefused(w) \/ DropNamespace(w)
      PROVE  KnowledgeHolds'
  <2>1. \E a \in Resting : Answer(w, a)
    BY <1>3 DEF PublishRefused, PublishReused, PublishConflict,
                PublishInvalid, Retire, Unretire, DeleteUnknown, PutFails,
                RecordTaken, RecordCreated, DeleteRefused, DropNamespace,
                Resting, Answers
  <2>2. lock \in {w, Nobody}
    BY <1>3 DEF PublishRefused, PublishReused, PublishConflict,
                PublishInvalid, Retire, Unretire, DeleteUnknown, PutFails,
                RecordTaken, RecordCreated, DeleteRefused, DropNamespace,
                Turn, KnowledgeHolds, Knows, Holding
  <2> QED
    BY <2>1, <2>2, Answered, Bystander DEF KnowledgeHolds
<1>4. ASSUME NEW w \in Workers, CreateNamespace(w)
      PROVE  KnowledgeHolds'
  <2>1. \E a \in Resting : Answer(w, a)
    BY <1>4 DEF CreateNamespace, Resting, Answers
  <2>2. ASSUME NEW v \in Workers, v # w
        PROVE  Knows(v)'
    <3>1. pc'[v] = pc[v] /\ req'[v] = req[v] /\ job'[v] = job[v]
      BY <2>1, <2>2, Answered
    <3>2. CASE pc[v] \in Holding
      <4>1. UNCHANGED <<row, rows, blob, lock>>
        BY <1>4, <3>2 DEF CreateNamespace, KnowledgeHolds, Knows
      <4> QED
        BY <2>2, <3>1, <4>1, Bystander
    <3>3. CASE pc[v] \notin Holding
      BY <3>1, <3>3 DEF KnowledgeHolds, Knows, Holding
    <3> QED
      BY <3>2, <3>3
  <2> QED
    BY <2>1, <2>2, Answered DEF KnowledgeHolds
<1>5. ASSUME NEW w \in Workers, Crash(w)
      PROVE  KnowledgeHolds'
  <2>1. Answer(w, "idle") /\ "idle" \in Resting
    BY <1>5 DEF Crash, Resting
  <2>2. lock \in {w, Nobody} \/ UNCHANGED <<row, rows, blob, lock>>
    BY <1>5 DEF Crash
  <2> QED
    BY <2>1, <2>2, Answered, Bystander DEF KnowledgeHolds
<1>6. ASSUME NEW w \in Workers, PublishPlanned(w) \/ DeleteLocks(w)
      PROVE  KnowledgeHolds'
  <2>1. /\ lock = Nobody
        /\ \A v \in Workers \ {w} :
               pc'[v] = pc[v] /\ req'[v] = req[v] /\ job'[v] = job[v]
    BY <1>6 DEF PublishPlanned, DeleteLocks, Turn, TypeOK
  <2>2. CASE DeleteLocks(w)
    <3>1. Knows(w)'
      BY <2>2 DEF DeleteLocks, Knows, Holding, TypeOK
    <3> QED
      BY <2>1, <3>1, Bystander DEF KnowledgeHolds
  <2>3. CASE PublishPlanned(w)
    <3>1. req[w] \in Request
      BY <2>3 DEF PublishPlanned, Turn, KnowledgeHolds, Knows
    <3>2. Resolved(req[w]) \in Labels
      BY <2>3, <3>1, ResolvedType DEF PublishPlanned, TypeOK
    <3>3. Resolve(req[w]) \in Job
      BY <3>1, <3>2 DEF Resolve, Job, Request
    <3>4. Resolve(req[w]).recorded => Resolve(req[w]).editedFrom = Latest
      BY <2>3 DEF PublishPlanned, Stale, Resolve
    <3>5. /\ pc'[w] = "put" /\ lock' = w /\ row' = "active"
          /\ req'[w] = req[w] /\ job'[w] = Resolve(req[w])
          /\ Latest' = Latest /\ Published' = Published
          /\ req[w].content \notin Published
      BY <2>3 DEF PublishPlanned, TypeOK, Latest, Published
    <3>6. Knows(w)'
      BY <3>1, <3>3, <3>4, <3>5 DEF Knows, Holding
    <3> QED
      BY <2>1, <3>6, Bystander DEF KnowledgeHolds
  <2> QED
    BY <1>6, <2>2, <2>3
<1>7. ASSUME NEW w \in Workers, PutVersion(w) \/ ListEmpty(w)
      PROVE  KnowledgeHolds'
  <2>1. /\ lock = w
        /\ \A v \in Workers \ {w} :
               pc'[v] = pc[v] /\ req'[v] = req[v] /\ job'[v] = job[v]
    BY <1>7 DEF PutVersion, ListEmpty, TypeOK, KnowledgeHolds, Knows, Holding
  <2>2. CASE PutVersion(w)
    <3>1. job[w].version \in DOMAIN blob'
      BY <2>2 DEF PutVersion, Upload
    <3>2. /\ pc'[w] = "record" /\ lock' = w /\ row' = "active"
          /\ req'[w] = req[w] /\ job'[w] = job[w]
          /\ Latest' = Latest /\ Published' = Published
      BY <2>1, <2>2 DEF PutVersion, TypeOK, Latest, Published, KnowledgeHolds,
                        Knows
    <3>3. Knows(w)'
      BY <2>2, <3>1, <3>2 DEF PutVersion, KnowledgeHolds, Knows, Holding
    <3> QED
      BY <2>1, <3>3, Bystander DEF KnowledgeHolds
  <2>3. CASE ListEmpty(w)
    <3>1. Knows(w)'
      BY <2>1, <2>3 DEF ListEmpty, KnowledgeHolds, Knows, Holding, TypeOK
    <3> QED
      BY <2>1, <3>1, Bystander DEF KnowledgeHolds
  <2> QED
    BY <1>7, <2>2, <2>3
<1> QED
  BY <1>1, <1>2, <1>3, <1>4, <1>5, <1>6, <1>7
     DEF Next, Step, Acquire, Proceed

-----------------------------------------------------------------------------
(* The safety properties.                                                  *)

\* The files and the rows, step by step: who may change them, and how.
LEMMA RecordsChange ==
    ASSUME TypeOK, KnowledgeHolds, [Next]_vars
    PROVE  \/ UNCHANGED <<row, rows, blob>>
           \* a namespace is created, retired or brought back
           \/ /\ UNCHANGED <<rows, blob>>
              /\ <<row, row'>> \in {<<"absent", "active">>,
                                    <<"active", "retired">>,
                                    <<"retired", "active">>}
           \* a file is stored
           \/ /\ UNCHANGED <<row, rows>>
              /\ row = "active"
              /\ \E v \in Labels, c \in Contents : blob' = Upload(v, c)
           \* a version is recorded
           \/ /\ UNCHANGED <<row, blob>>
              /\ row = "active"
              /\ \E r \in Row : /\ rows' = Append(rows, r)
                                /\ r.version \in DOMAIN blob \ Taken
                                /\ r.content \notin Published
                                /\ r.recorded => r.editedFrom = Latest
           \* a namespace without files is deleted
           \/ /\ UNCHANGED blob
              /\ row # "absent" /\ row' = "absent"
              /\ DOMAIN blob = {} /\ rows' = <<>>
<1>1. CASE UNCHANGED vars
  BY <1>1 DEF vars
<1>2. ASSUME NEW w \in Workers,
             \/ BeginPublish(w) \/ Begin(w) \/ PublishRefused(w)
             \/ PublishReused(w) \/ PublishConflict(w) \/ PublishInvalid(w)
             \/ PublishPlanned(w) \/ DeleteUnknown(w) \/ DeleteLocks(w)
             \/ RecordTaken(w) \/ DeleteRefused(w) \/ ListEmpty(w) \/ Crash(w)
      PROVE  UNCHANGED <<row, rows, blob>>
  BY <1>2 DEF BeginPublish, Begin, PublishRefused, PublishReused,
              PublishConflict, PublishInvalid, PublishPlanned, DeleteUnknown,
              DeleteLocks, RecordTaken, DeleteRefused, ListEmpty, Crash
<1>3. ASSUME NEW w \in Workers, CreateNamespace(w) \/ Retire(w) \/ Unretire(w)
      PROVE  /\ UNCHANGED <<rows, blob>>
             /\ \/ row' = row
                \/ <<row, row'>> \in {<<"absent", "active">>,
                                      <<"active", "retired">>,
                                      <<"retired", "active">>}
  BY <1>3 DEF CreateNamespace, Retire, Unretire
<1>4. ASSUME NEW w \in Workers, PutVersion(w) \/ PutFails(w)
      PROVE  /\ UNCHANGED <<row, rows>>
             /\ row = "active"
             /\ \/ UNCHANGED blob
                \/ \E v \in Labels, c \in Contents : blob' = Upload(v, c)
  <2>1. /\ row = "active"
        /\ job[w].version \in Labels /\ req[w].content \in Contents
    BY <1>4 DEF PutVersion, PutFails, KnowledgeHolds, Knows, Job, Request
  <2> QED
    BY <1>4, <2>1 DEF PutVersion, PutFails
<1>5. ASSUME NEW w \in Workers, RecordCreated(w)
      PROVE  /\ UNCHANGED <<row, blob>>
             /\ row = "active"
             /\ \E r \in Row : /\ rows' = Append(rows, r)
                               /\ r.version \in DOMAIN blob \ Taken
                               /\ r.content \notin Published
                               /\ r.recorded => r.editedFrom = Latest
  <2> DEFINE r == [version |-> job[w].version, content |-> req[w].content,
                   editedFrom |-> job[w].editedFrom,
                   recorded |-> job[w].recorded]
  <2>1. r \in Row
    BY <1>5 DEF RecordCreated, KnowledgeHolds, Knows, Job, Request, Row
  <2>2. /\ UNCHANGED <<row, blob>>
        /\ row = "active"
        /\ rows' = Append(rows, r)
        /\ r.version \in DOMAIN blob \ Taken
        /\ r.content \notin Published
        /\ r.recorded => r.editedFrom = Latest
    BY <1>5 DEF RecordCreated, KnowledgeHolds, Knows
  <2> QED
    BY <2>1, <2>2
<1>6. ASSUME NEW w \in Workers, DropNamespace(w)
      PROVE  /\ UNCHANGED blob
             /\ row # "absent" /\ row' = "absent"
             /\ DOMAIN blob = {} /\ rows' = <<>>
  BY <1>6 DEF DropNamespace, KnowledgeHolds, Knows, Holding
<1> QED
  BY <1>1, <1>2, <1>3, <1>4, <1>5, <1>6 DEF Next, Step, Acquire, Proceed

\* What appending a version row does to the sets and values read from rows.
LEMMA Appended ==
    ASSUME rows \in Seq(Row), NEW r \in Row, rows' = Append(rows, r)
    PROVE  /\ DOMAIN rows' = 1 .. Len(rows) + 1
           /\ \A i \in DOMAIN rows : rows'[i] = rows[i]
           /\ rows'[Len(rows) + 1] = r
           /\ Taken' = Taken \cup {r.version}
<1>1. /\ DOMAIN rows' = 1 .. Len(rows) + 1 /\ DOMAIN rows = 1 .. Len(rows)
      /\ \A i \in DOMAIN rows : rows'[i] = rows[i]
      /\ rows'[Len(rows) + 1] = r
      /\ Len(rows) \in Nat
  OBVIOUS
<1>2. DOMAIN rows' = DOMAIN rows \cup {Len(rows) + 1}
  BY <1>1
<1>3. Taken' = Taken \cup {r.version}
  BY <1>1, <1>2 DEF Taken
<1> QED
  BY <1>1, <1>3

LEMMA SafetyStep ==
    IInv /\ [Next]_vars =>
        NoOrphanedTTL' /\ RecordedHasTTL' /\ ContentPublishedOnce' /\ LineageTruthful'
<1> SUFFICES ASSUME IInv, [Next]_vars
             PROVE  /\ NoOrphanedTTL' /\ RecordedHasTTL'
                    /\ ContentPublishedOnce' /\ LineageTruthful'
  OBVIOUS
<1> USE DEF IInv
<1>1. CASE UNCHANGED <<row, rows, blob>>
  BY <1>1 DEF NoOrphanedTTL, RecordedHasTTL, ContentPublishedOnce,
              LineageTruthful, Taken
<1>2. CASE /\ UNCHANGED <<rows, blob>>
           /\ <<row, row'>> \in {<<"absent", "active">>, <<"active", "retired">>,
                                 <<"retired", "active">>}
  BY <1>2 DEF NoOrphanedTTL, RecordedHasTTL, ContentPublishedOnce,
              LineageTruthful, Taken
<1>3. CASE /\ UNCHANGED <<row, rows>>
           /\ row = "active"
           /\ \E v \in Labels, c \in Contents : blob' = Upload(v, c)
  <2>1. DOMAIN blob \subseteq DOMAIN blob'
    BY <1>3 DEF Upload
  <2> QED
    BY <1>3, <2>1 DEF NoOrphanedTTL, RecordedHasTTL, ContentPublishedOnce,
                      LineageTruthful, Taken
<1>4. CASE /\ UNCHANGED <<row, blob>>
           /\ row = "active"
           /\ \E r \in Row : /\ rows' = Append(rows, r)
                             /\ r.version \in DOMAIN blob \ Taken
                             /\ r.content \notin Published
                             /\ r.recorded => r.editedFrom = Latest
  <2>0. PICK r \in Row : /\ rows' = Append(rows, r)
                         /\ r.version \in DOMAIN blob \ Taken
                         /\ r.content \notin Published
                         /\ r.recorded => r.editedFrom = Latest
    BY <1>4
  <2>1. /\ rows \in Seq(Row) /\ Len(rows) \in Nat
        /\ DOMAIN rows = 1 .. Len(rows)
    BY DEF TypeOK
  <2>2. /\ DOMAIN rows' = 1 .. Len(rows) + 1
        /\ \A i \in DOMAIN rows : rows'[i] = rows[i]
        /\ rows'[Len(rows) + 1] = r
        /\ Taken' = Taken \cup {r.version}
    BY <2>0, <2>1, Appended
  <2>3. NoOrphanedTTL'
    BY <1>4 DEF NoOrphanedTTL
  <2>4. RecordedHasTTL'
    BY <1>4, <2>0, <2>2 DEF RecordedHasTTL
  <2>5. ContentPublishedOnce'
    <3>1. \A i \in DOMAIN rows : rows'[i].content # r.content
      BY <2>0, <2>2 DEF Published
    <3> QED
      BY <2>1, <2>2, <3>1 DEF ContentPublishedOnce
  <2>6. LineageTruthful'
    <3> SUFFICES ASSUME NEW i \in DOMAIN rows', rows'[i].recorded
                 PROVE  rows'[i].editedFrom
                            = IF i = 1 THEN NoVersion ELSE rows'[i-1].version
      BY DEF LineageTruthful
    <3>1. CASE i \in DOMAIN rows
      BY <2>1, <2>2, <3>1 DEF LineageTruthful
    <3>2. CASE i = Len(rows) + 1
      <4>1. rows'[i].editedFrom = Latest
        BY <2>0, <2>2, <3>2
      <4>2. CASE rows = <<>>
        BY <3>2, <4>1, <4>2 DEF Latest
      <4>3. CASE rows # <<>>
        <5>1. Len(rows) \in DOMAIN rows /\ i # 1 /\ i - 1 = Len(rows)
          BY <2>1, <3>2, <4>3
        <5> QED
          BY <2>2, <4>1, <4>3, <5>1 DEF Latest
      <4> QED
        BY <4>2, <4>3
    <3> QED
      BY <2>1, <2>2, <3>1, <3>2
  <2> QED
    BY <2>3, <2>4, <2>5, <2>6
<1>5. CASE /\ UNCHANGED blob
           /\ row # "absent" /\ row' = "absent"
           /\ DOMAIN blob = {} /\ rows' = <<>>
  <2>1. DOMAIN rows' = {}
    BY <1>5
  <2> QED
    BY <1>5, <2>1 DEF NoOrphanedTTL, RecordedHasTTL, ContentPublishedOnce,
                      LineageTruthful, Taken
<1> QED
  BY <1>1, <1>2, <1>3, <1>4, <1>5, RecordsChange

LEMMA InitIInv == Init => IInv
<1> SUFFICES ASSUME Init
             PROVE  IInv
  OBVIOUS
<1>1. DOMAIN rows = {} /\ DOMAIN blob = {} /\ rows \in Seq(Row)
  BY DEF Init
<1> QED
  BY <1>1 DEF Init, IInv, TypeOK, KnowledgeHolds, Knows, NoOrphanedTTL,
              RecordedHasTTL, ContentPublishedOnce, LineageTruthful, Taken,
              Resting, Waiting, Holding

\* The inductive invariant holds in every reachable state.
THEOREM Invariance == Spec => []IInv
<1>1. IInv /\ [Next]_vars => IInv'
  BY TypeStep, KnowledgeStep, SafetyStep DEF IInv
<1> QED
  BY InitIInv, <1>1, PTL DEF Spec

\* Requests, records and files keep their types.
THEOREM TypeCorrect == Spec => []TypeOK
<1>1. IInv => TypeOK
  BY DEF IInv
<1> QED
  BY Invariance, <1>1, PTL

\* A transaction acts on what is still so (the row lock's purpose, ADR-0024).
THEOREM KnowledgeCorrect == Spec => []KnowledgeHolds
<1>1. IInv => KnowledgeHolds
  BY DEF IInv
<1> QED
  BY Invariance, <1>1, PTL

\* A deleted namespace cannot come back from Blob.
THEOREM NoOrphans == Spec => []NoOrphanedTTL
<1>1. IInv => NoOrphanedTTL
  BY DEF IInv
<1> QED
  BY Invariance, <1>1, PTL

\* Every recorded version can be read from Blob.
THEOREM RecordedReadable == Spec => []RecordedHasTTL
<1>1. IInv => RecordedHasTTL
  BY DEF IInv
<1> QED
  BY Invariance, <1>1, PTL

\* Publishing is idempotent in the content.
THEOREM PublishedOnce == Spec => []ContentPublishedOnce
<1>1. IInv => ContentPublishedOnce
  BY DEF IInv
<1> QED
  BY Invariance, <1>1, PTL

\* The recorded lineage is that of the version history.
THEOREM Lineage == Spec => []LineageTruthful
<1>1. IInv => LineageTruthful
  BY DEF IInv
<1> QED
  BY Invariance, <1>1, PTL

\* Retirement freezes the namespace: files and rows alike.
THEOREM Frozen == Spec => NothingAddedUnlessActive
<1>1. IInv /\ [Next]_vars => [row # "active" => UNCHANGED <<rows, blob>>]_vars
  <2> SUFFICES ASSUME IInv, [Next]_vars, row # "active"
               PROVE  UNCHANGED <<rows, blob>>
    OBVIOUS
  <2>1. CASE DOMAIN blob = {} /\ rows' = <<>> /\ UNCHANGED blob
    <3>1. Taken = {} /\ rows \in Seq(Row)
      BY <2>1 DEF IInv, RecordedHasTTL, TypeOK
    <3>2. DOMAIN rows = {}
      BY <3>1 DEF Taken
    <3>3. rows = <<>>
      BY <3>1, <3>2
    <3> QED
      BY <2>1, <3>3
  <2> QED
    BY <2>1, RecordsChange DEF IInv
<1> QED
  BY Invariance, <1>1, PTL DEF Spec, NothingAddedUnlessActive

\* A resend is never a conflict and never a second version.
THEOREM Resend == Spec => ResendIsReuse
<1> DEFINE P == \A w \in Workers :
                   (/\ pc[w] = "publish" /\ pc'[w] # "publish"
                    /\ row = "active" /\ req[w].content \in Published)
                   => pc'[w] \in {"reused", "idle"}
<1>1. IInv /\ Next => P
  <2> SUFFICES ASSUME IInv, NEW u \in Workers, Step(u), NEW w \in Workers,
                      pc[w] = "publish", pc'[w] # "publish",
                      row = "active", req[w].content \in Published
               PROVE  pc'[w] \in {"reused", "idle"}
    BY DEF Next
  <2> USE DEF IInv, TypeOK
  <2>1. CASE BeginPublish(u) \/ Begin(u)
    BY <2>1 DEF BeginPublish, Begin, Resting, Answers
  <2>2. CASE Proceed(u)
    BY <2>2 DEF Proceed, CreateNamespace, PutVersion, PutFails, RecordTaken,
                RecordCreated, DeleteRefused, ListEmpty, DropNamespace, Answer
  <2>3. CASE Crash(u)
    BY <2>3 DEF Crash, Answer
  <2>4. CASE Acquire(u)
    BY <2>4 DEF Acquire, Turn, PublishRefused, PublishReused, PublishConflict,
                PublishInvalid, PublishPlanned, Retire, Unretire,
                DeleteUnknown, DeleteLocks, Answer
  <2> QED
    BY <2>1, <2>2, <2>3, <2>4 DEF Step
<1>2. IInv /\ [Next]_vars => [P]_vars
  BY <1>1
<1> QED
  BY Invariance, <1>2, PTL DEF Spec, ResendIsReuse

-----------------------------------------------------------------------------
(* Publication implements NamespaceArchive: storing a file is a stutter,   *)
(* recording a version is the abstract Publish.                            *)

archived == {<<rows[i].version, rows[i].content>> : i \in DOMAIN rows}

LEMMA ArchiveStep == IInv /\ [Next]_vars => [Archive!Next]_(Archive!vars)
<1> SUFFICES ASSUME IInv, [Next]_vars
             PROVE  Archive!Next \/ (row' = row /\ archived' = archived)
  BY DEF Archive!vars, archived
<1> USE DEF IInv
<1>1. CASE UNCHANGED <<row, rows>>
  BY <1>1 DEF archived
<1>2. CASE /\ UNCHANGED <<rows, blob>>
           /\ <<row, row'>> \in {<<"absent", "active">>, <<"active", "retired">>,
                                 <<"retired", "active">>}
  BY <1>2 DEF Archive!Next, Archive!Create, Archive!Retire, Archive!Unretire
<1>3. CASE /\ UNCHANGED <<row, blob>>
           /\ row = "active"
           /\ \E r \in Row : rows' = Append(rows, r)
  <2>1. PICK r \in Row : rows' = Append(rows, r)
    BY <1>3
  <2>2. /\ rows \in Seq(Row) /\ Len(rows) \in Nat
        /\ DOMAIN rows = 1 .. Len(rows)
    BY DEF TypeOK
  <2>3. /\ DOMAIN rows' = 1 .. Len(rows) + 1
        /\ \A i \in DOMAIN rows : rows'[i] = rows[i]
        /\ rows'[Len(rows) + 1] = r
    BY <2>1, <2>2, Appended
  <2>4. DOMAIN rows' = DOMAIN rows \cup {Len(rows) + 1}
    BY <2>2, <2>3
  <2>5. archived' = archived \cup {<<r.version, r.content>>}
    BY <2>3, <2>4 DEF archived
  <2>6. <<r.version, r.content>> \in Labels \X Contents
    BY DEF Row
  <2> QED
    BY <1>3, <2>5, <2>6 DEF Archive!Next, Archive!Publish, archived
<1>4. CASE /\ UNCHANGED blob
           /\ row # "absent" /\ row' = "absent"
           /\ DOMAIN blob = {} /\ rows' = <<>>
  <2>1. Taken = {} /\ rows' = <<>>
    BY <1>4 DEF RecordedHasTTL
  <2>2. archived = {}
    <3>1. DOMAIN rows = {}
      BY <2>1 DEF Taken
    <3> QED
      BY <3>1 DEF archived
  <2>3. archived' = {}
    <3>1. DOMAIN rows' = {}
      BY <2>1
    <3> QED
      BY <3>1 DEF archived
  <2> QED
    BY <1>4, <2>2, <2>3 DEF Archive!Next, Archive!Delete, archived
<1> QED
  BY <1>1, <1>2, <1>3, <1>4, RecordsChange

\* Users see an archive that only grows, only while active, and that is empty
\* when the namespace is deleted.
THEOREM Refinement == Spec => ImplementsArchive
<1>1. Init => Archive!Init
  BY DEF Init, Archive!Init
<1> QED
  BY <1>1, ArchiveStep, Invariance, PTL DEF Spec, ImplementsArchive, Archive!Spec
=============================================================================
