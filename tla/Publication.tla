----------------------------- MODULE Publication -----------------------------
(***************************************************************************)
(* The system of record of one namespace: its row in `namespaces`, its     *)
(* rows in `ontology_versions` (PostgreSQL) and its Turtle files (Blob),   *)
(* under concurrent API requests.  Publish, retire, unretire and delete    *)
(* take the same row lock (SELECT ... FOR UPDATE, ADR-0024), which is held *)
(* until their transaction ends.  Blob is outside the transaction: what    *)
(* was uploaded stays there when the transaction rolls back.               *)
(*                                                                         *)
(* Two namespaces share no row, no lock and no blob prefix, so one is      *)
(* modelled.  Roles are checked before these handlers and are left out.  A *)
(* Turtle file is modelled by its content and the content hash as          *)
(* injective.  The projection that follows each commit is Projection.tla.  *)
(***************************************************************************)
EXTENDS Naturals, Sequences

CONSTANTS Workers,           \* API requests in flight at the same time
          Contents,          \* Turtle documents that clients send
          Malformed,         \* those that do not parse
          ExplicitVersions,  \* labels a client may ask for
          Unnumbered,        \* labels whose major or minor is not a number
          Automatic,         \* no version asked for: number automatically
          NoVersion,         \* None
          NoRequest,         \* nothing asked yet
          NoJob,             \* nothing resolved under the lock
          Nobody             \* nobody holds the row lock

VARIABLES row,      \* the namespace's row: "absent", "active" or "retired"
          rows,     \* its version rows, in id order
          blob,     \* its Turtle files: a function from labels to contents
          lock,     \* the holder of the row lock
          pc,       \* control state of each request
          req,      \* what each publish request asks for
          job       \* what each publish resolved under the lock

vars == <<row, rows, blob, lock, pc, req, job>>

-----------------------------------------------------------------------------
\* A label is major.minor.patch, or one automatic numbering cannot continue.
Numbered == Nat \X Nat \X Nat
Labels == Numbered \cup Unnumbered

ASSUME Constants ==
    /\ Malformed \subseteq Contents
    /\ ExplicitVersions \subseteq Labels
    /\ Unnumbered \cap Numbered = {}
    /\ {Automatic, NoVersion} \cap Labels = {}
    /\ Nobody \notin Workers
    /\ NoJob # NoRequest

Row == [version : Labels, content : Contents,
        editedFrom : Labels \cup {NoVersion}, recorded : BOOLEAN]
Request == [content : Contents, version : ExplicitVersions \cup {Automatic},
            base : Labels \cup {NoVersion}]
Job == [version : Labels, editedFrom : Labels \cup {NoVersion},
        recorded : BOOLEAN]

Taken == {rows[i].version : i \in DOMAIN rows}
Published == {rows[i].content : i \in DOMAIN rows}
Latest == IF rows = <<>> THEN NoVersion ELSE rows[Len(rows)].version

\* The label automatic numbering gives to the successor of `previous`.
NextVersion(previous) ==
    IF previous = NoVersion THEN <<1, 0, 0>>
                            ELSE <<previous[1], previous[2] + 1, 0>>

\* Mutant: the automatic label is never filled in.
ResolvedLiterally(r) == r.version

\* The version the publish request r gets, if it gets one.
Resolved(r) == IF r.version = Automatic THEN NextVersion(Latest) ELSE r.version

\* AutoVersionError or a Turtle syntax error: refused before the upload.
Invalid(r) == \/ r.version = Automatic /\ Latest \in Unnumbered
              \/ r.content \in Malformed

\* The three lineages: the declared base, no predecessor, and unknown.
Resolve(r) == [version    |-> Resolved(r),
               editedFrom |-> r.base,
               recorded   |-> r.base # NoVersion \/ Latest = NoVersion]

Answers == {"created", "reused", "conflict", "refused", "done"}
Resting == Answers \cup {"idle"}
Waiting == {"publish", "retire", "unretire", "delete", "create"}
Holding == {"put", "record", "list", "drop"}   \* the row lock is held here

-----------------------------------------------------------------------------
Init == /\ row = "absent"
        /\ rows = <<>>
        /\ blob = <<>>
        /\ lock = Nobody
        /\ pc = [w \in Workers |-> "idle"]
        /\ req = [w \in Workers |-> NoRequest]
        /\ job = [w \in Workers |-> NoJob]

\* The transaction of w ends and w answers.
Answer(w, a) == /\ pc' = [pc EXCEPT ![w] = a]
                /\ req' = [req EXCEPT ![w] = NoRequest]
                /\ job' = [job EXCEPT ![w] = NoJob]

Release(w) == lock' = Nobody

BeginPublish(w) ==
    /\ pc[w] \in Resting
    /\ \E c \in Contents, v \in ExplicitVersions \cup {Automatic},
          b \in Taken \cup {NoVersion} :
           req' = [req EXCEPT ![w] = [content |-> c, version |-> v, base |-> b]]
    /\ pc' = [pc EXCEPT ![w] = "publish"]
    /\ UNCHANGED <<row, rows, blob, lock, job>>

Begin(w) ==
    /\ pc[w] \in Resting
    /\ \E op \in Waiting \ {"publish"} : pc' = [pc EXCEPT ![w] = op]
    /\ UNCHANGED <<row, rows, blob, lock, req, job>>

\* POST /namespaces: no lock, the primary key decides between two creators.
CreateNamespace(w) ==
    /\ pc[w] = "create"
    /\ row' = IF row = "absent" THEN "active" ELSE row
    /\ Answer(w, IF row = "absent" THEN "done" ELSE "refused")
    /\ UNCHANGED <<rows, blob, lock>>

-----------------------------------------------------------------------------
(* publish_with_outcome, from get_locked to commit.                        *)

\* Mutant: the row is read without FOR UPDATE.
TurnUnlocked(w, op) == pc[w] = op

\* The lock is taken and given back within the step.
Turn(w, op) == pc[w] = op /\ lock = Nobody

PublishRefused(w) ==
    /\ Turn(w, "publish")
    /\ row # "active"
    /\ Answer(w, "refused")
    /\ UNCHANGED <<row, rows, blob, lock>>

\* Idempotent resend: looked up before the base version is compared.
PublishReused(w) ==
    /\ Turn(w, "publish")
    /\ row = "active"
    /\ req[w].content \in Published
    /\ Answer(w, "reused")
    /\ UNCHANGED <<row, rows, blob, lock>>

\* Mutant: the base version is not compared.
NeverStale(r) == FALSE

Stale(r) == r.base # NoVersion /\ r.base # Latest

\* Mutant: the base version is compared before the content hash.
ConflictBeforeReuse(w) ==
    /\ Turn(w, "publish")
    /\ row = "active"
    /\ Stale(req[w])
    /\ Answer(w, "conflict")
    /\ UNCHANGED <<row, rows, blob, lock>>

PublishConflict(w) ==
    /\ Turn(w, "publish")
    /\ row = "active"
    /\ req[w].content \notin Published
    /\ Stale(req[w])
    /\ Answer(w, "conflict")
    /\ UNCHANGED <<row, rows, blob, lock>>

PublishInvalid(w) ==
    /\ Turn(w, "publish")
    /\ row = "active"
    /\ req[w].content \notin Published
    /\ ~Stale(req[w])
    /\ Invalid(req[w])
    /\ Answer(w, "refused")
    /\ UNCHANGED <<row, rows, blob, lock>>

PublishPlanned(w) ==
    /\ Turn(w, "publish")
    /\ row = "active"
    /\ req[w].content \notin Published
    /\ ~Stale(req[w])
    /\ ~Invalid(req[w])
    /\ lock' = w
    /\ pc' = [pc EXCEPT ![w] = "put"]
    /\ job' = [job EXCEPT ![w] = Resolve(req[w])]
    /\ UNCHANGED <<row, rows, blob, req>>

\* upload_blob(..., overwrite=True)
Upload(v, c) == [x \in DOMAIN blob \cup {v} |-> IF x = v THEN c ELSE blob[x]]

PutVersion(w) ==
    /\ pc[w] = "put"
    /\ blob' = Upload(job[w].version, req[w].content)
    /\ pc' = [pc EXCEPT ![w] = "record"]
    /\ UNCHANGED <<row, rows, lock, req, job>>

\* Mutant: a failed upload is swallowed.
PutFailureSwallowed(w) ==
    /\ pc[w] = "put"
    /\ pc' = [pc EXCEPT ![w] = "record"]
    /\ UNCHANGED <<row, rows, blob, lock, req, job>>

\* BlobStoreError: the file may have been stored; the transaction rolls back.
PutFails(w) ==
    /\ pc[w] = "put"
    /\ blob' \in {blob, Upload(job[w].version, req[w].content)}
    /\ Release(w)
    /\ Answer(w, "refused")
    /\ UNCHANGED <<row, rows>>

\* Mutant: the failed insert leaves the transaction open.
RecordTakenKeepsLock(w) ==
    /\ pc[w] = "record"
    /\ job[w].version \in Taken
    /\ Answer(w, "refused")
    /\ UNCHANGED <<row, rows, blob, lock>>

\* The label belongs to another content: unique (namespace, version).
RecordTaken(w) ==
    /\ pc[w] = "record"
    /\ job[w].version \in Taken
    /\ Release(w)
    /\ Answer(w, "refused")
    /\ UNCHANGED <<row, rows, blob>>

RecordCreated(w) ==
    /\ pc[w] = "record"
    /\ job[w].version \notin Taken
    /\ rows' = Append(rows, [version |-> job[w].version,
                             content |-> req[w].content,
                             editedFrom |-> job[w].editedFrom,
                             recorded |-> job[w].recorded])
    /\ Release(w)
    /\ Answer(w, "created")
    /\ UNCHANGED <<row, blob>>

-----------------------------------------------------------------------------
(* retire and unretire up to commit, and delete_namespace.                 *)

\* Mutant: retire reads the row without FOR UPDATE.
RetireUnlocked(w) ==
    /\ pc[w] = "retire"
    /\ row' = IF row = "active" THEN "retired" ELSE row
    /\ Answer(w, IF row = "active" THEN "done" ELSE "refused")
    /\ UNCHANGED <<rows, blob, lock>>

Retire(w) ==
    /\ Turn(w, "retire")
    /\ row' = IF row = "active" THEN "retired" ELSE row
    /\ Answer(w, IF row = "active" THEN "done" ELSE "refused")
    /\ UNCHANGED <<rows, blob, lock>>

Unretire(w) ==
    /\ Turn(w, "unretire")
    /\ row' = IF row = "retired" THEN "active" ELSE row
    /\ Answer(w, IF row = "retired" THEN "done" ELSE "refused")
    /\ UNCHANGED <<rows, blob, lock>>

DeleteUnknown(w) ==
    /\ Turn(w, "delete")
    /\ row = "absent"
    /\ Answer(w, "refused")
    /\ UNCHANGED <<row, rows, blob, lock>>

\* Mutant: delete reads the row without FOR UPDATE.
DeleteWithoutLock(w) ==
    /\ pc[w] = "delete"
    /\ row # "absent"
    /\ pc' = [pc EXCEPT ![w] = "list"]
    /\ UNCHANGED <<row, rows, blob, lock, req, job>>

DeleteLocks(w) ==
    /\ Turn(w, "delete")
    /\ row # "absent"
    /\ lock' = w
    /\ pc' = [pc EXCEPT ![w] = "list"]
    /\ UNCHANGED <<row, rows, blob, req, job>>

\* Turtle files remain (409), or Blob Storage does not answer (503).
DeleteRefused(w) ==
    /\ pc[w] = "list"
    /\ Release(w)
    /\ Answer(w, "refused")
    /\ UNCHANGED <<row, rows, blob>>

\* Mutant: the version rows are counted instead of the Turtle files.
ListNoRows(w) ==
    /\ pc[w] = "list"
    /\ rows = <<>>
    /\ pc' = [pc EXCEPT ![w] = "drop"]
    /\ UNCHANGED <<row, rows, blob, lock, req, job>>

ListEmpty(w) ==
    /\ pc[w] = "list"
    /\ DOMAIN blob = {}
    /\ pc' = [pc EXCEPT ![w] = "drop"]
    /\ UNCHANGED <<row, rows, blob, lock, req, job>>

\* DELETE FROM namespaces, ON DELETE CASCADE to the version rows, COMMIT.
DropNamespace(w) ==
    /\ pc[w] = "drop"
    /\ row' = "absent"
    /\ rows' = <<>>
    /\ Release(w)
    /\ Answer(w, "done")
    /\ UNCHANGED blob

-----------------------------------------------------------------------------
\* The process or its database connection dies: PostgreSQL rolls back.
Crash(w) ==
    /\ pc[w] \in Waiting \cup Holding
    /\ lock' = IF lock = w THEN Nobody ELSE lock
    /\ Answer(w, "idle")
    /\ UNCHANGED <<row, rows, blob>>

\* The steps that wait for the row lock, and those taken while holding it.
Acquire(w) == \/ PublishRefused(w) \/ PublishReused(w) \/ PublishConflict(w)
              \/ PublishInvalid(w) \/ PublishPlanned(w)
              \/ Retire(w) \/ Unretire(w)
              \/ DeleteUnknown(w) \/ DeleteLocks(w)
Proceed(w) == \/ CreateNamespace(w)
              \/ PutVersion(w) \/ PutFails(w)
              \/ RecordTaken(w) \/ RecordCreated(w)
              \/ DeleteRefused(w) \/ ListEmpty(w) \/ DropNamespace(w)

Step(w) == BeginPublish(w) \/ Begin(w) \/ Acquire(w) \/ Proceed(w) \/ Crash(w)

Next == \E w \in Workers : Step(w)

Spec == Init /\ [][Next]_vars

\* PostgreSQL queues the waiters of a row lock, so a waiter whose turn keeps
\* coming gets it; a request that holds it runs on.
FairSpec == /\ Spec
            /\ \A w \in Workers : WF_vars(Proceed(w)) /\ SF_vars(Acquire(w))

-----------------------------------------------------------------------------
(* Correctness.                                                            *)

TypeOK == /\ row \in {"absent", "active", "retired"}
          /\ rows \in Seq(Row)
          /\ DOMAIN blob \subseteq Labels
          /\ \A v \in DOMAIN blob : blob[v] \in Contents
          /\ lock \in Workers \cup {Nobody}
          /\ pc \in [Workers -> Resting \cup Waiting \cup Holding]
          /\ req \in [Workers -> Request \cup {NoRequest}]
          /\ job \in [Workers -> Job \cup {NoJob}]

\* A namespace that does not exist has no Turtle file: the loader rebuilds
\* from Blob alone, and would bring a deleted namespace back (ADR-0024).
NoOrphanedTTL == row = "absent" => DOMAIN blob = {}

\* Every version row has its Turtle file: Blob is written before PostgreSQL,
\* and no delete can cascade over rows or leave them without their files.
RecordedHasTTL == Taken \subseteq DOMAIN blob

\* No content is published twice, although the lookup by hash and the insert
\* are separate statements with an upload between them.  With KnowledgeHolds:
\* the insert never fails on the content hash, so the recovery the code has
\* for that failure (the loser returns the winner's row) is not reachable.
ContentPublishedOnce ==
    \A i, j \in DOMAIN rows : rows[i].content = rows[j].content => i = j

\* Recorded lineage is the truth: a version said to be edited from b directly
\* follows b, and one said to have no predecessor is the first.  Hence two
\* editors who started from the same version cannot both succeed.
LineageTruthful ==
    \A i \in DOMAIN rows :
        rows[i].recorded =>
            rows[i].editedFrom = IF i = 1 THEN NoVersion ELSE rows[i-1].version

\* What a request read under the row lock is still so when it acts on it: the
\* namespace exists and is active, its content is unpublished, the declared
\* base is the latest version, the listed files are still none.
Knows(w) ==
    /\ pc[w] = "publish" => req[w] \in Request
    /\ pc[w] \in Holding => lock = w /\ row # "absent"
    /\ pc[w] \in {"put", "record"} =>
           /\ row = "active"
           /\ req[w] \in Request /\ job[w] \in Job
           /\ req[w].content \notin Published
           /\ job[w].recorded => job[w].editedFrom = Latest
    /\ pc[w] = "record" => job[w].version \in DOMAIN blob
    /\ pc[w] = "drop" => DOMAIN blob = {}

KnowledgeHolds == \A w \in Workers : Knows(w)

\* While a namespace is absent or retired nothing is added to it, not even by
\* a publish that was already running when the retirement was requested.
NothingAddedUnlessActive == [][row # "active" => UNCHANGED <<rows, blob>>]_vars

\* A resend of what is already published (a retry after a lost answer) is
\* answered with the existing version, whatever base and label it names and
\* however far the namespace has moved on: not a conflict, not a new upload.
ResendIsReuse ==
    [][\A w \in Workers :
          (/\ pc[w] = "publish" /\ pc'[w] # "publish"
           /\ row = "active" /\ req[w].content \in Published)
          => pc'[w] \in {"reused", "idle"}]_vars

\* README, ADR-0006: a published revision is immutable, so the Turtle file of
\* a recorded version keeps its content.  The code breaks this: see README.
PublishedTTLImmutable ==
    [][\A i \in DOMAIN rows : blob'[rows[i].version] = rows[i].content]_vars

\* Every request is eventually answered, whoever else holds the row lock,
\* fails or dies.
EventuallyAnswered ==
    \A w \in Workers : pc[w] \in Waiting \cup Holding ~> pc[w] \in Resting

\* The promise to users, with locks, transactions and files hidden.
Archive == INSTANCE NamespaceArchive WITH
               Revisions <- Labels \X Contents,
               phase <- row,
               archive <- {<<rows[i].version, rows[i].content>> :
                              i \in DOMAIN rows}
ImplementsArchive == Archive!Spec
=============================================================================
