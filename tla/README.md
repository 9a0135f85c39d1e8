# TLA+ verification of the ontology accelerator

A FastAPI service stores versions of ontologies ("namespaces") in PostgreSQL and
Azure Blob Storage and projects the reviewed ones into an Apache Jena Fuseki
store, from which people and agents are answered. This directory models the parts
of it where the order of steps, failures and concurrent requests decide whether
the result is right. Paths below are relative to the repository; `api/` stands for
`packages/api/src/ontology_api/` and `core/` for `packages/core/src/ontology_core/`.

Run TLC as `tlc -config <cfg> <module>`, and `tlapm <module>Proofs.tla`.
`PROJECT.json` lists the runs, the source lines behind each definition, a mutant
for each property, the hazards, the findings and the theorems.

## 1. Inventory

| Component | State | Operations | Hard behaviour | What makes it correct | Model |
|---|---|---|---|---|---|
| Namespace lifecycle and publishing: `api/services/projection.py`, `api/routers/namespaces.py`, `api/repositories/{namespaces,versions}.py`, `core/blob.py` | rows `namespaces`, `ontology_versions`; Turtle files | create, publish, retire, unretire, delete | a row lock held across a Blob upload; Blob outside the transaction; two uploads of one document; answers lost and repeated | no file without a namespace, a file for each row, each content once, true lineage, nothing added to a retired namespace | `Publication`, proved |
| Review and projection: the same service, `api/routers/versions.py` | `status`, `approved_at`, `projected_at`; the manifest; named and default graphs | submit, approve, reject, retire, unretire, reconcile | three stores without a common transaction, checks without locks, calls that fail after they took effect, process and store restarts | only reviewed versions served, at most one approved, marks that can be trusted, a repair that converges | `Projection`, proved; with one request at a time it implements `ReviewLifecycle`, proved |
| Retention: `core/retention.py` | none | decide_projection | ties, limits | one current version, no drafts | `Retention`, proved |
| Triple store and loader: `containers/fuseki/` | TDB2 on a volume that dies with the replica | load, start, serve | loader reads Blob only, files before manifest | a rebuilt store serves what the manifest says | in `Projection`, partly |
| Acceptance checks of approve: `services/projection.py`, `repositories/questions.py`, `core/{competency,shacl,deprecation}.py` | question set revisions | put questions, evaluate | the set is read twice, max + 1 without a lock | nobody approves his own version, none is approved by criteria its author wrote afterwards | `Governance`, proved; deprecation in `Vocabulary`; the rest of the checks of content are one refusal |
| Roles: `services/authorization.py`, `repositories/roles.py`, `routers/namespaces.py` | role assignments | grant, revoke, require | last owner counted without a lock | a namespace keeps an owner | `Governance`, proved |
| Source scan catalog: `api/{scan_job.py,services/scan.py,repositories/scan.py,routers/scan.py}`, `core/scan.py` | sources, runs, catalog rows | register, remove, scan, sweep, read the catalog | scans overlap and end out of order, the source changes or is removed under them, a query sees no snapshot of another | nothing outlives its source, no completed observation is replaced by an older one, a sweep counts all it set out to do | `Catalog`, proved; implements `SourceCatalog`, proved |
| Virtual graph: `api/{services,repositories,routers}/vkg.py`, `core/r2rml.py` | mapping revisions | revise, query | checks against catalog and version, read one after the other and stored later | a stored mapping stands on what it was checked against; revisions without gaps | `VirtualGraph`, proved |
| Divergence: `api/services/divergence.py`, `core/divergence.py` | none | measure | a limit on probes, probes that fail, version and mapping read apart | nothing unprobed is called conclusive | `Divergence`, proved |
| SPARQL guards and limits: `api/routers/sparql.py`, `core/sparql/` | none | query | the graph is replaced between a query and the one that looks for deprecated terms; caps | a cut answer says so | `SparqlGateway`, proved |
| Access log: `api/repositories/access.py`, `api/routers/access.py`, `core/access.py` | log rows, counts of terms | record, page, purge | locks on many counters taken in one statement; ids given before the commit | counts agree with the log, no circle of waiting, no row left out between pages | `AccessLog`, proved |
| Audit trail: `api/repositories/versions.py`, `api/routers/audit.py`, `core/prov.py` | append-only rows | append, page, export | rows added between pages, truncation | no row twice or left out, truncation marked | `AccessLog`, `Vocabulary`, proved |
| Term mappings and owners: `api/repositories/{mappings,term_owners}.py`, `api/routers/{mappings,term_owners}.py`, `api/services/mapping_targets.py`, `core/mapping.py` | two tables with a unique key | declare, revoke, list; assign, unassign, resolve | rows read, decided upon and written without a lock; a list put together from many reads | one row per key; a list claims only what was so | `TermMappings`, proved |
| Search: `api/services/search.py`, `api/repositories/embeddings.py`, `core/{search,embedding}.py` | an index table | rebuild, search | overlapping rebuilds of different versions, a model that fails, an index replaced between two routes | the index has all of what a rebuild wrote or none, and no term twice; an answer within its limit without doubles | `TermSearch`, proved |
| Health: `api/services/health.py`, `core/health.py` | none | measure | table after table while all of them change | what cannot be measured is not reported as nought | `Health`, proved |
| Diff, warnings of deprecation, proposals, authentication, MCP server, web UI, migrations, infrastructure | none that outlives a call | | | | not modelled, section 7 |

How they interact. A request takes the namespace row lock (publish, retire,
unretire, delete) or none (submit, approve, reject, reconcile), commits to
PostgreSQL, and then writes the manifest `versions/<namespace>/_state.json` to Blob
and graphs to Fuseki. Failures after the commit are logged and swallowed;
`projected_at` stays NULL and `POST /admin/reconcile` repairs what it finds.
A restarted Fuseki is rebuilt by `load-snapshot.sh` from Blob alone.
Everything else reads what that leaves: the approved version's Turtle file, the
default graph, the catalog of a source. None of these readers takes a lock on it, and
each of them reads several times. What they write, they write to tables of their own
and to one audit trail and one access log that they share.

## 2. The models

### Publication: the system of record

`row`, `rows` and `blob` are the namespace row, its version rows in id order and its
Turtle files as a function from labels to contents; `lock` is the row lock of
`SELECT ... FOR UPDATE`, `pc`, `req` and `job` the requests in flight. Between two
steps of a request stands each call other requests can interleave with: taking the
lock, the upload, insert and commit, the listing and the deletion of Blob. A
rollback leaves PostgreSQL as it was and Blob as it is; a crash releases the lock.
`Resolve` and `NextVersion` are the lineage and the automatic numbering.

`NamespaceArchive` is what this component promises: an archive of contents which
only grows, only while the namespace is active, and vanishes as a whole.
`Publication!Archive` is the refinement mapping, `ImplementsArchive` the
implementation.

### Retention and Projection

`Retention` is `decide_projection` as two sets: the version for the default graph
and the versions for named graphs.

In `Projection`, `retired`, `status`, `approvedAt` and `projected` are PostgreSQL,
`manifest` is the file in Blob, `store` is Fuseki with the dataset and its graphs,
and `job` is the progress of each request. A request begins in the state its
checks at the head of the handler demand and then takes a step for each commit,
each read of PostgreSQL it acts upon later, each Blob write and each store call.
Every outside call can fail, before or after it took effect; every request and the
store can die at any point; the loader runs in three steps (files, manifest, serve).
A transaction keeps the rows it has updated until it commits (`Locked`), and a step that
updates a row waits for them (`Awaited`, `RowsFree`). Three requests do so over several
steps: approve updates its version, reads Blob for the audit's difference, and only
then updates the version it supersedes (`UpdateApproved`, `LoadPrevious`, `CommitApprove`); retire
clears the marks row by row (`ClearNext`, `Unmark`, `CommitRetire`), holding the namespace
row as well (`NamespaceFree`); reconcile updates marks and commits when the request ends.
Two of different kinds, or two reconciles, can wait for each other; PostgreSQL then aborts
one (`Deadlocked`). Audit rows have no foreign key and wait for nothing. An UPDATE writes the columns that differ
from what was loaded (`LoadRow`, `ColumnsWritten`), so a mark that another commits in between survives.
Reconcile lists the graphs of the store and the versions of PostgreSQL one after the
other (`ListGraphs`, `CompareGraphs`) and deletes those of drafts twice, with all that should
not be there and once more at the end (`SweepExcess`, `SweepStrays`).
`submittedEver`, `approvedEver` and `misbuilt`, and `undisturbed` in a job, are
history for the properties and guard nothing.

`ReviewLifecycle` is what ADR-0010 (decision 2) promises of the states: draft, in review,
approved, superseded, one step at a time and none while the namespace is retired, and
an approval supersedes in the same step what was approved before. `Projection` implements it
with one request at a time, although between the look-up and the commit lie checks,
crashes and restarts; with two it does not (section 5).

### Governance: who decides, by which criteria

`role` is the table of role assignments of the namespace, `questions` that of the
revisions of its competency questions, `version` the version rows as far as they are
decided on. No request takes a lock here, so each has a step that reads and a later
one that writes and commits: `grant` reads the row and inserts or updates it, `revoke`
lists the assignments, counts the owners and deletes, a revision takes the greatest
number plus one and inserts under the unique constraint. `approve` has four steps:
role, state and four eyes (`BeginApprove`), the authorship of the active revision
(`CheckAuthorship`), the evaluation, which reads the active revision again
(`Evaluate`), and the commit with its audit row. `created_at` is `now()`, the start of
the transaction, hence `begun`. `Ends` is every way to leave without a commit: a
refusal, an error, a crash. `listed`, `authorship` and `evaluated` keep what a request
read; `authorship` in a version row is history for `CriteriaIndependent`,
`evaluated` is the revision that the reason of the audit row names. A principal of
`Admins` counts as owner whatever is assigned (`Effective`), and is not counted among
`Owners`.

`Governance` and `Projection` meet in the status of a version. `Projection` lets any
request pass the role check and any approval be refused; `Governance` says which do
and leaves superseding, the manifest and the store out.

### Catalog: scans, sweeps and a reader

`source` and `ids` are the registered sources (a source registered again has a new
id), `runs` the rows of `scan_runs` with the catalog rows that hang on them, `history`
what each source database has held and since when, in moments `now`. `scan` is the
scan each scanner has in flight, an owner's or the sweep job's, `sweep` the job with
its report and `reader` one request for a catalog. A scan commits `running`, reads
the tables and then the columns, each query with a snapshot of its own, and commits
its observations with `succeeded` (`FinishRun`), or `failed` (`FailRun`); it may be
refused, lose its connection or its secret, or crash and leave its run `running` for
ever. Removing a source cascades to its runs (`Cascade`), so that a late write finds no
row. `started_at` is `now()`, the beginning of the transaction: of the request, or of
the transaction the sweep still has open. `LatestSucceeded` orders by it.

`SourceCatalog` is what this component promises: completed observations accumulate,
never change, and go with their source only. `Catalog!Promise` is the refinement
mapping. `VirtualGraph` uses `SourceCatalog` in place of `Catalog`.

### Reading: the components around a published vocabulary

`Reading` composes eight modules, whose requests interleave step by step.

- `Vocabulary` is what they share: `current`, the approved version of each namespace;
  `served`, the version in the default graph, which lags; `retired`; `audit`, the one
  audit trail, whose ids come from one sequence and are taken before the commit; and
  the requests in flight. It sees `Projection` from outside: the current version only
  moves on, what is served was current once. A version is a function from its subjects to
  what `term_lifecycle` reads of them and whether they are typed as a class or property;
  `Blocked` is the part of the deprecation check that blocks an approval, made against the
  version that was current when the approval began. Its actions are the environment's: approve, project,
  retire, revive, crash of a request.
- `AccessLog`: a recording takes its event id, upserts the counters of its terms one by
  one in the order of the sequence, holding each row (`UpsertTerm`), and commits or
  fails. A purge selects rows by time and deletes what is left of them. Readers follow
  a cursor, page after page; an export is one page, marked if truncated.
- `SparqlGateway`: `run_query` from the guard to the record: the query, the cap of rows
  or the refusal of a large graph, the second query for deprecated terms, the reading
  of the current version, the recording. A failure of the second query or of the
  recording does not take the answer away.
- `VirtualGraph`: revising checks the subjects, the tables against the latest
  succeeded run, and the terms against the current version, takes the greatest
  revision plus one, inserts and commits, while sources are removed, registered again
  and scanned. Asking reads the active revision and then queries the virtual graph.
- `Divergence`: a measurement plans probes within `MaxProbes`, sends them, and each may
  fail. Its sums are recursive functions, its report a set of records.
- `TermMappings`: `declare` and `assign` read the row of their key and write later: an
  insertion, which fails if the key is taken by then (`Writable`), or an update of the
  columns that differ from what was read (`Written`), which keeps in the others what
  somebody else wrote. Lists decorate rows with the other side and, namespace by
  namespace, with the state of each target.
- `Health`: terms of the version, statistics, owners, mappings, the other side and the
  targets, each in a step of its own; an unreadable Blob leaves `Unmeasured`.
- `TermSearch`: a rebuild reads the version, has its classes and properties embedded
  (`Embedded`, fewer than the subjects that approval compares), deletes the rows its statement saw, waiting for others that delete them, inserts under the unique key and
  commits. A search counts, queries by trigrams and then by vectors, and `Fuse` is
  reciprocal rank fusion with scores as fractions.

A request keeps its answer until its worker begins another, so that invariants can
speak of answers. Ghosts guard nothing: `from` (the versions current, or the version
read, when it mattered), `rows` and `complete` beside what is delivered, `purged` in
place of a deletion, so that counts can be compared with the log.

### Abstractions

- One namespace: namespaces share no row, no lock, no blob prefix and no dataset.
- A Turtle file is its content, SHA-256 is injective, parsing is a predicate.
- Labels in `Projection` are numbers in the order of publication. Explicit labels
  could order otherwise; the label order is used only to break ties of time.
- In `Projection` and `Publication` role checks precede the modelled part of each handler.
- In `Governance` an approval writes its approver also where the row already named the
  same one; retirement and deletion of the namespace are left to the other modules.
- In `Projection` the four-eyes, SHACL, deprecation, authorship and competency checks of
  approve are one nondeterministic refusal, possible before and after the look-up of the
  version that will be superseded.
- A Blob upload is atomic and does not take effect after its process died.
- A request waiting for the row of a namespace deleted and created again meanwhile is
  refused, as the row it waited for is gone.
- The repairs of several graphs are one step whose failure leaves any part undone;
  that counts as one fault.
- Namespaces share the loader: the failure of one load stopping the start for all
  is not modelled.
- In the environment of `Reading` the commits of approvals follow one another in order,
  as `CurrentNeverReturns` proves for one request at a time, and the later one is current.
  The approvals themselves may overlap, up to `Overlap` of them: each was checked against a version that
  was current before (`Approve`). That two versions may then be approved is in `Projection`.
- A question of a search orders all terms by their distance, as the vector route does.
- `Catalog` is one namespace's; comments, statistics and keys of columns, which are
  joined to a column by its name, are left out.
- In `Reading` a behaviour has a quota of each kind of request and outside event; time
  is the number of requests begun. Query text, hash, actor and filters of readers are
  left out; a query is its form and the terms it asks for.
- A mapping of a virtual graph is what `parse_mapping` summarises. Distances of a search
  are the orders of the terms on each route.
- `Health` leaves out the age of the version, SHACL violations, versions not projected
  and the number of questions; its window of references is longer than a behaviour.

## 3. Runs

| Run | What it shows | Bounds |
|---|---|---|
| `publication` | the invariants of the record, the action properties and the refinement, whatever two requests interleave, fail or die of | 2 requests at a time, unbounded in number; 3 contents, explicit labels that collide with automatic ones and one that cannot be numbered |
| `publication_live` | no request waits forever | fewer documents, one malformed |
| `projection_sequential` | marks, review states, manifest and store agree; a current version is not lost; the states follow the lifecycle | 1 worker, 3 versions, 8 requests, 2 faults |
| `projection_concurrent` | nothing unreviewed is served, reconcile converges after any race | 2 workers, 2 versions, 4 requests, 1 fault |
| `projection_live` | every request ends, also when two wait for each other's rows | 2 workers, 2 versions, `Retain` 1, 4 requests, no fault |
| `governance` | four eyes, independence of the criteria, numbering of the revisions, the last owner | 2 requests at a time, 5 in all; an administrator and another principal, a namespace just created or with two owners; 1 version |
| `catalog` | nothing outlives its source, no observation is replaced by an older one, an answer is one run's, the sweep's sum; the refinement | an owner's scan and the sweep, 2 sources of which one changes once, 3 moments, 3 ids |
| `reading` | counts, pages, lock order, answers, stored mappings, unique keys, reports and the index, each true of something that was there | 2 requests at a time, 18 loads of three to five requests and events; 2 namespaces, 4 terms, pages of 1, at most 1 row, 2 triples and 3 probes |
| `published_ttl`, `retired_rebuilt`, `two_approved`, `stale_default` | counterexamples, section 5 | as small as shows them |

Why these bounds are enough. In `publication` there is no bound on steps: labels are
finite because each content is recorded at most once. Two requests are enough for
every pairwise race around one lock; a third only waits. In `projection_sequential`,
eight requests are a version's whole life and its successor's (publish, submit,
approve, publish, submit, approve) and two more, such as a retirement and a
reconcile; two faults are a failed call and the restart that makes it visible. In
`projection_concurrent` the namespace starts with one version approved and a second
one in review or still a draft, so that four requests are racing ones and a
reconcile after them. In `projection_live` the first version is approved and the second in review.
An approval holds the second and waits for the first while a retirement holds the first;
after retire and unretire, which unmark both versions, the third and fourth request
are an approval and a reconcile, or two reconciles, that wait for each other. A retirement
and a reconcile would need one more.

In `governance` five requests are publish, submit, a revision, the approval it races
with, and one more that changes a role or rejects; two revocations or a grant and a
revocation race in two. Two principals are the author and the other pair of eyes.

In `catalog` three moments are two scans that begin at different times and a change, or
a sweep over both sources; of three ids the third is the one that a removed source
gets when it is registered again. The source that changes does so between two queries
of a scan, or between two scans; the changed shape drops a column and adds a table.

In `reading` a load (`MCQuotas`) is a question: which requests of which components run
into which events. Each holds the two requests that race, the event that moves the
ground under them (an approval, a projection, a retirement, a removal with a new
registration, a crash, a failed call) and, where it matters, a reader afterwards.
Requests of components that share no state are not in one load. Limits are the
smallest that can be reached: a page of one row needs as many pages as rows, one row
cuts a `SELECT` of two, three probes leave one of the targets out. The base IRI of one
namespace extends that of the other, and the shapes have two target classes, since
both are cases in the code. One worker's name is as good as another's, hence the
symmetry.

`CHECK_DEADLOCK FALSE` in the projection, governance, catalog and reading runs: when the
requests, moments or quotas of the bound are used up, the system rests. `Publication` has no such bound and its runs check deadlock.

Fairness. `Publication!FairSpec` and `Projection!FairSpec` owe each request its own
steps: every outside call in the code ends in an answer or a timeout, and
PostgreSQL serves those who wait for a row lock in the order they came. New requests,
faults, restarts and the loader are owed nothing.

## 4. Proofs

`PublicationProofs` proves for any set of workers, contents and labels what
`publication` checks for two and three. The inductive invariant is `IInv`: the type
invariant, `KnowledgeHolds` and the four safety invariants. `NoOrphanedTTL` alone is not inductive: a delete
that drops the row must still know there is no file, and a publish that inserts must
still know what it read. `KnowledgeHolds` states that: whoever is past the lock holds
it, and what it read under it is still so (the row exists and is active, the content
and the base are as they were, the file it uploaded is in place). Each action is one
step of the proof, each conjunct one step below it. The action properties
(`NothingAddedUnlessActive`, `ResendIsReuse`) and the refinement of
`NamespaceArchive` follow from the invariant for each step. Assumed is only
`Publication!Constants`, which TLC evaluates.

`ProjectionProofs` has four parts. The first is about `decide_projection`: at most one
current version even if several are approved (the sort key is a strict total order),
which is approved and also loaded by name; no draft is loaded, and with a retention of
zero no superseded version. The second is for any number of workers, versions and
faults: `TypeOK` and `OnlyReviewedServed`. A store is filled from a manifest, and a
manifest from a decision, made earlier by requests that may have died since; so the
inductive invariant `IInv` says of everything a version can be carried by (`manifest`, the
store, the loader's copy, the sheet, the targets or the repair plan a request holds,
`JobsCarry`) that what it would serve was submitted once, and what it would make
current was approved once (`submittedEver`, `approvedEver`, which only grow). The third
part is for one request at a time, which it assumes as `OneWorker`:
`AtMostOneApproved`, `ProjectedMeansServed`, `CurrentNeverLost`, the refinement of
`ReviewLifecycle`, and that the current version only moves on (`CurrentMovesOn`), on which
the environment of `Reading` rests. With two, TLC refutes the first (section 5). `SoleInv` adds to `IInv` that one version at most is approved,
that a mark means the version is shown while the store can be trusted (`MarksTrue`), and
what the request in flight knows of the state it acts upon (`Knows`): what it is about to
supersede is all that is approved, and the marks that are left when it retires the
namespace are those it will clear.
The fourth part is for any number of workers again: `ReconcileConverges`. `ConvInv` follows
each reconcile (`Tracked`): faults and requests are only counted upwards, so as long as the
counts are those it noted when it began, all others are idle (`Others`), nothing has
failed and nobody but itself has moved, and what it has compared or repaired so far is still
so (`Progress`, one conjunct per place in the protocol: what is unprojected is to do, in
hand or marked; the plan is the difference between the store and the versions; the graphs
are those of the plan and then those the versions call for). It assumes nothing of
the state in which the reconcile began.

`GovernanceProofs` proves all that `governance` checks for any principals, versions,
roles to start from and number of requests. None of it is inductive alone, since a
request acts upon what it read before others committed. The inductive invariant
`IInv` adds `Numbering` (revisions are 1, 2, ... up to their count, so that the active
one is the count, `ActiveIsNewest`), `Audited` (a decision names a revision that
exists) and `Knowledge`, what a request in flight knows: the revision it numbered
after exists; more than one owner was listed if it revokes one; the version it
decides on is published, and not by the approver; the revision whose authorship it
checked was not the author's, and the one it evaluated is not older. That this
knowledge outlives the steps of others rests on three facts, each a lemma: a
published version keeps author and time (`VersionsStay`), revisions are only added, at
the end (`NumberingStep`), so a revision that exists does not change its author
(`AuthorshipStays`). Assumed is only `Governance!Constants`, which TLC evaluates.

`CatalogProofs` proves all that `catalog` checks, the refinement included, for any
sources, shapes, owners and bounds. `CInv` has five parts. A scan in flight knows
that its source has kept its name or is gone for good, that its run, if it is left, is
as it was started and nobody else's, and that what it has read was not replaced before it
began (`Fresh`, the reason for `CatalogFresh`). A succeeded run inherits this; the sweep
accounts for each source it listed as still to do, in hand, reached or failed
(`SweepInv`); a reader relies on a succeeded run staying as it is (`ReaderInv`). The refinement
shows each step to be `Register`, `Remove`, `Observe` or a stutter of the abstract
catalog.

The proofs about `Reading` are one development in four modules. `RequestProofs` begins with
what they share: a step is `Quiet`, in that it writes no table and leaves no request in a
place that an invariant speaks of, or it is in one of a few groups named for the tables
they write (`Steps`); and a request that moved did so by a step of its own kind
(`Movers`). What each invariant says is chiefly what a request in flight still knows.

- `RequestProofs`. The audit trail only grows, though its ids are taken before the commit
  (`TrailInv`). `CountsMatch`, for any number of overlapping, failing and purged recordings: a recording
  in flight has an id below the counter, in no row and in no other recording, and
  holds rows of its own terms only (`AccessInv`). `NoLockCycle`: the terms of a recording
  ascend (`Increasing`) and it holds a prefix of them (`LocksInv`), so a recording waits for a
  row beyond all those it holds, in its own namespace; of a set of recordings that all
  wait, the one whose first missing row is greatest would wait for a greater one.
  `PagesComplete`: what is still due to a reader and was not purged lies below its cursor
  (`PagesInv`), for rows come with any id but those there at the start have theirs.
- `RegistersProofs`. `OneRowPerKey`: what a request found under its key has that key as long as it is
  there, and each mapping has an audited declaration (`RegistersInv`). `ReportsTruthful`: what a
  list or a health report has collected was true of a version between the one current
  when it began and the one current now (`Truth`), and what is called referenced was in a recorded
  answer, by `CountsMatch` (`ReportsInv`).
- `MediationProofs`. `RevisionsGrounded`: while a revision is checked and not yet stored, what it was
  checked against remains (observations go with their source only, and versions are
  never taken back), the revision before its own is there as long as the source is,
  and of two insertions of one number one waits (`MediationInv`). `AnswersHonest`: of an answer in the
  making what is known of its rows, its cut and its version (`AnswersInv`); of a measurement that
  each target is planned, or left out by the limit and then counted (`PlanIsRight`, by induction over
  the targets), so that nothing skipped means that everything was probed.
- `SearchProofs`. `SearchSound`: what a rebuild in flight has doomed is, of each earlier rebuild, all
  its rows or none (`Whole`), which deleting what is left of it keeps; once it has deleted nobody else
  can take these rows, and once it has inserted nobody else can bring the same terms, by
  the unique key and its waiting (`DoomSound`, `Apart`, `IndexInv`). No assumption is made of what two
  versions have in common. A namespace with rows never loses its last (`NoneEmptied`), so a search that
  counted some finds some by vectors. `Fuse` orders by score and code point, a strict total
  order whatever the ranks, so that its positions are met by one term each (`Fused`). And
  `TypeOK`, which rests on all of the invariants above.

Some of these facts need induction over the length of a sequence: the sums of probes and
the plan, the terms in order, the last row locked, the last page. The library's theorem
for it cannot be cited, so `UpTo`, `LeastOf` and `GreatestOf` obtain what is needed from
the library's well-founded order of finite sets, and sequences are chosen by
their places (`Chosen`) rather than recursively.

Assumed are the constants' assumptions, which TLC evaluates in the runs: `Constants` of
`Publication`, `Governance` and `Catalog`, and of the modules of `Reading` `Vocabularies`,
`PagesNotEmpty`, `Gateway`, `Mediation`, `Measuring`, `Registers` and `Search`; the version set
of `Retention` is assumed finite where its size counts.

Model-checked only: liveness (`EventuallyAnswered`, `RequestsEnd`), which is out of the
prover's reach. All other properties of the passing runs are theorems.

## 5. Where code and documents disagree

1. `published_ttl`. A publish that asks for the label of an existing version uploads
   over its Turtle file before the unique constraint refuses the row. The row keeps
   its hash; readers and the next rebuild get the refused content. Automatic
   numbering arrives there too, after a lower explicit label.
2. `retired_rebuilt`. Reconcile writes the manifest of an active namespace whether or
   not the namespace is retired, and the next restart of the store serves it.
3. `two_approved`. Two overlapping approvals do not see each other's version, and
   both stay approved. `decide_projection` then chooses one of them as current, so
   agents get one version still.
4. `stale_default`. Reconcile asks whether the default graph is empty and not which
   version it holds.

Met while modelling, and stated or described without a run of their own: when the
dataset of a retired namespace could not be deleted, reconcile removes its named
graphs and leaves the default graph (`ReconcileStopsRetired`, refuted by TLC in the
configuration of `retired_rebuilt`); an approval and a rejection of the same version
can both pass the status check, and the namespace is left without a current version,
because the previous one was superseded (`CurrentNeverLost` holds only of one request
at a time); two reconciles, an approval and a reconcile, or an approval and a
retirement can wait for each other's rows (`Deadlocked`), and PostgreSQL aborts one, whose
client gets an error for what it may simply repeat; two owners can revoke each other at the same time,
although `routers/namespaces.py` says the last one cannot be revoked (`OwnerStays`, refuted), and
a grant can demote the last owner; a revision that its author commits between the two
readings of an approval is evaluated without the authorship check of ADR-0029
(`CriteriaNeverSelfRevised`, refuted). TLC refutes both with the constants of
`Governance.cfg`; the runs check what does hold, `LastOwnerStays` and
`CriteriaIndependent`, whose exceptions are exactly these races.

Of the components around the vocabulary, described without a run of their own:
- `services/divergence.py:218` passes over a target whose shape was probed for another
  target class, against the comment at line 215 that everything unprobed is listed as
  unknown; it is missing from the report. `MeasureHonest` states what does hold.
- `declare`, `assign` and `grant` write the columns that differ from what was read: two
  that overlap can leave a row with a column of each (`Written`).
- `routers/mappings.py:341` reads the row again after the commit and answers 500 if it was
  revoked meanwhile, although the declaration took effect.
- The access log names a source and a revision; after the source is registered again
  the same name and number mean another mapping.
- Two rebuilds of the index that overlap on versions without a common embedded term can
  leave the rows of both, if the index was empty or both deleted before either committed:
  the unique key has nothing to refuse. Approval compares all subjects of a
  version (`core/deprecation.py:245-246`), the index has only classes and properties
  (`core/embedding.py:88-94`), so a term that is a subject still but no longer a class
  leaves the index without blocking the approval. `repositories/embeddings.py:143-144` reads one
  row, because version and model are the same in all rows of a namespace; here they
  are not. Each row is still one of an approved version, with all others of that
  rebuild and one for its term, which is what `SearchSound` states.
- A request that fails in the HTTP client itself (`core/embedding.py:309`, a timeout or a
  refused connection) raises no `EmbeddingError` and so is not the search without
  vectors that a refusal of the model becomes.
- Two purges that overlap both report having deleted the rows they both selected.
- A run whose scanner died stays `running`; nothing ends it.

## 6. Plan

Done: the record, review and projection, retention, governance, the scan catalog with
its abstract promise, and the readers of a published vocabulary composed in `Reading`;
proofs of all of them as far as section 4 says.

Left, in order of what they would add:

1. Liveness of `Catalog` and `Reading`: that a sweep ends and that every request is
   answered, under fairness to the steps of each request.
2. The whole of `Vocabulary`'s environment derived from `Projection`, of which
   `CurrentNeverReturns` is the part about the current version.
3. The loader's paging of the listing, with other namespaces in the same load.
4. Diff and the warnings of deprecation as operators with reference definitions.

## 7. Not modelled, and why

- Token validation, SPARQL and SHACL evaluation, R2RML parsing, embedding and language
  models are libraries or services. That the SPARQL guard recognises the form of a text
  is not modelled; what it lets through is.
- The web UI and the MCP server keep no state that outlives a call; the MCP server
  forwards each tool to the API with the caller's token. Infrastructure and migrations
  run before the system does.
- Diff, the warnings of deprecation, the RDF of the exports, proposals and JSON-LD are
  functions of their input, without order or failure to interleave with.
- Of the loader, manifests of schema 1, `PRESERVE_EXISTING_TDB`, local directories and the
  paging of the listing (`load-snapshot.sh:435` reads one page) are left out.
- Datasets without a namespace, which `create_namespace` can leave behind, are reported and
  never deleted by the code, and are not in the model.
- A grant of the role it just read writes nothing (`repositories/roles.py:52`). `Governance`
  has this case; what it means for a role changed in between is not stated as a
  property, since the answer was true when it was read.
