----------------------------- MODULE Projection -----------------------------
(***************************************************************************)
(* Review and projection of the versions of one namespace.  PostgreSQL     *)
(* holds their states; the manifest (a file in Blob Storage) and the       *)
(* triple store are projections of it, written after each commit by the    *)
(* request that committed.  Their failures are swallowed; POST             *)
(* /admin/reconcile repairs them, and a restarted store is rebuilt by the  *)
(* loader from the Turtle files and the manifest alone.                    *)
(*                                                                         *)
(* A request is refused before it changes anything when its version is not *)
(* in the state it needs; such refusals are not steps here.  The           *)
(* acceptance checks of approve (four eyes, SHACL, deprecation, questions) *)
(* are one: ApprovalRefused.  Versions are numbered in the order in which  *)
(* they were published.  Their Turtle files are those of Publication.tla,  *)
(* which always exist.                                                     *)
(***************************************************************************)
EXTENDS Retention

CONSTANTS Workers,        \* API requests in flight at the same time
          Versions,       \* a set of numbers
          Retain,         \* SUPERSEDED_RETAIN
          InitialStatus,  \* the states the namespace may start from
          MaxRequests,    \* bound: requests served
          MaxFaults       \* bound: failed calls, crashes and store restarts

VARIABLES retired,     \* the namespace is retired
          status,      \* state of each version, "none" before it is published
          approvedAt,  \* its approved_at, 0 for NULL
          projected,   \* its projected_at is not NULL
          manifest,    \* versions/<ns>/_state.json: what the loader shall load
          store,       \* the triple store and the namespace's dataset in it
          job,         \* what each request is doing
          clock,       \* number of approvals stamped
          served,      \* number of requests begun
          faults,      \* number of faults so far
          submittedEver, approvedEver,  \* history, for the properties
          misbuilt     \* the store was rebuilt from something outdated

record == <<retired, status, approvedAt, projected>>
bounds == <<clock, served, faults>>
history == <<submittedEver, approvedEver, misbuilt>>
vars == <<record, manifest, store, job, bounds, history>>

-----------------------------------------------------------------------------
Statuses == {"none", "draft", "in-review", "approved", "superseded"}

ASSUME Constants ==
    /\ Versions \subseteq Nat \ {0} /\ IsFiniteSet(Versions)
    /\ Retain \in Nat /\ MaxRequests \in Nat /\ MaxFaults \in Nat
    /\ InitialStatus \subseteq [Versions -> Statuses]

Sheet == [default : SUBSET Versions, named : SUBSET Versions]
EmptySheet == [default |-> {}, named |-> {}]

\* Mutant: drafts are loaded like versions in review.
SheetWithDrafts(stat, at, isRetired) ==
    IF isRetired THEN EmptySheet
                 ELSE [Targets(stat, at, Retain) EXCEPT
                           !.named = @ \cup InState(stat, "draft")]

\* _build_manifest: every version of a retired namespace is skip:retired.
BuildManifest(stat, at, isRetired) ==
    IF isRetired THEN EmptySheet ELSE Targets(stat, at, Retain)

Target == Targets(status, approvedAt, Retain)

\* Mutant: drafts are projected too.
UnprojectedOrDraft == {v \in Versions : ~projected[v] /\ status[v] # "none"}

\* Versions that reconcile looks at: unprojected, and not draft.
Unprojected == {v \in Versions : ~projected[v] /\ status[v] \notin {"none", "draft"}}

Idle == [pc |-> "idle"]

\* A request for version v at step p.  `writes` are the columns its UPDATE sets.
Review(p, op, v) ==
    [pc |-> p, op |-> op, v |-> v, writes |-> {},
     previous |-> {}, stamp |-> 0, ok |-> TRUE, sheet |-> EmptySheet]

\* A request about the whole namespace, once it has committed.
Admin(op) == [pc |-> "manifest", op |-> op, sheet |-> EmptySheet]

\* A retirement before that: `todo` are the versions whose marks it has still
\* to clear, `putting` the one it is about to, `marked` the rows it has updated.
Retirement == [pc |-> "clear", op |-> "retire",
               todo |-> {v \in Versions : status[v] # "none"},
               putting |-> {}, marked |-> {}, sheet |-> EmptySheet]

Busy(w) == job[w] # Idle

\* A reconcile and what it has read: `todo` are the unprojected versions it
\* still has to project, `default` those among them it found approved, `actual`
\* the graphs listed by the store, `plan` the repairs it has decided on.
\* `marked` are the rows it has updated without committing.  `undisturbed` is
\* history: whether it began alone, and the faults and requests then.
NoPlan == [missing |-> {}, excess |-> {}, current |-> {}, stray |-> {}]
Reconcile(w) == [pc |-> "datasets", op |-> "reconcile", sawRetired |-> retired,
                 todo |-> {}, default |-> {}, putting |-> {}, marked |-> {},
                 actual |-> {}, plan |-> NoPlan, sheet |-> EmptySheet,
                 undisturbed |-> [alone |-> \A u \in Workers \ {w} : ~Busy(u),
                                  faults |-> faults, served |-> served + 1]]

Goto(w, p) == job' = [job EXCEPT ![w] = IF p = "answer" THEN Idle
                                        ELSE [@ EXCEPT !.pc = p]]
Done(w) == job' = [job EXCEPT ![w] = Idle]
At(w, p) == job[w].pc = p

\* Version rows that a transaction has updated and not yet committed:
\* PostgreSQL keeps them locked.
Locked(u) ==
    IF ~Busy(u) THEN {}
    ELSE CASE job[u].pc \in {"previous", "supersede"} -> {job[u].v}
           [] job[u].op = "reconcile"                 -> job[u].marked
           [] job[u].pc \in {"clear", "unmark"}       -> job[u].marked
           [] OTHER                                   -> {}

\* The rows that the next step of a request updates.
Awaited(u) ==
    IF ~Busy(u) THEN {}
    ELSE CASE job[u].pc = "update" -> {v \in {job[u].v} : job[u].writes # {}}
           [] job[u].pc = "supersede" -> job[u].previous
           [] job[u].pc = "mark" -> {job[u].v}
           [] job[u].pc \in {"remark", "unmark"} -> job[u].putting
           [] OTHER -> {}

WaitsFor(w, u) == w # u /\ Awaited(w) \cap Locked(u) # {}

\* Nobody else holds the row locks the request needs now.
RowsFree(w) == \A u \in Workers : ~WaitsFor(w, u)

\* No retirement is under way: it holds the lock of the namespace row.
NamespaceFree == \A u \in Workers : ~(Busy(u) /\ job[u].pc \in {"clear", "unmark"})

\* The call fails although the store or Blob Storage is there.
Fault == faults < MaxFaults /\ faults' = faults + 1
NoFault == UNCHANGED faults

\* Mutant: a dataset comes to be with the first graph put into it.
ReachableWhenUp == store.state = "up"

\* The dataset's endpoints answer.
Reachable == store.state = "up" /\ store.dataset

-----------------------------------------------------------------------------
\* The namespace starts in a settled state: everything is projected.
Init == /\ retired = FALSE
        /\ status \in InitialStatus
        /\ approvedAt = [v \in Versions |->
                            IF status[v] \in {"approved", "superseded"} THEN v ELSE 0]
        /\ projected = [v \in Versions |-> status[v] \notin {"none", "draft"}]
        /\ manifest = Target
        /\ store = [state |-> "up", dataset |-> TRUE, staged |-> {},
                    named |-> Target.named, default |-> Target.default]
        /\ job = [w \in Workers |-> Idle]
        /\ clock = Cardinality(Versions)
        /\ served = 0
        /\ faults = 0
        /\ submittedEver = {v \in Versions : status[v] \notin {"none", "draft"}}
        /\ approvedEver = {v \in Versions : status[v] \in {"approved", "superseded"}}
        /\ misbuilt = FALSE

Begin(w, j) == /\ ~Busy(w)
               /\ served < MaxRequests
               /\ served' = served + 1
               /\ job' = [job EXCEPT ![w] = j]
               /\ UNCHANGED <<manifest, store, clock, faults, history>>

\* Publication.tla's RecordCreated, and the manifest refresh after it.
Publish(w) ==
    /\ ~retired /\ NamespaceFree
    /\ \E v \in Versions :
          /\ status[v] = "none"
          /\ \A u \in Versions : u < v => status[u] # "none"
          /\ status' = [status EXCEPT ![v] = "draft"]
    /\ Begin(w, Admin("publish"))
    /\ UNCHANGED <<retired, approvedAt, projected>>

\* Mutant: a retired namespace goes on being reviewed.
BeginReviewRetired(w, op, needs, next) ==
    /\ \E v \in Versions : status[v] = needs /\ Begin(w, Review(next, op, v))
    /\ UNCHANGED record

\* The state and retirement checks at the head of submit, approve and reject:
\* read without a lock.
BeginReview(w, op, needs, next) ==
    /\ ~retired
    /\ \E v \in Versions : status[v] = needs /\ Begin(w, Review(next, op, v))
    /\ UNCHANGED record

BeginSubmit(w) == BeginReview(w, "submit", "draft", "load")
\* Mutant: what is approved can be rejected.
BeginRejectApproved(w) == BeginReview(w, "reject", "approved", "load")
BeginReject(w) == BeginReview(w, "reject", "in-review", "load")
BeginApprove(w) == BeginReview(w, "approve", "in-review", "check")

\* get_locked, the check, set_retired and list_for: not visible to others
\* before the commit, which comes after all marks are cleared.
Retire(w) ==
    /\ ~retired /\ NamespaceFree
    /\ Begin(w, Retirement)
    /\ UNCHANGED record

Unretire(w) ==
    /\ retired
    /\ retired' = FALSE
    /\ Begin(w, Admin("unretire"))
    /\ UNCHANGED <<status, approvedAt, projected>>

BeginReconcile(w) == Begin(w, Reconcile(w)) /\ UNCHANGED record

-----------------------------------------------------------------------------
(* submit, approve, reject and retire: the transaction.                    *)

\* Mutant: the state changes and the mark stays.
KeepProjected(w, to) == IF status[job[w].v] # to THEN {"status"} ELSE {}

\* set_status loads the row and assigns to it; the UPDATE then sets the columns
\* that differ from what was loaded, whatever they hold by then.
ColumnsWritten(w, to) == {c \in {"status", "mark"} :
                             \/ c = "status" /\ status[job[w].v] # to
                             \/ c = "mark" /\ projected[job[w].v]}

LoadRow(w) ==
    /\ At(w, "load")
    /\ job' = [job EXCEPT ![w].pc = "update", ![w].writes =
                  ColumnsWritten(w, IF job[w].op = "submit" THEN "in-review" ELSE "draft")]
    /\ UNCHANGED <<record, manifest, store, bounds, history>>

\* The state and the mark of the request's version after its UPDATE.
StatusSet(w, to) == IF "status" \in job[w].writes
                    THEN [status EXCEPT ![job[w].v] = to] ELSE status
MarkReset(w) == IF "mark" \in job[w].writes
                THEN [projected EXCEPT ![job[w].v] = FALSE] ELSE projected

\* The commit of a state change; the manifest is next.
Commit(w, s) ==
    /\ RowsFree(w)
    /\ status' = s
    /\ projected' = MarkReset(w)
    /\ Goto(w, "manifest")
    /\ UNCHANGED <<retired, manifest, store, bounds>>

CommitSubmit(w) ==
    /\ At(w, "update") /\ job[w].op = "submit"
    /\ Commit(w, StatusSet(w, "in-review"))
    /\ submittedEver' = submittedEver \cup {job[w].v}
    /\ UNCHANGED <<approvedAt, approvedEver, misbuilt>>

CommitReject(w) ==
    /\ At(w, "update") /\ job[w].op = "reject"
    /\ Commit(w, StatusSet(w, "draft"))
    /\ UNCHANGED <<approvedAt, history>>

\* Mutant: only an older version is superseded.
CurrentApprovedBefore(v) == {u \in InState(status, "approved") : u < v}

\* current_approved: the first other approved version, in id order.
CurrentApproved(v) == {u \in InState(status, "approved") \ {v} :
                          \A t \in InState(status, "approved") \ {v} : u <= t}

FindPrevious(w) ==
    /\ At(w, "check")
    /\ job' = [job EXCEPT ![w].pc = "decide", ![w].previous = CurrentApproved(job[w].v)]
    /\ UNCHANGED <<record, manifest, store, bounds, history>>

\* Four eyes and SHACL before, deprecation, authorship and competency questions
\* after the previous version was looked up.
ApprovalRefused(w) ==
    /\ At(w, "check") \/ At(w, "decide")
    /\ Done(w)
    /\ UNCHANGED <<record, manifest, store, bounds, history>>

\* The checks pass; the time is fixed here, and set_status loads the row.
Decide(w) ==
    /\ At(w, "decide")
    /\ clock' = clock + 1
    /\ job' = [job EXCEPT ![w].pc = "update", ![w].stamp = clock + 1,
                  ![w].writes = {"stamp"} \cup ColumnsWritten(w, "approved")]
    /\ UNCHANGED <<record, manifest, store, served, faults, history>>

\* The UPDATE of the approved version: its row stays locked over the reads from
\* Blob Storage for the difference that the audit records.
UpdateApproved(w) ==
    /\ At(w, "update") /\ job[w].op = "approve"
    /\ RowsFree(w)
    /\ Goto(w, "previous")
    /\ UNCHANGED <<record, manifest, store, bounds, history>>

\* set_status loads the previous version: if it is superseded by now, there is
\* no UPDATE.
LoadPrevious(w) ==
    /\ At(w, "previous")
    /\ job' = [job EXCEPT ![w].pc = "supersede",
                  ![w].previous = @ \ InState(status, "superseded")]
    /\ UNCHANGED <<record, manifest, store, bounds, history>>

CommitApprove(w) ==
    LET previous == job[w].previous  approved == StatusSet(w, "approved") IN
    /\ At(w, "supersede")
    /\ Commit(w, [u \in Versions |-> IF u \in previous THEN "superseded" ELSE approved[u]])
    /\ approvedAt' = [approvedAt EXCEPT ![job[w].v] = job[w].stamp]
    /\ approvedEver' = approvedEver \cup {job[w].v}
    /\ UNCHANGED <<submittedEver, misbuilt>>

\* clear_projected of the next version, in id order, loads its row: if it is
\* not marked there is no UPDATE.
ClearNext(w) ==
    /\ At(w, "clear")
    /\ \E v \in job[w].todo :
          LET left == [job[w] EXCEPT !.todo = @ \ {v}] IN
          /\ \A u \in job[w].todo : v <= u
          /\ job' = [job EXCEPT ![w] =
                        IF projected[v]
                        THEN [left EXCEPT !.pc = "unmark", !.putting = {v}]
                        ELSE left]
    /\ UNCHANGED <<record, manifest, store, bounds, history>>

\* The row stays locked until all have been cleared.
Unmark(w) ==
    /\ At(w, "unmark")
    /\ RowsFree(w)
    /\ job' = [job EXCEPT ![w].pc = "clear", ![w].putting = {},
                          ![w].marked = @ \cup job[w].putting]
    /\ UNCHANGED <<record, manifest, store, bounds, history>>

CommitRetire(w) ==
    /\ At(w, "clear") /\ job[w].todo = {}
    /\ retired' = TRUE
    /\ projected' = [v \in Versions |-> projected[v] /\ v \notin job[w].marked]
    /\ job' = [job EXCEPT ![w] = Admin("retire")]
    /\ UNCHANGED <<status, approvedAt, manifest, store, bounds, history>>

-----------------------------------------------------------------------------
(* After the commit: the manifest, then the store.  A failed call may or   *)
(* may not have taken effect, and the request goes on.                     *)

ReadManifest(w) ==
    /\ At(w, "manifest")
    /\ job' = [job EXCEPT ![w].pc = "write",
                          ![w].sheet = BuildManifest(status, approvedAt, retired)]
    /\ UNCHANGED <<record, manifest, store, bounds, history>>

\* The step that follows the manifest.
AfterManifest(op) == CASE op \in {"submit", "approve"} -> "named"
                       [] op = "reject"                -> "unname"
                       [] op = "retire"                -> "drop"
                       [] op = "reconcile"             -> "end"
                       [] OTHER                        -> "answer"

WriteManifest(w) ==
    /\ At(w, "write")
    /\ \/ NoFault /\ manifest' = job[w].sheet
       \/ Fault /\ manifest' \in {manifest, job[w].sheet}
    /\ Goto(w, AfterManifest(job[w].op))
    /\ UNCHANGED <<record, store, clock, served, history>>

\* Store calls that turn the store into `after` when they succeed, and leave
\* it as one of `others` when one of them fails.  No call, no failure.
Succeeds(after) == Reachable /\ NoFault /\ store' = after
FailsIn(others) == \/ ~Reachable /\ NoFault /\ UNCHANGED store
                   \/ Reachable /\ others # {store} /\ Fault /\ store' \in others
Fails(after) == FailsIn({store, after})

\* A question to the store.
Answered == Reachable /\ NoFault /\ UNCHANGED store
Unanswered == /\ IF Reachable THEN Fault ELSE NoFault
              /\ UNCHANGED store

PutNamed(V) == [store EXCEPT !.named = @ \cup V]
DropNamed(V) == [store EXCEPT !.named = @ \ V]
PutDefault(V) == [store EXCEPT !.default = V]

ProjectNamed(w) ==
    /\ At(w, "named")
    /\ \/ /\ Succeeds(PutNamed({job[w].v}))
          /\ Goto(w, IF job[w].op = "approve" THEN "default" ELSE "mark")
       \/ /\ Fails(PutNamed({job[w].v}))
          /\ job' = [job EXCEPT ![w] =
                        IF @.op = "approve" THEN [@ EXCEPT !.pc = "default", !.ok = FALSE]
                                            ELSE Idle]
    /\ UNCHANGED <<record, manifest, clock, served, history>>

\* Tried even when the named graph failed; marked only if both succeeded.
ProjectDefault(w) ==
    /\ At(w, "default")
    /\ \/ /\ Succeeds(PutDefault({job[w].v}))
          /\ Goto(w, IF job[w].ok THEN "mark" ELSE "answer")
       \/ /\ Fails(PutDefault({job[w].v}))
          /\ Goto(w, "answer")
    /\ UNCHANGED <<record, manifest, clock, served, history>>

MarkProjected(w) ==
    /\ At(w, "mark")
    /\ RowsFree(w)
    /\ projected' = [projected EXCEPT ![job[w].v] = TRUE]
    /\ Goto(w, "answer")
    /\ UNCHANGED <<retired, status, approvedAt, manifest, store, bounds, history>>

\* reject: delete_graph, for which 404 is success.
Unname(w) ==
    /\ At(w, "unname")
    /\ Succeeds(DropNamed({job[w].v})) \/ Fails(DropNamed({job[w].v}))
    /\ Goto(w, "answer")
    /\ UNCHANGED <<record, manifest, clock, served, history>>

Gone == [store EXCEPT !.dataset = FALSE, !.named = {}, !.default = {}]

DropDataset(w) ==
    /\ At(w, "drop")
    /\ Succeeds(Gone) \/ Fails(Gone)
    /\ Goto(w, "answer")
    /\ UNCHANGED <<record, manifest, clock, served, history>>

-----------------------------------------------------------------------------
(* reconcile, of which each store call and each read of PostgreSQL is a    *)
(* step.  BeginReconcile has read the namespace row.                       *)

\* list_datasets fails: the request fails.
ReconcileFails(w) ==
    /\ At(w, "datasets")
    /\ \/ store.state # "up" /\ NoFault
       \/ store.state = "up" /\ Fault
    /\ Done(w)
    /\ UNCHANGED <<record, manifest, store, clock, served, history>>

\* A missing dataset is created, unless the namespace was seen retired.
Datasets(w) ==
    /\ At(w, "datasets")
    /\ store.state = "up"
    /\ LET missing == ~job[w].sawRetired /\ ~store.dataset
           after == [store EXCEPT !.dataset = TRUE] IN
       \/ ~missing /\ NoFault /\ UNCHANGED store
       \/ missing /\ NoFault /\ store' = after
       \/ missing /\ Fault /\ store' \in {store, after}
    /\ Goto(w, IF job[w].sawRetired THEN "graphs" ELSE "unprojected")
    /\ UNCHANGED <<record, manifest, clock, served, history>>

ReadUnprojected(w) ==
    /\ At(w, "unprojected")
    /\ job' = [job EXCEPT ![w].pc = "project", ![w].todo = Unprojected,
                  ![w].default = Unprojected \cap InState(status, "approved")]
    /\ UNCHANGED <<record, manifest, store, bounds, history>>

\* One of them: its named graph, the default graph if it was approved, then
\* the mark.  Where a call fails, the rest is left out.
Put(V, D) == [store EXCEPT !.named = @ \cup V, !.default = IF D = {} THEN @ ELSE D]

ProjectNext(w) ==
    /\ At(w, "project")
    /\ \E v \in job[w].todo :
          LET default == {v} \cap job[w].default
              after == Put({v}, default)
              left == [job[w] EXCEPT !.todo = @ \ {v}] IN
          \/ /\ Succeeds(after)
             /\ job' = [job EXCEPT ![w] = [left EXCEPT !.pc = "remark", !.putting = {v}]]
          \/ /\ FailsIn({store, PutNamed({v}), after})
             /\ job' = [job EXCEPT ![w] = left]
    /\ UNCHANGED <<record, manifest, clock, served, history>>

\* The mark waits for the row if another transaction has it, and is not
\* committed before the end of the request.
MarkNext(w) ==
    /\ At(w, "remark")
    /\ RowsFree(w)
    /\ job' = [job EXCEPT ![w].pc = "project", ![w].putting = {},
                          ![w].marked = @ \cup job[w].putting]
    /\ UNCHANGED <<record, manifest, store, bounds, history>>

ProjectedAll(w) ==
    /\ At(w, "project") /\ job[w].todo = {}
    /\ Goto(w, "graphs")
    /\ UNCHANGED <<record, manifest, store, bounds, history>>

\* If the graphs cannot be listed, only the manifest is left to do.
ListGraphs(w) ==
    /\ At(w, "graphs")
    /\ \/ Answered /\ job' = [job EXCEPT ![w].pc = "compare", ![w].actual = store.named]
       \/ Unanswered /\ Goto(w, "remanifest")
    /\ UNCHANGED <<record, manifest, clock, served, history>>

\* Mutant: superseded versions may be in the store or not, whatever Retain says.
PlanLeavingSuperseded(sawRetired, actual) ==
    [missing |-> Target.named \ actual,
     excess  |-> actual \ (Target.named \cup InState(status, "superseded")),
     current |-> Target.default,
     stray   |-> actual \cap InState(status, "draft")]

\* The graphs of the store against those the versions call for.
RepairPlan(sawRetired, actual) ==
    IF sawRetired THEN [NoPlan EXCEPT !.excess = actual]
                  ELSE [missing |-> Target.named \ actual,
                        excess  |-> actual \ Target.named,
                        current |-> Target.default,
                        stray   |-> actual \cap InState(status, "draft")]

\* list_for, on what the store had listed.
CompareGraphs(w) ==
    /\ At(w, "compare")
    /\ job' = [job EXCEPT ![w].pc = "repair", ![w].actual = {},
                  ![w].plan = RepairPlan(job[w].sawRetired, job[w].actual)]
    /\ UNCHANGED <<record, manifest, store, bounds, history>>

RepairMissing(w) ==
    /\ At(w, "repair")
    /\ LET missing == job[w].plan.missing IN
       \/ Succeeds(PutNamed(missing))
       \/ FailsIn({PutNamed(V) : V \in SUBSET missing})
    /\ Goto(w, "sweep")
    /\ UNCHANGED <<record, manifest, clock, served, history>>

SweepExcess(w) ==
    /\ At(w, "sweep")
    /\ LET excess == job[w].plan.excess IN
       \/ Succeeds(DropNamed(excess))
       \/ FailsIn({DropNamed(V) : V \in SUBSET excess})
    /\ Goto(w, IF job[w].plan.current = {} THEN "resweep" ELSE "ask")
    /\ UNCHANGED <<record, manifest, clock, served, history>>

\* Only whether the default graph is empty is asked, not what it holds.
AskDefault(w) ==
    /\ At(w, "ask")
    /\ \/ /\ Answered
          /\ Goto(w, IF store.default = {} THEN "redefault" ELSE "resweep")
       \/ Unanswered /\ Goto(w, "resweep")
    /\ UNCHANGED <<record, manifest, clock, served, history>>

RepairDefault(w) ==
    /\ At(w, "redefault")
    /\ Succeeds(PutDefault(job[w].plan.current)) \/ Fails(PutDefault(job[w].plan.current))
    /\ Goto(w, "resweep")
    /\ UNCHANGED <<record, manifest, clock, served, history>>

\* The graphs of drafts are deleted a second time, as strays.
SweepStrays(w) ==
    /\ At(w, "resweep")
    /\ LET stray == job[w].plan.stray IN
       \/ Succeeds(DropNamed(stray))
       \/ FailsIn({DropNamed(V) : V \in SUBSET stray})
    /\ Goto(w, "remanifest")
    /\ UNCHANGED <<record, manifest, clock, served, history>>

\* The manifest is rebuilt without regard to retirement.
RereadManifest(w) ==
    /\ At(w, "remanifest")
    /\ job' = [job EXCEPT ![w].pc = "write",
                          ![w].sheet = BuildManifest(status, approvedAt, FALSE)]
    /\ UNCHANGED <<record, manifest, store, bounds, history>>

\* The session commits after the answer: the marks become visible.
EndReconcile(w) ==
    /\ At(w, "end")
    /\ projected' = [v \in Versions |-> projected[v] \/ v \in job[w].marked]
    /\ Done(w)
    /\ UNCHANGED <<retired, status, approvedAt, manifest, store, bounds, history>>

-----------------------------------------------------------------------------
(* A request is aborted or dies, the store dies and comes back.            *)

\* Mutant: only two reconciles that wait for each other are noticed.
DeadlockedReconciles(w) ==
    /\ At(w, "remark")
    /\ \E u \in Workers : At(u, "remark") /\ WaitsFor(w, u) /\ WaitsFor(u, w)
    /\ Done(w)
    /\ UNCHANGED <<record, manifest, store, bounds, history>>

\* Requests that wait for each other's rows, each for one that one other has:
\* PostgreSQL aborts one of them.
Deadlocked(w) ==
    /\ \E C \in SUBSET Workers :
          /\ w \in C
          /\ \A u \in C : /\ \E x \in C : WaitsFor(u, x)
                         /\ \E x \in C : WaitsFor(x, u)
    /\ Done(w)
    /\ UNCHANGED <<record, manifest, store, bounds, history>>

Crash(w) ==
    /\ Busy(w)
    /\ Fault
    /\ Done(w)
    /\ UNCHANGED <<record, manifest, store, clock, served, history>>

StoreCrash ==
    /\ store.state # "down"
    /\ Fault
    /\ store' = [Gone EXCEPT !.state = "down", !.staged = {}]
    /\ UNCHANGED <<record, manifest, job, clock, served, history>>

\* load-snapshot.sh lists and downloads the Turtle files.
LoaderStages ==
    /\ store.state = "down"
    /\ store' = [store EXCEPT !.state = "staging",
                             !.staged = Versions \ InState(status, "none")]
    /\ UNCHANGED <<record, manifest, job, bounds, history>>

\* Then it reads the manifest, and loads what that says of the files it has.
\* A namespace from which nothing is loaded gets no dataset.
LoaderReads ==
    /\ store.state = "staging"
    /\ LET loaded == [default |-> manifest.default \cap store.staged,
                      named |-> (manifest.named \cup manifest.default)
                                   \cap store.staged] IN
       /\ store' = [state |-> "loading", dataset |-> loaded.named # {}, staged |-> {},
                    named |-> loaded.named, default |-> loaded.default]
       /\ misbuilt' = (misbuilt \/ loaded # BuildManifest(status, approvedAt, retired))
    /\ UNCHANGED <<record, manifest, job, bounds, submittedEver, approvedEver>>

\* Fuseki starts on what was loaded.
LoaderServes ==
    /\ store.state = "loading"
    /\ store' = [store EXCEPT !.state = "up"]
    /\ UNCHANGED <<record, manifest, job, bounds, history>>

Request(w) == \/ Publish(w) \/ BeginSubmit(w) \/ BeginReject(w)
              \/ BeginApprove(w) \/ Retire(w) \/ Unretire(w)
              \/ BeginReconcile(w)
ReviewStep(w) == \/ LoadRow(w) \/ CommitSubmit(w) \/ CommitReject(w)
                 \/ FindPrevious(w) \/ ApprovalRefused(w) \/ Decide(w)
                 \/ UpdateApproved(w) \/ LoadPrevious(w) \/ CommitApprove(w)
                 \/ ClearNext(w) \/ Unmark(w) \/ CommitRetire(w)
                 \/ ProjectNamed(w) \/ ProjectDefault(w)
                 \/ MarkProjected(w) \/ Unname(w) \/ DropDataset(w)
                 \/ ReadManifest(w) \/ WriteManifest(w)
ReconcileStep(w) == \/ ReconcileFails(w) \/ Datasets(w) \/ ReadUnprojected(w)
                    \/ ProjectNext(w) \/ MarkNext(w) \/ ProjectedAll(w)
                    \/ ListGraphs(w) \/ CompareGraphs(w)
                    \/ RepairMissing(w) \/ SweepExcess(w)
                    \/ AskDefault(w) \/ RepairDefault(w) \/ SweepStrays(w)
                    \/ RereadManifest(w) \/ EndReconcile(w)
Store == StoreCrash \/ LoaderStages \/ LoaderReads \/ LoaderServes

Next == \/ \E w \in Workers : \/ Request(w) \/ ReviewStep(w)
                              \/ ReconcileStep(w) \/ Deadlocked(w) \/ Crash(w)
        \/ Store

Spec == Init /\ [][Next]_vars

\* Each call ends in an answer or a timeout, and PostgreSQL hands a row to
\* those who wait for it, or finds that they wait in a circle; requests, faults
\* and the loader's steps are not owed.
FairSpec == Spec /\ \A w \in Workers :
                       WF_vars(ReviewStep(w) \/ ReconcileStep(w) \/ Deadlocked(w))

-----------------------------------------------------------------------------
(* Correctness.                                                            *)

TypeOK ==
    /\ retired \in BOOLEAN
    /\ status \in [Versions -> Statuses]
    /\ approvedAt \in [Versions -> Nat]
    /\ projected \in [Versions -> BOOLEAN]
    /\ manifest \in Sheet
    /\ store \in [state : {"up", "down", "staging", "loading"},
                   dataset : BOOLEAN, staged : SUBSET Versions,
                   named : SUBSET Versions, default : SUBSET Versions]
    /\ clock \in Nat /\ served \in Nat /\ faults \in Nat
    /\ store.dataset \/ store.named \cup store.default = {}
    /\ submittedEver \subseteq Versions /\ approvedEver \subseteq Versions
    /\ misbuilt \in BOOLEAN

Current == Target.default
Quiet == \A w \in Workers : ~Busy(w)

\* What agents can be answered from was once approved, and what can be asked
\* for by name was once submitted: in the store, and in the manifest a later
\* store is built from, whatever interleaves, fails or restarts.
OnlyReviewedServed ==
    /\ store.default \cup manifest.default \subseteq approvedEver
    /\ store.named \cup manifest.named \subseteq submittedEver

\* retention.py:100: two approved versions do not occur.  True of one request
\* at a time, and not of two.
AtMostOneApproved == Cardinality(InState(status, "approved")) <= 1

\* Once a namespace has a current version it keeps having one.
CurrentNeverLost == [][Current # {} => Current' # {}]_vars

\* When no request is running, a version marked as projected is served: the
\* unmarked ones are all that reconcile need project.  This is so for one
\* request at a time, and until the store is rebuilt from something outdated.
ProjectedMeansServed ==
    Quiet /\ ~retired /\ Reachable /\ ~misbuilt =>
        \A v \in Versions :
            projected[v] => /\ status[v] \in {"in-review", "approved"} => v \in store.named
                            /\ status[v] = "approved" => v \in store.default

\* No fault and no other request since this reconcile began.
Undisturbed(w) ==
    job[w].undisturbed = [alone |-> TRUE, faults |-> faults, served |-> served]

\* Whatever faults and interleavings came before it, a reconcile that runs alone
\* and meets no fault leaves the store with exactly the named graphs the
\* versions call for, a default graph if there is a current version, a manifest
\* that says the same, and nothing unprojected.
ReconcileConverges ==
    [][\A w \in Workers : EndReconcile(w) /\ Undisturbed(w) =>
          IF retired THEN store.named = {}
          ELSE /\ store.dataset
               /\ store.named = Target.named
               /\ Current # {} => store.default # {}
               /\ manifest = Target
               /\ Unprojected' = {}]_vars

\* projection.py:1528: reconcile aligns the store with the system of record.
\* Then what agents are answered from is the current version (README.md:63).
ReconcileAligns ==
    [][\A w \in Workers : EndReconcile(w) /\ Undisturbed(w) /\ ~retired =>
          store.default = Current]_vars

\* projection.py:1629: a retired namespace serves no version, and what is left
\* of one in the store is a discrepancy that reconcile removes.
ReconcileStopsRetired ==
    [][\A w \in Workers : EndReconcile(w) /\ Undisturbed(w) /\ retired =>
          store.named \cup store.default = {}]_vars

\* projection.py:767: the manifest of a retired namespace says skip:retired,
\* so the next rebuild is sure to stop serving it.  Nothing but the store
\* fails here.
RetiredNeverRebuilt ==
    [][LoaderReads /\ retired /\ Quiet /\ faults = 1 => store'.named = {}]_vars

\* The promise to reviewers (docs/adr/0010, decision 2): whatever is refused,
\* fails, dies or is reconciled, the states of the versions change as the
\* lifecycle says, one request at a time.
Lifecycle == INSTANCE ReviewLifecycle
ImplementsLifecycle == Lifecycle!Spec

\* Every request comes to an end: one that waits for a row gets it, and those
\* that wait for each other - approvals, retirements and reconciles, each of
\* which keeps rows locked while it asks for another - are told apart.
RequestsEnd == \A w \in Workers : Busy(w) ~> ~Busy(w)
=============================================================================
