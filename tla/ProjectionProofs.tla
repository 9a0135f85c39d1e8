-------------------------- MODULE ProjectionProofs --------------------------
(***************************************************************************)
(* Review and projection for any number of versions, requests and faults:  *)
(* what decide_projection promises its three callers (the manifest,        *)
(* reconcile and the loader); then what holds whatever any number of       *)
(* workers do at the same time; then what holds of one request at a time;  *)
(* and last, that a reconcile which nothing disturbs repairs everything.   *)
(***************************************************************************)
EXTENDS Projection, FiniteSetTheorems, TLAPS

-----------------------------------------------------------------------------
(* Part 1: decide_projection.                                              *)

\* The sort key orders the versions: no two are newer than each other, and of
\* two versions one is newer.
LEMMA NewerIsTotal ==
    ASSUME NEW V \in SUBSET Nat, NEW at \in [V -> Nat],
           NEW u \in V, NEW v \in V
    PROVE  /\ u # v => Newer(at, u, v) \/ Newer(at, v, u)
           /\ ~(Newer(at, u, v) /\ Newer(at, v, u))
<1>1. at[u] \in Nat /\ at[v] \in Nat /\ u \in Nat /\ v \in Nat
  OBVIOUS
<1>2. QED  BY <1>1 DEF Newer

\* Being newer is transitive, so "the newest" does not depend on the order in
\* which the rows were read.
LEMMA NewerIsTransitive ==
    ASSUME NEW V \in SUBSET Nat, NEW at \in [V -> Nat],
           NEW t \in V, NEW u \in V, NEW v \in V,
           Newer(at, t, u), Newer(at, u, v)
    PROVE  Newer(at, t, v)
<1>1. /\ at[t] \in Nat /\ at[u] \in Nat /\ at[v] \in Nat
      /\ t \in Nat /\ u \in Nat /\ v \in Nat
  OBVIOUS
<1>2. QED  BY <1>1 DEF Newer

\* Two approved versions may exist (retention.py:100), but never two current
\* ones: at most one version is loaded into the default graph.
THEOREM AtMostOneCurrent ==
    ASSUME NEW V \in SUBSET Nat, NEW stat, DOMAIN stat = V,
           NEW at \in [V -> Nat],
           NEW u \in CurrentOf(stat, at),
           NEW v \in CurrentOf(stat, at)
    PROVE  u = v
<1>1. /\ u \in V /\ v \in V
      /\ u \in InState(stat, "approved") /\ v \in InState(stat, "approved")
  BY DEF CurrentOf, InState
<1>2. SUFFICES ASSUME u # v PROVE FALSE
  OBVIOUS
<1>3. Newer(at, u, v) /\ Newer(at, v, u)
  BY <1>1, <1>2 DEF CurrentOf
<1>4. QED  BY <1>1, <1>3, NewerIsTotal

\* The default graph holds an approved version only, which is also loaded by
\* name; and no draft is loaded at all, whatever the retention.
THEOREM TargetsReviewed ==
    ASSUME NEW stat, NEW at, NEW retain
    PROVE  LET targets == Targets(stat, at, retain) IN
           /\ targets.default \subseteq InState(stat, "approved")
           /\ targets.default \subseteq targets.named
           /\ targets.named \cap InState(stat, "draft") = {}
           /\ targets.named \cap InState(stat, "none") = {}
BY DEF Targets, CurrentOf, Retained, InState

\* With SUPERSEDED_RETAIN = 0, its default, no superseded version is loaded.
THEOREM NothingRetained ==
    ASSUME NEW stat, NEW at, IsFiniteSet(DOMAIN stat)
    PROVE  Retained(stat, at, 0) = {}
<1>1. SUFFICES ASSUME NEW v \in InState(stat, "superseded")
               PROVE  ~(Cardinality({u \in InState(stat, "superseded") :
                                        Newer(at, u, v)}) < 0)
  BY DEF Retained
<1>2. IsFiniteSet({u \in InState(stat, "superseded") : Newer(at, u, v)})
  BY FS_Subset DEF InState
<1>3. QED  BY <1>2, FS_CardinalityType
-----------------------------------------------------------------------------
(* Part 2: any workers.  S stands for the versions once submitted, A for   *)
(* those once approved.                                                    *)

Sheets(S, A) == [default : SUBSET A, named : SUBSET S]

Stores(S, A) ==
    {s \in [state : {"up", "down", "staging", "loading"}, dataset : BOOLEAN,
            staged : SUBSET Versions, named : SUBSET S, default : SUBSET A] :
        s.dataset \/ s.named \cup s.default = {}}

ReviewJobs(S, A) ==
    [pc : {"check", "decide", "load", "update", "previous", "supersede",
           "manifest", "write", "named", "default", "mark", "unname"},
     op : {"submit", "approve", "reject"}, v : Versions,
     writes : SUBSET {"status", "mark", "stamp"},
     previous : SUBSET A, stamp : Nat, ok : BOOLEAN, sheet : Sheets(S, A)]

AdminJobs(S, A) ==
    [pc : {"manifest", "write", "drop"}, op : {"publish", "retire", "unretire"},
     sheet : Sheets(S, A)]

RetireJobs(S, A) ==
    [pc : {"clear", "unmark"}, op : {"retire"}, todo : SUBSET Versions,
     putting : SUBSET Versions, marked : SUBSET Versions, sheet : Sheets(S, A)]

Plans(S, A) == [missing : SUBSET S, excess : SUBSET Versions, current : SUBSET A,
                stray : SUBSET Versions]

ReconcileJobs(S, A) ==
    [pc : {"datasets", "unprojected", "project", "remark", "graphs", "compare", "repair",
           "sweep", "ask", "redefault", "resweep", "remanifest", "write", "end"},
     op : {"reconcile"}, sawRetired : BOOLEAN, todo : SUBSET S, default : SUBSET A,
     putting : SUBSET S, marked : SUBSET S, actual : SUBSET Versions,
     plan : Plans(S, A), sheet : Sheets(S, A),
     undisturbed : [alone : BOOLEAN, faults : Nat, served : Nat]]

\* The steps of a review up to its commit.
Uncommitted == {"check", "decide", "load", "update", "previous", "supersede"}

\* What the progress of a review says of its version.
Reviewed(j, S, A) ==
    /\ j.op = "submit" /\ j.pc \notin Uncommitted => j.v \in S
    /\ j.op = "approve" => j.v \in S
    /\ j.op = "approve" /\ j.pc \notin Uncommitted => j.v \in A
    /\ j.pc \in {"check", "decide", "previous", "supersede", "default"} => j.op = "approve"
    /\ j.pc \in {"load", "unname"} => j.op # "approve"
    /\ j.pc \in {"named", "mark"} => j.op \in {"submit", "approve"}
    /\ j.pc = "unname" => j.op = "reject"

\* What a request in flight may carry.
Carries(j, S, A) == \/ j = Idle
                    \/ j \in ReviewJobs(S, A) /\ Reviewed(j, S, A)
                    \/ j \in AdminJobs(S, A)
                    \/ j \in RetireJobs(S, A)
                    \/ j \in ReconcileJobs(S, A)

\* The states of the versions against their history.
StatesReviewed(stat, S, A) ==
    /\ S \subseteq Versions /\ A \subseteq S
    /\ \A v \in Versions :
          /\ stat[v] \in {"in-review", "approved", "superseded"} => v \in S
          /\ stat[v] \in {"approved", "superseded"} => v \in A

RecordTypes == /\ retired \in BOOLEAN
               /\ status \in [Versions -> Statuses]
               /\ approvedAt \in [Versions -> Nat]
               /\ projected \in [Versions -> BOOLEAN]
               /\ misbuilt \in BOOLEAN
               /\ clock \in Nat /\ served \in Nat /\ faults \in Nat

JobsCarry(S, A) == /\ DOMAIN job = Workers
                   /\ \A w \in Workers : Carries(job[w], S, A)

\* The inductive invariant.
IInv == /\ RecordTypes
        /\ StatesReviewed(status, submittedEver, approvedEver)
        /\ manifest \in Sheets(submittedEver, approvedEver)
        /\ store \in Stores(submittedEver, approvedEver)
        /\ JobsCarry(submittedEver, approvedEver)

-----------------------------------------------------------------------------
\* Newer history takes nothing away from what a request carries.
LEMMA CarriesOn ==
    ASSUME NEW S, NEW A, NEW T, NEW B, S \subseteq T, A \subseteq B,
           NEW j, Carries(j, S, A)
    PROVE  Carries(j, T, B)
<1>1. Sheets(S, A) \subseteq Sheets(T, B)
  BY DEF Sheets
<1>2. CASE j = Idle
  BY <1>2 DEF Carries
<1>3. CASE j \in ReviewJobs(S, A) /\ Reviewed(j, S, A)
  <2>1. j \in ReviewJobs(T, B)
    BY <1>1, <1>3 DEF ReviewJobs
  <2>2. Reviewed(j, T, B)
    BY <1>3 DEF Reviewed
  <2>3. QED  BY <2>1, <2>2 DEF Carries
<1>4. CASE j \in AdminJobs(S, A) \/ j \in RetireJobs(S, A)
  BY <1>1, <1>4 DEF AdminJobs, RetireJobs, Carries
<1>5. CASE j \in ReconcileJobs(S, A)
  <2>1. Plans(S, A) \subseteq Plans(T, B)
    BY DEF Plans
  <2>2. j \in ReconcileJobs(T, B)
    BY <1>1, <1>5, <2>1 DEF ReconcileJobs
  <2>3. QED  BY <2>2 DEF Carries
<1>6. QED  BY <1>2, <1>3, <1>4, <1>5 DEF Carries

\* One request moves, to something it may carry.
Moves(w) == /\ job' = [job EXCEPT ![w] = job'[w]]
            /\ Carries(job'[w], submittedEver', approvedEver')

LEMMA OneMoves ==
    ASSUME JobsCarry(submittedEver, approvedEver), NEW w \in Workers, Moves(w),
           submittedEver \subseteq submittedEver', approvedEver \subseteq approvedEver'
    PROVE  JobsCarry(submittedEver, approvedEver)'
<1>1. ASSUME NEW u \in Workers PROVE Carries(job'[u], submittedEver', approvedEver')
  <2>1. CASE u = w
    BY <2>1 DEF Moves
  <2>2. CASE u # w
    <3>1. job'[u] = job[u]
      BY <2>2 DEF Moves, JobsCarry
    <3>2. QED  BY <3>1, CarriesOn DEF JobsCarry
  <2>3. QED  BY <2>1, <2>2
<1>2. DOMAIN job' = Workers
  BY DEF Moves, JobsCarry
<1>3. QED  BY <1>1, <1>2 DEF JobsCarry

\* The request goes on with the value j.
LEMMA MovesTo ==
    ASSUME JobsCarry(submittedEver, approvedEver), NEW w \in Workers, NEW j,
           job' = [job EXCEPT ![w] = j], Carries(j, submittedEver', approvedEver')
    PROVE  Moves(w)
<1>1. job'[w] = j
  BY DEF JobsCarry
<1>2. QED  BY <1>1 DEF Moves

LEMMA EndsIdle ==
    ASSUME IInv, NEW w \in Workers, Done(w) PROVE Moves(w)
<1>1. Carries(Idle, submittedEver', approvedEver')
  BY DEF Carries
<1>2. QED  BY <1>1, MovesTo DEF Done, IInv

\* Steps that leave the system of record alone.
LEMMA StoreStep ==
    ASSUME IInv, NEW w \in Workers, Moves(w),
           UNCHANGED <<record, manifest, clock, served, history>>,
           faults' \in Nat, store' \in Stores(submittedEver, approvedEver)
    PROVE  IInv'
<1>1. JobsCarry(submittedEver, approvedEver)'
  BY OneMoves DEF IInv, history
<1>2. QED  BY <1>1 DEF IInv, RecordTypes, record, history

LEMMA JobStep ==
    ASSUME IInv, NEW w \in Workers, Moves(w),
           UNCHANGED <<record, manifest, store, bounds, history>>
    PROVE  IInv'
BY StoreStep DEF IInv, RecordTypes, bounds

-----------------------------------------------------------------------------
(* Which request is at which step.                                         *)

ReviewPcs == Uncommitted \cup {"named", "default", "mark", "unname"}
ReconcilePcs == {"datasets", "unprojected", "project", "remark", "graphs", "compare",
                 "repair", "sweep", "ask", "redefault", "resweep", "remanifest", "end"}

LEMMA InReview ==
    ASSUME IInv, NEW w \in Workers, job[w].pc \in ReviewPcs
    PROVE  /\ job[w] \in ReviewJobs(submittedEver, approvedEver)
           /\ Reviewed(job[w], submittedEver, approvedEver)
BY DEF IInv, JobsCarry, Carries, ReviewPcs, Uncommitted, AdminJobs, RetireJobs,
       ReconcileJobs, Idle

LEMMA InReconcile ==
    ASSUME IInv, NEW w \in Workers, job[w].pc \in ReconcilePcs
    PROVE  job[w] \in ReconcileJobs(submittedEver, approvedEver)
BY DEF IInv, JobsCarry, Carries, ReconcilePcs, AdminJobs, RetireJobs, ReviewJobs, Idle

LEMMA InRetirement ==
    ASSUME IInv, NEW w \in Workers, job[w].pc \in {"clear", "unmark"}
    PROVE  job[w] \in RetireJobs(submittedEver, approvedEver)
BY DEF IInv, JobsCarry, Carries, AdminJobs, ReconcileJobs, ReviewJobs, Idle

LEMMA InDrop ==
    ASSUME IInv, NEW w \in Workers, job[w].pc = "drop"
    PROVE  job[w] \in AdminJobs(submittedEver, approvedEver)
BY DEF IInv, JobsCarry, Carries, RetireJobs, ReconcileJobs, ReviewJobs, Idle

-----------------------------------------------------------------------------
(* The store's calls.                                                      *)

LEMMA Calls ==
    ASSUME NEW S, NEW A, store \in Stores(S, A), Reachable
    PROVE  /\ \A V \in SUBSET S : PutNamed(V) \in Stores(S, A)
           /\ \A V : DropNamed(V) \in Stores(S, A)
           /\ \A V \in SUBSET A : PutDefault(V) \in Stores(S, A)
           /\ \A V \in SUBSET S, D \in SUBSET A : Put(V, D) \in Stores(S, A)
<1>1. store.dataset
  BY DEF Reachable
<1>2. ASSUME NEW V \in SUBSET S PROVE PutNamed(V) \in Stores(S, A)
  BY <1>1 DEF PutNamed, Stores
<1>3. ASSUME NEW V PROVE DropNamed(V) \in Stores(S, A)
  BY <1>1 DEF DropNamed, Stores
<1>4. ASSUME NEW V \in SUBSET A PROVE PutDefault(V) \in Stores(S, A)
  BY <1>1 DEF PutDefault, Stores
<1>5. ASSUME NEW V \in SUBSET S, NEW D \in SUBSET A PROVE Put(V, D) \in Stores(S, A)
  BY <1>1 DEF Put, Stores
<1>6. QED  BY <1>2, <1>3, <1>4, <1>5

LEMMA GoneIsStore ==
    ASSUME NEW S, NEW A, store \in Stores(S, A) PROVE Gone \in Stores(S, A)
BY DEF Gone, Stores

LEMMA FaultCounts ==
    ASSUME IInv, NoFault \/ Fault PROVE faults' \in Nat
BY Constants DEF IInv, RecordTypes, NoFault, Fault

\* Whether the call succeeds or fails, the store is one of those it may become.
LEMMA CallEnds ==
    ASSUME IInv, NEW S, NEW A, store \in Stores(S, A), NEW after, NEW others,
           Reachable => after \in Stores(S, A) /\ others \subseteq Stores(S, A),
           Succeeds(after) \/ FailsIn(others)
    PROVE  store' \in Stores(S, A) /\ faults' \in Nat
BY FaultCounts DEF Succeeds, FailsIn

LEMMA CallFails ==
    ASSUME IInv, NEW S, NEW A, store \in Stores(S, A), NEW after,
           Reachable => after \in Stores(S, A),
           Succeeds(after) \/ Fails(after)
    PROVE  store' \in Stores(S, A) /\ faults' \in Nat
BY CallEnds DEF Fails

-----------------------------------------------------------------------------
(* Requests begin.                                                         *)

LEMMA ReviewBegins ==
    ASSUME NEW v \in Versions, NEW op \in {"submit", "approve", "reject"},
           NEW p \in {"check", "load"}, p = "check" <=> op = "approve",
           op = "approve" => v \in submittedEver
    PROVE  Carries(Review(p, op, v), submittedEver, approvedEver)
<1>1. EmptySheet \in Sheets(submittedEver, approvedEver)
  BY DEF EmptySheet, Sheets
<1>2. Review(p, op, v) \in ReviewJobs(submittedEver, approvedEver)
  BY <1>1 DEF Review, ReviewJobs
<1>3. Reviewed(Review(p, op, v), submittedEver, approvedEver)
  BY DEF Review, Reviewed, Uncommitted
<1>4. QED  BY <1>2, <1>3 DEF Carries

LEMMA RetirementBegins ==
    ASSUME NEW S, NEW A PROVE Carries(Retirement, S, A)
BY DEF Carries, Retirement, RetireJobs, EmptySheet, Sheets

LEMMA AdminBegins ==
    ASSUME NEW op \in {"publish", "retire", "unretire"}, NEW S, NEW A
    PROVE  Carries(Admin(op), S, A)
BY DEF Carries, Admin, AdminJobs, EmptySheet, Sheets

LEMMA ReconcileBegins ==
    ASSUME IInv, NEW w \in Workers
    PROVE  Carries(Reconcile(w), submittedEver, approvedEver)
<1>1. EmptySheet \in Sheets(submittedEver, approvedEver)
  BY DEF EmptySheet, Sheets
<1>2. NoPlan \in Plans(submittedEver, approvedEver)
  BY DEF NoPlan, Plans
<1>3. served + 1 \in Nat /\ faults \in Nat /\ retired \in BOOLEAN
  BY DEF IInv, RecordTypes
<1>4. (\A u \in Workers \ {w} : ~Busy(u)) \in BOOLEAN
  OBVIOUS
<1>5. Reconcile(w) \in ReconcileJobs(submittedEver, approvedEver)
  BY <1>1, <1>2, <1>3, <1>4 DEF Reconcile, ReconcileJobs
<1>6. QED  BY <1>5 DEF Carries

LEMMA BeginMoves ==
    ASSUME IInv, NEW w \in Workers, NEW j, Begin(w, j),
           Carries(j, submittedEver, approvedEver)
    PROVE  /\ JobsCarry(submittedEver, approvedEver)'
           /\ served' \in Nat /\ clock' = clock /\ faults' = faults
           /\ manifest' = manifest /\ store' = store
           /\ submittedEver' = submittedEver /\ approvedEver' = approvedEver
           /\ misbuilt' = misbuilt
<1>1. Moves(w)
  BY MovesTo DEF Begin, IInv, history
<1>2. QED  BY <1>1, OneMoves DEF Begin, IInv, RecordTypes, history

\* A step that only begins a request, and may touch the system of record.
LEMMA BeginStep ==
    ASSUME IInv, NEW w \in Workers, NEW j, Begin(w, j),
           Carries(j, submittedEver, approvedEver),
           retired' \in BOOLEAN, status' \in [Versions -> Statuses],
           projected' \in [Versions -> BOOLEAN], approvedAt' = approvedAt,
           StatesReviewed(status', submittedEver, approvedEver)
    PROVE  IInv'
BY BeginMoves DEF IInv, RecordTypes

LEMMA RequestKeeps ==
    ASSUME IInv, NEW w \in Workers, Request(w) PROVE IInv'
<1>1. CASE Publish(w)
  <2>1. PICK v \in Versions : /\ status[v] = "none"
                              /\ status' = [status EXCEPT ![v] = "draft"]
    BY <1>1 DEF Publish
  <2>2. StatesReviewed(status', submittedEver, approvedEver)
    BY <2>1 DEF IInv, RecordTypes, StatesReviewed
  <2>3. status' \in [Versions -> Statuses]
    BY <2>1 DEF IInv, RecordTypes, Statuses
  <2>4. Begin(w, Admin("publish")) /\ retired' = retired /\ projected' = projected
        /\ approvedAt' = approvedAt
    BY <1>1 DEF Publish
  <2>5. QED  BY <2>2, <2>3, <2>4, AdminBegins, BeginStep DEF IInv, RecordTypes
<1>2. ASSUME NEW op \in {"submit", "approve", "reject"}, NEW p \in {"check", "load"},
             NEW needs \in {"draft", "in-review"}, BeginReview(w, op, needs, p),
             p = "check" <=> op = "approve", op = "approve" => needs = "in-review"
      PROVE  IInv'
  <2>1. PICK v \in Versions : status[v] = needs /\ Begin(w, Review(p, op, v))
    BY <1>2 DEF BeginReview
  <2>2. op = "approve" => v \in submittedEver
    BY <1>2, <2>1 DEF IInv, StatesReviewed
  <2>3. Carries(Review(p, op, v), submittedEver, approvedEver)
    BY <1>2, <2>2, ReviewBegins
  <2>4. UNCHANGED record
    BY <1>2 DEF BeginReview
  <2>5. QED  BY <2>1, <2>3, <2>4, BeginStep DEF IInv, RecordTypes, record
<1>3. CASE BeginSubmit(w)
  BY <1>2, <1>3 DEF BeginSubmit
<1>4. CASE BeginReject(w)
  BY <1>2, <1>4 DEF BeginReject
<1>5. CASE BeginApprove(w)
  BY <1>2, <1>5 DEF BeginApprove
<1>6. CASE Retire(w)
  BY <1>6, RetirementBegins, BeginStep DEF Retire, IInv, RecordTypes, record
<1>7. CASE Unretire(w)
  <2>1. /\ Begin(w, Admin("unretire")) /\ retired' = FALSE
        /\ UNCHANGED <<status, approvedAt, projected>>
    BY <1>7 DEF Unretire
  <2>2. QED  BY <2>1, AdminBegins, BeginStep DEF IInv, RecordTypes
<1>8. CASE BeginReconcile(w)
  <2>1. Begin(w, Reconcile(w)) /\ UNCHANGED record
    BY <1>8 DEF BeginReconcile
  <2>2. QED  BY <2>1, ReconcileBegins, BeginStep DEF IInv, RecordTypes, record
<1>9. QED  BY <1>1, <1>3, <1>4, <1>5, <1>6, <1>7, <1>8 DEF Request

-----------------------------------------------------------------------------
(* submit, approve and reject.                                             *)

\* Where Goto leads.
LEMMA GotoReview ==
    ASSUME IInv, NEW w \in Workers, NEW S, NEW A,
           submittedEver \subseteq S, approvedEver \subseteq A,
           S \subseteq submittedEver', A \subseteq approvedEver',
           job[w] \in ReviewJobs(submittedEver, approvedEver), NEW p, Goto(w, p),
           p = "answer" \/ [job[w] EXCEPT !.pc = p] \in ReviewJobs(submittedEver, approvedEver),
           p # "answer" => Reviewed([job[w] EXCEPT !.pc = p], S, A)
    PROVE  Moves(w)
<1>1. CASE p = "answer"
  BY <1>1, EndsIdle DEF Goto, Done
<1>2. CASE p # "answer"
  <2>1. job' = [job EXCEPT ![w] = [job[w] EXCEPT !.pc = p]]
    BY <1>2 DEF Goto
  <2>2. [job[w] EXCEPT !.pc = p] \in ReviewJobs(S, A)
    BY <1>2 DEF ReviewJobs, Sheets
  <2>3. Carries([job[w] EXCEPT !.pc = p], S, A)
    BY <1>2, <2>2 DEF Carries
  <2>4. Carries([job[w] EXCEPT !.pc = p], submittedEver', approvedEver')
    BY <2>3, CarriesOn
  <2>5. QED  BY <2>1, <2>4, MovesTo DEF IInv
<1>3. QED  BY <1>1, <1>2

\* The commit of a new state, and what it adds to the history.
LEMMA CommitKeeps ==
    ASSUME IInv, NEW w \in Workers, job[w].pc \in {"update", "supersede"},
           NEW s \in [Versions -> Statuses], Commit(w, s),
           approvedAt' \in [Versions -> Nat], misbuilt' = misbuilt,
           submittedEver \subseteq submittedEver', approvedEver \subseteq approvedEver',
           StatesReviewed(s, submittedEver', approvedEver'),
           job[w].op = "submit" => job[w].v \in submittedEver',
           job[w].op = "approve" => job[w].v \in approvedEver'
    PROVE  IInv'
<1> DEFINE j == job[w]
<1>1. j \in ReviewJobs(submittedEver, approvedEver) /\ Reviewed(j, submittedEver, approvedEver)
  BY InReview DEF ReviewPcs, Uncommitted
<1>2. [j EXCEPT !.pc = "manifest"] \in ReviewJobs(submittedEver, approvedEver)
  BY <1>1 DEF ReviewJobs
<1>3. Reviewed([j EXCEPT !.pc = "manifest"], submittedEver', approvedEver')
  BY <1>1 DEF Reviewed, ReviewJobs, Uncommitted
<1>4. Moves(w)
  BY <1>1, <1>2, <1>3, GotoReview DEF Commit
<1>5. JobsCarry(submittedEver, approvedEver)'
  BY <1>4, OneMoves DEF IInv
<1>6. projected' \in [Versions -> BOOLEAN]
  BY <1>1 DEF Commit, MarkReset, IInv, RecordTypes
<1>7. manifest' \in Sheets(submittedEver', approvedEver')
  BY DEF Commit, IInv, Sheets
<1>8. store' \in Stores(submittedEver', approvedEver')
  BY DEF Commit, IInv, Stores
<1>9. status' = s /\ retired' = retired /\ UNCHANGED bounds
  BY DEF Commit
<1>10. QED  BY <1>5, <1>6, <1>7, <1>8, <1>9 DEF IInv, RecordTypes, bounds

LEMMA SubmitKeeps ==
    ASSUME IInv, NEW w \in Workers, CommitSubmit(w) PROVE IInv'
<1> DEFINE v == job[w].v
           s == StatusSet(w, "in-review")
<1>1. v \in Versions
  BY InReview DEF CommitSubmit, At, ReviewPcs, Uncommitted, ReviewJobs
<1>2. s \in [Versions -> Statuses]
  BY <1>1 DEF StatusSet, IInv, RecordTypes, Statuses
<1>3. submittedEver' = submittedEver \cup {v} /\ approvedEver' = approvedEver
  BY DEF CommitSubmit
<1>4. StatesReviewed(s, submittedEver', approvedEver')
  BY <1>1, <1>3 DEF StatusSet, IInv, RecordTypes, StatesReviewed
<1>5. /\ job[w].pc = "update" /\ job[w].op = "submit" /\ Commit(w, s)
      /\ approvedAt' = approvedAt /\ misbuilt' = misbuilt
  BY DEF CommitSubmit, At
<1>6. approvedAt' \in [Versions -> Nat]
  BY <1>5 DEF IInv, RecordTypes
<1>7. QED  BY <1>2, <1>3, <1>4, <1>5, <1>6, CommitKeeps

LEMMA RejectKeeps ==
    ASSUME IInv, NEW w \in Workers, CommitReject(w) PROVE IInv'
<1> DEFINE v == job[w].v
           s == StatusSet(w, "draft")
<1>1. v \in Versions
  BY InReview DEF CommitReject, At, ReviewPcs, Uncommitted, ReviewJobs
<1>2. s \in [Versions -> Statuses]
  BY <1>1 DEF StatusSet, IInv, RecordTypes, Statuses
<1>3. submittedEver' = submittedEver /\ approvedEver' = approvedEver
  BY DEF CommitReject, history
<1>4. StatesReviewed(s, submittedEver', approvedEver')
  BY <1>1, <1>3 DEF StatusSet, IInv, RecordTypes, StatesReviewed
<1>5. /\ job[w].pc = "update" /\ job[w].op = "reject" /\ Commit(w, s)
      /\ approvedAt' = approvedAt /\ misbuilt' = misbuilt
  BY DEF CommitReject, At, history
<1>6. approvedAt' \in [Versions -> Nat]
  BY <1>5 DEF IInv, RecordTypes
<1>7. QED  BY <1>2, <1>3, <1>4, <1>5, <1>6, CommitKeeps

LEMMA ApproveKeeps ==
    ASSUME IInv, NEW w \in Workers, CommitApprove(w) PROVE IInv'
<1> DEFINE j == job[w]
           s == [u \in Versions |-> IF u \in j.previous THEN "superseded"
                                    ELSE StatusSet(w, "approved")[u]]
<1>1. /\ j.v \in Versions /\ j.previous \subseteq approvedEver /\ j.stamp \in Nat
      /\ Reviewed(j, submittedEver, approvedEver) /\ j.op = "approve" /\ j.pc = "supersede"
  BY InReview DEF CommitApprove, At, ReviewPcs, Uncommitted, ReviewJobs, Reviewed
<1>2. StatusSet(w, "approved") \in [Versions -> Statuses]
  BY <1>1 DEF StatusSet, IInv, RecordTypes, Statuses
<1>3. s \in [Versions -> Statuses]
  BY <1>2 DEF Statuses
<1>4. submittedEver' = submittedEver /\ approvedEver' = approvedEver \cup {j.v}
  BY DEF CommitApprove
<1>5. j.v \in submittedEver
  BY <1>1 DEF Reviewed
<1>6. \A u \in Versions : StatusSet(w, "approved")[u] = status[u] \/ u = j.v
  BY <1>1 DEF StatusSet, IInv, RecordTypes
<1>7. StatesReviewed(s, submittedEver', approvedEver')
  BY <1>1, <1>4, <1>5, <1>6 DEF IInv, RecordTypes, StatesReviewed
<1>8. Commit(w, s) /\ misbuilt' = misbuilt
  BY DEF CommitApprove
<1>9. approvedAt' \in [Versions -> Nat]
  BY <1>1 DEF CommitApprove, IInv, RecordTypes
<1>10. QED  BY <1>1, <1>3, <1>4, <1>7, <1>8, <1>9, CommitKeeps

\* The previous version of an approval was approved once.
LEMMA PreviousApproved ==
    ASSUME IInv, NEW v PROVE CurrentApproved(v) \subseteq approvedEver
BY DEF IInv, RecordTypes, StatesReviewed, CurrentApproved, InState

\* A step of the transaction that is not visible to others.
LEMMA WorksOn ==
    ASSUME IInv, NEW w \in Workers, NEW k \in ReviewJobs(submittedEver, approvedEver),
           Reviewed(k, submittedEver, approvedEver), job' = [job EXCEPT ![w] = k],
           UNCHANGED <<record, manifest, store, served, faults, history>>, clock' \in Nat
    PROVE  IInv'
<1>1. Carries(k, submittedEver', approvedEver')
  BY DEF Carries, history
<1>2. JobsCarry(submittedEver, approvedEver)'
  BY <1>1, MovesTo, OneMoves DEF IInv, history
<1>3. QED  BY <1>2 DEF IInv, RecordTypes, record, history

LEMMA DecisionKeeps ==
    ASSUME IInv, NEW w \in Workers, FindPrevious(w) \/ ApprovalRefused(w) \/ Decide(w)
    PROVE  IInv'
<1> DEFINE j == job[w]
<1>0. clock \in Nat /\ clock + 1 \in Nat
  BY DEF IInv, RecordTypes
<1>1. CASE FindPrevious(w)
  <2> DEFINE k == [j EXCEPT !.pc = "decide", !.previous = CurrentApproved(j.v)]
  <2>1. j \in ReviewJobs(submittedEver, approvedEver) /\ Reviewed(j, submittedEver, approvedEver)
    BY <1>1, InReview DEF FindPrevious, At, ReviewPcs, Uncommitted
  <2>2. k \in ReviewJobs(submittedEver, approvedEver)
    BY <2>1, PreviousApproved DEF ReviewJobs
  <2>3. Reviewed(k, submittedEver, approvedEver)
    BY <1>1, <2>1 DEF Reviewed, ReviewJobs, FindPrevious, At, Uncommitted
  <2>4. job' = [job EXCEPT ![w] = k]
    BY <1>1 DEF FindPrevious
  <2>5. QED  BY <1>0, <1>1, <2>2, <2>3, <2>4, WorksOn DEF FindPrevious, bounds
<1>2. CASE ApprovalRefused(w)
  BY <1>2, EndsIdle, JobStep DEF ApprovalRefused
<1>3. CASE Decide(w)
  <2> DEFINE k == [j EXCEPT !.pc = "update", !.stamp = clock + 1,
                            !.writes = {"stamp"} \cup ColumnsWritten(w, "approved")]
  <2>1. j \in ReviewJobs(submittedEver, approvedEver) /\ Reviewed(j, submittedEver, approvedEver)
    BY <1>3, InReview DEF Decide, At, ReviewPcs, Uncommitted
  <2>2. {"stamp"} \cup ColumnsWritten(w, "approved") \in SUBSET {"status", "mark", "stamp"}
    BY DEF ColumnsWritten
  <2>3. k \in ReviewJobs(submittedEver, approvedEver)
    BY <1>0, <2>1, <2>2 DEF ReviewJobs
  <2>4. Reviewed(k, submittedEver, approvedEver)
    BY <1>3, <2>1 DEF Reviewed, ReviewJobs, Decide, At, Uncommitted
  <2>5. job' = [job EXCEPT ![w] = k]
    BY <1>3 DEF Decide
  <2>6. QED  BY <1>0, <1>3, <2>3, <2>4, <2>5, WorksOn DEF Decide
<1>4. QED  BY <1>1, <1>2, <1>3

\* The rows are loaded, and updated without being committed.
LEMMA RowsKeep ==
    ASSUME IInv, NEW w \in Workers, LoadRow(w) \/ UpdateApproved(w) \/ LoadPrevious(w)
    PROVE  IInv'
<1> DEFINE j == job[w]
<1>0. /\ clock \in Nat
      /\ UNCHANGED <<record, manifest, store, served, faults, history>> /\ clock' = clock
  BY DEF LoadRow, UpdateApproved, LoadPrevious, bounds, IInv, RecordTypes
<1>1. /\ j \in ReviewJobs(submittedEver, approvedEver) /\ Reviewed(j, submittedEver, approvedEver)
      /\ j.pc \in Uncommitted
  BY InReview DEF LoadRow, UpdateApproved, LoadPrevious, At, ReviewPcs, Uncommitted
<1>2. CASE LoadRow(w)
  <2>1. PICK columns \in SUBSET {"status", "mark", "stamp"} :
            job' = [job EXCEPT ![w].pc = "update", ![w].writes = columns]
    BY <1>2 DEF LoadRow, ColumnsWritten
  <2> DEFINE k == [j EXCEPT !.pc = "update", !.writes = columns]
  <2>2. k \in ReviewJobs(submittedEver, approvedEver)
    BY <1>1, <2>1 DEF ReviewJobs
  <2>3. Reviewed(k, submittedEver, approvedEver)
    BY <1>1 DEF Reviewed, ReviewJobs, Uncommitted
  <2>4. QED  BY <1>0, <2>1, <2>2, <2>3, WorksOn
<1>3. CASE UpdateApproved(w)
  <2> DEFINE k == [j EXCEPT !.pc = "previous"]
  <2>1. k \in ReviewJobs(submittedEver, approvedEver)
    BY <1>1 DEF ReviewJobs
  <2>2. Reviewed(k, submittedEver, approvedEver)
    BY <1>1, <1>3 DEF Reviewed, ReviewJobs, Uncommitted, UpdateApproved
  <2>3. job' = [job EXCEPT ![w] = k]
    BY <1>3 DEF UpdateApproved, Goto
  <2>4. QED  BY <1>0, <2>1, <2>2, <2>3, WorksOn
<1>4. CASE LoadPrevious(w)
  <2> DEFINE k == [j EXCEPT !.pc = "supersede", !.previous = @ \ InState(status, "superseded")]
  <2>1. k \in ReviewJobs(submittedEver, approvedEver)
    BY <1>1 DEF ReviewJobs
  <2>2. Reviewed(k, submittedEver, approvedEver)
    BY <1>1, <1>4 DEF Reviewed, ReviewJobs, Uncommitted, LoadPrevious, At
  <2>3. job' = [job EXCEPT ![w] = k]
    BY <1>4 DEF LoadPrevious
  <2>4. QED  BY <1>0, <2>1, <2>2, <2>3, WorksOn
<1>5. QED  BY <1>2, <1>3, <1>4

\* retire clears the marks one by one, and commits.
LEMMA RetireKeeps ==
    ASSUME IInv, NEW w \in Workers, ClearNext(w) \/ Unmark(w) \/ CommitRetire(w)
    PROVE  IInv'
<1> DEFINE j == job[w]
<1>1. j \in RetireJobs(submittedEver, approvedEver)
  BY InRetirement DEF ClearNext, Unmark, CommitRetire, At
<1>2. ASSUME NEW k \in RetireJobs(submittedEver, approvedEver), job' = [job EXCEPT ![w] = k],
             UNCHANGED <<record, manifest, store, bounds, history>>
      PROVE  IInv'
  BY <1>2, MovesTo, JobStep DEF Carries, IInv, history
<1>3. CASE ClearNext(w)
  <2>1. PICK v \in j.todo :
            LET left == [j EXCEPT !.todo = @ \ {v}]
            IN  job' = [job EXCEPT ![w] =
                           IF projected[v]
                           THEN [left EXCEPT !.pc = "unmark", !.putting = {v}]
                           ELSE left]
    BY <1>3 DEF ClearNext
  <2> DEFINE left == [j EXCEPT !.todo = @ \ {v}]
             k == IF projected[v] THEN [left EXCEPT !.pc = "unmark", !.putting = {v}] ELSE left
  <2>2. k \in RetireJobs(submittedEver, approvedEver)
    BY <1>1, <2>1 DEF RetireJobs
  <2>3. job' = [job EXCEPT ![w] = k]
    BY <2>1
  <2> HIDE DEF k
  <2>4. QED  BY <1>2, <1>3, <2>2, <2>3 DEF ClearNext
<1>4. CASE Unmark(w)
  <2> DEFINE k == [j EXCEPT !.pc = "clear", !.putting = {}, !.marked = @ \cup j.putting]
  <2>1. k \in RetireJobs(submittedEver, approvedEver)
    BY <1>1 DEF RetireJobs
  <2>2. job' = [job EXCEPT ![w] = k]
    BY <1>4 DEF Unmark
  <2>3. QED  BY <1>2, <1>4, <2>1, <2>2 DEF Unmark
<1>5. CASE CommitRetire(w)
  <2>1. job' = [job EXCEPT ![w] = Admin("retire")] /\ UNCHANGED history
    BY <1>5 DEF CommitRetire
  <2>2. Carries(Admin("retire"), submittedEver', approvedEver')
    BY AdminBegins
  <2>3. JobsCarry(submittedEver, approvedEver)'
    BY <2>1, <2>2, MovesTo, OneMoves DEF IInv, history
  <2>4. projected' \in [Versions -> BOOLEAN]
    <3>1. \A v \in Versions : (projected[v] /\ v \notin j.marked) \in BOOLEAN
      OBVIOUS
    <3>2. QED  BY <1>5, <3>1 DEF CommitRetire
  <2>5. QED  BY <1>5, <2>3, <2>4 DEF CommitRetire, IInv, RecordTypes, history, bounds
<1>6. QED  BY <1>3, <1>4, <1>5

-----------------------------------------------------------------------------
(* After the commit.                                                       *)

\* What is to be loaded was reviewed.
LEMMA SheetsReviewed ==
    ASSUME IInv
    PROVE  /\ Target \in Sheets(submittedEver, approvedEver)
           /\ \A isRetired : BuildManifest(status, approvedAt, isRetired)
                                \in Sheets(submittedEver, approvedEver)
<1>1. Target.default \subseteq approvedEver /\ Target.named \subseteq submittedEver
  BY DEF Target, Targets, CurrentOf, Retained, InState, IInv, RecordTypes, StatesReviewed
<1>2. Target = [default |-> Target.default, named |-> Target.named]
  BY DEF Target, Targets
<1>3. Target \in Sheets(submittedEver, approvedEver)
  BY <1>1, <1>2 DEF Sheets
<1>4. QED  BY <1>3 DEF BuildManifest, Target, EmptySheet, Sheets

LEMMA ReadsManifest ==
    ASSUME IInv, NEW w \in Workers, ReadManifest(w) \/ RereadManifest(w)
    PROVE  IInv'
<1> DEFINE j == job[w]
<1>0. /\ j.pc \in {"manifest", "remanifest"}
      /\ UNCHANGED <<record, manifest, store, bounds, history>>
  BY DEF ReadManifest, RereadManifest, At
<1>1. PICK sheet \in Sheets(submittedEver, approvedEver) :
          job' = [job EXCEPT ![w] = [j EXCEPT !.pc = "write", !.sheet = sheet]]
  BY SheetsReviewed DEF ReadManifest, RereadManifest
<1> DEFINE k == [j EXCEPT !.pc = "write", !.sheet = sheet]
<1>2. j # Idle
  BY <1>0 DEF Idle
<1>3. CASE j \in ReviewJobs(submittedEver, approvedEver) /\ Reviewed(j, submittedEver, approvedEver)
  <2>1. k \in ReviewJobs(submittedEver, approvedEver)
    BY <1>1, <1>3 DEF ReviewJobs
  <2>2. Reviewed(k, submittedEver, approvedEver)
    BY <1>0, <1>3 DEF Reviewed, ReviewJobs, Uncommitted
  <2>3. QED  BY <2>1, <2>2, <1>0, <1>1, MovesTo, JobStep DEF Carries, IInv, history
<1>4. CASE j \in AdminJobs(submittedEver, approvedEver)
  <2>1. k \in AdminJobs(submittedEver, approvedEver)
    BY <1>1, <1>4 DEF AdminJobs
  <2>2. QED  BY <2>1, <1>0, <1>1, MovesTo, JobStep DEF Carries, IInv, history
<1>5. CASE j \in ReconcileJobs(submittedEver, approvedEver)
  <2>1. k \in ReconcileJobs(submittedEver, approvedEver)
    BY <1>1, <1>5 DEF ReconcileJobs
  <2>2. QED  BY <2>1, <1>0, <1>1, MovesTo, JobStep DEF Carries, IInv, history
<1>6. j \notin RetireJobs(submittedEver, approvedEver)
  BY <1>0 DEF RetireJobs
<1>7. QED  BY <1>2, <1>3, <1>4, <1>5, <1>6 DEF IInv, JobsCarry, Carries

LEMMA WriteKeeps ==
    ASSUME IInv, NEW w \in Workers, WriteManifest(w) PROVE IInv'
<1> DEFINE j == job[w]
           p == AfterManifest(j.op)
           k == [j EXCEPT !.pc = p]
<1>1. j # Idle /\ j.pc = "write"
  BY DEF Idle, WriteManifest, At
<1>2. Goto(w, p) /\ UNCHANGED history
  BY DEF WriteManifest
<1>3. j.sheet \in Sheets(submittedEver, approvedEver) /\ Moves(w)
  <2>1. CASE j \in ReviewJobs(submittedEver, approvedEver) /\ Reviewed(j, submittedEver, approvedEver)
    <3>1. p \in {"named", "unname"} /\ (p = "unname") = (j.op = "reject")
      BY <2>1 DEF AfterManifest, ReviewJobs
    <3>2. k \in ReviewJobs(submittedEver, approvedEver)
      BY <2>1, <3>1 DEF ReviewJobs
    <3>3. Reviewed(k, submittedEver, approvedEver)
      BY <1>1, <2>1, <3>1 DEF Reviewed, ReviewJobs, Uncommitted
    <3>4. Moves(w)
      BY <1>2, <2>1, <3>2, <3>3, GotoReview DEF history
    <3>5. QED  BY <2>1, <3>4 DEF ReviewJobs
  <2>2. CASE j \in AdminJobs(submittedEver, approvedEver)
    <3>1. p \in {"answer", "drop"}
      BY <2>2 DEF AfterManifest, AdminJobs
    <3>2. CASE p = "answer"
      BY <1>2, <2>2, <3>2, EndsIdle DEF Goto, Done, AdminJobs
    <3>3. CASE p = "drop"
      <4>1. k \in AdminJobs(submittedEver, approvedEver)
        BY <2>2, <3>3 DEF AdminJobs
      <4>2. job' = [job EXCEPT ![w] = k]
        BY <1>2, <3>3 DEF Goto
      <4>3. QED  BY <1>2, <2>2, <4>1, <4>2, MovesTo DEF Carries, IInv, history, AdminJobs
    <3>4. QED  BY <3>1, <3>2, <3>3
  <2>3. CASE j \in ReconcileJobs(submittedEver, approvedEver)
    <3>1. p = "end"
      BY <2>3 DEF AfterManifest, ReconcileJobs
    <3>2. k \in ReconcileJobs(submittedEver, approvedEver)
      BY <2>3, <3>1 DEF ReconcileJobs
    <3>3. job' = [job EXCEPT ![w] = k]
      BY <1>2, <3>1 DEF Goto
    <3>4. QED  BY <1>2, <2>3, <3>2, <3>3, MovesTo DEF Carries, IInv, history, ReconcileJobs
  <2>4. j \notin RetireJobs(submittedEver, approvedEver)
    BY <1>1 DEF RetireJobs
  <2>5. QED  BY <1>1, <2>1, <2>2, <2>3, <2>4 DEF IInv, JobsCarry, Carries
<1>4. manifest' \in Sheets(submittedEver, approvedEver)
  BY <1>3 DEF WriteManifest, IInv
<1>5. faults' \in Nat
  BY FaultCounts DEF WriteManifest
<1>6. JobsCarry(submittedEver, approvedEver)'
  BY <1>2, <1>3, OneMoves DEF IInv, history
<1>7. QED  BY <1>2, <1>4, <1>5, <1>6 DEF WriteManifest, IInv, RecordTypes, record, history

\* One step of a review that calls the store.
LEMMA CallsStore ==
    ASSUME IInv, NEW w \in Workers, job[w].pc \in ReviewPcs, NEW p, Goto(w, p),
           p \in {"default", "mark", "answer"},
           \/ p = "answer"
           \/ job[w].op = "approve" /\ job[w].v \in approvedEver
           \/ p = "mark" /\ job[w].op = "submit" /\ job[w].v \in submittedEver,
           store' \in Stores(submittedEver, approvedEver), faults' \in Nat,
           UNCHANGED <<record, manifest, clock, served, history>>
    PROVE  IInv'
<1> DEFINE j == job[w]
<1>1. j \in ReviewJobs(submittedEver, approvedEver) /\ Reviewed(j, submittedEver, approvedEver)
  BY InReview
<1>2. p # "answer" => [j EXCEPT !.pc = p] \in ReviewJobs(submittedEver, approvedEver)
  BY <1>1 DEF ReviewJobs
<1>3. p # "answer" => Reviewed([j EXCEPT !.pc = p], submittedEver, approvedEver)
  BY <1>1 DEF Reviewed, ReviewJobs, Uncommitted
<1>4. Moves(w)
  BY <1>1, <1>2, <1>3, GotoReview DEF history
<1>5. QED  BY <1>4, StoreStep

LEMMA NamedKeeps ==
    ASSUME IInv, NEW w \in Workers, ProjectNamed(w) PROVE IInv'
<1> DEFINE j == job[w]
<1>1. /\ j \in ReviewJobs(submittedEver, approvedEver) /\ j.pc = "named"
      /\ Reviewed(j, submittedEver, approvedEver)
  BY InReview DEF ProjectNamed, At, ReviewPcs
<1>2. /\ j.v \in submittedEver /\ j.op \in {"submit", "approve"}
      /\ j.op = "approve" => j.v \in approvedEver
  BY <1>1 DEF Reviewed, ReviewJobs, Uncommitted
<1>3. Reachable => PutNamed({j.v}) \in Stores(submittedEver, approvedEver)
  BY <1>2, Calls DEF IInv
<1>4. store' \in Stores(submittedEver, approvedEver) /\ faults' \in Nat
  BY <1>3, CallFails DEF ProjectNamed, IInv
<1>5. UNCHANGED <<record, manifest, clock, served, history>>
  BY DEF ProjectNamed
<1>6. CASE Goto(w, IF j.op = "approve" THEN "default" ELSE "mark")
  BY <1>1, <1>2, <1>4, <1>5, <1>6, CallsStore DEF ReviewPcs
<1>7. CASE job' = [job EXCEPT ![w] = IF @.op = "approve"
                                     THEN [@ EXCEPT !.pc = "default", !.ok = FALSE] ELSE Idle]
  <2> DEFINE k == [j EXCEPT !.pc = "default", !.ok = FALSE]
  <2>1. k \in ReviewJobs(submittedEver, approvedEver)
    BY <1>1 DEF ReviewJobs
  <2>2. j.op = "approve" => Carries(k, submittedEver', approvedEver')
    BY <1>1, <1>2, <1>5, <2>1 DEF Reviewed, ReviewJobs, Uncommitted, Carries, history
  <2>3. CASE j.op = "approve"
    BY <1>7, <1>4, <1>5, <2>2, <2>3, MovesTo, StoreStep DEF IInv
  <2>4. CASE j.op # "approve"
    BY <1>7, <1>4, <1>5, <2>4, EndsIdle, StoreStep DEF Done
  <2>5. QED  BY <2>3, <2>4
<1>8. QED  BY <1>6, <1>7 DEF ProjectNamed

LEMMA DefaultKeeps ==
    ASSUME IInv, NEW w \in Workers, ProjectDefault(w) PROVE IInv'
<1> DEFINE j == job[w]
<1>1. /\ j \in ReviewJobs(submittedEver, approvedEver) /\ j.pc = "default"
      /\ Reviewed(j, submittedEver, approvedEver)
  BY InReview DEF ProjectDefault, At, ReviewPcs
<1>2. j.v \in approvedEver /\ j.op = "approve"
  BY <1>1 DEF Reviewed, Uncommitted
<1>3. Reachable => PutDefault({j.v}) \in Stores(submittedEver, approvedEver)
  BY <1>2, Calls DEF IInv
<1>4. store' \in Stores(submittedEver, approvedEver) /\ faults' \in Nat
  BY <1>3, CallFails DEF ProjectDefault, IInv
<1>5. Goto(w, "mark") \/ Goto(w, "answer")
  BY DEF ProjectDefault
<1>6. UNCHANGED <<record, manifest, clock, served, history>>
  BY DEF ProjectDefault
<1>7. QED  BY <1>1, <1>2, <1>4, <1>5, <1>6, CallsStore DEF ReviewPcs

LEMMA MarkKeeps ==
    ASSUME IInv, NEW w \in Workers, MarkProjected(w) PROVE IInv'
<1>1. Moves(w)
  BY EndsIdle DEF MarkProjected, Goto, Done
<1>2. JobsCarry(submittedEver, approvedEver)'
  BY <1>1, OneMoves DEF MarkProjected, IInv, history
<1>3. projected' \in [Versions -> BOOLEAN]
  BY DEF MarkProjected, IInv, RecordTypes
<1>4. QED  BY <1>2, <1>3 DEF MarkProjected, IInv, RecordTypes, history, bounds

LEMMA DropsKeep ==
    ASSUME IInv, NEW w \in Workers, Unname(w) \/ DropDataset(w) PROVE IInv'
<1>1. store' \in Stores(submittedEver, approvedEver) /\ faults' \in Nat
  <2>1. CASE Unname(w)
    BY <2>1, Calls, CallFails DEF Unname, IInv
  <2>2. CASE DropDataset(w)
    BY <2>2, GoneIsStore, CallFails DEF DropDataset, IInv
  <2>3. QED  BY <2>1, <2>2
<1>2. Done(w)
  BY DEF Unname, DropDataset, Goto, Done
<1>3. QED  BY <1>1, <1>2, EndsIdle, StoreStep DEF Unname, DropDataset

LEMMA ReviewKeeps ==
    ASSUME IInv, NEW w \in Workers, ReviewStep(w) PROVE IInv'
<1>1. QED  BY SubmitKeeps, RejectKeeps, DecisionKeeps, RowsKeep, ApproveKeeps, RetireKeeps,
              NamedKeeps, DefaultKeeps, MarkKeeps, DropsKeep, ReadsManifest, WriteKeeps
           DEF ReviewStep

-----------------------------------------------------------------------------
(* reconcile.                                                              *)

\* One of its steps, which leaves the system of record alone.
LEMMA ReconcileMoves ==
    ASSUME IInv, NEW w \in Workers, NEW k \in ReconcileJobs(submittedEver, approvedEver),
           job' = [job EXCEPT ![w] = k],
           UNCHANGED <<record, manifest, clock, served, history>>,
           faults' \in Nat, store' \in Stores(submittedEver, approvedEver)
    PROVE  IInv'
<1>1. Carries(k, submittedEver', approvedEver')
  BY DEF Carries, history
<1>2. QED  BY <1>1, MovesTo, StoreStep DEF IInv

\* The same, where only the step changes.
LEMMA ReconcileGoes ==
    ASSUME IInv, NEW w \in Workers, job[w].pc \in ReconcilePcs,
           NEW p \in ReconcilePcs, Goto(w, p),
           UNCHANGED <<record, manifest, clock, served, history>>,
           faults' \in Nat, store' \in Stores(submittedEver, approvedEver)
    PROVE  IInv'
<1>1. job[w] \in ReconcileJobs(submittedEver, approvedEver)
  BY InReconcile
<1>2. [job[w] EXCEPT !.pc = p] \in ReconcileJobs(submittedEver, approvedEver)
  BY <1>1 DEF ReconcileJobs, ReconcilePcs
<1>3. job' = [job EXCEPT ![w] = [job[w] EXCEPT !.pc = p]]
  BY DEF Goto, ReconcilePcs
<1>4. QED  BY <1>2, <1>3, ReconcileMoves

\* reconcile only asks, or reads.
LEMMA Unmoved ==
    ASSUME IInv, UNCHANGED store, NoFault \/ Fault
    PROVE  store' \in Stores(submittedEver, approvedEver) /\ faults' \in Nat
BY FaultCounts DEF IInv

LEMMA StartKeeps ==
    ASSUME IInv, NEW w \in Workers, ReconcileFails(w) \/ Datasets(w) \/ ReadUnprojected(w)
    PROVE  IInv'
<1>1. CASE ReconcileFails(w)
  BY <1>1, Unmoved, EndsIdle, StoreStep DEF ReconcileFails
<1>2. CASE Datasets(w)
  <2>1. [store EXCEPT !.dataset = TRUE] \in Stores(submittedEver, approvedEver)
    BY DEF IInv, Stores
  <2>2. store' \in Stores(submittedEver, approvedEver)
    BY <1>2, <2>1 DEF Datasets, IInv
  <2>3. faults' \in Nat
    BY <1>2, FaultCounts DEF Datasets
  <2>4. Goto(w, "graphs") \/ Goto(w, "unprojected")
    BY <1>2 DEF Datasets
  <2>5. QED  BY <1>2, <2>2, <2>3, <2>4, ReconcileGoes DEF Datasets, At, ReconcilePcs
<1>3. CASE ReadUnprojected(w)
  <2> DEFINE k == [job[w] EXCEPT !.pc = "project", !.todo = Unprojected,
                                 !.default = Unprojected \cap InState(status, "approved")]
  <2>1. job[w] \in ReconcileJobs(submittedEver, approvedEver)
    BY <1>3, InReconcile DEF ReadUnprojected, At, ReconcilePcs
  <2>2. Unprojected \subseteq submittedEver
    BY DEF Unprojected, IInv, RecordTypes, StatesReviewed, Statuses
  <2>3. Unprojected \cap InState(status, "approved") \subseteq approvedEver
    BY DEF Unprojected, InState, IInv, RecordTypes, StatesReviewed
  <2>4. k \in ReconcileJobs(submittedEver, approvedEver)
    BY <2>1, <2>2, <2>3 DEF ReconcileJobs
  <2>5. job' = [job EXCEPT ![w] = k]
    BY <1>3 DEF ReadUnprojected
  <2>6. QED  BY <1>3, <2>4, <2>5, ReconcileMoves DEF ReadUnprojected, IInv, RecordTypes, bounds
<1>4. QED  BY <1>1, <1>2, <1>3

LEMMA ProjectKeeps ==
    ASSUME IInv, NEW w \in Workers, ProjectNext(w) \/ MarkNext(w) \/ ProjectedAll(w)
    PROVE  IInv'
<1> DEFINE j == job[w]
<1>1. j \in ReconcileJobs(submittedEver, approvedEver) /\ j.pc \in ReconcilePcs
  BY InReconcile DEF ProjectNext, MarkNext, ProjectedAll, At, ReconcilePcs
<1>2. CASE ProjectNext(w)
  <2>1. PICK v \in j.todo :
          LET default == {v} \cap j.default
              after == Put({v}, default)
              left == [j EXCEPT !.todo = @ \ {v}]
          IN  \/ Succeeds(after) /\ job' = [job EXCEPT ![w] = [left EXCEPT !.pc = "remark", !.putting = {v}]]
              \/ FailsIn({store, PutNamed({v}), after}) /\ job' = [job EXCEPT ![w] = left]
    BY <1>2 DEF ProjectNext
  <2> DEFINE default == {v} \cap j.default
             after == Put({v}, default)
             left == [j EXCEPT !.todo = @ \ {v}]
  <2>2. v \in submittedEver /\ default \subseteq approvedEver
    BY <1>1, <2>1 DEF ReconcileJobs
  <2>3. Reachable => /\ after \in Stores(submittedEver, approvedEver)
                     /\ PutNamed({v}) \in Stores(submittedEver, approvedEver)
    BY <2>2, Calls DEF IInv
  <2> HIDE DEF after
  <2>4. store' \in Stores(submittedEver, approvedEver) /\ faults' \in Nat
    BY <2>1, <2>3, CallEnds DEF IInv, after
  <2>5. left \in ReconcileJobs(submittedEver, approvedEver)
    BY <1>1 DEF ReconcileJobs
  <2>6. [left EXCEPT !.pc = "remark", !.putting = {v}] \in ReconcileJobs(submittedEver, approvedEver)
    BY <2>2, <2>5 DEF ReconcileJobs
  <2>7. QED  BY <1>2, <2>1, <2>4, <2>5, <2>6, ReconcileMoves DEF ProjectNext
<1>3. CASE MarkNext(w)
  <2> DEFINE k == [j EXCEPT !.pc = "project", !.putting = {}, !.marked = @ \cup j.putting]
  <2>1. k \in ReconcileJobs(submittedEver, approvedEver)
    BY <1>1 DEF ReconcileJobs
  <2>2. job' = [job EXCEPT ![w] = k]
    BY <1>3 DEF MarkNext
  <2>3. QED  BY <1>3, <2>1, <2>2, ReconcileMoves DEF MarkNext, IInv, RecordTypes, bounds
<1>4. CASE ProjectedAll(w)
  BY <1>1, <1>4, ReconcileGoes DEF ProjectedAll, IInv, RecordTypes, bounds, ReconcilePcs
<1>5. QED  BY <1>2, <1>3, <1>4

LEMMA CompareKeeps ==
    ASSUME IInv, NEW w \in Workers, ListGraphs(w) \/ CompareGraphs(w) PROVE IInv'
<1> DEFINE j == job[w]
           plan == RepairPlan(j.sawRetired, j.actual)
<1>1. j \in ReconcileJobs(submittedEver, approvedEver) /\ j.pc \in ReconcilePcs
  BY InReconcile DEF ListGraphs, CompareGraphs, At, ReconcilePcs
<1>2. store' \in Stores(submittedEver, approvedEver) /\ faults' \in Nat
  BY Unmoved DEF ListGraphs, CompareGraphs, Answered, Unanswered, IInv, RecordTypes, bounds
<1>3. plan \in Plans(submittedEver, approvedEver)
  BY <1>1, SheetsReviewed DEF RepairPlan, NoPlan, Plans, IInv, Sheets, StatesReviewed, ReconcileJobs
<1>4. store.named \subseteq Versions
  BY DEF IInv, Stores, StatesReviewed
<1> HIDE DEF plan
<1>5. CASE CompareGraphs(w)
  <2> DEFINE k == [j EXCEPT !.pc = "repair", !.actual = {}, !.plan = plan]
  <2>1. k \in ReconcileJobs(submittedEver, approvedEver)
    BY <1>1, <1>3 DEF ReconcileJobs
  <2>2. job' = [job EXCEPT ![w] = k]
    BY <1>5 DEF CompareGraphs, plan
  <2>3. QED  BY <1>2, <1>5, <2>1, <2>2, ReconcileMoves DEF CompareGraphs, bounds
<1>6. CASE job' = [job EXCEPT ![w].pc = "compare", ![w].actual = store.named] /\ ListGraphs(w)
  <2> DEFINE k == [j EXCEPT !.pc = "compare", !.actual = store.named]
  <2>1. k \in ReconcileJobs(submittedEver, approvedEver)
    BY <1>1, <1>4 DEF ReconcileJobs
  <2>2. QED  BY <1>2, <1>6, <2>1, ReconcileMoves DEF ListGraphs
<1>7. CASE Goto(w, "remanifest") /\ ListGraphs(w)
  BY <1>1, <1>2, <1>7, ReconcileGoes DEF ListGraphs, ReconcilePcs
<1>8. QED  BY <1>5, <1>6, <1>7 DEF ListGraphs

LEMMA RepairKeeps ==
    ASSUME IInv, NEW w \in Workers,
           \/ RepairMissing(w) \/ SweepExcess(w) \/ AskDefault(w) \/ RepairDefault(w)
           \/ SweepStrays(w)
    PROVE  IInv'
<1> DEFINE j == job[w]
<1>1. j \in ReconcileJobs(submittedEver, approvedEver) /\ j.pc \in ReconcilePcs
  BY InReconcile DEF RepairMissing, SweepExcess, AskDefault, RepairDefault, SweepStrays, At,
                     ReconcilePcs
<1>2. j.plan.missing \subseteq submittedEver /\ j.plan.current \subseteq approvedEver
  BY <1>1 DEF ReconcileJobs, Plans
<1>3. CASE RepairMissing(w)
  <2>1. Reachable => /\ PutNamed(j.plan.missing) \in Stores(submittedEver, approvedEver)
                     /\ {PutNamed(V) : V \in SUBSET j.plan.missing}
                           \subseteq Stores(submittedEver, approvedEver)
    BY <1>2, Calls DEF IInv
  <2>2. store' \in Stores(submittedEver, approvedEver) /\ faults' \in Nat
    BY <1>3, <2>1, CallEnds DEF RepairMissing, IInv
  <2>3. QED  BY <1>1, <1>3, <2>2, ReconcileGoes DEF RepairMissing, ReconcilePcs
<1>4. CASE SweepExcess(w)
  <2>1. Reachable => /\ DropNamed(j.plan.excess) \in Stores(submittedEver, approvedEver)
                     /\ {DropNamed(V) : V \in SUBSET j.plan.excess}
                           \subseteq Stores(submittedEver, approvedEver)
    BY Calls DEF IInv
  <2>2. store' \in Stores(submittedEver, approvedEver) /\ faults' \in Nat
    BY <1>4, <2>1, CallEnds DEF SweepExcess, IInv
  <2>3. Goto(w, "resweep") \/ Goto(w, "ask")
    BY <1>4 DEF SweepExcess
  <2>4. QED  BY <1>1, <1>4, <2>2, <2>3, ReconcileGoes DEF SweepExcess, ReconcilePcs
<1>5. CASE AskDefault(w)
  <2>1. UNCHANGED store /\ (NoFault \/ Fault)
    BY <1>5 DEF AskDefault, Answered, Unanswered
  <2>2. Goto(w, "redefault") \/ Goto(w, "resweep")
    BY <1>5 DEF AskDefault
  <2>3. QED  BY <1>1, <1>5, <2>1, <2>2, Unmoved, ReconcileGoes DEF AskDefault, ReconcilePcs
<1>6. CASE RepairDefault(w)
  <2>1. Reachable => PutDefault(j.plan.current) \in Stores(submittedEver, approvedEver)
    BY <1>2, Calls DEF IInv
  <2>2. store' \in Stores(submittedEver, approvedEver) /\ faults' \in Nat
    BY <1>6, <2>1, CallFails DEF RepairDefault, IInv
  <2>3. QED  BY <1>1, <1>6, <2>2, ReconcileGoes DEF RepairDefault, ReconcilePcs
<1>7. CASE SweepStrays(w)
  <2>1. Reachable => /\ DropNamed(j.plan.stray) \in Stores(submittedEver, approvedEver)
                     /\ {DropNamed(V) : V \in SUBSET j.plan.stray}
                           \subseteq Stores(submittedEver, approvedEver)
    BY Calls DEF IInv
  <2>2. store' \in Stores(submittedEver, approvedEver) /\ faults' \in Nat
    BY <1>7, <2>1, CallEnds DEF SweepStrays, IInv
  <2>3. QED  BY <1>1, <1>7, <2>2, ReconcileGoes DEF SweepStrays, ReconcilePcs
<1>8. QED  BY <1>3, <1>4, <1>5, <1>6, <1>7

LEMMA EndKeeps ==
    ASSUME IInv, NEW w \in Workers, EndReconcile(w) PROVE IInv'
<1>1. JobsCarry(submittedEver, approvedEver)'
  BY EndsIdle, OneMoves DEF EndReconcile, IInv, history
<1>2. \A v \in Versions : (projected[v] \/ v \in job[w].marked) \in BOOLEAN
  OBVIOUS
<1>3. projected' \in [Versions -> BOOLEAN]
  BY <1>2 DEF EndReconcile
<1>4. QED  BY <1>1, <1>3 DEF EndReconcile, IInv, RecordTypes, history, bounds

LEMMA ReconcileKeeps ==
    ASSUME IInv, NEW w \in Workers, ReconcileStep(w) PROVE IInv'
<1>1. QED  BY StartKeeps, ProjectKeeps, CompareKeeps, RepairKeeps, ReadsManifest, EndKeeps
           DEF ReconcileStep

-----------------------------------------------------------------------------
(* Requests are aborted, processes die, and the store comes back.          *)

LEMMA ProcessesKeep ==
    ASSUME IInv, Store \/ \E w \in Workers : Deadlocked(w) \/ Crash(w) PROVE IInv'
<1>1. ASSUME NEW w \in Workers, Deadlocked(w) \/ Crash(w) PROVE IInv'
  BY <1>1, Unmoved, EndsIdle, StoreStep, JobStep DEF Deadlocked, Crash
<1>2. ASSUME UNCHANGED <<record, manifest, job, clock, served>>, faults' \in Nat,
             UNCHANGED <<submittedEver, approvedEver>>, misbuilt' \in BOOLEAN,
             store' \in Stores(submittedEver, approvedEver)
      PROVE  IInv'
  BY <1>2 DEF IInv, RecordTypes, JobsCarry, record
<1>3. CASE StoreCrash
  <2>1. store' \in Stores(submittedEver, approvedEver)
    BY <1>3 DEF StoreCrash, Gone, Stores, IInv
  <2>2. QED  BY <1>2, <1>3, <2>1, FaultCounts DEF StoreCrash, history, IInv, RecordTypes
<1>4. CASE LoaderStages
  <2>1. store' \in Stores(submittedEver, approvedEver)
    BY <1>4 DEF LoaderStages, Stores, IInv
  <2>2. QED  BY <1>2, <1>4, <2>1 DEF LoaderStages, history, bounds, IInv, RecordTypes
<1>5. CASE LoaderReads
  <2> DEFINE default == manifest.default \cap store.staged
             named == (manifest.named \cup manifest.default) \cap store.staged
  <2>1. store' = [state |-> "loading", dataset |-> named # {}, staged |-> {},
                  named |-> named, default |-> default]
    BY <1>5 DEF LoaderReads
  <2>2. default \subseteq approvedEver /\ named \subseteq submittedEver /\ default \subseteq named
    BY DEF IInv, Sheets, StatesReviewed
  <2>3. store' \in Stores(submittedEver, approvedEver)
    BY <2>1, <2>2 DEF Stores
  <2>4. misbuilt' \in BOOLEAN
    BY <1>5 DEF LoaderReads, IInv, RecordTypes
  <2>5. QED  BY <1>2, <1>5, <2>3, <2>4 DEF LoaderReads, bounds, IInv, RecordTypes
<1>6. CASE LoaderServes
  <2>1. store' \in Stores(submittedEver, approvedEver)
    BY <1>6 DEF LoaderServes, Stores, IInv
  <2>2. QED  BY <1>2, <1>6, <2>1 DEF LoaderServes, history, bounds, IInv, RecordTypes
<1>7. QED  BY <1>1, <1>3, <1>4, <1>5, <1>6 DEF Store

-----------------------------------------------------------------------------
LEMMA AtFirst == Init => IInv
<1> SUFFICES ASSUME Init PROVE IInv
  OBVIOUS
<1>1. Versions \subseteq Nat /\ IsFiniteSet(Versions) /\ status \in [Versions -> Statuses]
  BY Constants DEF Init
<1>2. Cardinality(Versions) \in Nat
  BY <1>1, FS_CardinalityType
<1>3. approvedAt \in [Versions -> Nat] /\ projected \in [Versions -> BOOLEAN]
  BY <1>1 DEF Init
<1>4. RecordTypes
  BY <1>1, <1>2, <1>3 DEF Init, RecordTypes
<1>5. StatesReviewed(status, submittedEver, approvedEver)
  BY <1>1 DEF Init, StatesReviewed
<1>6. Target.default \subseteq approvedEver /\ Target.named \subseteq submittedEver
  BY <1>1 DEF Init, Target, Targets, CurrentOf, Retained, InState
<1>7. Target = [default |-> Target.default, named |-> Target.named]
  BY DEF Target, Targets
<1>8. manifest \in Sheets(submittedEver, approvedEver)
  BY <1>6, <1>7 DEF Init, Sheets
<1>9. store \in Stores(submittedEver, approvedEver)
  BY <1>6 DEF Init, Stores
<1>10. JobsCarry(submittedEver, approvedEver)
  BY DEF Init, JobsCarry, Carries
<1>11. QED  BY <1>4, <1>5, <1>8, <1>9, <1>10 DEF IInv

LEMMA StepKeeps == IInv /\ [Next]_vars => IInv'
<1> SUFFICES ASSUME IInv, [Next]_vars PROVE IInv'
  OBVIOUS
<1>1. CASE UNCHANGED vars
  BY <1>1 DEF vars, record, bounds, history, IInv, RecordTypes, JobsCarry
<1>2. CASE Next
  BY <1>2, RequestKeeps, ReviewKeeps, ReconcileKeeps, ProcessesKeep DEF Next
<1>3. QED  BY <1>1, <1>2

\* The inductive invariant: what is in the tables, the manifest and the store,
\* and what each request carries between two of its steps.
THEOREM ProjectionInvariant == Spec => []IInv
<1>1. QED  BY AtFirst, StepKeeps, PTL DEF Spec

\* The variables of Projection keep their types.
THEOREM ProjectionTypes == Spec => []TypeOK
<1>1. IInv => TypeOK
  BY DEF IInv, TypeOK, RecordTypes, StatesReviewed, Sheets, Stores, Sheet
<1>2. QED  BY <1>1, ProjectionInvariant, PTL

\* Whatever requests interleave, whichever calls fail before or after they took
\* effect, and whenever the store is rebuilt: the default graph and the manifest
\* name only versions once approved, the named graphs only versions once
\* submitted (reconcile, approve_version and the loader).
THEOREM ReviewedServed == Spec => []OnlyReviewedServed
<1>1. IInv => OnlyReviewedServed
  BY DEF IInv, OnlyReviewedServed, Sheets, Stores
<1>2. QED  BY <1>1, ProjectionInvariant, PTL

-----------------------------------------------------------------------------
(* Part 3: one worker.                                                     *)

\* At most one version of the states to start from is approved.
OneAt(stat) == \A u, v \in InState(stat, "approved") : u = v
OneWorker == /\ \E x : Workers = {x}
             /\ \A stat \in InitialStatus : OneAt(stat)

\* The graphs of the store hold version v as its state calls for.
Shown(v) == /\ status[v] \in {"in-review", "approved"} => v \in store.named
            /\ status[v] = "approved" => v \in store.default

\* The store was not rebuilt from something outdated, and holds graphs.
Trusted == store.state \in {"up", "loading"} /\ ~misbuilt

MarksTrue == /\ retired => \A v \in Versions : ~projected[v]
             /\ Trusted => \A v \in Versions : projected[v] => Shown(v)
             /\ \A v \in Versions : projected[v] => status[v] # "none"

\* The state the version of a review is in.
StateOf(j) ==
    IF j.pc \in Uncommitted
    THEN IF j.op = "submit" THEN "draft" ELSE "in-review"
    ELSE IF j.op = "submit" THEN "in-review"
         ELSE IF j.op = "approve" THEN "approved" ELSE "draft"

\* What a review knows when nobody else is there.
KnowsReview(j) ==
    /\ ~retired
    /\ status[j.v] = StateOf(j)
    /\ j.pc \in {"update", "previous", "supersede"} =>
          "status" \in j.writes /\ ("mark" \in j.writes <=> projected[j.v])
    /\ j.pc \in {"decide", "update", "previous", "supersede"} /\ j.op = "approve" =>
          j.previous = InState(status, "approved") \ {j.v}
    /\ j.pc \notin Uncommitted => ~projected[j.v]
    /\ j.pc = "default" /\ j.ok /\ Trusted => j.v \in store.named
    /\ j.pc = "mark" /\ Trusted => Shown(j.v)

\* What a retirement knows: the marks that are left are those it will clear.
KnowsRetirement(j) ==
    /\ ~retired
    /\ \A v \in Versions : projected[v] => v \in j.todo \cup j.putting \cup j.marked
    /\ j.pc = "clear" => j.putting = {}

\* What a reconcile knows when nobody else is there.
KnowsReconcile(j) ==
    /\ j.sawRetired = retired
    /\ j.pc \in {"unprojected", "project", "remark"} => ~retired
    /\ retired => j.marked \cup j.putting = {}
    /\ \A v \in j.todo : status[v] = "approved" => v \in j.default
    /\ j.default \subseteq InState(status, "approved")
    /\ Trusted => \A v \in j.putting \cup j.marked : Shown(v)
    /\ \A v \in j.todo \cup j.putting \cup j.marked : status[v] # "none"
    /\ ~retired => \A v \in j.plan.excess \cup j.plan.stray :
                       status[v] \notin {"in-review", "approved"}
    /\ j.plan.current # {} => InState(status, "approved") \subseteq j.plan.current
    /\ j.pc \in {"ask", "redefault"} => j.plan.current # {}

KnowsAdmin(j) == /\ j.op = "retire" => retired
                 /\ j.pc = "drop" => j.op = "retire"

Knows(j) == j # Idle =>
    /\ j.op \in {"submit", "approve", "reject"} => KnowsReview(j)
    /\ j.pc \in {"clear", "unmark"} => KnowsRetirement(j)
    /\ j.op \in {"publish", "retire", "unretire"} /\ j.pc \notin {"clear", "unmark"} =>
          KnowsAdmin(j)
    /\ j.op = "reconcile" => KnowsReconcile(j)

\* The inductive invariant for one worker.
SoleInv == /\ IInv
           /\ OneAt(status)
           /\ MarksTrue
           /\ \A w \in Workers : Knows(job[w])

-----------------------------------------------------------------------------
(* What is known of a request.                                             *)

LEMMA KnownReview ==
    ASSUME SoleInv, NEW w \in Workers, job[w].pc \in ReviewPcs
    PROVE  /\ job[w] \in ReviewJobs(submittedEver, approvedEver)
           /\ Reviewed(job[w], submittedEver, approvedEver)
           /\ KnowsReview(job[w]) /\ ~retired
<1>1. /\ job[w] \in ReviewJobs(submittedEver, approvedEver)
      /\ Reviewed(job[w], submittedEver, approvedEver)
  BY InReview DEF SoleInv
<1>2. job[w] # Idle
  BY DEF Idle, ReviewPcs, Uncommitted
<1>3. Knows(job[w])
  BY DEF SoleInv
<1>4. KnowsReview(job[w])
  BY <1>1, <1>2, <1>3 DEF Knows, ReviewJobs
<1>5. QED  BY <1>1, <1>4 DEF KnowsReview

LEMMA KnownReconcile ==
    ASSUME SoleInv, NEW w \in Workers, job[w].pc \in ReconcilePcs
    PROVE  /\ job[w] \in ReconcileJobs(submittedEver, approvedEver)
           /\ KnowsReconcile(job[w])
<1>1. job[w] \in ReconcileJobs(submittedEver, approvedEver)
  BY InReconcile DEF SoleInv
<1>2. job[w] # Idle
  BY DEF Idle, ReconcilePcs
<1>3. Knows(job[w])
  BY DEF SoleInv
<1>4. QED  BY <1>1, <1>2, <1>3 DEF Knows, ReconcileJobs

LEMMA KnownRetirement ==
    ASSUME SoleInv, NEW w \in Workers, job[w].pc \in {"clear", "unmark"}
    PROVE  /\ job[w] \in RetireJobs(submittedEver, approvedEver)
           /\ KnowsRetirement(job[w])
<1>1. job[w] \in RetireJobs(submittedEver, approvedEver)
  BY InRetirement DEF SoleInv
<1>2. job[w] # Idle
  BY DEF Idle
<1>3. Knows(job[w])
  BY DEF SoleInv
<1>4. QED  BY <1>1, <1>2, <1>3 DEF Knows

LEMMA Versioned ==
    ASSUME SoleInv
    PROVE  /\ Versions \subseteq Nat /\ status \in [Versions -> Statuses]
           /\ projected \in [Versions -> BOOLEAN] /\ DOMAIN job = Workers
           /\ OneAt(status) /\ MarksTrue
BY Constants DEF SoleInv, IInv, RecordTypes, JobsCarry

LEMMA JobIs ==
    ASSUME SoleInv, NEW w \in Workers, NEW k, job' = [job EXCEPT ![w] = k]
    PROVE  job'[w] = k
BY Versioned

LEMMA IdleKnows ==
    ASSUME SoleInv, NEW w \in Workers, Done(w) PROVE Knows(job[w])'
<1>1. job'[w] = Idle
  BY JobIs DEF Done
<1>2. QED  BY <1>1 DEF Knows

\* There is nobody else.
LEMMA Alone ==
    ASSUME OneWorker, SoleInv, NEW w \in Workers, IInv',
           OneAt(status)', MarksTrue', Knows(job[w])'
    PROVE  SoleInv'
BY DEF OneWorker, SoleInv

\* The same, where the system of record stays.
Proceeds(w) == MarksTrue' /\ Knows(job[w])'

LEMMA Alike ==
    ASSUME OneWorker, SoleInv, NEW w \in Workers, IInv', status' = status, Proceeds(w)
    PROVE  SoleInv'
BY Alone, Versioned DEF Proceeds, OneAt, InState

\* What the marks say does not depend on anything else.
LEMMA MarksStay ==
    ASSUME SoleInv, UNCHANGED <<retired, status, projected, misbuilt, store>>
    PROVE  MarksTrue'
BY Versioned DEF MarksTrue, Trusted, Shown

-----------------------------------------------------------------------------
(* Requests begin.                                                         *)

LEMMA SoleRequest ==
    ASSUME OneWorker, SoleInv, NEW w \in Workers, IInv', Request(w) PROVE SoleInv'
<1>1. ASSUME NEW k, Begin(w, k)
      PROVE  job'[w] = k /\ store' = store /\ misbuilt' = misbuilt
  BY <1>1, JobIs DEF Begin, history
<1>2. CASE Publish(w)
  <2>1. PICK v \in Versions : status[v] = "none" /\ status' = [status EXCEPT ![v] = "draft"]
    BY <1>2 DEF Publish
  <2>2. Begin(w, Admin("publish")) /\ retired' = retired /\ projected' = projected
    BY <1>2 DEF Publish
  <2>3. InState(status', "approved") = InState(status, "approved")
    BY <2>1, Versioned DEF InState
  <2>4. OneAt(status)'
    BY <2>3, Versioned DEF OneAt
  <2>5. \A u \in Versions : Shown(u) => Shown(u)'
    BY <1>1, <2>1, <2>2, Versioned DEF Shown
  <2>6. MarksTrue'
    BY <1>1, <2>1, <2>2, <2>5, Versioned DEF MarksTrue, Trusted
  <2>7. Knows(job[w])'
    BY <1>1, <2>2 DEF Admin, Knows, KnowsAdmin
  <2>8. QED  BY <2>4, <2>6, <2>7, Alone
<1>3. ASSUME NEW op \in {"submit", "approve", "reject"}, NEW p \in {"check", "load"},
             NEW needs \in {"draft", "in-review"}, BeginReview(w, op, needs, p),
             needs = IF op = "submit" THEN "draft" ELSE "in-review"
      PROVE  SoleInv'
  <2>1. PICK v \in Versions : status[v] = needs /\ Begin(w, Review(p, op, v))
    BY <1>3 DEF BeginReview
  <2>2. ~retired /\ UNCHANGED <<retired, status, projected>>
    BY <1>3 DEF BeginReview, record
  <2>3. job'[w] = Review(p, op, v) /\ store' = store /\ misbuilt' = misbuilt
    BY <1>1, <2>1
  <2>4. MarksTrue'
    BY <2>2, <2>3, MarksStay
  <2>5. job'[w].pc = p /\ job'[w].op = op /\ job'[w].v = v
    BY <2>3 DEF Review
  <2>6. KnowsReview(job[w])'
    BY <1>3, <2>1, <2>2, <2>5 DEF KnowsReview, StateOf, Uncommitted
  <2>7. Knows(job[w])'
    BY <1>3, <2>5, <2>6 DEF Knows
  <2>8. QED  BY <2>2, <2>4, <2>7, Alike DEF Proceeds
<1>4. CASE BeginSubmit(w)
  BY <1>3, <1>4 DEF BeginSubmit
<1>5. CASE BeginReject(w)
  BY <1>3, <1>5 DEF BeginReject
<1>6. CASE BeginApprove(w)
  BY <1>3, <1>6 DEF BeginApprove
<1>7. CASE Retire(w)
  <2>1. /\ Begin(w, Retirement) /\ ~retired /\ UNCHANGED <<retired, status, projected>>
    BY <1>7 DEF Retire, record
  <2>2. job'[w] = Retirement /\ store' = store /\ misbuilt' = misbuilt
    BY <1>1, <2>1
  <2>3. MarksTrue'
    BY <2>1, <2>2, MarksStay
  <2>4. \A v \in Versions : projected[v] => v \in Retirement.todo
    BY Versioned DEF MarksTrue, Retirement
  <2>5. /\ job'[w].pc = "clear" /\ job'[w].op = "retire" /\ job'[w].putting = {}
        /\ job'[w].todo = Retirement.todo
    BY <2>2 DEF Retirement
  <2>6. KnowsRetirement(job[w])'
    BY <2>1, <2>4, <2>5 DEF KnowsRetirement
  <2>7. Knows(job[w])'
    BY <2>5, <2>6 DEF Knows
  <2>8. QED  BY <2>1, <2>3, <2>7, Alike DEF Proceeds
<1>8. CASE Unretire(w)
  <2>1. Begin(w, Admin("unretire")) /\ retired /\ retired' = FALSE
        /\ UNCHANGED <<status, projected>>
    BY <1>8 DEF Unretire
  <2>2. MarksTrue'
    BY <2>1, Versioned DEF MarksTrue
  <2>3. Knows(job[w])'
    BY <1>1, <2>1 DEF Admin, Knows, KnowsAdmin
  <2>4. QED  BY <2>1, <2>2, <2>3, Alike DEF Proceeds
<1>9. CASE BeginReconcile(w)
  <2>1. Begin(w, Reconcile(w)) /\ UNCHANGED <<retired, status, projected>>
    BY <1>9 DEF BeginReconcile, record
  <2>2. job'[w] = Reconcile(w) /\ store' = store /\ misbuilt' = misbuilt
    BY <1>1, <2>1
  <2>3. MarksTrue'
    BY <2>1, <2>2, MarksStay
  <2>4. Knows(job[w])'
    BY <2>1, <2>2 DEF Reconcile, NoPlan, Knows, KnowsReconcile
  <2>5. QED  BY <2>1, <2>3, <2>4, Alike DEF Proceeds
<1>10. QED  BY <1>2, <1>4, <1>5, <1>6, <1>7, <1>8, <1>9 DEF Request

-----------------------------------------------------------------------------
(* submit, approve and reject.                                             *)

\* The commit takes the mark away, and goes on to the manifest.
LEMMA SoleCommit ==
    ASSUME SoleInv, NEW w \in Workers, job[w].pc \in {"update", "supersede"}, NEW s,
           Commit(w, s), misbuilt' = misbuilt
    PROVE  /\ status' = s /\ ~retired /\ retired' = retired /\ store' = store
           /\ job'[w] = [job[w] EXCEPT !.pc = "manifest"]
           /\ ~projected'[job[w].v]
           /\ \A u \in Versions \ {job[w].v} : projected'[u] = projected[u]
<1> DEFINE j == job[w]
<1>1. j \in ReviewJobs(submittedEver, approvedEver) /\ KnowsReview(j) /\ ~retired
  BY KnownReview DEF ReviewPcs, Uncommitted
<1>2. j.v \in Versions /\ ("mark" \in j.writes <=> projected[j.v])
  BY <1>1 DEF ReviewJobs, KnowsReview
<1>3. \/ projected' = [projected EXCEPT ![j.v] = FALSE]
      \/ ~projected[j.v] /\ projected' = projected
  BY <1>2 DEF Commit, MarkReset
<1>4. ~projected'[j.v] /\ \A u \in Versions \ {j.v} : projected'[u] = projected[u]
  BY <1>2, <1>3, Versioned
<1>5. job' = [job EXCEPT ![w] = [j EXCEPT !.pc = "manifest"]]
  BY DEF Commit, Goto
<1>6. job'[w] = [j EXCEPT !.pc = "manifest"]
  BY <1>5, JobIs
<1>7. QED  BY <1>1, <1>4, <1>6 DEF Commit

\* The UPDATE sets the state.
LEMMA SoleStatus ==
    ASSUME SoleInv, NEW w \in Workers, job[w].pc \in {"update", "supersede"}, NEW to
    PROVE  StatusSet(w, to) = [status EXCEPT ![job[w].v] = to]
BY KnownReview DEF StatusSet, KnowsReview, ReviewPcs, Uncommitted

\* What an approval commits: with every other approved version superseded.
LEMMA SoleApproved ==
    ASSUME SoleInv, NEW w \in Workers, CommitApprove(w)
    PROVE  LET v == job[w].v IN
           /\ v \in Versions /\ status[v] = "in-review" /\ job[w].op = "approve"
           /\ Commit(w, [u \in Versions |-> IF u = v THEN "approved"
                                           ELSE IF status[u] = "approved" THEN "superseded"
                                           ELSE status[u]])
<1> DEFINE j == job[w]
           approved == StatusSet(w, "approved")
           s == [u \in Versions |-> IF u \in j.previous THEN "superseded" ELSE approved[u]]
           t == [u \in Versions |-> IF u = j.v THEN "approved"
                                    ELSE IF status[u] = "approved" THEN "superseded"
                                    ELSE status[u]]
<1>1. /\ j \in ReviewJobs(submittedEver, approvedEver) /\ KnowsReview(j)
      /\ j.pc = "supersede" /\ j.op = "approve"
  BY KnownReview DEF CommitApprove, At, ReviewPcs, Uncommitted, Reviewed
<1>2. /\ j.v \in Versions /\ status[j.v] = "in-review"
      /\ j.previous = InState(status, "approved") \ {j.v}
  BY <1>1 DEF ReviewJobs, KnowsReview, StateOf, Uncommitted
<1>3. approved = [status EXCEPT ![j.v] = "approved"]
  BY <1>1, SoleStatus
<1>4. Commit(w, s)
  BY DEF CommitApprove
<1> HIDE DEF approved
<1>5. ASSUME NEW u \in Versions
      PROVE  (IF u \in j.previous THEN "superseded" ELSE approved[u])
               = IF u = j.v THEN "approved"
                 ELSE IF status[u] = "approved" THEN "superseded" ELSE status[u]
  BY <1>2, <1>3, Versioned DEF InState
<1>6. s = t
  BY <1>5
<1> HIDE DEF s, t
<1>7. Commit(w, t)
  BY <1>4, <1>6
<1>8. QED  BY <1>1, <1>2, <1>7 DEF t

LEMMA SoleCommits ==
    ASSUME OneWorker, SoleInv, NEW w \in Workers, IInv',
           CommitSubmit(w) \/ CommitReject(w) \/ CommitApprove(w)
    PROVE  SoleInv'
<1> DEFINE j == job[w]
<1>1. /\ j \in ReviewJobs(submittedEver, approvedEver) /\ KnowsReview(j)
      /\ j.pc \in {"update", "supersede"}
  BY KnownReview DEF CommitSubmit, CommitReject, CommitApprove, At, ReviewPcs, Uncommitted
<1>2. j.v \in Versions /\ j.op \in {"submit", "approve", "reject"} /\ "pc" \in DOMAIN j
  BY <1>1 DEF ReviewJobs
<1>3. ASSUME NEW s \in [Versions -> Statuses], Commit(w, s), misbuilt' = misbuilt, OneAt(s),
             s[j.v] = (IF j.op = "submit" THEN "in-review"
                       ELSE IF j.op = "approve" THEN "approved" ELSE "draft"),
             \A u \in Versions \ {j.v} :
                /\ s[u] = "in-review" => status[u] = "in-review"
                /\ s[u] = "approved" => status[u] = "approved"
                /\ s[u] = "none" => status[u] = "none"
      PROVE  SoleInv'
  <2>1. /\ status' = s /\ ~retired /\ retired' = retired /\ store' = store
        /\ job'[w] = [j EXCEPT !.pc = "manifest"]
        /\ ~projected'[j.v]
        /\ \A u \in Versions \ {j.v} : projected'[u] = projected[u]
    BY <1>1, <1>3, SoleCommit
  <2>2. OneAt(status)'
    BY <1>3, <2>1 DEF OneAt
  <2>3. \A u \in Versions \ {j.v} : Shown(u) => Shown(u)'
    BY <1>3, <2>1 DEF Shown
  <2>4. MarksTrue'
    BY <1>3, <2>1, <2>3, Versioned DEF MarksTrue, Trusted
  <2>5. /\ job'[w].pc = "manifest" /\ job'[w].op = j.op /\ job'[w].v = j.v
    BY <1>1, <2>1 DEF ReviewJobs
  <2>6. Knows(job[w])'
    BY <1>2, <1>3, <2>1, <2>5 DEF Knows, KnowsReview, StateOf, Uncommitted
  <2>7. QED  BY <2>2, <2>4, <2>6, Alone
<1>4. CASE CommitSubmit(w)
  <2> DEFINE s == [status EXCEPT ![j.v] = "in-review"]
  <2>1. s \in [Versions -> Statuses] /\ OneAt(s)
    BY <1>2, Versioned DEF Statuses, OneAt, InState
  <2>2. StatusSet(w, "in-review") = s
    BY <1>1, SoleStatus
  <2>3. Commit(w, s) /\ misbuilt' = misbuilt /\ j.op = "submit"
    BY <1>4, <2>2 DEF CommitSubmit
  <2>4. QED  BY <1>2, <1>3, <2>1, <2>3, Versioned
<1>5. CASE CommitReject(w)
  <2> DEFINE s == [status EXCEPT ![j.v] = "draft"]
  <2>1. s \in [Versions -> Statuses] /\ OneAt(s)
    BY <1>2, Versioned DEF Statuses, OneAt, InState
  <2>2. StatusSet(w, "draft") = s
    BY <1>1, SoleStatus
  <2>3. Commit(w, s) /\ misbuilt' = misbuilt /\ j.op = "reject"
    BY <1>5, <2>2 DEF CommitReject, history
  <2>4. QED  BY <1>2, <1>3, <2>1, <2>3, Versioned
<1>6. CASE CommitApprove(w)
  <2> DEFINE s == [u \in Versions |-> IF u = j.v THEN "approved"
                                      ELSE IF status[u] = "approved" THEN "superseded"
                                      ELSE status[u]]
  <2>1. Commit(w, s) /\ j.op = "approve" /\ misbuilt' = misbuilt
    BY <1>6, SoleApproved DEF CommitApprove
  <2>2. s \in [Versions -> Statuses]
    BY Versioned DEF Statuses
  <2>3. \A u \in Versions \ {j.v} : s[u] # "approved"
    OBVIOUS
  <2>4. OneAt(s)
    BY <2>3 DEF OneAt, InState
  <2>5. \A u \in Versions \ {j.v} :
           /\ s[u] = "in-review" => status[u] = "in-review"
           /\ s[u] = "none" => status[u] = "none"
    OBVIOUS
  <2>6. s[j.v] = "approved"
    BY <1>2
  <2> HIDE DEF s
  <2>7. QED  BY <1>3, <2>1, <2>2, <2>3, <2>4, <2>5, <2>6
<1>7. QED  BY <1>4, <1>5, <1>6

\* The look-up finds every other approved version.
LEMMA SoleDecision ==
    ASSUME OneWorker, SoleInv, NEW w \in Workers, IInv',
           FindPrevious(w) \/ ApprovalRefused(w) \/ Decide(w)
    PROVE  SoleInv'
<1> DEFINE j == job[w]
<1>1. UNCHANGED <<retired, status, projected, misbuilt, store>>
  BY DEF FindPrevious, ApprovalRefused, Decide, record, history
<1>2. MarksTrue'
  BY <1>1, MarksStay
<1>3. /\ j \in ReviewJobs(submittedEver, approvedEver) /\ KnowsReview(j)
      /\ j.pc \in {"check", "decide"} /\ Reviewed(j, submittedEver, approvedEver)
  BY KnownReview DEF FindPrevious, ApprovalRefused, Decide, At, ReviewPcs, Uncommitted
<1>4. j.op = "approve" /\ j.v \in Versions /\ status[j.v] = "in-review"
  BY <1>3 DEF Reviewed, ReviewJobs, KnowsReview, StateOf, Uncommitted
<1>5. CASE FindPrevious(w)
  <2>1. CurrentApproved(j.v) = InState(status, "approved") \ {j.v}
    BY Versioned DEF CurrentApproved, OneAt, InState
  <2> DEFINE k == [j EXCEPT !.pc = "decide", !.previous = CurrentApproved(j.v)]
  <2>2. job'[w] = k
    <3>1. job' = [job EXCEPT ![w] = k]
      BY <1>5 DEF FindPrevious
    <3> HIDE DEF k
    <3>2. QED  BY <3>1, JobIs
  <2>3. /\ job'[w].pc = "decide" /\ job'[w].op = "approve" /\ job'[w].v = j.v
        /\ job'[w].previous = CurrentApproved(j.v)
    BY <1>3, <1>4, <2>2 DEF ReviewJobs
  <2>4. InState(status, "approved")' = InState(status, "approved")
    BY <1>1 DEF InState
  <2>5. Knows(job[w])'
    BY <1>1, <1>3, <1>4, <2>1, <2>3, <2>4 DEF Knows, KnowsReview, StateOf, Uncommitted
  <2>6. QED  BY <1>1, <1>2, <2>5, Alike DEF Proceeds
<1>6. CASE ApprovalRefused(w)
  BY <1>1, <1>2, <1>6, IdleKnows, Alike DEF ApprovalRefused, Proceeds
<1>7. CASE Decide(w)
  <2> DEFINE columns == {"stamp"} \cup ColumnsWritten(w, "approved")
             k == [j EXCEPT !.pc = "update", !.stamp = clock + 1, !.writes = columns]
  <2>1. "status" \in columns /\ ("mark" \in columns <=> projected[j.v])
    BY <1>4 DEF ColumnsWritten
  <2>2. job' = [job EXCEPT ![w] = k]
    BY <1>7 DEF Decide
  <2> HIDE DEF columns
  <2>3. job'[w] = k
    <3> HIDE DEF k
    <3>1. QED  BY <2>2, JobIs
  <2>4. /\ job'[w].pc = "update" /\ job'[w].op = "approve" /\ job'[w].v = j.v
        /\ job'[w].previous = j.previous /\ job'[w].writes = columns
    BY <1>3, <1>4, <2>3 DEF ReviewJobs
  <2>5. InState(status, "approved")' = InState(status, "approved")
    BY <1>1 DEF InState
  <2>6. j.previous = InState(status, "approved") \ {j.v}
    BY <1>3, <1>4, <1>7 DEF KnowsReview, Decide, At
  <2>7. Knows(job[w])'
    BY <1>1, <1>3, <1>4, <2>1, <2>4, <2>5, <2>6 DEF Knows, KnowsReview, StateOf, Uncommitted
  <2>8. QED  BY <1>1, <1>2, <2>7, Alike DEF Proceeds
<1>8. QED  BY <1>5, <1>6, <1>7

\* The rows are loaded, and updated without being committed.
LEMMA SoleRows ==
    ASSUME OneWorker, SoleInv, NEW w \in Workers, IInv',
           LoadRow(w) \/ UpdateApproved(w) \/ LoadPrevious(w)
    PROVE  SoleInv'
<1> DEFINE j == job[w]
<1>1. UNCHANGED <<retired, status, projected, misbuilt, store>>
  BY DEF LoadRow, UpdateApproved, LoadPrevious, record, history
<1>2. MarksTrue'
  BY <1>1, MarksStay
<1>3. /\ j \in ReviewJobs(submittedEver, approvedEver) /\ KnowsReview(j)
      /\ j.pc \in {"load", "update", "previous"} /\ Reviewed(j, submittedEver, approvedEver)
  BY KnownReview DEF LoadRow, UpdateApproved, LoadPrevious, At, ReviewPcs, Uncommitted
<1>4. InState(status, "approved")' = InState(status, "approved")
  BY <1>1 DEF InState
<1>5. status[j.v] = (IF j.op = "submit" THEN "draft" ELSE "in-review") /\ ~retired
  BY <1>3 DEF KnowsReview, StateOf, Uncommitted
<1>6. CASE LoadRow(w)
  <2> DEFINE columns == ColumnsWritten(w, IF j.op = "submit" THEN "in-review" ELSE "draft")
             k == [j EXCEPT !.pc = "update", !.writes = columns]
  <2>1. "status" \in columns /\ ("mark" \in columns <=> projected[j.v])
    BY <1>5 DEF ColumnsWritten
  <2>2. job' = [job EXCEPT ![w] = k]
    BY <1>6 DEF LoadRow
  <2> HIDE DEF columns
  <2>3. job'[w] = k
    <3> HIDE DEF k
    <3>1. QED  BY <2>2, JobIs
  <2>4. j.op \in {"submit", "reject"} /\ j.pc = "load"
    BY <1>3, <1>6 DEF ReviewJobs, Reviewed, LoadRow, At
  <2>5. /\ job'[w].pc = "update" /\ job'[w].op = j.op /\ job'[w].v = j.v
        /\ job'[w].writes = columns
    BY <1>3, <2>3 DEF ReviewJobs
  <2>6. Knows(job[w])'
    BY <1>1, <1>5, <2>1, <2>4, <2>5 DEF Knows, KnowsReview, StateOf, Uncommitted
  <2>7. QED  BY <1>1, <1>2, <2>6, Alike DEF Proceeds
<1>7. CASE UpdateApproved(w)
  <2> DEFINE k == [j EXCEPT !.pc = "previous"]
  <2>1. job' = [job EXCEPT ![w] = k]
    BY <1>7 DEF UpdateApproved, Goto
  <2>2. job'[w] = k
    <3> HIDE DEF k
    <3>1. QED  BY <2>1, JobIs
  <2>3. /\ job'[w].pc = "previous" /\ job'[w].op = j.op /\ job'[w].v = j.v
        /\ job'[w].writes = j.writes /\ job'[w].previous = j.previous /\ j.op = "approve"
        /\ j.pc = "update"
    BY <1>3, <1>7, <2>2 DEF ReviewJobs, UpdateApproved, At
  <2>4. Knows(job[w])'
    BY <1>1, <1>3, <1>4, <1>5, <2>3 DEF Knows, KnowsReview, StateOf, Uncommitted
  <2>5. QED  BY <1>1, <1>2, <2>4, Alike DEF Proceeds
<1>8. CASE LoadPrevious(w)
  <2> DEFINE previous == j.previous \ InState(status, "superseded")
             k == [j EXCEPT !.pc = "supersede", !.previous = previous]
  <2>1. j.op = "approve" /\ j.pc = "previous"
    BY <1>3, <1>8 DEF LoadPrevious, At, Reviewed
  <2>2. j.previous = InState(status, "approved") \ {j.v}
    BY <1>3, <2>1 DEF KnowsReview
  <2>3. previous = j.previous
    BY <2>2 DEF InState
  <2>4. job' = [job EXCEPT ![w] = k]
    BY <1>8 DEF LoadPrevious
  <2> HIDE DEF previous
  <2>5. job'[w] = k
    <3> HIDE DEF k
    <3>1. QED  BY <2>4, JobIs
  <2>6. /\ job'[w].pc = "supersede" /\ job'[w].op = j.op /\ job'[w].v = j.v
        /\ job'[w].writes = j.writes /\ job'[w].previous = j.previous
    BY <1>3, <2>3, <2>5 DEF ReviewJobs
  <2>7. Knows(job[w])'
    BY <1>1, <1>3, <1>4, <1>5, <2>1, <2>2, <2>6 DEF Knows, KnowsReview, StateOf, Uncommitted
  <2>8. QED  BY <1>1, <1>2, <2>7, Alike DEF Proceeds
<1>9. QED  BY <1>3, <1>6, <1>7, <1>8

-----------------------------------------------------------------------------
(* retire.                                                                 *)

LEMMA SoleClears ==
    ASSUME OneWorker, SoleInv, NEW w \in Workers, IInv', ClearNext(w) \/ Unmark(w)
    PROVE  SoleInv'
<1> DEFINE j == job[w]
<1>1. UNCHANGED <<retired, status, projected, misbuilt, store>>
  BY DEF ClearNext, Unmark, record, history
<1>2. MarksTrue'
  BY <1>1, MarksStay
<1>3. /\ j \in RetireJobs(submittedEver, approvedEver) /\ KnowsRetirement(j)
      /\ j.pc \in {"clear", "unmark"}
  BY KnownRetirement DEF ClearNext, Unmark, At
<1>4. ASSUME NEW k \in RetireJobs(submittedEver, approvedEver), job' = [job EXCEPT ![w] = k],
             \A v \in Versions : projected[v] => v \in k.todo \cup k.putting \cup k.marked,
             k.pc = "clear" => k.putting = {}
      PROVE  SoleInv'
  <2>1. job'[w] = k
    BY <1>4, JobIs
  <2>2. k.pc \in {"clear", "unmark"} /\ k.op = "retire"
    BY DEF RetireJobs
  <2>3. KnowsRetirement(job[w])'
    BY <1>1, <1>3, <1>4, <2>1 DEF KnowsRetirement
  <2>4. Knows(job[w])'
    BY <2>1, <2>2, <2>3 DEF Knows
  <2>5. QED  BY <1>1, <1>2, <2>4, Alike DEF Proceeds
<1>5. CASE ClearNext(w)
  <2>1. PICK v \in j.todo :
            LET left == [j EXCEPT !.todo = @ \ {v}]
            IN  job' = [job EXCEPT ![w] =
                           IF projected[v]
                           THEN [left EXCEPT !.pc = "unmark", !.putting = {v}]
                           ELSE left]
    BY <1>5 DEF ClearNext
  <2> DEFINE left == [j EXCEPT !.todo = @ \ {v}]
             moved == [left EXCEPT !.pc = "unmark", !.putting = {v}]
  <2>2. /\ left \in RetireJobs(submittedEver, approvedEver) /\ left.todo = j.todo \ {v}
        /\ left.pc = "clear" /\ left.putting = j.putting /\ left.marked = j.marked
    BY <1>3, <1>5 DEF RetireJobs, ClearNext, At
  <2>3. /\ moved \in RetireJobs(submittedEver, approvedEver) /\ moved.todo = j.todo \ {v}
        /\ moved.pc = "unmark" /\ moved.putting = {v} /\ moved.marked = j.marked
    BY <1>3, <2>1 DEF RetireJobs
  <2>4. j.putting = {}
    BY <1>3, <1>5 DEF KnowsRetirement, ClearNext, At
  <2>5. CASE projected[v]
    <3>1. job' = [job EXCEPT ![w] = moved]
      BY <2>1, <2>5
    <3> HIDE DEF moved
    <3>2. QED  BY <1>3, <1>4, <2>3, <2>4, <3>1 DEF KnowsRetirement
  <2>6. CASE ~projected[v]
    <3>1. job' = [job EXCEPT ![w] = left]
      BY <2>1, <2>6
    <3> HIDE DEF left
    <3>2. QED  BY <1>3, <1>4, <2>2, <2>4, <2>6, <3>1 DEF KnowsRetirement
  <2>7. QED  BY <2>5, <2>6
<1>6. CASE Unmark(w)
  <2> DEFINE k == [j EXCEPT !.pc = "clear", !.putting = {}, !.marked = @ \cup j.putting]
  <2>1. /\ k \in RetireJobs(submittedEver, approvedEver) /\ k.todo = j.todo
        /\ k.pc = "clear" /\ k.putting = {} /\ k.marked = j.marked \cup j.putting
    BY <1>3 DEF RetireJobs
  <2>2. job' = [job EXCEPT ![w] = k]
    BY <1>6 DEF Unmark
  <2> HIDE DEF k
  <2>3. QED  BY <1>3, <1>4, <2>1, <2>2 DEF KnowsRetirement
<1>7. QED  BY <1>5, <1>6

\* When the retirement commits, no mark is left.
LEMMA SoleRetires ==
    ASSUME OneWorker, SoleInv, NEW w \in Workers, IInv', CommitRetire(w)
    PROVE  SoleInv' /\ ~retired /\ retired' /\ status' = status
<1>1. KnowsRetirement(job[w]) /\ job[w].pc = "clear" /\ job[w].todo = {}
  BY KnownRetirement DEF CommitRetire, At
<1>2. /\ retired' = TRUE /\ status' = status /\ ~retired
      /\ projected' = [v \in Versions |-> projected[v] /\ v \notin job[w].marked]
      /\ job' = [job EXCEPT ![w] = Admin("retire")]
  BY <1>1 DEF CommitRetire, KnowsRetirement
<1>3. \A v \in Versions : ~projected'[v]
  BY <1>1, <1>2 DEF KnowsRetirement
<1>4. MarksTrue'
  BY <1>2, <1>3 DEF MarksTrue
<1>5. job'[w] = Admin("retire")
  BY <1>2, JobIs
<1>6. Knows(job[w])'
  BY <1>2, <1>5 DEF Admin, Knows, KnowsAdmin
<1>7. QED  BY <1>2, <1>4, <1>6, Alike DEF Proceeds

-----------------------------------------------------------------------------
(* The manifest.                                                           *)

\* Which kind of request is at the manifest.
LEMMA AtManifest ==
    ASSUME SoleInv, NEW w \in Workers, job[w].pc \in {"manifest", "remanifest", "write"}
    PROVE  /\ Knows(job[w]) /\ job[w] # Idle
           /\ \/ job[w] \in ReviewJobs(submittedEver, approvedEver) /\ KnowsReview(job[w])
              \/ job[w] \in AdminJobs(submittedEver, approvedEver) /\ KnowsAdmin(job[w])
              \/ job[w] \in ReconcileJobs(submittedEver, approvedEver) /\ KnowsReconcile(job[w])
<1>1. job[w] # Idle
  BY DEF Idle
<1>2. Knows(job[w])
  BY DEF SoleInv
<1>3. \/ job[w] \in ReviewJobs(submittedEver, approvedEver)
      \/ job[w] \in AdminJobs(submittedEver, approvedEver)
      \/ job[w] \in ReconcileJobs(submittedEver, approvedEver)
  BY <1>1 DEF SoleInv, IInv, JobsCarry, Carries, RetireJobs
<1>4. QED  BY <1>1, <1>2, <1>3 DEF Knows, ReviewJobs, AdminJobs, ReconcileJobs

\* A request that goes from one such step to the next knows what it knew.
LEMMA SoleManifest ==
    ASSUME OneWorker, SoleInv, NEW w \in Workers, IInv',
           ReadManifest(w) \/ RereadManifest(w) \/ WriteManifest(w)
    PROVE  SoleInv'
<1> DEFINE j == job[w]
<1>1. UNCHANGED <<retired, status, projected, misbuilt, store>>
  BY DEF ReadManifest, RereadManifest, WriteManifest, record, history
<1>2. MarksTrue'
  BY <1>1, MarksStay
<1>3. j.pc \in {"manifest", "remanifest", "write"}
  BY DEF ReadManifest, RereadManifest, WriteManifest, At
<1>4. InState(status, "approved")' = InState(status, "approved")
  BY <1>1 DEF InState
<1>5. CASE job'[w] = Idle
  BY <1>1, <1>2, <1>5, Alike DEF Proceeds, Knows
<1>6. ASSUME NEW p, NEW s, job' = [job EXCEPT ![w] = [j EXCEPT !.pc = p, !.sheet = s]],
             p \in {"write", AfterManifest(j.op)}
      PROVE  Knows(job[w])'
  <2>1. job'[w] = [j EXCEPT !.pc = p, !.sheet = s]
    <3> DEFINE k == [j EXCEPT !.pc = p, !.sheet = s]
    <3>1. job' = [job EXCEPT ![w] = k]
      BY <1>6
    <3> HIDE DEF k
    <3>2. job'[w] = k
      BY <3>1, JobIs
    <3>3. QED  BY <3>2 DEF k
  <2>2. CASE j \in ReviewJobs(submittedEver, approvedEver) /\ KnowsReview(j)
    <3>1. p \in {"write", "named", "unname"}
      BY <1>6, <2>2 DEF AfterManifest, ReviewJobs
    <3>2. /\ job'[w].pc = p /\ job'[w].op = j.op /\ job'[w].v = j.v
          /\ j.op \in {"submit", "approve", "reject"}
      BY <2>1, <2>2 DEF ReviewJobs
    <3>3. j.pc \notin Uncommitted /\ p \notin Uncommitted
      BY <1>3, <3>1 DEF Uncommitted
    <3>4. KnowsReview(job[w])'
      BY <1>1, <2>2, <3>1, <3>2, <3>3 DEF KnowsReview, StateOf
    <3>5. QED  BY <3>1, <3>2, <3>4 DEF Knows
  <2>3. CASE j \in AdminJobs(submittedEver, approvedEver) /\ KnowsAdmin(j)
    <3>1. p = "drop" => j.op = "retire"
      BY <1>6, <2>3 DEF AfterManifest, AdminJobs
    <3>2. /\ job'[w].pc = p /\ job'[w].op = j.op /\ j.op \in {"publish", "retire", "unretire"}
      BY <2>1, <2>3 DEF AdminJobs
    <3>3. p \notin {"clear", "unmark"}
      BY <1>6, <2>3 DEF AfterManifest, AdminJobs
    <3>4. QED  BY <1>1, <2>3, <3>1, <3>2, <3>3 DEF KnowsAdmin, Knows
  <2>4. CASE j \in ReconcileJobs(submittedEver, approvedEver) /\ KnowsReconcile(j)
    <3>1. p \in {"write", "end"}
      BY <1>6, <2>4 DEF AfterManifest, ReconcileJobs
    <3>2. /\ job'[w].pc = p /\ job'[w].op = "reconcile" /\ job'[w].sawRetired = j.sawRetired
          /\ job'[w].todo = j.todo /\ job'[w].default = j.default
          /\ job'[w].putting = j.putting /\ job'[w].marked = j.marked /\ job'[w].plan = j.plan
      BY <2>1, <2>4 DEF ReconcileJobs
    <3>3. \A v : Shown(v)' <=> Shown(v)
      BY <1>1 DEF Shown
    <3>4. Trusted' <=> Trusted
      BY <1>1 DEF Trusted
    <3>5. KnowsReconcile(job[w])'
      BY <1>1, <1>4, <2>4, <3>1, <3>2, <3>3, <3>4 DEF KnowsReconcile
    <3>6. QED  BY <3>1, <3>2, <3>5 DEF Knows
  <2>5. QED  BY <1>3, <2>2, <2>3, <2>4, AtManifest
<1>7. CASE ReadManifest(w) \/ RereadManifest(w)
  <2>1. PICK s : job' = [job EXCEPT ![w] = [j EXCEPT !.pc = "write", !.sheet = s]]
    BY <1>7 DEF ReadManifest, RereadManifest
  <2>2. QED  BY <1>1, <1>2, <1>6, <2>1, Alike DEF Proceeds
<1>8. CASE WriteManifest(w)
  <2>1. Goto(w, AfterManifest(j.op))
    BY <1>8 DEF WriteManifest
  <2>2. CASE AfterManifest(j.op) = "answer"
    BY <2>1, <2>2, <1>5, JobIs DEF Goto
  <2>3. CASE AfterManifest(j.op) # "answer"
    <3>1. job' = [job EXCEPT ![w] = [j EXCEPT !.pc = AfterManifest(j.op)]]
      BY <2>1, <2>3 DEF Goto
    <3>2. [j EXCEPT !.pc = AfterManifest(j.op)]
            = [j EXCEPT !.pc = AfterManifest(j.op), !.sheet = j.sheet]
      BY <1>3, AtManifest DEF ReviewJobs, AdminJobs, ReconcileJobs
    <3>3. job' = [job EXCEPT ![w] = [j EXCEPT !.pc = AfterManifest(j.op), !.sheet = j.sheet]]
      BY <3>1, <3>2
    <3>4. QED  BY <1>1, <1>2, <1>6, <3>3, Alike DEF Proceeds
  <2>4. QED  BY <2>2, <2>3
<1>9. QED  BY <1>7, <1>8

-----------------------------------------------------------------------------
(* The store calls of a review.                                            *)

\* After the call the store is what it was, or what the call makes of it.
LEMMA CallMakes ==
    ASSUME NEW after, Succeeds(after) \/ Fails(after)
    PROVE  store' = store \/ (Reachable /\ store' = after)
BY DEF Succeeds, Fails, FailsIn

\* A request that calls the store and then ends, or goes on to p.
LEMMA GotoIs ==
    ASSUME SoleInv, NEW w \in Workers, NEW p, Goto(w, p)
    PROVE  job'[w] = IF p = "answer" THEN Idle ELSE [job[w] EXCEPT !.pc = p]
BY JobIs DEF Goto

LEMMA SoleNamed ==
    ASSUME OneWorker, SoleInv, NEW w \in Workers, IInv', ProjectNamed(w)
    PROVE  SoleInv'
<1> DEFINE j == job[w]
<1>1. /\ j \in ReviewJobs(submittedEver, approvedEver) /\ j.pc = "named" /\ ~retired
      /\ Reviewed(j, submittedEver, approvedEver) /\ KnowsReview(j)
  BY KnownReview DEF ProjectNamed, At, ReviewPcs, Uncommitted
<1>2. j.v \in Versions /\ j.op \in {"submit", "approve"}
  BY <1>1 DEF Reviewed, ReviewJobs, Uncommitted
<1>3. /\ status[j.v] = (IF j.op = "submit" THEN "in-review" ELSE "approved")
      /\ ~projected[j.v]
  BY <1>1, <1>2 DEF KnowsReview, StateOf, Uncommitted
<1>4. UNCHANGED <<retired, status, projected, misbuilt>>
  BY DEF ProjectNamed, record, history
<1>5. store' = store \/ (Reachable /\ store' = PutNamed({j.v}))
  BY CallMakes DEF ProjectNamed
<1>6. /\ store.named \subseteq store'.named /\ store'.default = store.default
      /\ store'.state = store.state
  BY <1>5 DEF PutNamed, SoleInv, IInv, Stores
<1>7. MarksTrue'
  BY <1>4, <1>6, Versioned DEF MarksTrue, Trusted, Shown
<1>8. CASE Succeeds(PutNamed({j.v})) /\ Goto(w, IF j.op = "approve" THEN "default" ELSE "mark")
  <2>1. j.v \in store'.named
    BY <1>8 DEF Succeeds, PutNamed, SoleInv, IInv, Stores
  <2>2. /\ job'[w].pc = (IF j.op = "approve" THEN "default" ELSE "mark")
        /\ job'[w].op = j.op /\ job'[w].v = j.v
    <3> DEFINE p == IF j.op = "approve" THEN "default" ELSE "mark"
    <3>1. Goto(w, p) /\ p # "answer"
      BY <1>8
    <3> HIDE DEF p
    <3>2. job'[w] = [j EXCEPT !.pc = p]
      BY <3>1, GotoIs
    <3>3. job'[w].pc = p /\ job'[w].op = j.op /\ job'[w].v = j.v
      BY <1>1, <3>2 DEF ReviewJobs
    <3>4. QED  BY <3>3 DEF p
  <2>3. KnowsReview(job[w])'
    BY <1>1, <1>2, <1>3, <1>4, <2>1, <2>2 DEF KnowsReview, StateOf, Uncommitted, Shown
  <2>4. Knows(job[w])'
    BY <1>2, <2>2, <2>3 DEF Knows
  <2>5. QED  BY <1>4, <1>7, <2>4, Alike DEF Proceeds
<1>9. CASE job' = [job EXCEPT ![w] = IF @.op = "approve"
                                     THEN [@ EXCEPT !.pc = "default", !.ok = FALSE] ELSE Idle]
  <2>1. CASE j.op = "approve"
    <3> DEFINE k == [j EXCEPT !.pc = "default", !.ok = FALSE]
    <3>1. job' = [job EXCEPT ![w] = k]
      BY <1>9, <2>1
    <3> HIDE DEF k
    <3>2. job'[w] = k
      BY <3>1, JobIs
    <3>3. /\ job'[w].pc = "default" /\ job'[w].op = j.op /\ job'[w].v = j.v
          /\ job'[w].ok = FALSE
      BY <1>1, <3>2 DEF ReviewJobs, k
    <3>4. KnowsReview(job[w])'
      BY <1>1, <1>3, <1>4, <2>1, <3>3 DEF KnowsReview, StateOf, Uncommitted
    <3>5. Knows(job[w])'
      BY <2>1, <3>3, <3>4 DEF Knows
    <3>6. QED  BY <1>4, <1>7, <3>5, Alike DEF Proceeds
  <2>2. CASE j.op # "approve"
    BY <1>4, <1>7, <1>9, <2>2, IdleKnows, Alike DEF Proceeds, Done
  <2>3. QED  BY <2>1, <2>2
<1>10. QED  BY <1>8, <1>9 DEF ProjectNamed

LEMMA SoleDefault ==
    ASSUME OneWorker, SoleInv, NEW w \in Workers, IInv', ProjectDefault(w)
    PROVE  SoleInv'
<1> DEFINE j == job[w]
<1>1. /\ j \in ReviewJobs(submittedEver, approvedEver) /\ j.pc = "default" /\ ~retired
      /\ Reviewed(j, submittedEver, approvedEver) /\ KnowsReview(j)
  BY KnownReview DEF ProjectDefault, At, ReviewPcs, Uncommitted
<1>2. j.v \in Versions /\ j.op = "approve"
  BY <1>1 DEF Reviewed, ReviewJobs, Uncommitted
<1>3. status[j.v] = "approved" /\ ~projected[j.v]
  BY <1>1, <1>2 DEF KnowsReview, StateOf, Uncommitted
<1>4. UNCHANGED <<retired, status, projected, misbuilt>>
  BY DEF ProjectDefault, record, history
<1>5. \A u \in Versions : status[u] = "approved" => u = j.v
  BY <1>2, <1>3, Versioned DEF OneAt, InState
<1>6. store' = store \/ (Reachable /\ store' = PutDefault({j.v}))
  BY CallMakes DEF ProjectDefault
<1>7. /\ store'.named = store.named /\ store'.state = store.state
      /\ store'.default = store.default \/ store'.default = {j.v}
  BY <1>6 DEF PutDefault, SoleInv, IInv, Stores
<1>8. MarksTrue'
  BY <1>4, <1>5, <1>7, Versioned DEF MarksTrue, Trusted, Shown
<1>9. CASE Goto(w, "answer")
  BY <1>4, <1>8, <1>9, IdleKnows, Alike DEF Proceeds, Goto, Done
<1>10. CASE Succeeds(PutDefault({j.v})) /\ j.ok /\ Goto(w, "mark")
  <2>1. store'.default = {j.v}
    BY <1>10 DEF Succeeds, PutDefault, SoleInv, IInv, Stores
  <2>2. job'[w].pc = "mark" /\ job'[w].op = "approve" /\ job'[w].v = j.v
    <3>1. job'[w] = [j EXCEPT !.pc = "mark"]
      BY <1>10, GotoIs
    <3>2. QED  BY <1>1, <1>2, <3>1 DEF ReviewJobs
  <2>3. Trusted' => j.v \in store'.named
    BY <1>1, <1>4, <1>7, <1>10 DEF KnowsReview, Trusted
  <2>4. Trusted' => Shown(job[w].v)'
    BY <1>4, <2>1, <2>2, <2>3 DEF Shown
  <2>5. KnowsReview(job[w])'
    BY <1>1, <1>3, <1>4, <2>2, <2>4 DEF KnowsReview, StateOf, Uncommitted
  <2>6. Knows(job[w])'
    BY <2>2, <2>5 DEF Knows
  <2>7. QED  BY <1>4, <1>8, <2>6, Alike DEF Proceeds
<1>11. QED  BY <1>9, <1>10 DEF ProjectDefault

LEMMA SoleMark ==
    ASSUME OneWorker, SoleInv, NEW w \in Workers, IInv', MarkProjected(w)
    PROVE  SoleInv'
<1>1. /\ job[w] \in ReviewJobs(submittedEver, approvedEver) /\ job[w].pc = "mark"
      /\ KnowsReview(job[w]) /\ ~retired
  BY KnownReview DEF MarkProjected, At, ReviewPcs, Uncommitted
<1>2. (Trusted => Shown(job[w].v)) /\ status[job[w].v] # "none"
  BY <1>1 DEF KnowsReview, StateOf, Uncommitted
<1>3. /\ UNCHANGED <<retired, status, store, misbuilt>>
      /\ projected' = [projected EXCEPT ![job[w].v] = TRUE]
  BY DEF MarkProjected, history
<1>4. \A v : Shown(v)' <=> Shown(v)
  BY <1>3 DEF Shown
<1>5. MarksTrue'
  BY <1>1, <1>2, <1>3, <1>4, Versioned DEF MarksTrue, Trusted
<1>6. Knows(job[w])'
  BY IdleKnows DEF MarkProjected, Goto, Done
<1>7. QED  BY <1>3, <1>5, <1>6, Alike DEF Proceeds

LEMMA SoleDrops ==
    ASSUME OneWorker, SoleInv, NEW w \in Workers, IInv', Unname(w) \/ DropDataset(w)
    PROVE  SoleInv'
<1> DEFINE j == job[w]
<1>1. UNCHANGED <<retired, status, projected, misbuilt>>
  BY DEF Unname, DropDataset, record, history
<1>2. Knows(job[w])'
  BY IdleKnows DEF Unname, DropDataset, Goto, Done
<1>3. CASE Unname(w)
  <2>1. j \in ReviewJobs(submittedEver, approvedEver) /\ KnowsReview(j) /\ j.pc = "unname"
    BY <1>3, KnownReview DEF Unname, At, ReviewPcs, Uncommitted
  <2>2. ~projected[j.v]
    BY <2>1 DEF KnowsReview, Uncommitted
  <2>3. store' = store \/ (Reachable /\ store' = DropNamed({j.v}))
    BY <1>3, CallMakes DEF Unname
  <2>4. /\ store'.state = store.state /\ store'.default = store.default
        /\ store.named \ {j.v} \subseteq store'.named
    BY <2>3 DEF DropNamed, SoleInv, IInv, Stores
  <2>5. MarksTrue'
    BY <1>1, <2>2, <2>4, Versioned DEF MarksTrue, Trusted, Shown
  <2>6. QED  BY <1>1, <1>2, <2>5, Alike DEF Proceeds
<1>4. CASE DropDataset(w)
  <2>1. j \in AdminJobs(submittedEver, approvedEver) /\ j.pc = "drop" /\ j # Idle
    BY <1>4, InDrop DEF DropDataset, At, SoleInv, Idle
  <2>2. retired
    BY <2>1 DEF SoleInv, Knows, KnowsAdmin, AdminJobs
  <2>3. MarksTrue'
    BY <1>1, <2>2, Versioned DEF MarksTrue
  <2>4. QED  BY <1>1, <1>2, <2>3, Alike DEF Proceeds
<1>5. QED  BY <1>3, <1>4

LEMMA SoleReview ==
    ASSUME OneWorker, SoleInv, NEW w \in Workers, IInv', ReviewStep(w)
    PROVE  SoleInv'
BY SoleCommits, SoleDecision, SoleRows, SoleClears, SoleRetires, SoleNamed, SoleDefault,
   SoleMark, SoleDrops, SoleManifest
   DEF ReviewStep

-----------------------------------------------------------------------------
(* reconcile.                                                              *)

\* With one approved version at most, it is the current one.
LEMMA ApprovedIsCurrent ==
    ASSUME NEW stat, OneAt(stat), NEW at PROVE CurrentOf(stat, at) = InState(stat, "approved")
BY DEF OneAt, CurrentOf

\* The store is in the same state, and as good as before.
NoWorse == /\ UNCHANGED <<retired, status, projected, misbuilt>>
           /\ store'.state = store.state
           /\ ~retired => \A v \in Versions : Shown(v) => Shown(v)'

LEMMA MarksNoWorse == ASSUME SoleInv, NoWorse PROVE MarksTrue'
BY Versioned DEF NoWorse, MarksTrue, Trusted

\* A request that goes on as k, which knows no less.
LEMMA SoleGoes ==
    ASSUME OneWorker, SoleInv, NEW w \in Workers, IInv', job[w].pc \in ReconcilePcs, NoWorse,
           NEW k \in ReconcileJobs(submittedEver, approvedEver), job' = [job EXCEPT ![w] = k],
           k.sawRetired = job[w].sawRetired,
           k.pc \in {"unprojected", "project", "remark"} => ~retired,
           retired => k.marked \cup k.putting = {},
           \A v \in k.todo : status[v] = "approved" => v \in k.default,
           k.default \subseteq InState(status, "approved"),
           \A v \in k.putting \cup k.marked :
              v \in job[w].putting \cup job[w].marked \/ (Trusted => Shown(v)'),
           \A v \in k.todo \cup k.putting \cup k.marked : status[v] # "none",
           ~retired => \A v \in k.plan.excess \cup k.plan.stray :
                          status[v] \notin {"in-review", "approved"},
           k.plan.current # {} => InState(status, "approved") \subseteq k.plan.current,
           k.pc \in {"ask", "redefault"} => k.plan.current # {}
    PROVE  SoleInv'
<1>1. /\ job[w] \in ReconcileJobs(submittedEver, approvedEver) /\ KnowsReconcile(job[w])
  BY KnownReconcile
<1>2. job'[w] = k /\ k.op = "reconcile" /\ k.pc \notin {"clear", "unmark"}
  BY JobIs DEF ReconcileJobs
<1>3. InState(status, "approved")' = InState(status, "approved")
  BY DEF NoWorse, InState
<1>4. k.putting \cup k.marked \subseteq Versions
  BY DEF ReconcileJobs, SoleInv, IInv, StatesReviewed
<1>5. Trusted' <=> Trusted
  BY DEF NoWorse, Trusted
<1>6. Trusted' => \A v \in k.putting \cup k.marked : Shown(v)'
  <2>1. SUFFICES ASSUME Trusted', NEW v \in k.putting \cup k.marked PROVE Shown(v)'
    OBVIOUS
  <2>2. CASE v \in job[w].putting \cup job[w].marked
    BY <1>1, <1>4, <1>5, <2>1, <2>2 DEF KnowsReconcile, NoWorse
  <2>3. QED  BY <1>5, <2>1, <2>2
<1>7. retired' = retired /\ status' = status
  BY DEF NoWorse
<1>8. k.sawRetired = retired
  BY <1>1 DEF KnowsReconcile
<1>9. KnowsReconcile(job[w])'
  <2>1. job'[w].sawRetired = retired'
    BY <1>2, <1>7, <1>8
  <2>2. Trusted' => \A v \in job'[w].putting \cup job'[w].marked : Shown(v)'
    BY <1>2, <1>6
  <2>3. \A v \in job'[w].todo : status'[v] = "approved" => v \in job'[w].default
    BY <1>2, <1>7
  <2>4. \A v \in job'[w].todo \cup job'[w].putting \cup job'[w].marked : status'[v] # "none"
    BY <1>2, <1>7
  <2>5. QED  BY <1>2, <1>3, <1>7, <2>1, <2>2, <2>3, <2>4 DEF KnowsReconcile
<1>10. Knows(job[w])'
  BY <1>2, <1>9 DEF Knows
<1>11. QED  BY <1>7, <1>10, MarksNoWorse, Alike DEF Proceeds

\* The same, where only the step changes.
LEMMA SoleAdvances ==
    ASSUME OneWorker, SoleInv, NEW w \in Workers, IInv', job[w].pc \in ReconcilePcs, NoWorse,
           NEW p \in ReconcilePcs, Goto(w, p),
           p \in {"unprojected", "project", "remark"} => ~retired,
           p \in {"ask", "redefault"} => job[w].plan.current # {}
    PROVE  SoleInv'
<1> DEFINE j == job[w]
           k == [j EXCEPT !.pc = p]
<1>1. j \in ReconcileJobs(submittedEver, approvedEver) /\ KnowsReconcile(j)
  BY KnownReconcile
<1>2. k \in ReconcileJobs(submittedEver, approvedEver)
  BY <1>1 DEF ReconcileJobs, ReconcilePcs
<1>3. /\ k.pc = p /\ k.sawRetired = j.sawRetired /\ k.todo = j.todo /\ k.default = j.default
      /\ k.putting = j.putting /\ k.marked = j.marked /\ k.plan = j.plan
  BY <1>1 DEF ReconcileJobs
<1>4. job' = [job EXCEPT ![w] = k]
  BY DEF Goto, ReconcilePcs
<1> HIDE DEF k
<1>5. QED  BY <1>1, <1>2, <1>3, <1>4, SoleGoes DEF KnowsReconcile

LEMMA SoleStart ==
    ASSUME OneWorker, SoleInv, NEW w \in Workers, IInv',
           ReconcileFails(w) \/ Datasets(w) \/ ReadUnprojected(w)
    PROVE  SoleInv'
<1> DEFINE j == job[w]
<1>1. /\ j \in ReconcileJobs(submittedEver, approvedEver) /\ KnowsReconcile(j)
      /\ j.pc \in {"datasets", "unprojected"} /\ j.pc \in ReconcilePcs
  BY KnownReconcile DEF ReconcileFails, Datasets, ReadUnprojected, At, ReconcilePcs
<1>2. UNCHANGED <<retired, status, projected, misbuilt>>
  BY DEF ReconcileFails, Datasets, ReadUnprojected, record, history
<1>3. /\ store'.state = store.state /\ store'.named = store.named
      /\ store'.default = store.default
  BY DEF ReconcileFails, Datasets, ReadUnprojected, SoleInv, IInv, Stores
<1>4. NoWorse
  BY <1>2, <1>3 DEF NoWorse, Shown
<1>5. CASE ReconcileFails(w)
  BY <1>2, <1>4, <1>5, MarksNoWorse, IdleKnows, Alike DEF ReconcileFails, Proceeds
<1>6. CASE Datasets(w)
  <2>1. Goto(w, IF j.sawRetired THEN "graphs" ELSE "unprojected")
    BY <1>6 DEF Datasets
  <2>2. j.sawRetired = retired
    BY <1>1 DEF KnowsReconcile
  <2>3. QED  BY <1>1, <1>4, <2>1, <2>2, SoleAdvances DEF ReconcilePcs
<1>7. CASE ReadUnprojected(w)
  <2> DEFINE k == [j EXCEPT !.pc = "project", !.todo = Unprojected,
                            !.default = Unprojected \cap InState(status, "approved")]
  <2>1. ~retired
    BY <1>1, <1>7 DEF ReadUnprojected, At, KnowsReconcile
  <2>2. Unprojected \subseteq submittedEver
    BY DEF Unprojected, SoleInv, IInv, RecordTypes, StatesReviewed, Statuses
  <2>3. Unprojected \cap InState(status, "approved") \subseteq approvedEver
    BY DEF Unprojected, InState, SoleInv, IInv, RecordTypes, StatesReviewed
  <2>4. k \in ReconcileJobs(submittedEver, approvedEver)
    BY <1>1, <2>2, <2>3 DEF ReconcileJobs
  <2>5. /\ k.pc = "project" /\ k.sawRetired = j.sawRetired /\ k.todo = Unprojected
        /\ k.default = Unprojected \cap InState(status, "approved")
        /\ k.putting = j.putting /\ k.marked = j.marked /\ k.plan = j.plan
    BY <1>1 DEF ReconcileJobs
  <2>6. job' = [job EXCEPT ![w] = k]
    BY <1>7 DEF ReadUnprojected
  <2> HIDE DEF k
  <2>7. \A v \in k.todo : status[v] = "approved" => v \in k.default
    BY <2>5, Versioned DEF Unprojected, InState
  <2>8. \A v \in k.todo \cup k.putting \cup k.marked : status[v] # "none"
    BY <1>1, <2>5 DEF Unprojected, KnowsReconcile
  <2>9. k.default \subseteq InState(status, "approved")
    BY <2>5
  <2>10. QED
    BY <1>1, <1>4, <2>1, <2>4, <2>5, <2>6, <2>7, <2>8, <2>9, SoleGoes DEF KnowsReconcile
<1>8. QED  BY <1>5, <1>6, <1>7

LEMMA SoleProject ==
    ASSUME OneWorker, SoleInv, NEW w \in Workers, IInv', ProjectNext(w) PROVE SoleInv'
<1> DEFINE j == job[w]
<1>1. /\ j \in ReconcileJobs(submittedEver, approvedEver) /\ KnowsReconcile(j)
      /\ j.pc = "project" /\ j.pc \in ReconcilePcs
  BY KnownReconcile DEF ProjectNext, At, ReconcilePcs
<1>2. UNCHANGED <<retired, status, projected, misbuilt>> /\ ~retired
  BY <1>1 DEF ProjectNext, record, history, KnowsReconcile
<1>3. PICK v \in j.todo :
        LET default == {v} \cap j.default
            after == Put({v}, default)
            left == [j EXCEPT !.todo = @ \ {v}]
        IN  \/ Succeeds(after) /\ job' = [job EXCEPT ![w] = [left EXCEPT !.pc = "remark", !.putting = {v}]]
            \/ FailsIn({store, PutNamed({v}), after}) /\ job' = [job EXCEPT ![w] = left]
  BY DEF ProjectNext
<1> DEFINE default == {v} \cap j.default
           after == Put({v}, default)
           left == [j EXCEPT !.todo = @ \ {v}]
           moved == [left EXCEPT !.pc = "remark", !.putting = {v}]
<1>4. v \in Versions /\ v \in submittedEver
  BY <1>1, <1>3 DEF ReconcileJobs, SoleInv, IInv, StatesReviewed
<1>5. v \in j.default => \A u \in Versions : status[u] = "approved" => u = v
  BY <1>1, <1>4, Versioned DEF KnowsReconcile, OneAt, InState
<1>6. /\ after.state = store.state /\ after.named = store.named \cup {v}
      /\ after.default = IF v \in j.default THEN {v} ELSE store.default
  BY DEF Put, SoleInv, IInv, Stores
<1>7. /\ PutNamed({v}).state = store.state /\ PutNamed({v}).named = store.named \cup {v}
      /\ PutNamed({v}).default = store.default
  BY DEF PutNamed, SoleInv, IInv, Stores
<1> HIDE DEF after
<1>8. store' \in {store, PutNamed({v}), after}
  BY <1>3 DEF Succeeds, FailsIn, after
<1>9. /\ store'.state = store.state /\ store.named \subseteq store'.named
      /\ \/ store'.default = store.default
         \/ v \in j.default /\ store'.default = {v}
  BY <1>6, <1>7, <1>8
<1>10. \A u \in Versions : Shown(u) => Shown(u)'
  BY <1>2, <1>5, <1>9 DEF Shown
<1>11. NoWorse
  BY <1>2, <1>9, <1>10 DEF NoWorse
<1>12. /\ left \in ReconcileJobs(submittedEver, approvedEver)
       /\ left.pc = "project" /\ left.sawRetired = j.sawRetired /\ left.todo = j.todo \ {v}
       /\ left.default = j.default /\ left.putting = j.putting
       /\ left.marked = j.marked /\ left.plan = j.plan
  BY <1>1 DEF ReconcileJobs
<1> HIDE DEF left
<1>13. CASE Succeeds(after) /\ job' = [job EXCEPT ![w] = moved]
  <2>1. /\ moved \in ReconcileJobs(submittedEver, approvedEver)
        /\ moved.pc = "remark" /\ moved.sawRetired = j.sawRetired /\ moved.todo = j.todo \ {v}
        /\ moved.default = j.default /\ moved.putting = {v}
        /\ moved.marked = j.marked /\ moved.plan = j.plan
    BY <1>4, <1>12 DEF ReconcileJobs
  <2>2. status[v] = "approved" => v \in j.default
    BY <1>1, <1>3 DEF KnowsReconcile
  <2>3. Shown(v)' /\ status[v] # "none"
    BY <1>1, <1>2, <1>3, <1>6, <1>13, <2>2 DEF Succeeds, Shown, KnowsReconcile
  <2> HIDE DEF moved
  <2>4. QED  BY <1>1, <1>2, <1>11, <1>13, <2>1, <2>3, SoleGoes DEF KnowsReconcile
<1>14. CASE job' = [job EXCEPT ![w] = left]
  BY <1>1, <1>2, <1>11, <1>12, <1>14, SoleGoes DEF KnowsReconcile
<1>15. QED  BY <1>3, <1>13, <1>14 DEF after, left

LEMMA SoleMarks ==
    ASSUME OneWorker, SoleInv, NEW w \in Workers, IInv', MarkNext(w) \/ ProjectedAll(w)
    PROVE  SoleInv'
<1> DEFINE j == job[w]
           k == [j EXCEPT !.pc = "project", !.putting = {}, !.marked = @ \cup j.putting]
<1>1. /\ j \in ReconcileJobs(submittedEver, approvedEver) /\ KnowsReconcile(j)
      /\ j.pc \in {"project", "remark"} /\ j.pc \in ReconcilePcs
  BY KnownReconcile DEF MarkNext, ProjectedAll, At, ReconcilePcs
<1>2. UNCHANGED <<retired, status, projected, misbuilt, store>> /\ ~retired
  BY <1>1 DEF MarkNext, ProjectedAll, record, history, KnowsReconcile
<1>3. NoWorse
  BY <1>2 DEF NoWorse, Shown
<1>4. CASE MarkNext(w)
  <2>1. /\ k \in ReconcileJobs(submittedEver, approvedEver)
        /\ k.pc = "project" /\ k.sawRetired = j.sawRetired /\ k.todo = j.todo
        /\ k.default = j.default /\ k.putting = {}
        /\ k.marked = j.marked \cup j.putting /\ k.plan = j.plan
    BY <1>1 DEF ReconcileJobs
  <2>2. job' = [job EXCEPT ![w] = k]
    BY <1>4 DEF MarkNext
  <2> HIDE DEF k
  <2>3. QED  BY <1>1, <1>2, <1>3, <2>1, <2>2, SoleGoes DEF KnowsReconcile
<1>5. CASE ProjectedAll(w)
  BY <1>1, <1>3, <1>5, SoleAdvances DEF ProjectedAll, ReconcilePcs
<1>6. QED  BY <1>4, <1>5

LEMMA SoleCompare ==
    ASSUME OneWorker, SoleInv, NEW w \in Workers, IInv', ListGraphs(w) \/ CompareGraphs(w)
    PROVE  SoleInv'
<1> DEFINE j == job[w]
<1>1. /\ j \in ReconcileJobs(submittedEver, approvedEver) /\ KnowsReconcile(j)
      /\ j.pc \in ReconcilePcs
  BY KnownReconcile DEF ListGraphs, CompareGraphs, At, ReconcilePcs
<1>2. UNCHANGED <<retired, status, projected, misbuilt, store>>
  BY DEF ListGraphs, CompareGraphs, Answered, Unanswered, record, history
<1>3. NoWorse
  BY <1>2 DEF NoWorse, Shown
<1>4. CASE ListGraphs(w)
  <2> DEFINE k == [j EXCEPT !.pc = "compare", !.actual = store.named]
  <2>1. store.named \subseteq Versions
    BY DEF SoleInv, IInv, Stores, StatesReviewed
  <2>2. CASE job' = [job EXCEPT ![w] = k]
    <3>1. /\ k \in ReconcileJobs(submittedEver, approvedEver)
          /\ k.pc = "compare" /\ k.sawRetired = j.sawRetired /\ k.todo = j.todo
          /\ k.default = j.default /\ k.putting = j.putting
          /\ k.marked = j.marked /\ k.plan = j.plan
      BY <1>1, <2>1 DEF ReconcileJobs
    <3> HIDE DEF k
    <3>2. QED  BY <1>1, <1>3, <2>2, <3>1, SoleGoes DEF KnowsReconcile
  <2>3. CASE Goto(w, "remanifest")
    BY <1>1, <1>3, <2>3, SoleAdvances DEF ReconcilePcs
  <2>4. QED  BY <1>4, <2>2, <2>3 DEF ListGraphs
<1>5. CASE CompareGraphs(w)
  <2> DEFINE plan == RepairPlan(j.sawRetired, j.actual)
             k == [j EXCEPT !.pc = "repair", !.actual = {}, !.plan = plan]
  <2>1. j.sawRetired = retired /\ j.actual \subseteq Versions
    BY <1>1 DEF KnowsReconcile, ReconcileJobs
  <2>2. plan \in Plans(submittedEver, approvedEver)
    BY <2>1, SheetsReviewed
       DEF RepairPlan, NoPlan, Plans, SoleInv, IInv, Sheets, StatesReviewed, InState
  <2>3. ~retired => \A v \in plan.excess \cup plan.stray :
                       status[v] \notin {"in-review", "approved"}
    BY <2>1, Versioned DEF RepairPlan, Target, Targets, InState
  <2>4. plan.current # {} => InState(status, "approved") \subseteq plan.current
    BY Versioned, ApprovedIsCurrent DEF RepairPlan, NoPlan, Target, Targets
  <2> HIDE DEF plan
  <2>5. /\ k \in ReconcileJobs(submittedEver, approvedEver)
        /\ k.pc = "repair" /\ k.sawRetired = j.sawRetired /\ k.todo = j.todo
        /\ k.default = j.default /\ k.putting = j.putting
        /\ k.marked = j.marked /\ k.plan = plan
    BY <1>1, <2>2 DEF ReconcileJobs
  <2>6. job' = [job EXCEPT ![w] = k]
    BY <1>5 DEF CompareGraphs, plan
  <2> HIDE DEF k
  <2>7. QED  BY <1>1, <1>3, <2>3, <2>4, <2>5, <2>6, SoleGoes DEF KnowsReconcile
<1>6. QED  BY <1>4, <1>5

LEMMA SoleRepair ==
    ASSUME OneWorker, SoleInv, NEW w \in Workers, IInv',
           \/ RepairMissing(w) \/ SweepExcess(w) \/ AskDefault(w) \/ RepairDefault(w)
           \/ SweepStrays(w)
    PROVE  SoleInv'
<1> DEFINE j == job[w]
<1>1. /\ j \in ReconcileJobs(submittedEver, approvedEver) /\ KnowsReconcile(j)
      /\ j.pc \in ReconcilePcs
  BY KnownReconcile DEF RepairMissing, SweepExcess, AskDefault, RepairDefault, SweepStrays,
                           At, ReconcilePcs
<1>2. UNCHANGED <<retired, status, projected, misbuilt>>
  BY DEF RepairMissing, SweepExcess, AskDefault, RepairDefault, SweepStrays, record, history
<1>3. ASSUME NEW V
      PROVE  /\ PutNamed(V).state = store.state /\ PutNamed(V).named = store.named \cup V
             /\ PutNamed(V).default = store.default
             /\ DropNamed(V).state = store.state /\ DropNamed(V).named = store.named \ V
             /\ DropNamed(V).default = store.default
             /\ PutDefault(V).state = store.state /\ PutDefault(V).named = store.named
             /\ PutDefault(V).default = V
  BY DEF PutNamed, DropNamed, PutDefault, SoleInv, IInv, Stores
<1>4. CASE RepairMissing(w)
  <2>1. store' = store \/ \E V : store' = PutNamed(V)
    BY <1>4 DEF RepairMissing, Succeeds, FailsIn
  <2>2. NoWorse
    BY <1>2, <1>3, <2>1 DEF NoWorse, Shown
  <2>3. QED  BY <1>1, <1>4, <2>2, SoleAdvances DEF RepairMissing, ReconcilePcs
<1>5. ASSUME NEW D \in {j.plan.excess, j.plan.stray},
             Succeeds(DropNamed(D)) \/ FailsIn({DropNamed(V) : V \in SUBSET D})
      PROVE  NoWorse
  <2>1. store' = store \/ \E V \in SUBSET D : store' = DropNamed(V)
    BY <1>5 DEF Succeeds, FailsIn
  <2>2. \/ store'.named = store.named
        \/ \E V \in SUBSET D : store'.named = store.named \ V
    BY <1>3, <2>1
  <2>3. store'.state = store.state /\ store'.default = store.default
    BY <1>3, <2>1
  <2>4. ~retired => \A v \in D : status[v] \notin {"in-review", "approved"}
    BY <1>1, <1>5 DEF KnowsReconcile
  <2>5. QED  BY <1>2, <2>2, <2>3, <2>4 DEF NoWorse, Shown
<1>6. CASE SweepExcess(w)
  <2>1. NoWorse
    BY <1>5, <1>6 DEF SweepExcess
  <2>2. Goto(w, IF j.plan.current = {} THEN "resweep" ELSE "ask")
    BY <1>6 DEF SweepExcess
  <2>3. QED  BY <1>1, <2>1, <2>2, SoleAdvances DEF ReconcilePcs
<1>7. CASE SweepStrays(w)
  <2>1. NoWorse
    BY <1>5, <1>7 DEF SweepStrays
  <2>2. Goto(w, "remanifest")
    BY <1>7 DEF SweepStrays
  <2>3. QED  BY <1>1, <2>1, <2>2, SoleAdvances DEF ReconcilePcs
<1>8. CASE AskDefault(w)
  <2>1. UNCHANGED store /\ j.plan.current # {}
    BY <1>1, <1>8 DEF AskDefault, Answered, Unanswered, At, KnowsReconcile
  <2>2. NoWorse
    BY <1>2, <2>1 DEF NoWorse, Shown
  <2>3. Goto(w, "redefault") \/ Goto(w, "resweep")
    BY <1>8 DEF AskDefault
  <2>4. QED  BY <1>1, <2>1, <2>2, <2>3, SoleAdvances DEF ReconcilePcs
<1>9. CASE RepairDefault(w)
  <2>1. store' = store \/ store' = PutDefault(j.plan.current)
    BY <1>9, CallMakes DEF RepairDefault
  <2>2. InState(status, "approved") \subseteq j.plan.current
    BY <1>1, <1>9 DEF RepairDefault, At, KnowsReconcile
  <2>3. /\ store'.state = store.state /\ store'.named = store.named
        /\ store'.default = store.default \/ store'.default = j.plan.current
    BY <1>3, <2>1
  <2>4. NoWorse
    BY <1>2, <2>2, <2>3, Versioned DEF NoWorse, Shown, InState
  <2>5. QED  BY <1>1, <1>9, <2>4, SoleAdvances DEF RepairDefault, ReconcilePcs
<1>10. QED  BY <1>4, <1>6, <1>7, <1>8, <1>9

LEMMA SoleEnds ==
    ASSUME OneWorker, SoleInv, NEW w \in Workers, IInv', EndReconcile(w) PROVE SoleInv'
<1>1. /\ UNCHANGED <<retired, status, misbuilt, store>> /\ Done(w)
      /\ projected' = [v \in Versions |-> projected[v] \/ v \in job[w].marked]
  BY DEF EndReconcile, history
<1>2. Knows(job[w])'
  BY <1>1, IdleKnows
<1>3. KnowsReconcile(job[w])
  BY KnownReconcile DEF EndReconcile, At, ReconcilePcs
<1>4. \A v : Shown(v)' <=> Shown(v)
  BY <1>1 DEF Shown
<1>5. /\ retired => job[w].marked = {}
      /\ Trusted => \A v \in job[w].marked : Shown(v)
      /\ \A v \in job[w].marked : status[v] # "none"
  BY <1>3 DEF KnowsReconcile
<1>6. MarksTrue'
  BY <1>1, <1>4, <1>5, Versioned DEF MarksTrue, Trusted
<1>7. QED  BY <1>1, <1>2, <1>6, Alike DEF Proceeds

LEMMA SoleReconcile ==
    ASSUME OneWorker, SoleInv, NEW w \in Workers, IInv', ReconcileStep(w)
    PROVE  SoleInv'
BY SoleStart, SoleProject, SoleMarks, SoleCompare, SoleRepair, SoleEnds, SoleManifest
   DEF ReconcileStep

-----------------------------------------------------------------------------
(* Processes.                                                              *)

LEMMA SoleProcesses ==
    ASSUME OneWorker, SoleInv, IInv',
           Store \/ \E w \in Workers : Deadlocked(w) \/ Crash(w)
    PROVE  SoleInv'
<1>1. ASSUME NEW w \in Workers, Deadlocked(w) \/ Crash(w) PROVE SoleInv'
  <2>1. UNCHANGED <<retired, status, projected, misbuilt, store>> /\ Done(w)
    BY <1>1 DEF Deadlocked, Crash, record, history
  <2>2. QED  BY <2>1, MarksStay, IdleKnows, Alike DEF Proceeds
<1>2. ASSUME UNCHANGED <<retired, status, projected, job>>,
             Trusted' /\ ~retired => \/ Trusted /\ store'.named = store.named
                                                /\ store'.default = store.default
                                     \/ \A v \in Versions : Shown(v)'
      PROVE  SoleInv'
  <2>1. \A v \in Versions : Trusted' /\ ~retired /\ Trusted /\ Shown(v) => Shown(v)'
    BY <1>2 DEF Shown
  <2>2. MarksTrue'
    BY <1>2, Versioned DEF MarksTrue, Shown
  <2>3. InState(status, "approved")' = InState(status, "approved")
    BY <1>2 DEF InState
  <2>4. ASSUME NEW w \in Workers PROVE Knows(job[w])'
    <3>1. Knows(job[w]) /\ job'[w] = job[w]
      BY <1>2 DEF SoleInv
    <3>2. CASE job[w] = Idle
      BY <3>1, <3>2 DEF Knows
    <3>3. CASE job[w] \in ReviewJobs(submittedEver, approvedEver)
      <4>1. job[w] # Idle
        BY <3>3 DEF ReviewJobs, Idle
      <4>2. KnowsReview(job[w]) /\ ~retired /\ job[w].v \in Versions
        BY <3>1, <3>3, <4>1 DEF Knows, KnowsReview, ReviewJobs
      <4>3. Trusted' => \/ Trusted /\ store'.named = store.named /\ store'.default = store.default
                        \/ Shown(job[w].v)'
        BY <1>2, <3>1, <4>2
      <4>4. job[w].pc = "default" => status[job[w].v] = "approved"
        BY <3>1, <3>3, <4>2, InReview
           DEF KnowsReview, StateOf, SoleInv, ReviewPcs, Reviewed, Uncommitted
      <4>5. KnowsReview(job[w])'
        BY <1>2, <2>3, <3>1, <4>2, <4>3, <4>4 DEF KnowsReview, StateOf, Shown
      <4>6. QED  BY <3>1, <3>3, <4>5 DEF Knows, ReviewJobs
    <3>4. CASE job[w] \in AdminJobs(submittedEver, approvedEver)
      <4>1. job[w] # Idle
        BY <3>4 DEF AdminJobs, Idle
      <4>2. KnowsAdmin(job[w]) /\ job[w].pc \notin {"clear", "unmark"}
        BY <3>1, <3>4, <4>1 DEF Knows, AdminJobs
      <4>3. QED  BY <1>2, <3>1, <3>4, <4>2 DEF Knows, KnowsAdmin, AdminJobs
    <3>5. CASE job[w] \in ReconcileJobs(submittedEver, approvedEver)
      <4>1. job[w] # Idle
        BY <3>5 DEF ReconcileJobs, Idle
      <4>2. KnowsReconcile(job[w]) /\ job[w].putting \cup job[w].marked \subseteq Versions
        BY <3>1, <3>5, <4>1 DEF Knows, ReconcileJobs, SoleInv, IInv, StatesReviewed
      <4>3. Trusted' => \A v \in job[w].putting \cup job[w].marked : Shown(v)'
        BY <1>2, <2>1, <4>2 DEF KnowsReconcile
      <4>4. KnowsReconcile(job[w])'
        BY <1>2, <2>3, <3>1, <4>2, <4>3 DEF KnowsReconcile
      <4>5. QED  BY <3>1, <3>5, <4>4 DEF Knows, ReconcileJobs
    <3>6. CASE job[w] \in RetireJobs(submittedEver, approvedEver)
      <4>1. job[w] # Idle
        BY <3>6 DEF RetireJobs, Idle
      <4>2. KnowsRetirement(job[w])
        BY <3>1, <3>6, <4>1 DEF Knows, RetireJobs
      <4>3. QED  BY <1>2, <3>1, <3>6, <4>2 DEF Knows, KnowsRetirement, RetireJobs
    <3>7. QED  BY <3>2, <3>3, <3>4, <3>5, <3>6 DEF SoleInv, IInv, JobsCarry, Carries
  <2>5. OneAt(status)'
    BY <1>2, Versioned DEF OneAt, InState
  <2>6. QED  BY <2>2, <2>4, <2>5 DEF SoleInv
<1>3. CASE StoreCrash
  <2>1. store'.state = "down"
    BY <1>3 DEF StoreCrash, Gone, SoleInv, IInv, Stores
  <2>2. QED  BY <1>2, <1>3, <2>1 DEF StoreCrash, Trusted, record
<1>4. CASE LoaderStages
  <2>1. store'.state = "staging"
    BY <1>4 DEF LoaderStages, SoleInv, IInv, Stores
  <2>2. QED  BY <1>2, <1>4, <2>1 DEF LoaderStages, Trusted, record
<1>5. CASE LoaderReads
  <2> DEFINE loaded == [default |-> manifest.default \cap store.staged,
                        named |-> (manifest.named \cup manifest.default) \cap store.staged]
  <2>1. /\ store'.named = loaded.named /\ store'.default = loaded.default
        /\ misbuilt' = (misbuilt \/ loaded # BuildManifest(status, approvedAt, retired))
        /\ UNCHANGED <<retired, status, projected, job>>
    BY <1>5 DEF LoaderReads, record
  <2>2. ASSUME Trusted', ~retired PROVE \A v \in Versions : Shown(v)'
    <3>1. loaded = Targets(status, approvedAt, Retain)
      BY <2>1, <2>2 DEF Trusted, BuildManifest
    <3>2. /\ store'.default = InState(status, "approved")
          /\ InState(status, "approved") \cup InState(status, "in-review") \subseteq store'.named
      BY <2>1, <3>1, Versioned, ApprovedIsCurrent DEF Targets
    <3>3. QED  BY <2>1, <3>2, Versioned DEF Shown, InState
  <2>3. QED  BY <1>2, <2>1, <2>2
<1>6. CASE LoaderServes
  <2>1. /\ store.state = "loading" /\ store'.named = store.named
        /\ store'.default = store.default /\ misbuilt' = misbuilt
        /\ UNCHANGED <<retired, status, projected, job>>
    BY <1>6 DEF LoaderServes, SoleInv, IInv, Stores, record, history
  <2>2. QED  BY <1>2, <2>1 DEF Trusted
<1>7. QED  BY <1>1, <1>3, <1>4, <1>5, <1>6 DEF Store

-----------------------------------------------------------------------------
LEMMA SoleAtFirst == OneWorker /\ Init => SoleInv
<1> SUFFICES ASSUME OneWorker, Init PROVE SoleInv
  OBVIOUS
<1>1. IInv
  BY AtFirst
<1>2. OneAt(status)
  BY DEF OneWorker, Init
<1>3. status \in [Versions -> Statuses]
  BY <1>1 DEF IInv, RecordTypes
<1>4. /\ Target.default = InState(status, "approved")
      /\ InState(status, "approved") \cup InState(status, "in-review") \subseteq Target.named
  BY <1>2, ApprovedIsCurrent DEF Target, Targets
<1>5. \A v \in Versions : Shown(v)
  BY <1>3, <1>4 DEF Init, Shown, InState
<1>6. MarksTrue
  BY <1>3, <1>5 DEF Init, MarksTrue
<1>7. \A w \in Workers : Knows(job[w])
  BY DEF Init, Knows
<1>8. QED  BY <1>1, <1>2, <1>6, <1>7 DEF SoleInv

LEMMA SoleKeeps == OneWorker /\ SoleInv /\ [Next]_vars => SoleInv'
<1> SUFFICES ASSUME OneWorker, SoleInv, [Next]_vars PROVE SoleInv'
  OBVIOUS
<1>1. IInv'
  BY StepKeeps DEF SoleInv
<1>2. CASE UNCHANGED vars
  <2>1. UNCHANGED <<retired, status, projected, misbuilt, store, job>>
    BY <1>2 DEF vars, record, history
  <2>2. (\E w \in Workers : TRUE) /\ MarksTrue'
    BY <2>1, MarksStay DEF OneWorker
  <2>3. ASSUME NEW w \in Workers PROVE Knows(job[w])'
    BY <2>1 DEF SoleInv, Knows, KnowsReview, KnowsRetirement, KnowsAdmin, KnowsReconcile,
                StateOf, Uncommitted, Trusted, Shown, InState
  <2>4. QED  BY <1>1, <2>1, <2>2, <2>3 DEF SoleInv, OneAt, InState
<1>3. CASE Next
  BY <1>1, <1>3, SoleRequest, SoleReview, SoleReconcile, SoleProcesses DEF Next
<1>4. QED  BY <1>2, <1>3

\* One request at a time: the inductive invariant.
THEOREM SoleInvariant == ASSUME OneWorker PROVE Spec => []SoleInv
<1>1. Init => SoleInv
  BY SoleAtFirst
<1>2. SoleInv /\ [Next]_vars => SoleInv'
  BY SoleKeeps
<1>3. QED  BY <1>1, <1>2, PTL DEF Spec

\* One request at a time, two versions are never approved together
\* (retention.py:100, and approve_version, which supersedes the one it found).
THEOREM OneApproved == ASSUME OneWorker PROVE Spec => []AtMostOneApproved
<1>1. SoleInv => AtMostOneApproved
  <2>1. SUFFICES ASSUME SoleInv PROVE AtMostOneApproved
    OBVIOUS
  <2>2. InState(status, "approved") = {} \/ \E v : InState(status, "approved") = {v}
    BY <2>1, Versioned DEF OneAt
  <2>3. QED  BY <2>2, FS_EmptySet, FS_Singleton DEF AtMostOneApproved
<1>2. Spec => []SoleInv
  BY SoleInvariant
<1>3. QED  BY <1>1, <1>2, PTL

\* One request at a time, projected_at can be trusted: whichever calls failed,
\* a version that bears it is served as its state calls for, until the store is
\* rebuilt from something outdated (project_version, mark_projected, reconcile).
THEOREM MarksTrusted == ASSUME OneWorker PROVE Spec => []ProjectedMeansServed
<1>1. SoleInv => ProjectedMeansServed
  BY DEF SoleInv, MarksTrue, Trusted, Shown, ProjectedMeansServed, Reachable
<1>2. Spec => []SoleInv
  BY SoleInvariant
<1>3. QED  BY <1>1, <1>2, PTL

\* The steps that change the state of a version.
LEMMA StatusMoves ==
    ASSUME [Next]_vars
    PROVE  \/ status' = status
           \/ \E w \in Workers : \/ Publish(w) \/ CommitSubmit(w)
                                 \/ CommitReject(w) \/ CommitApprove(w)
<1>1. CASE UNCHANGED vars
  BY <1>1 DEF vars, record
<1>2. ASSUME NEW w \in Workers, Request(w) PROVE Publish(w) \/ status' = status
  BY <1>2 DEF Request, BeginSubmit, BeginReject, BeginApprove, BeginReview, Retire, Unretire,
              BeginReconcile, record
<1>3. ASSUME NEW w \in Workers, ReviewStep(w)
      PROVE  CommitSubmit(w) \/ CommitReject(w) \/ CommitApprove(w) \/ status' = status
  BY <1>3 DEF ReviewStep, LoadRow, FindPrevious, ApprovalRefused, Decide, UpdateApproved,
              LoadPrevious, ClearNext, Unmark, CommitRetire, ProjectNamed, ProjectDefault,
              MarkProjected, Unname, DropDataset, ReadManifest, WriteManifest, record
<1>4. ASSUME NEW w \in Workers, ReconcileStep(w) PROVE status' = status
  BY <1>4 DEF ReconcileStep, ReconcileFails, Datasets, ReadUnprojected, ProjectNext, MarkNext,
              ProjectedAll, ListGraphs, CompareGraphs, RepairMissing, SweepExcess, AskDefault,
              RepairDefault, SweepStrays, RereadManifest, EndReconcile, record
<1>5. ASSUME Store \/ \E w \in Workers : Deadlocked(w) \/ Crash(w) PROVE status' = status
  BY <1>5 DEF Store, StoreCrash, LoaderStages, LoaderReads, LoaderServes, Deadlocked, Crash,
              record
<1>6. QED  BY <1>1, <1>2, <1>3, <1>4, <1>5 DEF Next

\* One request at a time, a namespace that has a current version keeps having
\* one, whatever is refused, fails or dies (approve_version and reject_version).
THEOREM CurrentKept == ASSUME OneWorker PROVE Spec => CurrentNeverLost
<1>1. SoleInv => Current = InState(status, "approved")
  BY Versioned, ApprovedIsCurrent DEF Current, Target, Targets
<1>2. SoleInv /\ SoleInv' /\ [Next]_vars => [Current # {} => Current' # {}]_vars
  <2>1. SUFFICES ASSUME SoleInv, SoleInv', [Next]_vars, Current # {} PROVE Current' # {}
    OBVIOUS
  <2>2. Current' = InState(status, "approved")'
    BY <2>1, ApprovedIsCurrent DEF SoleInv, Current, Target, Targets
  <2>3. PICK c \in Versions : status[c] = "approved"
    BY <1>1, <2>1, Versioned DEF InState
  <2>4. \E u \in Versions : status'[u] = "approved"
    <3>1. CASE status' = status
      BY <2>3, <3>1
    <3>2. ASSUME NEW w \in Workers, Publish(w) PROVE status'[c] = "approved"
      BY <2>3, <3>2, <2>1, Versioned DEF Publish
    <3>3. ASSUME NEW w \in Workers, CommitSubmit(w) \/ CommitReject(w)
          PROVE  status'[c] = "approved"
      <4>1. /\ KnowsReview(job[w]) /\ job[w].v \in Versions /\ job[w].pc = "update"
            /\ job[w].op \in {"submit", "reject"}
        BY <2>1, <3>3, KnownReview
           DEF CommitSubmit, CommitReject, At, ReviewPcs, Uncommitted, ReviewJobs
      <4>2. status[job[w].v] # "approved"
        BY <4>1 DEF KnowsReview, StateOf, Uncommitted
      <4>3. status' = [status EXCEPT ![job[w].v] = "in-review"]
            \/ status' = [status EXCEPT ![job[w].v] = "draft"]
        BY <2>1, <3>3, <4>1, SoleStatus DEF CommitSubmit, CommitReject, Commit
      <4>4. QED  BY <2>1, <2>3, <4>2, <4>3, Versioned
    <3>4. ASSUME NEW w \in Workers, CommitApprove(w)
          PROVE  job[w].v \in Versions /\ status'[job[w].v] = "approved"
      BY <2>1, <3>4, SoleApproved DEF Commit
    <3>5. QED  BY <2>1, <3>1, <3>2, <3>3, <3>4, StatusMoves
  <2>5. DOMAIN status' = Versions
    BY <2>1 DEF SoleInv, IInv, RecordTypes
  <2>6. QED  BY <2>2, <2>4, <2>5 DEF InState
<1>3. Spec => []SoleInv
  BY SoleInvariant
<1>4. QED  BY <1>2, <1>3, PTL DEF Spec, CurrentNeverLost

-----------------------------------------------------------------------------
(* With one worker, Projection implements ReviewLifecycle: a commit is a   *)
(* step of it, and all else a stutter, but for publish, retire, unretire.  *)

\* retire, when it commits, and unretire alone change whether the namespace is
\* retired.
LEMMA RetirementMoves ==
    ASSUME [Next]_vars
    PROVE  retired' = retired \/ \E w \in Workers : CommitRetire(w) \/ Unretire(w)
<1>1. CASE UNCHANGED vars
  BY <1>1 DEF vars, record
<1>2. ASSUME NEW w \in Workers, Request(w) PROVE Unretire(w) \/ retired' = retired
  BY <1>2 DEF Request, Publish, BeginSubmit, BeginReject, BeginApprove, BeginReview, Retire,
     BeginReconcile, record
<1>3. ASSUME NEW w \in Workers, ReviewStep(w) PROVE CommitRetire(w) \/ retired' = retired
  <2>1. CASE CommitSubmit(w) \/ CommitReject(w) \/ CommitApprove(w)
    BY <2>1 DEF CommitSubmit, CommitReject, CommitApprove, Commit
  <2>2. CASE ~(CommitSubmit(w) \/ CommitReject(w) \/ CommitApprove(w))
    BY <1>3, <2>2 DEF ReviewStep, LoadRow, FindPrevious, ApprovalRefused, Decide,
       UpdateApproved, LoadPrevious, ClearNext, Unmark, ProjectNamed, ProjectDefault,
       MarkProjected, Unname, DropDataset, ReadManifest, WriteManifest, record
  <2>3. QED  BY <2>1, <2>2
<1>4. ASSUME NEW w \in Workers, ReconcileStep(w) PROVE retired' = retired
  BY <1>4 DEF ReconcileStep, ReconcileFails, Datasets, ReadUnprojected, ProjectNext, MarkNext,
     ProjectedAll, ListGraphs, CompareGraphs, RepairMissing, SweepExcess, AskDefault,
     RepairDefault, SweepStrays, RereadManifest, EndReconcile, record
<1>5. ASSUME Store \/ \E w \in Workers : Deadlocked(w) \/ Crash(w) PROVE retired' = retired
  BY <1>5 DEF Store, StoreCrash, LoaderStages, LoaderReads, LoaderServes, Deadlocked, Crash,
     record
<1>6. QED  BY <1>1, <1>2, <1>3, <1>4, <1>5 DEF Next

\* What an approval does: what it looked up is all that is approved besides.
LEMMA ApprovalCommits ==
    ASSUME SoleInv, NEW w \in Workers, CommitApprove(w)
    PROVE  LET v == job[w].v IN
           /\ v \in Versions /\ status[v] = "in-review"
           /\ approvedEver' = approvedEver \cup {v}
           /\ status' = [u \in Versions |-> IF u = v THEN "approved"
                                          ELSE IF status[u] = "approved" THEN "superseded"
                                          ELSE status[u]]
BY SoleApproved DEF CommitApprove, Commit

\* The three commits, by what the request knows of its version.
LEMMA CommitFollows ==
    ASSUME SoleInv, NEW w \in Workers, CommitSubmit(w) \/ CommitReject(w) \/ CommitApprove(w)
    PROVE  Lifecycle!Next
<1> DEFINE j == job[w]
<1>1. /\ KnowsReview(j) /\ ~retired /\ j.v \in Versions /\ j.pc \in {"update", "supersede"}
  BY KnownReview
     DEF CommitSubmit, CommitReject, CommitApprove, At, ReviewPcs, Uncommitted, ReviewJobs
<1>2. retired' = retired
  BY DEF CommitSubmit, CommitReject, CommitApprove, Commit
<1>3. CASE CommitSubmit(w)
  <2>1. status[j.v] = "draft" /\ status' = [status EXCEPT ![j.v] = "in-review"]
    BY <1>1, <1>3, SoleStatus DEF CommitSubmit, Commit, KnowsReview, StateOf, Uncommitted
  <2>2. QED  BY <1>1, <1>2, <2>1 DEF Lifecycle!Next, Lifecycle!Submit, Lifecycle!Turn
<1>4. CASE CommitReject(w)
  <2>1. status[j.v] = "in-review" /\ status' = [status EXCEPT ![j.v] = "draft"]
    BY <1>1, <1>4, SoleStatus DEF CommitReject, Commit, KnowsReview, StateOf, Uncommitted
  <2>2. QED  BY <1>1, <1>2, <2>1 DEF Lifecycle!Next, Lifecycle!Reject, Lifecycle!Turn
<1>5. CASE CommitApprove(w)
  BY <1>1, <1>2, <1>5, ApprovalCommits DEF Lifecycle!Next, Lifecycle!Approve
<1>6. QED  BY <1>3, <1>4, <1>5

LEMMA LifecycleStep ==
    ASSUME SoleInv, [Next]_vars PROVE [Lifecycle!Next]_(Lifecycle!vars)
<1>1. ASSUME NEW w \in Workers, Publish(w) PROVE Lifecycle!Next
  BY <1>1 DEF Publish, Lifecycle!Next, Lifecycle!Draft, Lifecycle!Turn
<1>2. ASSUME NEW w \in Workers, CommitRetire(w) \/ Unretire(w) PROVE Lifecycle!Next
  <2>1. CASE CommitRetire(w)
    <3>1. ~retired
      BY <2>1, KnownRetirement DEF CommitRetire, At, KnowsRetirement
    <3>2. QED  BY <2>1, <3>1 DEF CommitRetire, Lifecycle!Next, Lifecycle!Retire
  <2>2. CASE Unretire(w)
    BY <2>2 DEF Unretire, Lifecycle!Next, Lifecycle!Unretire
  <2>3. QED  BY <1>2, <2>1, <2>2
<1>3. CASE status' = status /\ retired' = retired
  BY <1>3 DEF Lifecycle!vars
<1>4. QED  BY <1>1, <1>2, <1>3, CommitFollows, StatusMoves, RetirementMoves

\* docs/adr/0010, decision 2: with one request at a time the states of the
\* versions go through the lifecycle only (submit_version, approve_version and
\* reject_version), whatever is refused, fails, dies or is reconciled.
THEOREM LifecycleRefined == ASSUME OneWorker PROVE Spec => ImplementsLifecycle
<1>1. Init => Lifecycle!Init
  <2>1. SUFFICES ASSUME Init PROVE Lifecycle!Init
    OBVIOUS
  <2>2. status \in [Versions -> Statuses] /\ OneAt(status) /\ retired = FALSE
    BY <2>1, Constants DEF Init, OneWorker
  <2>3. ASSUME NEW u \in Versions, NEW v \in Versions,
               status[u] = "approved", status[v] = "approved"
        PROVE  u = v
    BY <2>2, <2>3 DEF OneAt, InState
  <2>4. QED  BY <2>2, <2>3 DEF Lifecycle!Init, Lifecycle!States, Statuses
<1>2. SoleInv /\ [Next]_vars => [Lifecycle!Next]_(Lifecycle!vars)
  BY LifecycleStep
<1>3. QED
  BY <1>1, <1>2, SoleInvariant, PTL DEF Spec, ImplementsLifecycle, Lifecycle!Spec

-----------------------------------------------------------------------------
(* With one worker the current version only moves on, as the environment   *)
(* of Vocabulary has it.                                                   *)

\* approve alone adds to the versions once approved.
LEMMA ApprovalMoves ==
    ASSUME [Next]_vars
    PROVE  approvedEver' = approvedEver \/ \E w \in Workers : CommitApprove(w)
<1>1. CASE UNCHANGED vars
  BY <1>1 DEF vars, history
<1>2. ASSUME NEW w \in Workers, Request(w) PROVE approvedEver' = approvedEver
  BY <1>2 DEF Request, Publish, Retire, Unretire, BeginSubmit, BeginReject, BeginApprove,
     BeginReview, BeginReconcile, Begin, history
<1>3. ASSUME NEW w \in Workers, ReviewStep(w)
      PROVE  CommitApprove(w) \/ approvedEver' = approvedEver
  BY <1>3 DEF ReviewStep, LoadRow, CommitSubmit, CommitReject, FindPrevious, ApprovalRefused,
     Decide, UpdateApproved, LoadPrevious, ClearNext, Unmark, CommitRetire, ProjectNamed,
     ProjectDefault, MarkProjected, Unname, DropDataset, ReadManifest, WriteManifest, history
<1>4. ASSUME NEW w \in Workers, ReconcileStep(w) PROVE approvedEver' = approvedEver
  BY <1>4 DEF ReconcileStep, ReconcileFails, Datasets, ReadUnprojected, ProjectNext, MarkNext,
     ProjectedAll, ListGraphs, CompareGraphs, RepairMissing, SweepExcess, AskDefault,
     RepairDefault, SweepStrays, RereadManifest, EndReconcile, history
<1>5. ASSUME Store \/ \E w \in Workers : Deadlocked(w) \/ Crash(w)
      PROVE  approvedEver' = approvedEver
  BY <1>5 DEF Store, StoreCrash, LoaderStages, LoaderReads, LoaderServes, Deadlocked, Crash,
     history
<1>6. QED  BY <1>1, <1>2, <1>3, <1>4, <1>5 DEF Next

\* The versions once approved are those which are so, or superseded.
Approvals == {v \in Versions : status[v] \in {"approved", "superseded"}}
MoveInv == SoleInv /\ approvedEver = Approvals

\* No other step makes or supersedes an approved version.
LEMMA OtherCommits ==
    ASSUME SoleInv, [Next]_vars, \A w \in Workers : ~CommitApprove(w), NEW v \in Versions
    PROVE  /\ status'[v] = "approved" <=> status[v] = "approved"
           /\ status'[v] = "superseded" <=> status[v] = "superseded"
<1>1. CASE status' = status
  BY <1>1
<1>2. ASSUME NEW w \in Workers, Publish(w)
      PROVE  /\ status'[v] = "approved" <=> status[v] = "approved"
             /\ status'[v] = "superseded" <=> status[v] = "superseded"
  BY <1>2, Versioned DEF Publish
<1>3. ASSUME NEW w \in Workers, CommitSubmit(w) \/ CommitReject(w)
      PROVE  /\ status'[v] = "approved" <=> status[v] = "approved"
             /\ status'[v] = "superseded" <=> status[v] = "superseded"
  <2>1. KnowsReview(job[w]) /\ job[w].v \in Versions /\ job[w].pc = "update"
    BY <1>3, KnownReview
       DEF CommitSubmit, CommitReject, At, ReviewPcs, Uncommitted, ReviewJobs
  <2>2. status[job[w].v] \in {"draft", "in-review"}
    BY <2>1 DEF KnowsReview, StateOf, Uncommitted
  <2>3. \/ status' = [status EXCEPT ![job[w].v] = "in-review"]
        \/ status' = [status EXCEPT ![job[w].v] = "draft"]
    BY <1>3, <2>1, SoleStatus DEF CommitSubmit, CommitReject, Commit
  <2>4. QED  BY <2>1, <2>2, <2>3, Versioned
<1>4. QED  BY <1>1, <1>2, <1>3, StatusMoves

LEMMA MoveKeeps ==
    ASSUME MoveInv, [Next]_vars, SoleInv' PROVE MoveInv'
<1>1. CASE \E w \in Workers : CommitApprove(w)
  <2>1. PICK w \in Workers : CommitApprove(w)
    BY <1>1
  <2> DEFINE v == job[w].v
  <2>2. /\ v \in Versions /\ status[v] = "in-review" /\ approvedEver' = approvedEver \cup {v}
        /\ status' = [u \in Versions |-> IF u = v THEN "approved"
                                       ELSE IF status[u] = "approved" THEN "superseded"
                                       ELSE status[u]]
    BY <2>1, ApprovalCommits DEF MoveInv
  <2> HIDE DEF v
  <2>3. ASSUME NEW u \in Versions
        PROVE  status'[u] \in {"approved", "superseded"} <=>
                   u = v \/ status[u] \in {"approved", "superseded"}
    BY <2>2
  <2>4. Approvals' = Approvals \cup {v}
    BY <2>2, <2>3 DEF Approvals
  <2>5. QED  BY <2>2, <2>4 DEF MoveInv
<1>2. CASE \A w \in Workers : ~CommitApprove(w)
  <2>1. Approvals' = Approvals
    BY <1>2, OtherCommits DEF Approvals, MoveInv
  <2>2. approvedEver' = approvedEver
    BY <1>2, ApprovalMoves
  <2>3. QED  BY <2>1, <2>2 DEF MoveInv
<1>3. QED  BY <1>1, <1>2

\* A version becomes current by its approval, which is its first.
CurrentMovesOn ==
    [][Current' = Current \/ \E v \in Versions \ approvedEver :
                                Current' = {v} /\ approvedEver' = approvedEver \cup {v}]_vars

LEMMA MoveStep ==
    ASSUME MoveInv, MoveInv', [Next]_vars
    PROVE  Current' = Current \/ \E v \in Versions \ approvedEver :
                                    Current' = {v} /\ approvedEver' = approvedEver \cup {v}
<1>1. /\ Current = InState(status, "approved") /\ DOMAIN status = Versions
      /\ Current' = InState(status, "approved")' /\ DOMAIN status' = Versions
  BY ApprovedIsCurrent
     DEF MoveInv, SoleInv, IInv, RecordTypes, Current, Target, Targets
<1>2. CASE \E w \in Workers : CommitApprove(w)
  <2>1. PICK w \in Workers : CommitApprove(w)
    BY <1>2
  <2> DEFINE v == job[w].v
  <2>2. /\ v \in Versions /\ status[v] = "in-review" /\ approvedEver' = approvedEver \cup {v}
        /\ status' = [u \in Versions |-> IF u = v THEN "approved"
                                       ELSE IF status[u] = "approved" THEN "superseded"
                                       ELSE status[u]]
    BY <2>1, ApprovalCommits DEF MoveInv
  <2> HIDE DEF v
  <2>3. v \notin approvedEver
    BY <2>2 DEF MoveInv, Approvals
  <2>4. ASSUME NEW u \in Versions PROVE status'[u] = "approved" <=> u = v
    BY <2>2
  <2>5. Current' = {v}
    BY <1>1, <2>2, <2>4 DEF InState
  <2>6. QED  BY <2>2, <2>3, <2>5
<1>3. CASE \A w \in Workers : ~CommitApprove(w)
  <2>1. \A v \in Versions : status'[v] = "approved" <=> status[v] = "approved"
    BY <1>3, OtherCommits DEF MoveInv
  <2>2. QED  BY <1>1, <2>1 DEF InState
<1>4. QED  BY <1>2, <1>3

\* With one request at a time the current version only moves on: approve_version
\* makes current what never was approved before, and nothing else changes which
\* version is current.  Vocabulary's environment is made so.
THEOREM CurrentNeverReturns == ASSUME OneWorker PROVE Spec => CurrentMovesOn
<1>1. Init => approvedEver = Approvals
  BY DEF Init, Approvals
<1>2. MoveInv /\ [Next]_vars /\ SoleInv' => MoveInv'
  BY MoveKeeps
<1>3. MoveInv /\ MoveInv' /\ [Next]_vars =>
          [Current' = Current \/ \E v \in Versions \ approvedEver :
              Current' = {v} /\ approvedEver' = approvedEver \cup {v}]_vars
  BY MoveStep
<1>4. MoveInv <=> SoleInv /\ approvedEver = Approvals
  BY DEF MoveInv
<1>5. QED
  BY <1>1, <1>2, <1>3, <1>4, SoleInvariant, PTL DEF Spec, CurrentMovesOn
-----------------------------------------------------------------------------
(* Part 4: any workers again, and a reconcile that nothing disturbs.       *)

Repairing(w) == job[w] \in ReconcileJobs(submittedEver, approvedEver)
Others(w) == \A u \in Workers \ {w} : ~Busy(u)

\* What a reconcile of a retired namespace has established.
ProgressRetired(j) ==
    /\ j.pc \in {"datasets", "graphs", "compare", "repair", "sweep", "resweep",
                "remanifest", "write", "end"}
    /\ j.pc = "compare" => store.dataset /\ j.actual = store.named
    /\ j.pc \in {"repair", "sweep"} =>
          /\ store.dataset
          /\ j.plan.missing = {} /\ j.plan.excess = store.named /\ j.plan.current = {}
    /\ j.pc \in {"resweep", "remanifest", "write", "end"} => store.named = {}

\* And of one that is not: what is not marked is still to be projected, and
\* the graphs are those of the plan and then those the versions call for.
ProgressActive(j) ==
    /\ j.pc # "datasets" => store.dataset
    /\ j.pc = "project" => Unprojected \subseteq j.todo \cup j.marked
    /\ j.pc = "remark" => Unprojected \subseteq j.todo \cup j.putting \cup j.marked
    /\ j.pc \notin {"datasets", "unprojected", "project", "remark"} =>
          Unprojected \subseteq j.marked
    /\ j.pc = "compare" => j.actual = store.named
    /\ j.pc = "repair" => j.plan.missing = Target.named \ store.named
    /\ j.pc = "sweep" => Target.named \subseteq store.named
    /\ j.pc \in {"repair", "sweep"} => j.plan.excess = store.named \ Target.named
    /\ j.pc \in {"repair", "sweep", "ask", "redefault"} => j.plan.current = Target.default
    /\ j.pc \in {"repair", "sweep", "ask", "redefault", "resweep"} =>
          j.plan.stray \cap Target.named = {}
    /\ j.pc \in {"ask", "redefault", "resweep", "remanifest", "write", "end"} =>
          store.named = Target.named
    /\ j.pc \in {"resweep", "remanifest", "write", "end"} =>
          (Current # {} => store.default # {})
    /\ j.pc = "write" => j.sheet = Target
    /\ j.pc = "end" => manifest = Target

Progress(j) ==
    /\ j.sawRetired = retired
    /\ j.pc # "datasets" => store.state = "up"
    /\ IF retired THEN ProgressRetired(j) ELSE ProgressActive(j)

Tracked(w) ==
    Repairing(w) =>
        /\ job[w].undisturbed.faults <= faults /\ job[w].undisturbed.served <= served
        /\ Undisturbed(w) => Others(w) /\ Progress(job[w])

ConvInv == IInv /\ \A w \in Workers : Tracked(w)

-----------------------------------------------------------------------------
\* Faults and requests are only added.
Counted == /\ faults' = faults \/ faults' = faults + 1
           /\ served' = served \/ served' = served + 1

LEMMA CallCounts ==
    ASSUME NEW after, NEW others,
           Succeeds(after) \/ FailsIn(others) \/ Fails(after) \/ Answered \/ Unanswered
    PROVE  faults' = faults \/ faults' = faults + 1
BY DEF Succeeds, FailsIn, Fails, Answered, Unanswered, NoFault, Fault

LEMMA Counting ==
    ASSUME [Next]_vars PROVE Counted
<1> USE DEF Counted, bounds, NoFault, Fault
<1>1. CASE UNCHANGED vars
  BY <1>1 DEF vars
<1>2. ASSUME NEW w \in Workers, Request(w) PROVE Counted
  BY <1>2 DEF Request, Publish, BeginSubmit, BeginReject, BeginApprove, BeginReview, Retire,
     Unretire, BeginReconcile, Begin
<1>3. ASSUME NEW w \in Workers, ReviewStep(w) PROVE Counted
  <2>1. CASE CommitSubmit(w) \/ CommitReject(w) \/ CommitApprove(w)
    BY <2>1 DEF CommitSubmit, CommitReject, CommitApprove, Commit
  <2>2. CASE ProjectNamed(w) \/ ProjectDefault(w) \/ Unname(w) \/ DropDataset(w)
    BY <2>2, CallCounts DEF ProjectNamed, ProjectDefault, Unname, DropDataset
  <2>3. CASE \/ FindPrevious(w) \/ ApprovalRefused(w) \/ Decide(w)
             \/ MarkProjected(w) \/ ReadManifest(w) \/ WriteManifest(w)
    BY <2>3 DEF FindPrevious, ApprovalRefused, Decide, MarkProjected, ReadManifest, WriteManifest
  <2>4. CASE \/ LoadRow(w) \/ UpdateApproved(w) \/ LoadPrevious(w)
             \/ ClearNext(w) \/ Unmark(w) \/ CommitRetire(w)
    BY <2>4 DEF LoadRow, UpdateApproved, LoadPrevious, ClearNext, Unmark, CommitRetire
  <2>5. QED
    BY <1>3, <2>1, <2>2, <2>3, <2>4 DEF ReviewStep
<1>4. ASSUME NEW w \in Workers, ReconcileStep(w) PROVE Counted
  <2>1. CASE \/ ProjectNext(w) \/ ListGraphs(w) \/ RepairMissing(w) \/ SweepExcess(w)
             \/ AskDefault(w) \/ RepairDefault(w) \/ SweepStrays(w)
    BY <2>1, CallCounts DEF ProjectNext, ListGraphs, RepairMissing, SweepExcess,
       AskDefault, RepairDefault, SweepStrays
  <2>2. CASE \/ ReconcileFails(w) \/ Datasets(w) \/ ReadUnprojected(w) \/ MarkNext(w)
             \/ ProjectedAll(w) \/ CompareGraphs(w) \/ RereadManifest(w) \/ EndReconcile(w)
    BY <2>2 DEF ReconcileFails, Datasets, ReadUnprojected, MarkNext, ProjectedAll,
       CompareGraphs, RereadManifest, EndReconcile
  <2>3. QED
    BY <1>4, <2>1, <2>2 DEF ReconcileStep
<1>5. ASSUME NEW w \in Workers, Deadlocked(w) \/ Crash(w) PROVE Counted
  BY <1>5 DEF Deadlocked, Crash
<1>6. CASE Store
  BY <1>6 DEF Store, StoreCrash, LoaderStages, LoaderReads, LoaderServes
<1>7. QED
  BY <1>1, <1>2, <1>3, <1>4, <1>5, <1>6 DEF Next

-----------------------------------------------------------------------------
(* The steps of such a reconcile.                                          *)

\* What a request carries tells by its op whether it is a reconcile.
LEMMA ReconcileByOp ==
    ASSUME NEW S, NEW A, NEW j, Carries(j, S, A)
    PROVE  /\ j \in ReconcileJobs(S, A) => j # Idle /\ j.op = "reconcile"
           /\ j # Idle /\ j.op = "reconcile" => j \in ReconcileJobs(S, A)
BY DEF Carries, ReconcileJobs, ReviewJobs, AdminJobs, RetireJobs, Idle

\* Only its place in the protocol changes.
Onward(j, k, p) ==
    /\ k.pc = p /\ k.sawRetired = j.sawRetired /\ k.undisturbed = j.undisturbed
    /\ k.todo = j.todo /\ k.putting = j.putting /\ k.marked = j.marked
    /\ k.plan = j.plan /\ k.sheet = j.sheet

LEMMA GoesOn ==
    ASSUME IInv, NEW w \in Workers, Repairing(w), NEW p, p # "answer", Goto(w, p)
    PROVE  Onward(job[w], job'[w], p)
<1>1. job'[w] = [job[w] EXCEPT !.pc = p]
  BY DEF Goto, IInv, JobsCarry
<1>2. QED  BY <1>1 DEF Onward, Repairing, ReconcileJobs

\* The versions, and so what they call for, stay as they are.
LEMMA Settled ==
    ASSUME UNCHANGED record
    PROVE  /\ Target' = Target /\ Unprojected' = Unprojected
           /\ Current' = Current /\ retired' = retired
BY DEF record, Target, Unprojected, Current

\* A step of the reconcile w in which nothing fails.
Calm(w) == /\ IInv /\ Repairing(w) /\ Progress(job[w])
           /\ UNCHANGED <<faults, record>>

LEMMA NothingFails ==
    ASSUME NEW w \in Workers, Calm(w) PROVE ~Fault
BY DEF Calm, IInv, RecordTypes, Fault

\* A store call is made if the store has the dataset, and then it succeeds.
LEMMA CalmCalls ==
    ASSUME NEW w \in Workers, Calm(w), job[w].pc # "datasets", NEW after, NEW others
    PROVE  /\ ~retired => Reachable
           /\ ~Reachable => store.named = {}
           /\ Reachable => store.dataset /\ store.state = "up"
           /\ Succeeds(after) => Reachable /\ store' = after
           /\ FailsIn(others) => ~Reachable /\ store' = store
           /\ Fails(after) => ~Reachable /\ store' = store
           /\ Answered => Reachable /\ store' = store
           /\ Unanswered => ~Reachable /\ store' = store
<1>1. ~Fault
  BY NothingFails
<1>2. store.state = "up" /\ (~retired => store.dataset)
  BY DEF Calm, Progress, ProgressActive
<1>3. ~store.dataset => store.named = {}
  BY DEF Calm, IInv, Stores
<1>4. QED
  BY <1>1, <1>2, <1>3 DEF Reachable, Succeeds, Fails, FailsIn, Answered, Unanswered

\* The fields of the store after a call.
LEMMA StoreFields ==
    ASSUME IInv, NEW V, NEW D
    PROVE  /\ PutNamed(V).state = store.state /\ PutNamed(V).dataset = store.dataset
           /\ PutNamed(V).named = store.named \cup V
           /\ PutNamed(V).default = store.default
           /\ DropNamed(V).state = store.state /\ DropNamed(V).dataset = store.dataset
           /\ DropNamed(V).named = store.named \ V
           /\ DropNamed(V).default = store.default
           /\ PutDefault(V).state = store.state /\ PutDefault(V).dataset = store.dataset
           /\ PutDefault(V).named = store.named
           /\ PutDefault(V).default = V
           /\ Put(V, D).state = store.state /\ Put(V, D).dataset = store.dataset
BY DEF IInv, Stores, PutNamed, DropNamed, PutDefault, Put

LEMMA DatasetsProgress ==
    ASSUME NEW w \in Workers, Calm(w), Datasets(w) PROVE Progress(job[w])'
<1>1. /\ job[w].sawRetired = retired /\ store.state = "up"
      /\ ~Fault /\ IInv /\ Repairing(w)
  BY NothingFails DEF Calm, Progress, Datasets
<1>2. /\ Target' = Target /\ Unprojected' = Unprojected
      /\ Current' = Current /\ retired' = retired
  BY Settled DEF Calm
<1>3. CASE retired
  <2>1. Onward(job[w], job'[w], "graphs") /\ store' = store
    BY <1>1, <1>3, GoesOn DEF Datasets
  <2>2. QED  BY <1>1, <1>2, <1>3, <2>1 DEF Onward, Progress, ProgressRetired
<1>4. CASE ~retired
  <2>1. Onward(job[w], job'[w], "unprojected")
    BY <1>1, <1>4, GoesOn DEF Datasets
  <2>2. store'.state = "up" /\ store'.dataset
    BY <1>1, <1>4 DEF Datasets, IInv, Stores
  <2>3. QED  BY <1>1, <1>2, <1>4, <2>1, <2>2 DEF Onward, Progress, ProgressActive
<1>5. QED  BY <1>3, <1>4

LEMMA UnprojectedProgress ==
    ASSUME NEW w \in Workers, Calm(w), ReadUnprojected(w) PROVE Progress(job[w])'
<1>1. /\ Target' = Target /\ Unprojected' = Unprojected
      /\ Current' = Current /\ retired' = retired /\ store' = store
  BY Settled DEF Calm, ReadUnprojected
<1>2. /\ job'[w].pc = "project" /\ job'[w].todo = Unprojected
      /\ job'[w].sawRetired = job[w].sawRetired
  BY DEF Calm, Repairing, ReconcileJobs, IInv, JobsCarry, ReadUnprojected
<1>3. /\ job[w].pc = "unprojected" /\ Progress(job[w])
  BY DEF Calm, ReadUnprojected, At
<1>4. QED  BY <1>1, <1>2, <1>3 DEF Progress, ProgressRetired, ProgressActive

LEMMA NextProgress ==
    ASSUME NEW w \in Workers, Calm(w), ProjectNext(w) PROVE Progress(job[w])'
<1>1. /\ Target' = Target /\ Unprojected' = Unprojected
      /\ Current' = Current /\ retired' = retired
  BY Settled DEF Calm
<1>2. /\ job[w].pc = "project" /\ Progress(job[w]) /\ IInv
  BY DEF Calm, ProjectNext, At
<1>3. ~retired
  BY <1>2 DEF Progress, ProgressRetired
<1>4. PICK v \in job[w].todo :
          \E D : /\ store' = Put({v}, D)
                /\ job' = [job EXCEPT ![w] = [job[w] EXCEPT !.todo = @ \ {v},
                                                  !.pc = "remark", !.putting = {v}]]
  <2>1. PICK v \in job[w].todo :
          LET default == {v} \cap job[w].default
              after == Put({v}, default)
              left == [job[w] EXCEPT !.todo = @ \ {v}] IN
          \/ /\ Succeeds(after)
             /\ job' = [job EXCEPT ![w] = [left EXCEPT !.pc = "remark", !.putting = {v}]]
          \/ /\ FailsIn({store, PutNamed({v}), after})
             /\ job' = [job EXCEPT ![w] = left]
    BY DEF ProjectNext
  <2> DEFINE D == {v} \cap job[w].default
             left == [job[w] EXCEPT !.todo = @ \ {v}]
  <2>2. ~FailsIn({store, PutNamed({v}), Put({v}, D)})
    BY <1>2, <1>3, CalmCalls
  <2>3. Succeeds(Put({v}, D))
        /\ job' = [job EXCEPT ![w] = [left EXCEPT !.pc = "remark", !.putting = {v}]]
    BY <2>1, <2>2
  <2>4. store' = Put({v}, D)
    BY <2>3 DEF Succeeds
  <2>5. QED  BY <2>3, <2>4
<1>5. store'.state = store.state /\ store'.dataset = store.dataset
  BY <1>2, <1>4, StoreFields
<1>6. job'[w] = [job[w] EXCEPT !.todo = @ \ {v}, !.pc = "remark", !.putting = {v}]
  BY <1>4, <1>2 DEF IInv, JobsCarry
<1>7. /\ job'[w].pc = "remark" /\ job'[w].todo = job[w].todo \ {v}
      /\ job'[w].putting = {v} /\ job'[w].marked = job[w].marked
      /\ job'[w].sawRetired = job[w].sawRetired
  BY <1>6 DEF Calm, Repairing, ReconcileJobs
<1>8. QED  BY <1>1, <1>2, <1>3, <1>5, <1>7 DEF Progress, ProgressActive

LEMMA MarkProgress ==
    ASSUME NEW w \in Workers, Calm(w), MarkNext(w) PROVE Progress(job[w])'
<1>1. /\ Target' = Target /\ Unprojected' = Unprojected
      /\ Current' = Current /\ retired' = retired /\ store' = store
  BY Settled DEF Calm, MarkNext
<1>2. /\ job[w].pc = "remark" /\ Progress(job[w]) /\ IInv
  BY DEF Calm, MarkNext, At
<1>3. /\ job'[w].pc = "project" /\ job'[w].todo = job[w].todo
      /\ job'[w].marked = job[w].marked \cup job[w].putting
      /\ job'[w].sawRetired = job[w].sawRetired
  BY DEF Calm, Repairing, ReconcileJobs, IInv, JobsCarry, MarkNext
<1>4. QED  BY <1>1, <1>2, <1>3 DEF Progress, ProgressRetired, ProgressActive

LEMMA ProjectedProgress ==
    ASSUME NEW w \in Workers, Calm(w), ProjectedAll(w) PROVE Progress(job[w])'
<1>1. /\ Target' = Target /\ Unprojected' = Unprojected
      /\ Current' = Current /\ retired' = retired /\ store' = store
  BY Settled DEF Calm, ProjectedAll
<1>2. /\ job[w].pc = "project" /\ job[w].todo = {} /\ Progress(job[w])
      /\ IInv /\ Repairing(w)
  BY DEF Calm, ProjectedAll, At
<1>3. Onward(job[w], job'[w], "graphs")
  BY <1>2, GoesOn DEF ProjectedAll
<1>4. QED  BY <1>1, <1>2, <1>3 DEF Onward, Progress, ProgressRetired, ProgressActive

LEMMA ListProgress ==
    ASSUME NEW w \in Workers, Calm(w), ListGraphs(w) PROVE Progress(job[w])'
<1>1. /\ Target' = Target /\ Unprojected' = Unprojected
      /\ Current' = Current /\ retired' = retired
  BY Settled DEF Calm
<1>2. /\ job[w].pc = "graphs" /\ Progress(job[w]) /\ IInv /\ Repairing(w)
  BY DEF Calm, ListGraphs, At
<1>3. CASE Answered
  <2>1. store' = store /\ store.dataset /\ store.state = "up"
    BY <1>2, <1>3, CalmCalls
  <2>2. job' = [job EXCEPT ![w].pc = "compare", ![w].actual = store.named]
    <3>1. ~Unanswered
      BY <1>2, <1>3, CalmCalls
    <3>2. QED  BY <3>1 DEF ListGraphs
  <2>3. /\ job'[w].pc = "compare" /\ job'[w].actual = store.named
        /\ job'[w].marked = job[w].marked /\ job'[w].sawRetired = job[w].sawRetired
    BY <1>2, <2>2 DEF Repairing, ReconcileJobs, IInv, JobsCarry
  <2>4. QED  BY <1>1, <1>2, <2>1, <2>3 DEF Progress, ProgressRetired, ProgressActive
<1>4. CASE ~Answered
  <2>1. Unanswered /\ Goto(w, "remanifest")
    BY <1>4 DEF ListGraphs
  <2>2. Onward(job[w], job'[w], "remanifest")
    BY <1>2, <2>1, GoesOn
  <2>3. retired /\ store' = store /\ store.named = {}
    BY <1>2, <2>1, CalmCalls
  <2>4. QED  BY <1>1, <1>2, <2>2, <2>3 DEF Onward, Progress, ProgressRetired
<1>5. QED  BY <1>3, <1>4

LEMMA CompareProgress ==
    ASSUME NEW w \in Workers, Calm(w), CompareGraphs(w) PROVE Progress(job[w])'
<1>1. /\ Target' = Target /\ Unprojected' = Unprojected
      /\ Current' = Current /\ retired' = retired /\ store' = store
  BY Settled DEF Calm, CompareGraphs
<1>2. /\ job[w].pc = "compare" /\ Progress(job[w]) /\ IInv /\ Repairing(w)
      /\ job[w].sawRetired = retired /\ store.state = "up"
  BY DEF Calm, CompareGraphs, At, Progress
<1>3. job[w].actual = store.named /\ store.dataset
  BY <1>2 DEF Progress, ProgressRetired, ProgressActive
<1>4. /\ job'[w].pc = "repair" /\ job'[w].plan = RepairPlan(retired, store.named)
      /\ job'[w].marked = job[w].marked /\ job'[w].sawRetired = job[w].sawRetired
  BY <1>2, <1>3 DEF Repairing, ReconcileJobs, IInv, JobsCarry, CompareGraphs
<1>5. CASE retired
  <2>1. /\ job'[w].plan.missing = {} /\ job'[w].plan.excess = store.named
        /\ job'[w].plan.current = {}
    BY <1>4, <1>5 DEF RepairPlan, NoPlan
  <2>2. QED  BY <1>1, <1>2, <1>3, <1>4, <1>5, <2>1 DEF Progress, ProgressRetired
<1>6. CASE ~retired
  <2>1. /\ job'[w].plan.missing = Target.named \ store.named
        /\ job'[w].plan.excess = store.named \ Target.named
        /\ job'[w].plan.current = Target.default
        /\ job'[w].plan.stray = store.named \cap InState(status, "draft")
    BY <1>4, <1>6 DEF RepairPlan
  <2>2. Target.named \cap InState(status, "draft") = {}
    BY TargetsReviewed DEF Target
  <2>3. QED  BY <1>1, <1>2, <1>3, <1>4, <1>6, <2>1, <2>2 DEF Progress, ProgressActive
<1>7. QED  BY <1>5, <1>6

LEMMA MissingProgress ==
    ASSUME NEW w \in Workers, Calm(w), RepairMissing(w) PROVE Progress(job[w])'
<1>1. /\ Target' = Target /\ Unprojected' = Unprojected
      /\ Current' = Current /\ retired' = retired
  BY Settled DEF Calm
<1>2. /\ job[w].pc = "repair" /\ Progress(job[w]) /\ IInv /\ Repairing(w)
  BY DEF Calm, RepairMissing, At
<1>3. Onward(job[w], job'[w], "sweep")
  BY <1>2, GoesOn DEF RepairMissing
<1> DEFINE missing == job[w].plan.missing
<1>4. /\ store.state = "up" /\ store.dataset /\ Reachable
      /\ store' = PutNamed(missing)
  <2>1. store.dataset /\ store.state = "up"
    BY <1>2 DEF Progress, ProgressRetired, ProgressActive
  <2>2. Reachable
    BY <2>1 DEF Reachable
  <2>3. ~FailsIn({PutNamed(V) : V \in SUBSET missing})
    BY <1>2, <2>2, CalmCalls
  <2>4. Succeeds(PutNamed(missing))
    BY <2>3 DEF RepairMissing
  <2>5. QED  BY <2>1, <2>2, <2>4 DEF Succeeds
<1>5. /\ store'.state = "up" /\ store'.dataset
      /\ store'.named = store.named \cup missing
  BY <1>2, <1>4, StoreFields
<1>6. CASE retired
  <2>1. store'.named = store.named
    BY <1>2, <1>5, <1>6 DEF Progress, ProgressRetired
  <2>2. QED  BY <1>1, <1>2, <1>3, <1>5, <1>6, <2>1 DEF Onward, Progress, ProgressRetired
<1>7. CASE ~retired
  <2>1. /\ missing = Target.named \ store.named
        /\ job[w].plan.excess = store.named \ Target.named
    BY <1>2, <1>7 DEF Progress, ProgressActive
  <2>2. store'.named \ Target.named = job[w].plan.excess
        /\ Target.named \subseteq store'.named
    BY <1>5, <2>1
  <2>3. QED  BY <1>1, <1>2, <1>3, <1>5, <1>7, <2>2 DEF Onward, Progress, ProgressActive
<1>8. QED  BY <1>6, <1>7

LEMMA SweepProgress ==
    ASSUME NEW w \in Workers, Calm(w), SweepExcess(w) PROVE Progress(job[w])'
<1>1. /\ Target' = Target /\ Unprojected' = Unprojected
      /\ Current' = Current /\ retired' = retired
  BY Settled DEF Calm
<1>2. /\ job[w].pc = "sweep" /\ Progress(job[w]) /\ IInv /\ Repairing(w)
  BY DEF Calm, SweepExcess, At
<1> DEFINE excess == job[w].plan.excess
           next == IF job[w].plan.current = {} THEN "resweep" ELSE "ask"
<1>3. Onward(job[w], job'[w], next)
  <2>1. Goto(w, next) /\ next # "answer"
    BY DEF SweepExcess
  <2>2. QED  BY <1>2, <2>1, GoesOn
<1>4. /\ store.state = "up" /\ store.dataset
      /\ store' = DropNamed(excess)
  <2>1. store.dataset /\ store.state = "up"
    BY <1>2 DEF Progress, ProgressRetired, ProgressActive
  <2>2. Reachable
    BY <2>1 DEF Reachable
  <2>3. ~FailsIn({DropNamed(V) : V \in SUBSET excess})
    BY <1>2, <2>2, CalmCalls
  <2>4. Succeeds(DropNamed(excess))
    BY <2>3 DEF SweepExcess
  <2>5. QED  BY <2>1, <2>4 DEF Succeeds
<1>5. /\ store'.state = "up" /\ store'.dataset
      /\ store'.named = store.named \ excess
  BY <1>2, <1>4, StoreFields
<1>6. CASE retired
  <2>1. store'.named = {} /\ next = "resweep"
    BY <1>2, <1>5, <1>6 DEF Progress, ProgressRetired
  <2>2. QED  BY <1>1, <1>2, <1>3, <1>5, <1>6, <2>1 DEF Onward, Progress, ProgressRetired
<1>7. CASE ~retired
  <2>1. /\ Target.named \subseteq store.named /\ excess = store.named \ Target.named
        /\ job[w].plan.current = Target.default /\ Unprojected \subseteq job[w].marked
    BY <1>2, <1>7 DEF Progress, ProgressActive
  <2>2. store'.named = Target.named
    BY <1>5, <2>1
  <2>3. next = "resweep" => Current = {}
    BY <2>1 DEF Current
  <2>4. QED
    BY <1>1, <1>2, <1>3, <1>5, <1>7, <2>1, <2>2, <2>3 DEF Onward, Progress, ProgressActive
<1>8. QED  BY <1>6, <1>7

LEMMA AskProgress ==
    ASSUME NEW w \in Workers, Calm(w), AskDefault(w) PROVE Progress(job[w])'
<1>1. /\ Target' = Target /\ Unprojected' = Unprojected
      /\ Current' = Current /\ retired' = retired
  BY Settled DEF Calm
<1>2. /\ job[w].pc = "ask" /\ Progress(job[w]) /\ IInv /\ Repairing(w)
  BY DEF Calm, AskDefault, At
<1>3. ~retired
  BY <1>2 DEF Progress, ProgressRetired
<1> DEFINE next == IF store.default = {} THEN "redefault" ELSE "resweep"
<1>4. Answered /\ Goto(w, next) /\ next # "answer"
  BY <1>2, <1>3, CalmCalls DEF AskDefault
<1>5. Onward(job[w], job'[w], next) /\ store' = store
  BY <1>2, <1>4, GoesOn DEF Answered
<1>6. QED  BY <1>1, <1>2, <1>3, <1>5 DEF Onward, Progress, ProgressActive

LEMMA DefaultProgress ==
    ASSUME NEW w \in Workers, Calm(w), RepairDefault(w) PROVE Progress(job[w])'
<1>1. /\ Target' = Target /\ Unprojected' = Unprojected
      /\ Current' = Current /\ retired' = retired
  BY Settled DEF Calm
<1>2. /\ job[w].pc = "redefault" /\ Progress(job[w]) /\ IInv /\ Repairing(w)
  BY DEF Calm, RepairDefault, At
<1>3. ~retired
  BY <1>2 DEF Progress, ProgressRetired
<1>4. Onward(job[w], job'[w], "resweep")
  BY <1>2, GoesOn DEF RepairDefault
<1>5. store' = PutDefault(job[w].plan.current)
  <2>1. ~Fails(PutDefault(job[w].plan.current))
    BY <1>2, <1>3, CalmCalls
  <2>2. QED  BY <2>1 DEF RepairDefault, Succeeds
<1>6. /\ store'.state = store.state /\ store'.dataset = store.dataset
      /\ store'.named = store.named /\ store'.default = job[w].plan.current
  BY <1>2, <1>5, StoreFields
<1>7. job[w].plan.current = Current
  BY <1>2, <1>3 DEF Progress, ProgressActive, Current
<1>8. QED  BY <1>1, <1>2, <1>3, <1>4, <1>6, <1>7 DEF Onward, Progress, ProgressActive

LEMMA StraysProgress ==
    ASSUME NEW w \in Workers, Calm(w), SweepStrays(w) PROVE Progress(job[w])'
<1>1. /\ Target' = Target /\ Unprojected' = Unprojected
      /\ Current' = Current /\ retired' = retired
  BY Settled DEF Calm
<1>2. /\ job[w].pc = "resweep" /\ Progress(job[w]) /\ IInv /\ Repairing(w)
      /\ store.state = "up"
  BY DEF Calm, SweepStrays, At, Progress
<1>3. Onward(job[w], job'[w], "remanifest")
  BY <1>2, GoesOn DEF SweepStrays
<1> DEFINE stray == job[w].plan.stray
<1>4. store' = store \/ store' = DropNamed(stray)
  <2>1. FailsIn({DropNamed(V) : V \in SUBSET stray}) => store' = store
    BY <1>2, CalmCalls
  <2>2. QED  BY <2>1 DEF SweepStrays, Succeeds
<1>5. /\ store'.state = "up" /\ store'.dataset = store.dataset
      /\ store'.default = store.default
      /\ store'.named \in {store.named, store.named \ stray}
  <2>1. CASE store' = store
    BY <1>2, <2>1
  <2>2. CASE store' = DropNamed(stray)
    BY <1>2, <2>2, StoreFields
  <2>3. QED  BY <1>4, <2>1, <2>2
<1>6. CASE retired
  <2>1. store'.named = {}
    BY <1>2, <1>5, <1>6 DEF Progress, ProgressRetired
  <2>2. QED  BY <1>1, <1>2, <1>3, <1>5, <1>6, <2>1 DEF Onward, Progress, ProgressRetired
<1>7. CASE ~retired
  <2>1. store.named = Target.named /\ stray \cap Target.named = {}
    BY <1>2, <1>7 DEF Progress, ProgressActive
  <2>2. store'.named = Target.named
    BY <1>5, <2>1
  <2>3. QED  BY <1>1, <1>2, <1>3, <1>5, <1>7, <2>2 DEF Onward, Progress, ProgressActive
<1>8. QED  BY <1>6, <1>7

LEMMA RereadProgress ==
    ASSUME NEW w \in Workers, Calm(w), RereadManifest(w) PROVE Progress(job[w])'
<1>1. /\ Target' = Target /\ Unprojected' = Unprojected
      /\ Current' = Current /\ retired' = retired /\ store' = store
  BY Settled DEF Calm, RereadManifest
<1>2. /\ job[w].pc = "remanifest" /\ Progress(job[w]) /\ IInv
  BY DEF Calm, RereadManifest, At
<1>3. /\ job'[w].pc = "write" /\ job'[w].sheet = BuildManifest(status, approvedAt, FALSE)
      /\ job'[w].marked = job[w].marked /\ job'[w].sawRetired = job[w].sawRetired
  BY DEF Calm, Repairing, ReconcileJobs, IInv, JobsCarry, RereadManifest
<1>4. job'[w].sheet = Target
  BY <1>3 DEF BuildManifest, Target
<1>5. QED  BY <1>1, <1>2, <1>3, <1>4 DEF Progress, ProgressRetired, ProgressActive

LEMMA WriteProgress ==
    ASSUME NEW w \in Workers, Calm(w), WriteManifest(w) PROVE Progress(job[w])'
<1>1. /\ Target' = Target /\ Unprojected' = Unprojected
      /\ Current' = Current /\ retired' = retired /\ store' = store
  BY Settled DEF Calm, WriteManifest
<1>2. /\ job[w].pc = "write" /\ Progress(job[w]) /\ IInv /\ Repairing(w)
  BY DEF Calm, WriteManifest, At
<1>3. Onward(job[w], job'[w], "end")
  <2>1. job[w].op = "reconcile"
    BY <1>2 DEF Repairing, ReconcileJobs
  <2>2. Goto(w, "end")
    BY <2>1 DEF WriteManifest, AfterManifest
  <2>3. QED  BY <1>2, <2>2, GoesOn
<1>4. manifest' = job[w].sheet
  BY NothingFails DEF WriteManifest
<1>5. QED  BY <1>1, <1>2, <1>3, <1>4 DEF Onward, Progress, ProgressRetired, ProgressActive

-----------------------------------------------------------------------------
(* The other steps, and what begins.                                       *)

\* What a worker does.
Acts(w) == \/ Request(w) \/ ReviewStep(w) \/ ReconcileStep(w)
           \/ Deadlocked(w) \/ Crash(w)

\* A request's step is its own: the other requests stay where they are.
LEMMA OthersStay ==
    ASSUME IInv, NEW w \in Workers, NEW u \in Workers \ {w}, Acts(w)
    PROVE  job'[u] = job[u]
<1> USE DEF IInv, JobsCarry
<1>1. CASE Request(w)
  BY <1>1 DEF Request, Publish, BeginSubmit, BeginReject, BeginApprove, BeginReview,
     Retire, Unretire, BeginReconcile, Begin
<1>2. CASE ReviewStep(w)
  <2>1. CASE CommitSubmit(w) \/ CommitReject(w) \/ CommitApprove(w)
    BY <2>1 DEF CommitSubmit, CommitReject, CommitApprove, Commit, Goto
  <2>2. CASE \/ ProjectNamed(w) \/ ProjectDefault(w) \/ Unname(w) \/ DropDataset(w)
             \/ FindPrevious(w) \/ ApprovalRefused(w) \/ Decide(w)
             \/ MarkProjected(w) \/ ReadManifest(w) \/ WriteManifest(w)
    BY <2>2 DEF ProjectNamed, ProjectDefault, Unname, DropDataset, FindPrevious, Done,
       ApprovalRefused, Decide, MarkProjected, ReadManifest, WriteManifest, Goto
  <2>3. CASE \/ LoadRow(w) \/ UpdateApproved(w) \/ LoadPrevious(w)
             \/ ClearNext(w) \/ Unmark(w) \/ CommitRetire(w)
    BY <2>3 DEF LoadRow, UpdateApproved, LoadPrevious, ClearNext, Unmark, CommitRetire, Goto
  <2>4. QED  BY <1>2, <2>1, <2>2, <2>3 DEF ReviewStep
<1>3. CASE ReconcileStep(w)
  <2>1. CASE \/ Datasets(w) \/ ReadUnprojected(w) \/ ProjectNext(w) \/ MarkNext(w)
             \/ ProjectedAll(w) \/ ListGraphs(w) \/ CompareGraphs(w) \/ RepairMissing(w)
    BY <2>1 DEF Datasets, ReadUnprojected, ProjectNext, MarkNext, ProjectedAll,
       ListGraphs, CompareGraphs, RepairMissing, Goto
  <2>2. CASE \/ SweepExcess(w) \/ AskDefault(w) \/ RepairDefault(w) \/ SweepStrays(w)
             \/ RereadManifest(w) \/ EndReconcile(w) \/ ReconcileFails(w)
    BY <2>2 DEF SweepExcess, AskDefault, RepairDefault, SweepStrays, RereadManifest,
       EndReconcile, ReconcileFails, Goto, Done
  <2>3. QED  BY <1>3, <2>1, <2>2 DEF ReconcileStep
<1>4. CASE Deadlocked(w) \/ Crash(w)
  BY <1>4 DEF Deadlocked, Crash, Done
<1>5. QED  BY <1>1, <1>2, <1>3, <1>4 DEF Acts

\* Only BeginReconcile begins a reconcile.
LEMMA NoOtherBegins ==
    ASSUME IInv, IInv', NEW w \in Workers, ~Repairing(w), Repairing(w)', Acts(w)
    PROVE  BeginReconcile(w)
<1>1. /\ Carries(job[w], submittedEver, approvedEver)
      /\ Carries(job'[w], submittedEver', approvedEver')
  BY DEF IInv, JobsCarry
<1>2. /\ job'[w] # Idle /\ job'[w].op = "reconcile"
  BY <1>1, ReconcileByOp DEF Repairing
<1>3. \/ job[w] = Idle
      \/ job[w] \in ReviewJobs(submittedEver, approvedEver)
      \/ job[w] \in AdminJobs(submittedEver, approvedEver)
      \/ job[w] \in RetireJobs(submittedEver, approvedEver)
  BY <1>1 DEF Carries, Repairing
<1>4. DOMAIN job = Workers
  BY DEF IInv, JobsCarry
<1>5. CASE Request(w)
  <2>1. ASSUME NEW j, Begin(w, j), j.op # "reconcile" PROVE FALSE
    BY <1>2, <1>4, <2>1 DEF Begin
  <2>2. ASSUME NEW p, NEW op, NEW v PROVE Review(p, op, v).op = op
    BY DEF Review
  <2>3. Retirement.op = "retire" /\ \A op : Admin(op).op = op
    BY DEF Admin, Retirement
  <2>4. ASSUME NEW op, op # "reconcile", NEW needs, NEW p PROVE ~BeginReview(w, op, needs, p)
    BY <2>1, <2>2, <2>4 DEF BeginReview
  <2>5. ~Publish(w) /\ ~Retire(w) /\ ~Unretire(w)
    BY <2>1, <2>3 DEF Publish, Retire, Unretire
  <2>6. ~BeginSubmit(w) /\ ~BeginReject(w) /\ ~BeginApprove(w)
    BY <2>4 DEF BeginSubmit, BeginReject, BeginApprove
  <2>7. QED  BY <1>5, <2>5, <2>6 DEF Request
<1>6. CASE ReviewStep(w)
  <2>1. job[w] # Idle
    <3>1. job[w].pc # "idle"
      BY <1>6 DEF ReviewStep, LoadRow, CommitSubmit, CommitReject, CommitApprove,
         UpdateApproved, LoadPrevious, ClearNext, Unmark, CommitRetire, ProjectNamed,
         ProjectDefault, Unname, DropDataset, FindPrevious, ApprovalRefused, Decide,
         MarkProjected, ReadManifest, WriteManifest, At
    <3>2. QED  BY <3>1 DEF Idle
  <2>2. ASSUME NEW p PROVE ~Goto(w, p)
    BY <1>2, <1>3, <1>4, <2>1 DEF Goto, ReviewJobs, AdminJobs, RetireJobs
  <2>3. ~Done(w)
    BY <1>2, <1>4 DEF Done
  <2>4. CASE CommitSubmit(w) \/ CommitReject(w) \/ CommitApprove(w)
    BY <2>2, <2>4 DEF CommitSubmit, CommitReject, CommitApprove, Commit
  <2>5. CASE \/ ProjectDefault(w) \/ Unname(w) \/ DropDataset(w)
             \/ ApprovalRefused(w) \/ MarkProjected(w) \/ WriteManifest(w)
    BY <2>2, <2>3, <2>5 DEF ProjectDefault, Unname, DropDataset, ApprovalRefused,
       MarkProjected, WriteManifest
  <2>6. CASE ProjectNamed(w)
    BY <1>2, <1>3, <1>4, <2>1, <2>2, <2>6 DEF ProjectNamed, ReviewJobs, AdminJobs, RetireJobs
  <2>7. CASE FindPrevious(w)
    BY <1>2, <1>3, <1>4, <2>1, <2>7 DEF FindPrevious, ReviewJobs, AdminJobs, RetireJobs
  <2>8. CASE Decide(w)
    BY <1>2, <1>3, <1>4, <2>1, <2>8 DEF Decide, ReviewJobs, AdminJobs, RetireJobs
  <2>9. CASE ReadManifest(w)
    BY <1>2, <1>3, <1>4, <2>1, <2>9 DEF ReadManifest, ReviewJobs, AdminJobs, RetireJobs
  <2>10. CASE LoadRow(w) \/ LoadPrevious(w)
    BY <1>2, <1>3, <1>4, <2>1, <2>10
       DEF LoadRow, LoadPrevious, ReviewJobs, AdminJobs, RetireJobs
  <2>11. CASE UpdateApproved(w)
    BY <2>2, <2>11 DEF UpdateApproved
  <2>12. CASE ClearNext(w)
    <3>1. PICK v \in job[w].todo :
              LET left == [job[w] EXCEPT !.todo = @ \ {v}]
              IN  job' = [job EXCEPT ![w] =
                             IF projected[v]
                             THEN [left EXCEPT !.pc = "unmark", !.putting = {v}]
                             ELSE left]
      BY <2>12 DEF ClearNext
    <3> DEFINE left == [job[w] EXCEPT !.todo = @ \ {v}]
    <3>2. job'[w] = IF projected[v] THEN [left EXCEPT !.pc = "unmark", !.putting = {v}]
                                    ELSE left
      BY <1>4, <3>1
    <3>3. QED  BY <1>2, <1>3, <2>1, <3>2 DEF ReviewJobs, AdminJobs, RetireJobs
  <2>13. CASE Unmark(w)
    BY <1>2, <1>3, <1>4, <2>1, <2>13 DEF Unmark, ReviewJobs, AdminJobs, RetireJobs
  <2>14. CASE CommitRetire(w)
    BY <1>2, <1>4, <2>14 DEF CommitRetire, Admin
  <2>15. QED
    BY <1>6, <2>4, <2>5, <2>6, <2>7, <2>8, <2>9, <2>10, <2>11, <2>12, <2>13, <2>14
       DEF ReviewStep
<1>7. CASE ReconcileStep(w)
  <2>1. job[w].pc \in ReconcilePcs
    BY <1>7 DEF ReconcilePcs, ReconcileStep, ReconcileFails, Datasets, ReadUnprojected,
       ProjectNext, MarkNext, ProjectedAll, ListGraphs, CompareGraphs, RepairMissing,
       SweepExcess, AskDefault, RepairDefault, SweepStrays, RereadManifest, EndReconcile, At
  <2>2. QED  BY <2>1, InReconcile DEF Repairing
<1>8. CASE Deadlocked(w) \/ Crash(w)
  BY <1>2, <1>4, <1>8 DEF Deadlocked, Crash, Done
<1>9. QED  BY <1>5, <1>6, <1>7, <1>8 DEF Acts

\* The steps after which a reconcile still runs.
RepairStep(w) ==
    \/ Datasets(w) \/ ReadUnprojected(w) \/ ProjectNext(w) \/ MarkNext(w)
    \/ ProjectedAll(w) \/ ListGraphs(w) \/ CompareGraphs(w) \/ RepairMissing(w)
    \/ SweepExcess(w) \/ AskDefault(w) \/ RepairDefault(w) \/ SweepStrays(w)
    \/ RereadManifest(w) \/ WriteManifest(w)

LEMMA StillRepairing ==
    ASSUME IInv, IInv', NEW w \in Workers, Repairing(w), Repairing(w)', Acts(w)
    PROVE  RepairStep(w)
<1>1. /\ job[w] # Idle /\ job'[w] # Idle
      /\ job[w].pc \in ReconcilePcs \cup {"write"} /\ job[w].op = "reconcile"
  <2>1. /\ Carries(job[w], submittedEver, approvedEver)
        /\ Carries(job'[w], submittedEver', approvedEver')
    BY DEF IInv, JobsCarry
  <2>2. job[w].pc \in ReconcilePcs \cup {"write"} /\ job[w].op = "reconcile"
    BY DEF Repairing, ReconcileJobs, ReconcilePcs
  <2>3. QED  BY <2>1, <2>2, ReconcileByOp DEF Repairing
<1>2. DOMAIN job = Workers
  BY DEF IInv, JobsCarry
<1>3. CASE Request(w)
  BY <1>1, <1>3 DEF Request, Publish, BeginSubmit, BeginReject, BeginApprove, BeginReview,
     Retire, Unretire, BeginReconcile, Begin, Busy
<1>4. CASE ReviewStep(w)
  BY <1>1, <1>4 DEF ReviewStep, LoadRow, CommitSubmit, CommitReject, CommitApprove,
     UpdateApproved, LoadPrevious, ClearNext, Unmark, CommitRetire, ProjectNamed,
     ProjectDefault, Unname, DropDataset, FindPrevious, ApprovalRefused, Decide,
     MarkProjected, ReadManifest, At, ReconcilePcs, RepairStep
<1>5. CASE ReconcileStep(w)
  <2>1. ~Done(w)
    BY <1>1, <1>2 DEF Done
  <2>2. QED
    BY <1>5, <2>1 DEF ReconcileStep, RepairStep, ReconcileFails, EndReconcile
<1>6. CASE Deadlocked(w) \/ Crash(w)
  BY <1>1, <1>2, <1>6 DEF Deadlocked, Crash, Done
<1>7. QED  BY <1>3, <1>4, <1>5, <1>6 DEF Acts

\* It keeps what it noted when it began.
LEMMA NoteKept ==
    ASSUME IInv, NEW w \in Workers, Repairing(w), RepairStep(w)
    PROVE  job'[w].undisturbed = job[w].undisturbed
<1>1. ASSUME NEW p, p # "answer", Goto(w, p)
      PROVE  job'[w].undisturbed = job[w].undisturbed
  BY <1>1, GoesOn DEF Onward
<1> USE DEF Repairing, ReconcileJobs, IInv, JobsCarry
<1>2. CASE Datasets(w)
  BY <1>1, <1>2 DEF Datasets
<1>3. CASE ReadUnprojected(w)
  BY <1>3 DEF ReadUnprojected
<1>4. CASE ProjectNext(w)
  <2>1. PICK v \in job[w].todo :
            \/ job' = [job EXCEPT ![w] = [[job[w] EXCEPT !.todo = @ \ {v}]
                                             EXCEPT !.pc = "remark", !.putting = {v}]]
            \/ job' = [job EXCEPT ![w] = [job[w] EXCEPT !.todo = @ \ {v}]]
    BY <1>4 DEF ProjectNext
  <2>2. \/ job'[w] = [[job[w] EXCEPT !.todo = @ \ {v}]
                          EXCEPT !.pc = "remark", !.putting = {v}]
        \/ job'[w] = [job[w] EXCEPT !.todo = @ \ {v}]
    BY <2>1
  <2>3. QED  BY <2>2
<1>5. CASE MarkNext(w)
  BY <1>5 DEF MarkNext
<1>6. CASE ProjectedAll(w) \/ RepairMissing(w) \/ SweepExcess(w) \/ SweepStrays(w)
  BY <1>1, <1>6 DEF ProjectedAll, RepairMissing, SweepExcess, SweepStrays
<1>7. CASE ListGraphs(w) \/ CompareGraphs(w)
  BY <1>1, <1>7 DEF ListGraphs, CompareGraphs
<1>8. CASE AskDefault(w) \/ RepairDefault(w)
  BY <1>1, <1>8 DEF AskDefault, RepairDefault
<1>9. CASE RereadManifest(w)
  BY <1>9 DEF RereadManifest
<1>10. CASE WriteManifest(w)
  BY <1>1, <1>10 DEF WriteManifest, AfterManifest
<1>11. QED
  BY <1>2, <1>3, <1>4, <1>5, <1>6, <1>7, <1>8, <1>9, <1>10 DEF RepairStep

\* Each of its steps, when nothing fails, makes progress.
LEMMA OwnProgress ==
    ASSUME IInv, NEW w \in Workers, Repairing(w), Progress(job[w]), UNCHANGED faults,
           RepairStep(w)
    PROVE  Progress(job[w])'
<1>1. UNCHANGED record
  BY DEF RepairStep, Datasets, ReadUnprojected, ProjectNext, MarkNext, ProjectedAll,
     ListGraphs, CompareGraphs, RepairMissing, SweepExcess, AskDefault, RepairDefault,
     SweepStrays, RereadManifest, WriteManifest
<1>2. Calm(w)
  BY <1>1 DEF Calm
<1>3. QED
  BY <1>2, DatasetsProgress, UnprojectedProgress, NextProgress, MarkProgress,
     ProjectedProgress, ListProgress, CompareProgress, MissingProgress, SweepProgress,
     AskProgress, DefaultProgress, StraysProgress, RereadProgress, WriteProgress
     DEF RepairStep

\* An idle worker takes no step but to begin a request, which is counted.
LEMMA IdleWaits ==
    ASSUME IInv, NEW u \in Workers, ~Busy(u), UNCHANGED served
    PROVE  ~Acts(u)
<1>1. job[u].pc = "idle"
  BY DEF Busy, Idle
<1>2. ~Request(u)
  BY DEF Request, Publish, BeginSubmit, BeginReject, BeginApprove, BeginReview, Retire,
     Unretire, BeginReconcile, Begin, IInv, RecordTypes
<1>3. ~ReviewStep(u)
  BY <1>1 DEF ReviewStep, LoadRow, CommitSubmit, CommitReject, CommitApprove,
     UpdateApproved, LoadPrevious, ClearNext, Unmark, CommitRetire, ProjectNamed,
     ProjectDefault, Unname, DropDataset, FindPrevious, ApprovalRefused, Decide,
     MarkProjected, ReadManifest, WriteManifest, At
<1>4. ~ReconcileStep(u)
  BY <1>1 DEF ReconcileStep, ReconcileFails, Datasets, ReadUnprojected, ProjectNext,
     MarkNext, ProjectedAll, ListGraphs, CompareGraphs, RepairMissing, SweepExcess,
     AskDefault, RepairDefault, SweepStrays, RereadManifest, EndReconcile, At
<1>5. ~Crash(u) /\ ~Deadlocked(u)
  <2>1. \A x : ~WaitsFor(u, x)
    BY DEF WaitsFor, Awaited
  <2>2. QED  BY <2>1 DEF Crash, Deadlocked
<1>6. QED  BY <1>2, <1>3, <1>4, <1>5 DEF Acts

\* The store restarts before the reconcile has asked it anything, or never.
LEMMA StoreProgress ==
    ASSUME IInv, NEW w \in Workers, Repairing(w), Progress(job[w]), UNCHANGED faults, Store
    PROVE  Progress(job[w])' /\ job' = job
<1>1. job' = job /\ UNCHANGED record
  BY DEF Store, StoreCrash, LoaderStages, LoaderReads, LoaderServes
<1>2. store.state # "up"
  BY DEF Store, StoreCrash, LoaderStages, LoaderReads, LoaderServes, Fault, IInv, RecordTypes
<1>3. job[w].pc = "datasets" /\ job[w].sawRetired = retired
  BY <1>2 DEF Progress
<1>4. retired' = retired
  BY <1>1 DEF record
<1>5. job'[w].pc = "datasets" /\ job'[w].sawRetired = retired'
  BY <1>1, <1>3, <1>4
<1>6. QED  BY <1>1, <1>5 DEF Progress, ProgressRetired, ProgressActive

LEMMA StutterProgress ==
    ASSUME NEW w \in Workers, Progress(job[w]), UNCHANGED vars PROVE Progress(job[w])'
<1>1. /\ job' = job /\ store' = store /\ manifest' = manifest /\ UNCHANGED record
  BY DEF vars
<1>2. /\ Target' = Target /\ Unprojected' = Unprojected
      /\ Current' = Current /\ retired' = retired
  BY <1>1, Settled
<1>3. QED  BY <1>1, <1>2 DEF Progress, ProgressRetired, ProgressActive

\* The reconcile begins.
LEMMA TrackedBegins ==
    ASSUME IInv, NEW w \in Workers, BeginReconcile(w) PROVE Tracked(w)'
<1>1. /\ job'[w] = Reconcile(w) /\ faults' = faults /\ served' = served + 1
      /\ retired' = retired
  BY DEF BeginReconcile, Begin, IInv, JobsCarry, record
<1> DEFINE lone == \A u \in Workers \ {w} : ~Busy(u)
           note == [alone |-> lone, faults |-> faults, served |-> served + 1]
<1>2. /\ job'[w].undisturbed = note
      /\ job'[w].pc = "datasets" /\ job'[w].sawRetired = retired
  BY <1>1 DEF Reconcile
<1>3. lone => Others(w)
  BY DEF Others
<1>4. note.faults = faults /\ note.served = served + 1 /\ note.alone = lone
  <2> HIDE DEF lone
  <2>1. QED  OBVIOUS
<1> HIDE DEF lone, note
<1>5. ASSUME Undisturbed(w)' PROVE Others(w)'
  <2>1. Others(w)
    <3>1. job'[w].undisturbed.alone = TRUE
      BY <1>5 DEF Undisturbed
    <3>2. lone = TRUE
      BY <1>2, <1>4, <3>1
    <3>3. QED  BY <1>3, <3>2
  <2>2. ASSUME NEW u \in Workers \ {w} PROVE job'[u] = job[u]
    BY OthersStay DEF Acts, Request
  <2>3. QED  BY <2>1, <2>2 DEF Others, Busy
<1>6. Progress(job[w])'
  BY <1>1, <1>2 DEF Progress, ProgressRetired, ProgressActive
<1>7. faults' \in Nat /\ served' \in Nat
  BY <1>1 DEF IInv, RecordTypes
<1>8. QED  BY <1>1, <1>2, <1>5, <1>6, <1>7, <1>4 DEF Tracked

\* The reconcile goes on: w is at the same reconcile before and after.
LEMMA TrackedOn ==
    ASSUME IInv, IInv', NEW w \in Workers, Tracked(w), [Next]_vars, Repairing(w),
           Repairing(w)', job'[w].undisturbed = job[w].undisturbed
    PROVE  Tracked(w)'
<1> DEFINE note == job[w].undisturbed
<1>1. /\ faults \in Nat /\ served \in Nat /\ note.faults \in Nat /\ note.served \in Nat
      /\ note.faults <= faults /\ note.served <= served
  BY DEF IInv, RecordTypes, Tracked, Repairing, ReconcileJobs
<1>2. Counted
  BY Counting
<1>3. note.faults <= faults' /\ note.served <= served'
  BY <1>1, <1>2 DEF Counted
<1>4. ASSUME Undisturbed(w)' PROVE Others(w)' /\ Progress(job[w])'
  <2>1. note = [alone |-> TRUE, faults |-> faults', served |-> served']
    BY <1>4 DEF Undisturbed
  <2>2. faults' = faults /\ served' = served
    <3>1. note.faults = faults' /\ note.served = served'
      BY <2>1
    <3>2. QED  BY <1>1, <1>2, <3>1 DEF Counted
  <2>3. Undisturbed(w)
    BY <2>1, <2>2 DEF Undisturbed
  <2>4. Others(w) /\ Progress(job[w])
    BY <2>3 DEF Tracked
  <2>5. CASE UNCHANGED vars
    BY <2>4, <2>5, StutterProgress DEF Others, Busy, vars
  <2>6. CASE Store
    BY <2>2, <2>4, <2>6, StoreProgress DEF Others, Busy
  <2>7. ASSUME NEW u \in Workers, Acts(u)
        PROVE  Others(w)' /\ Progress(job[w])'
    <3>1. u = w
      BY <2>2, <2>4, <2>7, IdleWaits DEF Others
    <3>2. RepairStep(w)
      BY <2>7, <3>1, StillRepairing
    <3>3. Progress(job[w])'
      BY <2>2, <2>4, <3>2, OwnProgress
    <3>4. ASSUME NEW x \in Workers \ {w} PROVE job'[x] = job[x]
      BY <2>7, <3>1, OthersStay
    <3>5. QED  BY <2>4, <3>3, <3>4 DEF Others, Busy
  <2>8. QED  BY <2>5, <2>6, <2>7 DEF Next, Acts
<1>5. QED  BY <1>3, <1>4 DEF Tracked

LEMMA ConvKeeps ==
    ASSUME ConvInv, [Next]_vars PROVE ConvInv'
<1>1. IInv /\ IInv'
  BY StepKeeps DEF ConvInv
<1>2. ASSUME NEW w \in Workers, Repairing(w)' PROVE Tracked(w)'
  <2>1. Tracked(w)
    BY DEF ConvInv
  <2>2. /\ Carries(job[w], submittedEver, approvedEver)
        /\ Carries(job'[w], submittedEver', approvedEver')
    BY <1>1 DEF IInv, JobsCarry
  <2>3. ASSUME job'[w] = job[w] PROVE Tracked(w)'
    <3>1. Repairing(w)
      BY <1>2, <2>2, <2>3, ReconcileByOp DEF Repairing
    <3>2. QED  BY <1>1, <1>2, <2>1, <2>3, <3>1, TrackedOn
  <2>4. ASSUME NEW u \in Workers, Acts(u) PROVE Tracked(w)'
    <3>1. CASE u # w
      BY <1>1, <2>3, <2>4, <3>1, OthersStay
    <3>2. CASE u = w /\ ~Repairing(w)
      BY <1>1, <1>2, <2>4, <3>2, NoOtherBegins, TrackedBegins
    <3>3. CASE u = w /\ Repairing(w)
      <4>1. RepairStep(w)
        BY <1>1, <1>2, <2>4, <3>3, StillRepairing
      <4>2. job'[w].undisturbed = job[w].undisturbed
        BY <1>1, <3>3, <4>1, NoteKept
      <4>3. QED  BY <1>1, <1>2, <2>1, <3>3, <4>2, TrackedOn
    <3>4. QED  BY <3>1, <3>2, <3>3
  <2>5. CASE UNCHANGED vars
    BY <2>3, <2>5 DEF vars
  <2>6. CASE Store
    BY <2>3, <2>6 DEF Store, StoreCrash, LoaderStages, LoaderReads, LoaderServes
  <2>7. QED  BY <2>4, <2>5, <2>6 DEF Next, Acts
<1>3. ASSUME NEW w \in Workers PROVE Tracked(w)'
  BY <1>2 DEF Tracked
<1>4. QED  BY <1>1, <1>3 DEF ConvInv

LEMMA ConvAtFirst ==
    ASSUME Init PROVE ConvInv
<1>1. IInv
  BY AtFirst
<1>2. ASSUME NEW w \in Workers PROVE ~Repairing(w)
  BY DEF Init, Repairing, ReconcileJobs, Idle
<1>3. QED  BY <1>1, <1>2 DEF ConvInv, Tracked

\* Where it ends.
LEMMA RepairedAtEnd ==
    ASSUME ConvInv, NEW w \in Workers, EndReconcile(w), Undisturbed(w)
    PROVE  IF retired THEN store.named = {}
           ELSE /\ store.dataset
                /\ store.named = Target.named
                /\ Current # {} => store.default # {}
                /\ manifest = Target
                /\ Unprojected' = {}
<1>1. job[w].pc = "end"
  BY DEF EndReconcile, At
<1>2. Progress(job[w])
  <2>1. Repairing(w)
    BY <1>1, InReconcile DEF ConvInv, ReconcilePcs, Repairing
  <2>2. QED  BY <2>1 DEF ConvInv, Tracked
<1>3. CASE retired
  BY <1>1, <1>2, <1>3 DEF Progress, ProgressRetired
<1>4. CASE ~retired
  <2>1. /\ store.dataset /\ store.named = Target.named
        /\ Current # {} => store.default # {}
        /\ manifest = Target /\ Unprojected \subseteq job[w].marked
    BY <1>1, <1>2, <1>4 DEF Progress, ProgressActive
  <2>2. /\ projected' = [v \in Versions |-> projected[v] \/ v \in job[w].marked]
        /\ status' = status
    BY DEF EndReconcile
  <2>3. Unprojected' = {}
    <3>1. SUFFICES ASSUME NEW v \in Versions, ~projected'[v],
                          status'[v] \notin {"none", "draft"}
                   PROVE  FALSE
      BY DEF Unprojected
    <3>2. ~projected[v] /\ v \notin job[w].marked
      BY <2>2, <3>1
    <3>3. v \in Unprojected
      BY <2>2, <3>1, <3>2 DEF Unprojected
    <3>4. QED  BY <2>1, <3>2, <3>3
  <2>4. QED  BY <1>4, <2>1, <2>3
<1>5. QED  BY <1>3, <1>4

\* projection.py:1528: whatever failed and interleaved before, a reconcile that
\* runs alone and meets no fault leaves the named graphs, the manifest and the
\* marks as the versions call for, and a default graph if there is a current
\* version; for any number of versions, workers, requests and faults.
THEOREM ReconcileAlwaysRepairs == Spec => ReconcileConverges
<1>1. Init => ConvInv
  BY ConvAtFirst
<1>2. ConvInv /\ [Next]_vars => ConvInv'
  BY ConvKeeps
<1>3. ConvInv =>
          [\A w \in Workers : EndReconcile(w) /\ Undisturbed(w) =>
              IF retired THEN store.named = {}
              ELSE /\ store.dataset
                   /\ store.named = Target.named
                   /\ Current # {} => store.default # {}
                   /\ manifest = Target
                   /\ Unprojected' = {}]_vars
  BY RepairedAtEnd
<1>4. QED
  BY <1>1, <1>2, <1>3, PTL DEF Spec, ReconcileConverges
=============================================================================
