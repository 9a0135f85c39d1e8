--------------------------- MODULE GovernanceProofs ---------------------------
(***************************************************************************)
(* Proofs about Governance.tla for any principals, versions and requests.  *)
(* None of its invariants is inductive: what a request read and acts upon  *)
(* later must still be true enough.  Knowledge says of what.               *)
(***************************************************************************)
EXTENDS Governance, FiniteSetTheorems, TLAPS

Newest == Cardinality(questions)
OwnersIn(r) == {p \in Principals : r[p] = "owner"}

\* The revisions are numbered from 1 up to their count.
Numbering ==
    /\ IsFiniteSet(questions)
    /\ {q.number : q \in questions} = 1 .. Newest
    /\ \A q, r \in questions : q.number = r.number => q = r

\* What request w knows.
Knows(w) ==
    /\ job[w].op = "revise" => job[w].newest \in 0 .. Newest
    /\ At(w, "revoke", "commit") /\ job[w].listed[job[w].target] = "owner" =>
          Cardinality(OwnersIn(job[w].listed)) > 1
    /\ job[w].op \in {"submit", "reject", "approve"} => version[job[w].v].status # "none"
    /\ job[w].op = "approve" => (TwoPerson => job[w].actor # version[job[w].v].author)
    /\ At(w, "approve", "evaluate") \/ At(w, "approve", "commit") =>
          /\ job[w].authorship \in 0 .. Newest
          /\ TwoPerson => ~SelfRevised(job[w].v, job[w].authorship)
    /\ At(w, "approve", "commit") => job[w].evaluated \in job[w].authorship .. Newest
Knowledge == \A w \in Workers : Knows(w)

\* The audit of a decision names a revision that exists.
Audited == \A v \in Versions : version[v].evaluated \in 0 .. Newest

IInv == TypeOK /\ Numbering /\ Knowledge /\ Audited /\ FourEyes /\ CriteriaIndependent

-----------------------------------------------------------------------------
\* The active revision is the newest, and 0 stands for none.
LEMMA ActiveIsNewest == Numbering => Newest \in Nat /\ Active = Newest
<1> SUFFICES ASSUME Numbering PROVE Newest \in Nat /\ Active = Newest
  OBVIOUS
<1>1. Newest \in Nat
  BY FS_CardinalityType DEF Numbering, Newest
<1>2. CASE questions = {}
  BY <1>1, <1>2, FS_EmptySet DEF Active, Newest
<1>3. CASE questions # {}
  <2> DEFINE Numbers == {q.number : q \in questions}
             Greatest(n) == \A q \in questions : q.number <= n
  <2>1. Numbers = 1 .. Newest
    BY DEF Numbering
  <2>2. PICK q \in questions : TRUE
    BY <1>3
  <2>3. q.number \in 1 .. Newest
    BY <2>1
  <2>4. Newest \in Numbers
    BY <1>1, <2>1, <2>3
  <2>5. Greatest(Newest)
    BY <1>1, <2>1
  <2>6. \A n \in Numbers : Greatest(n) => n = Newest
    <3> SUFFICES ASSUME NEW n \in Numbers, Greatest(n) PROVE n = Newest
      OBVIOUS
    <3>1. PICK r \in questions : r.number = Newest
      BY <2>4
    <3>2. Newest <= n /\ n \in 1 .. Newest
      BY <2>1, <3>1
    <3> QED BY <1>1, <3>2
  <2>7. Active = CHOOSE n \in Numbers : Greatest(n)
    BY <1>3 DEF Active
  <2> HIDE DEF Numbers, Greatest
  <2> QED BY <1>1, <2>4, <2>5, <2>6, <2>7
<1> QED BY <1>2, <1>3

\* The initial values are of their types.
LEMMA TypeInit == Init => TypeOK
BY Constants DEF Init, TypeOK, Unpublished, Version, Statuses, Job, Idle

\* The types are preserved by every step.
LEMMA TypeStep == TypeOK /\ Numbering /\ [Next]_vars => TypeOK'
<1> SUFFICES ASSUME TypeOK, Numbering, [Next]_vars PROVE TypeOK'
  OBVIOUS
<1> USE Constants DEF TypeOK
<1>0. CASE UNCHANGED vars
  BY <1>0 DEF vars
<1>b. ASSUME NEW w \in Workers, NEW j \in Job, Begin(w, j) PROVE TypeOK'
  BY <1>b DEF Begin
<1>1. ASSUME NEW w \in Workers, RoleStep(w) PROVE TypeOK'
  <2>1. CASE BeginGrant(w)
    <3> PICK a \in Principals, p \in Principals, r \in Roles :
           Begin(w, [op |-> "grant", pc |-> "read", target |-> p, asked |-> r,
                     found |-> "none"])
      BY <2>1 DEF BeginGrant
    <3> QED BY <1>b DEF Job, Grant
  <2>2. CASE ReadGrant(w)
    <3>1. job[w] \in Grant
      BY <2>2 DEF ReadGrant, At, Job, Grant, Revoke, Revise, Publish, Moving, Approve, Idle
    <3>2. [job[w] EXCEPT !.pc = "commit", !.found = role[job[w].target]] \in Job
      BY <3>1 DEF Grant, Job
    <3> QED BY <2>2, <3>2 DEF ReadGrant
  <2>3. CASE CommitGrant(w)
    <3>1. job[w] \in Grant
      BY <2>3 DEF CommitGrant, At, Job, Grant, Revoke, Revise, Publish, Moving, Approve, Idle
    <3> QED BY <2>3, <3>1 DEF CommitGrant, Done, Grant, Job
  <2>4. CASE BeginRevoke(w)
    <3> PICK a \in Principals, p \in Principals :
           Begin(w, [op |-> "revoke", pc |-> "list", target |-> p, listed |-> role])
      BY <2>4 DEF BeginRevoke
    <3> QED BY <1>b DEF Job, Revoke
  <2>5. CASE ListOwners(w)
    <3>1. job[w] \in Revoke
      BY <2>5 DEF ListOwners, At, Job, Grant, Revoke, Revise, Publish, Moving, Approve, Idle
    <3>2. [job[w] EXCEPT !.pc = "commit", !.listed = role] \in Job
      BY <3>1 DEF Revoke, Job
    <3> QED BY <2>5, <3>2 DEF ListOwners
  <2>6. CASE CommitRevoke(w)
    BY <2>6 DEF CommitRevoke, Done, Job
  <2> QED BY <1>1, <2>1, <2>2, <2>3, <2>4, <2>5, <2>6 DEF RoleStep
<1>2. ASSUME NEW w \in Workers, CriteriaStep(w) PROVE TypeOK'
  <2>1. CASE BeginRevise(w)
    <3> PICK a \in Principals :
           Begin(w, [op |-> "revise", pc |-> "number", actor |-> a,
                     created |-> begun + 1, newest |-> 0])
      BY <2>1 DEF BeginRevise
    <3> QED BY <1>b DEF Job, Revise
  <2>2. CASE NumberRevision(w)
    <3>1. job[w] \in Revise
      BY <2>2 DEF NumberRevision, At, Job, Grant, Revoke, Revise, Publish, Moving, Approve, Idle
    <3>2. Active \in Nat
      BY ActiveIsNewest
    <3>3. [job[w] EXCEPT !.pc = "commit", !.newest = Active] \in Job
      BY <3>1, <3>2 DEF Revise, Job
    <3> QED BY <2>2, <3>3 DEF NumberRevision
  <2>3. CASE CommitRevision(w)
    <3>1. job[w] \in Revise
      BY <2>3 DEF CommitRevision, At, Job, Grant, Revoke, Revise, Publish, Moving, Approve, Idle
    <3> QED BY <2>3, <3>1 DEF CommitRevision, AddRevision, Done, Revise, Revision, Job
  <2> QED BY <1>2, <2>1, <2>2, <2>3 DEF CriteriaStep
<1>3. ASSUME NEW w \in Workers, VersionStep(w) PROVE TypeOK'
  <2>m. ASSUME NEW op \in {"submit", "reject"}, NEW to \in Statuses, Move(w, op, to)
        PROVE  TypeOK'
    <3>1. job[w] \in Moving
      BY <2>m DEF Move, At, Job, Grant, Revoke, Revise, Publish, Moving, Approve, Idle
    <3>2. [version[job[w].v] EXCEPT !.status = to] \in Version
      BY <3>1 DEF Moving, Version
    <3> QED BY <2>m, <3>1, <3>2 DEF Move, Done, Job
  <2>n. ASSUME NEW op \in {"submit", "reject"}, NEW required, NEW from, BeginMove(w, op, required, from)
        PROVE  TypeOK'
    <3> PICK v \in Versions : Begin(w, [op |-> op, pc |-> "commit", v |-> v])
      BY <2>n DEF BeginMove
    <3> QED BY <1>b DEF Job, Moving
  <2>1. CASE BeginPublish(w)
    <3> PICK a \in Principals :
           Begin(w, [op |-> "publish", pc |-> "commit", actor |-> a, created |-> begun + 1])
      BY <2>1 DEF BeginPublish
    <3> QED BY <1>b DEF Job, Publish
  <2>2. CASE CommitPublish(w)
    <3>1. job[w] \in Publish
      BY <2>2 DEF CommitPublish, At, Job, Grant, Revoke, Revise, Publish, Moving, Approve, Idle
    <3>2. [Unpublished EXCEPT !.status = "draft", !.author = job[w].actor,
                              !.created = job[w].created] \in Version
      BY <3>1 DEF Publish, Unpublished, Version, Statuses
    <3> QED BY <2>2, <3>2 DEF CommitPublish, Done, Job
  <2>3. CASE BeginSubmit(w)
    BY <2>3, <2>n DEF BeginSubmit
  <2>4. CASE CommitSubmit(w)
    BY <2>4, <2>m DEF CommitSubmit, Statuses
  <2>5. CASE BeginReject(w)
    BY <2>5, <2>n DEF BeginReject
  <2>6. CASE CommitReject(w)
    BY <2>6, <2>m DEF CommitReject, Statuses
  <2>7. CASE BeginApprove(w)
    <3> PICK a \in Principals, v \in Versions : Begin(w, Approval(a, v))
      BY <2>7 DEF BeginApprove
    <3> QED BY <1>b DEF Job, Approve, Approval
  <2>8. CASE CheckAuthorship(w)
    <3>1. job[w] \in Approve
      BY <2>8 DEF CheckAuthorship, At, Job, Grant, Revoke, Revise, Publish, Moving, Approve, Idle
    <3>2. [job[w] EXCEPT !.pc = "evaluate", !.authorship = Active] \in Job
      BY <3>1, ActiveIsNewest DEF Approve, Job
    <3> QED BY <2>8, <3>2 DEF CheckAuthorship
  <2>9. CASE Evaluate(w)
    <3>1. job[w] \in Approve
      BY <2>9 DEF Evaluate, At, Job, Grant, Revoke, Revise, Publish, Moving, Approve, Idle
    <3>2. [job[w] EXCEPT !.pc = "commit", !.evaluated = Active] \in Job
      BY <3>1, ActiveIsNewest DEF Approve, Job
    <3> QED BY <2>9, <3>2 DEF Evaluate
  <2>10. CASE CommitApprove(w)
    <3>1. job[w] \in Approve
      BY <2>10 DEF CommitApprove, At, Job, Grant, Revoke, Revise, Publish, Moving, Approve, Idle
    <3>2. [version[job[w].v] EXCEPT !.status = "approved", !.approver = job[w].actor,
               !.evaluated = job[w].evaluated, !.authorship = job[w].authorship] \in Version
      <4>1. version[job[w].v] \in Version /\ job[w].actor \in Principals
        BY <3>1 DEF Approve
      <4>2. job[w].evaluated \in Nat /\ job[w].authorship \in Nat
        BY <3>1 DEF Approve
      <4>3. \A r \in Version : \A a \in Principals, m, k \in Nat :
               [r EXCEPT !.status = "approved", !.approver = a,
                         !.evaluated = m, !.authorship = k] \in Version
        BY DEF Version, Statuses
      <4> QED BY <4>1, <4>2, <4>3
    <3> QED BY <2>10, <3>1, <3>2 DEF CommitApprove, Done, Job
  <2> QED BY <1>3, <2>1, <2>2, <2>3, <2>4, <2>5, <2>6, <2>7, <2>8, <2>9, <2>10
          DEF VersionStep
<1>4. ASSUME NEW w \in Workers, Ends(w) PROVE TypeOK'
  BY <1>4 DEF Ends, Done, Job
<1> QED BY <1>0, <1>1, <1>2, <1>3, <1>4 DEF Next

-----------------------------------------------------------------------------
\* A new revision is numbered one past the newest, or refused; the others stay.
LEMMA NumberingStep ==
    ASSUME TypeOK, Numbering, Knowledge, [Next]_vars
    PROVE  /\ Numbering'
           /\ Newest \in Nat /\ Newest' \in Nat /\ Newest <= Newest'
           /\ \A q \in questions' \ questions : q.number = Newest + 1
<1>1. CASE UNCHANGED questions
  BY <1>1, ActiveIsNewest DEF Numbering, Newest
<1>2. ASSUME NEW w \in Workers, CommitRevision(w)
      PROVE  /\ Numbering'
             /\ Newest \in Nat /\ Newest' = Newest + 1
             /\ \A q \in questions' \ questions : q.number = Newest + 1
  <2> DEFINE n == job[w].newest
             new == [number |-> n + 1, author |-> job[w].actor, created |-> job[w].created]
  <2>1. n \in 0 .. Newest /\ questions' = questions \cup {new}
    BY <1>2 DEF CommitRevision, AddRevision, At, Knowledge, Knows
  <2>2. Newest \in Nat /\ {q.number : q \in questions} = 1 .. Newest
    BY ActiveIsNewest DEF Numbering
  <2>3. \A q \in questions : q.number # n + 1
    BY <1>2 DEF CommitRevision
  <2>4. n = Newest
    <3>1. n + 1 \notin 1 .. Newest
      BY <2>2, <2>3
    <3> QED BY <2>1, <2>2, <3>1
  <2>5. new \notin questions
    BY <2>3
  <2>6. IsFiniteSet(questions') /\ Newest' = Newest + 1
    BY <2>1, <2>5, FS_AddElement DEF Numbering, Newest
  <2>7. {q.number : q \in questions'} = 1 .. Newest'
    <3>1. {q.number : q \in questions'} = {q.number : q \in questions} \cup {n + 1}
      <4>1. new.number = n + 1
        OBVIOUS
      <4> HIDE DEF n, new
      <4> QED BY <2>1, <4>1, Zenon
    <3> QED BY <2>2, <2>4, <2>6, <3>1
  <2>8. \A q, r \in questions' : q.number = r.number => q = r
    BY <2>1, <2>3 DEF Numbering
  <2> QED BY <2>1, <2>2, <2>4, <2>6, <2>7, <2>8 DEF Numbering
<1>3. UNCHANGED questions \/ \E w \in Workers : CommitRevision(w)
  BY DEF Next, vars, RoleStep, CriteriaStep, VersionStep, Ends, Begin,
         BeginGrant, ReadGrant, CommitGrant, BeginRevoke, ListOwners, CommitRevoke,
         BeginRevise, NumberRevision, BeginPublish, CommitPublish, BeginMove, Move,
         BeginSubmit, CommitSubmit, BeginReject, CommitReject, BeginApprove,
         CheckAuthorship, Evaluate, CommitApprove
<1> QED BY <1>1, <1>2, <1>3

\* A published version keeps its author and its time, and stays published.
LEMMA VersionsStay ==
    ASSUME TypeOK, Knowledge, [Next]_vars, NEW v \in Versions, version[v].status # "none"
    PROVE  /\ version'[v].author = version[v].author
           /\ version'[v].created = version[v].created
           /\ version'[v].status # "none"
<1> USE DEF TypeOK
<1>1. CASE UNCHANGED version
  BY <1>1
<1>2. ASSUME NEW w \in Workers, CommitPublish(w) PROVE version'[v] = version[v]
  BY <1>2 DEF CommitPublish
<1>3. ASSUME NEW w \in Workers, NEW op \in {"submit", "reject"},
             NEW to \in {"in-review", "draft"}, Move(w, op, to)
      PROVE  version'[v] = version[v] \/ version'[v] = [version[v] EXCEPT !.status = to]
  BY <1>3 DEF Move
<1>4. ASSUME NEW w \in Workers, CommitApprove(w)
      PROVE  version'[v] = version[v] \/
             version'[v] = [version[v] EXCEPT !.status = "approved",
                               !.approver = job[w].actor, !.evaluated = job[w].evaluated,
                               !.authorship = job[w].authorship]
  BY <1>4 DEF CommitApprove
<1>5. \/ UNCHANGED version
      \/ \E w \in Workers : \/ CommitPublish(w) \/ CommitApprove(w)
                            \/ Move(w, "submit", "in-review") \/ Move(w, "reject", "draft")
  BY DEF Next, vars, RoleStep, CriteriaStep, VersionStep, Ends, Begin,
         BeginGrant, ReadGrant, CommitGrant, BeginRevoke, ListOwners, CommitRevoke,
         BeginRevise, NumberRevision, CommitRevision, BeginPublish, BeginMove,
         BeginSubmit, CommitSubmit, BeginReject, CommitReject, BeginApprove,
         CheckAuthorship, Evaluate
<1>6. version[v] \in Version
  OBVIOUS
<1> QED BY <1>1, <1>2, <1>3, <1>4, <1>5, <1>6 DEF Version

\* Who wrote a revision that exists does not change, nor when.
LEMMA AuthorshipStays ==
    ASSUME TypeOK, Numbering, Knowledge, [Next]_vars,
           NEW v \in Versions, version[v].status # "none", NEW n \in 0 .. Newest
    PROVE  SelfRevised(v, n)' => SelfRevised(v, n)
<1>1. /\ version'[v].author = version[v].author
      /\ version'[v].created = version[v].created
  BY VersionsStay
<1>2. \A q \in questions' : q.number = n => q \in questions
  BY NumberingStep
<1> QED BY <1>1, <1>2 DEF SelfRevised

\* What a request knows stays true while it does nothing.
LEMMA KnowledgeStays ==
    ASSUME TypeOK, Numbering, Knowledge, [Next]_vars, NEW w \in Workers,
           UNCHANGED job[w]
    PROVE  Knows(w)'
<1>1. Knows(w)
  BY DEF Knowledge
<1>2. Newest \in Nat /\ Newest' \in Nat /\ Newest <= Newest'
  BY NumberingStep
<1>3. job[w].op \in {"submit", "reject", "approve"} => job[w].v \in Versions
  BY DEF TypeOK, Job, Grant, Revoke, Revise, Publish, Moving, Approve, Idle
<1>4. (job[w].op = "revise" => job[w].newest \in 0 .. Newest)'
  BY <1>1, <1>2 DEF Knows
<1>5. (At(w, "revoke", "commit") /\ job[w].listed[job[w].target] = "owner" =>
          Cardinality(OwnersIn(job[w].listed)) > 1)'
  BY <1>1 DEF Knows, At, OwnersIn
<1>6. (job[w].op \in {"submit", "reject", "approve"} => version[job[w].v].status # "none")'
  BY <1>1, <1>3, VersionsStay DEF Knows
<1>7. (job[w].op = "approve" => (TwoPerson => job[w].actor # version[job[w].v].author))'
  BY <1>1, <1>3, VersionsStay DEF Knows
<1>8. (At(w, "approve", "evaluate") \/ At(w, "approve", "commit") =>
          /\ job[w].authorship \in 0 .. Newest
          /\ TwoPerson => ~SelfRevised(job[w].v, job[w].authorship))'
  <2> SUFFICES ASSUME At(w, "approve", "evaluate") \/ At(w, "approve", "commit")
               PROVE  /\ (job[w].authorship \in 0 .. Newest)'
                      /\ TwoPerson => ~SelfRevised(job[w].v, job[w].authorship)'
    BY DEF At
  <2>1. /\ job[w].authorship \in 0 .. Newest
        /\ TwoPerson => ~SelfRevised(job[w].v, job[w].authorship)
        /\ job[w].v \in Versions /\ version[job[w].v].status # "none"
    BY <1>1, <1>3 DEF Knows, At
  <2>2. SelfRevised(job[w].v, job[w].authorship)' => SelfRevised(job[w].v, job[w].authorship)
    <3>1. ASSUME NEW v \in Versions, version[v].status # "none", NEW n \in 0 .. Newest
          PROVE  SelfRevised(v, n)' => SelfRevised(v, n)
      BY <3>1, AuthorshipStays
    <3> QED BY <2>1, <3>1 DEF SelfRevised
  <2> QED BY <1>2, <2>1, <2>2
<1>9. (At(w, "approve", "commit") => job[w].evaluated \in job[w].authorship .. Newest)'
  <2>1. At(w, "approve", "commit") =>
           /\ job[w].evaluated \in job[w].authorship .. Newest
           /\ job[w].authorship \in 0 .. Newest
    BY <1>1 DEF Knows
  <2> QED BY <1>2, <2>1 DEF At
<1> QED BY <1>4, <1>5, <1>6, <1>7, <1>8, <1>9 DEF Knows

\* A request that is over knows nothing, and needs nothing.
LEMMA IdleKnows == ASSUME NEW w \in Workers, job'[w] = Idle PROVE Knows(w)'
BY DEF Knows, Idle, At

\* What a request has read, it knows.
LEMMA KnowledgeStep == TypeOK /\ Numbering /\ Knowledge /\ [Next]_vars => Knowledge'
<1> SUFFICES ASSUME TypeOK, Numbering, Knowledge, [Next]_vars PROVE Knowledge'
  OBVIOUS
<1>0. CASE UNCHANGED vars
  <2>1. \A w \in Workers : UNCHANGED job[w]
    BY <1>0 DEF vars
  <2> QED BY <2>1, KnowledgeStays DEF Knowledge
<1>u. ASSUME NEW w \in Workers, NEW j, job' = [job EXCEPT ![w] = j], Knows(w)'
      PROVE  Knowledge'
  <2>1. ASSUME NEW u \in Workers, u # w PROVE Knows(u)'
    <3>1. UNCHANGED job[u]
      BY <1>u, <2>1 DEF TypeOK
    <3> QED BY <3>1, KnowledgeStays
  <2> QED BY <1>u, <2>1 DEF Knowledge
<1>d. ASSUME NEW w \in Workers, Done(w) PROVE Knowledge'
  <2>1. job'[w] = Idle
    BY <1>d DEF Done, TypeOK
  <2> QED BY <1>d, <1>u, <2>1, IdleKnows DEF Done
<1>n. Newest \in Nat /\ Active = Newest
  BY ActiveIsNewest
<1>1. ASSUME NEW w \in Workers, RoleStep(w) PROVE Knowledge'
  <2>1. CASE BeginGrant(w)
    <3> PICK j : Begin(w, j) /\ j.op = "grant"
      BY <2>1 DEF BeginGrant
    <3>1. Knows(w)'
      BY DEF Begin, Knows, At, TypeOK
    <3> QED BY <1>u, <3>1 DEF Begin
  <2>2. CASE ReadGrant(w)
    <3> DEFINE j == [job[w] EXCEPT !.pc = "commit", !.found = role[job[w].target]]
    <3>1. job[w] \in Grant
      BY <2>2 DEF ReadGrant, At, TypeOK, Job, Grant, Revoke, Revise, Publish, Moving, Approve, Idle
    <3>2. j.op = "grant" /\ job' = [job EXCEPT ![w] = j]
      BY <2>2, <3>1 DEF ReadGrant, Grant
    <3>3. Knows(w)'
      BY <3>2 DEF Knows, At, TypeOK
    <3> QED BY <1>u, <3>2, <3>3
  <2>3. CASE CommitGrant(w)
    BY <2>3, <1>d DEF CommitGrant
  <2>4. CASE BeginRevoke(w)
    <3> PICK j : Begin(w, j) /\ j.op = "revoke" /\ j.pc = "list"
      BY <2>4 DEF BeginRevoke
    <3>1. Knows(w)'
      BY DEF Begin, Knows, At, TypeOK
    <3> QED BY <1>u, <3>1 DEF Begin
  <2>5. CASE ListOwners(w)
    <3> DEFINE j == [job[w] EXCEPT !.pc = "commit", !.listed = role]
    <3>1. job[w] \in Revoke
      BY <2>5 DEF ListOwners, At, TypeOK, Job, Grant, Revoke, Revise, Publish, Moving, Approve, Idle
    <3>2. /\ j.op = "revoke" /\ j.listed = role /\ j.target = job[w].target
          /\ job' = [job EXCEPT ![w] = j]
      BY <2>5, <3>1 DEF ListOwners, Revoke
    <3>3. role[j.target] = "owner" => Cardinality(OwnersIn(role)) > 1
      BY <2>5, <3>2 DEF ListOwners, Owners, OwnersIn
    <3>4. job'[w] = j
      BY <3>2 DEF TypeOK
    <3> HIDE DEF j
    <3>5. Knows(w)'
      BY <3>2, <3>3, <3>4 DEF Knows, At, OwnersIn
    <3> QED BY <1>u, <3>2, <3>5
  <2>6. CASE CommitRevoke(w)
    BY <2>6, <1>d DEF CommitRevoke
  <2> QED BY <1>1, <2>1, <2>2, <2>3, <2>4, <2>5, <2>6 DEF RoleStep
<1>2. ASSUME NEW w \in Workers, CriteriaStep(w) PROVE Knowledge'
  <2>1. CASE BeginRevise(w)
    <3> PICK j : Begin(w, j) /\ j.op = "revise" /\ j.newest = 0
      BY <2>1 DEF BeginRevise
    <3>1. Newest' \in Nat
      BY NumberingStep
    <3>2. Knows(w)'
      BY <3>1 DEF Begin, Knows, At, TypeOK
    <3> QED BY <1>u, <3>2 DEF Begin
  <2>2. CASE NumberRevision(w)
    <3> DEFINE j == [job[w] EXCEPT !.pc = "commit", !.newest = Active]
    <3>1. job[w] \in Revise
      BY <2>2 DEF NumberRevision, At, TypeOK, Job, Grant, Revoke, Revise, Publish, Moving, Approve, Idle
    <3>2. j.op = "revise" /\ j.newest = Newest /\ job' = [job EXCEPT ![w] = j]
      BY <2>2, <3>1, <1>n DEF NumberRevision, Revise
    <3>3. job'[w] = j
      BY <3>2 DEF TypeOK
    <3>4. Newest' = Newest
      BY <2>2 DEF NumberRevision, Newest
    <3> HIDE DEF j
    <3>5. Knows(w)'
      BY <1>n, <3>2, <3>3, <3>4 DEF Knows, At
    <3> QED BY <1>u, <3>2, <3>5
  <2>3. CASE CommitRevision(w)
    BY <2>3, <1>d DEF CommitRevision
  <2> QED BY <1>2, <2>1, <2>2, <2>3 DEF CriteriaStep
<1>3. ASSUME NEW w \in Workers, VersionStep(w) PROVE Knowledge'
  <2>1. CASE BeginPublish(w)
    <3> PICK j : Begin(w, j) /\ j.op = "publish"
      BY <2>1 DEF BeginPublish
    <3>1. Knows(w)'
      BY DEF Begin, Knows, At, TypeOK
    <3> QED BY <1>u, <3>1 DEF Begin
  <2>2. CASE CommitPublish(w)
    BY <2>2, <1>d DEF CommitPublish
  <2>3. ASSUME NEW op \in {"submit", "reject"}, NEW required, NEW from \in {"draft", "in-review"},
               BeginMove(w, op, required, from)
        PROVE  Knowledge'
    <3> PICK v \in Versions : /\ Begin(w, [op |-> op, pc |-> "commit", v |-> v])
                              /\ version[v].status # "none"
      BY <2>3 DEF BeginMove
    <3>1. Knows(w)'
      BY DEF Begin, Knows, At, TypeOK
    <3> QED BY <1>u, <3>1 DEF Begin
  <2>4. CASE CommitSubmit(w) \/ CommitReject(w)
    BY <2>4, <1>d DEF CommitSubmit, CommitReject, Move
  <2>5. CASE BeginApprove(w)
    <3> PICK a \in Principals, v \in Versions :
           /\ Begin(w, Approval(a, v)) /\ version[v].status # "none"
           /\ TwoPerson => a # version[v].author
      BY <2>5 DEF BeginApprove
    <3>1. Knows(w)'
      BY DEF Begin, Approval, Knows, At, TypeOK
    <3> QED BY <1>u, <3>1 DEF Begin
  <2>6. CASE CheckAuthorship(w)
    <3> DEFINE j == [job[w] EXCEPT !.pc = "evaluate", !.authorship = Active]
    <3>1. job[w] \in Approve
      BY <2>6 DEF CheckAuthorship, At, TypeOK, Job, Grant, Revoke, Revise, Publish, Moving, Approve, Idle
    <3>2. /\ j.op = "approve" /\ j.pc = "evaluate" /\ j.authorship = Newest
          /\ j.v = job[w].v /\ j.actor = job[w].actor /\ job' = [job EXCEPT ![w] = j]
      BY <2>6, <3>1, <1>n DEF CheckAuthorship, Approve
    <3>3. job'[w] = j
      BY <3>2 DEF TypeOK
    <3>4. Newest' = Newest /\ UNCHANGED <<version, questions>>
      BY <2>6 DEF CheckAuthorship, Newest
    <3>5. TwoPerson => ~SelfRevised(j.v, Newest)
      BY <2>6, <1>n, <3>2 DEF CheckAuthorship
    <3>6. /\ version[j.v].status # "none"
          /\ TwoPerson => j.actor # version[j.v].author
      BY <3>1, <3>2 DEF Knowledge, Knows, Approve
    <3> HIDE DEF j
    <3>7. Knows(w)'
      BY <1>n, <3>2, <3>3, <3>4, <3>5, <3>6 DEF Knows, At, SelfRevised
    <3> QED BY <1>u, <3>2, <3>7
  <2>7. CASE Evaluate(w)
    <3> DEFINE j == [job[w] EXCEPT !.pc = "commit", !.evaluated = Active]
    <3>1. job[w] \in Approve
      BY <2>7 DEF Evaluate, At, TypeOK, Job, Grant, Revoke, Revise, Publish, Moving, Approve, Idle
    <3>2. /\ j.op = "approve" /\ j.pc = "commit" /\ j.evaluated = Newest
          /\ j.v = job[w].v /\ j.actor = job[w].actor
          /\ j.authorship = job[w].authorship /\ job' = [job EXCEPT ![w] = j]
      BY <2>7, <3>1, <1>n DEF Evaluate, Approve
    <3>3. job'[w] = j
      BY <3>2 DEF TypeOK
    <3>4. Newest' = Newest /\ UNCHANGED <<version, questions>>
      BY <2>7 DEF Evaluate, Newest
    <3>5. /\ version[j.v].status # "none"
          /\ TwoPerson => j.actor # version[j.v].author
          /\ j.authorship \in 0 .. Newest
          /\ TwoPerson => ~SelfRevised(j.v, j.authorship)
      BY <2>7, <3>2 DEF Knowledge, Knows, Evaluate, At
    <3> HIDE DEF j
    <3>6. Knows(w)'
      BY <1>n, <3>2, <3>3, <3>4, <3>5 DEF Knows, At, SelfRevised
    <3> QED BY <1>u, <3>2, <3>6
  <2>8. CASE CommitApprove(w)
    BY <2>8, <1>d DEF CommitApprove
  <2> QED BY <1>3, <2>1, <2>2, <2>3, <2>4, <2>5, <2>6, <2>7, <2>8
          DEF VersionStep, BeginSubmit, BeginReject
<1>4. ASSUME NEW w \in Workers, Ends(w) PROVE Knowledge'
  BY <1>4, <1>d DEF Ends
<1> QED BY <1>0, <1>1, <1>2, <1>3, <1>4 DEF Next

-----------------------------------------------------------------------------
\* A version changes by being published or moved, and is then not approved, or
\* by being approved with what the request knows.
LEMMA VersionChanges ==
    ASSUME TypeOK, Knowledge, [Next]_vars, NEW v \in Versions
    PROVE  \/ version'[v] = version[v]
           \/ /\ version'[v].status # "approved"
              /\ version'[v].evaluated \in {0, version[v].evaluated}
           \/ \E w \in Workers :
                 /\ At(w, "approve", "commit") /\ job[w].v = v
                 /\ version'[v].approver = job[w].actor
                 /\ version'[v].evaluated = job[w].evaluated
                 /\ version'[v].authorship = job[w].authorship
<1> USE DEF TypeOK
<1>v. version[v] \in Version
  OBVIOUS
<1>1. CASE UNCHANGED version
  BY <1>1
<1>2. ASSUME NEW w \in Workers, CommitPublish(w)
      PROVE  \/ version'[v] = version[v]
             \/ version'[v].status # "approved" /\ version'[v].evaluated = 0
  <2> PICK u \in Versions :
         version' = [version EXCEPT ![u] =
                        [Unpublished EXCEPT !.status = "draft", !.author = job[w].actor,
                                            !.created = job[w].created]]
    BY <1>2 DEF CommitPublish
  <2> QED BY DEF Unpublished
<1>3. ASSUME NEW w \in Workers, NEW op, NEW to \in {"in-review", "draft"}, Move(w, op, to)
      PROVE  \/ version'[v] = version[v]
             \/ /\ version'[v].status # "approved"
                /\ version'[v].evaluated = version[v].evaluated
  BY <1>3, <1>v DEF Move, Version
<1>4. ASSUME NEW w \in Workers, CommitApprove(w), job[w].v = v
      PROVE  /\ At(w, "approve", "commit")
             /\ version'[v].approver = job[w].actor
             /\ version'[v].evaluated = job[w].evaluated
             /\ version'[v].authorship = job[w].authorship
  <2>1. version'[v] = [version[v] EXCEPT !.status = "approved",
                          !.approver = job[w].actor, !.evaluated = job[w].evaluated,
                          !.authorship = job[w].authorship]
    BY <1>4 DEF CommitApprove
  <2> QED BY <1>4, <1>v, <2>1 DEF Version, CommitApprove
<1>5. ASSUME NEW w \in Workers, CommitApprove(w), job[w].v # v
      PROVE  version'[v] = version[v]
  BY <1>5 DEF CommitApprove
<1>6. \/ UNCHANGED version
      \/ \E w \in Workers : \/ CommitPublish(w) \/ CommitApprove(w)
                            \/ Move(w, "submit", "in-review") \/ Move(w, "reject", "draft")
  BY DEF Next, vars, RoleStep, CriteriaStep, VersionStep, Ends, Begin,
         BeginGrant, ReadGrant, CommitGrant, BeginRevoke, ListOwners, CommitRevoke,
         BeginRevise, NumberRevision, CommitRevision, BeginPublish, BeginMove,
         BeginSubmit, CommitSubmit, BeginReject, CommitReject, BeginApprove,
         CheckAuthorship, Evaluate
<1> QED BY <1>1, <1>2, <1>3, <1>4, <1>5, <1>6

\* An approval is of a version that somebody else wrote, by criteria its author
\* did not write if they are those whose authorship was checked.
LEMMA DecisionStep ==
    IInv /\ [Next]_vars => (Audited /\ FourEyes /\ CriteriaIndependent)'
<1> SUFFICES ASSUME IInv, [Next]_vars
             PROVE  (Audited /\ FourEyes /\ CriteriaIndependent)'
  OBVIOUS
<1> USE DEF IInv
<1>n. /\ Newest \in Nat /\ Newest' \in Nat /\ Newest <= Newest'
      /\ \A q \in questions' \ questions : q.number = Newest + 1
  BY NumberingStep
<1> DEFINE Right(v) ==
       /\ version[v].evaluated \in 0 .. Newest
       /\ version[v].status = "approved" /\ TwoPerson =>
             /\ version[v].approver # version[v].author
             /\ SelfRevised(v, version[v].evaluated) =>
                   version[v].evaluated > version[v].authorship
<1>1. \A v \in Versions : Right(v)
  BY DEF Audited, FourEyes, CriteriaIndependent, Approved
<1>a. ASSUME NEW v \in Versions, version[v].status # "none", NEW n \in 0 .. Newest
      PROVE  SelfRevised(v, n)' => SelfRevised(v, n)
  BY <1>a, AuthorshipStays
<1>2. ASSUME NEW v \in Versions PROVE Right(v)'
  <2>1. CASE version'[v] = version[v]
    <3>1. version[v].status = "approved" =>
             (SelfRevised(v, version[v].evaluated)' => SelfRevised(v, version[v].evaluated))
      <4> SUFFICES ASSUME version[v].status = "approved"
                   PROVE  SelfRevised(v, version[v].evaluated)' =>
                             SelfRevised(v, version[v].evaluated)
        OBVIOUS
      <4> DEFINE n == version[v].evaluated
      <4>1. n \in 0 .. Newest
        BY <1>1
      <4>2. \A q \in questions' : q.number = n => q \in questions
        BY <1>n, <4>1
      <4> QED BY <2>1, <4>2 DEF SelfRevised
    <3> QED BY <1>1, <1>n, <2>1, <3>1
  <2>2. CASE /\ version'[v].status # "approved"
             /\ version'[v].evaluated \in {0, version[v].evaluated}
    BY <1>1, <1>n, <2>2
  <2>3. ASSUME NEW w \in Workers, At(w, "approve", "commit"), job[w].v = v,
               version'[v].approver = job[w].actor,
               version'[v].evaluated = job[w].evaluated,
               version'[v].authorship = job[w].authorship
        PROVE  Right(v)'
    <3> DEFINE j == job[w]
    <3>1. /\ version[v].status # "none"
          /\ TwoPerson => j.actor # version[v].author
          /\ j.authorship \in 0 .. Newest
          /\ TwoPerson => ~SelfRevised(v, j.authorship)
          /\ j.evaluated \in j.authorship .. Newest
      BY <2>3 DEF Knowledge, Knows, At
    <3>2. version'[v].author = version[v].author
      BY <3>1, VersionsStay
    <3>3. j.evaluated \in 0 .. Newest'
      BY <1>n, <3>1
    <3>4. TwoPerson /\ SelfRevised(v, version[v].evaluated)' => j.evaluated > j.authorship
      <4> SUFFICES ASSUME TwoPerson, SelfRevised(v, version[v].evaluated)',
                          j.evaluated = j.authorship
                   PROVE  FALSE
        BY <1>n, <3>1
      <4>1. PICK q \in questions' : /\ q.number = j.authorship
                                    /\ q.author = version'[v].author
                                    /\ q.created >= version'[v].created
        BY <2>3 DEF SelfRevised
      <4>2. q \in questions
        BY <1>n, <3>1, <4>1
      <4>3. version'[v].created = version[v].created
        BY <3>1, VersionsStay
      <4> QED BY <3>1, <3>2, <4>1, <4>2, <4>3 DEF SelfRevised
    <3> QED BY <2>3, <3>1, <3>2, <3>3, <3>4
  <2> QED BY <2>1, <2>2, <2>3, VersionChanges
<1> QED BY <1>2 DEF Audited, FourEyes, CriteriaIndependent, Approved

\* The invariant holds at first: nothing is published, nobody knows anything.
LEMMA IInvInit == Init => IInv
<1> SUFFICES ASSUME Init PROVE IInv
  OBVIOUS
<1>1. TypeOK
  BY TypeInit
<1>2. IsFiniteSet(questions) /\ Newest = 0
  BY FS_EmptySet DEF Init, Newest
<1>3. Numbering
  BY <1>2 DEF Init, Numbering
<1>4. Knowledge
  BY DEF Init, Knowledge, Knows, At, Idle
<1>5. Audited /\ FourEyes /\ CriteriaIndependent
  BY <1>2 DEF Init, Audited, FourEyes, CriteriaIndependent, Approved, Unpublished
<1> QED BY <1>1, <1>3, <1>4, <1>5 DEF IInv

\* And it always holds.
LEMMA Inductive == Spec => []IInv
<1>1. IInv /\ [Next]_vars => IInv'
  BY TypeStep, NumberingStep, KnowledgeStep, DecisionStep DEF IInv
<1> QED BY <1>1, IInvInit, PTL DEF Spec

-----------------------------------------------------------------------------
\* Types: the variables hold what they are said to, whatever was interleaved.
THEOREM GovernanceTypes == Spec => []TypeOK
<1>1. IInv => TypeOK
  BY DEF IInv
<1> QED BY <1>1, Inductive, PTL

\* Four eyes (ADR-0014): no approved version was approved by its publisher.
THEOREM FourEyesHold == Spec => []FourEyes
<1>1. IInv => FourEyes
  BY DEF IInv
<1> QED BY <1>1, Inductive, PTL

\* Criteria (ADR-0029): no version was approved by a revision its author wrote
\* after publishing it, but for one that came in after the check.
THEOREM CriteriaHold == Spec => []CriteriaIndependent
<1>1. IInv => CriteriaIndependent
  BY DEF IInv
<1> QED BY <1>1, Inductive, PTL

\* Revisions are numbered without a gap or a double, and the audit names one.
THEOREM RevisionsAreNumbered == Spec => []RevisionsNumbered
<1>1. IInv => RevisionsNumbered
  <2>1. \A n : n \in 0 .. Newest /\ Newest \in Nat => n <= Newest
    OBVIOUS
  <2> QED BY <2>1, ActiveIsNewest
          DEF IInv, RevisionsNumbered, Numbering, Newest, Audited, Approved
<1> QED BY <1>1, Inductive, PTL

\* Revoking an assignment that nobody changed since the owners were counted
\* leaves an owner.
THEOREM LastOwnerHolds == Spec => LastOwnerStays
<1>1. ASSUME IInv, NEW w \in Workers, CommitRevoke(w), job[w].listed = role, Owners # {}
      PROVE  Owners' # {}
  <2> DEFINE p == job[w].target
  <2>1. role \in [Principals -> Roles \cup {"none"}]
    BY <1>1 DEF IInv, TypeOK
  <2>2. role' = [role EXCEPT ![p] = "none"]
    BY <1>1 DEF CommitRevoke
  <2>3. \A q \in Owners \ {p} : q \in Owners'
    BY <2>1, <2>2 DEF Owners
  <2>4. CASE p \notin Owners
    BY <1>1, <2>3, <2>4
  <2>5. CASE p \in Owners
    <3>1. At(w, "revoke", "commit") /\ job[w].listed[p] = "owner"
      BY <1>1, <2>5 DEF CommitRevoke, Owners
    <3>2. Cardinality(OwnersIn(job[w].listed)) > 1
      BY <1>1, <3>1 DEF IInv, Knowledge, Knows
    <3>3. Cardinality(Owners) > 1
      BY <1>1, <3>2 DEF OwnersIn, Owners
    <3>4. Owners # {p}
      BY <3>3, FS_Singleton
    <3>5. PICK q \in Owners : q # p
      BY <2>5, <3>4
    <3> QED BY <2>3, <3>5
  <2> QED BY <2>4, <2>5
<1>2. IInv /\ [Next]_vars =>
        [\A w \in Workers : CommitRevoke(w) /\ job[w].listed = role /\ Owners # {}
            => Owners' # {}]_vars
  BY <1>1
<1> QED BY <1>2, Inductive, PTL DEF LastOwnerStays, Spec
=============================================================================
