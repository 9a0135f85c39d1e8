----------------------------- MODULE Governance -----------------------------
(***************************************************************************)
(* Who may decide about the versions of one namespace, and by which        *)
(* acceptance criteria: its role assignments, the revisions of its set of  *)
(* competency questions, and the versions as far as they are decided on.   *)
(* Nothing here takes a lock: a request reads in one step and writes,      *)
(* committing, in a later one.                                             *)
(*                                                                         *)
(* What an approval does to the version before it and to the store is in   *)
(* Projection.tla, retirement in both others.  SHACL, deprecation and the  *)
(* evaluation of the questions pass, or the request ends (Ends).           *)
(***************************************************************************)
EXTENDS Naturals, FiniteSets

CONSTANTS Workers,        \* API requests in flight at the same time
          Principals,     \* object ids of users and service principals
          Admins,         \* those whose token says platform-admin
          Versions,       \* versions that can be published
          TwoPerson,      \* require_two_person_approval
          InitialRoles,   \* role assignments the namespace may start from
          Nobody,         \* no principal
          MaxRequests     \* bound: requests served

VARIABLES role,       \* the role each principal is assigned, or "none"
          version,    \* the version rows
          questions,  \* the rows of the question set's revisions
          job,        \* what each request is doing
          begun       \* requests begun: the time at which transactions start

vars == <<role, version, questions, job, begun>>

-----------------------------------------------------------------------------
Roles == {"data-analyst", "data-steward", "maintainer", "owner"}
Statuses == {"none", "draft", "in-review", "approved"}

ASSUME Constants ==
    /\ Admins \subseteq Principals /\ Nobody \notin Principals
    /\ TwoPerson \in BOOLEAN /\ Versions \subseteq Nat /\ MaxRequests \in Nat
    /\ InitialRoles \subseteq [Principals -> Roles \cup {"none"}]

\* created_at is the time at which the transaction began.  `evaluated` is the
\* revision that the audit says the approval was evaluated by, 0 for none;
\* `authorship` is history: the active revision when its author was checked.
Version == [status : Statuses, author : Principals \cup {Nobody}, created : Nat,
            approver : Principals \cup {Nobody}, evaluated : Nat, authorship : Nat]
Unpublished == [status |-> "none", author |-> Nobody, created |-> 0,
                approver |-> Nobody, evaluated |-> 0, authorship |-> 0]
Revision == [number : Nat \ {0}, author : Principals, created : Nat]

\* What a request has read so far; `listed` also serves LastOwnerStays.
Grant   == [op : {"grant"}, pc : {"read", "commit"}, target : Principals,
            asked : Roles, found : Roles \cup {"none"}]
Revoke  == [op : {"revoke"}, pc : {"list", "commit"}, target : Principals,
            listed : [Principals -> Roles \cup {"none"}]]
Revise  == [op : {"revise"}, pc : {"number", "commit"}, actor : Principals,
            created : Nat, newest : Nat]
Publish == [op : {"publish"}, pc : {"commit"}, actor : Principals, created : Nat]
Moving  == [op : {"submit", "reject"}, pc : {"commit"}, v : Versions]
Approve == [op : {"approve"}, pc : {"authorship", "evaluate", "commit"},
            v : Versions, actor : Principals, authorship : Nat, evaluated : Nat]
Idle == [op |-> "none", pc |-> "idle"]
Job == Grant \cup Revoke \cup Revise \cup Publish \cup Moving \cup Approve \cup {Idle}

\* NamespaceRole.rank, and none below all of them.
Rank(r) == CASE r = "none"         -> 0
             [] r = "data-analyst" -> 1
             [] r = "data-steward" -> 2
             [] r = "maintainer"   -> 3
             [] r = "owner"        -> 4

\* platform-admin counts as owner of every namespace.
Effective(p) == IF p \in Admins THEN "owner" ELSE role[p]
Permitted(p, required) == Rank(Effective(p)) >= Rank(required)

Owners == {p \in Principals : role[p] = "owner"}

\* The active revision is the greatest; 0 when there is none.
Active == IF questions = {} THEN 0
          ELSE CHOOSE n \in {q.number : q \in questions} :
                   \A q \in questions : q.number <= n

\* The author of v wrote this revision of the criteria after publishing v.
SelfRevised(v, number) ==
    \E q \in questions : /\ q.number = number
                         /\ q.author = version[v].author
                         /\ q.created >= version[v].created

-----------------------------------------------------------------------------
Busy(w) == job[w] # Idle
At(w, op, p) == job[w].op = op /\ job[w].pc = p
Done(w) == job' = [job EXCEPT ![w] = Idle]

Init == /\ role \in InitialRoles
        /\ version = [v \in Versions |-> Unpublished]
        /\ questions = {}
        /\ job = [w \in Workers |-> Idle]
        /\ begun = 0

Begin(w, j) == /\ ~Busy(w)
               /\ begun < MaxRequests
               /\ begun' = begun + 1
               /\ job' = [job EXCEPT ![w] = j]
               /\ UNCHANGED <<role, version, questions>>

\* A request ends without having committed: refused, failed or crashed.
Ends(w) == /\ Busy(w)
           /\ Done(w)
           /\ UNCHANGED <<role, version, questions, begun>>

-----------------------------------------------------------------------------
(* Roles.                                                                  *)

BeginGrant(w) ==
    \E a, p \in Principals, r \in Roles :
        /\ Permitted(a, "owner")
        /\ Begin(w, [op |-> "grant", pc |-> "read", target |-> p, asked |-> r,
                     found |-> "none"])

ReadGrant(w) ==
    /\ At(w, "grant", "read")
    /\ job' = [job EXCEPT ![w].pc = "commit", ![w].found = role[job[w].target]]
    /\ UNCHANGED <<role, version, questions, begun>>

\* Inserting a row that has come to be, and updating one that has gone, fail.
\* A role equal to the one read is not in the UPDATE.
CommitGrant(w) ==
    LET j == job[w] IN
    /\ At(w, "grant", "commit")
    /\ (j.found = "none") <=> (role[j.target] = "none")
    /\ role' = IF j.asked = j.found THEN role ELSE [role EXCEPT ![j.target] = j.asked]
    /\ Done(w)
    /\ UNCHANGED <<version, questions, begun>>

BeginRevoke(w) ==
    \E a, p \in Principals :
        /\ Permitted(a, "owner")
        /\ Begin(w, [op |-> "revoke", pc |-> "list", target |-> p, listed |-> role])

\* Mutant: all assignments are counted, not those of owners.
ListAnyone(w) ==
    LET p == job[w].target IN
    /\ At(w, "revoke", "list")
    /\ role[p] # "none"
    /\ role[p] = "owner" => Cardinality({q \in Principals : role[q] # "none"}) > 1
    /\ job' = [job EXCEPT ![w].pc = "commit", ![w].listed = role]
    /\ UNCHANGED <<role, version, questions, begun>>

\* The last owner is not revoked: the count is of the assignments just listed.
ListOwners(w) ==
    LET p == job[w].target IN
    /\ At(w, "revoke", "list")
    /\ role[p] # "none"
    /\ role[p] = "owner" => Cardinality(Owners) > 1
    /\ job' = [job EXCEPT ![w].pc = "commit", ![w].listed = role]
    /\ UNCHANGED <<role, version, questions, begun>>

\* Mutant: the assignment is marked and stays.
MarkRevoked(w) ==
    /\ At(w, "revoke", "commit")
    /\ role' = [role EXCEPT ![job[w].target] = "revoked"]
    /\ Done(w)
    /\ UNCHANGED <<version, questions, begun>>

\* Whatever role the row holds by now, it is deleted.
CommitRevoke(w) ==
    /\ At(w, "revoke", "commit")
    /\ role' = [role EXCEPT ![job[w].target] = "none"]
    /\ Done(w)
    /\ UNCHANGED <<version, questions, begun>>

-----------------------------------------------------------------------------
(* Acceptance criteria.                                                    *)

BeginRevise(w) ==
    \E a \in Principals :
        /\ Permitted(a, "owner")
        /\ Begin(w, [op |-> "revise", pc |-> "number", actor |-> a,
                     created |-> begun + 1, newest |-> 0])

NumberRevision(w) ==
    /\ At(w, "revise", "number")
    /\ job' = [job EXCEPT ![w].pc = "commit", ![w].newest = Active]
    /\ UNCHANGED <<role, version, questions, begun>>

AddRevision(w) ==
    questions' = questions \cup {[number |-> job[w].newest + 1, author |-> job[w].actor,
                                  created |-> job[w].created]}

\* Mutant: no unique constraint.
CommitAnyRevision(w) ==
    /\ At(w, "revise", "commit")
    /\ AddRevision(w)
    /\ Done(w)
    /\ UNCHANGED <<role, version, begun>>

\* The unique constraint on the number refuses the later of two.
CommitRevision(w) ==
    /\ At(w, "revise", "commit")
    /\ \A q \in questions : q.number # job[w].newest + 1
    /\ AddRevision(w)
    /\ Done(w)
    /\ UNCHANGED <<role, version, begun>>

-----------------------------------------------------------------------------
(* Versions.                                                               *)

BeginPublish(w) ==
    \E a \in Principals :
        /\ Permitted(a, "data-steward")
        /\ Begin(w, [op |-> "publish", pc |-> "commit", actor |-> a,
                     created |-> begun + 1])

\* Under the namespace row lock of Publication.tla: labels are given in order.
CommitPublish(w) ==
    /\ At(w, "publish", "commit")
    /\ \E v \in Versions :
          /\ version[v].status = "none"
          /\ \A u \in Versions : u < v => version[u].status # "none"
          /\ version' = [version EXCEPT ![v] =
                            [Unpublished EXCEPT !.status = "draft", !.author = job[w].actor,
                                                !.created = job[w].created]]
    /\ Done(w)
    /\ UNCHANGED <<role, questions, begun>>

BeginMove(w, op, required, from) ==
    \E a \in Principals, v \in Versions :
        /\ Permitted(a, required)
        /\ version[v].status = from
        /\ Begin(w, [op |-> op, pc |-> "commit", v |-> v])

BeginSubmit(w) == BeginMove(w, "submit", "data-steward", "draft")
BeginReject(w) == BeginMove(w, "reject", "maintainer", "in-review")

Move(w, op, to) ==
    /\ At(w, op, "commit")
    /\ version' = [version EXCEPT ![job[w].v].status = to]
    /\ Done(w)
    /\ UNCHANGED <<role, questions, begun>>

CommitSubmit(w) == Move(w, "submit", "in-review")
CommitReject(w) == Move(w, "reject", "draft")

Approval(a, v) == [op |-> "approve", pc |-> "authorship", v |-> v, actor |-> a,
                   authorship |-> 0, evaluated |-> 0]

\* Mutant: platform-admin is above the four-eyes rule as it is above the roles.
BeginApproveAdmin(w) ==
    \E a \in Principals, v \in Versions :
        /\ Permitted(a, "maintainer")
        /\ version[v].status = "in-review"
        /\ TwoPerson /\ a \notin Admins => a # version[v].author
        /\ Begin(w, Approval(a, v))

\* Role, state and four eyes.
BeginApprove(w) ==
    \E a \in Principals, v \in Versions :
        /\ Permitted(a, "maintainer")
        /\ version[v].status = "in-review"
        /\ TwoPerson => a # version[v].author
        /\ Begin(w, Approval(a, v))

\* Mutant: it is the approver who must not have written the criteria.
CheckApprover(w) ==
    /\ At(w, "approve", "authorship")
    /\ TwoPerson => ~\E q \in questions : q.number = Active /\ q.author = job[w].actor
    /\ job' = [job EXCEPT ![w].pc = "evaluate", ![w].authorship = Active]
    /\ UNCHANGED <<role, version, questions, begun>>

\* check_criteria_authorship: of the revision that is active now.
CheckAuthorship(w) ==
    /\ At(w, "approve", "authorship")
    /\ TwoPerson => ~SelfRevised(job[w].v, Active)
    /\ job' = [job EXCEPT ![w].pc = "evaluate", ![w].authorship = Active]
    /\ UNCHANGED <<role, version, questions, begun>>

\* evaluate_competency_questions: by the revision that is active now.
Evaluate(w) ==
    /\ At(w, "approve", "evaluate")
    /\ job' = [job EXCEPT ![w].pc = "commit", ![w].evaluated = Active]
    /\ UNCHANGED <<role, version, questions, begun>>

CommitApprove(w) ==
    LET j == job[w] IN
    /\ At(w, "approve", "commit")
    /\ version' = [version EXCEPT ![j.v] =
                      [@ EXCEPT !.status = "approved", !.approver = j.actor,
                                !.evaluated = j.evaluated, !.authorship = j.authorship]]
    /\ Done(w)
    /\ UNCHANGED <<role, questions, begun>>

-----------------------------------------------------------------------------
RoleStep(w) == \/ BeginGrant(w) \/ ReadGrant(w) \/ CommitGrant(w)
               \/ BeginRevoke(w) \/ ListOwners(w) \/ CommitRevoke(w)
CriteriaStep(w) == BeginRevise(w) \/ NumberRevision(w) \/ CommitRevision(w)
VersionStep(w) == \/ BeginPublish(w) \/ CommitPublish(w)
                  \/ BeginSubmit(w) \/ CommitSubmit(w)
                  \/ BeginReject(w) \/ CommitReject(w)
                  \/ BeginApprove(w) \/ CheckAuthorship(w) \/ Evaluate(w)
                  \/ CommitApprove(w)

Next == \E w \in Workers : \/ RoleStep(w) \/ CriteriaStep(w) \/ VersionStep(w)
                           \/ Ends(w)

Spec == Init /\ [][Next]_vars

-----------------------------------------------------------------------------
(* Correctness.                                                            *)

\* The variables hold values of their types.
TypeOK ==
    /\ role \in [Principals -> Roles \cup {"none"}]
    /\ version \in [Versions -> Version]
    /\ questions \subseteq Revision
    /\ job \in [Workers -> Job]
    /\ begun \in Nat

Approved == {v \in Versions : version[v].status = "approved"}

\* ADR-0014: where two persons are required, whoever published a version has
\* not approved it, platform-admin included, whatever was granted, rejected
\* and submitted again in between.
FourEyes ==
    TwoPerson => \A v \in Approved : version[v].approver # version[v].author

\* ADR-0029: a version was not approved by criteria its author had written
\* after publishing it, unless that revision came in after this very approval
\* had checked the authorship of the one before.
CriteriaIndependent ==
    TwoPerson => \A v \in Approved :
        SelfRevised(v, version[v].evaluated) =>
            version[v].evaluated > version[v].authorship

\* ADR-0029 without that exception.  It fails: approve reads the active
\* revision twice.
CriteriaNeverSelfRevised ==
    TwoPerson => \A v \in Approved : ~SelfRevised(v, version[v].evaluated)

\* The revisions are numbered 1, 2, ... without a gap, one row for each: the
\* number in the audit of an approval says which criteria it was.
RevisionsNumbered ==
    /\ \A q, r \in questions : q.number = r.number => q = r
    /\ {q.number : q \in questions} = 1 .. Cardinality(questions)
    /\ \A v \in Approved : version[v].evaluated <= Cardinality(questions)

\* routers/namespaces.py: revoking does not leave a namespace without an owner,
\* unless other requests changed the assignments after they were listed.
LastOwnerStays ==
    [][\A w \in Workers : CommitRevoke(w) /\ job[w].listed = role /\ Owners # {}
          => Owners' # {}]_vars

\* The same without that exception.  It fails: two owners revoke each other.
OwnerStays ==
    [][\A w \in Workers : CommitRevoke(w) /\ Owners # {} => Owners' # {}]_vars
=============================================================================
