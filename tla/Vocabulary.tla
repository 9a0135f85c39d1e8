----------------------------- MODULE Vocabulary -----------------------------
(***************************************************************************)
(* What the components that read a published vocabulary share: namespaces  *)
(* with their approved versions, the default graph that lags behind them,  *)
(* the audit trail, and requests in flight.  Approval and projection are   *)
(* those of Projection.tla, seen from outside: the current version only    *)
(* grows, and what is served is a version that was current.                *)
(*                                                                         *)
(* A version is a function from the terms that are subjects in it: whether *)
(* each is deprecated, its successors, whether a reason is given, and      *)
(* whether it is typed as a class or a property.  Two approvals may        *)
(* overlap; that both versions may then be approved is Projection's.       *)
(* Each request and each event outside is one of a kind, and a behaviour   *)
(* has a quota of each kind.                                               *)
(***************************************************************************)
EXTENDS Naturals, Sequences, FiniteSets

CONSTANTS Namespaces,
          TermOrder,   \* all terms, in the order of their code points
          Under,       \* the terms whose IRI begins with each namespace's base_iri
          BaseLength,  \* the length of each base_iri
          Content,     \* versions of each namespace, in order of approval
          Workers,     \* requests that may be in flight together
          Kinds,       \* kinds of requests and outside events
          Quotas,      \* bound: how many of each kind a behaviour may have
          Overlap,     \* bound: how many approvals may be in flight together
          None

VARIABLES current,   \* the approved version of each namespace, 0 for none
          served,    \* the version in its default graph, 0 for none
          retired,   \* retired namespaces
          audit,     \* audit_events: a function from ids to committed rows
          lastAudit, \* the last id given to an audit row
          request,   \* the request of each worker, in flight or answered
          quota,     \* what is left of each kind
          asked      \* requests begun, the clock of the model

vocabulary == <<current, served, retired>>
trail == <<audit, lastAudit>>
requests == <<request, quota, asked>>

-----------------------------------------------------------------------------
Terms == {TermOrder[i] : i \in DOMAIN TermOrder}

\* The elements of s at the places P, in the order of s.
Chosen(s, P) == [k \in 1 .. Cardinality(P) |->
                    s[CHOOSE i \in P : Cardinality({j \in P : j < i}) = k - 1]]

\* sorted(), of a set of terms.
Sorted(S) == Chosen(TermOrder, {i \in DOMAIN TermOrder : TermOrder[i] \in S})

ASSUME Vocabularies ==
    /\ TermOrder \in Seq(Terms) /\ IsFiniteSet(Namespaces)
    /\ \A i, j \in DOMAIN TermOrder : TermOrder[i] = TermOrder[j] => i = j
    /\ Under \in [Namespaces -> SUBSET Terms]
    /\ BaseLength \in [Namespaces -> Nat]
    /\ \A n \in Namespaces :
          /\ Len(Content[n]) \in Nat /\ DOMAIN Content[n] = 1 .. Len(Content[n])
          /\ \A v \in DOMAIN Content[n] : DOMAIN Content[n][v] \subseteq Terms
    /\ \A q \in Quotas : q \in [Kinds -> Nat]
    /\ Overlap \in Nat \ {0}
    /\ None \notin Namespaces \cup Terms /\ \A S \in SUBSET Terms : None # S

\* _owning_namespace: of the namespaces whose base_iri is a prefix, the longest.
OwningNamespace(t) ==
    LET owners == {n \in Namespaces : t \in Under[n]}
    IN  IF owners = {} THEN None
        ELSE CHOOSE n \in owners : \A m \in owners : BaseLength[m] <= BaseLength[n]

\* _current_approved: the number of the version, or 0.
CurrentApproved(n) == current[n]

Active == [status |-> "active", successor |-> None]
Absent == [status |-> "absent", successor |-> None]
Unknown == [status |-> "unknown", successor |-> None]

\* term_lifecycle, of one term in one version.
Lifecycle(content, t) ==
    IF t \notin DOMAIN content THEN Absent
    ELSE IF ~content[t].deprecated THEN Active
    ELSE [status    |-> "deprecated",
          successor |-> IF content[t].successors = {} THEN None
                        ELSE Head(Sorted(content[t].successors))]

DeprecatedIn(content) == {t \in DOMAIN content : content[t].deprecated}

\* check_deprecation, the two kinds of problems that block: terms of the base
\* that are gone, and deprecated terms with neither a successor nor a reason.
Removed(content, base) == DOMAIN base \ DOMAIN content
Unexplained(content) ==
    {t \in DeprecatedIn(content) : content[t].successors = {} /\ ~content[t].reason}

\* check_deprecation_lifecycle: with no approved version there is no base.
Blocked(n, base, v) == \/ Unexplained(Content[n][v]) # {}
                       \/ base # 0 /\ Removed(Content[n][v], Content[n][base]) # {}

-----------------------------------------------------------------------------
Idle == [kind |-> "idle", pc |-> "idle"]

\* The answer of an ended request is kept until the worker begins another.
Free(w) == request[w].pc \in {"idle", "answered"}

VocabularyInit ==
    /\ \E start \in [Namespaces -> {0, 1}] :
          /\ \A n \in Namespaces : start[n] <= Len(Content[n])
          /\ current = start /\ served = start
    /\ retired = {}
    /\ audit = <<>> /\ lastAudit = 0
    /\ request = [w \in Workers |-> Idle]
    /\ quota \in Quotas
    /\ asked = 0

Spend(kind) == quota[kind] > 0 /\ quota' = [quota EXCEPT ![kind] = @ - 1]

\* Worker w begins request r, a record with at least its kind and pc.
Ask(w, r) ==
    /\ Free(w) /\ Spend(r.kind)
    /\ request' = [request EXCEPT ![w] = r]
    /\ asked' = asked + 1

Goes(w, r) == request' = [request EXCEPT ![w] = r] /\ UNCHANGED <<quota, asked>>
Answers(w, r) == Goes(w, [r EXCEPT !.pc = "answered"])
Refused(w) == Goes(w, Idle)

\* audit.record flushes the row of w, so that it has an id; it is committed
\* with the transaction of w.
Audited == lastAudit' = lastAudit + 1
AuditRow(r, id) == [i \in DOMAIN audit \cup {id} |->
                      IF i = id THEN [ns |-> r.ns, action |-> r.kind] ELSE audit[i]]
AuditOf(n) == {i \in DOMAIN audit : audit[i].ns = n}

-----------------------------------------------------------------------------
\* Outside: publishing, approving and projecting, retiring and reviving.
\* The base of the check was read when the approval began, and others may
\* have been committed since.
Approve(n) ==
    /\ Spend("approve") /\ n \notin retired /\ current[n] < Len(Content[n])
    /\ \E base \in 0 .. current[n] :
          current[n] < base + Overlap /\ ~Blocked(n, base, current[n] + 1)
    /\ current' = [current EXCEPT ![n] = @ + 1]
    /\ UNCHANGED <<served, retired, trail, request, asked>>

Project(n) ==
    /\ Spend("project") /\ n \notin retired /\ served[n] # current[n]
    /\ served' = [served EXCEPT ![n] = current[n]]
    /\ UNCHANGED <<current, retired, trail, request, asked>>

\* The deletion of the dataset follows the commit, and may fail.
Retire(n) ==
    /\ Spend("retire") /\ n \notin retired
    /\ retired' = retired \cup {n}
    /\ served' \in {served, [served EXCEPT ![n] = 0]}
    /\ UNCHANGED <<current, trail, request, asked>>

Revive(n) ==
    /\ Spend("revive") /\ n \in retired
    /\ retired' = retired \ {n}
    /\ served' \in {served, [served EXCEPT ![n] = current[n]]}
    /\ UNCHANGED <<current, trail, request, asked>>

\* A worker dies, or its client goes away: the transaction is rolled back.
CrashRequest(w) ==
    /\ ~Free(w) /\ Spend("crash")
    /\ request' = [request EXCEPT ![w] = Idle]
    /\ UNCHANGED <<vocabulary, trail, asked>>

VocabularyNext == \/ \E n \in Namespaces : Approve(n) \/ Project(n) \/ Retire(n) \/ Revive(n)
                  \/ \E w \in Workers : CrashRequest(w)

-----------------------------------------------------------------------------
VocabularyTypes ==
    /\ current \in [Namespaces -> Nat]
    /\ \A n \in Namespaces : current[n] <= Len(Content[n])
    /\ served \in [Namespaces -> Nat]
    /\ retired \subseteq Namespaces
    /\ lastAudit \in Nat /\ DOMAIN audit \subseteq 1 .. lastAudit
    /\ DOMAIN request = Workers
    /\ quota \in [Kinds -> Nat]
    /\ asked \in Nat
=============================================================================
