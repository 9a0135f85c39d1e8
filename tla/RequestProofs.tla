---------------------------- MODULE RequestProofs ----------------------------
(***************************************************************************)
(* What the proofs about Reading's components share.  Most steps touch no  *)
(* table that a safety invariant is about: they are Quiet.  The others are *)
(* grouped by the tables they write (LoudAccess, LoudSources and so on),   *)
(* and each proof looks at the groups that write the tables it is about.   *)
(*                                                                         *)
(* Then the two logs: the audit trail only grows, the counts of terms are  *)
(* those of the access log, its writers never wait for each other in a     *)
(* circle, and its readers, page after page, miss nothing.                 *)
(***************************************************************************)
EXTENDS Reading, FiniteSetTheorems, SequenceTheorems, WellFoundedInduction, TLAPS

LEMMA LeastOf ==
    ASSUME NEW S \in SUBSET Nat, S # {}
    PROVE  \E n \in S : \A m \in S : n <= m
<1> DEFINE T == {0 .. n : n \in S}
<1>1. ASSUME NEW n \in S PROVE IsFiniteSet(0 .. n) /\ 0 .. n \subseteq Nat
  BY FS_Interval
<1>2. T \subseteq FiniteSubsetsOf(Nat) /\ T # {}
  BY <1>1 DEF FiniteSubsetsOf
<1>3. PICK x \in T : \A y \in T : <<y, x>> \notin StrictSubsetOrdering(Nat)
  <2> HIDE DEF T
  <2>1. QED
    BY <1>2, WFMin, FS_StrictSubsetOrderingWellFounded
<1>4. PICK n \in S : x = 0 .. n
  BY <1>3
<1>5. ASSUME NEW m \in S, m < n PROVE FALSE
  <2>1. 0 .. m \in T /\ 0 .. m \in SUBSET Nat /\ 0 .. n \in SUBSET Nat
    OBVIOUS
  <2>2. 0 .. m \subseteq 0 .. n /\ 0 .. m # 0 .. n
    <3>1. n \in 0 .. n /\ n \notin 0 .. m
      BY <1>5
    <3>2. QED
      BY <1>5, <3>1
  <2>3. <<0 .. m, 0 .. n>> \in StrictSubsetOrdering(Nat)
    BY <2>1, <2>2 DEF StrictSubsetOrdering
  <2>4. QED
    BY <1>3, <1>4, <2>1, <2>3
<1>6. QED
  BY <1>5

LEMMA GreatestOf ==
    ASSUME NEW S \in SUBSET Nat, S # {}, NEW b \in Nat, \A s \in S : s <= b
    PROVE  \E n \in S : \A m \in S : m <= n
<1> DEFINE T == {b - s : s \in S}
<1>1. \A s \in S : b - s \in Nat /\ b - s \in T
  OBVIOUS
<1>2. T \in SUBSET Nat /\ T # {}
  BY <1>1
<1>3. PICK k \in T : \A m \in T : k <= m
  <2> HIDE DEF T
  <2>1. QED
    BY <1>2, LeastOf
<1>4. PICK n \in S : k = b - n
  BY <1>3
<1>5. \A m \in S : m \in Nat /\ n \in Nat /\ b - n <= b - m
  BY <1>1, <1>3, <1>4
<1>6. \A m \in S : m <= n
  BY <1>5
<1>7. QED
  BY <1>6

\* How many elements of S come before t.
Rank(S, R, t) == Cardinality({u \in S : <<u, t>> \in R})
Orders(R, S) == /\ \A t \in S : <<t, t>> \notin R
                /\ \A t, u, v \in S : <<t, u>> \in R /\ <<u, v>> \in R => <<t, v>> \in R
                /\ \A t, u \in S : t = u \/ <<t, u>> \in R \/ <<u, t>> \in R

LEMMA RankBelow ==
    ASSUME NEW S, IsFiniteSet(S), NEW R, Orders(R, S), NEW t \in S, NEW u \in S, <<t, u>> \in R
    PROVE  Rank(S, R, t) < Rank(S, R, u)
<1> DEFINE T == {v \in S : <<v, t>> \in R}
           U == {v \in S : <<v, u>> \in R}
<1>1. T \in SUBSET U /\ t \in U /\ t \notin T
  BY DEF Orders
<1>2. IsFiniteSet(U)
  BY FS_Subset
<1>3. Cardinality(T) \in Nat /\ Cardinality(U) \in Nat
  BY <1>1, <1>2, FS_Subset, FS_CardinalityType
<1>4. Cardinality(T) <= Cardinality(U) /\ Cardinality(T) # Cardinality(U)
  <2> HIDE DEF T, U
  <2>1. QED
    BY <1>1, <1>2, FS_Subset
<1>5. QED
  BY <1>3, <1>4 DEF Rank

\* The ranks are those from 0 up, each that of one element, and ordered as R.
Ranked(S, R) ==
    /\ Cardinality(S) \in Nat
    /\ \A t \in S : Rank(S, R, t) \in 0 .. Cardinality(S) - 1
    /\ \A t, u \in S : Rank(S, R, t) < Rank(S, R, u) => <<t, u>> \in R
    /\ \A t, u \in S : Rank(S, R, t) = Rank(S, R, u) => t = u
    /\ \A k \in 0 .. Cardinality(S) - 1 : \E t \in S : Rank(S, R, t) = k

LEMMA RankProperties ==
    ASSUME NEW S, IsFiniteSet(S), NEW R, Orders(R, S)
    PROVE  Ranked(S, R)
<1>1. Cardinality(S) \in Nat
  BY FS_CardinalityType
<1>2. ASSUME NEW t \in S PROVE Rank(S, R, t) \in 0 .. Cardinality(S) - 1
  <2> DEFINE T == {v \in S : <<v, t>> \in R}
  <2>1. T \in SUBSET S /\ t \in S \ T
    BY DEF Orders
  <2>2. IsFiniteSet(T) /\ Cardinality(T) <= Cardinality(S) /\ Cardinality(T) # Cardinality(S)
    <3> HIDE DEF T
    <3>1. QED
      BY <2>1, FS_Subset
  <2>3. Cardinality(T) \in Nat
    BY <2>2, FS_CardinalityType
  <2>4. QED
    BY <1>1, <2>2, <2>3 DEF Rank
<1>3. ASSUME NEW t \in S, NEW u \in S, <<t, u>> \notin R, t # u
      PROVE  Rank(S, R, u) < Rank(S, R, t)
  BY <1>3, RankBelow DEF Orders
<1>4. ASSUME NEW t \in S, NEW u \in S, Rank(S, R, t) < Rank(S, R, u) PROVE <<t, u>> \in R
  BY <1>2, <1>3, <1>4
<1>5. ASSUME NEW t \in S, NEW u \in S, Rank(S, R, t) = Rank(S, R, u) PROVE t = u
  <2>1. Rank(S, R, t) \in Nat /\ ~(Rank(S, R, t) < Rank(S, R, u)) /\ ~(Rank(S, R, u) < Rank(S, R, t))
    BY <1>2, <1>5
  <2>2. <<t, u>> \notin R /\ <<u, t>> \notin R
    BY <2>1, RankBelow
  <2>3. QED
    BY <2>2 DEF Orders
<1> DEFINE f == [t \in S |-> Rank(S, R, t)]
           I == 0 .. Cardinality(S) - 1
<1>6. f \in Injection(S, I)
  BY <1>2, <1>5 DEF Injection, IsInjective
<1>7. IsFiniteSet(I) /\ Cardinality(I) = Cardinality(S)
  BY <1>1, FS_Interval
<1>8. f \in Surjection(S, I)
  <2> HIDE DEF f, I
  <2>1. QED
    BY <1>6, <1>7, FS_Injection
<1>9. \A k \in 0 .. Cardinality(S) - 1 : \E t \in S : Rank(S, R, t) = k
  BY <1>8 DEF Surjection
<1> HIDE DEF f, I
<1>10. \A t, u \in S : Rank(S, R, t) < Rank(S, R, u) => <<t, u>> \in R
  BY <1>4
<1>11. \A t, u \in S : Rank(S, R, t) = Rank(S, R, u) => t = u
  BY <1>5
<1>12. QED
  BY <1>1, <1>2, <1>9, <1>10, <1>11 DEF Ranked

-----------------------------------------------------------------------------
\* The places P of a sequence, in their order.
LEMMA Places ==
    ASSUME NEW P \in SUBSET Nat, IsFiniteSet(P)
    PROVE  LET at(k) == CHOOSE i \in P : Cardinality({j \in P : j < i}) = k - 1
           IN  /\ Cardinality(P) \in Nat
               /\ \A k \in 1 .. Cardinality(P) : at(k) \in P
               /\ \A k, l \in 1 .. Cardinality(P) : k < l => at(k) < at(l)
               /\ \A i \in P : \E k \in 1 .. Cardinality(P) : at(k) = i
<1> DEFINE R == {p \in Nat \X Nat : p[1] < p[2]}
           at(k) == CHOOSE i \in P : Cardinality({j \in P : j < i}) = k - 1
<1>1. Orders(R, P)
  BY DEF Orders
<1>2. \A i \in P : Rank(P, R, i) = Cardinality({j \in P : j < i})
  <2> SUFFICES ASSUME NEW i \in P PROVE Rank(P, R, i) = Cardinality({j \in P : j < i})
    OBVIOUS
  <2>1. {j \in P : <<j, i>> \in R} = {j \in P : j < i}
    OBVIOUS
  <2>2. QED
    BY <2>1, Zenon DEF Rank
<1>3. /\ Cardinality(P) \in Nat
      /\ \A i \in P : Rank(P, R, i) \in 0 .. Cardinality(P) - 1
      /\ \A i, j \in P : Rank(P, R, i) < Rank(P, R, j) => <<i, j>> \in R
      /\ \A i, j \in P : Rank(P, R, i) = Rank(P, R, j) => i = j
      /\ \A k \in 0 .. Cardinality(P) - 1 : \E i \in P : Rank(P, R, i) = k
  <2> HIDE DEF R
  <2>1. Ranked(P, R)
    BY <1>1, RankProperties
  <2>2. QED
    BY <2>1, Zenon DEF Ranked
<1>4. ASSUME NEW k \in 1 .. Cardinality(P) PROVE at(k) \in P /\ Rank(P, R, at(k)) = k - 1
  <2>1. k - 1 \in 0 .. Cardinality(P) - 1
    BY <1>3
  <2>2. \E i \in P : Cardinality({j \in P : j < i}) = k - 1
    <3>1. PICK i \in P : Rank(P, R, i) = k - 1
      BY <1>3, <2>1
    <3>2. QED
      BY <1>2, <3>1
  <2>3. QED
    BY <1>2, <2>2, Zenon
<1>5. ASSUME NEW k \in 1 .. Cardinality(P), NEW l \in 1 .. Cardinality(P), k < l PROVE at(k) < at(l)
  <2>1. <<at(k), at(l)>> \in R
    <3> HIDE DEF at, R
    <3>1. at(k) \in P /\ at(l) \in P /\ Rank(P, R, at(k)) = k - 1 /\ Rank(P, R, at(l)) = l - 1
      BY <1>4
    <3>2. k - 1 < l - 1
      BY <1>3, <1>5
    <3>3. Rank(P, R, at(k)) < Rank(P, R, at(l))
      BY <3>1, <3>2
    <3>4. QED
      BY <1>3, <3>1, <3>3
  <2>2. QED
    BY <2>1
<1>6. ASSUME NEW i \in P PROVE \E k \in 1 .. Cardinality(P) : at(k) = i
  <2> DEFINE k == Rank(P, R, i) + 1
  <2>1. k \in 1 .. Cardinality(P) /\ Rank(P, R, i) = k - 1
    BY <1>3
  <2>2. at(k) \in P /\ Rank(P, R, at(k)) = Rank(P, R, i)
    <3> HIDE DEF k, at, R
    <3>1. QED
      BY <1>4, <2>1
  <2>3. at(k) = i
    BY <1>3, <2>2
  <2>4. QED
    BY <2>1, <2>3
<1> HIDE DEF at
<1>7. /\ \A k \in 1 .. Cardinality(P) : at(k) \in P
      /\ \A k, l \in 1 .. Cardinality(P) : k < l => at(k) < at(l)
      /\ \A i \in P : \E k \in 1 .. Cardinality(P) : at(k) = i
  BY <1>4, <1>5, <1>6
<1>8. QED
  BY <1>3, <1>7 DEF at

\* Chosen(s, P) is a sequence of the elements of s at P, each once and in order.
LEMMA ChosenOnes ==
    ASSUME NEW S, NEW s \in Seq(S), NEW P \in SUBSET DOMAIN s
    PROVE  /\ IsFiniteSet(P)
           /\ Chosen(s, P) \in Seq(S) /\ Len(Chosen(s, P)) = Cardinality(P)
           /\ DOMAIN Chosen(s, P) = 1 .. Cardinality(P)
           /\ \A k \in DOMAIN Chosen(s, P) : \E i \in P : Chosen(s, P)[k] = s[i]
           /\ \A i \in P : \E k \in DOMAIN Chosen(s, P) : Chosen(s, P)[k] = s[i]
           /\ \A k, l \in DOMAIN Chosen(s, P) : k < l =>
                 \E i, j \in P : i < j /\ Chosen(s, P)[k] = s[i] /\ Chosen(s, P)[l] = s[j]
<1> DEFINE at(k) == CHOOSE i \in P : Cardinality({j \in P : j < i}) = k - 1
<1>1. DOMAIN s = 1 .. Len(s) /\ Len(s) \in Nat /\ \A i \in DOMAIN s : s[i] \in S
  BY LenProperties, ElementOfSeq
<1>2. IsFiniteSet(P) /\ P \in SUBSET Nat
  <2>1. IsFiniteSet(1 .. Len(s)) /\ P \in SUBSET (1 .. Len(s))
    BY <1>1, FS_Interval
  <2>2. QED
    BY <2>1, FS_Subset
<1>3. /\ Cardinality(P) \in Nat
      /\ \A k \in 1 .. Cardinality(P) : at(k) \in P
      /\ \A k, l \in 1 .. Cardinality(P) : k < l => at(k) < at(l)
      /\ \A i \in P : \E k \in 1 .. Cardinality(P) : at(k) = i
  BY <1>2, Places
<1>4. Chosen(s, P) = [k \in 1 .. Cardinality(P) |-> s[at(k)]]
  BY DEF Chosen
<1> HIDE DEF at
<1> DEFINE c == [k \in 1 .. Cardinality(P) |-> s[at(k)]]
<1>5. c \in Seq(S) /\ Len(c) = Cardinality(P)
  <2>1. c \in [1 .. Cardinality(P) -> S]
    BY <1>1, <1>3
  <2>2. QED
    BY <1>3, <2>1
<1>6. QED
  BY <1>2, <1>3, <1>4, <1>5

-----------------------------------------------------------------------------
\* Sums of costs: they exist, and are what they say.
SumOf(costs, n, f) == f = [i \in 0 .. n |-> IF i = 0 THEN 0 ELSE f[i - 1] + costs[i]]

LEMMA SumExists == ASSUME NEW costs, NEW n \in Nat PROVE \E f : SumOf(costs, n, f)
<1> DEFINE Bad == {k \in Nat : ~\E f : SumOf(costs, k, f)}
<1>1. SUFFICES ASSUME Bad # {} PROVE FALSE
  OBVIOUS
<1>2. PICK k \in Bad : \A m \in Bad : k <= m
  <2>1. Bad \in SUBSET Nat
    OBVIOUS
  <2> HIDE DEF Bad
  <2>2. QED
    BY <1>1, <2>1, LeastOf
<1>3. k # 0
  <2>1. SumOf(costs, 0, [i \in 0 .. 0 |-> 0])
    BY DEF SumOf
  <2>2. QED
    BY <2>1
<1>4. PICK f : SumOf(costs, k - 1, f)
  BY <1>2, <1>3
<1> DEFINE g == [i \in 0 .. k |-> IF i = k THEN f[k - 1] + costs[k] ELSE f[i]]
<1>5. SumOf(costs, k, g)
  <2>1. ASSUME NEW i \in 0 .. k PROVE g[i] = IF i = 0 THEN 0 ELSE g[i - 1] + costs[i]
    <3>1. CASE i = k
      BY <1>3, <3>1
    <3>2. CASE i # k
      BY <1>3, <1>4, <3>2 DEF SumOf
    <3>3. QED
      BY <3>1, <3>2
  <2>2. QED
    BY <2>1 DEF SumOf
<1>6. QED
  BY <1>2, <1>5

LEMMA SumsStep ==
    ASSUME NEW costs, Len(costs) \in Nat
    PROVE  /\ Sums(costs)[0] = 0
           /\ \A i \in 1 .. Len(costs) : Sums(costs)[i] = Sums(costs)[i - 1] + costs[i]
<1> DEFINE f == CHOOSE g : SumOf(costs, Len(costs), g)
<1>1. Sums(costs) = f
  BY DEF Sums, SumOf
<1>2. SumOf(costs, Len(costs), f)
  BY SumExists
<1> HIDE DEF f
<1>3. f[0] = 0
  BY <1>2 DEF SumOf
<1>4. ASSUME NEW i \in 1 .. Len(costs) PROVE f[i] = f[i - 1] + costs[i]
  <2>1. i \in 0 .. Len(costs) /\ i # 0
    OBVIOUS
  <2>2. f[i] = [j \in 0 .. Len(costs) |-> IF j = 0 THEN 0 ELSE f[j - 1] + costs[j]][i]
    BY <1>2, Zenon DEF SumOf
  <2>3. QED
    BY <2>1, <2>2
<1>5. QED
  BY <1>1, <1>3, <1>4

-----------------------------------------------------------------------------
\* The fields that a request of each kind has, as far as they are needed.
HasShape(r) ==
    /\ {"kind", "pc"} \subseteq DOMAIN r
    /\ r.kind \in {"query", "askSource"} => {"ns", "rec"} \subseteq DOMAIN r
    /\ r.kind = "revise" =>
          {"ns", "source", "mapping", "against", "revision", "run", "aid"} \subseteq DOMAIN r
    /\ r.kind = "rebuild" => {"ns", "version", "by", "aid"} \subseteq DOMAIN r
    /\ r.kind \in {"declare", "assign"} => {"ns", "key", "found", "old", "new"} \subseteq DOMAIN r
    /\ r.pc = "upsert" => /\ r.kind \in {"query", "askSource"}
                          /\ {"id", "event", "held"} \subseteq DOMAIN r.rec
    /\ r.pc = "inserted" => r.kind \in {"revise", "rebuild"}

\* What is served lags behind what is current, which is one of the versions.
Versions == /\ current \in [Namespaces -> Nat] /\ served \in [Namespaces -> Nat]
            /\ \A n \in Namespaces : served[n] <= current[n] /\ current[n] <= Len(Content[n])
            /\ retired \subseteq Namespaces

Shape == /\ DOMAIN request = Workers
         /\ \A w \in Workers : HasShape(request[w])
         /\ Versions

\* Requests of which an invariant says what they know.
Busy(r) == \/ r.pc \in {"upsert", "inserted"}
           \/ r.kind = "revise" /\ r.pc # "answered"
           \/ r.kind \in {"declare", "assign"} /\ r.pc = "write"

\* At most one request moves, and current versions only grow.
Moves(w) == request' = [request EXCEPT ![w] = request'[w]] /\ HasShape(request'[w])
Grows == Versions' /\ \A n \in Namespaces : current[n] <= current'[n]

\* The steps of requests that write no table, by the kinds of the requests.
PagesStep(w) == \/ \E n \in Namespaces : BeginPages(w, n) \/ ExportProvenance(w, n)
                \/ ReadLog(w) \/ ReadAudit(w)

QueryStep(w) == \/ \E n \in Namespaces, q \in Asked : BeginQuery(w, n, q)
                \/ SendSelect(w) \/ SendConstruct(w) \/ Warn(w)
                \/ \E n \in Sources, q \in Asked : BeginAskSource(w, n, q)
                \/ SendSource(w) \/ RecordFails(w)

MeasureStep(w) == \/ \E n \in Sources : BeginMeasure(w, n)
                  \/ PlanMeasure(w) \/ ProbeTarget(w) \/ AnswerMeasure(w)

ListStep(w) == \/ \E n \in Namespaces : BeginList(w, n)
               \/ ReadOther(w) \/ ResolveTargets(w) \/ AnswerList(w)

ReportStep(w) == \/ \E n \in Namespaces : BeginHealth(w, n)
                 \/ ReadTerms(w) \/ ReadStatistics(w) \/ ReadOwners(w) \/ ReadMappings(w)
                 \/ CountDisputed(w) \/ CountTargets(w) \/ AnswerHealth(w)

RebuildStep(w) == \/ \E n \in Namespaces : BeginRebuild(w, n)
                  \/ Embed(w) \/ DeleteTerms(w)

FindStep(w) == \/ \E n \in Namespaces, q \in Questions, k \in Limits : BeginSearch(w, n, q, k)
               \/ SearchTrigram(w) \/ SearchVector(w) \/ QuestionNotEmbedded(w)

KnownStep(w) ==
    LET kind == request'[w].kind
    IN  \/ request'[w] = Idle
        \/ kind \in {"log", "audit", "export"} /\ PagesStep(w)
        \/ kind \in {"query", "askSource"} /\ QueryStep(w)
        \/ kind = "measure" /\ MeasureStep(w)
        \/ kind = "list" /\ ListStep(w)
        \/ kind = "health" /\ ReportStep(w)
        \/ kind = "rebuild" /\ RebuildStep(w)
        \/ kind = "search" /\ FindStep(w)
        \/ kind \in {"purge", "declare", "revoke", "unassign", "resolve"}

Quiet == /\ UNCHANGED <<trail, records, mediation, registers, index>>
         /\ Grows
         /\ request' = request \/ \E w \in Workers : Moves(w) /\ ~Busy(request'[w]) /\ KnownStep(w)

\* The request of w goes on, or a new one begins, or it ends.
Advances(w, kind, pc) ==
    /\ request' = [request EXCEPT ![w] = request'[w]]
    /\ DOMAIN (request'[w]) = DOMAIN request[w]
    /\ request[w].kind = kind /\ request'[w].kind = kind
    /\ request'[w].pc = pc

-----------------------------------------------------------------------------
LEMMA Fields == ASSUME NEW r, HasShape(r) PROVE "kind" \in DOMAIN r /\ "pc" \in DOMAIN r
BY DEF HasShape

\* What is left of a record when one request is replaced.
LEMMA Replaced ==
    ASSUME Shape, NEW w \in Workers, NEW r, HasShape(r), request' = [request EXCEPT ![w] = r]
    PROVE  Moves(w) /\ request'[w] = r
BY DEF Shape, Moves

LEMMA Ended ==
    ASSUME Shape, NEW w \in Workers, request' = [request EXCEPT ![w] = Idle]
    PROVE  /\ Moves(w) /\ ~Busy(request'[w]) /\ KnownStep(w)
           /\ request'[w].kind = "idle" /\ request'[w].pc = "idle"
<1>1. HasShape(Idle) /\ ~Busy(Idle) /\ Idle.kind = "idle" /\ Idle.pc = "idle"
  BY DEF HasShape, Idle, Busy
<1>2. QED
  BY <1>1, Replaced DEF KnownStep

LEMMA Answered ==
    ASSUME Shape, NEW w \in Workers, Answers(w, request[w])
    PROVE  /\ Moves(w) /\ request'[w].kind = request[w].kind
           /\ request'[w].pc = "answered"
<1> DEFINE r == [request[w] EXCEPT !.pc = "answered"]
<1>1. HasShape(r) /\ r.kind = request[w].kind /\ r.pc = "answered"
  BY Fields DEF Shape, HasShape
<1>2. QED
  BY <1>1, Replaced DEF Answers, Goes

LEMMA Advanced ==
    ASSUME Shape, NEW w \in Workers, NEW kind, NEW pc, Advances(w, kind, pc),
           pc \notin {"upsert", "inserted"},
           kind # "revise", kind \notin {"declare", "assign"} \/ pc # "write"
    PROVE  Moves(w) /\ ~Busy(request'[w]) /\ request'[w].kind = kind
BY DEF Shape, HasShape, Moves, Advances, Busy

LEMMA MoveQuiet ==
    ASSUME Shape, NEW w \in Workers, Moves(w), ~Busy(request'[w]), KnownStep(w),
           UNCHANGED <<trail, records, mediation, registers, index, vocabulary>>
    PROVE  Quiet
<1>1. Grows
  BY DEF Grows, Shape, Versions, vocabulary
<1>2. QED
  BY <1>1 DEF Quiet

-----------------------------------------------------------------------------
LEMMA EnvironmentQuiet ==
    ASSUME Shape, Environment PROVE Quiet
<1> USE DEF Grows, Shape, Versions, Spend, vocabulary, trail, records, mediation, registers
<1> UNCHANGED <<records, mediation, registers, index>>
  BY DEF Environment
<1>1. ASSUME NEW n \in Namespaces, Approve(n) PROVE Quiet
  BY <1>1 DEF Approve, Quiet
<1>2. ASSUME NEW n \in Namespaces, Project(n) PROVE Quiet
  BY <1>2 DEF Project, Quiet
<1>3. ASSUME NEW n \in Namespaces, Retire(n) PROVE Quiet
  BY <1>3 DEF Retire, Quiet
<1>4. ASSUME NEW n \in Namespaces, Revive(n) PROVE Quiet
  <2>1. served' = served \/ served' = [served EXCEPT ![n] = current[n]]
    BY <1>4 DEF Revive
  <2>2. \A m \in Namespaces : served'[m] \in Nat /\ served'[m] <= current[m]
    BY <2>1
  <2>3. served' \in [Namespaces -> Nat]
    BY <2>1, <2>2
  <2>4. QED
    BY <1>4, <2>2, <2>3 DEF Revive, Quiet
<1>5. ASSUME NEW w \in Workers, CrashRequest(w) PROVE Quiet
  BY <1>5, Ended, MoveQuiet DEF CrashRequest
<1>6. QED
  BY <1>1, <1>2, <1>3, <1>4, <1>5 DEF Environment, VocabularyNext

LEMMA AccessQuiet ==
    ASSUME Shape, AccessStep
    PROVE  Quiet \/ \E w \in Workers : UpsertTerm(w) \/ CommitRecord(w) \/ DeleteRows(w)
<1> USE DEF trail, records, mediation, registers
<1> UNCHANGED <<mediation, registers, index>>
  BY DEF AccessStep
<1>1. ASSUME NEW w \in Workers, RecordFails(w) PROVE Quiet
  <2>1. \E kind \in {"query", "askSource"} : Advances(w, kind, "answered")
    BY <1>1, Fields DEF RecordFails, Shape, HasShape, Advances
  <2>2. Moves(w) /\ ~Busy(request'[w]) /\ KnownStep(w)
    BY <1>1, <2>1, Advanced DEF KnownStep, QueryStep
  <2>3. QED
    BY <1>1, <2>2, MoveQuiet DEF RecordFails
<1>2. ASSUME NEW w \in Workers, NEW n \in Namespaces, BeginPages(w, n) PROVE Quiet
  <2>1. Moves(w) /\ ~Busy(request'[w]) /\ request'[w].kind \in {"log", "audit"}
    BY <1>2 DEF BeginPages, Pages, Ask, Shape, Moves, HasShape, Busy
  <2>2. KnownStep(w)
    BY <1>2, <2>1 DEF KnownStep, PagesStep
  <2>3. QED
    BY <1>2, <2>1, <2>2, MoveQuiet DEF BeginPages, Ask
<1>3. ASSUME NEW w \in Workers, NEW n \in Namespaces, ExportProvenance(w, n) PROVE Quiet
  <2>1. Moves(w) /\ ~Busy(request'[w]) /\ request'[w].kind \in {"export"}
    BY <1>3 DEF ExportProvenance, Ask, Shape, Moves, HasShape, Busy
  <2>2. KnownStep(w)
    BY <1>3, <2>1 DEF KnownStep, PagesStep
  <2>3. QED
    BY <1>3, <2>1, <2>2, MoveQuiet DEF ExportProvenance, Ask
<1>4. ASSUME NEW w \in Workers, NEW n \in Namespaces, NEW before \in 0 .. asked, BeginPurge(w, n, before) PROVE Quiet
  <2>1. Moves(w) /\ ~Busy(request'[w]) /\ request'[w].kind \in {"purge"}
    BY <1>4 DEF BeginPurge, Ask, Shape, Moves, HasShape, Busy
  <2>2. KnownStep(w)
    BY <1>4, <2>1 DEF KnownStep
  <2>3. QED
    BY <1>4, <2>1, <2>2, MoveQuiet DEF BeginPurge, Ask
<1>5. ASSUME NEW w \in Workers, ReadLog(w) PROVE Quiet
  <2>1. Advances(w, "log", "answered") \/ Advances(w, "log", "page")
    BY <1>5, Fields DEF ReadLog, Goes, Turned, Shape, Advances
  <2>2. Moves(w) /\ ~Busy(request'[w]) /\ KnownStep(w)
    BY <1>5, <2>1, Advanced DEF KnownStep, PagesStep
  <2>3. QED
    BY <1>5, <2>2, MoveQuiet DEF ReadLog
<1>6. ASSUME NEW w \in Workers, ReadAudit(w) PROVE Quiet
  <2>1. Advances(w, "audit", "answered") \/ Advances(w, "audit", "page")
    BY <1>6, Fields DEF ReadAudit, Goes, Turned, Shape, Advances
  <2>2. Moves(w) /\ ~Busy(request'[w]) /\ KnownStep(w)
    BY <1>6, <2>1, Advanced DEF KnownStep, PagesStep
  <2>3. QED
    BY <1>6, <2>2, MoveQuiet DEF ReadAudit
<1>7. QED
  BY <1>1, <1>2, <1>3, <1>4, <1>5, <1>6 DEF AccessStep, LogNext

LEMMA GatewayQuiet ==
    ASSUME Shape, GatewayStep
    PROVE  Quiet \/ \E w \in Workers : RecordAccess(w)
<1> USE DEF trail, records, mediation, registers
<1> UNCHANGED <<mediation, registers, index>>
  BY DEF GatewayStep
<1>1. ASSUME NEW w \in Workers, NEW n \in Namespaces, NEW q \in Asked, BeginQuery(w, n, q) PROVE Quiet
  <2>1. Moves(w) /\ ~Busy(request'[w]) /\ request'[w].kind \in {"query"}
    BY <1>1 DEF BeginQuery, Ask, Shape, Moves, HasShape, Busy
  <2>2. KnownStep(w)
    BY <1>1, <2>1 DEF KnownStep, QueryStep
  <2>3. QED
    BY <1>1, <2>1, <2>2, MoveQuiet DEF BeginQuery, Ask
<1>2. ASSUME NEW w \in Workers, SendSelect(w) PROVE Quiet
  <2>1. Advances(w, "query", "warn")
    BY <1>2, Fields DEF SendSelect, Goes, Shape, Advances
  <2>2. Moves(w) /\ ~Busy(request'[w]) /\ KnownStep(w)
    BY <1>2, <2>1, Advanced DEF KnownStep, QueryStep
  <2>3. QED
    BY <1>2, <2>2, MoveQuiet DEF SendSelect
<1>3. ASSUME NEW w \in Workers, SendConstruct(w) PROVE Quiet
  <2>1. Advances(w, "query", "warn") \/ request' = [request EXCEPT ![w] = Idle]
    BY <1>3, Fields DEF SendConstruct, Goes, Refused, Shape, Advances
  <2>2. Moves(w) /\ ~Busy(request'[w]) /\ KnownStep(w)
    BY <1>3, <2>1, Advanced, Ended DEF KnownStep, QueryStep
  <2>3. QED
    BY <1>3, <2>2, MoveQuiet DEF SendConstruct
<1>4. ASSUME NEW w \in Workers, StoreFails(w) PROVE Quiet
  BY <1>4, Ended, MoveQuiet DEF StoreFails, Spend, Refused, Goes
<1>5. ASSUME NEW w \in Workers, Warn(w) PROVE Quiet
  <2>1. Advances(w, "query", "record")
    BY <1>5, Fields DEF Warn, Goes, Shape, Advances
  <2>2. Moves(w) /\ ~Busy(request'[w]) /\ KnownStep(w)
    BY <1>5, <2>1, Advanced DEF KnownStep, QueryStep
  <2>3. QED
    BY <1>5, <2>2, MoveQuiet DEF Warn
<1>6. QED
  BY <1>1, <1>2, <1>3, <1>4, <1>5 DEF GatewayStep, GatewayNext

LEMMA MediationQuiet ==
    ASSUME Shape, MediationStep
    PROVE  \/ Quiet
           \/ \E n \in Sources : RegisterSource(n) \/ RemoveSource(n) \/ CompleteScan(n)
           \/ \E w \in Workers : \/ \E n \in Sources, m \in Mappings : BeginRevise(w, n, m)
                                 \/ CheckTables(w) \/ CheckTerms(w) \/ NumberMapping(w)
                                 \/ InsertMapping(w) \/ CommitMapping(w)
                                 \/ RecordVkgAccess(w)
<1> USE DEF trail, records, mediation, registers
<1> UNCHANGED <<registers, index>>
  BY DEF MediationStep
<1>1. ASSUME NEW w \in Workers, BlobFails(w) PROVE Quiet
  BY <1>1, Ended, MoveQuiet DEF BlobFails, Spend, Refused, Goes
<1>2. ASSUME NEW w \in Workers, NEW n \in Sources, NEW q \in Asked, BeginAskSource(w, n, q) PROVE Quiet
  <2>1. Moves(w) /\ ~Busy(request'[w]) /\ request'[w].kind \in {"askSource"}
    BY <1>2 DEF BeginAskSource, Ask, Shape, Moves, HasShape, Busy
  <2>2. KnownStep(w)
    BY <1>2, <2>1 DEF KnownStep, QueryStep
  <2>3. QED
    BY <1>2, <2>1, <2>2, MoveQuiet DEF BeginAskSource, Ask
<1>3. ASSUME NEW w \in Workers, SendSource(w) PROVE Quiet
  <2>1. Advances(w, "askSource", "record")
    BY <1>3, Fields DEF SendSource, Goes, Shape, Advances
  <2>2. Moves(w) /\ ~Busy(request'[w]) /\ KnownStep(w)
    BY <1>3, <2>1, Advanced DEF KnownStep, QueryStep
  <2>3. QED
    BY <1>3, <2>2, MoveQuiet DEF SendSource
<1>4. ASSUME NEW w \in Workers, SourceSilent(w) PROVE Quiet
  BY <1>4, Ended, MoveQuiet DEF SourceSilent, Spend, Refused, Goes
<1>5. ASSUME NEW w \in Workers, NEW n \in Sources, BeginMeasure(w, n) PROVE Quiet
  <2>1. Moves(w) /\ ~Busy(request'[w]) /\ request'[w].kind \in {"measure"}
    BY <1>5 DEF BeginMeasure, Ask, Shape, Moves, HasShape, Busy
  <2>2. KnownStep(w)
    BY <1>5, <2>1 DEF KnownStep, MeasureStep
  <2>3. QED
    BY <1>5, <2>1, <2>2, MoveQuiet DEF BeginMeasure, Ask
<1>6. ASSUME NEW w \in Workers, PlanMeasure(w) PROVE Quiet
  <2>1. request[w].kind = "measure" /\ UNCHANGED <<vocabulary, trail, records, mediation>>
    BY <1>6 DEF PlanMeasure
  <2>2. Refused(w) \/ \E x \in vkg : Goes(w, Planned(request[w], x))
    BY <1>6 DEF PlanMeasure
  <2>3. ASSUME NEW x, Goes(w, Planned(request[w], x))
        PROVE  Advances(w, "measure", "answered") \/ Advances(w, "measure", "probe")
    <3>1. LET r == Planned(request[w], x)
          IN  /\ DOMAIN r = DOMAIN request[w] /\ r.kind = "measure"
              /\ r.pc \in {"answered", "probe"}
      BY <2>1, Fields DEF Planned, Shape
    <3>2. QED
      BY <2>1, <2>3, <3>1 DEF Goes, Shape, Advances
  <2>4. Moves(w) /\ ~Busy(request'[w]) /\ KnownStep(w)
    BY <1>6, <2>2, <2>3, Advanced, Ended DEF Refused, Goes, KnownStep, MeasureStep
  <2>5. QED
    BY <2>1, <2>4, MoveQuiet
<1>7. ASSUME NEW w \in Workers, ProbeTarget(w) PROVE Quiet
  <2>1. Advances(w, "measure", "probe")
    BY <1>7, Fields DEF ProbeTarget, Goes, Shape, Advances
  <2>2. Moves(w) /\ ~Busy(request'[w]) /\ KnownStep(w)
    BY <1>7, <2>1, Advanced DEF KnownStep, MeasureStep
  <2>3. QED
    BY <1>7, <2>2, MoveQuiet DEF ProbeTarget
<1>8. ASSUME NEW w \in Workers, AnswerMeasure(w) PROVE Quiet
  <2>1. Advances(w, "measure", "answered")
    BY <1>8, Fields DEF AnswerMeasure, Goes, Answers, Shape, Advances
  <2>2. Moves(w) /\ ~Busy(request'[w]) /\ KnownStep(w)
    BY <1>8, <2>1, Advanced DEF KnownStep, MeasureStep
  <2>3. QED
    BY <1>8, <2>2, MoveQuiet DEF AnswerMeasure
<1>9. QED
  <2>1. ASSUME NEW w \in Workers, Revising(w)
        PROVE  \/ Quiet
               \/ \E n \in Sources, m \in Mappings : BeginRevise(w, n, m)
               \/ CheckTables(w) \/ CheckTerms(w) \/ NumberMapping(w)
               \/ InsertMapping(w) \/ CommitMapping(w)
    BY <2>1, <1>1 DEF Revising
  <2>2. ASSUME NEW w \in Workers, Asking(w) PROVE Quiet \/ RecordVkgAccess(w)
    BY <2>2, <1>2, <1>3, <1>4 DEF Asking
  <2>3. CASE DivergenceNext
    BY <2>3, <1>5, <1>6, <1>7, <1>8 DEF DivergenceNext
  <2>4. QED
    BY <2>1, <2>2, <2>3 DEF MediationStep, MediationNext

LEMMA RegistersQuiet ==
    ASSUME Shape, RegistersStep
    PROVE  \/ Quiet
           \/ \E w \in Workers :
                 \/ \E key \in Claims, p \in Predicates : BeginDeclare(w, key, p)
                 \/ \E key \in Owned, p \in Principals : BeginAssign(w, key, p)
                 \/ CommitDeclare(w) \/ CommitRevoke(w) \/ CommitAssign(w) \/ CommitUnassign(w)
<1> USE DEF trail, records, mediation, registers
<1> UNCHANGED <<records, mediation, index>>
  BY DEF RegistersStep
<1>1. ASSUME NEW w \in Workers, AnswerDeclare(w) PROVE Quiet
  <2>1. Advances(w, "declare", "answered") \/ request' = [request EXCEPT ![w] = Idle]
    BY <1>1, Fields DEF AnswerDeclare, Goes, Answers, Refused, Shape, Advances
  <2>2. Moves(w) /\ ~Busy(request'[w]) /\ KnownStep(w)
    BY <1>1, <2>1, Advanced, Ended DEF KnownStep
  <2>3. QED
    BY <1>1, <2>2, MoveQuiet DEF AnswerDeclare
<1>2. ASSUME NEW w \in Workers, NEW key \in Claims, BeginRevoke(w, key) PROVE Quiet
  <2>1. Moves(w) /\ ~Busy(request'[w]) /\ request'[w].kind \in {"revoke"}
    BY <1>2 DEF BeginRevoke, Writing, Ask, Shape, Moves, HasShape, Busy
  <2>2. KnownStep(w)
    BY <1>2, <2>1 DEF KnownStep
  <2>3. QED
    BY <1>2, <2>1, <2>2, MoveQuiet DEF BeginRevoke, Ask
<1>3. ASSUME NEW w \in Workers, NEW n \in Namespaces, BeginList(w, n) PROVE Quiet
  <2>1. Moves(w) /\ ~Busy(request'[w]) /\ request'[w].kind \in {"list"}
    BY <1>3 DEF BeginList, Ask, Shape, Moves, HasShape, Busy
  <2>2. KnownStep(w)
    BY <1>3, <2>1 DEF KnownStep, ListStep
  <2>3. QED
    BY <1>3, <2>1, <2>2, MoveQuiet DEF BeginList, Ask
<1>4. ASSUME NEW w \in Workers, ReadOther(w) PROVE Quiet
  <2>1. Advances(w, "list", "targets")
    BY <1>4, Fields DEF ReadOther, Goes, Shape, Advances
  <2>2. Moves(w) /\ ~Busy(request'[w]) /\ KnownStep(w)
    BY <1>4, <2>1, Advanced DEF KnownStep, ListStep
  <2>3. QED
    BY <1>4, <2>2, MoveQuiet DEF ReadOther
<1>5. ASSUME NEW w \in Workers, ResolveTargets(w) PROVE Quiet
  <2>1. Advances(w, "list", "targets")
    BY <1>5, Fields DEF ResolveTargets, Goes, ResolveNamespace, Shape, Advances
  <2>2. Moves(w) /\ ~Busy(request'[w]) /\ KnownStep(w)
    BY <1>5, <2>1, Advanced DEF KnownStep, ListStep
  <2>3. QED
    BY <1>5, <2>2, MoveQuiet DEF ResolveTargets
<1>6. ASSUME NEW w \in Workers, AnswerList(w) PROVE Quiet
  <2>1. Advances(w, "list", "answered")
    BY <1>6, Fields DEF AnswerList, Goes, Answers, Shape, Advances
  <2>2. Moves(w) /\ ~Busy(request'[w]) /\ KnownStep(w)
    BY <1>6, <2>1, Advanced DEF KnownStep, ListStep
  <2>3. QED
    BY <1>6, <2>2, MoveQuiet DEF AnswerList
<1>7. ASSUME NEW w \in Workers, NEW key \in Owned, BeginUnassign(w, key) PROVE Quiet
  <2>1. Moves(w) /\ ~Busy(request'[w]) /\ request'[w].kind \in {"unassign"}
    BY <1>7 DEF BeginUnassign, Writing, Ask, Shape, Moves, HasShape, Busy
  <2>2. KnownStep(w)
    BY <1>7, <2>1 DEF KnownStep
  <2>3. QED
    BY <1>7, <2>1, <2>2, MoveQuiet DEF BeginUnassign, Ask
<1>8. ASSUME NEW w \in Workers, NEW key \in Owned, BeginResolve(w, key) PROVE Quiet
  <2>1. Moves(w) /\ ~Busy(request'[w]) /\ request'[w].kind \in {"resolve"}
    BY <1>8 DEF BeginResolve, Ask, Shape, Moves, HasShape, Busy
  <2>2. KnownStep(w)
    BY <1>8, <2>1 DEF KnownStep
  <2>3. QED
    BY <1>8, <2>1, <2>2, MoveQuiet DEF BeginResolve, Ask
<1>9. ASSUME NEW w \in Workers, AnswerResolve(w) PROVE Quiet
  <2>1. Advances(w, "resolve", "answered")
    BY <1>9, Fields DEF AnswerResolve, Goes, Answers, Shape, Advances
  <2>2. Moves(w) /\ ~Busy(request'[w]) /\ KnownStep(w)
    BY <1>9, <2>1, Advanced DEF KnownStep
  <2>3. QED
    BY <1>9, <2>2, MoveQuiet DEF AnswerResolve
<1>10. QED
  BY <1>1, <1>2, <1>3, <1>4, <1>5, <1>6, <1>7, <1>8, <1>9 DEF RegistersStep, RegistersNext, MappingsNext, OwnersNext

LEMMA HealthQuiet ==
    ASSUME Shape, HealthStep
    PROVE  Quiet
<1> USE DEF trail, records, mediation, registers
<1> UNCHANGED <<mediation, index>>
  BY DEF HealthStep
<1>1. ASSUME NEW w \in Workers, NEW n \in Namespaces, BeginHealth(w, n) PROVE Quiet
  <2>1. Moves(w) /\ ~Busy(request'[w]) /\ request'[w].kind \in {"health"}
    BY <1>1 DEF BeginHealth, Ask, Shape, Moves, HasShape, Busy
  <2>2. KnownStep(w)
    BY <1>1, <2>1 DEF KnownStep, ReportStep
  <2>3. QED
    BY <1>1, <2>1, <2>2, MoveQuiet DEF BeginHealth, Ask
<1>2. ASSUME NEW w \in Workers, ReadTerms(w) PROVE Quiet
  <2>1. Advances(w, "health", "access")
    BY <1>2, Fields DEF ReadTerms, Goes, Shape, Advances
  <2>2. Moves(w) /\ ~Busy(request'[w]) /\ KnownStep(w)
    BY <1>2, <2>1, Advanced DEF KnownStep, ReportStep
  <2>3. QED
    BY <1>2, <2>2, MoveQuiet DEF ReadTerms
<1>3. ASSUME NEW w \in Workers, ReadStatistics(w) PROVE Quiet
  <2>1. Advances(w, "health", "owners")
    BY <1>3, Fields DEF ReadStatistics, Goes, Shape, Advances
  <2>2. Moves(w) /\ ~Busy(request'[w]) /\ KnownStep(w)
    BY <1>3, <2>1, Advanced DEF KnownStep, ReportStep
  <2>3. QED
    BY <1>3, <2>2, MoveQuiet DEF ReadStatistics
<1>4. ASSUME NEW w \in Workers, ReadOwners(w) PROVE Quiet
  <2>1. Advances(w, "health", "mappings")
    BY <1>4, Fields DEF ReadOwners, Goes, Shape, Advances
  <2>2. Moves(w) /\ ~Busy(request'[w]) /\ KnownStep(w)
    BY <1>4, <2>1, Advanced DEF KnownStep, ReportStep
  <2>3. QED
    BY <1>4, <2>2, MoveQuiet DEF ReadOwners
<1>5. ASSUME NEW w \in Workers, ReadMappings(w) PROVE Quiet
  <2>1. Advances(w, "health", "other")
    BY <1>5, Fields DEF ReadMappings, Goes, Shape, Advances
  <2>2. Moves(w) /\ ~Busy(request'[w]) /\ KnownStep(w)
    BY <1>5, <2>1, Advanced DEF KnownStep, ReportStep
  <2>3. QED
    BY <1>5, <2>2, MoveQuiet DEF ReadMappings
<1>6. ASSUME NEW w \in Workers, CountDisputed(w) PROVE Quiet
  <2>1. Advances(w, "health", "targets")
    BY <1>6, Fields DEF CountDisputed, Goes, Shape, Advances
  <2>2. Moves(w) /\ ~Busy(request'[w]) /\ KnownStep(w)
    BY <1>6, <2>1, Advanced DEF KnownStep, ReportStep
  <2>3. QED
    BY <1>6, <2>2, MoveQuiet DEF CountDisputed
<1>7. ASSUME NEW w \in Workers, CountTargets(w) PROVE Quiet
  <2>1. Advances(w, "health", "targets")
    BY <1>7, Fields DEF CountTargets, Goes, ResolveNamespace, Shape, Advances
  <2>2. Moves(w) /\ ~Busy(request'[w]) /\ KnownStep(w)
    BY <1>7, <2>1, Advanced DEF KnownStep, ReportStep
  <2>3. QED
    BY <1>7, <2>2, MoveQuiet DEF CountTargets
<1>8. ASSUME NEW w \in Workers, AnswerHealth(w) PROVE Quiet
  <2>1. Advances(w, "health", "answered")
    BY <1>8, Fields DEF AnswerHealth, Goes, Answers, Shape, Advances
  <2>2. Moves(w) /\ ~Busy(request'[w]) /\ KnownStep(w)
    BY <1>8, <2>1, Advanced DEF KnownStep, ReportStep
  <2>3. QED
    BY <1>8, <2>2, MoveQuiet DEF AnswerHealth
<1>9. QED
  BY <1>1, <1>2, <1>3, <1>4, <1>5, <1>6, <1>7, <1>8 DEF HealthStep, HealthNext

LEMMA SearchQuiet ==
    ASSUME Shape, SearchStep
    PROVE  Quiet \/ \E w \in Workers : InsertTerms(w) \/ CommitRebuild(w)
<1> USE DEF trail, records, mediation, registers
<1> UNCHANGED <<records, mediation, registers>>
  BY DEF SearchStep
<1>1. ASSUME NEW w \in Workers, NEW n \in Namespaces, BeginRebuild(w, n) PROVE Quiet
  <2>1. Moves(w) /\ ~Busy(request'[w]) /\ request'[w].kind \in {"rebuild"}
    BY <1>1 DEF BeginRebuild, Ask, Shape, Moves, HasShape, Busy
  <2>2. KnownStep(w)
    BY <1>1, <2>1 DEF KnownStep, RebuildStep
  <2>3. QED
    BY <1>1, <2>1, <2>2, MoveQuiet DEF BeginRebuild, Ask
<1>2. ASSUME NEW w \in Workers, NEW n \in Namespaces, NEW q \in Questions, NEW k \in Limits, BeginSearch(w, n, q, k) PROVE Quiet
  <2>1. Moves(w) /\ ~Busy(request'[w]) /\ request'[w].kind \in {"search"}
    BY <1>2 DEF BeginSearch, Ask, Shape, Moves, HasShape, Busy
  <2>2. KnownStep(w)
    BY <1>2, <2>1 DEF KnownStep, FindStep
  <2>3. QED
    BY <1>2, <2>1, <2>2, MoveQuiet DEF BeginSearch, Ask
<1>3. ASSUME NEW w \in Workers, Embed(w) PROVE Quiet
  <2>1. Advances(w, "rebuild", "delete")
    BY <1>3, Fields DEF Embed, Goes, Shape, Advances
  <2>2. Moves(w) /\ ~Busy(request'[w]) /\ KnownStep(w)
    BY <1>3, <2>1, Advanced DEF KnownStep, RebuildStep
  <2>3. QED
    BY <1>3, <2>2, MoveQuiet DEF Embed
<1>4. ASSUME NEW w \in Workers, EmbedFails(w) PROVE Quiet
  BY <1>4, Ended, MoveQuiet DEF EmbedFails, Spend, Refused, Goes
<1>5. ASSUME NEW w \in Workers, DeleteTerms(w) PROVE Quiet
  <2>1. Advances(w, "rebuild", "insert")
    BY <1>5, Fields DEF DeleteTerms, Goes, Shape, Advances
  <2>2. Moves(w) /\ ~Busy(request'[w]) /\ KnownStep(w)
    BY <1>5, <2>1, Advanced DEF KnownStep, RebuildStep
  <2>3. QED
    BY <1>5, <2>2, MoveQuiet DEF DeleteTerms
<1>6. ASSUME NEW w \in Workers, SearchTrigram(w) PROVE Quiet
  <2>1. Advances(w, "search", "vector")
    BY <1>6, Fields DEF SearchTrigram, Goes, Shape, Advances
  <2>2. Moves(w) /\ ~Busy(request'[w]) /\ KnownStep(w)
    BY <1>6, <2>1, Advanced DEF KnownStep, FindStep
  <2>3. QED
    BY <1>6, <2>2, MoveQuiet DEF SearchTrigram
<1>7. ASSUME NEW w \in Workers, SearchVector(w) PROVE Quiet
  <2>1. Advances(w, "search", "answered")
    BY <1>7, Fields DEF SearchVector, Goes, Answers, Shape, Advances
  <2>2. Moves(w) /\ ~Busy(request'[w]) /\ KnownStep(w)
    BY <1>7, <2>1, Advanced DEF KnownStep, FindStep
  <2>3. QED
    BY <1>7, <2>2, MoveQuiet DEF SearchVector
<1>8. ASSUME NEW w \in Workers, QuestionNotEmbedded(w) PROVE Quiet
  <2>1. Advances(w, "search", "answered")
    BY <1>8, Fields DEF QuestionNotEmbedded, Goes, Shape, Advances
  <2>2. Moves(w) /\ ~Busy(request'[w]) /\ KnownStep(w)
    BY <1>8, <2>1, Advanced DEF KnownStep, FindStep
  <2>3. QED
    BY <1>8, <2>2, MoveQuiet DEF QuestionNotEmbedded
<1>9. QED
  BY <1>1, <1>2, <1>3, <1>4, <1>5, <1>6, <1>7, <1>8 DEF SearchStep, SearchNext


-----------------------------------------------------------------------------
\* The steps that are not quiet.
LoudAccess ==
    /\ \E w \in Workers : \/ UpsertTerm(w) \/ CommitRecord(w) \/ DeleteRows(w)
                          \/ RecordAccess(w)
    /\ UNCHANGED <<mediation, registers, index>>

LoudSources ==
    /\ \E n \in Sources : RegisterSource(n) \/ RemoveSource(n) \/ CompleteScan(n)
    /\ UNCHANGED <<registers, index>>

LoudRevising ==
    /\ \E w \in Workers : \/ \E n \in Sources, m \in Mappings : BeginRevise(w, n, m)
                          \/ CheckTables(w) \/ CheckTerms(w) \/ NumberMapping(w)
                          \/ InsertMapping(w) \/ CommitMapping(w)
    /\ UNCHANGED <<registers, index>>

LoudAsking == /\ \E w \in Workers : RecordVkgAccess(w)
              /\ UNCHANGED <<registers, index>>

LoudRegisters ==
    /\ \E w \in Workers : \/ \E key \in Claims, p \in Predicates : BeginDeclare(w, key, p)
                          \/ \E key \in Owned, p \in Principals : BeginAssign(w, key, p)
                          \/ CommitDeclare(w) \/ CommitRevoke(w)
                          \/ CommitAssign(w) \/ CommitUnassign(w)
    /\ UNCHANGED <<records, mediation, index>>

LoudSearch == /\ \E w \in Workers : InsertTerms(w) \/ CommitRebuild(w)
              /\ UNCHANGED <<records, mediation, registers>>

LEMMA Steps ==
    ASSUME Shape, [Next]_vars
    PROVE  \/ Quiet \/ LoudAccess \/ LoudSources \/ LoudRevising
           \/ LoudAsking \/ LoudRegisters \/ LoudSearch
<1>1. CASE UNCHANGED vars
  BY <1>1 DEF vars, vocabulary, requests, Quiet, Grows, Shape, Versions
<1>2. CASE Environment
  BY <1>2, EnvironmentQuiet
<1>3. CASE AccessStep
  BY <1>3, AccessQuiet DEF AccessStep, LoudAccess
<1>4. CASE GatewayStep
  BY <1>4, GatewayQuiet DEF GatewayStep, LoudAccess
<1>5. CASE MediationStep
  BY <1>5, MediationQuiet DEF MediationStep, LoudSources, LoudRevising, LoudAsking
<1>6. CASE RegistersStep
  BY <1>6, RegistersQuiet DEF RegistersStep, LoudRegisters
<1>7. CASE HealthStep
  BY <1>7, HealthQuiet
<1>8. CASE SearchStep
  BY <1>8, SearchQuiet DEF SearchStep, LoudSearch
<1>9. QED
  BY <1>1, <1>2, <1>3, <1>4, <1>5, <1>6, <1>7, <1>8 DEF Next

\* Whatever a loud step does to the tables, it moves no version and one request,
\* to one of certain kinds.
Touches(kinds) == /\ UNCHANGED vocabulary
                  /\ \E w \in Workers : Moves(w) /\ request'[w].kind \in kinds

LEMMA AccessTouches == ASSUME Shape, LoudAccess PROVE Touches({"query", "askSource", "purge"})
<1>1. ASSUME NEW w \in Workers, UpsertTerm(w) PROVE Touches({"query", "askSource", "purge"})
  <2>1. PICK k \in First(w) : Goes(w, [request[w] EXCEPT !.rec.held = @ \cup {Row(w, k)}])
    BY <1>1 DEF UpsertTerm
  <2> DEFINE r == [request[w] EXCEPT !.rec.held = @ \cup {Row(w, k)}]
  <2>2. HasShape(r) /\ r.kind \in {"query", "askSource"}
    BY Fields DEF Shape, HasShape, First, Todo
  <2>3. QED
    BY <1>1, <2>1, <2>2, Replaced DEF UpsertTerm, Goes, Touches
<1>2. ASSUME NEW w \in Workers, CommitRecord(w) \/ DeleteRows(w)
      PROVE  Touches({"query", "askSource", "purge"})
  <2>1. Answers(w, request[w]) /\ request[w].kind \in {"query", "askSource", "purge"}
    BY <1>2 DEF CommitRecord, DeleteRows, Shape, HasShape
  <2>2. QED
    BY <1>2, <2>1, Answered DEF CommitRecord, DeleteRows, Touches
<1>3. ASSUME NEW w \in Workers, RecordAccess(w) PROVE Touches({"query", "askSource", "purge"})
  <2> DEFINE r == Recording(request[w], QueryRecord(request[w]))
  <2>1. HasShape(r) /\ r.kind = "query"
    BY <1>3, Fields DEF Shape, HasShape, Recording, RecordAccess
  <2>2. QED
    BY <1>3, <2>1, Replaced DEF RecordAccess, Goes, Touches
<1>4. QED
  BY <1>1, <1>2, <1>3 DEF LoudAccess

LEMMA RevisingTouches == ASSUME Shape, LoudRevising PROVE Touches({"revise", "idle"})
<1>1. ASSUME NEW w \in Workers, NEW n \in Sources, NEW m \in Mappings, BeginRevise(w, n, m)
      PROVE  Touches({"revise", "idle"})
  <2>1. Moves(w) /\ request'[w].kind \in {"revise", "idle"}
    BY <1>1 DEF BeginRevise, Ask, Shape, Moves, HasShape
  <2>2. QED
    BY <1>1, <2>1 DEF BeginRevise, Touches
<1>2. ASSUME NEW w \in Workers, CheckTables(w) \/ CheckTerms(w) \/ NumberMapping(w) PROVE Touches({"revise", "idle"})
  <2>1. CASE CheckTables(w)
    <3>1. Advances(w, "revise", "terms") \/ request' = [request EXCEPT ![w] = Idle]
      BY <2>1, Fields DEF CheckTables, Goes, Refused, Shape, Advances
    <3>2. Moves(w) /\ request'[w].kind \in {"revise", "idle"}
      BY <3>1, Ended DEF Shape, HasShape, Moves, Advances
    <3>3. QED
      BY <2>1, <3>2 DEF CheckTables, Touches
  <2>2. CASE CheckTerms(w)
    <3>1. Advances(w, "revise", "number") \/ request' = [request EXCEPT ![w] = Idle]
      BY <2>2, Fields DEF CheckTerms, Goes, Refused, Shape, Advances
    <3>2. Moves(w) /\ request'[w].kind \in {"revise", "idle"}
      BY <3>1, Ended DEF Shape, HasShape, Moves, Advances
    <3>3. QED
      BY <2>2, <3>2 DEF CheckTerms, Touches
  <2>3. CASE NumberMapping(w)
    <3>1. Advances(w, "revise", "insert")
      BY <2>3, Fields DEF NumberMapping, Goes, Shape, Advances
    <3>2. Moves(w) /\ request'[w].kind \in {"revise", "idle"}
      BY <3>1 DEF Shape, HasShape, Moves, Advances
    <3>3. QED
      BY <2>3, <3>2 DEF NumberMapping, Touches
  <2>4. QED
    BY <1>2, <2>1, <2>2, <2>3
<1>3. ASSUME NEW w \in Workers, InsertMapping(w) PROVE Touches({"revise", "idle"})
  <2>1. Advances(w, "revise", "inserted") \/ request' = [request EXCEPT ![w] = Idle]
    BY <1>3, Fields DEF InsertMapping, Goes, Refused, Shape, Advances
  <2>2. Moves(w) /\ request'[w].kind \in {"revise", "idle"}
    BY <2>1, Ended DEF Shape, HasShape, Moves, Advances
  <2>3. QED
    BY <1>3, <2>2 DEF InsertMapping, Touches
<1>4. ASSUME NEW w \in Workers, CommitMapping(w) PROVE Touches({"revise", "idle"})
  BY <1>4, Answered DEF CommitMapping, Touches
<1>5. QED
  BY <1>1, <1>2, <1>3, <1>4 DEF LoudRevising

LEMMA AskingTouches == ASSUME Shape, LoudAsking PROVE Touches({"askSource"})
<1>1. PICK w \in Workers : RecordVkgAccess(w)
  BY DEF LoudAsking
<1> DEFINE e == Record(request[w], 0, request[w].name, request[w].revision,
                       RowCount(request[w], request[w].rows), <<>>)
<1> DEFINE r == Recording(request[w], e)
<1>2. HasShape(r) /\ r.kind = "askSource"
  BY <1>1, Fields DEF Shape, HasShape, Recording, RecordVkgAccess
<1>3. QED
  BY <1>1, <1>2, Replaced DEF RecordVkgAccess, Goes, Touches

LEMMA RegistersTouches == ASSUME Shape, LoudRegisters PROVE Touches({"declare", "assign", "revoke", "unassign", "idle"})
<1>1. ASSUME NEW w \in Workers, NEW key, NEW p, BeginDeclare(w, key, p) PROVE Touches({"declare", "assign", "revoke", "unassign", "idle"})
  <2>1. Moves(w) /\ request'[w].kind \in {"declare", "assign", "revoke", "unassign", "idle"}
    BY <1>1 DEF BeginDeclare, Writing, Ask, Shape, Moves, HasShape
  <2>2. QED
    BY <1>1, <2>1 DEF BeginDeclare, Touches
<1>2. ASSUME NEW w \in Workers, NEW key, NEW p, BeginAssign(w, key, p) PROVE Touches({"declare", "assign", "revoke", "unassign", "idle"})
  <2>1. Moves(w) /\ request'[w].kind \in {"declare", "assign", "revoke", "unassign", "idle"}
    BY <1>2 DEF BeginAssign, Writing, Ask, Shape, Moves, HasShape
  <2>2. QED
    BY <1>2, <2>1 DEF BeginAssign, Touches
<1>3. ASSUME NEW w \in Workers, CommitDeclare(w) PROVE Touches({"declare", "assign", "revoke", "unassign", "idle"})
  <2>1. Advances(w, "declare", "reread") \/ request' = [request EXCEPT ![w] = Idle]
    BY <1>3, Fields DEF CommitDeclare, Goes, Refused, Shape, Advances
  <2>2. Moves(w) /\ request'[w].kind \in {"declare", "assign", "revoke", "unassign", "idle"}
    BY <2>1, Ended DEF Shape, HasShape, Moves, Advances
  <2>3. QED
    BY <1>3, <2>2 DEF CommitDeclare, Touches
<1>4. ASSUME NEW w \in Workers, CommitRevoke(w) \/ CommitAssign(w) \/ CommitUnassign(w) PROVE Touches({"declare", "assign", "revoke", "unassign", "idle"})
  <2>1. Moves(w) /\ request'[w].kind \in {"declare", "assign", "revoke", "unassign", "idle"}
    BY <1>4, Answered, Ended
       DEF CommitRevoke, CommitAssign, CommitUnassign, Goes, Refused
  <2>2. QED
    BY <1>4, <2>1 DEF CommitRevoke, CommitAssign, CommitUnassign, Touches
<1>5. QED
  BY <1>1, <1>2, <1>3, <1>4 DEF LoudRegisters

LEMMA SearchTouches == ASSUME Shape, LoudSearch PROVE Touches({"rebuild", "idle"})
<1>1. ASSUME NEW w \in Workers, InsertTerms(w) PROVE Touches({"rebuild", "idle"})
  <2>1. Advances(w, "rebuild", "inserted") \/ request' = [request EXCEPT ![w] = Idle]
    BY <1>1, Fields DEF InsertTerms, Goes, Refused, Shape, Advances
  <2>2. Moves(w) /\ request'[w].kind \in {"rebuild", "idle"}
    BY <2>1, Ended DEF Shape, HasShape, Moves, Advances
  <2>3. QED
    BY <1>1, <2>2 DEF InsertTerms, Touches
<1>2. ASSUME NEW w \in Workers, CommitRebuild(w) PROVE Touches({"rebuild", "idle"})
  BY <1>2, Answered DEF CommitRebuild, Touches
<1>3. QED
  BY <1>1, <1>2 DEF LoudSearch

LEMMA ShapeKept == ASSUME Shape, [Next]_vars PROVE Shape'
<1>1. CASE Quiet
  BY <1>1 DEF Quiet, Grows, Moves, Shape
<1>2. ASSUME NEW kinds, Touches(kinds) PROVE Shape'
  BY <1>2 DEF Touches, Moves, Shape, Versions, vocabulary
<1>3. CASE LoudSources
  BY <1>3 DEF LoudSources, RegisterSource, RemoveSource, CompleteScan, Shape, Versions, vocabulary
<1>4. QED
  BY <1>1, <1>2, <1>3, Steps, AccessTouches, RevisingTouches, AskingTouches,
     RegistersTouches, SearchTouches

LEMMA ShapeAtFirst == ASSUME Init PROVE Shape
BY DEF Init, VocabularyInit, Shape, Versions, HasShape, Idle

\* A step spends of one kind of the quota at most, and is one request at most.
Ticks == /\ quota' = quota \/ \E kind : Spend(kind)
         /\ asked' = asked \/ asked' = asked + 1

LEMMA AskTicks == ASSUME NEW w, NEW r, Ask(w, r) PROVE Ticks
BY DEF Ask, Ticks

LEMMA GoesTicks == ASSUME NEW w, NEW r, Goes(w, r) \/ Answers(w, r) \/ Refused(w) PROVE Ticks
BY DEF Goes, Answers, Refused, Ticks

LEMMA AccessTicks == ASSUME AccessStep PROVE Ticks
<1>1. ASSUME NEW w \in Workers, UpsertTerm(w) \/ CommitRecord(w) \/ DeleteRows(w)
                                \/ ReadLog(w) \/ ReadAudit(w) PROVE Ticks
  BY <1>1, GoesTicks DEF UpsertTerm, CommitRecord, DeleteRows, ReadLog, ReadAudit
<1>2. ASSUME NEW w \in Workers, RecordFails(w) PROVE Ticks
  BY <1>2 DEF RecordFails, Ticks
<1>3. ASSUME NEW w \in Workers, NEW n \in Namespaces, NEW before, 
             BeginPages(w, n) \/ ExportProvenance(w, n) \/ BeginPurge(w, n, before) PROVE Ticks
  BY <1>3, AskTicks DEF BeginPages, ExportProvenance, BeginPurge
<1>4. QED
  BY <1>1, <1>2, <1>3 DEF AccessStep, LogNext

LEMMA GatewayTicks == ASSUME GatewayStep PROVE Ticks
<1>1. ASSUME NEW w \in Workers, SendSelect(w) \/ SendConstruct(w) \/ RecordAccess(w) PROVE Ticks
  BY <1>1, GoesTicks DEF SendSelect, SendConstruct, RecordAccess
<1>2. ASSUME NEW w \in Workers, StoreFails(w) \/ Warn(w) PROVE Ticks
  BY <1>2 DEF StoreFails, Warn, Ticks
<1>3. ASSUME NEW w \in Workers, NEW n, NEW q, BeginQuery(w, n, q) PROVE Ticks
  BY <1>3, AskTicks DEF BeginQuery
<1>4. QED
  BY <1>1, <1>2, <1>3 DEF GatewayStep, GatewayNext

LEMMA MediationTicks == ASSUME MediationStep PROVE Ticks
<1>1. ASSUME NEW w \in Workers, Revising(w) PROVE Ticks
  <2>1. ASSUME NEW n, NEW m, BeginRevise(w, n, m) PROVE Ticks
    BY <2>1, AskTicks DEF BeginRevise
  <2>2. CASE CheckTables(w) \/ CheckTerms(w) \/ NumberMapping(w) \/ InsertMapping(w) \/ CommitMapping(w)
    BY <2>2, GoesTicks DEF CheckTables, CheckTerms, NumberMapping, InsertMapping, CommitMapping
  <2>3. CASE BlobFails(w)
    BY <2>3 DEF BlobFails, Ticks
  <2>4. QED
    BY <1>1, <2>1, <2>2, <2>3 DEF Revising
<1>2. ASSUME NEW w \in Workers, Asking(w) PROVE Ticks
  <2>1. ASSUME NEW n, NEW q, BeginAskSource(w, n, q) PROVE Ticks
    BY <2>1, AskTicks DEF BeginAskSource
  <2>2. CASE SendSource(w) \/ RecordVkgAccess(w)
    BY <2>2, GoesTicks DEF SendSource, RecordVkgAccess
  <2>3. CASE SourceSilent(w)
    BY <2>3 DEF SourceSilent, Ticks
  <2>4. QED
    BY <1>2, <2>1, <2>2, <2>3 DEF Asking
<1>3. ASSUME NEW n, RegisterSource(n) \/ RemoveSource(n) \/ CompleteScan(n) PROVE Ticks
  BY <1>3 DEF RegisterSource, RemoveSource, CompleteScan, Ticks
<1>4. ASSUME NEW w \in Workers, NEW n, BeginMeasure(w, n) PROVE Ticks
  BY <1>4, AskTicks DEF BeginMeasure
<1>5. ASSUME NEW w \in Workers, PlanMeasure(w) \/ ProbeTarget(w) \/ AnswerMeasure(w) PROVE Ticks
  BY <1>5, GoesTicks DEF PlanMeasure, ProbeTarget, AnswerMeasure
<1>6. QED
  BY <1>1, <1>2, <1>3, <1>4, <1>5 DEF MediationStep, MediationNext, DivergenceNext

LEMMA RegistersTicks == ASSUME RegistersStep PROVE Ticks
<1>1. ASSUME NEW w \in Workers, MappingsNext(w) PROVE Ticks
  <2>1. ASSUME NEW key, NEW p, BeginDeclare(w, key, p) \/ BeginRevoke(w, key) PROVE Ticks
    BY <2>1, AskTicks DEF BeginDeclare, BeginRevoke
  <2>2. ASSUME NEW n, BeginList(w, n) PROVE Ticks
    BY <2>2, AskTicks DEF BeginList
  <2>3. CASE CommitDeclare(w) \/ AnswerDeclare(w) \/ CommitRevoke(w) \/ ReadOther(w) \/ AnswerList(w)
    BY <2>3, GoesTicks DEF CommitDeclare, AnswerDeclare, CommitRevoke, ReadOther, AnswerList
  <2>4. CASE ResolveTargets(w)
    BY <2>4 DEF ResolveTargets, ResolveNamespace, Goes, Ticks
  <2>5. QED
    BY <1>1, <2>1, <2>2, <2>3, <2>4 DEF MappingsNext
<1>2. ASSUME NEW w \in Workers, OwnersNext(w) PROVE Ticks
  <2>1. ASSUME NEW key, NEW p, BeginAssign(w, key, p) \/ BeginUnassign(w, key) \/ BeginResolve(w, key) PROVE Ticks
    BY <2>1, AskTicks DEF BeginAssign, BeginUnassign, BeginResolve
  <2>2. CASE CommitAssign(w) \/ CommitUnassign(w) \/ AnswerResolve(w)
    BY <2>2, GoesTicks DEF CommitAssign, CommitUnassign, AnswerResolve
  <2>3. QED
    BY <1>2, <2>1, <2>2 DEF OwnersNext
<1>3. QED
  BY <1>1, <1>2 DEF RegistersStep, RegistersNext

LEMMA HealthTicks == ASSUME HealthStep PROVE Ticks
<1>1. ASSUME NEW w \in Workers, NEW n, BeginHealth(w, n) PROVE Ticks
  BY <1>1, AskTicks DEF BeginHealth
<1>2. ASSUME NEW w \in Workers, ReadTerms(w) PROVE Ticks
  BY <1>2 DEF ReadTerms, Goes, Ticks
<1>3. ASSUME NEW w \in Workers, ReadStatistics(w) \/ ReadOwners(w) \/ ReadMappings(w)
                                \/ CountDisputed(w) \/ AnswerHealth(w) PROVE Ticks
  BY <1>3, GoesTicks DEF ReadStatistics, ReadOwners, ReadMappings, CountDisputed, AnswerHealth
<1>4. ASSUME NEW w \in Workers, CountTargets(w) PROVE Ticks
  BY <1>4 DEF CountTargets, ResolveNamespace, Goes, Ticks
<1>5. QED
  BY <1>1, <1>2, <1>3, <1>4 DEF HealthStep, HealthNext

LEMMA SearchTicks == ASSUME SearchStep PROVE Ticks
<1>1. ASSUME NEW w \in Workers, NEW n, NEW q, NEW k, BeginRebuild(w, n) \/ BeginSearch(w, n, q, k) PROVE Ticks
  BY <1>1, AskTicks DEF BeginRebuild, BeginSearch
<1>2. ASSUME NEW w \in Workers, EmbedFails(w) \/ QuestionNotEmbedded(w) PROVE Ticks
  BY <1>2 DEF EmbedFails, QuestionNotEmbedded, Ticks
<1>3. ASSUME NEW w \in Workers, Embed(w) \/ DeleteTerms(w) \/ InsertTerms(w) \/ CommitRebuild(w) PROVE Ticks
  BY <1>3, GoesTicks DEF Embed, DeleteTerms, InsertTerms, CommitRebuild
<1>4. ASSUME NEW w \in Workers, SearchTrigram(w) \/ SearchVector(w) PROVE Ticks
  BY <1>4, GoesTicks DEF SearchTrigram, SearchVector
<1>5. QED
  BY <1>1, <1>2, <1>3, <1>4 DEF SearchStep, SearchNext

LEMMA Ticking == ASSUME [Next]_vars PROVE Ticks
<1>1. CASE UNCHANGED vars
  BY <1>1 DEF vars, requests, Ticks
<1>2. CASE Environment
  BY <1>2 DEF Environment, VocabularyNext, Approve, Project, Retire, Revive, CrashRequest, Ticks
<1>3. QED
  BY <1>1, <1>2, AccessTicks, GatewayTicks, MediationTicks, RegistersTicks, HealthTicks,
     SearchTicks DEF Next

Clock == quota \in [Kinds -> Nat] /\ asked \in Nat

LEMMA ClockAtFirst == ASSUME Init PROVE Clock
BY Vocabularies DEF Init, VocabularyInit, Clock

LEMMA ClockKept == ASSUME Clock, [Next]_vars PROVE Clock' /\ asked <= asked'
BY Ticking DEF Ticks, Spend, Clock

-----------------------------------------------------------------------------
\* Which steps move a request, by its kind.
LEMMA Movers ==
    ASSUME Shape, [Next]_vars, NEW w \in Workers, request'[w] # request[w]
    PROVE  /\ Moves(w)
           /\ \/ Quiet /\ KnownStep(w)
              \/ LoudAccess /\ request'[w].kind \in {"query", "askSource", "purge"}
              \/ LoudAsking /\ request'[w].kind = "askSource"
              \/ LoudSearch /\ request'[w].kind \in {"rebuild", "idle"}
              \/ request'[w].kind \in {"revise", "idle", "declare", "assign", "revoke", "unassign"}
<1>1. CASE Quiet
  BY <1>1 DEF Quiet, Moves, Shape
<1>2. ASSUME NEW kinds, Touches(kinds) PROVE Moves(w) /\ request'[w].kind \in kinds
  BY <1>2 DEF Touches, Moves, Shape
<1>3. CASE LoudSources
  BY <1>3 DEF LoudSources, RegisterSource, RemoveSource, CompleteScan
<1>4. CASE LoudAccess
  BY <1>2, <1>4, AccessTouches
<1>5. CASE LoudAsking
  BY <1>2, <1>5, AskingTouches
<1>6. CASE LoudSearch
  BY <1>2, <1>6, SearchTouches
<1>7. CASE LoudRevising
  BY <1>2, <1>7, RevisingTouches
<1>8. CASE LoudRegisters
  BY <1>2, <1>8, RegistersTouches
<1>9. QED
  BY <1>1, <1>3, <1>4, <1>5, <1>6, <1>7, <1>8, Steps

LEMMA AlwaysGrows == ASSUME Shape, [Next]_vars PROVE Grows
<1>1. ASSUME UNCHANGED vocabulary PROVE Grows
  BY <1>1 DEF vocabulary, Grows, Shape, Versions
<1>2. QED
  BY <1>1, Steps, AccessTouches, RevisingTouches, AskingTouches, RegistersTouches, SearchTouches
     DEF Quiet, Touches, LoudSources, RegisterSource, RemoveSource, CompleteScan

-----------------------------------------------------------------------------
\* An audit row that is flushed and not committed has an id of its own.
TrailSound ==
    /\ lastAudit \in Nat /\ DOMAIN audit \subseteq 1 .. lastAudit
    /\ \A w \in Workers : request[w].pc = "inserted" =>
          request[w].aid \in (1 .. lastAudit) \ DOMAIN audit
    /\ \A w, x \in Workers :
          /\ request[w].pc = "inserted" /\ request[x].pc = "inserted"
          /\ request[w].aid = request[x].aid
          => w = x

TrailInv == Shape /\ TrailSound

\* A step adds audit rows and changes none.
TrailAppended == \A i \in DOMAIN audit : i \in DOMAIN audit' /\ audit'[i] = audit[i]

-----------------------------------------------------------------------------
LEMMA TrailSteady ==
    ASSUME TrailInv, Shape', UNCHANGED trail,
           \A w \in Workers : request'[w] = request[w] \/ request'[w].pc # "inserted"
    PROVE  TrailInv' /\ TrailAppended
BY DEF TrailInv, TrailSound, TrailAppended, trail

\* One request moves, and what it audits is committed at once.
LEMMA TrailWritten ==
    ASSUME TrailInv, Shape', NEW w \in Workers, NEW r,
           request'[w].pc # "inserted", \A x \in Workers \ {w} : request'[x] = request[x],
           Audited, audit' = AuditRow(r, lastAudit')
    PROVE  TrailInv' /\ TrailAppended /\ lastAudit' \notin DOMAIN audit
<1>1. /\ lastAudit' = lastAudit + 1 /\ lastAudit' \notin DOMAIN audit
      /\ DOMAIN audit' = DOMAIN audit \cup {lastAudit'}
      /\ \A i \in DOMAIN audit : audit'[i] = audit[i]
  BY DEF Audited, AuditRow, TrailInv, TrailSound
<1>2. QED
  BY <1>1 DEF TrailInv, TrailSound, TrailAppended

\* One request flushes an audit row.
LEMMA TrailFlushed ==
    ASSUME TrailInv, Shape', NEW w \in Workers,
           request'[w].aid = lastAudit + 1, \A x \in Workers \ {w} : request'[x] = request[x],
           Audited, UNCHANGED audit
    PROVE  TrailInv' /\ TrailAppended
BY DEF Audited, TrailInv, TrailSound, TrailAppended

\* The row that a request has flushed is committed.
LEMMA TrailCommitted ==
    ASSUME TrailInv, Shape', NEW w \in Workers, request[w].pc = "inserted",
           request'[w].pc # "inserted", \A x \in Workers \ {w} : request'[x] = request[x],
           UNCHANGED lastAudit, audit' = AuditRow(request[w], request[w].aid)
    PROVE  TrailInv' /\ TrailAppended /\ request[w].aid \notin DOMAIN audit
<1> DEFINE id == request[w].aid
<1>1. /\ id \in (1 .. lastAudit) \ DOMAIN audit
      /\ DOMAIN audit' = DOMAIN audit \cup {id}
      /\ \A i \in DOMAIN audit : audit'[i] = audit[i]
  BY DEF AuditRow, TrailInv, TrailSound
<1>2. \A x \in Workers \ {w} : request[x].pc = "inserted" => request[x].aid # id
  BY DEF TrailInv, TrailSound
<1> HIDE DEF id
<1>3. TrailSound'
  BY <1>1, <1>2 DEF TrailInv, TrailSound
<1>4. QED
  BY <1>1, <1>3 DEF TrailInv, TrailAppended, id

-----------------------------------------------------------------------------
LEMMA TrailAtFirst == ASSUME Init PROVE TrailInv
<1>1. TrailSound
  BY DEF Init, VocabularyInit, TrailSound, Idle
<1>2. QED
  BY <1>1, ShapeAtFirst DEF TrailInv

\* A step whose worker does not flush an audit row, and writes none.
LEMMA TouchSteady ==
    ASSUME TrailInv, Shape', UNCHANGED trail, NEW kinds, Touches(kinds),
           kinds \cap {"revise", "rebuild"} = {}
    PROVE  TrailInv' /\ TrailAppended
<1>1. \A w \in Workers : request'[w] = request[w] \/ request'[w].pc # "inserted"
  BY DEF Touches, Moves, HasShape, TrailInv, Shape
<1>2. QED
  BY <1>1, TrailSteady

LEMMA AccessTrail ==
    ASSUME TrailInv, Shape', LoudAccess PROVE TrailInv' /\ TrailAppended
<1>1. ASSUME NEW w \in Workers, DeleteRows(w) PROVE TrailInv' /\ TrailAppended
  <2>1. request'[w].pc = "answered" /\ \A x \in Workers \ {w} : request'[x] = request[x]
    BY <1>1, Answered DEF DeleteRows, TrailInv, Shape, Moves
  <2>2. QED
    BY <1>1, <2>1, TrailWritten DEF DeleteRows
<1>2. ASSUME NEW w \in Workers, UpsertTerm(w) \/ CommitRecord(w) \/ RecordAccess(w)
      PROVE  TrailInv' /\ TrailAppended
  <2>1. UNCHANGED trail
    BY <1>2 DEF UpsertTerm, CommitRecord, RecordAccess
  <2>2. QED
    BY <2>1, AccessTouches, TouchSteady DEF TrailInv
<1>3. QED
  BY <1>1, <1>2 DEF LoudAccess

LEMMA RevisingTrail ==
    ASSUME TrailInv, Shape', LoudRevising PROVE TrailInv' /\ TrailAppended
<1>1. ASSUME NEW w \in Workers, NEW n \in Sources, NEW m \in Mappings, BeginRevise(w, n, m)
      PROVE  TrailInv' /\ TrailAppended
  <2>1. UNCHANGED trail /\ \A x \in Workers : request'[x] = request[x] \/ request'[x].pc # "inserted"
    BY <1>1 DEF BeginRevise, Ask, TrailInv, Shape
  <2>2. QED
    BY <2>1, TrailSteady
<1>2. ASSUME NEW w \in Workers, CheckTables(w) \/ CheckTerms(w) \/ NumberMapping(w)
      PROVE  TrailInv' /\ TrailAppended
  <2>1. UNCHANGED trail
    BY <1>2 DEF CheckTables, CheckTerms, NumberMapping
  <2>2. \/ Refused(w)
        \/ \E o \in observed : Goes(w, [request[w] EXCEPT !.pc = "terms", !.run = o.run])
        \/ \E v : Goes(w, [request[w] EXCEPT !.pc = "number", !.against = v])
        \/ \E k : Goes(w, [request[w] EXCEPT !.pc = "insert", !.revision = k])
    BY <1>2 DEF CheckTables, CheckTerms, NumberMapping, Latest
  <2>3. ASSUME NEW r, Goes(w, r), r.pc # "inserted"
        PROVE  TrailInv' /\ TrailAppended
    BY <2>1, <2>3, TrailSteady DEF Goes, TrailInv, Shape
  <2>4. Idle.pc # "inserted" /\ "pc" \in DOMAIN request[w]
    BY Fields DEF Idle, TrailInv, Shape
  <2>5. QED
    BY <2>2, <2>3, <2>4 DEF Refused
<1>3. ASSUME NEW w \in Workers, InsertMapping(w) PROVE TrailInv' /\ TrailAppended
  <2>1. CASE Refused(w) /\ UNCHANGED trail
    <3>1. \A x \in Workers : request'[x] = request[x] \/ request'[x].pc # "inserted"
      BY <2>1 DEF Refused, Idle, Goes, TrailInv, Shape
    <3>2. QED
      BY <2>1, <3>1, TrailSteady
  <2>2. CASE /\ Goes(w, [request[w] EXCEPT !.pc = "inserted", !.aid = lastAudit + 1])
             /\ Audited /\ UNCHANGED audit
    <3>1. request'[w].aid = lastAudit + 1 /\ \A x \in Workers \ {w} : request'[x] = request[x]
      BY <1>3, <2>2 DEF InsertMapping, Goes, TrailInv, Shape, HasShape
    <3>2. QED
      BY <2>2, <3>1, TrailFlushed
  <2>3. QED
    BY <1>3, <2>1, <2>2 DEF InsertMapping, trail
<1>4. ASSUME NEW w \in Workers, CommitMapping(w) PROVE TrailInv' /\ TrailAppended
  <2>1. request'[w].pc = "answered" /\ \A x \in Workers \ {w} : request'[x] = request[x]
    BY <1>4, Answered DEF CommitMapping, TrailInv, Shape, Moves
  <2>2. QED
    BY <1>4, <2>1, TrailCommitted DEF CommitMapping
<1>5. QED
  BY <1>1, <1>2, <1>3, <1>4 DEF LoudRevising

LEMMA RegistersTrail ==
    ASSUME TrailInv, Shape', LoudRegisters PROVE TrailInv' /\ TrailAppended
<1>1. ASSUME NEW w \in Workers, CommitDeclare(w) PROVE TrailInv' /\ TrailAppended
  <2>1. CASE Refused(w) /\ UNCHANGED trail
    <3>1. \A x \in Workers : request'[x] = request[x] \/ request'[x].pc # "inserted"
      BY <2>1 DEF Refused, Idle, Goes, TrailInv, Shape
    <3>2. QED
      BY <2>1, <3>1, TrailSteady
  <2>2. CASE /\ Goes(w, [request[w] EXCEPT !.pc = "reread"])
             /\ Audited /\ audit' = AuditRow(request[w], lastAudit')
    <3>1. request'[w].pc = "reread" /\ \A x \in Workers \ {w} : request'[x] = request[x]
      BY <2>2, Fields DEF Goes, TrailInv, Shape
    <3>2. QED
      BY <2>2, <3>1, TrailWritten
  <2>3. QED
    BY <1>1, <2>1, <2>2 DEF CommitDeclare
<1>2. ASSUME NEW w \in Workers, CommitRevoke(w) PROVE TrailInv' /\ TrailAppended
  <2>1. request'[w].pc = "answered" /\ \A x \in Workers \ {w} : request'[x] = request[x]
    BY <1>2, Answered DEF CommitRevoke, TrailInv, Shape, Moves
  <2>2. QED
    BY <1>2, <2>1, TrailWritten DEF CommitRevoke
<1>3. CASE UNCHANGED trail
  BY <1>3, RegistersTouches, TouchSteady DEF TrailInv
<1>4. QED
  BY <1>1, <1>2, <1>3 DEF LoudRegisters, BeginDeclare, BeginAssign, CommitAssign, CommitUnassign

LEMMA SearchTrail ==
    ASSUME TrailInv, Shape', LoudSearch PROVE TrailInv' /\ TrailAppended
<1>1. ASSUME NEW w \in Workers, InsertTerms(w) PROVE TrailInv' /\ TrailAppended
  <2>1. CASE Refused(w) /\ UNCHANGED trail
    <3>1. \A x \in Workers : request'[x] = request[x] \/ request'[x].pc # "inserted"
      BY <2>1 DEF Refused, Idle, Goes, TrailInv, Shape
    <3>2. QED
      BY <2>1, <3>1, TrailSteady
  <2>2. CASE /\ Goes(w, [request[w] EXCEPT !.pc = "inserted", !.aid = lastAudit + 1])
             /\ Audited /\ UNCHANGED audit
    <3>1. request'[w].aid = lastAudit + 1 /\ \A x \in Workers \ {w} : request'[x] = request[x]
      BY <1>1, <2>2 DEF InsertTerms, Goes, TrailInv, Shape, HasShape
    <3>2. QED
      BY <2>2, <3>1, TrailFlushed
  <2>3. QED
    BY <1>1, <2>1, <2>2 DEF InsertTerms, trail
<1>2. ASSUME NEW w \in Workers, CommitRebuild(w) PROVE TrailInv' /\ TrailAppended
  <2>1. request'[w].pc = "answered" /\ \A x \in Workers \ {w} : request'[x] = request[x]
    BY <1>2, Answered DEF CommitRebuild, TrailInv, Shape, Moves
  <2>2. QED
    BY <1>2, <2>1, TrailCommitted DEF CommitRebuild
<1>3. QED
  BY <1>1, <1>2 DEF LoudSearch

LEMMA TrailKept == ASSUME TrailInv, [Next]_vars PROVE TrailInv' /\ TrailAppended
<1>1. Shape /\ Shape'
  BY ShapeKept DEF TrailInv
<1>2. CASE Quiet
  <2>1. \A w \in Workers : request'[w] = request[w] \/ request'[w].pc # "inserted"
    BY <1>2 DEF Quiet, Moves, Busy, TrailInv, Shape
  <2>2. QED
    BY <1>1, <1>2, <2>1, TrailSteady DEF Quiet
<1>3. CASE LoudSources
  BY <1>1, <1>3, TrailSteady DEF LoudSources, RegisterSource, RemoveSource, CompleteScan
<1>4. CASE LoudAsking
  BY <1>1, <1>4, AskingTouches, TouchSteady DEF LoudAsking, RecordVkgAccess
<1>5. QED
  BY <1>1, <1>2, <1>3, <1>4, AccessTrail, RevisingTrail, RegistersTrail, SearchTrail, Steps

\* Every row of the audit trail is there for ever as it was committed: no two
\* requests commit a row with one id, whoever flushed first and whoever died in
\* between (record of repositories/audit.py, and the callers that flush).
THEOREM TrailOnlyGrows == Spec => [][TrailAppended]_audit
<1>1. TrailInv /\ [Next]_vars => TrailInv' /\ [TrailAppended]_audit
  BY TrailKept
<1>2. QED
  BY TrailAtFirst, <1>1, PTL DEF Spec

-----------------------------------------------------------------------------
EventFields == {"ns", "terms", "purged"}

LogSound == /\ lastEvent \in Nat /\ DOMAIN log \subseteq 1 .. lastEvent
            /\ \A i \in DOMAIN log : EventFields \subseteq DOMAIN log[i]
            /\ counts \in [Namespaces \X Terms -> Nat]

\* A recording in flight, if r is one.
RecordSound(r) ==
    r.pc = "upsert" =>
        /\ r.rec.id \in (1 .. lastEvent) \ DOMAIN log
        /\ EventFields \subseteq DOMAIN r.rec.event /\ r.rec.event.ns = r.ns
        /\ r.rec.held \subseteq {<<r.ns, r.rec.event.terms[k]>> : k \in DOMAIN r.rec.event.terms}

RecordsSound == \A w \in Workers : RecordSound(request[w])

IdsApart == \A w, x \in Workers :
                /\ request[w].pc = "upsert" /\ request[x].pc = "upsert"
                /\ request[w].rec.id = request[x].rec.id
                => w = x

AccessInv == Shape /\ LogSound /\ RecordsSound /\ IdsApart /\ CountsMatch

\* The rows that count for term t of namespace n.
Mentions(e, n, t) == e.ns = n /\ \E k \in DOMAIN e.terms : e.terms[k] = t
Counting(n, t) == {i \in DOMAIN log : Mentions(log[i], n, t)}

-----------------------------------------------------------------------------
\* As long as neither table is written, they agree.
LEMMA CountsStay == ASSUME CountsMatch, log' = log, counts' = counts PROVE CountsMatch'
<1>1. SUFFICES ASSUME NEW n \in Namespaces, NEW t \in Terms
               PROVE  counts'[<<n, t>>] = Cardinality(Counting(n, t)')
  BY Zenon DEF CountsMatch, Counting, Mentions
<1>2. Counting(n, t)' = Counting(n, t)
  BY Zenon DEF Counting, Mentions
<1>3. counts[<<n, t>>] = Cardinality(Counting(n, t))
  BY Zenon DEF CountsMatch, Counting, Mentions
<1>4. QED
  BY <1>2, <1>3, Zenon

\* A step that writes nothing of the log and lets no recording begin or move.
LEMMA Steady ==
    ASSUME AccessInv, Shape', UNCHANGED records,
           \A w \in Workers : request'[w] = request[w] \/ request'[w].pc # "upsert"
    PROVE  AccessInv'
<1> USE DEF records
<1>1. LogSound'
  BY DEF AccessInv, LogSound
<1>2. RecordsSound'
  BY DEF AccessInv, RecordsSound, RecordSound
<1>3. IdsApart'
  BY DEF AccessInv, IdsApart
<1>4. CountsMatch'
  BY CountsStay DEF AccessInv
<1>5. QED
  BY <1>1, <1>2, <1>3, <1>4 DEF AccessInv

LEMMA QuietSteady == ASSUME AccessInv, Shape', Quiet PROVE AccessInv'
<1>1. \A w \in Workers : request'[w] = request[w] \/ request'[w].pc # "upsert"
  BY DEF Quiet, Moves, Busy, AccessInv, Shape
<1>2. QED
  BY <1>1, Steady DEF Quiet

\* Nor do requests of other kinds.
LEMMA OthersSteady ==
    ASSUME AccessInv, Shape', UNCHANGED records,
           NEW kinds, Touches(kinds), kinds \cap {"query", "askSource"} = {}
    PROVE  AccessInv'
<1>1. \A w \in Workers : request'[w] = request[w] \/ request'[w].pc # "upsert"
  BY DEF Touches, Moves, HasShape, AccessInv, Shape
<1>2. QED
  BY <1>1, Steady

\* An event is flushed: it gets an id that no other has or had.
LEMMA Begun ==
    ASSUME AccessInv, Shape', NEW w \in Workers, NEW e,
           EventFields \subseteq DOMAIN e, e.ns = request[w].ns,
           request[w].kind \in {"query", "askSource"},
           Goes(w, Recording(request[w], e)),
           lastEvent' = lastEvent + 1, UNCHANGED <<log, counts>>
    PROVE  AccessInv'
<1> DEFINE r == Recording(request[w], e)
<1>1. r.pc = "upsert" /\ r.ns = e.ns /\ r.rec = [id |-> lastEvent + 1, event |-> e, held |-> {}]
  BY Fields DEF AccessInv, Shape, HasShape, Recording
<1>2. request' = [request EXCEPT ![w] = r] /\ DOMAIN request = Workers
  BY DEF Goes, AccessInv, Shape
<1> HIDE DEF r
<1>3. LogSound'
  BY DEF AccessInv, LogSound
<1>4. RecordsSound'
  <2>1. request'[w] = r
    BY <1>2
  <2>2. RecordSound(request[w])'
    BY <1>1, <2>1 DEF AccessInv, LogSound, RecordSound
  <2>3. ASSUME NEW x \in Workers \ {w} PROVE RecordSound(request[x])'
    BY <1>2 DEF AccessInv, LogSound, RecordsSound, RecordSound
  <2>4. QED
    BY <2>2, <2>3 DEF RecordsSound
<1>5. IdsApart'
  <2>1. \A x \in Workers : request[x].pc = "upsert" => request[x].rec.id # r.rec.id
    BY <1>1 DEF AccessInv, LogSound, RecordsSound, RecordSound
  <2>2. QED
    BY <1>2, <2>1 DEF AccessInv, IdsApart
<1>6. CountsMatch'
  BY CountsStay DEF AccessInv
<1>7. QED
  BY <1>3, <1>4, <1>5, <1>6 DEF AccessInv

LEMMA RecordAccessKeeps ==
    ASSUME AccessInv, Shape', NEW w \in Workers, RecordAccess(w) PROVE AccessInv'
<1>1. EventFields \subseteq DOMAIN QueryRecord(request[w]) /\ QueryRecord(request[w]).ns = request[w].ns
  BY DEF QueryRecord, Record, EventFields
<1>2. QED
  BY <1>1, Begun DEF RecordAccess

LEMMA RecordVkgAccessKeeps ==
    ASSUME AccessInv, Shape', NEW w \in Workers, RecordVkgAccess(w) PROVE AccessInv'
<1> DEFINE e == Record(request[w], 0, request[w].name, request[w].revision,
                       RowCount(request[w], request[w].rows), <<>>)
<1>1. EventFields \subseteq DOMAIN e /\ e.ns = request[w].ns
  BY DEF Record, EventFields
<1>2. Goes(w, Recording(request[w], e)) /\ request[w].kind = "askSource"
      /\ lastEvent' = lastEvent + 1 /\ UNCHANGED <<log, counts>>
  BY DEF RecordVkgAccess
<1> HIDE DEF e
<1>3. QED
  BY <1>1, <1>2, Begun

\* One more row is locked: a row of one of its own terms.
LEMMA UpsertTermKeeps ==
    ASSUME AccessInv, Shape', NEW w \in Workers, UpsertTerm(w) PROVE AccessInv'
<1>1. PICK k \in First(w) : Goes(w, [request[w] EXCEPT !.rec.held = @ \cup {Row(w, k)}])
  BY DEF UpsertTerm
<1> DEFINE r == [request[w] EXCEPT !.rec.held = @ \cup {Row(w, k)}]
<1>2. request[w].pc = "upsert" /\ k \in DOMAIN request[w].rec.event.terms
  BY <1>1 DEF First, Todo
<1>3. /\ r.pc = "upsert" /\ r.ns = request[w].ns
      /\ r.rec.id = request[w].rec.id /\ r.rec.event = request[w].rec.event
      /\ r.rec.held = request[w].rec.held \cup {<<r.ns, r.rec.event.terms[k]>>}
  BY <1>2, Fields DEF AccessInv, Shape, HasShape, Row
<1>4. request' = [request EXCEPT ![w] = r] /\ DOMAIN request = Workers
  BY <1>1 DEF Goes, AccessInv, Shape
<1>5. UNCHANGED records
  BY DEF UpsertTerm
<1> HIDE DEF r
<1> USE DEF records
<1>6. LogSound'
  BY <1>5 DEF AccessInv, LogSound
<1>7. RecordsSound'
  <2>1. RecordSound(request[w])
    BY DEF AccessInv, RecordsSound
  <2>2. request'[w] = r
    BY <1>4
  <2>3. RecordSound(request[w])'
    BY <1>2, <1>3, <1>5, <2>1, <2>2 DEF RecordSound
  <2>4. ASSUME NEW x \in Workers \ {w} PROVE RecordSound(request[x])'
    BY <1>4, <1>5 DEF AccessInv, RecordsSound, RecordSound
  <2>5. QED
    BY <2>3, <2>4 DEF RecordsSound
<1>8. IdsApart'
  BY <1>2, <1>3, <1>4 DEF AccessInv, IdsApart
<1>9. CountsMatch'
  BY <1>5, CountsStay DEF AccessInv
<1>10. QED
  BY <1>6, <1>7, <1>8, <1>9 DEF AccessInv

-----------------------------------------------------------------------------
\* The commit makes the row visible and the counts grow with it.
LEMMA CommitRecordKeeps ==
    ASSUME AccessInv, Shape', NEW w \in Workers, CommitRecord(w) PROVE AccessInv'
<1> DEFINE rec == request[w].rec
           id == rec.id
           e == rec.event
<1>1. /\ id \in (1 .. lastEvent) \ DOMAIN log
      /\ EventFields \subseteq DOMAIN e
      /\ rec.held \subseteq {<<e.ns, e.terms[k]>> : k \in DOMAIN e.terms}
      /\ lastEvent \in Nat /\ DOMAIN log \subseteq 1 .. lastEvent
  BY DEF CommitRecord, AccessInv, LogSound, RecordsSound, RecordSound
<1>2. \A k \in DOMAIN e.terms : <<e.ns, e.terms[k]>> \in rec.held
  BY DEF CommitRecord, Todo, Row, Held, AccessInv, RecordsSound, RecordSound
<1>3. /\ log' = [i \in DOMAIN log \cup {id} |-> IF i = id THEN e ELSE log[i]]
      /\ counts' = Counted(rec.held) /\ lastEvent' = lastEvent
  BY DEF CommitRecord
<1>4. request'[w].pc = "answered" /\ \A x \in Workers \ {w} : request'[x] = request[x]
  BY Answered DEF CommitRecord, AccessInv, Shape, Moves
<1>5. \A x \in Workers \ {w} : request[x].pc = "upsert" => request[x].rec.id # id
  BY DEF CommitRecord, AccessInv, IdsApart
<1> HIDE DEF id, e
<1>6. LogSound'
  <2>1. \A i \in DOMAIN log' : i \in 1 .. lastEvent' /\ EventFields \subseteq DOMAIN (log'[i])
    BY <1>1, <1>3 DEF AccessInv, LogSound
  <2>2. counts' \in [Namespaces \X Terms -> Nat]
    BY <1>3 DEF AccessInv, LogSound, Counted
  <2>3. QED
    BY <1>3, <2>1, <2>2 DEF AccessInv, LogSound
<1>7. RecordsSound'
  <2>1. ASSUME NEW x \in Workers PROVE RecordSound(request[x])'
    BY <1>3, <1>4, <1>5 DEF AccessInv, RecordsSound, RecordSound
  <2>2. QED
    BY <2>1 DEF RecordsSound
<1>8. IdsApart'
  BY <1>4 DEF AccessInv, IdsApart
<1>9. CountsMatch'
  <2> SUFFICES ASSUME NEW n \in Namespaces, NEW t \in Terms
               PROVE  counts'[<<n, t>>] = Cardinality(Counting(n, t)')
    BY DEF CountsMatch, Counting, Mentions
  <2>1. IsFiniteSet(Counting(n, t)) /\ id \notin Counting(n, t)
    <3>1. IsFiniteSet(1 .. lastEvent)
      BY <1>1, FS_Interval
    <3>2. Counting(n, t) \subseteq 1 .. lastEvent /\ id \notin Counting(n, t)
      BY <1>1 DEF Counting
    <3>3. QED
      BY <3>1, <3>2, FS_Subset
  <2>2. counts[<<n, t>>] = Cardinality(Counting(n, t)) /\ counts[<<n, t>>] \in Nat
    BY DEF AccessInv, LogSound, CountsMatch, Counting, Mentions
  <2>3. counts'[<<n, t>>] = counts[<<n, t>>] + (IF <<n, t>> \in rec.held THEN 1 ELSE 0)
    BY <1>3 DEF AccessInv, LogSound, Counted
  <2>4. <<n, t>> \in rec.held <=> Mentions(e, n, t)
    BY <1>1, <1>2 DEF Mentions
  <2>5. Counting(n, t)' = IF Mentions(e, n, t) THEN Counting(n, t) \cup {id} ELSE Counting(n, t)
    BY <1>1, <1>3 DEF Counting, Mentions
  <2>6. Cardinality(Counting(n, t) \cup {id}) = Cardinality(Counting(n, t)) + 1
    BY <2>1, FS_AddElement
  <2>7. QED
    BY <2>2, <2>3, <2>4, <2>5, <2>6
<1>10. QED
  BY <1>6, <1>7, <1>8, <1>9 DEF AccessInv

\* A purge marks rows and leaves what they count.
LEMMA DeleteRowsKeeps ==
    ASSUME AccessInv, Shape', NEW w \in Workers, DeleteRows(w) PROVE AccessInv'
<1>1. /\ log' = [i \in DOMAIN log |-> IF i \in request[w].rows
                                      THEN [log[i] EXCEPT !.purged = TRUE] ELSE log[i]]
      /\ UNCHANGED <<lastEvent, counts>>
  BY DEF DeleteRows
<1>2. request'[w].pc = "answered" /\ \A x \in Workers \ {w} : request'[x] = request[x]
  BY Answered DEF DeleteRows, AccessInv, Shape, Moves
<1>3. /\ DOMAIN log' = DOMAIN log
      /\ \A i \in DOMAIN log : /\ DOMAIN (log'[i]) = DOMAIN log[i]
                               /\ log'[i].ns = log[i].ns /\ log'[i].terms = log[i].terms
  BY <1>1 DEF AccessInv, LogSound, EventFields
<1>4. LogSound'
  BY <1>1, <1>3 DEF AccessInv, LogSound
<1>5. RecordsSound'
  BY <1>1, <1>2, <1>3 DEF AccessInv, RecordsSound, RecordSound
<1>6. IdsApart'
  BY <1>2 DEF AccessInv, IdsApart
<1>7. CountsMatch'
  <2> SUFFICES ASSUME NEW n \in Namespaces, NEW t \in Terms
               PROVE  counts'[<<n, t>>] = Cardinality(Counting(n, t)')
    BY DEF CountsMatch, Counting, Mentions
  <2>1. Counting(n, t)' = Counting(n, t)
    BY <1>3 DEF Counting, Mentions
  <2>2. QED
    BY <1>1, <2>1 DEF AccessInv, CountsMatch, Counting, Mentions
<1>8. QED
  BY <1>4, <1>5, <1>6, <1>7 DEF AccessInv

-----------------------------------------------------------------------------
\* AccessInv holds at first: nothing is recorded.
LEMMA AccessAtFirst == ASSUME Init PROVE AccessInv
<1>1. Shape
  BY ShapeAtFirst
<1>2. LogSound
  BY DEF Init, LogInit, LogSound
<1>3. RecordsSound /\ IdsApart
  BY DEF Init, VocabularyInit, RecordsSound, RecordSound, IdsApart, Idle
<1>4. CountsMatch
  BY FS_EmptySet DEF Init, LogInit, CountsMatch
<1>5. QED
  BY <1>1, <1>2, <1>3, <1>4 DEF AccessInv

\* And every step of every component keeps it.
LEMMA AccessKept == ASSUME AccessInv, [Next]_vars PROVE AccessInv'
<1>1. Shape /\ Shape'
  BY ShapeKept DEF AccessInv
<1>2. CASE Quiet
  BY <1>1, <1>2, QuietSteady
<1>3. CASE LoudAccess
  BY <1>1, <1>3, UpsertTermKeeps, CommitRecordKeeps, DeleteRowsKeeps, RecordAccessKeeps
     DEF LoudAccess
<1>4. CASE LoudSources
  BY <1>1, <1>4, Steady DEF LoudSources, RegisterSource, RemoveSource, CompleteScan
<1>5. CASE LoudRevising
  <2>1. UNCHANGED records
    BY <1>5 DEF LoudRevising, BeginRevise, CheckTables, CheckTerms, NumberMapping,
               InsertMapping, CommitMapping
  <2>2. QED
    BY <1>1, <1>5, <2>1, RevisingTouches, OthersSteady
<1>6. CASE LoudAsking
  BY <1>1, <1>6, RecordVkgAccessKeeps DEF LoudAsking
<1>7. CASE LoudRegisters
  BY <1>1, <1>7, RegistersTouches, OthersSteady DEF LoudRegisters
<1>8. CASE LoudSearch
  BY <1>1, <1>8, SearchTouches, OthersSteady DEF LoudSearch
<1>9. QED
  BY <1>1, <1>2, <1>3, <1>4, <1>5, <1>6, <1>7, <1>8, Steps

\* The inductive invariant of the access log (recording of repositories/access.py).
THEOREM AccessInvariant == Spec => []AccessInv
<1>1. QED
  BY AccessAtFirst, AccessKept, PTL DEF Spec

\* The count of each term is the number of recorded answers it was in, whatever
\* the number of overlapping recordings, however many of them fail, and whatever
\* is purged (record of repositories/access.py).
THEOREM CountsAlwaysMatch == Spec => []CountsMatch
<1>1. AccessInv => CountsMatch
  BY DEF AccessInv
<1>2. QED
  BY AccessInvariant, <1>1, PTL

-----------------------------------------------------------------------------
\* The terms of a sequence follow each other in the order of code points.
Increasing(s) == \A k, l \in DOMAIN s : k < l => CodePoint(s[k]) < CodePoint(s[l])

LEMMA CodePoints ==
    /\ Len(TermOrder) \in Nat /\ DOMAIN TermOrder = 1 .. Len(TermOrder)
    /\ \A i \in DOMAIN TermOrder : CodePoint(TermOrder[i]) = i
    /\ \A t \in Terms : CodePoint(t) \in DOMAIN TermOrder /\ TermOrder[CodePoint(t)] = t
<1>1. Len(TermOrder) \in Nat /\ DOMAIN TermOrder = 1 .. Len(TermOrder)
  BY Vocabularies, LenProperties
<1>2. \A i \in DOMAIN TermOrder : CodePoint(TermOrder[i]) = i
  BY Vocabularies DEF CodePoint
<1>3. \A t \in Terms : \E i \in DOMAIN TermOrder : TermOrder[i] = t
  BY DEF Terms
<1>4. QED
  BY <1>1, <1>2, <1>3

\* sorted() of a set of terms has each of them once, in order.
LEMMA SortedOnes ==
    ASSUME NEW S
    PROVE  /\ Sorted(S) \in Seq(Terms)
           /\ Len(Sorted(S)) \in Nat /\ DOMAIN Sorted(S) = 1 .. Len(Sorted(S))
           /\ \A k \in DOMAIN Sorted(S) : Sorted(S)[k] \in S \cap Terms
           /\ \A t \in S \cap Terms : \E k \in DOMAIN Sorted(S) : Sorted(S)[k] = t
           /\ Increasing(Sorted(S))
<1> DEFINE P == {i \in DOMAIN TermOrder : TermOrder[i] \in S}
           s == Chosen(TermOrder, P)
<1>1. /\ s \in Seq(Terms) /\ Len(s) = Cardinality(P) /\ IsFiniteSet(P)
      /\ DOMAIN s = 1 .. Cardinality(P)
      /\ \A k \in DOMAIN s : \E i \in P : s[k] = TermOrder[i]
      /\ \A i \in P : \E k \in DOMAIN s : s[k] = TermOrder[i]
      /\ \A k, l \in DOMAIN s : k < l =>
            \E i, j \in P : i < j /\ s[k] = TermOrder[i] /\ s[l] = TermOrder[j]
  <2>1. TermOrder \in Seq(Terms) /\ P \in SUBSET DOMAIN TermOrder
    BY Vocabularies
  <2> HIDE DEF P
  <2>2. QED
    BY <2>1, ChosenOnes
<1>2. Cardinality(P) \in Nat
  BY <1>1, FS_CardinalityType
<1>3. Sorted(S) = s
  BY DEF Sorted
<1>4. \A k \in DOMAIN s : s[k] \in S \cap Terms
  BY <1>1 DEF Terms
<1>5. ASSUME NEW t \in S \cap Terms PROVE \E k \in DOMAIN s : s[k] = t
  <2>1. PICK i \in P : TermOrder[i] = t
    BY DEF Terms
  <2> HIDE DEF P, s
  <2>2. QED
    BY <1>1, <2>1
<1>6. ASSUME NEW k \in DOMAIN s, NEW l \in DOMAIN s, k < l
      PROVE  CodePoint(s[k]) < CodePoint(s[l])
  <2>1. PICK i \in P, j \in P : i < j /\ s[k] = TermOrder[i] /\ s[l] = TermOrder[j]
    <3> HIDE DEF P, s
    <3>1. QED
      BY <1>1, <1>6
  <2>2. CodePoint(s[k]) = i /\ CodePoint(s[l]) = j
    BY <2>1, CodePoints
  <2>3. QED
    BY <2>1, <2>2
<1> HIDE DEF P, s
<1>7. QED
  BY <1>1, <1>2, <1>3, <1>4, <1>5, <1>6 DEF Increasing

LEMMA SortedNone == Sorted({}) = <<>>
<1>1. Sorted({}) \in Seq(Terms) /\ DOMAIN Sorted({}) = {}
  BY SortedOnes
<1>2. QED
  BY <1>1, SortedOnes

-----------------------------------------------------------------------------
\* What a recording has locked is a beginning of what it will lock, in order.
LockSound(r) ==
    r.pc = "upsert" =>
        /\ r.rec.event.terms \in Seq(Terms) /\ Increasing(r.rec.event.terms)
        /\ \E k \in 1 .. Len(r.rec.event.terms) + 1 :
              r.rec.held = {<<r.ns, r.rec.event.terms[j]>> : j \in 1 .. k - 1}

LocksInv == Shape /\ \A w \in Workers : LockSound(request[w])

\* The places that w still needs are those from some k on.
LEMMA TodoFrom ==
    ASSUME LocksInv, NEW w \in Workers, request[w].pc = "upsert"
    PROVE  LET terms == request[w].rec.event.terms
           IN  \E k \in 1 .. Len(terms) + 1 :
                  /\ Held(w) = {<<request[w].ns, terms[j]>> : j \in 1 .. k - 1}
                  /\ Todo(w) = k .. Len(terms)
                  /\ First(w) = IF k <= Len(terms) THEN {k} ELSE {}
<1> DEFINE terms == request[w].rec.event.terms
           ns == request[w].ns
<1>1. terms \in Seq(Terms) /\ Increasing(terms)
      /\ \E k \in 1 .. Len(terms) + 1 : request[w].rec.held = {<<ns, terms[j]>> : j \in 1 .. k - 1}
  BY DEF LocksInv, LockSound
<1>2. PICK k \in 1 .. Len(terms) + 1 : Held(w) = {<<ns, terms[j]>> : j \in 1 .. k - 1}
  BY <1>1 DEF Held
<1>3. Len(terms) \in Nat /\ DOMAIN terms = 1 .. Len(terms) /\ \A j \in DOMAIN terms : terms[j] \in Terms
  BY <1>1
<1>4. \A i, j \in DOMAIN terms : CodePoint(terms[i]) \in Nat /\ (i < j => CodePoint(terms[i]) < CodePoint(terms[j]))
  <2>1. \A j \in DOMAIN terms : CodePoint(terms[j]) \in Nat
    BY <1>3, CodePoints
  <2>2. \A i, j \in DOMAIN terms : i < j => CodePoint(terms[i]) < CodePoint(terms[j])
    BY <1>1, Zenon DEF Increasing
  <2>3. QED
    BY <2>1, <2>2
<1>5. \A i, j \in DOMAIN terms : i < j => terms[i] # terms[j]
  BY <1>4
<1>6. Todo(w) = {j \in 1 .. Len(terms) : <<ns, terms[j]>> \notin Held(w)}
  BY <1>3 DEF Todo, Row
<1> HIDE DEF terms, ns
<1>7. Todo(w) = k .. Len(terms)
  <2>1. \A j \in 1 .. Len(terms) : <<ns, terms[j]>> \in Held(w) <=> j < k
    BY <1>2, <1>3, <1>5
  <2>2. QED
    BY <1>3, <1>6, <2>1
<1>8. First(w) = IF k <= Len(terms) THEN {k} ELSE {}
  <2>1. First(w) = {i \in k .. Len(terms) : \A j \in k .. Len(terms) : i <= j}
    BY <1>7 DEF First
  <2>2. CASE k <= Len(terms)
    <3>1. k \in k .. Len(terms) /\ \A i \in k .. Len(terms) : k <= i
      BY <1>3, <2>2
    <3>2. QED
      BY <1>3, <2>1, <2>2, <3>1
  <2>3. CASE ~(k <= Len(terms))
    BY <1>3, <2>1, <2>3
  <2>4. QED
    BY <2>2, <2>3
<1>9. QED
  BY <1>2, <1>7, <1>8 DEF terms, ns

\* Recordings that lock in one order cannot wait in a circle.
LEMMA NoCycle == ASSUME LocksInv PROVE NoLockCycle
<1> SUFFICES ASSUME NEW S \in SUBSET Workers, S # {}
             PROVE  \E w \in S : \A x \in S : ~Waits(w, x)
  BY Zenon DEF NoLockCycle
<1>1. CASE \E w \in S : First(w) = {}
  BY <1>1 DEF Waits
<1>2. CASE \A w \in S : First(w) # {}
  <2> DEFINE place(w, k) == CodePoint(request[w].rec.event.terms[k])
             Q == {q \in 1 .. Len(TermOrder) : \E w \in S : \E k \in First(w) : place(w, k) = q}
  <2>1. ASSUME NEW w \in S
        PROVE  /\ request[w].pc = "upsert"
               /\ \E k \in 1 .. Len(request[w].rec.event.terms) :
                     /\ First(w) = {k} /\ place(w, k) \in Q
                     /\ Held(w) = {<<request[w].ns, request[w].rec.event.terms[j]>> : j \in 1 .. k - 1}
                     /\ \A j \in 1 .. k - 1 : place(w, j) < place(w, k)
    <3>1. request[w].pc = "upsert"
      BY <1>2 DEF First, Todo
    <3> DEFINE terms == request[w].rec.event.terms
    <3>2. terms \in Seq(Terms) /\ Increasing(terms)
      BY <3>1 DEF LocksInv, LockSound
    <3>3. PICK k \in 1 .. Len(terms) : /\ First(w) = {k}
             /\ Held(w) = {<<request[w].ns, terms[j]>> : j \in 1 .. k - 1}
      BY <1>2, <3>1, <3>2, TodoFrom
    <3> HIDE DEF terms
    <3>4. CodePoint(terms[k]) \in 1 .. Len(TermOrder)
      BY <3>2, CodePoints
    <3>5. \A j \in 1 .. k - 1 : CodePoint(terms[j]) < CodePoint(terms[k])
      BY <3>2 DEF Increasing
    <3>6. QED
      BY <3>1, <3>3, <3>4, <3>5 DEF terms
  <2>2. PICK q \in Q : \A p \in Q : p <= q
    <3>1. Q \in SUBSET Nat /\ Q # {} /\ Len(TermOrder) \in Nat /\ \A p \in Q : p <= Len(TermOrder)
      BY <2>1, CodePoints
    <3> HIDE DEF Q
    <3>2. QED
      BY <3>1, GreatestOf
  <2>3. PICK w \in S : \E k \in First(w) : place(w, k) = q
    OBVIOUS
  <2>4. ASSUME NEW x \in S, Waits(w, x) PROVE FALSE
    <3>1. PICK k \in First(w) : Row(w, k) \in Held(x)
      BY <2>4 DEF Waits
    <3>2. place(w, k) = q
      BY <2>1, <2>3, <3>1
    <3>3. PICK l \in 1 .. Len(request[x].rec.event.terms) :
             /\ place(x, l) \in Q
             /\ Held(x) = {<<request[x].ns, request[x].rec.event.terms[j]>> : j \in 1 .. l - 1}
             /\ \A j \in 1 .. l - 1 : place(x, j) < place(x, l)
      BY <2>1
    <3>4. PICK j \in 1 .. l - 1 : request[x].rec.event.terms[j] = request[w].rec.event.terms[k]
      BY <3>1, <3>3 DEF Row
    <3>5. place(x, j) = q
      BY <3>2, <3>4
    <3>6. q < place(x, l) /\ place(x, l) <= q /\ place(x, l) \in Nat /\ q \in Nat
      BY <2>2, <3>3, <3>5
    <3> HIDE DEF place
    <3>7. QED
      BY <3>6
  <2>5. QED
    BY <2>4
<1>3. QED
  BY <1>1, <1>2

-----------------------------------------------------------------------------
LEMMA LocksSteady ==
    ASSUME LocksInv, Shape',
           \A w \in Workers : request'[w] = request[w] \/ request'[w].pc # "upsert"
    PROVE  LocksInv'
<1>1. ASSUME NEW w \in Workers PROVE LockSound(request'[w])
  <2>1. CASE request'[w] = request[w]
    BY <2>1 DEF LocksInv
  <2>2. CASE request'[w].pc # "upsert"
    BY <2>2 DEF LockSound
  <2>3. QED
    BY <2>1, <2>2
<1>2. QED
  BY <1>1 DEF LocksInv, LockSound

\* A recording begins without a lock, and its terms are sorted.
LEMMA LocksBegun ==
    ASSUME LocksInv, Shape', NEW w \in Workers, NEW e,
           request[w].kind \in {"query", "askSource"}, Goes(w, Recording(request[w], e)),
           e.terms \in Seq(Terms), Increasing(e.terms)
    PROVE  LocksInv'
<1> DEFINE r == Recording(request[w], e)
<1>1. r.pc = "upsert" /\ r.rec = [id |-> lastEvent + 1, event |-> e, held |-> {}]
  BY Fields DEF LocksInv, Shape, HasShape, Recording
<1>2. LockSound(r)
  <2>1. Len(e.terms) \in Nat
    OBVIOUS
  <2>2. 1 \in 1 .. Len(e.terms) + 1 /\ r.rec.held = {<<r.ns, e.terms[j]>> : j \in 1 .. 1 - 1}
    BY <1>1, <2>1
  <2>3. r.rec.event = e
    BY <1>1
  <2> HIDE DEF r
  <2>4. QED
    BY <2>2, <2>3 DEF LockSound
<1>3. request'[w] = r /\ \A x \in Workers \ {w} : request'[x] = request[x]
  BY DEF Goes, LocksInv, Shape
<1> HIDE DEF r
<1>4. \A x \in Workers : LockSound(request'[x])
  BY <1>2, <1>3, Zenon DEF LocksInv
<1>5. QED
  BY <1>4 DEF LocksInv, LockSound

LEMMA RecordLocks ==
    ASSUME LocksInv, Shape', NEW w \in Workers, RecordAccess(w) PROVE LocksInv'
<1>1. QueryRecord(request[w]).terms \in Seq(Terms) /\ Increasing(QueryRecord(request[w]).terms)
  BY SortedOnes DEF QueryRecord, Record, TermsWithPrefix, ReturnedTerms
<1>2. QED
  BY <1>1, LocksBegun DEF RecordAccess

LEMMA RecordVkgLocks ==
    ASSUME LocksInv, Shape', NEW w \in Workers, RecordVkgAccess(w) PROVE LocksInv'
<1> DEFINE e == Record(request[w], 0, request[w].name, request[w].revision,
                       RowCount(request[w], request[w].rows), <<>>)
<1>1. e.terms \in Seq(Terms) /\ Increasing(e.terms)
  BY DEF Record, Increasing
<1>2. Goes(w, Recording(request[w], e)) /\ request[w].kind = "askSource"
  BY DEF RecordVkgAccess
<1> HIDE DEF e
<1>3. QED
  BY <1>1, <1>2, LocksBegun

LEMMA UpsertLocks ==
    ASSUME LocksInv, Shape', NEW w \in Workers, UpsertTerm(w) PROVE LocksInv'
<1>1. PICK f \in First(w) : Goes(w, [request[w] EXCEPT !.rec.held = @ \cup {Row(w, f)}])
  BY DEF UpsertTerm
<1> DEFINE r == [request[w] EXCEPT !.rec.held = @ \cup {Row(w, f)}]
           terms == request[w].rec.event.terms
           ns == request[w].ns
<1>2. request[w].pc = "upsert" /\ HasShape(request[w])
  BY <1>1 DEF First, Todo, LocksInv, Shape
<1>3. terms \in Seq(Terms) /\ Increasing(terms)
  BY <1>2 DEF LocksInv, LockSound
<1>4. PICK k \in 1 .. Len(terms) :
         /\ request[w].rec.held = {<<ns, terms[j]>> : j \in 1 .. k - 1}
         /\ f = k
  <2>1. PICK k \in 1 .. Len(terms) + 1 :
           /\ Held(w) = {<<ns, terms[j]>> : j \in 1 .. k - 1}
           /\ First(w) = IF k <= Len(terms) THEN {k} ELSE {}
    BY <1>2, TodoFrom
  <2>2. k \in 1 .. Len(terms) /\ f = k
    BY <1>1, <1>3, <2>1
  <2>3. QED
    BY <1>2, <2>1, <2>2 DEF Held
<1>5. /\ r.pc = "upsert" /\ r.ns = ns /\ r.rec.event.terms = terms
      /\ r.rec.held = request[w].rec.held \cup {<<ns, terms[k]>>}
  BY <1>2, <1>4, Fields DEF HasShape, Row
<1>6. r.rec.held = {<<ns, terms[j]>> : j \in 1 .. (k + 1) - 1}
  <2> HIDE DEF r, terms, ns
  <2>1. 1 .. (k + 1) - 1 = (1 .. k - 1) \cup {k}
    BY <1>4
  <2>2. QED
    BY <1>4, <1>5, <2>1
<1>7. k + 1 \in 1 .. Len(terms) + 1
  BY <1>3, <1>4
<1>8. request'[w] = r /\ \A x \in Workers \ {w} : request'[x] = request[x]
  BY <1>1 DEF Goes, LocksInv, Shape
<1> HIDE DEF r, terms, ns
<1>9. LockSound(r)
  <2>1. r.rec.held = {<<r.ns, r.rec.event.terms[j]>> : j \in 1 .. (k + 1) - 1}
    BY <1>5, <1>6
  <2>2. k + 1 \in 1 .. Len(r.rec.event.terms) + 1
    BY <1>5, <1>7
  <2>3. r.rec.event.terms \in Seq(Terms) /\ Increasing(r.rec.event.terms)
    BY <1>3, <1>5
  <2>4. QED
    BY <2>1, <2>2, <2>3 DEF LockSound
<1>10. \A x \in Workers : LockSound(request'[x])
  BY <1>8, <1>9, Zenon DEF LocksInv
<1>11. QED
  BY <1>10 DEF LocksInv, LockSound

LEMMA LocksAtFirst == ASSUME Init PROVE LocksInv
BY ShapeAtFirst DEF Init, VocabularyInit, LocksInv, LockSound, Idle

LEMMA LocksKept == ASSUME LocksInv, [Next]_vars PROVE LocksInv'
<1>1. Shape /\ Shape'
  BY ShapeKept DEF LocksInv
<1>2. CASE Quiet
  <2>1. \A w \in Workers : request'[w] = request[w] \/ request'[w].pc # "upsert"
    BY <1>1, <1>2 DEF Quiet, Moves, Busy, Shape
  <2>2. QED
    BY <1>1, <2>1, LocksSteady
<1>3. ASSUME NEW kinds, Touches(kinds), kinds \cap {"query", "askSource"} = {} PROVE LocksInv'
  <2>1. \A w \in Workers : request'[w] = request[w] \/ request'[w].pc # "upsert"
    BY <1>1, <1>3 DEF Touches, Moves, HasShape, Shape
  <2>2. QED
    BY <1>1, <2>1, LocksSteady
<1>4. ASSUME NEW w \in Workers, CommitRecord(w) \/ DeleteRows(w) PROVE LocksInv'
  <2>1. request'[w].pc = "answered" /\ \A x \in Workers \ {w} : request'[x] = request[x]
    BY <1>1, <1>4, Answered DEF CommitRecord, DeleteRows, Shape, Moves
  <2>2. QED
    BY <1>1, <2>1, LocksSteady
<1>5. CASE LoudAccess
  BY <1>1, <1>4, <1>5, UpsertLocks, RecordLocks DEF LoudAccess
<1>6. CASE LoudSources
  BY <1>1, <1>6, LocksSteady DEF LoudSources, RegisterSource, RemoveSource, CompleteScan
<1>7. CASE LoudAsking
  BY <1>1, <1>7, RecordVkgLocks DEF LoudAsking
<1>8. QED
  BY <1>1, <1>2, <1>3, <1>5, <1>6, <1>7, Steps, RevisingTouches, RegistersTouches, SearchTouches

\* Recordings never wait for each other in a circle, however many there are and
\* whatever terms they count, in however many namespaces: all lock the rows of
\* their terms in the order of sorted (returned_terms and terms_with_prefix).
THEOREM LocksNeverCycle == Spec => []NoLockCycle
<1>1. Init => LocksInv
  BY LocksAtFirst
<1>2. LocksInv /\ [Next]_vars => LocksInv'
  BY LocksKept
<1>3. LocksInv => NoLockCycle
  BY NoCycle
<1>4. QED
  BY <1>1, <1>2, <1>3, PTL DEF Spec

-----------------------------------------------------------------------------
\* What a page of the rows below the cursor has: those at the top, down to the
\* one that is the next cursor, or all if there is none.
PageRight(entries, cursor, page) ==
    LET below == {i \in entries : cursor = 0 \/ i < cursor}
    IN  /\ page.rows \subseteq below /\ page.next \in Nat
        /\ page.next = 0 => page.rows = below
        /\ page.next # 0 => /\ page.next \in page.rows
                            /\ \A i \in page.rows : page.next <= i
                            /\ \A i \in below \ page.rows : i < page.next

LEMMA PageTurns ==
    ASSUME NEW b \in Nat, NEW entries \in SUBSET (1 .. b), NEW cursor \in Nat
    PROVE  PageRight(entries, cursor, Page(entries, cursor))
<1> DEFINE below == {i \in entries : cursor = 0 \/ i < cursor}
           Over(i) == {j \in below : j > i}
           rows == {i \in below : Cardinality(Over(i)) < PageSize}
<1>1. PageSize \in Nat /\ PageSize > 0
  BY PagesNotEmpty
<1>2. below \subseteq 1 .. b /\ \A i \in below : i \in Nat /\ i # 0 /\ i <= b
  <2>1. \A i \in below : i \in 1 .. b
    <3>1. \A i \in below : i \in entries
      OBVIOUS
    <3>2. \A i \in entries : i \in 1 .. b
      OBVIOUS
    <3>3. QED
      BY <3>1, <3>2
  <2> HIDE DEF below
  <2>2. QED
    BY <2>1
<1>3. ASSUME NEW i \in below PROVE IsFiniteSet(Over(i)) /\ Cardinality(Over(i)) \in Nat
  <2>1. IsFiniteSet(1 .. b)
    BY FS_Interval
  <2>2. Over(i) \in SUBSET (1 .. b)
    <3> HIDE DEF below
    <3>1. QED
      BY <1>2
  <2> HIDE DEF Over
  <2>3. QED
    BY <2>1, <2>2, FS_Subset, FS_CardinalityType
<1>4. ASSUME NEW i \in rows, NEW j \in below, i < j PROVE j \in rows
  <2>1. Over(j) \in SUBSET Over(i)
    <3>1. i \in Nat /\ j \in Nat /\ \A k \in below : k \in Nat
      BY <1>2, <1>4
    <3> HIDE DEF below
    <3>2. \A k \in Over(j) : k \in Over(i)
      BY <1>4, <3>1
    <3> HIDE DEF Over
    <3>3. QED
      BY <3>2
  <2>2. Cardinality(Over(j)) <= Cardinality(Over(i))
    <3>1. IsFiniteSet(Over(i))
      BY <1>3
    <3> HIDE DEF Over
    <3>2. QED
      BY <2>1, <3>1, FS_Subset
  <2>3. Cardinality(Over(i)) < PageSize /\ Cardinality(Over(i)) \in Nat /\ Cardinality(Over(j)) \in Nat
    BY <1>3
  <2>4. Cardinality(Over(j)) < PageSize
    <3> HIDE DEF Over
    <3>1. QED
      BY <1>1, <2>2, <2>3
  <2>5. QED
    BY <2>4
<1>5. ASSUME below # {} PROVE rows # {}
  <2>1. PICK i \in below : \A j \in below : j <= i
    <3>1. below \in SUBSET Nat /\ \A s \in below : s <= b
      BY <1>2
    <3> HIDE DEF below
    <3>2. QED
      BY <1>5, <3>1, GreatestOf
  <2>2. Over(i) = {}
    <3>1. \A j \in below : ~(j > i)
      BY <1>2, <2>1
    <3> HIDE DEF below
    <3>2. QED
      BY <3>1
  <2>3. Cardinality(Over(i)) = 0
    BY <2>2, FS_EmptySet
  <2>4. i \in rows
    BY <1>1, <2>3
  <2>5. QED
    BY <2>4
<1> DEFINE least == CHOOSE i \in rows : \A j \in rows : i <= j
<1>6. ASSUME below # rows PROVE least \in rows /\ \A j \in rows : least <= j
  <2>1. rows \in SUBSET Nat /\ rows # {}
    BY <1>2, <1>5, <1>6
  <2>2. \E i \in rows : \A j \in rows : i <= j
    <3> HIDE DEF rows
    <3>1. QED
      BY <2>1, LeastOf
  <2> HIDE DEF rows
  <2>3. QED
    BY <2>2
<1>7. Page(entries, cursor) = [rows |-> rows, next |-> IF below = rows THEN 0 ELSE least]
  BY DEF Page
<1>8. rows \subseteq below
  OBVIOUS
<1> HIDE DEF rows, least
<1>9. ASSUME below # rows, NEW i \in below \ rows PROVE i < least
  <2>1. least \in below /\ least # i /\ ~(least < i)
    BY <1>4, <1>6, <1>8, <1>9
  <2> HIDE DEF below
  <2>2. QED
    BY <1>2, <2>1
<1> DEFINE page == Page(entries, cursor)
<1>10. page.rows = rows /\ page.next = IF below = rows THEN 0 ELSE least
  BY <1>7
<1> HIDE DEF below, page
<1>11. below # rows => least \in Nat /\ least # 0
  BY <1>2, <1>6, <1>8
<1>12. /\ page.rows \subseteq below /\ page.next \in Nat
       /\ page.next = 0 => page.rows = below
       /\ page.next # 0 => /\ page.next \in page.rows
                           /\ \A i \in page.rows : page.next <= i
                           /\ \A i \in below \ page.rows : i < page.next
  BY <1>6, <1>8, <1>9, <1>10, <1>11
<1>13. QED
  BY <1>12 DEF PageRight, below, page

-----------------------------------------------------------------------------
\* What a reader reads, and what has been deleted of it.
Source(r) == IF r.kind = "log" THEN Kept(r.ns) ELSE AuditOf(r.ns)
Gone(r) == IF r.kind = "log" THEN {i \in DOMAIN log : log[i].purged} ELSE {}

\* A reader has seen what is at or above its cursor, and what it was to see
\* and has not seen is below it, or gone.
PageSound(r, rows, gone) ==
    /\ r.kind = "export" => r.truncated \/ r.due \subseteq r.seen
    /\ r.kind \in {"log", "audit"} =>
          /\ {"cursor", "due", "seen", "twice"} \subseteq DOMAIN r
          /\ ~r.twice /\ r.cursor \in Nat
          /\ r.pc \in {"page", "answered"}
          /\ r.pc = "page" =>
                /\ r.cursor = 0 => r.seen = {}
                /\ \A i \in r.seen : i \in Nat /\ r.cursor <= i
                /\ \A i \in r.due \ (gone \cup r.seen) :
                      i \in rows /\ (r.cursor = 0 \/ i < r.cursor)
          /\ r.pc = "answered" => r.due \ gone \subseteq r.seen

PagesSound ==
    \A w \in Workers : PageSound(request[w], Source(request[w]), Gone(request[w]))

PagesInv == AccessInv /\ TrailInv /\ PagesSound

\* Rows come, and go only by a purge.
LEMMA PageStays ==
    ASSUME NEW r, NEW rows, NEW gone, NEW rows2, NEW gone2, PageSound(r, rows, gone),
           gone \subseteq gone2, rows \subseteq rows2 \cup gone2
    PROVE  PageSound(r, rows2, gone2)
BY DEF PageSound

\* One more page.
LEMMA PageTurned ==
    ASSUME NEW r, HasShape(r), NEW b \in Nat, NEW rows \in SUBSET (1 .. b), NEW gone,
           PageSound(r, rows, gone), r.kind \in {"log", "audit"}, r.pc = "page"
    PROVE  /\ PageSound(Turned(r, Page(rows, r.cursor)), rows, gone)
           /\ Turned(r, Page(rows, r.cursor)).kind = r.kind
           /\ Turned(r, Page(rows, r.cursor)).ns = r.ns
<1> DEFINE page == Page(rows, r.cursor)
           t == Turned(r, page)
           below == {i \in rows : r.cursor = 0 \/ i < r.cursor}
<1>1. /\ {"cursor", "due", "seen", "twice", "kind", "pc"} \subseteq DOMAIN r
      /\ ~r.twice /\ r.cursor \in Nat
      /\ r.cursor = 0 => r.seen = {}
      /\ \A i \in r.seen : i \in Nat /\ r.cursor <= i
      /\ \A i \in r.due \ (gone \cup r.seen) : i \in below
  BY DEF PageSound, HasShape
<1>2. /\ page.rows \subseteq below /\ page.next \in Nat
      /\ page.next = 0 => page.rows = below
      /\ page.next # 0 => /\ page.next \in page.rows
                          /\ \A i \in page.rows : page.next <= i
                          /\ \A i \in below \ page.rows : i < page.next
  <2>1. PageRight(rows, r.cursor, page)
    BY <1>1, PageTurns
  <2>2. QED
    BY <2>1 DEF PageRight
<1> HIDE DEF page
<1>3. /\ DOMAIN t = DOMAIN r /\ t.kind = r.kind /\ t.ns = r.ns
      /\ t.pc = (IF page.next = 0 THEN "answered" ELSE "page")
      /\ t.cursor = page.next /\ t.due = r.due
      /\ t.seen = r.seen \cup page.rows
      /\ t.twice = (r.twice \/ (r.seen \cap page.rows # {}))
  BY <1>1 DEF Turned
<1> HIDE DEF t
<1>4. \A i \in below : i \in rows /\ i \in Nat /\ i # 0 /\ (r.cursor = 0 \/ i < r.cursor)
  OBVIOUS
<1> HIDE DEF below
<1>5. ~t.twice
  <2>1. r.seen \cap page.rows = {}
    BY <1>1, <1>2, <1>4
  <2>2. QED
    BY <1>1, <1>3, <2>1
<1>6. ASSUME page.next = 0 PROVE PageSound(t, rows, gone)
  <2>1. t.pc = "answered" /\ t.due \ gone \subseteq t.seen /\ t.cursor \in Nat
    BY <1>1, <1>2, <1>3, <1>6
  <2>2. QED
    BY <1>1, <1>3, <1>5, <2>1 DEF PageSound
<1>7. ASSUME page.next # 0 PROVE PageSound(t, rows, gone)
  <2>1. t.pc = "page" /\ t.cursor # 0 /\ t.cursor \in Nat /\ t.cursor = page.next
    BY <1>2, <1>3, <1>7
  <2>2. \A i \in t.seen : i \in Nat /\ t.cursor <= i
    BY <1>1, <1>2, <1>3, <1>4, <1>7
  <2>3. \A i \in t.due \ (gone \cup t.seen) : i \in rows /\ i < t.cursor
    BY <1>1, <1>2, <1>3, <1>4, <1>7
  <2>4. QED
    BY <1>1, <1>3, <1>5, <2>1, <2>2, <2>3 DEF PageSound
<1>8. PageSound(t, rows, gone)
  BY <1>6, <1>7
<1>9. QED
  BY <1>3, <1>8 DEF t, page

-----------------------------------------------------------------------------
\* No row of the log is lost, moved to another namespace, or comes back.
LogGrows == \A i \in DOMAIN log : /\ i \in DOMAIN log'
                                  /\ log'[i].ns = log[i].ns /\ log'[i].terms = log[i].terms
                                  /\ log[i].purged => log'[i].purged

LEMMA LogKept == ASSUME AccessInv, [Next]_vars PROVE LogGrows
<1>1. CASE log' = log
  BY <1>1 DEF LogGrows
<1>2. ASSUME NEW w \in Workers, CommitRecord(w) PROVE LogGrows
  <2>1. request[w].rec.id \notin DOMAIN log
    BY <1>2 DEF CommitRecord, AccessInv, RecordsSound, RecordSound
  <2>2. QED
    BY <1>2, <2>1 DEF CommitRecord, LogGrows
<1>3. ASSUME NEW w \in Workers, DeleteRows(w) PROVE LogGrows
  BY <1>3 DEF DeleteRows, LogGrows, AccessInv, LogSound, EventFields
<1>4. CASE LoudAccess
  BY <1>1, <1>2, <1>3, <1>4 DEF LoudAccess, UpsertTerm, RecordAccess, records
<1>5. CASE LoudRevising
  <2>1. UNCHANGED records
    BY <1>5 DEF LoudRevising, BeginRevise, CheckTables, CheckTerms, NumberMapping,
               InsertMapping, CommitMapping
  <2>2. QED
    BY <1>1, <2>1 DEF records
<1>6. QED
  BY <1>1, <1>4, <1>5, Steps DEF Quiet, LoudSources, RegisterSource, RemoveSource, CompleteScan,
     LoudAsking, RecordVkgAccess, LoudRegisters, LoudSearch, records, AccessInv

\* What a reader was to see stays there, or is purged.
LEMMA SourcesGrow ==
    ASSUME NEW w \in Workers, LogGrows, TrailAppended, request'[w] = request[w]
    PROVE  /\ Gone(request[w]) \subseteq Gone(request[w])'
           /\ Source(request[w]) \subseteq Source(request[w])' \cup Gone(request[w])'
<1>1. request[w].kind' = request[w].kind /\ request[w].ns' = request[w].ns
  OBVIOUS
<1>2. CASE request[w].kind = "log"
  BY <1>1, <1>2 DEF LogGrows, Source, Gone, Kept
<1>3. CASE request[w].kind # "log"
  BY <1>1, <1>3 DEF TrailAppended, Source, Gone, AuditOf
<1>4. QED
  BY <1>2, <1>3

LEMMA PagesOfOne ==
    ASSUME PagesInv, NEW w \in Workers, PagesStep(w), Moves(w), HasShape(request[w]),
           UNCHANGED <<log, audit>>
    PROVE  PageSound(request'[w], Source(request'[w]), Gone(request'[w]))
<1>1. /\ lastEvent \in Nat /\ DOMAIN log \subseteq 1 .. lastEvent
      /\ lastAudit \in Nat /\ DOMAIN audit \subseteq 1 .. lastAudit
      /\ DOMAIN request = Workers
  BY DEF PagesInv, AccessInv, LogSound, TrailInv, TrailSound, Shape
<1>2. \A n : Kept(n) \in SUBSET (1 .. lastEvent) /\ AuditOf(n) \in SUBSET (1 .. lastAudit)
  BY <1>1 DEF Kept, AuditOf
<1>3. ASSUME NEW n \in Namespaces, BeginPages(w, n)
      PROVE  PageSound(request'[w], Source(request'[w]), Gone(request'[w]))
  <2> DEFINE r == request'[w]
  <2>1. /\ {"cursor", "due", "seen", "twice"} \subseteq DOMAIN r
        /\ r.kind \in {"log", "audit"} /\ r.pc = "page" /\ r.ns = n
        /\ r.cursor = 0 /\ r.seen = {} /\ ~r.twice
        /\ r.due = IF r.kind = "log" THEN Kept(n) ELSE AuditOf(n)
    BY <1>1, <1>3 DEF BeginPages, Ask, Pages
  <2>2. r.due = Source(r)
    BY <2>1 DEF Source
  <2> HIDE DEF r
  <2>3. PageSound(r, Source(r), Gone(r))
    BY <2>1, <2>2 DEF PageSound
  <2>4. QED
    BY <2>3 DEF r
<1>4. ASSUME NEW n \in Namespaces, ExportProvenance(w, n)
      PROVE  PageSound(request'[w], Source(request'[w]), Gone(request'[w]))
  <2> DEFINE page == Page(AuditOf(n), 0)
             r == request'[w]
  <2>1. /\ r.kind = "export" /\ r.due = AuditOf(n) /\ r.seen = page.rows
        /\ r.truncated = (page.next # 0)
    BY <1>1, <1>4 DEF ExportProvenance, Ask
  <2>2. page.next = 0 => page.rows = AuditOf(n)
    <3>1. PageRight(AuditOf(n), 0, page)
      BY <1>1, <1>2, PageTurns
    <3>2. QED
      BY <3>1 DEF PageRight
  <2> HIDE DEF r, page
  <2>3. PageSound(r, Source(r), Gone(r))
    BY <2>1, <2>2 DEF PageSound
  <2>4. QED
    BY <2>3 DEF r
<1>5. ASSUME request[w].kind \in {"log", "audit"}, request[w].pc = "page",
             Goes(w, Turned(request[w], Page(Source(request[w]), request[w].cursor)))
      PROVE  PageSound(request'[w], Source(request'[w]), Gone(request'[w]))
  <2> DEFINE t == Turned(request[w], Page(Source(request[w]), request[w].cursor))
  <2>1. PageSound(request[w], Source(request[w]), Gone(request[w]))
    BY DEF PagesInv, PagesSound
  <2>2. \E b \in Nat : Source(request[w]) \in SUBSET (1 .. b)
    BY <1>1, <1>2 DEF Source
  <2>3. PageSound(t, Source(request[w]), Gone(request[w])) /\ t.kind = request[w].kind /\ t.ns = request[w].ns
    BY <1>5, <2>1, <2>2, PageTurned
  <2>4. request'[w] = t
    BY <1>1, <1>5 DEF Goes
  <2> HIDE DEF t
  <2>5. Source(t) = Source(request[w]) /\ Gone(t) = Gone(request[w])
    BY <2>3 DEF Source, Gone
  <2>6. QED
    BY <2>3, <2>4, <2>5
<1>6. ReadLog(w) \/ ReadAudit(w) =>
         /\ request[w].kind \in {"log", "audit"} /\ request[w].pc = "page"
         /\ Goes(w, Turned(request[w], Page(Source(request[w]), request[w].cursor)))
  BY DEF ReadLog, ReadAudit, Source
<1>7. QED
  BY <1>3, <1>4, <1>5, <1>6 DEF PagesStep

LEMMA PagesAtFirst == ASSUME Init PROVE PagesInv
<1>1. PagesSound
  BY DEF Init, VocabularyInit, PagesSound, PageSound, Idle
<1>2. QED
  BY <1>1, AccessAtFirst, TrailAtFirst DEF PagesInv

\* The readers of pages are the requests of PagesStep alone.
LEMMA OnlyReaders ==
    ASSUME Shape, [Next]_vars, NEW w \in Workers,
           request'[w] # request[w], request'[w].kind \in {"log", "audit", "export"}
    PROVE  PagesStep(w) /\ Moves(w) /\ UNCHANGED <<log, audit>>
<1>1. CASE Quiet
  <2>1. PICK x \in Workers : Moves(x) /\ KnownStep(x)
    BY <1>1 DEF Quiet
  <2>2. x = w
    BY <2>1 DEF Moves, Shape
  <2>3. QED
    BY <1>1, <2>1, <2>2 DEF Quiet, KnownStep, Idle, trail, records
<1>2. ASSUME NEW kinds, Touches(kinds), kinds \cap {"log", "audit", "export"} = {} PROVE FALSE
  BY <1>2 DEF Touches, Moves, Shape
<1>3. CASE LoudSources
  BY <1>3 DEF LoudSources, RegisterSource, RemoveSource, CompleteScan
<1>4. QED
  BY <1>1, <1>2, <1>3, Steps, AccessTouches, RevisingTouches, AskingTouches,
     RegistersTouches, SearchTouches

LEMMA PagesKept == ASSUME PagesInv, [Next]_vars PROVE PagesInv'
<1>1. AccessInv' /\ TrailInv' /\ TrailAppended /\ LogGrows
  BY AccessKept, TrailKept, LogKept DEF PagesInv
<1>2. Shape /\ Shape'
  BY <1>1 DEF PagesInv, AccessInv
<1>3. ASSUME NEW w \in Workers
      PROVE  PageSound(request[w], Source(request[w]), Gone(request[w]))'
  <2> DEFINE r == request[w]
             q == request'[w]
  <2>1. CASE q = r
    <3>1. /\ Gone(request[w]) \subseteq Gone(request[w])'
          /\ Source(request[w]) \subseteq Source(request[w])' \cup Gone(request[w])'
      BY <1>1, <2>1, SourcesGrow
    <3>2. PageSound(request[w], Source(request[w]), Gone(request[w]))
      BY DEF PagesInv, PagesSound
    <3>3. QED
      BY <2>1, <3>1, <3>2, PageStays
  <2>2. CASE q # r /\ q.kind \in {"log", "audit", "export"}
    <3>1. PagesStep(w) /\ Moves(w) /\ UNCHANGED <<log, audit>>
      BY <1>2, <2>2, OnlyReaders
    <3>2. HasShape(request[w])
      BY <1>2 DEF Shape
    <3>3. QED
      BY <3>1, <3>2, PagesOfOne DEF Source, Gone, Kept, AuditOf
  <2>3. CASE q.kind \notin {"log", "audit", "export"}
    BY <2>3 DEF PageSound
  <2>4. QED
    BY <2>1, <2>2, <2>3
<1>4. QED
  BY <1>1, <1>3 DEF PagesInv, PagesSound

LEMMA PagesAreComplete == ASSUME PagesSound PROVE PagesComplete
BY DEF PagesSound, PageSound, Source, Gone, PagesComplete

\* Every reader of pages has at the end seen what was there when it began.
THEOREM PagesAlwaysComplete == Spec => []PagesComplete
<1>1. PagesInv => PagesComplete
  BY PagesAreComplete DEF PagesInv
<1>2. QED
  BY <1>1, PagesAtFirst, PagesKept, PTL DEF Spec
=============================================================================
