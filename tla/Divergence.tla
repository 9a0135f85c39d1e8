------------------------------ MODULE Divergence ------------------------------
(***************************************************************************)
(* Measuring whether the data of a source diverges from the shapes of the  *)
(* current version.  The version, and then the active mapping, are read;   *)
(* for each target of a shape whose class the mapping makes, the virtual   *)
(* graph is asked whether there are instances, and, if there are, how many *)
(* lack each required property the mapping makes.  The number of probes is *)
(* limited, and each probe may fail.  Nothing is stored.                   *)
(***************************************************************************)
EXTENDS VirtualGraph

CONSTANTS Targets,     \* Targets[n][v]: shape_targets of version v, a sequence
          MaxProbes    \* MAX_PROBES

ASSUME Measuring ==
    /\ MaxProbes \in Nat \ {0}
    /\ \A n \in Namespaces :
          /\ DOMAIN Targets[n] = DOMAIN Content[n]
          /\ \A v \in DOMAIN Targets[n] :
                LET targets == Targets[n][v]
                IN  /\ Len(targets) \in Nat /\ DOMAIN targets = 1 .. Len(targets)
                    /\ \A i \in DOMAIN targets : targets[i].paths \in Seq(Terms)

-----------------------------------------------------------------------------
Mapped(m, target) == target.class \in m.classes
Wanted(m, target) ==
    Chosen(target.paths, {k \in DOMAIN target.paths : target.paths[k] \in m.predicates})

Sums(costs) == LET f[i \in 0 .. Len(costs)] == IF i = 0 THEN 0 ELSE f[i - 1] + costs[i] IN f

\* The probes that the first i targets need.
Needed(m, targets) ==
    Sums([i \in DOMAIN targets |->
             IF Mapped(m, targets[i]) THEN 1 + Len(Wanted(m, targets[i])) ELSE 0])

TotalProbes(m, targets) == Needed(m, targets)[Len(targets)]

\* plan_probes: a function from the targets that are probed to the properties
\* that are, until the budget is spent.
PlanProbes(m, targets) ==
    LET budget(i) == MaxProbes - Needed(m, targets)[i - 1]
        planned   == {i \in DOMAIN targets : Mapped(m, targets[i]) /\ budget(i) > 0}
        affordable(i) == IF Len(Wanted(m, targets[i])) < budget(i)
                         THEN Len(Wanted(m, targets[i])) ELSE budget(i) - 1
    IN  [i \in planned |-> SubSeq(Wanted(m, targets[i]), 1, affordable(i))]

CountPlanned(plan, targets) ==
    Sums([i \in DOMAIN targets |->
             IF i \in DOMAIN plan THEN 1 + Len(plan[i]) ELSE 0])[Len(targets)]

\* build_class_divergence: what is reported of a target that was probed;
\* missing says of each property that was probed whether instances lack it.
ClassStatus == [yes |-> "matched", no |-> "empty", failed |-> "unknown"]
PropertyStatus == [none |-> "matched", some |-> "empty", failed |-> "unknown"]

Report(target, m, present, missing) ==
    LET unmapped == {target.paths[k] : k \in DOMAIN target.paths} \ m.predicates
    IN  [shape |-> target.shape, class |-> target.class, status |-> ClassStatus[present],
         properties |-> IF present # "yes" THEN <<>>
                        ELSE [p \in DOMAIN missing \cup unmapped |->
                                 IF p \in unmapped THEN "unmapped"
                                 ELSE PropertyStatus[missing[p]]]]

Unprobed(target, status) ==
    [shape |-> target.shape, class |-> target.class, status |-> status, properties |-> <<>>]

\* The targets that no probe was planned for: a shape with another target that
\* was probed is passed over.
Rest(m, targets, plan) ==
    LET passed == {targets[i].shape : i \in DOMAIN plan}
    IN  {Unprobed(targets[i], IF Mapped(m, targets[i]) THEN "unknown" ELSE "unmapped") :
            i \in {j \in DOMAIN targets : targets[j].shape \notin passed}}

\* The property `conclusive` of a report.
Conclusive(r) ==
    /\ r.skipped = 0
    /\ \A c \in r.report : c.status # "unknown"
                           /\ \A p \in DOMAIN c.properties : c.properties[p] # "unknown"

-----------------------------------------------------------------------------
\* measure_source_divergence, and _collect: the current version first.
BeginMeasure(w, n) ==
    /\ source[n] # None /\ NamespaceOf[n] \notin retired
    /\ CurrentApproved(NamespaceOf[n]) # 0
    /\ Ask(w, [kind |-> "measure", pc |-> "mapping", ns |-> NamespaceOf[n],
               source |-> source[n], version |-> CurrentApproved(NamespaceOf[n]),
               mapping |-> None, revision |-> 0, plan |-> <<>>, todo |-> {},
               report |-> {}, skipped |-> 0, issued |-> 0, noShapes |-> FALSE])
    /\ UNCHANGED <<vocabulary, trail, records, mediation>>

\* Then the active mapping x, and the plan of what to probe.
Planned(r, x) ==
    LET targets == Targets[r.ns][r.version]
        plan == PlanProbes(x.mapping, targets)
    IN  [r EXCEPT !.pc = IF targets = <<>> THEN "answered" ELSE "probe",
                  !.noShapes = targets = <<>>,
                  !.mapping = x.mapping, !.revision = x.revision,
                  !.plan = plan, !.todo = DOMAIN plan,
                  !.skipped = TotalProbes(x.mapping, targets) - CountPlanned(plan, targets),
                  !.issued = CountPlanned(plan, targets)]

\* 404 if there is no mapping.
PlanMeasure(w) ==
    /\ request[w].kind = "measure" /\ request[w].pc = "mapping"
    /\ LET r == request[w]
           active == {x \in vkg : x.source = r.source /\ x.revision = LastRevision(r.source)}
       IN  IF active = {} THEN Refused(w) ELSE \E x \in active : Goes(w, Planned(r, x))
    /\ UNCHANGED <<vocabulary, trail, records, mediation>>

\* _ask, and _count of each property if there are instances; the probes that
\* were planned and are not sent are taken off the number issued.
ProbeTarget(w) ==
    /\ request[w].kind = "measure" /\ request[w].pc = "probe" /\ request[w].todo # {}
    /\ LET r == request[w]
           i == CHOOSE j \in r.todo : \A k \in r.todo : j <= k
           paths == {r.plan[i][k] : k \in DOMAIN r.plan[i]}
           target == Targets[r.ns][r.version][i]
       IN  \E present \in {"yes", "no", "failed"},
              missing \in [paths -> {"none", "some", "failed"}] :
                 Goes(w, [r EXCEPT !.todo = @ \ {i},
                            !.report = @ \cup {Report(target, r.mapping, present, missing)},
                            !.issued = @ - (IF present = "yes" THEN 0 ELSE Cardinality(paths))])
    /\ UNCHANGED <<vocabulary, trail, records, mediation>>

AnswerMeasure(w) ==
    /\ request[w].kind = "measure" /\ request[w].pc = "probe" /\ request[w].todo = {}
    /\ LET r == request[w]
       IN  Answers(w, [r EXCEPT
              !.report = @ \cup Rest(r.mapping, Targets[r.ns][r.version], r.plan)])
    /\ UNCHANGED <<vocabulary, trail, records, mediation>>

DivergenceNext ==
    \E w \in Workers : \/ \E n \in Sources : BeginMeasure(w, n)
                       \/ PlanMeasure(w) \/ ProbeTarget(w) \/ AnswerMeasure(w)

-----------------------------------------------------------------------------
\* A measurement that calls itself conclusive has an answer for every target
\* whose class the mapping makes and for every required property of a class
\* with instances, none of them cut off by the limit; no more probes are sent
\* than the limit; and a target that is missing from the report shares its
\* shape with one that was probed (measure_divergence).
MeasureHonest ==
    \A w \in Workers :
        LET r == request[w]
        IN  r.kind = "measure" /\ r.pc = "answered" /\ ~r.noShapes =>
               LET targets == Targets[r.ns][r.version]
                   Of(i) == {c \in r.report : /\ c.shape = targets[i].shape
                                              /\ c.class = targets[i].class}
               IN  /\ r.issued <= MaxProbes
                   /\ \A i \in DOMAIN targets :
                         Of(i) = {} => \E c \in r.report : c.shape = targets[i].shape
                   /\ Conclusive(r) =>
                         \A i \in DOMAIN targets : Mapped(r.mapping, targets[i]) =>
                            \E c \in Of(i) :
                               /\ c.status \in {"matched", "empty"}
                               /\ c.status = "matched" =>
                                     {targets[i].paths[k] : k \in DOMAIN targets[i].paths}
                                        \subseteq DOMAIN c.properties
=============================================================================
