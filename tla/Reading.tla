------------------------------- MODULE Reading -------------------------------
(***************************************************************************)
(* The components around a published vocabulary, together: they share the  *)
(* current versions and the graphs served, which move beneath them, one    *)
(* audit trail with one sequence of ids, and, of the two that answer       *)
(* queries, one access log.  The steps of their requests interleave.       *)
(***************************************************************************)
EXTENDS Divergence, Health, TermSearch

vars == <<vocabulary, trail, requests, records, mediation, registers, index>>

Init == /\ VocabularyInit /\ LogInit /\ MediationInit
        /\ RegistersInit /\ SearchInit

Environment == VocabularyNext /\ UNCHANGED <<records, mediation, registers, index>>
AccessStep == LogNext /\ UNCHANGED <<mediation, registers, index>>
GatewayStep == GatewayNext /\ UNCHANGED <<mediation, registers, index>>
MediationStep == (MediationNext \/ DivergenceNext) /\ UNCHANGED <<registers, index>>
RegistersStep == RegistersNext /\ UNCHANGED <<records, mediation, index>>
HealthStep == HealthNext /\ UNCHANGED <<mediation, index>>
SearchStep == SearchNext /\ UNCHANGED <<records, mediation, registers>>

Next == \/ Environment \/ AccessStep \/ GatewayStep
        \/ MediationStep \/ RegistersStep \/ HealthStep \/ SearchStep

Spec == Init /\ [][Next]_vars

-----------------------------------------------------------------------------
\* All components keep their state well typed.
TypeOK == /\ VocabularyTypes /\ LogTypes /\ MediationTypes
          /\ RegisterTypes /\ IndexTypes

\* No answer claims more than was read: queries (AnswerHonest, of
\* SparqlGateway) and measurements of divergence (MeasureHonest, of Divergence).
AnswersHonest == AnswerHonest /\ MeasureHonest

\* Nor does a report that is put together from several namespaces: lists of
\* mappings (ListTruthful, of TermMappings) and health (HealthTruthful).
ReportsTruthful == ListTruthful /\ HealthTruthful
=============================================================================
