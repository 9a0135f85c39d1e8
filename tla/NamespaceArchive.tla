-------------------------- MODULE NamespaceArchive --------------------------
(***************************************************************************)
(* What a namespace promises its users, with no lock, transaction or blob  *)
(* in sight.  A namespace is absent, active or retired, and owns an        *)
(* archive of published revisions.  The archive only grows, it grows only  *)
(* while the namespace is active, and a namespace can be deleted only      *)
(* while its archive is empty.  Publication.tla implements this.           *)
(***************************************************************************)
CONSTANT Revisions   \* what publishing adds: a version label with a content

VARIABLES phase,     \* "absent", "active" or "retired"
          archive    \* the revisions published so far

vars == <<phase, archive>>

Phases == {"absent", "active", "retired"}

TypeOK == /\ phase \in Phases
          /\ archive \subseteq Revisions

Init == /\ phase = "absent"
        /\ archive = {}

Create == /\ phase = "absent"
          /\ phase' = "active"
          /\ UNCHANGED archive

\* One revision is added.  It is looked for in archive', so that TLC need not
\* enumerate Revisions, which may be infinite.
Publish == /\ phase = "active"
           /\ \E r \in archive' : /\ r \in Revisions
                                 /\ archive' = archive \cup {r}
           /\ UNCHANGED phase

Retire == /\ phase = "active"
          /\ phase' = "retired"
          /\ UNCHANGED archive

Unretire == /\ phase = "retired"
            /\ phase' = "active"
            /\ UNCHANGED archive

Delete == /\ phase # "absent"
          /\ archive = {}
          /\ phase' = "absent"
          /\ UNCHANGED archive

Next == Create \/ Publish \/ Retire \/ Unretire \/ Delete

Spec == Init /\ [][Next]_vars
=============================================================================
