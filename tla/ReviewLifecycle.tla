--------------------------- MODULE ReviewLifecycle ---------------------------
(***************************************************************************)
(* What the review of a namespace promises (docs/adr/0010, decision 2),    *)
(* with no request, transaction, manifest or store in sight.  A version is *)
(* drafted, submitted, and then rejected or approved, one step at a time   *)
(* and only while the namespace is active.  Approving it supersedes what   *)
(* was approved before in the same step, and what is superseded stays so.  *)
(* Projection.tla implements this, with one request at a time.             *)
(***************************************************************************)
EXTENDS Naturals

CONSTANT Versions   \* a set of numbers, in the order in which they are drafted

VARIABLES retired,  \* the namespace is retired
          status    \* state of each version, "none" before it is drafted

vars == <<retired, status>>

States == {"none", "draft", "in-review", "approved", "superseded"}

\* The namespace may have a history, in which one version at most is approved.
Init == /\ retired = FALSE
        /\ status \in [Versions -> States]
        /\ \A u, v \in Versions :
              status[u] = "approved" /\ status[v] = "approved" => u = v

\* Version v goes from one state to another, and takes no other along.
Turn(v, from, to) == /\ ~retired
                     /\ status[v] = from
                     /\ status' = [status EXCEPT ![v] = to]
                     /\ UNCHANGED retired

Draft(v) == /\ \A u \in Versions : u < v => status[u] # "none"
            /\ Turn(v, "none", "draft")

Submit(v) == Turn(v, "draft", "in-review")

Reject(v) == Turn(v, "in-review", "draft")

Approve(v) == /\ ~retired
              /\ status[v] = "in-review"
              /\ status' = [u \in Versions |->
                               IF u = v THEN "approved"
                               ELSE IF status[u] = "approved" THEN "superseded"
                               ELSE status[u]]
              /\ UNCHANGED retired

Retire == /\ ~retired
          /\ retired' = TRUE
          /\ UNCHANGED status

Unretire == /\ retired
            /\ retired' = FALSE
            /\ UNCHANGED status

Next == \/ \E v \in Versions : Draft(v) \/ Submit(v) \/ Reject(v) \/ Approve(v)
        \/ Retire \/ Unretire

Spec == Init /\ [][Next]_vars
=============================================================================
