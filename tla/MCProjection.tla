---------------------------- MODULE MCProjection ----------------------------
(* Values of Projection's constants for TLC.                               *)
EXTENDS Projection, TLC

\* Nothing published yet.
MCEmpty == {[v \in Versions |-> "none"]}

\* A namespace in use: version 1 is current, 2 is in review.
MCInUse == {[v \in Versions |-> IF v = 1 THEN "approved" ELSE "in-review"]}

\* The same, or version 2 is still a draft.
MCEarlier == MCInUse \cup {[v \in Versions |-> IF v = 1 THEN "approved" ELSE "draft"]}

\* A first and a second version are in review.
MCReview == {[v \in Versions |-> "in-review"]}

MCSymmetry == Permutations(Workers)
=============================================================================
