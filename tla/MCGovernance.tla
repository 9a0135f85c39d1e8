---------------------------- MODULE MCGovernance ----------------------------
(* A platform administrator and another principal, and two states to start  *)
(* from: the namespace was just created, and it has two owners.             *)
EXTENDS Governance, TLC

CONSTANTS admin, other

MCPrincipals == {admin, other}
MCAdmins == {admin}
MCCreated == (admin :> "owner") @@ (other :> "none")
MCOwners == [p \in MCPrincipals |-> "owner"]
MCRoles == {MCCreated, MCOwners}

MCSymmetry == Permutations(Workers)
=============================================================================
