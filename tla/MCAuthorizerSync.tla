------------------------- MODULE MCAuthorizerSync -------------------------
(***************************************************************************)
(* Small instances of AuthorizerSync: a deployed role is edited, and       *)
(* somebody signs in, on one or two replicas.                              *)
(***************************************************************************)
EXTENDS AuthorizerSync, TLC

CONSTANTS r1, r2, h1, h2, ivan, admin, all, some, id1, pw

MCUsers == {ivan}
MCRoles == {admin}
MCSpecs == {all, some}
MCIdentities == {id1}
MCPasswords == {pw}
MCDeployedRoles == admin :> all
MCHandlers == {h1, h2}
OneReplica == {r1}
TwoReplicas == {r1, r2}

MCSignIn == [kind |-> "recordSeen", user |-> ivan, id |-> id1, roles |-> {}]
MCSaveRole == [kind |-> "saveRole", role |-> admin, spec |-> some]
MCDeleteRole == [kind |-> "deleteRole", role |-> admin]

MCRoleEdits == {MCSaveRole, MCDeleteRole}
MCSignInAndEdit == {MCSignIn, MCSaveRole}
MCCalls == {MCSignIn, MCDeleteRole}

HandlerSymmetry == Permutations(MCHandlers)
Symmetry == HandlerSymmetry \cup Permutations(TwoReplicas)
=============================================================================
