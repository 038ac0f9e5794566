--------------------------- MODULE MCAccessStore ---------------------------
(***************************************************************************)
(* Small instances of AccessStore: two replicas, one or two people, a role *)
(* that is deployed and one that is not.                                   *)
(***************************************************************************)
EXTENDS AccessStore, TLC

CONSTANTS r1, r2, ivan, admin, viewer, all, some, id1, id2, pw

MCReplicas == {r1, r2}
MCUsers == {ivan}
MCRoles == {admin, viewer}
MCSpecs == {all, some}
MCIdentities == {id1}
MCPasswords == {pw}
MCDeployedRoles == (admin :> all) @@ (viewer :> NoSpec)

\* Somebody signs in for the first time, is granted a role, and loses it.
MCAccessCalls ==
    {[kind |-> "recordSeen", user |-> ivan, id |-> id1, roles |-> {}],
     [kind |-> "membership", role |-> admin, users |-> {ivan}, add |-> TRUE],
     [kind |-> "setRoles", user |-> ivan, roles |-> {}]}

\* The same, while the role itself is edited.
MCRoleCalls ==
    {[kind |-> "recordSeen", user |-> ivan, id |-> id1, roles |-> {}],
     [kind |-> "membership", role |-> admin, users |-> {ivan}, add |-> TRUE],
     [kind |-> "saveRole", role |-> admin, spec |-> some]}

Symmetry == Permutations(MCReplicas)
=============================================================================
