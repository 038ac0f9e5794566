--------------------------- MODULE MCAccessModel ---------------------------
(***************************************************************************)
(* Every model that changes reach for two people and two roles, one change *)
(* after the other; what one person's requests are taken for while such    *)
(* changes are made; and the file they may be kept in.  A behaviour is one *)
(* of one of the three.                                                    *)
(***************************************************************************)
EXTENDS SharedModel, Sessions, FileStore, TLC

CONSTANTS ivan, maria, admin, viewer, all, id1, id2, pw

MCUsers == {ivan, maria}
MCRoles == {admin, viewer}
MCSpecs == {all}
MCIdentities == {id1, id2}
MCPasswords == {pw}
MCDeployedRoles == (admin :> all) @@ (viewer :> NoSpec)

MCCalls ==
    [kind : {"recordSeen"}, user : Users, id : Identities, roles : {{}, {viewer}}]
    \cup [kind : {"create"}, user : Users, id : {id1}, password : Passwords, roles : {{}}]
    \cup [kind : {"invite"}, user : Users, id : {id1}, roles : {{admin}}]
    \cup [kind : {"setPassword"}, user : Users, password : Passwords]
    \cup [kind : {"setRoles"}, user : Users, roles : SUBSET Roles]
    \cup [kind : {"deleteUser"}, user : Users]
    \cup [kind : {"saveRole"}, role : Roles, spec : Specs]
    \cup [kind : {"deleteRole"}, role : Roles]
    \cup [kind : {"membership"}, role : Roles, users : SUBSET Users, add : BOOLEAN]
    \cup [kind : {"lock"}, user : {ivan}, elapsed : SUBSET Users]
    \cup [kind : {"unlock"}, user : {ivan}, elapsed : SUBSET Users]
    \cup [kind : {"restore"}, snapshot : {EmptyModel}]

MCGranted == {{}, {admin}}
Anyhow == Permutations(SessionReplicas) \cup Permutations(Movers)

VARIABLE part

MCInit ==
    /\ part \in {"changes", "requests", "file"}
    /\ Init /\ SessionInit /\ FileInit
    \* What a part does not move starts in one way only.
    /\ part # "requests" =>
           /\ stored = EmptyModel /\ deployment.given # {} /\ deployment.bootstrap # {}
           /\ deployment.signingKey /\ deployment.breakGlass
    /\ part # "file" => file.version = 0

MCNext ==
    /\ UNCHANGED part
    /\ \/ part = "changes" /\ Next /\ UNCHANGED <<sessionVars, fileVars>>
       \/ part = "requests" /\ SessionNext /\ UNCHANGED <<model, fileVars>>
       \/ part = "file" /\ FileNext /\ UNCHANGED <<model, sessionVars>>

MCSpec == MCInit /\ [][MCNext]_<<part, model, sessionVars, fileVars>>
=============================================================================
