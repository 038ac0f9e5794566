------------------------------ MODULE Sessions ------------------------------
(***************************************************************************)
(* What a request is taken for, and what it may do: the tokens the portal  *)
(* signs (internal/auth/session.go, ticket.go) or the provider does, and   *)
(* the roles the access store has for whom they name (internal/auth/       *)
(* auth.go, Login and Middleware).                                         *)
(*                                                                         *)
(* One person with one browser.  "ldap" is "local" without roles in the    *)
(* file.  A change of the store is one step (AccessStore has its parts):   *)
(* it is written, or what it did stays in the replica's copy.              *)
(***************************************************************************)
EXTENDS AccessModel, Naturals

CONSTANTS
    SessionReplicas,
    Person,
    Identity,           \* the person's email and groups, as the provider has them
    Granted,            \* the sets of roles an administrator may give them
    bootstrapRoles,     \* what bootstrapAdmins grants
    fileRoles,          \* what an entry of auth.local.users carries
    MaxRestarts         \* bounds the restarts, where they make a new key

ASSUME SessionConstants ==
    /\ Person \in Users /\ Identity \in Identities
    /\ Granted \cup {bootstrapRoles, fileRoles} \subseteq SUBSET Roles
    /\ MaxRestarts \in Nat

VARIABLES
    deployment,     \* the configuration, which every replica has
    starts,         \* how often each replica has made itself a key
    stored,         \* the stored model
    copies,         \* each replica's copy of it
    current,        \* the replicas whose copy's version is the stored one
    token,          \* what the browser has, and the roles in it
    ungiven         \* the roles nobody has given the person, or not since they were taken

sessionVars == <<deployment, starts, stored, copies, current, token, ungiven>>
store == <<stored, copies, current>>

\* breakGlass: the person is bootstrapAdmins.passwordLogin; bootstrap and given: what
\* the configuration grants them, and gives them when they first sign in.
Deployments ==
    {d \in [provider : {"local", "oidc"}, passwordLogin : BOOLEAN, breakGlass : BOOLEAN,
            signingKey : BOOLEAN, bootstrap : {{}, bootstrapRoles}, given : {{}, fileRoles}] :
        /\ d.breakGlass => d.passwordLogin /\ d.bootstrap # {}
        /\ d.given # {} => d.provider = "local"}

\* A model with nobody on record, or with the person and some roles.
FirstModels ==
    {EmptyModel} \cup
        {RecordSeen(EmptyModel, Person, Identity, roles).model : roles \in Granted}

RolesOf(m) == IF OnRecord(m, Person) THEN m.users[Person].roles ELSE {}

NoToken == [issuer |-> "none", key |-> <<>>, roles |-> {}, expired |-> FALSE]

SessionInit ==
    /\ deployment \in Deployments
    /\ starts = [r \in SessionReplicas |-> 0]
    /\ stored \in FirstModels
    /\ copies = [r \in SessionReplicas |-> stored]
    /\ current = SessionReplicas
    /\ token = NoToken
    /\ ungiven = Roles \ RolesOf(stored)

-----------------------------------------------------------------------------
(* Keys and tokens. *)

\* Under oidc only a break-glass account makes the portal sign anything.
SignsTokens == deployment.provider = "local" \/ deployment.passwordLogin

\* NewSessionManager: without a configured key each start makes its own.
Key(r) == IF deployment.signingKey THEN <<>> ELSE <<r, starts[r]>>

\* Issue, and IssueTicket for a rebuild.
Signed(r, issuer, roles) ==
    [issuer |-> issuer, key |-> Key(r), roles |-> roles, expired |-> FALSE]

\* Verify, and VerifyTicket.
Verifies(r, issuer) ==
    SignsTokens /\ token.issuer = issuer /\ token.key = Key(r) /\ ~token.expired

ByProvider == deployment.provider = "oidc" /\ token.issuer = "provider" /\ ~token.expired

-----------------------------------------------------------------------------
(* The store. *)

Written(r, call) ==
    LET out == Outcome(call, IF r \in current THEN copies[r] ELSE stored) IN
    /\ Outcome(call, copies[r]).result = "write" /\ out.result = "write"
    /\ stored' = out.model
    /\ copies' = [copies EXCEPT ![r] = out.model]
    /\ current' = {r}

Unwritten(r, call) ==
    LET out == Outcome(call, copies[r]) IN
    /\ \/ copies' = [copies EXCEPT ![r] = out.model] /\ UNCHANGED current
       \/ /\ out.result = "write" /\ r \notin current
          /\ copies' = [copies EXCEPT ![r] = Outcome(call, stored).model]
          /\ current' = current \cup {r}
    /\ UNCHANGED stored

\* rolesFor: what the directory holds, and the bootstrap grant.
RolesFor(m) == RolesOf(m) \cup deployment.bootstrap

\* Mutant: the token says what its bearer may do.
RolesOfToken(r) == token.roles

\* What a request may do, once it is verified.
RolesOfRequest(r) == RolesFor(copies[r])

\* register.  Roles from auth.local.users count as given by the deployment.
Registers(r, roles) ==
    /\ LET call == [kind |-> "recordSeen", user |-> Person, id |-> Identity, roles |-> roles] IN
       Written(r, call) \/ Unwritten(r, call)
    /\ ungiven' = IF OnRecord(copies[r], Person) /\ OnRecord(stored, Person)
                THEN ungiven ELSE ungiven \ deployment.given

-----------------------------------------------------------------------------

\* Login with the right password, of the break-glass account or the provider's.
SignsIn(r) ==
    /\ SignsTokens
    /\ \E roles \in (IF deployment.breakGlass THEN {{}} ELSE {})
                    \cup (IF deployment.provider = "local" THEN {deployment.given} ELSE {}) :
           Registers(r, roles)
    /\ token' = Signed(r, "session", RolesFor(copies'[r]))
    /\ UNCHANGED <<deployment, starts>>

\* The provider signs somebody in; the portal only ever sees the token.
ProviderSignsIn ==
    /\ deployment.provider = "oidc"
    /\ token' = [NoToken EXCEPT !.issuer = "provider"]
    /\ UNCHANGED <<deployment, starts, store, ungiven>>

\* Mutant: every request registers whom its token names.
RequestRegisters(r) ==
    /\ \/ ByProvider /\ Registers(r, {})
       \/ Verifies(r, "session") /\ Registers(r, token.roles)
    /\ UNCHANGED <<deployment, starts, token>>

\* Middleware.  Under oidc every request registers, with the roles in its token if
\* that is one of the portal's own.
Request(r) ==
    /\ \/ Verifies(r, "session") /\ deployment.provider = "local" /\ UNCHANGED <<store, ungiven>>
       \/ ByProvider /\ Registers(r, {})
       \/ Verifies(r, "session") /\ deployment.provider = "oidc" /\ Registers(r, token.roles)
    /\ UNCHANGED <<deployment, starts, token>>

\* A rebuild hands out a ticket; it is followed with that, whatever else the
\* browser has.
TicketFor(r) ==
    /\ SignsTokens
    /\ token' = Signed(r, "ticket", {})
    /\ UNCHANGED <<deployment, starts, store, ungiven>>

Expires ==
    /\ token' = [token EXCEPT !.expired = TRUE]
    /\ UNCHANGED <<deployment, starts, store, ungiven>>

GrantedBy(call) == IF call.kind = "deleteUser" THEN {} ELSE call.roles

\* An administrator's change: what it leaves out is taken away once it is saved,
\* what it grants may be in effect even if it is not.
Administers(r, call) ==
    /\ \/ Written(r, call) /\ ungiven' = Roles \ GrantedBy(call)
       \/ Unwritten(r, call) /\ ungiven' = ungiven \ GrantedBy(call)
    /\ UNCHANGED <<deployment, starts, token>>

Changes ==
    [kind : {"setRoles"}, user : {Person}, roles : Granted]
    \cup [kind : {"deleteUser"}, user : {Person}]
    \cup [kind : {"invite"}, user : {Person}, id : {Identity}, roles : Granted \ {{}}]

\* The watch.
Hears(r) ==
    /\ r \notin current
    /\ copies' = [copies EXCEPT ![r] = stored]
    /\ current' = current \cup {r}
    /\ UNCHANGED <<deployment, starts, stored, token, ungiven>>

RestartsReplica(r) ==
    /\ IF deployment.signingKey
       THEN UNCHANGED starts
       ELSE starts[r] < MaxRestarts /\ starts' = [starts EXCEPT ![r] = @ + 1]
    /\ copies' = [copies EXCEPT ![r] = stored]
    /\ current' = current \cup {r}
    /\ UNCHANGED <<deployment, stored, token, ungiven>>

SessionNext ==
    \/ \E r \in SessionReplicas :
           \/ SignsIn(r) \/ Request(r) \/ TicketFor(r) \/ Hears(r) \/ RestartsReplica(r)
           \/ \E call \in Changes : Administers(r, call)
    \/ ProviderSignsIn \/ Expires

SessionSpec == SessionInit /\ [][SessionNext]_sessionVars

-----------------------------------------------------------------------------

\* What somebody may do is not in what they hold: at every replica that has heard
\* of it, a role taken away is gone from the next request on, and stays so until an
\* administrator gives it again or the deployment does, however the person signs in
\* and whatever token they still have; but for the break-glass account under oidc,
\* whose token gives its roles back after a deletion (auth.go:250-327).
RevokedIsRefused ==
    \A r \in current :
        (Verifies(r, "session") \/ ByProvider)
            /\ ~(deployment.provider = "oidc" /\ deployment.breakGlass)
        => RolesOfRequest(r) \cap ungiven \subseteq deployment.bootstrap

\* What auth.go:262-264 says: "The bootstrap grant is deliberately not stored".  No
\* role is on record that nobody gave the person.
BootstrapIsNotStored == RolesOf(stored) \cap ungiven = {}
=============================================================================
