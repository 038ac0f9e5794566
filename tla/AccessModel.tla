---------------------------- MODULE AccessModel ----------------------------
(***************************************************************************)
(* The access model the portal keeps: who is on record, which roles they   *)
(* hold, what each role grants and who is locked out; and every change the *)
(* portal can make to it.  This is the document internal/store writes down,*)
(* and the body each method hands to mutate: a pure function of the model  *)
(* it finds, so that mutate may run it again on a reloaded model.          *)
(*                                                                         *)
(* What a role grants, an email, a provider and a list of groups are       *)
(* opaque values; of the time somebody was last seen only "never" (an      *)
(* unclaimed invitation) or "at some time" is kept.                        *)
(***************************************************************************)
EXTENDS FiniteSets

CONSTANTS
    Users,         \* user names, as key() folds them
    Roles,         \* role names, defined or not
    Specs,         \* what a role may grant
    NoSpec,        \* the role is not defined
    Identities,    \* email, provider and groups of a person
    Passwords,     \* password hashes
    NoPassword,    \* the account is not managed by the portal
    NoUser,        \* there is no record under the name
    DeployedRoles  \* the roles of the mounted configuration

ASSUME NullsAreNotValues ==
    /\ NoSpec \notin Specs
    /\ NoPassword \notin Passwords
    /\ NoUser \notin [identity : Identities, roles : SUBSET Roles,
                      password : Passwords \cup {NoPassword}, seen : BOOLEAN]

ASSUME DeployedRolesAreRoles == DeployedRoles \in [Roles -> Specs \cup {NoSpec}]

-----------------------------------------------------------------------------
(* The document. *)

\* One person.  The portal sets Managed together with PasswordHash, so a
\* managed account is one with a password.
UserRecord ==
    [identity : Identities, roles : SUBSET Roles,
     password : Passwords \cup {NoPassword}, seen : BOOLEAN]

Models ==
    [users : [Users -> UserRecord \cup {NoUser}],
     roles : [Roles -> Specs \cup {NoSpec}],
     lockouts : SUBSET Users]

\* What OpenWith writes on the first start.
EmptyModel ==
    [users |-> [u \in Users |-> NoUser],
     roles |-> [r \in Roles |-> NoSpec],
     lockouts |-> {}]

OnRecord(m, u) == m.users[u] # NoUser
Defined(m, r) == m.roles[r] # NoSpec
DefinedRoles(m) == {r \in Roles : Defined(m, r)}
Invited(rec) == ~rec.seen

-----------------------------------------------------------------------------
(* Operators named for a mistake are mutants of the operator they precede:  *)
(* what it must not do.  Nothing uses them.                                *)

(* What a change answers: the model to write, that there is nothing to     *)
(* write (errNoChange), or an error of its own.                            *)

Write(m) == [result |-> "write", model |-> m]
NoChange(m) == [result |-> "nochange", model |-> m]
Refused(m) == [result |-> "refused", model |-> m]

PutUser(m, u, rec) == Write([m EXCEPT !.users[u] = rec])

RecordSeen(m, u, id, initial) ==
    LET rec == m.users[u] IN
    IF ~OnRecord(m, u)
    THEN PutUser(m, u, [identity |-> id, roles |-> initial,
                        password |-> NoPassword, seen |-> TRUE])
    ELSE IF Invited(rec) \/ rec.identity # id
    THEN PutUser(m, u, [identity |-> id, roles |-> rec.roles,
                        password |-> rec.password, seen |-> TRUE])
    ELSE NoChange(m)

CreateLocalUser(m, u, id, pw, roles) ==
    IF OnRecord(m, u) THEN Refused(m)
    ELSE PutUser(m, u, [identity |-> id, roles |-> roles,
                        password |-> pw, seen |-> FALSE])

Invite(m, u, id, roles) ==
    IF OnRecord(m, u) THEN Refused(m)
    ELSE PutUser(m, u, [identity |-> id, roles |-> roles,
                        password |-> NoPassword, seen |-> FALSE])

SetPassword(m, u, pw) ==
    IF ~OnRecord(m, u) \/ m.users[u].password = NoPassword THEN Refused(m)
    ELSE PutUser(m, u, [m.users[u] EXCEPT !.password = pw])

SetRoles(m, u, roles) ==
    IF ~OnRecord(m, u) THEN Refused(m)
    ELSE PutUser(m, u, [m.users[u] EXCEPT !.roles = roles])

\* Mutant: the record is emptied of its sighting and kept.
DeleteUserKeepsGrants(m, u) ==
    IF ~OnRecord(m, u) THEN Refused(m)
    ELSE PutUser(m, u, [m.users[u] EXCEPT !.seen = FALSE])

DeleteUser(m, u) ==
    IF ~OnRecord(m, u) THEN Refused(m) ELSE PutUser(m, u, NoUser)

\* Mutant: the deployed roles are applied on every start.
SeedRolesAlways(m) == Write([m EXCEPT !.roles = DeployedRoles])

SeedRoles(m) ==
    IF DefinedRoles(m) # {} THEN NoChange(m)
    ELSE Write([m EXCEPT !.roles = DeployedRoles])

SaveRole(m, r, spec) == Write([m EXCEPT !.roles[r] = spec])

DeleteRole(m, r) ==
    IF ~Defined(m, r) THEN Refused(m)
    ELSE Write([m EXCEPT !.roles[r] = NoSpec])

\* Whose roles a membership change moves; the names not on record are
\* reported and skipped.
Moved(m, r, us, add) ==
    {u \in us : OnRecord(m, u) /\ (r \in m.users[u].roles) # add}

WithRole(rec, r, add) ==
    [rec EXCEPT !.roles = IF add THEN @ \cup {r} ELSE @ \ {r}]

\* Mutant: the role is toggled.
ChangeRoleMembershipToggles(m, r, us, add) ==
    IF ~Defined(m, r) THEN Refused(m)
    ELSE Write([m EXCEPT !.users = [u \in Users |->
                   IF u \in us /\ OnRecord(m, u)
                   THEN WithRole(m.users[u], r, r \notin m.users[u].roles)
                   ELSE m.users[u]]])

ChangeRoleMembership(m, r, us, add) ==
    LET moved == Moved(m, r, us, add) IN
    IF ~Defined(m, r) THEN Refused(m)
    ELSE IF moved = {} THEN NoChange(m)
    ELSE Write([m EXCEPT !.users = [u \in Users |->
                   IF u \in moved THEN WithRole(m.users[u], r, add)
                   ELSE m.users[u]]])

\* elapsed: the lockouts whose time has passed when the change runs, which
\* pruneLockouts drops.
LockUntil(m, u, elapsed) ==
    Write([m EXCEPT !.lockouts = (@ \ elapsed) \cup {u}])

Unlock(m, u, elapsed) ==
    IF u \notin m.lockouts THEN NoChange(m)
    ELSE Write([m EXCEPT !.lockouts = @ \ ({u} \cup elapsed)])

Restore(m, snapshot) == Write(snapshot)

-----------------------------------------------------------------------------
(* The calls, with their arguments. *)

Edits ==
    [kind : {"recordSeen"}, user : Users, id : Identities, roles : SUBSET Roles]
    \cup [kind : {"create"}, user : Users, id : Identities,
          password : Passwords, roles : SUBSET Roles]
    \cup [kind : {"invite"}, user : Users, id : Identities, roles : SUBSET Roles]
    \cup [kind : {"setPassword"}, user : Users, password : Passwords]
    \cup [kind : {"setRoles"}, user : Users, roles : SUBSET Roles]
    \cup [kind : {"deleteUser"}, user : Users]
    \cup [kind : {"seed"}]
    \cup [kind : {"saveRole"}, role : Roles, spec : Specs]
    \cup [kind : {"deleteRole"}, role : Roles]
    \cup [kind : {"membership"}, role : Roles, users : SUBSET Users, add : BOOLEAN]
    \cup [kind : {"lock"}, user : Users, elapsed : SUBSET Users]
    \cup [kind : {"unlock"}, user : Users, elapsed : SUBSET Users]
    \cup [kind : {"restore"}, snapshot : Models]

SeedEdit == [kind |-> "seed"]

Outcome(e, m) ==
    CASE e.kind = "recordSeen" -> RecordSeen(m, e.user, e.id, e.roles)
      [] e.kind = "create" -> CreateLocalUser(m, e.user, e.id, e.password, e.roles)
      [] e.kind = "invite" -> Invite(m, e.user, e.id, e.roles)
      [] e.kind = "setPassword" -> SetPassword(m, e.user, e.password)
      [] e.kind = "setRoles" -> SetRoles(m, e.user, e.roles)
      [] e.kind = "deleteUser" -> DeleteUser(m, e.user)
      [] e.kind = "seed" -> SeedRoles(m)
      [] e.kind = "saveRole" -> SaveRole(m, e.role, e.spec)
      [] e.kind = "deleteRole" -> DeleteRole(m, e.role)
      [] e.kind = "membership" -> ChangeRoleMembership(m, e.role, e.users, e.add)
      [] e.kind = "lock" -> LockUntil(m, e.user, e.elapsed)
      [] e.kind = "unlock" -> Unlock(m, e.user, e.elapsed)
      [] e.kind = "restore" -> Restore(m, e.snapshot)

-----------------------------------------------------------------------------
(* Laws: what the portal's documentation promises of single changes and of *)
(* one change after another, as predicates of the model they start from.   *)

\* What a person is granted: by each role they hold that there is, what it says
\* ("a role that does not exist grants nothing", DeleteRole).
GrantsOf(m, u) ==
    IF OnRecord(m, u)
    THEN {<<r, m.roles[r]>> : r \in m.users[u].roles \cap DefinedRoles(m)}
    ELSE {}

\* "Removes a record entirely ... along with whatever roles it held" (DeleteUser):
\* who signs in again is recorded as somebody who was never there, whatever roles
\* their provider gives them.  "Removes a role, and with it every grant it carried"
\* (DeleteRole): who held it keeps what their other roles grant, and nobody else
\* loses anything.
DeletionRevokes(m) ==
    /\ \A u \in Users, id \in Identities, initial \in SUBSET Roles :
           OnRecord(m, u) =>
               RecordSeen(DeleteUser(m, u).model, u, id, initial).model.users[u]
                   = RecordSeen(EmptyModel, u, id, initial).model.users[u]
    /\ \A r \in Roles, u \in Users :
           Defined(m, r) =>
               GrantsOf(DeleteRole(m, r).model, u) = {g \in GrantsOf(m, u) : g[1] # r}

\* "Somebody who has not left comes back on their next sign-in with no roles"
\* (DeleteUser's comment).  Not so for who has roles in the configuration's list of
\* accounts: the local provider brings these along and registration records them.
ReturnsWithoutRoles(m) ==
    \A u \in Users, id \in Identities, initial \in SUBSET Roles :
        OnRecord(m, u) =>
            RecordSeen(DeleteUser(m, u).model, u, id, initial).model.users[u].roles = {}

\* "Adding and removing one named role is undoable by doing the opposite"
\* (ChangeRoleMembership), for the same people.
OppositeUndoes(m) ==
    \A r \in Roles, us \in SUBSET Users, add \in BOOLEAN :
        LET out == ChangeRoleMembership(m, r, us, add)
        IN out.result = "write" =>
               ChangeRoleMembership(out.model, r, us, ~add).model = m

\* A change whose save was carried out but not acknowledged can be asked for
\* again: on the model it already reached it changes nothing.
RetryIsHarmless(m, edits) ==
    \A e \in edits :
        Outcome(e, Outcome(e, m).model).model = Outcome(e, m).model
=============================================================================
