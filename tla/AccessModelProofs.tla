------------------------- MODULE AccessModelProofs -------------------------
(***************************************************************************)
(* What the changes of AccessModel do to any model, whatever the users,    *)
(* roles and specifications are.                                           *)
(***************************************************************************)
EXTENDS AccessModel, Naturals, WellFoundedInduction, TLAPS

Results == {"write", "nochange", "refused"}
IsOutcome(o) == o.result \in Results /\ o.model \in Models

LEMMA PutUserType ==
  ASSUME NEW m \in Models, NEW u \in Users, NEW rec \in UserRecord \cup {NoUser}
  PROVE  IsOutcome(PutUser(m, u, rec))
  BY DEF IsOutcome, Results, PutUser, Write, Models

LEMMA OnRecordIsRecord ==
  ASSUME NEW m \in Models, NEW u \in Users, OnRecord(m, u)
  PROVE  m.users[u] \in UserRecord
  BY DEF Models, OnRecord

LEMMA RefusedType ==
  ASSUME NEW m \in Models
  PROVE  /\ IsOutcome(Refused(m))
         /\ IsOutcome(NoChange(m))
         /\ IsOutcome(Write(m))
  BY DEF IsOutcome, Results, Refused, NoChange, Write

LEMMA RecordSeenType ==
  ASSUME NEW m \in Models, NEW u \in Users, NEW id \in Identities,
         NEW roles \in SUBSET Roles
  PROVE  IsOutcome(RecordSeen(m, u, id, roles))
<1>1. CASE ~OnRecord(m, u)
  <2>1. [identity |-> id, roles |-> roles, password |-> NoPassword, seen |-> TRUE]
           \in UserRecord
    BY DEF UserRecord
  <2> QED BY <1>1, <2>1, PutUserType DEF RecordSeen
<1>2. CASE OnRecord(m, u)
  <2>1. m.users[u] \in UserRecord
    BY <1>2, OnRecordIsRecord
  <2>2. [identity |-> id, roles |-> m.users[u].roles,
         password |-> m.users[u].password, seen |-> TRUE] \in UserRecord
    BY <2>1 DEF UserRecord
  <2> QED BY <1>2, <2>2, PutUserType, RefusedType DEF RecordSeen
<1> QED BY <1>1, <1>2

LEMMA CreateType ==
  ASSUME NEW m \in Models, NEW u \in Users, NEW id \in Identities,
         NEW pw \in Passwords, NEW roles \in SUBSET Roles
  PROVE  IsOutcome(CreateLocalUser(m, u, id, pw, roles))
<1>1. [identity |-> id, roles |-> roles, password |-> pw, seen |-> FALSE] \in UserRecord
  BY DEF UserRecord
<1> QED BY <1>1, PutUserType, RefusedType DEF CreateLocalUser

LEMMA InviteType ==
  ASSUME NEW m \in Models, NEW u \in Users, NEW id \in Identities,
         NEW roles \in SUBSET Roles
  PROVE  IsOutcome(Invite(m, u, id, roles))
<1>1. [identity |-> id, roles |-> roles, password |-> NoPassword, seen |-> FALSE]
         \in UserRecord
  BY DEF UserRecord
<1> QED BY <1>1, PutUserType, RefusedType DEF Invite

LEMMA SetPasswordType ==
  ASSUME NEW m \in Models, NEW u \in Users, NEW pw \in Passwords
  PROVE  IsOutcome(SetPassword(m, u, pw))
<1>1. CASE ~OnRecord(m, u) \/ m.users[u].password = NoPassword
  BY <1>1, RefusedType DEF SetPassword
<1>2. CASE OnRecord(m, u) /\ m.users[u].password # NoPassword
  <2>1. [m.users[u] EXCEPT !.password = pw] \in UserRecord
    BY <1>2, OnRecordIsRecord DEF UserRecord
  <2> QED BY <1>2, <2>1, PutUserType DEF SetPassword
<1> QED BY <1>1, <1>2

LEMMA SetRolesType ==
  ASSUME NEW m \in Models, NEW u \in Users, NEW roles \in SUBSET Roles
  PROVE  IsOutcome(SetRoles(m, u, roles))
<1>1. CASE ~OnRecord(m, u)
  BY <1>1, RefusedType DEF SetRoles
<1>2. CASE OnRecord(m, u)
  <2>1. [m.users[u] EXCEPT !.roles = roles] \in UserRecord
    BY <1>2, OnRecordIsRecord DEF UserRecord
  <2> QED BY <1>2, <2>1, PutUserType DEF SetRoles
<1> QED BY <1>1, <1>2

LEMMA DeleteUserType ==
  ASSUME NEW m \in Models, NEW u \in Users
  PROVE  IsOutcome(DeleteUser(m, u))
  BY PutUserType, RefusedType DEF DeleteUser

LEMMA SaveRoleType ==
  ASSUME NEW m \in Models, NEW r \in Roles, NEW spec \in Specs
  PROVE  IsOutcome(SaveRole(m, r, spec))
<1>1. [m EXCEPT !.roles[r] = spec] \in Models
  BY DEF Models
<1> QED BY <1>1, RefusedType DEF SaveRole, Write, IsOutcome, Results

LEMMA DeleteRoleType ==
  ASSUME NEW m \in Models, NEW r \in Roles
  PROVE  IsOutcome(DeleteRole(m, r))
<1>1. [m EXCEPT !.roles[r] = NoSpec] \in Models
  BY DEF Models
<1> QED BY <1>1, RefusedType DEF DeleteRole

LEMMA SeedRolesType ==
  ASSUME NEW m \in Models
  PROVE  IsOutcome(SeedRoles(m))
<1>1. [m EXCEPT !.roles = DeployedRoles] \in Models
  BY DeployedRolesAreRoles DEF Models
<1> QED BY <1>1, RefusedType DEF SeedRoles

LEMMA MembershipType ==
  ASSUME NEW m \in Models, NEW r \in Roles, NEW us \in SUBSET Users, NEW add \in BOOLEAN
  PROVE  IsOutcome(ChangeRoleMembership(m, r, us, add))
<1> DEFINE moved == Moved(m, r, us, add)
           users == [u \in Users |-> IF u \in moved THEN WithRole(m.users[u], r, add)
                                     ELSE m.users[u]]
<1>1. ASSUME NEW u \in Users
      PROVE  users[u] \in UserRecord \cup {NoUser}
  <2>1. CASE u \in moved
    <3>1. m.users[u] \in UserRecord
      BY <2>1, OnRecordIsRecord DEF Moved
    <3>2. WithRole(m.users[u], r, add) \in UserRecord
      BY <3>1 DEF WithRole, UserRecord
    <3> QED BY <2>1, <3>2
  <2>2. CASE u \notin moved
    BY <2>2 DEF Models
  <2> QED BY <2>1, <2>2
<1>2. users \in [Users -> UserRecord \cup {NoUser}]
  BY <1>1
<1>3. [m EXCEPT !.users = users] \in Models
  BY <1>2 DEF Models
<1> QED BY <1>3, RefusedType DEF ChangeRoleMembership

LEMMA LockoutsType ==
  ASSUME NEW m \in Models, NEW u \in Users, NEW elapsed \in SUBSET Users
  PROVE  /\ IsOutcome(LockUntil(m, u, elapsed))
         /\ IsOutcome(Unlock(m, u, elapsed))
<1>1. /\ [m EXCEPT !.lockouts = (@ \ elapsed) \cup {u}] \in Models
      /\ [m EXCEPT !.lockouts = @ \ ({u} \cup elapsed)] \in Models
  BY DEF Models
<1> QED BY <1>1, RefusedType DEF LockUntil, Unlock

\* Every change, whatever its arguments, turns a model into a model: nothing
\* the portal can be asked leaves a document it could not read again.
THEOREM OutcomeIsModel ==
  ASSUME NEW e \in Edits, NEW m \in Models
  PROVE  IsOutcome(Outcome(e, m))
<1>1. CASE e \in [kind : {"recordSeen"}, user : Users, id : Identities, roles : SUBSET Roles]
  BY <1>1, RecordSeenType DEF Outcome
<1>2. CASE e \in [kind : {"create"}, user : Users, id : Identities,
                  password : Passwords, roles : SUBSET Roles]
  BY <1>2, CreateType DEF Outcome
<1>3. CASE e \in [kind : {"invite"}, user : Users, id : Identities, roles : SUBSET Roles]
  BY <1>3, InviteType DEF Outcome
<1>4. CASE e \in [kind : {"setPassword"}, user : Users, password : Passwords]
  BY <1>4, SetPasswordType DEF Outcome
<1>5. CASE e \in [kind : {"setRoles"}, user : Users, roles : SUBSET Roles]
  BY <1>5, SetRolesType DEF Outcome
<1>6. CASE e \in [kind : {"deleteUser"}, user : Users]
  BY <1>6, DeleteUserType DEF Outcome
<1>7. CASE e \in [kind : {"seed"}]
  BY <1>7, SeedRolesType DEF Outcome
<1>8. CASE e \in [kind : {"saveRole"}, role : Roles, spec : Specs]
  BY <1>8, SaveRoleType DEF Outcome
<1>9. CASE e \in [kind : {"deleteRole"}, role : Roles]
  BY <1>9, DeleteRoleType DEF Outcome
<1>10. CASE e \in [kind : {"membership"}, role : Roles, users : SUBSET Users, add : BOOLEAN]
  BY <1>10, MembershipType DEF Outcome
<1>11. CASE e \in [kind : {"lock"}, user : Users, elapsed : SUBSET Users]
  BY <1>11, LockoutsType DEF Outcome
<1>12. CASE e \in [kind : {"unlock"}, user : Users, elapsed : SUBSET Users]
  BY <1>12, LockoutsType DEF Outcome
<1>13. CASE e \in [kind : {"restore"}, snapshot : Models]
  BY <1>13, RefusedType DEF Outcome, Restore
<1> QED BY <1>1, <1>2, <1>3, <1>4, <1>5, <1>6, <1>7, <1>8, <1>9, <1>10, <1>11,
           <1>12, <1>13 DEF Edits

-----------------------------------------------------------------------------

\* A record is not the mark for none.
LEMMA RecordsAreRecords ==
  ASSUME NEW rec \in UserRecord
  PROVE  rec # NoUser
  BY NullsAreNotValues DEF UserRecord

\* What a change writes is found again.
LEMMA PutAndFound ==
  ASSUME NEW m \in Models, NEW u \in Users, NEW rec
  PROVE  /\ PutUser(m, u, rec).model.users[u] = rec
         /\ OnRecord(PutUser(m, u, rec).model, u) <=> rec # NoUser
         /\ PutUser(PutUser(m, u, rec).model, u, rec).model = PutUser(m, u, rec).model
         /\ PutUser(m, u, rec).result = "write"
  BY DEF PutUser, Write, OnRecord, Models

\* On every model there can be, for any person: who is deleted and signs in again is
\* recorded as somebody who was never on record (DeleteUser, RecordSeen).
LEMMA DeletedAreNew ==
  ASSUME NEW m \in Models, NEW u \in Users, NEW id \in Identities,
         NEW initial \in SUBSET Roles, OnRecord(m, u)
  PROVE  RecordSeen(DeleteUser(m, u).model, u, id, initial).model.users[u]
             = RecordSeen(EmptyModel, u, id, initial).model.users[u]
<1> DEFINE gone == PutUser(m, u, NoUser).model
           new == [identity |-> id, roles |-> initial, password |-> NoPassword, seen |-> TRUE]
<1>1. DeleteUser(m, u).model = gone
  BY DEF DeleteUser
<1>2. gone \in Models /\ ~OnRecord(gone, u)
  BY PutUserType, PutAndFound DEF IsOutcome
<1>3. EmptyModel \in Models /\ ~OnRecord(EmptyModel, u)
  BY DEF EmptyModel, Models, OnRecord
<1>4. \A n \in Models : ~OnRecord(n, u) =>
          RecordSeen(n, u, id, initial).model.users[u] = new
  BY PutAndFound DEF RecordSeen
<1> QED BY <1>1, <1>2, <1>3, <1>4

\* Likewise for any role: who is not granted anything by another role, by none.
LEMMA DeletedRolesGrantNothing ==
  ASSUME NEW m \in Models, NEW r \in Roles, NEW u \in Users, Defined(m, r)
  PROVE  GrantsOf(DeleteRole(m, r).model, u) = {g \in GrantsOf(m, u) : g[1] # r}
<1> DEFINE n == DeleteRole(m, r).model
<1>1. n.users = m.users /\ n.roles = [m.roles EXCEPT ![r] = NoSpec]
  BY DEF DeleteRole, Write, Models
<1>2. \A s \in Roles : n.roles[s] = IF s = r THEN NoSpec ELSE m.roles[s]
  BY <1>1 DEF Models
<1>3. DefinedRoles(n) = DefinedRoles(m) \ {r}
  BY <1>2 DEF DefinedRoles, Defined
<1> SUFFICES GrantsOf(n, u) = {g \in GrantsOf(m, u) : g[1] # r}
  OBVIOUS
<1> HIDE DEF n
<1>4. CASE OnRecord(m, u)
  <2> DEFINE held == m.users[u].roles \cap DefinedRoles(m)
  <2>1. OnRecord(n, u)
    BY <1>1, <1>4 DEF OnRecord
  <2>2. n.users[u].roles \cap DefinedRoles(n) = held \ {r}
    BY <1>1, <1>3
  <2>3. \A s \in held \ {r} : n.roles[s] = m.roles[s]
    BY <1>2 DEF DefinedRoles
  <2>4. GrantsOf(n, u) = {<<s, n.roles[s]>> : s \in held \ {r}}
    BY <2>1, <2>2 DEF GrantsOf
  <2>5. GrantsOf(m, u) = {<<s, m.roles[s]>> : s \in held}
    BY <1>4 DEF GrantsOf
  <2> HIDE DEF held
  <2> QED BY <2>3, <2>4, <2>5
<1>5. CASE ~OnRecord(m, u)
  BY <1>1, <1>5 DEF GrantsOf, OnRecord
<1> QED BY <1>4, <1>5

\* On every model there can be: nothing of what was deleted is left, of a person when
\* they sign in again, and of a role to those who held it, who keep all else
\* (DeleteUser, DeleteRole).
THEOREM DeletionsTakeEverything ==
  ASSUME NEW m \in Models
  PROVE  DeletionRevokes(m)
BY DeletedAreNew, DeletedRolesGrantNothing DEF DeletionRevokes

\* The changes of one record, made again.
LEMMA RecordAgain ==
  ASSUME NEW m \in Models, NEW u \in Users
  PROVE  /\ \A id \in Identities, roles \in SUBSET Roles :
               LET n == RecordSeen(m, u, id, roles).model
               IN  RecordSeen(n, u, id, roles).model = n
         /\ \A id \in Identities, pw \in Passwords, roles \in SUBSET Roles :
               LET n == CreateLocalUser(m, u, id, pw, roles).model
               IN  CreateLocalUser(n, u, id, pw, roles).model = n
         /\ \A id \in Identities, roles \in SUBSET Roles :
               LET n == Invite(m, u, id, roles).model
               IN  Invite(n, u, id, roles).model = n
         /\ \A pw \in Passwords :
               LET n == SetPassword(m, u, pw).model
               IN  SetPassword(n, u, pw).model = n
         /\ \A roles \in SUBSET Roles :
               LET n == SetRoles(m, u, roles).model
               IN  SetRoles(n, u, roles).model = n
         /\ LET n == DeleteUser(m, u).model
            IN  DeleteUser(n, u).model = n
<1> DEFINE Put(rec) == PutUser(m, u, rec).model
<1>1. \A rec \in UserRecord \cup {NoUser} :
         /\ Put(rec) \in Models
         /\ Put(rec).users[u] = rec
         /\ OnRecord(Put(rec), u) <=> rec # NoUser
         /\ PutUser(Put(rec), u, rec).model = Put(rec)
  BY PutUserType, PutAndFound DEF IsOutcome
<1>2. NoUser \notin UserRecord
  BY RecordsAreRecords
<1>3. \A n : Refused(n).model = n /\ NoChange(n).model = n
  BY DEF Refused, NoChange
<1>4. OnRecord(m, u) => m.users[u] \in UserRecord
  BY OnRecordIsRecord
<1> HIDE DEF Put
<1>5. ASSUME NEW id \in Identities, NEW roles \in SUBSET Roles
      PROVE  LET n == RecordSeen(m, u, id, roles).model
             IN  RecordSeen(n, u, id, roles).model = n
  <2> DEFINE seen(rs, p) == [identity |-> id, roles |-> rs, password |-> p, seen |-> TRUE]
  <2>1. \A rs \in SUBSET Roles, p \in Passwords \cup {NoPassword} :
           seen(rs, p) \in UserRecord
    BY DEF UserRecord
  <2>2. ASSUME NEW rs \in SUBSET Roles, NEW p \in Passwords \cup {NoPassword}
        PROVE  RecordSeen(Put(seen(rs, p)), u, id, roles).model = Put(seen(rs, p))
    <3>1. OnRecord(Put(seen(rs, p)), u) /\ Put(seen(rs, p)).users[u] = seen(rs, p)
      BY <1>1, <1>2, <2>1
    <3>2. ~Invited(seen(rs, p)) /\ seen(rs, p).identity = id
      BY DEF Invited
    <3> HIDE DEF seen
    <3> QED BY <1>3, <3>1, <3>2 DEF RecordSeen
  <2>3. \/ RecordSeen(m, u, id, roles).model = m
        \/ \E rs \in SUBSET Roles, p \in Passwords \cup {NoPassword} :
              RecordSeen(m, u, id, roles).model = Put(seen(rs, p))
    <3>1. CASE ~OnRecord(m, u)
      BY <3>1 DEF RecordSeen, Put
    <3>2. CASE OnRecord(m, u)
      <4>1. m.users[u].roles \in SUBSET Roles /\ m.users[u].password \in Passwords \cup {NoPassword}
        BY <1>4, <3>2 DEF UserRecord
      <4> QED BY <1>3, <3>2, <4>1 DEF RecordSeen, Put
    <3> QED BY <3>1, <3>2
  <2> HIDE DEF seen
  <2> QED BY <2>2, <2>3
<1>6. ASSUME NEW id \in Identities, NEW pw \in Passwords, NEW roles \in SUBSET Roles
      PROVE  LET n == CreateLocalUser(m, u, id, pw, roles).model
             IN  CreateLocalUser(n, u, id, pw, roles).model = n
  <2>1. [identity |-> id, roles |-> roles, password |-> pw, seen |-> FALSE] \in UserRecord
    BY DEF UserRecord
  <2> QED BY <1>1, <1>2, <1>3, <2>1 DEF CreateLocalUser, Put
<1>7. ASSUME NEW id \in Identities, NEW roles \in SUBSET Roles
      PROVE  LET n == Invite(m, u, id, roles).model
             IN  Invite(n, u, id, roles).model = n
  <2>1. [identity |-> id, roles |-> roles, password |-> NoPassword, seen |-> FALSE] \in UserRecord
    BY DEF UserRecord
  <2> QED BY <1>1, <1>2, <1>3, <2>1 DEF Invite, Put
<1>8. ASSUME NEW pw \in Passwords
      PROVE  LET n == SetPassword(m, u, pw).model
             IN  SetPassword(n, u, pw).model = n
  <2> DEFINE rec == [m.users[u] EXCEPT !.password = pw]
  <2>1. CASE ~OnRecord(m, u) \/ m.users[u].password = NoPassword
    BY <1>3, <2>1 DEF SetPassword
  <2>2. CASE OnRecord(m, u) /\ m.users[u].password # NoPassword
    <3>1. rec \in UserRecord /\ rec.password = pw /\ pw # NoPassword
      BY <1>4, <2>2, NullsAreNotValues DEF UserRecord
    <3>2. [rec EXCEPT !.password = pw] = rec
      BY <3>1 DEF UserRecord
    <3>3. SetPassword(m, u, pw).model = Put(rec)
      BY <2>2 DEF SetPassword, Put
    <3> HIDE DEF rec
    <3>4. SetPassword(Put(rec), u, pw) = PutUser(Put(rec), u, rec)
      BY <1>1, <1>2, <3>1, <3>2 DEF SetPassword
    <3> QED BY <1>1, <3>1, <3>3, <3>4
  <2> QED BY <2>1, <2>2
<1>9. ASSUME NEW roles \in SUBSET Roles
      PROVE  LET n == SetRoles(m, u, roles).model
             IN  SetRoles(n, u, roles).model = n
  <2> DEFINE rec == [m.users[u] EXCEPT !.roles = roles]
  <2>1. CASE ~OnRecord(m, u)
    BY <1>3, <2>1 DEF SetRoles
  <2>2. CASE OnRecord(m, u)
    <3>1. rec \in UserRecord
      BY <1>4, <2>2 DEF UserRecord
    <3>2. [rec EXCEPT !.roles = roles] = rec
      BY <1>4, <2>2 DEF UserRecord
    <3>3. SetRoles(m, u, roles).model = Put(rec)
      BY <2>2 DEF SetRoles, Put
    <3> HIDE DEF rec
    <3>4. SetRoles(Put(rec), u, roles) = PutUser(Put(rec), u, rec)
      BY <1>1, <1>2, <3>1, <3>2 DEF SetRoles
    <3> QED BY <1>1, <3>1, <3>3, <3>4
  <2> QED BY <2>1, <2>2
<1>10. LET n == DeleteUser(m, u).model
       IN  DeleteUser(n, u).model = n
  BY <1>1, <1>3 DEF DeleteUser, Put
<1> QED BY <1>5, <1>6, <1>7, <1>8, <1>9, <1>10

\* Those of the roles and of the whole model.
LEMMA RolesAgain ==
  ASSUME NEW m \in Models
  PROVE  /\ \A r \in Roles, spec \in Specs :
               LET n == SaveRole(m, r, spec).model IN SaveRole(n, r, spec).model = n
         /\ \A r \in Roles :
               LET n == DeleteRole(m, r).model IN DeleteRole(n, r).model = n
         /\ LET n == SeedRoles(m).model IN SeedRoles(n).model = n
<1>1. ASSUME NEW r \in Roles, NEW spec \in Specs
      PROVE  LET n == SaveRole(m, r, spec).model IN SaveRole(n, r, spec).model = n
  BY DEF SaveRole, Write, Models
<1>2. ASSUME NEW r \in Roles
      PROVE  LET n == DeleteRole(m, r).model IN DeleteRole(n, r).model = n
  BY DEF DeleteRole, Refused, Write, Models, Defined
<1>3. LET n == SeedRoles(m).model IN SeedRoles(n).model = n
  BY DEF SeedRoles, NoChange, Write, Models
<1> QED BY <1>1, <1>2, <1>3

LEMMA LockoutsAgain ==
  ASSUME NEW m \in Models, NEW u \in Users, NEW elapsed \in SUBSET Users
  PROVE  /\ LET n == LockUntil(m, u, elapsed).model IN LockUntil(n, u, elapsed).model = n
         /\ LET n == Unlock(m, u, elapsed).model IN Unlock(n, u, elapsed).model = n
<1> DEFINE n == LockUntil(m, u, elapsed).model
<1>1. n.lockouts = (m.lockouts \ elapsed) \cup {u}
  BY DEF LockUntil, Write, Models
<1>2. (n.lockouts \ elapsed) \cup {u} = n.lockouts
  BY <1>1
<1>3. [n EXCEPT !.lockouts = (@ \ elapsed) \cup {u}] = n
  BY <1>2 DEF LockUntil, Write, Models
<1>4. LockUntil(n, u, elapsed).model = n
  BY <1>3 DEF LockUntil, Write
<1>5. LET k == Unlock(m, u, elapsed).model IN Unlock(k, u, elapsed).model = k
  BY DEF Unlock, Write, NoChange, Models
<1> QED BY <1>4, <1>5

LEMMA MembershipAgain ==
  ASSUME NEW m \in Models, NEW r \in Roles, NEW us \in SUBSET Users, NEW add \in BOOLEAN
  PROVE  LET n == ChangeRoleMembership(m, r, us, add).model
         IN  ChangeRoleMembership(n, r, us, add).model = n
<1> DEFINE moved == Moved(m, r, us, add)
           users == [u \in Users |-> IF u \in moved THEN WithRole(m.users[u], r, add)
                                     ELSE m.users[u]]
           n == [m EXCEPT !.users = users]
<1>1. CASE ~Defined(m, r) \/ moved = {}
  BY <1>1 DEF ChangeRoleMembership, Refused, NoChange
<1>2. CASE Defined(m, r) /\ moved # {}
  <2>1. ChangeRoleMembership(m, r, us, add) = Write(n)
    BY <1>2 DEF ChangeRoleMembership
  <2>2. Defined(n, r) /\ n.users = users
    BY <1>2 DEF Defined, Models
  \* Nobody is left whose role would be moved.
  <2>3. ASSUME NEW u \in Moved(n, r, us, add)
        PROVE  FALSE
    <3>1. u \in us /\ u \in Users /\ users[u] # NoUser /\ (r \in users[u].roles) # add
      BY <2>2 DEF Moved, OnRecord
    <3>2. CASE u \in moved
      <4>1. m.users[u] \in UserRecord
        BY <3>2, OnRecordIsRecord DEF Moved
      <4>2. users[u].roles = IF add THEN m.users[u].roles \cup {r} ELSE m.users[u].roles \ {r}
        BY <3>1, <3>2, <4>1 DEF WithRole, UserRecord
      <4>3. CASE add = TRUE
        <5> HIDE DEF users
        <5> QED BY <3>1, <4>2, <4>3
      <4>4. CASE add = FALSE
        <5> HIDE DEF users
        <5> QED BY <3>1, <4>2, <4>4
      <4> QED BY <4>3, <4>4
    <3>3. CASE u \notin moved
      BY <3>1, <3>3 DEF Moved, OnRecord
    <3> QED BY <3>2, <3>3
  <2>4. ChangeRoleMembership(n, r, us, add) = NoChange(n)
    <3> HIDE DEF n
    <3> QED BY <2>2, <2>3 DEF ChangeRoleMembership
  <2> QED BY <2>1, <2>4 DEF Write, NoChange
<1> QED BY <1>1, <1>2

\* Any change on any model, asked for again because its answer was lost, leaves what
\* it made the first time.
THEOREM RetriesChangeNothing ==
  ASSUME NEW m \in Models
  PROVE  RetryIsHarmless(m, Edits)
<1> SUFFICES ASSUME NEW e \in Edits
             PROVE  Outcome(e, Outcome(e, m).model).model = Outcome(e, m).model
  BY DEF RetryIsHarmless
<1>1. CASE e \in [kind : {"recordSeen"}, user : Users, id : Identities, roles : SUBSET Roles]
  <2>1. \A k : Outcome(e, k) = RecordSeen(k, e.user, e.id, e.roles)
    BY <1>1 DEF Outcome
  <2> QED BY <1>1, <2>1, RecordAgain
<1>2. CASE e \in [kind : {"create"}, user : Users, id : Identities,
                  password : Passwords, roles : SUBSET Roles]
  <2>1. \A k : Outcome(e, k) = CreateLocalUser(k, e.user, e.id, e.password, e.roles)
    BY <1>2 DEF Outcome
  <2> QED BY <1>2, <2>1, RecordAgain
<1>3. CASE e \in [kind : {"invite"}, user : Users, id : Identities, roles : SUBSET Roles]
  <2>1. \A k : Outcome(e, k) = Invite(k, e.user, e.id, e.roles)
    BY <1>3 DEF Outcome
  <2> QED BY <1>3, <2>1, RecordAgain
<1>4. CASE e \in [kind : {"setPassword"}, user : Users, password : Passwords]
  <2>1. \A k : Outcome(e, k) = SetPassword(k, e.user, e.password)
    BY <1>4 DEF Outcome
  <2> QED BY <1>4, <2>1, RecordAgain
<1>5. CASE e \in [kind : {"setRoles"}, user : Users, roles : SUBSET Roles]
  <2>1. \A k : Outcome(e, k) = SetRoles(k, e.user, e.roles)
    BY <1>5 DEF Outcome
  <2> QED BY <1>5, <2>1, RecordAgain
<1>6. CASE e \in [kind : {"deleteUser"}, user : Users]
  <2>1. \A k : Outcome(e, k) = DeleteUser(k, e.user)
    BY <1>6 DEF Outcome
  <2> QED BY <1>6, <2>1, RecordAgain
<1>7. CASE e \in [kind : {"seed"}]
  <2>1. \A k : Outcome(e, k) = SeedRoles(k)
    BY <1>7 DEF Outcome
  <2> QED BY <1>7, <2>1, RolesAgain
<1>8. CASE e \in [kind : {"saveRole"}, role : Roles, spec : Specs]
  <2>1. \A k : Outcome(e, k) = SaveRole(k, e.role, e.spec)
    BY <1>8 DEF Outcome
  <2> QED BY <1>8, <2>1, RolesAgain
<1>9. CASE e \in [kind : {"deleteRole"}, role : Roles]
  <2>1. \A k : Outcome(e, k) = DeleteRole(k, e.role)
    BY <1>9 DEF Outcome
  <2> QED BY <1>9, <2>1, RolesAgain
<1>10. CASE e \in [kind : {"membership"}, role : Roles, users : SUBSET Users, add : BOOLEAN]
  <2>1. \A k : Outcome(e, k) = ChangeRoleMembership(k, e.role, e.users, e.add)
    BY <1>10 DEF Outcome
  <2> QED BY <1>10, <2>1, MembershipAgain
<1>11. CASE e \in [kind : {"lock"}, user : Users, elapsed : SUBSET Users]
  <2>1. \A k : Outcome(e, k) = LockUntil(k, e.user, e.elapsed)
    BY <1>11 DEF Outcome
  <2> QED BY <1>11, <2>1, LockoutsAgain
<1>12. CASE e \in [kind : {"unlock"}, user : Users, elapsed : SUBSET Users]
  <2>1. \A k : Outcome(e, k) = Unlock(k, e.user, e.elapsed)
    BY <1>12 DEF Outcome
  <2> QED BY <1>12, <2>1, LockoutsAgain
<1>13. CASE e \in [kind : {"restore"}, snapshot : Models]
  BY <1>13 DEF Outcome, Restore, Write
<1> QED BY <1>1, <1>2, <1>3, <1>4, <1>5, <1>6, <1>7, <1>8, <1>9, <1>10, <1>11,
           <1>12, <1>13 DEF Edits

-----------------------------------------------------------------------------

\* For inductions on how many changes were made.
LEMMA Least ==
  ASSUME NEW S \in SUBSET Nat, S # {}
  PROVE  \E x \in S : \A y \in S : ~(y < x)
<1>1. \E x \in S : \A y \in S : ~(<<y, x>> \in OpToRel(<, Nat))
  BY NatLessThanWellFounded, WFMin
<1> QED BY <1>1 DEF OpToRel

=============================================================================
