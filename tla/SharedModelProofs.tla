-------------------------- MODULE SharedModelProofs --------------------------
(***************************************************************************)
(* About what stands on the shared model, for any replicas, roles and      *)
(* changes.                                                                *)
(*                                                                         *)
(* The laws of the changes, which AccessModelProofs proves of models, hold *)
(* of whatever the shared store comes to: it keeps nothing else.           *)
(*                                                                         *)
(* A role taken away is refused.  A request is answered from a copy, so no *)
(* copy that is up to date may have a role for the person that nobody gave *)
(* them; and neither may the stored model, from which copies are made      *)
(* (NothingUngiven).  A token carries roles into the store only under      *)
(* oidc, where the portal itself signs for nobody but the break-glass      *)
(* account (TokensByOthers).                                               *)
(*                                                                         *)
(* A file keeps what was acknowledged, and the Secret it is moved to has   *)
(* all of it.  A rename puts the process's copy in the place of the file,  *)
(* so the copy must have what the file was promised to keep for as long as *)
(* the process could rename it: while it reads and writes, and while the   *)
(* version it knows is the file's (CopyIsUpToDate).  The version is only   *)
(* taken for the file's when it was, as versions grow (VersionsGrow).  A   *)
(* replica carries what it read, and what came into the file since is late *)
(* (Carried).                                                              *)
(***************************************************************************)
EXTENDS Sessions, SharedModel, FileStore, AccessModelProofs

SessionTypeOK ==
    /\ deployment \in Deployments
    /\ stored \in Models
    /\ copies \in [SessionReplicas -> Models]
    /\ current \in SUBSET SessionReplicas
    /\ token.roles \in SUBSET Roles

\* But for the break-glass account under oidc.
Covered == ~(deployment.provider = "oidc" /\ deployment.breakGlass)

TokensByOthers == Covered /\ deployment.provider = "oidc" => token.issuer # "session"

NothingUngiven ==
    Covered =>
        /\ RolesOf(stored) \cap ungiven = {}
        /\ \A r \in current : RolesOf(copies[r]) \cap ungiven = {}

SessionInv == SessionTypeOK /\ TokensByOthers /\ NothingUngiven

-----------------------------------------------------------------------------

LEMMA DeploymentType ==
  ASSUME NEW d \in Deployments
  PROVE  /\ d.bootstrap \in SUBSET Roles
         /\ d.given \in SUBSET Roles
         /\ d.provider \in {"local", "oidc"}
  BY SessionConstants DEF Deployments

LEMMA RolesOfType ==
  ASSUME NEW m \in Models
  PROVE  RolesOf(m) \in SUBSET Roles
  BY SessionConstants DEF RolesOf, Models, OnRecord, UserRecord

\* What a sighting makes of somebody's roles.
LEMMA SeenRoles ==
  ASSUME NEW m \in Models, NEW roles \in SUBSET Roles
  PROVE  LET o == Outcome([kind |-> "recordSeen", user |-> Person, id |-> Identity,
                           roles |-> roles], m)
         IN  /\ o.model \in Models
             /\ RolesOf(o.model) = IF OnRecord(m, Person) THEN RolesOf(m) ELSE roles
<1> DEFINE c == [kind |-> "recordSeen", user |-> Person, id |-> Identity, roles |-> roles]
           o == RecordSeen(m, Person, Identity, roles)
<1>1. Outcome(c, m) = o
  BY DEF Outcome
<1>2. Person \in Users /\ Identity \in Identities
  BY SessionConstants
<1>3. o.model \in Models
  BY <1>2, RecordSeenType DEF IsOutcome
<1>4. RolesOf(o.model) = IF OnRecord(m, Person) THEN RolesOf(m) ELSE roles
  <2>1. ASSUME NEW rec, rec # NoUser
        PROVE  RolesOf(PutUser(m, Person, rec).model) = rec.roles
    BY <1>2, <2>1 DEF PutUser, Write, RolesOf, OnRecord, Models
  <2>2. \A id \in Identities, rs \in SUBSET Roles, pw \in Passwords \cup {NoPassword}, s \in BOOLEAN :
           [identity |-> id, roles |-> rs, password |-> pw, seen |-> s] # NoUser
    BY NullsAreNotValues
  <2>3. CASE ~OnRecord(m, Person)
    <3> DEFINE new == [identity |-> Identity, roles |-> roles,
                       password |-> NoPassword, seen |-> TRUE]
    <3>1. new # NoUser /\ new.roles = roles
      BY <1>2, <2>2
    <3>2. o = PutUser(m, Person, new)
      BY <2>3 DEF RecordSeen
    <3> HIDE DEF new, o
    <3> QED BY <2>1, <2>3, <3>1, <3>2
  <2>4. CASE OnRecord(m, Person)
    <3>1. m.users[Person] \in UserRecord
      BY <1>2, <2>4, OnRecordIsRecord
    <3> DEFINE rec == m.users[Person]
               seen == [identity |-> Identity, roles |-> rec.roles,
                        password |-> rec.password, seen |-> TRUE]
    <3>2. seen # NoUser /\ seen.roles = rec.roles
      BY <1>2, <2>2, <3>1 DEF UserRecord
    <3>3. RolesOf(PutUser(m, Person, seen).model) = rec.roles
      <4> HIDE DEF seen, rec
      <4> QED BY <2>1, <3>2
    <3>4. o \in {PutUser(m, Person, seen), NoChange(m)}
      BY <2>4 DEF RecordSeen
    <3>5. RolesOf(NoChange(m).model) = rec.roles /\ RolesOf(m) = rec.roles
      BY <2>4 DEF NoChange, RolesOf
    <3> QED BY <2>4, <3>3, <3>4, <3>5
  <2> QED BY <2>3, <2>4
<1> QED BY <1>1, <1>3, <1>4

\* What an administrator's change makes of them.
LEMMA ChangedRoles ==
  ASSUME NEW m \in Models, NEW call \in Changes
  PROVE  LET o == Outcome(call, m)
         IN  /\ o.model \in Models
             /\ GrantedBy(call) \in SUBSET Roles
             /\ o.result = "write" => RolesOf(o.model) = GrantedBy(call)
             /\ o.result # "write" => o.model = m
<1>1. Person \in Users /\ Identity \in Identities /\ Granted \subseteq SUBSET Roles
  BY SessionConstants
<1>2. ASSUME NEW rec, rec # NoUser
      PROVE  RolesOf(PutUser(m, Person, rec).model) = rec.roles
  BY <1>1, <1>2 DEF PutUser, Write, RolesOf, OnRecord, Models
<1>3. CASE call \in [kind : {"setRoles"}, user : {Person}, roles : Granted]
  <2>1. /\ Outcome(call, m) = SetRoles(m, Person, call.roles)
        /\ call.roles \in SUBSET Roles
        /\ GrantedBy(call) = call.roles
    BY <1>1, <1>3 DEF Outcome, GrantedBy
  <2>2. CASE ~OnRecord(m, Person)
    BY <2>1, <2>2 DEF SetRoles, Refused
  <2>3. CASE OnRecord(m, Person)
    <3> DEFINE rec == [m.users[Person] EXCEPT !.roles = call.roles]
    <3>1. rec \in UserRecord /\ rec.roles = call.roles
      BY <1>1, <2>1, <2>3, OnRecordIsRecord DEF UserRecord
    <3>2. rec # NoUser
      BY <3>1, NullsAreNotValues DEF UserRecord
    <3>3. Outcome(call, m) = PutUser(m, Person, rec)
      BY <2>1, <2>3 DEF SetRoles
    <3> HIDE DEF rec
    <3>4. IsOutcome(PutUser(m, Person, rec)) /\ PutUser(m, Person, rec).result = "write"
      BY <1>1, <3>1, PutUserType DEF PutUser, Write
    <3> QED BY <1>2, <2>1, <3>1, <3>2, <3>3, <3>4 DEF IsOutcome
  <2> QED BY <2>2, <2>3
<1>4. CASE call \in [kind : {"deleteUser"}, user : {Person}]
  <2>1. Outcome(call, m) = DeleteUser(m, Person) /\ GrantedBy(call) = {}
    BY <1>4 DEF Outcome, GrantedBy
  <2>2. IsOutcome(DeleteUser(m, Person))
    BY <1>1, DeleteUserType
  <2>3. RolesOf(PutUser(m, Person, NoUser).model) = {}
    BY <1>1 DEF PutUser, Write, RolesOf, OnRecord, Models
  <2> QED BY <2>1, <2>2, <2>3 DEF DeleteUser, PutUser, Write, Refused, IsOutcome
<1>5. CASE call \in [kind : {"invite"}, user : {Person}, id : {Identity}, roles : Granted \ {{}}]
  <2>1. /\ Outcome(call, m) = Invite(m, Person, Identity, call.roles)
        /\ call.roles \in SUBSET Roles
        /\ GrantedBy(call) = call.roles
    BY <1>1, <1>5 DEF Outcome, GrantedBy
  <2>2. CASE OnRecord(m, Person)
    BY <2>1, <2>2 DEF Invite, Refused
  <2>3. CASE ~OnRecord(m, Person)
    <3> DEFINE rec == [identity |-> Identity, roles |-> call.roles,
                       password |-> NoPassword, seen |-> FALSE]
    <3>1. rec \in UserRecord /\ rec.roles = call.roles
      BY <1>1, <2>1 DEF UserRecord
    <3>2. rec # NoUser
      BY <3>1, NullsAreNotValues DEF UserRecord
    <3>3. Outcome(call, m) = PutUser(m, Person, rec)
      BY <2>1, <2>3 DEF Invite
    <3> HIDE DEF rec
    <3>4. IsOutcome(PutUser(m, Person, rec)) /\ PutUser(m, Person, rec).result = "write"
      BY <1>1, <3>1, PutUserType DEF PutUser, Write
    <3> QED BY <1>2, <2>1, <3>1, <3>2, <3>3, <3>4 DEF IsOutcome
  <2> QED BY <2>2, <2>3
<1> QED BY <1>3, <1>4, <1>5 DEF Changes

-----------------------------------------------------------------------------

\* A change of the store by a replica: roles is what it gives somebody who is new,
\* or has whatever they had, and ungiven loses no less than that.
LEMMA RegistersKeeps ==
  ASSUME SessionInv, NEW r \in SessionReplicas, NEW roles \in SUBSET Roles,
         Registers(r, roles), UNCHANGED deployment,
         Covered => roles \subseteq deployment.given
  PROVE  /\ stored' \in Models
         /\ copies' \in [SessionReplicas -> Models]
         /\ current' \in SUBSET SessionReplicas
         /\ NothingUngiven'
<1> DEFINE call == [kind |-> "recordSeen", user |-> Person, id |-> Identity, roles |-> roles]
           Seen(m) == Outcome(call, m).model
<1>1. SessionTypeOK /\ NothingUngiven
  BY DEF SessionInv
<1>2. /\ Written(r, call) \/ Unwritten(r, call)
      /\ ungiven' = IF OnRecord(copies[r], Person) /\ OnRecord(stored, Person)
                    THEN ungiven ELSE ungiven \ deployment.given
  BY DEF Registers
<1>3. \A m \in Models :
         /\ Seen(m) \in Models
         /\ RolesOf(Seen(m)) = IF OnRecord(m, Person) THEN RolesOf(m) ELSE roles
  BY SeenRoles
<1>4. copies[r] \in Models /\ stored \in Models
  BY <1>1 DEF SessionTypeOK
<1>5. Covered' = Covered
  BY DEF Covered
\* Whatever a sighting is made on, if it is up to date.
<1>6. ASSUME Covered, NEW m \in {stored, copies[r]}, RolesOf(m) \cap ungiven = {}
      PROVE  RolesOf(Seen(m)) \cap ungiven' = {}
  <2> HIDE DEF call
  <2>1. CASE OnRecord(m, Person)
    BY <1>2, <1>3, <1>4, <1>6, <2>1
  <2>2. CASE ~OnRecord(m, Person)
    <3>1. ungiven' = ungiven \ deployment.given
      BY <1>2, <1>6, <2>2
    <3> QED BY <1>3, <1>4, <1>6, <2>2, <3>1
  <2> QED BY <2>1, <2>2
<1>7. ungiven' \subseteq ungiven
  BY <1>2
<1>8. CASE Written(r, call)
  <2> DEFINE base == IF r \in current THEN copies[r] ELSE stored
  <2>1. /\ stored' = Seen(base)
        /\ copies' = [copies EXCEPT ![r] = Seen(base)]
        /\ current' = {r}
    BY <1>8 DEF Written
  <2>2. base \in Models /\ base \in {stored, copies[r]}
    BY <1>4
  <2>3. Covered => RolesOf(base) \cap ungiven = {}
    BY <1>1 DEF NothingUngiven
  <2> HIDE DEF base, Seen
  <2>4. copies'[r] = stored' /\ stored' \in Models /\ copies' \in [SessionReplicas -> Models]
    BY <1>1, <1>3, <2>1, <2>2 DEF SessionTypeOK
  <2>5. Covered => RolesOf(stored') \cap ungiven' = {}
    BY <1>6, <2>1, <2>2, <2>3
  <2>6. RolesOf(stored)' = RolesOf(stored') /\ RolesOf(copies[r])' = RolesOf(copies'[r])
    BY DEF RolesOf
  <2> QED BY <1>5, <2>1, <2>4, <2>5 DEF NothingUngiven, RolesOf
<1>9. CASE Unwritten(r, call)
  <2>1. PICK m \in {stored, copies[r]} :
           /\ copies' = [copies EXCEPT ![r] = Seen(m)]
           /\ \/ m = copies[r] /\ current' = current
              \/ m = stored /\ current' = current \cup {r}
           /\ stored' = stored
    BY <1>9 DEF Unwritten
  <2> HIDE DEF Seen
  <2>2. copies' \in [SessionReplicas -> Models] /\ copies'[r] = Seen(m)
    BY <1>1, <1>3, <1>4, <2>1 DEF SessionTypeOK
  <2>3. ASSUME Covered, NEW q \in current'
        PROVE  RolesOf(copies'[q]) \cap ungiven' = {}
    <3>1. CASE q = r
      <4>1. RolesOf(m) \cap ungiven = {}
        BY <1>1, <2>1, <2>3, <3>1 DEF NothingUngiven
      <4> QED BY <1>6, <2>1, <2>2, <2>3, <3>1, <4>1
    <3>2. CASE q # r
      <4>1. q \in current /\ copies'[q] = copies[q]
        BY <1>1, <2>1, <2>3, <3>2 DEF SessionTypeOK
      <4>2. RolesOf(copies[q]) \cap ungiven = {}
        BY <1>1, <2>3, <4>1 DEF NothingUngiven
      <4> QED BY <1>7, <4>1, <4>2
    <3> QED BY <3>1, <3>2
  <2>4. Covered => RolesOf(stored) \cap ungiven' = {}
    BY <1>1, <1>7 DEF NothingUngiven
  <2> QED BY <1>1, <1>5, <2>1, <2>2, <2>3, <2>4 DEF NothingUngiven, RolesOf, SessionTypeOK
<1> QED BY <1>2, <1>8, <1>9

LEMMA AdministersKeeps ==
  ASSUME SessionInv, NEW r \in SessionReplicas, NEW call \in Changes, Administers(r, call)
  PROVE  SessionInv'
<1> DEFINE Then(m) == Outcome(call, m).model
<1>1. SessionTypeOK /\ TokensByOthers /\ NothingUngiven
  BY DEF SessionInv
<1>2. /\ \/ Written(r, call) /\ ungiven' = Roles \ GrantedBy(call)
         \/ Unwritten(r, call) /\ ungiven' = ungiven \ GrantedBy(call)
      /\ UNCHANGED <<deployment, starts, token>>
  BY DEF Administers
<1>3. \A m \in Models :
         /\ Then(m) \in Models
         /\ Outcome(call, m).result = "write" => RolesOf(Then(m)) = GrantedBy(call)
         /\ Outcome(call, m).result # "write" => Then(m) = m
  BY ChangedRoles
<1>4. copies[r] \in Models /\ stored \in Models
  BY <1>1 DEF SessionTypeOK
<1>5. Covered' = Covered /\ TokensByOthers'
  BY <1>1, <1>2 DEF Covered, TokensByOthers
<1>6. CASE Written(r, call) /\ ungiven' = Roles \ GrantedBy(call)
  <2> DEFINE base == IF r \in current THEN copies[r] ELSE stored
  <2>1. /\ stored' = Then(base)
        /\ Outcome(call, base).result = "write"
        /\ copies' = [copies EXCEPT ![r] = Then(base)]
        /\ current' = {r}
    BY <1>6 DEF Written
  <2>2. base \in Models
    BY <1>4
  <2> HIDE DEF base, Then
  <2>3. /\ stored' \in Models
        /\ copies'[r] = stored'
        /\ copies' \in [SessionReplicas -> Models]
        /\ RolesOf(stored') = GrantedBy(call)
    BY <1>1, <1>3, <2>1, <2>2 DEF SessionTypeOK
  <2>4. RolesOf(stored') \cap ungiven' = {}
    BY <1>6, <2>3
  <2>5. NothingUngiven'
    BY <2>1, <2>3, <2>4 DEF NothingUngiven, RolesOf
  <2> QED BY <1>1, <1>2, <1>5, <2>1, <2>3, <2>5 DEF SessionInv, SessionTypeOK
<1>7. CASE Unwritten(r, call) /\ ungiven' = ungiven \ GrantedBy(call)
  <2>1. PICK m \in {stored, copies[r]} :
           /\ copies' = [copies EXCEPT ![r] = Then(m)]
           /\ \/ m = copies[r] /\ current' = current
              \/ m = stored /\ current' = current \cup {r}
           /\ stored' = stored
    BY <1>7 DEF Unwritten
  <2>2. copies' \in [SessionReplicas -> Models] /\ copies'[r] = Then(m)
    <3> HIDE DEF Then
    <3> QED BY <1>1, <1>3, <1>4, <2>1 DEF SessionTypeOK
  <2>3. ASSUME Covered, NEW q \in current'
        PROVE  RolesOf(copies'[q]) \cap ungiven' = {}
    <3>1. CASE q = r
      <4>1. RolesOf(m) \cap ungiven = {}
        BY <1>1, <2>1, <2>3, <3>1 DEF NothingUngiven
      <4>2. RolesOf(Then(m)) \in {RolesOf(m), GrantedBy(call)}
        BY <1>3, <1>4
      <4> HIDE DEF Then
      <4> QED BY <1>7, <2>2, <3>1, <4>1, <4>2
    <3>2. CASE q # r
      <4>1. q \in current /\ copies'[q] = copies[q]
        BY <1>1, <2>1, <2>3, <3>2 DEF SessionTypeOK
      <4>2. RolesOf(copies[q]) \cap ungiven = {}
        BY <1>1, <2>3, <4>1 DEF NothingUngiven
      <4> QED BY <1>7, <4>1, <4>2
    <3> QED BY <3>1, <3>2
  <2>4. Covered => RolesOf(stored) \cap ungiven' = {}
    BY <1>1, <1>7 DEF NothingUngiven
  <2>5. NothingUngiven'
    BY <1>5, <2>1, <2>3, <2>4 DEF NothingUngiven, RolesOf
  <2> QED BY <1>1, <1>2, <1>5, <2>1, <2>2, <2>5 DEF SessionInv, SessionTypeOK
<1> QED BY <1>2, <1>6, <1>7

LEMMA SignsInKeeps ==
  ASSUME SessionInv, NEW r \in SessionReplicas, SignsIn(r)
  PROVE  SessionInv'
<1>1. SessionTypeOK /\ TokensByOthers /\ NothingUngiven
  BY DEF SessionInv
<1>2. PICK roles \in (IF deployment.breakGlass THEN {{}} ELSE {})
                     \cup (IF deployment.provider = "local" THEN {deployment.given} ELSE {}) :
         Registers(r, roles)
  BY DEF SignsIn
<1>3. /\ token' = Signed(r, "session", RolesFor(copies'[r]))
      /\ UNCHANGED <<deployment, starts>>
  BY DEF SignsIn
<1>4. roles \in SUBSET Roles /\ roles \subseteq deployment.given
  BY <1>1, <1>2, DeploymentType DEF SessionTypeOK
<1>5. /\ stored' \in Models
      /\ copies' \in [SessionReplicas -> Models]
      /\ current' \in SUBSET SessionReplicas
      /\ NothingUngiven'
  BY <1>2, <1>3, <1>4, RegistersKeeps
<1>6. token'.roles \in SUBSET Roles
  <2>1. RolesOf(copies'[r]) \in SUBSET Roles
    BY <1>5, RolesOfType
  <2> QED BY <1>1, <1>3, <2>1, DeploymentType DEF Signed, RolesFor, SessionTypeOK
<1>7. TokensByOthers'
  BY <1>1, <1>2, <1>3 DEF TokensByOthers, Covered
<1> QED BY <1>1, <1>3, <1>5, <1>6, <1>7 DEF SessionInv, SessionTypeOK

LEMMA RequestKeeps ==
  ASSUME SessionInv, NEW r \in SessionReplicas, Request(r)
  PROVE  SessionInv'
<1>1. SessionTypeOK /\ TokensByOthers /\ NothingUngiven
  BY DEF SessionInv
<1>2. UNCHANGED <<deployment, starts, token>>
  BY DEF Request
<1>3. TokensByOthers'
  BY <1>1, <1>2 DEF TokensByOthers, Covered
<1>4. CASE UNCHANGED <<store, ungiven>>
  BY <1>1, <1>2, <1>3, <1>4 DEF SessionInv, SessionTypeOK, NothingUngiven, Covered, store, RolesOf
<1>5. ASSUME NEW roles, Registers(r, roles),
             \/ roles = {}
             \/ /\ roles = token.roles
                /\ Verifies(r, "session") /\ deployment.provider = "oidc"
      PROVE  SessionInv'
  <2>1. roles \in SUBSET Roles
    BY <1>1, <1>5 DEF SessionTypeOK
  <2>2. Covered => roles \subseteq deployment.given
    BY <1>1, <1>5 DEF TokensByOthers, Verifies
  <2> QED BY <1>1, <1>2, <1>3, <1>5, <2>1, <2>2, RegistersKeeps DEF SessionInv, SessionTypeOK
<1>6. CASE ByProvider /\ Registers(r, {})
  BY <1>5, <1>6
<1>7. CASE Verifies(r, "session") /\ deployment.provider = "oidc" /\ Registers(r, token.roles)
  BY <1>5, <1>7
<1> QED BY <1>4, <1>6, <1>7 DEF Request

\* The browser gets another token, or time passes.
LEMMA BrowserKeeps ==
  ASSUME SessionInv,
         ProviderSignsIn \/ Expires \/ \E r \in SessionReplicas : TicketFor(r)
  PROVE  SessionInv'
<1>1. SessionTypeOK /\ TokensByOthers /\ NothingUngiven
  BY DEF SessionInv
<1>2. UNCHANGED <<deployment, store, ungiven>>
  BY DEF TicketFor, ProviderSignsIn, Expires
<1>3. /\ token'.roles \in SUBSET Roles
      /\ token'.issuer # "session" \/ token'.issuer = token.issuer
  <2>1. CASE \E r \in SessionReplicas : TicketFor(r)
    BY <2>1 DEF TicketFor, Signed
  <2>2. CASE ProviderSignsIn
    BY <2>2 DEF ProviderSignsIn, NoToken
  <2>3. CASE Expires
    BY <1>1, <2>3 DEF Expires, SessionTypeOK
  <2> QED BY <2>1, <2>2, <2>3
<1> QED BY <1>1, <1>2, <1>3
       DEF SessionInv, SessionTypeOK, TokensByOthers, NothingUngiven, Covered, store, RolesOf

\* A copy is made of what is stored.
LEMMA CopyKeeps ==
  ASSUME SessionInv, NEW r \in SessionReplicas, Hears(r) \/ RestartsReplica(r)
  PROVE  SessionInv'
<1>1. SessionTypeOK /\ TokensByOthers /\ NothingUngiven
  BY DEF SessionInv
<1>2. /\ copies' = [copies EXCEPT ![r] = stored]
      /\ current' = current \cup {r}
      /\ UNCHANGED <<deployment, stored, token, ungiven>>
  BY DEF Hears, RestartsReplica
<1>3. /\ copies' \in [SessionReplicas -> Models]
      /\ current' \in SUBSET SessionReplicas
      /\ \A q \in current' :
            copies'[q] = stored \/ (q \in current /\ copies'[q] = copies[q])
  BY <1>1, <1>2 DEF SessionTypeOK
<1>4. NothingUngiven'
  BY <1>1, <1>2, <1>3 DEF NothingUngiven, Covered, RolesOf
<1> QED BY <1>1, <1>2, <1>3, <1>4 DEF SessionInv, SessionTypeOK, TokensByOthers, Covered

LEMMA SessionStep ==
  ASSUME SessionInv, [SessionNext]_sessionVars
  PROVE  SessionInv'
<1>1. CASE SessionNext
  BY <1>1, SignsInKeeps, RequestKeeps, AdministersKeeps, BrowserKeeps,
     CopyKeeps DEF SessionNext
<1>2. CASE UNCHANGED sessionVars
  BY <1>2 DEF SessionInv, SessionTypeOK, TokensByOthers, NothingUngiven, Covered, RolesOf,
              sessionVars
<1> QED BY <1>1, <1>2

LEMMA SessionStart ==
  ASSUME SessionInit
  PROVE  SessionInv
<1>1. EmptyModel \in Models
  BY DEF EmptyModel, Models
<1>2. stored \in Models
  <2>1. \A roles \in Granted : RecordSeen(EmptyModel, Person, Identity, roles).model \in Models
    BY <1>1, RecordSeenType, SessionConstants DEF IsOutcome
  <2> QED BY <1>1, <2>1 DEF SessionInit, FirstModels
<1>3. copies = [r \in SessionReplicas |-> stored] /\ current = SessionReplicas
      /\ deployment \in Deployments /\ token = NoToken
      /\ ungiven = Roles \ RolesOf(stored)
  BY DEF SessionInit
<1>4. \A r \in SessionReplicas : copies[r] = stored
  BY <1>3
<1>5. SessionTypeOK
  BY <1>2, <1>3 DEF SessionTypeOK, NoToken
<1>6. TokensByOthers
  BY <1>3 DEF TokensByOthers, NoToken
<1>7. NothingUngiven
  BY <1>3, <1>4 DEF NothingUngiven, RolesOf
<1> QED BY <1>5, <1>6, <1>7 DEF SessionInv

-----------------------------------------------------------------------------

\* For every number of replicas, every set of roles and whoever administers them: at
\* every replica that has heard of it, a role taken away is gone from the next request
\* on, whatever token the person still has, however they sign in and whichever replica
\* answers; but for the break-glass account under oidc (auth.go:250-327).
THEOREM TakenAwayIsRefused == SessionSpec => []RevokedIsRefused
<1>1. SessionInv => RevokedIsRefused
  <2> SUFFICES ASSUME SessionInv, NEW r \in current, Covered
               PROVE  RolesOfRequest(r) \cap ungiven \subseteq deployment.bootstrap
    BY DEF RevokedIsRefused, Covered
  <2>1. RolesOf(copies[r]) \cap ungiven = {}
    BY DEF SessionInv, NothingUngiven
  <2> QED BY <2>1 DEF RolesOfRequest, RolesFor
<1> QED BY <1>1, SessionStart, SessionStep, PTL DEF SessionSpec

-----------------------------------------------------------------------------
(* The shared model, through any number of publications. *)

\* One after the other, changes make models.
LEMMA ThroughModels ==
  ASSUME NEW m \in Models, NEW n \in Nat, NEW batch \in [1 .. n -> Calls \cup {SeedEdit}]
  PROVE  Through(m, batch)[n] \in Models
<1> DEFINE Turn(h, i) == IF i = 0 THEN m ELSE After(h[i - 1], batch[i])
           Runs(h, k) == h \in [0 .. k -> Models] /\ \A i \in 0 .. k : h[i] = Turn(h, i)
           stuck == {k \in 0 .. n : ~\E h : Runs(h, k)}
<1>1. \A e \in Calls \cup {SeedEdit}, k \in Models : After(k, e) \in Models
  <2>1. Calls \cup {SeedEdit} \subseteq Edits
    BY CallsAreEdits DEF Edits, SeedEdit
  <2> QED BY <2>1, OutcomeIsModel DEF After, IsOutcome
<1>2. stuck = {}
  <2> SUFFICES ASSUME stuck # {}
               PROVE  FALSE
    OBVIOUS
  <2>1. PICK k \in stuck : \A y \in stuck : ~(y < k)
    <3>1. stuck \in SUBSET Nat
      OBVIOUS
    <3> HIDE DEF stuck
    <3> QED BY <3>1, Least
  <2>2. CASE k = 0
    <3>1. Runs([i \in 0 .. 0 |-> m], 0)
      OBVIOUS
    <3> HIDE DEF Runs
    <3> QED BY <2>2, <3>1
  <2>3. CASE k # 0
    <3>1. k - 1 \in 0 .. n /\ k - 1 < k /\ k \in 1 .. n
      BY <2>3
    <3>2. PICK h : Runs(h, k - 1)
      <4> HIDE DEF Runs
      <4> QED BY <2>1, <3>1
    <3> DEFINE more == [i \in 0 .. k |-> IF i = k THEN After(h[k - 1], batch[k]) ELSE h[i]]
    <3>3. After(h[k - 1], batch[k]) \in Models
      <4>1. k - 1 \in 0 .. k - 1
        BY <3>1
      <4>2. h[k - 1] \in Models
        BY <3>2, <4>1
      <4>3. batch[k] \in Calls \cup {SeedEdit}
        BY <3>1
      <4> QED BY <1>1, <4>2, <4>3
    <3>4. more \in [0 .. k -> Models]
      BY <3>1, <3>2, <3>3
    <3>5. ASSUME NEW i \in 0 .. k
          PROVE  more[i] = Turn(more, i)
      <4>1. CASE i = k
        BY <2>3, <3>1, <4>1
      <4>2. CASE i # k
        <5>1. i \in 0 .. k - 1 /\ (i # 0 => i - 1 \in 0 .. k - 1 /\ i - 1 # k)
          BY <3>1, <4>2
        <5>2. more[i] = h[i] /\ (i # 0 => more[i - 1] = h[i - 1])
          BY <3>1, <4>2, <5>1
        <5> HIDE DEF more
        <5> QED BY <3>2, <5>1, <5>2
      <4> QED BY <4>1, <4>2
    <3>6. Runs(more, k)
      BY <3>4, <3>5
    <3> HIDE DEF Runs, more
    <3> QED BY <2>1, <3>6
  <2> QED BY <2>2, <2>3
<1>3. PICK h : Runs(h, n)
  <2>1. n \in 0 .. n
    OBVIOUS
  <2> HIDE DEF Runs
  <2> QED BY <1>2, <2>1
<1> DEFINE P(f) == f = [i \in 0 .. n |-> Turn(f, i)]
           after == Through(m, batch)
           apart == {i \in 0 .. n : after[i] # h[i]}
<1>4. after = CHOOSE f : P(f)
  <2>1. Len(batch) = n
    OBVIOUS
  <2> QED BY <2>1 DEF Through
<1>5. P(after)
  <2>1. P(h)
    BY <1>3
  <2> HIDE DEF P, after
  <2> QED BY <1>4, <2>1
<1> HIDE DEF after
<1>6. apart = {}
  <2> SUFFICES ASSUME apart # {}
               PROVE  FALSE
    OBVIOUS
  <2>1. PICK x \in apart : \A y \in apart : ~(y < x)
    <3>1. apart \in SUBSET Nat
      OBVIOUS
    <3> HIDE DEF apart
    <3> QED BY <3>1, Least
  <2>2. x # 0
    BY <1>3, <1>5
  <2>3. x - 1 \in 0 .. n /\ x - 1 < x
    BY <2>2
  <2>4. x - 1 \notin apart
    BY <2>1, <2>3
  <2> QED BY <1>3, <1>5, <2>2, <2>3, <2>4
<1>7. after[n] = h[n] /\ h[n] \in Models
  BY <1>3, <1>6
<1> QED BY <1>7 DEF after

\* There is one shared model, a document that can be read, or none.
LEMMA SharedType == Spec => [](model \in Models \cup {NoModel})
<1> DEFINE Inv == model \in Models \cup {NoModel}
<1>1. Init => Inv
  BY DEF Init
<1>2. Inv /\ [Next]_model => Inv'
  <2> SUFFICES ASSUME Inv, Next
               PROVE  Inv'
    OBVIOUS
  <2>1. CASE Create
    BY <2>1 DEF Create, EmptyModel, Models
  <2>2. CASE Delete
    BY <2>2 DEF Delete
  <2>3. CASE Publish
    <3>1. PICK n \in 0 .. MaxBatch : \E batch \in [1 .. n -> Calls \cup {SeedEdit}] :
             model' = Through(model, batch)[n]
      BY <2>3 DEF Publish
    <3>2. n \in Nat /\ model \in Models
      BY <2>3, BatchIsNat DEF Publish
    <3> QED BY <3>1, <3>2, ThroughModels
  <2> QED BY <2>1, <2>2, <2>3 DEF Next
<1> QED BY <1>1, <1>2, PTL DEF Spec

\* Whatever changes were made before, by however many callers: who is deleted comes back
\* as somebody who was never there, and a deleted role grants nothing (DeleteUser,
\* store/users.go; DeleteRole, store/roles.go).
THEOREM DeletedForGood == Spec => []DeletionsRevoke
<1>1. model \in Models \cup {NoModel} => DeletionsRevoke
  BY DeletionsTakeEverything DEF DeletionsRevoke, Stored
<1> QED BY <1>1, SharedType, PTL

\* Whatever changes were made before: a change that got no answer can be made again.
THEOREM RetriedForNothing == Spec => []RetriesAreHarmless
<1>1. Calls \cup {SeedEdit} \subseteq Edits
  BY CallsAreEdits DEF Edits, SeedEdit
<1>2. model \in Models \cup {NoModel} => RetriesAreHarmless
  BY <1>1, RetriesChangeNothing DEF RetriesAreHarmless, Stored, RetryIsHarmless
<1> QED BY <1>2, SharedType, PTL

-----------------------------------------------------------------------------
(* The file, and its move. *)

KeeperPcs == {"down", "read", "serving", "changed", "conflict", "checked", "written",
              "renamed"}
MoverPcs == {"down", "unmoved", "read", "fresh", "serving"}

FileTypeOK ==
    /\ file \in [version : Nat, holds : SUBSET Nat]
    /\ keeper \in [pc : KeeperPcs, copy : SUBSET Nat, version : Nat, change : Nat]
    /\ secret \in [there : BOOLEAN, holds : SUBSET Nat]
    /\ movers \in [Movers -> [pc : MoverPcs, read : SUBSET Nat]]
    /\ changes \in Nat
    /\ {kept, crossed, late} \subseteq SUBSET Nat

\* No version is ahead of the file's; without a file nothing was kept.
VersionsGrow ==
    /\ keeper.version <= file.version
    /\ file.version = 0 => file.holds = {} /\ kept = {}
    /\ keeper.pc = "down" => keeper = Down

\* The process may yet rename its copy over the file.
MayWrite ==
    \/ keeper.pc \in {"read", "checked", "written", "renamed"}
    \/ keeper.pc \in {"serving", "changed"} /\ keeper.version = file.version

CopyIsUpToDate == MayWrite => kept \subseteq keeper.copy \cup crossed

\* The change being made is in the copy, and what was renamed is in the file.
ChangeIsInCopy ==
    /\ keeper.pc \in {"changed", "checked", "written", "renamed"} /\ keeper.change # 0 =>
           keeper.change \in keeper.copy
    /\ keeper.pc = "renamed" => keeper.copy \subseteq file.holds /\ file.version > 0

\* All that is in the file, or was kept, has been read, or is late.
Carried ==
    /\ \A m \in Movers : movers[m].pc \in {"read", "fresh"} =>
           kept \cup file.holds \subseteq movers[m].read \cup crossed \cup late
    /\ secret.there =>
           kept \cup file.holds \subseteq secret.holds \cup crossed \cup late

FileInv ==
    /\ FileTypeOK
    /\ VersionsGrow
    /\ CopyIsUpToDate
    /\ ChangeIsInCopy
    /\ Carried
    /\ FileKeepsChanges

-----------------------------------------------------------------------------

LEMMA InitFile == FileInit => FileInv
  <1>. SUFFICES ASSUME FileInit PROVE FileInv
    OBVIOUS
  <1>1. FileTypeOK
    BY DEF FileInit, FileTypeOK, Down, NotMoving, KeeperPcs, MoverPcs
  <1>. QED
    BY <1>1
       DEF FileInit, FileInv, VersionsGrow, CopyIsUpToDate, ChangeIsInCopy, Carried,
           FileKeepsChanges, Down, NotMoving, MayWrite

\* The process takes a step that leaves the file and what was kept alone.
LEMMA KeeperAloneKeeps ==
  ASSUME FileInv,
         keeper' \in [pc : KeeperPcs, copy : SUBSET Nat, version : Nat, change : Nat],
         changes' \in Nat,
         keeper'.version <= file.version,
         keeper'.pc = "down" => keeper' = Down,
         CopyIsUpToDate', ChangeIsInCopy',
         UNCHANGED <<file, move, kept, crossed, late>>
  PROVE  FileInv'
  <1>1. FileTypeOK'
    BY DEF FileInv, FileTypeOK, move
  <1>2. VersionsGrow' /\ Carried' /\ FileKeepsChanges'
    BY DEF FileInv, VersionsGrow, Carried, FileKeepsChanges, move
  <1>. QED
    BY <1>1, <1>2 DEF FileInv

\* Load.
LEMMA LoadKeeps ==
  ASSUME FileInv, LoadReads \/ LoadStats \/ FirstStart
  PROVE  FileInv'
  <1>1. CASE LoadReads
    <2>1. /\ keeper' = [keeper EXCEPT !.pc = "read", !.copy = file.holds]
          /\ UNCHANGED <<file, move, history>>
      BY <1>1 DEF LoadReads
    <2>2. /\ keeper' \in [pc : KeeperPcs, copy : SUBSET Nat, version : Nat, change : Nat]
          /\ keeper'.pc = "read" /\ keeper'.copy = file.holds
          /\ keeper'.version = keeper.version
      BY <2>1 DEF FileInv, FileTypeOK, KeeperPcs
    <2>3. CopyIsUpToDate' /\ ChangeIsInCopy'
      BY <2>1, <2>2 DEF FileInv, FileKeepsChanges, CopyIsUpToDate, ChangeIsInCopy, history
    <2>. QED
      BY <2>1, <2>2, <2>3, KeeperAloneKeeps
         DEF FileInv, FileTypeOK, VersionsGrow, history
  <1>2. CASE LoadStats
    <2>1. /\ keeper.pc = "read"
          /\ UNCHANGED <<file, move, history>>
      BY <1>2 DEF LoadStats, At
    <2>2. /\ keeper' \in [pc : KeeperPcs, copy : SUBSET Nat, version : Nat, change : Nat]
          /\ keeper'.pc \in {"serving", "changed"} /\ keeper'.version = file.version
          /\ keeper'.copy = IF keeper.change = 0 THEN keeper.copy
                            ELSE keeper.copy \cup {keeper.change}
          /\ keeper'.change = keeper.change
          /\ keeper.change = 0 => keeper'.pc = "serving"
      BY <1>2 DEF LoadStats, FileInv, FileTypeOK, KeeperPcs
    <2>3. kept \subseteq keeper.copy \cup crossed
      BY <2>1 DEF FileInv, CopyIsUpToDate, MayWrite
    <2>4. CopyIsUpToDate' /\ ChangeIsInCopy'
      BY <2>1, <2>2, <2>3 DEF CopyIsUpToDate, ChangeIsInCopy, history
    <2>. QED
      BY <2>1, <2>2, <2>4, KeeperAloneKeeps
         DEF FileInv, FileTypeOK, VersionsGrow, history
  <1>3. CASE FirstStart
    <2>1. /\ keeper' = [keeper EXCEPT !.pc = "checked"]
          /\ UNCHANGED <<file, move, history>>
          /\ kept = {} /\ keeper.change = 0
      BY <1>3 DEF FirstStart, At, Goes, FileInv, VersionsGrow, Down
    <2>2. /\ keeper' \in [pc : KeeperPcs, copy : SUBSET Nat, version : Nat, change : Nat]
          /\ keeper'.pc = "checked" /\ keeper'.version = keeper.version
          /\ keeper'.change = 0
      BY <2>1 DEF FileInv, FileTypeOK, KeeperPcs
    <2>3. CopyIsUpToDate' /\ ChangeIsInCopy'
      BY <2>1, <2>2 DEF CopyIsUpToDate, ChangeIsInCopy, history
    <2>. QED
      BY <2>1, <2>2, <2>3, KeeperAloneKeeps
         DEF FileInv, FileTypeOK, VersionsGrow, history
  <1>. QED
    BY <1>1, <1>2, <1>3

\* A change, and Save up to the rename.
LEMMA ChangeKeeps ==
  ASSUME FileInv, Change \/ Check \/ WriteTmp \/ SaveFails \/ KeeperEnds
  PROVE  FileInv'
  <1>1. CASE Change
    <2>1. /\ keeper.pc = "serving"
          /\ keeper' = [keeper EXCEPT !.pc = "changed", !.copy = @ \cup {changes + 1},
                                      !.change = changes + 1]
          /\ changes' = changes + 1
          /\ UNCHANGED <<file, move, kept, crossed, late>>
      BY <1>1 DEF Change, At
    <2>. DEFINE copy == keeper.copy \cup {changes + 1}
    <2>2. changes \in Nat /\ changes + 1 \in Nat /\ copy \in SUBSET Nat
      BY DEF FileInv, FileTypeOK
    <2>3. /\ keeper' \in [pc : KeeperPcs, copy : SUBSET Nat, version : Nat, change : Nat]
          /\ keeper'.pc = "changed" /\ keeper'.version = keeper.version
          /\ keeper'.copy = keeper.copy \cup {changes + 1}
          /\ keeper'.change = changes + 1
      <3>1. keeper' = [keeper EXCEPT !.pc = "changed", !.copy = copy, !.change = changes + 1]
        BY <2>1
      <3>. HIDE DEF copy
      <3>2. /\ keeper' \in [pc : KeeperPcs, copy : SUBSET Nat, version : Nat, change : Nat]
            /\ keeper'.pc = "changed" /\ keeper'.version = keeper.version
            /\ keeper'.copy = copy /\ keeper'.change = changes + 1
        BY <2>2, <3>1 DEF FileInv, FileTypeOK, KeeperPcs
      <3>. QED
        BY <3>2 DEF copy
    <2>4. CopyIsUpToDate' /\ ChangeIsInCopy'
      BY <2>1, <2>3 DEF FileInv, CopyIsUpToDate, ChangeIsInCopy, MayWrite
    <2>. QED
      BY <2>1, <2>2, <2>3, <2>4, KeeperAloneKeeps DEF FileInv, VersionsGrow
  <1>2. CASE Check
    <2>1. /\ keeper.pc = "changed"
          /\ keeper' = [keeper EXCEPT !.pc = IF keeper.version = file.version
                                             THEN "checked" ELSE "conflict"]
          /\ UNCHANGED <<file, move, history>>
      BY <1>2 DEF Check, At, Goes
    <2>2. /\ keeper' \in [pc : KeeperPcs, copy : SUBSET Nat, version : Nat, change : Nat]
          /\ keeper'.pc = IF keeper.version = file.version THEN "checked" ELSE "conflict"
          /\ keeper'.version = keeper.version /\ keeper'.copy = keeper.copy
          /\ keeper'.change = keeper.change
      BY <2>1 DEF FileInv, FileTypeOK, KeeperPcs
    <2>3. CopyIsUpToDate' /\ ChangeIsInCopy'
      BY <2>1, <2>2 DEF FileInv, CopyIsUpToDate, ChangeIsInCopy, MayWrite, history
    <2>. QED
      BY <2>1, <2>2, <2>3, KeeperAloneKeeps
         DEF FileInv, FileTypeOK, VersionsGrow, history
  <1>3. CASE WriteTmp
    <2>1. /\ keeper.pc = "checked"
          /\ keeper' = [keeper EXCEPT !.pc = "written"]
          /\ UNCHANGED <<file, move, history>>
      BY <1>3 DEF WriteTmp, At, Goes
    <2>2. /\ keeper' \in [pc : KeeperPcs, copy : SUBSET Nat, version : Nat, change : Nat]
          /\ keeper'.pc = "written"
          /\ keeper'.version = keeper.version /\ keeper'.copy = keeper.copy
          /\ keeper'.change = keeper.change
      BY <2>1 DEF FileInv, FileTypeOK, KeeperPcs
    <2>3. CopyIsUpToDate' /\ ChangeIsInCopy'
      BY <2>1, <2>2 DEF FileInv, CopyIsUpToDate, ChangeIsInCopy, MayWrite, history
    <2>. QED
      BY <2>1, <2>2, <2>3, KeeperAloneKeeps
         DEF FileInv, FileTypeOK, VersionsGrow, history
  <1>4. CASE SaveFails
    <2>1. /\ keeper.pc \in {"checked", "written"}
          /\ keeper' = [keeper EXCEPT !.pc = "serving", !.change = 0]
          /\ UNCHANGED <<file, move, history>>
      BY <1>4 DEF SaveFails, At
    <2>2. /\ keeper' \in [pc : KeeperPcs, copy : SUBSET Nat, version : Nat, change : Nat]
          /\ keeper'.pc = "serving"
          /\ keeper'.version = keeper.version /\ keeper'.copy = keeper.copy
      BY <2>1 DEF FileInv, FileTypeOK, KeeperPcs
    <2>3. CopyIsUpToDate' /\ ChangeIsInCopy'
      BY <2>1, <2>2 DEF FileInv, CopyIsUpToDate, ChangeIsInCopy, MayWrite, history
    <2>. QED
      BY <2>1, <2>2, <2>3, KeeperAloneKeeps
         DEF FileInv, FileTypeOK, VersionsGrow, history
  <1>5. CASE KeeperEnds
    <2>1. keeper' = Down /\ UNCHANGED <<file, move, history>>
      BY <1>5 DEF KeeperEnds
    <2>2. /\ Down \in [pc : KeeperPcs, copy : SUBSET Nat, version : Nat, change : Nat]
          /\ Down.pc = "down" /\ Down.version = 0
      BY DEF Down, KeeperPcs
    <2>3. CopyIsUpToDate' /\ ChangeIsInCopy'
      BY <2>1, <2>2 DEF CopyIsUpToDate, ChangeIsInCopy, MayWrite
    <2>. QED
      BY <2>1, <2>2, <2>3, KeeperAloneKeeps
         DEF FileInv, FileTypeOK, VersionsGrow, history
  <1>. QED
    BY <1>1, <1>2, <1>3, <1>4, <1>5

\* The file is replaced by the copy, which has all it was to keep; what the copy
\* brings is late for those who have read the file.
LEMMA RenameKeeps ==
  ASSUME FileInv, Rename
  PROVE  FileInv'
  <1>1. /\ keeper.pc = "written"
        /\ file' = [version |-> file.version + 1, holds |-> keeper.copy]
        /\ late' = IF BeingMoved THEN late \cup (keeper.copy \ file.holds) ELSE late
        /\ keeper' = [keeper EXCEPT !.pc = "renamed"]
        /\ UNCHANGED <<secret, movers, changes, kept, crossed>>
    BY DEF Rename, At, Goes, Late, move
  <1>2. /\ file'.version = file.version + 1 /\ file'.holds = keeper.copy
        /\ keeper'.pc = "renamed" /\ keeper'.version = keeper.version
        /\ keeper'.copy = keeper.copy /\ keeper'.change = keeper.change
        /\ file.version \in Nat /\ keeper.version \in Nat
    BY <1>1 DEF FileInv, FileTypeOK
  <1>3. FileTypeOK'
    BY <1>1, <1>2 DEF FileInv, FileTypeOK, KeeperPcs
  <1>4. kept \subseteq keeper.copy \cup crossed
    BY <1>1 DEF FileInv, CopyIsUpToDate, MayWrite
  <1>5. VersionsGrow'
    BY <1>1, <1>2 DEF FileInv, VersionsGrow
  <1>6. CopyIsUpToDate' /\ FileKeepsChanges'
    BY <1>1, <1>2, <1>4 DEF CopyIsUpToDate, FileKeepsChanges
  <1>7. ChangeIsInCopy'
    BY <1>1, <1>2 DEF FileInv, ChangeIsInCopy
  <1>8. Carried'
    BY <1>1, <1>2, <1>4 DEF FileInv, Carried, BeingMoved
  <1>. QED
    BY <1>3, <1>5, <1>6, <1>7, <1>8 DEF FileInv

\* The change is acknowledged, and it is in the file.
LEMMA SaveStatsKeeps ==
  ASSUME FileInv, SaveStats
  PROVE  FileInv'
  <1>1. /\ keeper.pc = "renamed"
        /\ keeper' = [keeper EXCEPT !.pc = "serving", !.version = file.version, !.change = 0]
        /\ kept' = IF keeper.change = 0 THEN kept ELSE kept \cup {keeper.change}
        /\ UNCHANGED <<file, secret, movers, changes, crossed, late>>
    BY DEF SaveStats, At, move
  <1>2. /\ keeper'.pc = "serving" /\ keeper'.version = file.version
        /\ keeper'.copy = keeper.copy /\ keeper'.change = 0
        /\ file.version \in Nat
    BY <1>1 DEF FileInv, FileTypeOK
  <1>3. FileTypeOK'
    BY <1>1, <1>2 DEF FileInv, FileTypeOK, KeeperPcs
  <1>4. /\ kept \subseteq keeper.copy \cup crossed
        /\ keeper.copy \subseteq file.holds /\ file.version > 0
        /\ keeper.change # 0 => keeper.change \in keeper.copy
    BY <1>1 DEF FileInv, CopyIsUpToDate, MayWrite, ChangeIsInCopy
  <1>5. VersionsGrow'
    BY <1>1, <1>2, <1>4
       DEF FileInv, VersionsGrow
  <1>6. CopyIsUpToDate' /\ FileKeepsChanges' /\ ChangeIsInCopy'
    BY <1>1, <1>2, <1>4
       DEF FileInv, CopyIsUpToDate, FileKeepsChanges, ChangeIsInCopy
  <1>7. kept' \cup file'.holds = kept \cup file.holds
    BY <1>1, <1>4
  <1>8. Carried'
    BY <1>1, <1>7 DEF FileInv, Carried
  <1>. QED
    BY <1>3, <1>5, <1>6, <1>8 DEF FileInv

\* An edit by hand makes a new version, which the process then does not know, or it
\* crossed its steps.
LEMMA HandEditKeeps ==
  ASSUME FileInv, HandEdit
  PROVE  FileInv'
  <1>. DEFINE new == changes + 1
  <1>1. /\ file' = [version |-> file.version + 1, holds |-> file.holds \cup {new}]
        /\ kept' = kept \cup {new}
        /\ crossed' = IF keeper.pc \in {"read", "checked", "written", "renamed"}
                      THEN crossed \cup {new} ELSE crossed
        /\ late' = IF BeingMoved THEN late \cup {new} ELSE late
        /\ changes' = new
        /\ UNCHANGED <<keeper, secret, movers>>
    BY DEF HandEdit, Late, move
  <1>2. new \in Nat /\ file.version \in Nat /\ keeper.version \in Nat
    BY DEF FileInv, FileTypeOK
  <1>. HIDE DEF new
  <1>3. FileTypeOK'
    BY <1>1, <1>2 DEF FileInv, FileTypeOK
  <1>4. VersionsGrow'
    BY <1>1, <1>2 DEF FileInv, VersionsGrow
  <1>5. CopyIsUpToDate'
    <2>1. MayWrite' => /\ keeper.pc \in {"read", "checked", "written", "renamed"}
                       /\ MayWrite
      BY <1>1, <1>2 DEF MayWrite, FileInv, VersionsGrow
    <2>. QED
      BY <1>1, <2>1 DEF FileInv, CopyIsUpToDate
  <1>6. ChangeIsInCopy' /\ FileKeepsChanges'
    BY <1>1, <1>2 DEF FileInv, ChangeIsInCopy, FileKeepsChanges
  <1>7. Carried'
    BY <1>1 DEF FileInv, Carried, BeingMoved
  <1>. QED
    BY <1>3, <1>4, <1>5, <1>6, <1>7 DEF FileInv

\* The replicas that move the file leave it and its process alone.
LEMMA MoversKeep ==
  ASSUME FileInv, NEW m \in Movers,
         Looks(m) \/ ReadsFile(m) \/ Moves(m) \/ ChangesSecret(m) \/ MoverEnds(m)
  PROVE  FileInv'
  <1>1. /\ UNCHANGED <<file, keeper, kept, crossed, late>>
        /\ changes' \in {changes, changes + 1} /\ changes \in Nat
    BY DEF Looks, ReadsFile, Moves, ChangesSecret, MoverEnds, history, FileInv, FileTypeOK
  <1>2. /\ VersionsGrow' /\ CopyIsUpToDate' /\ ChangeIsInCopy' /\ FileKeepsChanges'
    BY <1>1
       DEF FileInv, VersionsGrow, CopyIsUpToDate, MayWrite, ChangeIsInCopy,
           FileKeepsChanges
  <1>3. CASE Looks(m) \/ ReadsFile(m) \/ MoverEnds(m)
    <2>1. PICK pc \in MoverPcs, read \in SUBSET Nat :
             /\ movers' = [movers EXCEPT ![m] = [pc |-> pc, read |-> read]]
             /\ pc \in {"read", "fresh"} => kept \cup file.holds \subseteq read \cup crossed
      <3> DEFINE To(pc, read) == movers' = [movers EXCEPT ![m] = [pc |-> pc, read |-> read]]
      <3>1. /\ file.holds \in SUBSET Nat /\ {} \in SUBSET Nat
            /\ kept \subseteq file.holds \cup crossed
            /\ file.version \in Nat
            /\ file.version = 0 => kept = {} /\ file.holds = {}
        BY DEF FileInv, FileTypeOK, VersionsGrow, FileKeepsChanges
      <3>2. \/ To("serving", {}) \/ To("unmoved", {}) \/ To("down", {})
            \/ file.version > 0 /\ To("read", file.holds)
            \/ file.version = 0 /\ To("fresh", {})
        BY <1>3, <3>1 DEF Looks, ReadsFile, MoverEnds, Moving
      <3>3. {"serving", "unmoved", "down", "read", "fresh"} \subseteq MoverPcs
        BY DEF MoverPcs
      <3> HIDE DEF To
      <3>4. \E pc \in MoverPcs, read \in SUBSET Nat :
               /\ To(pc, read)
               /\ pc \in {"read", "fresh"} => kept \cup file.holds \subseteq read \cup crossed
        BY <3>1, <3>2, <3>3
      <3> QED BY <3>4 DEF To
    <2>2. UNCHANGED secret
      BY <1>3 DEF Looks, ReadsFile, MoverEnds
    <2>3. FileTypeOK'
      BY <1>1, <2>1, <2>2 DEF FileInv, FileTypeOK
    <2>4. Carried'
      BY <1>1, <2>1, <2>2 DEF FileInv, FileTypeOK, Carried
    <2>. QED
      BY <1>2, <2>3, <2>4 DEF FileInv
  <1>4. CASE Moves(m)
    <2>1. PICK pc \in {"serving", "down"} :
             movers' = [movers EXCEPT ![m] = [pc |-> pc, read |-> {}]]
      BY <1>4 DEF Moves, Moving
    <2>2. /\ movers[m].pc \in {"read", "fresh"}
          /\ secret' = IF secret.there THEN secret
                       ELSE [there |-> TRUE, holds |-> movers[m].read]
      BY <1>4 DEF Moves
    <2>3. FileTypeOK'
      BY <1>1, <2>1, <2>2 DEF FileInv, FileTypeOK, MoverPcs
    <2>4. Carried'
      BY <1>1, <2>1, <2>2 DEF FileInv, FileTypeOK, Carried
    <2>. QED
      BY <1>2, <2>3, <2>4 DEF FileInv
  <1>5. CASE ChangesSecret(m)
    <2>1. /\ secret' = [secret EXCEPT !.holds = @ \cup {changes + 1}]
          /\ UNCHANGED movers
      BY <1>5 DEF ChangesSecret
    <2>2. FileTypeOK' /\ secret'.there = secret.there /\ secret.holds \subseteq secret'.holds
      BY <1>1, <2>1 DEF FileInv, FileTypeOK
    <2>3. Carried'
      BY <1>1, <2>1, <2>2 DEF FileInv, Carried
    <2>. QED
      BY <1>2, <2>2, <2>3 DEF FileInv
  <1>. QED
    BY <1>3, <1>4, <1>5

LEMMA StepFile ==
  ASSUME FileInv, [FileNext]_fileVars
  PROVE  FileInv'
  <1>1. CASE UNCHANGED fileVars
    BY <1>1
       DEF fileVars, FileInv, FileTypeOK, VersionsGrow, CopyIsUpToDate, MayWrite,
           ChangeIsInCopy, Carried, FileKeepsChanges
  <1>2. CASE FileNext
    BY <1>2, LoadKeeps, ChangeKeeps, RenameKeeps, SaveStatsKeeps, HandEditKeeps, MoversKeep
       DEF FileNext
  <1>. QED
    BY <1>1, <1>2

-----------------------------------------------------------------------------

\* The invariant of the file, of its process and of those who move it (backend.go).
THEOREM FileInvariance == FileSpec => []FileInv
  BY InitFile, StepFile, PTL DEF FileSpec

\* Wherever the process is stopped and whichever write fails, what was acknowledged
\* is in the file.
THEOREM FileKeepsItsChanges == FileSpec => []FileKeepsChanges
  BY FileInvariance, PTL DEF FileInv

\* A Secret has all that was kept in the file it was made of, apart from what was
\* edited by hand unseen and what came after the file was read (backend.go, MigrateFile).
THEOREM NothingLeftBehind == FileSpec => []MoveCarriesTheFile
  <1>1. FileInv => MoveCarriesTheFile
    BY DEF FileInv, Carried, MoveCarriesTheFile
  <1>. QED
    BY <1>1, FileInvariance, PTL
=============================================================================
