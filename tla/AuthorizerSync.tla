--------------------------- MODULE AuthorizerSync ---------------------------
(***************************************************************************)
(* How the roles in a replica's store reach its authorizer: each handler   *)
(* that changes roles, and the watch for what other replicas wrote, calls  *)
(* authz.Replace(store.AccessModel()) when it is done.  Reading the roles  *)
(* takes the store's lock and installing them does not, so the two are     *)
(* separate steps of as many goroutines as there are handlers under way.   *)
(***************************************************************************)
EXTENDS AccessStore

CONSTANT Handlers   \* requests of one replica that can be under way at once

VARIABLES
    installed,  \* the roles the authorizer answers from
    installing, \* what each handler, and the watch, has left to install
    crossed     \* history: the roles changed, or were installed, past the
                \*   installation under way

syncVars == <<installed, installing, crossed>>
allVars == <<vars, syncVars>>

-----------------------------------------------------------------------------
Rolesets == [Roles -> Specs \cup {NoSpec}]
NoRoles == [r \in Roles |-> NoSpec]
Installers == Handlers \cup {"follow"}

\* Nothing to install; to be read from the store; or read and to be installed.
Nothing == [at |-> "nothing"]
Due == [at |-> "due"]
Holding(roles) == [at |-> "holding", roles |-> roles]
Stages == {Nothing, Due} \cup [at : {"holding"}, roles : Rolesets]

SyncTypeOK ==
    /\ TypeOK
    /\ installed \in [Replicas -> Rolesets]
    /\ installing \in [Replicas -> [Installers -> Stages]]
    /\ crossed \in [Replicas -> BOOLEAN]

SyncInit ==
    /\ Init
    /\ installed = [r \in Replicas |-> NoRoles]
    /\ installing = [r \in Replicas |-> [i \in Installers |-> Nothing]]
    /\ crossed = [r \in Replicas |-> FALSE]

Busy(r) == {i \in Installers : installing[r][i] # Nothing}
IdleHandlers(r) == Handlers \ Busy(r)

-----------------------------------------------------------------------------
\* The handlers that end in Replace: handleSaveRole, handleDeleteRole,
\* handleRoleMembership, handleRestore.
Replacing == {"saveRole", "deleteRole", "membership", "restore"}

\* i has an installation to make, beside those under way if there are any.
BecomesDue(r, i) ==
    /\ installing' = [installing EXCEPT ![r][i] = Due]
    /\ crossed' = [crossed EXCEPT ![r] = @ \/ Busy(r) # {}]
    /\ UNCHANGED installed

\* The handler is done without Replace; a change that met a conflict has taken
\* in what others wrote.
InstallsNothing(r) ==
    /\ crossed' = [crossed EXCEPT ![r] = @ \/ attempt[r] > 0]
    /\ UNCHANGED <<installed, installing>>

\* The store answered a handler without an error.
Succeeds(r, e) ==
    IF e.kind \in Replacing
    THEN \E h \in IdleHandlers(r) : BecomesDue(r, h)
    ELSE InstallsNothing(r)

\* The change could not be saved and stays in the copy: the handler installs
\* nothing.
Fails(r) ==
    /\ crossed' = [crossed EXCEPT ![r] = TRUE]
    /\ UNCHANGED <<installed, installing>>

\* rbac.New, when the seeding is over.
Starts(r) ==
    /\ installed' = [installed EXCEPT ![r] = copy'[r].model.roles]
    /\ crossed' = [crossed EXCEPT ![r] = FALSE]
    /\ UNCHANGED installing

\* change() had nothing to write, or something it refuses to; both release the
\* lock, and only the first is a success.
Ends(r, c, m) ==
    CASE c = Seeding -> Starts(r)
      [] c # Seeding /\ Outcome(c.edit, m).result = "nochange" -> Succeeds(r, c.edit)
      [] c # Seeding /\ Outcome(c.edit, m).result = "refused" -> InstallsNothing(r)

\* A handler calls the store.
Calling(r, e) ==
    /\ IdleHandlers(r) # {}
    /\ Begin(r, e)
    /\ IF pc'[r] = "idle" THEN Ends(r, [edit |-> e, id |-> 1], copy[r].model)
                          ELSE UNCHANGED syncVars

Saving(r) ==
    /\ SaveAccepted(r)
    /\ IF change[r] = Seeding THEN Starts(r) ELSE Succeeds(r, change[r].edit)

Reloading(r) ==
    /\ Reload(r)
    /\ IF pc'[r] = "idle" THEN Ends(r, change[r], Latest.model) ELSE UNCHANGED syncVars

\* The other ends of a change; a failed seeding takes the process down.
Conflicting(r) ==
    /\ SaveConflict(r)
    /\ IF pc'[r] = "idle" THEN Fails(r) ELSE UNCHANGED syncVars

Failing(r) ==
    /\ SaveRefused(r) \/ SaveUnacknowledged(r) \/ ReloadGone(r) \/ ReloadFails(r)
    /\ IF pc'[r] = "idle" THEN Fails(r) ELSE UNCHANGED syncVars

Starting(r) ==
    /\ Open(r) \/ Create(r) \/ Seed(r)
    /\ IF pc'[r] = "idle" THEN Starts(r) ELSE UNCHANGED syncVars

Crashing(r) ==
    /\ Crash(r)
    /\ installed' = [installed EXCEPT ![r] = NoRoles]
    /\ installing' = [installing EXCEPT ![r] = [i \in Installers |-> Nothing]]
    /\ crossed' = [crossed EXCEPT ![r] = FALSE]

\* Mutant: what came from elsewhere is not announced.
FollowingSilently(r) ==
    /\ installing[r]["follow"] = Nothing
    /\ Deliver(r)
    /\ UNCHANGED syncVars

\* The watch calls back, one revision after the other: the next is not looked
\* at before onChange has returned.
Following(r) ==
    /\ installing[r]["follow"] = Nothing
    /\ Deliver(r)
    /\ IF version'[r] = version[r] THEN UNCHANGED syncVars ELSE BecomesDue(r, "follow")

\* AccessModel: the roles of the copy, under the store's lock.
Reads(r, i) ==
    /\ pc[r] = "idle"
    /\ installing[r][i] = Due
    /\ installing' = [installing EXCEPT ![r][i] = Holding(copy[r].model.roles)]
    /\ crossed' = [crossed EXCEPT ![r] = Busy(r) # {i}]
    /\ UNCHANGED <<vars, installed>>

\* Replace.
Installs(r, i) ==
    /\ installing[r][i].at = "holding"
    /\ installed' = [installed EXCEPT ![r] = installing[r][i].roles]
    /\ installing' = [installing EXCEPT ![r][i] = Nothing]
    /\ UNCHANGED <<vars, crossed>>

SyncNext ==
    \/ \E r \in Replicas :
        \/ \E e \in Calls : Calling(r, e)
        \/ Saving(r)
        \/ Reloading(r)
        \/ Conflicting(r)
        \/ Failing(r)
        \/ Starting(r)
        \/ Crashing(r)
        \/ Following(r)
        \/ (WatchStarts(r) \/ WatchDrops(r)) /\ UNCHANGED syncVars
        \/ \E i \in Installers : Reads(r, i) \/ Installs(r, i)
    \/ Delete /\ UNCHANGED syncVars

SyncSpec == SyncInit /\ [][SyncNext]_allVars

-----------------------------------------------------------------------------
(* What must hold.                                                         *)

\* Nothing is on its way into the replica: no change, no event, no installation.
Settled(r) ==
    /\ Serving(r)
    /\ pc[r] = "idle"
    /\ watch[r] > Len(revs)
    /\ Busy(r) = {}

InForce(r) == installed[r] = copy[r].model.roles

\* The authorizer of a settled replica answers from the roles in its store,
\* unless two installations crossed, or a change failed or met a conflict,
\* since the last installation that had the replica to itself.
InForceUnlessCrossed == \A r \in Replicas : Settled(r) /\ ~crossed[r] => InForce(r)

\* "Following it is what makes a role revoked on another replica take effect
\* here at once rather than at the next restart" (main.go), and a saved role is
\* swapped in "so the change applies to requests already in flight"
\* (handleSaveRole): with no failure at all, a settled replica's authorizer
\* answers from the roles in its store.
RolesTakeEffect ==
    spent["faults"] = 0 => \A r \in Replicas : Settled(r) => InForce(r)
=============================================================================
