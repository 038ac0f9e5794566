---------------------------- MODULE AccessStore ----------------------------
(***************************************************************************)
(* The access store of every replica over the one Secret they share        *)
(* (internal/store: mutate, persist, reload, Follow, and the Secret        *)
(* backend).  A replica keeps a copy of the model and the version it was   *)
(* read at; a change edits the copy under the store's lock and saves it at *)
(* that version; a save refused for being stale reloads and applies the    *)
(* change again; a watch brings in what other replicas wrote.              *)
(*                                                                         *)
(* The lock is held across the round trips of a change, so everything one  *)
(* replica does is serial; pc[r] says where the lock's holder is.  What    *)
(* interleaves is the replicas, the API server and the watches, with       *)
(* refused or unacknowledged saves, dropped watches, crashes, and an       *)
(* operator deleting the Secret.                                           *)
(***************************************************************************)
EXTENDS AccessModel, Naturals, Sequences

CONSTANTS
    Replicas,
    Calls,        \* the changes callers ask for
    MaxAttempts,  \* maxWriteAttempts
    MaxEdits,     \* bounds of the model: how many changes begin,
    MaxFaults,    \*   how many saves and loads the API server fails,
    MaxDrops,     \*   how many watches it drops,
    MaxStarts,    \*   how often a replica starts,
    MaxDeletions, \*   and how often the Secret is deleted
    Gone,         \* a revision that deleted the Secret
    Nobody        \* the lock is free

ASSUME CallsAreEdits == Calls \subseteq Edits \ {SeedEdit}
ASSUME AttemptsIsPositive == MaxAttempts \in Nat \ {0}
ASSUME BoundsAreNat ==
    /\ MaxEdits \in Nat
    /\ MaxFaults \in Nat
    /\ MaxDrops \in Nat
    /\ MaxStarts \in Nat
    /\ MaxDeletions \in Nat

VARIABLES
    revs,     \* the Secret: all its revisions, oldest first
    pc,       \* what holds the replica's lock
    copy,     \* the model in memory
    version,  \* s.version: the revision the copy was read or written at
    change,   \* the change the lock's holder makes, with its number
    attempt,  \* failed attempts to save it so far
    watch,    \* the next revision the watch delivers, 0 without a watch
    acked,    \* history: the changes whose callers were told they are saved
    spent     \* how much of each bound is used

vars == <<revs, pc, copy, version, change, attempt, watch, acked, spent>>

-----------------------------------------------------------------------------
(* Documents carry, as history, the numbers of the changes that went into  *)
(* them.                                                                   *)

Documents == [model : Models, edits : SUBSET (1 .. MaxEdits)]
Empty == [model |-> EmptyModel, edits |-> {}]

\* Change number 0 is the one SeedRoles makes at startup.
Changes == [edit : Calls, id : 1 .. MaxEdits] \cup {[edit |-> SeedEdit, id |-> 0]}
Seeding == [edit |-> SeedEdit, id |-> 0]
NumbersOf(c) == {c.id} \ {0}

ASSUME MarkersAreNotValues == Gone \notin Documents \cup Models /\ Nobody \notin Changes

Bounds == {"edits", "faults", "drops", "starts", "deletions"}
Limit == [b \in Bounds |-> CASE b = "edits" -> MaxEdits
                             [] b = "faults" -> MaxFaults
                             [] b = "drops" -> MaxDrops
                             [] b = "starts" -> MaxStarts
                             [] b = "deletions" -> MaxDeletions]
Spend(b) == /\ spent[b] < Limit[b]
            /\ spent' = [spent EXCEPT ![b] = @ + 1]

TypeOK ==
    /\ revs \in Seq(Documents \cup {Gone})
    /\ pc \in [Replicas -> {"down", "creating", "starting", "idle", "saving", "conflict"}]
    /\ copy \in [Replicas -> Documents]
    /\ version \in [Replicas -> Nat]
    /\ change \in [Replicas -> Changes \cup {Nobody}]
    /\ attempt \in [Replicas -> Nat]
    /\ watch \in [Replicas -> Nat]
    /\ acked \subseteq 1 .. MaxEdits
    /\ spent \in [Bounds -> Nat]

Init ==
    /\ revs = <<>>
    /\ pc = [r \in Replicas |-> "down"]
    /\ copy = [r \in Replicas |-> Empty]
    /\ version = [r \in Replicas |-> 0]
    /\ change = [r \in Replicas |-> Nobody]
    /\ attempt = [r \in Replicas |-> 0]
    /\ watch = [r \in Replicas |-> 0]
    /\ acked = {}
    /\ spent = [b \in Bounds |-> 0]

-----------------------------------------------------------------------------
(* The Secret, kept by the API server.                                     *)

Latest == revs[Len(revs)]
Exists == revs # <<>> /\ Latest # Gone
\* The version a save must name to be accepted; 0, the empty version, when
\* there is nothing to replace.
Current == IF Exists THEN Len(revs) ELSE 0

\* A replica whose startup is over.
Serving(r) == pc[r] \in {"idle", "saving", "conflict"} /\ change[r] # Seeding

-----------------------------------------------------------------------------
(* The steps of a change.  Operators named for a mistake are mutants of the *)
(* action they precede; nothing uses them.                                 *)

\* A change that is over releases the lock.  A seeding that failed takes the
\* process down with it.
Release(r, ok) ==
    /\ pc' = [pc EXCEPT ![r] = IF change[r] = Seeding /\ ~ok THEN "down" ELSE "idle"]
    /\ change' = [change EXCEPT ![r] = Nobody]
    /\ attempt' = [attempt EXCEPT ![r] = 0]

\* change() applied to document d: go on to save the result, or be done.
Run(r, c, d, v, n) ==
    LET out == Outcome(c.edit, d.model) IN
    /\ version' = [version EXCEPT ![r] = v]
    /\ IF out.result = "write"
       THEN /\ copy' = [copy EXCEPT ![r] = [model |-> out.model,
                                            edits |-> d.edits \cup NumbersOf(c)]]
            /\ pc' = [pc EXCEPT ![r] = "saving"]
            /\ change' = [change EXCEPT ![r] = c]
            /\ attempt' = [attempt EXCEPT ![r] = n]
       ELSE /\ copy' = [copy EXCEPT ![r] = d]
            /\ pc' = [pc EXCEPT ![r] = "idle"]
            /\ change' = [change EXCEPT ![r] = Nobody]
            /\ attempt' = [attempt EXCEPT ![r] = 0]

\* A caller asks for a change; mutate takes the lock and makes it.
Begin(r, e) ==
    /\ pc[r] = "idle"
    /\ Spend("edits")
    /\ Run(r, [edit |-> e, id |-> spent'["edits"]], copy[r], version[r], 0)
    /\ UNCHANGED <<revs, watch, acked>>

\* Mutant: the save does not name a version.
SaveAcceptedBlind(r) ==
    /\ pc[r] = "saving"
    /\ revs' = Append(revs, copy[r])
    /\ version' = [version EXCEPT ![r] = Len(revs')]
    /\ acked' = acked \cup NumbersOf(change[r])
    /\ Release(r, TRUE)
    /\ UNCHANGED <<copy, watch, spent>>

\* Save finds the version it names and writes the next revision.
SaveAccepted(r) ==
    /\ pc[r] = "saving"
    /\ version[r] = Current
    /\ revs' = Append(revs, copy[r])
    /\ version' = [version EXCEPT ![r] = Len(revs')]
    /\ acked' = acked \cup NumbersOf(change[r])
    /\ Release(r, TRUE)
    /\ UNCHANGED <<copy, watch, spent>>

\* Mutant: the last attempt's conflict is not returned.
SaveConflictSwallowed(r) ==
    /\ pc[r] = "saving"
    /\ version[r] # Current
    /\ IF attempt[r] + 1 >= MaxAttempts
       THEN /\ Release(r, TRUE)
            /\ acked' = acked \cup NumbersOf(change[r])
       ELSE /\ pc' = [pc EXCEPT ![r] = "conflict"]
            /\ attempt' = [attempt EXCEPT ![r] = @ + 1]
            /\ UNCHANGED <<change, acked>>
    /\ UNCHANGED <<revs, copy, version, watch, spent>>

\* Save finds another version, or no Secret at all: ErrConflict.  The last
\* attempt returns it to the caller; the copy keeps the change either way.
SaveConflict(r) ==
    /\ pc[r] = "saving"
    /\ version[r] # Current
    /\ IF attempt[r] + 1 >= MaxAttempts
       THEN Release(r, FALSE)
       ELSE /\ pc' = [pc EXCEPT ![r] = "conflict"]
            /\ attempt' = [attempt EXCEPT ![r] = @ + 1]
            /\ UNCHANGED change
    /\ UNCHANGED <<revs, copy, version, watch, acked, spent>>

\* Save fails otherwise (the API server is away, the document is too big) and
\* mutate returns the error; the copy keeps the change.
SaveRefused(r) ==
    /\ pc[r] = "saving"
    /\ Spend("faults")
    /\ Release(r, FALSE)
    /\ UNCHANGED <<revs, copy, version, watch, acked>>

\* Save is carried out and its answer lost: to mutate that is the same error.
SaveUnacknowledged(r) ==
    /\ pc[r] = "saving"
    /\ version[r] = Current
    /\ Spend("faults")
    /\ revs' = Append(revs, copy[r])
    /\ Release(r, FALSE)
    /\ UNCHANGED <<copy, version, watch, acked>>

\* Mutant: only the version is read again, the change stays on the old copy.
ReloadVersionOnly(r) ==
    /\ pc[r] = "conflict"
    /\ Exists
    /\ Run(r, change[r], copy[r], Len(revs), attempt[r])
    /\ UNCHANGED <<revs, watch, acked, spent>>

\* After a conflict: read the stored model and make the change again on it.
Reload(r) ==
    /\ pc[r] = "conflict"
    /\ Exists
    /\ Run(r, change[r], Latest, Len(revs), attempt[r])
    /\ UNCHANGED <<revs, watch, acked, spent>>

\* Mutant: wait for the Secret to come back.
ReloadGoneWaits(r) ==
    /\ pc[r] = "conflict"
    /\ ~Exists
    /\ UNCHANGED vars

\* There is nothing to read: Load's fs.ErrNotExist is returned to the caller.
ReloadGone(r) ==
    /\ pc[r] = "conflict"
    /\ ~Exists
    /\ Release(r, FALSE)
    /\ UNCHANGED <<revs, copy, version, watch, acked, spent>>

ReloadFails(r) ==
    /\ pc[r] = "conflict"
    /\ Spend("faults")
    /\ Release(r, FALSE)
    /\ UNCHANGED <<revs, copy, version, watch, acked>>

-----------------------------------------------------------------------------
(* Startup and end of a replica.                                           *)

\* OpenWith: read the model, or find that there is none.
Open(r) ==
    /\ pc[r] = "down"
    /\ Spend("starts")
    /\ copy' = [copy EXCEPT ![r] = IF Exists THEN Latest ELSE Empty]
    /\ version' = [version EXCEPT ![r] = Current]
    /\ pc' = [pc EXCEPT ![r] = IF Exists THEN "starting" ELSE "creating"]
    /\ UNCHANGED <<revs, change, attempt, watch, acked>>

\* First start: write the empty model.  Another replica may have been faster;
\* then the process fails.
Create(r) ==
    /\ pc[r] = "creating"
    /\ IF Exists
       THEN /\ pc' = [pc EXCEPT ![r] = "down"]
            /\ UNCHANGED <<revs, version>>
       ELSE /\ revs' = Append(revs, copy[r])
            /\ version' = [version EXCEPT ![r] = Len(revs')]
            /\ pc' = [pc EXCEPT ![r] = "starting"]
    /\ UNCHANGED <<copy, change, attempt, watch, acked, spent>>

\* SeedRoles, before the replica serves.
Seed(r) ==
    /\ pc[r] = "starting"
    /\ Run(r, Seeding, copy[r], version[r], 0)
    /\ UNCHANGED <<revs, watch, acked, spent>>

\* The process ends at any moment and its memory with it.
Crash(r) ==
    /\ pc[r] # "down"
    /\ pc' = [pc EXCEPT ![r] = "down"]
    /\ copy' = [copy EXCEPT ![r] = Empty]
    /\ version' = [version EXCEPT ![r] = 0]
    /\ change' = [change EXCEPT ![r] = Nobody]
    /\ attempt' = [attempt EXCEPT ![r] = 0]
    /\ watch' = [watch EXCEPT ![r] = 0]
    /\ UNCHANGED <<revs, acked, spent>>

-----------------------------------------------------------------------------
(* The watch.                                                              *)

\* Mutant: only what happens from now on is delivered.
WatchStartsBlind(r) ==
    /\ Serving(r)
    /\ watch[r] = 0
    /\ watch' = [watch EXCEPT ![r] = Len(revs) + 1]
    /\ UNCHANGED <<revs, pc, copy, version, change, attempt, acked, spent>>

\* Started without a version: the stream begins with the Secret as it is, if
\* it is there, and goes on with each revision after it.
WatchStarts(r) ==
    /\ Serving(r)
    /\ watch[r] = 0
    /\ watch' = [watch EXCEPT ![r] = IF Exists THEN Len(revs) ELSE Len(revs) + 1]
    /\ UNCHANGED <<revs, pc, copy, version, change, attempt, acked, spent>>

\* The API server rotates the connection.
WatchDrops(r) ==
    /\ watch[r] # 0
    /\ Spend("drops")
    /\ watch' = [watch EXCEPT ![r] = 0]
    /\ UNCHANGED <<revs, pc, copy, version, change, attempt, acked>>

\* Mutant: a deletion is taken for a document.
DeliverDeletion(r) ==
    /\ pc[r] = "idle"
    /\ watch[r] \in 1 .. Len(revs)
    /\ watch' = [watch EXCEPT ![r] = @ + 1]
    /\ copy' = [copy EXCEPT ![r] = revs[watch[r]]]
    /\ version' = [version EXCEPT ![r] = watch[r]]
    /\ UNCHANGED <<revs, pc, change, attempt, acked, spent>>

\* Mutant: the copy is replaced and its version kept.
DeliverUnversioned(r) ==
    /\ pc[r] = "idle"
    /\ watch[r] \in 1 .. Len(revs)
    /\ watch' = [watch EXCEPT ![r] = @ + 1]
    /\ IF revs[watch[r]] = Gone \/ watch[r] = version[r]
       THEN UNCHANGED copy
       ELSE copy' = [copy EXCEPT ![r] = revs[watch[r]]]
    /\ UNCHANGED <<revs, pc, version, change, attempt, acked, spent>>

\* Follow's callback takes the lock: the version this copy already has is
\* taken for its own write and ignored, any other replaces the copy.  A
\* deletion is only logged.
Deliver(r) ==
    /\ pc[r] = "idle"
    /\ watch[r] \in 1 .. Len(revs)
    /\ watch' = [watch EXCEPT ![r] = @ + 1]
    /\ IF revs[watch[r]] = Gone \/ watch[r] = version[r]
       THEN UNCHANGED <<copy, version>>
       ELSE /\ copy' = [copy EXCEPT ![r] = revs[watch[r]]]
            /\ version' = [version EXCEPT ![r] = watch[r]]
    /\ UNCHANGED <<revs, pc, change, attempt, acked, spent>>

-----------------------------------------------------------------------------
\* Somebody deletes the Secret.
Delete ==
    /\ Exists
    /\ Spend("deletions")
    /\ revs' = Append(revs, Gone)
    /\ UNCHANGED <<pc, copy, version, change, attempt, watch, acked>>

Mutate(r) ==
    \/ \E e \in Calls : Begin(r, e)
    \/ SaveAccepted(r)
    \/ SaveConflict(r)
    \/ SaveRefused(r)
    \/ SaveUnacknowledged(r)
    \/ Reload(r)
    \/ ReloadGone(r)
    \/ ReloadFails(r)

Lifecycle(r) == Open(r) \/ Create(r) \/ Seed(r) \/ Crash(r)

Watching(r) == WatchStarts(r) \/ WatchDrops(r) \/ Deliver(r)

Next ==
    \/ \E r \in Replicas : Mutate(r) \/ Lifecycle(r) \/ Watching(r)
    \/ Delete

Spec == Init /\ [][Next]_vars

\* Go runs the holder of a lock to the end of its change, a started process
\* through its startup, and the watch's goroutine; nothing promises that a
\* caller turns up, that a process starts or that the API server recovers.
Fairness ==
    \A r \in Replicas :
        /\ WF_vars(SaveAccepted(r) \/ SaveConflict(r))
        /\ WF_vars(Reload(r) \/ ReloadGone(r))
        /\ WF_vars(Create(r) \/ Seed(r))
        /\ WF_vars(WatchStarts(r))
        /\ WF_vars(Deliver(r))

FairSpec == Spec /\ Fairness

-----------------------------------------------------------------------------
(* What must hold.                                                         *)

\* No write undoes another: whatever changes went into a revision of the
\* Secret are in the next one, unless the Secret was deleted in between.
\* (store.go, mutate: "Writing back a copy taken before somebody else's edit
\* would silently undo it".)
NoLostUpdate ==
    \A i \in 1 .. Len(revs) - 1 :
        revs[i] # Gone /\ revs[i + 1] # Gone => revs[i].edits \subseteq revs[i + 1].edits

\* A change whose caller was told it is saved is in the stored model from
\* then on, as long as nobody deletes the Secret: through conflicts, failed
\* saves, stale copies, crashes and restarts.
AckedDurable ==
    spent["deletions"] = 0 /\ acked # {} => Exists /\ acked \subseteq Latest.edits

\* A copy with exactly the changes of the revision whose version it carries
\* holds that revision's model: reload, the watch and a save never leave a
\* version beside a model it is not the version of.
CopyIsItsVersion ==
    \A r \in Replicas :
        pc[r] = "idle" =>
            /\ version[r] \in 1 .. Len(revs)
            /\ revs[version[r]] # Gone
            /\ revs[version[r]].edits \subseteq copy[r].edits
            /\ revs[version[r]].edits = copy[r].edits =>
                   revs[version[r]].model = copy[r].model

\* A revision that holds the changes of the one before it, no more, is the work
\* of SeedRoles: it leaves a model with roles as it is, whoever starts, however
\* often and at the same time as whom (main.go: "reapplying it on every start
\* would undo, silently and without an error, whatever an administrator had
\* set up").
SeedsOnlyAnEmptyModel ==
    \A i \in 1 .. Len(revs) - 1 :
        /\ revs[i] # Gone
        /\ revs[i + 1] # Gone
        /\ revs[i].edits = revs[i + 1].edits
        /\ DefinedRoles(revs[i].model) # {}
        => revs[i].model = revs[i + 1].model

\* A change that meets a deleted Secret "reloads, finds nothing, and writes it
\* back rather than failing outright" (secret.go, Save).
DeletedIsWrittenBack ==
    [][\A r \in Replicas :
           /\ Serving(r)
           /\ pc[r] = "conflict"
           /\ ~Exists
           /\ pc'[r] \notin {"conflict", "down"}
           => pc'[r] = "saving"]_vars

\* What a refused save left in memory: changes that are in the copy and not in the
\* stored model it is of.
Unsaved(r) == copy[r].edits \ Latest.edits

\* Once changes, failures and deletions stop, every replica that is up serves
\* the stored model (main.go: "Following it is what makes a role revoked on
\* another replica take effect here"), or the stored model with changes of its own
\* whose saves failed: mutate leaves these in memory beside the version they were
\* made at, and Follow takes that version for the replica's own write.
Converged(r) ==
    Serving(r) /\ Exists =>
        /\ version[r] = Current
        /\ copy[r] = Latest \/ Unsaved(r) # {}
Converges == <>[](\A r \in Replicas : Converged(r))

\* Every change lets go of the store's lock: what waits behind it, readers
\* included, gets on.
EveryChangeEnds ==
    \A r \in Replicas : (pc[r] \in {"saving", "conflict"}) ~> (pc[r] \in {"idle", "down"})

-----------------------------------------------------------------------------
\* The stored model, as the one model SharedModel is about.  A publication is of at
\* most the changes that were begun, or of the seeding.
Shared == INSTANCE SharedModel WITH
    MaxBatch <- IF MaxEdits = 0 THEN 1 ELSE MaxEdits,
    NoModel <- Gone,
    model <- IF Exists THEN Latest.model ELSE Gone

\* The replicas, with their copies, conflicts and failures, keep one model.
ImplementsSharedModel == Shared!Spec
=============================================================================
