------------------------------ MODULE LastSeen ------------------------------
(***************************************************************************)
(* When somebody was last seen: kept in each replica's memory and written  *)
(* in batches (internal/store/store.go, RecordSeen, FlushSeen, KeepSeen;   *)
(* cmd/server/main.go, the shutdown).                                      *)
(*                                                                         *)
(* One person, whose sightings are numbered.  A change of the store is one *)
(* step; AccessStore has its parts.                                        *)
(***************************************************************************)
EXTENDS Naturals, FiniteSets

CONSTANTS
    SeenReplicas,
    MaxSightings        \* bounds the sightings

ASSUME SeenConstants == IsFiniteSet(SeenReplicas) /\ MaxSightings \in Nat \ {0}

VARIABLES
    sightings,      \* how many there were
    lastSeen,       \* the last one, as stored
    memory,         \* the last one, as each replica has it
    latest,         \* the replicas whose copy's version is the stored one
    seenDirty,
    flush,          \* each replica's FlushSeen: the sighting it has written, 0 if none
    leaving,        \* the replicas that are shutting down
    excused         \* why what a replica has in memory may stay unwritten

seenVars == <<sightings, lastSeen, memory, latest, seenDirty, flush, leaving, excused>>

SeenTypeOK ==
    /\ {sightings, lastSeen} \subseteq 0..MaxSightings
    /\ memory \in [SeenReplicas -> 0..MaxSightings]
    /\ latest \subseteq SeenReplicas /\ leaving \subseteq SeenReplicas
    /\ seenDirty \in [SeenReplicas -> BOOLEAN]
    /\ flush \in [SeenReplicas -> 0..MaxSightings]
    /\ excused \in [SeenReplicas -> SUBSET {"crossed", "refused"}]

SeenInit ==
    /\ sightings = 1 /\ lastSeen = 1
    /\ memory = [r \in SeenReplicas |-> 1]
    /\ latest = SeenReplicas
    /\ seenDirty = [r \in SeenReplicas |-> FALSE]
    /\ flush = [r \in SeenReplicas |-> 0]
    /\ leaving = {}
    /\ excused = [r \in SeenReplicas |-> {}]

Sighted == sightings < MaxSightings /\ sightings' = sightings + 1

\* A save of replica r that succeeds, of what it has or, after a conflict, of
\* what is stored.
Wrote(r, seen) ==
    /\ lastSeen' = seen
    /\ memory' = [memory EXCEPT ![r] = seen]
    /\ latest' = {r}
    /\ excused' = [excused EXCEPT ![r] = {}]

\* Mutant: what a replica has is written whether or not it is the latest.
OwnAlways(r) == memory[r]

OwnOrStored(r) == IF r \in latest THEN memory[r] ELSE lastSeen

MayHaveReloaded(r) == latest' \in {latest, latest \cup {r}}

\* RecordSeen when only the time moved, as the copy or the model read again has it.
Sight(r) ==
    /\ Sighted /\ r \notin leaving
    /\ memory' = [memory EXCEPT ![r] = sightings + 1]
    /\ seenDirty' = [seenDirty EXCEPT ![r] = TRUE]
    /\ MayHaveReloaded(r)
    /\ UNCHANGED <<lastSeen, flush, leaving, excused>>

\* RecordSeen when the address or the groups have changed: written at once.
SightChanged(r) ==
    /\ Sighted /\ r \notin leaving
    /\ Wrote(r, sightings + 1)
    /\ UNCHANGED <<seenDirty, flush, leaving>>

\* The write fails, and the sign-in goes on.
SightRefused(r) ==
    /\ Sighted /\ r \notin leaving
    /\ memory' = [memory EXCEPT ![r] = sightings + 1]
    /\ excused' = [excused EXCEPT ![r] = @ \cup {"refused"}]
    /\ MayHaveReloaded(r)
    /\ UNCHANGED <<lastSeen, seenDirty, flush, leaving>>

\* FlushSeen, on the timer or because the context has ended.
FlushWrites(r) ==
    /\ seenDirty[r] /\ flush[r] = 0
    /\ Wrote(r, OwnOrStored(r))
    /\ flush' = [flush EXCEPT ![r] = OwnOrStored(r)]
    /\ UNCHANGED <<sightings, seenDirty, leaving>>

\* A save that fails after the stored model was read again: its sightings win.
FlushReloads(r) ==
    /\ seenDirty[r] /\ flush[r] = 0 /\ r \notin latest
    /\ memory' = [memory EXCEPT ![r] = lastSeen]
    /\ latest' = latest \cup {r}
    /\ UNCHANGED <<sightings, lastSeen, seenDirty, flush, leaving, excused>>

\* Mutant: clean as soon as it has been tried.
FlushMarksAnyway(r) ==
    /\ seenDirty[r]
    /\ seenDirty' = [seenDirty EXCEPT ![r] = FALSE]
    /\ flush' = [flush EXCEPT ![r] = 0]
    /\ UNCHANGED <<sightings, lastSeen, memory, latest, leaving, excused>>

\* The batch is marked clean once it is written, and with it a sighting that came
\* in between.
FlushMarks(r) ==
    /\ flush[r] > 0
    /\ seenDirty' = [seenDirty EXCEPT ![r] = FALSE]
    /\ flush' = [flush EXCEPT ![r] = 0]
    /\ excused' = IF memory[r] > flush[r]
                  THEN [excused EXCEPT ![r] = @ \cup {"crossed"}] ELSE excused
    /\ UNCHANGED <<sightings, lastSeen, memory, latest, leaving>>

\* The watch brings the stored model, and drops what was not written.
HearSightings(r) ==
    /\ r \notin latest
    /\ memory' = [memory EXCEPT ![r] = lastSeen]
    /\ latest' = latest \cup {r}
    /\ UNCHANGED <<sightings, lastSeen, seenDirty, flush, leaving, excused>>

\* SIGTERM: requests are answered for ten seconds more, which Sight leaves out.
Leaves(r) ==
    /\ r \notin leaving
    /\ leaving' = leaving \cup {r}
    /\ UNCHANGED <<sightings, lastSeen, memory, latest, seenDirty, flush, excused>>

Started(r) ==
    /\ memory' = [memory EXCEPT ![r] = lastSeen]
    /\ latest' = latest \cup {r}
    /\ seenDirty' = [seenDirty EXCEPT ![r] = FALSE]
    /\ flush' = [flush EXCEPT ![r] = 0]
    /\ excused' = [excused EXCEPT ![r] = {}]
    /\ UNCHANGED <<sightings, lastSeen>>

\* main returns, which ends the context and the process at the same time; another
\* replica takes its place.
Exits(r) ==
    /\ r \in leaving
    /\ leaving' = leaving \ {r}
    /\ Started(r)

Killed(r) ==
    /\ r \notin leaving
    /\ Started(r) /\ UNCHANGED leaving

SeenNext ==
    \E r \in SeenReplicas :
        \/ Sight(r) \/ SightChanged(r) \/ SightRefused(r)
        \/ FlushWrites(r) \/ FlushReloads(r) \/ FlushMarks(r) \/ HearSightings(r)
        \/ Leaves(r) \/ Exits(r) \/ Killed(r)

SeenSpec == SeenInit /\ [][SeenNext]_seenVars

-----------------------------------------------------------------------------

\* A replica that takes its batch for written has written it: what it has in
\* memory is stored, unless the write was refused and said so, or the sighting came
\* between the write and the mark (store.go:362-395).
CleanMeansStored ==
    \A r \in SeenReplicas :
        ~seenDirty[r] /\ flush[r] = 0 => memory[r] <= lastSeen \/ excused[r] # {}

\* The stored time never goes back: a replica that writes an older copy of the
\* record would undo another's sighting (store.go:378-381, mutate).
SeenNeverGoesBack == [][lastSeen' >= lastSeen]_seenVars

\* What store.go:397-398 says: "once more on the way out so that a clean shutdown
\* does not throw the last few minutes away".
CleanShutdownKeepsSightings ==
    [][\A r \in SeenReplicas : Exits(r) => memory[r] <= lastSeen]_seenVars
=============================================================================
