---------------------------- MODULE SignInProofs ----------------------------
(***************************************************************************)
(* What a replica keeps of sign-ins in memory: how many passwords can be   *)
(* tried, and what becomes of last-seen times.                             *)
(***************************************************************************)
EXTENDS SignIn, LastSeen, FiniteSetTheorems, TLAPS

(* Passwords, for any number of replicas and people at once, any limit and *)
(* any window.  That the count stays below its bound is not inductive: an  *)
(* attempt that was let in adds to it when it fails, however high it is by *)
(* then.  Counted together with the attempts under way the failures stay   *)
(* bounded (FailuresToCome).                                               *)

\* The attempts let in by a counter that have not been answered by the provider.
Verifying(c) == {p \in People : attempts[p].pc = "verifying" /\ attempts[p].counter = c}

\* An attempt is let in while fewer than the limit have failed; whoever else is
\* let in at the same time may fail after it.
FailuresToCome ==
    \A c \in Counters :
        records[c].failures + Cardinality(Verifying(c))
            < maxFailedAttempts + Cardinality(People)

Stages == {"none", "verifying", "sharing", "unlocking", "known"}

\* What the proof needs of the types.
GuessesTypeOK ==
    /\ records \in [Counters -> [failures : Nat, left : Nat]]
    /\ attempts \in [People -> [pc : Stages, counter : Counters]]

GuessesInv == GuessesTypeOK /\ FailuresToCome

-----------------------------------------------------------------------------

LEMMA PeopleFinite ==
  /\ Cardinality(People) \in Nat
  /\ \A S \in SUBSET People : /\ IsFiniteSet(S)
                              /\ Cardinality(S) \in Nat
                              /\ Cardinality(S) <= Cardinality(People)
  BY SignInConstants, FS_Subset, FS_CardinalityType DEF SignInConstants

LEMMA Constants ==
  /\ maxFailedAttempts \in Nat /\ maxFailedAttempts >= 1
  /\ lockoutWindow \in Nat
  BY SignInConstants DEF SignInConstants

LEMMA NobodyYet == NoAttempt \in [pc : Stages, counter : Counters] /\ NoAttempt.pc = "none"
  <1>1. PICK r \in SignInReplicas, s \in Spellings : TRUE
    BY SignInConstants DEF SignInConstants
  <1>2. <<r, s>> \in Counters
    BY <1>1 DEF Counters
  <1>3. (CHOOSE c \in Counters : TRUE) \in Counters
    BY <1>2
  <1>. QED
    BY <1>3 DEF NoAttempt, Stages

LEMMA InitGuesses == SignInInit => GuessesInv
  <1>. SUFFICES ASSUME SignInInit PROVE GuessesInv
    OBVIOUS
  <1>1. GuessesTypeOK
    BY NobodyYet DEF SignInInit, GuessesTypeOK, NoRecord
  <1>2. ASSUME NEW c \in Counters
        PROVE  Verifying(c) = {} /\ records[c].failures = 0
    BY NobodyYet DEF SignInInit, Verifying, NoRecord
  <1>3. FailuresToCome
    BY <1>2, FS_EmptySet, PeopleFinite, Constants DEF FailuresToCome
  <1>. QED
    BY <1>1, <1>3 DEF GuessesInv

-----------------------------------------------------------------------------
(* Steps. *)

\* Nobody new is let in, and no failure is counted.
LEMMA NoMoreGuesses ==
  ASSUME GuessesInv, GuessesTypeOK',
         \A c \in Counters : /\ records'[c].failures <= records[c].failures
                             /\ Verifying(c)' \subseteq Verifying(c)
  PROVE  GuessesInv'
  <1>. SUFFICES ASSUME NEW c \in Counters
                PROVE  records'[c].failures + Cardinality(Verifying(c)')
                         < maxFailedAttempts + Cardinality(People)
    BY DEF GuessesInv, FailuresToCome
  <1>1. Verifying(c) \subseteq People /\ IsFiniteSet(Verifying(c))
    BY PeopleFinite DEF Verifying
  <1>2. /\ Cardinality(Verifying(c)') \in Nat /\ Cardinality(Verifying(c)) \in Nat
        /\ Cardinality(Verifying(c)') <= Cardinality(Verifying(c))
    BY <1>1, FS_Subset, FS_CardinalityType
  <1>3. records[c].failures \in Nat /\ records'[c].failures \in Nat
    BY DEF GuessesInv, GuessesTypeOK
  <1>4. records[c].failures + Cardinality(Verifying(c))
            < maxFailedAttempts + Cardinality(People)
    BY DEF GuessesInv, FailuresToCome
  <1>5. records'[c].failures <= records[c].failures
    OBVIOUS
  <1>. HIDE DEF Verifying
  <1>. QED
    BY <1>2, <1>3, <1>4, <1>5, PeopleFinite, Constants

\* An attempt that goes on to something else than being verified.
LEMMA MovesOn ==
  ASSUME GuessesInv, NEW p \in People, NEW c \in Counters, NEW pc \in Stages,
         pc # "verifying", Now(p, pc, c) \/ Ends(p)
  PROVE  /\ attempts' \in [People -> [pc : Stages, counter : Counters]]
         /\ attempts'[p].pc # "verifying"
         /\ \A q \in People : q # p => attempts'[q] = attempts[q]
         /\ \A d \in Counters : Verifying(d)' = Verifying(d) \ {p}
  <1>1. PICK a \in [pc : Stages, counter : Counters] :
           attempts' = [attempts EXCEPT ![p] = a] /\ a.pc # "verifying"
    BY NobodyYet DEF Now, Ends
  <1>2. attempts \in [People -> [pc : Stages, counter : Counters]]
    BY DEF GuessesInv, GuessesTypeOK
  <1>3. /\ attempts' \in [People -> [pc : Stages, counter : Counters]]
        /\ attempts'[p].pc # "verifying"
        /\ \A q \in People : q # p => attempts'[q] = attempts[q]
    BY <1>1, <1>2
  <1>. QED
    BY <1>3 DEF Verifying

LEMMA AttemptBounded ==
  ASSUME GuessesInv, NEW p \in People, NEW c \in Counters, Attempt(p, c)
  PROVE  GuessesInv'
  <1>1. /\ records[c].failures < maxFailedAttempts
        /\ attempts' = [attempts EXCEPT ![p] = [pc |-> "verifying", counter |-> c]]
        /\ attempts[p].pc = "none" /\ records' = records
    BY DEF Attempt, Allowed, Now
  <1>2. GuessesTypeOK'
    BY <1>1 DEF GuessesInv, GuessesTypeOK, Stages
  <1>3. \A q \in People : q # p => attempts'[q] = attempts[q]
    BY <1>1 DEF GuessesInv, GuessesTypeOK
  <1>4. attempts'[p].counter = c
    BY <1>1 DEF GuessesInv, GuessesTypeOK
  <1>. SUFFICES ASSUME NEW d \in Counters
                PROVE  records'[d].failures + Cardinality(Verifying(d)')
                         < maxFailedAttempts + Cardinality(People)
    BY <1>2 DEF GuessesInv, FailuresToCome
  <1>5. records[d].failures \in Nat
    BY DEF GuessesInv, GuessesTypeOK
  <1>6. CASE d = c
    <2>1. Verifying(d)' \subseteq People
      BY DEF Verifying
    <2>2. Cardinality(Verifying(d)') \in Nat /\ Cardinality(Verifying(d)') <= Cardinality(People)
      BY <2>1, PeopleFinite
    <2>. QED
      BY <1>1, <1>5, <1>6, <2>2, PeopleFinite, Constants
  <1>7. CASE d # c
    <2>1. Verifying(d)' = Verifying(d)
      BY <1>1, <1>3, <1>4, <1>7 DEF Verifying
    <2>. QED
      BY <1>1, <2>1 DEF GuessesInv, FailuresToCome
  <1>. QED
    BY <1>6, <1>7

\* A failure is counted when its attempt is not under way any more.
LEMMA WrongBounded ==
  ASSUME GuessesInv, NEW p \in People, Wrong(p)
  PROVE  GuessesInv'
  <1>. DEFINE c == attempts[p].counter
  <1>1. c \in Counters /\ records[c].failures \in Nat /\ lockoutWindow \in Nat
    BY Constants DEF GuessesInv, GuessesTypeOK
  <1>2. /\ attempts[p].pc = "verifying"
        /\ records' = [records EXCEPT ![c] = [failures |-> records[c].failures + 1,
                                              left |-> lockoutWindow]]
        /\ Now(p, "sharing", c) \/ Ends(p)
    BY DEF Wrong
  <1>3. "sharing" \in Stages
    BY DEF Stages
  <1>4. /\ attempts' \in [People -> [pc : Stages, counter : Counters]]
        /\ \A d \in Counters : Verifying(d)' = Verifying(d) \ {p}
    BY <1>1, <1>2, <1>3, MovesOn
  <1>5. /\ records' \in [Counters -> [failures : Nat, left : Nat]]
        /\ records'[c].failures = records[c].failures + 1
        /\ \A d \in Counters : d # c => records'[d] = records[d]
    BY <1>1, <1>2 DEF GuessesInv, GuessesTypeOK
  <1>6. GuessesTypeOK'
    BY <1>4, <1>5 DEF GuessesTypeOK
  <1>. SUFFICES ASSUME NEW d \in Counters
                PROVE  records'[d].failures + Cardinality(Verifying(d)')
                         < maxFailedAttempts + Cardinality(People)
    BY <1>6 DEF GuessesInv, FailuresToCome
  <1>7. records[d].failures + Cardinality(Verifying(d))
            < maxFailedAttempts + Cardinality(People)
    BY DEF GuessesInv, FailuresToCome
  <1>8. CASE d = c
    <2>1. p \in Verifying(d) /\ IsFiniteSet(Verifying(d))
      BY <1>2, <1>8, PeopleFinite DEF Verifying
    <2>2. Cardinality(Verifying(d) \ {p}) = Cardinality(Verifying(d)) - 1
      BY <2>1, FS_RemoveElement
    <2>3. Cardinality(Verifying(d)') = Cardinality(Verifying(d) \ {p})
      BY <1>4
    <2>4. Cardinality(Verifying(d)) \in Nat
      BY <2>1, FS_CardinalityType
    <2>. QED
      BY <1>1, <1>5, <1>7, <1>8, <2>2, <2>3, <2>4, PeopleFinite, Constants
  <1>9. CASE d # c
    <2>1. p \notin Verifying(d)
      BY <1>9 DEF Verifying
    <2>2. Verifying(d)' = Verifying(d)
      BY <1>4, <2>1
    <2>. QED
      BY <1>5, <1>7, <1>9, <2>2
  <1>. QED
    BY <1>8, <1>9

LEMMA OthersBounded ==
  ASSUME GuessesInv,
         \/ \E p \in People : Share(p) \/ Right(p) \/ Unlock(p) \/ Register(p)
         \/ \E r \in SignInReplicas : HearAccount(r) \/ RestartReplica(r)
         \/ Tick
  PROVE  GuessesInv'
  <1>. USE DEF GuessesInv
  <1>1. ASSUME NEW p \in People, Share(p) \/ Unlock(p) \/ Register(p)
        PROVE  GuessesInv'
    <2>. DEFINE c == attempts[p].counter
    <2>1. c \in Counters /\ "known" \in Stages
      BY DEF GuessesTypeOK, Stages
    <2>2. records' = records /\ (Now(p, "known", c) \/ Ends(p))
      BY <1>1 DEF Share, Unlock, Register
    <2>3. /\ attempts' \in [People -> [pc : Stages, counter : Counters]]
          /\ \A d \in Counters : Verifying(d)' = Verifying(d) \ {p}
      BY <2>1, <2>2, MovesOn
    <2>4. GuessesTypeOK'
      BY <2>2, <2>3 DEF GuessesTypeOK
    <2>5. \A d \in Counters : /\ records'[d].failures <= records[d].failures
                              /\ Verifying(d)' \subseteq Verifying(d)
      BY <2>2, <2>3 DEF GuessesTypeOK
    <2>. QED
      BY <2>4, <2>5, NoMoreGuesses
  <1>2. ASSUME NEW p \in People, Right(p)
        PROVE  GuessesInv'
    <2>. DEFINE c == attempts[p].counter
    <2>1. c \in Counters /\ "unlocking" \in Stages
      BY DEF GuessesTypeOK, Stages
    <2>2. records' = [records EXCEPT ![c] = NoRecord] /\ Now(p, "unlocking", c)
      BY <1>2 DEF Right
    <2>3. /\ attempts' \in [People -> [pc : Stages, counter : Counters]]
          /\ \A d \in Counters : Verifying(d)' = Verifying(d) \ {p}
      BY <2>1, <2>2, MovesOn
    <2>. HIDE DEF c
    <2>4. records' \in [Counters -> [failures : Nat, left : Nat]]
      BY <2>2 DEF GuessesTypeOK, NoRecord
    <2>5. \A d \in Counters : records'[d].failures <= records[d].failures
      BY <2>1, <2>2 DEF GuessesTypeOK, NoRecord
    <2>. QED
      BY <2>3, <2>4, <2>5, NoMoreGuesses DEF GuessesTypeOK
  <1>3. ASSUME NEW r \in SignInReplicas, HearAccount(r)
        PROVE  GuessesInv'
    BY <1>3, NoMoreGuesses DEF HearAccount, GuessesTypeOK, Verifying
  <1>4. ASSUME NEW r \in SignInReplicas, RestartReplica(r)
        PROVE  GuessesInv'
    <2>1. records' = [c \in Counters |-> IF c[1] = r THEN NoRecord ELSE records[c]]
      BY <1>4 DEF RestartReplica
    <2>2. attempts' = [p \in People |-> IF At(p) = r THEN NoAttempt ELSE attempts[p]]
      BY <1>4 DEF RestartReplica
    <2>3. records' \in [Counters -> [failures : Nat, left : Nat]]
      BY <2>1 DEF GuessesTypeOK, NoRecord
    <2>4. attempts' \in [People -> [pc : Stages, counter : Counters]]
      BY <2>2, NobodyYet DEF GuessesTypeOK
    <2>5. \A d \in Counters : records'[d].failures <= records[d].failures
      BY <2>1 DEF GuessesTypeOK, NoRecord
    <2>6. ASSUME NEW d \in Counters, NEW p \in People, p \in Verifying(d)'
          PROVE  p \in Verifying(d)
      <3>1. attempts'[p] = NoAttempt \/ attempts'[p] = attempts[p]
        BY <2>2
      <3>2. attempts'[p].pc = "verifying" /\ attempts'[p].counter = d
        BY <2>6 DEF Verifying
      <3>3. attempts'[p] = attempts[p]
        BY <3>1, <3>2, NobodyYet
      <3>. QED
        BY <3>2, <3>3 DEF Verifying
    <2>7. \A d \in Counters : Verifying(d)' \subseteq Verifying(d)
      BY <2>6 DEF Verifying
    <2>. QED
      BY <2>3, <2>4, <2>5, <2>7, NoMoreGuesses DEF GuessesTypeOK
  <1>4a. ASSUME NEW record \in [failures : Nat, left : Nat]
         PROVE  /\ Lapse(record) \in [failures : Nat, left : Nat]
                /\ Lapse(record).failures <= record.failures
    <2>1. CASE record.left <= 1
      BY <2>1 DEF Lapse, NoRecord
    <2>2. CASE ~(record.left <= 1)
      BY <2>2 DEF Lapse
    <2>. QED
      BY <2>1, <2>2
  <1>5. ASSUME Tick
        PROVE  GuessesInv'
    <2>1. records' = [c \in Counters |-> Lapse(records[c])] /\ attempts' = attempts
      BY <1>5 DEF Tick
    <2>2. GuessesTypeOK'
      BY <1>4a, <2>1 DEF GuessesTypeOK
    <2>3. \A d \in Counters : records'[d].failures <= records[d].failures
      BY <1>4a, <2>1 DEF GuessesTypeOK
    <2>4. \A d \in Counters : Verifying(d)' \subseteq Verifying(d)
      BY <2>1 DEF Verifying
    <2>. QED
      BY <2>2, <2>3, <2>4, NoMoreGuesses
  <1>. QED
    BY <1>1, <1>2, <1>3, <1>4, <1>5

LEMMA StepBounded ==
  ASSUME GuessesInv, [SignInNext]_signInVars
  PROVE  GuessesInv'
  <1>1. CASE UNCHANGED signInVars
    BY <1>1, NoMoreGuesses DEF signInVars, GuessesInv, GuessesTypeOK, Verifying
  <1>2. CASE SignInNext
    <2>1. \A p \in People : Tries[p] \subseteq Counters
      BY SignInConstants DEF SignInConstants, Counters
    <2>. QED
      BY <1>2, <2>1, AttemptBounded, WrongBounded, OthersBounded DEF SignInNext
  <1>. QED
    BY <1>1, <1>2

\* The failures and those that may still come are bounded (limiter.go, allow and fail).
THEOREM GuessesInvariance == SignInSpec => []GuessesInv
  BY InitGuesses, StepBounded, PTL DEF SignInSpec

\* Whoever tries at the same time, a replica counts fewer failures under a spelling
\* of the name than the limit and one for each person, in any order of allow, fail,
\* restart and lapse.
THEOREM GuessingIsBounded == SignInSpec => []GuessesAreBounded
  <1>1. GuessesInv => GuessesAreBounded
    <2>. SUFFICES ASSUME GuessesInv, NEW c \in Counters
                  PROVE  records[c].failures < maxFailedAttempts + Cardinality(People)
      BY DEF GuessesAreBounded
    <2>1. Verifying(c) \subseteq People
      BY DEF Verifying
    <2>2. Cardinality(Verifying(c)) \in Nat
      BY <2>1, PeopleFinite
    <2>3. records[c].failures \in Nat
      BY DEF GuessesInv, GuessesTypeOK
    <2>4. records[c].failures + Cardinality(Verifying(c))
            < maxFailedAttempts + Cardinality(People)
      BY DEF GuessesInv, FailuresToCome
    <2>. QED
      BY <2>2, <2>3, <2>4, PeopleFinite, Constants
  <1>. QED
    BY <1>1, GuessesInvariance, PTL

-----------------------------------------------------------------------------
(* Last-seen times, for any number of replicas and sightings: a batch that *)
(* is taken for written is written, and the stored time never goes back.   *)
(*                                                                         *)
(* Neither is inductive.  A replica that takes its copy for the stored one *)
(* writes it as it is, so the copy must be no older than what is stored    *)
(* (CurrentIsNoOlder), and a batch is marked clean by what was written,    *)
(* which must be stored still (FlushIsStored); a new sighting is later     *)
(* than all of them (NothingFromTheFuture).                                *)

\* A replica that takes its copy for the stored one has no older time in it.
CurrentIsNoOlder == \A r \in latest : memory[r] >= lastSeen

\* What a flush has written is stored, or something later.
FlushIsStored == \A r \in SeenReplicas : flush[r] <= lastSeen

\* Nobody has a sighting that was not made.
NothingFromTheFuture ==
    /\ lastSeen <= sightings
    /\ \A r \in SeenReplicas : memory[r] <= sightings

SeenInv ==
    /\ SeenTypeOK
    /\ CurrentIsNoOlder
    /\ FlushIsStored
    /\ NothingFromTheFuture
    /\ CleanMeansStored

-----------------------------------------------------------------------------

LEMMA InitEstablishes == SeenInit => SeenInv
  BY SeenConstants
     DEF SeenInit, SeenInv, SeenTypeOK, CurrentIsNoOlder, FlushIsStored,
         NothingFromTheFuture, CleanMeansStored

\* The stored time never goes back in a step from a state of the invariant.
LEMMA StepMovesOn ==
  ASSUME SeenInv, [SeenNext]_seenVars
  PROVE  lastSeen' >= lastSeen
  <1>1. lastSeen \in Nat /\ sightings \in Nat /\ lastSeen <= sightings
    BY SeenConstants DEF SeenInv, SeenTypeOK, NothingFromTheFuture
  <1>2. CASE UNCHANGED seenVars
    BY <1>1, <1>2 DEF seenVars
  <1>3. ASSUME NEW r \in SeenReplicas, SightChanged(r)
        PROVE  lastSeen' >= lastSeen
    BY <1>1, <1>3 DEF SightChanged, Wrote, Sighted
  <1>4. ASSUME NEW r \in SeenReplicas, FlushWrites(r)
        PROVE  lastSeen' >= lastSeen
    <2>1. OwnOrStored(r) >= lastSeen
      BY <1>1 DEF OwnOrStored, SeenInv, CurrentIsNoOlder
    <2>. QED
      BY <1>4, <2>1 DEF FlushWrites, Wrote
  <1>5. ASSUME NEW r \in SeenReplicas,
               Sight(r) \/ SightRefused(r) \/ FlushReloads(r) \/ FlushMarks(r)
               \/ HearSightings(r) \/ Leaves(r) \/ Exits(r) \/ Killed(r)
        PROVE  lastSeen' >= lastSeen
    BY <1>1, <1>5
       DEF Sight, SightRefused, FlushReloads, FlushMarks, HearSightings, Leaves,
           Exits, Killed, Started
  <1>. QED
    BY <1>2, <1>3, <1>4, <1>5 DEF SeenNext

-----------------------------------------------------------------------------
(* The invariant, action by action. *)

LEMMA SightKeeps ==
  ASSUME SeenInv, NEW r \in SeenReplicas, Sight(r) \/ SightRefused(r)
  PROVE  SeenInv'
  <1>1. SeenTypeOK'
    <2>1. sightings' \in 0..MaxSightings /\ lastSeen' = lastSeen /\ lastSeen \in 0..MaxSightings
      BY SeenConstants DEF SeenInv, SeenTypeOK, Sight, SightRefused, Sighted
    <2>2. memory' \in [SeenReplicas -> 0..MaxSightings]
      BY <2>1 DEF SeenInv, SeenTypeOK, Sight, SightRefused, Sighted
    <2>3. latest' \subseteq SeenReplicas /\ leaving' \subseteq SeenReplicas
      BY DEF SeenInv, SeenTypeOK, Sight, SightRefused, MayHaveReloaded
    <2>4. /\ seenDirty' \in [SeenReplicas -> BOOLEAN]
          /\ flush' \in [SeenReplicas -> 0..MaxSightings]
      BY DEF SeenInv, SeenTypeOK, Sight, SightRefused
    <2>5. excused' \in [SeenReplicas -> SUBSET {"crossed", "refused"}]
      BY DEF SeenInv, SeenTypeOK, Sight, SightRefused
    <2>. QED
      BY <2>1, <2>2, <2>3, <2>4, <2>5 DEF SeenTypeOK
  <1>2. CurrentIsNoOlder'
    BY SeenConstants
       DEF SeenInv, SeenTypeOK, CurrentIsNoOlder, NothingFromTheFuture, Sight, SightRefused,
           Sighted, MayHaveReloaded
  <1>3. FlushIsStored'
    BY DEF SeenInv, FlushIsStored, Sight, SightRefused
  <1>4. NothingFromTheFuture'
    BY SeenConstants
       DEF SeenInv, SeenTypeOK, NothingFromTheFuture, Sight, SightRefused, Sighted
  <1>5. CleanMeansStored'
    BY DEF SeenInv, SeenTypeOK, CleanMeansStored, Sight, SightRefused
  <1>. QED
    BY <1>1, <1>2, <1>3, <1>4, <1>5 DEF SeenInv

LEMMA SightChangedKeeps ==
  ASSUME SeenInv, NEW r \in SeenReplicas, SightChanged(r)
  PROVE  SeenInv'
  <1>1. SeenTypeOK'
    BY SeenConstants DEF SeenInv, SeenTypeOK, SightChanged, Sighted, Wrote
  <1>2. CurrentIsNoOlder' /\ FlushIsStored' /\ NothingFromTheFuture'
    BY SeenConstants
       DEF SeenInv, SeenTypeOK, CurrentIsNoOlder, FlushIsStored, NothingFromTheFuture,
           SightChanged, Sighted, Wrote
  <1>3. CleanMeansStored'
    BY SeenConstants
       DEF SeenInv, SeenTypeOK, CleanMeansStored, NothingFromTheFuture, SightChanged, Sighted,
           Wrote
  <1>. QED
    BY <1>1, <1>2, <1>3 DEF SeenInv

LEMMA FlushWritesKeeps ==
  ASSUME SeenInv, NEW r \in SeenReplicas, FlushWrites(r)
  PROVE  SeenInv'
  <1>. DEFINE written == OwnOrStored(r)
  <1>1. /\ written \in 0..MaxSightings
        /\ lastSeen <= written /\ written <= sightings
    BY SeenConstants
       DEF OwnOrStored, SeenInv, SeenTypeOK, CurrentIsNoOlder, NothingFromTheFuture
  <1>2. /\ lastSeen' = written
        /\ memory' = [memory EXCEPT ![r] = written]
        /\ flush' = [flush EXCEPT ![r] = written]
        /\ latest' = {r}
        /\ excused' = [excused EXCEPT ![r] = {}]
        /\ seenDirty[r]
        /\ UNCHANGED <<sightings, seenDirty, leaving>>
    BY DEF FlushWrites, Wrote
  <1>. HIDE DEF written
  <1>3. SeenTypeOK'
    BY <1>1, <1>2 DEF SeenInv, SeenTypeOK
  <1>4. CurrentIsNoOlder' /\ FlushIsStored' /\ NothingFromTheFuture'
    BY <1>1, <1>2, SeenConstants
       DEF SeenInv, SeenTypeOK, CurrentIsNoOlder, FlushIsStored, NothingFromTheFuture
  <1>5. CleanMeansStored'
    BY <1>1, <1>2, SeenConstants DEF SeenInv, SeenTypeOK, CleanMeansStored
  <1>. QED
    BY <1>3, <1>4, <1>5 DEF SeenInv

LEMMA FlushMarksKeeps ==
  ASSUME SeenInv, NEW r \in SeenReplicas, FlushMarks(r)
  PROVE  SeenInv'
  <1>1. SeenTypeOK'
    BY SeenConstants DEF SeenInv, SeenTypeOK, FlushMarks
  <1>2. CurrentIsNoOlder' /\ FlushIsStored' /\ NothingFromTheFuture'
    BY SeenConstants
       DEF SeenInv, SeenTypeOK, CurrentIsNoOlder, FlushIsStored, NothingFromTheFuture, FlushMarks
  <1>3. CleanMeansStored'
    BY SeenConstants
       DEF SeenInv, SeenTypeOK, CleanMeansStored, FlushIsStored, FlushMarks
  <1>. QED
    BY <1>1, <1>2, <1>3 DEF SeenInv

\* A replica that reads the stored model has nothing that is not in it.
LEMMA ReadingKeeps ==
  ASSUME SeenInv, NEW r \in SeenReplicas,
         FlushReloads(r) \/ HearSightings(r) \/ Exits(r) \/ Killed(r)
  PROVE  SeenInv'
  <1>1. SeenTypeOK'
    <2>1. CASE FlushReloads(r) \/ HearSightings(r)
      BY <2>1 DEF SeenInv, SeenTypeOK, FlushReloads, HearSightings
    <2>2. CASE Exits(r) \/ Killed(r)
      <3>1. Started(r) /\ leaving' \subseteq SeenReplicas
        BY <2>2 DEF SeenInv, SeenTypeOK, Exits, Killed
      <3>2. excused' \in [SeenReplicas -> SUBSET {"crossed", "refused"}]
        BY <3>1 DEF SeenInv, SeenTypeOK, Started
      <3>3. /\ {sightings', lastSeen'} \subseteq 0..MaxSightings
            /\ memory' \in [SeenReplicas -> 0..MaxSightings]
            /\ latest' \subseteq SeenReplicas
            /\ seenDirty' \in [SeenReplicas -> BOOLEAN]
            /\ flush' \in [SeenReplicas -> 0..MaxSightings]
        BY <3>1, SeenConstants DEF SeenInv, SeenTypeOK, Started
      <3>. QED
        BY <3>1, <3>2, <3>3 DEF SeenTypeOK
    <2>. QED
      BY <2>1, <2>2
  <1>2. CurrentIsNoOlder' /\ FlushIsStored' /\ NothingFromTheFuture'
    BY SeenConstants
       DEF SeenInv, SeenTypeOK, CurrentIsNoOlder, FlushIsStored, NothingFromTheFuture,
           FlushReloads, HearSightings, Exits, Killed, Started
  <1>3. CleanMeansStored'
    BY SeenConstants
       DEF SeenInv, SeenTypeOK, CleanMeansStored, FlushReloads, HearSightings, Exits, Killed,
           Started
  <1>. QED
    BY <1>1, <1>2, <1>3 DEF SeenInv

LEMMA LeavingKeeps ==
  ASSUME SeenInv, NEW r \in SeenReplicas, Leaves(r)
  PROVE  SeenInv'
  BY DEF SeenInv, SeenTypeOK, CurrentIsNoOlder, FlushIsStored, NothingFromTheFuture,
         CleanMeansStored, Leaves

LEMMA StepKeeps ==
  ASSUME SeenInv, [SeenNext]_seenVars
  PROVE  SeenInv'
  <1>1. CASE UNCHANGED seenVars
    BY <1>1
       DEF SeenInv, SeenTypeOK, CurrentIsNoOlder, FlushIsStored, NothingFromTheFuture,
           CleanMeansStored, seenVars
  <1>2. CASE SeenNext
    BY <1>2, SightKeeps, SightChangedKeeps, FlushWritesKeeps, FlushMarksKeeps, ReadingKeeps,
       LeavingKeeps
       DEF SeenNext
  <1>. QED
    BY <1>1, <1>2

-----------------------------------------------------------------------------

\* The invariant of the batches of last-seen times (RecordSeen, FlushSeen).
THEOREM SeenInvariance == SeenSpec => []SeenInv
  BY InitEstablishes, StepKeeps, PTL DEF SeenSpec

\* Whatever a replica takes for written is stored, whichever replicas write in
\* between, reload, are told or are killed: a sighting is left in memory only if its
\* own write was refused or it came between a flush's write and its mark.
THEOREM BatchesAreWritten == SeenSpec => []CleanMeansStored
  BY SeenInvariance, PTL DEF SeenInv

\* No write of any replica puts an older last-seen time back.
THEOREM NeverBack == SeenSpec => SeenNeverGoesBack
  <1>1. SeenInv /\ [SeenNext]_seenVars => [lastSeen' >= lastSeen]_seenVars
    BY StepMovesOn
  <1>. QED
    BY <1>1, SeenInvariance, PTL DEF SeenSpec, SeenNeverGoesBack
=============================================================================
