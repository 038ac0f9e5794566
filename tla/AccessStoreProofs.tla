------------------------- MODULE AccessStoreProofs -------------------------
(***************************************************************************)
(* AccessStore for any number of replicas, any changes, any bounds: the    *)
(* types; that no write undoes another, and that an acknowledged change    *)
(* stays (IInv); that a version never stands beside another's model, that  *)
(* seeding spares roles, and that the replicas keep the one model of       *)
(* SharedModel (HistoryInv).  And AuthorizerSync, over it, for any number  *)
(* of handlers: authorizers answer from the roles in the store (SyncInv).  *)
(***************************************************************************)
EXTENDS AuthorizerSync, AccessModelProofs

LEMMA EmptyIsDocument == Empty \in Documents
  BY DEF Empty, Documents, EmptyModel, Models

LEMMA NumbersType ==
  ASSUME NEW c \in Changes
  PROVE  /\ c.edit \in Edits
         /\ NumbersOf(c) \subseteq 1 .. MaxEdits
<1>1. SeedEdit \in Edits
  BY DEF SeedEdit, Edits
<1> QED BY <1>1, CallsAreEdits, BoundsAreNat DEF Changes, NumbersOf

LEMMA LatestIsDocument ==
  ASSUME TypeOK, Exists
  PROVE  /\ Latest \in Documents
         /\ Len(revs) \in Nat \ {0}
         /\ Current = Len(revs)
         /\ Latest = revs[Len(revs)]
  BY DEF TypeOK, Exists, Latest, Current

LEMMA CurrentType ==
  ASSUME TypeOK
  PROVE  Current \in Nat
  BY DEF TypeOK, Current

LEMMA SpendType ==
  ASSUME TypeOK, NEW b \in Bounds, Spend(b)
  PROVE  /\ spent' \in [Bounds -> Nat]
         /\ spent'[b] = spent[b] + 1
         /\ spent[b] < Limit[b]
         /\ \A x \in Bounds : spent'[x] >= spent[x]
  BY DEF TypeOK, Spend

LEMMA SpendOther ==
  ASSUME TypeOK, Spend("edits") \/ Spend("faults") \/ Spend("drops") \/ Spend("starts")
  PROVE  spent'["deletions"] = spent["deletions"]
<1>1. "deletions" \in Bounds
  BY DEF Bounds
<1> QED BY <1>1 DEF TypeOK, Spend

LEMMA BeginNumber ==
  ASSUME TypeOK, Spend("edits")
  PROVE  spent'["edits"] \in 1 .. MaxEdits
<1>1. "edits" \in Bounds /\ Limit["edits"] = MaxEdits
  BY DEF Bounds, Limit
<1>2. spent["edits"] \in Nat
  BY <1>1 DEF TypeOK
<1> QED BY <1>1, <1>2, SpendType, BoundsAreNat

\* What Run leaves: a document of this change, and the lock held until it is
\* saved or there was nothing to save.
LEMMA RunType ==
  ASSUME TypeOK, NEW r \in Replicas, NEW c \in Changes, NEW d \in Documents,
         NEW v \in Nat, NEW n \in Nat, Run(r, c, d, v, n)
  PROVE  /\ pc' \in [Replicas -> {"down", "creating", "starting", "idle", "saving", "conflict"}]
         /\ copy' \in [Replicas -> Documents]
         /\ version' \in [Replicas -> Nat]
         /\ change' \in [Replicas -> Changes \cup {Nobody}]
         /\ attempt' \in [Replicas -> Nat]
         /\ version'[r] = v
         /\ d.edits \subseteq copy'[r].edits
         /\ pc'[r] \in {"saving", "idle"}
         /\ pc'[r] = "saving" => change'[r] = c /\ NumbersOf(c) \subseteq copy'[r].edits
         /\ \A q \in Replicas \ {r} :
               /\ pc'[q] = pc[q]
               /\ copy'[q] = copy[q]
               /\ version'[q] = version[q]
               /\ change'[q] = change[q]
<1> DEFINE out == Outcome(c.edit, d.model)
<1>1. d.model \in Models /\ d.edits \in SUBSET (1 .. MaxEdits)
  BY DEF Documents
<1>2. out.model \in Models
  BY <1>1, NumbersType, OutcomeIsModel DEF IsOutcome
<1>3. [model |-> out.model, edits |-> d.edits \cup NumbersOf(c)] \in Documents
  BY <1>1, <1>2, NumbersType DEF Documents
<1>4. PICK doc \in Documents, state \in {"saving", "idle"}, held \in Changes \cup {Nobody},
           tries \in Nat :
         /\ copy' = [copy EXCEPT ![r] = doc]
         /\ pc' = [pc EXCEPT ![r] = state]
         /\ change' = [change EXCEPT ![r] = held]
         /\ attempt' = [attempt EXCEPT ![r] = tries]
         /\ d.edits \subseteq doc.edits
         /\ state = "saving" => held = c /\ NumbersOf(c) \subseteq doc.edits
  <2>1. CASE out.result = "write"
    BY <1>3, <2>1 DEF Run
  <2>2. CASE out.result # "write"
    BY <2>2 DEF Run
  <2> QED BY <2>1, <2>2
<1>5. version' = [version EXCEPT ![r] = v]
  BY DEF Run
<1> QED BY <1>4, <1>5 DEF TypeOK

LEMMA ReleaseType ==
  ASSUME TypeOK, NEW r \in Replicas, NEW ok \in BOOLEAN, Release(r, ok)
  PROVE  /\ pc' \in [Replicas -> {"down", "creating", "starting", "idle", "saving", "conflict"}]
         /\ change' \in [Replicas -> Changes \cup {Nobody}]
         /\ attempt' \in [Replicas -> Nat]
         /\ pc'[r] \in {"down", "idle"}
         /\ \A q \in Replicas \ {r} : pc'[q] = pc[q] /\ change'[q] = change[q]
<1>1. PICK state \in {"down", "idle"} : pc' = [pc EXCEPT ![r] = state]
  BY DEF Release
<1>2. /\ change' = [change EXCEPT ![r] = Nobody]
      /\ attempt' = [attempt EXCEPT ![r] = 0]
  BY DEF Release
<1> QED BY <1>1, <1>2 DEF TypeOK

\* A save appends the copy; the revisions before it stay.
LEMMA AppendType ==
  ASSUME TypeOK, NEW r \in Replicas, revs' = Append(revs, copy[r])
  PROVE  /\ revs' \in Seq(Documents \cup {Gone})
         /\ Len(revs') = Len(revs) + 1
         /\ revs'[Len(revs')] = copy[r]
         /\ \A i \in 1 .. Len(revs) : revs'[i] = revs[i]
         /\ Len(revs) \in Nat
  BY DEF TypeOK

-----------------------------------------------------------------------------
(* A change whose save or reload is pending is one of Changes: TypeOK alone *)
(* does not say that the lock's holder has a change in hand.               *)

InHand == \A r \in Replicas : pc[r] \in {"saving", "conflict"} => change[r] \in Changes

TypeInv == TypeOK /\ InHand

LEMMA MutateType ==
  ASSUME TypeInv, NEW r \in Replicas, Mutate(r)
  PROVE  TypeInv'
<1> USE DEF TypeInv
<1>1. ASSUME NEW e \in Calls, Begin(r, e)
      PROVE  TypeInv'
  <2>1. [edit |-> e, id |-> spent'["edits"]] \in Changes
    BY <1>1, BeginNumber DEF Begin, Changes
  <2>2. copy[r] \in Documents /\ version[r] \in Nat /\ 0 \in Nat
    BY DEF TypeOK
  <2>3. "edits" \in Bounds
    BY DEF Bounds
  <2>4. /\ Run(r, [edit |-> e, id |-> spent'["edits"]], copy[r], version[r], 0)
        /\ Spend("edits")
        /\ UNCHANGED <<revs, watch, acked>>
    BY <1>1 DEF Begin
  <2>5. spent' \in [Bounds -> Nat]
    BY <2>3, <2>4, SpendType
  <2>6. TypeOK'
    BY <2>1, <2>2, <2>4, <2>5, RunType DEF TypeOK
  <2>7. /\ pc'[r] = "saving" => change'[r] \in Changes
        /\ pc'[r] # "conflict"
        /\ \A q \in Replicas \ {r} : pc'[q] = pc[q] /\ change'[q] = change[q]
    BY <2>1, <2>2, <2>4, RunType
  <2> QED BY <2>6, <2>7 DEF InHand
<1>2. CASE SaveAccepted(r)
  <2>1. Release(r, TRUE) /\ change[r] \in Changes
    BY <1>2 DEF SaveAccepted, InHand
  <2>2. acked' \subseteq 1 .. MaxEdits
    BY <1>2, <2>1, NumbersType DEF SaveAccepted, TypeOK
  <2>3. version' \in [Replicas -> Nat]
    BY <1>2, AppendType DEF SaveAccepted, TypeOK
  <2> QED BY <1>2, <2>1, <2>2, <2>3, ReleaseType, AppendType DEF SaveAccepted, TypeOK, InHand
<1>3. CASE SaveConflict(r)
  <2>1. CASE Release(r, FALSE)
    BY <1>3, <2>1, ReleaseType DEF SaveConflict, TypeOK, InHand
  <2>2. CASE /\ pc' = [pc EXCEPT ![r] = "conflict"]
             /\ attempt' = [attempt EXCEPT ![r] = @ + 1]
             /\ UNCHANGED change
    BY <1>3, <2>2 DEF SaveConflict, TypeOK, InHand
  <2> QED BY <1>3, <2>1, <2>2 DEF SaveConflict
<1>4. CASE SaveRefused(r)
  <2>1. "faults" \in Bounds
    BY DEF Bounds
  <2> QED BY <1>4, <2>1, ReleaseType, SpendType DEF SaveRefused, TypeOK, InHand
<1>5. CASE SaveUnacknowledged(r)
  <2>1. "faults" \in Bounds
    BY DEF Bounds
  <2> QED BY <1>5, <2>1, ReleaseType, SpendType, AppendType
         DEF SaveUnacknowledged, TypeOK, InHand
<1>6. CASE Reload(r)
  <2>1. change[r] \in Changes
    BY <1>6 DEF Reload, InHand
  <2>2. Latest \in Documents /\ Len(revs) \in Nat /\ attempt[r] \in Nat
    BY <1>6, LatestIsDocument DEF Reload, TypeOK
  <2> QED BY <1>6, <2>1, <2>2, RunType DEF Reload, TypeOK, InHand
<1>7. CASE ReloadGone(r)
  BY <1>7, ReleaseType DEF ReloadGone, TypeOK, InHand
<1>8. CASE ReloadFails(r)
  <2>1. "faults" \in Bounds
    BY DEF Bounds
  <2> QED BY <1>8, <2>1, ReleaseType, SpendType DEF ReloadFails, TypeOK, InHand
<1> QED BY <1>1, <1>2, <1>3, <1>4, <1>5, <1>6, <1>7, <1>8 DEF Mutate

LEMMA LifecycleType ==
  ASSUME TypeInv, NEW r \in Replicas, Lifecycle(r)
  PROVE  TypeInv'
<1> USE DEF TypeInv
<1>1. CASE Open(r)
  <2>1. "starts" \in Bounds
    BY DEF Bounds
  <2>2. (IF Exists THEN Latest ELSE Empty) \in Documents
    BY LatestIsDocument, EmptyIsDocument
  <2> QED BY <1>1, <2>1, <2>2, SpendType, CurrentType DEF Open, TypeOK, InHand
<1>2. CASE Create(r)
  <2>1. CASE Exists
    BY <1>2, <2>1 DEF Create, TypeOK, InHand
  <2>2. CASE ~Exists
    <3>1. /\ revs' = Append(revs, copy[r])
          /\ version' = [version EXCEPT ![r] = Len(revs')]
          /\ pc' = [pc EXCEPT ![r] = "starting"]
          /\ UNCHANGED <<copy, change, attempt, watch, acked, spent>>
      BY <1>2, <2>2 DEF Create
    <3>2. revs' \in Seq(Documents \cup {Gone}) /\ Len(revs') \in Nat
      BY <3>1, AppendType
    <3> QED BY <3>1, <3>2 DEF TypeOK, InHand
  <2> QED BY <2>1, <2>2
<1>3. CASE Seed(r)
  <2>1. Seeding \in Changes
    BY DEF Seeding, Changes
  <2>2. copy[r] \in Documents /\ version[r] \in Nat /\ 0 \in Nat
    BY DEF TypeOK
  <2>3. /\ Run(r, Seeding, copy[r], version[r], 0)
        /\ UNCHANGED <<revs, watch, acked, spent>>
    BY <1>3 DEF Seed
  <2>4. TypeOK'
    BY <2>1, <2>2, <2>3, RunType DEF TypeOK
  <2>5. /\ pc'[r] = "saving" => change'[r] \in Changes
        /\ pc'[r] # "conflict"
        /\ \A q \in Replicas \ {r} : pc'[q] = pc[q] /\ change'[q] = change[q]
    BY <2>1, <2>2, <2>3, RunType
  <2> QED BY <2>4, <2>5 DEF InHand
<1>4. CASE Crash(r)
  BY <1>4, EmptyIsDocument DEF Crash, TypeOK, InHand
<1> QED BY <1>1, <1>2, <1>3, <1>4 DEF Lifecycle

LEMMA WatchingType ==
  ASSUME TypeInv, NEW r \in Replicas, Watching(r)
  PROVE  TypeInv'
<1> USE DEF TypeInv
<1>1. CASE WatchStarts(r)
  BY <1>1 DEF WatchStarts, TypeOK, InHand
<1>2. CASE WatchDrops(r)
  <2>1. "drops" \in Bounds
    BY DEF Bounds
  <2> QED BY <1>2, <2>1, SpendType DEF WatchDrops, TypeOK, InHand
<1>3. CASE Deliver(r)
  <2>1. revs[watch[r]] \in Documents \cup {Gone}
    BY <1>3 DEF Deliver, TypeOK
  <2>2. CASE revs[watch[r]] = Gone \/ watch[r] = version[r]
    BY <1>3, <2>2 DEF Deliver, TypeOK, InHand
  <2>3. CASE ~(revs[watch[r]] = Gone \/ watch[r] = version[r])
    <3>1. /\ watch[r] \in 1 .. Len(revs)
          /\ watch' = [watch EXCEPT ![r] = @ + 1]
          /\ copy' = [copy EXCEPT ![r] = revs[watch[r]]]
          /\ version' = [version EXCEPT ![r] = watch[r]]
          /\ UNCHANGED <<revs, pc, change, attempt, acked, spent>>
      BY <1>3, <2>3 DEF Deliver
    <3>2. watch[r] \in Nat /\ revs[watch[r]] \in Documents
      BY <2>1, <2>3 DEF TypeOK
    <3> QED BY <3>1, <3>2 DEF TypeOK, InHand
  <2> QED BY <2>2, <2>3
<1> QED BY <1>1, <1>2, <1>3 DEF Watching

LEMMA DeleteType ==
  ASSUME TypeInv, Delete
  PROVE  TypeInv'
<1>1. "deletions" \in Bounds
  BY DEF Bounds
<1> QED BY <1>1, SpendType DEF TypeInv, Delete, TypeOK, InHand

LEMMA TypeInvariance == Spec => []TypeInv
<1>1. Init => TypeInv
  BY EmptyIsDocument DEF Init, TypeInv, TypeOK, InHand, Bounds
<1>2. TypeInv /\ [Next]_vars => TypeInv'
  <2> SUFFICES ASSUME TypeInv, [Next]_vars
               PROVE  TypeInv'
    OBVIOUS
  <2>1. CASE UNCHANGED vars
    BY <2>1 DEF vars, TypeInv, TypeOK, InHand
  <2>2. CASE Next
    BY <2>2, MutateType, LifecycleType, WatchingType, DeleteType DEF Next
  <2> QED BY <2>1, <2>2
<1> QED BY <1>1, <1>2, PTL DEF Spec

\* Every variable keeps its type: what a replica holds in memory and what it
\* stores is always a model it can read back.
THEOREM TypeCorrect == Spec => []TypeOK
<1>1. TypeInv => TypeOK
  BY DEF TypeInv
<1> QED BY <1>1, TypeInvariance, PTL
-----------------------------------------------------------------------------
(* No write undoes another, and what is acknowledged stays.  Neither is     *)
(* inductive alone.  A save is accepted at the version the copy was read at, *)
(* so what makes both hold is that a copy always has all the changes of the  *)
(* revision its version names, and that the change being saved is in it.     *)

\* A replica past Open has read or written the revision its version names,
\* and has not lost any of its changes since.
CopiesCover ==
    \A r \in Replicas :
        pc[r] \notin {"down", "creating"} =>
            /\ version[r] \in 1 .. Len(revs)
            /\ revs[version[r]] # Gone
            /\ revs[version[r]].edits \subseteq copy[r].edits

SavingHolds ==
    \A r \in Replicas : pc[r] = "saving" => NumbersOf(change[r]) \subseteq copy[r].edits

IInv == TypeInv /\ NoLostUpdate /\ AckedDurable /\ CopiesCover /\ SavingHolds

\* Steps that leave the stored revisions and what was acknowledged alone.
LEMMA StoreUntouched ==
  ASSUME IInv, TypeInv', UNCHANGED <<revs, acked>>,
         spent'["deletions"] >= spent["deletions"]
  PROVE  NoLostUpdate' /\ AckedDurable'
<1>1. NoLostUpdate'
  BY DEF IInv, NoLostUpdate
<1>2. spent["deletions"] \in Nat /\ spent'["deletions"] \in Nat
  BY DEF IInv, TypeInv, TypeOK, Bounds
<1>3. AckedDurable'
  <2>1. spent'["deletions"] = 0 => spent["deletions"] = 0
    BY <1>2
  <2>2. Exists' = Exists /\ Latest' = Latest /\ acked' = acked
    BY DEF Exists, Latest
  <2>3. AckedDurable
    BY DEF IInv
  <2> QED BY <2>1, <2>2, <2>3 DEF AckedDurable
<1> QED BY <1>1, <1>3

\* A save that is accepted: the copy covers the revision it replaces, which is
\* the last one.
LEMMA SaveKeeps ==
  ASSUME IInv, TypeInv', NEW r \in Replicas, pc[r] = "saving", version[r] = Current,
         revs' = Append(revs, copy[r]),
         acked' \subseteq acked \cup NumbersOf(change[r]),
         spent'["deletions"] = spent["deletions"]
  PROVE  NoLostUpdate' /\ AckedDurable'
<1>1. /\ version[r] \in 1 .. Len(revs)
      /\ revs[version[r]] # Gone
      /\ revs[version[r]].edits \subseteq copy[r].edits
  BY DEF IInv, CopiesCover
<1>2. Len(revs) \in Nat /\ TypeOK
  BY DEF IInv, TypeInv, TypeOK
<1>3. Exists /\ version[r] = Len(revs) /\ Latest = revs[Len(revs)]
  BY <1>1, <1>2 DEF Current, Exists, Latest
<1>4. /\ Len(revs') = Len(revs) + 1
      /\ revs'[Len(revs')] = copy[r]
      /\ \A i \in 1 .. Len(revs) : revs'[i] = revs[i]
  BY <1>2, AppendType
<1>5. NoLostUpdate'
  <2> SUFFICES ASSUME NEW i \in 1 .. Len(revs') - 1,
                      revs'[i] # Gone, revs'[i + 1] # Gone
               PROVE  revs'[i].edits \subseteq revs'[i + 1].edits
    BY DEF NoLostUpdate
  <2>1. CASE i = Len(revs)
    BY <1>1, <1>2, <1>3, <1>4, <2>1
  <2>2. CASE i # Len(revs)
    <3>1. i \in 1 .. Len(revs) - 1 /\ i \in 1 .. Len(revs) /\ i + 1 \in 1 .. Len(revs)
      BY <1>2, <1>4, <2>2
    <3>2. revs'[i] = revs[i] /\ revs'[i + 1] = revs[i + 1]
      BY <1>4, <3>1
    <3> QED BY <3>1, <3>2 DEF IInv, NoLostUpdate
  <2> QED BY <2>1, <2>2
<1>6. AckedDurable'
  <2>1. copy[r] \in Documents /\ copy[r] # Gone
    BY <1>2, MarkersAreNotValues DEF TypeOK
  <2>2. Exists' /\ Latest' = copy[r]
    BY <1>2, <1>4, <2>1 DEF Exists, Latest
  <2>3. spent["deletions"] = 0 => acked \subseteq copy[r].edits
    BY <1>1, <1>3 DEF IInv, AckedDurable
  <2>4. NumbersOf(change[r]) \subseteq copy[r].edits
    BY DEF IInv, SavingHolds
  <2> QED BY <2>2, <2>3, <2>4 DEF AckedDurable
<1> QED BY <1>5, <1>6

\* A first document, or one written where the Secret was deleted, follows no
\* document it could undo.
LEMMA CreatedAfterNothing ==
  ASSUME IInv, NEW r \in Replicas, ~Exists, revs' = Append(revs, copy[r])
  PROVE  NoLostUpdate'
<1>1. TypeOK /\ Len(revs) \in Nat
  BY DEF IInv, TypeInv, TypeOK
<1>2. /\ Len(revs') = Len(revs) + 1
      /\ \A i \in 1 .. Len(revs) : revs'[i] = revs[i]
  BY <1>1, AppendType
<1> SUFFICES ASSUME NEW i \in 1 .. Len(revs') - 1,
                    revs'[i] # Gone, revs'[i + 1] # Gone
             PROVE  revs'[i].edits \subseteq revs'[i + 1].edits
  BY DEF NoLostUpdate
<1>3. i \in 1 .. Len(revs) /\ revs[i] # Gone
  BY <1>1, <1>2
<1>4. i # Len(revs)
  BY <1>1, <1>3 DEF Exists, Latest
<1>5. i \in 1 .. Len(revs) - 1 /\ i + 1 \in 1 .. Len(revs)
  BY <1>1, <1>3, <1>4
<1> QED BY <1>2, <1>3, <1>5 DEF IInv, NoLostUpdate

\* What is left of CopiesCover and SavingHolds when only replica r moves and
\* the revisions only grow.
LEMMA OthersKeep ==
  ASSUME IInv, TypeInv', NEW r \in Replicas,
         Len(revs') >= Len(revs),
         \A i \in 1 .. Len(revs) : revs'[i] = revs[i],
         \A q \in Replicas \ {r} :
            /\ pc'[q] = pc[q]
            /\ copy'[q] = copy[q]
            /\ version'[q] = version[q]
            /\ change'[q] = change[q],
         pc'[r] \notin {"down", "creating"} =>
            /\ version'[r] \in 1 .. Len(revs')
            /\ revs'[version'[r]] # Gone
            /\ revs'[version'[r]].edits \subseteq copy'[r].edits,
         pc'[r] = "saving" => NumbersOf(change'[r]) \subseteq copy'[r].edits
  PROVE  CopiesCover' /\ SavingHolds'
<1>1. Len(revs) \in Nat /\ Len(revs') \in Nat
  BY DEF IInv, TypeInv, TypeOK
<1>2. ASSUME NEW q \in Replicas, pc'[q] \notin {"down", "creating"}
      PROVE  /\ version'[q] \in 1 .. Len(revs')
             /\ revs'[version'[q]] # Gone
             /\ revs'[version'[q]].edits \subseteq copy'[q].edits
  <2>1. CASE q = r
    BY <1>2, <2>1
  <2>2. CASE q # r
    <3>1. /\ version[q] \in 1 .. Len(revs)
          /\ revs[version[q]] # Gone
          /\ revs[version[q]].edits \subseteq copy[q].edits
      BY <1>2, <2>2 DEF IInv, CopiesCover
    <3>2. revs'[version[q]] = revs[version[q]] /\ version[q] \in 1 .. Len(revs')
      BY <1>1, <3>1
    <3> QED BY <2>2, <3>1, <3>2
  <2> QED BY <2>1, <2>2
<1>3. ASSUME NEW q \in Replicas, pc'[q] = "saving"
      PROVE  NumbersOf(change'[q]) \subseteq copy'[q].edits
  <2>1. CASE q = r
    BY <1>3, <2>1
  <2>2. CASE q # r
    <3>1. /\ pc[q] = "saving"
          /\ change'[q] = change[q]
          /\ copy'[q] = copy[q]
      BY <1>3, <2>2
    <3>2. NumbersOf(change[q]) \subseteq copy[q].edits
      BY <3>1 DEF IInv, SavingHolds
    <3> QED BY <3>1, <3>2
  <2> QED BY <2>1, <2>2
<1> QED BY <1>2, <1>3 DEF CopiesCover, SavingHolds

LEMMA MutateKeeps ==
  ASSUME IInv, TypeInv', NEW r \in Replicas, Mutate(r)
  PROVE  IInv'
<1>1. TypeOK /\ InHand /\ Len(revs) \in Nat
  BY DEF IInv, TypeInv, TypeOK
<1>2. pc[r] \notin {"down", "creating"} =>
         /\ version[r] \in 1 .. Len(revs)
         /\ revs[version[r]] # Gone
         /\ revs[version[r]].edits \subseteq copy[r].edits
  BY DEF IInv, CopiesCover
<1>3. spent'["deletions"] = spent["deletions"]
  BY <1>1, SpendOther
     DEF Mutate, Begin, SaveAccepted, SaveConflict, SaveRefused, SaveUnacknowledged,
         Reload, ReloadGone, ReloadFails
<1>4. ASSUME NEW e \in Calls, Begin(r, e)
      PROVE  IInv'
  <2> DEFINE c == [edit |-> e, id |-> spent'["edits"]]
  <2>1. /\ Run(r, c, copy[r], version[r], 0)
        /\ pc[r] = "idle"
        /\ Spend("edits")
        /\ UNCHANGED <<revs, watch, acked>>
    BY <1>4 DEF Begin
  <2>2. c \in Changes
    BY <1>1, <2>1, BeginNumber DEF Changes
  <2>3. /\ version'[r] = version[r]
        /\ copy[r].edits \subseteq copy'[r].edits
        /\ pc'[r] = "saving" => change'[r] = c /\ NumbersOf(c) \subseteq copy'[r].edits
        /\ \A q \in Replicas \ {r} :
              /\ pc'[q] = pc[q]
              /\ copy'[q] = copy[q]
              /\ version'[q] = version[q]
              /\ change'[q] = change[q]
    <3>1. copy[r] \in Documents /\ version[r] \in Nat /\ 0 \in Nat
      BY <1>1 DEF TypeOK
    <3> HIDE DEF c
    <3> QED BY <1>1, <2>1, <2>2, <3>1, RunType
  <2>4. CopiesCover' /\ SavingHolds'
    <3>1. /\ revs' = revs
          /\ version'[r] \in 1 .. Len(revs)
          /\ revs[version'[r]] # Gone
          /\ revs[version'[r]].edits \subseteq copy'[r].edits
      BY <1>2, <2>1, <2>3
    <3> HIDE DEF c
    <3> QED BY <1>1, <2>3, <3>1, OthersKeep
  <2>5. NoLostUpdate' /\ AckedDurable'
    BY <1>1, <1>3, <2>1, StoreUntouched DEF TypeOK, Bounds
  <2> QED BY <2>4, <2>5 DEF IInv
<1>5. CASE SaveAccepted(r)
  <2>1. /\ pc[r] = "saving"
        /\ version[r] = Current
        /\ revs' = Append(revs, copy[r])
        /\ version' = [version EXCEPT ![r] = Len(revs')]
        /\ acked' = acked \cup NumbersOf(change[r])
        /\ Release(r, TRUE)
        /\ UNCHANGED <<copy, watch, spent>>
    BY <1>5 DEF SaveAccepted
  <2>2. NoLostUpdate' /\ AckedDurable'
    BY <1>3, <2>1, SaveKeeps
  <2>3. /\ Len(revs') = Len(revs) + 1
        /\ revs'[Len(revs')] = copy[r]
        /\ \A i \in 1 .. Len(revs) : revs'[i] = revs[i]
    BY <1>1, <2>1, AppendType
  <2>4. copy[r] # Gone
    BY <1>1, MarkersAreNotValues DEF TypeOK
  <2>5. /\ version'[r] = Len(revs')
        /\ \A q \in Replicas \ {r} : version'[q] = version[q]
    BY <1>1, <2>1 DEF TypeOK
  <2>6. /\ pc'[r] \in {"down", "idle"}
        /\ \A q \in Replicas \ {r} : pc'[q] = pc[q] /\ change'[q] = change[q]
    BY <1>1, <2>1, ReleaseType
  <2>7. CopiesCover' /\ SavingHolds'
    BY <1>1, <2>1, <2>3, <2>4, <2>5, <2>6, OthersKeep
  <2> QED BY <2>2, <2>7 DEF IInv
<1>6. CASE SaveUnacknowledged(r)
  <2>1. /\ pc[r] = "saving"
        /\ version[r] = Current
        /\ revs' = Append(revs, copy[r])
        /\ Release(r, FALSE)
        /\ UNCHANGED <<copy, version, watch, acked>>
    BY <1>6 DEF SaveUnacknowledged
  <2>2. NoLostUpdate' /\ AckedDurable'
    BY <1>3, <2>1, SaveKeeps
  <2>3. /\ Len(revs') = Len(revs) + 1
        /\ \A i \in 1 .. Len(revs) : revs'[i] = revs[i]
    BY <1>1, <2>1, AppendType
  <2>4. /\ version[r] \in 1 .. Len(revs')
        /\ revs'[version[r]] = revs[version[r]]
    BY <1>1, <1>2, <2>1, <2>3
  <2>5. /\ pc'[r] \in {"down", "idle"}
        /\ \A q \in Replicas \ {r} : pc'[q] = pc[q] /\ change'[q] = change[q]
    BY <1>1, <2>1, ReleaseType
  <2>6. CopiesCover' /\ SavingHolds'
    BY <1>1, <1>2, <2>1, <2>3, <2>4, <2>5, OthersKeep
  <2> QED BY <2>2, <2>6 DEF IInv
<1>7. CASE SaveConflict(r) \/ SaveRefused(r) \/ ReloadGone(r) \/ ReloadFails(r)
  <2>1. /\ pc[r] \in {"saving", "conflict"}
        /\ UNCHANGED <<revs, copy, version, acked>>
    BY <1>7 DEF SaveConflict, SaveRefused, ReloadGone, ReloadFails
  <2>2. /\ pc'[r] \in {"down", "idle", "conflict"}
        /\ \A q \in Replicas \ {r} : pc'[q] = pc[q] /\ change'[q] = change[q]
    <3>1. CASE Release(r, FALSE)
      BY <1>1, <3>1, ReleaseType
    <3>2. CASE pc' = [pc EXCEPT ![r] = "conflict"] /\ UNCHANGED change
      BY <1>1, <3>2 DEF TypeOK
    <3> QED BY <1>7, <3>1, <3>2
           DEF SaveConflict, SaveRefused, ReloadGone, ReloadFails
  <2>3. CopiesCover' /\ SavingHolds'
    BY <1>1, <1>2, <2>1, <2>2, OthersKeep
  <2>4. NoLostUpdate' /\ AckedDurable'
    BY <1>1, <1>3, <2>1, StoreUntouched DEF TypeOK, Bounds
  <2> QED BY <2>3, <2>4 DEF IInv
<1>8. CASE Reload(r)
  <2>1. /\ pc[r] = "conflict"
        /\ Exists
        /\ Run(r, change[r], Latest, Len(revs), attempt[r])
        /\ UNCHANGED <<revs, watch, acked, spent>>
    BY <1>8 DEF Reload
  <2>2. /\ change[r] \in Changes
        /\ attempt[r] \in Nat
        /\ Latest \in Documents
        /\ Latest = revs[Len(revs)]
        /\ Latest # Gone
        /\ Len(revs) \in 1 .. Len(revs)
    BY <1>1, <2>1, LatestIsDocument DEF InHand, TypeOK, Exists
  <2>3. /\ version'[r] = Len(revs)
        /\ Latest.edits \subseteq copy'[r].edits
        /\ pc'[r] = "saving" =>
              change'[r] = change[r] /\ NumbersOf(change[r]) \subseteq copy'[r].edits
        /\ \A q \in Replicas \ {r} :
              /\ pc'[q] = pc[q]
              /\ copy'[q] = copy[q]
              /\ version'[q] = version[q]
              /\ change'[q] = change[q]
    BY <1>1, <2>1, <2>2, RunType
  <2>4. CopiesCover' /\ SavingHolds'
    BY <1>1, <2>1, <2>2, <2>3, OthersKeep
  <2>5. NoLostUpdate' /\ AckedDurable'
    BY <1>1, <1>3, <2>1, StoreUntouched DEF TypeOK, Bounds
  <2> QED BY <2>4, <2>5 DEF IInv
<1> QED BY <1>4, <1>5, <1>6, <1>7, <1>8 DEF Mutate

LEMMA LifecycleKeeps ==
  ASSUME IInv, TypeInv', NEW r \in Replicas, Lifecycle(r)
  PROVE  IInv'
<1>1. TypeOK /\ InHand /\ Len(revs) \in Nat
  BY DEF IInv, TypeInv, TypeOK
<1>2. pc[r] \notin {"down", "creating"} =>
         /\ version[r] \in 1 .. Len(revs)
         /\ revs[version[r]] # Gone
         /\ revs[version[r]].edits \subseteq copy[r].edits
  BY DEF IInv, CopiesCover
<1>3. spent'["deletions"] = spent["deletions"]
  BY <1>1, SpendOther DEF Lifecycle, Open, Create, Seed, Crash
<1>4. spent["deletions"] \in Nat
  BY <1>1 DEF TypeOK, Bounds
<1>5. CASE Open(r)
  <2>1. UNCHANGED <<revs, change, attempt, watch, acked>>
    BY <1>5 DEF Open
  <2>2. /\ copy'[r] = IF Exists THEN Latest ELSE Empty
        /\ version'[r] = Current
        /\ pc'[r] = IF Exists THEN "starting" ELSE "creating"
        /\ \A q \in Replicas \ {r} :
              /\ pc'[q] = pc[q]
              /\ copy'[q] = copy[q]
              /\ version'[q] = version[q]
    BY <1>1, <1>5 DEF Open, TypeOK
  <2>3. pc'[r] # "creating" =>
           /\ version'[r] \in 1 .. Len(revs)
           /\ revs[version'[r]] # Gone
           /\ revs[version'[r]].edits \subseteq copy'[r].edits
    BY <1>1, <2>2, LatestIsDocument DEF Exists, Latest
  <2>4. CopiesCover' /\ SavingHolds'
    BY <1>1, <2>1, <2>2, <2>3, OthersKeep
  <2>5. NoLostUpdate' /\ AckedDurable'
    BY <1>3, <1>4, <2>1, StoreUntouched
  <2> QED BY <2>4, <2>5 DEF IInv
<1>6. CASE Create(r)
  <2>1. CASE Exists
    <3>1. /\ UNCHANGED <<revs, version, copy, change, acked>>
          /\ pc'[r] = "down"
          /\ \A q \in Replicas \ {r} : pc'[q] = pc[q]
      BY <1>1, <1>6, <2>1 DEF Create, TypeOK
    <3>2. CopiesCover' /\ SavingHolds'
      BY <1>1, <3>1, OthersKeep
    <3>3. NoLostUpdate' /\ AckedDurable'
      BY <1>3, <1>4, <3>1, StoreUntouched
    <3> QED BY <3>2, <3>3 DEF IInv
  <2>2. CASE ~Exists
    <3>1. /\ revs' = Append(revs, copy[r])
          /\ version' = [version EXCEPT ![r] = Len(revs')]
          /\ pc' = [pc EXCEPT ![r] = "starting"]
          /\ UNCHANGED <<copy, change, acked>>
      BY <1>6, <2>2 DEF Create
    <3>2. /\ Len(revs') = Len(revs) + 1
          /\ revs'[Len(revs')] = copy[r]
          /\ \A i \in 1 .. Len(revs) : revs'[i] = revs[i]
      BY <1>1, <3>1, AppendType
    <3>3. copy[r] # Gone
      BY <1>1, MarkersAreNotValues DEF TypeOK
    <3>4. /\ version'[r] = Len(revs')
          /\ pc'[r] = "starting"
          /\ \A q \in Replicas \ {r} : version'[q] = version[q] /\ pc'[q] = pc[q]
      BY <1>1, <3>1 DEF TypeOK
    <3>5. CopiesCover' /\ SavingHolds'
      BY <1>1, <3>1, <3>2, <3>3, <3>4, OthersKeep
    <3>6. NoLostUpdate'
      BY <1>1, <2>2, <3>1, <3>2, CreatedAfterNothing
    <3>7. AckedDurable'
      BY <1>3, <2>2, <3>1 DEF IInv, AckedDurable
    <3> QED BY <3>5, <3>6, <3>7 DEF IInv
  <2> QED BY <2>1, <2>2
<1>7. CASE Seed(r)
  <2>1. /\ pc[r] = "starting"
        /\ Run(r, Seeding, copy[r], version[r], 0)
        /\ UNCHANGED <<revs, watch, acked, spent>>
    BY <1>7 DEF Seed
  <2>2. Seeding \in Changes /\ copy[r] \in Documents /\ version[r] \in Nat /\ 0 \in Nat
    BY <1>1 DEF Seeding, Changes, TypeOK
  <2>3. /\ version'[r] = version[r]
        /\ copy[r].edits \subseteq copy'[r].edits
        /\ pc'[r] = "saving" =>
              change'[r] = Seeding /\ NumbersOf(Seeding) \subseteq copy'[r].edits
        /\ \A q \in Replicas \ {r} :
              /\ pc'[q] = pc[q]
              /\ copy'[q] = copy[q]
              /\ version'[q] = version[q]
              /\ change'[q] = change[q]
    BY <1>1, <2>1, <2>2, RunType
  <2>4. CopiesCover' /\ SavingHolds'
    BY <1>1, <1>2, <2>1, <2>3, OthersKeep
  <2>5. NoLostUpdate' /\ AckedDurable'
    BY <1>3, <1>4, <2>1, StoreUntouched
  <2> QED BY <2>4, <2>5 DEF IInv
<1>8. CASE Crash(r)
  <2>1. /\ UNCHANGED <<revs, acked>>
        /\ pc'[r] = "down"
        /\ \A q \in Replicas \ {r} :
              /\ pc'[q] = pc[q]
              /\ copy'[q] = copy[q]
              /\ version'[q] = version[q]
              /\ change'[q] = change[q]
    BY <1>1, <1>8 DEF Crash, TypeOK
  <2>2. CopiesCover' /\ SavingHolds'
    BY <1>1, <2>1, OthersKeep
  <2>3. NoLostUpdate' /\ AckedDurable'
    BY <1>3, <1>4, <2>1, StoreUntouched
  <2> QED BY <2>2, <2>3 DEF IInv
<1> QED BY <1>5, <1>6, <1>7, <1>8 DEF Lifecycle

LEMMA WatchingKeeps ==
  ASSUME IInv, TypeInv', NEW r \in Replicas, Watching(r)
  PROVE  IInv'
<1>1. TypeOK /\ InHand /\ Len(revs) \in Nat
  BY DEF IInv, TypeInv, TypeOK
<1>2. pc[r] \notin {"down", "creating"} =>
         /\ version[r] \in 1 .. Len(revs)
         /\ revs[version[r]] # Gone
         /\ revs[version[r]].edits \subseteq copy[r].edits
  BY DEF IInv, CopiesCover
<1>3. spent'["deletions"] = spent["deletions"]
  BY <1>1, SpendOther DEF Watching, WatchStarts, WatchDrops, Deliver
<1>4. spent["deletions"] \in Nat
  BY <1>1 DEF TypeOK, Bounds
<1>5. UNCHANGED <<revs, pc, change, acked>>
  BY DEF Watching, WatchStarts, WatchDrops, Deliver
<1>6. /\ pc[r] \notin {"down", "creating"} =>
            /\ version'[r] \in 1 .. Len(revs)
            /\ revs[version'[r]] # Gone
            /\ revs[version'[r]].edits \subseteq copy'[r].edits
      /\ pc[r] = "saving" => copy' = copy
      /\ \A q \in Replicas \ {r} : copy'[q] = copy[q] /\ version'[q] = version[q]
  <2>1. CASE UNCHANGED <<copy, version>>
    BY <1>2, <2>1
  <2>2. CASE ~UNCHANGED <<copy, version>>
    <3>1. Deliver(r)
      BY <2>2 DEF Watching, WatchStarts, WatchDrops
    <3>2. /\ pc[r] = "idle"
          /\ watch[r] \in 1 .. Len(revs)
          /\ revs[watch[r]] # Gone
          /\ copy' = [copy EXCEPT ![r] = revs[watch[r]]]
          /\ version' = [version EXCEPT ![r] = watch[r]]
      BY <2>2, <3>1 DEF Deliver
    <3> QED BY <1>1, <3>2 DEF TypeOK
  <2> QED BY <2>1, <2>2
<1>7. pc[r] = "saving" => NumbersOf(change[r]) \subseteq copy[r].edits
  BY DEF IInv, SavingHolds
<1>8. CopiesCover' /\ SavingHolds'
  BY <1>1, <1>5, <1>6, <1>7, OthersKeep
<1>9. NoLostUpdate' /\ AckedDurable'
  BY <1>3, <1>4, <1>5, StoreUntouched
<1> QED BY <1>8, <1>9 DEF IInv

LEMMA DeleteKeeps ==
  ASSUME IInv, TypeInv', Delete
  PROVE  IInv'
<1>1. TypeOK /\ Len(revs) \in Nat /\ "deletions" \in Bounds
  BY DEF IInv, TypeInv, TypeOK, Bounds
<1>2. /\ revs' = Append(revs, Gone)
      /\ Spend("deletions")
      /\ UNCHANGED <<pc, copy, version, change, attempt, watch, acked>>
  BY DEF Delete
<1>3. /\ Len(revs') = Len(revs) + 1
      /\ revs'[Len(revs')] = Gone
      /\ \A i \in 1 .. Len(revs) : revs'[i] = revs[i]
  BY <1>1, <1>2 DEF TypeOK
<1>4. NoLostUpdate'
  <2> SUFFICES ASSUME NEW i \in 1 .. Len(revs') - 1,
                      revs'[i] # Gone, revs'[i + 1] # Gone
               PROVE  revs'[i].edits \subseteq revs'[i + 1].edits
    BY DEF NoLostUpdate
  <2>1. i \in 1 .. Len(revs) - 1 /\ i \in 1 .. Len(revs) /\ i + 1 \in 1 .. Len(revs)
    BY <1>1, <1>3
  <2>2. revs'[i] = revs[i] /\ revs'[i + 1] = revs[i + 1]
    BY <1>3, <2>1
  <2> QED BY <2>1, <2>2 DEF IInv, NoLostUpdate
<1>5. AckedDurable'
  <2>1. spent["deletions"] \in Nat /\ spent'["deletions"] = spent["deletions"] + 1
    BY <1>1, <1>2, SpendType DEF TypeOK
  <2>2. spent'["deletions"] # 0
    BY <2>1
  <2> QED BY <2>2 DEF AckedDurable
<1>6. CopiesCover'
  BY <1>1, <1>2, <1>3 DEF IInv, CopiesCover
<1>7. SavingHolds'
  BY <1>2 DEF IInv, SavingHolds
<1> QED BY <1>4, <1>5, <1>6, <1>7 DEF IInv

LEMMA Invariance == Spec => []IInv
<1>1. Init => IInv
  <2> SUFFICES ASSUME Init
               PROVE  IInv
    OBVIOUS
  <2>1. TypeInv
    BY EmptyIsDocument DEF Init, TypeInv, TypeOK, InHand, Bounds
  <2>2. NoLostUpdate /\ AckedDurable
    BY DEF Init, NoLostUpdate, AckedDurable
  <2>3. CopiesCover /\ SavingHolds
    BY DEF Init, CopiesCover, SavingHolds
  <2> QED BY <2>1, <2>2, <2>3 DEF IInv
<1>2. IInv /\ TypeInv' /\ [Next]_vars => IInv'
  <2> SUFFICES ASSUME IInv, TypeInv', [Next]_vars
               PROVE  IInv'
    OBVIOUS
  <2>1. CASE UNCHANGED vars
    BY <2>1 DEF vars, IInv, NoLostUpdate, AckedDurable, CopiesCover, SavingHolds, Exists, Latest
  <2>2. CASE Next
    BY <2>2, MutateKeeps, LifecycleKeeps, WatchingKeeps, DeleteKeeps DEF Next
  <2> QED BY <2>1, <2>2
<1> QED BY <1>1, <1>2, TypeInvariance, PTL DEF Spec

\* No write undoes another, between any number of replicas, crashes, lost
\* answers and deletions: a save is accepted only over the revision whose
\* changes its copy has (store.go, mutate and its reload on a conflict).
THEOREM NoUpdateIsLost == Spec => []NoLostUpdate
<1>1. IInv => NoLostUpdate
  BY DEF IInv
<1> QED BY <1>1, Invariance, PTL

\* While nobody deletes the Secret, an acknowledged change is in the stored
\* model for good (store.go, mutate returns nil only after Save did).
THEOREM AcknowledgedStays == Spec => []AckedDurable
<1>1. IInv => AckedDurable
  BY DEF IInv
<1> QED BY <1>1, Invariance, PTL

-----------------------------------------------------------------------------
(* Batches of changes. *)

ChangesToMake == Calls \cup {SeedEdit}

\* The models that m becomes as the changes of a batch are applied.
AreThrough(models, m, n, batch) ==
    models = [i \in 0 .. n |-> IF i = 0 THEN m ELSE Shared!After(models[i - 1], batch[i])]

\* Some batch of n changes makes t of m.
Leads(m, n, t) ==
    \E batch \in [1 .. n -> ChangesToMake], models \in [0 .. n -> Models] :
        AreThrough(models, m, n, batch) /\ models[n] = t

\* There is one such sequence of models, the one SharedModel has.
LEMMA OneWayThrough ==
  ASSUME NEW m, NEW n \in Nat, NEW batch \in [1 .. n -> ChangesToMake],
         NEW models, AreThrough(models, m, n, batch)
  PROVE  Shared!Through(m, batch) = models
<1> DEFINE P(h) == AreThrough(h, m, n, batch)
           after == Shared!Through(m, batch)
           bad == {i \in 0 .. n : after[i] # models[i]}
<1>1. Len(batch) = n
  OBVIOUS
<1>2. after = CHOOSE h : P(h)
  BY <1>1 DEF Shared!Through, AreThrough
<1>3. P(CHOOSE h : P(h))
  <2>1. P(models)
    OBVIOUS
  <2> HIDE DEF P
  <2> QED BY <2>1
<1>4. after = [i \in 0 .. n |-> IF i = 0 THEN m ELSE Shared!After(after[i - 1], batch[i])]
  BY <1>2, <1>3 DEF AreThrough
<1>5. models = [i \in 0 .. n |-> IF i = 0 THEN m ELSE Shared!After(models[i - 1], batch[i])]
  BY DEF AreThrough
<1> HIDE DEF after
<1>6. CASE bad = {}
  <2>1. \A i \in 0 .. n : after[i] = models[i]
    BY <1>6
  <2>2. after = models
    BY <1>4, <1>5, <2>1
  <2> QED BY <2>2 DEF after
<1>7. CASE bad # {}
  <2>1. bad \in SUBSET Nat
    OBVIOUS
  <2>2. PICK x \in bad : \A y \in bad : ~(y < x)
    <3> HIDE DEF bad
    <3> QED BY <1>7, <2>1, Least
  <2>3. x # 0
    BY <1>4, <1>5
  <2>4. x - 1 \in 0 .. n /\ x - 1 < x
    BY <2>3
  <2>5. x - 1 \notin bad
    BY <2>2, <2>4
  <2> QED BY <1>4, <1>5, <2>3, <2>4, <2>5
<1> QED BY <1>6, <1>7

LEMMA LeadsPublished ==
  ASSUME NEW m, NEW n \in Nat, NEW t, Leads(m, n, t)
  PROVE  \E batch \in [1 .. n -> ChangesToMake] : t = Shared!Through(m, batch)[n]
  BY OneWayThrough DEF Leads

LEMMA LeadsNowhere ==
  ASSUME NEW m \in Models
  PROVE  Leads(m, 0, m)
<1> DEFINE models == [i \in 0 .. 0 |-> m]
           batch == [i \in 1 .. 0 |-> SeedEdit]
<1>1. batch \in [1 .. 0 -> ChangesToMake] /\ models \in [0 .. 0 -> Models] /\ models[0] = m
  BY DEF ChangesToMake
<1>2. AreThrough(models, m, 0, batch)
  BY DEF AreThrough
<1> QED BY <1>1, <1>2 DEF Leads

LEMMA ChangesAreEdits ==
  /\ ChangesToMake \subseteq Edits
  /\ \A c \in Changes : c.edit \in ChangesToMake
<1>1. SeedEdit \in Edits
  BY DEF SeedEdit, Edits
<1> QED BY <1>1, CallsAreEdits DEF ChangesToMake, Changes

\* SharedModel's instance has the operators of AccessModel under names of its own.
LEMMA SameOutcome ==
  ASSUME NEW e, NEW m
  PROVE  Shared!Outcome(e, m) = Outcome(e, m)
  BY DEF Outcome, RecordSeen, CreateLocalUser, Invite, SetPassword, SetRoles, DeleteUser,
         SeedRoles, SaveRole, DeleteRole, ChangeRoleMembership, LockUntil, Unlock,
         Restore, Write, NoChange, Refused, PutUser, OnRecord, Invited, Moved, WithRole,
         Defined, DefinedRoles, Shared!Outcome, Shared!RecordSeen,
         Shared!CreateLocalUser, Shared!Invite, Shared!SetPassword, Shared!SetRoles,
         Shared!DeleteUser, Shared!SeedRoles, Shared!SaveRole, Shared!DeleteRole,
         Shared!ChangeRoleMembership, Shared!LockUntil, Shared!Unlock, Shared!Restore,
         Shared!Write, Shared!NoChange, Shared!Refused, Shared!PutUser, Shared!OnRecord,
         Shared!Invited, Shared!Moved, Shared!WithRole, Shared!Defined,
         Shared!DefinedRoles

LEMMA LeadsFurther ==
  ASSUME NEW m, NEW n \in Nat, NEW t, Leads(m, n, t), NEW e \in ChangesToMake
  PROVE  Leads(m, n + 1, Outcome(e, t).model)
<1>1. PICK batch \in [1 .. n -> ChangesToMake], models \in [0 .. n -> Models] :
         AreThrough(models, m, n, batch) /\ models[n] = t
  BY DEF Leads
<1> DEFINE next == Outcome(e, t).model
           more == [i \in 1 .. (n + 1) |-> IF i = n + 1 THEN e ELSE batch[i]]
           further == [i \in 0 .. (n + 1) |-> IF i = n + 1 THEN next ELSE models[i]]
<1>2. next \in Models
  BY <1>1, ChangesAreEdits, OutcomeIsModel DEF IsOutcome
<1> HIDE DEF next
<1>3. more \in [1 .. (n + 1) -> ChangesToMake] /\ further \in [0 .. (n + 1) -> Models]
  BY <1>2
<1>4. ASSUME NEW i \in 0 .. (n + 1)
      PROVE  further[i] = IF i = 0 THEN m ELSE Shared!After(further[i - 1], more[i])
  <2>1. CASE i = n + 1
    <3>1. further[n + 1] = next
      OBVIOUS
    <3>2. n \in 0 .. (n + 1) /\ n # n + 1
      OBVIOUS
    <3>3. further[n] = models[n]
      BY <3>2
    <3>4. further[n] = t
      BY <1>1, <3>3
    <3>5. more[n + 1] = e
      OBVIOUS
    <3>6. next = Shared!After(t, e)
      BY SameOutcome DEF next, Shared!After
    <3>7. i - 1 = n /\ i # 0
      BY <2>1
    <3> HIDE DEF further, more
    <3>8. further[i] = next /\ more[i] = e
      BY <2>1, <3>1, <3>5
    <3>9. further[i - 1] = t
      BY <3>4, <3>7
    <3> QED BY <3>6, <3>7, <3>8, <3>9
  <2>2. CASE i # n + 1
    <3>1. i \in 0 .. n /\ further[i] = models[i]
      BY <2>2
    <3>2. CASE i = 0
      BY <1>1, <3>1, <3>2 DEF AreThrough
    <3>3. CASE i # 0
      <4>1. further[i - 1] = models[i - 1] /\ more[i] = batch[i] /\ i - 1 \in 0 .. n
        BY <3>1, <3>3
      <4>2. models[i] = Shared!After(models[i - 1], batch[i])
        BY <1>1, <3>1, <3>3 DEF AreThrough
      <4> QED BY <3>1, <3>3, <4>1, <4>2
    <3> QED BY <3>2, <3>3
  <2> QED BY <2>1, <2>2
<1>5. AreThrough(further, m, n + 1, more)
  <2> HIDE DEF more
  <2>1. further = [i \in 0 .. (n + 1) |-> further[i]]
    OBVIOUS
  <2> HIDE DEF further
  <2> QED BY <1>4, <2>1 DEF AreThrough
<1>6. further[n + 1] = next
  OBVIOUS
<1> HIDE DEF more, further
<1> QED BY <1>3, <1>5, <1>6 DEF Leads, next

-----------------------------------------------------------------------------
(* A copy is its version's model with a batch of changes made to it.  Which *)
(* changes went into a document is told by their numbers, each used once.   *)

NumbersAreSpent ==
    /\ spent["edits"] <= MaxEdits
    /\ \A i \in 1 .. Len(revs) : revs[i] # Gone => revs[i].edits \subseteq 1 .. spent["edits"]
    /\ \A r \in Replicas : copy[r].edits \subseteq 1 .. spent["edits"]

Changing(r) == pc[r] \in {"saving", "conflict"} /\ change[r] # Seeding
SeedingNow(r) == pc[r] \in {"saving", "conflict"} /\ change[r] = Seeding

\* A change in progress is in this replica's copy and nowhere else.
PendingIsNew(r) ==
    /\ change[r].id \in copy[r].edits
    /\ \A i \in 1 .. Len(revs) : revs[i] # Gone => change[r].id \notin revs[i].edits
    /\ \A q \in Replicas \ {r} : change[r].id \notin copy[q].edits

FromItsVersion(r) ==
    LET base == revs[version[r]] IN
    /\ pc[r] = "creating" => copy[r] = Empty
    /\ pc[r] = "starting" => copy[r] = base
    /\ pc[r] = "idle" /\ base.edits = copy[r].edits => base.model = copy[r].model
    /\ pc[r] = "idle" \/ Changing(r) =>
           \E n \in 0 .. spent["edits"] : Leads(base.model, n, copy[r].model)
    /\ SeedingNow(r) =>
           DefinedRoles(base.model) = {} /\ Leads(base.model, 1, copy[r].model)
    /\ Changing(r) => PendingIsNew(r)

HistoryInv == NumbersAreSpent /\ \A r \in Replicas : FromItsVersion(r)

LEMMA Basics ==
  ASSUME IInv
  PROVE  /\ TypeOK /\ InHand
         /\ Len(revs) \in Nat
         /\ spent["edits"] \in Nat
         /\ \A r \in Replicas :
               /\ copy[r] \in Documents /\ copy[r] # Gone
               /\ copy[r].model \in Models
               /\ pc[r] \notin {"down", "creating"} =>
                     /\ version[r] \in 1 .. Len(revs)
                     /\ revs[version[r]] # Gone
                     /\ revs[version[r]] \in Documents
                     /\ revs[version[r]].model \in Models
                     /\ revs[version[r]].edits \subseteq copy[r].edits
<1>1. TypeOK /\ InHand /\ CopiesCover
  BY DEF IInv, TypeInv
<1>2. Len(revs) \in Nat /\ spent["edits"] \in Nat
  BY <1>1 DEF TypeOK, Bounds
<1>3. ASSUME NEW r \in Replicas
      PROVE  copy[r] \in Documents /\ copy[r] # Gone /\ copy[r].model \in Models
  BY <1>1, MarkersAreNotValues DEF TypeOK, Documents
<1>4. ASSUME NEW r \in Replicas, pc[r] \notin {"down", "creating"}
      PROVE  /\ version[r] \in 1 .. Len(revs)
             /\ revs[version[r]] # Gone
             /\ revs[version[r]] \in Documents
             /\ revs[version[r]].model \in Models
             /\ revs[version[r]].edits \subseteq copy[r].edits
  <2>1. /\ version[r] \in 1 .. Len(revs)
        /\ revs[version[r]] # Gone
        /\ revs[version[r]].edits \subseteq copy[r].edits
    BY <1>1, <1>4 DEF CopiesCover
  <2>2. revs[version[r]] \in Documents
    BY <1>1, <2>1 DEF TypeOK
  <2> QED BY <2>1, <2>2 DEF Documents
<1> QED BY <1>1, <1>2, <1>3, <1>4

LEMMA SeedingWrites ==
  ASSUME NEW m, Outcome(SeedEdit, m).result = "write"
  PROVE  DefinedRoles(m) = {}
<1>1. Outcome(SeedEdit, m) = SeedRoles(m)
  BY DEF Outcome, SeedEdit
<1> QED BY <1>1 DEF SeedRoles, NoChange

\* What Run leaves, model and all.
LEMMA RunResult ==
  ASSUME TypeOK, NEW r \in Replicas, NEW c \in Changes, NEW d \in Documents,
         NEW v \in Nat, NEW n \in Nat, Run(r, c, d, v, n)
  PROVE  \/ /\ Outcome(c.edit, d.model).result = "write"
            /\ pc'[r] = "saving"
            /\ change'[r] = c
            /\ copy'[r].model = Outcome(c.edit, d.model).model
            /\ copy'[r].edits = d.edits \cup NumbersOf(c)
         \/ pc'[r] = "idle" /\ copy'[r] = d
<1> DEFINE out == Outcome(c.edit, d.model)
<1>1. CASE out.result = "write"
  BY <1>1 DEF Run, TypeOK
<1>2. CASE out.result # "write"
  BY <1>2 DEF Run, TypeOK
<1> QED BY <1>1, <1>2

\* A step of one replica, as seen by the others: what it writes are changes of
\* its own copy, and what it comes to hold is its own, new, or published.
LEMMA HistoryStep ==
  ASSUME IInv, IInv', HistoryInv, NEW r \in Replicas,
         \A q \in Replicas \ {r} :
            /\ pc'[q] = pc[q]
            /\ copy'[q] = copy[q]
            /\ version'[q] = version[q]
            /\ change'[q] = change[q],
         spent["edits"] <= spent'["edits"],
         spent'["edits"] <= MaxEdits,
         Len(revs) <= Len(revs'),
         \A i \in 1 .. Len(revs) : revs'[i] = revs[i],
         \A i \in Len(revs) + 1 .. Len(revs') :
            revs'[i] # Gone => revs'[i].edits \subseteq copy[r].edits,
         \A x \in copy'[r].edits :
            \/ x \in copy[r].edits
            \/ x \in spent["edits"] + 1 .. spent'["edits"]
            \/ \E i \in 1 .. Len(revs) : revs[i] # Gone /\ x \in revs[i].edits,
         FromItsVersion(r)'
  PROVE  HistoryInv'
<1>1. /\ Len(revs) \in Nat /\ Len(revs') \in Nat
      /\ spent["edits"] \in Nat /\ spent'["edits"] \in Nat
  BY Basics DEF IInv, TypeInv, TypeOK, Bounds
<1>2. NumbersAreSpent
  BY DEF HistoryInv
<1>3. NumbersAreSpent'
  <2>1. ASSUME NEW i \in 1 .. Len(revs'), revs'[i] # Gone
        PROVE  revs'[i].edits \subseteq 1 .. spent'["edits"]
    <3>1. CASE i \in 1 .. Len(revs)
      BY <1>1, <1>2, <2>1, <3>1 DEF NumbersAreSpent
    <3>2. CASE i \in Len(revs) + 1 .. Len(revs')
      <4>1. revs'[i].edits \subseteq copy[r].edits
        BY <2>1, <3>2
      <4>2. copy[r].edits \subseteq 1 .. spent["edits"]
        BY <1>2 DEF NumbersAreSpent
      <4> QED BY <1>1, <4>1, <4>2
    <3> QED BY <1>1, <3>1, <3>2
  <2>2. ASSUME NEW q \in Replicas, NEW x \in copy'[q].edits
        PROVE  x \in 1 .. spent'["edits"]
    <3>1. CASE q = r
      <4>1. CASE x \in copy[r].edits
        BY <1>1, <1>2, <4>1 DEF NumbersAreSpent
      <4>2. CASE x \in spent["edits"] + 1 .. spent'["edits"]
        BY <1>1, <4>2
      <4>3. CASE \E i \in 1 .. Len(revs) : revs[i] # Gone /\ x \in revs[i].edits
        BY <1>1, <1>2, <4>3 DEF NumbersAreSpent
      <4> QED BY <2>2, <3>1, <4>1, <4>2, <4>3
    <3>2. CASE q # r
      <4>1. x \in copy[q].edits
        BY <2>2, <3>2
      <4> QED BY <1>1, <1>2, <4>1 DEF NumbersAreSpent
    <3> QED BY <3>1, <3>2
  <2> QED BY <2>1, <2>2 DEF NumbersAreSpent
<1>4. ASSUME NEW q \in Replicas \ {r}
      PROVE  FromItsVersion(q)'
  <2>1. FromItsVersion(q)
    BY DEF HistoryInv
  <2>2. pc'[q] = pc[q] /\ copy'[q] = copy[q] /\ version'[q] = version[q] /\ change'[q] = change[q]
    OBVIOUS
  <2>3. pc[q] \notin {"down", "creating"} => revs'[version'[q]] = revs[version[q]]
    BY <2>2, Basics
  <2>4. \A n \in 0 .. spent["edits"] : n \in 0 .. spent'["edits"]
    BY <1>1
  <2>5. Changing(q) = Changing(q)' /\ SeedingNow(q) = SeedingNow(q)'
    BY <2>2 DEF Changing, SeedingNow, Seeding
  <2>6. ASSUME Changing(q)
        PROVE  PendingIsNew(q)'
    <3>1. PendingIsNew(q)
      BY <2>1, <2>6 DEF FromItsVersion
    <3>2. change[q].id \in 1 .. spent["edits"]
      BY <1>2, <3>1 DEF PendingIsNew, NumbersAreSpent
    <3>3. ASSUME NEW i \in 1 .. Len(revs'), revs'[i] # Gone
          PROVE  change[q].id \notin revs'[i].edits
      <4>1. CASE i \in 1 .. Len(revs)
        BY <3>1, <3>3, <4>1 DEF PendingIsNew
      <4>2. CASE i \in Len(revs) + 1 .. Len(revs')
        <5>1. revs'[i].edits \subseteq copy[r].edits
          BY <3>3, <4>2
        <5> QED BY <3>1, <5>1 DEF PendingIsNew
      <4> QED BY <1>1, <4>1, <4>2
    <3>4. ASSUME NEW p \in Replicas \ {q}
          PROVE  change[q].id \notin copy'[p].edits
      <4>1. CASE p = r
        <5>1. change[q].id \notin copy[r].edits
          BY <3>1 DEF PendingIsNew
        <5>2. change[q].id \notin spent["edits"] + 1 .. spent'["edits"]
          BY <1>1, <3>2
        <5>3. ~ \E i \in 1 .. Len(revs) : revs[i] # Gone /\ change[q].id \in revs[i].edits
          BY <3>1 DEF PendingIsNew
        <5> QED BY <4>1, <5>1, <5>2, <5>3
      <4>2. CASE p # r
        BY <3>1, <4>2 DEF PendingIsNew
      <4> QED BY <4>1, <4>2
    <3>5. change'[q].id \in copy'[q].edits
      BY <2>2, <3>1 DEF PendingIsNew
    <3> QED BY <2>2, <3>3, <3>4, <3>5 DEF PendingIsNew
  <2>7. Changing(q) \/ SeedingNow(q) => pc[q] \notin {"down", "creating"}
    BY DEF Changing, SeedingNow
  <2> QED BY <2>1, <2>2, <2>3, <2>4, <2>5, <2>6, <2>7 DEF FromItsVersion
<1> QED BY <1>3, <1>4 DEF HistoryInv

LEMMA SpendsNoEdit ==
  ASSUME TypeOK,
         UNCHANGED spent \/ Spend("faults") \/ Spend("drops") \/ Spend("starts") \/ Spend("deletions")
  PROVE  spent'["edits"] = spent["edits"]
  BY DEF TypeOK, Spend, Bounds

\* A replica whose copy is a stored revision, whole.
LEMMA AtItsVersion ==
  ASSUME IInv', NEW r \in Replicas, pc'[r] \in {"starting", "idle"},
         copy'[r] = revs'[version'[r]]
  PROVE  FromItsVersion(r)'
<1>1. copy'[r].model \in Models /\ spent'["edits"] \in Nat
  BY DEF IInv, TypeInv, TypeOK, Documents, Bounds
<1>2. Leads(copy'[r].model, 0, copy'[r].model) /\ 0 \in 0 .. spent'["edits"]
  BY <1>1, LeadsNowhere
<1> QED BY <1>2 DEF FromItsVersion, Changing, SeedingNow

\* A change given up: the copy keeps it, the version stays.
LEMMA GivenUp ==
  ASSUME IInv, IInv', HistoryInv, NEW r \in Replicas, pc[r] \in {"saving", "conflict"},
         Release(r, FALSE), UNCHANGED <<copy, version>>,
         spent'["edits"] = spent["edits"],
         \A i \in 1 .. Len(revs) : revs'[i] = revs[i]
  PROVE  FromItsVersion(r)'
<1>1. /\ version[r] \in 1 .. Len(revs)
      /\ revs[version[r]] # Gone
      /\ pc \in [Replicas -> {"down", "creating", "starting", "idle", "saving", "conflict"}]
  BY Basics DEF TypeOK
<1>2. CASE change[r] = Seeding
  <2>1. pc'[r] = "down"
    BY <1>1, <1>2 DEF Release
  <2> QED BY <2>1 DEF FromItsVersion, Changing, SeedingNow
<1>3. CASE change[r] # Seeding
  <2>1. pc'[r] = "idle"
    BY <1>1, <1>3 DEF Release
  <2>2. Changing(r) /\ FromItsVersion(r)
    BY <1>3 DEF Changing, HistoryInv
  <2>3. revs[version[r]].edits # copy[r].edits
    BY <1>1, <2>2 DEF FromItsVersion, PendingIsNew
  <2>4. revs'[version'[r]] = revs[version[r]] /\ copy' = copy
    BY <1>1
  <2>5. \E n \in 0 .. spent["edits"] : Leads(revs[version[r]].model, n, copy[r].model)
    BY <2>2 DEF FromItsVersion
  <2> QED BY <2>1, <2>3, <2>4, <2>5 DEF FromItsVersion, Changing, SeedingNow
<1> QED BY <1>2, <1>3

LEMMA BeginHistory ==
  ASSUME IInv, IInv', HistoryInv, NEW r \in Replicas, NEW e \in Calls, Begin(r, e)
  PROVE  HistoryInv'
<1> DEFINE c == [edit |-> e, id |-> spent'["edits"]]
           base == revs[version[r]]
<1>1. /\ Run(r, c, copy[r], version[r], 0)
      /\ pc[r] = "idle"
      /\ Spend("edits")
      /\ UNCHANGED <<revs, watch, acked>>
  BY DEF Begin
<1>2. /\ TypeOK
      /\ copy[r] \in Documents
      /\ copy[r].model \in Models
      /\ version[r] \in 1 .. Len(revs)
      /\ spent["edits"] \in Nat
      /\ Len(revs) \in Nat
      /\ version[r] \in Nat
      /\ 0 \in Nat
  BY <1>1, Basics DEF TypeOK
<1>3. /\ spent'["edits"] = spent["edits"] + 1
      /\ spent'["edits"] \in 1 .. MaxEdits
  BY <1>1, <1>2, BeginNumber, SpendType DEF Bounds
<1>4. c \in Changes /\ c.edit = e /\ c.id = spent'["edits"] /\ c # Seeding
  BY <1>3 DEF Changes, Seeding
<1>5. NumbersOf(c) = {spent'["edits"]}
  BY <1>3, <1>4 DEF NumbersOf
<1>6. /\ version'[r] = version[r]
      /\ \A q \in Replicas \ {r} :
            /\ pc'[q] = pc[q]
            /\ copy'[q] = copy[q]
            /\ version'[q] = version[q]
            /\ change'[q] = change[q]
  <2> HIDE DEF c
  <2> QED BY <1>1, <1>2, <1>4, RunType
<1>7. \/ /\ pc'[r] = "saving"
         /\ change'[r] = c
         /\ copy'[r].model = Outcome(e, copy[r].model).model
         /\ copy'[r].edits = copy[r].edits \cup {spent'["edits"]}
      \/ pc'[r] = "idle" /\ copy'[r] = copy[r]
  <2> HIDE DEF c
  <2> QED BY <1>1, <1>2, <1>4, <1>5, RunResult
<1> HIDE DEF c
<1>8. FromItsVersion(r) /\ NumbersAreSpent
  BY DEF HistoryInv
<1>9. PICK n \in 0 .. spent["edits"] : Leads(base.model, n, copy[r].model)
  BY <1>1, <1>8 DEF FromItsVersion
<1>10. FromItsVersion(r)'
  <2>1. revs'[version'[r]] = base
    BY <1>1, <1>6
  <2>2. CASE pc'[r] = "idle" /\ copy'[r] = copy[r]
    <3>1. n \in 0 .. spent'["edits"]
      BY <1>2, <1>3
    <3>2. base.edits = copy[r].edits => base.model = copy[r].model
      BY <1>1, <1>8 DEF FromItsVersion
    <3> QED BY <1>9, <2>1, <2>2, <3>1, <3>2 DEF FromItsVersion, Changing, SeedingNow
  <2>3. CASE /\ pc'[r] = "saving"
             /\ change'[r] = c
             /\ copy'[r].model = Outcome(e, copy[r].model).model
             /\ copy'[r].edits = copy[r].edits \cup {spent'["edits"]}
    <3>1. n \in Nat /\ n + 1 \in 0 .. spent'["edits"] /\ e \in ChangesToMake
      BY <1>2, <1>3 DEF ChangesToMake
    <3>2. Leads(base.model, n + 1, copy'[r].model)
      BY <1>9, <2>3, <3>1, LeadsFurther
    <3>3. PendingIsNew(r)'
      <4>1. spent'["edits"] \notin 1 .. spent["edits"]
        BY <1>2, <1>3
      <4>2. \A q \in Replicas \ {r} : copy'[q].edits \subseteq 1 .. spent["edits"]
        BY <1>6, <1>8 DEF NumbersAreSpent
      <4>3. \A i \in 1 .. Len(revs) : revs[i] # Gone => revs[i].edits \subseteq 1 .. spent["edits"]
        BY <1>8 DEF NumbersAreSpent
      <4>4. change'[r].id = spent'["edits"]
        BY <1>4, <2>3
      <4> QED BY <1>1, <2>3, <4>1, <4>2, <4>3, <4>4 DEF PendingIsNew
    <3>4. change'[r] # Seeding
      BY <1>4, <2>3
    <3> QED BY <2>1, <2>3, <3>1, <3>2, <3>3, <3>4 DEF FromItsVersion, Changing, SeedingNow, Seeding
  <2> QED BY <1>7, <2>2, <2>3
<1>11. \A x \in copy'[r].edits :
          x \in copy[r].edits \/ x \in spent["edits"] + 1 .. spent'["edits"]
  BY <1>2, <1>3, <1>7
<1> QED BY <1>1, <1>2, <1>3, <1>6, <1>10, <1>11, HistoryStep

LEMMA SaveHistory ==
  ASSUME IInv, IInv', HistoryInv, NEW r \in Replicas,
         SaveAccepted(r) \/ SaveUnacknowledged(r)
  PROVE  HistoryInv'
<1>1. /\ pc[r] = "saving"
      /\ revs' = Append(revs, copy[r])
      /\ copy' = copy
  BY DEF SaveAccepted, SaveUnacknowledged
<1>2. TypeOK /\ Len(revs) \in Nat
  BY Basics
<1>3. spent'["edits"] = spent["edits"] /\ spent["edits"] \in Nat /\ spent["edits"] <= MaxEdits
  BY <1>2, SpendsNoEdit, Basics DEF SaveAccepted, SaveUnacknowledged, HistoryInv, NumbersAreSpent
<1>4. /\ Len(revs') = Len(revs) + 1
      /\ revs'[Len(revs')] = copy[r]
      /\ \A i \in 1 .. Len(revs) : revs'[i] = revs[i]
  BY <1>1, <1>2, AppendType
<1>5. /\ \A q \in Replicas \ {r} : pc'[q] = pc[q] /\ change'[q] = change[q]
      /\ \A q \in Replicas \ {r} : copy'[q] = copy[q] /\ version'[q] = version[q]
  BY <1>1, <1>2, ReleaseType DEF SaveAccepted, SaveUnacknowledged, TypeOK
<1>6. FromItsVersion(r)'
  <2>1. CASE SaveAccepted(r)
    <3>1. pc'[r] = "idle" /\ version'[r] = Len(revs')
      BY <1>2, <2>1 DEF SaveAccepted, Release, TypeOK
    <3> QED BY <1>1, <1>4, <3>1, AtItsVersion
  <2>2. CASE SaveUnacknowledged(r)
    BY <1>1, <1>3, <1>4, <2>2, GivenUp DEF SaveUnacknowledged
  <2> QED BY <2>1, <2>2
<1>7. \A i \in Len(revs) + 1 .. Len(revs') :
         revs'[i] # Gone => revs'[i].edits \subseteq copy[r].edits
  BY <1>2, <1>4
<1> QED BY <1>1, <1>2, <1>3, <1>4, <1>5, <1>6, <1>7, HistoryStep

LEMMA FailHistory ==
  ASSUME IInv, IInv', HistoryInv, NEW r \in Replicas,
         SaveConflict(r) \/ SaveRefused(r) \/ ReloadGone(r) \/ ReloadFails(r)
  PROVE  HistoryInv'
<1>1. /\ pc[r] \in {"saving", "conflict"}
      /\ UNCHANGED <<revs, copy, version>>
  BY DEF SaveConflict, SaveRefused, ReloadGone, ReloadFails
<1>2. TypeOK /\ Len(revs) \in Nat
  BY Basics
<1>3. spent'["edits"] = spent["edits"] /\ spent["edits"] \in Nat /\ spent["edits"] <= MaxEdits
  BY <1>2, SpendsNoEdit, Basics
     DEF SaveConflict, SaveRefused, ReloadGone, ReloadFails, HistoryInv, NumbersAreSpent
<1>4. CASE Release(r, FALSE)
  <2>1. \A q \in Replicas \ {r} : pc'[q] = pc[q] /\ change'[q] = change[q]
    BY <1>2, <1>4, ReleaseType
  <2>2. FromItsVersion(r)'
    BY <1>1, <1>3, <1>4, GivenUp
  <2> QED BY <1>1, <1>2, <1>3, <2>1, <2>2, HistoryStep
<1>5. CASE pc' = [pc EXCEPT ![r] = "conflict"] /\ UNCHANGED change
  <2>1. pc'[r] = "conflict" /\ \A q \in Replicas \ {r} : pc'[q] = pc[q]
    BY <1>2, <1>5 DEF TypeOK
  <2>2. FromItsVersion(r)'
    <3>1. FromItsVersion(r)
      BY DEF HistoryInv
    <3>2. Changing(r)' = Changing(r) /\ SeedingNow(r)' = SeedingNow(r)
      BY <1>1, <1>5, <2>1 DEF Changing, SeedingNow, Seeding
    <3>3. PendingIsNew(r) => PendingIsNew(r)'
      BY <1>1, <1>5 DEF PendingIsNew
    <3> QED BY <1>1, <1>3, <2>1, <3>1, <3>2, <3>3 DEF FromItsVersion
  <2> QED BY <1>1, <1>2, <1>3, <1>5, <2>1, <2>2, HistoryStep
<1> QED BY <1>4, <1>5 DEF SaveConflict, SaveRefused, ReloadGone, ReloadFails

LEMMA ReloadHistory ==
  ASSUME IInv, IInv', HistoryInv, NEW r \in Replicas, Reload(r)
  PROVE  HistoryInv'
<1> DEFINE c == change[r]
<1>1. /\ pc[r] = "conflict"
      /\ Exists
      /\ Run(r, c, Latest, Len(revs), attempt[r])
      /\ UNCHANGED <<revs, watch, acked, spent>>
  BY DEF Reload
<1>2. /\ TypeOK
      /\ c \in Changes
      /\ attempt[r] \in Nat
      /\ spent["edits"] \in Nat
      /\ Len(revs) \in Nat
  BY <1>1, Basics DEF InHand, TypeOK
<1>3. /\ Latest \in Documents
      /\ Latest.model \in Models
      /\ Latest = revs[Len(revs)]
      /\ Latest # Gone
      /\ Len(revs) \in 1 .. Len(revs)
  BY <1>1, <1>2, LatestIsDocument DEF Exists, Documents
<1>4. FromItsVersion(r) /\ NumbersAreSpent
  BY DEF HistoryInv
<1>5. /\ version'[r] = Len(revs)
      /\ \A q \in Replicas \ {r} :
            /\ pc'[q] = pc[q]
            /\ copy'[q] = copy[q]
            /\ version'[q] = version[q]
            /\ change'[q] = change[q]
  BY <1>1, <1>2, <1>3, RunType
<1>6. \/ /\ Outcome(c.edit, Latest.model).result = "write"
         /\ pc'[r] = "saving"
         /\ change'[r] = c
         /\ copy'[r].model = Outcome(c.edit, Latest.model).model
         /\ copy'[r].edits = Latest.edits \cup NumbersOf(c)
      \/ pc'[r] = "idle" /\ copy'[r] = Latest
  BY <1>1, <1>2, <1>3, RunResult
<1> HIDE DEF c
<1>7. revs'[version'[r]] = Latest
  BY <1>1, <1>3, <1>5
<1>8. c # Seeding => PendingIsNew(r) /\ c.id \in copy[r].edits
  BY <1>1, <1>4 DEF FromItsVersion, Changing, PendingIsNew, c
<1>9. NumbersOf(c) \subseteq copy[r].edits
  <2>1. CASE c = Seeding
    BY <2>1 DEF NumbersOf, Seeding
  <2>2. CASE c # Seeding
    BY <1>8, <2>2 DEF NumbersOf
  <2> QED BY <2>1, <2>2
<1>10. FromItsVersion(r)'
  <2>1. CASE pc'[r] = "idle" /\ copy'[r] = Latest
    BY <1>7, <2>1, AtItsVersion
  <2>2. CASE /\ Outcome(c.edit, Latest.model).result = "write"
             /\ pc'[r] = "saving"
             /\ change'[r] = c
             /\ copy'[r].model = Outcome(c.edit, Latest.model).model
             /\ copy'[r].edits = Latest.edits \cup NumbersOf(c)
    <3>1. Leads(Latest.model, 1, copy'[r].model)
      <4>1. Leads(Latest.model, 0, Latest.model) /\ 0 \in Nat /\ c.edit \in ChangesToMake
        BY <1>2, <1>3, LeadsNowhere, ChangesAreEdits
      <4>2. Leads(Latest.model, 0 + 1, Outcome(c.edit, Latest.model).model)
        BY <4>1, LeadsFurther
      <4> QED BY <2>2, <4>2
    <3>2. CASE c = Seeding
      <4>1. DefinedRoles(Latest.model) = {}
        BY <2>2, <3>2, SeedingWrites DEF Seeding
      <4> QED BY <1>7, <2>2, <3>1, <3>2, <4>1 DEF FromItsVersion, Changing, SeedingNow, Seeding
    <3>3. CASE c # Seeding
      <4>1. c.id \in Nat \ {0}
        BY <1>2, <3>3, BoundsAreNat DEF Changes, Seeding
      <4>2. c.id \in 1 .. spent["edits"]
        BY <1>4, <1>8, <3>3 DEF NumbersAreSpent
      <4>3. 1 \in 0 .. spent'["edits"]
        BY <1>1, <1>2, <4>2
      <4>4. PendingIsNew(r)'
        <5>1. c.id \in copy'[r].edits
          BY <2>2, <4>1 DEF NumbersOf
        <5> QED BY <1>1, <1>5, <1>8, <2>2, <3>3, <5>1 DEF PendingIsNew, c
      <4> QED BY <1>7, <2>2, <3>1, <3>3, <4>3, <4>4
             DEF FromItsVersion, Changing, SeedingNow, Seeding
    <3> QED BY <3>2, <3>3
  <2> QED BY <1>6, <2>1, <2>2
<1>11. ASSUME NEW x \in copy'[r].edits
       PROVE  \/ x \in copy[r].edits
              \/ \E i \in 1 .. Len(revs) : revs[i] # Gone /\ x \in revs[i].edits
  <2>1. x \in Latest.edits \/ x \in NumbersOf(c)
    BY <1>6, <1>11
  <2> QED BY <1>3, <1>9, <2>1
<1>12. spent' = spent /\ revs' = revs /\ spent["edits"] <= MaxEdits
  BY <1>1, <1>4 DEF NumbersAreSpent
<1> QED BY <1>2, <1>5, <1>10, <1>11, <1>12, HistoryStep

LEMMA LifecycleHistory ==
  ASSUME IInv, IInv', HistoryInv, NEW r \in Replicas, Lifecycle(r)
  PROVE  HistoryInv'
<1>1. TypeOK /\ Len(revs) \in Nat
  BY Basics
<1>2. spent'["edits"] = spent["edits"] /\ spent["edits"] \in Nat /\ spent["edits"] <= MaxEdits
  BY <1>1, SpendsNoEdit, Basics
     DEF Lifecycle, Open, Create, Seed, Crash, HistoryInv, NumbersAreSpent
<1>3. FromItsVersion(r)
  BY DEF HistoryInv
<1>4. CASE Open(r)
  <2>1. UNCHANGED <<revs, change>>
    BY <1>4 DEF Open
  <2>2. /\ copy'[r] = IF Exists THEN Latest ELSE Empty
        /\ version'[r] = Current
        /\ pc'[r] = IF Exists THEN "starting" ELSE "creating"
        /\ \A q \in Replicas \ {r} :
              /\ pc'[q] = pc[q]
              /\ copy'[q] = copy[q]
              /\ version'[q] = version[q]
    BY <1>1, <1>4 DEF Open, TypeOK
  <2>3. CASE Exists
    <3>1. /\ copy'[r] = revs[Len(revs)]
          /\ version'[r] = Len(revs)
          /\ pc'[r] = "starting"
          /\ Len(revs) \in 1 .. Len(revs)
          /\ revs[Len(revs)] # Gone
      BY <1>1, <2>2, <2>3, LatestIsDocument DEF Exists
    <3>2. FromItsVersion(r)'
      BY <2>1, <3>1, AtItsVersion
    <3> QED BY <1>1, <1>2, <2>1, <2>2, <3>1, <3>2, HistoryStep
  <2>4. CASE ~Exists
    <3>1. FromItsVersion(r)'
      BY <2>2, <2>4 DEF FromItsVersion, Changing, SeedingNow
    <3>2. copy'[r].edits = {}
      BY <2>2, <2>4 DEF Empty
    <3> QED BY <1>1, <1>2, <2>1, <2>2, <3>1, <3>2, HistoryStep
  <2> QED BY <2>3, <2>4
<1>5. CASE Create(r)
  <2>1. CASE Exists
    <3>1. /\ UNCHANGED <<revs, version, copy, change>>
          /\ pc'[r] = "down"
          /\ \A q \in Replicas \ {r} : pc'[q] = pc[q]
      BY <1>1, <1>5, <2>1 DEF Create, TypeOK
    <3>2. FromItsVersion(r)'
      BY <3>1 DEF FromItsVersion, Changing, SeedingNow
    <3> QED BY <1>1, <1>2, <3>1, <3>2, HistoryStep
  <2>2. CASE ~Exists
    <3>1. /\ revs' = Append(revs, copy[r])
          /\ version' = [version EXCEPT ![r] = Len(revs')]
          /\ pc' = [pc EXCEPT ![r] = "starting"]
          /\ UNCHANGED <<copy, change>>
      BY <1>5, <2>2 DEF Create
    <3>2. /\ Len(revs') = Len(revs) + 1
          /\ revs'[Len(revs')] = copy[r]
          /\ \A i \in 1 .. Len(revs) : revs'[i] = revs[i]
      BY <1>1, <3>1, AppendType
    <3>3. /\ version'[r] = Len(revs')
          /\ pc'[r] = "starting"
          /\ \A q \in Replicas \ {r} : version'[q] = version[q] /\ pc'[q] = pc[q]
      BY <1>1, <3>1 DEF TypeOK
    <3>4. FromItsVersion(r)'
      BY <3>1, <3>2, <3>3, AtItsVersion
    <3>5. \A i \in Len(revs) + 1 .. Len(revs') :
             revs'[i] # Gone => revs'[i].edits \subseteq copy[r].edits
      BY <1>1, <3>2
    <3> QED BY <1>1, <1>2, <3>1, <3>2, <3>3, <3>4, <3>5, HistoryStep
  <2> QED BY <2>1, <2>2
<1>6. CASE Seed(r)
  <2>1. /\ pc[r] = "starting"
        /\ Run(r, Seeding, copy[r], version[r], 0)
        /\ UNCHANGED <<revs, watch, acked, spent>>
    BY <1>6 DEF Seed
  <2>2. /\ Seeding \in Changes /\ Seeding.edit = SeedEdit /\ NumbersOf(Seeding) = {}
        /\ copy[r] \in Documents /\ version[r] \in Nat /\ 0 \in Nat
    BY <1>1 DEF Seeding, Changes, TypeOK, NumbersOf
  <2>3. /\ version'[r] = version[r]
        /\ \A q \in Replicas \ {r} :
              /\ pc'[q] = pc[q]
              /\ copy'[q] = copy[q]
              /\ version'[q] = version[q]
              /\ change'[q] = change[q]
    BY <1>1, <2>1, <2>2, RunType
  <2>4. copy[r] = revs[version[r]] /\ revs'[version'[r]] = revs[version[r]]
    BY <1>3, <2>1, <2>3 DEF FromItsVersion
  <2>5. \/ /\ Outcome(SeedEdit, copy[r].model).result = "write"
           /\ pc'[r] = "saving"
           /\ change'[r] = Seeding
           /\ copy'[r].model = Outcome(SeedEdit, copy[r].model).model
           /\ copy'[r].edits = copy[r].edits
        \/ pc'[r] = "idle" /\ copy'[r] = copy[r]
    <3> DEFINE s == Seeding
    <3>1. s \in Changes /\ s.edit = SeedEdit /\ NumbersOf(s) = {}
      BY <2>2
    <3>2. Run(r, s, copy[r], version[r], 0)
      BY <2>1
    <3> HIDE DEF s
    <3>3. \/ /\ Outcome(s.edit, copy[r].model).result = "write"
             /\ pc'[r] = "saving"
             /\ change'[r] = s
             /\ copy'[r].model = Outcome(s.edit, copy[r].model).model
             /\ copy'[r].edits = copy[r].edits \cup NumbersOf(s)
          \/ pc'[r] = "idle" /\ copy'[r] = copy[r]
      BY <1>1, <2>2, <3>1, <3>2, RunResult
    <3>4. copy[r].edits \cup NumbersOf(s) = copy[r].edits
      BY <3>1
    <3> QED BY <3>1, <3>3, <3>4 DEF s
  <2>6. FromItsVersion(r)'
    <3>1. CASE pc'[r] = "idle" /\ copy'[r] = copy[r]
      BY <2>4, <3>1, AtItsVersion
    <3>2. CASE /\ Outcome(SeedEdit, copy[r].model).result = "write"
               /\ pc'[r] = "saving"
               /\ change'[r] = Seeding
               /\ copy'[r].model = Outcome(SeedEdit, copy[r].model).model
      <4>1. copy[r].model \in Models /\ SeedEdit \in ChangesToMake /\ 0 \in Nat
        BY Basics DEF ChangesToMake
      <4>2. Leads(copy[r].model, 0 + 1, Outcome(SeedEdit, copy[r].model).model)
        BY <4>1, LeadsNowhere, LeadsFurther
      <4>3. Leads(copy[r].model, 1, copy'[r].model)
        BY <3>2, <4>2
      <4>4. DefinedRoles(copy[r].model) = {}
        BY <3>2, SeedingWrites
      <4> QED BY <2>4, <3>2, <4>3, <4>4 DEF FromItsVersion, Changing, SeedingNow, Seeding
    <3> QED BY <2>5, <3>1, <3>2
  <2>7. \A x \in copy'[r].edits : x \in copy[r].edits
    BY <2>5
  <2> QED BY <1>1, <1>2, <2>1, <2>3, <2>6, <2>7, HistoryStep
<1>7. CASE Crash(r)
  <2>1. /\ UNCHANGED revs
        /\ pc'[r] = "down"
        /\ copy'[r] = Empty
        /\ \A q \in Replicas \ {r} :
              /\ pc'[q] = pc[q]
              /\ copy'[q] = copy[q]
              /\ version'[q] = version[q]
              /\ change'[q] = change[q]
    BY <1>1, <1>7 DEF Crash, TypeOK
  <2>2. FromItsVersion(r)' /\ copy'[r].edits = {}
    BY <2>1 DEF FromItsVersion, Changing, SeedingNow, Empty
  <2> QED BY <1>1, <1>2, <2>1, <2>2, HistoryStep
<1> QED BY <1>4, <1>5, <1>6, <1>7 DEF Lifecycle

LEMMA WatchingHistory ==
  ASSUME IInv, IInv', HistoryInv, NEW r \in Replicas, Watching(r)
  PROVE  HistoryInv'
<1>1. TypeOK /\ Len(revs) \in Nat
  BY Basics
<1>2. spent'["edits"] = spent["edits"] /\ spent["edits"] \in Nat /\ spent["edits"] <= MaxEdits
  BY <1>1, SpendsNoEdit, Basics
     DEF Watching, WatchStarts, WatchDrops, Deliver, HistoryInv, NumbersAreSpent
<1>3. UNCHANGED <<revs, pc, change>>
  BY DEF Watching, WatchStarts, WatchDrops, Deliver
<1>4. CASE UNCHANGED <<copy, version>>
  <2>1. FromItsVersion(r)
    BY DEF HistoryInv
  <2>2. FromItsVersion(r)'
    BY <1>2, <1>3, <1>4, <2>1 DEF FromItsVersion, Changing, SeedingNow, Seeding, PendingIsNew
  <2> QED BY <1>1, <1>2, <1>3, <1>4, <2>2, HistoryStep
<1>5. CASE ~UNCHANGED <<copy, version>>
  <2>1. Deliver(r)
    BY <1>5 DEF Watching, WatchStarts, WatchDrops
  <2>2. /\ pc[r] = "idle"
        /\ watch[r] \in 1 .. Len(revs)
        /\ revs[watch[r]] # Gone
        /\ copy' = [copy EXCEPT ![r] = revs[watch[r]]]
        /\ version' = [version EXCEPT ![r] = watch[r]]
    BY <1>5, <2>1 DEF Deliver
  <2>3. /\ copy'[r] = revs[watch[r]]
        /\ version'[r] = watch[r]
        /\ \A q \in Replicas \ {r} : copy'[q] = copy[q] /\ version'[q] = version[q]
    BY <1>1, <2>2 DEF TypeOK
  <2>4. FromItsVersion(r)'
    BY <1>3, <2>2, <2>3, AtItsVersion
  <2>5. \A x \in copy'[r].edits :
           \E i \in 1 .. Len(revs) : revs[i] # Gone /\ x \in revs[i].edits
    BY <2>2, <2>3
  <2> QED BY <1>1, <1>2, <1>3, <2>3, <2>4, <2>5, HistoryStep
<1> QED BY <1>4, <1>5

LEMMA DeleteHistory ==
  ASSUME IInv, IInv', HistoryInv, Delete
  PROVE  HistoryInv'
<1>1. TypeOK /\ Len(revs) \in Nat
  BY Basics
<1>2. /\ revs' = Append(revs, Gone)
      /\ Spend("deletions")
      /\ UNCHANGED <<pc, copy, version, change>>
  BY DEF Delete
<1>3. spent'["edits"] = spent["edits"]
  BY <1>1, <1>2, SpendsNoEdit
<1>4. /\ Len(revs') = Len(revs) + 1
      /\ revs'[Len(revs')] = Gone
      /\ \A i \in 1 .. Len(revs) : revs'[i] = revs[i]
  BY <1>1, <1>2 DEF TypeOK
<1>5. \A i \in 1 .. Len(revs') : revs'[i] # Gone => i \in 1 .. Len(revs) /\ revs'[i] = revs[i]
  BY <1>1, <1>4
<1>6. NumbersAreSpent'
  BY <1>2, <1>3, <1>5 DEF HistoryInv, NumbersAreSpent
<1>7. ASSUME NEW q \in Replicas
      PROVE  FromItsVersion(q)'
  <2>1. FromItsVersion(q)
    BY DEF HistoryInv
  <2>2. Changing(q)' = Changing(q) /\ SeedingNow(q)' = SeedingNow(q)
    BY <1>2 DEF Changing, SeedingNow, Seeding
  <2>3. PendingIsNew(q) => PendingIsNew(q)'
    BY <1>2, <1>5 DEF PendingIsNew
  <2>4. pc[q] \notin {"down", "creating"} => revs'[version'[q]] = revs[version[q]]
    BY <1>2, <1>4, Basics
  <2>5. Changing(q) \/ SeedingNow(q) => pc[q] \notin {"down", "creating"}
    BY DEF Changing, SeedingNow
  <2> QED BY <1>2, <1>3, <2>1, <2>2, <2>3, <2>4, <2>5 DEF FromItsVersion
<1> QED BY <1>6, <1>7 DEF HistoryInv

LEMMA HistoryInvariance == Spec => []HistoryInv
<1>1. Init => HistoryInv
  BY BoundsAreNat DEF Init, HistoryInv, NumbersAreSpent, FromItsVersion, Changing, SeedingNow,
     Empty, Bounds
<1>2. IInv /\ IInv' /\ HistoryInv /\ [Next]_vars => HistoryInv'
  <2> SUFFICES ASSUME IInv, IInv', HistoryInv, [Next]_vars
               PROVE  HistoryInv'
    OBVIOUS
  <2>1. CASE UNCHANGED vars
    BY <2>1 DEF vars, HistoryInv, NumbersAreSpent, FromItsVersion, Changing, SeedingNow,
       Seeding, PendingIsNew
  <2>2. ASSUME NEW r \in Replicas, Mutate(r)
        PROVE  HistoryInv'
    BY <2>2, BeginHistory, SaveHistory, FailHistory, ReloadHistory DEF Mutate
  <2>3. CASE Next
    BY <2>2, <2>3, LifecycleHistory, WatchingHistory, DeleteHistory DEF Next
  <2> QED BY <2>1, <2>3
<1> QED BY <1>1, <1>2, Invariance, PTL DEF Spec

\* No version stands beside a model it is not the version of, for any number of
\* replicas: what reload, the watch and a save leave in a replica that is at
\* rest is the revision its version names, or that revision with changes of the
\* replica's own made to it (store.go, reload and Follow; secret.go, Save).
THEOREM VersionsAreHonest == Spec => []CopyIsItsVersion
<1>1. IInv /\ HistoryInv => CopyIsItsVersion
  <2> SUFFICES ASSUME IInv, HistoryInv, NEW r \in Replicas, pc[r] = "idle"
               PROVE  /\ version[r] \in 1 .. Len(revs)
                      /\ revs[version[r]] # Gone
                      /\ revs[version[r]].edits \subseteq copy[r].edits
                      /\ revs[version[r]].edits = copy[r].edits =>
                             revs[version[r]].model = copy[r].model
    BY DEF CopyIsItsVersion
  <2>1. FromItsVersion(r)
    BY DEF HistoryInv
  <2> QED BY <2>1, Basics DEF FromItsVersion
<1> QED BY <1>1, Invariance, HistoryInvariance, PTL

-----------------------------------------------------------------------------
(* What becomes of the Secret in one step. *)

Saves(r) == pc[r] = "saving" /\ version[r] = Current /\ revs' = Append(revs, copy[r])
Creates(r) == pc[r] = "creating" /\ ~Exists /\ revs' = Append(revs, copy[r])
Deletes == Exists /\ revs' = Append(revs, Gone)

LEMMA HowRevisionsGrow ==
  ASSUME [Next]_vars
  PROVE  \/ revs' = revs
         \/ \E r \in Replicas : Saves(r) \/ Creates(r)
         \/ Deletes
<1>1. CASE UNCHANGED vars
  BY <1>1 DEF vars
<1>2. ASSUME NEW r \in Replicas, Mutate(r) \/ Lifecycle(r) \/ Watching(r)
      PROVE  revs' = revs \/ Saves(r) \/ Creates(r)
  BY <1>2 DEF Mutate, Begin, SaveAccepted, SaveConflict, SaveRefused, SaveUnacknowledged,
     Reload, ReloadGone, ReloadFails, Lifecycle, Open, Create, Seed, Crash, Watching,
     WatchStarts, WatchDrops, Deliver, Saves, Creates
<1>3. CASE Delete
  BY <1>3 DEF Delete, Deletes
<1> QED BY <1>1, <1>2, <1>3 DEF Next

\* A save replaces the revision its copy was made from.
LEMMA SaveReplaces ==
  ASSUME IInv, HistoryInv, NEW r \in Replicas, Saves(r)
  PROVE  /\ Exists
         /\ version[r] = Len(revs)
         /\ Latest = revs[version[r]]
         /\ Changing(r) \/ SeedingNow(r)
         /\ Len(revs') = Len(revs) + 1
         /\ revs'[Len(revs')] = copy[r]
         /\ \A i \in 1 .. Len(revs) : revs'[i] = revs[i]
<1>1. /\ version[r] \in 1 .. Len(revs)
      /\ Len(revs) \in Nat
      /\ TypeOK
  BY Basics DEF Saves
<1>2. Exists /\ version[r] = Len(revs) /\ Latest = revs[version[r]]
  BY <1>1 DEF Saves, Current, Exists, Latest
<1> QED BY <1>1, <1>2, AppendType DEF Saves, Changing, SeedingNow

\* A seeding writes over nothing but a model without roles, whoever else starts
\* or serves (store.go, SeedRoles).
THEOREM SeedingSparesRoles == Spec => []SeedsOnlyAnEmptyModel
<1>1. Init => SeedsOnlyAnEmptyModel
  BY DEF Init, SeedsOnlyAnEmptyModel
<1>2. IInv /\ IInv' /\ HistoryInv /\ SeedsOnlyAnEmptyModel /\ [Next]_vars
         => SeedsOnlyAnEmptyModel'
  <2> SUFFICES ASSUME IInv, IInv', HistoryInv, SeedsOnlyAnEmptyModel, [Next]_vars,
                      NEW i \in 1 .. Len(revs') - 1,
                      revs'[i] # Gone,
                      revs'[i + 1] # Gone,
                      revs'[i].edits = revs'[i + 1].edits,
                      DefinedRoles(revs'[i].model) # {}
               PROVE  revs'[i].model = revs'[i + 1].model
    BY DEF SeedsOnlyAnEmptyModel
  <2>1. TypeOK /\ Len(revs) \in Nat /\ Len(revs') \in Nat
    BY Basics DEF IInv, TypeInv, TypeOK
  <2>2. ASSUME \/ Len(revs') = Len(revs)
               \/ Len(revs') = Len(revs) + 1 /\ i # Len(revs),
               \A j \in 1 .. Len(revs) : revs'[j] = revs[j]
        PROVE  revs'[i].model = revs'[i + 1].model
    <3>1. i \in 1 .. Len(revs) - 1 /\ i \in 1 .. Len(revs) /\ i + 1 \in 1 .. Len(revs)
      BY <2>1, <2>2
    <3>2. revs'[i] = revs[i] /\ revs'[i + 1] = revs[i + 1]
      BY <2>2, <3>1
    <3> QED BY <3>1, <3>2 DEF SeedsOnlyAnEmptyModel
  <2>3. CASE revs' = revs
    BY <2>2, <2>3
  <2>4. ASSUME NEW r \in Replicas, Saves(r)
        PROVE  revs'[i].model = revs'[i + 1].model
    <3>1. /\ version[r] = Len(revs)
          /\ Changing(r) \/ SeedingNow(r)
          /\ Len(revs') = Len(revs) + 1
          /\ revs'[Len(revs')] = copy[r]
          /\ \A j \in 1 .. Len(revs) : revs'[j] = revs[j]
      BY <2>4, SaveReplaces
    <3>2. CASE i = Len(revs)
      <4>1. revs'[i] = revs[version[r]] /\ revs'[i + 1] = copy[r]
        BY <2>1, <3>1, <3>2
      <4>2. FromItsVersion(r)
        BY DEF HistoryInv
      <4>3. CASE Changing(r)
        <5>1. version[r] \in 1 .. Len(revs) /\ revs[version[r]] # Gone /\ PendingIsNew(r)
          BY <2>1, <3>1, <3>2, <4>1, <4>2, <4>3 DEF FromItsVersion
        <5> QED BY <4>1, <5>1 DEF PendingIsNew
      <4>4. CASE SeedingNow(r)
        BY <4>1, <4>2, <4>4 DEF FromItsVersion
      <4> QED BY <3>1, <4>3, <4>4
    <3>3. CASE i # Len(revs)
      BY <2>2, <3>1, <3>3
    <3> QED BY <3>2, <3>3
  <2>5. ASSUME NEW r \in Replicas, Creates(r)
        PROVE  revs'[i].model = revs'[i + 1].model
    <3>1. /\ Len(revs') = Len(revs) + 1
          /\ \A j \in 1 .. Len(revs) : revs'[j] = revs[j]
      BY <2>1, <2>5, AppendType DEF Creates
    <3>2. i # Len(revs)
      BY <2>1, <2>5, <3>1 DEF Creates, Exists, Latest
    <3> QED BY <2>2, <3>1, <3>2
  <2>6. CASE Deletes
    <3>1. /\ Len(revs') = Len(revs) + 1
          /\ revs'[Len(revs')] = Gone
          /\ \A j \in 1 .. Len(revs) : revs'[j] = revs[j]
      BY <2>1, <2>6 DEF Deletes, TypeOK
    <3>2. i # Len(revs)
      BY <2>1, <3>1
    <3> QED BY <2>2, <3>1, <3>2
  <2> QED BY <2>3, <2>4, <2>5, <2>6, HowRevisionsGrow
<1> QED BY <1>1, <1>2, Invariance, HistoryInvariance, PTL DEF Spec

-----------------------------------------------------------------------------
(* The replicas keep one model. *)

StoredModel == IF Exists THEN Latest.model ELSE Gone

\* The stored model after a document or a deletion is appended.
LEMMA AfterAppend ==
  ASSUME TypeOK, NEW d \in Documents \cup {Gone}, revs' = Append(revs, d)
  PROVE  StoredModel' = IF d = Gone THEN Gone ELSE d.model
<1>1. Len(revs') = Len(revs) + 1 /\ revs'[Len(revs')] = d /\ Len(revs) \in Nat
  BY DEF TypeOK
<1>2. revs' # <<>>
  BY <1>1
<1> QED BY <1>1, <1>2 DEF StoredModel, Exists, Latest

LEMMA SavePublishes ==
  ASSUME IInv, HistoryInv, NEW r \in Replicas, Saves(r)
  PROVE  \E n \in 0 .. (IF MaxEdits = 0 THEN 1 ELSE MaxEdits) :
            \E batch \in [1 .. n -> ChangesToMake] :
               StoredModel' = Shared!Through(StoredModel, batch)[n]
<1> DEFINE max == IF MaxEdits = 0 THEN 1 ELSE MaxEdits
<1>1. /\ Exists
      /\ Latest = revs[version[r]]
      /\ Changing(r) \/ SeedingNow(r)
      /\ FromItsVersion(r)
  BY SaveReplaces DEF HistoryInv
<1>2. /\ TypeOK
      /\ copy[r] \in Documents
      /\ copy[r] # Gone
      /\ spent["edits"] \in Nat
      /\ spent["edits"] <= MaxEdits
  BY Basics DEF HistoryInv, NumbersAreSpent
<1>3. StoredModel = revs[version[r]].model
  BY <1>1 DEF StoredModel
<1>4. StoredModel' = copy[r].model
  BY <1>2, AfterAppend DEF Saves
<1>5. PICK n \in 0 .. max : Leads(StoredModel, n, copy[r].model)
  <2>1. CASE Changing(r)
    <3>1. PICK n \in 0 .. spent["edits"] : Leads(revs[version[r]].model, n, copy[r].model)
      BY <1>1, <2>1 DEF FromItsVersion
    <3>2. n \in 0 .. max
      BY <1>2, BoundsAreNat
    <3> QED BY <1>3, <3>1, <3>2
  <2>2. CASE SeedingNow(r)
    <3>1. Leads(revs[version[r]].model, 1, copy[r].model)
      BY <1>1, <2>2 DEF FromItsVersion
    <3>2. 1 \in 0 .. max
      BY BoundsAreNat
    <3> QED BY <1>3, <3>1, <3>2
  <2> QED BY <1>1, <2>1, <2>2
<1>6. n \in Nat
  BY <1>5, BoundsAreNat
<1> HIDE DEF max
<1>7. \E batch \in [1 .. n -> ChangesToMake] : copy[r].model = Shared!Through(StoredModel, batch)[n]
  BY <1>5, <1>6, LeadsPublished
<1> QED BY <1>4, <1>5, <1>7 DEF max

\* With their copies, conflicts, lost answers, crashes and watches, any number
\* of replicas keep one model, which moves only by its creation, its deletion,
\* or whole changes made to it as it is at that moment.
THEOREM ReplicasKeepOneModel == Spec => ImplementsSharedModel
<1>1. Init => Shared!Init
  BY DEF Init, Shared!Init, Exists
<1>2. IInv /\ HistoryInv /\ [Next]_vars => [Shared!Next]_StoredModel
  <2> SUFFICES ASSUME IInv, HistoryInv, [Next]_vars
               PROVE  Shared!Next \/ StoredModel' = StoredModel
    OBVIOUS
  <2>1. TypeOK
    BY Basics
  <2>2. CASE revs' = revs
    BY <2>2 DEF StoredModel, Exists, Latest
  <2>3. Exists => StoredModel # Gone
    <3>1. Exists => Latest.model \in Models
      BY <2>1, LatestIsDocument DEF Documents
    <3> QED BY <3>1, MarkersAreNotValues DEF StoredModel
  <2>4. ASSUME NEW r \in Replicas, Saves(r)
        PROVE  Shared!Next
    <3>1. Exists
      BY <2>4, SaveReplaces
    <3>2. Shared!Publish
      BY <2>3, <2>4, <3>1, SavePublishes DEF Shared!Publish, ChangesToMake, StoredModel,
         SeedEdit, Shared!SeedEdit
    <3> QED BY <3>2 DEF Shared!Next
  <2>5. ASSUME NEW r \in Replicas, Creates(r)
        PROVE  Shared!Next
    <3>1. FromItsVersion(r)
      BY DEF HistoryInv
    <3>2. copy[r] = Empty
      BY <2>5, <3>1 DEF FromItsVersion, Creates
    <3>3. copy[r] \in Documents /\ copy[r] # Gone
      BY Basics
    <3>4. StoredModel' = EmptyModel
      BY <2>1, <2>5, <3>2, <3>3, AfterAppend DEF Creates, Empty
    <3>5. StoredModel = Gone
      BY <2>5 DEF Creates, StoredModel
    <3>6. Shared!EmptyModel = EmptyModel
      BY DEF EmptyModel, Shared!EmptyModel
    <3>7. Shared!Create
      BY <3>4, <3>5, <3>6 DEF Shared!Create, StoredModel
    <3> QED BY <3>7 DEF Shared!Next
  <2>6. CASE Deletes
    <3>1. StoredModel # Gone /\ StoredModel' = Gone
      BY <2>1, <2>3, <2>6, AfterAppend DEF Deletes
    <3>2. Shared!Delete
      BY <3>1 DEF Shared!Delete, StoredModel
    <3> QED BY <3>2 DEF Shared!Next
  <2> QED BY <2>2, <2>4, <2>5, <2>6, HowRevisionsGrow
<1> QED BY <1>1, <1>2, Invariance, HistoryInvariance, PTL
       DEF Spec, ImplementsSharedModel, Shared!Spec, StoredModel

-----------------------------------------------------------------------------
(* From a replica's store to its authorizer.  While nothing crosses, there is  *)
(* at most one installation, and it is for the roles of the copy, or will read *)
(* them; the copy's roles move only in a change that ends in an installation.  *)

\* The changes that do not end in Replace leave the roles as they are.
LEMMA RolesStay ==
  ASSUME NEW e \in Calls, NEW m \in Models, e.kind \notin Replacing
  PROVE  Outcome(e, m).model.roles = m.roles
<1> DEFINE Same(out) == out.model.roles = m.roles
<1>1. /\ Same(Refused(m)) /\ Same(NoChange(m))
      /\ \A u, rec : Same(PutUser(m, u, rec))
      /\ \A u, elapsed : Same(LockUntil(m, u, elapsed)) /\ Same(Unlock(m, u, elapsed))
  BY DEF Refused, NoChange, PutUser, Write, LockUntil, Unlock, Models
<1> HIDE DEF Same
<1>2. e \in Edits \ {SeedEdit}
  BY CallsAreEdits
<1>3. CASE e \in [kind : {"recordSeen"}, user : Users, id : Identities, roles : SUBSET Roles]
  <2>1. Same(RecordSeen(m, e.user, e.id, e.roles))
    BY <1>1 DEF RecordSeen
  <2> QED BY <1>3, <2>1 DEF Outcome, Same
<1>4. CASE e \in [kind : {"create"}, user : Users, id : Identities,
                  password : Passwords, roles : SUBSET Roles]
  <2>1. Same(CreateLocalUser(m, e.user, e.id, e.password, e.roles))
    BY <1>1 DEF CreateLocalUser
  <2> QED BY <1>4, <2>1 DEF Outcome, Same
<1>5. CASE e \in [kind : {"invite"}, user : Users, id : Identities, roles : SUBSET Roles]
  <2>1. Same(Invite(m, e.user, e.id, e.roles))
    BY <1>1 DEF Invite
  <2> QED BY <1>5, <2>1 DEF Outcome, Same
<1>6. CASE e \in [kind : {"setPassword"}, user : Users, password : Passwords]
  <2>1. Same(SetPassword(m, e.user, e.password))
    BY <1>1 DEF SetPassword
  <2> QED BY <1>6, <2>1 DEF Outcome, Same
<1>7. CASE e \in [kind : {"setRoles"}, user : Users, roles : SUBSET Roles]
  <2>1. Same(SetRoles(m, e.user, e.roles))
    BY <1>1 DEF SetRoles
  <2> QED BY <1>7, <2>1 DEF Outcome, Same
<1>8. CASE e \in [kind : {"deleteUser"}, user : Users]
  <2>1. Same(DeleteUser(m, e.user))
    BY <1>1 DEF DeleteUser
  <2> QED BY <1>8, <2>1 DEF Outcome, Same
<1>9. CASE e \in [kind : {"lock"}, user : Users, elapsed : SUBSET Users]
  BY <1>1, <1>9 DEF Outcome, Same
<1>10. CASE e \in [kind : {"unlock"}, user : Users, elapsed : SUBSET Users]
  BY <1>1, <1>10 DEF Outcome, Same
<1>11. CASE e \in [kind : {"seed"}]
  BY <1>2, <1>11 DEF SeedEdit
<1>12. ~(e \in [kind : {"saveRole"}, role : Roles, spec : Specs]
         \cup [kind : {"deleteRole"}, role : Roles]
         \cup [kind : {"membership"}, role : Roles, users : SUBSET Users, add : BOOLEAN]
         \cup [kind : {"restore"}, snapshot : Models])
  BY DEF Replacing
<1> QED BY <1>2, <1>3, <1>4, <1>5, <1>6, <1>7, <1>8, <1>9, <1>10, <1>11, <1>12 DEF Edits

\* Until a replica serves it has no authorizer, and nothing to install.
StartingUp(r) == pc[r] \in {"down", "creating", "starting"} \/ SeedingNow(r)

\* The copy has the roles it had when the lock was taken.
RolesAsTheyWere(r) ==
    \/ pc[r] = "idle"
    \/ /\ pc[r] = "saving"
       /\ change[r] # Seeding
       /\ attempt[r] = 0
       /\ change[r].edit.kind \notin Replacing

\* The authorizer has the copy's roles, or the one installation under way is for them.
Along(r) ==
    /\ \A i, j \in Busy(r) : i = j
    /\ RolesAsTheyWere(r) =>
           /\ Busy(r) = {} => InForce(r)
           /\ \A i \in Busy(r) : installing[r][i].at = "holding" =>
                  installing[r][i].roles = copy[r].model.roles

SyncOK(r) ==
    /\ StartingUp(r) => Busy(r) = {}
    /\ pc[r] = "conflict" => attempt[r] > 0
    /\ ~StartingUp(r) /\ ~crossed[r] => Along(r)

SyncInv == SyncTypeOK /\ \A r \in Replicas : SyncOK(r)

\* What another replica does is not noticed here.
SyncSame(q) ==
    /\ pc'[q] = pc[q] /\ copy'[q] = copy[q] /\ change'[q] = change[q]
    /\ attempt'[q] = attempt[q] /\ installed'[q] = installed[q]
    /\ installing'[q] = installing[q] /\ crossed'[q] = crossed[q]

LEMMA SyncFrame ==
  ASSUME NEW q, SyncOK(q), SyncSame(q)
  PROVE  SyncOK(q)'
  BY DEF SyncOK, SyncSame, StartingUp, SeedingNow, Along, RolesAsTheyWere, Busy, InForce

LEMMA StageMarks ==
  /\ Nothing.at = "nothing" /\ Due.at = "due"
  /\ Due # Nothing
  /\ \A roles : Holding(roles).at = "holding" /\ Holding(roles).roles = roles
                /\ Holding(roles) # Nothing
<1>1. /\ Nothing.at = "nothing" /\ Due.at = "due"
      /\ \A roles : Holding(roles).at = "holding" /\ Holding(roles).roles = roles
  BY DEF Nothing, Due, Holding
<1> QED BY <1>1

LEMMA SyncBasics ==
  ASSUME SyncTypeOK
  PROVE  /\ TypeOK
         /\ Nothing \in Stages /\ Due \in Stages
         /\ \A x \in Rolesets : Holding(x) \in Stages
         /\ \A r \in Replicas : copy[r] \in Documents /\ copy[r].model \in Models
                                /\ copy[r].model.roles \in Rolesets
  BY DEF SyncTypeOK, TypeOK, Documents, Models, Rolesets, Stages, Nothing, Due, Holding

-----------------------------------------------------------------------------
(* What happens to the installations when a handler or the watch is done. *)

LEMMA DueKeeps ==
  ASSUME SyncTypeOK, NEW r \in Replicas, SyncOK(r), ~StartingUp(r), pc'[r] = "idle",
         NEW i \in Installers, i \notin Busy(r), BecomesDue(r, i)
  PROVE  SyncOK(r)'
<1>1. /\ installing'[r] = [installing[r] EXCEPT ![i] = Due]
      /\ crossed'[r] = (crossed[r] \/ Busy(r) # {})
  BY DEF BecomesDue, SyncTypeOK
<1>2. Busy(r)' = Busy(r) \cup {i}
  BY <1>1, StageMarks DEF Busy, SyncTypeOK
<1>3. installing'[r][i].at # "holding"
  BY <1>1, StageMarks DEF SyncTypeOK
<1> QED BY <1>1, <1>2, <1>3 DEF SyncOK, StartingUp, SeedingNow, Along

LEMMA UntouchedKeeps ==
  ASSUME SyncTypeOK, NEW r \in Replicas, SyncOK(r),
         installed'[r] = installed[r], installing'[r] = installing[r],
         ~StartingUp(r)' => ~StartingUp(r),
         pc'[r] = "conflict" => attempt'[r] > 0,
         ~StartingUp(r)' /\ ~crossed'[r] =>
             /\ ~crossed[r]
             /\ RolesAsTheyWere(r)' =>
                    RolesAsTheyWere(r) /\ copy'[r].model.roles = copy[r].model.roles,
         StartingUp(r)' => StartingUp(r)
  PROVE  SyncOK(r)'
<1>1. Busy(r)' = Busy(r)
  BY DEF Busy
<1>2. ASSUME ~StartingUp(r)', ~crossed'[r]
      PROVE  Along(r)'
  BY <1>1, <1>2 DEF SyncOK, Along, InForce
<1> QED BY <1>1, <1>2 DEF SyncOK

LEMMA StartsKeeps ==
  ASSUME SyncTypeOK, NEW r \in Replicas, SyncOK(r), StartingUp(r), pc'[r] = "idle", Starts(r)
  PROVE  SyncOK(r)'
<1>1. /\ installed'[r] = copy'[r].model.roles
      /\ Busy(r)' = {}
  BY DEF Starts, SyncTypeOK, SyncOK, Busy
<1> QED BY <1>1 DEF SyncOK, StartingUp, SeedingNow, Along, InForce

-----------------------------------------------------------------------------
(* The steps of a replica. *)

\* What Run leaves of the lock, and of the other replicas.
LEMMA RunSteps ==
  ASSUME TypeOK, NEW r \in Replicas, NEW c \in Changes, NEW d \in Documents,
         NEW v \in Nat, NEW n \in Nat, Run(r, c, d, v, n)
  PROVE  /\ \/ /\ Outcome(c.edit, d.model).result = "write"
               /\ pc'[r] = "saving" /\ change'[r] = c /\ attempt'[r] = n
               /\ copy'[r].model = Outcome(c.edit, d.model).model
            \/ /\ Outcome(c.edit, d.model).result \in {"nochange", "refused"}
               /\ pc'[r] = "idle" /\ copy'[r] = d
         /\ \A q \in Replicas \ {r} :
               /\ pc'[q] = pc[q] /\ copy'[q] = copy[q]
               /\ change'[q] = change[q] /\ attempt'[q] = attempt[q]
<1> DEFINE out == Outcome(c.edit, d.model)
<1>1. out.result \in Results
  BY NumbersType, OutcomeIsModel DEF IsOutcome, Documents
<1>2. CASE out.result = "write"
  BY <1>2 DEF Run, TypeOK
<1>3. CASE out.result # "write"
  BY <1>1, <1>3 DEF Run, TypeOK, Results
<1> QED BY <1>2, <1>3

\* A step of r leaves the installations of the others alone.
SyncOfOne(r) ==
    \A q \in Replicas \ {r} :
        /\ installed'[q] = installed[q]
        /\ installing'[q] = installing[q]
        /\ crossed'[q] = crossed[q]

LEMMA SyncTypes ==
  ASSUME SyncTypeOK, TypeOK', NEW r \in Replicas, NEW i \in Installers
  PROVE  /\ BecomesDue(r, i) => SyncTypeOK' /\ SyncOfOne(r)
         /\ InstallsNothing(r) => SyncTypeOK' /\ SyncOfOne(r)
         /\ Fails(r) => SyncTypeOK' /\ SyncOfOne(r)
         /\ Starts(r) => SyncTypeOK' /\ SyncOfOne(r)
         /\ UNCHANGED syncVars => SyncTypeOK' /\ SyncOfOne(r)
<1>1. copy'[r].model.roles \in Rolesets
  BY DEF TypeOK, Documents, Models, Rolesets
<1>2. BecomesDue(r, i) => SyncTypeOK' /\ SyncOfOne(r)
  BY SyncBasics DEF SyncTypeOK, BecomesDue, SyncOfOne
<1>3. InstallsNothing(r) => SyncTypeOK' /\ SyncOfOne(r)
  <2> SUFFICES ASSUME InstallsNothing(r)
               PROVE  SyncTypeOK' /\ SyncOfOne(r)
    OBVIOUS
  <2>1. crossed' = [crossed EXCEPT ![r] = crossed[r] \/ attempt[r] > 0]
    BY DEF InstallsNothing
  <2>2. (crossed[r] \/ attempt[r] > 0) \in BOOLEAN
    BY DEF SyncTypeOK
  <2> QED BY <2>1, <2>2 DEF SyncTypeOK, InstallsNothing, SyncOfOne
<1>4. Fails(r) => SyncTypeOK' /\ SyncOfOne(r)
  BY DEF SyncTypeOK, Fails, SyncOfOne
<1>5. Starts(r) => SyncTypeOK' /\ SyncOfOne(r)
  BY <1>1 DEF SyncTypeOK, Starts, SyncOfOne
<1>6. UNCHANGED syncVars => SyncTypeOK' /\ SyncOfOne(r)
  BY DEF SyncTypeOK, syncVars, SyncOfOne
<1> QED BY <1>2, <1>3, <1>4, <1>5, <1>6

\* What a step of r must be shown to do.
Advances(r) ==
    /\ SyncTypeOK'
    /\ SyncOK(r)'
    /\ \A q \in Replicas \ {r} : SyncSame(q)

\* It leaves the lock and the copy of the others alone as well.
LockOfOne(r) ==
    \A q \in Replicas \ {r} :
        /\ pc'[q] = pc[q] /\ copy'[q] = copy[q]
        /\ change'[q] = change[q] /\ attempt'[q] = attempt[q]

\* A handler that is done without Replace.
LEMMA NothingKeeps ==
  ASSUME SyncTypeOK, TypeOK', NEW r \in Replicas, SyncOK(r), LockOfOne(r),
         ~StartingUp(r), pc'[r] = "idle", InstallsNothing(r),
         ~(attempt[r] > 0) =>
             RolesAsTheyWere(r) /\ copy'[r].model.roles = copy[r].model.roles
  PROVE  Advances(r)
<1>1. crossed'[r] = (crossed[r] \/ attempt[r] > 0)
  BY DEF InstallsNothing, SyncTypeOK
<1>2. /\ installed'[r] = installed[r] /\ installing'[r] = installing[r]
      /\ ~StartingUp(r)'
  BY DEF InstallsNothing, StartingUp, SeedingNow
<1>3. "follow" \in Installers
  BY DEF Installers
<1>4. SyncOK(r)'
  BY <1>1, <1>2, UntouchedKeeps
<1> QED BY <1>3, <1>4, SyncTypes DEF Advances, SyncSame, SyncOfOne, LockOfOne

\* A handler to whom the store answered without an error: the roles are the
\* copy's, or it has them to install.
LEMMA SucceedsKeeps ==
  ASSUME SyncTypeOK, TypeOK', NEW r \in Replicas, SyncOK(r), LockOfOne(r),
         ~StartingUp(r), pc'[r] = "idle", NEW e \in Edits, Succeeds(r, e),
         e.kind \notin Replacing /\ ~(attempt[r] > 0) =>
             RolesAsTheyWere(r) /\ copy'[r].model.roles = copy[r].model.roles
  PROVE  Advances(r)
<1>1. CASE e.kind \in Replacing
  <2>1. PICK h \in IdleHandlers(r) : BecomesDue(r, h)
    BY <1>1 DEF Succeeds
  <2>2. h \in Installers /\ h \notin Busy(r)
    BY DEF IdleHandlers, Installers
  <2> QED BY <2>1, <2>2, SyncTypes, DueKeeps DEF Advances, SyncSame, SyncOfOne, LockOfOne
<1>2. CASE e.kind \notin Replacing
  BY <1>2, NothingKeeps DEF Succeeds
<1> QED BY <1>1, <1>2

\* Where a change fails the roles installed are no longer vouched for.
LEMMA FailsKeeps ==
  ASSUME SyncTypeOK, TypeOK', NEW r \in Replicas, SyncOK(r), LockOfOne(r),
         ~StartingUp(r), pc'[r] = "idle", Fails(r)
  PROVE  Advances(r)
<1>1. /\ installed'[r] = installed[r] /\ installing'[r] = installing[r] /\ crossed'[r]
      /\ ~StartingUp(r)'
  BY DEF Fails, StartingUp, SeedingNow, SyncTypeOK
<1>2. "follow" \in Installers
  BY DEF Installers
<1>3. SyncOK(r)'
  BY <1>1, UntouchedKeeps
<1> QED BY <1>2, <1>3, SyncTypes DEF Advances, SyncSame, SyncOfOne, LockOfOne

\* Where the authorizer is made.
LEMMA StartsAdvances ==
  ASSUME SyncTypeOK, TypeOK', NEW r \in Replicas, SyncOK(r), LockOfOne(r),
         StartingUp(r), pc'[r] = "idle", Starts(r)
  PROVE  Advances(r)
<1>1. "follow" \in Installers
  BY DEF Installers
<1> QED BY <1>1, StartsKeeps, SyncTypes DEF Advances, SyncSame, SyncOfOne, LockOfOne

\* Where nothing is installed.
LEMMA UnchangedAdvances ==
  ASSUME SyncTypeOK, TypeOK', NEW r \in Replicas, SyncOK(r), LockOfOne(r),
         UNCHANGED syncVars,
         ~StartingUp(r)' => ~StartingUp(r),
         StartingUp(r)' => StartingUp(r),
         pc'[r] = "conflict" => attempt'[r] > 0,
         ~StartingUp(r)' /\ RolesAsTheyWere(r)' =>
             RolesAsTheyWere(r) /\ copy'[r].model.roles = copy[r].model.roles
  PROVE  Advances(r)
<1>1. "follow" \in Installers
  BY DEF Installers
<1>2. /\ installed'[r] = installed[r] /\ installing'[r] = installing[r]
      /\ crossed'[r] = crossed[r]
  BY DEF syncVars
<1>3. SyncOK(r)'
  BY <1>2, UntouchedKeeps
<1> QED BY <1>1, <1>3, SyncTypes DEF Advances, SyncSame, SyncOfOne, LockOfOne

LEMMA CallingKeeps ==
  ASSUME TypeInv, TypeOK', SyncTypeOK, NEW r \in Replicas, SyncOK(r),
         NEW e \in Calls, Calling(r, e)
  PROVE  Advances(r)
<1> DEFINE c == [edit |-> e, id |-> spent'["edits"]]
<1>1. TypeOK /\ pc[r] = "idle" /\ Spend("edits") /\ Run(r, c, copy[r], version[r], 0)
  BY DEF Calling, Begin, TypeInv
<1>2. /\ c \in Changes /\ c # Seeding /\ c.edit = e /\ e \in Edits
      /\ copy[r] \in Documents /\ copy[r].model \in Models
      /\ version[r] \in Nat
  <2>1. spent'["edits"] \in 1 .. MaxEdits
    BY <1>1, BeginNumber
  <2>2. c \in Changes /\ c.id # 0
    BY <2>1, BoundsAreNat DEF Changes
  <2>3. c # Seeding
    BY <2>2 DEF Seeding
  <2> QED BY <1>1, <2>2, <2>3, CallsAreEdits, SyncBasics DEF TypeOK
<1> HIDE DEF c
<1>3. LockOfOne(r)
  BY <1>1, <1>2, RunSteps DEF LockOfOne
<1>4. ~StartingUp(r)
  BY <1>1 DEF StartingUp, SeedingNow
<1>5. CASE pc'[r] = "idle"
  <2>1. copy'[r] = copy[r] /\ Outcome(e, copy[r].model).result \in {"nochange", "refused"}
    BY <1>1, <1>2, <1>5, RunSteps
  <2>2. Ends(r, [edit |-> e, id |-> 1], copy[r].model)
    BY <1>5 DEF Calling
  <2>3. [edit |-> e, id |-> 1] # Seeding
    BY DEF Seeding
  <2>4. RolesAsTheyWere(r)
    BY <1>1 DEF RolesAsTheyWere
  <2>5. CASE Outcome(e, copy[r].model).result = "nochange"
    <3>1. Succeeds(r, e)
      BY <2>2, <2>3, <2>5 DEF Ends
    <3> QED BY <1>1, <1>2, <1>3, <1>4, <1>5, <2>1, <2>4, <3>1, SucceedsKeeps
  <2>6. CASE Outcome(e, copy[r].model).result = "refused"
    <3>1. InstallsNothing(r)
      BY <2>2, <2>3, <2>6 DEF Ends
    <3> QED BY <1>1, <1>3, <1>4, <1>5, <2>1, <2>4, <3>1, NothingKeeps
  <2> QED BY <2>1, <2>5, <2>6
<1>6. CASE pc'[r] # "idle"
  <2>1. /\ pc'[r] = "saving" /\ change'[r] = c /\ attempt'[r] = 0
        /\ copy'[r].model = Outcome(e, copy[r].model).model
    BY <1>1, <1>2, <1>6, RunSteps
  <2>2. UNCHANGED syncVars
    BY <1>6 DEF Calling
  <2>3. ~StartingUp(r)'
    BY <1>2, <2>1 DEF StartingUp, SeedingNow
  <2>4. RolesAsTheyWere(r)' =>
            RolesAsTheyWere(r) /\ copy'[r].model.roles = copy[r].model.roles
    BY <1>1, <1>2, <2>1, RolesStay DEF RolesAsTheyWere
  <2> QED BY <1>3, <1>4, <2>1, <2>2, <2>3, <2>4, UnchangedAdvances
<1> QED BY <1>5, <1>6

\* What the end of a change leaves.
LEMMA ReleaseSteps ==
  ASSUME TypeOK, NEW r \in Replicas, NEW ok \in BOOLEAN, Release(r, ok)
  PROVE  /\ pc'[r] = IF change[r] = Seeding /\ ~ok THEN "down" ELSE "idle"
         /\ \A q \in Replicas \ {r} :
               pc'[q] = pc[q] /\ change'[q] = change[q] /\ attempt'[q] = attempt[q]
  BY DEF Release, TypeOK

LEMMA SavingKeeps ==
  ASSUME TypeInv, TypeOK', SyncTypeOK, NEW r \in Replicas, SyncOK(r), Saving(r)
  PROVE  Advances(r)
<1>1. /\ TypeOK /\ pc[r] = "saving" /\ Release(r, TRUE) /\ UNCHANGED copy
      /\ change[r] \in Changes /\ change[r].edit \in Edits /\ attempt[r] \in Nat
  BY NumbersType DEF Saving, SaveAccepted, TypeInv, InHand, TypeOK
<1>2. pc'[r] = "idle" /\ LockOfOne(r)
  BY <1>1, ReleaseSteps DEF LockOfOne
<1>3. CASE change[r] = Seeding
  BY <1>1, <1>2, <1>3, StartsAdvances DEF Saving, StartingUp, SeedingNow
<1>4. CASE change[r] # Seeding
  <2>1. Succeeds(r, change[r].edit)
    BY <1>4 DEF Saving
  <2>2. ~StartingUp(r)
    BY <1>1, <1>4 DEF StartingUp, SeedingNow
  <2>3. change[r].edit.kind \notin Replacing /\ ~(attempt[r] > 0) =>
            RolesAsTheyWere(r) /\ copy'[r].model.roles = copy[r].model.roles
    BY <1>1, <1>4 DEF RolesAsTheyWere
  <2> QED BY <1>1, <1>2, <2>1, <2>2, <2>3, SucceedsKeeps
<1> QED BY <1>3, <1>4

LEMMA ReloadingKeeps ==
  ASSUME TypeInv, TypeOK', SyncTypeOK, NEW r \in Replicas, SyncOK(r), Reloading(r)
  PROVE  Advances(r)
<1>1. /\ TypeOK /\ pc[r] = "conflict" /\ Exists
      /\ Run(r, change[r], Latest, Len(revs), attempt[r])
  BY DEF Reloading, Reload, TypeInv
<1>2. /\ change[r] \in Changes /\ change[r].edit \in Edits
      /\ attempt[r] \in Nat /\ attempt[r] > 0
      /\ Latest \in Documents /\ Len(revs) \in Nat
  BY <1>1, NumbersType, LatestIsDocument DEF TypeInv, InHand, TypeOK, SyncOK
<1>3. LockOfOne(r)
  BY <1>1, <1>2, RunSteps DEF LockOfOne
<1>4. StartingUp(r) <=> change[r] = Seeding
  BY <1>1 DEF StartingUp, SeedingNow
<1>5. CASE pc'[r] = "idle"
  <2>1. Outcome(change[r].edit, Latest.model).result \in {"nochange", "refused"}
    BY <1>1, <1>2, <1>5, RunSteps
  <2>2. Ends(r, change[r], Latest.model)
    BY <1>5 DEF Reloading
  <2>3. CASE change[r] = Seeding
    <3>1. Starts(r)
      BY <2>2, <2>3 DEF Ends
    <3> QED BY <1>1, <1>3, <1>4, <1>5, <2>3, <3>1, StartsAdvances
  <2>4. CASE change[r] # Seeding /\ Outcome(change[r].edit, Latest.model).result = "nochange"
    <3>1. Succeeds(r, change[r].edit)
      BY <2>2, <2>4 DEF Ends
    <3> QED BY <1>2, <1>3, <1>4, <1>5, <2>4, <3>1, SucceedsKeeps
  <2>5. CASE change[r] # Seeding /\ Outcome(change[r].edit, Latest.model).result = "refused"
    <3>1. InstallsNothing(r)
      BY <2>2, <2>5 DEF Ends
    <3> QED BY <1>2, <1>3, <1>4, <1>5, <2>5, <3>1, NothingKeeps
  <2> QED BY <2>1, <2>3, <2>4, <2>5
<1>6. CASE pc'[r] # "idle"
  <2>1. pc'[r] = "saving" /\ change'[r] = change[r] /\ attempt'[r] = attempt[r]
    BY <1>1, <1>2, <1>6, RunSteps
  <2>2. UNCHANGED syncVars
    BY <1>6 DEF Reloading
  <2>3. StartingUp(r)' <=> StartingUp(r)
    BY <1>1, <2>1 DEF StartingUp, SeedingNow
  <2>4. ~RolesAsTheyWere(r)'
    BY <1>2, <2>1 DEF RolesAsTheyWere
  <2> QED BY <1>3, <2>1, <2>2, <2>3, <2>4, UnchangedAdvances
<1> QED BY <1>5, <1>6

LEMMA ConflictingKeeps ==
  ASSUME TypeInv, TypeOK', SyncTypeOK, NEW r \in Replicas, SyncOK(r), Conflicting(r)
  PROVE  Advances(r)
<1>1. /\ TypeOK /\ pc[r] = "saving" /\ UNCHANGED copy /\ attempt[r] \in Nat
      /\ change[r] \in Changes
  BY DEF Conflicting, SaveConflict, TypeInv, InHand, TypeOK
<1>2. StartingUp(r) <=> change[r] = Seeding
  BY <1>1 DEF StartingUp, SeedingNow
<1>3. CASE attempt[r] + 1 >= MaxAttempts
  <2>1. Release(r, FALSE)
    BY <1>3 DEF Conflicting, SaveConflict
  <2>2. LockOfOne(r)
    BY <1>1, <2>1, ReleaseSteps DEF LockOfOne
  <2>3. CASE change[r] = Seeding
    <3>1. pc'[r] = "down"
      BY <1>1, <2>1, <2>3, ReleaseSteps
    <3>2. UNCHANGED syncVars /\ StartingUp(r)'
      BY <3>1 DEF Conflicting, StartingUp
    <3> QED BY <1>2, <2>2, <2>3, <3>1, <3>2, UnchangedAdvances
  <2>4. CASE change[r] # Seeding
    <3>1. pc'[r] = "idle"
      BY <1>1, <2>1, <2>4, ReleaseSteps
    <3>2. Fails(r)
      BY <3>1 DEF Conflicting
    <3> QED BY <1>2, <2>2, <2>4, <3>1, <3>2, FailsKeeps
  <2> QED BY <2>3, <2>4
<1>4. CASE ~(attempt[r] + 1 >= MaxAttempts)
  <2>1. /\ pc' = [pc EXCEPT ![r] = "conflict"]
        /\ attempt' = [attempt EXCEPT ![r] = @ + 1]
        /\ UNCHANGED change
    BY <1>4 DEF Conflicting, SaveConflict
  <2>2. /\ LockOfOne(r) /\ pc'[r] = "conflict" /\ attempt'[r] > 0 /\ change'[r] = change[r]
    BY <1>1, <2>1 DEF LockOfOne, TypeOK
  <2>3. UNCHANGED syncVars
    BY <2>2 DEF Conflicting
  <2>4. (StartingUp(r)' <=> StartingUp(r)) /\ ~RolesAsTheyWere(r)'
    BY <1>1, <2>2 DEF StartingUp, SeedingNow, RolesAsTheyWere
  <2> QED BY <2>2, <2>3, <2>4, UnchangedAdvances
<1> QED BY <1>3, <1>4

LEMMA FailingKeeps ==
  ASSUME TypeInv, TypeOK', SyncTypeOK, NEW r \in Replicas, SyncOK(r), Failing(r)
  PROVE  Advances(r)
<1>1. /\ TypeOK /\ pc[r] \in {"saving", "conflict"} /\ Release(r, FALSE) /\ UNCHANGED copy
  BY DEF Failing, SaveRefused, SaveUnacknowledged, ReloadGone, ReloadFails, TypeInv
<1>2. LockOfOne(r)
  BY <1>1, ReleaseSteps DEF LockOfOne
<1>3. CASE change[r] = Seeding
  <2>1. pc'[r] = "down"
    BY <1>1, <1>3, ReleaseSteps
  <2>2. UNCHANGED syncVars /\ StartingUp(r)' /\ StartingUp(r)
    BY <1>1, <1>3, <2>1 DEF Failing, StartingUp, SeedingNow
  <2> QED BY <1>2, <2>1, <2>2, UnchangedAdvances
<1>4. CASE change[r] # Seeding
  <2>1. pc'[r] = "idle"
    BY <1>1, <1>4, ReleaseSteps
  <2>2. Fails(r) /\ ~StartingUp(r)
    BY <1>1, <1>4, <2>1 DEF Failing, StartingUp, SeedingNow
  <2> QED BY <1>2, <2>1, <2>2, FailsKeeps
<1> QED BY <1>3, <1>4

LEMMA StartingKeeps ==
  ASSUME TypeInv, TypeOK', SyncTypeOK, NEW r \in Replicas, SyncOK(r), Starting(r)
  PROVE  Advances(r)
<1>1. CASE Open(r) \/ Create(r)
  <2>1. /\ StartingUp(r) /\ pc'[r] \in {"down", "creating", "starting"} /\ LockOfOne(r)
    BY <1>1 DEF TypeInv, TypeOK, Open, Create, StartingUp, LockOfOne
  <2>2. UNCHANGED syncVars /\ StartingUp(r)'
    BY <1>1, <2>1 DEF Starting, StartingUp
  <2> QED BY <2>1, <2>2, UnchangedAdvances
<1>2. CASE Seed(r)
  <2>1. /\ TypeOK /\ StartingUp(r) /\ Run(r, Seeding, copy[r], version[r], 0)
        /\ Seeding \in Changes /\ copy[r] \in Documents /\ version[r] \in Nat
    BY <1>2 DEF TypeInv, TypeOK, Seed, StartingUp, Seeding, Changes
  <2>2. LockOfOne(r)
    BY <2>1, RunSteps DEF LockOfOne
  <2>3. CASE pc'[r] = "idle"
    BY <1>2, <2>1, <2>2, <2>3, StartsAdvances DEF Starting
  <2>4. CASE pc'[r] # "idle"
    <3>1. pc'[r] = "saving" /\ change'[r] = Seeding
      BY <2>1, <2>4, RunSteps
    <3>2. UNCHANGED syncVars /\ StartingUp(r)'
      BY <2>4, <3>1 DEF Starting, StartingUp, SeedingNow
    <3> QED BY <2>1, <2>2, <3>1, <3>2, UnchangedAdvances
  <2> QED BY <2>3, <2>4
<1> QED BY <1>1, <1>2 DEF Starting

LEMMA CrashingKeeps ==
  ASSUME TypeInv, SyncTypeOK, TypeOK', NEW r \in Replicas, SyncOK(r), Crashing(r)
  PROVE  Advances(r)
<1>1. /\ NoRoles \in Rolesets
      /\ [i \in Installers |-> Nothing] \in [Installers -> Stages]
  BY SyncBasics DEF NoRoles, Rolesets
<1>2. SyncTypeOK'
  BY <1>1 DEF SyncTypeOK, Crashing
<1>3. pc'[r] = "down" /\ LockOfOne(r) /\ SyncOfOne(r)
  BY DEF Crashing, Crash, LockOfOne, SyncOfOne, SyncTypeOK, TypeInv, TypeOK
<1>4. installing'[r] = [i \in Installers |-> Nothing]
  BY DEF Crashing, SyncTypeOK
<1>5. Busy(r)' = {}
  BY <1>4 DEF Busy
<1>6. SyncOK(r)'
  BY <1>3, <1>5 DEF SyncOK, StartingUp
<1> QED BY <1>2, <1>3, <1>6 DEF Advances, SyncSame, LockOfOne, SyncOfOne

LEMMA FollowingKeeps ==
  ASSUME TypeInv, TypeOK', SyncTypeOK, NEW r \in Replicas, SyncOK(r), Following(r)
  PROVE  Advances(r)
<1>1. /\ TypeOK /\ pc[r] = "idle" /\ pc' = pc /\ change' = change /\ attempt' = attempt
      /\ watch[r] \in 1 .. Len(revs) /\ "follow" \in Installers
  BY DEF Following, Deliver, TypeInv, Installers
<1>2. /\ LockOfOne(r) /\ ~StartingUp(r) /\ ~StartingUp(r)' /\ RolesAsTheyWere(r)
      /\ version'[r] = version[r] => copy'[r] = copy[r]
  BY <1>1 DEF Following, Deliver, LockOfOne, TypeOK, StartingUp, SeedingNow, RolesAsTheyWere
<1>3. CASE version'[r] = version[r]
  BY <1>1, <1>2, <1>3, UnchangedAdvances DEF Following
<1>4. CASE version'[r] # version[r]
  <2>1. BecomesDue(r, "follow") /\ "follow" \notin Busy(r)
    BY <1>4 DEF Following, Busy
  <2>2. SyncOK(r)'
    BY <1>1, <1>2, <2>1, DueKeeps
  <2> QED BY <1>1, <1>2, <2>1, <2>2, SyncTypes DEF Advances, SyncSame, SyncOfOne, LockOfOne
<1> QED BY <1>3, <1>4

\* Reading the roles makes an installation one for the copy's; if it is the only
\* one under way, whatever was before is past.
LEMMA ReadsKeeps ==
  ASSUME TypeInv, TypeOK', SyncTypeOK, NEW r \in Replicas, SyncOK(r), NEW i \in Installers,
         Reads(r, i)
  PROVE  Advances(r)
<1> DEFINE now == copy[r].model.roles
<1>1. now \in Rolesets /\ Holding(now) \in Stages
  BY SyncBasics
<1>2. /\ pc[r] = "idle" /\ UNCHANGED <<vars, installed>>
      /\ i \in Busy(r) /\ LockOfOne(r)
  BY StageMarks DEF Reads, Busy, LockOfOne, vars
<1>3. /\ installing' = [installing EXCEPT ![r] = [installing[r] EXCEPT ![i] = Holding(now)]]
      /\ crossed' = [crossed EXCEPT ![r] = Busy(r) # {i}]
  BY DEF Reads, SyncTypeOK
<1> HIDE DEF now
<1>4. SyncTypeOK' /\ SyncOfOne(r)
  BY <1>1, <1>2, <1>3 DEF SyncTypeOK, SyncOfOne
<1>5. /\ Busy(r)' = Busy(r)
      /\ installing'[r][i] = Holding(now)
      /\ crossed'[r] = (Busy(r) # {i})
  BY <1>2, <1>3, StageMarks DEF Busy, SyncTypeOK
<1>6. ~StartingUp(r)' /\ pc'[r] = "idle" /\ copy'[r].model.roles = now
  BY <1>2 DEF StartingUp, SeedingNow, vars, now
<1>7. ASSUME ~crossed'[r]
      PROVE  Along(r)'
  <2>1. Busy(r)' = {i}
    BY <1>5, <1>7
  <2>2. installing'[r][i].roles = copy'[r].model.roles
    BY <1>5, <1>6, StageMarks
  <2> QED BY <2>1, <2>2 DEF Along
<1>8. SyncOK(r)'
  BY <1>6, <1>7 DEF SyncOK
<1> QED BY <1>2, <1>4, <1>8 DEF Advances, SyncSame, SyncOfOne, LockOfOne

\* The one that is under way has the copy's roles to install.
LEMMA InstallsKeeps ==
  ASSUME TypeInv, TypeOK', SyncTypeOK, NEW r \in Replicas, SyncOK(r), NEW i \in Installers,
         Installs(r, i)
  PROVE  Advances(r)
<1> DEFINE held == installing[r][i].roles
<1>1. /\ UNCHANGED <<vars, crossed>> /\ LockOfOne(r)
      /\ installing[r][i].at = "holding" /\ i \in Busy(r)
  BY StageMarks DEF Installs, Busy, LockOfOne, vars
<1>2. held \in Rolesets
  BY <1>1, StageMarks DEF SyncTypeOK, Stages
<1>3. /\ installing' = [installing EXCEPT ![r] = [installing[r] EXCEPT ![i] = Nothing]]
      /\ installed' = [installed EXCEPT ![r] = held]
  BY DEF Installs, SyncTypeOK
<1> HIDE DEF held
<1>4. SyncTypeOK' /\ SyncOfOne(r)
  BY <1>1, <1>2, <1>3, SyncBasics DEF SyncTypeOK, SyncOfOne
<1>5. /\ Busy(r)' = Busy(r) \ {i}
      /\ installed'[r] = held
  BY <1>3 DEF Busy, SyncTypeOK
<1>6. /\ StartingUp(r)' <=> StartingUp(r)
      /\ RolesAsTheyWere(r)' <=> RolesAsTheyWere(r)
      /\ copy'[r] = copy[r] /\ crossed'[r] = crossed[r]
      /\ pc'[r] = pc[r] /\ attempt'[r] = attempt[r]
  BY <1>1 DEF StartingUp, SeedingNow, RolesAsTheyWere, vars
<1>7. ASSUME Along(r)
      PROVE  Along(r)'
  <2>1. Busy(r)' = {}
    BY <1>1, <1>5, <1>7 DEF Along
  <2>2. RolesAsTheyWere(r) => held = copy[r].model.roles
    BY <1>1, <1>7 DEF Along, held
  <2> QED BY <1>5, <1>6, <2>1, <2>2 DEF Along, InForce
<1>8. SyncOK(r)'
  BY <1>1, <1>6, <1>7 DEF SyncOK
<1> QED BY <1>1, <1>4, <1>8 DEF Advances, SyncSame, SyncOfOne, LockOfOne

\* What leaves the lock, the copies and the installations alone.
LEMMA RestKeeps ==
  ASSUME TypeInv, TypeOK', SyncInv, UNCHANGED <<pc, copy, change, attempt>>, UNCHANGED syncVars
  PROVE  SyncInv'
<1>1. SyncTypeOK'
  BY DEF SyncInv, SyncTypeOK, syncVars
<1>2. ASSUME NEW q \in Replicas
      PROVE  SyncOK(q)'
  <2>1. SyncOK(q) /\ SyncSame(q)
    BY DEF SyncInv, SyncSame, syncVars
  <2> QED BY <2>1, SyncFrame
<1> QED BY <1>1, <1>2 DEF SyncInv

LEMMA SyncImplements == SyncSpec => Spec
<1>1. SyncInit => Init
  BY DEF SyncInit
<1>2. [SyncNext]_allVars => [Next]_vars
  <2> SUFFICES ASSUME [SyncNext]_allVars
               PROVE  [Next]_vars
    OBVIOUS
  <2>1. CASE UNCHANGED allVars
    BY <2>1 DEF allVars, vars
  <2>2. ASSUME NEW r \in Replicas,
               \/ \E e \in Calls : Calling(r, e)
               \/ Saving(r) \/ Reloading(r) \/ Conflicting(r) \/ Failing(r)
        PROVE  Mutate(r)
    BY <2>2 DEF Calling, Saving, Reloading, Conflicting, Failing, Mutate
  <2>3. ASSUME NEW r \in Replicas, Starting(r) \/ Crashing(r)
        PROVE  Lifecycle(r)
    BY <2>3 DEF Starting, Crashing, Lifecycle
  <2>4. ASSUME NEW r \in Replicas, Following(r) \/ WatchStarts(r) \/ WatchDrops(r)
        PROVE  Watching(r)
    BY <2>4 DEF Following, Watching
  <2>5. ASSUME NEW r \in Replicas, NEW i \in Installers, Reads(r, i) \/ Installs(r, i)
        PROVE  UNCHANGED vars
    BY <2>5 DEF Reads, Installs
  <2>6. CASE SyncNext
    BY <2>2, <2>3, <2>4, <2>5, <2>6 DEF SyncNext, Next
  <2> QED BY <2>1, <2>6
<1> QED BY <1>1, <1>2, PTL DEF SyncSpec, Spec

LEMMA SyncInvariance == SyncSpec => []SyncInv
<1>1. SyncInit => SyncInv
  <2> SUFFICES ASSUME SyncInit
               PROVE  SyncInv
    OBVIOUS
  <2>1. TypeOK
    BY EmptyIsDocument DEF SyncInit, Init, TypeOK, Bounds
  <2>2. NoRoles \in Rolesets /\ Nothing \in Stages
    BY DEF NoRoles, Rolesets, Stages
  <2>3. SyncTypeOK
    BY <2>1, <2>2 DEF SyncInit, SyncTypeOK
  <2>4. ASSUME NEW r \in Replicas
        PROVE  SyncOK(r)
    BY DEF SyncInit, Init, SyncOK, StartingUp, Busy
  <2> QED BY <2>3, <2>4 DEF SyncInv
<1>2. SyncInv /\ TypeInv /\ TypeInv' /\ [SyncNext]_allVars => SyncInv'
  <2> SUFFICES ASSUME SyncInv, TypeInv, TypeInv', [SyncNext]_allVars
               PROVE  SyncInv'
    OBVIOUS
  <2>1. TypeOK' /\ SyncTypeOK /\ \A r \in Replicas : SyncOK(r)
    BY DEF SyncInv, TypeInv
  <2>2. ASSUME NEW r \in Replicas, Advances(r)
        PROVE  SyncInv'
    <3>1. ASSUME NEW q \in Replicas
          PROVE  SyncOK(q)'
      BY <2>1, <2>2, <3>1, SyncFrame DEF Advances
    <3> QED BY <2>2, <3>1 DEF Advances, SyncInv
  <2>3. ASSUME NEW r \in Replicas,
               \/ \E e \in Calls : Calling(r, e)
               \/ Saving(r) \/ Reloading(r) \/ Conflicting(r) \/ Failing(r)
               \/ Starting(r) \/ Crashing(r) \/ Following(r)
               \/ \E i \in Installers : Reads(r, i) \/ Installs(r, i)
        PROVE  SyncInv'
    <3>1. Advances(r)
      BY <2>1, <2>3, CallingKeeps, SavingKeeps, ReloadingKeeps, ConflictingKeeps, FailingKeeps,
         StartingKeeps, CrashingKeeps, FollowingKeeps, ReadsKeeps, InstallsKeeps
    <3> QED BY <2>2, <3>1
  <2>4. ASSUME NEW r \in Replicas, (WatchStarts(r) \/ WatchDrops(r)) /\ UNCHANGED syncVars
        PROVE  SyncInv'
    BY <2>1, <2>4, RestKeeps DEF WatchStarts, WatchDrops
  <2>5. CASE Delete /\ UNCHANGED syncVars
    BY <2>1, <2>5, RestKeeps DEF Delete
  <2>6. CASE UNCHANGED allVars
    BY <2>1, <2>6, RestKeeps DEF allVars, vars
  <2> QED BY <2>3, <2>4, <2>5, <2>6 DEF SyncNext
<1>3. SyncSpec => []TypeInv
  BY SyncImplements, TypeInvariance, PTL
<1> QED BY <1>1, <1>2, <1>3, PTL DEF SyncSpec

\* For any number of replicas, handlers and changes: the authorizer of a settled
\* replica answers from the roles in its store, unless two installations crossed, or
\* a change failed or met a conflict, since the last one that had the replica to
\* itself (api/access.go, the handlers' authz.Replace, and main.go's for the watch).
THEOREM AuthorizersAgree == SyncSpec => []InForceUnlessCrossed
<1>1. SyncInv => InForceUnlessCrossed
  <2> SUFFICES ASSUME SyncInv, NEW r \in Replicas, Settled(r), ~crossed[r]
               PROVE  InForce(r)
    BY DEF InForceUnlessCrossed
  <2>1. SyncOK(r) /\ ~StartingUp(r) /\ RolesAsTheyWere(r) /\ Busy(r) = {}
    BY DEF SyncInv, Settled, StartingUp, SeedingNow, RolesAsTheyWere
  <2> QED BY <2>1 DEF SyncOK, Along
<1> QED BY <1>1, SyncInvariance, PTL
=============================================================================
