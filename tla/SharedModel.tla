---------------------------- MODULE SharedModel ----------------------------
(***************************************************************************)
(* What the store promises, however many replicas keep it: one model, to   *)
(* which changes are applied one after the other.  A publication is the    *)
(* model as it was with some changes applied to it, in some order and none *)
(* of them half: the change a caller asked for and those the same replica  *)
(* made before without getting them saved.  Nothing else moves the model,  *)
(* but for its creation, empty, and somebody deleting it.                  *)
(***************************************************************************)
EXTENDS AccessModel, Naturals, Sequences

CONSTANTS
    Calls,     \* the changes callers ask for
    MaxBatch,  \* bound of the model: changes in one publication
    NoModel    \* there is no stored model

ASSUME CallsAreEdits == Calls \subseteq Edits
ASSUME NoModelIsNoModel == NoModel \notin Models
ASSUME BatchIsNat == MaxBatch \in Nat

VARIABLE model

Init == model = NoModel

\* The model after a change: a refused change leaves it as it is.
After(m, e) == Outcome(e, m).model

Create ==
    /\ model = NoModel
    /\ model' = EmptyModel

Delete ==
    /\ model # NoModel
    /\ model' = NoModel

\* The models m becomes as the changes of a batch are applied to it.
Through(m, batch) ==
    LET after[i \in 0 .. Len(batch)] ==
            IF i = 0 THEN m ELSE After(after[i - 1], batch[i])
    IN  after

Publish ==
    /\ model # NoModel
    /\ \E n \in 0 .. MaxBatch : \E batch \in [1 .. n -> Calls \cup {SeedEdit}] :
           model' = Through(model, batch)[n]

Next == Create \/ Delete \/ Publish

Spec == Init /\ [][Next]_model

-----------------------------------------------------------------------------
(* The laws of AccessModel, on every model that changes reach. *)

Stored == model # NoModel

\* DeleteUser and then RecordSeen, and DeleteRole, on every model reached.
DeletionsRevoke == Stored => DeletionRevokes(model)

\* DeleteUser and then RecordSeen with the provider's roles, as users.go:131-133
\* says it; violated, see DeletionRevokes.
DeletedReturnWithoutRoles == Stored => ReturnsWithoutRoles(model)

\* Any call and the same call again, on every model reached.
RetriesAreHarmless == Stored => RetryIsHarmless(model, Calls \cup {SeedEdit})

\* ChangeRoleMembership and its opposite for the same people
\* (roles.go: "undoable by doing the opposite").
OppositesUndo == Stored => OppositeUndoes(model)
=============================================================================
