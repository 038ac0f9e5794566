------------------------------ MODULE FileStore ------------------------------
(***************************************************************************)
(* The access model in a file (internal/store/backend.go): the one process *)
(* that keeps it there, people who edit it by hand, and the replicas that  *)
(* move it into a Secret when they start (MigrateFile).                    *)
(*                                                                         *)
(* A document is the set of changes in it.  A version, the file's size and *)
(* the moment it was written, is the number of the write: two writes it    *)
(* could not tell apart are left out.  A hand edit is a whole document.    *)
(***************************************************************************)
EXTENDS Naturals, FiniteSets

CONSTANTS
    Movers,         \* replicas that start with storage.backend kubernetes
    MaxFileChanges  \* bounds the changes

ASSUME FileConstants == IsFiniteSet(Movers) /\ MaxFileChanges \in Nat

VARIABLES
    file,           \* version 0: there is none
    keeper,         \* the process, the copy it works on and the change it makes
    secret,         \* whether there is one, and what is in it
    movers,         \* where each replica is, and what it has read of the file
    changes,        \* how many there were
    kept,           \* those of the file that were acknowledged, or made by hand
    crossed,        \* those by hand that came between two steps of the process
    late            \* those made in the file once somebody had read it to move it

fileVars == <<file, keeper, secret, movers, changes, kept, crossed, late>>
move == <<secret, movers>>
history == <<changes, kept, crossed, late>>

Down == [pc |-> "down", copy |-> {}, version |-> 0, change |-> 0]
NotMoving == [pc |-> "down", read |-> {}]

FileInit ==
    /\ file \in [version : {0, 1}, holds : {{}}]
    /\ keeper = Down
    /\ secret = [there |-> FALSE, holds |-> {}]
    /\ movers = [m \in Movers |-> NotMoving]
    /\ changes = 0 /\ kept = {} /\ crossed = {} /\ late = {}

-----------------------------------------------------------------------------
(* The process that keeps the file. *)

At(pc) == keeper.pc = pc
Goes(pc) == keeper' = [keeper EXCEPT !.pc = pc]

\* Load, at the start or after a conflict: the file is read ...
LoadReads ==
    /\ At("down") \/ At("conflict")
    /\ file.version > 0
    /\ keeper' = [keeper EXCEPT !.pc = "read", !.copy = file.holds]
    /\ UNCHANGED <<file, move, history>>

\* ... and then its version.  A change that met the conflict is made again.
LoadStats ==
    /\ At("read")
    /\ keeper' = IF keeper.change = 0
                 THEN [keeper EXCEPT !.pc = "serving", !.version = file.version]
                 ELSE [keeper EXCEPT !.pc = "changed", !.version = file.version,
                                     !.copy = @ \cup {keeper.change}]
    /\ UNCHANGED <<file, move, history>>

\* OpenWith: without a file an empty one is written.
FirstStart ==
    /\ At("down") /\ file.version = 0
    /\ Goes("checked")
    /\ UNCHANGED <<file, move, history>>

Change ==
    /\ At("serving") /\ changes < MaxFileChanges
    /\ changes' = changes + 1
    /\ keeper' = [keeper EXCEPT !.pc = "changed", !.copy = @ \cup {changes + 1},
                                !.change = changes + 1]
    /\ UNCHANGED <<file, move, kept, crossed, late>>

\* Save compares the versions ...
Check ==
    /\ At("changed")
    /\ Goes(IF keeper.version = file.version THEN "checked" ELSE "conflict")
    /\ UNCHANGED <<file, move, history>>

\* Mutant: the file is opened for writing, and so empty.
WriteInPlace ==
    /\ At("checked")
    /\ Goes("written")
    /\ file' = [file EXCEPT !.holds = {}]
    /\ UNCHANGED <<move, history>>

\* ... writes a temporary file ...
WriteTmp ==
    /\ At("checked")
    /\ Goes("written")
    /\ UNCHANGED <<file, move, history>>

BeingMoved == secret.there \/ \E m \in Movers : movers[m].pc \in {"read", "fresh"}

Late(new) == late' = IF BeingMoved THEN late \cup new ELSE late

\* ... and renames it ...
Rename ==
    /\ At("written")
    /\ file' = [version |-> file.version + 1, holds |-> keeper.copy]
    /\ Late(keeper.copy \ file.holds)
    /\ Goes("renamed")
    /\ UNCHANGED <<move, changes, kept, crossed>>

\* ... and what is there then is taken for what was written.
SaveStats ==
    /\ At("renamed")
    /\ keeper' = [keeper EXCEPT !.pc = "serving", !.version = file.version, !.change = 0]
    /\ kept' = IF keeper.change = 0 THEN kept ELSE kept \cup {keeper.change}
    /\ UNCHANGED <<file, move, changes, crossed, late>>

\* A full volume: the change stays in the copy.
SaveFails ==
    /\ keeper.change # 0 /\ (At("checked") \/ At("written"))
    /\ keeper' = [keeper EXCEPT !.pc = "serving", !.change = 0]
    /\ UNCHANGED <<file, move, history>>

\* The process ends, or fails to start.
KeeperEnds ==
    /\ ~At("down")
    /\ keeper' = Down
    /\ UNCHANGED <<file, move, history>>

\* Somebody edits the file.
HandEdit ==
    /\ file.version > 0 /\ changes < MaxFileChanges
    /\ changes' = changes + 1
    /\ file' = [version |-> file.version + 1, holds |-> file.holds \cup {changes + 1}]
    /\ kept' = kept \cup {changes + 1}
    /\ crossed' = IF keeper.pc \in {"read", "checked", "written", "renamed"}
                  THEN crossed \cup {changes + 1} ELSE crossed
    /\ Late({changes + 1})
    /\ UNCHANGED <<keeper, move>>

-----------------------------------------------------------------------------
(* The replicas that move it. *)

Moving(m, pc, read) == movers' = [movers EXCEPT ![m] = [pc |-> pc, read |-> read]]

\* MigrateFile: a Secret that is there is left as it is ...
Looks(m) ==
    /\ movers[m].pc = "down"
    /\ Moving(m, IF secret.there THEN "serving" ELSE "unmoved", {})
    /\ UNCHANGED <<file, keeper, secret, history>>

\* Mutant: a file that cannot be read is as good as none.
ReadsFileIfItCan(m) ==
    /\ movers[m].pc = "unmoved"
    /\ \/ file.version > 0 /\ Moving(m, "read", file.holds)
       \/ Moving(m, "fresh", {})
    /\ UNCHANGED <<file, keeper, secret, history>>

\* ... the file is read, if there is one ...
ReadsFile(m) ==
    /\ movers[m].pc = "unmoved"
    /\ IF file.version > 0 THEN Moving(m, "read", file.holds) ELSE Moving(m, "fresh", {})
    /\ UNCHANGED <<file, keeper, secret, history>>

\* ... and the Secret created, by this replica or before it by another: then it
\* fails, unless it had no file and finds the Secret when it opens the store.  The
\* answer may be lost.
Moves(m) ==
    /\ movers[m].pc \in {"read", "fresh"}
    /\ secret' = IF secret.there THEN secret ELSE [there |-> TRUE, holds |-> movers[m].read]
    /\ \/ (~secret.there \/ movers[m].pc = "fresh") /\ Moving(m, "serving", {})
       \/ Moving(m, "down", {})
    /\ UNCHANGED <<file, keeper, history>>

\* A change of the model that is kept in the Secret.
ChangesSecret(m) ==
    /\ movers[m].pc = "serving" /\ changes < MaxFileChanges
    /\ changes' = changes + 1
    /\ secret' = [secret EXCEPT !.holds = @ \cup {changes + 1}]
    /\ UNCHANGED <<file, keeper, movers, kept, crossed, late>>

\* It ends, or fails to start.
MoverEnds(m) ==
    /\ movers[m].pc # "down"
    /\ Moving(m, "down", {})
    /\ UNCHANGED <<file, keeper, secret, history>>

FileNext ==
    \/ LoadReads \/ LoadStats \/ FirstStart \/ Change \/ Check \/ WriteTmp \/ Rename
    \/ SaveStats \/ SaveFails \/ KeeperEnds \/ HandEdit
    \/ \E m \in Movers :
           Looks(m) \/ ReadsFile(m) \/ Moves(m) \/ ChangesSecret(m) \/ MoverEnds(m)

FileSpec == FileInit /\ [][FileNext]_fileVars

-----------------------------------------------------------------------------

\* Wherever the process is stopped and whichever write fails, the file has every
\* change that was acknowledged and every one made by hand, but for one by hand that
\* came between reading the file and its version, or between comparing the version
\* and taking note of the new one (backend.go:59-90).
FileKeepsChanges ==
    kept \subseteq file.holds \cup crossed

\* The move carries over all that is in the file when it is read: a Secret that is
\* there has every change that was kept before (backend.go:105-123).
MoveCarriesTheFile ==
    secret.there => kept \subseteq secret.holds \cup crossed \cup late
=============================================================================
