----------------------------- MODULE ConfigPair -----------------------------
(***************************************************************************)
(* One configuration file, opened and saved in the portal                  *)
(* (internal/api/configs.go, internal/configsource): in a repository or in *)
(* Consul alone, or in a repository with the Consul store a synchroniser   *)
(* copies it into.                                                         *)
(*                                                                         *)
(* The primary is the side a save is checked against, the copy is Consul   *)
(* in a pair.  A text is the set of edits it contains and whether it ends  *)
(* in a newline; every save adds one edit to the text its editor opened.   *)
(***************************************************************************)
EXTENDS Naturals, FiniteSets

CONSTANTS
    Editors,
    MaxEdits,       \* bounds the edits, in the portal and elsewhere
    MaxCopies       \* bounds the writes of the copy

ASSUME PairConstants ==
    Editors # {} /\ IsFiniteSet(Editors) /\ MaxEdits \in Nat /\ MaxCopies \in Nat

VARIABLES
    paired,         \* whether there is a copy
    primary, copy,  \* [text, version]; a version counts the writes
    requests,       \* what each editor's browser and its request are at
    sync,           \* the synchroniser: the text it is carrying across, if any
    made,           \* how many edits have been made
    audit,          \* the edits on record
    emergencies,    \* the edits written to the copy only
    lost,           \* the edits whose request a crash ended
    behind          \* why the copy may differ from the primary

pairVars == <<paired, primary, copy, requests, sync, made, audit, emergencies, lost, behind>>

Edits == 1..MaxEdits
Texts == [edits : SUBSET Edits, newline : BOOLEAN]
Absent == [edits |-> {}, newline |-> FALSE]     \* a file without text is not there
Unknown == [state |-> "unknown"]                \* the side could not be read

Closed == [pc |-> "closed"]
Verdicts == {"match", "differ", "missing-in-consul", "missing-in-git", "none"}

PairTypeOK ==
    /\ paired \in BOOLEAN
    /\ {primary, copy} \subseteq [text : Texts, version : 0..(MaxEdits + MaxCopies)]
    /\ sync \in Texts
    /\ made \in 0..MaxEdits
    /\ audit \cup emergencies \cup lost \subseteq Edits
    /\ behind \subseteq {"lagging", "unacknowledged", "crash", "emergency", "elsewhere",
                         "overtaken", "synchroniser", "never copied"}
    /\ \A e \in Editors : requests[e].pc \in
           {"closed", "reading", "editing", "committed", "answering"}
    /\ ~paired => copy = [text |-> Absent, version |-> 0]

Fresh == [edits |-> {1}, newline |-> TRUE]

PairInit ==
    /\ paired \in BOOLEAN
    /\ primary \in [text : {Fresh, Absent}, version : {1}]
    /\ copy \in IF paired THEN [text : {Fresh, Absent}, version : {0}]
                ELSE {[text |-> Absent, version |-> 0]}
    /\ requests = [e \in Editors |-> Closed]
    /\ sync = Absent /\ made = 1 /\ audit = {}
    /\ emergencies = IF primary.text = Absent THEN copy.text.edits ELSE {}
    /\ lost = {}
    /\ behind = IF copy.text = primary.text THEN {} ELSE {"never copied"}

Step(e, request) == requests' = [requests EXCEPT ![e] = request]

-----------------------------------------------------------------------------
(* Opening a file. *)

\* Mutant: the two texts are compared as they are.
SameConfigExactly(a, b) == a = b

\* A newline at the end makes no difference: a synchroniser may drop it.
SameConfig(a, b) == a.edits = b.edits

\* How the two sides stand; "none" if one could not be read.
Drift(git, consul) ==
    CASE Unknown \in {git, consul} -> "none"
      [] git.text = Absent -> IF consul.text = Absent THEN "none" ELSE "missing-in-git"
      [] consul.text = Absent -> "missing-in-consul"
      [] SameConfig(git.text, consul.text) -> "match"
      [] OTHER -> "differ"

Side(side) == IF side = "git" THEN primary ELSE copy

\* The side asked for is shown, with the verdict if there is one.
Show(e, side, git, consul) ==
    LET file == IF side = "git" THEN git ELSE consul IN
    Step(e, IF file = Unknown THEN Closed
            ELSE IF file.text = Absent THEN Closed
            ELSE [pc |-> "editing", side |-> side, file |-> file, edit |-> 0,
                  verdict |-> Drift(git, consul),
                  versions |-> IF Unknown \in {git, consul} THEN <<>> ELSE <<git, consul>>])

\* GET, of one side; in a pair both are read at the same time, and either comes
\* first.
Open(e, side) ==
    /\ requests[e].pc = "closed"
    /\ IF paired
       THEN \E first \in {"git", "consul"} : \E found \in {Side(first), Unknown} :
                Step(e, [pc |-> "reading", side |-> side, first |-> first, found |-> found])
       ELSE /\ side = "git"
            /\ \E found \in {primary, Unknown} : Show(e, side, found, Unknown)
    /\ UNCHANGED <<paired, primary, copy, sync, made, audit, emergencies, lost, behind>>

Opened(e) ==
    /\ requests[e].pc = "reading"
    /\ LET r == requests[e] IN
       IF r.first = "git"
       THEN \E found \in {copy, Unknown} : Show(e, r.side, r.found, found)
       ELSE \E found \in {primary, Unknown} : Show(e, r.side, found, r.found)
    /\ UNCHANGED <<paired, primary, copy, sync, made, audit, emergencies, lost, behind>>

-----------------------------------------------------------------------------
(* Saving it.  A browser whose save failed keeps the text, and may send it  *)
(* again with the version it has.                                           *)

Editing(e) == requests[e].pc = "editing"

\* The edit a save carries: a new one, or the one whose save failed.
EditOf(e) == IF requests[e].edit = 0 THEN made + 1 ELSE requests[e].edit

Edited(e) ==
    /\ Editing(e) /\ EditOf(e) \in Edits
    /\ made' = IF EditOf(e) > made THEN EditOf(e) ELSE made

TextOf(e) == [requests[e].file.text EXCEPT !.edits = @ \cup {EditOf(e)}]

\* What a request is at once it carries its edit.
At(e, pc, answer) ==
    [pc |-> pc, side |-> requests[e].side, file |-> requests[e].file, edit |-> EditOf(e),
     text |-> TextOf(e), answer |-> answer]

\* An index of Consul's is not a version of the repository.
UpToDate(e) == requests[e].side = "git" /\ requests[e].file.version = primary.version

Commit(e) == primary' = [text |-> TextOf(e), version |-> primary.version + 1]

\* Mutant: the version opened is not sent along.
CommitUnchecked(e) ==
    /\ Edited(e) /\ primary.text # Absent
    /\ Commit(e)
    /\ Step(e, IF paired THEN At(e, "committed", "saved") ELSE At(e, "answering", "saved"))
    /\ UNCHANGED <<paired, copy, sync, audit, emergencies, lost, behind>>

\* PUT, whichever side is looked at.  The primary takes it if the file is still at
\* the version that was opened.
CommitAccepted(e) ==
    /\ Edited(e) /\ primary.text # Absent /\ UpToDate(e)
    /\ Commit(e)
    /\ Step(e, IF paired THEN At(e, "committed", "saved") ELSE At(e, "answering", "saved"))
    /\ UNCHANGED <<paired, copy, sync, audit, emergencies, lost, behind>>

CommitConflict(e) ==
    /\ Edited(e) /\ primary.text # Absent /\ ~UpToDate(e)
    /\ Step(e, At(e, "answering", "conflict"))
    /\ UNCHANGED <<paired, primary, copy, sync, audit, emergencies, lost, behind>>

CommitFails(e) ==
    /\ Edited(e)
    /\ Step(e, At(e, "answering", "failed"))
    /\ UNCHANGED <<paired, primary, copy, sync, audit, emergencies, lost, behind>>

\* The commit is made and its answer does not arrive: Consul is not written.
CommitUnacknowledged(e) ==
    /\ Edited(e) /\ primary.text # Absent /\ UpToDate(e)
    /\ Commit(e)
    /\ Step(e, At(e, "answering", "failed"))
    /\ behind' = behind \cup {"unacknowledged"}
    /\ UNCHANGED <<paired, copy, sync, audit, emergencies, lost>>

\* The copy gets a text; an older one than the primary's explains a difference.
Copied(text, why) ==
    /\ copy.version < MaxCopies
    /\ copy' = [text |-> text, version |-> copy.version + 1]
    /\ behind' = IF text.edits = primary.text.edits THEN {} ELSE behind \cup {why}

\* PutUnchecked, whose answer may be lost too.
WriteCopy(e) ==
    /\ requests[e].pc = "committed"
    /\ Copied(requests[e].text, "overtaken")
    /\ \E answer \in {"saved", "warning"} :
           Step(e, [requests[e] EXCEPT !.pc = "answering", !.answer = answer])
    /\ UNCHANGED <<paired, primary, sync, made, audit, emergencies, lost>>

\* Mutant: as if Consul had been written.
CopyFailsSilently(e) ==
    /\ requests[e].pc = "committed"
    /\ Step(e, [requests[e] EXCEPT !.pc = "answering", !.answer = "saved"])
    /\ UNCHANGED <<paired, primary, copy, sync, made, audit, emergencies, lost, behind>>

\* ErrSecondaryLagging.
CopyFails(e) ==
    /\ requests[e].pc = "committed"
    /\ Step(e, [requests[e] EXCEPT !.pc = "answering", !.answer = "warning"])
    /\ behind' = behind \cup {"lagging"}
    /\ UNCHANGED <<paired, primary, copy, sync, made, audit, emergencies, lost>>

\* PutSide: the copy alone, without a version; the page offers it beside the
\* repository's text.
WriteCopyOnly(e) ==
    /\ Edited(e) /\ paired /\ requests[e].side = "git"
    /\ \/ /\ copy.version < MaxCopies
          /\ copy' = [text |-> TextOf(e), version |-> copy.version + 1]
          /\ emergencies' = emergencies \cup {EditOf(e)}
          /\ behind' = behind \cup {"emergency"}
          /\ \E answer \in {"saved", "failed"} : Step(e, At(e, "answering", answer))
       \/ Step(e, At(e, "answering", "failed")) /\ UNCHANGED <<copy, emergencies, behind>>
    /\ UNCHANGED <<paired, primary, sync, audit, lost>>

\* The page after the answer: closed, or a failed save is kept to be sent again.
AfterAnswer(e) ==
    LET r == requests[e] IN
    \/ Step(e, Closed)
    \/ /\ r.answer = "failed"
       /\ Step(e, [pc |-> "editing", side |-> r.side, file |-> r.file, edit |-> r.edit,
                   verdict |-> "none", versions |-> <<>>])

Recorded(e) == audit \cup {requests[e].edit}

\* Mutant: what failed is not worth a record.
AnswerRecordingSuccess(e) ==
    /\ requests[e].pc = "answering"
    /\ audit' = IF requests[e].answer = "failed" THEN audit ELSE Recorded(e)
    /\ AfterAnswer(e)
    /\ UNCHANGED <<paired, primary, copy, sync, made, emergencies, lost, behind>>

\* The record, then the answer.
Answer(e) ==
    /\ requests[e].pc = "answering"
    /\ audit' = Recorded(e)
    /\ AfterAnswer(e)
    /\ UNCHANGED <<paired, primary, copy, sync, made, emergencies, lost, behind>>

\* The page is closed without a save.
Leave(e) ==
    /\ Editing(e)
    /\ Step(e, Closed)
    /\ UNCHANGED <<paired, primary, copy, sync, made, audit, emergencies, lost, behind>>

-----------------------------------------------------------------------------

\* The service ends: every request it had with it.
Crash ==
    LET killed == {e \in Editors : requests[e].pc \in {"committed", "answering"}} IN
    /\ killed # {}
    /\ lost' = lost \cup {requests[e].edit : e \in killed}
    /\ requests' = [e \in Editors |-> IF e \in killed THEN Closed ELSE requests[e]]
    /\ behind' = behind \cup
           (IF \E e \in killed : requests[e].pc = "committed" THEN {"crash"} ELSE {})
    /\ UNCHANGED <<paired, primary, copy, sync, made, audit, emergencies>>

\* The synchroniser, which belongs to the deployment: it reads the repository and
\* later writes what it read, without the final newline.
SyncReads ==
    /\ paired /\ sync = Absent /\ primary.text # Absent
    /\ sync' = [primary.text EXCEPT !.newline = FALSE]
    /\ UNCHANGED <<paired, primary, copy, requests, made, audit, emergencies, lost, behind>>

SyncWrites ==
    /\ sync # Absent
    /\ Copied(sync, "synchroniser") /\ sync' = Absent
    /\ UNCHANGED <<paired, primary, requests, made, audit, emergencies, lost>>

\* Somebody changes the primary without the portal.
ChangedElsewhere ==
    /\ made < MaxEdits /\ primary.text # Absent
    /\ made' = made + 1
    /\ primary' = [text |-> [primary.text EXCEPT !.edits = @ \cup {made + 1}],
                   version |-> primary.version + 1]
    /\ lost' = lost \cup {made + 1}
    /\ behind' = behind \cup {"elsewhere"}
    /\ UNCHANGED <<paired, copy, requests, sync, audit, emergencies>>

PairNext ==
    \/ \E e \in Editors :
           \/ \E side \in {"git", "consul"} : Open(e, side)
           \/ Opened(e)
           \/ CommitAccepted(e) \/ CommitConflict(e) \/ CommitFails(e) \/ CommitUnacknowledged(e)
           \/ WriteCopy(e) \/ CopyFails(e) \/ WriteCopyOnly(e) \/ Answer(e) \/ Leave(e)
    \/ Crash \/ SyncReads \/ SyncWrites \/ ChangedElsewhere

PairSpec == PairInit /\ [][PairNext]_pairVars

-----------------------------------------------------------------------------

\* Every commit adds exactly one edit to what was there: no save overwrites
\* somebody else's, and one that is sent again after its answer was lost is not
\* committed twice (configs.go:167-231, gitlab's PutFile, consulkv's Put).
EveryCommitAddsItsEdit ==
    primary.text # Absent => primary.version = Cardinality(primary.text.edits)

Quiet == sync = Absent /\ \A e \in Editors : requests[e].pc # "committed"

\* Once nobody is writing, Consul has what the repository has, unless the person
\* was told it lags, the commit's answer or the service was lost, somebody wrote
\* one side only, or an older text was written after a newer one (pair.go:108-129).
InEffectUnlessBehind ==
    paired /\ Quiet => copy.text.edits = primary.text.edits \/ behind # {}

\* Every edit that reached a side is in the audit trail, unless it was made
\* elsewhere, its request is still on its way or a crash ended it
\* (configs.go:205-211).
WritesAreOnRecord ==
    primary.text.edits \cup copy.text.edits \subseteq
        audit \cup lost \cup Fresh.edits
            \cup {requests[e].edit : e \in {f \in Editors :
                      requests[f].pc \in {"committed", "answering"}}}

\* As long as nobody has written either side since, the verdict beside an opened
\* file says whether the services run with what the repository says
\* (pair.go:145-209).
VerdictsAreTrue ==
    \A e \in Editors :
        LET r == requests[e] IN
        r.pc = "editing" =>
            (r.versions = <<primary, copy>> =>
                ((r.verdict = "match") <=> (copy.text.edits = primary.text.edits)))

\* What pair.go:62-63 says of a save: Consul is then brought up to date immediately
\* rather than at the synchroniser's next pass.  An older text that is written after
\* a newer one takes that back.
SavedIsInEffect ==
    paired /\ Quiet /\ behind \subseteq {"overtaken"} => copy.text.edits = primary.text.edits

\* What Configurations.tsx:520-522 says: "from the Consul view an ordinary save already
\* is a Consul write".  It is sent to the repository with Consul's index for a version
\* and refused as if somebody had changed the file.
ConsulViewSaves ==
    \A e \in Editors :
        LET r == requests[e] IN
        r.pc = "answering" /\ r.side = "consul" /\ r.file = copy => r.answer # "conflict"
=============================================================================
