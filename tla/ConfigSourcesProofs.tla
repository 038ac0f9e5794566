------------------------ MODULE ConfigSourcesProofs -------------------------
(***************************************************************************)
(* Where configurations are kept: saving one to two sources, and listing   *)
(* those of a git source while others save.                                *)
(***************************************************************************)
EXTENDS ConfigPair, ConfigCache, FiniteSetTheorems, TLAPS

(* For any number of editors, edits and writes: no save undoes another, no *)
(* edit goes unrecorded, and the two sides differ for a reason.            *)
(*                                                                         *)
(* What a request opened, carries or has read so far goes into a file      *)
(* later, so the proof follows it: its edits are known, which means on     *)
(* record, explained, or about to be (Known), and what it read of the      *)
(* primary at the version the primary still has is what is there now       *)
(* (ReadOK).  An edit a failed save keeps is not in the text it was made   *)
(* to, so it cannot be committed to that text twice.                       *)

Sides == {"git", "consul"}
AnyTexts == [edits : SUBSET Nat, newline : BOOLEAN]
Files == [text : AnyTexts, version : Nat]

Carriers == {e \in Editors : requests[e].pc \in {"committed", "answering"}}

\* The edits that are on record, explained, or carried by a request.
Known == audit \cup lost \cup Fresh.edits \cup {requests[e].edit : e \in Carriers}

TextOK(t) == t \in AnyTexts /\ t.edits \subseteq Known /\ (t = Absent \/ t.edits # {})

FileOK(f) == f \in Files /\ TextOK(f.text)

\* Read of the primary, earlier or now.
ReadOK(f) ==
    /\ f.version <= primary.version
    /\ f.version = primary.version => f.text = primary.text

\* An editor has a file open, and its edit if it has one is not in it.
EditOK(r) ==
    /\ r.side \in Sides
    /\ FileOK(r.file) /\ (r.side = "git" => ReadOK(r.file))
    /\ r.edit \in 0..made /\ r.edit \notin r.file.text.edits

VerdictOK(r) ==
    \/ r.versions = <<>>
    \/ /\ r.versions \in Files \X Files
       /\ (r.verdict = "match") <=> (r.versions[2].text.edits = r.versions[1].text.edits)

RequestOK(r) ==
    \/ r = Closed
    \/ /\ r.pc = "reading" /\ r.side \in Sides /\ r.first \in Sides
       /\ \/ r.found = Unknown
          \/ FileOK(r.found) /\ (r.first = "git" => ReadOK(r.found))
    \/ r.pc = "editing" /\ EditOK(r) /\ VerdictOK(r) /\ (r.edit # 0 => r.edit \in Known)
    \/ /\ r.pc \in {"committed", "answering"} /\ EditOK(r) /\ r.edit # 0 /\ TextOK(r.text)
       /\ r = [pc |-> r.pc, side |-> r.side, file |-> r.file, edit |-> r.edit,
               text |-> r.text, answer |-> r.answer]

Committing == \E e \in Editors : requests[e].pc = "committed"

PairInv ==
    /\ paired \in BOOLEAN
    /\ made \in Nat \ {0} /\ Known \subseteq 1..made
    /\ FileOK(primary) /\ FileOK(copy) /\ TextOK(sync)
    /\ requests = [e \in Editors |-> requests[e]]
    /\ \A e \in Editors : RequestOK(requests[e])
    /\ paired => copy.text.edits = primary.text.edits \/ behind # {} \/ Committing
    /\ EveryCommitAddsItsEdit

-----------------------------------------------------------------------------

LEMMA InitPair == PairInit => PairInv
  <1>. SUFFICES ASSUME PairInit PROVE PairInv
    OBVIOUS
  <1>1. /\ Fresh \in AnyTexts /\ Absent \in AnyTexts
        /\ Fresh.edits = {1} /\ Absent.edits = {}
    BY DEF Fresh, Absent, AnyTexts
  <1>2. Carriers = {}
    BY DEF PairInit, Carriers, Closed
  <1>3. Known = {1} /\ made = 1
    BY <1>1, <1>2 DEF PairInit, Known
  <1>4. TextOK(Fresh) /\ TextOK(Absent)
    BY <1>1, <1>3 DEF TextOK
  <1>5. FileOK(primary) /\ FileOK(copy) /\ TextOK(sync)
    <2>1. ASSUME NEW f, NEW v \in {0, 1}, f \in [text : {Fresh, Absent}, version : {v}]
          PROVE  FileOK(f)
      <3>1. f.text \in {Fresh, Absent} /\ f = [text |-> f.text, version |-> v]
        BY <2>1
      <3>. QED
        BY <1>1, <1>4, <3>1 DEF FileOK, Files
    <2>2. /\ primary \in [text : {Fresh, Absent}, version : {1}]
          /\ copy \in IF paired THEN [text : {Fresh, Absent}, version : {0}]
                     ELSE {[text |-> Absent, version |-> 0]}
          /\ sync = Absent
      BY DEF PairInit
    <2>3. copy \in [text : {Fresh, Absent}, version : {0}]
      BY <2>2
    <2>. QED
      BY <1>4, <2>1, <2>2, <2>3
  <1>6. requests = [e \in Editors |-> requests[e]] /\ \A e \in Editors : RequestOK(requests[e])
    <2>1. RequestOK(Closed)
      BY DEF RequestOK
    <2>2. requests = [e \in Editors |-> requests[e]] /\ \A e \in Editors : requests[e] = Closed
      BY DEF PairInit
    <2>. QED
      BY <2>1, <2>2
  <1>7. paired \in BOOLEAN /\ (paired => copy.text.edits = primary.text.edits \/ behind # {})
    BY DEF PairInit
  <1>8. EveryCommitAddsItsEdit
    <2>1. Cardinality({1}) = 1
      BY FS_Singleton
    <2>. QED
      BY <1>1, <2>1 DEF PairInit, EveryCommitAddsItsEdit
  <1>. QED
    BY <1>3, <1>5, <1>6, <1>7, <1>8 DEF PairInv

\* What is known stays known, and numbers stay below the number of edits.
Growing ==
    /\ Known \subseteq Known' /\ Known' \subseteq 1..made'
    /\ made' \in Nat /\ made <= made'

LEMMA TextStays ==
  ASSUME NEW t, TextOK(t), Growing
  PROVE  TextOK(t)'
  BY DEF TextOK, Growing

LEMMA FileStays ==
  ASSUME NEW f, FileOK(f), Growing
  PROVE  FileOK(f)'
  BY TextStays DEF FileOK

\* The primary stays, or has a version nobody has read.
PrimaryMoves == primary' = primary \/ primary'.version = primary.version + 1

LEMMA ReadStays ==
  ASSUME NEW f, f.version \in Nat, primary.version \in Nat, ReadOK(f), PrimaryMoves
  PROVE  ReadOK(f)'
  BY DEF ReadOK, PrimaryMoves

LEMMA EditStays ==
  ASSUME PairInv, NEW r, EditOK(r), Growing, PrimaryMoves
  PROVE  EditOK(r)'
  <1>1. r.file.version \in Nat /\ primary.version \in Nat /\ made \in Nat
    BY DEF EditOK, PairInv, FileOK, Files
  <1>2. FileOK(r.file)' /\ (r.side = "git" => ReadOK(r.file)')
    BY <1>1, FileStays, ReadStays DEF EditOK
  <1>. QED
    BY <1>1, <1>2 DEF EditOK, Growing

LEMMA RequestStays ==
  ASSUME PairInv, NEW r, RequestOK(r), Growing, PrimaryMoves
  PROVE  RequestOK(r)'
  <1>1. CASE r = Closed
    BY <1>1 DEF RequestOK
  <1>2. CASE /\ r.pc = "reading" /\ r.side \in Sides /\ r.first \in Sides
             /\ \/ r.found = Unknown
                \/ FileOK(r.found) /\ (r.first = "git" => ReadOK(r.found))
    <2>1. primary.version \in Nat
      BY DEF PairInv, FileOK, Files
    <2>2. CASE r.found = Unknown
      BY <1>2, <2>2 DEF RequestOK
    <2>3. CASE FileOK(r.found) /\ (r.first = "git" => ReadOK(r.found))
      <3>1. r.found.version \in Nat
        BY <2>3 DEF FileOK, Files
      <3>2. FileOK(r.found)' /\ (r.first = "git" => ReadOK(r.found)')
        BY <2>1, <2>3, <3>1, FileStays, ReadStays
      <3>. QED
        BY <1>2, <3>2 DEF RequestOK
    <2>. QED
      BY <1>2, <2>2, <2>3
  <1>3. CASE r.pc = "editing" /\ EditOK(r) /\ VerdictOK(r) /\ (r.edit # 0 => r.edit \in Known)
    <2>1. EditOK(r)' /\ VerdictOK(r)' /\ (r.edit # 0 => r.edit \in Known')
      BY <1>3, EditStays DEF VerdictOK, Growing
    <2>. QED
      BY <1>3, <2>1 DEF RequestOK
  <1>4. CASE /\ r.pc \in {"committed", "answering"} /\ EditOK(r) /\ r.edit # 0 /\ TextOK(r.text)
             /\ r = [pc |-> r.pc, side |-> r.side, file |-> r.file, edit |-> r.edit,
                     text |-> r.text, answer |-> r.answer]
    <2>1. EditOK(r)' /\ TextOK(r.text)'
      BY <1>4, EditStays, TextStays
    <2>. QED
      BY <1>4, <2>1 DEF RequestOK
  <1>. QED
    BY <1>1, <1>2, <1>3, <1>4 DEF RequestOK

\* Why the copy differs is still so, and so is how many edits the primary has.
Explained ==
    /\ paired' = paired
    /\ paired => copy'.text.edits = primary'.text.edits \/ behind' # {} \/ Committing'
    /\ EveryCommitAddsItsEdit'

\* Of one editor the request is at another point, and the others are where they were.
LEMMA OneStep ==
  ASSUME PairInv, NEW e \in Editors, NEW r, Step(e, r),
         Growing, PrimaryMoves, Explained,
         RequestOK(r)', FileOK(primary)', FileOK(copy)', TextOK(sync)'
  PROVE  PairInv'
  <1>1. /\ requests' = [d \in Editors |-> requests'[d]]
        /\ requests'[e] = r
        /\ \A d \in Editors : d # e => requests'[d] = requests[d]
    BY DEF PairInv, Step
  <1>2. \A d \in Editors : RequestOK(requests[d])'
    BY <1>1, RequestStays DEF PairInv
  <1>. QED
    BY <1>1, <1>2 DEF PairInv, Growing, Explained

\* What one request does to what is known.
LEMMA KnownGrows ==
  ASSUME PairInv, NEW e \in Editors, NEW r, Step(e, r),
         audit \subseteq audit', lost' = lost, audit' \subseteq audit \cup {requests[e].edit},
         audit' # audit => e \in Carriers,
         e \in Carriers =>
             \/ requests[e].edit \in audit'
             \/ r.pc \in {"committed", "answering"} /\ r.edit = requests[e].edit
  PROVE  /\ Known \subseteq Known'
         /\ Known' \subseteq Known \cup {r.edit}
         /\ r.pc \notin {"committed", "answering"} => Known' \subseteq Known
         /\ r.pc \in {"committed", "answering"} => r.edit \in Known'
  <1>1. /\ requests'[e] = r
        /\ \A d \in Editors : d # e => requests'[d] = requests[d]
    BY DEF PairInv, Step
  <1>2. ASSUME NEW d \in Carriers PROVE requests[d].edit \in Known'
    BY <1>1 DEF Carriers, Known
  <1>3. ASSUME NEW d \in Carriers' PROVE requests'[d].edit \in Known \cup {r.edit}
    BY <1>1 DEF Carriers, Known
  <1>4. ASSUME NEW d \in Carriers', r.pc \notin {"committed", "answering"}
        PROVE  requests'[d].edit \in Known
    BY <1>1, <1>4 DEF Carriers, Known
  <1>5. audit' \subseteq Known
    BY DEF Known
  <1>. QED
    BY <1>1, <1>2, <1>3, <1>4, <1>5 DEF Known, Carriers

-----------------------------------------------------------------------------
(* Opening and leaving a file. *)

\* A request that writes nothing.
LEMMA NothingWritten ==
  ASSUME PairInv, NEW e \in Editors, NEW r, Step(e, r), Growing, RequestOK(r)',
         UNCHANGED <<paired, primary, copy, sync>>, behind \subseteq behind',
         requests[e].pc = "committed" => r.pc = "committed" \/ behind' # {}
  PROVE  PairInv'
  <1>1. PrimaryMoves
    BY DEF PrimaryMoves
  <1>2. FileOK(primary)' /\ FileOK(copy)' /\ TextOK(sync)'
    BY FileStays, TextStays DEF PairInv
  <1>3. paired => copy'.text.edits = primary'.text.edits \/ behind' # {} \/ Committing'
    <2>. SUFFICES ASSUME paired, copy.text.edits # primary.text.edits, behind' = {}
                  PROVE  Committing'
      OBVIOUS
    <2>1. PICK d \in Editors : requests[d].pc = "committed"
      BY DEF PairInv, Committing
    <2>2. requests'[d].pc = "committed"
      BY <2>1 DEF PairInv, Step
    <2>. QED
      BY <2>2 DEF Committing
  <1>4. Explained
    BY <1>3 DEF Explained, PairInv, EveryCommitAddsItsEdit
  <1>. QED
    BY <1>1, <1>2, <1>4, OneStep

\* Nothing becomes known, and nobody carries anything.
LEMMA NothingCarried ==
  ASSUME PairInv, NEW e \in Editors, NEW r, Step(e, r), RequestOK(r),
         r.pc \notin {"committed", "answering"},
         requests[e].pc \notin {"committed", "answering"},
         UNCHANGED <<paired, primary, copy, sync, made, audit, lost, behind>>
  PROVE  PairInv'
  <1>1. Growing
    <2>1. e \notin Carriers
      BY DEF Carriers
    <2>2. Known \subseteq Known' /\ Known' \subseteq Known
      BY <2>1, KnownGrows
    <2>. QED
      BY <2>2 DEF Growing, PairInv
  <1>2. RequestOK(r)'
    BY <1>1, RequestStays DEF PrimaryMoves
  <1>. QED
    BY <1>1, <1>2, NothingWritten

LEMMA ReadsNow ==
  ASSUME PairInv
  PROVE  FileOK(primary) /\ FileOK(copy) /\ ReadOK(primary)
  BY DEF PairInv, ReadOK, FileOK, Files

\* The verdict of two texts that are there, or of which the one shown is.
LEMMA VerdictIsTrue ==
  ASSUME PairInv, NEW git, NEW consul, FileOK(git), FileOK(consul),
         Unknown \notin {git, consul},
         git.text # Absent \/ consul.text # Absent
  PROVE  (Drift(git, consul) = "match") <=> (consul.text.edits = git.text.edits)
  <1>1. Absent.edits = {}
    BY DEF Absent
  <1>2. CASE git.text = Absent
    <2>2. consul.text.edits # {} /\ consul.text # Absent
      BY <1>2 DEF FileOK, TextOK
    <2>1. Drift(git, consul) = "missing-in-git"
      BY <1>1, <1>2, <2>2 DEF Drift, SameConfig
    <2>. QED
      BY <1>1, <1>2, <2>1, <2>2
  <1>3. CASE git.text # Absent /\ consul.text = Absent
    <2>2. git.text.edits # {}
      BY <1>3 DEF FileOK, TextOK
    <2>1. Drift(git, consul) = "missing-in-consul"
      BY <1>1, <1>3, <2>2 DEF Drift, SameConfig
    <2>. QED
      BY <1>1, <1>3, <2>1, <2>2
  <1>4. CASE git.text # Absent /\ consul.text # Absent
    BY <1>4 DEF Drift, SameConfig
  <1>. QED
    BY <1>2, <1>3, <1>4

\* What is shown is what was read, if it was.
LEMMA ShowKeeps ==
  ASSUME PairInv, NEW e \in Editors, NEW side \in Sides, NEW git, NEW consul,
         Show(e, side, git, consul),
         git = Unknown \/ (FileOK(git) /\ ReadOK(git)),
         consul = Unknown \/ FileOK(consul),
         requests[e].pc \notin {"committed", "answering"},
         UNCHANGED <<paired, primary, copy, sync, made, audit, lost, behind>>
  PROVE  PairInv'
  <1>1. CASE Step(e, Closed)
    BY <1>1, NothingCarried DEF RequestOK, Closed
  <1>2. CASE ~Step(e, Closed)
    <2>. DEFINE file == IF side = "git" THEN git ELSE consul
                versions == IF Unknown \in {git, consul} THEN <<>> ELSE <<git, consul>>
                r == [pc |-> "editing", side |-> side, file |-> file, edit |-> 0,
                      verdict |-> Drift(git, consul), versions |-> versions]
    <2>1. file # Unknown /\ file.text # Absent /\ Step(e, r)
      BY <1>2 DEF Show
    <2>2. FileOK(file) /\ (side = "git" => ReadOK(file))
      BY <2>1
    <2>3. 0 \in 0..made /\ 0 \notin file.text.edits
      BY <2>2 DEF PairInv, FileOK, TextOK
    <2>4. VerdictOK(r)
      <3>1. CASE Unknown \in {git, consul}
        BY <3>1 DEF VerdictOK
      <3>2. CASE Unknown \notin {git, consul}
        <4>1. (Drift(git, consul) = "match") <=> (consul.text.edits = git.text.edits)
          BY <2>1, <3>2, VerdictIsTrue
        <4>2. versions = <<git, consul>> /\ versions \in Files \X Files
          BY <3>2 DEF FileOK
        <4>. QED
          BY <4>1, <4>2 DEF VerdictOK
      <3>. QED
        BY <3>1, <3>2
    <2>5. /\ r.pc = "editing" /\ r.side = side /\ r.file = file /\ r.edit = 0
      OBVIOUS
    <2>. HIDE DEF r, file, versions
    <2>6. RequestOK(r)
      BY <2>2, <2>3, <2>4, <2>5 DEF RequestOK, EditOK
    <2>. QED
      BY <2>1, <2>5, <2>6, NothingCarried
  <1>. QED
    BY <1>1, <1>2

LEMMA OpenKeeps ==
  ASSUME PairInv, NEW e \in Editors, NEW side \in Sides, Open(e, side)
  PROVE  PairInv'
  <1>1. requests[e].pc = "closed"
        /\ UNCHANGED <<paired, primary, copy, sync, made, audit, emergencies, lost, behind>>
    BY DEF Open
  <1>2. CASE paired
    <2>1. PICK first \in Sides : \E found \in {Side(first), Unknown} :
             Step(e, [pc |-> "reading", side |-> side, first |-> first, found |-> found])
      BY <1>2 DEF Open, Sides
    <2>2. PICK found \in {Side(first), Unknown} :
             Step(e, [pc |-> "reading", side |-> side, first |-> first, found |-> found])
      BY <2>1
    <2>3. found = Unknown \/ (FileOK(found) /\ (first = "git" => ReadOK(found)))
      BY <2>2, ReadsNow DEF Side
    <2>. DEFINE r == [pc |-> "reading", side |-> side, first |-> first, found |-> found]
    <2>4. r.pc = "reading" /\ r.side = side /\ r.first = first /\ r.found = found
      OBVIOUS
    <2>. HIDE DEF r
    <2>5. RequestOK(r)
      BY <2>3, <2>4 DEF RequestOK
    <2>. QED
      BY <1>1, <2>2, <2>4, <2>5, NothingCarried DEF r
  <1>3. CASE ~paired
    <2>1. PICK found \in {primary, Unknown} : Show(e, side, found, Unknown)
      BY <1>3 DEF Open
    <2>. QED
      BY <1>1, <2>1, ReadsNow, ShowKeeps
  <1>. QED
    BY <1>2, <1>3

LEMMA OpenedKeeps ==
  ASSUME PairInv, NEW e \in Editors, Opened(e)
  PROVE  PairInv'
  <1>1. requests[e].pc = "reading"
        /\ UNCHANGED <<paired, primary, copy, sync, made, audit, emergencies, lost, behind>>
    BY DEF Opened
  <1>2. /\ requests[e].side \in Sides /\ requests[e].first \in Sides
        /\ \/ requests[e].found = Unknown
           \/ /\ FileOK(requests[e].found)
              /\ requests[e].first = "git" => ReadOK(requests[e].found)
    BY <1>1 DEF PairInv, RequestOK, Closed
  <1>3. CASE requests[e].first = "git"
    <2>1. PICK found \in {copy, Unknown} :
             Show(e, requests[e].side, requests[e].found, found)
      BY <1>3 DEF Opened
    <2>. QED
      BY <1>1, <1>2, <1>3, <2>1, ReadsNow, ShowKeeps
  <1>4. CASE requests[e].first # "git"
    <2>1. PICK found \in {primary, Unknown} :
             Show(e, requests[e].side, found, requests[e].found)
      BY <1>4 DEF Opened
    <2>. QED
      BY <1>1, <1>2, <1>4, <2>1, ReadsNow, ShowKeeps
  <1>. QED
    BY <1>3, <1>4

LEMMA LeaveKeeps ==
  ASSUME PairInv, NEW e \in Editors, Leave(e)
  PROVE  PairInv'
  <1>1. RequestOK(Closed) /\ Closed.pc = "closed"
    BY DEF RequestOK, Closed
  <1>. QED
    BY <1>1, NothingCarried DEF Leave, Editing

-----------------------------------------------------------------------------
(* Saving it. *)

\* A save carries an edit that is not in the file its editor opened.
LEMMA EditIsNew ==
  ASSUME PairInv, NEW e \in Editors, Edited(e)
  PROVE  /\ requests[e].pc = "editing" /\ EditOK(requests[e]) /\ e \notin Carriers
         /\ made' \in Nat /\ made <= made'
         /\ EditOf(e) \in 1..made' /\ EditOf(e) \notin requests[e].file.text.edits
         /\ made' = made \/ (made' = made + 1 /\ EditOf(e) = made + 1)
  <1>1. requests[e].pc = "editing" /\ EditOK(requests[e]) /\ e \notin Carriers
    BY DEF Edited, Editing, PairInv, RequestOK, Closed, Carriers
  <1>2. made \in Nat /\ requests[e].edit \in 0..made
    BY <1>1 DEF PairInv, EditOK
  <1>3. made' = IF EditOf(e) > made THEN EditOf(e) ELSE made
    BY DEF Edited
  <1>4. CASE requests[e].edit = 0
    <2>1. EditOf(e) = made + 1 /\ made' = made + 1
      BY <1>2, <1>3, <1>4 DEF EditOf
    <2>2. made + 1 \notin requests[e].file.text.edits
      BY <1>1, <1>2 DEF EditOK, FileOK, TextOK, PairInv
    <2>. QED
      BY <1>1, <1>2, <2>1, <2>2
  <1>5. CASE requests[e].edit # 0
    <2>1. EditOf(e) = requests[e].edit /\ made' = made
      BY <1>2, <1>3, <1>5 DEF EditOf
    <2>. QED
      BY <1>1, <1>2, <1>5, <2>1 DEF EditOK
  <1>. QED
    BY <1>4, <1>5

\* A request that carries its edit to a side, or an answer back.
LEMMA CarriesIt ==
  ASSUME PairInv, NEW e \in Editors, Edited(e), PrimaryMoves,
         NEW pc \in {"committed", "answering"}, NEW answer,
         NEW r, r = At(e, pc, answer), Step(e, r),
         NEW t, t = TextOf(e),
         UNCHANGED <<audit, lost>>
  PROVE  /\ Growing /\ RequestOK(r)' /\ TextOK(t)'
         /\ t.edits = requests[e].file.text.edits \cup {EditOf(e)}
  <1>1. /\ requests[e].pc = "editing" /\ EditOK(requests[e]) /\ e \notin Carriers
        /\ made' \in Nat /\ made <= made'
        /\ EditOf(e) \in 1..made' /\ EditOf(e) \notin requests[e].file.text.edits
    BY EditIsNew
  <1>2. /\ r.pc = pc /\ r.side = requests[e].side /\ r.file = requests[e].file
        /\ r.edit = EditOf(e) /\ r.text = t
        /\ r = [pc |-> r.pc, side |-> r.side, file |-> r.file, edit |-> r.edit,
                text |-> r.text, answer |-> r.answer]
    BY DEF At
  <1>3. /\ t \in AnyTexts /\ t.edits = requests[e].file.text.edits \cup {EditOf(e)}
    BY <1>1 DEF TextOf, EditOK, FileOK, TextOK, AnyTexts
  <1>4. /\ Known \subseteq Known' /\ Known' \subseteq Known \cup {EditOf(e)}
        /\ EditOf(e) \in Known'
    BY <1>1, <1>2, KnownGrows
  <1>5. Growing
    <2>1. Known \subseteq 1..made' /\ EditOf(e) \in 1..made'
      BY <1>1 DEF PairInv
    <2>. QED
      BY <1>1, <1>4, <2>1 DEF Growing
  <1>6. TextOK(t)'
    <2>1. requests[e].file.text.edits \subseteq Known
      BY <1>1 DEF EditOK, FileOK, TextOK
    <2>. QED
      BY <1>3, <1>4, <2>1 DEF TextOK
  <1>7. EditOK(r)'
    <2>. DEFINE file == r.file
    <2>1. FileOK(file) /\ (r.side = "git" => ReadOK(file)) /\ r.side \in Sides
      BY <1>1, <1>2 DEF EditOK
    <2>2. file.version \in Nat /\ primary.version \in Nat
      BY <2>1 DEF FileOK, Files, PairInv
    <2>3. FileOK(file)' /\ (r.side = "git" => ReadOK(file)')
      BY <1>5, <2>1, <2>2, FileStays, ReadStays
    <2>4. r.edit \in 0..made' /\ r.edit \notin file.text.edits
      BY <1>1, <1>2
    <2>. QED
      BY <2>1, <2>3, <2>4 DEF EditOK
  <1>8. r.edit # 0
    BY <1>1, <1>2
  <1>. QED
    BY <1>2, <1>3, <1>5, <1>6, <1>7, <1>8 DEF RequestOK

LEMMA CommitConflictKeeps ==
  ASSUME PairInv, NEW e \in Editors, CommitConflict(e) \/ CommitFails(e)
  PROVE  PairInv'
  <1>1. PICK answer \in {"conflict", "failed"} : Step(e, At(e, "answering", answer))
    BY DEF CommitConflict, CommitFails
  <1>2. /\ Edited(e)
        /\ UNCHANGED <<paired, primary, copy, sync, audit, emergencies, lost, behind>>
    BY DEF CommitConflict, CommitFails
  <1>3. requests[e].pc # "committed"
    BY <1>2 DEF Edited, Editing
  <1>4. PICK r : r = At(e, "answering", answer)
    OBVIOUS
  <1>5. PICK t : t = TextOf(e)
    OBVIOUS
  <1>6. Growing /\ RequestOK(r)'
    BY <1>1, <1>2, <1>4, <1>5, CarriesIt DEF PrimaryMoves
  <1>. QED
    BY <1>1, <1>2, <1>3, <1>4, <1>6, NothingWritten

\* The commit: the text is the primary's, with one edit more.
LEMMA CommitKeeps ==
  ASSUME PairInv, NEW e \in Editors, CommitAccepted(e) \/ CommitUnacknowledged(e)
  PROVE  PairInv'
  <1>1. PICK pc \in {"committed", "answering"}, answer \in {"saved", "failed"} :
           Step(e, At(e, pc, answer)) /\ (paired => pc = "committed" \/ behind' # {})
    BY DEF CommitAccepted, CommitUnacknowledged
  <1>2. /\ Edited(e) /\ requests[e].side = "git"
        /\ primary.text # Absent /\ requests[e].file.version = primary.version
        /\ primary' = [text |-> TextOf(e), version |-> primary.version + 1]
        /\ UNCHANGED <<paired, copy, sync, audit, emergencies, lost>>
    BY DEF CommitAccepted, CommitUnacknowledged, UpToDate, Commit
  <1>3. PICK r : r = At(e, pc, answer)
    OBVIOUS
  <1>4. PICK t : t = TextOf(e)
    OBVIOUS
  <1>5. primary' = [text |-> t, version |-> primary.version + 1] /\ PrimaryMoves
    BY <1>2, <1>4 DEF PrimaryMoves
  <1>6. /\ Growing /\ RequestOK(r)' /\ TextOK(t)'
        /\ t.edits = requests[e].file.text.edits \cup {EditOf(e)}
    BY <1>1, <1>2, <1>3, <1>4, <1>5, CarriesIt
  <1>7. /\ requests[e].file.text = primary.text
        /\ EditOf(e) \notin primary.text.edits
    BY <1>2, EditIsNew DEF EditOK, ReadOK
  <1>8. primary.version \in Nat /\ primary.text.edits \subseteq 1..made /\ made \in Nat
    BY DEF PairInv, FileOK, Files, TextOK
  <1>9. EveryCommitAddsItsEdit'
    <2>1. IsFiniteSet(primary.text.edits)
      <3>1. IsFiniteSet(1..made)
        BY <1>8, FS_Interval
      <3>. QED
        BY <1>8, <3>1, FS_Subset
    <2>2. Cardinality(primary.text.edits \cup {EditOf(e)}) = Cardinality(primary.text.edits) + 1
      BY <1>7, <2>1, FS_AddElement
    <2>3. primary.version = Cardinality(primary.text.edits)
      BY <1>2 DEF PairInv, EveryCommitAddsItsEdit
    <2>4. primary'.version = primary.version + 1 /\ primary'.text = t
      BY <1>5
    <2>5. t.edits = primary.text.edits \cup {EditOf(e)}
      BY <1>6, <1>7
    <2>6. primary'.version = Cardinality(primary'.text.edits)
      BY <2>2, <2>3, <2>4, <2>5
    <2>. QED
      BY <2>6 DEF EveryCommitAddsItsEdit
  <1>10. FileOK(primary)'
    BY <1>5, <1>6, <1>8 DEF FileOK, Files, TextOK
  <1>11. FileOK(copy)' /\ TextOK(sync)'
    BY <1>2, <1>6, FileStays, TextStays DEF PairInv
  <1>12. Explained
    <2>1. pc = "committed" => Committing'
      <3>1. requests'[e].pc = pc
        BY <1>1 DEF PairInv, Step, At
      <3>. QED
        BY <3>1 DEF Committing
    <2>. QED
      BY <1>1, <1>2, <1>9, <2>1 DEF Explained
  <1>. QED
    BY <1>1, <1>3, <1>5, <1>6, <1>10, <1>11, <1>12, OneStep

-----------------------------------------------------------------------------
(* After the commit. *)

\* A request that carries its edit goes on with it.
LEMMA GoesOnWithIt ==
  ASSUME PairInv, NEW e \in Carriers, NEW r, Step(e, r),
         NEW answer, r = [requests[e] EXCEPT !.pc = "answering", !.answer = answer],
         UNCHANGED <<made, audit, lost>>, PrimaryMoves
  PROVE  Growing /\ RequestOK(r)' /\ TextOK(requests[e].text) /\ r.pc = "answering"
  <1>1. /\ EditOK(requests[e]) /\ requests[e].edit # 0 /\ TextOK(requests[e].text)
        /\ requests[e] = [pc |-> requests[e].pc, side |-> requests[e].side,
                          file |-> requests[e].file, edit |-> requests[e].edit,
                          text |-> requests[e].text, answer |-> requests[e].answer]
        /\ e \in Editors
    BY DEF Carriers, PairInv, RequestOK, Closed
  <1>2. r = [pc |-> "answering", side |-> requests[e].side, file |-> requests[e].file,
             edit |-> requests[e].edit, text |-> requests[e].text, answer |-> answer]
    BY <1>1
  <1>3. /\ r.pc = "answering" /\ r.side = requests[e].side /\ r.file = requests[e].file
        /\ r.edit = requests[e].edit /\ r.text = requests[e].text
        /\ r = [pc |-> r.pc, side |-> r.side, file |-> r.file, edit |-> r.edit,
                text |-> r.text, answer |-> r.answer]
    BY <1>2
  <1>4. RequestOK(r)
    BY <1>1, <1>3 DEF RequestOK, EditOK
  <1>5. Growing
    <2>1. Known \subseteq Known' /\ Known' \subseteq Known \cup {r.edit}
      BY <1>1, <1>3, KnownGrows
    <2>2. r.edit \in Known
      BY <1>3 DEF Known
    <2>. QED
      BY <2>1, <2>2 DEF Growing, PairInv
  <1>. QED
    BY <1>1, <1>3, <1>4, <1>5, RequestStays

\* The copy has another text: the primary's, or there is a reason.
LEMMA CopiedIsExplained ==
  ASSUME PairInv, NEW t, NEW why, Copied(t, why), TextOK(t),
         Growing, UNCHANGED <<paired, primary>>
  PROVE  Explained /\ FileOK(copy)' /\ FileOK(primary)' /\ PrimaryMoves
  <1>1. /\ copy' = [text |-> t, version |-> copy.version + 1]
        /\ behind' = IF t.edits = primary.text.edits THEN {} ELSE behind \cup {why}
    BY DEF Copied
  <1>2. TextOK(t)' /\ copy.version \in Nat
    BY TextStays DEF PairInv, FileOK, Files
  <1>3. FileOK(copy)'
    BY <1>1, <1>2 DEF FileOK, Files, TextOK
  <1>4. FileOK(primary)'
    BY FileStays DEF PairInv
  <1>5. Explained
    BY <1>1 DEF Explained, PairInv, EveryCommitAddsItsEdit
  <1>. QED
    BY <1>3, <1>4, <1>5 DEF PrimaryMoves

LEMMA WriteCopyKeeps ==
  ASSUME PairInv, NEW e \in Editors, WriteCopy(e)
  PROVE  PairInv'
  <1>1. e \in Carriers /\ Copied(requests[e].text, "overtaken")
        /\ UNCHANGED <<paired, primary, sync, made, audit, emergencies, lost>>
    BY DEF WriteCopy, Carriers
  <1>2. PICK answer : Step(e, [requests[e] EXCEPT !.pc = "answering", !.answer = answer])
    BY DEF WriteCopy
  <1>3. PICK r : r = [requests[e] EXCEPT !.pc = "answering", !.answer = answer]
    OBVIOUS
  <1>4. Growing /\ RequestOK(r)' /\ TextOK(requests[e].text)
    BY <1>1, <1>2, <1>3, GoesOnWithIt DEF PrimaryMoves
  <1>5. PICK t : t = requests[e].text
    OBVIOUS
  <1>6. Explained /\ FileOK(copy)' /\ FileOK(primary)' /\ PrimaryMoves
    BY <1>1, <1>4, <1>5, CopiedIsExplained
  <1>7. TextOK(sync)'
    BY <1>1, <1>4, TextStays DEF PairInv
  <1>. QED
    BY <1>2, <1>3, <1>4, <1>6, <1>7, OneStep

LEMMA CopyFailsKeeps ==
  ASSUME PairInv, NEW e \in Editors, CopyFails(e)
  PROVE  PairInv'
  <1>1. e \in Carriers /\ behind' = behind \cup {"lagging"}
        /\ UNCHANGED <<paired, primary, copy, sync, made, audit, emergencies, lost>>
        /\ Step(e, [requests[e] EXCEPT !.pc = "answering", !.answer = "warning"])
    BY DEF CopyFails, Carriers
  <1>2. PICK r : r = [requests[e] EXCEPT !.pc = "answering", !.answer = "warning"]
    OBVIOUS
  <1>3. Growing /\ RequestOK(r)'
    BY <1>1, <1>2, GoesOnWithIt DEF PrimaryMoves
  <1>. QED
    BY <1>1, <1>2, <1>3, NothingWritten

LEMMA WriteCopyOnlyKeeps ==
  ASSUME PairInv, NEW e \in Editors, WriteCopyOnly(e)
  PROVE  PairInv'
  <1>1. Edited(e) /\ UNCHANGED <<paired, primary, sync, audit, lost>>
    BY DEF WriteCopyOnly
  <1>2. PICK answer \in {"saved", "failed"} :
           /\ Step(e, At(e, "answering", answer))
           /\ \/ UNCHANGED <<copy, behind>>
              \/ /\ copy' = [text |-> TextOf(e), version |-> copy.version + 1]
                 /\ behind' = behind \cup {"emergency"}
    BY DEF WriteCopyOnly
  <1>3. PICK r : r = At(e, "answering", answer)
    OBVIOUS
  <1>4. PICK t : t = TextOf(e)
    OBVIOUS
  <1>5. Growing /\ RequestOK(r)' /\ TextOK(t)'
    BY <1>1, <1>2, <1>3, <1>4, CarriesIt DEF PrimaryMoves
  <1>6. CASE UNCHANGED <<copy, behind>>
    <2>1. requests[e].pc # "committed"
      BY <1>1 DEF Edited, Editing
    <2>. QED
      BY <1>1, <1>2, <1>3, <1>5, <1>6, <2>1, NothingWritten
  <1>7. CASE /\ copy' = [text |-> TextOf(e), version |-> copy.version + 1]
             /\ behind' = behind \cup {"emergency"}
    <2>1. copy' = [text |-> t, version |-> copy.version + 1] /\ copy.version \in Nat
      BY <1>4, <1>7 DEF PairInv, FileOK, Files
    <2>2. FileOK(copy)'
      BY <1>5, <2>1 DEF FileOK, Files, TextOK
    <2>3. FileOK(primary)' /\ TextOK(sync)'
      BY <1>1, <1>5, FileStays, TextStays DEF PairInv
    <2>4. Explained /\ PrimaryMoves
      BY <1>1, <1>7 DEF Explained, PrimaryMoves, PairInv, EveryCommitAddsItsEdit
    <2>. QED
      BY <1>2, <1>3, <1>5, <2>2, <2>3, <2>4, OneStep
  <1>. QED
    BY <1>2, <1>6, <1>7

LEMMA AnswerKeeps ==
  ASSUME PairInv, NEW e \in Editors, Answer(e)
  PROVE  PairInv'
  <1>1. /\ requests[e].pc = "answering" /\ e \in Carriers
        /\ audit' = audit \cup {requests[e].edit}
        /\ UNCHANGED <<paired, primary, copy, sync, made, emergencies, lost, behind>>
    BY DEF Answer, Carriers, Recorded
  <1>2. EditOK(requests[e]) /\ requests[e].edit # 0
    BY <1>1 DEF PairInv, RequestOK, Closed
  <1>3. ASSUME NEW r, Step(e, r), r.pc \notin {"committed", "answering"},
               Growing => RequestOK(r)'
        PROVE  PairInv'
    <2>1. Known \subseteq Known' /\ Known' \subseteq Known
      BY <1>1, <1>3, KnownGrows
    <2>2. Growing
      BY <1>1, <2>1 DEF Growing, PairInv
    <2>. QED
      BY <1>1, <1>3, <2>1, <2>2, NothingWritten
  <1>4. CASE Step(e, Closed)
    <2>1. RequestOK(Closed)' /\ Closed.pc = "closed"
      BY DEF RequestOK, Closed
    <2>. QED
      BY <1>3, <1>4, <2>1
  <1>5. CASE ~Step(e, Closed)
    <2>1. PICK r : r = [pc |-> "editing", side |-> requests[e].side, file |-> requests[e].file,
                        edit |-> requests[e].edit, verdict |-> "none", versions |-> <<>>]
      OBVIOUS
    <2>2. Step(e, r)
      BY <1>5, <2>1 DEF Answer, AfterAnswer
    <2>3. /\ r.pc = "editing" /\ r.side = requests[e].side /\ r.file = requests[e].file
          /\ r.edit = requests[e].edit /\ r.versions = <<>>
      BY <2>1
    <2>4. EditOK(r) /\ VerdictOK(r)
      BY <1>2, <2>3 DEF EditOK, VerdictOK
    <2>5. ASSUME Growing PROVE RequestOK(r)'
      <3>2. EditOK(r)' /\ VerdictOK(r)'
        BY <1>1, <2>4, <2>5, EditStays DEF VerdictOK, PrimaryMoves
      <3>3. r.edit \in Known'
        BY <1>1, <2>3 DEF Known
      <3>. QED
        BY <2>3, <3>2, <3>3 DEF RequestOK
    <2>. QED
      BY <1>3, <2>2, <2>3, <2>5
  <1>. QED
    BY <1>4, <1>5

-----------------------------------------------------------------------------
(* What happens around the requests. *)

\* Nobody's request is at another point.
LEMMA RequestsStay ==
  ASSUME PairInv, UNCHANGED requests, Growing, PrimaryMoves, Explained,
         FileOK(primary)', FileOK(copy)', TextOK(sync)'
  PROVE  PairInv'
  <1>1. \A e \in Editors : RequestOK(requests[e])'
    BY RequestStays DEF PairInv
  <1>. QED
    BY <1>1 DEF PairInv, Growing, Explained

\* A crash explains the edits it ends.
LEMMA CrashKeeps ==
  ASSUME PairInv, Crash
  PROVE  PairInv'
  <1>1. /\ lost' = lost \cup {requests[e].edit : e \in Carriers}
        /\ requests' = [e \in Editors |-> IF e \in Carriers THEN Closed ELSE requests[e]]
        /\ behind \subseteq behind' /\ (Committing => behind' # {})
        /\ UNCHANGED <<paired, primary, copy, sync, made, audit>>
    BY DEF Crash, Carriers, Committing
  <1>2. Carriers' = {}
    BY <1>1 DEF Carriers, Closed
  <1>3. Known' = Known
    BY <1>1, <1>2 DEF Known
  <1>4. Growing /\ PrimaryMoves
    BY <1>1, <1>3 DEF Growing, PrimaryMoves, PairInv
  <1>5. \A e \in Editors : RequestOK(requests[e])'
    <2>1. RequestOK(Closed)
      BY DEF RequestOK
    <2>. SUFFICES ASSUME NEW e \in Editors PROVE RequestOK(requests[e])'
      OBVIOUS
    <2>2. PICK r : r = requests'[e]
      OBVIOUS
    <2>3. RequestOK(r)
      BY <1>1, <2>1, <2>2 DEF PairInv
    <2>. QED
      BY <1>4, <2>2, <2>3, RequestStays
  <1>6. FileOK(primary)' /\ FileOK(copy)' /\ TextOK(sync)'
    BY <1>1, <1>4, FileStays, TextStays DEF PairInv
  <1>7. Explained
    BY <1>1 DEF Explained, PairInv, EveryCommitAddsItsEdit
  <1>8. requests' = [e \in Editors |-> requests'[e]]
    BY <1>1
  <1>. QED
    BY <1>4, <1>5, <1>6, <1>7, <1>8 DEF PairInv, Growing, Explained

LEMMA SyncKeeps ==
  ASSUME PairInv, SyncReads \/ SyncWrites
  PROVE  PairInv'
  <1>1. UNCHANGED <<paired, primary, requests, made, audit, emergencies, lost>>
    BY DEF SyncReads, SyncWrites
  <1>2. Known' = Known
    BY <1>1 DEF Known, Carriers
  <1>3. Growing
    BY <1>1, <1>2 DEF Growing, PairInv
  <1>4. CASE SyncReads
    <2>1. sync' = [primary.text EXCEPT !.newline = FALSE] /\ primary.text # Absent
          /\ UNCHANGED <<copy, behind>>
      BY <1>4 DEF SyncReads
    <2>2. TextOK(primary.text)
      BY DEF PairInv, FileOK
    <2>3. TextOK(sync)'
      BY <1>2, <2>1, <2>2 DEF TextOK, AnyTexts
    <2>4. FileOK(primary)' /\ FileOK(copy)'
      BY <1>1, <1>3, <2>1, FileStays DEF PairInv
    <2>5. Explained /\ PrimaryMoves
      BY <1>1, <2>1 DEF Explained, PrimaryMoves, PairInv, EveryCommitAddsItsEdit, Committing
    <2>. QED
      BY <1>1, <1>3, <2>3, <2>4, <2>5, RequestsStay
  <1>5. CASE SyncWrites
    <2>1. Copied(sync, "synchroniser") /\ sync' = Absent
      BY <1>5 DEF SyncWrites
    <2>2. PICK t : t = sync
      OBVIOUS
    <2>3. Explained /\ FileOK(copy)' /\ FileOK(primary)' /\ PrimaryMoves
      BY <1>1, <1>3, <2>1, <2>2, CopiedIsExplained DEF PairInv
    <2>4. TextOK(sync)'
      BY <2>1 DEF TextOK, Absent, AnyTexts
    <2>. QED
      BY <1>1, <1>3, <2>3, <2>4, RequestsStay
  <1>. QED
    BY <1>4, <1>5

LEMMA ElsewhereKeeps ==
  ASSUME PairInv, ChangedElsewhere
  PROVE  PairInv'
  <1>1. /\ made' = made + 1 /\ primary.text # Absent
        /\ primary' = [text |-> [primary.text EXCEPT !.edits = @ \cup {made + 1}],
                       version |-> primary.version + 1]
        /\ lost' = lost \cup {made + 1} /\ behind' = behind \cup {"elsewhere"}
        /\ UNCHANGED <<paired, copy, requests, sync, audit>>
    BY DEF ChangedElsewhere
  <1>2. made \in Nat /\ made # 0 /\ primary.version \in Nat /\ TextOK(primary.text)
    BY DEF PairInv, FileOK, Files
  <1>3. Known' = Known \cup {made + 1}
    BY <1>1 DEF Known, Carriers
  <1>4. Growing /\ PrimaryMoves
    <2>1. Known' \subseteq 1..(made + 1)
      BY <1>2, <1>3 DEF PairInv
    <2>. QED
      BY <1>1, <1>2, <1>3, <2>1 DEF Growing, PrimaryMoves
  <1>5. /\ primary'.version = primary.version + 1
        /\ primary'.text = [primary.text EXCEPT !.edits = @ \cup {made + 1}]
    BY <1>1
  <1>6. /\ primary'.text \in AnyTexts
        /\ primary'.text.edits = primary.text.edits \cup {made + 1}
    <2>1. made + 1 \in Nat
      BY <1>2
    <2>. QED
      BY <1>2, <1>5, <2>1 DEF TextOK, AnyTexts
  <1>7. FileOK(primary)'
    <2>1. primary' \in Files
      BY <1>1, <1>2, <1>5, <1>6 DEF Files
    <2>2. TextOK(primary.text)'
      BY <1>2, <1>3, <1>6 DEF TextOK
    <2>. QED
      BY <2>1, <2>2 DEF FileOK
  <1>8. FileOK(copy)' /\ TextOK(sync)'
    BY <1>1, <1>4, FileStays, TextStays DEF PairInv
  <1>9. EveryCommitAddsItsEdit'
    <2>1. primary.text.edits \subseteq 1..made
      BY <1>2 DEF TextOK, PairInv
    <2>2. IsFiniteSet(primary.text.edits)
      <3>1. IsFiniteSet(1..made)
        BY <1>2, FS_Interval
      <3>. QED
        BY <2>1, <3>1, FS_Subset
    <2>3. made + 1 \notin primary.text.edits
      BY <1>2, <2>1
    <2>4. Cardinality(primary.text.edits \cup {made + 1}) = Cardinality(primary.text.edits) + 1
      BY <2>2, <2>3, FS_AddElement
    <2>5. primary.version = Cardinality(primary.text.edits)
      BY <1>1 DEF PairInv, EveryCommitAddsItsEdit
    <2>. QED
      BY <1>5, <1>6, <2>4, <2>5 DEF EveryCommitAddsItsEdit
  <1>10. Explained
    BY <1>1, <1>9 DEF Explained
  <1>. QED
    BY <1>1, <1>4, <1>7, <1>8, <1>10, RequestsStay

LEMMA StepPair ==
  ASSUME PairInv, [PairNext]_pairVars
  PROVE  PairInv'
  <1>1. CASE UNCHANGED pairVars
    <2>1. UNCHANGED <<paired, primary, copy, requests, sync, made, audit, lost, behind>>
      BY <1>1 DEF pairVars
    <2>2. Known' = Known
      BY <2>1 DEF Known, Carriers
    <2>3. Growing /\ PrimaryMoves /\ Explained
      BY <2>1, <2>2
         DEF Growing, PrimaryMoves, Explained, PairInv, EveryCommitAddsItsEdit, Committing
    <2>4. FileOK(primary)' /\ FileOK(copy)' /\ TextOK(sync)'
      BY <2>1, <2>3, FileStays, TextStays DEF PairInv
    <2>. QED
      BY <2>1, <2>3, <2>4, RequestsStay
  <1>2. ASSUME NEW e \in Editors, NEW side \in {"git", "consul"}, Open(e, side)
        PROVE  PairInv'
    BY <1>2, OpenKeeps DEF Sides
  <1>3. CASE PairNext
    BY <1>2, <1>3, OpenedKeeps, CommitKeeps, CommitConflictKeeps, WriteCopyKeeps,
       CopyFailsKeeps, WriteCopyOnlyKeeps, AnswerKeeps, LeaveKeeps, CrashKeeps, SyncKeeps,
       ElsewhereKeeps
       DEF PairNext
  <1>. QED
    BY <1>1, <1>3

-----------------------------------------------------------------------------

\* The invariant of a file and of everybody who has it open (configs.go, pair.go).
THEOREM PairInvariance == PairSpec => []PairInv
  BY InitPair, StepPair, PTL DEF PairSpec

\* No save overwrites another, and none is committed twice.
THEOREM NoEditIsOverwritten == PairSpec => []EveryCommitAddsItsEdit
  BY PairInvariance, PTL DEF PairInv

\* Once nobody is writing, Consul has what the repository has, or there is a reason.
THEOREM DifferencesAreExplained == PairSpec => []InEffectUnlessBehind
  <1>1. PairInv => InEffectUnlessBehind
    BY DEF PairInv, InEffectUnlessBehind, Quiet, Committing
  <1>. QED
    BY <1>1, PairInvariance, PTL

\* No edit is on a side without a record, unless a crash or somebody else explains it.
THEOREM EveryWriteIsOnRecord == PairSpec => []WritesAreOnRecord
  <1>1. PairInv => WritesAreOnRecord
    BY DEF PairInv, WritesAreOnRecord, FileOK, TextOK, Known, Carriers
  <1>. QED
    BY <1>1, PairInvariance, PTL

\* A verdict on the two sides as they still are is true.
THEOREM ShownVerdictsAreTrue == PairSpec => []VerdictsAreTrue
  <1>1. ASSUME PairInv PROVE VerdictsAreTrue
    <2>. SUFFICES ASSUME NEW e \in Editors, requests[e].pc = "editing",
                         requests[e].versions = <<primary, copy>>
                  PROVE  (requests[e].verdict = "match")
                            <=> (copy.text.edits = primary.text.edits)
      BY DEF VerdictsAreTrue
    <2>1. VerdictOK(requests[e])
      BY <1>1 DEF PairInv, RequestOK, Closed
    <2>2. requests[e].versions # <<>>
      OBVIOUS
    <2>. QED
      BY <2>1, <2>2 DEF VerdictOK
  <1>. QED
    BY <1>1, PairInvariance, PTL

-----------------------------------------------------------------------------
(* The listing of the git source, for any number of callers and changes:   *)
(* one that may be shown has every save that was answered, unless a        *)
(* background listing was overtaken by it.                                 *)
(*                                                                         *)
(* That a foreground listing has them is not visible in the stored one: it *)
(* is kept while the lock is held, so no save is answered between the read *)
(* and the keeping (ListedIsCurrent), and what was read or saved is there  *)
(* to be read again (NothingBeyondTheTree).                                *)

\* A foreground listing that is about to be kept has every answered save.
ListedIsCurrent == \A c \in Callers : calls[c].pc = "fetched" => calls[c].at >= saved

\* No save is answered that the tree has not seen.
NothingBeyondTheTree ==
    /\ saved <= tree
    /\ \A c \in Callers : calls[c].pc = "written" => calls[c].at <= tree

CacheInv ==
    /\ CacheTypeOK
    /\ ListedIsCurrent
    /\ NothingBeyondTheTree
    /\ SavesAppearUnlessOvertaken

-----------------------------------------------------------------------------

LEMMA InitEstablishes == CacheInit => CacheInv
  <1>. SUFFICES ASSUME CacheInit PROVE CacheInv
    OBVIOUS
  <1>1. CacheTypeOK
    <2>1. /\ {tree, stored, saved} \subseteq 0..MaxChanges
          /\ age \in {"none", "fresh", "old", "expired"}
          /\ refreshing \in BOOLEAN /\ overtaken \in BOOLEAN
      <3>1. 0 \in 0..MaxChanges
        BY CacheConstants
      <3>. QED
        BY <3>1 DEF CacheInit
    <2>2. /\ refresh \in [pc : {"idle", "started", "read"}, at : 0..MaxChanges]
          /\ ~refreshing /\ refresh.pc = "idle"
      BY CacheConstants DEF CacheInit, NoRefresh
    <2>3. calls \in [Callers -> [pc : {"idle", "locked", "fetched", "listed", "written"},
                                at : 0..MaxChanges]]
      BY CacheConstants DEF CacheInit, Idle
    <2>. QED
      BY <2>1, <2>2, <2>3 DEF CacheTypeOK
  <1>2. ListedIsCurrent /\ NothingBeyondTheTree /\ SavesAppearUnlessOvertaken
    BY DEF CacheInit, ListedIsCurrent, NothingBeyondTheTree, SavesAppearUnlessOvertaken,
           Usable, Idle
  <1>. QED
    BY <1>1, <1>2 DEF CacheInv

Pcs == {"idle", "locked", "fetched", "listed", "written"}

LEMMA Types ==
  ASSUME CacheInv
  PROVE  /\ MaxChanges \in Nat
         /\ tree \in 0..MaxChanges /\ stored \in 0..MaxChanges /\ saved \in 0..MaxChanges
         /\ calls \in [Callers -> [pc : Pcs, at : 0..MaxChanges]]
         /\ refresh.at \in 0..MaxChanges
  BY CacheConstants DEF CacheInv, CacheTypeOK, Pcs

\* A caller goes from one state to another and the rest stay.
LEMMA MovesType ==
  ASSUME CacheInv, NEW c \in Callers, NEW pc \in Pcs, NEW at \in 0..MaxChanges,
         Moves(c, pc, at)
  PROVE  /\ calls' \in [Callers -> [pc : Pcs, at : 0..MaxChanges]]
         /\ calls'[c].pc = pc /\ calls'[c].at = at
         /\ \A d \in Callers : d # c => calls'[d] = calls[d]
  BY Types DEF Moves

-----------------------------------------------------------------------------
(* The invariant, action by action. *)

\* Steps of a caller that leave what is listed and saved alone.
LEMMA CallKeeps ==
  ASSUME CacheInv, NEW c \in Callers, NEW pc \in Pcs, NEW at \in 0..MaxChanges,
         Moves(c, pc, at), pc = "fetched" => at = tree, pc # "written",
         UNCHANGED <<tree, stored, age, refreshing, refresh, saved, overtaken>>
  PROVE  CacheInv'
  <1>1. CacheTypeOK'
    BY MovesType DEF CacheInv, CacheTypeOK, Pcs
  <1>2. /\ calls'[c].pc = pc /\ calls'[c].at = at
        /\ \A d \in Callers : d # c => calls'[d] = calls[d]
    BY MovesType
  <1>4. ListedIsCurrent' /\ NothingBeyondTheTree'
    BY <1>2, Types DEF CacheInv, ListedIsCurrent, NothingBeyondTheTree
  <1>3. SavesAppearUnlessOvertaken'
    BY DEF CacheInv, SavesAppearUnlessOvertaken, Usable
  <1>. QED
    BY <1>1, <1>3, <1>4 DEF CacheInv

LEMMA HitKeeps ==
  ASSUME CacheInv, NEW c \in Callers, Hit(c)
  PROVE  CacheInv'
  <1>1. Moves(c, "listed", stored) /\ UNCHANGED <<tree, stored, age, saved, overtaken>>
    BY DEF Hit
  <1>2. /\ calls' \in [Callers -> [pc : Pcs, at : 0..MaxChanges]]
        /\ calls'[c].pc = "listed"
        /\ \A d \in Callers : d # c => calls'[d] = calls[d]
    <2>1. stored \in 0..MaxChanges /\ "listed" \in Pcs
      BY Types DEF Pcs
    <2>. QED
      BY <1>1, <2>1, MovesType
  <1>3. \/ refreshing' = TRUE /\ refresh' = [pc |-> "started", at |-> 0]
        \/ UNCHANGED <<refreshing, refresh>>
    BY DEF Hit
  <1>4. /\ refresh' \in [pc : {"idle", "started", "read"}, at : 0..MaxChanges]
        /\ refreshing' \in BOOLEAN
        /\ refreshing' <=> refresh'.pc # "idle"
    <2>1. CASE refreshing' = TRUE /\ refresh' = [pc |-> "started", at |-> 0]
      BY <2>1, Types
    <2>2. CASE UNCHANGED <<refreshing, refresh>>
      BY <2>2 DEF CacheInv, CacheTypeOK
    <2>. QED
      BY <1>3, <2>1, <2>2
  <1>5. CacheTypeOK'
    BY <1>1, <1>2, <1>4 DEF CacheInv, CacheTypeOK, Pcs
  <1>6. ListedIsCurrent' /\ NothingBeyondTheTree'
    BY <1>1, <1>2 DEF CacheInv, ListedIsCurrent, NothingBeyondTheTree
  <1>7. SavesAppearUnlessOvertaken'
    BY <1>1 DEF CacheInv, SavesAppearUnlessOvertaken, Usable
  <1>. QED
    BY <1>5, <1>6, <1>7 DEF CacheInv

\* Keep: what was fetched under the lock has every answered save.
LEMMA KeepKeeps ==
  ASSUME CacheInv, NEW c \in Callers, Keep(c)
  PROVE  CacheInv'
  <1>1. calls[c].at \in 0..MaxChanges /\ calls[c].at >= saved
    BY Types DEF CacheInv, ListedIsCurrent, Keep
  <1>2. /\ stored' = calls[c].at /\ age' = "fresh" /\ overtaken' = FALSE
        /\ Moves(c, "listed", calls[c].at)
        /\ UNCHANGED <<tree, refreshing, refresh, saved>>
    BY DEF Keep
  <1>3. /\ calls' \in [Callers -> [pc : Pcs, at : 0..MaxChanges]]
        /\ calls'[c].pc = "listed"
        /\ \A d \in Callers : d # c => calls'[d] = calls[d]
    <2>1. "listed" \in Pcs
      BY DEF Pcs
    <2>. QED
      BY <1>1, <1>2, <2>1, MovesType
  <1>4. CacheTypeOK'
    BY <1>1, <1>2, <1>3 DEF CacheInv, CacheTypeOK, Pcs
  <1>5. ListedIsCurrent' /\ NothingBeyondTheTree'
    BY <1>2, <1>3 DEF CacheInv, ListedIsCurrent, NothingBeyondTheTree
  <1>6. SavesAppearUnlessOvertaken'
    BY <1>1, <1>2 DEF SavesAppearUnlessOvertaken
  <1>. QED
    BY <1>4, <1>5, <1>6 DEF CacheInv

LEMMA WriteKeeps ==
  ASSUME CacheInv, NEW c \in Callers, Write(c)
  PROVE  CacheInv'
  <1>1. /\ tree' = tree + 1 /\ tree + 1 \in 0..MaxChanges
        /\ Moves(c, "written", tree + 1)
        /\ UNCHANGED <<stored, age, refreshing, refresh, saved, overtaken>>
    BY Types DEF Write
  <1>2. /\ calls' \in [Callers -> [pc : Pcs, at : 0..MaxChanges]]
        /\ calls'[c].pc = "written" /\ calls'[c].at = tree + 1
        /\ \A d \in Callers : d # c => calls'[d] = calls[d]
    <2>1. "written" \in Pcs
      BY DEF Pcs
    <2>. QED
      BY <1>1, <2>1, MovesType
  <1>3. CacheTypeOK'
    BY <1>1, <1>2 DEF CacheInv, CacheTypeOK, Pcs
  <1>4. ListedIsCurrent' /\ NothingBeyondTheTree'
    BY <1>1, <1>2, Types DEF CacheInv, ListedIsCurrent, NothingBeyondTheTree
  <1>5. SavesAppearUnlessOvertaken'
    BY <1>1 DEF CacheInv, SavesAppearUnlessOvertaken, Usable
  <1>. QED
    BY <1>3, <1>4, <1>5 DEF CacheInv

\* Clear: nobody holds the lock, so nobody has fetched what the save is not in.
LEMMA ClearKeeps ==
  ASSUME CacheInv, NEW c \in Callers, Clear(c)
  PROVE  CacheInv'
  <1>1. /\ age' = "none" /\ stored' = 0 /\ overtaken' = FALSE
        /\ Moves(c, "idle", 0) /\ Answered(c)
        /\ UNCHANGED <<tree, refreshing, refresh>>
        /\ calls[c].pc = "written"
        /\ \A d \in Callers : calls[d].pc # "fetched"
    BY DEF Clear, Unlocked
  <1>2. /\ calls' \in [Callers -> [pc : Pcs, at : 0..MaxChanges]]
        /\ calls'[c].pc = "idle"
        /\ \A d \in Callers : d # c => calls'[d] = calls[d]
    <2>1. 0 \in 0..MaxChanges /\ "idle" \in Pcs
      BY Types DEF Pcs
    <2>. QED
      BY <1>1, <2>1, MovesType
  <1>3. saved' \in 0..MaxChanges /\ saved' <= tree
    BY <1>1, Types DEF CacheInv, NothingBeyondTheTree, Answered
  <1>4. CacheTypeOK'
    <2>1. {tree', stored', saved'} \subseteq 0..MaxChanges
      BY <1>1, <1>3, Types
    <2>. QED
      BY <1>1, <1>2, <2>1 DEF CacheInv, CacheTypeOK, Pcs
  <1>5. ListedIsCurrent' /\ NothingBeyondTheTree'
    BY <1>1, <1>2, <1>3 DEF CacheInv, ListedIsCurrent, NothingBeyondTheTree
  <1>6. SavesAppearUnlessOvertaken'
    BY <1>1 DEF SavesAppearUnlessOvertaken, Usable
  <1>. QED
    BY <1>4, <1>5, <1>6 DEF CacheInv

LEMMA RefreshKeeps ==
  ASSUME CacheInv, Refreshes
  PROVE  CacheInv'
  <1>1. CASE RefreshReads
    BY <1>1, Types
       DEF RefreshReads, CacheInv, CacheTypeOK, ListedIsCurrent, NothingBeyondTheTree,
           SavesAppearUnlessOvertaken, Usable
  <1>2. CASE RefreshStores
    <2>0. /\ refreshing' = FALSE /\ refresh' = [pc |-> "idle", at |-> 0]
          /\ stored' = refresh.at /\ age' = "fresh"
          /\ overtaken' = (refresh.at < saved)
          /\ UNCHANGED <<tree, calls, saved>>
      BY <1>2 DEF RefreshStores, NoRefresh
    <2>1. CacheTypeOK'
      <3>1. {tree', stored', saved'} \subseteq 0..MaxChanges
        BY <2>0, Types
      <3>2. /\ refresh' \in [pc : {"idle", "started", "read"}, at : 0..MaxChanges]
            /\ refresh'.pc = "idle" /\ overtaken' \in BOOLEAN
        BY <2>0, Types
      <3>. QED
        BY <2>0, <3>1, <3>2 DEF CacheInv, CacheTypeOK
    <2>2. ListedIsCurrent' /\ NothingBeyondTheTree'
      BY <1>2 DEF RefreshStores, CacheInv, ListedIsCurrent, NothingBeyondTheTree
    <2>3. SavesAppearUnlessOvertaken'
      <3>1. CASE refresh.at < saved
        BY <2>0, <3>1 DEF SavesAppearUnlessOvertaken
      <3>2. CASE ~(refresh.at < saved)
        <4>1. stored' >= saved'
          BY <2>0, <3>2, Types
        <4>. QED
          BY <4>1 DEF SavesAppearUnlessOvertaken
      <3>. QED
        BY <3>1, <3>2
    <2>. QED
      BY <2>1, <2>2, <2>3 DEF CacheInv
  <1>3. CASE RefreshFails
    <2>1. /\ refreshing' = FALSE /\ refresh' = [pc |-> "idle", at |-> 0]
          /\ UNCHANGED <<tree, stored, age, calls, saved, overtaken>>
      BY <1>3 DEF RefreshFails, NoRefresh
    <2>2. CacheTypeOK'
      <3>1. /\ refresh' \in [pc : {"idle", "started", "read"}, at : 0..MaxChanges]
            /\ refresh'.pc = "idle"
        BY <2>1, Types
      <3>. QED
        BY <2>1, <3>1 DEF CacheInv, CacheTypeOK
    <2>3. ListedIsCurrent' /\ NothingBeyondTheTree' /\ SavesAppearUnlessOvertaken'
      BY <2>1
         DEF CacheInv, ListedIsCurrent, NothingBeyondTheTree, SavesAppearUnlessOvertaken,
             Usable
    <2>. QED
      BY <2>2, <2>3 DEF CacheInv
  <1>. QED
    BY <1>1, <1>2, <1>3 DEF Refreshes

\* Others' changes, and time.
LEMMA OutsideKeeps ==
  ASSUME CacheInv, TreeChanges \/ GrowsOld \/ Expires
  PROVE  CacheInv'
  <1>1. /\ tree' \in 0..MaxChanges /\ tree <= tree'
        /\ age' \in {"none", "fresh", "old", "expired"}
        /\ Usable' => Usable
        /\ UNCHANGED <<stored, refreshing, refresh, calls, saved, overtaken>>
    BY Types DEF TreeChanges, GrowsOld, Expires, CacheInv, CacheTypeOK, Usable
  <1>2. CacheTypeOK'
    BY <1>1 DEF CacheInv, CacheTypeOK
  <1>3. ListedIsCurrent' /\ NothingBeyondTheTree'
    BY <1>1, Types DEF CacheInv, ListedIsCurrent, NothingBeyondTheTree
  <1>4. SavesAppearUnlessOvertaken'
    BY <1>1 DEF CacheInv, SavesAppearUnlessOvertaken
  <1>. QED
    BY <1>2, <1>3, <1>4 DEF CacheInv

LEMMA StepKeeps ==
  ASSUME CacheInv, [CacheNext]_cacheVars
  PROVE  CacheInv'
  <1>1. CASE UNCHANGED cacheVars
    BY <1>1
       DEF CacheInv, CacheTypeOK, ListedIsCurrent, NothingBeyondTheTree,
           SavesAppearUnlessOvertaken, Usable, cacheVars
  <1>2. ASSUME NEW c \in Callers, Miss(c) PROVE CacheInv'
    BY <1>2, CallKeeps, Types DEF Miss, Pcs
  <1>3. ASSUME NEW c \in Callers, Fetch(c) PROVE CacheInv'
    BY <1>3, CallKeeps, Types DEF Fetch, Pcs
  <1>4. ASSUME NEW c \in Callers, FetchFails(c) PROVE CacheInv'
    BY <1>4, CallKeeps, Types DEF FetchFails, Pcs
  <1>5. ASSUME NEW c \in Callers, Shown(c) PROVE CacheInv'
    BY <1>5, CallKeeps, Types DEF Shown, Pcs
  <1>6. CASE CacheNext
    BY <1>2, <1>3, <1>4, <1>5, <1>6, HitKeeps, KeepKeeps, WriteKeeps, ClearKeeps,
       RefreshKeeps, OutsideKeeps
       DEF CacheNext
  <1>. QED
    BY <1>1, <1>6

-----------------------------------------------------------------------------

\* The invariant of the cached listing (cache.go).
THEOREM CacheInvariance == CacheSpec => []CacheInv
  BY InitEstablishes, StepKeeps, PTL DEF CacheSpec

\* However many people list and save, and however slow each listing is, one that may
\* be shown has every answered save, unless it was read in the background before a
\* save and kept after it.
THEOREM AnsweredSavesAppear == CacheSpec => []SavesAppearUnlessOvertaken
  BY CacheInvariance, PTL DEF CacheInv
=============================================================================
