---------------------------- MODULE ConfigEditor ----------------------------
(***************************************************************************)
(* The editor of the Configurations page (web/src/pages/Configurations.tsx)*)
(* over one source: an entry is read when it is pointed at, opened, looked *)
(* at again or saved; a read under way is shared by all who want it; a     *)
(* save names the version that was opened and is refused if the entry has  *)
(* moved on.                                                               *)
(*                                                                         *)
(* The page has one thread; what interleaves are the person, the answers   *)
(* to the page's requests, and what others commit.                         *)
(***************************************************************************)
EXTENDS Naturals, Sequences

CONSTANTS
    Paths,       \* entries
    Nowhere,     \* the path of no entry
    MaxWaits,    \* bounds of the model: callbacks waiting for one read,
    MaxEdits,    \*   times something is typed,
    MaxSaves,    \*   saves,
    MaxCommits,  \*   commits by others,
    MaxErrors    \*   requests that fail or whose answer is lost

ASSUME NowhereIsNoPath == Nowhere \notin Paths
ASSUME BoundsAreNat == {MaxWaits, MaxEdits, MaxSaves, MaxCommits, MaxErrors} \subseteq Nat

VARIABLES
    repo,   \* the repository: the revisions of each entry
    page,   \* what the page shows
    cache,  \* the revisions read in the last CACHE_MS
    reads,  \* inFlight: the read of each entry, and what waits for it
    put,    \* the save under way
    spent   \* how much of each bound is used

vars == <<repo, page, cache, reads, put, spent>>

-----------------------------------------------------------------------------
\* A text, as far as its author goes: typed here, or revision n of an entry as
\* somebody else committed it.
Texts == [at : Paths \cup {Nowhere}, n : Nat]
Typed(n) == [at |-> Nowhere, n |-> n]

\* An entry as read: a revision of a path and its text.  The editor holds a text
\* together with the revision it was made from, the repository a text with the
\* revision it was made from for each of its revisions.
File == [path : Paths, rev : Nat, text : Texts]
NoFile == [path |-> Nowhere, rev |-> 0, text |-> Typed(0)]
Elsewhere(p, rev) == [path |-> p, rev |-> rev - 1, text |-> [at |-> p, n |-> rev]]
Latest(p) == [path |-> p, rev |-> Len(repo[p]), text |-> repo[p][Len(repo[p])].text]

\* `kept` is history: an answer changed the file under the text in the editor.
Page == [file : File \cup {NoFile}, draft : File \cup {NoFile},
         wanted : Paths \cup {Nowhere},
         loading : BOOLEAN, saving : BOOLEAN, conflict : BOOLEAN, kept : BOOLEAN]

\* What waits for a read: an entry being opened, over a cached copy or none;
\* the window that came back to the front, with what it showed then; and an
\* entry read again after a save or a conflict.
Callback == [what : {"open"}, path : Paths, hit : File \cup {NoFile}]
            \cup [what : {"focus"}, file : File, edited : BOOLEAN]
            \cup [what : {"saved"}, text : Texts]
            \cup [what : {"reload"}]

\* What was read is NoFile until the read is served, and if it fails.
NoRead == [stage |-> "none", file |-> NoFile, waits |-> <<>>]
Read == [stage : {"none", "sent", "done"}, file : File \cup {NoFile}, waits : Seq(Callback)]

NoPut == [stage |-> "none", file |-> NoFile, draft |-> NoFile]
Put == [stage : {"sent", "saved", "conflict", "error"}, file : File, draft : File]

Bounds == {"edits", "saves", "commits", "errors"}
Limit == [b \in Bounds |-> CASE b = "edits" -> MaxEdits
                             [] b = "saves" -> MaxSaves
                             [] b = "commits" -> MaxCommits
                             [] b = "errors" -> MaxErrors]
Spend(b) == /\ spent[b] < Limit[b]
            /\ spent' = [spent EXCEPT ![b] = @ + 1]

TypeOK ==
    /\ repo \in [Paths -> Seq(File)]
    /\ page \in Page
    /\ cache \in [Paths -> File \cup {NoFile}]
    /\ reads \in [Paths -> Read]
    /\ put \in Put \cup {NoPut}
    /\ spent \in [Bounds -> Nat]

Init ==
    /\ repo = [p \in Paths |-> <<Elsewhere(p, 1)>>]
    /\ page = [file |-> NoFile, draft |-> NoFile, wanted |-> Nowhere,
               loading |-> FALSE, saving |-> FALSE, conflict |-> FALSE, kept |-> FALSE]
    /\ cache = [p \in Paths |-> NoFile]
    /\ reads = [p \in Paths |-> NoRead]
    /\ put = NoPut
    /\ spent = [b \in Bounds |-> 0]

-----------------------------------------------------------------------------
(* What the page does.                                                     *)

NothingCached == [p \in Paths |-> NoFile]

Dirty(pg) == pg.file # NoFile /\ pg.draft.text # pg.file.text

\* read: whoever wants an entry that is being read waits for that read.
Reading(p, waits) ==
    IF reads[p] = NoRead
    THEN [reads EXCEPT ![p] = [stage |-> "sent", file |-> NoFile, waits |-> waits]]
    ELSE [reads EXCEPT ![p].waits = @ \o waits]

\* setFile and setDraft with what was read.
Show(pg, f) == [pg EXCEPT !.file = f, !.draft = f]

\* The entry that was opened is here; text typed over the cached copy stays.
Opened(pg, w, f) ==
    IF pg.wanted # w.path
    THEN [pg EXCEPT !.loading = FALSE]
    ELSE IF w.hit # NoFile /\ pg.draft.text \notin {w.hit.text, f.text}
    THEN [pg EXCEPT !.loading = FALSE, !.file = f, !.kept = TRUE]
    ELSE [Show(pg, f) EXCEPT !.loading = FALSE]

NotOpened(pg, w) ==
    IF pg.wanted = w.path /\ w.hit = NoFile
    THEN [pg EXCEPT !.loading = FALSE, !.file = NoFile]
    ELSE [pg EXCEPT !.loading = FALSE]

\* Mutant: edits are not looked for, only the text is left alone.
FocusedTakingVersion(pg, w, f) ==
    IF pg.wanted # w.file.path \/ f.text = w.file.text
    THEN pg
    ELSE IF w.edited THEN [pg EXCEPT !.file = f] ELSE Show(pg, f)

\* Whether there were edits, and what the file was, is from before the read.
Focused(pg, w, f) ==
    IF pg.wanted # w.file.path \/ f.text = w.file.text \/ w.edited
    THEN pg
    ELSE Show(pg, f)

\* reopen, after a save and after a conflict.
Reopened(pg, w, f) ==
    IF w.what = "saved"
    THEN [Show(pg, f) EXCEPT !.saving = FALSE]
    ELSE [Show(pg, f) EXCEPT !.conflict = FALSE]

NotReopened(pg, w) == IF w.what = "saved" THEN [pg EXCEPT !.saving = FALSE] ELSE pg

Continue(pg, w, f) ==
    CASE w.what = "open" -> IF f = NoFile THEN NotOpened(pg, w) ELSE Opened(pg, w, f)
      [] w.what = "focus" -> IF f = NoFile THEN pg ELSE Focused(pg, w, f)
      [] w.what \in {"saved", "reload"} ->
             IF f = NoFile THEN NotReopened(pg, w) ELSE Reopened(pg, w, f)

\* The page after the first n of those who waited for f went on.
Through(pg, waits, f) ==
    LET after[n \in 0 .. Len(waits)] ==
            IF n = 0 THEN pg ELSE Continue(after[n - 1], waits[n], f)
    IN  after

-----------------------------------------------------------------------------
(* The person.                                                             *)

\* prefetch.
Hover(p) ==
    /\ cache[p] = NoFile
    /\ reads' = Reading(p, <<>>)
    /\ UNCHANGED <<repo, page, cache, put, spent>>

\* Another entry is opened; unsaved edits have been confirmed away.
Open(p) ==
    /\ p # page.file.path
    /\ Len(reads[p].waits) < MaxWaits
    /\ page' = [(IF cache[p] # NoFile THEN Show(page, cache[p])
                                      ELSE [page EXCEPT !.loading = TRUE])
                EXCEPT !.wanted = p, !.conflict = FALSE]
    /\ reads' = Reading(p, <<[what |-> "open", path |-> p, hit |-> cache[p]]>>)
    /\ UNCHANGED <<repo, cache, put, spent>>

Type ==
    /\ page.file # NoFile
    /\ Spend("edits")
    /\ page' = [page EXCEPT !.draft.text = Typed(spent'["edits"])]
    /\ UNCHANGED <<repo, cache, reads, put>>

\* The window comes back to the front (onFocus).
Focus ==
    LET p == page.file.path IN
    /\ page.file # NoFile /\ ~page.saving
    /\ cache[p] = NoFile
    /\ Len(reads[p].waits) < MaxWaits
    /\ reads' = Reading(p, <<[what |-> "focus", file |-> page.file, edited |-> Dirty(page)]>>)
    /\ UNCHANGED <<repo, page, cache, put, spent>>

Save ==
    /\ Dirty(page) /\ ~page.saving
    /\ Spend("saves")
    /\ page' = [page EXCEPT !.saving = TRUE]
    /\ put' = [stage |-> "sent", file |-> page.file, draft |-> page.draft]
    /\ UNCHANGED <<repo, cache, reads>>

\* Show current, confirmed.
Reload ==
    /\ page.conflict /\ page.file # NoFile
    /\ Len(reads[page.file.path].waits) < MaxWaits
    /\ cache' = NothingCached
    /\ reads' = Reading(page.file.path, <<[what |-> "reload"]>>)
    /\ UNCHANGED <<repo, page, put, spent>>

-----------------------------------------------------------------------------
(* Answers.                                                                *)

\* A read is answered, and everybody who waits for it goes on, in the order in
\* which they came.
ReadAnswered(p) ==
    /\ reads[p].stage = "done"
    /\ LET f == reads[p].file
           waits == reads[p].waits
       IN  /\ page' = Through(page, waits, f)[Len(waits)]
           /\ cache' = IF f = NoFile THEN cache ELSE [cache EXCEPT ![p] = f]
    /\ reads' = [reads EXCEPT ![p] = NoRead]
    /\ UNCHANGED <<repo, put, spent>>

\* Saved: read the entry again, or wait for the read of it that is under way.
Saved ==
    /\ put.stage = "saved"
    /\ cache' = NothingCached
    /\ page' = [page EXCEPT !.conflict = FALSE]
    /\ reads' = Reading(put.file.path, <<[what |-> "saved", text |-> put.draft.text]>>)
    /\ put' = NoPut
    /\ UNCHANGED <<repo, spent>>

\* Mutant: the button stays disabled after an error.
NotSavedStays ==
    /\ put.stage \in {"conflict", "error"}
    /\ page' = [page EXCEPT !.saving = put.stage = "error",
                            !.conflict = @ \/ put.stage = "conflict"]
    /\ put' = NoPut
    /\ UNCHANGED <<repo, cache, reads, spent>>

\* Refused, or failed: the text stays where it is.
NotSaved ==
    /\ put.stage \in {"conflict", "error"}
    /\ page' = [page EXCEPT !.saving = FALSE, !.conflict = @ \/ put.stage = "conflict"]
    /\ put' = NoPut
    /\ UNCHANGED <<repo, cache, reads, spent>>

\* CACHE_MS are over.
Expire(p) ==
    /\ cache[p] # NoFile
    /\ cache' = [cache EXCEPT ![p] = NoFile]
    /\ UNCHANGED <<repo, page, reads, put, spent>>

-----------------------------------------------------------------------------
(* The server and the repository.                                          *)

ServeRead(p) ==
    /\ reads[p].stage = "sent"
    /\ reads' = [reads EXCEPT ![p].stage = "done", ![p].file = Latest(p)]
    /\ UNCHANGED <<repo, page, cache, put, spent>>

ReadFails(p) ==
    /\ reads[p].stage # "none"
    /\ Spend("errors")
    /\ reads' = [reads EXCEPT ![p].stage = "done", ![p].file = NoFile]
    /\ UNCHANGED <<repo, page, cache, put>>

\* handleSaveConfig: committed if the entry is still at the version opened.
ServeSave ==
    /\ put.stage = "sent"
    /\ IF put.file.rev = Latest(put.file.path).rev
       THEN /\ repo' = [repo EXCEPT ![put.file.path] = Append(@, put.draft)]
            /\ put' = [put EXCEPT !.stage = "saved"]
       ELSE /\ put' = [put EXCEPT !.stage = "conflict"]
            /\ UNCHANGED repo
    /\ UNCHANGED <<page, cache, reads, spent>>

\* A save fails, or was carried out and its answer is lost.
SaveFails ==
    /\ put.stage \in {"sent", "saved"}
    /\ Spend("errors")
    /\ put' = [put EXCEPT !.stage = "error"]
    /\ UNCHANGED <<repo, page, cache, reads>>

\* Somebody else commits.
CommitElsewhere(p) ==
    /\ Spend("commits")
    /\ repo' = [repo EXCEPT ![p] = Append(@, Elsewhere(p, Len(@) + 1))]
    /\ UNCHANGED <<page, cache, reads, put>>

Next ==
    \/ \E p \in Paths :
        \/ Hover(p)
        \/ Open(p)
        \/ ReadAnswered(p)
        \/ Expire(p)
        \/ ServeRead(p)
        \/ ReadFails(p)
        \/ CommitElsewhere(p)
    \/ Type
    \/ Focus
    \/ Save
    \/ Reload
    \/ Saved
    \/ NotSaved
    \/ ServeSave
    \/ SaveFails

Spec == Init /\ [][Next]_vars

-----------------------------------------------------------------------------
(* What must hold.                                                         *)

\* A text made from revision i is committed as revision i + 1 of that entry, or
\* refused: nobody's commit is replaced by a text whose author has not seen it
\* ("a save against the older version is refused, not silently applied").
NothingOverwritten ==
    \A p \in Paths : \A i \in 2 .. Len(repo[p]) :
        repo[p][i].path = p /\ repo[p][i].rev = i - 1

\* So it is unless an answer has changed the file under a text: no other
\* order of answers, focus, failed saves and conflicts overwrites anything.
OverwrittenOnlyIfKept == page.kept \/ NothingOverwritten

\* Whatever fails or is overtaken, a page that says it is saving, or loading,
\* waits for a request that will end it.
WaitsFor(what) == \E p \in Paths : \E i \in DOMAIN reads[p].waits : reads[p].waits[i].what = what
NobodyWaitsForNothing ==
    /\ page.saving => put # NoPut \/ WaitsFor("saved")
    /\ page.loading => WaitsFor("open")

\* "Edits in progress. Saying so beats replacing what somebody typed": a text
\* that was typed leaves the editor when another entry or the current one was
\* asked for, or when it is what was saved, and never otherwise.
AskedFor(w) ==
    \/ w.what \in {"open", "reload"}
    \/ w.what = "saved" /\ w.text = page.draft.text
Discarding ==
    \/ page'.wanted # page.wanted
    \/ \E p \in Paths : \E i \in DOMAIN reads[p].waits :
           reads'[p] = NoRead /\ AskedFor(reads[p].waits[i])
TypedTextStays ==
    [][page.draft.text.at = Nowhere /\ page'.draft.text.at # Nowhere => Discarding]_vars
=============================================================================
