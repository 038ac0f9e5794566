---------------------------- MODULE BrowserProofs ----------------------------
(***************************************************************************)
(* What two parts of the browser promise.                                  *)
(*                                                                         *)
(* The configuration editor, for any number of entries, waits, edits,      *)
(* saves, commits and errors: no commit is replaced unseen unless an       *)
(* answer changed the file under a text, and no indicator stays on for a   *)
(* request that is not there.  Until such an answer came, the text in the  *)
(* editor was made from the version a save of it names, and so was the one *)
(* under way (Together).                                                   *)
(*                                                                         *)
(* The watch of a restart, for any number of restarts, polls, watches and  *)
(* reloads: what is shown as done has been rolled out.  A poll is answered *)
(* for the watch that asked, and finds the watch there is by its id; so    *)
(* polls and watches of one id must be of one restart                      *)
(* (OneRestartPerWatch), which new watches keep by taking a new id.  What  *)
(* is followed was patched before (NothingFromTheFuture), so a rollout of  *)
(* the latest template is one of every restart followed by then.           *)
(***************************************************************************)
EXTENDS ConfigEditor, Restart, SequenceTheorems, WellFoundedInduction, TLAPS

-----------------------------------------------------------------------------
(* The configuration editor. *)

Files == File \cup {NoFile}

\* A file in the editor has a text beside it, and so has one of which a cached
\* copy was shown when it was opened.
InHand ==
    /\ page.file # NoFile => page.draft # NoFile
    /\ \A p \in Paths : \A i \in 1 .. Len(reads[p].waits) :
          reads[p].waits[i].what = "open" /\ reads[p].waits[i].hit # NoFile
              => page.draft # NoFile

StateOK == TypeOK /\ InHand /\ \A p \in Paths : Len(repo[p]) > 0

Matched(file, draft) == draft.path = file.path /\ draft.rev = file.rev

Together ==
    ~page.kept =>
        /\ page.file # NoFile => Matched(page.file, page.draft)
        /\ put.stage = "sent" => Matched(put.file, put.draft)
        /\ NothingOverwritten

-----------------------------------------------------------------------------
(* What is done for all who wait for a read. *)

LEMMA Least ==
  ASSUME NEW S \in SUBSET Nat, S # {}
  PROVE  \E x \in S : \A y \in S : ~(y < x)
<1>1. \E x \in S : \A y \in S : ~(<<y, x>> \in OpToRel(<, Nat))
  BY NatLessThanWellFounded, WFMin
<1> QED BY <1>1 DEF OpToRel

\* What holds of the page at first, and is carried over each callback, holds of
\* it in the end.
LEMMA CarriedThrough ==
  ASSUME NEW pg, NEW waits \in Seq(Callback), NEW f, NEW S,
         pg \in S[0],
         \A i \in 1 .. Len(waits) : \A q \in S[i - 1] : Continue(q, waits[i], f) \in S[i]
  PROVE  Through(pg, waits, f)[Len(waits)] \in S[Len(waits)]
<1> DEFINE n == Len(waits)
           Step(h, i) == IF i = 0 THEN pg ELSE Continue(h[i - 1], waits[i], f)
           Goes(h, k) == /\ h = [i \in 0 .. k |-> h[i]]
                         /\ \A i \in 0 .. k : h[i] = Step(h, i) /\ h[i] \in S[i]
           stuck == {k \in 0 .. n : ~\E h : Goes(h, k)}
<1>1. n \in Nat
  OBVIOUS
<1>2. stuck = {}
  <2> SUFFICES ASSUME stuck # {}
               PROVE  FALSE
    OBVIOUS
  <2>1. PICK k \in stuck : \A y \in stuck : ~(y < k)
    <3>1. stuck \in SUBSET Nat
      BY <1>1
    <3> HIDE DEF stuck
    <3> QED BY <3>1, Least
  <2>2. CASE k = 0
    <3>1. Goes([i \in 0 .. 0 |-> pg], 0)
      OBVIOUS
    <3> HIDE DEF Goes
    <3> QED BY <2>2, <3>1
  <2>3. CASE k # 0
    <3>1. k - 1 \in 0 .. n /\ k - 1 < k /\ k \in 1 .. n
      BY <1>1, <2>3
    <3>2. PICK h : Goes(h, k - 1)
      <4> HIDE DEF Goes
      <4> QED BY <2>1, <3>1
    <3> DEFINE next == Continue(h[k - 1], waits[k], f)
               more == [i \in 0 .. k |-> IF i = k THEN next ELSE h[i]]
    <3>3. next \in S[k]
      <4>1. h[k - 1] \in S[k - 1]
        <5>1. k - 1 \in 0 .. k - 1
          BY <3>1
        <5> QED BY <3>2, <5>1
      <4> QED BY <3>1, <4>1
    <3> HIDE DEF next
    <3>4. more = [i \in 0 .. k |-> more[i]]
      OBVIOUS
    <3>5. ASSUME NEW i \in 0 .. k
          PROVE  more[i] = Step(more, i) /\ more[i] \in S[i]
      <4>1. CASE i = k
        <5>1. more[k] = next /\ more[k - 1] = h[k - 1]
          BY <3>1
        <5> QED BY <2>3, <3>3, <4>1, <5>1 DEF next
      <4>2. CASE i # k
        <5>1. i \in 0 .. k - 1
          BY <3>1, <4>2
        <5>2. more[i] = h[i] /\ (i # 0 => more[i - 1] = h[i - 1])
          BY <3>1, <4>2, <5>1
        <5> QED BY <3>2, <5>1, <5>2
      <4> QED BY <4>1, <4>2
    <3>6. Goes(more, k)
      BY <3>4, <3>5
    <3> HIDE DEF Goes
    <3> QED BY <3>6
  <2> QED BY <2>2, <2>3
<1>3. PICK h : Goes(h, n)
  <2>1. n \in 0 .. n
    BY <1>1
  <2> HIDE DEF Goes
  <2> QED BY <1>2, <2>1
<1>4. Through(pg, waits, f) = CHOOSE after : after = [i \in 0 .. n |-> Step(after, i)]
  BY DEF Through
<1> DEFINE after == Through(pg, waits, f)
<1>5. h = [i \in 0 .. n |-> Step(h, i)]
  BY <1>3
<1> HIDE DEF Goes, Step
<1>6. after = [i \in 0 .. n |-> Step(after, i)]
  BY <1>4, <1>5
<1> HIDE DEF after, n
<1> DEFINE out == {i \in 0 .. n : after[i] \notin S[i]}
<1>7. out = {}
  <2> SUFFICES ASSUME out # {}
               PROVE  FALSE
    OBVIOUS
  <2>1. PICK k \in out : \A y \in out : ~(y < k)
    <3>1. out \in SUBSET Nat
      BY <1>1
    <3> HIDE DEF out
    <3> QED BY <3>1, Least
  <2>2. after[k] = Step(after, k)
    BY <1>6
  <2>3. CASE k = 0
    BY <2>1, <2>2, <2>3 DEF Step
  <2>4. CASE k # 0
    <3>1. k - 1 \in 0 .. n /\ k - 1 < k /\ k \in 1 .. n
      BY <1>1, <2>4
    <3>2. after[k - 1] \in S[k - 1]
      BY <2>1, <3>1
    <3>3. after[k] \in S[k]
      BY <2>2, <2>4, <3>1, <3>2 DEF Step, n
    <3> QED BY <2>1, <3>3
  <2> QED BY <2>3, <2>4
<1> QED BY <1>1, <1>7 DEF after, n

-----------------------------------------------------------------------------
(* The functions of the page. *)

LEMMA Shown ==
  ASSUME NEW pg \in Page, NEW f \in File
  PROVE  /\ Show(pg, f) \in Page
         /\ Show(pg, f).file = f /\ Show(pg, f).draft = f
         /\ Show(pg, f).loading = pg.loading /\ Show(pg, f).saving = pg.saving
         /\ Show(pg, f).kept = pg.kept
  BY DEF Show, Page

LEMMA FilesAreOfPaths ==
  /\ \A f \in File : f # NoFile
  /\ \A f \in Files : f # NoFile => f \in File /\ f.path \in Paths
<1>1. \A f \in File : f.path \in Paths /\ f.path # Nowhere
  BY NowhereIsNoPath DEF File
<1>2. NoFile.path = Nowhere
  BY DEF NoFile
<1> QED BY <1>1, <1>2 DEF Files

\* What a callback leaves of the page: nothing that was put on record is taken off.
LEMMA Continued ==
  ASSUME NEW pg \in Page, NEW w \in Callback, NEW f \in Files,
         pg.file # NoFile => pg.draft # NoFile,
         w.what = "open" /\ w.hit # NoFile => pg.draft # NoFile
  PROVE  LET q == Continue(pg, w, f) IN
         /\ q \in Page
         /\ pg.draft # NoFile => q.draft # NoFile
         /\ q.file # NoFile => q.draft # NoFile
         /\ pg.kept => q.kept
         /\ /\ ~q.kept /\ q.file # NoFile
            /\ pg.file # NoFile => Matched(pg.file, pg.draft)
            => Matched(q.file, q.draft)
         /\ q.saving => pg.saving /\ w.what # "saved"
         /\ q.loading => pg.loading /\ w.what # "open"
<1> DEFINE q == Continue(pg, w, f)
           Good(r) ==
              /\ r \in Page
              /\ pg.draft # NoFile => r.draft # NoFile
              /\ r.file # NoFile => r.draft # NoFile
              /\ pg.kept => r.kept
              /\ /\ ~r.kept /\ r.file # NoFile
                 /\ pg.file # NoFile => Matched(pg.file, pg.draft)
                 => Matched(r.file, r.draft)
              /\ r.saving => pg.saving
              /\ r.loading => pg.loading
<1>1. Good(pg)
  OBVIOUS
<1>2. f \in File => Good(Show(pg, f))
  BY Shown, FilesAreOfPaths DEF Matched
<1>3. ASSUME NEW r, Good(r)
      PROVE  /\ Good([r EXCEPT !.loading = FALSE])
             /\ ~[r EXCEPT !.loading = FALSE].loading
             /\ Good([r EXCEPT !.saving = FALSE])
             /\ ~[r EXCEPT !.saving = FALSE].saving
             /\ Good([r EXCEPT !.conflict = FALSE])
  <2>1. Good([r EXCEPT !.loading = FALSE]) /\ ~[r EXCEPT !.loading = FALSE].loading
    BY <1>3 DEF Page
  <2>2. Good([r EXCEPT !.saving = FALSE]) /\ ~[r EXCEPT !.saving = FALSE].saving
    BY <1>3 DEF Page
  <2>3. Good([r EXCEPT !.conflict = FALSE])
    BY <1>3 DEF Page
  <2> QED BY <2>1, <2>2, <2>3
<1>4. Good([pg EXCEPT !.loading = FALSE, !.file = NoFile])
      /\ ~[pg EXCEPT !.loading = FALSE, !.file = NoFile].loading
  BY DEF Page
<1>5. f \in File /\ pg.draft # NoFile =>
         /\ Good([pg EXCEPT !.loading = FALSE, !.file = f, !.kept = TRUE])
         /\ ~[pg EXCEPT !.loading = FALSE, !.file = f, !.kept = TRUE].loading
  BY DEF Page
<1>6. f = NoFile \/ f \in File
  BY DEF Files
<1>7. CASE w.what = "open"
  <2>3. CASE f = NoFile
    <3>1. q \in {[pg EXCEPT !.loading = FALSE], [pg EXCEPT !.loading = FALSE, !.file = NoFile]}
      BY <1>7, <2>3 DEF Continue, NotOpened
    <3>2. Good(q) /\ ~q.loading
      <4> HIDE DEF Good, q
      <4> QED BY <1>1, <1>3, <1>4, <3>1
    <3> QED BY <1>7, <3>2
  <2>4. CASE f # NoFile
    <3>1. q = Opened(pg, w, f) /\ f \in File
      BY <1>6, <1>7, <2>4 DEF Continue
    <3>2. q \in {[pg EXCEPT !.loading = FALSE], [Show(pg, f) EXCEPT !.loading = FALSE]}
          \/ (q = [pg EXCEPT !.loading = FALSE, !.file = f, !.kept = TRUE] /\ pg.draft # NoFile)
      BY <1>7, <3>1 DEF Opened
    <3>3. Good(q) /\ ~q.loading
      <4> HIDE DEF Good, q
      <4> QED BY <1>1, <1>2, <1>3, <1>5, <3>1, <3>2
    <3> QED BY <1>7, <3>3
  <2> QED BY <2>3, <2>4
<1>8. CASE w.what = "focus"
  <2>1. q = pg \/ (f \in File /\ q = Show(pg, f))
    BY <1>6, <1>8 DEF Continue, Focused
  <2>2. Good(q)
    <3> HIDE DEF Good, q
    <3> QED BY <1>1, <1>2, <2>1
  <2> QED BY <1>8, <2>2
<1>9. CASE w.what = "saved"
  <2>1. q = [pg EXCEPT !.saving = FALSE]
        \/ (f \in File /\ q = [Show(pg, f) EXCEPT !.saving = FALSE])
    BY <1>6, <1>9 DEF Continue, Reopened, NotReopened
  <2>2. Good(q) /\ ~q.saving
    <3> HIDE DEF Good, q
    <3> QED BY <1>1, <1>2, <1>3, <2>1
  <2> QED BY <1>9, <2>2
<1>10. CASE w.what = "reload"
  <2>1. q = pg \/ (f \in File /\ q = [Show(pg, f) EXCEPT !.conflict = FALSE])
    BY <1>6, <1>10 DEF Continue, Reopened, NotReopened
  <2>2. Good(q)
    <3> HIDE DEF Good, q
    <3> QED BY <1>1, <1>2, <1>3, <2>1
  <2> QED BY <1>10, <2>2
<1>11. w.what \in {"open", "focus", "saved", "reload"}
  BY DEF Callback
<1> QED BY <1>7, <1>8, <1>9, <1>10, <1>11

LEMMA Basics ==
  ASSUME StateOK
  PROVE  /\ repo \in [Paths -> Seq(File)] /\ \A p \in Paths : Len(repo[p]) \in Nat \ {0}
         /\ page \in Page /\ page.file \in Files /\ page.draft \in Files
         /\ cache \in [Paths -> Files]
         /\ reads \in [Paths -> Read]
         /\ \A p \in Paths : /\ reads[p] \in Read /\ reads[p].file \in Files
                             /\ reads[p].waits \in Seq(Callback)
                             /\ Len(reads[p].waits) \in Nat
                             /\ DOMAIN reads[p].waits = 1 .. Len(reads[p].waits)
         /\ put \in Put \cup {NoPut}
         /\ spent \in [Bounds -> Nat]
         /\ page.file # NoFile => page.draft # NoFile
  BY DEF StateOK, TypeOK, InHand, Files, Page, Read

LEMMA SpentType ==
  ASSUME StateOK, NEW b \in Bounds, Spend(b)
  PROVE  spent' \in [Bounds -> Nat]
<1>1. spent' = [spent EXCEPT ![b] = @ + 1] /\ spent \in [Bounds -> Nat]
  BY Basics DEF Spend
<1> QED BY <1>1

\* After everybody went on.
LEMMA AllWentOn ==
  ASSUME StateOK, NEW p \in Paths, ReadAnswered(p)
  PROVE  /\ page' \in Page
         /\ page.draft # NoFile => page'.draft # NoFile
         /\ page'.file # NoFile => page'.draft # NoFile
         /\ page.kept => page'.kept
         /\ /\ ~page'.kept /\ page'.file # NoFile
            /\ page.file # NoFile => Matched(page.file, page.draft)
            => Matched(page'.file, page'.draft)
         /\ page'.saving =>
               page.saving /\ \A i \in 1 .. Len(reads[p].waits) : reads[p].waits[i].what # "saved"
         /\ page'.loading =>
               page.loading /\ \A i \in 1 .. Len(reads[p].waits) : reads[p].waits[i].what # "open"
<1> DEFINE waits == reads[p].waits
           f == reads[p].file
           n == Len(waits)
           S == [k \in 0 .. n |->
                    {q \in Page :
                        /\ page.draft # NoFile => q.draft # NoFile
                        /\ q.file # NoFile => q.draft # NoFile
                        /\ page.kept => q.kept
                        /\ /\ ~q.kept /\ q.file # NoFile
                           /\ page.file # NoFile => Matched(page.file, page.draft)
                           => Matched(q.file, q.draft)
                        /\ q.saving => page.saving /\ \A i \in 1 .. k : waits[i].what # "saved"
                        /\ q.loading => page.loading /\ \A i \in 1 .. k : waits[i].what # "open"}]
<1>1. waits \in Seq(Callback) /\ f \in Files /\ n \in Nat /\ page \in Page
      /\ (page.file # NoFile => page.draft # NoFile)
  BY Basics
<1>2. \A i \in 1 .. n : waits[i].what = "open" /\ waits[i].hit # NoFile => page.draft # NoFile
  BY DEF StateOK, InHand
<1>3. page' = Through(page, waits, f)[n]
  BY DEF ReadAnswered
<1> HIDE DEF waits, f, n
<1>4. page \in S[0]
  BY <1>1
<1>5. ASSUME NEW i \in 1 .. n, NEW r \in S[i - 1]
      PROVE  Continue(r, waits[i], f) \in S[i]
  <2> DEFINE q == Continue(r, waits[i], f)
  <2>1. i \in 0 .. n /\ i - 1 \in 0 .. n /\ i \in Nat
    BY <1>1
  <2>2. /\ r \in Page
        /\ page.draft # NoFile => r.draft # NoFile
        /\ r.file # NoFile => r.draft # NoFile
        /\ page.kept => r.kept
        /\ /\ ~r.kept /\ r.file # NoFile
           /\ page.file # NoFile => Matched(page.file, page.draft)
           => Matched(r.file, r.draft)
        /\ r.saving => page.saving /\ \A j \in 1 .. i - 1 : waits[j].what # "saved"
        /\ r.loading => page.loading /\ \A j \in 1 .. i - 1 : waits[j].what # "open"
    BY <2>1
  <2>3. waits[i] \in Callback
    BY <1>1 DEF n
  <2>4. /\ q \in Page
        /\ r.draft # NoFile => q.draft # NoFile
        /\ q.file # NoFile => q.draft # NoFile
        /\ r.kept => q.kept
        /\ /\ ~q.kept /\ q.file # NoFile
           /\ r.file # NoFile => Matched(r.file, r.draft)
           => Matched(q.file, q.draft)
        /\ q.saving => r.saving /\ waits[i].what # "saved"
        /\ q.loading => r.loading /\ waits[i].what # "open"
    BY <1>1, <1>2, <2>2, <2>3, Continued
  <2> HIDE DEF q
  <2>5. \A j \in 1 .. i : j \in 1 .. i - 1 \/ j = i
    BY <2>1
  <2>6. /\ page.draft # NoFile => q.draft # NoFile
        /\ page.kept => q.kept
        /\ /\ ~q.kept /\ q.file # NoFile
           /\ page.file # NoFile => Matched(page.file, page.draft)
           => Matched(q.file, q.draft)
        /\ q.saving => page.saving /\ \A j \in 1 .. i : waits[j].what # "saved"
        /\ q.loading => page.loading /\ \A j \in 1 .. i : waits[j].what # "open"
    BY <2>2, <2>4, <2>5
  <2>7. q \in S[i]
    BY <2>1, <2>4, <2>6
  <2> QED BY <2>7 DEF q
<1>6. page' \in S[n]
  <2> HIDE DEF S
  <2> QED BY <1>1, <1>3, <1>4, <1>5, CarriedThrough DEF n
<1>7. n \in 0 .. n
  BY <1>1
<1> QED BY <1>6, <1>7 DEF waits, n

\* What waits for a read keeps its place in the queue.
LEMMA Queued ==
  ASSUME StateOK, NEW p \in Paths, NEW more \in Seq(Callback), reads' = Reading(p, more)
  PROVE  /\ reads' \in [Paths -> Read]
         /\ reads'[p].waits = reads[p].waits \o more
         /\ \A o \in Paths \ {p} : reads'[o] = reads[o]
<1>1. reads \in [Paths -> Read] /\ reads[p] \in Read /\ reads[p].waits \in Seq(Callback)
  BY Basics
<1>2. CASE reads[p] = NoRead
  <2> DEFINE read == [stage |-> "sent", file |-> NoFile, waits |-> more]
  <2>1. read \in Read /\ read.waits = more
    BY DEF Read
  <2>2. reads' = [reads EXCEPT ![p] = read]
    BY <1>2 DEF Reading
  <2> HIDE DEF read
  <2>3. reads[p].waits = <<>>
    BY <1>2 DEF NoRead
  <2>4. <<>> \o more = more
    OBVIOUS
  <2> QED BY <1>1, <2>1, <2>2, <2>3, <2>4
<1>3. CASE reads[p] # NoRead
  <2> DEFINE read == [reads[p] EXCEPT !.waits = reads[p].waits \o more]
  <2>1. reads[p].waits \o more \in Seq(Callback)
    BY <1>1
  <2>2. read \in Read /\ read.waits = reads[p].waits \o more
    BY <1>1, <2>1 DEF Read
  <2>3. reads' = [reads EXCEPT ![p] = read]
    BY <1>1, <1>3 DEF Reading
  <2> HIDE DEF read
  <2> QED BY <1>1, <2>2, <2>3
<1> QED BY <1>2, <1>3

LEMMA OneAfterAll ==
  ASSUME NEW s \in Seq(Callback), NEW more \in Seq(Callback), Len(more) <= 1
  PROVE  /\ s \o more \in Seq(Callback)
         /\ Len(s \o more) = Len(s) + Len(more)
         /\ Len(s) \in Nat /\ Len(more) \in Nat
         /\ \A i \in 1 .. Len(s) : (s \o more)[i] = s[i]
         /\ more # <<>> => Len(more) = 1 /\ (s \o more)[Len(s) + 1] = more[1]
         /\ more = <<>> => Len(more) = 0
         /\ DOMAIN (s \o more) = 1 .. Len(s \o more)
<1>1. /\ s \o more \in Seq(Callback)
      /\ Len(s \o more) = Len(s) + Len(more)
      /\ Len(s) \in Nat /\ Len(more) \in Nat
      /\ DOMAIN (s \o more) = 1 .. Len(s \o more)
  OBVIOUS
<1>2. \A i \in 1 .. Len(s) : (s \o more)[i] = s[i]
  BY <1>1
<1>3. ASSUME more # <<>>
      PROVE  Len(more) = 1
  <2>1. Len(more) \in Nat \ {0}
    BY <1>3, EmptySeq
  <2>2. \A k \in Nat \ {0} : k <= 1 => k = 1
    OBVIOUS
  <2> HIDE <1>3
  <2> QED BY <2>1, <2>2
<1>4. Len(more) = 1 => (s \o more)[Len(s) + 1] = more[1]
  BY <1>1
<1> QED BY <1>1, <1>2, <1>3, <1>4

\* One more callback, or none.
LEMMA OneMoreWaits ==
  ASSUME StateOK, NEW p \in Paths, NEW more \in Seq(Callback), reads' = Reading(p, more),
         Len(more) <= 1,
         page.draft # NoFile => page'.draft # NoFile,
         more # <<>> /\ more[1].what = "open" /\ more[1].hit # NoFile => page'.draft # NoFile
  PROVE  /\ reads' \in [Paths -> Read]
         /\ \A o \in Paths : \A i \in 1 .. Len(reads'[o].waits) :
               reads'[o].waits[i].what = "open" /\ reads'[o].waits[i].hit # NoFile
                   => page'.draft # NoFile
         /\ \A what : WaitsFor(what) => WaitsFor(what)'
         /\ \A what : more # <<>> /\ more[1].what = what => WaitsFor(what)'
<1>1. /\ reads' \in [Paths -> Read]
      /\ reads'[p].waits = reads[p].waits \o more
      /\ \A o \in Paths \ {p} : reads'[o] = reads[o]
  BY Queued
<1>2. \A o \in Paths : /\ reads[o].waits \in Seq(Callback)
                       /\ Len(reads[o].waits) \in Nat
                       /\ DOMAIN reads[o].waits = 1 .. Len(reads[o].waits)
  BY Basics
<1>3. /\ Len(reads'[p].waits) = Len(reads[p].waits) + Len(more)
      /\ \A i \in 1 .. Len(reads[p].waits) : reads'[p].waits[i] = reads[p].waits[i]
      /\ more # <<>> => Len(more) = 1 /\ reads'[p].waits[Len(reads[p].waits) + 1] = more[1]
      /\ more = <<>> => Len(more) = 0
      /\ DOMAIN reads'[p].waits = 1 .. Len(reads'[p].waits)
      /\ Len(more) \in Nat
  <2>1. reads[p].waits \in Seq(Callback)
    BY <1>2
  <2> QED BY <1>1, <2>1, OneAfterAll
<1>4. ASSUME NEW o \in Paths, NEW i \in 1 .. Len(reads'[o].waits)
      PROVE  \/ i \in 1 .. Len(reads[o].waits) /\ reads'[o].waits[i] = reads[o].waits[i]
             \/ more # <<>> /\ reads'[o].waits[i] = more[1]
  <2>1. CASE o # p
    BY <1>1, <2>1
  <2>2. CASE o = p
    <3>1. i \in 1 .. Len(reads[p].waits) \/ (more # <<>> /\ i = Len(reads[p].waits) + 1)
      BY <1>2, <1>3, <2>2
    <3> QED BY <1>3, <2>2, <3>1
  <2> QED BY <2>1, <2>2
<1>5. \A o \in Paths : \A i \in 1 .. Len(reads'[o].waits) :
         reads'[o].waits[i].what = "open" /\ reads'[o].waits[i].hit # NoFile
             => page'.draft # NoFile
  BY <1>4 DEF StateOK, InHand
<1>6. ASSUME NEW what, NEW o \in Paths, NEW i \in DOMAIN reads[o].waits,
             reads[o].waits[i].what = what
      PROVE  WaitsFor(what)'
  <2>1. i \in DOMAIN reads'[o].waits /\ reads'[o].waits[i] = reads[o].waits[i]
    <3>1. CASE o = p
      <4>1. i \in 1 .. Len(reads[p].waits)
        BY <1>2, <3>1
      <4>2. i \in 1 .. Len(reads'[p].waits)
        BY <1>2, <1>3, <4>1
      <4> QED BY <1>3, <3>1, <4>1, <4>2
    <3>2. CASE o # p
      BY <1>1, <3>2
    <3> QED BY <3>1, <3>2
  <2> QED BY <1>6, <2>1 DEF WaitsFor
<1>7. ASSUME NEW what, more # <<>>, more[1].what = what
      PROVE  WaitsFor(what)'
  <2>1. Len(reads[p].waits) + 1 \in DOMAIN reads'[p].waits
    BY <1>2, <1>3, <1>7
  <2> QED BY <1>3, <1>7, <2>1 DEF WaitsFor
<1> QED BY <1>1, <1>5, <1>6, <1>7 DEF WaitsFor

-----------------------------------------------------------------------------
(* What each step leaves as it has to be. *)

EditorInv == StateOK /\ Together /\ NobodyWaitsForNothing

\* Everything there is to keep, of a step that leaves the repository alone.
LEMMA Kept ==
  ASSUME EditorInv, UNCHANGED repo,
         page' \in Page, cache' \in [Paths -> Files], reads' \in [Paths -> Read],
         put' \in Put \cup {NoPut}, spent' \in [Bounds -> Nat],
         page'.file # NoFile => page'.draft # NoFile,
         \A p \in Paths : \A i \in 1 .. Len(reads'[p].waits) :
             reads'[p].waits[i].what = "open" /\ reads'[p].waits[i].hit # NoFile
                 => page'.draft # NoFile,
         page.kept => page'.kept,
         /\ ~page'.kept /\ page'.file # NoFile
         /\ page.file # NoFile => Matched(page.file, page.draft)
         => Matched(page'.file, page'.draft),
         \/ put'.stage # "sent" \/ put' = put
         \/ page.file # NoFile /\ put'.file = page.file /\ put'.draft = page.draft,
         page'.saving => put' # NoPut \/ WaitsFor("saved")',
         page'.loading => WaitsFor("open")'
  PROVE  EditorInv'
<1>1. TypeOK'
  BY Basics DEF EditorInv, TypeOK, Files
<1>2. StateOK'
  BY <1>1 DEF EditorInv, StateOK, InHand
<1>3. Together'
  <2> SUFFICES ASSUME ~page'.kept
               PROVE  /\ page'.file # NoFile => Matched(page'.file, page'.draft)
                      /\ put'.stage = "sent" => Matched(put'.file, put'.draft)
                      /\ NothingOverwritten'
    BY DEF Together, Matched
  <2>1. /\ page.file # NoFile => Matched(page.file, page.draft)
        /\ put.stage = "sent" => Matched(put.file, put.draft)
        /\ NothingOverwritten
    BY DEF EditorInv, Together
  <2>2. NothingOverwritten'
    BY <2>1 DEF NothingOverwritten
  <2> QED BY <2>1, <2>2
<1>4. NobodyWaitsForNothing'
  BY DEF NobodyWaitsForNothing
<1> QED BY <1>2, <1>3, <1>4 DEF EditorInv

\* Something is read, or waited for that is being read.
LEMMA Asked ==
  ASSUME EditorInv, NEW p \in Paths, NEW more \in Seq(Callback), Len(more) <= 1,
         reads' = Reading(p, more), UNCHANGED <<repo, spent>>,
         page' \in Page, cache' \in [Paths -> Files],
         page.draft # NoFile => page'.draft # NoFile,
         page'.file # NoFile => page'.draft # NoFile,
         more # <<>> /\ more[1].what = "open" /\ more[1].hit # NoFile => page'.draft # NoFile,
         page'.kept = page.kept,
         /\ page'.file # NoFile
         /\ page.file # NoFile => Matched(page.file, page.draft)
         => Matched(page'.file, page'.draft),
         page'.saving = page.saving,
         put' = put \/ (put' = NoPut /\ more # <<>> /\ more[1].what = "saved"),
         page'.loading => page.loading \/ (more # <<>> /\ more[1].what = "open")
  PROVE  EditorInv'
<1>1. /\ reads' \in [Paths -> Read]
      /\ \A o \in Paths : \A i \in 1 .. Len(reads'[o].waits) :
            reads'[o].waits[i].what = "open" /\ reads'[o].waits[i].hit # NoFile
                => page'.draft # NoFile
      /\ \A what : WaitsFor(what) => WaitsFor(what)'
      /\ \A what : more # <<>> /\ more[1].what = what => WaitsFor(what)'
  BY OneMoreWaits DEF EditorInv
<1>2. /\ page.saving => put # NoPut \/ WaitsFor("saved")
      /\ page.loading => WaitsFor("open")
  BY DEF EditorInv, NobodyWaitsForNothing
<1>3. /\ WaitsFor("saved") => WaitsFor("saved")'
      /\ WaitsFor("open") => WaitsFor("open")'
  BY <1>1
<1>4. /\ page'.saving => put' # NoPut \/ WaitsFor("saved")'
      /\ page'.loading => WaitsFor("open")'
  BY <1>1, <1>2, <1>3
<1>5. put' \in Put \cup {NoPut} /\ spent' \in [Bounds -> Nat]
      /\ (put'.stage # "sent" \/ put' = put)
  BY Basics DEF EditorInv, NoPut
<1> QED BY <1>1, <1>4, <1>5, Kept

LEMMA OneAsked ==
  ASSUME EditorInv, NEW p \in Paths, NEW w \in Callback,
         reads' = Reading(p, <<w>>), UNCHANGED <<repo, spent>>,
         page' \in Page, cache' \in [Paths -> Files],
         page.draft # NoFile => page'.draft # NoFile,
         page'.file # NoFile => page'.draft # NoFile,
         w.what = "open" /\ w.hit # NoFile => page'.draft # NoFile,
         page'.kept = page.kept,
         /\ page'.file # NoFile
         /\ page.file # NoFile => Matched(page.file, page.draft)
         => Matched(page'.file, page'.draft),
         page'.saving = page.saving,
         put' = put \/ (put' = NoPut /\ w.what = "saved"),
         page'.loading => page.loading \/ w.what = "open"
  PROVE  EditorInv'
<1> DEFINE more == <<w>>
<1>1. more \in Seq(Callback) /\ Len(more) <= 1 /\ more # <<>> /\ more[1] = w
  OBVIOUS
<1>2. reads' = Reading(p, more)
  OBVIOUS
<1> HIDE DEF more
<1> QED BY <1>1, <1>2, Asked

LEMMA AskingSteps ==
  ASSUME EditorInv,
         (\E p \in Paths : Hover(p) \/ Open(p)) \/ Focus \/ Reload \/ Saved
  PROVE  EditorInv'
<1>1. /\ page \in Page /\ page.file \in Files /\ page.draft \in Files
      /\ cache \in [Paths -> Files]
      /\ page.file # NoFile => page.draft # NoFile
      /\ put \in Put \cup {NoPut}
  BY Basics DEF EditorInv
<1>2. NothingCached \in [Paths -> Files]
  BY DEF NothingCached, Files
<1>3. ASSUME NEW p \in Paths, Hover(p)
      PROVE  EditorInv'
  <2>1. reads' = Reading(p, <<>>) /\ UNCHANGED <<repo, page, cache, put, spent>>
    BY <1>3 DEF Hover
  <2>2. <<>> \in Seq(Callback) /\ Len(<<>>) <= 1
    OBVIOUS
  <2> QED BY <1>1, <2>1, <2>2, Asked
<1>4. ASSUME NEW p \in Paths, Open(p)
      PROVE  EditorInv'
  <2> DEFINE w == [what |-> "open", path |-> p, hit |-> cache[p]]
             pg == IF cache[p] # NoFile THEN Show(page, cache[p]) ELSE [page EXCEPT !.loading = TRUE]
  <2>1. /\ reads' = Reading(p, <<w>>) /\ UNCHANGED <<repo, cache, put, spent>>
        /\ page' = [pg EXCEPT !.wanted = p, !.conflict = FALSE]
    BY <1>4 DEF Open
  <2>2. w \in Callback /\ w.what = "open" /\ w.hit = cache[p]
    BY <1>1 DEF Callback, Files
  <2> HIDE DEF w
  <2>3. /\ pg \in Page
        /\ page.draft # NoFile => pg.draft # NoFile
        /\ pg.file # NoFile => pg.draft # NoFile
        /\ cache[p] # NoFile => pg.draft # NoFile
        /\ pg.kept = page.kept /\ pg.saving = page.saving
        /\ /\ pg.file # NoFile
           /\ page.file # NoFile => Matched(page.file, page.draft)
           => Matched(pg.file, pg.draft)
    <3>1. CASE cache[p] # NoFile
      <4>1. cache[p] \in File
        BY <1>1, <3>1 DEF Files
      <4> QED BY <1>1, <3>1, <4>1, Shown DEF Matched
    <3>2. CASE cache[p] = NoFile
      BY <1>1, <3>2 DEF Page
    <3> QED BY <3>1, <3>2
  <2> HIDE DEF pg
  <2>4. /\ page' \in Page /\ page'.file = pg.file /\ page'.draft = pg.draft
        /\ page'.kept = pg.kept /\ page'.saving = pg.saving
    BY <2>1, <2>3 DEF Page
  <2> QED BY <1>1, <2>1, <2>2, <2>3, <2>4, OneAsked
<1>5. CASE Focus
  <2> DEFINE w == [what |-> "focus", file |-> page.file, edited |-> Dirty(page)]
  <2>1. /\ page.file # NoFile
        /\ reads' = Reading(page.file.path, <<w>>) /\ UNCHANGED <<repo, page, cache, put, spent>>
    BY <1>5 DEF Focus
  <2>2. page.file \in File /\ page.file.path \in Paths
    BY <1>1, <2>1, FilesAreOfPaths
  <2>3. w \in Callback /\ w.what = "focus"
    BY <2>2 DEF Callback, Dirty
  <2> HIDE DEF w
  <2> QED BY <1>1, <2>1, <2>2, <2>3, OneAsked
<1>6. CASE Reload
  <2> DEFINE w == [what |-> "reload"]
  <2>1. /\ page.file # NoFile
        /\ reads' = Reading(page.file.path, <<w>>) /\ UNCHANGED <<repo, page, put, spent>>
        /\ cache' = NothingCached
    BY <1>6 DEF Reload
  <2>2. page.file.path \in Paths
    BY <1>1, <2>1, FilesAreOfPaths
  <2>3. w \in Callback /\ w.what = "reload"
    BY DEF Callback
  <2> HIDE DEF w
  <2> QED BY <1>1, <1>2, <2>1, <2>2, <2>3, OneAsked
<1>7. CASE Saved
  <2> DEFINE w == [what |-> "saved", text |-> put.draft.text]
  <2>1. /\ put.stage = "saved"
        /\ reads' = Reading(put.file.path, <<w>>) /\ UNCHANGED <<repo, spent>>
        /\ cache' = NothingCached /\ put' = NoPut
        /\ page' = [page EXCEPT !.conflict = FALSE]
    BY <1>7 DEF Saved
  <2>2. put \in Put
    BY <1>1, <2>1 DEF NoPut
  <2>3. put.file.path \in Paths /\ put.draft.text \in Texts
    BY <2>2, FilesAreOfPaths DEF Put, File
  <2>4. w \in Callback /\ w.what = "saved"
    BY <2>3 DEF Callback
  <2> HIDE DEF w
  <2>5. /\ page' \in Page /\ page'.file = page.file /\ page'.draft = page.draft
        /\ page'.kept = page.kept /\ page'.saving = page.saving /\ page'.loading = page.loading
    BY <1>1, <2>1 DEF Page
  <2> QED BY <1>1, <1>2, <2>1, <2>3, <2>4, <2>5, OneAsked
<1> QED BY <1>3, <1>4, <1>5, <1>6, <1>7

LEMMA AnswerStep ==
  ASSUME EditorInv, NEW p \in Paths, ReadAnswered(p)
  PROVE  EditorInv'
<1>1. StateOK /\ NobodyWaitsForNothing
  BY DEF EditorInv
<1>2. /\ reads \in [Paths -> Read] /\ cache \in [Paths -> Files] /\ reads[p].file \in Files
      /\ put \in Put \cup {NoPut} /\ spent \in [Bounds -> Nat]
      /\ \A o \in Paths : DOMAIN reads[o].waits = 1 .. Len(reads[o].waits)
  BY <1>1, Basics
<1>3. /\ reads' = [reads EXCEPT ![p] = NoRead]
      /\ cache' = IF reads[p].file = NoFile THEN cache ELSE [cache EXCEPT ![p] = reads[p].file]
      /\ UNCHANGED <<repo, put, spent>>
  BY DEF ReadAnswered
<1>4. NoRead \in Read /\ Len(NoRead.waits) = 0
  BY DEF NoRead, Read, Files
<1>5. /\ reads' \in [Paths -> Read] /\ cache' \in [Paths -> Files]
      /\ reads'[p] = NoRead /\ \A o \in Paths \ {p} : reads'[o] = reads[o]
  BY <1>2, <1>3, <1>4
<1>6. ASSUME NEW o \in Paths, NEW i \in 1 .. Len(reads'[o].waits)
      PROVE  o # p /\ i \in 1 .. Len(reads[o].waits) /\ reads'[o].waits[i] = reads[o].waits[i]
  <2>1. o # p
    BY <1>4, <1>5
  <2> QED BY <1>5, <2>1
<1>7. \A o \in Paths : \A i \in 1 .. Len(reads'[o].waits) :
         reads'[o].waits[i].what = "open" /\ reads'[o].waits[i].hit # NoFile
             => page'.draft # NoFile
  <2>1. page.draft # NoFile => page'.draft # NoFile
    BY <1>1, AllWentOn
  <2> QED BY <1>1, <1>6, <2>1 DEF StateOK, InHand
<1>8. ASSUME NEW what, WaitsFor(what),
             \A i \in 1 .. Len(reads[p].waits) : reads[p].waits[i].what # what
      PROVE  WaitsFor(what)'
  <2>1. PICK o \in Paths : \E i \in DOMAIN reads[o].waits : reads[o].waits[i].what = what
    BY <1>8 DEF WaitsFor
  <2>2. o # p
    BY <1>2, <1>8, <2>1
  <2> QED BY <1>5, <2>1, <2>2 DEF WaitsFor
<1>9. /\ page'.saving => put' # NoPut \/ WaitsFor("saved")'
      /\ page'.loading => WaitsFor("open")'
  <2>1. /\ page'.saving =>
              page.saving /\ \A i \in 1 .. Len(reads[p].waits) : reads[p].waits[i].what # "saved"
        /\ page'.loading =>
              page.loading /\ \A i \in 1 .. Len(reads[p].waits) : reads[p].waits[i].what # "open"
    BY <1>1, AllWentOn
  <2>2. /\ page.saving => put # NoPut \/ WaitsFor("saved")
        /\ page.loading => WaitsFor("open")
    BY <1>1 DEF NobodyWaitsForNothing
  <2> QED BY <1>3, <1>8, <2>1, <2>2
<1>10. /\ page' \in Page
       /\ page'.file # NoFile => page'.draft # NoFile
       /\ page.kept => page'.kept
       /\ /\ ~page'.kept /\ page'.file # NoFile
          /\ page.file # NoFile => Matched(page.file, page.draft)
          => Matched(page'.file, page'.draft)
  BY <1>1, AllWentOn
<1> QED BY <1>2, <1>3, <1>5, <1>7, <1>9, <1>10, Kept

\* Whoever waits for a read goes on waiting.
LEMMA StillWaiting ==
  ASSUME EditorInv, \A p \in Paths : reads'[p].waits = reads[p].waits,
         page.draft # NoFile => page'.draft # NoFile
  PROVE  /\ \A p \in Paths : \A i \in 1 .. Len(reads'[p].waits) :
                reads'[p].waits[i].what = "open" /\ reads'[p].waits[i].hit # NoFile
                    => page'.draft # NoFile
         /\ \A what : WaitsFor(what)' <=> WaitsFor(what)
         /\ page.saving => put # NoPut \/ WaitsFor("saved")'
         /\ page.loading => WaitsFor("open")'
<1>1. \A what : WaitsFor(what)' <=> WaitsFor(what)
  BY DEF WaitsFor
<1>2. /\ page.saving => put # NoPut \/ WaitsFor("saved")
      /\ page.loading => WaitsFor("open")
  BY DEF EditorInv, NobodyWaitsForNothing
<1>3. /\ WaitsFor("saved")' <=> WaitsFor("saved")
      /\ WaitsFor("open")' <=> WaitsFor("open")
  BY <1>1
<1> QED BY <1>1, <1>2, <1>3 DEF EditorInv, StateOK, InHand

\* The steps of the person and of the page that ask for no read.
LEMMA EditSteps ==
  ASSUME EditorInv, Type \/ Save \/ NotSaved \/ (\E p \in Paths : Expire(p))
  PROVE  EditorInv'
<1>1. /\ page \in Page /\ page.file \in Files /\ page.draft \in Files
      /\ cache \in [Paths -> Files] /\ reads \in [Paths -> Read]
      /\ page.file # NoFile => page.draft # NoFile
      /\ put \in Put \cup {NoPut} /\ spent \in [Bounds -> Nat]
  BY Basics DEF EditorInv
<1>2. UNCHANGED <<repo, reads>>
  BY DEF Type, Save, NotSaved, Expire
<1>3. CASE Type
  <2>1. /\ page.file # NoFile /\ page' = [page EXCEPT !.draft.text = Typed(spent'["edits"])]
        /\ UNCHANGED <<cache, put>> /\ spent' \in [Bounds -> Nat] /\ spent'["edits"] \in Nat
    <3>1. spent' \in [Bounds -> Nat]
      BY <1>3, SpentType DEF EditorInv, Type, Bounds
    <3>2. "edits" \in Bounds
      BY DEF Bounds
    <3> QED BY <1>3, <3>1, <3>2 DEF Type
  <2> DEFINE text == Typed(spent'["edits"])
             draft == [page.draft EXCEPT !.text = text]
  <2>2. text \in Texts
    BY <2>1 DEF Typed, Texts
  <2> HIDE DEF text
  <2>3. page.draft \in File
    BY <1>1, <2>1 DEF Files
  <2>4. draft \in File /\ Matched(page.draft, draft)
    BY <2>2, <2>3 DEF File, Matched
  <2>5. page' = [page EXCEPT !.draft = draft]
    BY <1>1, <2>1 DEF Page, text
  <2> HIDE DEF draft
  <2>6. /\ page' \in Page /\ page'.file = page.file /\ page'.draft = draft
        /\ page'.kept = page.kept /\ page'.saving = page.saving /\ page'.loading = page.loading
    BY <1>1, <2>4, <2>5 DEF Page
  <2>7. draft # NoFile
    BY <2>4, FilesAreOfPaths
  <2>8. /\ \A p \in Paths : \A i \in 1 .. Len(reads'[p].waits) :
              reads'[p].waits[i].what = "open" /\ reads'[p].waits[i].hit # NoFile
                  => page'.draft # NoFile
        /\ page'.saving => put' # NoPut \/ WaitsFor("saved")'
        /\ page'.loading => WaitsFor("open")'
    BY <1>2, <2>1, <2>6, <2>7, StillWaiting
  <2>9. Matched(page.file, page.draft) => Matched(page'.file, page'.draft)
    BY <2>4, <2>6 DEF Matched
  <2>10. put'.stage # "sent" \/ put' = put
    BY <2>1
  <2> QED BY <1>1, <1>2, <2>1, <2>6, <2>7, <2>8, <2>9, <2>10, Kept
<1>4. CASE Save
  <2>1. /\ Dirty(page) /\ page' = [page EXCEPT !.saving = TRUE]
        /\ put' = [stage |-> "sent", file |-> page.file, draft |-> page.draft]
        /\ UNCHANGED cache /\ spent' \in [Bounds -> Nat]
    <3>1. spent' \in [Bounds -> Nat]
      BY <1>4, SpentType DEF EditorInv, Save, Bounds
    <3> QED BY <1>4, <3>1 DEF Save
  <2>2. page.file \in File /\ page.draft \in File
    BY <1>1, <2>1 DEF Dirty, Files
  <2>3. put' \in Put /\ put' # NoPut /\ put'.file = page.file /\ put'.draft = page.draft
    BY <2>1, <2>2 DEF Put, NoPut
  <2>4. /\ page' \in Page /\ page'.file = page.file /\ page'.draft = page.draft
        /\ page'.kept = page.kept /\ page'.loading = page.loading
    BY <1>1, <2>1 DEF Page
  <2>5. /\ \A p \in Paths : \A i \in 1 .. Len(reads'[p].waits) :
              reads'[p].waits[i].what = "open" /\ reads'[p].waits[i].hit # NoFile
                  => page'.draft # NoFile
        /\ page'.loading => WaitsFor("open")'
    BY <1>2, <2>4, StillWaiting
  <2>6. page.file # NoFile
    BY <2>1 DEF Dirty
  <2> QED BY <1>1, <1>2, <2>1, <2>3, <2>4, <2>5, <2>6, Kept
<1>5. CASE NotSaved
  <2>1. /\ page' = [page EXCEPT !.saving = FALSE, !.conflict = @ \/ put.stage = "conflict"]
        /\ put' = NoPut /\ UNCHANGED <<cache, spent>>
    BY <1>5 DEF NotSaved
  <2>2. /\ page' \in Page /\ page'.file = page.file /\ page'.draft = page.draft
        /\ page'.kept = page.kept /\ ~page'.saving /\ page'.loading = page.loading
    BY <1>1, <2>1 DEF Page
  <2>3. /\ \A p \in Paths : \A i \in 1 .. Len(reads'[p].waits) :
              reads'[p].waits[i].what = "open" /\ reads'[p].waits[i].hit # NoFile
                  => page'.draft # NoFile
        /\ page'.loading => WaitsFor("open")'
    BY <1>2, <2>2, StillWaiting
  <2>4. put'.stage # "sent"
    BY <2>1 DEF NoPut
  <2> QED BY <1>1, <1>2, <2>1, <2>2, <2>3, <2>4, Kept
<1>6. ASSUME NEW p \in Paths, Expire(p)
      PROVE  EditorInv'
  <2>1. cache' = [cache EXCEPT ![p] = NoFile] /\ UNCHANGED <<page, put, spent>>
    BY <1>6 DEF Expire
  <2>2. cache' \in [Paths -> Files]
    BY <1>1, <2>1 DEF Files
  <2>3. /\ \A o \in Paths : \A i \in 1 .. Len(reads'[o].waits) :
              reads'[o].waits[i].what = "open" /\ reads'[o].waits[i].hit # NoFile
                  => page'.draft # NoFile
        /\ page'.saving => put' # NoPut \/ WaitsFor("saved")'
        /\ page'.loading => WaitsFor("open")'
    BY <1>2, <2>1, StillWaiting
  <2> QED BY <1>1, <1>2, <2>1, <2>2, <2>3, Kept
<1> QED BY <1>3, <1>4, <1>5, <1>6

LEMMA LatestIsAFile ==
  ASSUME StateOK, NEW p \in Paths
  PROVE  Latest(p) \in File /\ Latest(p).rev = Len(repo[p])
<1>1. repo[p] \in Seq(File) /\ Len(repo[p]) \in Nat \ {0}
  BY Basics
<1>2. repo[p][Len(repo[p])] \in File
  BY <1>1
<1> QED BY <1>1, <1>2 DEF Latest, File

\* Somebody's text becomes the latest revision of an entry.
LEMMA Committed ==
  ASSUME EditorInv, NEW p \in Paths, NEW d \in File,
         repo' = [repo EXCEPT ![p] = Append(@, d)],
         ~page.kept => d.path = p /\ d.rev = Len(repo[p]),
         UNCHANGED <<page, cache, reads>>, spent' \in [Bounds -> Nat],
         put' = put \/ (put' \in Put /\ put'.stage = "saved")
  PROVE  EditorInv'
<1>1. /\ repo \in [Paths -> Seq(File)] /\ \A o \in Paths : Len(repo[o]) \in Nat \ {0}
      /\ put \in Put \cup {NoPut}
  BY Basics DEF EditorInv
<1>2. /\ repo' \in [Paths -> Seq(File)]
      /\ Len(repo'[p]) = Len(repo[p]) + 1
      /\ repo'[p][Len(repo[p]) + 1] = d
      /\ \A i \in 1 .. Len(repo[p]) : repo'[p][i] = repo[p][i]
      /\ \A o \in Paths \ {p} : repo'[o] = repo[o]
  <2>1. repo[p] \in Seq(File)
    BY <1>1
  <2>2. /\ Append(repo[p], d) \in Seq(File)
        /\ Len(Append(repo[p], d)) = Len(repo[p]) + 1
        /\ Append(repo[p], d)[Len(repo[p]) + 1] = d
        /\ \A i \in 1 .. Len(repo[p]) : Append(repo[p], d)[i] = repo[p][i]
    BY <2>1
  <2>3. repo'[p] = Append(repo[p], d) /\ \A o \in Paths \ {p} : repo'[o] = repo[o]
    BY <1>1
  <2>4. repo' \in [Paths -> Seq(File)]
    BY <1>1, <2>2
  <2> QED BY <2>2, <2>3, <2>4
<1>3. TypeOK'
  BY <1>1, <1>2, Basics DEF EditorInv, TypeOK, Files
<1>4. StateOK'
  <2>1. \A o \in Paths : Len(repo'[o]) > 0
    BY <1>1, <1>2
  <2> QED BY <1>3, <2>1 DEF EditorInv, StateOK, InHand
<1>5. Together'
  <2> SUFFICES ASSUME ~page.kept
               PROVE  Together'
    BY DEF Together
  <2>1. /\ page.file # NoFile => Matched(page.file, page.draft)
        /\ put.stage = "sent" => Matched(put.file, put.draft)
        /\ NothingOverwritten
    BY DEF EditorInv, Together
  <2>2. ASSUME NEW o \in Paths, NEW i \in 2 .. Len(repo'[o])
        PROVE  repo'[o][i].path = o /\ repo'[o][i].rev = i - 1
    <3>1. CASE o = p /\ i = Len(repo[p]) + 1
      BY <1>1, <1>2, <3>1
    <3>2. CASE o = p /\ i # Len(repo[p]) + 1
      <4>1. i \in 2 .. Len(repo[p])
        BY <1>1, <1>2, <2>2, <3>2
      <4> QED BY <1>2, <2>1, <3>2, <4>1 DEF NothingOverwritten
    <3>3. CASE o # p
      BY <1>2, <2>1, <3>3 DEF NothingOverwritten
    <3> QED BY <3>1, <3>2, <3>3
  <2>3. NothingOverwritten'
    BY <2>2 DEF NothingOverwritten
  <2> QED BY <2>1, <2>3 DEF Together, Matched
<1>6. NobodyWaitsForNothing'
  <2>1. put # NoPut => put' # NoPut
    BY DEF NoPut
  <2> QED BY <2>1 DEF EditorInv, NobodyWaitsForNothing, WaitsFor
<1> QED BY <1>4, <1>5, <1>6 DEF EditorInv

LEMMA ServerSteps ==
  ASSUME EditorInv,
         \/ \E p \in Paths : ServeRead(p) \/ ReadFails(p) \/ CommitElsewhere(p)
         \/ ServeSave \/ SaveFails
  PROVE  EditorInv'
<1>1. /\ page \in Page /\ cache \in [Paths -> Files] /\ reads \in [Paths -> Read]
      /\ page.file # NoFile => page.draft # NoFile
      /\ put \in Put \cup {NoPut} /\ spent \in [Bounds -> Nat]
  BY Basics DEF EditorInv
<1>2. UNCHANGED <<page, cache>>
  BY DEF ServeRead, ReadFails, CommitElsewhere, ServeSave, SaveFails
<1>3. ASSUME NEW p \in Paths, ServeRead(p) \/ ReadFails(p)
      PROVE  EditorInv'
  <2>1. PICK f \in Files : reads' = [reads EXCEPT ![p].stage = "done", ![p].file = f]
    BY <1>3, LatestIsAFile DEF ServeRead, ReadFails, EditorInv, Files
  <2> DEFINE read == [[reads[p] EXCEPT !.stage = "done"] EXCEPT !.file = f]
  <2>2. read \in Read /\ read.waits = reads[p].waits
    BY <1>1 DEF Read, Files
  <2>3. reads' = [reads EXCEPT ![p] = read]
    BY <1>1, <2>1
  <2> HIDE DEF read
  <2>4. reads' \in [Paths -> Read] /\ \A o \in Paths : reads'[o].waits = reads[o].waits
    BY <1>1, <2>2, <2>3
  <2>5. UNCHANGED <<repo, put>> /\ spent' \in [Bounds -> Nat]
    BY <1>1, <1>3, SpentType DEF EditorInv, ServeRead, ReadFails, Bounds
  <2>6. /\ \A o \in Paths : \A i \in 1 .. Len(reads'[o].waits) :
              reads'[o].waits[i].what = "open" /\ reads'[o].waits[i].hit # NoFile
                  => page'.draft # NoFile
        /\ page'.saving => put' # NoPut \/ WaitsFor("saved")'
        /\ page'.loading => WaitsFor("open")'
    BY <1>2, <2>4, <2>5, StillWaiting
  <2> QED BY <1>1, <1>2, <2>4, <2>5, <2>6, Kept
<1>4. ASSUME NEW p \in Paths, CommitElsewhere(p)
      PROVE  EditorInv'
  <2> DEFINE d == Elsewhere(p, Len(repo[p]) + 1)
  <2>1. Len(repo[p]) \in Nat \ {0} /\ repo \in [Paths -> Seq(File)]
    BY Basics DEF EditorInv
  <2>2. d \in File /\ d.path = p /\ d.rev = Len(repo[p])
    BY <2>1 DEF Elsewhere, File, Texts
  <2>3. repo' = [repo EXCEPT ![p] = Append(@, d)]
    BY <1>4, <2>1 DEF CommitElsewhere
  <2> HIDE DEF d
  <2>4. UNCHANGED <<reads, put>> /\ spent' \in [Bounds -> Nat]
    BY <1>4, SpentType DEF EditorInv, CommitElsewhere, Bounds
  <2> QED BY <1>2, <2>2, <2>3, <2>4, Committed
<1>5. CASE ServeSave /\ put.file.rev = Latest(put.file.path).rev
  <2>1. /\ put.stage = "sent"
        /\ repo' = [repo EXCEPT ![put.file.path] = Append(@, put.draft)]
        /\ put' = [put EXCEPT !.stage = "saved"]
        /\ UNCHANGED <<reads, spent>>
    BY <1>5 DEF ServeSave
  <2>2. put \in Put
    BY <1>1, <2>1 DEF NoPut
  <2>3. put' \in Put /\ put'.stage = "saved"
    BY <2>1, <2>2 DEF Put
  <2>4. put.file.path \in Paths /\ put.draft \in File
    BY <2>2 DEF Put, File
  <2>5. ~page.kept => put.draft.path = put.file.path /\ put.draft.rev = Len(repo[put.file.path])
    BY <1>5, <2>1, <2>4, LatestIsAFile DEF EditorInv, Together, Matched
  <2> QED BY <1>1, <1>2, <2>1, <2>3, <2>4, <2>5, Committed
<1>6. CASE SaveFails \/ (ServeSave /\ put.file.rev # Latest(put.file.path).rev)
  <2>1. PICK stage \in {"conflict", "error"} : put' = [put EXCEPT !.stage = stage]
    BY <1>6 DEF SaveFails, ServeSave
  <2>2. put \in Put
    BY <1>1, <1>6 DEF NoPut, SaveFails, ServeSave
  <2>3. put' \in Put /\ put'.stage # "sent" /\ put' # NoPut
    BY <2>1, <2>2 DEF Put, NoPut
  <2>4. UNCHANGED <<repo, reads>> /\ spent' \in [Bounds -> Nat]
    BY <1>1, <1>6, SpentType DEF EditorInv, SaveFails, ServeSave, Bounds
  <2>5. /\ \A o \in Paths : \A i \in 1 .. Len(reads'[o].waits) :
              reads'[o].waits[i].what = "open" /\ reads'[o].waits[i].hit # NoFile
                  => page'.draft # NoFile
        /\ page'.loading => WaitsFor("open")'
    BY <1>2, <2>4, StillWaiting
  <2> QED BY <1>1, <1>2, <2>3, <2>4, <2>5, Kept
<1> QED BY <1>3, <1>4, <1>5, <1>6

LEMMA EditorInvariance == Spec => []EditorInv
<1>1. Init => EditorInv
  <2> SUFFICES ASSUME Init
               PROVE  EditorInv
    OBVIOUS
  <2>1. \A p \in Paths : Elsewhere(p, 1) \in File
    BY DEF Elsewhere, File, Texts
  <2>2. repo \in [Paths -> Seq(File)] /\ \A p \in Paths : Len(repo[p]) = 1
    BY <2>1 DEF Init
  <2>3. reads \in [Paths -> Read] /\ \A p \in Paths : reads[p].waits = <<>>
    BY DEF Init, NoRead, Read
  <2>4. TypeOK
    BY <2>2, <2>3 DEF Init, TypeOK, Page
  <2>5. StateOK
    BY <2>2, <2>3, <2>4 DEF Init, StateOK, InHand
  <2>6. Together
    BY <2>2 DEF Init, Together, NothingOverwritten, NoPut
  <2> QED BY <2>5, <2>6 DEF Init, EditorInv, NobodyWaitsForNothing
<1>2. EditorInv /\ [Next]_vars => EditorInv'
  <2>1. CASE UNCHANGED vars
    BY <2>1 DEF vars, EditorInv, StateOK, TypeOK, InHand, Together, Matched,
       NothingOverwritten, NobodyWaitsForNothing, WaitsFor
  <2>2. CASE Next
    BY <2>2, AskingSteps, AnswerStep, EditSteps, ServerSteps DEF Next
  <2> QED BY <2>1, <2>2
<1> QED BY <1>1, <1>2, PTL DEF Spec

\* For any number of entries, waits, edits and saves, and whatever others commit: unless
\* an answer changed the file under a text, no save replaces a revision its text was not
\* made from (Configurations.tsx, save; handleSaveConfig).
THEOREM UnseenIsNotReplaced == Spec => []OverwrittenOnlyIfKept
<1>1. EditorInv => OverwrittenOnlyIfKept
  BY DEF EditorInv, Together, OverwrittenOnlyIfKept
<1> QED BY <1>1, EditorInvariance, PTL

\* Whatever fails, is overtaken or is shared by several who wait: a page that says it is
\* saving, or loading, waits for an answer that will end it (Configurations.tsx,
\* setSaving and setLoadingFile).
THEOREM IndicatorsEnd == Spec => []NobodyWaitsForNothing
<1>1. EditorInv => NobodyWaitsForNothing
  BY DEF EditorInv
<1> QED BY <1>1, EditorInvariance, PTL

-----------------------------------------------------------------------------
(* The watch of a restart. *)

Reads == {"none", "asked", "done", "progressing", "stuck", "over"}
ClickPcs == {"none", "patching", "answered"}
Phases == {"none", "progressing", "stuck", "done", "failed"}

\* What the proof needs of the types.
FollowedTypeOK ==
    /\ {clock, template, observed, rolled} \subseteq Nat
    /\ rolled <= observed /\ observed <= template
    /\ clicks \in [Clicks -> [pc : ClickPcs, now : Nat, since : Nat]]
    /\ watch \in [id : Nat, phase : Phases, timer : BOOLEAN, fails : Nat, expired : BOOLEAN,
                  since : Nat]
    /\ polls \in [Polls -> [id : Nat, since : Nat, read : Reads]]
    /\ watches \in Nat

\* Every restart that is followed, or is about to be, has been made.
NothingFromTheFuture ==
    /\ watch.since <= template
    /\ \A p \in Polls : polls[p].since <= template
    /\ \A c \in Clicks : clicks[c].since <= template

\* An id is given to one watch, of one restart; the polls know it by that id.
OneRestartPerWatch ==
    /\ watch.id <= watches
    /\ \A p \in Polls : polls[p].id <= watches
    /\ watch.id = 0 => watch = NoWatch
    /\ \A p \in Polls :
           /\ polls[p].id = 0 => polls[p] = NoPoll
           /\ polls[p].id = watch.id => polls[p].since = watch.since

FollowedInv ==
    /\ FollowedTypeOK
    /\ NothingFromTheFuture
    /\ OneRestartPerWatch
    /\ DoneMeansRolledOut

\* The variables the invariant is about.
followed == <<clock, template, observed, rolled, clicks, watch, polls, watches>>

-----------------------------------------------------------------------------

LEMMA InitFollowed == RestartInit => FollowedInv
  <1>. SUFFICES ASSUME RestartInit PROVE FollowedInv
    OBVIOUS
  <1>1. FollowedTypeOK
    BY DEF RestartInit, FollowedTypeOK, NoClick, NoWatch, NoPoll, ClickPcs, Phases, Reads
  <1>. QED
    BY <1>1
       DEF RestartInit, FollowedInv, NothingFromTheFuture, OneRestartPerWatch,
           DoneMeansRolledOut, NoClick, NoWatch, NoPoll

LEMMA Types ==
  ASSUME FollowedInv
  PROVE  /\ template \in Nat /\ observed \in Nat /\ rolled \in Nat /\ watches \in Nat
         /\ clock \in Nat /\ rolled <= observed /\ observed <= template
         /\ watch.id \in Nat /\ watch.since \in Nat /\ watch.fails \in Nat
         /\ \A p \in Polls : polls[p].id \in Nat /\ polls[p].since \in Nat
         /\ \A c \in Clicks : clicks[c].since \in Nat /\ clicks[c].now \in Nat
  BY DEF FollowedInv, FollowedTypeOK

-----------------------------------------------------------------------------
(* The cluster and the requests. *)

\* The template grows, the controller and the pods come after it.
LEMMA ClusterKeeps ==
  ASSUME FollowedInv, Second \/ Observe \/ Roll
  PROVE  FollowedInv'
  <1>1. /\ template' = template
        /\ observed' \in Nat /\ rolled' \in Nat
        /\ rolled <= rolled' /\ rolled' <= observed' /\ observed' <= template
        /\ clock' \in Nat
        /\ UNCHANGED <<clicks, watch, polls, watches>>
    BY Types DEF Second, Observe, Roll
  <1>2. FollowedTypeOK'
    BY <1>1, Types DEF FollowedInv, FollowedTypeOK
  <1>3. NothingFromTheFuture' /\ OneRestartPerWatch'
    BY <1>1 DEF FollowedInv, NothingFromTheFuture, OneRestartPerWatch
  <1>4. DoneMeansRolledOut'
    BY <1>1, Types DEF FollowedInv, DoneMeansRolledOut
  <1>. QED
    BY <1>2, <1>3, <1>4 DEF FollowedInv

\* A request is at another point, with a restart that has been made.
LEMMA RequestKeeps ==
  ASSUME FollowedInv, NEW c \in Clicks,
         NEW click \in [pc : ClickPcs, now : Nat, since : Nat],
         clicks' = [clicks EXCEPT ![c] = click],
         template' \in {template, template + 1}, click.since <= template',
         UNCHANGED <<clock, observed, rolled, watch, polls, watches>>
  PROVE  FollowedInv'
  <1>1. template' \in Nat /\ template <= template'
    BY Types
  <1>2. FollowedTypeOK'
    BY <1>1, Types DEF FollowedInv, FollowedTypeOK
  <1>3. NothingFromTheFuture'
    BY <1>1, Types DEF FollowedInv, NothingFromTheFuture, FollowedTypeOK
  <1>4. OneRestartPerWatch' /\ DoneMeansRolledOut'
    BY DEF FollowedInv, OneRestartPerWatch, DoneMeansRolledOut
  <1>. QED
    BY <1>2, <1>3, <1>4 DEF FollowedInv

LEMMA ClicksKeep ==
  ASSUME FollowedInv, NEW c \in Clicks,
         Ask(c) \/ Patch(c) \/ RestartFails(c)
  PROVE  FollowedInv'
  <1>1. NoClick \in [pc : ClickPcs, now : Nat, since : Nat] /\ NoClick.since = 0
    BY DEF NoClick, ClickPcs
  <1>2. ASSUME Ask(c) PROVE FollowedInv'
    <2>1. /\ UNCHANGED <<clock, template, observed, rolled, watch, polls, watches>>
          /\ \/ clicks' = [clicks EXCEPT ![c] = [pc |-> "answered", now |-> 0, since |-> template]]
             \/ clicks' = [clicks EXCEPT ![c] = [pc |-> "patching", now |-> clock, since |-> 0]]
      BY <1>2 DEF Ask, Click, cluster, Browser
    <2>2. /\ [pc |-> "answered", now |-> 0, since |-> template]
                 \in [pc : ClickPcs, now : Nat, since : Nat]
          /\ [pc |-> "patching", now |-> clock, since |-> 0]
                 \in [pc : ClickPcs, now : Nat, since : Nat]
      BY Types DEF ClickPcs
    <2>3. template' \in {template, template + 1} /\ 0 <= template' /\ template <= template'
      BY <2>1, Types
    <2>. QED
      BY <2>1, <2>2, <2>3, RequestKeeps
  <1>3. ASSUME Patch(c) PROVE FollowedInv'
    <2>1. /\ UNCHANGED <<clock, observed, rolled, watch, polls, watches>>
          /\ template' \in {template, template + 1}
          /\ \/ clicks' = [clicks EXCEPT ![c] = [pc |-> "answered", now |-> 0,
                                                 since |-> template']]
             \/ clicks' = [clicks EXCEPT ![c] = NoClick]
      BY <1>3 DEF Patch, Click, Browser
    <2>2. /\ template' \in Nat
          /\ [pc |-> "answered", now |-> 0, since |-> template']
                 \in [pc : ClickPcs, now : Nat, since : Nat]
      BY <2>1, Types DEF ClickPcs
    <2>. QED
      BY <1>1, <2>1, <2>2, Types, RequestKeeps
  <1>4. ASSUME RestartFails(c) PROVE FollowedInv'
    <2>1. /\ UNCHANGED <<clock, template, observed, rolled, watch, polls, watches>>
          /\ clicks' = [clicks EXCEPT ![c] = NoClick]
      BY <1>4 DEF RestartFails, cluster, Browser
    <2>2. template' \in {template, template + 1} /\ 0 <= template'
      BY <2>1, Types
    <2>. QED
      BY <1>1, <2>1, <2>2, RequestKeeps
  <1>. QED
    BY <1>2, <1>3, <1>4

-----------------------------------------------------------------------------
(* The watch. *)

\* The watch goes on, or goes; it is done only if its restart is rolled out.  Of
\* the polls any number end, and the rest stay.
LEMMA WatchKeeps ==
  ASSUME FollowedInv,
         watch' \in [id : Nat, phase : Phases, timer : BOOLEAN, fails : Nat,
                     expired : BOOLEAN, since : Nat],
         watch' = NoWatch \/ (watch # NoWatch /\ watch'.id = watch.id
                                /\ watch'.since = watch.since),
         watch'.phase = "done" => watch.phase = "done" \/ rolled >= watch.since,
         polls' \in [Polls -> [id : Nat, since : Nat, read : Reads]],
         \A p \in Polls : polls'[p] \in {polls[p], NoPoll},
         clicks' \in [Clicks -> [pc : ClickPcs, now : Nat, since : Nat]],
         \A c \in Clicks : clicks'[c] \in {clicks[c], NoClick},
         UNCHANGED <<clock, template, observed, rolled, watches>>
  PROVE  FollowedInv'
  <1>1. FollowedTypeOK'
    BY DEF FollowedInv, FollowedTypeOK
  <1>2. NothingFromTheFuture'
    <2>1. watch'.since <= template
      BY Types DEF FollowedInv, NothingFromTheFuture, NoWatch
    <2>2. \A p \in Polls : polls'[p].since <= template
      BY Types DEF FollowedInv, NothingFromTheFuture, NoPoll
    <2>3. \A c \in Clicks : clicks'[c].since <= template
      BY Types DEF FollowedInv, NothingFromTheFuture, NoClick
    <2>. QED
      BY <2>1, <2>2, <2>3 DEF NothingFromTheFuture
  <1>3. OneRestartPerWatch'
    <2>1. watch'.id <= watches /\ (watch'.id = 0 => watch' = NoWatch)
      BY Types DEF FollowedInv, OneRestartPerWatch, NoWatch
    <2>. SUFFICES ASSUME NEW p \in Polls
                  PROVE  /\ polls'[p].id <= watches
                         /\ polls'[p].id = 0 => polls'[p] = NoPoll
                         /\ polls'[p].id = watch'.id => polls'[p].since = watch'.since
      BY <2>1 DEF OneRestartPerWatch
    <2>2. CASE polls'[p] = NoPoll
      BY <2>1, <2>2, Types DEF NoPoll, NoWatch
    <2>3. CASE polls'[p] = polls[p]
      <3>1. CASE watch' = NoWatch
        BY <2>3, <3>1 DEF FollowedInv, OneRestartPerWatch, NoWatch, NoPoll
      <3>2. CASE watch'.id = watch.id /\ watch'.since = watch.since
        BY <2>3, <3>2 DEF FollowedInv, OneRestartPerWatch
      <3>. QED
        BY <3>1, <3>2
    <2>. QED
      BY <2>2, <2>3
  <1>4. DoneMeansRolledOut'
    BY DEF FollowedInv, DoneMeansRolledOut, NoWatch, NoPoll
  <1>. QED
    BY <1>1, <1>2, <1>3, <1>4 DEF FollowedInv

\* A poll goes on for the restart it asks for; the watch stays.
LEMMA PollKeeps ==
  ASSUME FollowedInv, NEW p \in Polls,
         NEW poll \in [id : Nat, since : Nat, read : Reads],
         polls' = [polls EXCEPT ![p] = poll],
         poll.id = watch.id \/ (poll.id = polls[p].id /\ poll.since = polls[p].since),
         poll.id = watch.id => poll.since = watch.since,
         poll.id # 0,
         poll.read = "done" => rolled >= poll.since,
         watch' \in [id : Nat, phase : Phases, timer : BOOLEAN, fails : Nat,
                     expired : BOOLEAN, since : Nat],
         watch'.id = watch.id, watch'.since = watch.since, watch'.phase = watch.phase,
         watch = NoWatch => watch' = NoWatch,
         UNCHANGED <<clock, template, observed, rolled, clicks, watches>>
  PROVE  FollowedInv'
  <1>1. /\ polls' \in [Polls -> [id : Nat, since : Nat, read : Reads]]
        /\ polls'[p] = poll
        /\ \A q \in Polls : q # p => polls'[q] = polls[q]
    BY DEF FollowedInv, FollowedTypeOK
  <1>2. FollowedTypeOK'
    BY <1>1 DEF FollowedInv, FollowedTypeOK
  <1>3. poll.since <= template
    BY DEF FollowedInv, NothingFromTheFuture
  <1>4. NothingFromTheFuture'
    BY <1>1, <1>3 DEF FollowedInv, NothingFromTheFuture
  <1>5. OneRestartPerWatch'
    <2>1. watch'.id <= watches /\ (watch'.id = 0 => watch' = NoWatch)
      BY DEF FollowedInv, OneRestartPerWatch
    <2>. SUFFICES ASSUME NEW q \in Polls
                  PROVE  /\ polls'[q].id <= watches
                         /\ polls'[q].id = 0 => polls'[q] = NoPoll
                         /\ polls'[q].id = watch'.id => polls'[q].since = watch'.since
      BY <2>1 DEF OneRestartPerWatch
    <2>2. CASE q = p
      BY <1>1, <2>2 DEF FollowedInv, OneRestartPerWatch
    <2>3. CASE q # p
      BY <1>1, <2>3 DEF FollowedInv, OneRestartPerWatch
    <2>. QED
      BY <2>2, <2>3
  <1>6. DoneMeansRolledOut'
    BY <1>1 DEF FollowedInv, DoneMeansRolledOut
  <1>. QED
    BY <1>2, <1>4, <1>5, <1>6 DEF FollowedInv

\* PollAsks with a watch: the poll takes its id and its restart.
LEMMA PollAsksKeeps ==
  ASSUME FollowedInv, NEW p \in Polls, PollAsks(p)
  PROVE  FollowedInv'
  <1>1. /\ watch' = [watch EXCEPT !.timer = FALSE] \/ watch' = watch
        /\ watch' # watch => watch.timer
        /\ polls' = IF watch = NoWatch THEN polls
                    ELSE [polls EXCEPT ![p] = [id |-> watch.id, since |-> watch.since,
                                               read |-> "asked"]]
        /\ UNCHANGED <<clock, template, observed, rolled, clicks, watches>>
    BY DEF PollAsks, cluster
  <1>2. /\ watch \in [id : Nat, phase : Phases, timer : BOOLEAN, fails : Nat,
                     expired : BOOLEAN, since : Nat]
        /\ watch' \in [id : Nat, phase : Phases, timer : BOOLEAN, fails : Nat,
                     expired : BOOLEAN, since : Nat]
        /\ watch'.id = watch.id /\ watch'.since = watch.since /\ watch'.phase = watch.phase
    BY <1>1 DEF FollowedInv, FollowedTypeOK
  <1>3. watch = NoWatch => watch' = NoWatch
    BY <1>1 DEF NoWatch
  <1>4. CASE watch = NoWatch
    <2>1. UNCHANGED <<polls, watch, clock, template, observed, rolled, clicks, watches>>
      BY <1>1, <1>3, <1>4
    <2>. QED
      BY <2>1
         DEF FollowedInv, FollowedTypeOK, NothingFromTheFuture, OneRestartPerWatch,
             DoneMeansRolledOut
  <1>5. CASE watch # NoWatch
    <2>. DEFINE poll == [id |-> watch.id, since |-> watch.since, read |-> "asked"]
    <2>1. /\ poll \in [id : Nat, since : Nat, read : Reads]
          /\ poll.id = watch.id /\ poll.since = watch.since /\ poll.read = "asked"
      BY <1>2 DEF Reads
    <2>2. watch.id # 0
      BY <1>5 DEF FollowedInv, OneRestartPerWatch
    <2>3. polls' = [polls EXCEPT ![p] = poll]
      BY <1>1, <1>5
    <2>. HIDE DEF poll
    <2>. QED
      BY <1>1, <1>2, <1>3, <2>1, <2>2, <2>3, PollKeeps
  <1>. QED
    BY <1>4, <1>5

\* RolloutStatus says done when every pod runs the template, and so every restart's.
LEMMA PollReadsKeeps ==
  ASSUME FollowedInv, NEW p \in Polls, PollReads(p)
  PROVE  FollowedInv'
  <1>1. PICK read \in Reads :
           /\ polls' = [polls EXCEPT ![p].read = read]
           /\ read = "done" => Done
    BY DEF PollReads, Reads
  <1>2. /\ polls[p].read = "asked"
        /\ UNCHANGED <<clock, template, observed, rolled, clicks, watch, watches>>
    BY DEF PollReads, cluster
  <1>. DEFINE poll == [polls[p] EXCEPT !.read = read]
  <1>3. /\ polls[p] \in [id : Nat, since : Nat, read : Reads]
        /\ poll \in [id : Nat, since : Nat, read : Reads]
        /\ poll.id = polls[p].id /\ poll.since = polls[p].since /\ poll.read = read
        /\ polls' = [polls EXCEPT ![p] = poll]
    BY <1>1 DEF FollowedInv, FollowedTypeOK
  <1>4. poll.read = "done" => rolled >= poll.since
    <2>1. Done => rolled = template
      BY DEF Done
    <2>2. polls[p].since <= template
      BY DEF FollowedInv, NothingFromTheFuture
    <2>. QED
      BY <1>1, <1>3, <2>1, <2>2, Types
  <1>5. poll.id # 0 /\ (poll.id = watch.id => poll.since = watch.since)
    BY <1>2, <1>3 DEF FollowedInv, OneRestartPerWatch, NoPoll
  <1>6. watch \in [id : Nat, phase : Phases, timer : BOOLEAN, fails : Nat,
                   expired : BOOLEAN, since : Nat]
    BY DEF FollowedInv, FollowedTypeOK
  <1>. HIDE DEF poll
  <1>. QED
    BY <1>2, <1>3, <1>4, <1>5, <1>6, PollKeeps

\* A new watch has a new id, and its restart has been made.
LEMMA StartKeeps ==
  ASSUME FollowedInv, NEW c \in Clicks, StartRestartWatch(c)
  PROVE  FollowedInv'
  <1>1. /\ clicks' = [clicks EXCEPT ![c] = NoClick]
        /\ UNCHANGED <<clock, template, observed, rolled, polls>>
    BY DEF StartRestartWatch, cluster
  <1>2. /\ clicks' \in [Clicks -> [pc : ClickPcs, now : Nat, since : Nat]]
        /\ \A d \in Clicks : clicks'[d] \in {clicks[d], NoClick}
    BY <1>1 DEF FollowedInv, FollowedTypeOK, NoClick, ClickPcs
  <1>3. CASE Following
    <2>1. UNCHANGED <<watch, watches>>
      BY <1>3 DEF StartRestartWatch
    <2>2. watch # NoWatch
      BY <1>3 DEF Following, NoWatch
    <2>. QED
      BY <1>1, <1>2, <2>1, <2>2, WatchKeeps DEF FollowedInv, FollowedTypeOK
  <1>4. CASE ~Following
    <2>1. /\ watches' = watches + 1
          /\ watch' = [id |-> watches + 1, phase |-> "progressing", timer |-> TRUE,
                       fails |-> 0, expired |-> FALSE, since |-> clicks[c].since]
      BY <1>4 DEF StartRestartWatch
    <2>2. FollowedTypeOK'
      BY <1>1, <1>2, <2>1, Types DEF FollowedInv, FollowedTypeOK, Phases
    <2>3. NothingFromTheFuture'
      BY <1>1, <1>2, <2>1, Types DEF FollowedInv, NothingFromTheFuture, NoClick
    <2>4. OneRestartPerWatch'
      <3>1. /\ watches' = watches + 1 /\ watch'.id = watches + 1
            /\ \A p \in Polls : polls[p].id <= watches /\ polls[p].id \in Nat
            /\ \A p \in Polls : polls[p].id = 0 => polls[p] = NoPoll
        BY <2>1, Types DEF FollowedInv, OneRestartPerWatch
      <3>. QED
        BY <1>1, <3>1, Types DEF OneRestartPerWatch
    <2>5. DoneMeansRolledOut'
      BY <1>1, <2>1 DEF FollowedInv, DoneMeansRolledOut
    <2>. QED
      BY <2>2, <2>3, <2>4, <2>5 DEF FollowedInv
  <1>. QED
    BY <1>3, <1>4

\* The answer of a poll: the poll is over, and the watch that is there goes on.
LEMMA PollEnds ==
  ASSUME FollowedInv, NEW p \in Polls,
         polls' = [polls EXCEPT ![p] = NoPoll]
  PROVE  /\ polls' \in [Polls -> [id : Nat, since : Nat, read : Reads]]
         /\ \A q \in Polls : polls'[q] \in {polls[q], NoPoll}
  BY DEF FollowedInv, FollowedTypeOK, NoPoll, Reads

Watches == [id : Nat, phase : Phases, timer : BOOLEAN, fails : Nat, expired : BOOLEAN,
            since : Nat]

\* What a step makes of the watch that is there, if any.
GoesOn(w) ==
    /\ w \in Watches
    /\ w = NoWatch \/ (watch # NoWatch /\ w.id = watch.id /\ w.since = watch.since)
    /\ w.phase = "done" => watch.phase = "done" \/ rolled >= watch.since

LEMMA WatchGoesOn ==
  ASSUME FollowedInv
  PROVE  /\ watch \in Watches /\ NoWatch \in Watches /\ GoesOn(watch) /\ GoesOn(NoWatch)
         /\ \A t \in BOOLEAN, f \in Nat, ph \in Phases \ {"done"} : watch # NoWatch =>
               /\ GoesOn([watch EXCEPT !.timer = t])
               /\ GoesOn([watch EXCEPT !.fails = f, !.timer = t])
               /\ GoesOn([watch EXCEPT !.phase = ph, !.timer = t])
               /\ GoesOn([watch EXCEPT !.phase = ph, !.fails = f, !.timer = t])
         /\ watch # NoWatch => GoesOn([watch EXCEPT !.expired = TRUE])
         /\ watch # NoWatch /\ rolled >= watch.since =>
               GoesOn([watch EXCEPT !.phase = "done", !.fails = 0])
  <1>1. watch \in Watches /\ NoWatch \in Watches
    BY DEF FollowedInv, FollowedTypeOK, Watches, NoWatch, Phases
  <1>2. "done" \in Phases
    BY DEF Phases
  <1>3. GoesOn(watch) /\ GoesOn(NoWatch)
    BY <1>1 DEF GoesOn, NoWatch
  <1>4. ASSUME NEW t \in BOOLEAN, NEW f \in Nat, NEW ph \in Phases \ {"done"},
               watch # NoWatch
        PROVE  /\ GoesOn([watch EXCEPT !.timer = t])
               /\ GoesOn([watch EXCEPT !.fails = f, !.timer = t])
               /\ GoesOn([watch EXCEPT !.phase = ph, !.timer = t])
               /\ GoesOn([watch EXCEPT !.phase = ph, !.fails = f, !.timer = t])
    BY <1>1, <1>4 DEF GoesOn, Watches
  <1>5. ASSUME watch # NoWatch
        PROVE  GoesOn([watch EXCEPT !.expired = TRUE])
    BY <1>1, <1>5 DEF GoesOn, Watches
  <1>6. ASSUME watch # NoWatch, rolled >= watch.since
        PROVE  GoesOn([watch EXCEPT !.phase = "done", !.fails = 0])
    BY <1>1, <1>2, <1>6 DEF GoesOn, Watches
  <1>. QED
    BY <1>1, <1>3, <1>4, <1>5, <1>6

LEMMA PollFailsKeeps ==
  ASSUME FollowedInv, NEW p \in Polls, PollFails(p) \/ PollUnread(p)
  PROVE  FollowedInv'
  <1>1. /\ polls' = [polls EXCEPT ![p] = NoPoll]
        /\ UNCHANGED <<clock, template, observed, rolled, clicks, watches>>
    BY DEF PollFails, PollUnread, cluster
  <1>2. GoesOn(watch')
    <2>1. CASE watch' = watch
      BY <2>1, WatchGoesOn
    <2>2. CASE watch # NoWatch
               /\ watch' = [watch EXCEPT !.fails = MAX_FAILS, !.phase = "failed", !.timer = FALSE]
      <3>1. MAX_FAILS \in Nat /\ "failed" \in Phases \ {"done"}
        BY RestartConstants DEF RestartConstants, Phases
      <3>2. GoesOn([watch EXCEPT !.phase = "failed", !.fails = MAX_FAILS, !.timer = FALSE])
        BY <2>2, <3>1, WatchGoesOn
      <3>3. watch' = [watch EXCEPT !.phase = "failed", !.fails = MAX_FAILS, !.timer = FALSE]
        BY <2>2, WatchGoesOn DEF Watches
      <3>. QED
        BY <3>2, <3>3
    <2>3. PICK fails \in Nat : RegisterFail(fails)
      <3>1. watch.fails \in Nat /\ 0 \in Nat
        BY Types
      <3>. QED
        BY <3>1 DEF PollFails, PollUnread
    <2>4. CASE watch # NoWatch /\ Scheduled([watch EXCEPT !.fails = fails + 1])
      <3>1. watch \in Watches
        BY WatchGoesOn
      <3>2. watch' = [watch EXCEPT !.fails = fails + 1, !.timer = TRUE]
        BY <2>4, <3>1 DEF Scheduled, Watches
      <3>3. fails + 1 \in Nat
        OBVIOUS
      <3>4. /\ watch' \in Watches /\ watch'.id = watch.id /\ watch'.since = watch.since
            /\ watch'.phase = watch.phase
        BY <3>1, <3>2, <3>3 DEF Watches
      <3>. QED
        BY <2>4, <3>4 DEF GoesOn
    <2>. QED
      BY <2>1, <2>2, <2>3, <2>4 DEF RegisterFail
  <1>. QED
    BY <1>1, <1>2, PollEnds, WatchKeeps DEF GoesOn, Watches, FollowedInv, FollowedTypeOK

\* The status arrives.  "done" was read for the poll's restart, which is the watch's
\* if the poll is its own.
LEMMA PollReturnsKeeps ==
  ASSUME FollowedInv, NEW p \in Polls, PollReturns(p)
  PROVE  FollowedInv'
  <1>1. /\ polls' = [polls EXCEPT ![p] = NoPoll]
        /\ UNCHANGED <<clock, template, observed, rolled, clicks, watches>>
        /\ polls[p].read \in {"done", "progressing", "stuck", "over"}
    BY DEF PollReturns, cluster
  <1>. DEFINE own == polls[p].id = watch.id
  <1>2. own => watch # NoWatch /\ polls[p].since = watch.since
    BY <1>1 DEF FollowedInv, OneRestartPerWatch, NoWatch, NoPoll
  <1>3. GoesOn(watch')
    <2>1. CASE watch' = watch
      BY <2>1, WatchGoesOn
    <2>2. CASE polls[p].read = "done" /\ own /\ watch' = [watch EXCEPT !.phase = "done", !.fails = 0]
      <3>1. rolled >= watch.since
        BY <1>2, <2>2 DEF FollowedInv, DoneMeansRolledOut
      <3>. QED
        BY <1>2, <2>2, <3>1, WatchGoesOn
    <2>3. CASE FinishFail
      <3>1. FALSE \in BOOLEAN /\ "failed" \in Phases \ {"done"}
        BY DEF Phases
      <3>. QED
        BY <2>3, <3>1, WatchGoesOn DEF FinishFail
    <2>4. CASE /\ polls[p].read \in {"progressing", "stuck"} /\ watch # NoWatch
               /\ Scheduled(IF own THEN [watch EXCEPT !.phase = polls[p].read, !.fails = 0]
                            ELSE watch)
      <3>1. CASE own
        <4>1. watch' = [watch EXCEPT !.phase = polls[p].read, !.fails = 0, !.timer = TRUE]
          BY <2>4, <3>1, WatchGoesOn DEF Scheduled, Watches
        <4>2. polls[p].read \in Phases \ {"done"} /\ 0 \in Nat
          BY <2>4 DEF Phases
        <4>. QED
          BY <2>4, <4>1, <4>2, WatchGoesOn
      <3>2. CASE ~own
        <4>1. watch' = [watch EXCEPT !.timer = TRUE] /\ watch \in Watches
          BY <2>4, <3>2, WatchGoesOn DEF Scheduled
        <4>2. /\ watch' \in Watches /\ watch'.id = watch.id /\ watch'.since = watch.since
              /\ watch'.phase = watch.phase
          BY <4>1 DEF Watches
        <4>. QED
          BY <2>4, <4>2 DEF GoesOn
      <3>. QED
        BY <3>1, <3>2
    <2>. QED
      BY <2>1, <2>2, <2>3, <2>4 DEF PollReturns
  <1>. QED
    BY <1>1, <1>3, PollEnds, WatchKeeps DEF GoesOn, Watches, FollowedInv, FollowedTypeOK

LEMMA OthersKeep ==
  ASSUME FollowedInv, Remove \/ Dismiss \/ ExpireWatch \/ ReloadPage
  PROVE  FollowedInv'
  <1>1. CASE Remove \/ Dismiss \/ ExpireWatch
    <2>1. UNCHANGED <<clock, template, observed, rolled, clicks, polls, watches>>
      BY <1>1 DEF Remove, Dismiss, ExpireWatch, cluster
    <2>2. GoesOn(watch')
      <3>1. CASE Remove \/ Dismiss
        BY <3>1, WatchGoesOn DEF Remove, Dismiss
      <3>2. CASE ExpireWatch
        <4>1. watch # NoWatch /\ watch' = [watch EXCEPT !.expired = TRUE]
          BY <3>2 DEF ExpireWatch, Following, NoWatch
        <4>. QED
          BY <4>1, WatchGoesOn
      <3>. QED
        BY <1>1, <3>1, <3>2
    <2>. QED
      BY <2>1, <2>2, WatchKeeps DEF GoesOn, Watches, FollowedInv, FollowedTypeOK
  <1>2. CASE ReloadPage
    <2>1. /\ polls' = [p \in Polls |-> NoPoll]
          /\ clicks' = [c \in Clicks |-> NoClick]
          /\ UNCHANGED <<clock, template, observed, rolled, watches>>
      BY <1>2 DEF ReloadPage, cluster
    <2>2. /\ polls' \in [Polls -> [id : Nat, since : Nat, read : Reads]]
          /\ \A p \in Polls : polls'[p] \in {polls[p], NoPoll}
          /\ clicks' \in [Clicks -> [pc : ClickPcs, now : Nat, since : Nat]]
          /\ \A c \in Clicks : clicks'[c] \in {clicks[c], NoClick}
      BY <2>1 DEF NoPoll, NoClick, Reads, ClickPcs
    <2>3. GoesOn(watch')
      <3>1. CASE Following
        <4>1. watch # NoWatch /\ "progressing" \in Phases \ {"done"} /\ 0 \in Nat
          BY <3>1 DEF Following, NoWatch, Phases
        <4>2. watch' = [watch EXCEPT !.phase = "progressing", !.fails = 0, !.timer = TRUE]
          BY <1>2, <3>1, WatchGoesOn DEF ReloadPage, Watches
        <4>. QED
          BY <4>1, <4>2, WatchGoesOn
      <3>2. CASE ~Following
        BY <1>2, <3>2, WatchGoesOn DEF ReloadPage
      <3>. QED
        BY <3>1, <3>2
    <2>. QED
      BY <2>1, <2>2, <2>3, WatchKeeps DEF GoesOn, Watches
  <1>. QED
    BY <1>1, <1>2

LEMMA StepFollowed ==
  ASSUME FollowedInv, [RestartNext]_restartVars
  PROVE  FollowedInv'
  <1>1. CASE UNCHANGED restartVars
    BY <1>1
       DEF restartVars, FollowedInv, FollowedTypeOK, NothingFromTheFuture,
           OneRestartPerWatch, DoneMeansRolledOut
  <1>2. CASE RestartNext
    BY <1>2, ClusterKeeps, ClicksKeep, StartKeeps, PollAsksKeeps, PollReadsKeeps,
       PollFailsKeeps, PollReturnsKeeps, OthersKeep
       DEF RestartNext
  <1>. QED
    BY <1>1, <1>2

-----------------------------------------------------------------------------

\* The invariant of a followed restart (rollout.go, restartWatcher.ts).
THEOREM FollowedInvariance == RestartSpec => []FollowedInv
  BY InitFollowed, StepFollowed, PTL DEF RestartSpec

\* However many watches, stray polls and reloads there are and whoever else restarts
\* the workload, a restart that is shown as done has been rolled out.
THEOREM DoneIsRolledOut == RestartSpec => []DoneMeansRolledOut
  BY FollowedInvariance, PTL DEF FollowedInv
=============================================================================
