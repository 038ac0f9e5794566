------------------------ MODULE RebuildWatcherProofs ------------------------
(***************************************************************************)
(* For any number of requests at once, rebuilds, reloads, lost answers and *)
(* gates: a watch that shows progress is being followed; and while one     *)
(* rebuild is watched, its gate is released, and the workload restarted,   *)
(* in one request at a time.                                               *)
(*                                                                         *)
(* The latter is not inductive.  A watch moves on through a timer, a poll  *)
(* or a restart, of which it has no more than one, all made for the object *)
(* on record (OneWatch); a release goes beside them, and ends the watch,   *)
(* so that it matters that only pipelines are seen at gates (GatesAreSeen) *)
(* and only builds are restarted after.                                    *)
(***************************************************************************)
EXTENDS RebuildWatcher, FiniteSetTheorems, TLAPS

Polls == UnderWay("poll")
Releases == UnderWay("release")
Restarts == UnderWay("restart")

\* Whatever is numbered is there.
RefsOK ==
    /\ page.watch \in 0 .. Len(watches)
    /\ page.phase # "none" \/ page.timer \/ page.strays > 0 => page.watch # 0
    /\ \A w \in 1 .. Len(watches) : watches[w].job \in 1 .. Len(jobs)
    /\ stored = Nothing \/ stored.job \in 1 .. Len(jobs)
    /\ \A s \in Slots :
          calls[s] # Free => calls[s].watch \in 1 .. Len(watches) /\ page.watch # 0

\* A pipeline stops at as many gates as it has, a build at none.
JobsOK ==
    \A j \in 1 .. Len(jobs) :
        /\ jobs[j].status = "manual" => jobs[j].gates > 0
        /\ jobs[j].kind = "build" => jobs[j].gates = 0

StateOK == TypeOK /\ RefsOK /\ JobsOK

-----------------------------------------------------------------------------
(* The functions of the page's state. *)

LEMMA PageFunctions ==
  ASSUME NEW p \in Page
  PROVE  /\ Schedule(p) \in Page
         /\ Schedule(p).watch = p.watch /\ Schedule(p).phase = p.phase
         /\ Schedule(p).timer
         /\ Schedule(p).strays = IF p.timer THEN p.strays + 1 ELSE p.strays
         /\ \A phase \in Final :
               /\ Stop(p, phase) \in Page
               /\ Stop(p, phase).watch = p.watch /\ Stop(p, phase).phase = phase
               /\ ~Stop(p, phase).timer /\ Stop(p, phase).strays = p.strays
         /\ \A w :
               /\ Seen(p, w) \in Page
               /\ Seen(p, w).watch = p.watch /\ Seen(p, w).phase = p.phase
               /\ (Seen(p, w).timer <=> p.timer) /\ Seen(p, w).strays = p.strays
<1>1. /\ Schedule(p) \in Page
      /\ Schedule(p).watch = p.watch /\ Schedule(p).phase = p.phase
      /\ Schedule(p).timer
      /\ Schedule(p).strays = IF p.timer THEN p.strays + 1 ELSE p.strays
  <2>1. CASE p.timer
    BY <2>1 DEF Page, Schedule
  <2>2. CASE ~p.timer
    BY <2>2 DEF Page, Schedule
  <2> QED BY <2>1, <2>2
<1>2. ASSUME NEW phase \in Final
      PROVE  /\ Stop(p, phase) \in Page
             /\ Stop(p, phase).watch = p.watch /\ Stop(p, phase).phase = phase
             /\ ~Stop(p, phase).timer /\ Stop(p, phase).strays = p.strays
  BY DEF Page, Stop
<1>3. ASSUME NEW w
      PROVE  /\ Seen(p, w) \in Page
             /\ Seen(p, w).watch = p.watch /\ Seen(p, w).phase = p.phase
             /\ (Seen(p, w).timer <=> p.timer) /\ Seen(p, w).strays = p.strays
  BY DEF Page, Seen
<1> QED BY <1>1, <1>2, <1>3

LEMMA FailedPage ==
  ASSUME NEW p \in Page
  PROVE  /\ Failed(p) \in Page
         /\ Failed(p).watch = p.watch
         /\ \/ /\ Failed(p).phase = "failed"
               /\ ~Failed(p).timer /\ Failed(p).strays = p.strays
            \/ /\ Failed(p).phase = p.phase
               /\ Failed(p).timer
               /\ Failed(p).strays = IF p.timer THEN p.strays + 1 ELSE p.strays
<1> DEFINE q == [p EXCEPT !.fails = @ + 1]
<1>1. q \in Page /\ q.watch = p.watch /\ q.phase = p.phase /\ (q.timer <=> p.timer)
      /\ q.strays = p.strays
  BY DEF Page
<1>2. Failed(p) \in {Stop(q, "failed"), Schedule(q)}
  BY DEF Failed
<1> HIDE DEF q
<1> QED BY <1>1, <1>2, PageFunctions DEF Final

\* What is kept for the next page.
LEMMA PersistedWatch ==
  ASSUME StateOK, NEW p \in Page, p.watch \in 0 .. Len(watches),
         p.phase # "none" => p.watch # 0
  PROVE  /\ Persisted(p, watches) \in Watch
         /\ Persisted(p, watches) = Nothing \/ Persisted(p, watches).job \in 1 .. Len(jobs)
<1>1. watches \in Seq(Watch)
  BY DEF StateOK, TypeOK
<1>2. p.phase \in InFlight => p.watch \in 1 .. Len(watches) /\ watches[p.watch] \in Watch
  BY <1>1 DEF InFlight
<1> QED BY <1>2 DEF Persisted, StateOK, RefsOK, Nothing, Watch

-----------------------------------------------------------------------------
(* What a step leaves as it has to be. *)

\* The page's own steps, but for those that make another object.
LEMMA PageSteps ==
  ASSUME StateOK,
         UNCHANGED jobs, spent' \in [Bounds -> Nat],
         watches' \in Seq(Watch), Len(watches') = Len(watches),
         \A w \in 1 .. Len(watches) : watches'[w].job = watches[w].job,
         page' \in Page, page'.watch = page.watch,
         page'.phase # "none" \/ page'.timer \/ page'.strays > 0 => page.watch # 0,
         stored' \in Watch, stored' = Nothing \/ stored'.job \in 1 .. Len(jobs),
         calls' \in [Slots -> Call \cup {Free}],
         \A s \in Slots :
            calls'[s] # Free => calls'[s].watch \in 1 .. Len(watches) /\ page.watch # 0
  PROVE  StateOK'
<1>1. TypeOK'
  BY DEF StateOK, TypeOK
<1>2. RefsOK'
  BY DEF StateOK, RefsOK
<1>3. JobsOK'
  BY DEF StateOK, JobsOK
<1> QED BY <1>1, <1>2, <1>3 DEF StateOK

\* What it takes of the state, in short.
LEMMA Basics ==
  ASSUME StateOK
  PROVE  /\ page \in Page /\ stored \in Watch
         /\ watches \in Seq(Watch) /\ jobs \in Seq(Job)
         /\ calls \in [Slots -> Call \cup {Free}]
         /\ spent \in [Bounds -> Nat]
         /\ page.watch \in 0 .. Len(watches)
         /\ page.phase # "none" \/ page.timer \/ page.strays > 0 => page.watch # 0
         /\ stored = Nothing \/ stored.job \in 1 .. Len(jobs)
         /\ \A s \in Slots :
               calls[s] # Free => calls[s].watch \in 1 .. Len(watches) /\ page.watch # 0
  BY DEF StateOK, TypeOK, RefsOK

LEMMA SpentType ==
  ASSUME StateOK, NEW b \in Bounds, Spend(b)
  PROVE  spent' \in [Bounds -> Nat]
<1>1. spent' = [spent EXCEPT ![b] = @ + 1] /\ spent \in [Bounds -> Nat]
  BY Basics DEF Spend
<1> QED BY <1>1

LEMMA SlotTaken ==
  ASSUME StateOK, NEW s \in Slots, NEW what, calls[s].what = what, what # "none"
  PROVE  /\ calls[s] # Free /\ calls[s] \in Call
         /\ calls[s].watch \in 1 .. Len(watches) /\ page.watch # 0
<1>1. calls[s] # Free
  BY DEF Free
<1> QED BY <1>1, Basics

\* An answer has been dealt with, and no object was made.
LEMMA OverSteps ==
  ASSUME StateOK, NEW s \in Slots, calls[s] # Free, Over(s), UNCHANGED <<jobs, watches, spent>>,
         page' \in Page, page'.watch = page.watch,
         stored' \in {stored, Nothing, Persisted(page, watches), Persisted(page', watches)}
  PROVE  StateOK'
<1>1. calls' \in [Slots -> Call \cup {Free}]
      /\ \A t \in Slots :
            calls'[t] # Free => calls'[t].watch \in 1 .. Len(watches) /\ page.watch # 0
  BY Basics DEF Over
<1>2. stored' \in Watch /\ (stored' = Nothing \/ stored'.job \in 1 .. Len(jobs))
  <2>1. Nothing \in Watch
    BY DEF Nothing, Watch
  <2> QED BY <2>1, Basics, PersistedWatch
<1> QED BY <1>1, <1>2, Basics, PageSteps

LEMMA OverAnswers ==
  ASSUME StateOK, NEW s \in Slots,
         \/ LosesTrack(s) \/ SeesError(s) \/ SeesRunning(s) \/ SeesFailed(s)
         \/ SeesDeployed(s) \/ SeesReleased(s) \/ SeesRefused(s) \/ Restarted(s)
  PROVE  StateOK'
<1> DEFINE w == calls[s].watch
<1>1. page \in Page /\ calls[s] # Free
  BY SlotTaken, Basics DEF LosesTrack, SeesError, SeesRunning, SeesFailed, SeesDeployed,
     SeesReleased, SeesRefused, Restarted
<1>2. {"failed", "done", "waiting-for-person"} \subseteq Final
  BY DEF Final
<1>3. Over(s) /\ UNCHANGED <<jobs, watches, spent>>
  BY DEF LosesTrack, SeesError, SeesRunning, SeesFailed, SeesDeployed,
     SeesReleased, SeesRefused, Restarted
<1>4. page' \in {page, Stop(page, "failed"), Failed(page), Failed(Seen(page, w)),
                 Schedule(Seen(page, w)), Stop(Seen(page, w), "failed"), Stop(Seen(page, w), "done"),
                 Stop(page, "waiting-for-person"), Stop(page, "done")}
  BY DEF LosesTrack, SeesError, SeesRunning, SeesFailed, SeesDeployed,
     SeesReleased, SeesRefused, Restarted
<1>5. page' \in Page /\ page'.watch = page.watch
  <2>1. Seen(page, w) \in Page /\ Seen(page, w).watch = page.watch
    BY <1>1, PageFunctions
  <2>2. /\ Failed(page) \in Page /\ Failed(page).watch = page.watch
        /\ Failed(Seen(page, w)) \in Page /\ Failed(Seen(page, w)).watch = page.watch
    BY <1>1, <2>1, FailedPage
  <2>3. ASSUME NEW p \in {page, Seen(page, w)}, NEW phase \in {"failed", "done", "waiting-for-person"}
        PROVE  Stop(p, phase) \in Page /\ Stop(p, phase).watch = page.watch
    <3>1. p \in Page /\ p.watch = page.watch /\ phase \in Final
      BY <1>1, <1>2, <2>1
    <3> QED BY <3>1, PageFunctions
  <2>4. Schedule(Seen(page, w)) \in Page /\ Schedule(Seen(page, w)).watch = page.watch
    BY <2>1, PageFunctions
  <2> QED BY <1>1, <1>4, <2>2, <2>3, <2>4
<1>6. stored' \in {stored, Nothing, Persisted(page, watches), Persisted(page', watches)}
  BY DEF LosesTrack, SeesError, SeesRunning, SeesFailed, SeesDeployed,
     SeesReleased, SeesRefused, Restarted
<1> QED BY <1>1, <1>3, <1>5, <1>6, OverSteps

\* The answers after which another request is made, or an object is changed.
LEMMA OtherAnswers ==
  ASSUME StateOK, NEW s \in Slots, SeesBuilt(s) \/ SeesManual(s) \/ ReleaseUnanswered(s)
  PROVE  StateOK'
<1> DEFINE w == calls[s].watch
<1>1. /\ page \in Page /\ calls[s] # Free
      /\ w \in 1 .. Len(watches) /\ page.watch # 0
      /\ page.watch \in 1 .. Len(watches)
      /\ watches \in Seq(Watch) /\ Len(watches) \in Nat
      /\ calls \in [Slots -> Call \cup {Free}]
  BY SlotTaken, Basics DEF SeesBuilt, SeesManual, ReleaseUnanswered
<1>2. \A what \in {"release", "restart"} :
         /\ Request(what, page.watch) \in Call
         /\ Request(what, page.watch).watch = page.watch
         /\ [Request(what, page.watch) EXCEPT !.stage = "settling"] \in Call
         /\ [Request(what, page.watch) EXCEPT !.stage = "settling"].watch = page.watch
  BY <1>1 DEF Request, Call
<1>3. /\ calls' \in [Slots -> Call \cup {Free}]
      /\ \A t \in Slots :
            calls'[t] # Free => calls'[t].watch \in 1 .. Len(watches) /\ page.watch # 0
  <2>1. PICK c \in Call \cup {Free} :
           /\ calls' = [calls EXCEPT ![s] = c]
           /\ c # Free => c.watch \in 1 .. Len(watches)
    BY <1>1, <1>2 DEF SeesBuilt, SeesManual, ReleaseUnanswered, Over
  <2> QED BY <1>1, <2>1, Basics
<1>4. /\ watches' \in Seq(Watch) /\ Len(watches') = Len(watches)
      /\ \A v \in 1 .. Len(watches) : watches'[v].job = watches[v].job
  <2>1. CASE watches' = watches
    BY <1>1, <2>1
  <2>2. ASSUME NEW v \in 1 .. Len(watches), NEW b \in BOOLEAN,
               watches' = [watches EXCEPT ![v].released = b]
        PROVE  /\ watches' \in Seq(Watch) /\ Len(watches') = Len(watches)
               /\ \A u \in 1 .. Len(watches) : watches'[u].job = watches[u].job
    <3>1. [watches[v] EXCEPT !.released = b] \in Watch
          /\ [watches[v] EXCEPT !.released = b].job = watches[v].job
      <4>1. watches[v] \in Watch
        BY <1>1
      <4> QED BY <4>1 DEF Watch
    <3> QED BY <1>1, <2>2, <3>1
  <2> QED BY <1>1, <2>1, <2>2 DEF SeesBuilt, SeesManual, ReleaseUnanswered
<1>5. /\ page' \in Page /\ page'.watch = page.watch
      /\ UNCHANGED <<jobs, spent>>
  <2>1. [Seen(page, w) EXCEPT !.phase = "restarting"] \in Page
        /\ [Seen(page, w) EXCEPT !.phase = "restarting"].watch = page.watch
    <3>1. Seen(page, w) \in Page /\ Seen(page, w).watch = page.watch
      BY <1>1, PageFunctions
    <3> QED BY <3>1 DEF Page, InFlight
  <2>2. Schedule(Seen(page, w)) \in Page /\ Schedule(Seen(page, w)).watch = page.watch
    <3>1. Seen(page, w) \in Page /\ Seen(page, w).watch = page.watch
      BY <1>1, PageFunctions
    <3> HIDE DEF w
    <3> QED BY <3>1, PageFunctions
  <2>3. page' \in {page, [Seen(page, w) EXCEPT !.phase = "restarting"], Schedule(Seen(page, w))}
    BY DEF SeesBuilt, SeesManual, ReleaseUnanswered
  <2>4. UNCHANGED <<jobs, spent>>
    BY DEF SeesBuilt, SeesManual, ReleaseUnanswered
  <2> QED BY <1>1, <2>1, <2>2, <2>3, <2>4
<1>6. stored' \in Watch /\ (stored' = Nothing \/ stored'.job \in 1 .. Len(jobs))
  <2>1. stored' \in {stored, Persisted(page, watches), Persisted(page', watches)}
    BY DEF SeesBuilt, SeesManual, ReleaseUnanswered
  <2> QED BY <1>1, <1>5, <2>1, Basics, PersistedWatch
<1> QED BY <1>1, <1>3, <1>4, <1>5, <1>6, Basics, PageSteps

\* What becomes of requests.
LEMMA RequestSteps ==
  ASSUME StateOK, NEW s \in Slots,
         \/ Fire(s) \/ Settle(s) \/ ServeStatus(s) \/ ServeRestart(s) \/ Breaks(s)
  PROVE  StateOK'
<1>1. /\ page \in Page
      /\ page.watch \in 0 .. Len(watches)
      /\ watches \in Seq(Watch) /\ Len(watches) \in Nat
      /\ jobs \in Seq(Job)
      /\ calls \in [Slots -> Call \cup {Free}]
  BY Basics
<1>2. UNCHANGED <<jobs, watches, stored>> /\ spent' \in [Bounds -> Nat]
  BY Basics DEF Fire, Settle, ServeStatus, ServeRestart, Breaks, Spend
<1>3. CASE Fire(s)
  <2>1. page' \in Page /\ page'.watch = page.watch /\ page'.phase = page.phase
        /\ page.watch # 0
    <3>1. CASE page.timer /\ page' = [page EXCEPT !.timer = FALSE]
      <4>1. page.watch # 0
        BY <3>1, Basics
      <4> QED BY <1>1, <3>1, <4>1 DEF Page
    <3>2. CASE page.strays > 0 /\ page' = [page EXCEPT !.strays = @ - 1]
      <4>1. page.watch # 0
        BY <3>2, Basics
      <4> QED BY <1>1, <3>2, <4>1 DEF Page
    <3> QED BY <1>3, <3>1, <3>2 DEF Fire
  <2>2. Request("poll", page.watch) \in Call /\ Request("poll", page.watch).watch = page.watch
    BY <1>1 DEF Request, Call
  <2>3. calls' = [calls EXCEPT ![s] = Request("poll", page.watch)]
    BY <1>3 DEF Fire
  <2> QED BY <1>1, <1>2, <2>1, <2>2, <2>3, Basics, PageSteps
<1>4. CASE Settle(s) \/ ServeStatus(s) \/ ServeRestart(s) \/ Breaks(s)
  <2>1. calls[s] # Free /\ calls[s] \in Call /\ calls[s].watch \in 1 .. Len(watches)
    <3>1. CASE Breaks(s)
      BY <3>1, Basics DEF Breaks
    <3>2. CASE Settle(s) \/ ServeStatus(s) \/ ServeRestart(s)
      BY <3>2, SlotTaken DEF Settle, ServeStatus, ServeRestart, Sent
    <3> QED BY <1>4, <3>1, <3>2
  <2>2. watches[calls[s].watch].job \in 1 .. Len(jobs)
    BY <2>1 DEF StateOK, RefsOK
  <2>3. jobs[JobOf(s)].status \in Statuses
    <3>1. jobs[JobOf(s)] \in Job
      BY <1>1, <2>2 DEF JobOf
    <3> QED BY <3>1 DEF Job
  <2>4. PICK c \in Call : calls' = [calls EXCEPT ![s] = c] /\ c.watch = calls[s].watch
    <3>1. CASE Settle(s)
      <4> DEFINE c == [calls[s] EXCEPT !.stage = "sent"]
      <4>1. c \in Call /\ c.watch = calls[s].watch
        BY <2>1 DEF Call
      <4>2. calls' = [calls EXCEPT ![s] = c]
        BY <3>1 DEF Settle
      <4> QED BY <4>1, <4>2
    <3>2. CASE ServeStatus(s) \/ ServeRestart(s) \/ Breaks(s)
      <4>1. PICK a \in {"gone", "error", "unread", "ok", "refused"} \cup Statuses : Answer(s, a)
        BY <2>3, <3>2 DEF ServeStatus, ServeRestart, Breaks
      <4> DEFINE c == [[calls[s] EXCEPT !.stage = "answered"] EXCEPT !.answer = a]
      <4>2. c \in Call /\ c.watch = calls[s].watch
        BY <2>1 DEF Call
      <4>3. calls' = [calls EXCEPT ![s] = c]
        BY <1>1, <4>1 DEF Answer
      <4> QED BY <4>2, <4>3
    <3> QED BY <1>4, <3>1, <3>2
  <2>5. UNCHANGED page
    BY <1>4 DEF Settle, ServeStatus, ServeRestart, Breaks
  <2> QED BY <1>1, <1>2, <2>1, <2>4, <2>5, Basics, PageSteps
<1> QED BY <1>3, <1>4

\* A rebuild is started.
LEMMA StartSteps ==
  ASSUME StateOK, NEW kind \in Kinds, Start(kind)
  PROVE  StateOK'
<1>1. /\ page \in Page /\ watches \in Seq(Watch) /\ jobs \in Seq(Job)
      /\ Len(watches) \in Nat /\ Len(jobs) \in Nat
  BY Basics
<1>2. PICK gates \in 0 .. (IF kind = "pipeline" THEN MaxGates ELSE 0) :
         jobs' = Append(jobs, [kind |-> kind, status |-> "running", gates |-> gates])
  BY DEF Start
<1> DEFINE job == [kind |-> kind, status |-> "running", gates |-> gates]
           watch == [job |-> Len(jobs'), released |-> FALSE]
<1>3. /\ job \in Job /\ job.kind = kind /\ job.gates = gates /\ job.status = "running"
      /\ kind = "build" => gates = 0
  BY <1>2, BoundsAreNat DEF Job, Kinds, Statuses
<1> HIDE DEF job
<1>4. /\ jobs' \in Seq(Job) /\ Len(jobs') = Len(jobs) + 1
      /\ jobs'[Len(jobs) + 1] = job
      /\ \A j \in 1 .. Len(jobs) : jobs'[j] = jobs[j]
  BY <1>1, <1>2, <1>3 DEF job
<1>5. watch \in Watch /\ watch.job = Len(jobs) + 1
  BY <1>1, <1>4 DEF Watch
<1>6. watches' = Append(watches, watch)
  BY DEF Start
<1> HIDE DEF watch
<1>7. /\ watches' \in Seq(Watch) /\ Len(watches') = Len(watches) + 1
      /\ watches'[Len(watches) + 1] = watch
      /\ \A w \in 1 .. Len(watches) : watches'[w] = watches[w]
  BY <1>1, <1>5, <1>6
<1>8. /\ page' \in Page /\ page'.watch = Len(watches) + 1 /\ page'.phase = "running"
      /\ UNCHANGED calls
      /\ stored' = Persisted(page', watches')
      /\ spent' \in [Bounds -> Nat]
  <2>1. /\ page' = [page EXCEPT !.watch = Len(watches'), !.phase = "running",
                                !.fails = 0, !.timer = TRUE]
        /\ UNCHANGED calls
        /\ stored' = Persisted(page', watches')
    BY DEF Start
  <2>2. Len(watches') \in Nat /\ "running" \in InFlight
    BY <1>1, <1>7 DEF InFlight
  <2>3. page' \in Page /\ page'.watch = Len(watches') /\ page'.phase = "running"
    BY <1>1, <2>1, <2>2 DEF Page
  <2>4. spent' \in [Bounds -> Nat]
    BY SpentType DEF Start, Bounds
  <2> QED BY <1>7, <2>1, <2>3, <2>4
<1>9. stored' = watch
  BY <1>7, <1>8 DEF Persisted, InFlight
<1>10. TypeOK'
  BY <1>4, <1>5, <1>7, <1>8, <1>9, Basics DEF TypeOK
<1>11. RefsOK'
  <2>1. ASSUME NEW w \in 1 .. Len(watches')
        PROVE  watches'[w].job \in 1 .. Len(jobs')
    <3>1. CASE w = Len(watches) + 1
      BY <1>1, <1>4, <1>5, <1>7, <3>1
    <3>2. CASE w # Len(watches) + 1
      <4>1. w \in 1 .. Len(watches) /\ watches'[w] = watches[w]
        BY <1>1, <1>7, <3>2
      <4>2. watches[w].job \in 1 .. Len(jobs)
        BY <4>1 DEF StateOK, RefsOK
      <4> QED BY <1>1, <1>4, <4>1, <4>2
    <3> QED BY <3>1, <3>2
  <2>2. \A s \in Slots :
          calls'[s] # Free => calls'[s].watch \in 1 .. Len(watches') /\ page'.watch # 0
    BY <1>1, <1>7, <1>8, Basics
  <2>3. stored'.job \in 1 .. Len(jobs')
    BY <1>1, <1>4, <1>5, <1>9
  <2> QED BY <1>1, <1>7, <1>8, <2>1, <2>2, <2>3 DEF RefsOK
<1>12. JobsOK'
  BY <1>1, <1>3, <1>4 DEF StateOK, JobsOK
<1> QED BY <1>10, <1>11, <1>12 DEF StateOK

\* The page is loaded again.
LEMMA ReloadSteps ==
  ASSUME StateOK, Reload
  PROVE  StateOK'
<1>1. /\ page \in Page /\ watches \in Seq(Watch) /\ jobs \in Seq(Job)
      /\ Len(watches) \in Nat /\ Len(jobs) \in Nat
      /\ stored \in Watch
  BY Basics
<1>2. /\ calls' = [s \in Slots |-> Free]
      /\ UNCHANGED <<jobs, stored>>
      /\ spent' \in [Bounds -> Nat]
  BY SpentType DEF Reload, Bounds
<1>3. JobsOK'
  BY <1>2 DEF StateOK, JobsOK
<1>4. CASE stored = Nothing
  <2>1. /\ page' \in Page /\ page'.watch = 0 /\ page'.phase = "none"
        /\ ~page'.timer /\ page'.strays = 0
        /\ watches' = watches
    <3>1. page' = [watch |-> 0, phase |-> "none", fails |-> 0, timer |-> FALSE, strays |-> 0]
          /\ watches' = watches
      BY <1>4 DEF Reload
    <3> QED BY <3>1 DEF Page
  <2> QED BY <1>1, <1>2, <1>3, <1>4, <2>1 DEF StateOK, TypeOK, RefsOK
<1>5. CASE stored # Nothing
  <2>1. watches' = Append(watches, stored)
    BY <1>5 DEF Reload
  <2>2. /\ watches' \in Seq(Watch) /\ Len(watches') = Len(watches) + 1
        /\ watches'[Len(watches) + 1] = stored
        /\ \A w \in 1 .. Len(watches) : watches'[w] = watches[w]
    BY <1>1, <2>1
  <2>3. page' \in Page /\ page'.watch = Len(watches) + 1
    <3>1. page' = [watch |-> Len(watches'), phase |-> "running", fails |-> 0,
                   timer |-> TRUE, strays |-> 0]
      BY <1>5 DEF Reload
    <3> QED BY <1>1, <2>2, <3>1 DEF Page, InFlight
  <2>4. TypeOK'
    BY <1>1, <1>2, <2>2, <2>3 DEF TypeOK
  <2>5. stored.job \in 1 .. Len(jobs)
    BY <1>5, Basics
  <2>6. \A w \in 1 .. Len(watches') : watches'[w].job \in 1 .. Len(jobs')
    <3>1. \A w \in 1 .. Len(watches) : watches[w].job \in 1 .. Len(jobs)
      BY DEF StateOK, RefsOK
    <3>2. \A w \in 1 .. Len(watches') : w \in 1 .. Len(watches) \/ w = Len(watches) + 1
      BY <1>1, <2>2
    <3> QED BY <1>2, <2>2, <2>5, <3>1, <3>2
  <2>7. RefsOK'
    BY <1>1, <1>2, <2>2, <2>3, <2>5, <2>6 DEF RefsOK
  <2> QED BY <1>3, <2>4, <2>7 DEF StateOK
<1> QED BY <1>4, <1>5

\* GitLab gets on, by itself or because somebody presses a button there or here.
LEMMA JobSteps ==
  ASSUME StateOK,
         \/ \E j \in DOMAIN jobs : JobMoves(j) \/ ReleasedInGitLab(j)
         \/ \E s \in Slots : ServeRelease(s)
  PROVE  StateOK'
<1>1. /\ watches \in Seq(Watch) /\ jobs \in Seq(Job)
      /\ Len(watches) \in Nat /\ Len(jobs) \in Nat
      /\ DOMAIN jobs = 1 .. Len(jobs)
      /\ calls \in [Slots -> Call \cup {Free}]
      /\ JobsOK
  BY Basics DEF StateOK
<1>2. UNCHANGED <<watches, page, stored, spent>>
  BY DEF JobMoves, ReleasedInGitLab, ServeRelease
<1>3. /\ jobs' \in Seq(Job) /\ Len(jobs') = Len(jobs)
      /\ JobsOK'
  <2>1. CASE jobs' = jobs
    BY <1>1, <2>1 DEF JobsOK
  <2>2. ASSUME NEW j \in 1 .. Len(jobs), NEW job \in Job,
               jobs' = [jobs EXCEPT ![j] = job],
               job.status = "manual" => job.gates > 0,
               job.kind = "build" => job.gates = 0
        PROVE  jobs' \in Seq(Job) /\ Len(jobs') = Len(jobs) /\ JobsOK'
    BY <1>1, <2>2 DEF JobsOK
  <2>3. \A j \in 1 .. Len(jobs) :
          /\ jobs[j] \in Job
          /\ jobs[j].status = "manual" => jobs[j].gates > 0
          /\ jobs[j].kind = "build" => jobs[j].gates = 0
    BY <1>1 DEF JobsOK
  <2>4. ASSUME NEW j \in 1 .. Len(jobs), jobs[j].status = "manual",
               jobs' = [jobs EXCEPT ![j].status = "running", ![j].gates = @ - 1]
        PROVE  jobs' \in Seq(Job) /\ Len(jobs') = Len(jobs) /\ JobsOK'
    <3> DEFINE job == [[jobs[j] EXCEPT !.status = "running"] EXCEPT !.gates = @ - 1]
    <3>1. jobs[j] \in Job /\ jobs[j].gates > 0 /\ jobs[j].kind # "build"
      BY <2>3, <2>4
    <3>2. job \in Job /\ job.status = "running" /\ job.kind = jobs[j].kind
      <4>1. MaxGates \in Nat
        BY BoundsAreNat
      <4>2. jobs[j].gates - 1 \in 0 .. MaxGates
        BY <3>1, <4>1 DEF Job
      <4>3. [jobs[j] EXCEPT !.status = "running"] \in Job
        BY <3>1 DEF Job, Statuses
      <4> QED BY <3>1, <4>2, <4>3 DEF Job
    <3>3. jobs' = [jobs EXCEPT ![j] = job]
      BY <1>1, <2>4
    <3> HIDE DEF job
    <3> QED BY <2>2, <3>1, <3>2, <3>3
  <2>5. ASSUME NEW j \in 1 .. Len(jobs), JobMoves(j)
        PROVE  jobs' \in Seq(Job) /\ Len(jobs') = Len(jobs) /\ JobsOK'
    <3>1. PICK status \in {"success", "failed", "manual"} :
             /\ jobs' = [jobs EXCEPT ![j].status = status]
             /\ status = "manual" => jobs[j].gates > 0
      BY <2>5 DEF JobMoves
    <3> DEFINE job == [jobs[j] EXCEPT !.status = status]
    <3>2. jobs[j] \in Job
      BY <2>3
    <3>3. job \in Job /\ job.status = status /\ job.kind = jobs[j].kind
          /\ job.gates = jobs[j].gates
      BY <3>2 DEF Job, Statuses
    <3>4. jobs' = [jobs EXCEPT ![j] = job]
      BY <1>1, <3>1
    <3> HIDE DEF job
    <3> QED BY <2>2, <2>3, <3>1, <3>3, <3>4
  <2>6. ASSUME NEW s \in Slots, ServeRelease(s)
        PROVE  jobs' \in Seq(Job) /\ Len(jobs') = Len(jobs) /\ JobsOK'
    <3>1. calls[s].watch \in 1 .. Len(watches)
      BY <2>6, SlotTaken DEF ServeRelease, Sent
    <3>2. JobOf(s) \in 1 .. Len(jobs)
      BY <3>1 DEF JobOf, StateOK, RefsOK
    <3> QED BY <2>1, <2>4, <2>6, <3>2 DEF ServeRelease
  <2> QED BY <1>1, <2>4, <2>5, <2>6 DEF ReleasedInGitLab
<1>4. /\ calls' \in [Slots -> Call \cup {Free}]
      /\ \A s \in Slots :
            calls'[s] # Free => calls'[s].watch \in 1 .. Len(watches) /\ page.watch # 0
  <2>1. CASE calls' = calls
    BY <2>1, Basics
  <2>2. ASSUME NEW s \in Slots, ServeRelease(s)
        PROVE  /\ calls' \in [Slots -> Call \cup {Free}]
               /\ \A t \in Slots :
                     calls'[t] # Free => calls'[t].watch \in 1 .. Len(watches) /\ page.watch # 0
    <3>1. calls[s] # Free /\ calls[s] \in Call
      BY <2>2, SlotTaken DEF ServeRelease, Sent
    <3>2. PICK a \in {"nothing", "refused", "played"} : Answer(s, a)
      BY <2>2 DEF ServeRelease
    <3> DEFINE c == [[calls[s] EXCEPT !.stage = "answered"] EXCEPT !.answer = a]
    <3>3. c \in Call /\ c.watch = calls[s].watch
      BY <3>1 DEF Call
    <3>4. calls' = [calls EXCEPT ![s] = c]
      BY <1>1, <3>2 DEF Answer
    <3> HIDE DEF c
    <3> QED BY <1>1, <3>1, <3>3, <3>4, Basics
  <2> QED BY <2>1, <2>2 DEF JobMoves, ReleasedInGitLab
<1>5. TypeOK'
  BY <1>2, <1>3, <1>4 DEF StateOK, TypeOK
<1>6. RefsOK'
  BY <1>2, <1>3, <1>4 DEF StateOK, RefsOK
<1> QED BY <1>3, <1>5, <1>6 DEF StateOK

LEMMA StateInvariance == Spec => []StateOK
<1>1. Init => StateOK
  <2> SUFFICES ASSUME Init
               PROVE  StateOK
    OBVIOUS
  <2>1. TypeOK
    BY DEF Init, TypeOK, Page, Nothing, Watch
  <2> QED BY <2>1 DEF Init, StateOK, RefsOK, JobsOK
<1>2. StateOK /\ [Next]_vars => StateOK'
  <2>1. CASE UNCHANGED vars
    BY <2>1 DEF vars, StateOK, TypeOK, RefsOK, JobsOK
  <2>2. CASE Next
    BY <2>2, StartSteps, OverAnswers, OtherAnswers, RequestSteps, JobSteps, ReloadSteps
       DEF Next, Receive, Serve
  <2> QED BY <2>1, <2>2
<1> QED BY <1>1, <1>2, PTL DEF Spec

-----------------------------------------------------------------------------
(* Somebody follows. *)

\* How a request that is not forgotten leaves the slots of the others.
LEMMA OtherSlots ==
  ASSUME StateOK, NEW s \in Slots, NEW c, calls' = [calls EXCEPT ![s] = c]
  PROVE  /\ calls'[s] = c
         /\ \A t \in Slots \ {s} : calls'[t] = calls[t]
         /\ \A what : UnderWay(what)' = (UnderWay(what) \ {s}) \cup (IF c.what = what THEN {s} ELSE {})
<1>1. calls'[s] = c /\ \A t \in Slots \ {s} : calls'[t] = calls[t]
  BY Basics
<1> QED BY <1>1 DEF UnderWay

LEMMA SameRequests ==
  ASSUME StateOK, NEW s \in Slots,
         Settle(s) \/ ServeStatus(s) \/ ServeRelease(s) \/ ServeRestart(s) \/ Breaks(s)
  PROVE  /\ UNCHANGED page
         /\ \A what : UnderWay(what)' = UnderWay(what)
         /\ \A t \in Slots : calls'[t] # Free => calls[t] # Free /\ calls'[t].watch = calls[t].watch
<1>1. calls[s] # Free /\ calls[s] \in Call /\ calls \in [Slots -> Call \cup {Free}]
  <2>1. CASE Breaks(s)
    BY <2>1, Basics DEF Breaks
  <2>2. CASE Settle(s) \/ ServeStatus(s) \/ ServeRelease(s) \/ ServeRestart(s)
    BY <2>2, SlotTaken, Basics DEF Settle, ServeStatus, ServeRelease, ServeRestart, Sent
  <2> QED BY <2>1, <2>2
<1>2. PICK stage, a : calls' = [calls EXCEPT ![s].stage = stage, ![s].answer = a]
  <2>1. CASE Settle(s)
    <3>1. calls' = [calls EXCEPT ![s].stage = "sent", ![s].answer = calls[s].answer]
      BY <1>1, <2>1 DEF Settle, Call
    <3> QED BY <3>1
  <2>2. CASE ServeStatus(s) \/ ServeRelease(s) \/ ServeRestart(s) \/ Breaks(s)
    BY <2>2 DEF ServeStatus, ServeRelease, ServeRestart, Breaks, Answer
  <2> QED BY <2>1, <2>2
<1> DEFINE c == [[calls[s] EXCEPT !.stage = stage] EXCEPT !.answer = a]
<1>3. c.what = calls[s].what /\ c.watch = calls[s].watch
  BY <1>1 DEF Call
<1>4. calls' = [calls EXCEPT ![s] = c]
  BY <1>1, <1>2
<1>5. UNCHANGED page
  BY DEF Settle, ServeStatus, ServeRelease, ServeRestart, Breaks
<1> HIDE DEF c
<1>6. calls'[s] = c /\ \A t \in Slots \ {s} : calls'[t] = calls[t]
  BY <1>4, OtherSlots
<1> QED BY <1>1, <1>3, <1>5, <1>6 DEF UnderWay

LEMMA ForgottenStep ==
  ASSUME StateOK, NobodyForgotten, [Next]_vars
  PROVE  NobodyForgotten'
<1>1. page \in Page /\ InFlight \cap Final = {} /\ "running" # "restarting"
      /\ {"failed", "done", "waiting-for-person"} \subseteq Final
  BY Basics DEF InFlight, Final
<1>2. ASSUME NEW kind \in Kinds, Start(kind)
      PROVE  NobodyForgotten'
  <2>1. page'.phase = "running" /\ page'.timer
    BY <1>1, <1>2 DEF Start, Page
  <2> QED BY <2>1 DEF NobodyForgotten
<1>3. CASE Reload
  <2>1. page'.phase = "none" \/ (page'.phase = "running" /\ page'.timer)
    <3>1. CASE stored = Nothing
      BY <1>3, <3>1 DEF Reload
    <3>2. CASE stored # Nothing
      BY <1>3, <3>2 DEF Reload
    <3> QED BY <3>1, <3>2
  <2> QED BY <2>1 DEF NobodyForgotten
<1>4. ASSUME NEW s \in Slots, Fire(s)
      PROVE  NobodyForgotten'
  <2>1. calls' = [calls EXCEPT ![s] = Request("poll", page.watch)] /\ page'.phase = page.phase
    BY <1>1, <1>4 DEF Fire, Page
  <2>2. s \in UnderWay("poll")'
    <3> DEFINE c == Request("poll", page.watch)
    <3>1. c.what = "poll" /\ calls' = [calls EXCEPT ![s] = c]
      BY <2>1 DEF Request
    <3> HIDE DEF c
    <3>2. calls'[s] = c
      BY <3>1, OtherSlots
    <3> QED BY <3>1, <3>2 DEF UnderWay
  <2>3. UnderWay("restart") \subseteq UnderWay("restart")'
    BY <1>4, <2>1, OtherSlots DEF Fire, Takes, Free, UnderWay
  <2> QED BY <2>1, <2>2, <2>3 DEF NobodyForgotten
<1>5. ASSUME NEW s \in Slots, LosesTrack(s) \/ SeesFailed(s) \/ SeesDeployed(s)
                              \/ SeesRefused(s) \/ Restarted(s)
      PROVE  NobodyForgotten'
  <2>1. page'.phase \in Final
    <3>1. Seen(page, calls[s].watch) \in Page
      BY <1>1, PageFunctions
    <3>2. \A p \in {page, Seen(page, calls[s].watch)}, phase \in Final :
             Stop(p, phase).phase \in Final
      BY <1>1, <3>1, PageFunctions
    <3> QED BY <1>1, <1>5, <3>2
           DEF LosesTrack, SeesFailed, SeesDeployed, SeesRefused, Restarted
  <2> QED BY <2>1 DEF NobodyForgotten, Final
<1>6. ASSUME NEW s \in Slots, SeesError(s) \/ SeesRunning(s) \/ SeesManual(s)
      PROVE  NobodyForgotten'
  <2>1. page'.phase = "failed" \/ (page'.timer /\ page'.phase = page.phase)
    <3>1. Seen(page, calls[s].watch) \in Page /\ Seen(page, calls[s].watch).phase = page.phase
      BY <1>1, PageFunctions
    <3>2. CASE SeesError(s)
      <4>1. page' \in {Failed(page), Failed(Seen(page, calls[s].watch))}
        BY <3>2 DEF SeesError
      <4> QED BY <1>1, <3>1, <4>1, FailedPage
    <3>3. CASE SeesRunning(s) \/ SeesManual(s)
      <4>1. page' = Schedule(Seen(page, calls[s].watch))
        BY <3>3 DEF SeesRunning, SeesManual
      <4> QED BY <3>1, <4>1, PageFunctions
    <3> QED BY <1>6, <3>2, <3>3
  <2>2. UnderWay("restart") \subseteq UnderWay("restart")'
    <3>1. calls[s].what = "poll" /\ \E c : calls' = [calls EXCEPT ![s] = c]
      BY <1>6 DEF SeesError, SeesRunning, SeesManual, Over
    <3> QED BY <3>1, OtherSlots DEF UnderWay
  <2> QED BY <2>1, <2>2 DEF NobodyForgotten
<1>7. ASSUME NEW s \in Slots, SeesBuilt(s)
      PROVE  NobodyForgotten'
  <2>1. page'.phase = "restarting"
    <3>1. Seen(page, calls[s].watch) \in Page
      BY <1>1, PageFunctions
    <3> QED BY <1>7, <3>1 DEF SeesBuilt, Page
  <2>2. s \in UnderWay("restart")'
    <3> DEFINE c == [Request("restart", page.watch) EXCEPT !.stage = "settling"]
    <3>1. c.what = "restart" /\ calls' = [calls EXCEPT ![s] = c]
      BY <1>7 DEF SeesBuilt, Request
    <3> HIDE DEF c
    <3>2. calls'[s] = c
      BY <3>1, OtherSlots
    <3> QED BY <3>1, <3>2 DEF UnderWay
  <2> QED BY <2>1, <2>2 DEF NobodyForgotten
<1>8. ASSUME NEW s \in Slots, SeesReleased(s) \/ ReleaseUnanswered(s)
      PROVE  NobodyForgotten'
  <2>1. /\ UNCHANGED page
        /\ calls[s].what = "release"
        /\ calls' = [calls EXCEPT ![s] = Free]
    BY <1>8 DEF SeesReleased, ReleaseUnanswered, Over
  <2>2. UnderWay("poll")' = UnderWay("poll") /\ UnderWay("restart")' = UnderWay("restart")
    BY <2>1, OtherSlots DEF UnderWay, Free
  <2> QED BY <2>1, <2>2 DEF NobodyForgotten
<1>9. ASSUME NEW s \in Slots, Settle(s) \/ ServeStatus(s) \/ ServeRelease(s)
                              \/ ServeRestart(s) \/ Breaks(s)
      PROVE  NobodyForgotten'
  BY <1>9, SameRequests DEF NobodyForgotten
<1>10. CASE \E j \in DOMAIN jobs : JobMoves(j) \/ ReleasedInGitLab(j)
  BY <1>10 DEF JobMoves, ReleasedInGitLab, NobodyForgotten, UnderWay
<1>11. CASE UNCHANGED vars
  BY <1>11 DEF vars, NobodyForgotten, UnderWay
<1> QED BY <1>2, <1>3, <1>4, <1>5, <1>6, <1>7, <1>8, <1>9, <1>10, <1>11
       DEF Next, Receive, Serve

\* Whichever answers, errors, second starts and reloads came before, and however many
\* requests can be under way: a watch that shows progress has a timer, a poll or a
\* restart that will move it on (rebuildWatcher.ts, poll and scheduleNext).
THEOREM SomebodyFollows == Spec => []NobodyForgotten
<1>1. Init => NobodyForgotten
  BY DEF Init, NobodyForgotten
<1> QED BY <1>1, ForgottenStep, StateInvariance, PTL DEF Spec

-----------------------------------------------------------------------------
(* One at a time. *)

\* Only a pipeline is ever seen at a gate.
GatesAreSeen ==
    \A s \in Polls : calls[s].answer = "manual" => KindOf(calls[s].watch) = "pipeline"

\* The requests that, like the timer, move a watch on.
Moving == Polls \cup Restarts

\* One object at most is worked for, by one timer or request that moves it on and
\* by one release beside it.
Alone ==
    /\ spent["starts"] = 0 => page.watch = 0 /\ stored = Nothing
    /\ \A s \in Slots : calls[s] # Free => calls[s].watch = page.watch
    /\ page.strays = 0
    /\ page.timer => Moving = {}
    /\ \A s, t \in Moving : s = t
    /\ \A s, t \in Releases : s = t
    /\ Releases # {} => watches[page.watch].released /\ KindOf(page.watch) = "pipeline"
    /\ Restarts # {} => KindOf(page.watch) = "build"
    /\ page.phase \in Final => Restarts = {}

OneWatch == spent["starts"] <= 1 => Alone

\* Nothing changes what an object watches, or what kind of work that is.
LEMMA KindsStay ==
  ASSUME StateOK, [Next]_vars
  PROVE  /\ Len(watches) \in Nat
         /\ \A w \in 1 .. Len(watches) :
               watches'[w].job = watches[w].job /\ KindOf(w)' = KindOf(w)
<1>1. /\ watches \in Seq(Watch) /\ jobs \in Seq(Job)
      /\ Len(watches) \in Nat /\ Len(jobs) \in Nat
      /\ \A w \in 1 .. Len(watches) : watches[w].job \in 1 .. Len(jobs)
  BY Basics DEF StateOK, RefsOK
<1>2. \A w \in 1 .. Len(watches) : watches'[w].job = watches[w].job
  <2>1. ASSUME NEW c, watches' = Append(watches, c), NEW w \in 1 .. Len(watches)
        PROVE  watches'[w].job = watches[w].job
    BY <1>1, <2>1
  <2>2. ASSUME NEW v, NEW b, watches' = [watches EXCEPT ![v].released = b],
               NEW w \in 1 .. Len(watches)
        PROVE  watches'[w].job = watches[w].job
    <3>1. watches[w] \in Watch
      BY <1>1
    <3> QED BY <1>1, <2>2, <3>1 DEF Watch
  <2>3. \/ watches' = watches
        \/ \E c : watches' = Append(watches, c)
        \/ \E v, b : watches' = [watches EXCEPT ![v].released = b]
    <3>1. CASE UNCHANGED vars
      BY <3>1 DEF vars
    <3>2. ASSUME NEW kind \in Kinds, Start(kind)
          PROVE  \E c : watches' = Append(watches, c)
      BY <3>2 DEF Start
    <3>3. CASE Reload
      BY <3>3 DEF Reload
    <3>4. ASSUME NEW s \in Slots, Fire(s) \/ Settle(s) \/ Serve(s) \/ Breaks(s)
          PROVE  watches' = watches
      BY <3>4 DEF Fire, Settle, Serve, ServeStatus, ServeRelease, ServeRestart, Breaks
    <3>5. ASSUME NEW s \in Slots, Receive(s)
          PROVE  watches' = watches \/ \E v, b : watches' = [watches EXCEPT ![v].released = b]
      <4>1. CASE SeesManual(s) \/ ReleaseUnanswered(s)
        BY <4>1 DEF SeesManual, ReleaseUnanswered
      <4>2. CASE ~(SeesManual(s) \/ ReleaseUnanswered(s))
        BY <3>5, <4>2 DEF Receive, LosesTrack, SeesError, SeesRunning, SeesFailed, SeesDeployed,
           SeesBuilt, SeesReleased, SeesRefused, Restarted
      <4> QED BY <4>1, <4>2
    <3>6. CASE \E j \in DOMAIN jobs : JobMoves(j) \/ ReleasedInGitLab(j)
      BY <3>6 DEF JobMoves, ReleasedInGitLab
    <3> QED BY <3>1, <3>2, <3>3, <3>4, <3>5, <3>6 DEF Next
  <2> QED BY <2>1, <2>2, <2>3
<1>3. \A j \in 1 .. Len(jobs) : jobs'[j].kind = jobs[j].kind
  <2>1. ASSUME NEW c, jobs' = Append(jobs, c), NEW j \in 1 .. Len(jobs)
        PROVE  jobs'[j].kind = jobs[j].kind
    BY <1>1, <2>1
  <2>2. ASSUME NEW i \in 1 .. Len(jobs), NEW status, NEW j \in 1 .. Len(jobs),
               jobs' = [jobs EXCEPT ![i].status = status]
        PROVE  jobs'[j].kind = jobs[j].kind
    <3>1. jobs[j] \in Job
      BY <1>1
    <3> QED BY <1>1, <2>2, <3>1 DEF Job
  <2>3. ASSUME NEW i \in 1 .. Len(jobs), NEW j \in 1 .. Len(jobs),
               jobs' = [jobs EXCEPT ![i].status = "running", ![i].gates = @ - 1]
        PROVE  jobs'[j].kind = jobs[j].kind
    <3>1. jobs[j] \in Job
      BY <1>1
    <3> QED BY <1>1, <2>3, <3>1 DEF Job
  <2>4. \/ jobs' = jobs
        \/ \E c : jobs' = Append(jobs, c)
        \/ \E i \in 1 .. Len(jobs) : \E status : jobs' = [jobs EXCEPT ![i].status = status]
        \/ \E i \in 1 .. Len(jobs) :
              jobs' = [jobs EXCEPT ![i].status = "running", ![i].gates = @ - 1]
    <3>1. CASE UNCHANGED vars
      BY <3>1 DEF vars
    <3>2. ASSUME NEW kind \in Kinds, Start(kind)
          PROVE  \E c : jobs' = Append(jobs, c)
      BY <3>2 DEF Start
    <3>3. CASE Reload
      BY <3>3 DEF Reload
    <3>4. ASSUME NEW s \in Slots, Fire(s) \/ Settle(s) \/ ServeStatus(s) \/ ServeRestart(s)
                                  \/ Breaks(s)
          PROVE  jobs' = jobs
      BY <3>4 DEF Fire, Settle, ServeStatus, ServeRestart, Breaks
    <3>5. ASSUME NEW s \in Slots, Receive(s)
          PROVE  jobs' = jobs
      BY <3>5 DEF Receive, LosesTrack, SeesError, SeesRunning, SeesFailed, SeesDeployed,
         SeesBuilt, SeesReleased, SeesRefused, Restarted, SeesManual, ReleaseUnanswered
    <3>6. ASSUME NEW s \in Slots, ServeRelease(s)
          PROVE  \/ jobs' = jobs
                 \/ \E i \in 1 .. Len(jobs) :
                       jobs' = [jobs EXCEPT ![i].status = "running", ![i].gates = @ - 1]
      <4>1. calls[s].watch \in 1 .. Len(watches)
        BY <3>6, SlotTaken DEF ServeRelease, Sent
      <4>2. JobOf(s) \in 1 .. Len(jobs)
        BY <1>1, <4>1 DEF JobOf
      <4> QED BY <3>6, <4>2 DEF ServeRelease
    <3>7. ASSUME NEW j \in DOMAIN jobs, JobMoves(j) \/ ReleasedInGitLab(j)
          PROVE  \/ \E i \in 1 .. Len(jobs) : \E status : jobs' = [jobs EXCEPT ![i].status = status]
                 \/ \E i \in 1 .. Len(jobs) :
                       jobs' = [jobs EXCEPT ![i].status = "running", ![i].gates = @ - 1]
      <4>1. j \in 1 .. Len(jobs)
        BY <1>1
      <4> QED BY <3>7, <4>1 DEF JobMoves, ReleasedInGitLab
    <3> QED BY <3>1, <3>2, <3>3, <3>4, <3>5, <3>6, <3>7 DEF Next, Serve
  <2>5. CASE jobs' = jobs
    BY <2>5
  <2>6. CASE \E c : jobs' = Append(jobs, c)
    BY <2>1, <2>6
  <2>7. CASE \E i \in 1 .. Len(jobs) : \E status : jobs' = [jobs EXCEPT ![i].status = status]
    BY <2>2, <2>7
  <2>8. CASE \E i \in 1 .. Len(jobs) :
                jobs' = [jobs EXCEPT ![i].status = "running", ![i].gates = @ - 1]
    BY <2>3, <2>8
  <2> QED BY <2>4, <2>5, <2>6, <2>7, <2>8
<1> QED BY <1>1, <1>2, <1>3 DEF KindOf

\* Where an answer that the pipeline waits comes from.
LEMMA SeenAtTheGate ==
  ASSUME StateOK, [Next]_vars, NEW t \in Slots,
         calls'[t].what = "poll", calls'[t].answer = "manual"
  PROVE  \/ t \in Polls /\ calls[t].answer = "manual" /\ calls'[t].watch = calls[t].watch
         \/ ServeStatus(t)
<1>1. calls \in [Slots -> Call \cup {Free}] /\ Free.what = "none"
  BY Basics DEF Free
<1>2. CASE calls' = calls
  BY <1>2 DEF Polls, UnderWay
<1>3. CASE Reload
  BY <1>1, <1>3 DEF Reload
<1>4. ASSUME NEW s \in Slots, NEW c, calls' = [calls EXCEPT ![s] = c],
             c.what # "poll" \/ c.answer # "manual"
      PROVE  t \in Polls /\ calls[t].answer = "manual" /\ calls'[t].watch = calls[t].watch
  BY <1>4, OtherSlots DEF Polls, UnderWay
<1>5. ASSUME NEW s \in Slots, Fire(s)
      PROVE  t \in Polls /\ calls[t].answer = "manual" /\ calls'[t].watch = calls[t].watch
  <2> DEFINE c == Request("poll", page.watch)
  <2>1. calls' = [calls EXCEPT ![s] = c] /\ c.answer # "manual"
    BY <1>5 DEF Fire, Request
  <2> HIDE DEF c
  <2> QED BY <1>4, <2>1
<1>6. ASSUME NEW s \in Slots, Receive(s)
      PROVE  t \in Polls /\ calls[t].answer = "manual" /\ calls'[t].watch = calls[t].watch
  <2>1. \/ Over(s)
        \/ calls' = [calls EXCEPT ![s] = [Request("restart", page.watch) EXCEPT !.stage = "settling"]]
        \/ calls' = [calls EXCEPT ![s] = Request("release", page.watch)]
    BY <1>6 DEF Receive, LosesTrack, SeesError, SeesRunning, SeesFailed, SeesDeployed,
       SeesBuilt, SeesReleased, SeesRefused, Restarted, SeesManual, ReleaseUnanswered
  <2>2. \A c \in {Free, Request("release", page.watch),
                  [Request("restart", page.watch) EXCEPT !.stage = "settling"]} :
           c.what # "poll"
    BY <1>1 DEF Request
  <2> QED BY <1>4, <2>1, <2>2 DEF Over
<1>7. ASSUME NEW s \in Slots, Settle(s) \/ ServeRelease(s) \/ ServeRestart(s)
      PROVE  t \in Polls /\ calls[t].answer = "manual" /\ calls'[t].watch = calls[t].watch
  <2>1. calls[s] \in Call /\ calls[s].what # "poll"
    BY <1>7, SlotTaken DEF Settle, ServeRelease, ServeRestart, Sent
  <2>2. PICK c : calls' = [calls EXCEPT ![s] = c] /\ c.what = calls[s].what
    <3>1. CASE Settle(s)
      <4> DEFINE c == [calls[s] EXCEPT !.stage = "sent"]
      <4>1. calls' = [calls EXCEPT ![s] = c]
        BY <3>1 DEF Settle
      <4>2. c.what = calls[s].what
        BY <2>1 DEF Call
      <4> HIDE DEF c
      <4> QED BY <4>1, <4>2
    <3>2. CASE ServeRelease(s) \/ ServeRestart(s)
      <4>1. PICK a : Answer(s, a)
        BY <3>2 DEF ServeRelease, ServeRestart
      <4> DEFINE c == [[calls[s] EXCEPT !.stage = "answered"] EXCEPT !.answer = a]
      <4>2. calls' = [calls EXCEPT ![s] = c]
        BY <1>1, <4>1 DEF Answer
      <4>3. c.what = calls[s].what
        BY <2>1 DEF Call
      <4> HIDE DEF c
      <4> QED BY <4>2, <4>3
    <3> QED BY <1>7, <3>1, <3>2
  <2> QED BY <1>4, <2>1, <2>2
<1>8. ASSUME NEW s \in Slots, Breaks(s)
      PROVE  t \in Polls /\ calls[t].answer = "manual" /\ calls'[t].watch = calls[t].watch
  <2>1. calls[s] \in Call
    BY <1>1, <1>8 DEF Breaks
  <2>2. PICK a \in {"error", "unread", "gone"} : Answer(s, a)
    BY <1>8 DEF Breaks
  <2>3. calls' = [calls EXCEPT ![s] = [[calls[s] EXCEPT !.stage = "answered"] EXCEPT !.answer = a]]
    BY <1>1, <2>2 DEF Answer
  <2>4. [[calls[s] EXCEPT !.stage = "answered"] EXCEPT !.answer = a].answer = a
    BY <2>1 DEF Call
  <2> QED BY <1>4, <2>2, <2>3, <2>4
<1>9. ASSUME NEW s \in Slots, ServeStatus(s)
      PROVE  \/ t \in Polls /\ calls[t].answer = "manual" /\ calls'[t].watch = calls[t].watch
             \/ ServeStatus(t)
  <2>1. PICK c : calls' = [calls EXCEPT ![s] = c]
    <3>1. PICK a : Answer(s, a)
      BY <1>9 DEF ServeStatus
    <3>2. calls' = [calls EXCEPT ![s] = [[calls[s] EXCEPT !.stage = "answered"] EXCEPT !.answer = a]]
      BY <1>1, <3>1 DEF Answer
    <3> QED BY <3>2
  <2> QED BY <1>9, <2>1, OtherSlots DEF Polls, UnderWay
<1>10. \/ calls' = calls \/ Reload
       \/ \E s \in Slots : \/ Fire(s) \/ Receive(s) \/ Settle(s) \/ Breaks(s)
                           \/ ServeStatus(s) \/ ServeRelease(s) \/ ServeRestart(s)
  BY DEF vars, Next, Serve, Start, JobMoves, ReleasedInGitLab
<1> QED BY <1>2, <1>3, <1>5, <1>6, <1>7, <1>8, <1>9, <1>10

LEMMA GatesAreSeenStep ==
  ASSUME StateOK, GatesAreSeen, [Next]_vars
  PROVE  GatesAreSeen'
<1> SUFFICES ASSUME NEW t \in Slots, calls'[t].what = "poll", calls'[t].answer = "manual"
             PROVE  jobs'[watches'[calls'[t].watch].job].kind = "pipeline"
  BY DEF GatesAreSeen, Polls, UnderWay, KindOf
<1>1. CASE /\ t \in Polls /\ calls[t].answer = "manual"
           /\ calls'[t].watch = calls[t].watch
  <2>1. calls[t].watch \in 1 .. Len(watches)
    BY <1>1, SlotTaken DEF Polls, UnderWay
  <2>2. KindOf(calls[t].watch) = "pipeline"
    BY <1>1 DEF GatesAreSeen
  <2>3. PICK w \in 1 .. Len(watches) : w = calls[t].watch
    BY <2>1
  <2>4. KindOf(w)' = "pipeline"
    BY <2>2, <2>3, KindsStay
  <2> QED BY <1>1, <2>3, <2>4 DEF KindOf
<1>2. CASE ServeStatus(t)
  <2>1. calls[t] \in Call /\ calls[t].watch \in 1 .. Len(watches)
    BY <1>2, SlotTaken DEF ServeStatus, Sent
  <2>2. JobOf(t) \in 1 .. Len(jobs) /\ jobs \in Seq(Job) /\ Len(jobs) \in Nat
    BY <2>1, Basics DEF JobOf, StateOK, RefsOK
  <2>3. jobs[JobOf(t)] \in Job
    BY <2>2
  <2>4. calls'[t].watch = calls[t].watch /\ calls'[t].answer = jobs[JobOf(t)].status
    BY <1>2, <2>1, Basics DEF ServeStatus, Answer, Call
  <2>5. jobs[JobOf(t)].kind = "pipeline"
    BY <2>2, <2>3, <2>4 DEF StateOK, JobsOK, Job, Kinds
  <2>6. UNCHANGED <<jobs, watches>>
    BY <1>2 DEF ServeStatus
  <2> QED BY <2>4, <2>5, <2>6 DEF KindOf, JobOf
<1> QED BY <1>1, <1>2, SeenAtTheGate

LEMMA StartsCounted ==
  ASSUME StateOK, [Next]_vars
  PROVE  /\ spent["starts"] \in Nat
         /\ (\A kind \in Kinds : ~Start(kind)) => spent'["starts"] = spent["starts"]
         /\ \A kind \in Kinds : Start(kind) => spent'["starts"] = spent["starts"] + 1
<1>1. spent \in [Bounds -> Nat] /\ Bounds = {"starts", "troubles"}
  BY Basics DEF Bounds
<1>2. ASSUME Spend("troubles")
      PROVE  spent'["starts"] = spent["starts"]
  BY <1>1, <1>2 DEF Spend
<1>3. ASSUME NEW kind \in Kinds, Start(kind)
      PROVE  spent'["starts"] = spent["starts"] + 1
  BY <1>1, <1>3 DEF Start, Spend
<1>4. Reload => spent'["starts"] = spent["starts"]
  BY <1>2 DEF Reload
<1>5. ASSUME NEW s \in Slots, Breaks(s)
      PROVE  spent'["starts"] = spent["starts"]
  BY <1>2, <1>5 DEF Breaks
<1>6. ASSUME NEW s \in Slots, Fire(s) \/ Receive(s) \/ Settle(s) \/ Serve(s)
      PROVE  spent'["starts"] = spent["starts"]
  BY <1>6 DEF Fire, Settle, Serve, ServeStatus, ServeRelease, ServeRestart,
     Receive, LosesTrack, SeesError, SeesRunning, SeesFailed, SeesDeployed,
     SeesBuilt, SeesReleased, SeesRefused, Restarted, SeesManual, ReleaseUnanswered
<1>7. UNCHANGED vars \/ (\E j \in DOMAIN jobs : JobMoves(j) \/ ReleasedInGitLab(j)) =>
         spent'["starts"] = spent["starts"]
  BY DEF vars, JobMoves, ReleasedInGitLab
<1>8. (\A kind \in Kinds : ~Start(kind)) => spent'["starts"] = spent["starts"]
  BY <1>4, <1>5, <1>6, <1>7 DEF Next
<1> QED BY <1>1, <1>3, <1>8

\* Whoever moves the watch on is alone.
LEMMA Mover ==
  ASSUME StateOK, Alone, NEW s \in Slots
  PROVE  /\ calls[s].what = "poll" =>
               ~page.timer /\ Polls = {s} /\ Restarts = {} /\ s \notin Releases
         /\ calls[s].what = "restart" =>
               ~page.timer /\ Polls = {} /\ Restarts = {s} /\ s \notin Releases
         /\ calls[s].what = "release" => Releases = {s} /\ s \notin Polls /\ s \notin Restarts
         /\ calls[s] # Free => /\ calls[s].watch = page.watch
                               /\ page.watch \in 1 .. Len(watches)
                               /\ spent["starts"] # 0
<1>1. /\ \A t \in Slots : calls[t].what = "poll" => t \in Polls /\ t \notin Restarts
      /\ \A t \in Slots : calls[t].what = "restart" => t \in Restarts /\ t \notin Polls
      /\ \A t \in Slots : calls[t].what = "release" => t \in Releases
      /\ \A t \in Releases : t \in Slots /\ t \notin Polls /\ t \notin Restarts
      /\ Polls \subseteq Moving /\ Restarts \subseteq Moving /\ Moving = Polls \cup Restarts
      /\ Moving \subseteq Slots
  BY DEF Polls, Restarts, Releases, Moving, UnderWay
<1>2. calls[s] # Free => /\ calls[s].watch = page.watch
                         /\ page.watch \in 1 .. Len(watches)
                         /\ spent["starts"] # 0
  BY Basics DEF Alone
<1>3. /\ page.timer => Moving = {}
      /\ \A t, u \in Moving : t = u
      /\ \A t, u \in Releases : t = u
  BY DEF Alone
<1> QED BY <1>1, <1>2, <1>3

\* A step that starts nothing and stays with its object.
LEMMA GoesOn ==
  ASSUME StateOK, [Next]_vars, Alone, page.watch # 0,
         \A kind \in Kinds : ~Start(kind), spent["starts"] # 0,
         page'.watch = page.watch, page'.strays = 0,
         \A t \in Slots : calls'[t] # Free => calls'[t].watch = page.watch,
         page'.timer => Polls' = {} /\ Restarts' = {},
         \A t, u \in Polls' \cup Restarts' : t = u,
         \A t, u \in Releases' : t = u,
         Releases' # {} => watches'[page.watch].released /\ KindOf(page.watch) = "pipeline",
         Restarts' # {} => KindOf(page.watch) = "build",
         page'.phase \in Final => Restarts' = {}
  PROVE  Alone'
<1>1. page.watch \in 1 .. Len(watches)
  BY Basics
<1>2. PICK w \in 1 .. Len(watches) : w = page.watch
  BY <1>1
<1>3. KindOf(w)' = KindOf(w)
  BY KindsStay
<1>4. spent'["starts"] # 0
  BY StartsCounted
<1>5. Restarts' # {} => jobs'[watches'[page'.watch].job].kind = "build"
  BY <1>2, <1>3 DEF KindOf
<1>6. Releases' # {} => /\ watches'[page'.watch].released
                        /\ jobs'[watches'[page'.watch].job].kind = "pipeline"
  BY <1>2, <1>3 DEF KindOf
<1> QED BY <1>4, <1>5, <1>6 DEF Alone, Moving, KindOf

LEMMA AnswersStayAlone ==
  ASSUME StateOK, Alone, GatesAreSeen, [Next]_vars, \A kind \in Kinds : ~Start(kind),
         NEW s \in Slots, Receive(s)
  PROVE  Alone'
<1> DEFINE seen == Seen(page, calls[s].watch)
<1>1. /\ page \in Page /\ calls[s] # Free
      /\ calls[s].watch = page.watch /\ page.watch \in 1 .. Len(watches) /\ page.watch # 0
      /\ spent["starts"] # 0 /\ page.strays = 0
      /\ {"failed", "done", "waiting-for-person"} \subseteq Final
  <2>1. calls[s] # Free
    BY SlotTaken DEF Receive, LosesTrack, SeesError, SeesRunning, SeesFailed, SeesDeployed,
       SeesBuilt, SeesReleased, SeesRefused, Restarted, SeesManual, ReleaseUnanswered
  <2> QED BY <2>1, Mover, Basics DEF Alone, Final
<1>2. /\ \A t \in Slots : calls[t] # Free => calls[t].watch = page.watch
      /\ \A t, u \in Releases : t = u
      /\ \A t, u \in Polls \cup Restarts : t = u
      /\ Releases # {} => watches[page.watch].released /\ KindOf(page.watch) = "pipeline"
      /\ Restarts # {} => KindOf(page.watch) = "build"
      /\ page.phase \in Final => Restarts = {}
      /\ page.timer => Polls = {} /\ Restarts = {}
  BY DEF Alone, Moving
<1>3. /\ seen \in Page /\ seen.watch = page.watch /\ seen.phase = page.phase
      /\ (seen.timer <=> page.timer) /\ seen.strays = 0
  BY <1>1, PageFunctions
<1> HIDE DEF seen
<1>4. ASSUME NEW c, calls' = [calls EXCEPT ![s] = c]
      PROVE  /\ Polls' = (Polls \ {s}) \cup (IF c.what = "poll" THEN {s} ELSE {})
             /\ Restarts' = (Restarts \ {s}) \cup (IF c.what = "restart" THEN {s} ELSE {})
             /\ Releases' = (Releases \ {s}) \cup (IF c.what = "release" THEN {s} ELSE {})
             /\ c = Free \/ c.watch = page.watch =>
                   \A t \in Slots : calls'[t] # Free => calls'[t].watch = page.watch
  <2>1. \A what : UnderWay(what)' = (UnderWay(what) \ {s}) \cup (IF c.what = what THEN {s} ELSE {})
    BY <1>4, OtherSlots
  <2>2. calls'[s] = c /\ \A t \in Slots \ {s} : calls'[t] = calls[t]
    BY <1>4, OtherSlots
  <2>3. c = Free \/ c.watch = page.watch =>
           \A t \in Slots : calls'[t] # Free => calls'[t].watch = page.watch
    BY <1>2, <2>2
  <2> QED BY <2>1, <2>3 DEF Polls, Restarts, Releases
<1>5. Over(s) => /\ Polls' = Polls \ {s} /\ Restarts' = Restarts \ {s}
                 /\ Releases' = Releases \ {s}
                 /\ \A t \in Slots : calls'[t] # Free => calls'[t].watch = page.watch
  <2>1. Free.what = "none"
    BY DEF Free
  <2> QED BY <1>4, <2>1 DEF Over
<1>6. CASE LosesTrack(s) \/ SeesError(s) \/ SeesRunning(s) \/ SeesFailed(s) \/ SeesDeployed(s)
  <2>1. calls[s].what = "poll" /\ Over(s) /\ UNCHANGED watches
    BY <1>6 DEF LosesTrack, SeesError, SeesRunning, SeesFailed, SeesDeployed
  <2>2. page' \in {Stop(page, "failed"), Failed(page), Failed(seen), Schedule(seen),
                   Stop(seen, "failed"), Stop(seen, "done")}
    BY <1>6 DEF LosesTrack, SeesError, SeesRunning, SeesFailed, SeesDeployed, seen
  <2>3. ~page.timer /\ Polls = {s} /\ Restarts = {}
    BY <2>1, Mover
  <2>4. page'.watch = page.watch /\ page'.strays = 0
    BY <1>1, <1>3, <2>2, <2>3, PageFunctions, FailedPage
  <2>5. Polls' = {} /\ Restarts' = {} /\ Releases' \subseteq Releases
    BY <1>5, <2>1, <2>3
  <2> QED BY <1>1, <1>2, <1>5, <2>1, <2>4, <2>5, GoesOn
<1>7. CASE SeesBuilt(s)
  <2> DEFINE c == [Request("restart", page.watch) EXCEPT !.stage = "settling"]
  <2>1. /\ calls[s].what = "poll" /\ UNCHANGED watches
        /\ calls' = [calls EXCEPT ![s] = c]
        /\ page' = [seen EXCEPT !.phase = "restarting"]
        /\ KindOf(page.watch) = "build"
    BY <1>1, <1>7 DEF SeesBuilt, seen
  <2>2. c.what = "restart" /\ c.watch = page.watch
    BY DEF Request
  <2> HIDE DEF c
  <2>3. ~page.timer /\ Polls = {s} /\ Restarts = {}
    BY <2>1, Mover
  <2>4. /\ page'.watch = page.watch /\ page'.strays = 0 /\ ~page'.timer
        /\ page'.phase \notin Final
    BY <1>3, <2>1, <2>3 DEF Page, Final
  <2>5. Polls' = {} /\ Restarts' = {s} /\ Releases' \subseteq Releases
    BY <1>4, <2>1, <2>2, <2>3
  <2>6. \A t \in Slots : calls'[t] # Free => calls'[t].watch = page.watch
    BY <1>4, <2>1, <2>2
  <2> QED BY <1>1, <1>2, <2>1, <2>4, <2>5, <2>6, GoesOn
<1>8. CASE SeesManual(s)
  <2> DEFINE c == IF watches[page.watch].released THEN Free ELSE Request("release", page.watch)
  <2>1. /\ calls[s].what = "poll" /\ calls[s].answer = "manual"
        /\ calls' = [calls EXCEPT ![s] = c]
        /\ page' = Schedule(seen)
        /\ watches' = [watches EXCEPT ![page.watch].released = TRUE]
    BY <1>1, <1>8 DEF SeesManual, Over, seen
  <2>2. /\ c.what # "poll" /\ c.what # "restart"
        /\ c = Free \/ c.watch = page.watch
        /\ c.what = "release" => ~watches[page.watch].released
    BY DEF Request, Free
  <2> HIDE DEF c
  <2>3. ~page.timer /\ Polls = {s} /\ Restarts = {} /\ s \notin Releases
    BY <2>1, Mover
  <2>4. page'.watch = page.watch /\ page'.strays = 0
    BY <1>3, <2>1, <2>3, PageFunctions
  <2>5. Polls' = {} /\ Restarts' = {}
    BY <1>4, <2>1, <2>2, <2>3
  <2>6. Releases' = Releases \/ (Releases = {} /\ Releases' = {s})
    <3>1. Releases' = (Releases \ {s}) \cup (IF c.what = "release" THEN {s} ELSE {})
      BY <1>4, <2>1
    <3>2. c.what = "release" => Releases = {}
      BY <1>2, <2>2
    <3> QED BY <2>3, <3>1, <3>2
  <2>7. \A t \in Slots : calls'[t] # Free => calls'[t].watch = page.watch
    BY <1>4, <2>1, <2>2
  <2>8. KindOf(page.watch) = "pipeline"
    BY <1>1, <2>1, <2>3 DEF GatesAreSeen
  <2>9. watches'[page.watch].released
    <3>1. watches \in Seq(Watch) /\ watches[page.watch] \in Watch
      BY <1>1, Basics
    <3> QED BY <1>1, <2>1, <3>1 DEF Watch
  <2> QED BY <1>1, <1>2, <2>4, <2>5, <2>6, <2>7, <2>8, <2>9, GoesOn
<1>9. CASE SeesReleased(s) \/ ReleaseUnanswered(s)
  <2>1. calls[s].what = "release" /\ Over(s) /\ UNCHANGED page
    BY <1>9 DEF SeesReleased, ReleaseUnanswered
  <2>2. Releases = {s} /\ s \notin Polls /\ s \notin Restarts
    BY <2>1, Mover
  <2>3. Polls' = Polls /\ Restarts' = Restarts /\ Releases' = {}
    BY <1>5, <2>1, <2>2
  <2> QED BY <1>1, <1>2, <1>5, <2>1, <2>3, GoesOn
<1>10. CASE SeesRefused(s)
  <2>1. /\ calls[s].what = "release" /\ Over(s) /\ UNCHANGED watches
        /\ page' = Stop(page, "waiting-for-person")
    BY <1>10 DEF SeesRefused
  <2>2. Releases = {s} /\ s \notin Polls /\ Restarts = {}
    <3>1. Releases = {s} /\ s \notin Polls
      BY <2>1, Mover
    <3> QED BY <1>2, <3>1
  <2>3. Polls' = Polls /\ Restarts' = {} /\ Releases' = {}
    BY <1>5, <2>1, <2>2
  <2>4. page'.watch = page.watch /\ page'.strays = 0 /\ ~page'.timer
    BY <1>1, <2>1, PageFunctions
  <2> QED BY <1>1, <1>2, <1>5, <2>1, <2>3, <2>4, GoesOn
<1>11. CASE Restarted(s)
  <2>1. /\ calls[s].what = "restart" /\ Over(s) /\ UNCHANGED watches
        /\ page' = Stop(page, "done")
    BY <1>11 DEF Restarted
  <2>2. Restarts = {s} /\ Polls = {}
    BY <2>1, Mover
  <2>3. Polls' = {} /\ Restarts' = {} /\ Releases' \subseteq Releases
    BY <1>5, <2>1, <2>2
  <2>4. page'.watch = page.watch /\ page'.strays = 0 /\ ~page'.timer
    BY <1>1, <2>1, PageFunctions
  <2> QED BY <1>1, <1>2, <1>5, <2>1, <2>3, <2>4, GoesOn
<1> QED BY <1>6, <1>7, <1>8, <1>9, <1>10, <1>11 DEF Receive

LEMMA StaysAlone ==
  ASSUME StateOK, GatesAreSeen, OneWatch, [Next]_vars
  PROVE  OneWatch'
<1> SUFFICES ASSUME spent'["starts"] <= 1
             PROVE  Alone'
  BY DEF OneWatch
<1>1. Alone
  BY StartsCounted DEF OneWatch
<1>2. /\ page \in Page /\ calls \in [Slots -> Call \cup {Free}]
      /\ Free.what = "none"
  BY Basics DEF Free
<1>3. /\ \A t \in Slots : calls[t] # Free => calls[t].watch = page.watch
      /\ page.strays = 0
      /\ \A t, u \in Releases : t = u
      /\ \A t, u \in Polls \cup Restarts : t = u
      /\ Releases # {} => watches[page.watch].released /\ KindOf(page.watch) = "pipeline"
      /\ Restarts # {} => KindOf(page.watch) = "build"
      /\ page.phase \in Final => Restarts = {}
      /\ page.timer => Polls = {} /\ Restarts = {}
  BY <1>1 DEF Alone, Moving
<1>4. ASSUME NEW kind \in Kinds, Start(kind)
      PROVE  Alone'
  <2>1. spent["starts"] = 0 /\ spent'["starts"] # 0
    BY <1>4, StartsCounted
  <2>2. page.watch = 0
    BY <1>1, <2>1 DEF Alone
  <2>3. UNCHANGED calls /\ \A t \in Slots : calls[t] = Free
    BY <1>4, <2>2, Basics DEF Start
  <2>4. Polls' = {} /\ Releases' = {} /\ Restarts' = {}
    BY <1>2, <2>3 DEF Polls, Releases, Restarts, UnderWay
  <2>5. page'.strays = 0
    BY <1>2, <1>3, <1>4 DEF Start, Page
  <2> QED BY <2>1, <2>3, <2>4, <2>5 DEF Alone, Moving
<1>5. CASE Reload
  <2>1. \A t \in Slots : calls'[t] = Free
    BY <1>5 DEF Reload
  <2>2. Polls' = {} /\ Releases' = {} /\ Restarts' = {}
    BY <1>2, <2>1 DEF Polls, Releases, Restarts, UnderWay
  <2>3. page'.strays = 0
    <3>1. CASE stored = Nothing
      BY <1>5, <3>1 DEF Reload
    <3>2. CASE stored # Nothing
      BY <1>5, <3>2 DEF Reload
    <3> QED BY <3>1, <3>2
  <2>4. spent'["starts"] = spent["starts"]
    <3>1. Spend("troubles") /\ spent \in [Bounds -> Nat]
      BY <1>5, Basics DEF Reload
    <3> QED BY <3>1 DEF Spend, Bounds
  <2>5. spent'["starts"] = 0 => page'.watch = 0 /\ stored' = Nothing
    <3>1. spent["starts"] = 0 => stored = Nothing
      BY <1>1 DEF Alone
    <3> QED BY <1>5, <2>4, <3>1 DEF Reload
  <2> QED BY <2>1, <2>2, <2>3, <2>5 DEF Alone, Moving
<1>6. ASSUME \A kind \in Kinds : ~Start(kind), ~Reload, ~UNCHANGED vars
      PROVE  Alone'
  <2>1. ASSUME NEW s \in Slots, Fire(s)
        PROVE  Alone'
    <3> DEFINE c == Request("poll", page.watch)
    <3>1. calls' = [calls EXCEPT ![s] = c] /\ UNCHANGED watches /\ calls[s] = Free
      BY <2>1 DEF Fire, Takes
    <3>2. c.what = "poll" /\ c.watch = page.watch
      BY DEF Request
    <3> HIDE DEF c
    <3>3. page.timer /\ page' = [page EXCEPT !.timer = FALSE]
      BY <1>3, <2>1 DEF Fire
    <3>4. page.watch # 0 /\ spent["starts"] # 0
      BY <1>1, <3>3, Basics DEF Alone
    <3>5. page'.watch = page.watch /\ page'.strays = 0 /\ ~page'.timer
      BY <1>2, <1>3, <3>3 DEF Page
    <3>6. s \notin Releases /\ Polls = {} /\ Restarts = {}
      BY <1>2, <1>3, <3>1, <3>3 DEF Releases, UnderWay
    <3>7. Polls' = {s} /\ Restarts' = {} /\ Releases' = Releases
      <4>1. /\ UnderWay("poll")' = (UnderWay("poll") \ {s}) \cup {s}
            /\ UnderWay("restart")' = UnderWay("restart") \ {s}
            /\ UnderWay("release")' = UnderWay("release") \ {s}
        <5>1. \A what : UnderWay(what)' = (UnderWay(what) \ {s})
                                             \cup (IF c.what = what THEN {s} ELSE {})
          BY <3>1, OtherSlots
        <5> QED BY <3>2, <5>1
      <4> QED BY <3>6, <4>1 DEF Polls, Releases, Restarts
    <3>8. \A t \in Slots : calls'[t] # Free => calls'[t].watch = page.watch
      BY <1>3, <3>1, <3>2, OtherSlots
    <3> QED BY <1>1, <1>3, <1>6, <3>1, <3>4, <3>5, <3>7, <3>8, GoesOn
  <2>2. ASSUME NEW s \in Slots, Receive(s)
        PROVE  Alone'
    BY <1>1, <1>6, <2>2, AnswersStayAlone
  <2>3. ASSUME NEW s \in Slots, Settle(s) \/ Serve(s) \/ Breaks(s)
        PROVE  Alone'
    <3>1. /\ UNCHANGED <<page, watches>>
          /\ Polls' = Polls /\ Releases' = Releases /\ Restarts' = Restarts
          /\ \A t \in Slots : calls'[t] # Free => calls[t] # Free /\ calls'[t].watch = calls[t].watch
      <4>1. /\ UNCHANGED page
            /\ \A what : UnderWay(what)' = UnderWay(what)
            /\ \A t \in Slots :
                  calls'[t] # Free => calls[t] # Free /\ calls'[t].watch = calls[t].watch
        BY <2>3, SameRequests DEF Serve
      <4>2. UNCHANGED watches
        BY <2>3 DEF Settle, Serve, ServeStatus, ServeRelease, ServeRestart, Breaks
      <4> QED BY <4>1, <4>2 DEF Polls, Releases, Restarts
    <3>2. calls[s] # Free
      BY <2>3, SlotTaken DEF Settle, Serve, ServeStatus, ServeRelease, ServeRestart, Breaks, Sent
    <3>3. page.watch # 0 /\ spent["starts"] # 0
      BY <1>1, <3>2, Basics, Mover
    <3> QED BY <1>1, <1>3, <1>6, <3>1, <3>3, GoesOn
  <2>4. CASE \E j \in DOMAIN jobs : JobMoves(j) \/ ReleasedInGitLab(j)
    <3>1. UNCHANGED <<watches, page, calls, stored, spent>>
      BY <2>4 DEF JobMoves, ReleasedInGitLab
    <3>2. Polls' = Polls /\ Releases' = Releases /\ Restarts' = Restarts
      BY <3>1 DEF Polls, Releases, Restarts, UnderWay
    <3>3. CASE page.watch = 0
      <4>1. \A t \in Slots : calls[t] = Free
        BY <3>3, Basics
      <4>2. Polls = {} /\ Releases = {} /\ Restarts = {}
        BY <1>2, <4>1 DEF Polls, Releases, Restarts, UnderWay
      <4> QED BY <1>1, <3>1, <3>2, <4>1, <4>2 DEF Alone, Moving
    <3>4. CASE page.watch # 0
      <4>1. spent["starts"] # 0
        BY <1>1, <3>4 DEF Alone
      <4>2. \A t \in Slots : calls'[t] # Free => calls'[t].watch = page.watch
        BY <1>3, <3>1
      <4> QED BY <1>1, <1>3, <1>6, <3>1, <3>2, <3>4, <4>1, <4>2, GoesOn
    <3> QED BY <3>3, <3>4
  <2> QED BY <1>6, <2>1, <2>2, <2>3, <2>4 DEF Next
<1>7. CASE UNCHANGED vars
  BY <1>1, <1>7 DEF vars, Alone, Moving, Polls, Restarts, Releases, UnderWay, KindOf
<1> QED BY <1>4, <1>5, <1>6, <1>7

LEMMA OneWatchInvariance == Spec => [](StateOK /\ GatesAreSeen /\ OneWatch)
<1>1. Init => GatesAreSeen /\ OneWatch
  <2> SUFFICES ASSUME Init
               PROVE  GatesAreSeen /\ OneWatch
    OBVIOUS
  <2>1. /\ \A s \in Slots : calls[s] = Free
        /\ page.watch = 0 /\ page.strays = 0 /\ ~page.timer /\ stored = Nothing
    BY DEF Init
  <2>2. Polls = {} /\ Restarts = {} /\ Releases = {}
    BY <2>1 DEF Free, Polls, Restarts, Releases, UnderWay
  <2> QED BY <2>1, <2>2 DEF GatesAreSeen, OneWatch, Alone, Moving
<1> QED BY <1>1, GatesAreSeenStep, StaysAlone, StateInvariance, PTL DEF Spec

LEMMA AtMostOne ==
  ASSUME NEW S, \A s, t \in S : s = t
  PROVE  Cardinality(S) <= 1
<1>1. CASE S = {}
  BY <1>1, FS_EmptySet
<1>2. ASSUME NEW s \in S
      PROVE  Cardinality(S) <= 1
  <2>1. S = {s}
    OBVIOUS
  <2>2. Cardinality({s}) = 1
    BY FS_Singleton
  <2> QED BY <2>1, <2>2
<1> QED BY <1>1, <1>2

\* For any number of requests, lost answers and reloads: while one rebuild was started,
\* its gate is released in one request at a time, however many polls see it closed
\* (rebuildWatcher.ts, w.released).
THEOREM GateReleasedOnce == Spec => []OneReleaseEach
<1>1. OneWatch => OneReleaseEach
  <2> SUFFICES ASSUME OneWatch, spent["starts"] <= 1
               PROVE  Cardinality(Releases) <= 1
    BY DEF OneReleaseEach, OneReleaseAtATime, Releases
  <2>1. \A s, t \in Releases : s = t
    BY DEF OneWatch, Alone
  <2> QED BY <2>1, AtMostOne
<1> QED BY <1>1, OneWatchInvariance, PTL

\* Likewise a build that is back restarts the workload in one request at a time, and
\* none is left once the watch shows its outcome (rebuildWatcher.ts, restartAfterBuild).
THEOREM RestartedOnce == Spec => []OneRestart
<1>1. OneWatch => OneRestart
  <2> SUFFICES ASSUME OneWatch, spent["starts"] <= 1
               PROVE  /\ Cardinality(Restarts) <= 1
                      /\ page.phase \in Final => Restarts = {}
    BY DEF OneRestart, Restarts
  <2>1. Alone
    BY DEF OneWatch
  <2>2. \A s, t \in Restarts : s = t
    BY <2>1 DEF Alone, Moving
  <2> QED BY <2>1, <2>2, AtMostOne DEF Alone
<1> QED BY <1>1, OneWatchInvariance, PTL
=============================================================================
