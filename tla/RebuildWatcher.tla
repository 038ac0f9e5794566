--------------------------- MODULE RebuildWatcher ---------------------------
(***************************************************************************)
(* The browser's watch of one pod's image being rebuilt                    *)
(* (web/src/rebuildWatcher.ts): it polls the build, or a fresh pipeline,   *)
(* until it ends, releases a pipeline's manual gate, restarts the workload *)
(* after a build, and carries on after the page is reloaded.               *)
(*                                                                         *)
(* The page has one thread; what interleaves are its timers, the answers   *)
(* to its requests, the reloads, and GitLab.  A request is served, and its *)
(* answer arrives, at separate moments, and either may be lost.            *)
(***************************************************************************)
EXTENDS Naturals, Sequences, FiniteSets

CONSTANTS
    Slots,       \* requests of the page that can be under way at once
    MaxFails,    \* MAX_FAILS
    MaxStarts,   \* bounds of the model: rebuilds started,
    MaxTroubles, \*   reloads, and requests that fail or lose their answer,
    MaxGates     \*   manual gates a pipeline stops at

ASSUME BoundsAreNat ==
    /\ MaxFails \in Nat \ {0}
    /\ {MaxStarts, MaxTroubles, MaxGates} \subseteq Nat

VARIABLES
    jobs,    \* GitLab: the builds and pipelines, by the number their ticket holds
    watches, \* the Watcher objects made so far
    page,    \* the entry of `watchers` for the pod, and the timers armed
    calls,   \* the page's requests under way
    stored,  \* the pod's entry in localStorage
    spent    \* how much of each bound is used

vars == <<jobs, watches, page, calls, stored, spent>>

-----------------------------------------------------------------------------
Kinds == {"build", "pipeline"}
\* Statuses as the watcher tells them apart; "running" is all of IN_PROGRESS.
Statuses == {"running", "manual", "success", "failed"}
Job == [kind : Kinds, status : Statuses, gates : 0 .. MaxGates]

\* A Watcher object; callbacks may hold one that is no longer on record.
Watch == [job : Nat, released : BOOLEAN]

Final == {"waiting-for-person", "done", "failed"}
InFlight == {"running", "restarting"}

\* `watch` is the number of the object on record, 0 for none; `timer` says
\* whether the timer it names is armed, `strays` counts armed timers that no
\* object names any more.
Page == [watch : Nat, phase : {"none"} \cup InFlight \cup Final,
         fails : Nat, timer : BOOLEAN, strays : Nat]

\* A request made for a Watcher object.  A restart waits for the registry first.
Call == [what : {"poll", "release", "restart"}, watch : Nat,
         stage : {"settling", "sent", "answered"},
         answer : {"none", "gone", "error", "unread", "played", "refused", "nothing", "ok"}
                      \cup Statuses]
Free == [what |-> "none"]
Request(what, w) == [what |-> what, watch |-> w, stage |-> "sent", answer |-> "none"]

\* A request takes a free slot, which one makes no difference.
Takes(s) == calls[s] = Free /\ s = CHOOSE t \in Slots : calls[t] = Free

Nothing == [job |-> 0, released |-> FALSE]

Bounds == {"starts", "troubles"}
Limit == [b \in Bounds |-> IF b = "starts" THEN MaxStarts ELSE MaxTroubles]
Spend(b) == /\ spent[b] < Limit[b]
            /\ spent' = [spent EXCEPT ![b] = @ + 1]

TypeOK ==
    /\ jobs \in Seq(Job)
    /\ watches \in Seq(Watch)
    /\ page \in Page
    /\ calls \in [Slots -> Call \cup {Free}]
    /\ stored \in Watch
    /\ spent \in [Bounds -> Nat]

Init ==
    /\ jobs = <<>>
    /\ watches = <<>>
    /\ page = [watch |-> 0, phase |-> "none", fails |-> 0, timer |-> FALSE, strays |-> 0]
    /\ calls = [s \in Slots |-> Free]
    /\ stored = Nothing
    /\ spent = [b \in Bounds |-> 0]

-----------------------------------------------------------------------------
(* What the page does, as functions of its state.                          *)

\* A timer that is still armed goes on without a name.
Schedule(p) == IF p.timer THEN [p EXCEPT !.strays = @ + 1] ELSE [p EXCEPT !.timer = TRUE]

\* fail, waitForPerson and finish: the outcome stays, the named timer is cleared.
Stop(p, phase) == [p EXCEPT !.phase = phase, !.timer = FALSE]

\* registerFail, and what poll does with its result.
Failed(p) ==
    IF p.fails + 1 >= MaxFails
    THEN Stop([p EXCEPT !.fails = @ + 1], "failed")
    ELSE Schedule([p EXCEPT !.fails = @ + 1])

\* Only work still in flight is kept for the next page.
Persisted(p, ws) == IF p.phase \in InFlight THEN ws[p.watch] ELSE Nothing

\* The page after a status that is not an end: `w.fails = 0` is on the object
\* the poll began with.
Seen(p, w) == IF w = p.watch THEN [p EXCEPT !.fails = 0] ELSE p

KindOf(w) == jobs[watches[w].job].kind

-----------------------------------------------------------------------------
(* The page.                                                               *)

\* A rebuild or a pipeline was started and its answer is here.  The buttons are
\* on two pages and look at what is watched when they are drawn, so a watch may
\* be there already.
Start(kind) ==
    /\ Spend("starts")
    /\ \E gates \in 0 .. (IF kind = "pipeline" THEN MaxGates ELSE 0) :
           jobs' = Append(jobs, [kind |-> kind, status |-> "running", gates |-> gates])
    /\ watches' = Append(watches, [job |-> Len(jobs'), released |-> FALSE])
    /\ page' = [page EXCEPT !.watch = Len(watches'), !.phase = "running",
                            !.fails = 0, !.timer = TRUE]
    /\ stored' = Persisted(page', watches')
    /\ UNCHANGED calls

\* A timer goes off: poll whatever is on record now.
Fire(s) ==
    /\ Takes(s)
    /\ \/ page.timer /\ page' = [page EXCEPT !.timer = FALSE]
       \/ page.strays > 0 /\ page' = [page EXCEPT !.strays = @ - 1]
    /\ calls' = [calls EXCEPT ![s] = Request("poll", page.watch)]
    /\ UNCHANGED <<jobs, watches, stored, spent>>

\* An answer has been dealt with.
Over(s) == calls' = [calls EXCEPT ![s] = Free]

\* 400 or 404: the ticket expired, or what it names is gone.
LosesTrack(s) ==
    /\ calls[s].what = "poll"
    /\ calls[s].answer = "gone"
    /\ page' = Stop(page, "failed")
    /\ stored' = Persisted(page', watches)
    /\ Over(s)
    /\ UNCHANGED <<jobs, watches, spent>>

\* Mutant: a failed poll is the last.
SeesErrorOnce(s) ==
    /\ calls[s].what = "poll"
    /\ calls[s].answer \in {"error", "unread"}
    /\ page' = [page EXCEPT !.fails = @ + 1]
    /\ Over(s)
    /\ UNCHANGED <<jobs, watches, stored, spent>>

\* Any other refusal, and an exception: without an answer, or reading the body of
\* one, when the failures before it are forgotten already.
SeesError(s) ==
    /\ calls[s].what = "poll"
    /\ calls[s].answer \in {"error", "unread"}
    /\ page' = Failed(IF calls[s].answer = "unread" THEN Seen(page, calls[s].watch) ELSE page)
    /\ stored' = IF page'.phase = "failed" THEN Nothing ELSE stored
    /\ Over(s)
    /\ UNCHANGED <<jobs, watches, spent>>

SeesRunning(s) ==
    /\ calls[s].what = "poll"
    /\ calls[s].answer = "running"
    /\ page' = Schedule(Seen(page, calls[s].watch))
    /\ stored' = Persisted(page, watches)
    /\ Over(s)
    /\ UNCHANGED <<jobs, watches, spent>>

SeesFailed(s) ==
    /\ calls[s].what = "poll"
    /\ calls[s].answer = "failed"
    /\ page' = Stop(Seen(page, calls[s].watch), "failed")
    /\ stored' = Persisted(page', watches)
    /\ Over(s)
    /\ UNCHANGED <<jobs, watches, spent>>

\* The pipeline deployed as well: done.
SeesDeployed(s) ==
    /\ calls[s].what = "poll"
    /\ calls[s].answer = "success"
    /\ KindOf(calls[s].watch) = "pipeline"
    /\ page' = Stop(Seen(page, calls[s].watch), "done")
    /\ stored' = Persisted(page', watches)
    /\ Over(s)
    /\ UNCHANGED <<jobs, watches, spent>>

\* Mutant: the polling goes on beside the restart.
SeesBuiltAndPolls(s) ==
    /\ calls[s].what = "poll"
    /\ calls[s].answer = "success"
    /\ KindOf(calls[s].watch) = "build"
    /\ page' = Schedule([Seen(page, calls[s].watch) EXCEPT !.phase = "restarting"])
    /\ stored' = Persisted(page', watches)
    /\ calls' = [calls EXCEPT ![s] = [Request("restart", page.watch) EXCEPT !.stage = "settling"]]
    /\ UNCHANGED <<jobs, watches, spent>>

\* The image is back: restartAfterBuild, for whatever is on record now.
SeesBuilt(s) ==
    /\ calls[s].what = "poll"
    /\ calls[s].answer = "success"
    /\ KindOf(calls[s].watch) = "build"
    /\ page' = [Seen(page, calls[s].watch) EXCEPT !.phase = "restarting"]
    /\ stored' = Persisted(page', watches)
    /\ calls' = [calls EXCEPT ![s] = [Request("restart", page.watch) EXCEPT !.stage = "settling"]]
    /\ UNCHANGED <<jobs, watches, spent>>

\* Mutant: every poll presses the button.
SeesManualAgain(s) ==
    LET w == calls[s].watch IN
    /\ calls[s].what = "poll"
    /\ calls[s].answer = "manual"
    /\ page' = Schedule(Seen(page, w))
    /\ stored' = Persisted(page, watches)
    /\ calls' = [calls EXCEPT ![s] = Request("release", page.watch)]
    /\ UNCHANGED <<jobs, watches, spent>>

\* The pipeline waits at its gate: releaseDeploy, unless this object asked for
\* it already, and go on polling.  What is persisted is from before that.
SeesManual(s) ==
    LET w == calls[s].watch IN
    /\ calls[s].what = "poll"
    /\ calls[s].answer = "manual"
    /\ page' = Schedule(Seen(page, w))
    /\ stored' = Persisted(page, watches)
    /\ watches' = [watches EXCEPT ![w].released = TRUE]
    /\ IF watches[w].released
       THEN Over(s)
       ELSE calls' = [calls EXCEPT ![s] = Request("release", page.watch)]
    /\ UNCHANGED <<jobs, spent>>

\* Played, or played by somebody else in between: the polling carries on.
SeesReleased(s) ==
    /\ calls[s].what = "release"
    /\ calls[s].answer \in {"played", "nothing"}
    /\ Over(s)
    /\ UNCHANGED <<jobs, watches, page, stored, spent>>

\* Forbidden, failed, or left waiting: a person is needed.
SeesRefused(s) ==
    /\ calls[s].what = "release"
    /\ calls[s].answer = "refused"
    /\ page' = Stop(page, "waiting-for-person")
    /\ stored' = Persisted(page', watches)
    /\ Over(s)
    /\ UNCHANGED <<jobs, watches, spent>>

\* The release fails on the network: the next manual tick tries again.
ReleaseUnanswered(s) ==
    /\ calls[s].what = "release"
    /\ calls[s].answer = "error"
    /\ watches' = [watches EXCEPT ![page.watch].released = FALSE]
    /\ Over(s)
    /\ UNCHANGED <<jobs, page, stored, spent>>

\* The registry had its time.
Settle(s) ==
    /\ calls[s].what = "restart"
    /\ calls[s].stage = "settling"
    /\ calls' = [calls EXCEPT ![s].stage = "sent"]
    /\ UNCHANGED <<jobs, watches, page, stored, spent>>

\* However the restart went, the watch is done.
Restarted(s) ==
    /\ calls[s].what = "restart"
    /\ calls[s].stage = "answered"
    /\ page' = Stop(page, "done")
    /\ stored' = Persisted(page', watches)
    /\ Over(s)
    /\ UNCHANGED <<jobs, watches, spent>>

\* Mutant: what was in flight is shown and not polled.
ReloadIdle ==
    /\ Spend("troubles")
    /\ calls' = [s \in Slots |-> Free]
    /\ IF stored = Nothing
       THEN /\ page' = [watch |-> 0, phase |-> "none", fails |-> 0,
                        timer |-> FALSE, strays |-> 0]
            /\ UNCHANGED watches
       ELSE /\ watches' = Append(watches, stored)
            /\ page' = [watch |-> Len(watches'), phase |-> "running", fails |-> 0,
                        timer |-> FALSE, strays |-> 0]
    /\ UNCHANGED <<jobs, stored>>

\* The page is loaded again: timers and requests are gone (one the server is to
\* serve all the same is served before), and what was in flight is watched by a
\* new object.
Reload ==
    /\ Spend("troubles")
    /\ calls' = [s \in Slots |-> Free]
    /\ IF stored = Nothing
       THEN /\ page' = [watch |-> 0, phase |-> "none", fails |-> 0,
                        timer |-> FALSE, strays |-> 0]
            /\ UNCHANGED watches
       ELSE /\ watches' = Append(watches, stored)
            /\ page' = [watch |-> Len(watches'), phase |-> "running", fails |-> 0,
                        timer |-> TRUE, strays |-> 0]
    /\ UNCHANGED <<jobs, stored>>

-----------------------------------------------------------------------------
(* The server, and GitLab behind it.                                       *)

JobOf(s) == watches[calls[s].watch].job
Sent(s, what) == calls[s].what = what /\ calls[s].stage = "sent"
Answer(s, a) == calls' = [calls EXCEPT ![s].stage = "answered", ![s].answer = a]

\* handleBuildStatus, handlePipelineStatus.
ServeStatus(s) ==
    /\ Sent(s, "poll")
    /\ Answer(s, jobs[JobOf(s)].status)
    /\ UNCHANGED <<jobs, watches, page, stored, spent>>

\* handlePlayDeploy: the manual jobs with a permitted name are played; one that
\* is left, or that GitLab refuses, still holds the pipeline.  A build's ticket is
\* for another purpose.
ServeRelease(s) ==
    LET j == JobOf(s) IN
    /\ Sent(s, "release")
    /\ \/ /\ jobs[j].kind = "build"
          /\ Answer(s, "refused") /\ UNCHANGED jobs
       \/ /\ jobs[j].kind = "pipeline" /\ jobs[j].status # "manual"
          /\ Answer(s, "nothing") /\ UNCHANGED jobs
       \/ /\ jobs[j].kind = "pipeline" /\ jobs[j].status = "manual"
          /\ \/ Answer(s, "refused") /\ UNCHANGED jobs
             \/ Answer(s, "played") /\ UNCHANGED jobs
             \/ /\ Answer(s, "played")
                /\ jobs' = [jobs EXCEPT ![j].status = "running", ![j].gates = @ - 1]
    /\ UNCHANGED <<watches, page, stored, spent>>

\* The workload is restarted, or the restart refused.
ServeRestart(s) ==
    /\ Sent(s, "restart")
    /\ \E a \in {"ok", "refused"} : Answer(s, a)
    /\ UNCHANGED <<jobs, watches, page, stored, spent>>

\* A request fails before it is served, or its answer on the way back, the body of
\* one perhaps only; a ticket expires.
Breaks(s) ==
    /\ calls[s] # Free
    /\ calls[s].stage # "settling"
    /\ calls[s].answer \notin {"error", "unread", "gone"}
    /\ Spend("troubles")
    /\ \/ Answer(s, "error")
       \/ calls[s].what = "poll" /\ \E a \in {"unread", "gone"} : Answer(s, a)
    /\ UNCHANGED <<jobs, watches, page, stored>>

\* A job or pipeline gets on: it ends, or reaches a manual gate.
JobMoves(j) ==
    /\ jobs[j].status = "running"
    /\ \/ \E end \in {"success", "failed"} :
              jobs[j].gates = 0 /\ jobs' = [jobs EXCEPT ![j].status = end]
       \/ jobs[j].gates > 0 /\ jobs' = [jobs EXCEPT ![j].status = "manual"]
    /\ UNCHANGED <<watches, page, calls, stored, spent>>

\* Somebody presses the button in GitLab.
ReleasedInGitLab(j) ==
    /\ jobs[j].status = "manual"
    /\ jobs' = [jobs EXCEPT ![j].status = "running", ![j].gates = @ - 1]
    /\ UNCHANGED <<watches, page, calls, stored, spent>>

Receive(s) ==
    \/ LosesTrack(s)
    \/ SeesError(s)
    \/ SeesRunning(s)
    \/ SeesFailed(s)
    \/ SeesDeployed(s)
    \/ SeesBuilt(s)
    \/ SeesManual(s)
    \/ SeesReleased(s)
    \/ SeesRefused(s)
    \/ ReleaseUnanswered(s)
    \/ Restarted(s)

Serve(s) == ServeStatus(s) \/ ServeRelease(s) \/ ServeRestart(s)

Next ==
    \/ \E kind \in Kinds : Start(kind)
    \/ \E s \in Slots : Fire(s) \/ Receive(s) \/ Settle(s) \/ Serve(s) \/ Breaks(s)
    \/ \E j \in DOMAIN jobs : JobMoves(j) \/ ReleasedInGitLab(j)
    \/ Reload

Spec == Init /\ [][Next]_vars

\* Timers go off, requests are answered or fail, and what GitLab runs ends.
\* Nobody is obliged to press a button.
Fairness ==
    /\ WF_vars(\E s \in Slots : Fire(s))
    /\ \A s \in Slots : WF_vars(Receive(s)) /\ WF_vars(Settle(s)) /\ WF_vars(Serve(s))
    /\ \A j \in 1 .. MaxStarts : WF_vars(j \in DOMAIN jobs /\ JobMoves(j))

FairSpec == Spec /\ Fairness

-----------------------------------------------------------------------------
(* What must hold.                                                         *)

UnderWay(what) == {s \in Slots : calls[s].what = what}

\* A watch that shows progress is being followed: whichever answers, errors,
\* second starts and reloads came before, there is a timer, a poll or a restart
\* that will move it on.
NobodyForgotten ==
    /\ page.phase = "running" => page.timer \/ page.strays > 0 \/ UnderWay("poll") # {}
    /\ page.phase = "restarting" => UnderWay("restart") # {}

\* "The manual gate is released once": while a release is under way the polls
\* that see the gate do not press again.
OneReleaseAtATime == Cardinality(UnderWay("release")) <= 1

\* So it is unless another rebuild was started beside the watched one.
OneReleaseEach == spent["starts"] <= 1 => OneReleaseAtATime

\* A build that is back restarts the workload in one request at a time, and once the
\* watch shows its outcome none of this page's is left to come
\* (rebuildWatcher.ts:196-198, 240-274).  A page that is loaded again while the
\* restart is served asks for another.
OneRestart ==
    spent["starts"] <= 1 =>
        /\ Cardinality(UnderWay("restart")) <= 1
        /\ page.phase \in Final => UnderWay("restart") = {}

\* A watched build comes to an outcome, or somebody watches a pipeline instead.
WatchedBuild == page.phase \in InFlight /\ KindOf(page.watch) = "build"
BuildWatchEnds == WatchedBuild ~> ~WatchedBuild

\* A pipeline left at its gate comes to an outcome or to a person: "the honest
\* thing is to say a person is needed, not to keep waiting silently" (poll).
HeldUp ==
    /\ page.phase = "running"
    /\ jobs[watches[page.watch].job].status = "manual"
NeverWaitsSilently == HeldUp ~> ~HeldUp
=============================================================================
