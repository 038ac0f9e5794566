------------------------------ MODULE Restart ------------------------------
(***************************************************************************)
(* Rolling restarts of one workload: the request that stamps its pod       *)
(* template (internal/kube/pods.go, RolloutRestart), the question how far  *)
(* it is (internal/kube/rollout.go), and the watch a browser keeps until   *)
(* it is over (web/src/restartWatcher.ts).                                 *)
(*                                                                         *)
(* The template is the number of times it was changed, the clock ticks in  *)
(* the seconds a stamp is written in.  Pods, and what keeps new ones from  *)
(* becoming ready, belong to the cluster: until a rollout is complete its  *)
(* status says anything.                                                   *)
(***************************************************************************)
EXTENDS Naturals, FiniteSets

CONSTANTS
    Clicks,                 \* the browser's presses of Restart
    Polls,                  \* bounds the polls under way at the same time
    restartDedupeWindow,
    MAX_FAILS,
    MaxClock,               \* bounds the clock
    MaxTemplate,            \* bounds the changes of the template
    MaxWatches,             \* bounds the watches
    MaxReloads              \* bounds the reloads of the page

ASSUME RestartConstants ==
    /\ Clicks # {} /\ IsFiniteSet(Clicks) /\ Polls # {} /\ IsFiniteSet(Polls)
    /\ {restartDedupeWindow, MAX_FAILS} \subseteq Nat \ {0}
    /\ {MaxClock, MaxTemplate, MaxWatches, MaxReloads} \subseteq Nat

VARIABLES
    clock,
    template, stamp,        \* the pod template, and the second in its restartedAt
    observed, rolled,       \* the template the controller has seen, and the pods run
    clicks,                 \* where each request is
    watch,                  \* the browser's watch of the workload
    polls,                  \* its polls under way
    orphans,                \* timers of polls that no watch can cancel any more
    removals,               \* timers that will remove a finished watch
    watches, reloads        \* how many there were

restartVars == <<clock, template, stamp, observed, rolled, clicks, watch, polls, orphans,
                 removals, watches, reloads>>
cluster == <<clock, template, stamp, observed, rolled>>

NoClick == [pc |-> "none", now |-> 0, since |-> 0]
NoWatch == [id |-> 0, phase |-> "none", timer |-> FALSE, fails |-> 0, expired |-> FALSE,
            since |-> 0]
NoPoll == [id |-> 0, since |-> 0, read |-> "none"]

RestartTypeOK ==
    /\ {clock, stamp} \subseteq 0..MaxClock
    /\ {template, observed, rolled} \subseteq 0..MaxTemplate
    /\ rolled <= observed /\ observed <= template
    /\ clicks \in [Clicks -> [pc : {"none", "patching", "answered"},
                              now : 0..MaxClock, since : 0..MaxTemplate]]
    /\ watch \in [id : 0..MaxWatches,
                  phase : {"none", "progressing", "stuck", "done", "failed"},
                  timer : BOOLEAN, fails : 0..MAX_FAILS, expired : BOOLEAN,
                  since : 0..MaxTemplate]
    /\ polls \in [Polls -> [id : 0..MaxWatches, since : 0..MaxTemplate,
                            read : {"none", "asked", "done", "progressing", "stuck", "over"}]]
    /\ {orphans, removals} \subseteq Nat
    /\ watches \in 0..MaxWatches /\ reloads \in 0..MaxReloads

RestartInit ==
    /\ clock = 1 /\ template = 1 /\ stamp = 0 /\ observed = 1 /\ rolled = 1
    /\ clicks = [c \in Clicks |-> NoClick]
    /\ watch = NoWatch
    /\ polls = [p \in Polls |-> NoPoll]
    /\ orphans = 0 /\ removals = 0 /\ watches = 0 /\ reloads = 0

-----------------------------------------------------------------------------
(* The cluster. *)

Second ==
    /\ clock < MaxClock
    /\ clock' = clock + 1
    /\ UNCHANGED <<template, stamp, observed, rolled, clicks, watch, polls, orphans, removals,
                   watches, reloads>>

Observe ==
    /\ observed # template
    /\ observed' = template
    /\ UNCHANGED <<clock, template, stamp, rolled, clicks, watch, polls, orphans, removals,
                   watches, reloads>>

Roll ==
    /\ rolled # observed
    /\ rolled' = observed
    /\ UNCHANGED <<clock, template, stamp, observed, clicks, watch, polls, orphans, removals,
                   watches, reloads>>

-----------------------------------------------------------------------------
(* RolloutRestart. *)

Click(c, pc, now, since) ==
    clicks' = [clicks EXCEPT ![c] = [pc |-> pc, now |-> now, since |-> since]]

Browser == <<watch, polls, orphans, removals, watches, reloads>>

\* The stamp is read: a workload restarted moments ago is not restarted again.
Ask(c) ==
    /\ clicks[c].pc = "none" /\ watches < MaxWatches
    /\ IF stamp > 0 /\ clock < stamp + restartDedupeWindow
       THEN Click(c, "answered", 0, template)
       ELSE Click(c, "patching", clock, 0)
    /\ UNCHANGED <<cluster, Browser>>

\* The patch, whatever the stamp is by now; the same second changes nothing.  The
\* answer may be lost.
Patch(c) ==
    LET again == clicks[c].now = stamp IN
    /\ clicks[c].pc = "patching"
    /\ again \/ template < MaxTemplate
    /\ template' = IF again THEN template ELSE template + 1
    /\ stamp' = clicks[c].now
    /\ \/ Click(c, "answered", 0, template')
       \/ clicks' = [clicks EXCEPT ![c] = NoClick]
    /\ UNCHANGED <<clock, observed, rolled, Browser>>

\* No controller, no such pod, not permitted, not reached.
RestartFails(c) ==
    /\ clicks[c].pc = "patching"
    /\ clicks' = [clicks EXCEPT ![c] = NoClick]
    /\ UNCHANGED <<cluster, Browser>>

-----------------------------------------------------------------------------
(* The watch. *)

Following == watch.phase \in {"progressing", "stuck"}

\* startRestartWatch.
StartRestartWatch(c) ==
    /\ clicks[c].pc = "answered" /\ watches < MaxWatches
    /\ clicks' = [clicks EXCEPT ![c] = NoClick]
    /\ IF Following
       THEN UNCHANGED <<watch, watches>>
       ELSE /\ watches' = watches + 1
            /\ watch' = [id |-> watches + 1, phase |-> "progressing", timer |-> TRUE,
                         fails |-> 0, expired |-> FALSE, since |-> clicks[c].since]
    /\ UNCHANGED <<cluster, polls, orphans, removals, reloads>>

\* schedule, for the watch there is: a timer that was set before goes on without it.
Scheduled(w) ==
    /\ watch' = [w EXCEPT !.timer = TRUE]
    /\ orphans' = IF watch.timer THEN orphans + 1 ELSE orphans

\* A timer ends: poll asks, if there is a watch.
PollAsks(p) ==
    /\ polls[p] = NoPoll
    /\ \/ /\ watch.timer
          /\ watch' = [watch EXCEPT !.timer = FALSE] /\ UNCHANGED orphans
       \/ /\ orphans > 0
          /\ orphans' = orphans - 1 /\ UNCHANGED watch
    /\ polls' = IF watch = NoWatch THEN polls
                ELSE [polls EXCEPT ![p] = [id |-> watch.id, since |-> watch.since,
                                           read |-> "asked"]]
    /\ UNCHANGED <<cluster, clicks, removals, watches, reloads>>

\* Mutant: the controller need not have seen the restart.
DoneUnobserved == rolled = observed

\* RolloutStatus: the controller has seen the template, and every pod runs it.
Done == observed = template /\ rolled = observed

\* The status is read; what is not done makes progress, is stuck for a reason, or
\* has exceeded its deadline or gone.
PollReads(p) ==
    /\ polls[p].read = "asked"
    /\ \E read \in IF Done THEN {"done"} ELSE {"progressing", "stuck", "over"} :
           polls' = [polls EXCEPT ![p].read = read]
    /\ UNCHANGED <<cluster, clicks, watch, orphans, removals, watches, reloads>>

\* finishFail.
FinishFail ==
    watch' = IF watch = NoWatch THEN NoWatch ELSE [watch EXCEPT !.phase = "failed", !.timer = FALSE]

\* Mutant: a failed poll is the last one.
PollFailsForGood(p) ==
    /\ polls[p].read # "none"
    /\ polls' = [polls EXCEPT ![p] = NoPoll]
    /\ watch' = IF watch = NoWatch THEN watch
                ELSE [watch EXCEPT !.fails = IF @ < MAX_FAILS THEN @ + 1 ELSE @]
    /\ UNCHANGED <<cluster, clicks, orphans, removals, watches, reloads>>

\* registerFail counts a failed poll, after so many before it, against whichever
\* watch there is now, and gives up.
RegisterFail(fails) ==
    \/ watch = NoWatch /\ UNCHANGED <<watch, orphans>>
    \/ /\ watch # NoWatch /\ fails + 1 >= MAX_FAILS
       /\ watch' = [watch EXCEPT !.fails = MAX_FAILS, !.phase = "failed", !.timer = FALSE]
       /\ UNCHANGED orphans
    \/ /\ watch # NoWatch /\ fails + 1 < MAX_FAILS
       /\ Scheduled([watch EXCEPT !.fails = fails + 1])

\* The answer is an error or is lost.
PollFails(p) ==
    /\ polls[p].read # "none"
    /\ polls' = [polls EXCEPT ![p] = NoPoll]
    /\ RegisterFail(watch.fails)
    /\ UNCHANGED <<cluster, clicks, removals, watches, reloads>>

\* The answer is good and its body cannot be read: by then the failures before it
\* are forgotten, and neither the status nor the deadline is looked at.
PollUnread(p) ==
    /\ polls[p].read \in {"done", "progressing", "stuck", "over"}
    /\ polls' = [polls EXCEPT ![p] = NoPoll]
    /\ RegisterFail(IF polls[p].id = watch.id THEN 0 ELSE watch.fails)
    /\ UNCHANGED <<cluster, clicks, removals, watches, reloads>>

\* The status arrives, for the watch that asked: it may not be the one there is.
PollReturns(p) ==
    LET poll == polls[p]
        own == poll.id = watch.id
    IN
    /\ poll.read \in {"done", "progressing", "stuck", "over"}
    /\ polls' = [polls EXCEPT ![p] = NoPoll]
    /\ \/ /\ poll.read = "done"
          /\ watch' = IF own THEN [watch EXCEPT !.phase = "done", !.fails = 0] ELSE watch
          /\ removals' = removals + 1
          /\ UNCHANGED orphans
       \/ /\ poll.read # "done" /\ (poll.read = "over" \/ ~own \/ watch.expired)
          /\ FinishFail
          /\ UNCHANGED <<orphans, removals>>
       \/ /\ poll.read \in {"progressing", "stuck"} /\ ~(own /\ watch.expired)
          /\ IF watch = NoWatch
             THEN UNCHANGED <<watch, orphans>>
             ELSE Scheduled(IF own THEN [watch EXCEPT !.phase = poll.read, !.fails = 0]
                            ELSE watch)
          /\ UNCHANGED removals
    /\ UNCHANGED <<cluster, clicks, watches, reloads>>

\* Four seconds after "done" the watch is removed: the one there is.
Remove ==
    /\ removals > 0
    /\ removals' = removals - 1
    /\ watch' = NoWatch
    /\ UNCHANGED <<cluster, clicks, polls, orphans, watches, reloads>>

\* "Stop watching" and "Dismiss".
Dismiss ==
    /\ watch.phase \in {"stuck", "failed"}
    /\ watch' = NoWatch
    /\ UNCHANGED <<cluster, clicks, polls, orphans, removals, watches, reloads>>

\* The quarter of an hour passes.
ExpireWatch ==
    /\ Following /\ ~watch.expired
    /\ watch' = [watch EXCEPT !.expired = TRUE]
    /\ UNCHANGED <<cluster, clicks, polls, orphans, removals, watches, reloads>>

\* The page is loaded again: what was being followed is followed anew.
ReloadPage ==
    /\ reloads < MaxReloads
    /\ reloads' = reloads + 1
    /\ watch' = IF Following
                THEN [watch EXCEPT !.phase = "progressing", !.timer = TRUE, !.fails = 0]
                ELSE NoWatch
    /\ polls' = [p \in Polls |-> NoPoll]
    /\ clicks' = [c \in Clicks |-> NoClick]
    /\ orphans' = 0 /\ removals' = 0
    /\ UNCHANGED <<cluster, watches>>

RestartNext ==
    \/ Second \/ Observe \/ Roll
    \/ \E c \in Clicks :
           Ask(c) \/ Patch(c) \/ RestartFails(c) \/ StartRestartWatch(c)
    \/ \E p \in Polls :
           \/ PollAsks(p) \/ PollReads(p)
           \/ PollFails(p) \/ PollUnread(p) \/ PollReturns(p)
    \/ Remove \/ Dismiss \/ ExpireWatch \/ ReloadPage

\* Timers end, calls are answered or fail, and time passes.  The cluster owes
\* nothing.
RestartFairness ==
    /\ \A p \in Polls :
           /\ WF_restartVars(PollAsks(p))
           /\ WF_restartVars(PollReads(p) \/ PollFails(p) \/ PollUnread(p) \/ PollReturns(p))
    /\ WF_restartVars(ExpireWatch)

RestartSpec == RestartInit /\ [][RestartNext]_restartVars /\ RestartFairness

-----------------------------------------------------------------------------

\* "Restarted successfully" is true: the pods run the template the restart made, or
\* a later one, even right after the patch when the numbers are still those of the
\* rollout before, and whoever else restarts it (rollout.go:51-96,
\* restartWatcher.ts:134-148).
DoneMeansRolledOut ==
    /\ watch.phase = "done" => rolled >= watch.since
    /\ \A p \in Polls : polls[p].read = "done" => rolled >= polls[p].since

\* "~1 minute of consecutive errors before giving up" (restartWatcher.ts:33) and the
\* quarter of an hour (:34): a restart shown as under way is done, fails, is given up
\* or taken away, whatever the cluster answers and fails to answer.
EveryWatchEnds == Following ~> ~Following

\* So it is, with however many polls of it and of watches before it under way, unless
\* after its quarter of an hour it gets answers whose bodies cannot be read again and
\* again, each of which forgets the failures before it (restartWatcher.ts:116-179).
WatchEnds ==
    \/ []<><<watch.expired /\ \E p \in Polls : PollUnread(p)>>_restartVars
    \/ EveryWatchEnds

\* What pods.go:422-424 says: double-clicking results in a single rollout rather than
\* several.  Two clicks that both read the stamp before either has patched make two.
DoubleClickRollsOnce ==
    [][template' > template => stamp = 0 \/ stamp' >= stamp + restartDedupeWindow]_restartVars

\* What restartWatcher.ts:3-7 says: it follows a restart and reports the outcome.  The
\* removal of a finished watch takes the one that has taken its place.
OutcomeIsReported == [][Remove => ~Following]_restartVars
=============================================================================
