# Formal models of DevOps Tools

TLA+ models of the parts of this repository whose behaviour depends on the
order in which things happen, or on decisions that several places have to make
alike; TLC runs that check them on small instances, and TLAPS proofs of what
matters most for instances of any size. Paths below are relative to the
repository.

## The system

DevOps Tools is a portal over one Kubernetes cluster. A Go server
(`cmd/server`, `internal/*`), run in several replicas, serves a React interface
(`web/src`). It signs people in, decides what each may do by the roles they
hold, carries that out against Kubernetes, GitLab and Consul, and writes an
audit trail to its log, which it reads back through Loki or the pods' logs.

| Part | State it keeps | Operations | Talks to | What is hard | What makes it correct |
|---|---|---|---|---|---|
| Access store `internal/store` | users, roles, lockouts in memory and, as one document, in one Secret or file; the version the copy was read at | one method per change, each run by `mutate` under a lock; `Follow`; `RecordSeen`, `FlushSeen` | the API server; every other replica through the Secret | replicas change one document at once; saves conflict, fail or are not acknowledged; the watch is late or dropped; processes end anywhere | no change undoes another; what was acknowledged stays; replicas end with the same model; seeding never undoes an edit; a seen time never goes back |
| Store backends `backend.go`, `secret.go` | the document | `Load`, `Save`, `Watch`, `MigrateFile` | file system, API server | a save is several file operations; the file is edited by hand; replicas move it at the same time | every change kept is in the file, and afterwards in the Secret |
| Authorizer `internal/rbac`, `internal/config/rbac.go` | the roles, behind an atomic pointer | `Replace`, `Allowed` and its variants | the store's roles, installed by the handlers and by `Follow` | the copy and the installation are two steps of several goroutines; each question is asked in several forms | what it answers from is what the store holds; lists, menus and gates agree |
| Access API `internal/api` | none of its own | one handler per change | store, authorizer, audit log | installation after the change | an answer of success means the change is in force |
| Sign-in `internal/auth` | failures per name; sessions and tickets, signed and kept by the browser | `Login`, the throttle, `Middleware`, `IssueTicket` | store (lockouts, registration), LDAP, OIDC | attempts in flight together; lockouts shared between replicas; tokens that outlive a decision | guesses are bounded; nobody is locked out for good; a role taken away is refused |
| Configuration file `internal/config` | none | overrides, defaults, `Validate` | the environment | many combinations of providers, accounts and features | what is accepted starts, lets its administrators in, and offers what works |
| Configuration sources `internal/configsource`, `internal/api/configs.go` | a listing cache per source | list, read, save in git, in Consul or in both | GitLab, Consul | a listing that overtakes a save; two sides written one after the other; lost answers | a saved file is listed; the sides differ only for a known reason; every write is on record |
| Configuration editor `web/src/pages/Configurations.tsx` | in the browser: the open entry, the text, what was read lately, reads and a save under way | point at, open, type, save, look again on focus, show current | the configuration sources through the API | a text and the version it is saved with come from answers that arrive in any order | nobody's commit is replaced unseen; no spinner without a request |
| Image rebuild `internal/api/rebuild.go`, `internal/gitlab`, `web/src/rebuildWatcher.ts` | the browser's watch of a pipeline, kept over a page reload | start, poll, release, restart | GitLab pipelines, Kubernetes | polls in flight while the watch is stopped or replaced; requests carried out and not answered; reloads | one release and one restart per rebuild; the watch ends |
| Kubernetes operations `internal/kube`, `web/src/restartWatcher.ts` | the browser's watch of a restart | restart and its status, merged logs; listing, secret edit, Helm | API server | check-then-act against an object others write; polls of one watch that reach another | "done" means rolled out; the watch ends |
| Audit log `internal/auditlog` | none | paged read, walking back in time | Loki or pod logs | windows, limits and a cursor; who may see which line | a person sees their part of the trail, each entry on one page |
| Log queries `internal/api/logs.go`, `internal/kube/logs_multi.go` | none | select, merge | Loki, pods | several pods and services at once | no line is lost or out of its pod's order |
| Startup `cmd/server/main.go` | - | opens, moves and seeds the store, then serves and follows | all | a crash between any two steps | see the store |
| Web pages, chart | - | presentation | - | - | not modelled |

`PROJECT.json` lists under `hazards` each point of this code that is hard to
test, at its line, with the properties about it.

## Modules

| Module | Models | Code |
|---|---|---|
| `AccessModel` | the document and every change to it, as pure operators, and what the documentation promises of changes and pairs of changes | `store.go`, `users.go`, `roles.go` |
| `SharedModel` | the abstract store: one model, changes applied one after the other | the contract in `backend.go` |
| `AccessStore` | every replica's store over the one Secret | `store.go`, `secret.go`, `main.go` |
| `FileStore` | the store in a file, edited by hand, and its move into a Secret | `backend.go` |
| `LastSeen` | the batched last-seen times | `store.go`, `main.go` |
| `AuthorizerSync` | how the roles in a replica's store reach its authorizer, over `AccessStore` | `internal/api/access.go`, `storage.go`, `rbac.go`, `main.go` |
| `Sessions` | what a request is taken for and may do: keys, tokens, tickets, registration | `auth.go`, `session.go`, `ticket.go` |
| `SignIn` | signing in with a password and the shared throttle | `auth.go`, `limiter.go`, `users.go` |
| `Rbac` | what a set of roles allows, the gate of every endpoint, lists and menus | `rbac.go`, `config/rbac.go`, `internal/api/{server,auth,access,audit,configs}.go` |
| `ConfigFile` | the configuration: overrides, validation, what a service started with it does | `config.go`, `auth.go`, `local.go`, `main.go` |
| `Decisions` | what `Rbac`, `ConfigFile`, `AuditPaging`, `ImageTag` and `LogLines` decide, asked question by question | the same |
| `AuditPaging` | one page of the audit trail, and page after page | `auditlog.go`, `podsource.go`, `api/audit.go` |
| `ImageTag` | which project, environment and pipeline an image names | `gitlab/image.go` |
| `LogLines` | logs of several pods, merged or selected in Loki | `logs_multi.go`, `api/logs.go` |
| `ConfigCache` | the cached listing | `configsource/cache.go` |
| `ConfigPair` | one file in a repository, in Consul or in both | `pair.go`, `git.go`, `consul.go`, `gitlab/client.go`, `api/configs.go` |
| `ConfigEditor` | the configuration editor over one source | `Configurations.tsx`, `api/configs.go`, `git.go` |
| `RebuildWatcher` | the browser's watch of an image rebuild, the endpoints it calls and GitLab | `rebuildWatcher.ts`, `api/rebuild.go`, `gitlab/pipelines.go` |
| `Restart` | rolling restarts, their status and the browser's watch | `kube/pods.go`, `rollout.go`, `restartWatcher.ts` |
| `MC...` | instances for TLC | |
| `AccessModelProofs` | theorems about the changes, as operators | |
| `AccessStoreProofs` | theorems about the replicated store | |
| `SharedModelProofs` | about what stands on one shared model: `SharedModel`, `Sessions`, `FileStore` | |
| `SignInProofs` | about `SignIn` and `LastSeen` | |
| `ConfigSourcesProofs` | about `ConfigPair` and `ConfigCache` | |
| `RebuildWatcherProofs`, `BrowserProofs` | about the page's state machines: the watch of a rebuild; the editor and the watch of a restart | |
| `DecisionsProofs` | about `Decisions` | |

`MCAccessModel` and `MCSignIn` hold modules that share no state (`AccessModel`,
`Sessions` and `FileStore`; `SignIn` and `LastSeen`): a behaviour is one of one
of them, chosen by `part`, and the others rest. `Decisions` is for modules without
a state of their own: its one step asks a question, and the invariants say what
the answers to it must be. `MCDecisions` has the questions, and adds what two
comments say of the audit trail that it does not keep; `Decisions` has six more
such statements of other comments, and `MCSignIn` one. An operator after "Mutant:" is a mistake in
the operator it precedes, under which a property of a run must fail; nothing
uses it.

### AccessModel

A model is a record of three functions: `users` (identity, roles, password, and
whether the person was ever seen), `roles` (what each role grants) and
`lockouts`. Each method of the store that calls `mutate` is one operator with
the method's name; its result says whether the change is to be written, changes
nothing (`errNoChange`) or is refused. `Outcome(e, m)` is change `e` on model
`m`. A name is already folded (`key`); what a role grants, a password and an
identity are opaque. Of the time somebody was last seen only "never" or "some
time" is kept, because that is what tells an invitation from a person;
`LastSeen` has the times.

### AccessStore

`revs` is the Secret: the sequence of all its revisions, so a revision is its
place in the sequence, and `Gone` is the revision that deletes it. Each replica
has the copy and version of `store.Store`, the change its lock's holder makes
(`change`, `attempt`) and the next revision its watch delivers. `pc` says where
the holder is:

- `idle`: nobody holds the lock. `Begin` runs the change on the copy, the first
  `change()` of `mutate`.
- `saving`: the copy is changed and the save is under way. It is accepted, it
  conflicts, it fails, or it is carried out and its answer is lost.
- `conflict`: `reload`, then the change again on what was read.
- `down`, `creating`, `starting`: `OpenWith` and `SeedRoles` at startup.

`Deliver` is the watch's callback; it needs the lock, so it is enabled at
`idle`. `Crash` is possible in every state. A document carries, as a history
variable, the numbers of the changes that went into it: that is what the
properties compare.

Two simplifications. Each write makes a new revision, while Kubernetes keeps
the revision of an object written byte for byte as it was; every change that
gets as far as a save differs at least in a time or in an assignment, and one
that does not would only be delivered to nobody. And `Create` failing for
another reason than a conflict ends the process, which `Crash` covers.

### SharedModel

One variable: the stored model. It is created empty, deleted by an operator, or
becomes the model with a batch of changes applied in some order. The module
also states the laws at the end of `AccessModel` for the model it has: `DeletionsRevoke`
(somebody deleted who signs in again is recorded as somebody who was never there; a
deleted role takes its own grants and no others), `RetriesAreHarmless`, and two that do
not hold, `DeletedReturnWithoutRoles` and `OppositesUndo`. A batch is more than one change because the code keeps the change of a failed save in
memory and stores it with the next one. `AccessStore` ends with the instance
`Shared`: the stored model, or none, is `SharedModel`'s variable, and
`ImplementsSharedModel` says that every step of the replicas is one of its
steps or leaves it alone.

### FileStore and LastSeen

`FileStore` has the one process that keeps the file (`keeper`, whose `pc` goes
through the steps of `Load` and `Save`: read, stat, compare, write the temporary
file, rename, stat), somebody with an editor (`HandEdit`), and the replicas that
find a file and a Secret, or not, when they start (`movers`). A document is the
set of changes in it, and a version the number of the write. What the code
does not promise is named: `crossed` are hand edits between two steps of the
process, which it cannot see, and `late` the changes made in the file after
somebody read it to move it.

`LastSeen` numbers one person's sightings. `FlushWrites` and `FlushMarks` are
the two halves of `FlushSeen`; between them the lock is free. `excused` says why
a sighting may stay unwritten although nothing is marked dirty: it came between
the halves, or its own write was refused.

### AuthorizerSync

Extends `AccessStore` with what the authorizer of each replica answers from
(`installed`) and with the goroutines that have something to install: the
request handlers that changed a role, and the watch (`installing`). Each goes
from due to holding the roles (`Reads`, `AccessModel()` under the store's lock)
to done (`Installs`, `Replace`). Each action of `AccessStore` is taken together
with what its caller does next: `Succeeds` and `Fails` are the ends of a
handler, `Starts` is `rbac.New`, and `Following` is the watch's callback, which
calls `onChange` only when the copy was replaced.

What one would like to hold, `RolesTakeEffect`, does not, for two reasons that
the findings describe. `crossed` is a history variable that says when one of
them, or a failed save, has happened since the last installation that had the
replica to itself; `InForceUnlessCrossed` is what is true apart from them, and
it says that there is no third reason.

### Sessions and SignIn

`Sessions` is one person and one browser, under every combination of provider,
break-glass account, signing key and granted roles. A token is who signed it,
with which key, and the roles written in it. The middleware takes the roles
from the replica's copy of the store, not from the token, and registers only
those it does not know. `ungiven` is a history variable: the roles nobody has
given this person, or not since they were taken away.

`SignIn` is one account with several attempts in flight at several replicas, and the
spellings of its name. The account and its lockout are found by the folded name; each
replica counts failures by the name as it was typed, so there is a counter for each
replica and spelling (`Counters`), and an attempt is for one of them. `pc` of an attempt is where `Login` is: being verified; failed and
about to share the lockout; right and about to clear it; registering. Time is
what is left of each window. A change of the store is one step in both modules,
written or left in the replica's copy; `AccessStore` has its parts.

### The decisions

`Rbac` reads grants as `rbac.go` does, and has the table of endpoints of
`Router` with the gate of each and the feature it needs; a feature is looked for in
front of the gate, or by the handler behind it if it is a client of Prometheus or Loki
(`Clients`). Menus, lists and suggestions are beside it, asked with several sets of
features (`Deployments`).
`ConfigFile` follows a file and an environment through `Load` to a service
that starts or does not, and from there to who can sign in and which endpoints
are served. `AuditPaging` walks back window by window (`Windows` goes on from each
to the next) and gives the next page's cursor; `Pages` follows the cursor while the
clock goes on. `Decisions` says how these answers must go together, of any roles,
settings and variables (`Files`, `Variables`) and of any log (`Lines`, `Filters`).
`ImageTag` takes a reference apart token by token: of a tag it needs the parts before
the first dash and after the last one, which is all `ParseImage` reads of what
`strings.Split` returns. The name of an environment is itself a sequence of tokens and
may hold dashes, as the configuration allows. `LogLines` selects and merges. A pod's
stream may break, after some whole lines and in a part of another, which then has its
time or, torn before that is complete, none (`LastLines`, `Remains`). In Loki one name
is compared and several are joined to a pattern, unquoted; which name fits which other
as a pattern is an input (`alike`). A stable sort puts a line
behind those that precede it, by time, by the pod's turn and by its place in the pod's
log, so a line's rank (`Rank`) is their number and one.

### ConfigCache and ConfigPair

`ConfigCache`: the tree is the number of changes it has seen, a listing the
number it shows. A caller holds the cache's lock exactly while it lists in the
foreground. `overtaken` says that the stored listing was read in the background
before a save was answered and kept after it. A listing of several GitLab pages
is one read.

`ConfigPair`: a text is the set of edits it contains and whether it ends in a
newline; saving adds one edit to the text its editor opened. A save in a pair is
a commit, then a write of Consul, then an audit entry and the answer, each a
step of its own at which an answer can be lost or the process end. Whichever side an
editor looks at, an ordinary save is such a commit, with the version of what was opened;
Consul's index is none of the repository's versions (`UpToDate`), so from Consul's side
it is refused. Writing Consul alone is offered on the repository's side. Beside the
editors a synchroniser carries the repository's text across, and people commit
or write Consul elsewhere. `behind` collects why Consul may differ: the person
was told so, an answer or a process was lost, somebody wrote one side, or an
older text was written after a newer one.

### RebuildWatcher and Restart

`RebuildWatcher` is one pod's watch. `page` is the entry of `watchers` with its timers, `watches`
the `Watcher` objects (a callback may hold one that is no longer on record),
`calls` the requests under way, `stored` the entry in `localStorage`, `jobs`
what GitLab runs. The page has one thread, so an action is what happens from
one `await` to the next: a timer going off (`Fire`), or an answer being dealt
with (`Sees...`, one per branch of `poll`, `releaseDeploy` and
`restartAfterBuild`). Requests are served and answered at separate moments, and
fail before or after they are served; an answer may also arrive with a body that cannot
be read, by when the failures before it are forgotten. `Reload` forgets timers and requests; one
that the server still serves is served before it, so a request can be made again after a
reload: `OneReleaseEach` and `OneRestart` speak of requests at one time.

A rebuild can be started beside one that is watched: the buttons are on two
pages and are drawn from what was watched at the time, and the pipeline button
is there also beside a watch. `clearRebuildWatch` has no caller and is left out.

`Restart` is one workload: clicks that read the stamp and then patch it, the
controller that observes templates and rolls them out, and the browser's watch
with polls, timers and removals. A poll carries the watch it was made for, but,
as in the code, is applied to the watch on record. `PollUnread` is the answer whose body
cannot be read: it forgets the failures counted before it. Until a rollout is complete
its status may say anything.

### ConfigEditor

`page` is what the component shows (the open file, the text, `wanted`, the
indicators), `cache` what was read within `CACHE_MS`, `reads` the map
`inFlight` with the callbacks that wait for each read, `put` the save under
way, `repo` the revisions of each entry. As in the watcher an action is what
happens from one `await` to the next: the person (`Hover`, `Open`, `Type`,
`Focus`, `Save`, `Reload`), an answer (`ReadAnswered`, which runs the callbacks
of everybody who waits for that read in the order in which they came; `Saved`,
`NotSaved`), time (`Expire`), the server and the repository. A callback keeps
what its closure captured: the cached copy it was opened over, or what was on
screen when the window came to the front.

A text is known by who wrote it: the n-th thing typed, or revision n as
committed by somebody else. The text in the editor carries the revision it was
made from, which the code does not: a save sends `file.version`, and the
properties compare the two. `kept` is a history variable: an answer has
replaced the file under a text that was typed. Two sides of one entry
(switching, comparing, writing Consul only) are left out, and the listing.

## Runs

| Run | Question | Bounds | Shows |
|---|---|---|---|
| `access_model` | do the changes keep what the comments promise, are revoked roles refused, and is the file safe? | 2 people, 2 roles, every call, all models they reach; or 2 replicas, 1 person, 1 restart; or the file with 2 movers and 3 changes | a deletion takes all it should and nothing else, and a retry changes nothing; `RevokedIsRefused`; `FileKeepsChanges`, `MoveCarriesTheFile` |
| `access_store` | are changes lost, is one model kept, does seeding undo an edit? | 2 replicas, 3 role changes whose order shows, 3 starts, a failure and a deletion | types, `NoLostUpdate`, `AckedDurable`, `CopyIsItsVersion`, `SeedsOnlyAnEmptyModel`, and that `AccessStore` implements `SharedModel` |
| `access_store_live` | do replicas end with the same model? | 2 changes, 3 starts, a failed or unacknowledged save, a drop and a deletion | they do, but for changes of their own whose saves failed, and each change lets go of the lock |
| `authorizer_sync` | does the authorizer answer from the store's roles? | 2 replicas with 2 handlers each, a sign-in and a deleted role, a drop and a deletion, 2 starts | once all is quiet it does, unless installations crossed or a change met a conflict |
| `authorizer_sync_adopted` | and when a conflict brings in a role change? | 2 replicas | the authorizer is never told: the finding |
| `decisions` | do the places that decide the same thing agree? | 169 000 questions: 2 roles with up to 2 grants, deployments with and without each feature, paths of up to 5 tokens, files and environments, 1 or 2 audit lines over 6 pages, tags, environments with and without a dash, logs of 2 pods that may break off | lists, menus and gates agree; path grants cover subtrees; offered operations open; administrators get in; the trail shows a person's part; images are ours or refused; logs keep what came of them |
| `config_cache` | is a saved file listed? | 2 callers, 3 changes | at once unless a refresh was overtaken, and in the end always |
| `config_pair` | is an edit lost, do the sides differ unnoticed? | 2 editors on either side, 3 edits, 2 copies | never without one of the named reasons; every write is on record; verdicts are true |
| `config_editor` | are commits overwritten, indicators left on? | 2 entries, 1 edit, 2 saves, 1 commit by others, 1 error, 2 callbacks to a read | never, unless an answer changed the file under a text |
| `sign_in` | how many guesses, for how long is one locked out, are last-seen times kept? | 2 replicas, 2 people, 2 spellings, limit 2, window 2; 4 sightings | per spelling, one guess more than the limit per other attempt let in; again and again the name is open; times are stored and never go back |
| `rebuild_watcher` | is a watch followed to its end, its button pressed once, its workload restarted once? | 2 rebuilds, 2 troubles (a reload, an error or an unreadable answer each), a gate | a watch shown as running is always followed, whatever crosses, and a build's ends; one rebuild by itself presses and restarts in one request |
| `restart` | does "done" mean rolled out, does the watch end? | 2 clicks, 2 polls, 2 watches, 3 templates, 1 reload, 2 failures allowed | it does; it does, unless unreadable answers keep coming |

Why the bounds are enough. Two replicas are the least that conflict, and a third
adds no kind of step: a replica meets the others only through the stored
document. Two polls are a watch's own and a stray one; two editors one that
saves and one that is overtaken; two callers one that lists and one that saves,
with the background refresh as a third. `MaxAttempts` (5 in the code),
`MaxFails` (12), `MAX_FAILS`, `maxFailedAttempts` and the windows are small so
that both the case that goes on and the last one happen. The audit windows are
three moments long, with a horizon of three windows and a clock that moves
between pages, so that a window is empty, full, cut by the horizon and crossed
by it. `authorizer_sync` has no failed saves: each makes `crossed` true at
once. In `SignIn` one person types the name in one way at either replica and the other in
both ways at one replica (`Tries`), so counters are shared and are not. In
`RebuildWatcher` errors are among the bounded troubles; what they do without a bound is
seen in `Restart`, whose loop treats them alike. In `ConfigEditor` one edit is enough for a text that is saved, saved again
and overtaken. Symmetry is used for replicas, handlers, movers and editors where
nothing tells them apart and no liveness is checked.

Deadlock is not checked where a system that nobody asks for anything rests, or
where the bounds are used up; it is checked where the configuration does not
say otherwise.

What the properties excuse is named in each: `SavesAppearUnlessOvertaken` a background
listing that a save overtook (`ListingCatchesUp` says that it passes);
`InEffectUnlessBehind` the reasons in `behind`; `InForceUnlessCrossed` installations
that cross, failed saves and conflicts; `OverwrittenOnlyIfKept` a file changed under a
text; `AuditPagesMeet` what is past a limit, below a cursor's millisecond or recorded
under a dash; `Converges` changes whose saves failed; `CleanMeansStored` sightings
across the mark; `WatchEnds` answers that cannot be read, again and again. What is let
pass so is in the code, and most of it has a configuration that shows it, listed under
"Where the code and its comments differ".

Type invariants stand in every module with state. `TypeOK` of `AccessStore` is
checked and proved; of the others the runs check what is harder to see.

Each property of a passing run has one or more mutants of the modelled code
under which the run fails. `PathGrantsFit`, `AdministratorsGetIn`,
`AuditShowsItsScope` and `LogsKeepTheirLines` are each the conjunction of two
or three laws that are stated by themselves.

## Fairness

- `AccessStore`: the goroutine that holds the lock, a started process and the
  watch's goroutine get on, because nothing in the code makes them wait for
  anything but the API server, which in that run answers. Nothing is assumed of
  callers, of crashes, of restarts or of failures.
- `RebuildWatcher`: armed timers go off, requests are answered or fail, and what
  GitLab runs ends or reaches its gate; nobody is obliged to press a button.
- `Restart`: timers go off, requests are answered, readably or not, or fail, time passes
  until the watch has expired. Nobody promises readable answers: `WatchEnds` supposes
  that unreadable ones to a watch past its deadline end. Nothing is assumed of the cluster.
- `ConfigCache`: goroutines run, the lock is handed round, calls end at the
  client's timeout, and a source that is asked again and again answers in the
  end; a listing grows old. Nobody has to open the page: `ListingCatchesUp`
  supposes that somebody keeps doing so.
- `SignIn`: time passes; nothing else.

## Proofs

`AccessModelProofs` is about the changes as operators, on any model whatever:

- `OutcomeIsModel`: every change turns a model into a model.
- `DeletionsTakeEverything`: `DeletionRevokes(m)`, of people and of roles.
- `RetriesChangeNothing`: `RetryIsHarmless(m, Edits)`.

All three go by the kind of the change. For the last, what a change writes has to
be found again as it was written (`PutAndFound`), so that the second time it is
`errNoChange` or writes the same record.

`AccessStoreProofs`, for any number of replicas, people, roles, calls and
failures:

- `TypeCorrect`: `Spec => []TypeOK`.
- `NoUpdateIsLost`: `Spec => []NoLostUpdate`.
- `AcknowledgedStays`: `Spec => []AckedDurable`.
- `VersionsAreHonest`: `Spec => []CopyIsItsVersion`.
- `SeedingSparesRoles`: `Spec => []SeedsOnlyAnEmptyModel`.
- `ReplicasKeepOneModel`: `Spec => ImplementsSharedModel`.
- `AuthorizersAgree`: `SyncSpec => []InForceUnlessCrossed`, of `AuthorizerSync`.

`NoUpdateIsLost` and `AcknowledgedStays` come from `IInv`. Neither is inductive
alone: that a save extends the revision it replaces depends on what a copy holds
at the time. `IInv` adds two facts: `CopiesCover`, a copy holds every change of
the revision it names, so an accepted save, which names the latest one, loses
none; and `SavingHolds`, while a change is being saved its number is in the
copy, so acknowledging it acknowledges something stored. `Invariance` has a step
per action; the actions that leave the Secret alone share `StoreUntouched`,
those that save share `SaveKeeps`.

The other three are about what the documents say, not only which changes are in
them, and come from `HistoryInv`. It says that a copy is its version's model
with a batch of whole changes made to it (`Leads`), one at most for each change
begun; that a replica which is seeding works on a model without roles; and that
a change in progress is in its own replica's copy and nowhere else
(`PendingIsNew`), which holds because every change has a number of its own
(`NumbersAreSpent`). So a copy with just its version's changes is at rest on
it, a new revision with the changes of the last one can only be a seeding, and
an accepted save is one publication of `SharedModel`: its batch leads from the
revision the save names, which is the latest, to the copy. `HistoryStep` is what
a step of one replica leaves of this for the others; `HowRevisionsGrow` lists
the three ways in which the Secret moves. That the models a batch leads through
are those of `SharedModel`'s recursive function `Through` is the one induction
over data in these proofs (`OneWayThrough`); it takes the least place at which
two such sequences differ (`Least`).

`AuthorizersAgree` comes from `SyncInv`, which says of each replica that nothing
is to be installed before its startup is over, that a conflict's reload is
followed by a further attempt, and `Along`: while nothing has crossed, at most
one installation is under way, and while the copy has the roles it had when its
lock was taken (`RolesAsTheyWere`), either the authorizer has them too or the
installation is for them, read or still to be read. Which steps move a copy's
roles is the rest of the argument: only a change of a kind that ends in an
installation (`Replacing`) and what comes from elsewhere, the watch or a
conflict's reload (`RolesStay`). It builds on `TypeInvariance`, as
`SyncSpec => Spec` (`SyncImplements`).

Assumed are the modules' named ASSUMEs: that markers (`Gone`, `Nobody`,
`NoUser`, ...) are no values, that callers ask for changes other than the
seeding, that bounds are natural numbers and that at least one attempt is made.

`SharedModelProofs`, for any number of publications, replicas, changes and movers:

- `DeletedForGood`, `RetriedForNothing`: `Spec => []DeletionsRevoke` and
  `Spec => []RetriesAreHarmless`, with `Spec` that of `SharedModel`.
- `TakenAwayIsRefused`: `SessionSpec => []RevokedIsRefused`.
- `FileKeepsItsChanges`: `FileSpec => []FileKeepsChanges`.
- `NothingLeftBehind`: `FileSpec => []MoveCarriesTheFile`.

The laws hold of whatever the shared store becomes, because it never keeps
anything but a model: `ThroughModels` carries `OutcomeIsModel` through a batch,
again by the least place at which it would fail. With `ReplicasKeepOneModel` they
hold of what any number of replicas store.

`RevokedIsRefused` speaks of one request; what makes it so is in the copies. No
copy that is up to date has a role for the person that nobody has given since it
was taken away, and neither has the stored model, from which copies are made
(`NothingUngiven`). `ChangedRoles` shows of each change that the person has after
it only what they had, what it gives them, or what its token carries. The last is
why it matters who signs tokens: under `oidc` the portal signs none but the
break-glass account's (`TokensByOthers`), which the property leaves out.

A rename puts the process's copy in the place of the file. So `FileInv` says
that, as long as the process may yet rename its copy, that copy has all that was
kept (`CopyIsUpToDate`): while it reads and writes, and while the version it
knows is the file's, which is then not an old one, as versions only grow
(`VersionsGrow`). `Carried` says the same of a replica that has read the file to
move it, apart from what came late.

`SignInProofs`, for any number of replicas, people and spellings, any limit and window:

- `GuessingIsBounded`: `SignInSpec => []GuessesAreBounded`.

That the count stays below its bound is not inductive: an attempt that was let
in adds to it when it fails, however high it is by then. Counted together with
the attempts a counter let in that are still being verified it is
(`FailuresToCome`): letting one in needs a count below the limit, and at that
moment the others are at most everybody else. It is the count of one spelling at one
replica: of an account there are as many as it has spellings. Assumed are at least one
replica and one spelling.

and, for any number of replicas and sightings:

- `BatchesAreWritten`: `SeenSpec => []CleanMeansStored`.
- `NeverBack`: `SeenSpec => SeenNeverGoesBack`.

A replica that takes its copy for the stored one writes it as it is, and a
batch is marked clean by what was written, not by what is stored. So `SeenInv`
adds to `CleanMeansStored` that such a copy has no older time than what is
stored (`CurrentIsNoOlder`), that what a flush wrote is stored still or has been
replaced by something later (`FlushIsStored`), and that a new sighting is later
than all others (`NothingFromTheFuture`). Assumed: finitely many replicas, at
least one sighting.

The cached listing, for any number of callers and changes:

- `AnsweredSavesAppear`: `CacheSpec => []SavesAppearUnlessOvertaken`.

The stored listing does not itself show why a foreground listing is no older
than the last answered save: it is read and kept under the lock that a save
needs before it is answered. `CacheInv` adds that (`ListedIsCurrent`), and that
no save is answered that the source has not seen (`NothingBeyondTheTree`).
Assumed: some callers, finitely many, and a natural bound on changes.

`ConfigSourcesProofs`, for any number of editors, edits and writes elsewhere:

- `NoEditIsOverwritten`: `PairSpec => []EveryCommitAddsItsEdit`.
- `DifferencesAreExplained`: `PairSpec => []InEffectUnlessBehind`.
- `EveryWriteIsOnRecord`: `PairSpec => []WritesAreOnRecord`.
- `ShownVerdictsAreTrue`: `PairSpec => []VerdictsAreTrue`.

They share `PairInv`, because what a request opened, carries or has read goes
into a file later. It follows each request through its stages (`RequestOK`): its
texts have only edits that are on record, explained or carried by a request
(`Known`); what it read of the repository at the version the repository still
has is what is there (`ReadOK`); the edit it sends is not in the text it was
made to, so a commit that is sent again after its answer was lost meets another
version; and between a commit and the write of Consul the request itself is the
reason why the two differ.

`RebuildWatcherProofs`, for any number of requests at once, starts, lost answers,
gates and reloads:

- `SomebodyFollows`: `Spec => []NobodyForgotten`.
- `GateReleasedOnce`: `Spec => []OneReleaseEach`.
- `RestartedOnce`: `Spec => []OneRestart`.

`NobodyForgotten` is inductive beside the types: who ends a wait either shows an
outcome or begins the next one. The other two are not. They speak of behaviours
with one start, and what makes them true there is that the watch moves on by one
thing at a time, a timer, a poll or a restart, all for the object on record, and
by one release beside it (`Alone`). Two facts about kinds belong to it: only
pipelines are seen at a gate (`GatesAreSeen`) and only builds are restarted
after, so that an answer to a release never meets a restart. `OneWatch` says
`Alone` as long as there was no second start, which is inductive, as starts are
only counted up. Finite sets are needed to get from "any two are the same" to a
cardinality of one (`AtMostOne`).

`BrowserProofs`, of the editor, for any number of entries, waits, edits, saves, commits by
others and errors:

- `UnseenIsNotReplaced`: `Spec => []OverwrittenOnlyIfKept`.
- `IndicatorsEnd`: `Spec => []NobodyWaitsForNothing`.

`Together` is the strengthening: until an answer has replaced the file under a
text, the text in the editor is made from the version of the file beside it, and
so is the one in the save under way. Then a save that the server accepts names
the latest version and was made from it. An answer runs a sequence of callbacks,
and each may change the page the next one sees; `CarriedThrough` is the induction
over them. It takes the property as a family of sets, one for each place in the
sequence, because the library's induction takes an operator.

`BrowserProofs`, of the watch of a restart, for any number of clicks, polls, watches,
reloads and restarts by others:

- `DoneIsRolledOut`: `RestartSpec => []DoneMeansRolledOut`.

A poll is applied to the watch that is on record under its id. So `FollowedInv`
adds that polls and a watch of one id are of one restart (`OneRestartPerWatch`),
and that what is followed was patched before (`NothingFromTheFuture`): then a
rollout that is complete when a poll is answered is of the restart it is
reported for, or of a later one.

`DecisionsProofs`, for any roles, namespaces, paths, images, settings,
variables and logs:

- `ListsAndChecksAgree`: `Spec => []ListsAgreeWithChecks`.
- `MenuAndEndpointsAgree`: `Spec => []MenuMatchesEndpoints`.
- `GrantsFitTheirPaths`: `Spec => []PathGrantsFit`.
- `ImagesNameTheirPipelines`: `Spec => []ParsedImagesAreOurs`.
- `LogsAreKept`: `Spec => []LogsKeepTheirLines`.
- `OfferedAndServedAgree`: `Spec => []OfferedOperationsOpenEndpoints`.
- `AcceptedMeansAdministrable`: `Spec => []AdministratorsGetIn`.
- `TrailsStayInScope`: `Spec => []AuditStaysInScope`.
- `TrailsShowNothingTwice`: `Spec => []NothingTwice`.
- `TrailsShowTheirScope`: `Spec => []AuditShowsItsScope`, these two and that nothing is
  missing (`AuditPagesMeet`).

There is no state to keep an invariant of. `ListsAgreeWithChecks`, `MenuMatchesEndpoints`
and `OfferedOperationsOpenEndpoints` hold of whatever is asked: each gate is reduced to
the feature and the one answer of the authorizer it waits for (`GateOpens`), and each operation given an endpoint (`SomeEndpoints`).
`AdministratorsGetIn` needs the settings' types (`QuestionsInv`, from the module's
assumption about what is asked), to follow the break-glass account through overrides,
password and defaults (`SettledAccounts`): what `BootstrapOK` then accepts signs in and
has its roles.

Paths are sequences of tokens of any length (`PathsInv`). `configPathCovers` compares
strings: equal, or one begins with the other and a slash. That this is a comparison
segment by segment (`CoversBySegment`) needs no induction: a position that holds no
slash lies in a segment, which begins after the greatest slash before it and ends
before the least one after it (`SegmentAround`), so where all segments of a folder are
segments of a path, no position tells the two apart. The same positions show that
`cleanConfigPath`, which looks for empty segments, `.` and `..`, lets through the
canonical paths (`CleanIsCanonical`). Trimming is what `strings.Trim` does, the part
from the first to the last token that is no slash (`TrimTrims`). What the role editor
suggests then opens its entry and nothing outside its folder, with one exception that
`SuggestedGrantsFit` states: the suggestion for a folder named `*` is the grant on
everything.

An image is put together from a registry, a project and a tag of any length
(`ImagesInv`). What is joined with a separator comes apart at it again (`Joining`,
`ComesApart`), because the greatest or least position of a separator is the one it was
put at: nothing in a tag is a slash or a colon, nothing in a project a colon, nothing in
a registry's name a slash (`Reference`). A tag begins and ends as one of ours exactly if
its first and last dash are next to its ends (`TagParts`). That is for environments
without a dash in their names; what stands before a first dash has none in it, so no tag
is taken for one of the others, and the theorem says that theirs are refused. Assumed is
that a number holds no separator.

What is read of a pod is the beginning of its last `tail` lines, and perhaps a torn one
(`Tells`): each line but one torn in its time is at its time, and by that in order (from
the assumption that the kubelet writes in the order of time, `LogsAreWritten`), so
there are finitely many lines (`PlacesAre`), of which one precedes the other
(`OneFirst`). Ranks go up from a line to the next, so no two are the same, and as there
are as many as lines they are the merged lines' positions (`RanksArePositions`): each
line is shown once, at its rank (`LinesAreAtTheirRanks`). A pod that is named twice is
read twice and its lines are shown for each time. Of a query in Loki it is assumed that
a stream has the label its pod has in the cluster, if the pod still exists; of patterns
nothing is assumed but that a name fits itself.

The theorems on trails are about finite logs (`TrailsInv`, likewise). The newest lines of a
finite log exist (`NewestLines`, from the least element of a set of naturals and
not by induction), so a read shows only what the second gate lets through, within
its window, and all of it unless more was counted than it may bring (`ReadIsShown`).
`Windows` and `Pages` define a function by its own earlier values; such a function
exists when each step leads from a set into itself (`GoingOn`), and its values stay in
that set (`StayingIn`). Of walks that set is `Walks`: `Shown` lines from the start back
to where the walk stands, all that were counted unless these are more than a page, and
where it stands is whole windows before its start or at the floor. A page's
(`PagesUpTo`) are those before its start and not before its cursor, so whatever
comes after a cursor is older than what came before it. Loki's window excludes its
end. The pods' includes it, and there the pages are disjoint for another reason:
their horizon fits in one window (`AuditConstants`), so the walk ends at the floor
and no cursor is sent. What the scope made of somebody's roles lets through, the
roles let be seen, and no more (`ScopeAgrees`).

That nothing is missing needs where each page starts: its predecessor's cursor
(`PageSpans`). A cursor goes back by a window or more and is sent only above the floor,
so a reader who asks for as many pages as the horizon has windows comes to its end
(`CursorsRecede`); `TrailsAreLogs` says that the reader does, and that the clock has run
longer than the horizon, as any clock counting from 1970 has, so a cursor never
rounds down to zero. A line then belongs to the first page whose cursor is not after it
(`PagesAreWhole`). It is there, or more lines were counted on that page's period than it
may have, or its time is in the part of a millisecond the cursor drops.

Every safety property of the runs is thereby the property of a theorem. Left to TLC are
liveness and fairness, and ENABLED, for which there is no backend: `Converges`,
`EveryChangeEnds`, `BuildWatchEnds`, `ListingCatchesUp`, `LockoutsEnd` and `WatchEnds`;
and the configurations that are to be violated.

## Where the code and its comments differ

A role change of another replica that arrives through a conflict's reload never
reaches the authorizer (`cmd/server/main.go:174`): the run
`authorizer_sync_adopted`, listed under `findings`.

The following have a configuration that TLC violates and that is not among the
regular runs:

- `AccessStoreDeleted.cfg`: a change that meets a deleted Secret is not written
  back, it fails, and so does every later one on that replica (`secret.go:162`).
- `AccessModelKnown.cfg` (three, with TLC's `-continue`): granting a role to several
  people and taking it from the same people is not an undo if some held it before
  (`OppositesUndo`; `roles.go:124`); the bootstrap roles in a break-glass session are
  stored when the middleware registers whom the token names under `oidc`
  (`BootstrapIsNotStored`; `auth.go:262-264`); somebody deleted comes back "with no
  roles", except for who has roles in the configuration's list of accounts, which the
  local provider brings along (`DeletedReturnWithoutRoles`; `users.go:131-133` and
  `local.go:76-80`).
- `RebuildWatcherGate.cfg`: a pipeline of which one manual job was released and
  another was not is polled without asking for a person
  (`rebuildWatcher.ts:201`).
- `ConfigEditorOverwritten.cfg`: a text typed over a cached copy is saved with
  the version of the read that came after it (`Configurations.tsx:206`).
- `ConfigEditorTyped.cfg`: a text typed while the entry is read again on focus is
  replaced (`Configurations.tsx:153`).
- `ConfigPairInEffect.cfg` (two): two saves write Consul in the other order than they
  were committed, and both are reported as in effect (`SavedIsInEffect`;
  `pair.go:62-63`); "from the Consul view an ordinary save already is a Consul write", but
  it is a commit with Consul's index for a version, and refused as a conflict
  (`ConsulViewSaves`; `Configurations.tsx:520-522` and `:270`).
- `SignInSpellings.cfg`: failures are "throttled per username", and counted by the name as
  typed while accounts are found by the folded one, so an account's failures are counted
  apart (`AccountIsBounded`; `limiter.go:46`, `:62`, `:76` and `local.go:68`).
- `LastSeenShutdown.cfg`: a clean shutdown may end before the last flush
  (`store.go:397`).
- `RestartDoubleClick.cfg`: two clicks that both read the stamp before either
  patched make two rollouts (`pods.go:422-424`).
- `RestartOutcome.cfg`: the timer that removes a finished restart's notice takes
  a newer one (`restartWatcher.ts:146`).
- `RestartUnread.cfg`: the count of failures is set back before the body is read, so a
  watch whose answers cannot be read is polled for ever (`EveryWatchEnds`;
  `restartWatcher.ts:135-136`; `rebuildWatcher.ts:181-182` is the same).
- `DecisionsKnown.cfg` (with TLC's `-continue`, as it has eight): a tag of an environment
  with a dash in its name is never found, though the configuration takes such names
  (`EnvironmentsAreFound`; `image.go:67-104`, `config.go:95-126`); a pod's stream that
  breaks is cut without the notice an unreadable pod gets (`CutLogsSaySo`;
  `logs_multi.go:41`); several names are joined to a pattern without quoting, so a dot in
  one selects other pods of the namespace (`NamedPodsOnly`; `logs.go:109`, `:115`); the
  permission for graphs is offered without Prometheus (`NothingIsOfferedInVain`;
  `config/rbac.go:122-146`, `api/pods.go:286-289`); under `oidc`
  without a break-glass account nothing is signed, and a rebuild starts its job
  before it finds that out (`RebuildsGetTickets`; `ticket.go:24-26`,
  `api/rebuild.go:129-136`); the rebuild's GitLab is copied from the
  configuration repository's before the environment has set that
  (`RebuildUsesTheSameGitLab`; `config.go:843`); a read stopped by its limit
  inside a window gives the window's start as its cursor, so the rest is on no
  page (`PagesReachTheHorizon`; `auditlog.go:164`); global entries are recorded
  under a dash and Loki is asked for those without a namespace
  (`GlobalReadersSeeGlobalEntries`; `auditlog.go:220-225`).

Seen while modelling, and part of the models: a background listing that was
overtaken by a save brings the older tree back for a while (`cache.go:103`), and
the caches of other replicas are not cleared at all; the change of a refused save stays in
the copy beside a version that is the current one, so that `Follow` leaves it there and
the replica differs from the stored model until its next save or another's
(`store.go:452`); `Follow` drops last-seen
times that were not yet written; a hand edit between two steps of the file
backend is replaced or taken for the process's own (`backend.go:59-90`); two
patches within one second make one rollout; failures to reach the provider
count as failed sign-ins; a conflict after an unacknowledged commit of one's own
is reported as somebody else's; the audit entry of a lagging copy says the save
failed.

## Simplifications

A listing, a directory's answer and a verified password are outcomes. File
versions are the numbers of writes, so two writes within one clock tick with one
size are told apart. Hand edits are whole documents. Kubernetes objects carry
what the code compares. Names, paths and tags are short sequences of tokens,
which keep the separators the code splits at. Time is a bounded clock, or what
is left of a window.

## Not modelled

- Editing a Secret (`secrets.go`), Helm history, descriptions, metrics and log
  streaming: one read, or a read and a write, whose answer is passed on.
- `RetryBuildJob` (`pipelines.go:50-108`), which picks the job to run again from
  GitLab's list, and `SecondaryState`, which counts differences of a listing.
- The stored format: the group table and the compression; documents that cannot
  be read or are of a newer format are refused and logged, and nothing changes.
- Bodies and wording: the validation of requests, the text of errors and of log
  entries, Prometheus' answers, web pages without a state machine, the chart.
- The editor's two sides of a paired deployment, and its listing.

## Plan

What would come next, in this order: a law of opposite role changes that holds, for the people of whom the first one changed anything; then `RetryBuildJob` and the secret edit.
