----------------------------- MODULE ConfigCache -----------------------------
(***************************************************************************)
(* The cached listing of a configuration source                            *)
(* (internal/configsource/cache.go) in front of GitLab or Consul.          *)
(*                                                                         *)
(* The tree is the number of changes it has seen, and a listing the number *)
(* of those it shows.  The age of the stored listing is what listTTL and   *)
(* staleLimit make of it.  A caller holds the cache's lock exactly while   *)
(* it lists in the foreground; whatever else happens under the lock is one *)
(* step.  A save whose answer was lost is a change from elsewhere.         *)
(***************************************************************************)
EXTENDS Naturals, FiniteSets

CONSTANTS
    Callers,        \* requests: people opening the page or saving, and Warm
    MaxChanges      \* bounds the changes of the tree

ASSUME CacheConstants == Callers # {} /\ IsFiniteSet(Callers) /\ MaxChanges \in Nat

VARIABLES
    tree,           \* how many changes the source has seen
    stored,         \* the cached listing
    age,            \* "none", "fresh", "old" (past listTTL), "expired" (past staleLimit)
    refreshing,     \* c.refreshing
    refresh,        \* the background fetch: whether it runs, and what it has read
    calls,          \* each caller's request, and the change it makes or has read
    saved,          \* the last change of a save that has been answered
    overtaken       \* the stored listing was read before a save and kept after it

cacheVars == <<tree, stored, age, refreshing, refresh, calls, saved, overtaken>>

Idle == [pc |-> "idle", at |-> 0]
NoRefresh == [pc |-> "idle", at |-> 0]

CacheTypeOK ==
    /\ {tree, stored, saved} \subseteq 0..MaxChanges
    /\ age \in {"none", "fresh", "old", "expired"}
    /\ refreshing \in BOOLEAN /\ overtaken \in BOOLEAN
    /\ refresh \in [pc : {"idle", "started", "read"}, at : 0..MaxChanges]
    /\ calls \in [Callers -> [pc : {"idle", "locked", "fetched", "listed", "written"},
                              at : 0..MaxChanges]]
    /\ refreshing <=> refresh.pc # "idle"

CacheInit ==
    /\ tree = 0 /\ stored = 0 /\ saved = 0
    /\ age = "none" /\ overtaken = FALSE
    /\ refreshing = FALSE /\ refresh = NoRefresh
    /\ calls = [c \in Callers |-> Idle]

Unlocked == \A c \in Callers : calls[c].pc \notin {"locked", "fetched"}

\* entries # nil, and not so old that waiting for an error is better.
Usable == age \in {"fresh", "old"}

Moves(c, pc, at) == calls' = [calls EXCEPT ![c] = [pc |-> pc, at |-> at]]

\* List with something usable: handed over, and brought up to date behind it if
\* it is out of date and nobody is doing so yet.
Hit(c) ==
    /\ calls[c].pc = "idle" /\ Unlocked /\ Usable
    /\ Moves(c, "listed", stored)
    /\ IF age = "old" /\ ~refreshing
       THEN refreshing' = TRUE /\ refresh' = [pc |-> "started", at |-> 0]
       ELSE UNCHANGED <<refreshing, refresh>>
    /\ UNCHANGED <<tree, stored, age, saved, overtaken>>

\* List with nothing usable: the lock is held across the call.
Miss(c) ==
    /\ calls[c].pc = "idle" /\ Unlocked /\ ~Usable
    /\ Moves(c, "locked", 0)
    /\ UNCHANGED <<tree, stored, age, refreshing, refresh, saved, overtaken>>

\* The source answers with the tree as it is.
Fetch(c) ==
    /\ calls[c].pc = "locked"
    /\ Moves(c, "fetched", tree)
    /\ UNCHANGED <<tree, stored, age, refreshing, refresh, saved, overtaken>>

Keep(c) ==
    /\ calls[c].pc = "fetched"
    /\ stored' = calls[c].at /\ age' = "fresh" /\ overtaken' = FALSE
    /\ Moves(c, "listed", calls[c].at)
    /\ UNCHANGED <<tree, refreshing, refresh, saved>>

\* A failure is not cached.
FetchFails(c) ==
    /\ calls[c].pc = "locked"
    /\ Moves(c, "idle", 0)
    /\ UNCHANGED <<tree, stored, age, refreshing, refresh, saved, overtaken>>

\* The page is shown; its reader may come back.
Shown(c) ==
    /\ calls[c].pc = "listed"
    /\ Moves(c, "idle", 0)
    /\ UNCHANGED <<tree, stored, age, refreshing, refresh, saved, overtaken>>

RefreshReads ==
    /\ refresh.pc = "started"
    /\ refresh' = [pc |-> "read", at |-> tree]
    /\ UNCHANGED <<tree, stored, age, refreshing, calls, saved, overtaken>>

RefreshStores ==
    /\ refresh.pc = "read" /\ Unlocked
    /\ refreshing' = FALSE /\ refresh' = NoRefresh
    /\ stored' = refresh.at /\ age' = "fresh"
    /\ overtaken' = (refresh.at < saved)
    /\ UNCHANGED <<tree, calls, saved>>

\* Mutant: after a failure nobody is let try again.
RefreshFailsForGood ==
    /\ refresh.pc = "started" /\ Unlocked
    /\ refresh' = NoRefresh
    /\ UNCHANGED <<tree, stored, age, refreshing, calls, saved, overtaken>>

\* What there is is kept, and the next request tries again.
RefreshFails ==
    /\ refresh.pc = "started" /\ Unlocked
    /\ refreshing' = FALSE /\ refresh' = NoRefresh
    /\ UNCHANGED <<tree, stored, age, calls, saved, overtaken>>

\* Put: the source has the file; the listing has not been cleared yet.
Write(c) ==
    /\ calls[c].pc = "idle" /\ tree < MaxChanges
    /\ tree' = tree + 1
    /\ Moves(c, "written", tree + 1)
    /\ UNCHANGED <<stored, age, refreshing, refresh, saved, overtaken>>

Answered(c) == saved' = IF calls[c].at > saved THEN calls[c].at ELSE saved

\* Mutant: the listing stays until it is out of date.
ClearNothing(c) ==
    /\ calls[c].pc = "written" /\ Unlocked
    /\ Moves(c, "idle", 0) /\ Answered(c)
    /\ UNCHANGED <<tree, stored, age, refreshing, refresh, overtaken>>

\* The listing is cleared, and the save answered.
Clear(c) ==
    /\ calls[c].pc = "written" /\ Unlocked
    /\ age' = "none" /\ stored' = 0 /\ overtaken' = FALSE
    /\ Moves(c, "idle", 0) /\ Answered(c)
    /\ UNCHANGED <<tree, refreshing, refresh>>

\* Somebody changes the repository or the store, or saves on another replica.
TreeChanges ==
    /\ tree < MaxChanges
    /\ tree' = tree + 1
    /\ UNCHANGED <<stored, age, refreshing, refresh, calls, saved, overtaken>>

\* Time passes.
GrowsOld ==
    /\ age = "fresh"
    /\ age' = "old"
    /\ UNCHANGED <<tree, stored, refreshing, refresh, calls, saved, overtaken>>

Expires ==
    /\ age = "old"
    /\ age' = "expired"
    /\ UNCHANGED <<tree, stored, refreshing, refresh, calls, saved, overtaken>>

Refreshes == RefreshReads \/ RefreshStores \/ RefreshFails

CacheNext ==
    \/ \E c \in Callers :
           \/ Hit(c) \/ Miss(c) \/ Fetch(c) \/ Keep(c) \/ FetchFails(c) \/ Shown(c)
           \/ Write(c) \/ Clear(c)
    \/ Refreshes
    \/ TreeChanges \/ GrowsOld \/ Expires

\* Go runs every goroutine that can run, hands its locks round, and ends every
\* call at a client's timeout; a source that is asked again and again answers in
\* the end.  Nothing makes anybody open the page or save.
CacheFairness ==
    /\ \A c \in Callers :
           /\ WF_cacheVars(Keep(c)) /\ WF_cacheVars(Shown(c))
           /\ WF_cacheVars(Fetch(c) \/ FetchFails(c)) /\ SF_cacheVars(Fetch(c))
           /\ SF_cacheVars(Clear(c))
    /\ WF_cacheVars(RefreshReads \/ RefreshFails)
    /\ SF_cacheVars(RefreshReads) /\ SF_cacheVars(RefreshStores)
    /\ WF_cacheVars(GrowsOld)

CacheSpec == CacheInit /\ [][CacheNext]_cacheVars /\ CacheFairness

-----------------------------------------------------------------------------

\* A listing that may be shown has every save that was answered, unless it was
\* read in the background before that save and kept after it (cache.go:89-116):
\* no foreground listing and no older copy brings the tree before a save back.
SavesAppearUnlessOvertaken == Usable => stored >= saved \/ overtaken

\* While people keep opening the page and the tree is left alone, what they are
\* shown becomes and stays the tree as it is, whatever failed and whoever's save
\* a refresh had overtaken (cache.go:45-104).
ListingCatchesUp ==
    ([]<>(\E c \in Callers : calls[c].pc = "listed")) => <>[](Usable => stored = tree)
=============================================================================
