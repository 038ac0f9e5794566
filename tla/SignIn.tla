------------------------------- MODULE SignIn -------------------------------
(***************************************************************************)
(* Signing in with a password (internal/auth/auth.go, Login) and the       *)
(* throttle in front of it (internal/auth/limiter.go): failures are        *)
(* counted by each replica, a lockout is shared through the access store   *)
(* (internal/store/users.go).                                              *)
(*                                                                         *)
(* One account, and the spellings of its name (Root, root): the account    *)
(* and its lockout are found by the folded name, failures are counted by   *)
(* the name as it was typed, by each replica.  Time is what is left of a   *)
(* window; a record or a lockout with none left is as good as none.  A     *)
(* change of the store is one step (AccessStore has its parts): it is made *)
(* to the stored model, or fails and stays in the replica's copy.          *)
(***************************************************************************)
EXTENDS Naturals, FiniteSets

CONSTANTS
    SignInReplicas,
    People,             \* who tries to sign in under the name, at the same time
    Spellings,          \* how the name is typed
    Tries,              \* at which replicas and how each of these people types it
    maxFailedAttempts,
    lockoutWindow

ASSUME SignInConstants ==
    /\ SignInReplicas # {} /\ IsFiniteSet(SignInReplicas) /\ IsFiniteSet(People)
    /\ Spellings # {}
    /\ Tries \in [People -> SUBSET (SignInReplicas \X Spellings)]
    /\ maxFailedAttempts \in Nat \ {0} /\ lockoutWindow \in Nat \ {0}

VARIABLES
    records,        \* each counter's failures, and what is left of their window
    account,        \* the stored model: whether the account is known, and its lockout
    accounts,       \* each replica's copy of it
    current,        \* the replicas whose copy's version is the stored one
    attempts        \* where each person's attempt is, and which counter it is for

signInVars == <<records, account, accounts, current, attempts>>

\* A replica counts by spelling.
Counters == SignInReplicas \X Spellings

NoAttempt == [pc |-> "none", counter |-> CHOOSE c \in Counters : TRUE]
At(p) == attempts[p].counter[1]
NoRecord == [failures |-> 0, left |-> 0]
Accounts == [known : BOOLEAN, lockout : 0..lockoutWindow]

SignInTypeOK ==
    /\ records \in [Counters ->
                        [failures : 0..(maxFailedAttempts + Cardinality(People)),
                         left : 0..lockoutWindow]]
    /\ account \in Accounts
    /\ accounts \in [SignInReplicas -> Accounts]
    /\ current \subseteq SignInReplicas
    /\ attempts \in [People -> [pc : {"none", "verifying", "sharing", "unlocking", "known"},
                                counter : Counters]]

SignInInit ==
    /\ records = [c \in Counters |-> NoRecord]
    /\ account \in [known : BOOLEAN, lockout : {0}]
    /\ accounts = [r \in SignInReplicas |-> account]
    /\ current = SignInReplicas
    /\ attempts = [p \in People |-> NoAttempt]

Now(p, pc, c) == attempts' = [attempts EXCEPT ![p] = [pc |-> pc, counter |-> c]]
Ends(p) == attempts' = [attempts EXCEPT ![p] = NoAttempt]

\* What a change makes of the account: LockUntil, Unlock, or RecordSeen for one
\* that was not known.
After(change, a) ==
    CASE change = "lock" -> [a EXCEPT !.lockout = lockoutWindow]
      [] change = "unlock" -> [a EXCEPT !.lockout = 0]
      [] change = "seen" -> [a EXCEPT !.known = TRUE]

\* mutate: the change is made to the replica's copy, or to the stored model read
\* again if that copy is not the latest, and written.
Written(r, change) ==
    LET new == After(change, IF r \in current THEN accounts[r] ELSE account) IN
    /\ account' = new
    /\ accounts' = [accounts EXCEPT ![r] = new]
    /\ current' = {r}

\* The write fails, or there is nothing left to write once the stored model is
\* read again: the change is in the copy only.
Unwritten(r, change) ==
    /\ \/ /\ accounts' = [accounts EXCEPT ![r] = After(change, accounts[r])]
          /\ UNCHANGED current
       \/ /\ accounts' = [accounts EXCEPT ![r] = After(change, account)]
          /\ current' = current \cup {r}
    /\ UNCHANGED account

Changed(r, change) == Written(r, change) \/ Unwritten(r, change)

-----------------------------------------------------------------------------

\* allow.
Allowed(c) == accounts[c[1]].lockout = 0 /\ records[c].failures < maxFailedAttempts

\* Mutant: one attempt too many.
AttemptOneMore(p, c) ==
    /\ attempts[p].pc = "none"
    /\ accounts[c[1]].lockout = 0 /\ records[c].failures <= maxFailedAttempts
    /\ Now(p, "verifying", c)
    /\ UNCHANGED <<records, account, accounts, current>>

\* Login up to the provider; a name that is not allowed is answered at once and
\* counts for nothing.
Attempt(p, c) ==
    /\ attempts[p].pc = "none" /\ Allowed(c)
    /\ Now(p, "verifying", c)
    /\ UNCHANGED <<records, account, accounts, current>>

\* fail: the provider refuses, or cannot be asked.
Wrong(p) ==
    LET c == attempts[p].counter
        failures == records[c].failures + 1
    IN
    /\ attempts[p].pc = "verifying"
    /\ records' = [records EXCEPT ![c] = [failures |-> failures, left |-> lockoutWindow]]
    /\ IF failures >= maxFailedAttempts THEN Now(p, "sharing", c) ELSE Ends(p)
    /\ UNCHANGED <<account, accounts, current>>

\* share: only for an account that is known, and not locked out yet.
Share(p) ==
    LET r == At(p) IN
    /\ attempts[p].pc = "sharing"
    /\ IF accounts[r].known /\ accounts[r].lockout = 0
       THEN Changed(r, "lock")
       ELSE UNCHANGED <<account, accounts, current>>
    /\ Ends(p)
    /\ UNCHANGED records

\* The password is right: reset forgets the failures of this spelling.
Right(p) ==
    LET c == attempts[p].counter IN
    /\ attempts[p].pc = "verifying"
    /\ records' = [records EXCEPT ![c] = NoRecord]
    /\ Now(p, "unlocking", c)
    /\ UNCHANGED <<account, accounts, current>>

\* reset clears a lockout that was shared, unless it is found cleared.
Unlock(p) ==
    LET r == At(p) IN
    /\ attempts[p].pc = "unlocking"
    /\ CASE accounts[r].lockout = 0 -> UNCHANGED <<account, accounts, current>>
         [] r \notin current /\ account.lockout = 0 -> Unwritten(r, "unlock")
         [] OTHER -> Changed(r, "unlock")
    /\ Now(p, "known", attempts[p].counter)
    /\ UNCHANGED records

\* register: who was not known is now; of who was, the times and perhaps the
\* rest of the record are brought up to date.  Then the token is handed out.
Register(p) ==
    LET r == At(p) IN
    /\ attempts[p].pc = "known"
    /\ \/ Changed(r, "seen")
       \/ accounts[r].known /\ UNCHANGED <<account, accounts, current>>
    /\ Ends(p)
    /\ UNCHANGED records

\* The watch brings the stored model.
HearAccount(r) ==
    /\ r \notin current
    /\ accounts' = [accounts EXCEPT ![r] = account]
    /\ current' = current \cup {r}
    /\ UNCHANGED <<records, account, attempts>>

\* A replica starts anew: its counts and its attempts are gone.
RestartReplica(r) ==
    /\ records' = [c \in Counters |-> IF c[1] = r THEN NoRecord ELSE records[c]]
    /\ accounts' = [accounts EXCEPT ![r] = account]
    /\ current' = current \cup {r}
    /\ attempts' = [p \in People |-> IF At(p) = r THEN NoAttempt ELSE attempts[p]]
    /\ UNCHANGED account

Less(n) == IF n = 0 THEN 0 ELSE n - 1

\* Mutant: the failures are forgotten by a success only.
LapseKeepingFailures(record) == [record EXCEPT !.left = Less(@)]

\* A record whose window is over counts for nothing (allow, fail).
Lapse(record) == IF record.left <= 1 THEN NoRecord ELSE [record EXCEPT !.left = @ - 1]

\* Time passes.
Tick ==
    /\ records' = [c \in Counters |-> Lapse(records[c])]
    /\ account' = [account EXCEPT !.lockout = Less(@)]
    /\ accounts' = [r \in SignInReplicas |-> [accounts[r] EXCEPT !.lockout = Less(@)]]
    /\ UNCHANGED <<current, attempts>>

SignInNext ==
    \/ \E p \in People :
           \/ \E c \in Tries[p] : Attempt(p, c)
           \/ Wrong(p) \/ Share(p) \/ Right(p) \/ Unlock(p) \/ Register(p)
    \/ \E r \in SignInReplicas : HearAccount(r) \/ RestartReplica(r)
    \/ Tick

\* Time passes; nobody has to try, to hear of a change or to be answered.
SignInFairness == WF_signInVars(Tick)

SignInSpec == SignInInit /\ [][SignInNext]_signInVars /\ SignInFairness

-----------------------------------------------------------------------------

\* However many attempts are verified at the same time, a replica lets no more
\* passwords be tried in one window under one spelling of the name than the limit
\* and one for each other attempt that was let in before the limit was reached
\* (limiter.go:53-90: allow looks before the provider is asked, fail counts after it
\* has answered).  Of an account, that is as many times over as its name has
\* spellings (AccountIsBounded in MCSignIn).
GuessesAreBounded ==
    \A c \in Counters :
        records[c].failures < maxFailedAttempts + Cardinality(People)

\* Guessing does not shut the account's owner out for good: at every replica, again
\* and again, the name as it is typed may be tried or somebody gets in somewhere,
\* whatever the order in which lockouts and successes reach the store, which replicas
\* fail to write or to hear, and how many go on guessing (limiter.go:53-133; a
\* success between fail and share leaves a lockout behind).
LockoutsEnd ==
    \A c \in Counters :
        []<>(Allowed(c) \/ \E p \in People : attempts[p].pc = "unlocking")
=============================================================================
