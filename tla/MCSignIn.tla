------------------------------ MODULE MCSignIn ------------------------------
(***************************************************************************)
(* What a replica keeps of sign-ins in memory: the failed ones, and the    *)
(* times people were last seen.  The two share nothing; a behaviour is one *)
(* of one of them.                                                         *)
(***************************************************************************)
EXTENDS SignIn, LastSeen

\* Somebody types the name in one way, wherever; somebody else in both, at one replica.
MCTries ==
    LET here == CHOOSE r \in SignInReplicas : TRUE
        usual == CHOOSE s \in Spellings : TRUE
        somebody == CHOOSE p \in People : TRUE
    IN
    [p \in People |-> IF p = somebody THEN SignInReplicas \X {usual} ELSE {here} \X Spellings]

VARIABLE part

Init ==
    /\ part \in {"throttle", "last seen"}
    /\ SignInInit /\ SeenInit

Next ==
    /\ UNCHANGED part
    /\ \/ part = "throttle" /\ SignInNext /\ UNCHANGED seenVars
       \/ part = "last seen" /\ SeenNext /\ UNCHANGED signInVars

vars == <<part, signInVars, seenVars>>

Spec == Init /\ [][Next]_vars /\ SignInFairness

\* What the limiter says of itself, "failed attempts are throttled per username", for
\* an account with two spellings.
AccountIsBounded ==
    \A c, d \in Counters :
        c # d /\ c[1] = d[1] =>
            records[c].failures + records[d].failures
                < maxFailedAttempts + Cardinality(People)
=============================================================================
