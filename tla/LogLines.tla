------------------------------ MODULE LogLines ------------------------------
(***************************************************************************)
(* Log lines of several pods: merged from the pods themselves              *)
(* (internal/kube/logs_multi.go) and selected in Loki (internal/api/       *)
(* logs.go).                                                               *)
(*                                                                         *)
(* A pod's log is readable or not, and a sequence of lines [at, text] as   *)
(* the kubelet writes them: the timestamps have one width, so that         *)
(* comparing them as strings compares the times.  The stream of a readable *)
(* log may break: cut is how many lines came whole before it did, and      *)
(* piece what is left of the line it broke in.                             *)
(***************************************************************************)
EXTENDS Naturals, Sequences, FiniteSets

\* Nothing, a part of the text behind a whole timestamp, or a part of the timestamp.
Pieces == {"none", "text", "stamp"}

\* A pod whose log cannot be read takes one line, before everything else.
Unreadable == [at |-> 0, text |-> "could not read logs"]

\* splitTimestamp finds no blank in a part of a timestamp: a text without a time.
Remains(line, piece) ==
    IF piece = "none" THEN <<>>
    ELSE <<[at |-> IF piece = "stamp" THEN 0 ELSE line.at, text |-> "torn"]>>

\* The last tail lines of a pod, or as many of them as came: io.ReadAll's error is
\* dropped.
LastLines(log, tail) ==
    LET n == Len(log.lines)
        asked == SubSeq(log.lines, IF n > tail THEN n - tail + 1 ELSE 1, n)
    IN
    IF log.cut >= Len(asked) THEN asked
    ELSE SubSeq(asked, 1, log.cut) \o Remains(asked[log.cut + 1], log.piece)

\* They are each labelled with the pod.
Labelled(pod, log, tail) ==
    LET lines == IF log.readable THEN LastLines(log, tail) ELSE <<Unreadable>>
    IN  [i \in DOMAIN lines |-> [pod |-> pod, at |-> lines[i].at, text |-> lines[i].text]]

\* What is read of the pods, in the order they were named, and all lines of it: by
\* whose turn it was and their place there.
Gathered(pods, logs, tail) == [i \in DOMAIN pods |-> Labelled(pods[i], logs[pods[i]], tail)]
Places(read) == UNION {{i} \X DOMAIN read[i] : i \in DOMAIN read}
LineAt(read, e) == read[e[1]][e[2]]

\* Mutant: newest first.
PrecedesNewestFirst(read, e, f) ==
    \/ LineAt(read, e).at > LineAt(read, f).at
    \/ LineAt(read, e).at = LineAt(read, f).at /\ e[1] < f[1]
    \/ LineAt(read, e).at = LineAt(read, f).at /\ e[1] = f[1] /\ e[2] < f[2]

\* sort.SliceStable by timestamp: lines of one moment stay as they were.
Precedes(read, e, f) ==
    \/ LineAt(read, e).at < LineAt(read, f).at
    \/ LineAt(read, e).at = LineAt(read, f).at /\ e[1] < f[1]
    \/ LineAt(read, e).at = LineAt(read, f).at /\ e[1] = f[1] /\ e[2] < f[2]

Rank(read, e) == Cardinality({f \in Places(read) : Precedes(read, f, e)}) + 1

Sorted(read) ==
    [n \in 1..Cardinality(Places(read)) |->
        LineAt(read, CHOOSE e \in Places(read) : Rank(read, e) = n)]

MultiPodLogs(pods, logs, tail) == Sorted(Gathered(pods, logs, tail))

-----------------------------------------------------------------------------
(* Loki.  A stream has a namespace, a pod, a container and the label of its  *)
(* service.  The cluster tells the label of the pods that still exist.       *)

\* The services of some pods, without those that cannot be told.
DistinctApps(cluster, pods) == {cluster[p] : p \in pods \cap DOMAIN cluster} \ {""}

NotResolved == "cannot resolve the service label"

\* Mutant: the first service stands for all of them.
AppsFirst(cluster, pods) ==
    LET apps == DistinctApps(cluster, pods) IN
    IF apps = {} THEN {} ELSE {CHOOSE a \in apps : TRUE}

Apps(cluster, pods) == DistinctApps(cluster, pods)

\* pods= is split at its commas: the names in it, and whether there are several.
Named(pods) == {pods[i] : i \in DOMAIN pods} \ {""}
SeveralNamed(pods) == Cardinality({i \in DOMAIN pods : pods[i] # ""}) > 1

\* A label of the selector: one name it equals, or several joined with bars to a
\* pattern it matches.
Label(of, names, joined) == [of |-> of, names |-> names, joined |-> joined]
Anything == Label("none", {}, FALSE)

\* The label handleLokiQuery selects by: of a service, or of pods, or neither.
Selector(cluster, q) ==
    LET apps == Apps(cluster, Named(q.pods)) IN
    IF q.app # "" THEN Label("app", {q.app}, FALSE)
    ELSE IF q.pods # <<>>
    THEN IF q.scope = "service"
         THEN IF apps = {} THEN Label("error", {NotResolved}, FALSE)
              ELSE Label("app", apps, Cardinality(apps) > 1)
         ELSE IF Named(q.pods) = {} THEN Anything
              ELSE Label("pod", Named(q.pods), SeveralNamed(q.pods))
    ELSE IF q.pod = "" THEN Anything
    ELSE IF q.scope = "service"
    THEN IF Apps(cluster, {q.pod}) = {} THEN Label("error", {NotResolved}, FALSE)
         ELSE Label("app", Apps(cluster, {q.pod}), FALSE)
    ELSE Label("pod", {q.pod}, FALSE)

\* The names in a pattern are not quoted: a dot in one fits any character.  alike is
\* which name, read as a pattern, fits which other.
Fits(label, name, alike) ==
    \/ name \in label.names
    \/ label.joined /\ \E n \in label.names : <<n, name>> \in alike

\* The streams of the address's namespace, which the gate was asked about, that the
\* label and the container of the request select.
Selected(streams, cluster, namespace, alike, q) ==
    LET label == Selector(cluster, q) IN
    IF label.of = "error" THEN {[error |-> NotResolved]}
    ELSE {s \in streams :
             /\ s.namespace = namespace
             /\ label.of = "app" => Fits(label, s.app, alike)
             /\ label.of = "pod" => Fits(label, s.pod, alike)
             /\ q.container \in {"", s.container}}
=============================================================================
