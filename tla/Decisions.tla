----------------------------- MODULE Decisions -----------------------------
(***************************************************************************)
(* The decisions of the authorizer, of a start and of the audit trail,     *)
(* which several places make from the same input without a state of their  *)
(* own: lists and checks of the same grants, menus and gates, grants on    *)
(* paths and what they open, what a role may be given and what is served,  *)
(* what is accepted of a configuration and who then signs in, what a       *)
(* reader may see and what the pages show.  The one step asks a question;  *)
(* the invariants say what its answers must be.                            *)
(***************************************************************************)
EXTENDS Rbac, ConfigFile, AuditPaging, ImageTag, LogLines

CONSTANTS
    Questions,    \* what is asked: sets of questions, each with its kind
    Deployments,  \* the sets of features a deployment may have on
    Namespaces,   \* the cluster's namespaces
    Paths,        \* the configuration paths somebody may ask for
    Environments, \* the environments a rebuild is for
    Numbers,      \* what is read as a pipeline's number
    Now,          \* when the audit trail is first asked for
    Asked         \* how many pages of it are

\* A namespace nobody listed.
Elsewhere == "elsewhere"

\* A question about a path brings one, and roles with grants on paths.
ASSUME PathsAreTokens ==
    /\ Paths \subseteq Seq(STRING)
    /\ \A n \in DOMAIN Questions : \A q \in Questions[n] :
        q.kind = "path" =>
            /\ q.path \in Paths
            /\ \A g \in ConfigGrants(q.model, q.roles) : g.path \in Seq(STRING)

\* A question about a start brings a file and an environment: these settings.
ASSUME StartsAreSettings ==
    \A n \in DOMAIN Questions : \A q \in Questions[n] :
        q.kind = "start" =>
            /\ \E branched \in SUBSET Environments : q.file \in Files(Environments, branched)
            /\ q.env \in Variables

\* A question about the trail brings a log, and a filter as a page sends it.  The
\* clock has run for longer than the horizon, and who asks goes on to its end.
ASSUME TrailsAreLogs ==
    /\ Now \in Nat /\ Asked \in Nat \ {0}
    /\ Now >= Horizon + Milli /\ Asked * Window >= Horizon
    /\ \A n \in DOMAIN Questions : \A q \in Questions[n] :
        q.kind = "audit" =>
            /\ q.log \subseteq Lines /\ IsFiniteSet(q.log)
            /\ q.filter \in Filters
            /\ q.source \in {"loki", "pods"} /\ q.pause \in Nat

\* What a reference is put together from: a registry, a project and a tag, each
\* without the separators that come after it.
Reference(q) ==
    /\ q.host \in Seq(STRING) /\ q.host # <<>>
    /\ \A i \in DOMAIN q.host : q.host[i] # "/"
    /\ q.project \in Seq(STRING) /\ q.project # <<>>
    /\ \A i \in DOMAIN q.project : q.project[i] # ":"
    /\ q.tag \in Seq(STRING)
    /\ \A i \in DOMAIN q.tag : q.tag[i] \notin {"/", ":"}

\* A question about an image brings a reference.  The name of an environment may have
\* dashes in it, a number has not.
ASSUME ImagesAreReferences ==
    /\ Environments \subseteq Seq(STRING)
    /\ {"/", ":", "-"} \cap Numbers = {}
    /\ \A n \in DOMAIN Questions : \A q \in Questions[n] :
        q.kind = "image" => Reference(q)

\* A log in the order of time.
Written(lines) ==
    /\ lines \in Seq([at : Nat, text : STRING])
    /\ \A i, j \in DOMAIN lines : i <= j => lines[i].at <= lines[j].at

\* A question about logs brings pods and what the kubelet says of each, in the order
\* it was written and perhaps cut; or what is selected of which streams, whose labels
\* are those of the pods that wrote them.
ASSUME LogsAreWritten ==
    \A n \in DOMAIN Questions : \A q \in Questions[n] :
        /\ q.kind = "podLogs" =>
              /\ q.pods \in Seq(DOMAIN q.logs) /\ q.tail \in Nat \ {0}
              /\ \A p \in DOMAIN q.logs :
                    /\ Written(q.logs[p].lines)
                    /\ q.logs[p].cut \in Nat /\ q.logs[p].piece \in Pieces
        /\ q.kind = "loki" =>
              /\ q.q \in [app : STRING, pods : Seq(STRING), pod : STRING,
                          scope : {"", "service"}, container : STRING]
              /\ \A s \in q.streams :
                    s.namespace = q.namespace /\ s.pod \in DOMAIN q.cluster
                        => q.cluster[s.pod] = s.app

VARIABLE question

\* Nothing is asked yet, but which of the sets the question will be from.
Nothing(n) == [kind |-> "none", of |-> n]

Init == question \in {Nothing(n) : n \in DOMAIN Questions}

Next ==
    \E n \in DOMAIN Questions :
        /\ question = Nothing(n)
        /\ question' \in Questions[n]

Spec == Init /\ [][Next]_question

About(kind) == question.kind = kind

-----------------------------------------------------------------------------
(* Access. *)

\* The lists a page is built from and the gate each request meets are two
\* readings of the same grants, and never disagree: a namespace, the cluster's
\* or one nobody named, is in the list for an operation exactly if the operation
\* is allowed there.  (NamespacesForOp and VisibleNamespaces beside Allowed.)
ListsAgreeWithChecks ==
    About("access") =>
        LET q == question IN
        \A op \in AllOperations, ns \in Namespaces \cup {Elsewhere} :
            /\ Allowed(q.model, q.roles, ns, op) <=>
                   {ns, Wildcard} \cap NamespacesForOp(q.model, q.roles, op) # {}
            /\ Allowed(q.model, q.roles, ns, op) =>
                   {ns, Wildcard} \cap VisibleNamespaces(q.model, q.roles) # {}

\* What the menu offers opens, what is not in the menu does not, with whichever
\* features are on; the graphs and the historical logs of a pod open where its page
\* has them and the person may see them; and a namespace is on the start page if
\* anything in it opens.  (handleMe and handleNamespaces beside requireOp,
\* requireGlobalOp and the handlers' own checks.)
MenuMatchesEndpoints ==
    question.kind \in {"access", "path"} =>
        LET q == question IN
        \A features \in Deployments :
        LET menu == Capabilities(q.model, q.roles, features)
            Opens(handler, ns, path) ==
                \E e \in Endpoints :
                    /\ e.handler = handler
                    /\ Gate(q.model, q.roles, features, e, ns, path) = "served"
        IN
        /\ "users" \in menu <=> Opens("Users", Elsewhere, <<>>)
        /\ "manageUsers" \in menu <=> Opens("CreateUser", Elsewhere, <<>>)
        /\ "accessRestore" \in menu <=> Opens("Snapshot", Elsewhere, <<>>)
        /\ "audit" \in menu <=> Opens("AuditLog", Elsewhere, <<>>)
        /\ About("path") /\ Opens("GetConfig", Elsewhere, q.path) => "configurations" \in menu
        /\ \A ns \in Namespaces :
              /\ Opens("PodMetrics", ns, <<>>) <=>
                     "metrics" \in menu /\ Allowed(q.model, q.roles, ns, "metrics")
              /\ Opens("LokiQuery", ns, <<>>) <=>
                     "loki" \in menu /\ Allowed(q.model, q.roles, ns, "logs")
        /\ \A ns \in Namespaces :
              (\E e \in Endpoints : e.gate = "namespace" /\ Opens(e.handler, ns, <<>>))
              => ns \in NamespacePage(q.model, q.roles, TRUE, Namespaces).namespaces

-----------------------------------------------------------------------------
(* Paths. *)

\* A path is another or a folder above it: segment for segment the same.
Above(folder, path) ==
    \A c \in SegmentsAt(folder) :
        c \in SegmentsAt(path) /\ SubSeq(folder, c[1], c[2]) = SubSeq(path, c[1], c[2])

\* A path that names its entry in the one way there is, and nothing beside the root.
Canonical(p) ==
    /\ p # <<>>
    /\ \A i \in DOMAIN p :
        /\ p[i] = "/" => i # 1 /\ i # Len(p) /\ p[i + 1] # "/"
        /\ p[i] \in {".", ".."} => \/ i # 1 /\ p[i - 1] # "/"
                                   \/ i # Len(p) /\ p[i + 1] # "/"

\* A grant on a path covers the path and what is under it, segment by segment,
\* and not what merely begins with the same letters; nothing is served that is
\* not in its canonical form; and a file the list shows opens, for writing where
\* the list says so.  (Covers and configRequest against the segments of a path.)
PathGrantsCoverSubtrees ==
    About("path") =>
        LET q == question
            path == Trim(q.path)
            Granted(op) ==
                \E g \in ConfigGrants(q.model, q.roles) :
                    HasOp(g.operations, op) /\ (g.path = EveryPath \/ Above(Trim(g.path), path))
        IN
        /\ \A op \in ConfigOperations :
              ConfigRequest(q.model, q.roles, q.path, op) =
                  IF ~Canonical(path) THEN [answer |-> "bad request"]
                  ELSE IF ~Granted(op) THEN [answer |-> "forbidden"]
                  ELSE [answer |-> "served", path |-> path]
        /\ Canonical(path) =>
              ListConfigs(q.model, q.roles, {path}) =
                  IF Granted("config-read")
                  THEN {[path |-> path, writable |-> Granted("config-write")]} ELSE {}

\* A grant the role editor suggests for an entry, the entry itself or a folder
\* above it, lets its holder open that entry and nothing outside the folder, unless
\* the folder's name is the wildcard.
SuggestedGrantsFit ==
    About("path") /\ Clean(question.path) =>
        LET p == Trim(question.path) IN
        \A s \in Suggestions({p}) :
            LET role == [namespaces |-> {}, global |-> {},
                         configs |-> {[path |-> s, operations |-> {"config-read"}]}]
                model == [r \in {"first"} |-> role]
            IN  /\ AllowedConfig(model, {"first"}, p, "config-read")
                /\ \A other \in Paths :
                      Clean(other) =>
                          (AllowedConfig(model, {"first"}, other, "config-read") <=>
                              s = EveryPath \/ Above(s, Trim(other)))

\* Both: what a grant on a path opens, and what the editor suggests for it.
PathGrantsFit == PathGrantsCoverSubtrees /\ SuggestedGrantsFit

-----------------------------------------------------------------------------
(* Starting. *)

Started == About("start") /\ Starts(question.file, question.env)
Running == Settled(question.file, question.env)

\* Offered although its endpoint answers that it is off: graphs without Prometheus,
\* which Operations does not look at.
OfferedInVain == IF Running.prometheusURL = "" THEN {"metrics"} ELSE {}

\* In a cluster, where the chart tells the pod which it is, every operation the
\* role editor offers, graphs without Prometheus apart, opens an endpoint this
\* deployment serves, in the part of a role it is offered for, and no endpoint served
\* waits for an operation nobody can be given.  (Operations beside Router and the
\* handlers that look for a client.)
OfferedOperationsOpenEndpoints ==
    Started /\ Running.inCluster /\ question.env.podNamespace # "" =>
        LET offered == Operations(Offered(Running))
            served == {e \in Endpoints :
                           e.feature \in Served(Running, question.env) \cup {"none"}}
            Opens(op, gates) == \E e \in served : e.op = op /\ e.gate \in gates
        IN
        /\ \A op \in offered \ OfferedInVain :
              /\ op \in NamespaceOperations => Opens(op, {"namespace", "scope"})
              /\ op \in GlobalOperations => Opens(op, {"global", "scope"})
              /\ op \in ConfigOperations => Opens(op, {"path"})
        /\ \A e \in served : e.op \in offered \cup {"none"}

\* What Operations says of itself: "optional features are left out when they are off,
\* so the role editor does not offer permissions for a page that does not exist".
NothingIsOfferedInVain ==
    Started => Operations(Offered(Running)) \cap OfferedInVain = {}

\* The password the break-glass account was given.
Given(file, env) ==
    IF env.bootstrapPassword # "" THEN env.bootstrapPassword
    ELSE IF env.bootstrapHash # NoHash THEN env.bootstrapHash.of
    ELSE file.auth.admins.hash.of

\* A break-glass account whose configuration was accepted signs in with the
\* password it was given, by whichever of the three ways, under every provider,
\* and has the roles the deployment grants.  (applyEnvOverrides, then
\* applyBootstrapPassword, then Validate, auth.New and bootstrapLogin.)
BreakGlassWorks ==
    Started /\ question.file.auth.admins.name # NoName =>
        LET name == question.file.auth.admins.name
        IN  /\ BootstrapLogin(Running.auth, [name EXCEPT !.spelt = @ + 1],
                              Given(question.file, question.env))
            /\ FirstRoles(Running.auth, name) # {}

\* A service that starts with accounts of its own, or with tokens from a
\* provider, is one that somebody can administer or at least sign in to: the
\* first start never locks everybody out.
SomebodyGetsIn ==
    Started =>
        LET auth == Running.auth
            accounts == {[name |-> u.name, hash |-> u.hash] : u \in auth.users}
                        \cup {[name |-> auth.admins.name, hash |-> auth.admins.hash]}
        IN
        /\ auth.provider = "local" =>
              \E a \in accounts : SignsIn(auth, a.name, a.hash.of)
        /\ auth.provider = "oidc" =>
              \E name \in auth.admins.users \cup {auth.admins.name} :
                  FirstRoles(auth, name) # {}

\* Both: what Validate accepts never locks its administrators out.
AdministratorsGetIn == BreakGlassWorks /\ SomebodyGetsIn

\* What ticket.go says of tickets: "Under a token-based provider there is still a
\* session manager - the portal signs its own tickets whoever authenticates people."
\* The rebuild endpoints need one for everything after the first call.
RebuildsGetTickets ==
    Started /\ Running.rebuild.enabled => IssuesTickets(Running.auth)

\* What the fallback says of itself: the rebuild uses "the same GitLab as the
\* configuration repository, so it need not be written twice".
RebuildUsesTheSameGitLab ==
    Started /\ Running.rebuild.enabled /\ question.file.rebuild.url = "" =>
        Running.rebuild.url = Running.git.url

-----------------------------------------------------------------------------
(* The audit trail. *)

Trail ==
    Pages(question.source, question.log,
          AuditScope(question.model, question.roles), question.filter, Now, question.pause, Asked)

\* Who may see a line, from their roles and not from the scope made of them.
MaySee(e) ==
    IF GlobalEntry(e) THEN AllowedGlobal(question.model, question.roles, "audit-read")
    ELSE Allowed(question.model, question.roles, e.namespace, "audit-read")

\* No page shows an action to somebody whose roles do not let them see it,
\* whichever source it comes from and however the trail is filtered.
\* (auditScope, logql and keep, against the authorizer's answers.)
AuditStaysInScope ==
    About("audit") =>
        LET trail == Trail IN
        \A k \in 1..Asked : \A e \in trail[k].entries : e.action /\ MaySee(e)

\* Nobody who goes on from page to page is shown a line twice, though the clock
\* goes on too.  (The windows and the cursor of Reader.Read.)
NothingTwice ==
    About("audit") =>
        LET trail == Trail IN
        \A j, k \in 1..Asked : j # k => trail[j].entries \cap trail[k].entries = {}

\* The lines a page must show somewhere: what this person may see and asked for, from
\* before the first request, in the part of the past that every one of them reached.
Expected ==
    {e \in question.log :
        /\ e.action /\ MaySee(e)
        /\ question.filter.operation \in {"", e.operation}
        /\ e.time < Start(question.filter, Now)
        /\ e.time >= Floor(question.source, question.filter, Now + Asked * question.pause)
        /\ question.source = "pods" => e.kept}

\* The time a page is about.
OnPage(k, e) ==
    /\ e.time >= Trail[k].next
    /\ k > 1 => e.time <= Trail[k - 1].next

\* What its source counts as a line of the page.
Counted(e) ==
    LET scope == AuditScope(question.model, question.roles) IN
    IF question.source = "pods" THEN e.action /\ e.kept /\ Keep(e, scope, question.filter)
    ELSE Logql(e, scope, question.filter)

\* Cut off by the limit, together with the rest of the window it was in.
PastTheLimit(e) ==
    \E k \in 1..Asked :
        /\ OnPage(k, e)
        /\ Cardinality({l \in question.log : Counted(l) /\ OnPage(k, l)})
               > Limit(question.filter.limit)

\* In the part of a millisecond that a cursor drops.
BelowACursor(e) ==
    \E k \in 1..Asked :
        Trail[k].next # 0 /\ e.time >= Trail[k].next /\ e.time < Trail[k].next + Milli - 1

\* Loki is asked for entries without a namespace, and these are recorded under
\* a dash.
DashedInLoki(e) ==
    /\ question.source = "loki" /\ GlobalEntry(e)
    /\ ~AuditScope(question.model, question.roles).all

\* Somebody who pages to the end sees every action they may see, through empty windows
\* and while the horizon moves, but for what a limit, a cursor's millisecond or the
\* query for global entries is known to drop.
AuditPagesMeet ==
    About("audit") =>
        LET trail == Trail IN
        /\ trail[Asked].next = 0
        /\ \A e \in Expected :
              \/ \E k \in 1..Asked : e \in trail[k].entries
              \/ PastTheLimit(e) \/ BelowACursor(e) \/ DashedInLoki(e)

\* Together: the pages show a person's part of the trail, no more, no less and once.
AuditShowsItsScope == AuditStaysInScope /\ NothingTwice /\ AuditPagesMeet

-----------------------------------------------------------------------------
(* Images. *)

\* The environments a tag of ours may be of: it begins with one, which strings.Split
\* does not take apart, and ends with a number.
NamedBy(tag) ==
    {e \in Environments :
        /\ \A i \in DOMAIN e : e[i] # "-"
        /\ Len(e) + 2 <= Len(tag)
        /\ SubSeq(tag, 1, Len(e)) = e /\ tag[Len(e) + 1] = "-"
        /\ tag[Len(tag) - 1] = "-" /\ tag[Len(tag)] \in Numbers}

Image(q) == IF q.tagged THEN q.host \o <<"/">> \o q.project \o <<":">> \o q.tag
            ELSE q.host \o <<"/">> \o q.project

\* An image of ours names its own project, environment and pipeline whatever
\* the registry is called and whatever marks the tag carries; any other
\* reference is refused, and never taken for a pipeline: also one of an environment
\* with a dash in its name, unless what is before the dash is an environment.
\* (ParseImage, against what a reference is put together from.)
ParsedImagesAreOurs ==
    About("image") =>
        LET q == question
            n == Len(q.tag)
            parsed == ParseImage(Image(q), Environments, Numbers)
            onHost == \E i \in DOMAIN q.host : q.host[i] \in {".", ":"}
        IN
        /\ q.tagged => \A e \in NamedBy(q.tag) :
              parsed = [project |-> IF onHost THEN q.project ELSE q.host \o <<"/">> \o q.project,
                        environment |-> e, pipeline |-> <<q.tag[n]>>]
        /\ ~q.tagged \/ NamedBy(q.tag) = {} => parsed = Refused

\* What ParseImage says of the form of a tag, "<env>[-anything]-<pipeline>": such a tag of
\* an environment that was configured is found.
EnvironmentsAreFound ==
    About("image") /\ question.tagged =>
        \A e \in Environments, p \in Numbers :
            question.tag = e \o <<"-", p>> =>
                ParseImage(Image(question), Environments, Numbers).environment = e

-----------------------------------------------------------------------------
(* Logs. *)

\* What is read of a pod is the beginning of its last lines, which is all of them
\* unless the stream broke, and then at most one torn line; or that it cannot be read.
Tells(read, pod, log, tail) ==
    LET n == Len(log.lines)
        asked == IF n < tail THEN n ELSE tail
        whole == IF log.cut < asked THEN log.cut ELSE asked
    IN
    IF ~log.readable
    THEN read = <<[pod |-> pod, at |-> Unreadable.at, text |-> Unreadable.text]>>
    ELSE /\ \A i \in 1..whole :
               read[i] = [pod |-> pod, at |-> log.lines[n - asked + i].at,
                          text |-> log.lines[n - asked + i].text]
         /\ DOMAIN read = 1..whole \/ (whole < asked /\ DOMAIN read = 1..(whole + 1))

\* A line whose time was torn.
NoTime(read, e) == LineAt(read, e).at = 0

\* Merged logs are every pod's last lines, as far as they came, each once, each pod's in
\* its own order and all of them by time, but for a line whose time was torn; a pod that
\* cannot be read says so once and hides no other.  (MultiPodLogs, against what each pod
\* wrote and where each line goes.)
MergedLinesKeepTheirOrder ==
    About("podLogs") =>
        LET q == question
            read == Gathered(q.pods, q.logs, q.tail)
            merged == MultiPodLogs(q.pods, q.logs, q.tail)
        IN
        /\ \A k \in DOMAIN q.pods : Tells(read[k], q.pods[k], q.logs[q.pods[k]], q.tail)
        /\ \E place \in [Places(read) -> DOMAIN merged] :
              /\ \A e \in Places(read) : merged[place[e]] = LineAt(read, e)
              /\ \A n \in DOMAIN merged : \E e \in Places(read) : place[e] = n
              /\ \A e, f \in Places(read) :
                    /\ place[e] = place[f] => e = f
                    /\ e[1] = f[1] /\ e[2] < f[2] => place[e] < place[f] \/ NoTime(read, f)
        /\ \A i, j \in DOMAIN merged : i < j => merged[i].at <= merged[j].at

\* What the notice for an unreadable pod is there for: a log that is not shown whole says
\* so.
CutLogsSaySo ==
    About("podLogs") =>
        LET q == question
            read == Gathered(q.pods, q.logs, q.tail)
        IN
        \A k \in DOMAIN q.pods :
            LET n == Len(q.logs[q.pods[k]].lines) IN
            \/ Len(read[k]) = IF n < q.tail THEN n ELSE q.tail
            \/ \E i \in DOMAIN read[k] : read[k][i].text = Unreadable.text

\* The pods a request names: pods= goes before pod=.
PodsOf(q) == IF q.pods # <<>> THEN Named(q.pods) ELSE {q.pod} \ {""}

Streams(scope) ==
    Selected(question.streams, question.cluster, question.namespace, question.alike,
             [question.q EXCEPT !.scope = scope])

\* A query finds every line of the pods it names; widening it to their services keeps
\* every line of those whose service is known; and no query leaves the namespace it was
\* allowed for.  (Selected for "pod" and for "service".)
WideningKeepsLines ==
    About("loki") =>
        LET q == question
            wide == Streams("service")
            narrow == Streams("")
        IN
        /\ \A s \in narrow \cup wide : s = [error |-> NotResolved] \/ s.namespace = q.namespace
        /\ q.q.app = "" => \A s \in q.streams :
              (/\ s.namespace = q.namespace /\ q.q.container \in {"", s.container}
               /\ s.pod \in PodsOf(q.q)) => s \in narrow
        /\ \A s \in narrow :
              (\/ q.q.app # ""
               \/ /\ s.pod \in PodsOf(q.q) \cap DOMAIN q.cluster
                  /\ q.cluster[s.pod] # "") => s \in wide

\* What the handler says of pods=a,b: "several named pods", and no other.
NamedPodsOnly ==
    About("loki") /\ question.q.app = "" /\ PodsOf(question.q) # {} =>
        \A s \in Streams("") : s.pod \in PodsOf(question.q)

\* Both: logs of several pods, read from the pods or from Loki.
LogsKeepTheirLines == MergedLinesKeepTheirOrder /\ WideningKeepsLines
=============================================================================
