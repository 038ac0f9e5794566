----------------------------- MODULE MCDecisions -----------------------------
(***************************************************************************)
(* Questions to put to the decisions (Decisions), and what comments in the *)
(* code say of the audit trail that the answers do not keep.               *)
(***************************************************************************)
EXTENDS Decisions

UpToTwo(S) == {{}} \cup {{x, y} : x \in S, y \in S}

-----------------------------------------------------------------------------
(* Who may do what, where. *)

Role(namespaces, global, configs) ==
    [namespaces |-> namespaces, global |-> global, configs |-> configs]

SomeOps == {{}, {"logs"}, {"audit-read", "logs"}, {Wildcard}}
SomeGrants == [namespace : {Wildcard, "a", "b"}, operations : SomeOps]

AccessQuestions ==
    {[kind |-> "access", roles |-> roles,
      model |-> [r \in {"first", "second"} |->
          IF r = "first" THEN Role(first, global, {}) ELSE Role(second, {}, {})]] :
        first \in UpToTwo(SomeGrants),
        second \in {{}} \cup {{g} : g \in SomeGrants},
        global \in {{}, {"user-list"}, {"audit-read"}, {Wildcard}},
        roles \in {{"first"}, {"first", "second"}, {"second", "deleted"}}}

Tokens == {"svc", "-plus", "/"}
SomePaths == UNION {[1..n -> Tokens] : n \in 1..3}
             \cup {<<"svc", "/", "..", "/", "svc">>, <<"svc", "/", ".">>,
                   <<"svc", "/", "svc", "/", "-plus">>, <<"svc", "-plus", "/", "svc">>,
                   <<Wildcard, "/", "svc">>}

PathQuestions ==
    {[kind |-> "path", grant |-> grant, path |-> path, roles |-> {"first"},
      model |-> [r \in {"first"} |->
          Role({}, {}, {[path |-> grant, operations |-> ops]})]] :
        grant \in SomePaths \cup {EveryPath}, path \in SomePaths,
        ops \in {{"config-read"}, {"config-read", "config-write"}, {"config-write"}, {Wildcard}, {}}}

-----------------------------------------------------------------------------
(* What the service is started with. *)

Root == [is |-> "root", spelt |-> 1]
RootAgain == [is |-> "root", spelt |-> 2]
Ops == [is |-> "ops", spelt |-> 1]

User(name, hash, roles) == [name |-> name, hash |-> hash, roles |-> roles]

SomeHashes == {NoHash, Bcrypt("secret1"), [of |-> "secret1", form |-> "truncated"]}

AFile == [
    logLevel |-> "", inCluster |-> TRUE, lokiURL |-> "", prometheusURL |-> "",
    storage |-> [backend |-> "", path |-> ""],
    auth |-> [provider |-> "local", sessionKey |-> "", users |-> {},
              ldap |-> [url |-> "ldaps", base |-> "dc", filter |-> "", startTLS |-> FALSE,
                        plaintextAllowed |-> FALSE, mapping |-> FALSE],
              oidc |-> [issuer |-> "https", client |-> "portal", mapping |-> FALSE],
              admins |-> [users |-> {Root}, roles |-> {"admin"}, name |-> Root,
                          hash |-> Bcrypt("secret1")]],
    consul |-> [enabled |-> FALSE, prefix |-> ""],
    git |-> [enabled |-> FALSE, url |-> "", project |-> "", branch |-> "", token |-> ""],
    rebuild |-> [enabled |-> FALSE, url |-> "", token |-> "", environments |-> {<<"dev">>},
                 buildJobs |-> {[perEnvironment |-> TRUE]}, deployJobs |-> {},
                 branches |-> [e \in {<<"dev">>} |-> "main"]]]

AnEnvironment == [
    provider |-> "", sessionKey |-> "", bootstrapHash |-> NoHash, bootstrapPassword |-> "",
    lokiURL |-> "", prometheusURL |-> "", consulPrefix |-> "", gitURL |-> "", gitBranch |-> "", gitlabToken |-> "",
    rebuildToken |-> "", podNamespace |-> "portal"]

SignInQuestions ==
    {[kind |-> "start",
        file |-> [AFile EXCEPT !.auth.provider = provider, !.auth.users = users,
                    !.auth.admins = admins],
        env |-> [AnEnvironment EXCEPT !.provider = override, !.bootstrapHash = hash,
                           !.bootstrapPassword = password, !.sessionKey = key]] :
        provider \in {"", "ldap", "saml"}, override \in {"", "oidc"},
        users \in {{}} \cup {{User(n, h, {"dev"})} : n \in {NoName, RootAgain, Ops}, h \in SomeHashes}
       \cup {{User(Ops, Bcrypt("secret1"), {"dev"}), User(Root, Bcrypt("secret2"), {})}},
        admins \in [users : {{}, {RootAgain}, {Ops}}, roles : {{}, {"admin"}},
         name : {NoName, Root}, hash : SomeHashes],
        hash \in {NoHash, Bcrypt("secret3")}, password \in {"", "short", "secret3"},
        key \in {"", "short"}}

FeatureQuestions ==
    {[kind |-> "start",
        file |-> [AFile EXCEPT
            !.auth.provider = provider, !.inCluster = inCluster,
            !.auth.admins.name = IF breakGlass THEN @ ELSE NoName,
            !.auth.admins.hash = IF breakGlass THEN @ ELSE NoHash,
            !.auth.users = IF breakGlass THEN {} ELSE {User(Ops, Bcrypt("secret1"), {"dev"})},
            !.storage.backend = backend, !.consul = consul, !.rebuild = rebuild,
            !.git = [@ EXCEPT !.enabled = gitEnabled, !.url = url,
                   !.project = "configuration", !.branch = "main"]],
        env |-> [AnEnvironment EXCEPT
            !.lokiURL = loki, !.prometheusURL = prometheus, !.gitURL = newURL, !.gitlabToken = token,
            !.podNamespace = IF inCluster THEN "portal" ELSE ""]] :
        provider \in {"local", "oidc"}, breakGlass \in BOOLEAN, inCluster \in BOOLEAN,
        loki \in {"", "http://loki"}, prometheus \in {"", "http://prom"}, backend \in {"", "kubernetes"},
        consul \in [enabled : {TRUE}, prefix : {"", "config"}]
        \cup [enabled : {FALSE}, prefix : {""}],
        gitEnabled \in BOOLEAN, url \in {"", "gitlab1"}, newURL \in {"", "gitlab2"},
        token \in {"", "token"},
        rebuild \in [enabled : BOOLEAN, url : {"", "gitlab3"}, token : {""},
          environments : {{}, {<<"dev">>}},
          buildJobs : {{[perEnvironment |-> TRUE]}, {[perEnvironment |-> FALSE]}},
          deployJobs : {{}}, branches : {[e \in {<<"dev">>} |-> "main"]}]}

-----------------------------------------------------------------------------
(* What is read back: the audit trail, images and logs. *)

SomeLines ==
    {[time |-> t, namespace |-> ns, operation |-> IF ns = "a" THEN "pod-restart" ELSE "login",
      action |-> TRUE, kept |-> ns # "b"] : t \in 5..12, ns \in {NoNamespace, "a", "b"}}
    \cup {[time |-> 9, namespace |-> "", operation |-> "", action |-> FALSE, kept |-> TRUE]}

AuditRoles ==
    {Role(n, g, {}) :
        n \in {{}, {[namespace |-> "a", operations |-> {"audit-read"}]},
               {[namespace |-> Wildcard, operations |-> {Wildcard}]}},
        g \in {{}, {"audit-read"}}}

AuditQuestions(sources) ==
    {[kind |-> "audit", log |-> log, source |-> source, pause |-> pause,
      filter |-> [operation |-> operation, to |-> 0, from |-> from,
                  limit |-> limit],
      roles |-> {"first"}, model |-> [r \in {"first"} |-> role]] :
        log \in UpToTwo(SomeLines), role \in AuditRoles,
        source \in sources, limit \in {0, 1}, from \in {0, 8}, pause \in {0, 1},
        operation \in {"", "login"}}

Tags ==
    {environment \o marks \o last :
        environment \in {<<"dev">>, <<"v1">>, <<"pre", "-", "prod">>, <<"qa", "-", "eu">>},
        marks \in {<<>>, <<"-", "debug">>, <<"-", "3">>, <<"-", "3", "-", "debug">>},
        last \in {<<>>, <<"-">>, <<"-", "7">>, <<"-", "7", "debug">>}}

ImageQuestions ==
    {[kind |-> "image", host |-> host, project |-> project, tagged |-> tagged, tag |-> tag] :
        host \in {<<"registry">>, <<"registry", ".", "io">>, <<"registry", ":", "5000">>},
        project \in {<<"app">>, <<"group", "/", "app">>, <<"group", ".", "x", "/", "app">>},
        tag \in Tags \cup {<<>>, <<"dev", "debug", "-", "7">>, <<"-", "dev", "-", "7">>},
        tagged \in BOOLEAN}

Line(at, text) == [at |-> at, text |-> text]
SomeTexts ==
    {<<>>} \cup {<<Line(a, "x")>> : a \in 1..2}
    \cup {<<Line(ab[1], "x"), Line(ab[2], "y")>> :
              ab \in {t \in (1..3) \X (1..3) : t[1] <= t[2]}}

Log(readable, lines, cut, piece) ==
    [readable |-> readable, lines |-> lines, cut |-> cut, piece |-> piece]
SomeLogs ==
    {Log(FALSE, <<Line(1, "x")>>, 0, "none")}
    \cup {Log(TRUE, lines, cut, piece) : lines \in SomeTexts, cut \in 0..1, piece \in Pieces}
    \cup {Log(TRUE, lines, 2, "none") : lines \in SomeTexts}
OtherLogs ==
    {Log(FALSE, <<Line(1, "z")>>, 0, "none"), Log(TRUE, <<>>, 2, "none")}
    \cup {Log(TRUE, <<Line(1, "z"), Line(2, "z")>>, 1, piece) : piece \in Pieces}
    \cup {Log(TRUE, <<Line(a, "z"), Line(2, "z")>>, 2, "none") : a \in 1..2}

PodLogQuestions ==
    {[kind |-> "podLogs", tail |-> tail, pods |-> pods,
      logs |-> [p \in {"p1", "p2"} |-> IF p = "p1" THEN first ELSE second]] :
        first \in SomeLogs, second \in OtherLogs, tail \in 1..2,
        pods \in {<<"p1">>, <<"p1", "p2">>, <<"p2", "p1">>}}

LokiQuestions ==
    {[kind |-> "loki", namespace |-> "a", cluster |-> [p \in alive |-> apps[p]],
      alike |-> alike,
      streams |-> [namespace : {"a"}, pod : {"p.1"}, app : {apps["p.1"]},
                   container : {"main", "side"}]
                  \cup [namespace : {"a", "b"}, pod : {"p-1"}, app : {apps["p-1"]},
                        container : {"main"}],
      q |-> [app |-> app, pods |-> pods, pod |-> pod, scope |-> "", container |-> container]] :
        apps \in [{"p.1", "p-1"} -> {"", "web", "worker"}], alive \in SUBSET {"p.1", "p-1"},
        alike \in {{}, {<<"p.1", "p-1">>}}, app \in {"", "web"},
        pods \in {<<>>, <<"p.1">>, <<"p-1", "">>, <<"p.1", "p-1">>, <<"p.1", "gone">>, <<"", "">>},
        pod \in {"", "p-1"}, container \in {"", "main"}}

-----------------------------------------------------------------------------

MCQuestions == <<
    AccessQuestions, PathQuestions, SignInQuestions, FeatureQuestions,
    AuditQuestions({"loki"}), AuditQuestions({"pods"}), ImageQuestions, PodLogQuestions, LokiQuestions>>
MCDeployments == {{}, {"auditLog", "configurations", "metrics", "loki"}, {"metrics"}}
MCNamespaces == {"a", "b"}
MCPaths == SomePaths
MCEnvironments == {<<"dev">>, <<"pre">>, <<"pre", "-", "prod">>, <<"qa", "-", "eu">>}
MCNumbers == {"3", "7", "5000"}

-----------------------------------------------------------------------------
(* Reading back. *)

\* What Page says of its cursor: "Next is where the following page starts. Zero
\* once the horizon is reached."
PagesReachTheHorizon ==
    About("audit") =>
        \A e \in Expected :
            (\E k \in 1..Asked : e \in Trail[k].entries) \/ BelowACursor(e) \/ DashedInLoki(e)

\* What logql says of a global reader's query: "an empty branch matches the
\* entries with no namespace".
GlobalReadersSeeGlobalEntries ==
    About("audit") =>
        \A e \in Expected :
            (\E k \in 1..Asked : e \in Trail[k].entries) \/ BelowACursor(e) \/ PastTheLimit(e)
=============================================================================
