-------------------------------- MODULE Rbac --------------------------------
(***************************************************************************)
(* What a set of roles allows: the authorizer's answers (internal/rbac),   *)
(* the operations a role may name (internal/config/rbac.go), the gate each *)
(* endpoint puts before its handler (internal/api/server.go), and the      *)
(* pages that show somebody only what their roles reach.                   *)
(*                                                                         *)
(* A role is a record of grants.  Namespaces and operations are opaque but *)
(* for the wildcard.  A configuration path is a sequence of tokens, of     *)
(* which "/", "." and ".." mean something; the others are pieces of names, *)
(* so that one name can be the beginning of another.                       *)
(***************************************************************************)
EXTENDS Naturals, SequencesExt

Wildcard == "*"
EveryPath == <<Wildcard>>

-----------------------------------------------------------------------------
(* The operations. *)

NamespaceOperations ==
    {"logs", "describe", "metrics", "pod-restart", "helm-list", "helm-history",
     "helm-rollback", "helm-uninstall", "secret-list", "secret-read",
     "secret-create", "secret-update", "secret-delete", "audit-read",
     "image-rebuild", "pipeline-deploy"}

GlobalOperations == {"user-list", "user-manage", "access-restore", "audit-read"}

ConfigOperations == {"config-read", "config-write"}

AllOperations == NamespaceOperations \cup GlobalOperations \cup ConfigOperations

\* Mutant: every operation is offered, whether or not its feature is on.
OperationsRegardless(features) == AllOperations

\* What a role may be given where only these features are on.
Operations(features) ==
    {op \in AllOperations :
        /\ op = "audit-read" => features \cap {"loki", "inCluster"} # {}
        /\ op \in ConfigOperations => "configurations" \in features
        /\ op \in {"image-rebuild", "pipeline-deploy"} => "imageRebuild" \in features}

-----------------------------------------------------------------------------
(* Roles: what is granted per namespace, globally and per path. *)

RoleSpecs(namespaces, paths, opSets) ==
    [namespaces : SUBSET [namespace : namespaces, operations : opSets],
     global : opSets,
     configs : SUBSET [path : paths, operations : opSets]]

\* A grant for a feature that is off is no mistake; a name no build knows is.
ValidRole(spec, declared) ==
    LET known == {Wildcard} \cup declared \cup AllOperations IN
    /\ spec.global \subseteq known
    /\ \A g \in spec.configs : g.path # <<>> /\ g.operations \subseteq known
    /\ \A g \in spec.namespaces : g.namespace # "" /\ g.operations \subseteq known

-----------------------------------------------------------------------------
(* The authorizer's answers.  model is a function from the roles that exist. *)

HasOp(ops, op) == Wildcard \in ops \/ op \in ops

\* A name that is no role any more grants nothing.
Held(model, roles) == {model[r] : r \in roles \cap DOMAIN model}

NamespaceGrants(model, roles) == UNION {spec.namespaces : spec \in Held(model, roles)}
ConfigGrants(model, roles) == UNION {spec.configs : spec \in Held(model, roles)}

Allowed(model, roles, namespace, op) ==
    \E g \in NamespaceGrants(model, roles) :
        g.namespace \in {Wildcard, namespace} /\ HasOp(g.operations, op)

AllowedGlobal(model, roles, op) ==
    \E spec \in Held(model, roles) : HasOp(spec.global, op)

\* Paths without the slashes around them.
Trim(p) ==
    LET kept == {i \in DOMAIN p : p[i] # "/"} IN
    IF kept = {} THEN <<>>
    ELSE SubSeq(p, CHOOSE i \in kept : \A j \in kept : i <= j,
                   CHOOSE i \in kept : \A j \in kept : i >= j)

\* Mutant: by prefix of the string, not of its segments.
CoversByPrefix(grant, path) == grant = EveryPath \/ IsPrefix(Trim(grant), Trim(path))

Covers(grant, path) ==
    \/ grant = EveryPath
    \/ Trim(grant) = Trim(path)
    \/ IsPrefix(Append(Trim(grant), "/"), Trim(path))

AllowedConfig(model, roles, path, op) ==
    \E g \in ConfigGrants(model, roles) :
        Covers(g.path, path) /\ HasOp(g.operations, op)

\* A list with the wildcard is the wildcard alone.
Listed(places, wildcard) == IF wildcard \in places THEN {wildcard} ELSE places

VisibleConfigPaths(model, roles) ==
    Listed({g.path : g \in ConfigGrants(model, roles)}, EveryPath)

VisibleNamespaces(model, roles) ==
    Listed({g.namespace : g \in NamespaceGrants(model, roles)}, Wildcard)

\* Mutant: the namespaces somebody sees, whatever they may do there.
NamespacesForOpVisible(model, roles, op) == VisibleNamespaces(model, roles)

NamespacesForOp(model, roles, op) ==
    Listed({g.namespace : g \in {h \in NamespaceGrants(model, roles) :
                                     HasOp(h.operations, op)}}, Wildcard)

-----------------------------------------------------------------------------
(* The endpoints, each with its gate.  "signed-in" lets everybody in who is *)
(* signed in; "path" and "scope" are decided inside the handler.            *)

Endpoint(gate, op, feature, handlers) ==
    [handler : handlers, gate : {gate}, op : {op}, feature : {feature}]

Endpoints == UNION {
    Endpoint("signed-in", "none", "none", {"Me", "Namespaces"}),
    Endpoint("scope", "audit-read", "auditLog", {"AuditLog"}),
    Endpoint("global", "user-list", "none", {"Users", "ListRoles", "StorageStat"}),
    Endpoint("global", "access-restore", "none", {"Snapshot", "Restore"}),
    Endpoint("global", "user-manage", "none",
        {"CreateUser", "Invite", "SetRoles", "SetPassword", "DeleteUser", "SaveRole",
         "DeleteRole", "RoleMembership"}),
    Endpoint("global", "user-manage", "configurations", {"ConfigPaths"}),
    Endpoint("path", "config-read", "configurations", {"ListConfigs", "GetConfig"}),
    Endpoint("path", "config-write", "configurations", {"SaveConfig"}),
    Endpoint("namespace", "logs", "none",
        {"ListPods", "PodContainers", "PodLogs", "RolloutStatus", "WorkloadPods",
         "MultiPodLogs"}),
    Endpoint("namespace", "logs", "loki", {"LokiQuery"}),
    Endpoint("namespace", "describe", "none", {"DescribePod", "PodEvents"}),
    Endpoint("namespace", "metrics", "metrics", {"PodMetrics"}),
    Endpoint("namespace", "pod-restart", "none", {"RestartPod"}),
    Endpoint("namespace", "image-rebuild", "imageRebuild",
        {"RebuildImage", "BuildStatus", "PipelineStatus"}),
    Endpoint("namespace", "pipeline-deploy", "imageRebuild", {"StartPipeline", "PlayDeploy"}),
    Endpoint("namespace", "helm-list", "none", {"ListReleases"}),
    Endpoint("namespace", "helm-history", "none", {"ReleaseHistory"}),
    Endpoint("namespace", "helm-rollback", "none", {"Rollback"}),
    Endpoint("namespace", "helm-uninstall", "none", {"Uninstall"}),
    Endpoint("namespace", "secret-list", "none", {"ListSecrets"}),
    Endpoint("namespace", "secret-read", "none", {"GetSecret"}),
    Endpoint("namespace", "secret-create", "none", {"CreateSecret"}),
    Endpoint("namespace", "secret-update", "none", {"UpdateSecret"}),
    Endpoint("namespace", "secret-delete", "none", {"DeleteSecret"})}

\* What an audit reader may see.
AuditScope(model, roles) ==
    LET named == NamespacesForOp(model, roles, "audit-read") IN
    [global |-> AllowedGlobal(model, roles, "audit-read"),
     all |-> Wildcard \in named,
     namespaces |-> named \ {Wildcard}]

EmptyScope(scope) == ~scope.all /\ ~scope.global /\ scope.namespaces = {}

\* The segments of a path: where each begins and ends, and what it says.
SegmentsAt(p) ==
    {c \in (1..Len(p) + 1) \X (0..Len(p)) :
        /\ c[2] >= c[1] - 1
        /\ c[1] = 1 \/ p[c[1] - 1] = "/"
        /\ c[2] = Len(p) \/ p[c[2] + 1] = "/"
        /\ \A k \in c[1]..c[2] : p[k] # "/"}

Segments(p) == {SubSeq(p, c[1], c[2]) : c \in SegmentsAt(p)}

\* Whether a path stays under the root: no segment is empty, "." or "..".
Clean(p) ==
    LET path == Trim(p) IN
    path # <<>> /\ Segments(path) \cap {<<>>, <<".">>, <<"..">>} = {}

\* configRequest: the path in the form the grant is checked on and the source
\* is asked for.
ConfigRequest(model, roles, p, op) ==
    IF ~Clean(p) THEN [answer |-> "bad request"]
    ELSE IF ~AllowedConfig(model, roles, Trim(p), op) THEN [answer |-> "forbidden"]
    ELSE [answer |-> "served", path |-> Trim(p)]

\* requireOp and requireGlobalOp, and the scope the audit page works out.
Admits(model, roles, e, namespace) ==
    /\ e.gate = "namespace" => Allowed(model, roles, namespace, e.op)
    /\ e.gate = "global" => AllowedGlobal(model, roles, e.op)
    /\ e.gate = "scope" => ~EmptyScope(AuditScope(model, roles))

\* What a handler looks for itself, behind the gate: its client of Prometheus or Loki.
Clients == {"metrics", "loki"}

\* What a request for e meets before its handler does anything, at a namespace
\* or at a path.
Gate(model, roles, features, e, namespace, path) ==
    LET off == e.feature \notin features \cup {"none"} IN
    IF off /\ e.feature \notin Clients THEN "off"
    ELSE IF ~Admits(model, roles, e, namespace) THEN "forbidden"
    ELSE IF off THEN "off"
    ELSE IF e.gate = "path" /\ e.handler # "ListConfigs"
    THEN ConfigRequest(model, roles, path, e.op).answer
    ELSE "served"

\* The entries handleListConfigs shows.
ListConfigs(model, roles, entries) ==
    {[path |-> p, writable |-> AllowedConfig(model, roles, p, "config-write")] :
        p \in {q \in entries : AllowedConfig(model, roles, q, "config-read")}}

\* Mutant: a deployment with the feature, whatever this person was granted.
CapabilitiesOfDeployment(model, roles, features) ==
    {c \in {"configurations", "audit", "metrics", "loki"} :
        (IF c = "audit" THEN "auditLog" ELSE c) \in features}

\* What handleMe tells the browser to put in the menu, and on a pod's page.
Capabilities(model, roles, features) ==
    {c \in {"users", "manageUsers", "configurations", "audit", "accessRestore"} \cup Clients :
        CASE c \in Clients -> c \in features
          [] c = "users" -> AllowedGlobal(model, roles, "user-list")
          [] c = "manageUsers" -> AllowedGlobal(model, roles, "user-manage")
          [] c = "accessRestore" -> AllowedGlobal(model, roles, "access-restore")
          [] c = "configurations" -> /\ "configurations" \in features
                                     /\ VisibleConfigPaths(model, roles) # {}
          [] c = "audit" -> /\ "auditLog" \in features
                            /\ ~EmptyScope(AuditScope(model, roles))}

\* The namespaces handleNamespaces shows: the cluster's for a wildcard, if they
\* can be listed.
NamespacePage(model, roles, listable, cluster) ==
    LET visible == VisibleNamespaces(model, roles) IN
    IF visible = {Wildcard}
    THEN [namespaces |-> IF listable THEN cluster ELSE {}, wildcard |-> TRUE]
    ELSE [namespaces |-> visible, wildcard |-> FALSE]

\* The folders and entries the role editor offers.
Suggestions(entries) ==
    entries \cup UNION {{SubSeq(p, 1, i - 1) : i \in {j \in 2..Len(p) : p[j] = "/"}} :
                           p \in entries}
=============================================================================
