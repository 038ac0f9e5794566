----------------------------- MODULE ConfigFile -----------------------------
(***************************************************************************)
(* From the configuration file and the environment to a running service:   *)
(* config.Load (overrides, break-glass password, defaults, validation),    *)
(* auth.New and the parts main wires from what was accepted.               *)
(*                                                                         *)
(* A setting that is not written is "".  A name carries what it is when    *)
(* case and outer blanks are disregarded.  A password hash is the password *)
(* it was made from and the form it has.                                   *)
(***************************************************************************)
EXTENDS Naturals, FiniteSets

NoName == [is |-> "", spelt |-> 0]
SameName(a, b) == a.is = b.is

NoHash == [of |-> "", form |-> "none"]
Bcrypt(password) == [of |-> password, form |-> "good"]

\* A truncated hash, or one with characters bcrypt never emits, is a hash that
\* no password matches.
CheckBcryptHash(hash) == hash.form = "good"
Matches(hash, password) == hash.form = "good" /\ hash.of = password

LogLevels == {"", "debug", "info", "warn", "error"}

\* What a file says, of rebuilds in these environments, some of which have a branch,
\* and what the service finds in its environment.
Names == [is : STRING, spelt : Nat]
Hashes == [of : STRING, form : STRING]
Accounts == [name : Names, hash : Hashes, roles : SUBSET STRING]
Administrators == [users : SUBSET Names, roles : SUBSET STRING, name : Names, hash : Hashes]
Jobs == [perEnvironment : BOOLEAN]

Files(environments, branched) == [
    logLevel : STRING, inCluster : BOOLEAN, lokiURL : STRING, prometheusURL : STRING,
    storage : [backend : STRING, path : STRING],
    auth : [provider : STRING, sessionKey : STRING, users : SUBSET Accounts,
            ldap : [url : STRING, base : STRING, filter : STRING, startTLS : BOOLEAN,
                    plaintextAllowed : BOOLEAN, mapping : BOOLEAN],
            oidc : [issuer : STRING, client : STRING, mapping : BOOLEAN],
            admins : Administrators],
    consul : [enabled : BOOLEAN, prefix : STRING],
    git : [enabled : BOOLEAN, url : STRING, project : STRING, branch : STRING,
           token : STRING],
    rebuild : [enabled : BOOLEAN, url : STRING, token : STRING,
               environments : SUBSET environments,
               buildJobs : SUBSET Jobs, deployJobs : SUBSET Jobs,
               branches : [branched -> STRING]]]

Variables == [
    provider : STRING, sessionKey : STRING, bootstrapHash : Hashes,
    bootstrapPassword : STRING, lokiURL : STRING, prometheusURL : STRING,
    consulPrefix : STRING, gitURL : STRING, gitBranch : STRING, gitlabToken : STRING, rebuildToken : STRING, podNamespace : STRING]

-----------------------------------------------------------------------------
(* What the environment changes. *)

Set(setting, variable) == IF variable = "" THEN setting ELSE variable

\* The variables that replace other settings do it the same way.  The rebuild
\* falls back to the address in the file: the variable that replaces that
\* address is read later.
ApplyEnvOverrides(c, env) ==
    [c EXCEPT
        !.auth.provider = Set(@, env.provider),
        !.auth.sessionKey = env.sessionKey,
        !.auth.admins.hash = IF env.bootstrapHash = NoHash THEN @ ELSE env.bootstrapHash,
        !.lokiURL = Set(@, env.lokiURL),
        !.prometheusURL = Set(@, env.prometheusURL),
        !.consul.prefix = Set(@, env.consulPrefix),
        !.git = [@ EXCEPT !.url = Set(@, env.gitURL), !.branch = Set(@, env.gitBranch),
                          !.token = env.gitlabToken],
        !.rebuild = [@ EXCEPT
            !.url = IF @ = "" THEN c.git.url ELSE @,
            !.token = IF env.rebuildToken = "" THEN env.gitlabToken ELSE env.rebuildToken]]

\* Two ways to give one password are refused rather than one of them chosen.
BootstrapPasswordOK(c, env) ==
    env.bootstrapPassword # "" => /\ c.auth.admins.hash = NoHash
                                  /\ env.bootstrapPassword # "short"

ApplyBootstrapPassword(c, env) ==
    IF env.bootstrapPassword = "" THEN c
    ELSE [c EXCEPT !.auth.admins.hash = Bcrypt(env.bootstrapPassword)]

ApplyDefaults(c) ==
    [c EXCEPT !.auth.provider = IF @ = "" THEN "local" ELSE @,
              !.auth.ldap.filter = IF @ = "" THEN "(uid=%s)" ELSE @,
              !.storage.path = IF @ = "" THEN "/data/devops-tools.json" ELSE @]

-----------------------------------------------------------------------------
(* What is refused. *)

Kind(storage) == IF storage.backend = "" THEN "file" ELSE storage.backend

StorageOK(c) ==
    \/ Kind(c.storage) = "file" /\ c.storage.path # ""
    \/ Kind(c.storage) = "kubernetes" /\ c.inCluster

\* The break-glass sign-in is configured.
Enabled(admins) == admins.name # NoName /\ admins.hash # NoHash

\* Whoever the deployment itself makes an administrator.
Grants(admins, name) ==
    admins.roles # {} /\ \E u \in admins.users : SameName(u, name)

LocalOK(auth) ==
    /\ auth.users = {} => Enabled(auth.admins)
    /\ \A u \in auth.users : u.name # NoName /\ CheckBcryptHash(u.hash)

LDAPOK(ldap) ==
    /\ ldap.url # "" /\ ldap.base # ""
    /\ ldap.filter # "no placeholder"
    /\ ldap.url = "ldap" => ldap.startTLS \/ ldap.plaintextAllowed
    /\ ~ldap.mapping

\* Mutant: the list of administrators is not asked for.
OIDCOKUnadministered(auth) ==
    auth.oidc.issuer # "" /\ auth.oidc.client # "" /\ ~auth.oidc.mapping

OIDCOK(auth) ==
    /\ auth.oidc.issuer # "" /\ auth.oidc.client # ""
    /\ ~auth.oidc.mapping
    /\ auth.admins.users # {} \/ Enabled(auth.admins)

ProviderOK(auth) ==
    \/ auth.provider = "local" /\ LocalOK(auth)
    \/ auth.provider = "ldap" /\ LDAPOK(auth.ldap)
    \/ auth.provider = "oidc" /\ OIDCOK(auth)

\* Half a break-glass account is refused, and so is one that opens nothing.
BootstrapOK(admins) ==
    /\ admins.users # {} => admins.roles # {}
    /\ admins.name # NoName \/ admins.hash # NoHash =>
          /\ Enabled(admins)
          /\ CheckBcryptHash(admins.hash)
          /\ Grants(admins, admins.name)

GitOK(git) ==
    git.enabled => git.url # "" /\ git.project # "" /\ git.branch # "" /\ git.token # ""

ConsulOK(consul) == consul.enabled => consul.prefix # ""

\* A job name without the environment in it is the same job for every one.
RebuildOK(rebuild) ==
    rebuild.enabled =>
        /\ rebuild.url # "" /\ rebuild.token # ""
        /\ rebuild.environments # {} /\ rebuild.buildJobs # {}
        /\ \A job \in rebuild.buildJobs \cup rebuild.deployJobs : job.perEnvironment
        /\ rebuild.environments \subseteq DOMAIN rebuild.branches

Validate(c) ==
    /\ c.logLevel \in LogLevels
    /\ StorageOK(c)
    /\ ProviderOK(c.auth)
    /\ BootstrapOK(c.auth.admins)
    /\ ConsulOK(c.consul) /\ GitOK(c.git)
    /\ RebuildOK(c.rebuild)

\* What a file and an environment come to, and whether the service starts.
Settled(file, env) ==
    ApplyDefaults(ApplyBootstrapPassword(ApplyEnvOverrides(file, env), env))

Load(file, env) ==
    /\ BootstrapPasswordOK(ApplyEnvOverrides(file, env), env)
    /\ Validate(Settled(file, env))

-----------------------------------------------------------------------------
(* The running service. *)

SessionKeyOK(auth) == auth.sessionKey # "short"

\* Mutant: under a token provider nothing is signed here.
SessionsWithoutBreakGlass(auth) == auth.provider # "oidc"

\* Whether this deployment signs tokens itself.
Sessions(auth) == auth.provider = "oidc" => Enabled(auth.admins)

\* auth.New: a key too short to sign with, or one name for two accounts, stops it.
NewOK(auth) ==
    /\ Sessions(auth) => SessionKeyOK(auth)
    /\ auth.provider = "local" =>
          \A u, v \in auth.users : SameName(u.name, v.name) => u = v

\* accessBackend: a Secret is kept in the namespace the pod says it is in.
BackendOK(c, env) == Kind(c.storage) = "kubernetes" => env.podNamespace # ""

Starts(file, env) ==
    LET c == Settled(file, env) IN
    Load(file, env) /\ NewOK(c.auth) /\ BackendOK(c, env)

\* The break-glass account, tried before the provider is.
BootstrapLogin(auth, name, password) ==
    /\ Enabled(auth.admins) /\ Sessions(auth)
    /\ SameName(name, auth.admins.name)
    /\ Matches(auth.admins.hash, password)

\* An account of the configuration, where the portal holds none of that name.
LocalLogin(auth, name, password) ==
    /\ auth.provider = "local"
    /\ \E u \in auth.users : SameName(u.name, name) /\ Matches(u.hash, password)

\* A provider's own accounts are outside; this is what signs in here.
SignsIn(auth, name, password) ==
    BootstrapLogin(auth, name, password) \/ LocalLogin(auth, name, password)

\* The roles of somebody of whom the store knows nothing but the sign-in.
FirstRoles(auth, name) ==
    UNION ({u.roles : u \in {v \in auth.users :
                auth.provider = "local" /\ SameName(v.name, name)}}
           \cup {IF Grants(auth.admins, name) THEN auth.admins.roles ELSE {}})

\* IssueTicket needs the key that sessions are signed with.
IssuesTickets(auth) == Sessions(auth)

\* The side the Configurations page reads and writes.
ConfigSource(c) ==
    CASE c.git.enabled /\ c.consul.enabled -> "git+consul"
      [] c.git.enabled -> "git"
      [] c.consul.enabled -> "consul"
      [] OTHER -> "none"

\* The audit trail: Loki if there is one, the service's own pods if not, and
\* neither when the pod cannot say which it is.
AuditSource(c, env) ==
    IF env.podNamespace = "" THEN "none" ELSE IF c.lokiURL # "" THEN "loki" ELSE "pods"

\* What config.Operations looks at, and what main makes of the same settings.
Offered(c) ==
    {f \in {"loki", "inCluster", "configurations", "imageRebuild"} :
        CASE f = "loki" -> c.lokiURL # ""
          [] f = "inCluster" -> c.inCluster
          [] f = "configurations" -> c.consul.enabled \/ c.git.enabled
          [] f = "imageRebuild" -> c.rebuild.enabled}

Served(c, env) ==
    {f \in {"auditLog", "metrics", "loki", "configurations", "imageRebuild"} :
        CASE f = "auditLog" -> AuditSource(c, env) # "none"
          [] f = "metrics" -> c.prometheusURL # ""
          [] f = "loki" -> c.lokiURL # ""
          [] f = "configurations" -> ConfigSource(c) # "none"
          [] f = "imageRebuild" -> c.rebuild.enabled}
=============================================================================
