-------------------------- MODULE DecisionsProofs --------------------------
(***************************************************************************)
(* For any roles, namespaces, paths, settings and variables: lists agree   *)
(* with checks, menus with gates and offers with what is served, a grant   *)
(* on a path opens what is under it, what is accepted of a configuration   *)
(* locks nobody out, and the pages of any trail show their reader's scope, *)
(* once and whole.  There is no state to keep an invariant of but the      *)
(* question (QuestionsInv, PathsInv, TrailsInv).                           *)
(***************************************************************************)
EXTENDS Decisions, FiniteSetTheorems, SequenceTheorems, WellFoundedInduction, TLAPS

-----------------------------------------------------------------------------
(* Access. *)

LEMMA ListsAgree == ListsAgreeWithChecks
  BY DEF ListsAgreeWithChecks, Allowed, NamespacesForOp, VisibleNamespaces, Listed

\* The endpoints behind the menu, each with its one gate.
LEMMA MenuEndpoints ==
  ASSUME NEW e \in Endpoints
  PROVE  /\ e.handler = "Users" =>
                e.gate = "global" /\ e.op = "user-list" /\ e.feature = "none"
         /\ e.handler = "CreateUser" =>
                e.gate = "global" /\ e.op = "user-manage" /\ e.feature = "none"
         /\ e.handler = "Snapshot" =>
                e.gate = "global" /\ e.op = "access-restore" /\ e.feature = "none"
         /\ e.handler = "AuditLog" =>
                e.gate = "scope" /\ e.op = "audit-read" /\ e.feature = "auditLog"
         /\ e.handler = "GetConfig" =>
                e.gate = "path" /\ e.op = "config-read" /\ e.feature = "configurations"
         /\ e.handler = "PodMetrics" =>
                e.gate = "namespace" /\ e.op = "metrics" /\ e.feature = "metrics"
         /\ e.handler = "LokiQuery" =>
                e.gate = "namespace" /\ e.op = "logs" /\ e.feature = "loki"
  BY DEF Endpoints, Endpoint

\* An endpoint for each operation, in the part of a role it is granted in.
At(handler, gate, op, feature) ==
    [handler |-> handler, gate |-> gate, op |-> op, feature |-> feature]

LEMMA SomeEndpoints ==
  /\ At("ListPods", "namespace", "logs", "none") \in Endpoints
  /\ At("DescribePod", "namespace", "describe", "none") \in Endpoints
  /\ At("PodMetrics", "namespace", "metrics", "metrics") \in Endpoints
  /\ At("LokiQuery", "namespace", "logs", "loki") \in Endpoints
  /\ At("RestartPod", "namespace", "pod-restart", "none") \in Endpoints
  /\ At("ListReleases", "namespace", "helm-list", "none") \in Endpoints
  /\ At("ReleaseHistory", "namespace", "helm-history", "none") \in Endpoints
  /\ At("Rollback", "namespace", "helm-rollback", "none") \in Endpoints
  /\ At("Uninstall", "namespace", "helm-uninstall", "none") \in Endpoints
  /\ At("ListSecrets", "namespace", "secret-list", "none") \in Endpoints
  /\ At("GetSecret", "namespace", "secret-read", "none") \in Endpoints
  /\ At("CreateSecret", "namespace", "secret-create", "none") \in Endpoints
  /\ At("UpdateSecret", "namespace", "secret-update", "none") \in Endpoints
  /\ At("DeleteSecret", "namespace", "secret-delete", "none") \in Endpoints
  /\ At("RebuildImage", "namespace", "image-rebuild", "imageRebuild") \in Endpoints
  /\ At("StartPipeline", "namespace", "pipeline-deploy", "imageRebuild") \in Endpoints
  /\ At("Users", "global", "user-list", "none") \in Endpoints
  /\ At("CreateUser", "global", "user-manage", "none") \in Endpoints
  /\ At("Snapshot", "global", "access-restore", "none") \in Endpoints
  /\ At("AuditLog", "scope", "audit-read", "auditLog") \in Endpoints
  /\ At("GetConfig", "path", "config-read", "configurations") \in Endpoints
  /\ At("SaveConfig", "path", "config-write", "configurations") \in Endpoints
  BY DEF Endpoints, Endpoint, At

\* What has to hold for a request to reach its handler's work.
LEMMA GateOpens ==
  ASSUME NEW model, NEW roles, NEW features, NEW e \in Endpoints, NEW ns, NEW path
  PROVE  Gate(model, roles, features, e, ns, path) = "served" <=>
             /\ e.feature \in features \cup {"none"}
             /\ Admits(model, roles, e, ns)
             /\ e.gate = "path" /\ e.handler # "ListConfigs" =>
                    ConfigRequest(model, roles, path, e.op).answer = "served"
  BY DEF Gate

\* A handler stands behind one gate.
LEMMA OneGateEach ==
  ASSUME NEW d \in Endpoints, NEW e \in Endpoints, d.handler = e.handler
  PROVE  d.gate = e.gate
  BY DEF Endpoints, Endpoint

LEMMA MenuMatches == MenuMatchesEndpoints
<1> SUFFICES ASSUME question.kind \in {"access", "path"}, NEW features \in Deployments
             PROVE  LET q == question
                        menu == Capabilities(q.model, q.roles, features)
                        Opens(handler, ns, path) ==
                            \E e \in Endpoints :
                                /\ e.handler = handler
                                /\ Gate(q.model, q.roles, features, e, ns, path) = "served"
                    IN
                    /\ "users" \in menu <=> Opens("Users", Elsewhere, <<>>)
                    /\ "manageUsers" \in menu <=> Opens("CreateUser", Elsewhere, <<>>)
                    /\ "accessRestore" \in menu <=> Opens("Snapshot", Elsewhere, <<>>)
                    /\ "audit" \in menu <=> Opens("AuditLog", Elsewhere, <<>>)
                    /\ About("path") /\ Opens("GetConfig", Elsewhere, q.path)
                           => "configurations" \in menu
                    /\ \A ns \in Namespaces :
                          /\ Opens("PodMetrics", ns, <<>>) <=>
                                 "metrics" \in menu /\ Allowed(q.model, q.roles, ns, "metrics")
                          /\ Opens("LokiQuery", ns, <<>>) <=>
                                 "loki" \in menu /\ Allowed(q.model, q.roles, ns, "logs")
                    /\ \A ns \in Namespaces :
                          (\E e \in Endpoints : e.gate = "namespace" /\ Opens(e.handler, ns, <<>>))
                          => ns \in NamespacePage(q.model, q.roles, TRUE, Namespaces).namespaces
  BY Zenon DEF MenuMatchesEndpoints
<1> DEFINE q == question
           menu == Capabilities(q.model, q.roles, features)
           Served1(e, ns, path) == Gate(q.model, q.roles, features, e, ns, path) = "served"
           Opens(handler, ns, path) == \E e \in Endpoints : e.handler = handler /\ Served1(e, ns, path)
<1>1. ASSUME NEW ns, NEW path, NEW e \in Endpoints
      PROVE  /\ e.handler = "Users" =>
                    (Served1(e, ns, path) <=> AllowedGlobal(q.model, q.roles, "user-list"))
             /\ e.handler = "CreateUser" =>
                    (Served1(e, ns, path) <=> AllowedGlobal(q.model, q.roles, "user-manage"))
             /\ e.handler = "Snapshot" =>
                    (Served1(e, ns, path) <=> AllowedGlobal(q.model, q.roles, "access-restore"))
             /\ e.handler = "AuditLog" =>
                    (Served1(e, ns, path) <=>
                        "auditLog" \in features /\ ~EmptyScope(AuditScope(q.model, q.roles)))
             /\ e.handler = "GetConfig" =>
                    (Served1(e, ns, path) <=>
                        /\ "configurations" \in features
                        /\ ConfigRequest(q.model, q.roles, path, "config-read").answer = "served")
             /\ e.handler = "PodMetrics" =>
                    (Served1(e, ns, path) <=>
                        "metrics" \in features /\ Allowed(q.model, q.roles, ns, "metrics"))
             /\ e.handler = "LokiQuery" =>
                    (Served1(e, ns, path) <=>
                        "loki" \in features /\ Allowed(q.model, q.roles, ns, "logs"))
             /\ Served1(e, ns, path) /\ e.gate = "namespace" => Allowed(q.model, q.roles, ns, e.op)
  <2>1. Served1(e, ns, path) <=>
            /\ e.feature \in features \cup {"none"}
            /\ Admits(q.model, q.roles, e, ns)
            /\ e.gate = "path" /\ e.handler # "ListConfigs" =>
                   ConfigRequest(q.model, q.roles, path, e.op).answer = "served"
    BY GateOpens
  <2> HIDE DEF Served1
  <2>2. CASE e.gate = "global"
    <3>1. Admits(q.model, q.roles, e, ns) <=> AllowedGlobal(q.model, q.roles, e.op)
      BY <2>2 DEF Admits
    <3> QED BY <2>1, <2>2, <3>1, MenuEndpoints
  <2>3. CASE e.gate = "scope"
    <3>1. Admits(q.model, q.roles, e, ns) <=> ~EmptyScope(AuditScope(q.model, q.roles))
      BY <2>3 DEF Admits
    <3> QED BY <2>1, <2>3, <3>1, MenuEndpoints
  <2>4. CASE e.gate = "path"
    <3>1. Admits(q.model, q.roles, e, ns)
      BY <2>4 DEF Admits
    <3> QED BY <2>1, <2>4, <3>1, MenuEndpoints
  <2>5. CASE e.gate = "namespace"
    <3>1. Admits(q.model, q.roles, e, ns) <=> Allowed(q.model, q.roles, ns, e.op)
      BY <2>5 DEF Admits
    <3> QED BY <2>1, <2>5, <3>1, MenuEndpoints
  <2>6. CASE e.gate \notin {"global", "scope", "path", "namespace"}
    BY <2>6, MenuEndpoints
  <2> QED BY <2>2, <2>3, <2>4, <2>5, <2>6
<1>2. \A h \in {"Users", "CreateUser", "Snapshot", "AuditLog", "GetConfig", "PodMetrics",
                "LokiQuery"} : \E e \in Endpoints : e.handler = h
  BY SomeEndpoints DEF At
<1>3. /\ "users" \in menu <=> AllowedGlobal(q.model, q.roles, "user-list")
      /\ "manageUsers" \in menu <=> AllowedGlobal(q.model, q.roles, "user-manage")
      /\ "accessRestore" \in menu <=> AllowedGlobal(q.model, q.roles, "access-restore")
      /\ "audit" \in menu <=> "auditLog" \in features /\ ~EmptyScope(AuditScope(q.model, q.roles))
      /\ "configurations" \in menu <=>
             "configurations" \in features /\ VisibleConfigPaths(q.model, q.roles) # {}
      /\ "metrics" \in menu <=> "metrics" \in features
      /\ "loki" \in menu <=> "loki" \in features
  BY DEF Capabilities, Clients
<1> HIDE DEF Served1
<1>4. /\ "users" \in menu <=> Opens("Users", Elsewhere, <<>>)
      /\ "manageUsers" \in menu <=> Opens("CreateUser", Elsewhere, <<>>)
      /\ "accessRestore" \in menu <=> Opens("Snapshot", Elsewhere, <<>>)
      /\ "audit" \in menu <=> Opens("AuditLog", Elsewhere, <<>>)
  <2> HIDE DEF menu
  <2> QED BY <1>1, <1>2, <1>3
<1>5. ASSUME Opens("GetConfig", Elsewhere, q.path)
      PROVE  "configurations" \in menu
  <2>1. /\ "configurations" \in features
        /\ ConfigRequest(q.model, q.roles, q.path, "config-read").answer = "served"
    BY <1>1, <1>5
  <2>2. AllowedConfig(q.model, q.roles, Trim(q.path), "config-read")
    BY <2>1 DEF ConfigRequest
  <2>3. ConfigGrants(q.model, q.roles) # {}
    BY <2>2 DEF AllowedConfig
  <2> QED BY <2>1, <2>3, <1>3 DEF VisibleConfigPaths, Listed
<1>6. \A ns \in Namespaces :
          /\ Opens("PodMetrics", ns, <<>>) <=>
                 "metrics" \in menu /\ Allowed(q.model, q.roles, ns, "metrics")
          /\ Opens("LokiQuery", ns, <<>>) <=>
                 "loki" \in menu /\ Allowed(q.model, q.roles, ns, "logs")
  <2> HIDE DEF menu
  <2> QED BY <1>1, <1>2, <1>3
<1>7. ASSUME NEW ns \in Namespaces, NEW e \in Endpoints, e.gate = "namespace",
             Opens(e.handler, ns, <<>>)
      PROVE  ns \in NamespacePage(q.model, q.roles, TRUE, Namespaces).namespaces
  <2>1. PICK d \in Endpoints : d.handler = e.handler /\ Served1(d, ns, <<>>)
    BY <1>7
  <2>2. d.gate = "namespace"
    BY <1>7, <2>1, OneGateEach
  <2>3. Allowed(q.model, q.roles, ns, d.op)
    BY <1>1, <2>1, <2>2
  <2>4. {ns, Wildcard} \cap VisibleNamespaces(q.model, q.roles) # {}
    BY <2>3 DEF Allowed, VisibleNamespaces, Listed
  <2>5. Wildcard \in VisibleNamespaces(q.model, q.roles)
           => VisibleNamespaces(q.model, q.roles) = {Wildcard}
    BY DEF VisibleNamespaces, Listed
  <2> QED BY <2>4, <2>5 DEF NamespacePage
<1>8. \A ns \in Namespaces :
          (\E e \in Endpoints : e.gate = "namespace" /\ Opens(e.handler, ns, <<>>))
          => ns \in NamespacePage(q.model, q.roles, TRUE, Namespaces).namespaces
  BY <1>7
<1> USE DEF Served1
<1> QED BY <1>4, <1>5, <1>6, <1>8, Zenon

-----------------------------------------------------------------------------
(* Paths. *)

\* The least and the greatest of some positions.
LEMMA Least ==
  ASSUME NEW S \in SUBSET Nat, S # {}
  PROVE  \E x \in S : \A y \in S : ~(y < x)
<1>1. \E x \in S : \A y \in S : ~(<<y, x>> \in OpToRel(<, Nat))
  BY NatLessThanWellFounded, WFMin
<1> QED BY <1>1 DEF OpToRel

LEMMA Greatest ==
  ASSUME NEW n \in Nat, NEW S, S \subseteq 0..n, S # {}
  PROVE  \E x \in S : \A y \in S : x >= y
<1> DEFINE From == {n - i : i \in S}
<1>1. From \in SUBSET Nat /\ From # {}
  <2>1. \A i \in S : n - i \in Nat
    OBVIOUS
  <2> QED BY <2>1
<1>2. PICK x \in From : \A y \in From : ~(y < x)
  <2> HIDE DEF From
  <2> QED BY <1>1, Least
<1>3. PICK i \in S : x = n - i
  OBVIOUS
<1>4. \A j \in S : i >= j
  <2> SUFFICES ASSUME NEW j \in S
               PROVE  i >= j
    OBVIOUS
  <2>1. n - j \in From
    OBVIOUS
  <2>2. ~(n - j < n - i)
    BY <1>2, <1>3, <2>1
  <2> QED BY <2>2
<1> QED BY <1>4

\* What is cut out of a sequence, and which sequences agree there.
LEMMA Cut ==
  ASSUME NEW S, NEW s \in Seq(S), NEW m \in Int, NEW n \in Int, m >= 1, n <= Len(s)
  PROVE  /\ SubSeq(s, m, n) \in Seq(S)
         /\ Len(SubSeq(s, m, n)) = IF m <= n THEN n - m + 1 ELSE 0
         /\ \A i \in 1..(n - m + 1) : SubSeq(s, m, n)[i] = s[m + i - 1]
<1>1. \A i \in m..n : s[i] \in S
  BY ElementOfSeq
<1> QED BY <1>1, SubSeqProperties

LEMMA OneCut ==
  ASSUME NEW S, NEW s \in Seq(S), NEW m \in 1..Len(s)
  PROVE  SubSeq(s, m, m) = <<s[m]>>
<1>1. /\ SubSeq(s, m, m) \in Seq(S)
      /\ Len(SubSeq(s, m, m)) = (IF m <= m THEN m - m + 1 ELSE 0)
      /\ \A k \in 1..(m - m + 1) : SubSeq(s, m, m)[k] = s[m + k - 1]
  <2>1. m \in Int /\ m >= 1 /\ m <= Len(s)
    OBVIOUS
  <2> QED BY <2>1, Cut
<1>2. Len(SubSeq(s, m, m)) = 1 /\ SubSeq(s, m, m)[1] = s[m + 1 - 1]
  <2>1. m <= m /\ m - m + 1 = 1 /\ 1 \in 1..(m - m + 1)
    OBVIOUS
  <2> QED BY <1>1, <2>1
<1>3. s[m] \in S /\ m + 1 - 1 = m
  BY ElementOfSeq
<1>4. <<s[m]>> \in Seq(S) /\ Len(<<s[m]>>) = 1 /\ <<s[m]>>[1] = s[m] /\ 1..1 = {1}
  BY <1>3
<1> QED BY <1>1, <1>2, <1>3, <1>4, SeqEqual

LEMMA SameCut ==
  ASSUME NEW S, NEW s \in Seq(S), NEW t \in Seq(S), NEW m \in Int, NEW n \in Int,
         m >= 1, n <= Len(s), n <= Len(t)
  PROVE  SubSeq(s, m, n) = SubSeq(t, m, n) <=> \A i \in m..n : s[i] = t[i]
<1>1. /\ SubSeq(s, m, n) \in Seq(S) /\ SubSeq(t, m, n) \in Seq(S)
      /\ Len(SubSeq(s, m, n)) = (IF m <= n THEN n - m + 1 ELSE 0)
      /\ Len(SubSeq(t, m, n)) = (IF m <= n THEN n - m + 1 ELSE 0)
      /\ \A i \in 1..(n - m + 1) : /\ SubSeq(s, m, n)[i] = s[m + i - 1]
                                  /\ SubSeq(t, m, n)[i] = t[m + i - 1]
  BY Cut
<1>2. ASSUME SubSeq(s, m, n) = SubSeq(t, m, n), NEW i \in m..n
      PROVE  s[i] = t[i]
  <2>1. i - m + 1 \in 1..(n - m + 1) /\ m + (i - m + 1) - 1 = i
    OBVIOUS
  <2> QED BY <1>1, <1>2, <2>1
<1>3. ASSUME \A i \in m..n : s[i] = t[i]
      PROVE  SubSeq(s, m, n) = SubSeq(t, m, n)
  <2>1. ASSUME NEW i \in 1..Len(SubSeq(s, m, n))
        PROVE  SubSeq(s, m, n)[i] = SubSeq(t, m, n)[i]
    <3>1. i \in 1..(n - m + 1) /\ m + i - 1 \in m..n
      BY <1>1
    <3> QED BY <1>1, <1>3, <3>1
  <2> QED BY <1>1, <2>1, SeqEqual
<1> QED BY <1>2, <1>3

\* A path without the slashes around it.
Trimmed(p) ==
    /\ p \in Seq(STRING)
    /\ p # <<>> => p[1] # "/" /\ p[Len(p)] # "/"

LEMMA TrimTrims ==
  ASSUME NEW p \in Seq(STRING)
  PROVE  Trimmed(Trim(p)) /\ (Trimmed(p) => Trim(p) = p)
<1> DEFINE kept == {i \in DOMAIN p : p[i] # "/"}
           first == CHOOSE i \in kept : \A j \in kept : i <= j
           last == CHOOSE i \in kept : \A j \in kept : i >= j
<1>1. Len(p) \in Nat /\ DOMAIN p = 1..Len(p)
  OBVIOUS
<1>2. CASE kept = {}
  <2>1. Trim(p) = <<>>
    BY <1>2 DEF Trim
  <2>2. Trimmed(p) => p = <<>>
    BY <1>1, <1>2 DEF Trimmed
  <2> QED BY <2>1, <2>2 DEF Trimmed
<1>3. CASE kept # {}
  <2>1. /\ first \in kept /\ \A j \in kept : first <= j
        /\ last \in kept /\ \A j \in kept : last >= j
    <3>1. kept \in SUBSET Nat /\ kept \subseteq 0..Len(p) /\ \A i \in kept : i \in Nat
      BY <1>1
    <3>2. \E i \in kept : \A j \in kept : i <= j
      <4> HIDE DEF kept
      <4>1. PICK i \in kept : \A j \in kept : ~(j < i)
        BY <1>3, <3>1, Least
      <4> QED BY <3>1, <4>1
    <3>3. \E i \in kept : \A j \in kept : i >= j
      <4> HIDE DEF kept
      <4> QED BY <1>1, <1>3, <3>1, Greatest
    <3> HIDE DEF kept
    <3> QED BY <3>2, <3>3
  <2>2. Trim(p) = SubSeq(p, first, last)
    BY <1>3 DEF Trim
  <2> HIDE DEF first, last
  <2>3. /\ first \in 1..Len(p) /\ last \in 1..Len(p) /\ first <= last
        /\ p[first] # "/" /\ p[last] # "/"
    BY <1>1, <2>1
  <2>4. /\ Trim(p) \in Seq(STRING) /\ Len(Trim(p)) = last - first + 1
        /\ \A i \in 1..(last - first + 1) : Trim(p)[i] = p[first + i - 1]
    BY <2>2, <2>3, Cut
  <2>5. Trimmed(Trim(p))
    <3>1. Trim(p)[1] = p[first] /\ Trim(p)[Len(Trim(p))] = p[last]
      BY <2>3, <2>4
    <3> QED BY <2>3, <2>4, <3>1 DEF Trimmed
  <2>6. Trimmed(p) => Trim(p) = p
    <3> SUFFICES ASSUME Trimmed(p)
                 PROVE  Trim(p) = p
      OBVIOUS
    <3>1. p # <<>>
      BY <2>3
    <3>2. 1 \in kept /\ Len(p) \in kept
      BY <1>1, <2>3, <3>1 DEF Trimmed
    <3>3. first = 1 /\ last = Len(p)
      BY <1>1, <2>1, <2>3, <3>2
    <3> QED BY <2>2, <3>3, SubSeqFull
  <2> QED BY <2>5, <2>6
<1> QED BY <1>2, <1>3

\* What makes a segment.
IsSegment(p, m, n) ==
    /\ m \in 1..(Len(p) + 1) /\ n \in 0..Len(p) /\ n >= m - 1
    /\ m = 1 \/ p[m - 1] = "/"
    /\ n = Len(p) \/ p[n + 1] = "/"
    /\ \A k \in m..n : p[k] # "/"

LEMMA SegmentIs ==
  ASSUME NEW p \in Seq(STRING), NEW m, NEW n
  PROVE  <<m, n>> \in SegmentsAt(p) <=> IsSegment(p, m, n)
  BY DEF SegmentsAt, IsSegment

\* A segment ends before every slash and at the end.
LEMMA SegmentBefore ==
  ASSUME NEW p \in Seq(STRING), NEW n \in 0..Len(p), n = Len(p) \/ p[n + 1] = "/"
  PROVE  \E m \in 1..(n + 1) : <<m, n>> \in SegmentsAt(p)
<1> DEFINE Slashes == {i \in 0..n : i = 0 \/ p[i] = "/"}
<1>1. n \in Nat /\ Slashes \subseteq 0..n /\ Slashes # {}
  OBVIOUS
<1>2. PICK s \in Slashes : \A i \in Slashes : s >= i
  <2> HIDE DEF Slashes
  <2> QED BY <1>1, Greatest
<1>3. <<s + 1, n>> \in SegmentsAt(p)
  <2>1. s + 1 \in 1..(Len(p) + 1) /\ n >= s + 1 - 1 /\ (s + 1 = 1 \/ p[s + 1 - 1] = "/")
    OBVIOUS
  <2>2. \A k \in (s + 1)..n : p[k] # "/"
    BY <1>2
  <2> QED BY <2>1, <2>2 DEF SegmentsAt
<1>4. s + 1 \in 1..(n + 1)
  BY <1>1
<1> QED BY <1>3, <1>4

\* And every other token is in one.
LEMMA SegmentAround ==
  ASSUME NEW p \in Seq(STRING), NEW i \in 1..Len(p), p[i] # "/"
  PROVE  \E c \in SegmentsAt(p) : i \in c[1]..c[2]
<1> DEFINE Ends == {n \in i..Len(p) : n = Len(p) \/ p[n + 1] = "/"}
<1>1. Ends \in SUBSET Nat /\ Ends # {}
  <2>1. Len(p) \in Ends
    OBVIOUS
  <2> QED BY <2>1
<1>2. PICK n \in Ends : \A e \in Ends : ~(e < n)
  <2> HIDE DEF Ends
  <2> QED BY <1>1, Least
<1>3. \A k \in i..n : p[k] # "/"
  <2> SUFFICES ASSUME NEW k \in i..n, p[k] = "/"
               PROVE  FALSE
    OBVIOUS
  <2>1. k # i /\ k - 1 \in i..Len(p) /\ (k - 1) + 1 = k /\ k - 1 < n
    OBVIOUS
  <2>2. k - 1 \in Ends
    BY <2>1
  <2> QED BY <1>2, <2>1, <2>2
<1>4. PICK m \in 1..(n + 1) : <<m, n>> \in SegmentsAt(p)
  BY <1>2, SegmentBefore
<1>5. m <= i
  <2>1. m = 1 \/ p[m - 1] = "/"
    BY <1>4 DEF SegmentsAt
  <2>2. ~(m - 1 \in i..n)
    BY <1>3, <2>1
  <2> QED BY <2>2
<1>6. i \in m..n /\ <<m, n>>[1] = m /\ <<m, n>>[2] = n
  BY <1>5
<1> QED BY <1>4, <1>6

\* A path that goes on with a slash after another one.
LEMMA GoesOnWithSlash ==
  ASSUME NEW g \in Seq(STRING), NEW p \in Seq(STRING)
  PROVE  IsPrefix(Append(g, "/"), p) <=>
             /\ Len(g) + 1 <= Len(p) /\ p[Len(g) + 1] = "/"
             /\ \A i \in 1..Len(g) : g[i] = p[i]
<1> DEFINE S == STRING \cup {"/"}
           slashed == Append(g, "/")
<1>1. /\ Len(g) \in Nat /\ Len(p) \in Nat
      /\ slashed \in Seq(S) /\ p \in Seq(S) /\ Len(slashed) = Len(g) + 1
      /\ \A i \in 1..Len(g) : slashed[i] = g[i]
      /\ slashed[Len(g) + 1] = "/"
  <2>1. g \in Seq(S) /\ p \in Seq(S) /\ "/" \in S
    OBVIOUS
  <2> HIDE DEF S
  <2> QED BY <2>1, AppendProperties
<1> HIDE DEF slashed, S
<1>2. IsPrefix(slashed, p) <=> /\ Len(g) + 1 <= Len(p)
                               /\ \A i \in 1..(Len(g) + 1) : slashed[i] = p[i]
  <2>1. CASE Len(g) + 1 <= Len(p)
    <3>1. SubSeq(slashed, 1, Len(g) + 1) = SubSeq(p, 1, Len(g) + 1)
              <=> \A i \in 1..(Len(g) + 1) : slashed[i] = p[i]
      BY <1>1, <2>1, SameCut
    <3> QED BY <1>1, <2>1, <3>1 DEF IsPrefix
  <2>2. CASE ~(Len(g) + 1 <= Len(p))
    BY <1>1, <2>2 DEF IsPrefix
  <2> QED BY <2>1, <2>2
<1>3. (\A i \in 1..(Len(g) + 1) : slashed[i] = p[i])
          <=> p[Len(g) + 1] = "/" /\ \A i \in 1..Len(g) : g[i] = p[i]
  BY <1>1
<1> QED BY <1>2, <1>3 DEF slashed

\* What Covers compares as strings is a comparison segment by segment: a path is the
\* grant's or goes on with a slash exactly if each of the grant's segments is the
\* path's segment at the same place.
LEMMA CoversBySegment ==
  ASSUME NEW g \in Seq(STRING), NEW p \in Seq(STRING)
  PROVE  (g = p \/ IsPrefix(Append(g, "/"), p)) <=> Above(g, p)
<1> DEFINE slashed == Append(g, "/")
           Agrees == \A i \in 1..Len(g) : g[i] = p[i]
<1>1. Len(g) \in Nat /\ Len(p) \in Nat
  OBVIOUS
<1>2. IsPrefix(slashed, p) <=> Len(g) + 1 <= Len(p) /\ Agrees /\ p[Len(g) + 1] = "/"
  BY GoesOnWithSlash
<1> HIDE DEF slashed
<1>3. ASSUME g = p \/ IsPrefix(slashed, p), NEW c \in SegmentsAt(g)
      PROVE  c \in SegmentsAt(p) /\ SubSeq(g, c[1], c[2]) = SubSeq(p, c[1], c[2])
  <2>1. CASE g = p
    BY <2>1
  <2>2. CASE IsPrefix(slashed, p)
    <3>1. Len(g) + 1 <= Len(p) /\ Agrees /\ p[Len(g) + 1] = "/"
      BY <1>2, <2>2
    <3>2. PICK m \in 1..(Len(g) + 1), n \in 0..Len(g) : c = <<m, n>>
      BY DEF SegmentsAt
    <3>3. /\ n >= m - 1
          /\ m = 1 \/ g[m - 1] = "/"
          /\ n = Len(g) \/ g[n + 1] = "/"
          /\ \A k \in m..n : g[k] # "/"
      BY <3>2, SegmentIs DEF IsSegment
    <3>4. /\ m = 1 \/ p[m - 1] = "/"
          /\ p[n + 1] = "/"
          /\ \A k \in m..n : p[k] = g[k]
      <4>1. m # 1 => m - 1 \in 1..Len(g)
        BY <1>1
      <4>2. n # Len(g) => n + 1 \in 1..Len(g)
        BY <1>1
      <4>3. \A k \in m..n : k \in 1..Len(g)
        BY <1>1
      <4> QED BY <3>1, <3>3, <4>1, <4>2, <4>3
    <3>5. <<m, n>> \in SegmentsAt(p)
      <4>1. m \in 1..(Len(p) + 1) /\ n \in 0..Len(p)
        BY <1>1, <3>1
      <4>2. IsSegment(p, m, n)
        BY <3>3, <3>4, <4>1 DEF IsSegment
      <4> QED BY <4>2, SegmentIs
    <3>6. SubSeq(g, m, n) = SubSeq(p, m, n)
      <4>1. m \in Int /\ n \in Int /\ m >= 1 /\ n <= Len(g) /\ n <= Len(p)
        BY <1>1, <3>1
      <4>2. \A k \in m..n : g[k] = p[k]
        BY <3>4
      <4> QED BY <4>1, <4>2, SameCut
    <3> QED BY <3>2, <3>5, <3>6
  <2> QED BY <1>3, <2>1, <2>2
<1>4. ASSUME Above(g, p)
      PROVE  g = p \/ IsPrefix(slashed, p)
  <2>1. ASSUME NEW m \in 1..(Len(g) + 1), NEW n \in 0..Len(g), <<m, n>> \in SegmentsAt(g)
        PROVE  /\ <<m, n>> \in SegmentsAt(p) /\ n <= Len(p)
               /\ \A i \in m..n : g[i] = p[i]
    <3>1. <<m, n>> \in SegmentsAt(p) /\ SubSeq(g, m, n) = SubSeq(p, m, n)
      BY <1>4, <2>1 DEF Above
    <3>2. n <= Len(p) /\ n <= Len(g) /\ m >= 1
      BY <1>1, <3>1, SegmentIs DEF IsSegment
    <3> QED BY <3>1, <3>2, SameCut
  <2>2. Len(g) <= Len(p) /\ (Len(g) = Len(p) \/ p[Len(g) + 1] = "/")
    <3>1. PICK m \in 1..(Len(g) + 1) : <<m, Len(g)>> \in SegmentsAt(g)
      <4>1. Len(g) \in 0..Len(g)
        BY <1>1
      <4> QED BY <4>1, SegmentBefore
    <3>2. <<m, Len(g)>> \in SegmentsAt(p) /\ Len(g) <= Len(p)
      BY <1>1, <2>1, <3>1
    <3> QED BY <3>2 DEF SegmentsAt
  <2>3. ASSUME NEW i \in 1..Len(g)
        PROVE  g[i] = p[i]
    <3>1. CASE g[i] = "/"
      <4>1. i - 1 \in 0..Len(g) /\ (i - 1) + 1 = i
        BY <1>1
      <4>2. PICK m \in 1..((i - 1) + 1) : <<m, i - 1>> \in SegmentsAt(g)
        BY <3>1, <4>1, SegmentBefore
      <4>3. <<m, i - 1>> \in SegmentsAt(p)
        <5>1. m \in 1..(Len(g) + 1)
          BY <1>1, <4>1, <4>2
        <5> QED BY <2>1, <4>1, <4>2, <5>1
      <4>4. i - 1 = Len(p) \/ p[(i - 1) + 1] = "/"
        BY <4>3 DEF SegmentsAt
      <4> QED BY <1>1, <2>2, <3>1, <4>1, <4>4
    <3>2. CASE g[i] # "/"
      <4>1. PICK c \in SegmentsAt(g) : i \in c[1]..c[2]
        BY <3>2, SegmentAround
      <4>2. PICK m \in 1..(Len(g) + 1), n \in 0..Len(g) : c = <<m, n>>
        BY DEF SegmentsAt
      <4> QED BY <2>1, <4>1, <4>2
    <3> QED BY <3>1, <3>2
  <2>4. CASE Len(g) = Len(p)
    BY <2>3, <2>4, SeqEqual
  <2>5. CASE p[Len(g) + 1] = "/" /\ Len(g) # Len(p)
    BY <1>1, <1>2, <2>2, <2>3, <2>5
  <2> QED BY <2>2, <2>4, <2>5
<1> QED BY <1>3, <1>4 DEF Above, slashed

\* No segment is empty or leads elsewhere exactly if no two slashes meet and no dots
\* stand between them.
LEMMA CleanIsCanonical ==
  ASSUME NEW p, Trimmed(p)
  PROVE  p # <<>> /\ Segments(p) \cap {<<>>, <<".">>, <<"..">>} = {} <=> Canonical(p)
<1> DEFINE Odd == {<<>>, <<".">>, <<"..">>}
<1>1. p \in Seq(STRING) /\ Len(p) \in Nat /\ DOMAIN p = 1..Len(p)
  BY DEF Trimmed
<1>2. ASSUME p # <<>>, Segments(p) \cap Odd = {}, NEW i \in 1..Len(p)
      PROVE  /\ p[i] = "/" => i # 1 /\ i # Len(p) /\ p[i + 1] # "/"
             /\ p[i] \in {".", ".."} => \/ i # 1 /\ p[i - 1] # "/"
                                        \/ i # Len(p) /\ p[i + 1] # "/"
  <2>1. ASSUME NEW c \in SegmentsAt(p)
        PROVE  SubSeq(p, c[1], c[2]) \notin Odd
    <3>1. SubSeq(p, c[1], c[2]) \in Segments(p)
      BY DEF Segments
    <3> HIDE DEF Odd
    <3> QED BY <1>2, <3>1
  <2>2. CASE p[i] = "/"
    <3>1. i # 1 /\ i # Len(p)
      BY <1>2, <2>2 DEF Trimmed
    <3>2. p[i + 1] # "/"
      <4> SUFFICES ASSUME p[i + 1] = "/"
                   PROVE  FALSE
        OBVIOUS
      <4>1. <<i + 1, i>> \in SegmentsAt(p)
        <5>1. i + 1 \in 1..(Len(p) + 1) /\ i \in 0..Len(p) /\ i >= (i + 1) - 1 /\ (i + 1) - 1 = i
          BY <1>1
        <5>2. \A k \in (i + 1)..i : p[k] # "/"
          BY <1>1
        <5>3. IsSegment(p, i + 1, i)
          BY <2>2, <5>1, <5>2 DEF IsSegment
        <5> QED BY <1>1, <5>3, SegmentIs
      <4>2. SubSeq(p, i + 1, i) = <<>>
        BY SubSeqEmpty
      <4>3. SubSeq(p, i + 1, i) \notin Odd
        BY <2>1, <4>1
      <4> QED BY <4>2, <4>3
    <3> QED BY <2>2, <3>1, <3>2
  <2>3. /\ i \in 1..(Len(p) + 1) /\ i \in 0..Len(p) /\ i >= i - 1
        /\ i \in Int /\ i >= 1 /\ i <= Len(p) /\ i - i + 1 = 1 /\ i + 1 - 1 = i
    BY <1>1
  <2>4. CASE p[i] \in {".", ".."}
    <3> SUFFICES ASSUME i = 1 \/ p[i - 1] = "/", i = Len(p) \/ p[i + 1] = "/"
                 PROVE  FALSE
      BY <2>4
    <3>1. <<i, i>> \in SegmentsAt(p)
      <4>1. \A k \in i..i : p[k] # "/"
        BY <2>4
      <4>2. IsSegment(p, i, i)
        BY <2>3, <4>1 DEF IsSegment
      <4> QED BY <1>1, <4>2, SegmentIs
    <3>2. SubSeq(p, i, i) \notin Odd
      BY <2>1, <3>1
    <3>3. SubSeq(p, i, i) = <<p[i]>>
      BY <1>1, OneCut
    <3> QED BY <2>4, <3>2, <3>3
  <2> QED BY <2>2, <2>4
<1>3. ASSUME Canonical(p), NEW c \in SegmentsAt(p)
      PROVE  SubSeq(p, c[1], c[2]) \notin Odd
  <2>1. PICK m \in 1..(Len(p) + 1), n \in 0..Len(p) : c = <<m, n>>
    BY DEF SegmentsAt
  <2>2. /\ n >= m - 1
        /\ m = 1 \/ p[m - 1] = "/"
        /\ n = Len(p) \/ p[n + 1] = "/"
    BY <1>1, <2>1, SegmentIs DEF IsSegment
  <2>3. /\ SubSeq(p, m, n) \in Seq(STRING)
        /\ Len(SubSeq(p, m, n)) = (IF m <= n THEN n - m + 1 ELSE 0)
        /\ \A i \in 1..(n - m + 1) : SubSeq(p, m, n)[i] = p[m + i - 1]
    BY <1>1, <2>1, Cut
  <2>4. SubSeq(p, m, n) # <<>>
    <3> SUFFICES ASSUME SubSeq(p, m, n) = <<>>
                 PROVE  FALSE
      OBVIOUS
    <3>1. m = n + 1
      BY <2>1, <2>2, <2>3
    <3>2. p # <<>> /\ Len(p) # 0
      BY <1>1, <1>3 DEF Canonical
    <3>3. CASE n = 0
      <4>1. p[1] = "/" /\ 1 \in 1..Len(p)
        BY <1>1, <2>2, <3>2, <3>3
      <4> QED BY <1>1, <1>3, <4>1 DEF Canonical
    <3>4. CASE n # 0
      <4>1. n \in 1..Len(p) /\ p[n] = "/"
        <5>1. m # 1 /\ m - 1 = n
          BY <3>1, <3>4
        <5>2. n \in 1..Len(p)
          BY <1>1, <2>1, <3>4
        <5> QED BY <2>2, <5>1, <5>2
      <4>2. n # Len(p) /\ p[n + 1] # "/"
        BY <1>1, <1>3, <4>1 DEF Canonical
      <4> QED BY <2>2, <4>2
    <3> QED BY <3>3, <3>4
  <2>5. ASSUME NEW dots \in {".", ".."}, SubSeq(p, m, n) = <<dots>>
        PROVE  FALSE
    <3>1. m = n /\ p[m] = dots
      <4>1. Len(SubSeq(p, m, n)) = 1 /\ SubSeq(p, m, n)[1] = dots
        BY <2>5
      <4>2. n - m + 1 = 1
        BY <2>1, <2>3, <4>1
      <4>3. m = n
        BY <4>2
      <4> QED BY <2>3, <4>1, <4>3
    <3>2. m \in 1..Len(p)
      BY <2>1, <3>1
    <3> QED BY <1>1, <1>3, <2>2, <3>1, <3>2 DEF Canonical
  <2> QED BY <2>1, <2>4, <2>5
<1>4. Canonical(p) => p # <<>> /\ Segments(p) \cap Odd = {}
  <2> SUFFICES ASSUME Canonical(p)
               PROVE  Segments(p) \cap Odd = {}
    BY DEF Canonical
  <2> HIDE DEF Odd
  <2> QED BY <1>3 DEF Segments
<1>5. p # <<>> /\ Segments(p) \cap Odd = {} => Canonical(p)
  BY <1>1, <1>2 DEF Canonical
<1> QED BY <1>4, <1>5

\* So a grant reaches a path exactly if it is the wildcard or a folder above it.
LEMMA GrantReaches ==
  ASSUME NEW g \in Seq(STRING), NEW p \in Seq(STRING)
  PROVE  Covers(g, p) <=> g = EveryPath \/ Above(Trim(g), Trim(p))
<1>1. Trim(g) \in Seq(STRING) /\ Trim(p) \in Seq(STRING)
  BY TrimTrims DEF Trimmed
<1> QED BY <1>1, CoversBySegment DEF Covers

\* The path in the form a request is checked on is that of every later check.
LEMMA PathIsSettled ==
  ASSUME NEW p \in Seq(STRING)
  PROVE  /\ Trim(p) \in Seq(STRING) /\ Trim(Trim(p)) = Trim(p)
         /\ Clean(p) <=> Canonical(Trim(p))
<1>1. Trimmed(Trim(p)) /\ Trim(p) \in Seq(STRING)
  BY TrimTrims DEF Trimmed
<1>2. Trim(Trim(p)) = Trim(p)
  BY <1>1, TrimTrims
<1>3. Clean(p) <=> Canonical(Trim(p))
  BY <1>1, CleanIsCanonical DEF Clean
<1> QED BY <1>1, <1>2, <1>3

\* What is suggested for an entry needs no trimming, and reaches the entry.
LEMMA SuggestionsReach ==
  ASSUME NEW p, Trimmed(p), Canonical(p), NEW s \in Suggestions({p})
  PROVE  Trimmed(s) /\ Covers(s, p)
<1>1. p \in Seq(STRING) /\ Len(p) \in Nat /\ DOMAIN p = 1..Len(p) /\ Trim(p) = p
  BY TrimTrims DEF Trimmed
<1>2. CASE s = p
  BY <1>2 DEF Covers
<1>3. CASE s # p
  <2>1. PICK i \in 2..Len(p) : p[i] = "/" /\ s = SubSeq(p, 1, i - 1)
    BY <1>3 DEF Suggestions
  <2>2. /\ s \in Seq(STRING) /\ Len(s) = i - 1
        /\ \A k \in 1..(i - 1) : s[k] = p[k]
    <3>1. i - 1 \in Int /\ i - 1 <= Len(p) /\ 1 <= i - 1 /\ (i - 1) - 1 + 1 = i - 1
      BY <1>1
    <3>2. /\ SubSeq(p, 1, i - 1) \in Seq(STRING) /\ Len(SubSeq(p, 1, i - 1)) = i - 1
          /\ \A k \in 1..(i - 1) : SubSeq(p, 1, i - 1)[k] = p[1 + k - 1]
      BY <1>1, <3>1, Cut
    <3>3. \A k \in 1..(i - 1) : 1 + k - 1 = k
      OBVIOUS
    <3> QED BY <2>1, <3>2, <3>3
  <2>3. Trimmed(s)
    <3>1. p[1] # "/"
      BY <1>1 DEF Trimmed, Canonical
    <3>2. p[i - 1] # "/"
      <4>1. i - 1 \in 1..Len(p) /\ (i - 1) + 1 = i
        BY <1>1
      <4> QED BY <1>1, <2>1, <4>1 DEF Canonical
    <3>3. 1 \in 1..(i - 1) /\ i - 1 \in 1..(i - 1)
      BY <1>1
    <3> QED BY <2>2, <3>1, <3>2, <3>3 DEF Trimmed
  <2>4. IsPrefix(Append(s, "/"), p)
    <3>1. Len(s) + 1 = i /\ i <= Len(p)
      BY <1>1, <2>2
    <3> QED BY <1>1, <2>1, <2>2, <3>1, GoesOnWithSlash
  <2>5. Trim(s) = s
    BY <2>2, <2>3, TrimTrims
  <2> QED BY <1>1, <2>3, <2>4, <2>5 DEF Covers
<1> QED BY <1>2, <1>3

\* A question about a path brings one, and grants on paths.
PathsInv ==
    About("path") =>
        /\ question.path \in Paths
        /\ \A g \in ConfigGrants(question.model, question.roles) : g.path \in Seq(STRING)

LEMMA PathsInvariance == Spec => []PathsInv
<1>1. Init => PathsInv
  BY DEF Init, Nothing, PathsInv, About
<1>2. PathsInv /\ [Next]_question => PathsInv'
  BY PathsAreTokens DEF PathsInv, Next, About
<1> QED BY <1>1, <1>2, PTL DEF Spec

LEMMA GrantsCover == PathsInv => PathGrantsCoverSubtrees
<1> SUFFICES ASSUME PathsInv, About("path")
             PROVE  PathGrantsCoverSubtrees
  BY DEF PathGrantsCoverSubtrees
<1> DEFINE model == question.model
           roles == question.roles
           path == Trim(question.path)
           Granted(op) ==
               \E g \in ConfigGrants(model, roles) :
                   HasOp(g.operations, op) /\ (g.path = EveryPath \/ Above(Trim(g.path), path))
<1>1. question.path \in Seq(STRING)
  BY PathsAreTokens DEF PathsInv
<1>2. path \in Seq(STRING) /\ Trim(path) = path /\ (Clean(question.path) <=> Canonical(path))
  BY <1>1, PathIsSettled
<1>3. ASSUME NEW op
      PROVE  AllowedConfig(model, roles, path, op) <=> Granted(op)
  <2>1. ASSUME NEW g \in ConfigGrants(model, roles)
        PROVE  Covers(g.path, path) <=> g.path = EveryPath \/ Above(Trim(g.path), path)
    <3>1. g.path \in Seq(STRING)
      BY DEF PathsInv
    <3> HIDE DEF path
    <3> QED BY <1>2, <3>1, GrantReaches
  <2> HIDE DEF path, model, roles
  <2> QED BY <2>1 DEF AllowedConfig
<1>4. ASSUME NEW op \in ConfigOperations
      PROVE  ConfigRequest(model, roles, question.path, op) =
                 IF ~Canonical(path) THEN [answer |-> "bad request"]
                 ELSE IF ~Granted(op) THEN [answer |-> "forbidden"]
                 ELSE [answer |-> "served", path |-> path]
  <2>1. AllowedConfig(model, roles, path, op) <=> Granted(op)
    BY <1>3
  <2> HIDE DEF model, roles, Granted
  <2> QED BY <1>2, <2>1 DEF ConfigRequest
<1>5. ListConfigs(model, roles, {path}) =
          IF Granted("config-read")
          THEN {[path |-> path, writable |-> Granted("config-write")]} ELSE {}
  <2>1. /\ AllowedConfig(model, roles, path, "config-read") <=> Granted("config-read")
        /\ AllowedConfig(model, roles, path, "config-write") = Granted("config-write")
    <3> HIDE DEF model, roles, Granted, path
    <3> QED BY <1>3 DEF AllowedConfig, Granted
  <2> HIDE DEF model, roles, Granted, path
  <2>2. ListConfigs(model, roles, {path}) =
            IF AllowedConfig(model, roles, path, "config-read")
            THEN {[path |-> path,
                   writable |-> AllowedConfig(model, roles, path, "config-write")]} ELSE {}
    BY DEF ListConfigs
  <2> QED BY <2>1, <2>2
<1> QED BY <1>4, <1>5 DEF PathGrantsCoverSubtrees

LEMMA SuggestionsFit == PathsInv => SuggestedGrantsFit
<1> SUFFICES ASSUME PathsInv, About("path"), Clean(question.path)
             PROVE  SuggestedGrantsFit
  BY DEF SuggestedGrantsFit
<1> DEFINE p == Trim(question.path)
<1>1. question.path \in Seq(STRING)
  BY PathsAreTokens DEF PathsInv
<1>2. Trimmed(p) /\ Canonical(p)
  BY <1>1, PathIsSettled, TrimTrims
<1> HIDE DEF p
<1>3. ASSUME NEW s \in Suggestions({p})
      PROVE  LET role == [namespaces |-> {}, global |-> {},
                          configs |-> {[path |-> s, operations |-> {"config-read"}]}]
                 model == [r \in {"first"} |-> role]
             IN  /\ AllowedConfig(model, {"first"}, p, "config-read")
                 /\ \A other \in Paths :
                       Clean(other) =>
                           (AllowedConfig(model, {"first"}, other, "config-read") <=>
                               s = EveryPath \/ Above(s, Trim(other)))
  <2> DEFINE grant == [path |-> s, operations |-> {"config-read"}]
             role == [namespaces |-> {}, global |-> {}, configs |-> {grant}]
             model == [r \in {"first"} |-> role]
  <2>1. \A path : AllowedConfig(model, {"first"}, path, "config-read") <=> Covers(s, path)
    <3>1. Held(model, {"first"}) = {role}
      <4> HIDE DEF role
      <4> QED BY DEF Held
    <3>2. ConfigGrants(model, {"first"}) = {grant}
      <4>1. role.configs = {grant}
        OBVIOUS
      <4> HIDE DEF model, role, grant
      <4> QED BY <3>1, <4>1 DEF ConfigGrants
    <3>3. grant.path = s /\ HasOp(grant.operations, "config-read")
      BY DEF HasOp
    <3> HIDE DEF model, grant
    <3> QED BY <3>2, <3>3 DEF AllowedConfig
  <2>2. Trimmed(s) /\ Covers(s, p)
    BY <1>2, SuggestionsReach
  <2>3. ASSUME NEW other \in Paths
        PROVE  Covers(s, other) <=> s = EveryPath \/ Above(s, Trim(other))
    <3>1. s \in Seq(STRING) /\ other \in Seq(STRING)
      BY <2>2, PathsAreTokens DEF Trimmed
    <3>2. Trim(s) = s
      BY <2>2, <3>1, TrimTrims
    <3> QED BY <3>1, <3>2, GrantReaches
  <2> HIDE DEF model
  <2>4. /\ AllowedConfig(model, {"first"}, p, "config-read")
        /\ \A other \in Paths :
              Clean(other) =>
                  (AllowedConfig(model, {"first"}, other, "config-read") <=>
                      s = EveryPath \/ Above(s, Trim(other)))
    BY <2>1, <2>2, <2>3
  <2> QED BY <2>4 DEF model
<1> QED BY <1>3 DEF SuggestedGrantsFit, p

-----------------------------------------------------------------------------
(* Images. *)

\* Which position is the least or the greatest.
LEMMA MinIs ==
  ASSUME NEW S, S \subseteq Int, NEW x \in S, \A y \in S : x <= y
  PROVE  Min(S) = x
<1>1. Min(S) \in S /\ \A y \in S : Min(S) <= y
  BY DEF Min
<1>2. Min(S) \in Int /\ x \in Int /\ Min(S) <= x /\ x <= Min(S)
  BY <1>1
<1> QED BY <1>2

LEMMA MaxIs ==
  ASSUME NEW S, S \subseteq Int, NEW x \in S, \A y \in S : x >= y
  PROVE  Max(S) = x
<1>1. Max(S) \in S /\ \A y \in S : Max(S) >= y
  BY DEF Max
<1>2. Max(S) \in Int /\ x \in Int /\ Max(S) >= x /\ x >= Max(S)
  BY <1>1
<1> QED BY <1>2

\* Where a token occurs in a sequence, if it does.
LEMMA Occurs ==
  ASSUME NEW S, NEW s \in Seq(S), NEW x, Where(s, x) # {}
  PROVE  /\ Min(Where(s, x)) \in 1..Len(s) /\ s[Min(Where(s, x))] = x
         /\ \A i \in Where(s, x) : Min(Where(s, x)) <= i
         /\ Max(Where(s, x)) \in 1..Len(s) /\ s[Max(Where(s, x))] = x
         /\ \A i \in Where(s, x) : Max(Where(s, x)) >= i
<1>1. Where(s, x) \subseteq 1..Len(s) /\ Len(s) \in Nat /\ \A i \in Where(s, x) : s[i] = x
  BY DEF Where
<1>2. PICK least \in Where(s, x) : \A y \in Where(s, x) : ~(y < least)
  <2>1. Where(s, x) \in SUBSET Nat
    BY <1>1
  <2> QED BY <2>1, Least
<1>3. PICK greatest \in Where(s, x) : \A y \in Where(s, x) : greatest >= y
  <2>1. Where(s, x) \subseteq 0..Len(s)
    BY <1>1
  <2> QED BY <1>1, <2>1, Greatest
<1>4. Where(s, x) \subseteq Int /\ \A y \in Where(s, x) : least <= y
  BY <1>1, <1>2
<1>5. Min(Where(s, x)) = least /\ Max(Where(s, x)) = greatest
  BY <1>3, <1>4, MinIs, MaxIs
<1> QED BY <1>1, <1>3, <1>4, <1>5

\* Two sequences with a separator between them.
IsJoined(j, s, x, t, S) ==
    /\ j \in Seq(S) /\ Len(j) = Len(s) + 1 + Len(t)
    /\ \A i \in 1..Len(s) : j[i] = s[i]
    /\ j[Len(s) + 1] = x
    /\ \A i \in 1..Len(t) : j[Len(s) + 1 + i] = t[i]

LEMMA Joining ==
  ASSUME NEW S, NEW s \in Seq(S), NEW t \in Seq(S), NEW x \in S
  PROVE  IsJoined(s \o <<x>> \o t, s, x, t, S)
<1>1. /\ <<x>> \in Seq(S) /\ Len(<<x>>) = 1 /\ <<x>>[1] = x
      /\ Len(s) \in Nat /\ Len(t) \in Nat
  OBVIOUS
<1>2. ASSUME NEW u \in Seq(S), u = s \o <<x>>
      PROVE  IsJoined(u \o t, s, x, t, S)
  <2>1. /\ Len(u) = Len(s) + 1
        /\ \A i \in 1..(Len(s) + 1) : u[i] = IF i <= Len(s) THEN s[i] ELSE <<x>>[i - Len(s)]
    BY <1>1, <1>2, ConcatProperties
  <2>2. u[Len(s) + 1] = x /\ \A i \in 1..Len(s) : u[i] = s[i]
    BY <1>1, <2>1
  <2>3. u \o t \in Seq(S) /\ Len(u \o t) = Len(u) + Len(t)
    BY ConcatProperties
  <2>4. \A i \in 1..(Len(u) + Len(t)) :
            (u \o t)[i] = IF i <= Len(u) THEN u[i] ELSE t[i - Len(u)]
    BY ConcatProperties
  <2>5. \A i \in 1..Len(t) : (u \o t)[Len(s) + 1 + i] = t[i]
    <3> TAKE i \in 1..Len(t)
    <3>1. /\ Len(s) + 1 + i \in 1..(Len(u) + Len(t)) /\ ~(Len(s) + 1 + i <= Len(u))
          /\ Len(s) + 1 + i - Len(u) = i
      BY <1>1, <2>1
    <3> QED BY <2>4, <3>1
  <2>6. \A i \in 1..(Len(s) + 1) : (u \o t)[i] = u[i]
    BY <1>1, <2>1, <2>4
  <2> QED BY <1>1, <2>1, <2>2, <2>3, <2>5, <2>6 DEF IsJoined
<1>3. s \o <<x>> \in Seq(S)
  BY <1>1, ConcatProperties
<1> QED BY <1>2, <1>3

\* What was joined comes apart at the separator.
LEMMA ComesApart ==
  ASSUME NEW S, NEW s \in Seq(S), NEW t \in Seq(S), NEW x \in S, NEW j,
         IsJoined(j, s, x, t, S)
  PROVE  /\ SubSeq(j, 1, Len(s)) = s
         /\ SubSeq(j, Len(s) + 2, Len(j)) = t
<1>1. /\ j \in Seq(S) /\ Len(s) \in Nat /\ Len(t) \in Nat
      /\ Len(j) = Len(s) + 1 + Len(t)
  BY DEF IsJoined
<1>2. SubSeq(j, 1, Len(s)) = s
  <2>1. /\ SubSeq(j, 1, Len(s)) \in Seq(S)
        /\ Len(SubSeq(j, 1, Len(s))) = (IF 1 <= Len(s) THEN Len(s) - 1 + 1 ELSE 0)
        /\ \A i \in 1..(Len(s) - 1 + 1) : SubSeq(j, 1, Len(s))[i] = j[1 + i - 1]
    <3>1. 1 \in Int /\ Len(s) \in Int /\ 1 >= 1 /\ Len(s) <= Len(j)
      BY <1>1
    <3> QED BY <1>1, <3>1, Cut
  <2>2. Len(SubSeq(j, 1, Len(s))) = Len(s)
    BY <1>1, <2>1
  <2>3. \A i \in 1..Len(s) : SubSeq(j, 1, Len(s))[i] = s[i]
    BY <1>1, <2>1 DEF IsJoined
  <2> QED BY <2>1, <2>2, <2>3, SeqEqual
<1>3. SubSeq(j, Len(s) + 2, Len(j)) = t
  <2> DEFINE m == Len(s) + 2
  <2>1. /\ m \in Int /\ Len(j) \in Int /\ m >= 1 /\ Len(j) <= Len(j)
        /\ Len(j) - m + 1 = Len(t)
    BY <1>1
  <2>2. /\ SubSeq(j, m, Len(j)) \in Seq(S)
        /\ Len(SubSeq(j, m, Len(j))) = (IF m <= Len(j) THEN Len(j) - m + 1 ELSE 0)
        /\ \A i \in 1..(Len(j) - m + 1) : SubSeq(j, m, Len(j))[i] = j[m + i - 1]
    <3> HIDE DEF m
    <3> QED BY <1>1, <2>1, Cut
  <2>3. Len(SubSeq(j, m, Len(j))) = Len(t)
    BY <1>1, <2>1, <2>2
  <2>4. \A i \in 1..Len(t) : SubSeq(j, m, Len(j))[i] = t[i]
    <3> TAKE i \in 1..Len(t)
    <3>1. m + i - 1 = Len(s) + 1 + i
      BY <1>1
    <3>2. j[Len(s) + 1 + i] = t[i]
      BY DEF IsJoined
    <3> QED BY <2>1, <2>2, <3>1, <3>2
  <2> HIDE DEF m
  <2>5. SubSeq(j, m, Len(j)) = t
    BY <2>2, <2>3, <2>4, SeqEqual
  <2> QED BY <2>5 DEF m
<1> QED BY <1>2, <1>3

\* A registry and a project: the project is what follows the registry's name, if
\* that name has a dot or a port in it.
LEMMA ProjectOfRepository ==
  ASSUME NEW S, NEW host \in Seq(S), NEW project \in Seq(S), "/" \in S, NEW repo,
         IsJoined(repo, host, "/", project, S), host # <<>>,
         \A i \in DOMAIN host : host[i] # "/"
  PROVE  ProjectPath(repo) =
            IF \E i \in DOMAIN host : host[i] \in {".", ":"} THEN project ELSE repo
<1> DEFINE h == Len(host)
<1>1. /\ h \in Nat /\ h # 0 /\ DOMAIN host = 1..h /\ Len(project) \in Nat
      /\ repo \in Seq(S) /\ Len(repo) = h + 1 + Len(project) /\ DOMAIN repo = 1..Len(repo)
      /\ repo[h + 1] = "/" /\ \A i \in 1..h : repo[i] = host[i]
  BY DEF IsJoined
<1>2. Min(Where(repo, "/")) = h + 1 /\ Where(repo, "/") # {}
  <2>1. h + 1 \in Where(repo, "/") /\ Where(repo, "/") \subseteq Int
    BY <1>1 DEF Where
  <2>2. \A y \in Where(repo, "/") : h + 1 <= y
    BY <1>1 DEF Where
  <2> HIDE DEF h
  <2> QED BY <2>1, <2>2, MinIs
<1>3. SubSeq(repo, (h + 1) + 1, Len(repo)) = project
  <2>1. (h + 1) + 1 = Len(host) + 2
    BY <1>1
  <2> QED BY <2>1, ComesApart
<1>4. (\E j \in 1..(h + 1) - 1 : repo[j] \in {".", ":"})
         <=> \E i \in DOMAIN host : host[i] \in {".", ":"}
  <2>1. 1..(h + 1) - 1 = 1..h
    BY <1>1
  <2> QED BY <1>1, <2>1
<1>5. h + 1 # 1
  BY <1>1
<1> HIDE DEF h
<1> QED BY <1>2, <1>3, <1>4, <1>5 DEF ProjectPath

\* A cut from the first position on is another sequence exactly if it is as long and
\* the same there.
LEMMA BeginsWith ==
  ASSUME NEW S, NEW s \in Seq(S), NEW t \in Seq(S), NEW m \in Nat, m <= Len(s)
  PROVE  SubSeq(s, 1, m) = t <=> Len(t) = m /\ \A i \in 1..m : s[i] = t[i]
<1>1. /\ SubSeq(s, 1, m) \in Seq(S)
      /\ Len(SubSeq(s, 1, m)) = (IF 1 <= m THEN m - 1 + 1 ELSE 0)
      /\ \A i \in 1..(m - 1 + 1) : SubSeq(s, 1, m)[i] = s[1 + i - 1]
  BY Cut
<1>2. Len(SubSeq(s, 1, m)) = m
  BY <1>1
<1>3. \A i \in 1..m : SubSeq(s, 1, m)[i] = s[i]
  <2> TAKE i \in 1..m
  <2>1. i \in 1..(m - 1 + 1) /\ 1 + i - 1 = i
    OBVIOUS
  <2> QED BY <1>1, <2>1
<1>4. Len(t) = m /\ (\A i \in 1..m : s[i] = t[i]) => SubSeq(s, 1, m) = t
  <2> SUFFICES ASSUME Len(t) = m, \A i \in 1..m : s[i] = t[i]
               PROVE  SubSeq(s, 1, m) = t
    OBVIOUS
  <2>1. \A i \in 1..Len(t) : SubSeq(s, 1, m)[i] = t[i]
    BY <1>3
  <2> QED BY <1>1, <1>2, <2>1, SeqEqual
<1> QED BY <1>2, <1>3, <1>4

\* A tag of ours is taken apart where its environment ends and its number begins, and any
\* other is refused.
LEMMA TagParts ==
  ASSUME NEW tag \in Seq(STRING), NEW project,
         Environments \subseteq Seq(STRING), "-" \notin Numbers
  PROVE  /\ \A e \in NamedBy(tag) :
               ParseTag(project, tag, Environments, Numbers) =
                   [project |-> project, environment |-> e, pipeline |-> <<tag[Len(tag)]>>]
         /\ NamedBy(tag) = {} => ParseTag(project, tag, Environments, Numbers) = Refused
<1> DEFINE n == Len(tag)
           D == Where(tag, "-")
           parsed == ParseTag(project, tag, Environments, Numbers)
<1>1. n \in Nat /\ DOMAIN tag = 1..n /\ D \subseteq Int
  BY DEF Where
<1>2. \A m \in 1..n : SubSeq(tag, m, m) = <<tag[m]>>
  BY OneCut
<1>3. ASSUME NEW e \in NamedBy(tag)
      PROVE  parsed = [project |-> project, environment |-> e, pipeline |-> <<tag[n]>>]
  <2> DEFINE l == Len(e)
  <2>1. /\ e \in Environments /\ e \in Seq(STRING) /\ l \in Nat /\ DOMAIN e = 1..l
        /\ l + 2 <= n /\ SubSeq(tag, 1, l) = e /\ tag[l + 1] = "-"
        /\ tag[n - 1] = "-" /\ tag[n] \in Numbers
        /\ \A i \in 1..l : e[i] # "-"
    <3>1. e \in Environments /\ e \in Seq(STRING)
      BY DEF NamedBy
    <3> QED BY <3>1 DEF NamedBy
  <2>2. \A i \in 1..l : tag[i] # "-"
    <3>1. l <= n
      BY <1>1, <2>1
    <3> QED BY <2>1, <3>1, BeginsWith
  <2>3. tag[n] # "-"
    BY <2>1
  <2> HIDE DEF l
  <2>4. l + 1 \in D /\ n - 1 \in D /\ D # {}
    BY <1>1, <2>1 DEF Where
  <2>5. \A y \in D : l + 1 <= y /\ n - 1 >= y
    <3> TAKE y \in D
    <3>1. y \in 1..n /\ tag[y] = "-"
      BY <1>1 DEF Where
    <3>2. ~(y \in 1..l) /\ y # n
      BY <2>2, <2>3, <3>1
    <3>3. y \in 1..n /\ n \in Nat /\ l \in Nat
      BY <1>1, <2>1, <3>1
    <3> HIDE DEF D, n
    <3> QED BY <3>2, <3>3
  <2>6. Min(D) = l + 1 /\ Max(D) = n - 1
    <3> HIDE DEF D, n
    <3> QED BY <1>1, <2>4, <2>5, MinIs, MaxIs
  <2>7. Min(D) - 1 = l /\ Max(D) + 1 = n /\ n \in 1..n
    BY <1>1, <2>1, <2>6
  <2>8. FirstPart(tag) = e
    BY <2>1, <2>7 DEF FirstPart
  <2>9. LastPart(tag) = <<tag[n]>> /\ IsNumber(LastPart(tag), Numbers)
    <3>1. LastPart(tag) = SubSeq(tag, n, n)
      BY <2>7 DEF LastPart
    <3> HIDE DEF D, n
    <3>2. SubSeq(tag, n, n) = <<tag[n]>>
      BY <1>2, <2>7
    <3>3. Len(<<tag[n]>>) = 1 /\ <<tag[n]>>[1] = tag[n]
      OBVIOUS
    <3> QED BY <2>1, <3>1, <3>2, <3>3 DEF IsNumber
  <2> HIDE DEF n
  <2> QED BY <2>1, <2>4, <2>8, <2>9 DEF ParseTag
<1>4. ASSUME NamedBy(tag) = {}
      PROVE  parsed = Refused
  <2>1. ASSUME D # {}, FirstPart(tag) \in Environments, IsNumber(LastPart(tag), Numbers)
        PROVE  FALSE
    <3> DEFINE e == FirstPart(tag)
               l == Min(D) - 1
    <3>1. /\ Min(D) \in 1..n /\ tag[Min(D)] = "-" /\ \A i \in D : Min(D) <= i
          /\ Max(D) \in 1..n /\ tag[Max(D)] = "-" /\ Max(D) >= Min(D)
      <4>1. /\ Min(D) \in 1..n /\ tag[Min(D)] = "-" /\ \A i \in D : Min(D) <= i
            /\ Max(D) \in 1..n /\ tag[Max(D)] = "-" /\ \A i \in D : Max(D) >= i
        BY <2>1, Occurs
      <4>2. Min(D) \in D
        BY <1>1, <4>1 DEF Where
      <4> QED BY <4>1, <4>2
    <3>2. l \in Nat /\ l <= n /\ e = SubSeq(tag, 1, l) /\ e \in Seq(STRING)
      BY <1>1, <2>1, <3>1 DEF FirstPart
    <3> HIDE DEF e, l
    <3>3. Len(e) = l /\ \A i \in 1..l : tag[i] = e[i]
      BY <3>2, BeginsWith
    <3>4. \A i \in DOMAIN e : e[i] # "-"
      <4> SUFFICES ASSUME NEW i \in DOMAIN e, e[i] = "-"
                   PROVE  FALSE
        OBVIOUS
      <4>1. i \in 1..l /\ tag[i] = "-"
        BY <3>2, <3>3
      <4>2. i \in D /\ i < Min(D)
        BY <1>1, <3>1, <3>2, <4>1 DEF Where, l
      <4> QED BY <1>1, <3>1, <4>2
    <3>5. /\ Len(SubSeq(tag, Max(D) + 1, n)) = 1
          /\ SubSeq(tag, Max(D) + 1, n)[1] \in Numbers
      BY <2>1 DEF LastPart, IsNumber
    <3>6. Max(D) = n - 1 /\ tag[n] \in Numbers
      <4>1. /\ Len(SubSeq(tag, Max(D) + 1, n)) =
                   (IF Max(D) + 1 <= n THEN n - (Max(D) + 1) + 1 ELSE 0)
            /\ \A i \in 1..(n - (Max(D) + 1) + 1) :
                  SubSeq(tag, Max(D) + 1, n)[i] = tag[(Max(D) + 1) + i - 1]
        <5>1. Max(D) + 1 \in Int /\ n \in Int /\ Max(D) + 1 >= 1 /\ n <= n
          BY <1>1, <3>1
        <5> QED BY <5>1, Cut
      <4>2. Max(D) = n - 1
        BY <1>1, <3>1, <3>5, <4>1
      <4>3. 1 \in 1..(n - (Max(D) + 1) + 1) /\ (Max(D) + 1) + 1 - 1 = n
        BY <1>1, <4>2
      <4> QED BY <3>5, <4>1, <4>2, <4>3
    <3>7. Len(e) + 2 <= n /\ tag[Len(e) + 1] = "-" /\ tag[n - 1] = "-"
      <4>1. Len(e) + 1 = Min(D)
        BY <1>1, <3>1, <3>2, <3>3 DEF l
      <4> QED BY <1>1, <3>1, <3>6, <4>1
    <3>8. SubSeq(tag, 1, Len(e)) = e
      BY <3>2, <3>3
    <3>9. e \in NamedBy(tag)
      BY <2>1, <3>4, <3>6, <3>7, <3>8 DEF NamedBy, e
    <3> QED BY <1>4, <3>9
  <2> QED BY <2>1 DEF ParseTag
<1> QED BY <1>3, <1>4

\* A reference is its own: the tag follows the colon it was put behind, and without
\* one there is nothing to take for a tag.
LEMMA ReferenceIsRead ==
  ASSUME NEW S, NEW host \in Seq(S), NEW project \in Seq(S), NEW tag \in Seq(S),
         {"/", ":"} \subseteq S, host # <<>>, project # <<>>,
         \A i \in DOMAIN host : host[i] # "/",
         \A i \in DOMAIN project : project[i] # ":",
         \A i \in DOMAIN tag : tag[i] \notin {"/", ":"},
         NEW repo, IsJoined(repo, host, "/", project, S),
         NEW image, NEW environments, NEW numbers
  PROVE  /\ image = repo => ParseImage(image, environments, numbers) = Refused
         /\ IsJoined(image, repo, ":", tag, S) =>
               ParseImage(image, environments, numbers) =
                   ParseTag(IF \E i \in DOMAIN host : host[i] \in {".", ":"}
                            THEN project ELSE repo,
                            tag, environments, numbers)
<1> DEFINE h == Len(host)
           r == Len(repo)
           colons == {i \in Where(image, ":") : i > Max(Where(image, "/"))}
<1>1. /\ h \in Nat /\ Len(project) \in Nat /\ Len(project) # 0 /\ r = h + 1 + Len(project)
      /\ repo \in Seq(S) /\ repo[h + 1] = "/" /\ h + 1 \in 1..r /\ r \in Nat
      /\ DOMAIN project = 1..Len(project) /\ DOMAIN tag = 1..Len(tag) /\ Len(tag) \in Nat
  BY DEF IsJoined
<1>2. \A i \in 1..r : i > h + 1 => repo[i] # ":"
  <2> SUFFICES ASSUME NEW i \in 1..r, i > h + 1
               PROVE  repo[i] # ":"
    OBVIOUS
  <2>1. i - h - 1 \in 1..Len(project) /\ h + 1 + (i - h - 1) = i
    BY <1>1
  <2>2. repo[h + 1 + (i - h - 1)] = project[i - h - 1]
    BY <2>1 DEF IsJoined
  <2> QED BY <1>1, <2>1, <2>2
<1>3. ASSUME image = repo
      PROVE  ParseImage(image, environments, numbers) = Refused
  <2>1. h + 1 \in Where(image, "/")
    BY <1>1, <1>3 DEF Where
  <2>2. Max(Where(image, "/")) \in 1..r /\ Max(Where(image, "/")) >= h + 1
    BY <1>1, <1>3, <2>1, Occurs
  <2>3. colons = {}
    <3> SUFFICES ASSUME NEW i \in colons
                 PROVE  FALSE
      OBVIOUS
    <3>1. i \in 1..r /\ repo[i] = ":" /\ i > h + 1
      BY <1>1, <1>3, <2>2 DEF Where
    <3> QED BY <1>2, <3>1
  <2> QED BY <2>3 DEF ParseImage
<1>4. ASSUME IsJoined(image, repo, ":", tag, S)
      PROVE  ParseImage(image, environments, numbers) =
                 ParseTag(IF \E i \in DOMAIN host : host[i] \in {".", ":"}
                          THEN project ELSE repo,
                          tag, environments, numbers)
  <2>1. /\ image \in Seq(S) /\ DOMAIN image = 1..(r + 1 + Len(tag))
        /\ Len(image) = r + 1 + Len(tag)
        /\ \A i \in 1..r : image[i] = repo[i]
        /\ image[r + 1] = ":"
    BY <1>4 DEF IsJoined
  <2>2. \A i \in 1..Len(image) : i > r + 1 => image[i] \notin {"/", ":"}
    <3> SUFFICES ASSUME NEW i \in 1..Len(image), i > r + 1
                 PROVE  image[i] \notin {"/", ":"}
      OBVIOUS
    <3>1. i - r - 1 \in 1..Len(tag) /\ r + 1 + (i - r - 1) = i
      BY <1>1, <2>1
    <3>2. image[r + 1 + (i - r - 1)] = tag[i - r - 1]
      BY <1>4, <3>1 DEF IsJoined
    <3> QED BY <1>1, <3>1, <3>2
  <2>3. h + 1 \in Where(image, "/") /\ r + 1 \in Where(image, ":")
    BY <1>1, <2>1 DEF Where
  <2>4. /\ Max(Where(image, "/")) \in 1..Len(image) /\ Max(Where(image, "/")) >= h + 1
        /\ image[Max(Where(image, "/"))] = "/"
    BY <2>1, <2>3, Occurs
  <2>5. Max(Where(image, "/")) < r + 1
    <3> DEFINE slash == Max(Where(image, "/"))
    <3>1. slash \in 1..Len(image) /\ image[slash] = "/" /\ slash \in Int
      BY <1>1, <2>1, <2>4
    <3>2. ~(slash > r + 1)
      BY <2>2, <3>1
    <3>3. slash # r + 1
      BY <2>1, <3>1
    <3>4. r \in Nat /\ slash \in Int
      BY <1>1, <3>1
    <3> HIDE DEF slash, r
    <3>5. slash < r + 1
      BY <3>2, <3>3, <3>4
    <3> QED BY <3>5 DEF slash
  <2>6. colons = {r + 1}
    <3>1. ASSUME NEW i \in colons
          PROVE  i = r + 1
      <4>1. i \in 1..Len(image) /\ image[i] = ":" /\ i > h + 1
        BY <1>1, <2>1, <2>4 DEF Where
      <4>2. ~(i \in 1..r)
        BY <1>2, <2>1, <4>1
      <4>3. ~(i > r + 1)
        BY <2>2, <4>1
      <4>4. r \in Nat /\ i \in Int /\ i >= 1
        BY <1>1, <2>1, <4>1
      <4> HIDE DEF r, colons
      <4> QED BY <4>2, <4>3, <4>4
    <3>2. r + 1 \in colons
      BY <2>3, <2>5
    <3> HIDE DEF colons
    <3> QED BY <3>1, <3>2
  <2>7. Max(colons) = r + 1 /\ (r + 1) - 1 = r
    <3>1. {r + 1} \subseteq Int /\ r + 1 \in {r + 1} /\ \A y \in {r + 1} : r + 1 >= y
      BY <1>1
    <3>2. r \in Nat
      BY <1>1
    <3> HIDE DEF r, colons
    <3>3. Max({r + 1}) = r + 1
      BY <3>1, MaxIs
    <3> QED BY <2>6, <3>2, <3>3
  <2>8. SubSeq(image, 1, r) = repo /\ SubSeq(image, (r + 1) + 1, Len(image)) = tag
    <3>1. (r + 1) + 1 = Len(repo) + 2
      BY <1>1
    <3>2. repo \in Seq(S) /\ ":" \in S
      BY <1>1
    <3>3. SubSeq(image, 1, Len(repo)) = repo /\ SubSeq(image, Len(repo) + 2, Len(image)) = tag
      <4> HIDE DEF r, h, colons
      <4> QED BY <1>4, <3>2, ComesApart
    <3> QED BY <3>1, <3>3
  <2>9. ProjectPath(repo) # <<>>
    <3>1. repo # <<>>
      BY <1>1
    <3> QED BY <3>1, ProjectOfRepository
  <2>10. ParseImage(image, environments, numbers) =
             ParseTag(ProjectPath(repo), tag, environments, numbers)
    <3>1. SubSeq(image, 1, Max(colons) - 1) = repo
      BY <2>7, <2>8
    <3>2. SubSeq(image, Max(colons) + 1, Len(image)) = tag
      BY <2>7, <2>8
    <3> QED BY <2>3, <2>6, <2>9, <3>1, <3>2 DEF ParseImage
  <2> QED BY <2>10, ProjectOfRepository
<1> QED BY <1>3, <1>4

\* A question about an image brings what a reference is put together from.
ImagesInv == About("image") => Reference(question)

LEMMA ImagesInvariance == Spec => []ImagesInv
<1>1. Init => ImagesInv
  BY DEF Init, Nothing, ImagesInv, About
<1>2. ImagesInv /\ [Next]_question => ImagesInv'
  BY ImagesAreReferences DEF ImagesInv, Next, About, Reference
<1> QED BY <1>1, <1>2, PTL DEF Spec

LEMMA ImagesParse == ImagesInv => ParsedImagesAreOurs
<1> SUFFICES ASSUME ImagesInv, About("image")
             PROVE  ParsedImagesAreOurs
  BY DEF ParsedImagesAreOurs
<1> DEFINE q == question
           S == STRING \cup {"/", ":"}
           repository == q.host \o <<"/">> \o q.project
           tagged == repository \o <<":">> \o q.tag
           onHost == \E i \in DOMAIN q.host : q.host[i] \in {".", ":"}
           project == IF onHost THEN q.project ELSE repository
           parsed == ParseImage(Image(q), Environments, Numbers)
<1>1. Reference(q)
  BY DEF ImagesInv
<1>2. /\ q.host \in Seq(S) /\ q.project \in Seq(S) /\ q.tag \in Seq(S)
      /\ {"/", ":"} \subseteq S /\ "/" \in S /\ ":" \in S
  BY <1>1 DEF Reference
<1>3. Image(q) = IF q.tagged THEN tagged ELSE repository
  BY DEF Image
<1> HIDE DEF S
<1>4. IsJoined(repository, q.host, "/", q.project, S)
  BY <1>2, Joining
<1>5. repository \in Seq(S)
  BY <1>4 DEF IsJoined
<1> HIDE DEF repository
<1>6. IsJoined(tagged, repository, ":", q.tag, S)
  BY <1>2, <1>5, Joining
<1> HIDE DEF tagged
<1>7. /\ ParseImage(repository, Environments, Numbers) = Refused
      /\ ParseImage(tagged, Environments, Numbers) = ParseTag(project, q.tag, Environments, Numbers)
  BY <1>1, <1>2, <1>4, <1>6, ReferenceIsRead DEF Reference
<1> HIDE DEF project
<1>8. /\ \A e \in NamedBy(q.tag) :
            ParseTag(project, q.tag, Environments, Numbers) =
                [project |-> project, environment |-> e, pipeline |-> <<q.tag[Len(q.tag)]>>]
      /\ NamedBy(q.tag) = {} => ParseTag(project, q.tag, Environments, Numbers) = Refused
  <2>1. q.tag \in Seq(STRING)
    BY <1>1 DEF Reference
  <2>2. Environments \subseteq Seq(STRING) /\ "-" \notin Numbers
    BY ImagesAreReferences
  <2> QED BY <2>1, <2>2, TagParts
<1>9. /\ q.tagged => \A e \in NamedBy(q.tag) :
            parsed = [project |-> project, environment |-> e, pipeline |-> <<q.tag[Len(q.tag)]>>]
      /\ ~q.tagged \/ NamedBy(q.tag) = {} => parsed = Refused
  BY <1>3, <1>7, <1>8
<1> HIDE DEF parsed
<1> QED BY <1>9 DEF ParsedImagesAreOurs, repository, project, parsed

-----------------------------------------------------------------------------
(* Logs. *)

\* A sequence of lines by time but for those without one, which is no longer than a
\* tail.
OrderedUpTo(lines, n) ==
    /\ DOMAIN lines = 1..n
    /\ \A k \in 1..n : lines[k].at \in Nat
    /\ \A k, l \in 1..n : k <= l => lines[k].at <= lines[l].at \/ lines[l].at = 0

InOrder(lines, tail) == \E n \in 0..tail : OrderedUpTo(lines, n)

\* How many lines were asked for, and how many of them came whole.
AskedOf(log, tail) == IF Len(log.lines) < tail THEN Len(log.lines) ELSE tail
WholeOf(log, tail) == IF log.cut < AskedOf(log, tail) THEN log.cut ELSE AskedOf(log, tail)

\* m lines: what came whole, and perhaps a torn line behind it.
AreLast(lines, log, tail, m) ==
    LET offset == Len(log.lines) - AskedOf(log, tail)
        whole == WholeOf(log, tail)
    IN
    /\ m \in 0..tail /\ DOMAIN lines = 1..m
    /\ m = whole \/ (whole < AskedOf(log, tail) /\ m = whole + 1)
    /\ \A i \in 1..whole : lines[i] = log.lines[offset + i]
    /\ m = whole + 1 => lines[m].at \in {0, log.lines[offset + m].at}

LEMMA LastLinesAre ==
  ASSUME NEW log, NEW tail \in Nat \ {0}, Written(log.lines), log.cut \in Nat
  PROVE  \E m \in 0..tail : AreLast(LastLines(log, tail), log, tail, m)
<1> DEFINE n == Len(log.lines)
           first == IF n > tail THEN n - tail + 1 ELSE 1
           last == SubSeq(log.lines, first, n)
           asked == AskedOf(log, tail)
           whole == WholeOf(log, tail)
           S == [at : Nat, text : STRING \cup {"torn"}]
           torn == Remains(last[log.cut + 1], log.piece)
           lines == LastLines(log, tail)
<1>1. log.lines \in Seq(S) /\ n \in Nat /\ DOMAIN log.lines = 1..n
  <2> DEFINE T == [at : Nat, text : STRING]
  <2>1. T \subseteq S /\ log.lines \in Seq(T)
    BY DEF Written
  <2> HIDE DEF S, T
  <2>2. log.lines \in Seq(S)
    BY <2>1, SeqMonotonic
  <2> QED BY <2>2
<1>2. /\ asked \in Nat /\ whole \in Nat /\ asked <= tail /\ asked <= n
      /\ first \in Int /\ first >= 1 /\ n - first + 1 = asked /\ first - 1 = n - asked
      /\ whole <= asked
  <2>1. /\ asked = IF n < tail THEN n ELSE tail
        /\ whole = IF log.cut < asked THEN log.cut ELSE asked
    BY DEF AskedOf, WholeOf
  <2>2. n \in Nat /\ tail \in Nat \ {0} /\ log.cut \in Nat
    BY <1>1
  <2>3. first = IF n > tail THEN n - tail + 1 ELSE 1
    OBVIOUS
  <2> HIDE DEF n, asked, whole, first
  <2> QED BY <2>1, <2>2, <2>3
<1>3. /\ last \in Seq(S)
      /\ Len(last) = (IF first <= n THEN n - first + 1 ELSE 0)
      /\ \A i \in 1..(n - first + 1) : last[i] = log.lines[first + i - 1]
  <2> DEFINE s == log.lines
  <2>1. n \in Int /\ n <= Len(s) /\ s \in Seq(S) /\ first \in Int /\ first >= 1
    BY <1>1, <1>2
  <2>2. last = SubSeq(s, first, n)
    OBVIOUS
  <2> HIDE DEF first, S, n, s, last
  <2>3. /\ SubSeq(s, first, n) \in Seq(S)
        /\ Len(SubSeq(s, first, n)) = (IF first <= n THEN n - first + 1 ELSE 0)
        /\ \A i \in 1..(n - first + 1) : SubSeq(s, first, n)[i] = s[first + i - 1]
    BY <2>1, Cut
  <2> QED BY <2>2, <2>3 DEF s
<1>4. /\ Len(last) = asked /\ DOMAIN last = 1..asked
      /\ \A i \in 1..asked : last[i] = log.lines[(n - asked) + i] /\ last[i] \in S
  <2> HIDE DEF first, last, S, asked
  <2>1. Len(last) = asked
    BY <1>1, <1>2, <1>3
  <2>2. ASSUME NEW i \in 1..asked
        PROVE  last[i] = log.lines[(n - asked) + i]
    <3>1. i \in 1..(n - first + 1) /\ first + i - 1 = (n - asked) + i
      BY <1>1, <1>2
    <3> QED BY <1>3, <3>1
  <2> QED BY <1>3, <2>1, <2>2, ElementOfSeq
<1>5. lines = IF log.cut >= Len(last) THEN last ELSE SubSeq(last, 1, log.cut) \o torn
  BY DEF LastLines
<1> HIDE DEF last, S, first, n, lines, torn
<1>6. CASE log.cut >= asked
  <2>1. lines = last /\ whole = asked
    BY <1>2, <1>4, <1>5, <1>6 DEF WholeOf
  <2>2. AreLast(lines, log, tail, asked)
    <3> HIDE DEF asked, whole
    <3>1. asked \in 0..tail /\ asked # whole + 1
      BY <1>2, <2>1
    <3>2. \A i \in 1..whole : lines[i] = log.lines[(n - asked) + i]
      BY <1>4, <2>1
    <3> QED BY <1>4, <2>1, <3>1, <3>2 DEF AreLast, n, asked, whole
  <2> HIDE DEF asked
  <2> QED BY <1>2, <2>2 DEF lines
<1>7. CASE log.cut < asked
  <2> DEFINE came == SubSeq(last, 1, log.cut)
             c == log.cut
  <2>1. /\ lines = came \o torn /\ whole = c /\ c \in Nat /\ c < asked
    <3>1. whole = IF log.cut < asked THEN log.cut ELSE asked
      BY DEF WholeOf
    <3>2. log.cut \in Nat /\ asked \in Nat /\ log.cut < asked /\ Len(last) = asked
      BY <1>2, <1>4, <1>7
    <3>3. ~(log.cut >= Len(last))
      <4> HIDE DEF asked
      <4> QED BY <3>2
    <3> HIDE DEF asked, whole
    <3> QED BY <1>5, <3>1, <3>2, <3>3
  <2>2. came \in Seq(S) /\ Len(came) = c /\ \A i \in 1..c : came[i] = last[i]
    <3>1. /\ came \in Seq(S)
          /\ Len(came) = (IF 1 <= c THEN c - 1 + 1 ELSE 0)
          /\ \A i \in 1..(c - 1 + 1) : came[i] = last[1 + i - 1]
      <4>1. 1 \in Int /\ c \in Int /\ 1 >= 1 /\ c <= Len(last)
        BY <1>2, <1>4, <2>1
      <4> QED BY <1>3, <4>1, Cut
    <3> HIDE DEF came, c
    <3>2. Len(came) = c
      BY <2>1, <3>1
    <3>3. ASSUME NEW i \in 1..c
          PROVE  came[i] = last[i]
      <4>1. i \in 1..(c - 1 + 1) /\ 1 + i - 1 = i
        BY <2>1
      <4> QED BY <3>1, <4>1
    <3> QED BY <3>1, <3>2, <3>3
  <2>3. c + 1 \in 1..asked /\ last[c + 1] \in S /\ last[c + 1].at = log.lines[(n - asked) + (c + 1)].at
    <3>1. c + 1 \in 1..asked
      BY <1>2, <2>1
    <3> QED BY <1>4, <3>1
  <2> HIDE DEF came, c, asked, whole
  <2>4. CASE log.piece = "none"
    <3>1. torn = <<>>
      BY <2>4 DEF torn, Remains
    <3>2. DOMAIN lines = 1..c /\ \A i \in 1..c : lines[i] = came[i]
      BY <2>1, <2>2, <3>1
    <3>3. c \in 0..tail /\ c # c + 1
      BY <1>2, <2>1
    <3>4. \A i \in 1..c : lines[i] = log.lines[(n - asked) + i]
      BY <1>2, <1>4, <2>1, <2>2, <3>2
    <3>5. AreLast(lines, log, tail, c)
      BY <2>1, <3>2, <3>3, <3>4 DEF AreLast, n, asked, whole
    <3> QED BY <3>3, <3>5 DEF lines
  <2>5. CASE log.piece # "none"
    <3> DEFINE at == IF log.piece = "stamp" THEN 0 ELSE last[c + 1].at
               line == [at |-> at, text |-> "torn"]
    <3>1. torn = <<line>>
      BY <2>5 DEF torn, Remains, c
    <3>2. at \in Nat /\ at \in {0, log.lines[(n - asked) + (c + 1)].at}
      <4>1. last[c + 1].at \in Nat
        BY <2>3 DEF S
      <4>2. at = IF log.piece = "stamp" THEN 0 ELSE last[c + 1].at
        OBVIOUS
      <4> HIDE DEF at
      <4> QED BY <2>3, <4>1, <4>2
    <3> HIDE DEF at
    <3>3. line \in S /\ line.at = at
      <4>1. line = [at |-> at, text |-> "torn"]
        OBVIOUS
      <4> HIDE DEF line
      <4> QED BY <3>2, <4>1 DEF S
    <3> HIDE DEF line
    <3>4. /\ DOMAIN lines = 1..(c + 1) /\ lines[c + 1] = line
          /\ \A i \in 1..c : lines[i] = came[i]
      BY <2>1, <2>2, <3>1, <3>3
    <3>5. c + 1 \in 0..tail /\ c + 1 = c + 1
      BY <1>2, <2>1
    <3>6. \A i \in 1..c : lines[i] = log.lines[(n - asked) + i]
      BY <1>2, <1>4, <2>1, <2>2, <3>4
    <3>7. AreLast(lines, log, tail, c + 1)
      BY <2>1, <3>2, <3>3, <3>4, <3>5, <3>6 DEF AreLast, n, asked, whole
    <3> QED BY <3>5, <3>7 DEF lines
  <2> QED BY <2>4, <2>5
<1>8. asked \in Int /\ log.cut \in Int
  BY <1>2
<1> QED BY <1>6, <1>7, <1>8

\* What is read of a pod is what it wrote last, in order.
LEMMA PodsAreRead ==
  ASSUME NEW pod, NEW log, NEW tail \in Nat \ {0}, Written(log.lines), log.cut \in Nat
  PROVE  /\ InOrder(Labelled(pod, log, tail), tail)
         /\ Tells(Labelled(pod, log, tail), pod, log, tail)
<1> DEFINE n == Len(log.lines)
           asked == AskedOf(log, tail)
           whole == WholeOf(log, tail)
           lines == IF log.readable THEN LastLines(log, tail) ELSE <<Unreadable>>
           labelled == Labelled(pod, log, tail)
<1>1. /\ DOMAIN labelled = DOMAIN lines
      /\ \A i \in DOMAIN lines :
            labelled[i] = [pod |-> pod, at |-> lines[i].at, text |-> lines[i].text]
  BY DEF Labelled
<1>2. /\ log.lines \in Seq([at : Nat, text : STRING]) /\ n \in Nat /\ DOMAIN log.lines = 1..n
      /\ \A i, j \in DOMAIN log.lines : i <= j => log.lines[i].at <= log.lines[j].at
      /\ \A i \in 1..n : log.lines[i].at \in Nat
  <2> DEFINE S == [at : Nat, text : STRING]
  <2>1. /\ log.lines \in Seq(S) /\ n \in Nat /\ DOMAIN log.lines = 1..n
        /\ \A i, j \in DOMAIN log.lines : i <= j => log.lines[i].at <= log.lines[j].at
    BY DEF Written
  <2>2. \A i \in 1..n : log.lines[i] \in S
    <3> HIDE DEF S
    <3> QED BY <2>1, ElementOfSeq
  <2>3. \A i \in 1..n : log.lines[i].at \in Nat
    BY <2>2
  <2> QED BY <2>1, <2>3
<1>3. asked \in Nat /\ whole \in Nat /\ whole <= asked /\ asked <= n
  BY <1>2 DEF AskedOf, WholeOf
<1>4. Tells(labelled, pod, log, tail) <=>
        IF ~log.readable
        THEN labelled = <<[pod |-> pod, at |-> Unreadable.at, text |-> Unreadable.text]>>
        ELSE /\ \A i \in 1..whole :
                   labelled[i] = [pod |-> pod, at |-> log.lines[n - asked + i].at,
                                  text |-> log.lines[n - asked + i].text]
             /\ DOMAIN labelled = 1..whole \/ (whole < asked /\ DOMAIN labelled = 1..(whole + 1))
  <2> HIDE DEF labelled
  <2> QED BY DEF Tells, AskedOf, WholeOf
<1>5. CASE ~log.readable
  <2>1. labelled = <<[pod |-> pod, at |-> Unreadable.at, text |-> Unreadable.text]>>
    <3>1. lines = <<Unreadable>>
      BY <1>5
    <3> QED BY <1>5 DEF Labelled
  <2>2. DOMAIN labelled = 1..1 /\ 1..1 = {1} /\ labelled[1].at = 0
    <3> DEFINE line == [pod |-> pod, at |-> Unreadable.at, text |-> Unreadable.text]
    <3>1. line.at = 0
      BY DEF Unreadable
    <3>2. labelled = <<line>>
      BY <2>1
    <3> HIDE DEF line, labelled
    <3> QED BY <3>1, <3>2
  <2> HIDE DEF labelled
  <2>3. OrderedUpTo(labelled, 1) /\ 1 \in 0..tail
    BY <2>2 DEF OrderedUpTo
  <2>4. InOrder(labelled, tail)
    BY <2>3 DEF InOrder
  <2>5. Tells(labelled, pod, log, tail)
    BY <1>4, <1>5, <2>1
  <2> QED BY <2>4, <2>5 DEF labelled
<1>6. CASE log.readable
  <2>1. lines = LastLines(log, tail)
    BY <1>6
  <2>2. PICK m \in 0..tail : AreLast(lines, log, tail, m)
    BY <2>1, LastLinesAre
  <2> HIDE DEF lines, labelled
  <2>3. /\ DOMAIN lines = 1..m
        /\ m = whole \/ (whole < asked /\ m = whole + 1)
        /\ \A i \in 1..whole : lines[i] = log.lines[(n - asked) + i]
        /\ m = whole + 1 => lines[m].at \in {0, log.lines[(n - asked) + m].at}
    BY <2>2 DEF AreLast
  <2> HIDE DEF n, asked, whole
  <2>4. ASSUME NEW i \in 1..m
        PROVE  /\ (n - asked) + i \in 1..n
               /\ lines[i].at \in {0, log.lines[(n - asked) + i].at}
               /\ i # m => lines[i].at = log.lines[(n - asked) + i].at
    <3>1. (n - asked) + i \in 1..n
      <4>1. n \in Nat /\ asked \in Nat /\ asked <= n
        BY <1>2, <1>3
      <4>2. whole \in Nat /\ whole <= asked /\ (m = whole \/ (whole < asked /\ m = whole + 1))
        BY <1>3, <2>3
      <4>3. m \in Nat /\ m <= asked
        BY <4>1, <4>2
      <4> QED BY <4>1, <4>3
    <3>2. CASE i \in 1..whole
      BY <2>3, <3>1, <3>2
    <3>3. CASE i \notin 1..whole
      <4>1. i = m /\ m = whole + 1
        BY <1>3, <2>3, <3>3
      <4> QED BY <2>3, <3>1, <4>1
    <3> QED BY <3>2, <3>3
  <2>5. \A i \in 1..m : labelled[i].at = lines[i].at
    BY <1>1, <2>3
  <2>6. OrderedUpTo(labelled, m)
    <3>1. \A k \in 1..m : labelled[k].at \in Nat
      BY <1>2, <2>4, <2>5
    <3>2. ASSUME NEW k \in 1..m, NEW l \in 1..m, k <= l
          PROVE  labelled[k].at <= labelled[l].at \/ labelled[l].at = 0
      <4>1. CASE k = l
        BY <3>1, <4>1
      <4>2. CASE k # l
        <5>1. k # m /\ (n - asked) + k <= (n - asked) + l
          BY <1>2, <1>3, <3>2, <4>2
        <5>2. /\ labelled[k].at = log.lines[(n - asked) + k].at
              /\ labelled[l].at \in {0, log.lines[(n - asked) + l].at}
          BY <2>4, <2>5, <5>1
        <5>3. log.lines[(n - asked) + k].at <= log.lines[(n - asked) + l].at
          BY <1>2, <2>4, <5>1
        <5> QED BY <5>2, <5>3
      <4> QED BY <4>1, <4>2
    <3>3. DOMAIN labelled = 1..m
      BY <1>1, <2>3
    <3> QED BY <3>1, <3>2, <3>3 DEF OrderedUpTo
  <2>7. InOrder(labelled, tail)
    BY <2>6 DEF InOrder
  <2>8. \A i \in 1..whole :
           labelled[i] = [pod |-> pod, at |-> log.lines[(n - asked) + i].at,
                          text |-> log.lines[(n - asked) + i].text]
    <3> TAKE i \in 1..whole
    <3>1. i \in 1..m
      BY <1>3, <2>3
    <3> QED BY <1>1, <2>3, <3>1
  <2>9. Tells(labelled, pod, log, tail)
    <3>1. DOMAIN labelled = 1..m
      BY <1>1, <2>3
    <3> QED BY <1>4, <1>6, <2>3, <2>8, <3>1
  <2> QED BY <2>7, <2>9 DEF labelled
<1> QED BY <1>5, <1>6

\* What is read of some pods.
IsRead(read, m, tail) ==
    /\ m \in Nat /\ tail \in Nat /\ DOMAIN read = 1..m
    /\ \A i \in 1..m : InOrder(read[i], tail)

LEMMA PlacesAre ==
  ASSUME NEW read, NEW m, NEW tail, IsRead(read, m, tail)
  PROVE  /\ IsFiniteSet(Places(read))
         /\ \A e \in Places(read) : /\ e = <<e[1], e[2]>> /\ e[1] \in Nat /\ e[2] \in Nat
                                    /\ LineAt(read, e).at \in Nat
         /\ \A e, f \in Places(read) :
               e[1] = f[1] /\ e[2] <= f[2] =>
                   LineAt(read, e).at <= LineAt(read, f).at \/ LineAt(read, f).at = 0
<1>1. ASSUME NEW e \in Places(read)
      PROVE  /\ e = <<e[1], e[2]>> /\ e[1] \in 1..m /\ e[2] \in 1..tail
             /\ e[2] \in DOMAIN read[e[1]]
             /\ LineAt(read, e).at \in Nat
  <2>1. PICK i \in DOMAIN read : e \in {i} \X DOMAIN read[i]
    BY DEF Places
  <2>2. e = <<e[1], e[2]>> /\ e[1] = i /\ e[2] \in DOMAIN read[i] /\ i \in 1..m
    BY <2>1 DEF IsRead
  <2>3. PICK n \in 0..tail : DOMAIN read[i] = 1..n /\ \A k \in 1..n : read[i][k].at \in Nat
    BY <2>2 DEF IsRead, InOrder, OrderedUpTo
  <2>4. e[2] \in 1..tail
    BY <2>2, <2>3 DEF IsRead
  <2> QED BY <2>2, <2>3, <2>4 DEF LineAt
<1>2. IsFiniteSet(Places(read))
  <2>1. IsFiniteSet((1..m) \X (1..tail))
    <3>1. IsFiniteSet(1..m) /\ IsFiniteSet(1..tail)
      BY FS_Interval DEF IsRead
    <3> QED BY <3>1, FS_Product
  <2>2. Places(read) \subseteq (1..m) \X (1..tail)
    BY <1>1
  <2> QED BY <2>1, <2>2, FS_Subset
<1>3. ASSUME NEW e \in Places(read), NEW f \in Places(read), e[1] = f[1], e[2] <= f[2]
      PROVE  LineAt(read, e).at <= LineAt(read, f).at \/ LineAt(read, f).at = 0
  <2>1. PICK n \in 0..tail :
            /\ DOMAIN read[e[1]] = 1..n
            /\ \A k, l \in 1..n : k <= l =>
                  read[e[1]][k].at <= read[e[1]][l].at \/ read[e[1]][l].at = 0
    BY <1>1 DEF IsRead, InOrder, OrderedUpTo
  <2>2. e[2] \in 1..n /\ f[2] \in 1..n
    BY <1>1, <1>3, <2>1
  <2> QED BY <1>3, <2>1, <2>2 DEF LineAt
<1> QED BY <1>1, <1>2, <1>3

\* One of two lines precedes the other, and so do those that precede it.
LEMMA OneFirst ==
  ASSUME NEW read, NEW m, NEW tail, IsRead(read, m, tail),
         NEW e \in Places(read), NEW f \in Places(read)
  PROVE  /\ ~Precedes(read, e, e)
         /\ e # f => Precedes(read, e, f) \/ Precedes(read, f, e)
         /\ \A g \in Places(read) :
               Precedes(read, g, e) /\ Precedes(read, e, f) => Precedes(read, g, f)
<1>1. \A g \in Places(read) : /\ g = <<g[1], g[2]>> /\ g[1] \in Nat /\ g[2] \in Nat
                              /\ LineAt(read, g).at \in Nat
  BY PlacesAre
<1>2. ~Precedes(read, e, e)
  BY <1>1 DEF Precedes
<1>3. ASSUME e # f
      PROVE  Precedes(read, e, f) \/ Precedes(read, f, e)
  <2>1. e[1] # f[1] \/ e[2] # f[2]
    BY <1>1, <1>3
  <2> QED BY <1>1, <2>1 DEF Precedes
<1>4. ASSUME NEW g \in Places(read), Precedes(read, g, e), Precedes(read, e, f)
      PROVE  Precedes(read, g, f)
  BY <1>1, <1>4 DEF Precedes
<1> QED BY <1>2, <1>3, <1>4

\* The ranks are the positions of the merged lines, each line's its own, and lower if
\* it precedes.
LEMMA RanksArePositions ==
  ASSUME NEW read, NEW m, NEW tail, IsRead(read, m, tail)
  PROVE  LET n == Cardinality(Places(read)) IN
         /\ n \in Nat
         /\ \A e \in Places(read) : Rank(read, e) \in 1..n
         /\ \A e, f \in Places(read) :
               /\ Precedes(read, e, f) => Rank(read, e) < Rank(read, f)
               /\ Rank(read, e) = Rank(read, f) => e = f
         /\ \A k \in 1..n : \E e \in Places(read) : Rank(read, e) = k
<1> DEFINE E == Places(read)
           n == Cardinality(E)
           Below(e) == {f \in E : Precedes(read, f, e)}
           rank == [e \in E |-> Rank(read, e)]
<1>1. IsFiniteSet(E) /\ n \in Nat
  BY PlacesAre, FS_CardinalityType
<1>2. \A e \in E : /\ Below(e) \subseteq E /\ e \notin Below(e)
                   /\ Rank(read, e) = Cardinality(Below(e)) + 1
  BY OneFirst DEF Rank
<1>3. \A e \in E : IsFiniteSet(Below(e)) /\ Cardinality(Below(e)) \in Nat
  BY <1>1, <1>2, FS_Subset, FS_CardinalityType
<1>4. ASSUME NEW e \in E
      PROVE  Rank(read, e) \in 1..n
  <2>1. Cardinality(Below(e)) <= n /\ (n = Cardinality(Below(e)) => E = Below(e))
    <3> HIDE DEF E, Below
    <3> QED BY <1>1, <1>2, FS_Subset
  <2>2. Cardinality(Below(e)) # n
    BY <1>2, <2>1
  <2> HIDE DEF E, Below, n
  <2> QED BY <1>1, <1>2, <1>3, <2>1, <2>2
<1>5. ASSUME NEW e \in E, NEW f \in E, Precedes(read, e, f)
      PROVE  Rank(read, e) < Rank(read, f)
  <2>1. Below(e) \subseteq Below(f)
    BY <1>5, OneFirst
  <2>2. e \in Below(f) /\ e \notin Below(e)
    BY <1>2, <1>5
  <2>3. /\ Cardinality(Below(e)) <= Cardinality(Below(f))
        /\ Cardinality(Below(f)) = Cardinality(Below(e)) => Below(f) = Below(e)
    <3> HIDE DEF E, Below
    <3> QED BY <1>3, <2>1, FS_Subset
  <2>4. Cardinality(Below(e)) # Cardinality(Below(f))
    BY <2>2, <2>3
  <2> HIDE DEF E, Below, n
  <2> QED BY <1>2, <1>3, <2>3, <2>4
<1>6. ASSUME NEW e \in E, NEW f \in E, Rank(read, e) = Rank(read, f)
      PROVE  e = f
  <2>1. Rank(read, e) \in Int /\ Rank(read, f) \in Int
    BY <1>1, <1>4
  <2>2. ~(Rank(read, e) < Rank(read, f)) /\ ~(Rank(read, f) < Rank(read, e))
    BY <1>6, <2>1
  <2> QED BY <1>5, <2>2, OneFirst
<1> HIDE DEF E, n
<1>7. rank \in Injection(E, 1..n)
  <2>1. rank \in [E -> 1..n]
    BY <1>4
  <2>2. \A e, f \in E : rank[e] = rank[f] => e = f
    BY <1>6
  <2> QED BY <2>1, <2>2 DEF Injection, IsInjective
<1>8. IsFiniteSet(1..n) /\ Cardinality(1..n) = n
  BY <1>1, FS_Interval
<1>9. rank \in Surjection(E, 1..n)
  <2> HIDE DEF rank
  <2> QED BY <1>1, <1>7, <1>8, FS_Injection DEF n
<1>10. \A k \in 1..n : \E e \in E : Rank(read, e) = k
  BY <1>9 DEF Surjection
<1> QED BY <1>1, <1>4, <1>5, <1>6, <1>10 DEF E, n

\* Every line is in the merged lines at its rank.
LEMMA LinesAreAtTheirRanks ==
  ASSUME NEW read, NEW m, NEW tail, IsRead(read, m, tail)
  PROVE  /\ DOMAIN Sorted(read) = 1..Cardinality(Places(read))
         /\ \A e \in Places(read) : Sorted(read)[Rank(read, e)] = LineAt(read, e)
<1> DEFINE n == Cardinality(Places(read))
           Ranked(k) == CHOOSE e \in Places(read) : Rank(read, e) = k
<1>1. DOMAIN Sorted(read) = 1..n /\ \A k \in 1..n : Sorted(read)[k] = LineAt(read, Ranked(k))
  BY DEF Sorted
<1>2. ASSUME NEW e \in Places(read)
      PROVE  Sorted(read)[Rank(read, e)] = LineAt(read, e)
  <2>1. Rank(read, e) \in 1..n
    BY RanksArePositions
  <2>2. Ranked(Rank(read, e)) = e
    <3>1. /\ Ranked(Rank(read, e)) \in Places(read)
          /\ Rank(read, Ranked(Rank(read, e))) = Rank(read, e)
      OBVIOUS
    <3> HIDE DEF Ranked
    <3> QED BY <3>1, RanksArePositions
  <2> HIDE DEF Ranked, n
  <2> QED BY <1>1, <2>1, <2>2
<1> QED BY <1>1, <1>2

\* A question about logs brings what the kubelet wrote, and labels that are right.
LogsInv ==
    /\ About("podLogs") =>
          /\ question.pods \in Seq(DOMAIN question.logs) /\ question.tail \in Nat \ {0}
          /\ \A p \in DOMAIN question.logs :
                Written(question.logs[p].lines) /\ question.logs[p].cut \in Nat
    /\ About("loki") =>
          /\ question.q \in [app : STRING, pods : Seq(STRING), pod : STRING,
                             scope : {"", "service"}, container : STRING]
          /\ \A s \in question.streams :
                s.namespace = question.namespace /\ s.pod \in DOMAIN question.cluster
                    => question.cluster[s.pod] = s.app

LEMMA LogsInvariance == Spec => []LogsInv
<1>1. Init => LogsInv
  <2>1. Init => question.kind = "none"
    BY DEF Init, Nothing
  <2> QED BY <2>1 DEF LogsInv, About
<1>2. LogsInv /\ [Next]_question => LogsInv'
  <2> SUFFICES ASSUME LogsInv, [Next]_question
               PROVE  LogsInv'
    OBVIOUS
  <2>1. CASE UNCHANGED question
    BY <2>1 DEF LogsInv, About
  <2>2. CASE Next
    <3>1. PICK n \in DOMAIN Questions : question' \in Questions[n]
      BY <2>2 DEF Next
    <3> QED BY <3>1, LogsAreWritten DEF LogsInv, About
  <2> QED BY <2>1, <2>2
<1> QED BY <1>1, <1>2, PTL DEF Spec

LEMMA LinesMerge == LogsInv => MergedLinesKeepTheirOrder
<1> SUFFICES ASSUME LogsInv, About("podLogs")
             PROVE  MergedLinesKeepTheirOrder
  BY DEF MergedLinesKeepTheirOrder
<1> DEFINE q == question
           read == Gathered(q.pods, q.logs, q.tail)
           merged == MultiPodLogs(q.pods, q.logs, q.tail)
           m == Len(q.pods)
           E == Places(read)
           n == Cardinality(E)
           place == [e \in E |-> Rank(read, e)]
<1>1. /\ IsRead(read, m, q.tail)
      /\ \A k \in DOMAIN q.pods : Tells(read[k], q.pods[k], q.logs[q.pods[k]], q.tail)
  <2>1. /\ q.pods \in Seq(DOMAIN q.logs) /\ q.tail \in Nat \ {0}
        /\ \A p \in DOMAIN q.logs : Written(q.logs[p].lines) /\ q.logs[p].cut \in Nat
    BY DEF LogsInv
  <2>2. m \in Nat /\ DOMAIN read = 1..m /\ q.tail \in Nat /\ DOMAIN q.pods = 1..m
    BY <2>1 DEF Gathered
  <2>3. ASSUME NEW i \in 1..m
        PROVE  /\ InOrder(read[i], q.tail)
               /\ Tells(read[i], q.pods[i], q.logs[q.pods[i]], q.tail)
    <3>1. q.pods[i] \in DOMAIN q.logs
      BY <2>1, <2>2, ElementOfSeq
    <3>2. read[i] = Labelled(q.pods[i], q.logs[q.pods[i]], q.tail)
      BY <2>1 DEF Gathered
    <3> QED BY <2>1, <3>1, <3>2, PodsAreRead
  <2> HIDE DEF read, m
  <2> QED BY <2>2, <2>3 DEF IsRead
<1>2. merged = Sorted(read)
  BY DEF MultiPodLogs
<1> HIDE DEF read, m, merged
<1>3. /\ n \in Nat /\ DOMAIN merged = 1..n
      /\ \A e \in E : merged[Rank(read, e)] = LineAt(read, e) /\ Rank(read, e) \in 1..n
      /\ \A e, f \in E : /\ Precedes(read, e, f) => Rank(read, e) < Rank(read, f)
                         /\ Rank(read, e) = Rank(read, f) => e = f
      /\ \A k \in 1..n : \E e \in E : Rank(read, e) = k
  BY <1>1, <1>2, RanksArePositions, LinesAreAtTheirRanks
<1>4. /\ \A e \in E : /\ e = <<e[1], e[2]>> /\ e[1] \in Nat /\ e[2] \in Nat
                      /\ LineAt(read, e).at \in Nat
      /\ \A e, f \in E :
            e[1] = f[1] /\ e[2] <= f[2] =>
                LineAt(read, e).at <= LineAt(read, f).at \/ LineAt(read, f).at = 0
  BY <1>1, PlacesAre
<1> HIDE DEF E, n
<1>5. place \in [E -> DOMAIN merged] /\ \A e \in E : place[e] = Rank(read, e)
  BY <1>3
<1>6. ASSUME NEW e \in E, NEW f \in E, e[1] = f[1], e[2] < f[2], ~NoTime(read, f)
      PROVE  place[e] < place[f]
  <2>1. e[2] <= f[2] /\ LineAt(read, e).at <= LineAt(read, f).at
    BY <1>4, <1>6 DEF NoTime
  <2>2. Precedes(read, e, f)
    BY <1>4, <1>6, <2>1 DEF Precedes
  <2> QED BY <1>3, <1>5, <2>2
<1>7. /\ \A e \in E : merged[place[e]] = LineAt(read, e)
      /\ \A k \in DOMAIN merged : \E e \in E : place[e] = k
      /\ \A e, f \in E : place[e] = place[f] => e = f
  BY <1>3, <1>5
<1>8. ASSUME NEW i \in DOMAIN merged, NEW j \in DOMAIN merged, i < j
      PROVE  merged[i].at <= merged[j].at
  <2>1. PICK e \in E : place[e] = i
    BY <1>7
  <2>2. PICK f \in E : place[f] = j
    BY <1>7
  <2>3. ~Precedes(read, f, e)
    <3> SUFFICES ASSUME Precedes(read, f, e)
                 PROVE  FALSE
      OBVIOUS
    <3>1. j < i
      BY <1>3, <1>5, <2>1, <2>2
    <3>2. i \in 1..n /\ j \in 1..n /\ i \in Int /\ j \in Int
      BY <1>3
    <3> QED BY <1>8, <3>1, <3>2
  <2>4. ~(LineAt(read, f).at < LineAt(read, e).at)
    BY <2>3 DEF Precedes
  <2>5. LineAt(read, e).at <= LineAt(read, f).at
    BY <1>4, <2>4
  <2> QED BY <1>7, <2>1, <2>2, <2>5
<1> HIDE DEF place
<1>9. \E where \in [E -> DOMAIN merged] :
         /\ \A e \in E : merged[where[e]] = LineAt(read, e)
         /\ \A k \in DOMAIN merged : \E e \in E : where[e] = k
         /\ \A e, f \in E : /\ where[e] = where[f] => e = f
                            /\ e[1] = f[1] /\ e[2] < f[2] => where[e] < where[f] \/ NoTime(read, f)
  BY <1>5, <1>6, <1>7
<1> QED BY <1>1, <1>8, <1>9 DEF MergedLinesKeepTheirOrder, E, read, merged

LEMMA LinesStay == LogsInv => WideningKeepsLines
<1> SUFFICES ASSUME LogsInv, About("loki")
             PROVE  WideningKeepsLines
  BY DEF WideningKeepsLines
<1> DEFINE q == question
           failed == [error |-> NotResolved]
           wider == [q.q EXCEPT !.scope = "service"]
           narrower == [q.q EXCEPT !.scope = ""]
           wide == Streams("service")
           narrow == Streams("")
           broad == Selector(q.cluster, wider)
           exact == Selector(q.cluster, narrower)
           named == PodsOf(q.q)
           Here(s) == /\ s \in q.streams /\ s.namespace = q.namespace
                      /\ q.q.container \in {"", s.container}
           Chosen(s, label) == /\ label.of = "app" => Fits(label, s.app, q.alike)
                               /\ label.of = "pod" => Fits(label, s.pod, q.alike)
           apps == Apps(q.cluster, named)
<1>1. /\ \A s \in q.streams :
            s.namespace = q.namespace /\ s.pod \in DOMAIN q.cluster => q.cluster[s.pod] = s.app
      /\ q.q \in [app : STRING, pods : Seq(STRING), pod : STRING,
                  scope : {"", "service"}, container : STRING]
  BY DEF LogsInv
<1>2. /\ wider.app = q.q.app /\ wider.pods = q.q.pods /\ wider.pod = q.q.pod
      /\ wider.container = q.q.container /\ wider.scope = "service"
      /\ narrower.app = q.q.app /\ narrower.pods = q.q.pods /\ narrower.pod = q.q.pod
      /\ narrower.container = q.q.container /\ narrower.scope = ""
  BY <1>1
<1>3. /\ wide = Selected(q.streams, q.cluster, q.namespace, q.alike, wider)
      /\ narrow = Selected(q.streams, q.cluster, q.namespace, q.alike, narrower)
  BY DEF Streams
<1> HIDE DEF wider, narrower, wide, narrow
<1>4. /\ wide = IF broad.of = "error" THEN {failed}
                ELSE {s \in q.streams : Here(s) /\ Chosen(s, broad)}
      /\ narrow = IF exact.of = "error" THEN {failed}
                  ELSE {s \in q.streams : Here(s) /\ Chosen(s, exact)}
  BY <1>2, <1>3 DEF Selected
<1>5. /\ exact.of \in {"none", "app", "pod"}
      /\ q.q.app # "" => exact = broad
      /\ q.q.app = "" => /\ exact.of # "app"
                         /\ exact.of = "pod" => exact.names = named
  BY <1>2 DEF Selector, Label, Anything, PodsOf
<1>6. q.q.app = "" /\ named # {} =>
        IF apps = {} THEN broad.of = "error" ELSE broad.of = "app" /\ broad.names = apps
  BY <1>2 DEF Selector, Label, Anything, PodsOf, Named
<1> HIDE DEF broad, exact, named, apps, failed
<1>7. \A s \in narrow \cup wide : s = failed \/ s.namespace = q.namespace
  BY <1>4
<1>8. ASSUME q.q.app = "", NEW s \in q.streams, Here(s), s.pod \in named
      PROVE  s \in narrow
  <2>1. Chosen(s, exact)
    BY <1>5, <1>8 DEF Fits
  <2> QED BY <1>4, <1>5, <1>8, <2>1
<1>9. ASSUME NEW s \in narrow, q.q.app # ""
      PROVE  s \in wide
  BY <1>4, <1>5, <1>9
<1>10. ASSUME NEW s \in narrow, q.q.app = "", s.pod \in named, s.pod \in DOMAIN q.cluster,
              q.cluster[s.pod] # ""
       PROVE  s \in wide
  <2>1. Here(s)
    BY <1>4, <1>5
  <2>2. q.cluster[s.pod] = s.app
    BY <1>1, <1>10, <2>1
  <2>3. s.app \in apps
    BY <1>10, <2>2 DEF apps, Apps, DistinctApps
  <2>4. broad.of = "app" /\ broad.names = apps
    BY <1>6, <1>10, <2>3
  <2>5. Chosen(s, broad)
    BY <2>3, <2>4 DEF Fits
  <2> QED BY <1>4, <2>1, <2>4, <2>5
<1> QED BY <1>7, <1>8, <1>9, <1>10 DEF WideningKeepsLines, wide, narrow, named, failed

-----------------------------------------------------------------------------
(* Starting. *)

\* What an endpoint waits for is an operation that is offered with its feature.
LEMMA EndpointsOperations ==
  ASSUME NEW e \in Endpoints
  PROVE  /\ e.op \in AllOperations \cup {"none"}
         /\ e.op \in ConfigOperations => e.feature = "configurations"
         /\ e.op \in {"image-rebuild", "pipeline-deploy"} => e.feature = "imageRebuild"
  BY DEF Endpoints, Endpoint, AllOperations, NamespaceOperations, GlobalOperations,
         ConfigOperations

\* In a cluster, a feature is offered exactly if it is served.
LEMMA OfferedIsServed ==
  ASSUME NEW c, NEW env, c.inCluster, env.podNamespace # ""
  PROVE  /\ "inCluster" \in Offered(c)
         /\ "auditLog" \in Served(c, env)
         /\ "configurations" \in Offered(c) <=> "configurations" \in Served(c, env)
         /\ "imageRebuild" \in Offered(c) <=> "imageRebuild" \in Served(c, env)
         /\ c.prometheusURL # "" => "metrics" \in Served(c, env)
<1>1. AuditSource(c, env) # "none"
  BY DEF AuditSource
<1>2. ConfigSource(c) # "none" <=> c.consul.enabled \/ c.git.enabled
  BY DEF ConfigSource
<1> QED BY <1>1, <1>2 DEF Offered, Served

LEMMA OffersOpen == OfferedOperationsOpenEndpoints
<1> SUFFICES ASSUME Started, Running.inCluster, question.env.podNamespace # ""
             PROVE  OfferedOperationsOpenEndpoints
  BY DEF OfferedOperationsOpenEndpoints
<1> DEFINE offered == Operations(Offered(Running))
           served == {e \in Endpoints :
                          e.feature \in Served(Running, question.env) \cup {"none"}}
           Opens(op, gates) == \E e \in served : e.op = op /\ e.gate \in gates
<1>1. /\ "inCluster" \in Offered(Running)
      /\ "auditLog" \in Served(Running, question.env)
      /\ "configurations" \in Offered(Running)
             <=> "configurations" \in Served(Running, question.env)
      /\ "imageRebuild" \in Offered(Running)
             <=> "imageRebuild" \in Served(Running, question.env)
      /\ "metrics" \notin OfferedInVain => "metrics" \in Served(Running, question.env)
  BY OfferedIsServed DEF OfferedInVain
<1> DEFINE Stands(op, gates, feature) ==
               \E e \in Endpoints : e.op = op /\ e.gate \in gates /\ e.feature = feature
<1>2. ASSUME NEW op, NEW gates, NEW feature, Stands(op, gates, feature),
             feature \in Served(Running, question.env) \cup {"none"}
      PROVE  Opens(op, gates)
  BY <1>2
<1>3. /\ \A op \in NamespaceOperations :
            \/ Stands(op, {"namespace", "scope"}, "none")
            \/ op = "audit-read" /\ Stands(op, {"namespace", "scope"}, "auditLog")
            \/ op = "metrics" /\ Stands(op, {"namespace", "scope"}, "metrics")
            \/ /\ op \in {"image-rebuild", "pipeline-deploy"}
               /\ Stands(op, {"namespace", "scope"}, "imageRebuild")
      /\ \A op \in GlobalOperations :
            \/ Stands(op, {"global", "scope"}, "none")
            \/ op = "audit-read" /\ Stands(op, {"global", "scope"}, "auditLog")
      /\ \A op \in ConfigOperations : Stands(op, {"path"}, "configurations")
  BY SomeEndpoints DEF At, NamespaceOperations, GlobalOperations, ConfigOperations
<1> HIDE DEF Stands, Opens
<1>4. ASSUME NEW op \in offered \ OfferedInVain, op \in NamespaceOperations
      PROVE  Opens(op, {"namespace", "scope"})
  BY <1>1, <1>4, <1>2, <1>3 DEF Operations
<1>5. ASSUME NEW op \in offered \ OfferedInVain, op \in GlobalOperations
      PROVE  Opens(op, {"global", "scope"})
  BY <1>1, <1>5, <1>2, <1>3
<1>6. ASSUME NEW op \in offered \ OfferedInVain, op \in ConfigOperations
      PROVE  Opens(op, {"path"})
  BY <1>1, <1>6, <1>2, <1>3 DEF Operations
<1> USE DEF Stands, Opens
<1>7. ASSUME NEW e \in served
      PROVE  e.op \in offered \cup {"none"}
  BY <1>1, EndpointsOperations DEF Operations
<1>8. \A op \in offered \ OfferedInVain :
          /\ op \in NamespaceOperations => Opens(op, {"namespace", "scope"})
          /\ op \in GlobalOperations => Opens(op, {"global", "scope"})
          /\ op \in ConfigOperations => Opens(op, {"path"})
  BY <1>4, <1>5, <1>6
<1>9. \A e \in served : e.op \in offered \cup {"none"}
  BY <1>7
<1> QED BY <1>8, <1>9, Zenon DEF OfferedOperationsOpenEndpoints

\* A question about a start brings settings and variables of their types.
QuestionsInv ==
    About("start") =>
        /\ \E branched \in SUBSET Environments :
               question.file \in Files(Environments, branched)
        /\ question.env \in Variables

LEMMA QuestionsInvariance == Spec => []QuestionsInv
<1>1. Init => QuestionsInv
  BY DEF Init, Nothing, QuestionsInv, About
<1>2. QuestionsInv /\ [Next]_question => QuestionsInv'
  BY StartsAreSettings DEF QuestionsInv, Next, About
<1> QED BY <1>1, <1>2, PTL DEF Spec

\* The accounts of a file are those of the service; only the hash of the
\* break-glass password may come from elsewhere.
LEMMA SettledAccounts ==
  ASSUME NEW branched, NEW file \in Files(Environments, branched), NEW env \in Variables
  PROVE  LET auth == Settled(file, env).auth IN
         /\ auth.users = file.auth.users
         /\ auth.admins.users = file.auth.admins.users
         /\ auth.admins.roles = file.auth.admins.roles
         /\ auth.admins.name = file.auth.admins.name
         /\ auth.admins.hash.of = Given(file, env)
<1> DEFINE o == ApplyEnvOverrides(file, env)
           p == ApplyBootstrapPassword(o, env)
           hash == IF env.bootstrapHash = NoHash THEN file.auth.admins.hash ELSE env.bootstrapHash
<1>1. /\ DOMAIN file = {"logLevel", "inCluster", "lokiURL", "prometheusURL", "storage", "auth", "consul",
                        "git", "rebuild"}
      /\ DOMAIN file.auth = {"provider", "sessionKey", "users", "ldap", "oidc", "admins"}
      /\ DOMAIN file.auth.admins = {"users", "roles", "name", "hash"}
  BY DEF Files, Administrators
<1>2. /\ DOMAIN o = DOMAIN file
      /\ DOMAIN o.auth = DOMAIN file.auth
      /\ DOMAIN o.auth.admins = DOMAIN file.auth.admins
      /\ o.auth.users = file.auth.users
      /\ o.auth.admins = [file.auth.admins EXCEPT !.hash = hash]
  BY <1>1 DEF ApplyEnvOverrides
<1>3. /\ DOMAIN p = DOMAIN o
      /\ DOMAIN p.auth = DOMAIN o.auth
      /\ p.auth.users = o.auth.users
      /\ p.auth.admins = [o.auth.admins EXCEPT !.hash =
            IF env.bootstrapPassword = "" THEN @ ELSE Bcrypt(env.bootstrapPassword)]
  BY <1>1, <1>2 DEF ApplyBootstrapPassword
<1>4. /\ ApplyDefaults(p).auth.users = p.auth.users
      /\ ApplyDefaults(p).auth.admins = p.auth.admins
  BY <1>1, <1>2, <1>3 DEF ApplyDefaults
<1>5. /\ p.auth.admins.users = file.auth.admins.users
      /\ p.auth.admins.roles = file.auth.admins.roles
      /\ p.auth.admins.name = file.auth.admins.name
      /\ p.auth.admins.hash = IF env.bootstrapPassword = "" THEN hash
                              ELSE Bcrypt(env.bootstrapPassword)
  BY <1>1, <1>2, <1>3
<1>6. p.auth.users = file.auth.users
  BY <1>2, <1>3
<1>7. Settled(file, env) = ApplyDefaults(p)
  BY DEF Settled
<1> HIDE DEF p
<1>8. p.auth.admins.hash.of = Given(file, env)
  <2>1. CASE env.bootstrapPassword # ""
    <3>1. p.auth.admins.hash = Bcrypt(env.bootstrapPassword)
      BY <1>5, <2>1
    <3>2. Bcrypt(env.bootstrapPassword).of = env.bootstrapPassword
      BY DEF Bcrypt
    <3>3. Given(file, env) = env.bootstrapPassword
      BY <2>1, Zenon DEF Given
    <3> QED BY <3>1, <3>2, <3>3
  <2>2. CASE env.bootstrapPassword = ""
    <3>1. CASE env.bootstrapHash = NoHash
      BY <1>5, <2>2, <3>1 DEF Given
    <3>2. CASE env.bootstrapHash # NoHash
      BY <1>5, <2>2, <3>2 DEF Given
    <3> QED BY <3>1, <3>2
  <2> QED BY <2>1, <2>2
<1> QED BY <1>4, <1>5, <1>6, <1>7, <1>8

\* What is accepted of a break-glass account.
LEMMA AcceptedBreakGlass ==
  ASSUME NEW auth, BootstrapOK(auth.admins), auth.admins.name # NoName
  PROVE  /\ Enabled(auth.admins) /\ Sessions(auth)
         /\ auth.admins.hash.form = "good"
         /\ Grants(auth.admins, auth.admins.name)
  BY DEF BootstrapOK, Sessions, CheckBcryptHash

LEMMA GrantedRoles ==
  ASSUME NEW auth, NEW name, Grants(auth.admins, name)
  PROVE  FirstRoles(auth, name) # {}
<1>1. auth.admins.roles # {}
  BY DEF Grants
<1>2. auth.admins.roles \subseteq FirstRoles(auth, name)
  BY DEF FirstRoles
<1> QED BY <1>1, <1>2

LEMMA BreakGlass == QuestionsInv => BreakGlassWorks
<1> SUFFICES ASSUME QuestionsInv, Started, question.file.auth.admins.name # NoName
             PROVE  BreakGlassWorks
  BY DEF BreakGlassWorks
<1> DEFINE auth == Running.auth
           name == question.file.auth.admins.name
           other == [name EXCEPT !.spelt = @ + 1]
<1>1. PICK branched \in SUBSET Environments :
          question.file \in Files(Environments, branched) /\ question.env \in Variables
  BY DEF QuestionsInv, Started
<1>2. /\ auth.admins.name = name
      /\ auth.admins.hash.of = Given(question.file, question.env)
  BY <1>1, SettledAccounts DEF Running
<1>3. BootstrapOK(auth.admins)
  BY DEF Started, Starts, Load, Validate, Running
<1>4. /\ Enabled(auth.admins) /\ Sessions(auth)
      /\ auth.admins.hash.form = "good"
      /\ Grants(auth.admins, name)
  BY <1>2, <1>3, AcceptedBreakGlass
<1>5. name \in Names
  BY <1>1 DEF Files, Administrators
<1>6. SameName(other, name)
  BY <1>5 DEF SameName, Names
<1>7. BootstrapLogin(auth, other, Given(question.file, question.env))
  BY <1>2, <1>4, <1>6 DEF BootstrapLogin, Matches
<1>8. FirstRoles(auth, name) # {}
  BY <1>4, GrantedRoles
<1> QED BY <1>7, <1>8, Zenon DEF BreakGlassWorks

LEMMA Somebody == QuestionsInv => SomebodyGetsIn
<1> SUFFICES ASSUME QuestionsInv, Started
             PROVE  SomebodyGetsIn
  BY DEF SomebodyGetsIn
<1> DEFINE auth == Running.auth
           accounts == {[name |-> u.name, hash |-> u.hash] : u \in auth.users}
                       \cup {[name |-> auth.admins.name, hash |-> auth.admins.hash]}
<1>1. BootstrapOK(auth.admins) /\ ProviderOK(auth)
  BY DEF Started, Starts, Load, Validate, Running
<1>2. ASSUME auth.provider = "local"
      PROVE  \E a \in accounts : SignsIn(auth, a.name, a.hash.of)
  <2>1. LocalOK(auth)
    BY <1>1, <1>2 DEF ProviderOK
  <2>2. CASE auth.users = {}
    <3>1. Enabled(auth.admins)
      BY <2>1, <2>2 DEF LocalOK
    <3>2. auth.admins.hash.form = "good" /\ Sessions(auth)
      BY <1>1, <3>1, AcceptedBreakGlass DEF Enabled
    <3>3. BootstrapLogin(auth, auth.admins.name, auth.admins.hash.of)
      BY <3>1, <3>2 DEF BootstrapLogin, SameName, Matches
    <3> DEFINE a == [name |-> auth.admins.name, hash |-> auth.admins.hash]
    <3>4. a \in accounts
      OBVIOUS
    <3>5. SignsIn(auth, a.name, a.hash.of)
      BY <3>3 DEF SignsIn
    <3> QED BY <3>4, <3>5
  <2>3. CASE auth.users # {}
    <3>1. PICK u \in auth.users : CheckBcryptHash(u.hash)
      BY <2>1, <2>3 DEF LocalOK
    <3>2. LocalLogin(auth, u.name, u.hash.of)
      BY <1>2, <3>1 DEF LocalLogin, SameName, Matches, CheckBcryptHash
    <3> DEFINE a == [name |-> u.name, hash |-> u.hash]
    <3>3. a \in accounts
      OBVIOUS
    <3>4. SignsIn(auth, a.name, a.hash.of)
      BY <3>2 DEF SignsIn
    <3> QED BY <3>3, <3>4
  <2> QED BY <2>2, <2>3
<1>3. ASSUME auth.provider = "oidc"
      PROVE  \E name \in auth.admins.users \cup {auth.admins.name} : FirstRoles(auth, name) # {}
  <2>1. OIDCOK(auth)
    BY <1>1, <1>3 DEF ProviderOK
  <2>2. CASE Enabled(auth.admins)
    BY <1>1, <2>2, AcceptedBreakGlass, GrantedRoles DEF Enabled
  <2>3. CASE auth.admins.users # {}
    <3>1. PICK name \in auth.admins.users : TRUE
      BY <2>3
    <3>2. Grants(auth.admins, name)
      BY <1>1, <3>1 DEF BootstrapOK, Grants, SameName
    <3> QED BY <3>2, GrantedRoles
  <2> QED BY <2>1, <2>2, <2>3 DEF OIDCOK
<1> QED BY <1>2, <1>3, Zenon DEF SomebodyGetsIn

-----------------------------------------------------------------------------
(* The audit trail. *)

\* g is base at lo, and goes on from each value to the next by F.
GoesOn(g, T, base, lo, hi, F) ==
    /\ g \in [lo..hi -> T]
    /\ \A k \in lo..hi : g[k] = IF k = lo THEN base ELSE F[k][g[k - 1]]

\* Such a function exists.
LEMMA GoingOn ==
  ASSUME NEW T, NEW base \in T, NEW lo \in Nat, NEW hi \in Nat,
         NEW F \in [Nat -> [T -> T]]
  PROVE  \E g : GoesOn(g, T, base, lo, hi, F)
<1> DEFINE Goes(n, g) == GoesOn(g, T, base, lo, n, F)
           Stuck == {n \in Nat : ~\E g : Goes(n, g)}
<1>1. Stuck = {}
  <2> SUFFICES ASSUME Stuck # {}
               PROVE  FALSE
    OBVIOUS
  <2>1. PICK n \in Stuck : \A m \in Stuck : ~(m < n)
    BY Least
  <2>2. CASE n < lo
    <3>1. Goes(n, [k \in lo..n |-> base])
      BY <2>2 DEF GoesOn
    <3> QED BY <3>1
  <2>3. CASE n = lo
    <3>1. Goes(n, [k \in lo..n |-> base])
      BY <2>3 DEF GoesOn
    <3> QED BY <3>1
  <2>4. CASE n > lo
    <3>1. n - 1 \in Nat /\ n - 1 \notin Stuck
      <4>1. n \in Nat /\ n - 1 < n
        OBVIOUS
      <4>2. n - 1 \in Nat
        BY <4>1, <2>4
      <4> HIDE DEF Stuck
      <4> QED BY <2>1, <4>1, <4>2
    <3>2. PICK g : Goes(n - 1, g)
      BY <3>1
    <3> DEFINE h == [k \in lo..n |-> IF k = n THEN F[n][g[n - 1]] ELSE g[k]]
    <3>3. g[n - 1] \in T
      BY <3>2, <2>4 DEF GoesOn
    <3>4. Goes(n, h)
      BY <3>2, <3>3, <2>4 DEF GoesOn
    <3> QED BY <3>4
  <2> QED BY <2>2, <2>3, <2>4
<1> QED BY <1>1

\* What holds at the first number, and of each whose predecessor it holds of, holds
\* of all.
LEMMA Upward ==
  ASSUME NEW lo \in Nat, NEW hi \in Nat, NEW Good, lo \in Good \/ hi < lo,
         \A k \in lo..hi : k # lo /\ k - 1 \in Good => k \in Good
  PROVE  \A k \in lo..hi : k \in Good
<1> DEFINE Out == {k \in lo..hi : k \notin Good}
<1> SUFFICES ASSUME Out # {}
             PROVE  FALSE
  OBVIOUS
<1>1. Out \in SUBSET Nat
  OBVIOUS
<1>2. PICK k \in Out : \A j \in Out : ~(j < k)
  <2> HIDE DEF Out
  <2> QED BY <1>1, Least
<1>3. k \in lo..hi /\ k # lo /\ k - 1 \in lo..hi /\ k - 1 < k
  OBVIOUS
<1>4. k - 1 \in Good
  BY <1>2, <1>3
<1> QED BY <1>3, <1>4

\* What goes on from a member of a set to members of it stays in it.
LEMMA StayingIn ==
  ASSUME NEW T, NEW lo \in Nat, NEW hi \in Nat, NEW g, g[lo] \in T,
         \A k \in lo..hi : k # lo /\ g[k - 1] \in T => g[k] \in T
  PROVE  \A k \in lo..hi : g[k] \in T
<1> DEFINE Good == {k \in lo..hi : g[k] \in T}
<1>1. lo \in Good \/ hi < lo
  OBVIOUS
<1>2. \A k \in lo..hi : k # lo /\ k - 1 \in Good => k \in Good
  OBVIOUS
<1>3. \A k \in lo..hi : k \in Good
  <2> HIDE DEF Good
  <2> QED BY <1>1, <1>2, Upward
<1> QED BY <1>3

\* Lines of which none is after the bound have a newest one.
LEMMA NewestLine ==
  ASSUME NEW lines, lines # {}, NEW bound \in Int,
         \A e \in lines : e.time \in Int /\ e.time <= bound
  PROVE  \E e \in lines : \A f \in lines : e.time >= f.time
<1> DEFINE Ages == {bound - e.time : e \in lines}
<1>1. Ages \in SUBSET Nat /\ Ages # {}
  OBVIOUS
<1>2. PICK a \in Ages : \A b \in Ages : ~(b < a)
  BY <1>1, Least
<1>3. PICK e \in lines : a = bound - e.time
  OBVIOUS
<1>4. ASSUME NEW f \in lines
      PROVE  e.time >= f.time
  <2>1. bound - f.time \in Ages /\ bound - f.time \in Nat /\ a \in Nat
    BY <1>1
  <2>2. ~(bound - f.time < bound - e.time)
    BY <1>2, <1>3, <2>1
  <2>3. e.time \in Int /\ f.time \in Int
    OBVIOUS
  <2> HIDE DEF Ages
  <2> QED BY <2>2, <2>3
<1> QED BY <1>4

LEMMA NewestLines ==
  ASSUME NEW lines, IsFiniteSet(lines), NEW bound \in Int, NEW n \in Nat,
         \A e \in lines : e.time \in Int /\ e.time <= bound
  PROVE  Newest(lines, n) \subseteq lines
<1> DEFINE Are(k, some) ==
               some \in kSubset(k, lines) /\ \A e \in some, f \in lines \ some : e.time >= f.time
           Missing == {k \in Nat : k <= Cardinality(lines) /\ ~\E some : Are(k, some)}
<1>1. Cardinality(lines) \in Nat
  BY FS_CardinalityType
<1>2. Missing = {}
  <2> SUFFICES ASSUME Missing # {}
               PROVE  FALSE
    OBVIOUS
  <2>1. PICK k \in Missing : \A j \in Missing : ~(j < k)
    BY Least
  <2>2. CASE k = 0
    <3>1. Are(0, {})
      BY FS_EmptySet DEF kSubset
    <3> QED BY <3>1, <2>1, <2>2
  <2>3. CASE k > 0
    <3>1. k - 1 \in Nat /\ k - 1 \notin Missing /\ k - 1 < Cardinality(lines)
      BY <1>1, <2>1, <2>3
    <3>2. PICK some : Are(k - 1, some)
      BY <1>1, <3>1
    <3>3. some \subseteq lines /\ Cardinality(some) = k - 1 /\ IsFiniteSet(some)
      BY <3>2, FS_Subset DEF kSubset
    <3>4. lines \ some # {}
      <4>1. some # lines
        BY <3>1, <3>3
      <4> QED BY <3>3, <4>1
    <3>5. PICK e \in lines \ some : \A f \in lines \ some : e.time >= f.time
      <4> DEFINE rest == lines \ some
      <4>1. \A f \in rest : f.time \in Int /\ f.time <= bound
        OBVIOUS
      <4>2. rest # {}
        BY <3>4
      <4>3. \E e \in rest : \A f \in rest : e.time >= f.time
        <5> HIDE DEF rest
        <5> QED BY <4>1, <4>2, NewestLine
      <4> QED BY <4>3
    <3>6. Cardinality(some \cup {e}) = k
      <4>1. Cardinality(some \cup {e}) = Cardinality(some) + 1
        BY <3>3, <3>5, FS_AddElement
      <4> QED BY <2>3, <3>1, <3>3, <4>1
    <3>7. Are(k, some \cup {e})
      BY <3>2, <3>3, <3>5, <3>6 DEF kSubset
    <3> QED BY <2>1, <3>7
  <2> QED BY <2>2, <2>3
<1>3. CASE Cardinality(lines) <= n
  BY <1>3 DEF Newest
<1>4. CASE ~(Cardinality(lines) <= n)
  <2>1. \E some \in kSubset(n, lines) : \A e \in some, f \in lines \ some : e.time >= f.time
    BY <1>1, <1>2, <1>4
  <2>2. Newest(lines, n) \in kSubset(n, lines)
    BY <1>4, <2>1 DEF Newest
  <2> QED BY <2>2 DEF kSubset
<1> QED BY <1>3, <1>4

\* What a reader may see.
Shown(log, scope, filter) == {e \in log : e.action /\ Keep(e, scope, filter)}

\* What a source counts against the limit.
CountedLines(source, log, scope, filter) ==
    {l \in log : IF source = "pods" THEN l.action /\ l.kept /\ Keep(l, scope, filter)
                 ELSE Logql(l, scope, filter)}

\* Those of a window; Loki's is without its end.
CountedIn(source, log, scope, filter, from, to) ==
    {l \in CountedLines(source, log, scope, filter) :
        l.time >= from /\ (l.time < to \/ (source = "pods" /\ l.time <= to))}

\* A read brings what is counted and shown of its window, or more is counted than
\* it may bring.
LEMMA ReadIsShown ==
  ASSUME NEW source, NEW log, log \subseteq Lines, IsFiniteSet(log), NEW scope, NEW filter,
         NEW from \in Int, NEW to \in Int, NEW limit \in Nat
  PROVE  LET read == Read(source, log, scope, filter, from, to, limit)
             lines == CountedIn(source, log, scope, filter, from, to)
         IN
         /\ read \subseteq lines /\ read \subseteq Shown(log, scope, filter)
         /\ \/ Cardinality(lines) > limit
            \/ \A l \in lines : Keep(l, scope, filter) => l \in read
<1> DEFINE lines == CountedIn(source, log, scope, filter, from, to)
<1>1. IsFiniteSet(lines) /\ lines \subseteq log /\ Cardinality(lines) \in Nat
  <2>1. lines \subseteq log
    BY DEF CountedIn, CountedLines
  <2> HIDE DEF lines
  <2> QED BY <2>1, FS_Subset, FS_CardinalityType
<1>2. \A e \in lines : e.time \in Int /\ e.time <= to
  BY <1>1 DEF Lines, CountedIn
<1>3. Newest(lines, limit) \subseteq lines
  <2> HIDE DEF lines
  <2> QED BY <1>1, <1>2, NewestLines
<1>4. Cardinality(lines) > limit \/ Newest(lines, limit) = lines
  <2> HIDE DEF lines
  <2> QED BY <1>1 DEF Newest
<1>5. CASE source = "pods"
  <2>1. lines = {l \in log : /\ l.action /\ l.kept
                            /\ l.time >= from /\ l.time <= to
                            /\ Keep(l, scope, filter)}
    BY <1>2, <1>5 DEF CountedIn, CountedLines, Lines
  <2>2. Read(source, log, scope, filter, from, to, limit) = Newest(lines, limit)
    <3> HIDE DEF lines
    <3> QED BY <1>5, <2>1 DEF Read, ReadPods
  <2>3. lines \subseteq Shown(log, scope, filter)
    BY <2>1 DEF Shown
  <2> HIDE DEF lines
  <2> QED BY <1>3, <1>4, <2>2, <2>3 DEF lines
<1>6. CASE source # "pods"
  <2>1. lines = {l \in log : /\ Logql(l, scope, filter)
                            /\ l.time >= from /\ l.time < to}
    BY <1>6 DEF CountedIn, CountedLines
  <2>2. Read(source, log, scope, filter, from, to, limit)
            = {e \in Newest(lines, limit) : Keep(e, scope, filter)}
    <3> HIDE DEF lines
    <3> QED BY <1>6, <2>1 DEF Read, ReadLoki
  <2>3. \A e \in lines : e.action /\ e \in log
    BY <2>1 DEF Logql
  <2> HIDE DEF lines
  <2> QED BY <1>3, <1>4, <2>2, <2>3 DEF lines, Shown
<1> QED BY <1>5, <1>6

\* How far a walk through the windows has come: its lines are those counted and shown
\* from where it started back to where it stands, or more than a page were counted.
\* It stands at its start, whole windows before it, or at the floor.
Walks(source, log, scope, filter, now) ==
    LET start == Start(filter, now) IN
    {w \in [entries : SUBSET Shown(log, scope, filter), to : Int] :
        LET lines == CountedIn(source, log, scope, filter, w.to, start) IN
        /\ w.to <= start
        /\ \/ w.to = start /\ w.entries = {}
           \/ w.to <= start - Window
           \/ w.to <= Floor(source, filter, now)
        /\ w.entries \subseteq lines
        /\ \/ Cardinality(lines) > Limit(filter.limit)
           \/ w.to = start
           \/ \A l \in lines : Keep(l, scope, filter) => l \in w.entries}

\* The period of one window and of those before it.
LEMMA CountedTogether ==
  ASSUME NEW source, NEW log, log \subseteq Lines, IsFiniteSet(log), NEW scope, NEW filter,
         NEW from \in Int, NEW mid \in Int, NEW to \in Int, from <= mid, mid <= to
  PROVE  LET older == CountedIn(source, log, scope, filter, from, mid)
             newer == CountedIn(source, log, scope, filter, mid, to)
             both == CountedIn(source, log, scope, filter, from, to)
         IN
         /\ older \subseteq both /\ newer \subseteq both /\ both = older \cup newer
         /\ source # "pods" => older \cap newer = {}
         /\ IsFiniteSet(both) /\ Cardinality(both) \in Nat
<1> DEFINE both == CountedIn(source, log, scope, filter, from, to)
<1>1. both \subseteq log
  BY DEF CountedIn, CountedLines
<1>2. IsFiniteSet(both) /\ Cardinality(both) \in Nat
  <2> HIDE DEF both
  <2> QED BY <1>1, FS_Subset, FS_CardinalityType
<1>3. \A l \in CountedLines(source, log, scope, filter) : l.time \in Int
  BY DEF CountedLines, Lines
<1> QED BY <1>2, <1>3 DEF CountedIn

LEMMA CountedMore ==
  ASSUME NEW S, NEW T, S \subseteq T, IsFiniteSet(T)
  PROVE  IsFiniteSet(S) /\ Cardinality(S) \in Nat /\ Cardinality(S) <= Cardinality(T)
  BY FS_Subset, FS_CardinalityType

LEMMA CountedApart ==
  ASSUME NEW R, NEW S, NEW T, R \subseteq T, S \subseteq T, R \cap S = {}, IsFiniteSet(T)
  PROVE  Cardinality(R) + Cardinality(S) <= Cardinality(T)
<1>1. IsFiniteSet(R) /\ IsFiniteSet(S) /\ R \cup S \subseteq T
  BY FS_Subset
<1>2. Cardinality(R \cup S) = Cardinality(R) + Cardinality(S) - Cardinality(R \cap S)
  BY <1>1, FS_Union
<1>3. /\ Cardinality(R) \in Nat /\ Cardinality(S) \in Nat
      /\ Cardinality(R \cap S) = 0 /\ Cardinality(R \cup S) <= Cardinality(T)
  BY <1>1, FS_CardinalityType, FS_EmptySet, FS_Subset
<1> QED BY <1>2, <1>3

\* What a walk has become after one more window.
LEMMA OneWindow ==
  ASSUME NEW source, NEW log, log \subseteq Lines, IsFiniteSet(log), NEW scope, NEW filter,
         filter.from \in Int, filter.to \in Int, NEW now \in Int,
         NEW done \in Walks(source, log, scope, filter, now),
         NEW floor, floor = Floor(source, filter, now),
         NEW limit, limit = Limit(filter.limit),
         NEW from, from = (IF done.to - Window < floor THEN floor ELSE done.to - Window),
         done.to > floor, ~(Cardinality(done.entries) >= limit)
  PROVE  LET w == [entries |-> done.entries \cup
                       Read(source, log, scope, filter, from, done.to,
                            limit - Cardinality(done.entries)),
                   to |-> from]
         IN  w \in Walks(source, log, scope, filter, now) /\ w.to < Start(filter, now)
<1> DEFINE start == Start(filter, now)
           room == limit - Cardinality(done.entries)
           more == Read(source, log, scope, filter, from, done.to, room)
           here == CountedIn(source, log, scope, filter, from, done.to)
           before == CountedIn(source, log, scope, filter, done.to, start)
           all == CountedIn(source, log, scope, filter, from, start)
           w == [entries |-> done.entries \cup more, to |-> from]
<1>1. /\ Window \in Nat \ {0} /\ limit \in Nat \ {0}
      /\ floor \in Int /\ start \in Int
  BY AuditConstants DEF Limit, Floor, HorizonOf, Start
<1>2. source = "pods" => start - Window <= floor
  BY AuditConstants DEF Floor, HorizonOf, Start
<1>3. /\ done.to \in Int /\ done.to <= start
      /\ done.entries \subseteq Shown(log, scope, filter) /\ done.entries \subseteq before
      /\ \/ done.to = start /\ done.entries = {}
         \/ done.to <= start - Window
         \/ done.to <= floor
      /\ \/ Cardinality(before) > limit
         \/ done.to = start
         \/ \A l \in before : Keep(l, scope, filter) => l \in done.entries
  BY DEF Walks
<1> HIDE DEF start
<1>4. /\ from \in Int /\ from < done.to
      /\ from <= floor \/ (from <= done.to - Window)
  BY <1>1, <1>3
<1>5. IsFiniteSet(done.entries) /\ Cardinality(done.entries) \in Nat /\ room \in Nat
  <2>1. IsFiniteSet(done.entries) /\ Cardinality(done.entries) \in Nat
    BY <1>3, FS_Subset, FS_CardinalityType DEF Shown
  <2> QED BY <1>1, <2>1
<1>6. /\ here \subseteq all /\ before \subseteq all /\ all = here \cup before
      /\ source # "pods" => here \cap before = {}
      /\ IsFiniteSet(all) /\ Cardinality(all) \in Nat
  BY <1>1, <1>3, <1>4, CountedTogether
<1>7. /\ more \subseteq here /\ more \subseteq Shown(log, scope, filter)
      /\ \/ Cardinality(here) > room
         \/ \A l \in here : Keep(l, scope, filter) => l \in more
  <2> HIDE DEF room
  <2> QED BY <1>3, <1>4, <1>5, ReadIsShown
<1>8. done.to = start \/ (done.to <= start - Window /\ source # "pods")
  BY <1>1, <1>2, <1>3
<1>9. \/ Cardinality(all) > limit
      \/ \A l \in all : Keep(l, scope, filter) => l \in done.entries \cup more
  <2> HIDE DEF here, before, all, more
  <2>1. CASE done.to = start
    <3>1. done.entries = {} /\ all = here /\ room = limit
      <4>1. done.entries = {}
        BY <1>1, <1>3, <2>1
      <4> QED BY <1>1, <2>1, <4>1, FS_EmptySet DEF all, here, room
    <3> QED BY <1>7, <3>1
  <2>2. CASE done.to # start
    <3>1. CASE Cardinality(here) > room
      <4>1. Cardinality(done.entries) + Cardinality(here) <= Cardinality(all)
        <5>1. done.entries \subseteq all /\ done.entries \cap here = {}
          BY <1>3, <1>6, <1>8, <2>2
        <5> QED BY <1>6, <5>1, CountedApart
      <4>2. Cardinality(here) \in Nat
        BY <1>6, CountedMore
      <4> QED BY <1>1, <1>5, <1>6, <3>1, <4>1, <4>2
    <3>2. CASE Cardinality(before) > limit
      <4>1. Cardinality(before) \in Nat /\ Cardinality(before) <= Cardinality(all)
        BY <1>6, CountedMore
      <4> QED BY <1>1, <1>6, <3>2, <4>1
    <3>3. CASE /\ \A l \in here : Keep(l, scope, filter) => l \in more
               /\ \A l \in before : Keep(l, scope, filter) => l \in done.entries
      BY <1>6, <3>3
    <3> QED BY <1>3, <1>7, <2>2, <3>1, <3>2, <3>3
  <2> QED BY <2>1, <2>2
<1>10. from < start /\ (from <= floor \/ from <= start - Window)
  BY <1>1, <1>3, <1>4
<1> HIDE DEF here, before, all, more
<1>11. w \in Walks(source, log, scope, filter, now)
  BY <1>1, <1>3, <1>4, <1>6, <1>7, <1>9, <1>10 DEF Walks, all, start
<1> QED BY <1>10, <1>11 DEF more, room, start

\* So the walk ends with what was counted and shown, or where a page is full, and it
\* ends at the floor or whole windows before its start.
LEMMA WalkIsShown ==
  ASSUME NEW source, NEW log, log \subseteq Lines, IsFiniteSet(log), NEW scope, NEW filter,
         filter.from \in Int, filter.to \in Int, NEW now \in Int
  PROVE  LET read == Windows(source, log, scope, filter, now) IN
         /\ read \in Walks(source, log, scope, filter, now)
         /\ \/ read.to <= Floor(source, filter, now)
            \/ read.to <= Start(filter, now) - Window
<1> DEFINE floor == Floor(source, filter, now)
           limit == Limit(filter.limit)
           start == Start(filter, now)
           T == Walks(source, log, scope, filter, now)
           base == [entries |-> {}, to |-> start]
           from(done) == IF done.to - Window < floor THEN floor ELSE done.to - Window
           Walk(done) ==
               IF done.to <= floor \/ Cardinality(done.entries) >= limit THEN done
               ELSE [entries |-> done.entries \cup
                         Read(source, log, scope, filter, from(done), done.to,
                              limit - Cardinality(done.entries)),
                     to |-> from(done)]
           F == [k \in Nat |-> [done \in T |-> Walk(done)]]
           after == CHOOSE g : g = [k \in 0..Steps |-> IF k = 0 THEN base ELSE Walk(g[k - 1])]
<1>1. /\ Window \in Nat \ {0} /\ Steps \in Nat \ {0} /\ limit \in Nat \ {0}
      /\ floor \in Int /\ start \in Int
  BY AuditConstants DEF Limit, Floor, HorizonOf, Start
<1>2. base \in T
  <2> HIDE DEF start
  <2> QED BY <1>1 DEF Walks, start
<1>3. ASSUME NEW done \in T
      PROVE  /\ Walk(done) \in T
             /\ done.to = start /\ done.to > floor => Walk(done).to < start
             /\ done.to < start => Walk(done).to < start
  <2> HIDE DEF floor, limit, start, T
  <2>1. CASE done.to <= floor \/ Cardinality(done.entries) >= limit
    <3>1. Walk(done) = done
      BY <2>1
    <3>2. done.to = start /\ done.to > floor => FALSE
      <4>1. \/ done.to = start /\ done.entries = {}
            \/ done.to <= start - Window
            \/ done.to <= floor
        BY DEF Walks, T, start, floor
      <4>2. Cardinality({}) = 0
        BY FS_EmptySet
      <4>3. done.to \in Int
        BY DEF Walks, T
      <4>4. SUFFICES ASSUME done.to = start, done.to > floor
                     PROVE  FALSE
        OBVIOUS
      <4>5. done.entries = {}
        BY <1>1, <4>1, <4>3, <4>4
      <4>6. Cardinality(done.entries) >= limit
        BY <1>1, <2>1, <4>3, <4>4
      <4> QED BY <1>1, <4>2, <4>5, <4>6
    <3> HIDE DEF Walk
    <3> QED BY <3>1, <3>2
  <2>2. CASE ~(done.to <= floor \/ Cardinality(done.entries) >= limit)
    <3>1. done.to \in Int
      BY DEF Walks, T
    <3>2. Walk(done) \in T /\ Walk(done).to < start
      <4>1. done.to > floor /\ ~(Cardinality(done.entries) >= limit)
        BY <1>1, <2>2, <3>1
      <4> DEFINE f == from(done)
      <4>2. f = (IF done.to - Window < floor THEN floor ELSE done.to - Window)
        OBVIOUS
      <4> HIDE DEF f
      <4> DEFINE w == [entries |-> done.entries \cup
                           Read(source, log, scope, filter, f, done.to,
                                limit - Cardinality(done.entries)),
                       to |-> f]
      <4>3. w \in T /\ w.to < start
        BY <4>1, <4>2, OneWindow DEF floor, limit, start, T
      <4>4. Walk(done) = w
        BY <2>2 DEF f
      <4> HIDE DEF w, Walk
      <4> QED BY <4>3, <4>4
    <3> HIDE DEF Walk
    <3> QED BY <3>2
  <2> QED BY <2>1, <2>2
<1>4. F \in [Nat -> [T -> T]]
  <2> HIDE DEF Walk, T
  <2> QED BY <1>3
<1>5. PICK g : GoesOn(g, T, base, 0, Steps, F)
  <2>1. 0 \in Nat /\ Steps \in Nat
    BY <1>1
  <2> HIDE DEF T, base, F
  <2> QED BY <2>1, <1>2, <1>4, GoingOn
<1>6. g = [k \in 0..Steps |-> IF k = 0 THEN base ELSE Walk(g[k - 1])]
  <2>1. ASSUME NEW k \in 0..Steps, k # 0
        PROVE  F[k][g[k - 1]] = Walk(g[k - 1])
    <3>1. k \in Nat /\ k - 1 \in 0..Steps
      BY <1>1, <2>1
    <3>2. g[k - 1] \in T
      BY <1>5, <3>1 DEF GoesOn
    <3> HIDE DEF Walk, T
    <3> QED BY <3>1, <3>2
  <2> HIDE DEF Walk, F, T, base
  <2> QED BY <1>5, <2>1 DEF GoesOn
<1>7. after = [k \in 0..Steps |-> IF k = 0 THEN base ELSE Walk(after[k - 1])]
  <2> HIDE DEF Walk, base
  <2> QED BY <1>6
<1>8. after[0] = base /\ \A k \in 1..Steps : after[k] = Walk(after[k - 1])
  <2> HIDE DEF Walk, base, after
  <2> QED BY <1>1, <1>7
<1>9. after[Steps] \in {d \in T : d.to < start \/ start <= floor}
  <2> DEFINE D == {d \in T : d.to < start \/ start <= floor}
  <2> HIDE DEF Walk, T, after, start, floor
  <2>1. after[1] \in D
    <3>1. after[1] = Walk(base)
      BY <1>1, <1>8
    <3> QED BY <1>1, <1>2, <1>3, <3>1
  <2>2. \A k \in 1..Steps : k # 1 /\ after[k - 1] \in D => after[k] \in D
    BY <1>3, <1>8
  <2>3. \A k \in 1..Steps : after[k] \in D
    <3> HIDE DEF D
    <3> QED BY <1>1, <2>1, <2>2, StayingIn
  <2> QED BY <1>1, <2>3
<1>10. Windows(source, log, scope, filter, now) = after[Steps]
  BY DEF Windows
<1> HIDE DEF after
<1>11. after[Steps].to <= floor \/ after[Steps].to <= start - Window
  <2> HIDE DEF start, floor
  <2> QED BY <1>1, <1>9 DEF Walks, start, floor
<1> QED BY <1>9, <1>10, <1>11

\* A page: its lines are before its start and not before its cursor, and of these it
\* has all that are counted and shown, but for those in the part of a millisecond that
\* its cursor drops, unless more than a page were counted.
PagesUpTo(source, log, scope, filter, now) ==
    LET start == Start(filter, now)
        floor == Floor(source, filter, now)
    IN
    {p \in [entries : SUBSET Shown(log, scope, filter), next : Int] :
        /\ p.next # 0 => /\ source # "pods"
                         /\ p.next <= start - Window /\ floor < start - Window
        /\ \A e \in p.entries : /\ e.time \in Int
                                /\ source # "pods" => e.time < start
                                /\ p.next # 0 => e.time >= p.next
        /\ source = "pods" \/ floor >= Milli =>
              \A l \in CountedLines(source, log, scope, filter) :
                  /\ Keep(l, scope, filter)
                  /\ l.time >= floor /\ l.time >= p.next /\ l.time < start
                  => \/ l \in p.entries
                     \/ Cardinality(CountedIn(source, log, scope, filter, p.next, start))
                            > Limit(filter.limit)
                     \/ p.next # 0 /\ l.time < p.next + Milli - 1}

LEMMA PageIsShown ==
  ASSUME NEW source, NEW log, log \subseteq Lines, IsFiniteSet(log), NEW scope, NEW filter,
         filter.from \in Int, filter.to \in Int, NEW now \in Int
  PROVE  Page(source, log, scope, filter, now) \in PagesUpTo(source, log, scope, filter, now)
<1> DEFINE read == Windows(source, log, scope, filter, now)
           floor == Floor(source, filter, now)
           cursor == Cursor(read, floor)
           start == Start(filter, now)
           next == cursor - (cursor % Milli)
           limit == Limit(filter.limit)
           lines == CountedIn(source, log, scope, filter, read.to, start)
           page == [entries |-> read.entries, next |-> next]
<1>1. /\ read.entries \subseteq Shown(log, scope, filter)
      /\ read.to \in Int /\ read.to <= start
      /\ read.to <= floor \/ read.to <= start - Window
      /\ read.entries \subseteq lines
      /\ \/ Cardinality(lines) > limit
         \/ read.to = start
         \/ \A l \in lines : Keep(l, scope, filter) => l \in read.entries
  BY WalkIsShown DEF Walks
<1>2. /\ floor \in Int /\ start \in Int /\ Milli \in Nat \ {0} /\ Window \in Nat
      /\ limit \in Nat /\ (source = "pods" => start - Window <= floor)
  BY AuditConstants DEF Floor, HorizonOf, Start, Limit
<1>3. \A l \in CountedLines(source, log, scope, filter) : l.time \in Nat
  BY DEF CountedLines, Lines
<1> HIDE DEF read, floor, start, limit
<1>4. /\ cursor \in Int
      /\ \/ cursor = 0 /\ read.to <= floor
         \/ cursor = read.to /\ read.to > floor
  <2>1. CASE read.to > floor
    BY <1>1, <2>1 DEF Cursor
  <2>2. CASE ~(read.to > floor)
    BY <1>1, <1>2, <2>2 DEF Cursor
  <2> QED BY <2>1, <2>2
<1>5. /\ next \in Int /\ next <= cursor /\ cursor <= next + Milli - 1
      /\ cursor = 0 => next = 0
      /\ cursor >= Milli => next >= 1
  <2> HIDE DEF cursor
  <2> QED BY <1>2, <1>4
<1> HIDE DEF next, cursor
<1>6. next # 0 => /\ source # "pods" /\ cursor = read.to
                  /\ next <= start - Window /\ floor < start - Window
  BY <1>1, <1>2, <1>4, <1>5
<1>7. ASSUME NEW e \in read.entries
      PROVE  /\ e.time \in Int
             /\ source # "pods" => e.time < start
             /\ next # 0 => e.time >= next
  <2>1. /\ e.time \in Int /\ e.time >= read.to
        /\ source # "pods" => e.time < start
    BY <1>1, <1>3 DEF CountedIn
  <2> QED BY <1>1, <1>5, <1>6, <2>1
<1>8. ASSUME source = "pods" \/ floor >= Milli,
             NEW l \in CountedLines(source, log, scope, filter), Keep(l, scope, filter),
             l.time >= floor, l.time >= next, l.time < start
      PROVE  \/ l \in read.entries
             \/ Cardinality(CountedIn(source, log, scope, filter, next, start)) > limit
             \/ next # 0 /\ l.time < next + Milli - 1
  <2>1. l.time \in Nat
    BY <1>3
  <2>2. CASE l.time < read.to
    <3>1. cursor = read.to /\ read.to > floor
      BY <1>1, <1>2, <1>4, <1>8, <2>1, <2>2
    <3>2. source # "pods"
      BY <1>1, <1>2, <3>1
    <3>3. next >= 1
      BY <1>1, <1>2, <1>4, <1>5, <1>8, <3>1, <3>2
    <3> QED BY <1>1, <1>2, <1>5, <2>1, <2>2, <3>1, <3>3
  <2>3. CASE l.time >= read.to
    <3>1. l \in lines
      BY <1>8, <2>3 DEF CountedIn
    <3>2. CASE Cardinality(lines) > limit
      <4>1. lines \subseteq CountedIn(source, log, scope, filter, next, start)
        <5>1. ASSUME NEW c \in lines
              PROVE  c.time >= next
          <6>1. c.time \in Nat /\ c.time >= read.to
            BY <1>3 DEF CountedIn
          <6> QED BY <1>1, <1>4, <1>5, <6>1
        <5> QED BY <5>1 DEF CountedIn
      <4>2. CountedIn(source, log, scope, filter, next, start) \subseteq log
        BY DEF CountedIn, CountedLines
      <4>3. IsFiniteSet(CountedIn(source, log, scope, filter, next, start))
        BY <4>2, FS_Subset
      <4> HIDE DEF lines
      <4>4. /\ Cardinality(lines) \in Nat
            /\ Cardinality(CountedIn(source, log, scope, filter, next, start)) \in Nat
            /\ Cardinality(lines)
                   <= Cardinality(CountedIn(source, log, scope, filter, next, start))
        BY <4>1, <4>3, CountedMore
      <4> QED BY <1>2, <3>2, <4>4
    <3>3. CASE read.to = start
      BY <1>2, <1>8, <2>1, <2>3, <3>3
    <3>4. CASE \A c \in lines : Keep(c, scope, filter) => c \in read.entries
      BY <1>8, <3>1, <3>4
    <3> QED BY <1>1, <3>2, <3>3, <3>4
  <2> QED BY <1>1, <2>1, <2>2, <2>3
<1>9. page \in PagesUpTo(source, log, scope, filter, now)
  BY <1>1, <1>5, <1>6, <1>7, <1>8 DEF PagesUpTo, start, floor, limit
<1>10. CASE ~scope.all /\ ~scope.global /\ scope.namespaces = {}
  <2> DEFINE none == [entries |-> {}, next |-> 0]
  <2>1. Page(source, log, scope, filter, now) = none
    BY <1>10 DEF Page
  <2>2. \A l : ~Keep(l, scope, filter)
    BY <1>10 DEF Keep
  <2>3. none \in PagesUpTo(source, log, scope, filter, now)
    BY <2>2 DEF PagesUpTo
  <2> QED BY <2>1, <2>3
<1>11. CASE ~(~scope.all /\ ~scope.global /\ scope.namespaces = {})
  <2>1. Page(source, log, scope, filter, now) = page
    BY <1>11 DEF Page, read, next, cursor, floor
  <2> HIDE DEF page
  <2> QED BY <1>9, <2>1
<1> QED BY <1>10, <1>11

\* The filter and the time of the pages after the first.
LaterFilter(filter, cursor) == [filter EXCEPT !.to = cursor]
LaterPage(source, log, scope, filter, now, pause, k, cursor) ==
    Page(source, log, scope, LaterFilter(filter, cursor), now + (k - 1) * pause)

\* They differ in where they end, and in nothing that is counted, shown or cut off.
SameLines(source, log, scope, f, g) ==
    /\ f.from = g.from /\ f.limit = g.limit
    /\ \A l : Keep(l, scope, f) <=> Keep(l, scope, g)
    /\ Shown(log, scope, f) = Shown(log, scope, g)
    /\ CountedLines(source, log, scope, f) = CountedLines(source, log, scope, g)
    /\ \A from, to : CountedIn(source, log, scope, f, from, to)
                        = CountedIn(source, log, scope, g, from, to)

LEMMA LaterFilters ==
  ASSUME NEW source, NEW log, NEW scope, NEW filter \in Filters, NEW cursor \in Int
  PROVE  LET later == LaterFilter(filter, cursor) IN
         /\ later.to = cursor /\ later.from \in Int
         /\ SameLines(source, log, scope, later, filter)
<1> DEFINE later == LaterFilter(filter, cursor)
<1>1. /\ later.to = cursor /\ later.from = filter.from /\ later.limit = filter.limit
      /\ later.operation = filter.operation /\ filter.from \in Int
  BY DEF LaterFilter, Filters
<1> HIDE DEF later
<1>2. \A l : /\ Keep(l, scope, later) <=> Keep(l, scope, filter)
             /\ Logql(l, scope, later) <=> Logql(l, scope, filter)
  BY <1>1 DEF Keep, Logql
<1>3. /\ Shown(log, scope, later) = Shown(log, scope, filter)
      /\ CountedLines(source, log, scope, later) = CountedLines(source, log, scope, filter)
  BY <1>2 DEF Shown, CountedLines
<1>4. \A from, to : CountedIn(source, log, scope, later, from, to)
                       = CountedIn(source, log, scope, filter, from, to)
  BY <1>3 DEF CountedIn
<1> QED BY <1>1, <1>2, <1>3, <1>4 DEF later, SameLines

LEMMA PausesAdd ==
  ASSUME NEW a \in Nat, NEW b \in Nat, a <= b, NEW pause \in Nat
  PROVE  a * pause \in Nat /\ b * pause \in Nat /\ a * pause <= b * pause
<1>1. a * pause \in Nat /\ b * pause \in Nat /\ (b - a) * pause \in Nat
  OBVIOUS
<1>2. b * pause = a * pause + (b - a) * pause
  OBVIOUS
<1> QED BY <1>1, <1>2

\* Each page is the one its predecessor's cursor asks for.
PageAfterPage(pages, source, log, scope, filter, now, pause, k) ==
    /\ pages[k] \in [entries : SUBSET Shown(log, scope, filter), next : Int]
    /\ k = 1 => pages[k] = Page(source, log, scope, filter, now)
    /\ k # 1 /\ pages[k - 1].next = 0 => pages[k] = [entries |-> {}, next |-> 0]
    /\ k # 1 /\ pages[k - 1].next # 0 =>
          pages[k] = LaterPage(source, log, scope, filter, now, pause, k, pages[k - 1].next)

LEMMA PagesFollow ==
  ASSUME NEW source, NEW log, log \subseteq Lines, IsFiniteSet(log), NEW scope,
         NEW filter \in Filters, NEW now \in Nat, NEW pause \in Nat, NEW N \in Nat,
         NEW pages, pages = Pages(source, log, scope, filter, now, pause, N), NEW k \in 1..N
  PROVE  PageAfterPage(pages, source, log, scope, filter, now, pause, k)
<1> DEFINE T == [entries : SUBSET Shown(log, scope, filter), next : Int]
           base == Page(source, log, scope, filter, now)
           NoPage == [entries |-> {}, next |-> 0]
           On(i, before) ==
               IF before.next = 0 THEN NoPage
               ELSE LaterPage(source, log, scope, filter, now, pause, i, before.next)
           F == [i \in Nat |-> [before \in T |-> On(i, before)]]
           page == CHOOSE g : g = [i \in 1..N |-> IF i = 1 THEN base ELSE On(i, g[i - 1])]
<1>1. base \in T
  <2>1. base \in PagesUpTo(source, log, scope, filter, now)
    BY PageIsShown DEF Filters
  <2> HIDE DEF base
  <2> QED BY <2>1 DEF PagesUpTo
<1>2. ASSUME NEW i \in Nat \ {0}, NEW before \in T
      PROVE  On(i, before) \in T
  <2> DEFINE later == LaterFilter(filter, before.next)
             then == now + (i - 1) * pause
  <2>1. then \in Int
    <3>1. (i - 1) * pause \in Nat
      BY PausesAdd
    <3> DEFINE passed == (i - 1) * pause
    <3> HIDE DEF passed
    <3>2. now + passed \in Int
      BY <3>1 DEF passed
    <3> QED BY <3>2 DEF passed
  <2>2. before.next \in Int
    OBVIOUS
  <2>3. /\ later.to \in Int /\ later.from \in Int
        /\ Shown(log, scope, later) = Shown(log, scope, filter)
    <3> DEFINE cursor == before.next
    <3>1. cursor \in Int
      BY <2>2
    <3> HIDE DEF cursor
    <3>2. LET l == LaterFilter(filter, cursor) IN
          l.to = cursor /\ l.from \in Int /\ SameLines(source, log, scope, l, filter)
      BY <3>1, LaterFilters
    <3> QED BY <3>1, <3>2 DEF cursor, SameLines
  <2> HIDE DEF later, then
  <2>4. Page(source, log, scope, later, then) \in PagesUpTo(source, log, scope, later, then)
    BY <2>1, <2>3, PageIsShown
  <2>5. Page(source, log, scope, later, then) \in T
    BY <2>3, <2>4 DEF PagesUpTo
  <2> QED BY <2>5 DEF LaterPage, later, then
<1>3. [i \in Nat |-> [before \in T |-> IF i = 0 THEN base ELSE On(i, before)]]
          \in [Nat -> [T -> T]]
  <2> HIDE DEF T, On, base
  <2> QED BY <1>1, <1>2
<1> DEFINE G == [i \in Nat |-> [before \in T |-> IF i = 0 THEN base ELSE On(i, before)]]
<1>4. PICK g : GoesOn(g, T, base, 1, N, G)
  <2>1. 1 \in Nat
    OBVIOUS
  <2> HIDE DEF T, base, G
  <2> QED BY <2>1, <1>1, <1>3, GoingOn DEF G
<1>5. g = [i \in 1..N |-> IF i = 1 THEN base ELSE On(i, g[i - 1])]
  <2>1. ASSUME NEW i \in 1..N, i # 1
        PROVE  G[i][g[i - 1]] = On(i, g[i - 1])
    <3>1. i \in Nat /\ i # 0 /\ i - 1 \in 1..N
      BY <2>1
    <3>2. g[i - 1] \in T
      BY <1>4, <3>1 DEF GoesOn
    <3> HIDE DEF On, T, base
    <3> QED BY <3>1, <3>2
  <2> HIDE DEF On, G, T, base
  <2> QED BY <1>4, <2>1 DEF GoesOn
<1>6. page = [i \in 1..N |-> IF i = 1 THEN base ELSE On(i, page[i - 1])]
  <2> HIDE DEF On, base
  <2> QED BY <1>5
<1>7. \A i \in 1..N : page[i] = IF i = 1 THEN base ELSE On(i, page[i - 1])
  <2> HIDE DEF On, base, page
  <2> QED BY <1>6
<1>8. \A i \in 1..N : page[i] \in T
  <2> HIDE DEF On, base, T, page
  <2>1. CASE N = 0
    BY <2>1
  <2>2. CASE N # 0
    <3>1. page[1] \in T
      BY <1>1, <1>7, <2>2
    <3>2. \A i \in 1..N : i # 1 /\ page[i - 1] \in T => page[i] \in T
      BY <1>2, <1>7
    <3> QED BY <3>1, <3>2, StayingIn
  <2> QED BY <2>1, <2>2
<1>9. pages = page
  BY DEF Pages, LaterPage, LaterFilter
<1>10. k # 1 => k - 1 \in 1..N
  OBVIOUS
<1> HIDE DEF page, base
<1> QED BY <1>7, <1>8, <1>9, <1>10 DEF base, PageAfterPage

\* What each page is, by its own filter and time.
LEMMA PageByPage ==
  ASSUME NEW source, NEW log, log \subseteq Lines, IsFiniteSet(log), NEW scope,
         NEW filter \in Filters, NEW now \in Nat, NEW pause \in Nat, NEW N \in Nat,
         NEW pages, pages = Pages(source, log, scope, filter, now, pause, N),
         NEW k \in 1..N
  PROVE  /\ k = 1 => pages[k] \in PagesUpTo(source, log, scope, filter, now)
         /\ k # 1 /\ pages[k - 1].next # 0 =>
               pages[k] \in PagesUpTo(source, log, scope,
                                LaterFilter(filter, pages[k - 1].next), now + (k - 1) * pause)
<1>1. CASE k = 1
  <2>1. filter.from \in Int /\ filter.to \in Int
    BY DEF Filters
  <2>2. pages[k] = Page(source, log, scope, filter, now)
    <3>1. PageAfterPage(pages, source, log, scope, filter, now, pause, k)
      BY PagesFollow
    <3> QED BY <1>1, <3>1 DEF PageAfterPage
  <2>3. Page(source, log, scope, filter, now) \in PagesUpTo(source, log, scope, filter, now)
    BY <2>1, PageIsShown
  <2> QED BY <1>1, <2>2, <2>3
<1>2. CASE k # 1
  <2>1. k - 1 \in Nat /\ k - 1 \in 1..N
    BY <1>2
  <2>2. pages[k - 1].next \in Int
    <3>1. PageAfterPage(pages, source, log, scope, filter, now, pause, k - 1)
      BY <2>1, PagesFollow
    <3> QED BY <3>1 DEF PageAfterPage
  <2> DEFINE later == LaterFilter(filter, pages[k - 1].next)
             then == now + (k - 1) * pause
  <2>3. then \in Int
    <3> DEFINE passed == (k - 1) * pause
    <3>1. passed \in Nat
      BY <2>1, PausesAdd
    <3> HIDE DEF passed
    <3> QED BY <3>1 DEF passed
  <2>4. later.from \in Int /\ later.to \in Int
    BY <2>2, LaterFilters
  <2> HIDE DEF later, then
  <2>5. Page(source, log, scope, later, then) \in PagesUpTo(source, log, scope, later, then)
    BY <2>3, <2>4, PageIsShown
  <2>6. pages[k - 1].next # 0 => pages[k] = Page(source, log, scope, later, then)
    <3>1. pages[k - 1].next # 0 =>
              pages[k] = LaterPage(source, log, scope, filter, now, pause, k, pages[k - 1].next)
      <4>1. PageAfterPage(pages, source, log, scope, filter, now, pause, k)
        BY PagesFollow
      <4> QED BY <1>2, <4>1 DEF PageAfterPage
    <3> QED BY <3>1 DEF LaterPage, later, then
  <2> QED BY <1>2, <2>5, <2>6 DEF later, then
<1> QED BY <1>1, <1>2

\* So the page after a cursor is before it, and its own cursor too.
Beyond(source, page, cursor) ==
    /\ page.next \in Int
    /\ page.next # 0 => cursor # 0 /\ page.next <= cursor
    /\ \A e \in page.entries :
           cursor # 0 /\ (source # "pods" => e.time \in Int /\ e.time < cursor)

LEMMA LaterPageIsBefore ==
  ASSUME NEW source, NEW log, log \subseteq Lines, IsFiniteSet(log), NEW scope,
         NEW filter \in Filters, NEW now \in Nat, NEW pause \in Nat, NEW N \in Nat,
         NEW pages, pages = Pages(source, log, scope, filter, now, pause, N),
         NEW k \in 1..N, k # 1
  PROVE  Beyond(source, pages[k], pages[k - 1].next)
<1> DEFINE cursor == pages[k - 1].next
           later == LaterFilter(filter, cursor)
           then == now + (k - 1) * pause
<1>1. k - 1 \in 1..N /\ k - 1 \in Nat
  OBVIOUS
<1>2. /\ cursor \in Int /\ pages[k].next \in Int
      /\ cursor = 0 => pages[k] = [entries |-> {}, next |-> 0]
  <2>1. /\ PageAfterPage(pages, source, log, scope, filter, now, pause, k - 1)
        /\ PageAfterPage(pages, source, log, scope, filter, now, pause, k)
    BY <1>1, PagesFollow
  <2> QED BY <2>1 DEF PageAfterPage
<1>3. cursor # 0 => pages[k] \in PagesUpTo(source, log, scope, later, then)
  BY PageByPage
<1>4. then \in Int
  <2> DEFINE passed == (k - 1) * pause
  <2>1. passed \in Nat
    BY <1>1, PausesAdd
  <2> HIDE DEF passed
  <2> QED BY <2>1 DEF passed
<1>5. later.to = cursor
  BY <1>2, LaterFilters
<1> HIDE DEF later, then
<1>6. cursor # 0 => Start(later, then) \in Int /\ Start(later, then) <= cursor
  BY <1>2, <1>4, <1>5 DEF Start
<1> HIDE DEF cursor
<1>7. CASE cursor = 0
  BY <1>2, <1>7 DEF cursor, Beyond
<1>8. CASE cursor # 0
  <2>1. Window \in Nat
    BY AuditConstants
  <2> DEFINE page == pages[k]
  <2>2. page \in PagesUpTo(source, log, scope, later, then) /\ page.next \in Int
    BY <1>2, <1>3, <1>8
  <2> HIDE DEF page
  <2>3. /\ page.next # 0 => page.next <= cursor
        /\ \A e \in page.entries : source # "pods" => e.time \in Int /\ e.time < cursor
    BY <1>2, <1>6, <1>8, <2>1, <2>2 DEF PagesUpTo
  <2> QED BY <1>2, <1>8, <2>3 DEF cursor, page, Beyond
<1> QED BY <1>7, <1>8

\* What the pages show is shown once, and in scope.
LEMMA PagesAreShown ==
  ASSUME NEW source, NEW log, log \subseteq Lines, IsFiniteSet(log), NEW scope,
         NEW filter \in Filters, NEW now \in Nat, NEW pause \in Nat, NEW N \in Nat
  PROVE  LET pages == Pages(source, log, scope, filter, now, pause, N) IN
         /\ \A k \in 1..N : pages[k].entries \subseteq Shown(log, scope, filter)
         /\ \A j, k \in 1..N : j < k => pages[j].entries \cap pages[k].entries = {}
<1> DEFINE pages == Pages(source, log, scope, filter, now, pause, N)
<1>1. \A k \in 1..N : /\ pages[k].entries \subseteq Shown(log, scope, filter)
                     /\ pages[k].next \in Int
  <2>1. ASSUME NEW k \in 1..N
        PROVE  PageAfterPage(pages, source, log, scope, filter, now, pause, k)
    <3>1. pages = Pages(source, log, scope, filter, now, pause, N)
      OBVIOUS
    <3> HIDE DEF pages
    <3> QED BY <3>1, PagesFollow
  <2> HIDE DEF pages
  <2> QED BY <2>1 DEF PageAfterPage
<1>2. ASSUME NEW k \in 1..N, k # 1
      PROVE  Beyond(source, pages[k], pages[k - 1].next)
  <2>1. pages = Pages(source, log, scope, filter, now, pause, N)
    OBVIOUS
  <2> HIDE DEF pages
  <2> QED BY <1>2, <2>1, LaterPageIsBefore
<1>3. ASSUME NEW k \in 1..N
      PROVE  pages[k].next # 0 => /\ source # "pods"
                                  /\ \A e \in pages[k].entries :
                                         e.time \in Int /\ e.time >= pages[k].next
  <2>1. CASE k = 1
    <3>1. pages[k] \in PagesUpTo(source, log, scope, filter, now)
      BY <2>1, PageByPage
    <3> HIDE DEF pages
    <3> QED BY <3>1 DEF PagesUpTo
  <2>2. CASE k # 1
    <3>1. pages[k].next # 0 => pages[k - 1].next # 0
      BY <1>2, <2>2 DEF Beyond
    <3>2. pages[k - 1].next # 0 =>
              pages[k] \in PagesUpTo(source, log, scope,
                               LaterFilter(filter, pages[k - 1].next), now + (k - 1) * pause)
      BY <2>2, PageByPage
    <3> HIDE DEF pages
    <3> QED BY <3>1, <3>2 DEF PagesUpTo
  <2> QED BY <2>1, <2>2
<1> HIDE DEF pages
<1>4. ASSUME NEW j \in 1..N, NEW k \in 1..N, j < k
      PROVE  pages[j].entries \cap pages[k].entries = {}
  <2> DEFINE D == {p \in {pages[i] : i \in 1..N} : Beyond(source, p, pages[j].next)}
  <2>1. pages[j + 1] \in D
    <3>1. j + 1 \in 1..N /\ j + 1 # 1 /\ (j + 1) - 1 = j
      BY <1>4
    <3> QED BY <1>2, <3>1
  <2>2. ASSUME NEW i \in (j + 1)..N, i # j + 1, pages[i - 1] \in D
        PROVE  pages[i] \in D
    <3>1. i \in 1..N /\ i # 1
      BY <2>2
    <3> DEFINE x == pages[i]
               y == pages[i - 1]
               c == pages[j].next
    <3>2. c \in Int /\ Beyond(source, x, y.next) /\ Beyond(source, y, c)
      <4>1. Beyond(source, x, y.next)
        BY <1>2, <3>1
      <4>2. Beyond(source, y, c)
        BY <2>2
      <4> QED BY <1>1, <4>1, <4>2
    <3>3. Beyond(source, x, c)
      <4> HIDE DEF x, y, c
      <4> QED BY <3>2 DEF Beyond
    <3> QED BY <3>1, <3>3
  <2>3. \A i \in (j + 1)..N : pages[i] \in D
    <3>1. j + 1 \in Nat
      OBVIOUS
    <3> HIDE DEF D
    <3> QED BY <2>1, <2>2, <3>1, StayingIn
  <2>4. Beyond(source, pages[k], pages[j].next)
    <3>1. k \in (j + 1)..N
      BY <1>4
    <3> QED BY <2>3, <3>1
  <2>5. pages[j].next \in Int
    BY <1>1
  <2> QED BY <1>3, <2>4, <2>5 DEF Beyond
<1> QED BY <1>1, <1>4 DEF pages

\* What a page is about: from where it starts, which is its predecessor's cursor, back to
\* its own cursor or the floor.  Of what is counted and shown there it has everything,
\* but for what a limit or its cursor's millisecond drops.
Spans(page, before, source, log, scope, filter, now, last, start, floor) ==
    /\ start \in Int /\ floor \in Int /\ page.next \in Int
    /\ floor >= now - HorizonOf(source) /\ floor <= Floor(source, filter, last)
    /\ start <= before /\ (before <= now => start = before)
    /\ page.next # 0 => /\ source # "pods"
                        /\ page.next <= start - Window /\ floor < start - Window
    /\ \A l \in CountedLines(source, log, scope, filter) :
          /\ Keep(l, scope, filter)
          /\ l.time >= floor /\ l.time >= page.next /\ l.time < start
          => \/ l \in page.entries
             \/ Cardinality(CountedIn(source, log, scope, filter, page.next, start))
                    > Limit(filter.limit)
             \/ page.next # 0 /\ l.time < page.next + Milli - 1

\* Where the reader's wish or the cursor before a page would have it start.
Before(pages, filter, now, k) == IF k = 1 THEN Start(filter, now) ELSE pages[k - 1].next

LEMMA PageSpans ==
  ASSUME NEW source, NEW log, log \subseteq Lines, IsFiniteSet(log), NEW scope,
         NEW filter \in Filters, NEW now \in Nat, NEW pause \in Nat, NEW N \in Nat,
         now >= Horizon + Milli,
         NEW pages, pages = Pages(source, log, scope, filter, now, pause, N),
         NEW k \in 1..N, k = 1 \/ pages[k - 1].next # 0
  PROVE  \E start, floor :
            Spans(pages[k], Before(pages, filter, now, k), source, log, scope, filter,
                  now, now + N * pause, start, floor)
<1> DEFINE mine == IF k = 1 THEN filter ELSE LaterFilter(filter, pages[k - 1].next)
           then == now + (k - 1) * pause
           last == now + N * pause
           start == Start(mine, then)
           floor == Floor(source, mine, then)
           before == Before(pages, filter, now, k)
           page == pages[k]
<1>1. then \in Int /\ last \in Int /\ now <= then /\ then <= last /\ (k = 1 => then = now)
  <2> DEFINE passed == (k - 1) * pause
             all == N * pause
  <2>1. passed \in Nat /\ all \in Nat /\ passed <= all /\ (k = 1 => passed = 0)
    <3>1. k - 1 \in Nat /\ k - 1 <= N
      OBVIOUS
    <3>2. passed \in Nat /\ all \in Nat /\ passed <= all
      <4> DEFINE j == k - 1
      <4>1. j \in Nat /\ j <= N
        BY <3>1
      <4> HIDE DEF j
      <4>2. j * pause \in Nat /\ N * pause \in Nat /\ j * pause <= N * pause
        BY <4>1, PausesAdd
      <4> QED BY <4>2 DEF j
    <3> QED BY <3>2
  <2> HIDE DEF passed, all
  <2> QED BY <2>1 DEF passed, all
<1>2. page \in PagesUpTo(source, log, scope, mine, then)
  BY PageByPage
<1>3. k # 1 => pages[k - 1].next \in Int
  <2>1. k # 1 => k - 1 \in 1..N
    OBVIOUS
  <2>2. k # 1 => PageAfterPage(pages, source, log, scope, filter, now, pause, k - 1)
    BY <2>1, PagesFollow
  <2> QED BY <2>2 DEF PageAfterPage
<1>4. /\ mine.from = filter.from /\ mine.limit = filter.limit /\ mine.to \in Int
      /\ \A l : Keep(l, scope, mine) <=> Keep(l, scope, filter)
      /\ CountedLines(source, log, scope, mine) = CountedLines(source, log, scope, filter)
      /\ \A from, to : CountedIn(source, log, scope, mine, from, to)
                          = CountedIn(source, log, scope, filter, from, to)
  <2>1. CASE k = 1
    BY <2>1 DEF Filters
  <2>2. CASE k # 1
    <3> DEFINE cursor == pages[k - 1].next
    <3>1. cursor \in Int /\ mine = LaterFilter(filter, cursor)
      BY <1>3, <2>2
    <3> HIDE DEF cursor, mine
    <3>2. mine.to = cursor /\ SameLines(source, log, scope, mine, filter)
      BY <3>1, LaterFilters
    <3> QED BY <3>1, <3>2 DEF SameLines
  <2> QED BY <2>1, <2>2
<1>5. /\ start \in Int /\ before \in Int /\ start <= before
      /\ before <= now => start = before
  <2>1. CASE k = 1
    <3>1. start = before /\ mine = filter
      BY <1>1, <2>1 DEF Before
    <3> QED BY <1>1, <1>4, <2>1, <3>1 DEF Start
  <2>2. CASE k # 1
    <3> DEFINE cursor == pages[k - 1].next
    <3>1. cursor \in Int /\ cursor # 0 /\ mine = LaterFilter(filter, cursor) /\ before = cursor
      BY <1>3, <2>2 DEF Before
    <3>2. mine.to = cursor
      <4> HIDE DEF mine, cursor
      <4> QED BY <3>1, LaterFilters
    <3> HIDE DEF mine, cursor, then, before
    <3> QED BY <1>1, <3>1, <3>2 DEF Start
  <2> QED BY <2>1, <2>2
<1>6. /\ floor \in Int /\ floor >= now - HorizonOf(source)
      /\ floor <= Floor(source, filter, last)
      /\ source = "pods" \/ floor >= Milli
  <2>1. filter.from \in Int /\ HorizonOf(source) \in Int /\ Milli \in Int
    BY AuditConstants DEF Filters, HorizonOf
  <2>2. source # "pods" => HorizonOf(source) = Horizon
    BY DEF HorizonOf
  <2> HIDE DEF mine, then, last
  <2> QED BY <1>1, <1>4, <2>1, <2>2 DEF Floor
<1>7. page.next \in Int
  <2> HIDE DEF page, mine, then
  <2> QED BY <1>2 DEF PagesUpTo
<1>8. Spans(page, before, source, log, scope, filter, now, last, start, floor)
  <2> HIDE DEF page, mine, then, last, before
  <2> QED BY <1>2, <1>4, <1>5, <1>6, <1>7 DEF PagesUpTo, Spans
<1> HIDE DEF start, floor
<1> QED BY <1>8

\* The cursors go back by a window each, and end at the horizon.
LEMMA CursorsRecede ==
  ASSUME NEW source, NEW log, log \subseteq Lines, IsFiniteSet(log), NEW scope,
         NEW filter \in Filters, NEW now \in Nat, NEW pause \in Nat, NEW N \in Nat \ {0},
         now >= Horizon + Milli, N * Window >= Horizon,
         NEW pages, pages = Pages(source, log, scope, filter, now, pause, N)
  PROVE  /\ \A k \in 1..N : pages[k].next \in Int /\ (pages[k].next = 0 \/ pages[k].next <= now)
         /\ pages[N].next = 0
<1>1. Window \in Nat /\ Horizon \in Nat
  BY AuditConstants
<1> DEFINE Good(k, p) == /\ p.next \in Int
                         /\ p.next # 0 => /\ p.next <= now - k * Window
                                          /\ now - Horizon < now - k * Window
<1>2. ASSUME NEW k \in 1..N, k # 1 => Good(k - 1, pages[k - 1])
      PROVE  Good(k, pages[k])
  <2> DEFINE before == Before(pages, filter, now, k)
             page == pages[k]
             gone == (k - 1) * Window
  <2>1. gone \in Nat /\ k * Window = gone + Window /\ (k = 1 => gone = 0)
    <3> DEFINE j == k - 1
    <3>1. j \in Nat /\ k = j + 1
      OBVIOUS
    <3> HIDE DEF j
    <3>2. j * Window \in Nat /\ (j + 1) * Window = j * Window + Window
      BY <1>1, <3>1
    <3>3. j = 0 => j * Window = 0
      BY <1>1
    <3>4. k = 1 => j = 0
      BY <3>1
    <3> QED BY <3>1, <3>2, <3>3, <3>4 DEF j
  <2>2. page.next \in Int
    <3>1. PageAfterPage(pages, source, log, scope, filter, now, pause, k)
      BY PagesFollow
    <3> QED BY <3>1 DEF PageAfterPage
  <2>3. k = 1 \/ pages[k - 1].next # 0 => before \in Int /\ before <= now - gone
    <3>1. CASE k = 1
      <4>1. filter.to \in Int
        BY DEF Filters
      <4> HIDE DEF gone
      <4> QED BY <2>1, <3>1, <4>1 DEF Before, Start
    <3>2. CASE k # 1
      BY <1>2, <3>2 DEF Before
    <3> QED BY <3>1, <3>2
  <2>4. k # 1 /\ pages[k - 1].next = 0 => page.next = 0
    <3>1. PageAfterPage(pages, source, log, scope, filter, now, pause, k)
      BY PagesFollow
    <3> QED BY <3>1 DEF PageAfterPage
  <2>5. CASE k # 1 /\ pages[k - 1].next = 0
    BY <2>2, <2>4, <2>5
  <2>6. CASE k = 1 \/ pages[k - 1].next # 0
    <3>1. PICK start, floor : Spans(page, before, source, log, scope, filter,
                                    now, now + N * pause, start, floor)
      BY <2>6, PageSpans
    <3> HIDE DEF page, before, gone
    <3>2. page.next # 0 => /\ page.next <= now - gone - Window
                           /\ now - Horizon < now - gone - Window
      BY <1>1, <2>1, <2>2, <2>3, <2>6, <3>1 DEF Spans, HorizonOf
    <3>3. page.next # 0 => /\ page.next <= now - k * Window
                           /\ now - Horizon < now - k * Window
      <4> DEFINE far == k * Window
      <4>1. far = gone + Window
        BY <2>1
      <4> HIDE DEF far
      <4> QED BY <1>1, <2>1, <3>2, <4>1 DEF far
    <3> QED BY <2>2, <3>3 DEF page
  <2> QED BY <2>5, <2>6
<1> DEFINE Reached == {k \in 1..N : Good(k, pages[k])}
<1>3. \A k \in 1..N : k \in Reached
  <2> HIDE DEF Good
  <2>1. 1 \in Reached /\ \A k \in 1..N : k # 1 /\ k - 1 \in Reached => k \in Reached
    BY <1>2
  <2>2. 1 \in Nat
    OBVIOUS
  <2> HIDE DEF Reached
  <2> QED BY <2>1, <2>2, Upward
<1>4. \A k \in 1..N : Good(k, pages[k])
  <2> HIDE DEF Good
  <2> QED BY <1>3
<1>5. ASSUME NEW k \in 1..N
      PROVE  pages[k].next \in Int /\ (pages[k].next = 0 \/ pages[k].next <= now)
  <2>1. Good(k, pages[k])
    <3> HIDE DEF Good
    <3> QED BY <1>4
  <2>2. k * Window \in Nat
    BY <1>1
  <2> DEFINE far == k * Window
  <2> HIDE DEF far
  <2>3. far \in Nat /\ pages[k].next \in Int
        /\ (pages[k].next # 0 => pages[k].next <= now - far)
    BY <2>1, <2>2 DEF far
  <2> QED BY <2>3
<1>6. pages[N].next = 0
  <2>1. Good(N, pages[N])
    <3>1. N \in 1..N
      OBVIOUS
    <3> HIDE DEF Good
    <3> QED BY <1>4, <3>1
  <2>2. N * Window \in Nat
    BY <1>1
  <2> DEFINE far == N * Window
  <2> HIDE DEF far
  <2>3. far \in Nat /\ far >= Horizon /\ (pages[N].next # 0 => now - Horizon < now - far)
    BY <2>1, <2>2 DEF far
  <2> QED BY <1>1, <2>3
<1> QED BY <1>5, <1>6

\* So every line somebody may see is on the page about its time, or the limit, or a
\* cursor's millisecond, has dropped it.
LEMMA PagesAreWhole ==
  ASSUME NEW source, NEW log, log \subseteq Lines, IsFiniteSet(log), NEW scope,
         NEW filter \in Filters, NEW now \in Nat, NEW pause \in Nat, NEW N \in Nat \ {0},
         now >= Horizon + Milli, N * Window >= Horizon,
         NEW pages, pages = Pages(source, log, scope, filter, now, pause, N),
         NEW l \in CountedLines(source, log, scope, filter), Keep(l, scope, filter),
         l.time < Start(filter, now), l.time >= Floor(source, filter, now + N * pause)
  PROVE  \E k \in 1..N :
            /\ l.time >= pages[k].next
            /\ k > 1 => l.time < pages[k - 1].next
            /\ \/ l \in pages[k].entries
               \/ \E to \in Int :
                     /\ k > 1 => to <= pages[k - 1].next
                     /\ Cardinality(CountedIn(source, log, scope, filter, pages[k].next, to))
                            > Limit(filter.limit)
               \/ pages[k].next # 0 /\ l.time < pages[k].next + Milli - 1
<1>1. l.time \in Nat
  BY DEF CountedLines, Lines
<1>2. /\ \A k \in 1..N : pages[k].next \in Int /\ (pages[k].next = 0 \/ pages[k].next <= now)
      /\ pages[N].next = 0
  BY CursorsRecede
<1> DEFINE S == {k \in 1..N : pages[k].next <= l.time}
<1>3. PICK k \in S : \A j \in S : k <= j
  <2>1. N \in S
    BY <1>1, <1>2
  <2>2. S \subseteq Nat
    OBVIOUS
  <2> HIDE DEF S
  <2> QED BY <2>1, <2>2, Least
<1> DEFINE before == Before(pages, filter, now, k)
<1>4. k # 1 => pages[k - 1].next # 0 /\ pages[k - 1].next > l.time /\ before = pages[k - 1].next
  <2> SUFFICES ASSUME k # 1
               PROVE  pages[k - 1].next # 0 /\ pages[k - 1].next > l.time
    BY DEF Before
  <2>1. k - 1 \in 1..N /\ ~(k - 1 \in S)
    BY <1>3
  <2>2. pages[k - 1].next \in Int
    BY <1>2, <2>1
  <2> QED BY <1>1, <2>1, <2>2
<1>5. k \in 1..N /\ (k = 1 \/ pages[k - 1].next # 0)
  BY <1>3, <1>4
<1>6. PICK start, floor : Spans(pages[k], before, source, log, scope, filter,
                                now, now + N * pause, start, floor)
  BY <1>5, PageSpans
<1>7. before \in Int /\ before <= now /\ l.time < before
  <2>1. CASE k = 1
    <3>1. filter.to \in Int
      BY DEF Filters
    <3>2. before = Start(filter, now)
      BY <2>1 DEF Before
    <3> HIDE DEF before
    <3> QED BY <3>1, <3>2 DEF Start
  <2>2. CASE k # 1
    <3>1. k - 1 \in 1..N
      BY <1>3, <2>2
    <3> QED BY <1>2, <1>4, <2>2, <3>1
  <2> QED BY <2>1, <2>2
<1>8. /\ start = before /\ start \in Int /\ floor \in Int
      /\ floor <= Floor(source, filter, now + N * pause)
  BY <1>6, <1>7 DEF Spans
<1>9. l.time >= floor
  <2> DEFINE end == Floor(source, filter, now + N * pause)
  <2>1. end \in Int
    <3>1. N * pause \in Nat
      OBVIOUS
    <3> DEFINE passed == N * pause
    <3> HIDE DEF passed
    <3>2. filter.from \in Int /\ HorizonOf(source) \in Int /\ passed \in Nat
      BY <3>1, AuditConstants DEF Filters, HorizonOf, passed
    <3> QED BY <3>2 DEF Floor, passed
  <2> HIDE DEF end
  <2> QED BY <1>1, <1>8, <2>1 DEF end
<1>10. \/ l \in pages[k].entries
       \/ Cardinality(CountedIn(source, log, scope, filter, pages[k].next, start))
              > Limit(filter.limit)
       \/ pages[k].next # 0 /\ l.time < pages[k].next + Milli - 1
  <2>1. l.time >= pages[k].next /\ l.time < start
    BY <1>3, <1>1, <1>2, <1>7, <1>8
  <2> HIDE DEF before, S
  <2> QED BY <1>6, <1>9, <2>1 DEF Spans
<1>11. l.time >= pages[k].next /\ (k > 1 => l.time < pages[k - 1].next /\ start <= pages[k - 1].next)
  BY <1>1, <1>2, <1>3, <1>4, <1>7, <1>8
<1> HIDE DEF before, S
<1>12. \/ l \in pages[k].entries
       \/ \E to \in Int :
             /\ k > 1 => to <= pages[k - 1].next
             /\ Cardinality(CountedIn(source, log, scope, filter, pages[k].next, to))
                    > Limit(filter.limit)
       \/ pages[k].next # 0 /\ l.time < pages[k].next + Milli - 1
  BY <1>8, <1>10, <1>11
<1> QED BY <1>5, <1>11, <1>12

\* What a scope lets through, the roles it was made of let be seen, and no less.
LEMMA ScopeAgrees ==
  ASSUME NEW e, e.action
  PROVE  LET scope == AuditScope(question.model, question.roles) IN
         /\ Keep(e, scope, question.filter)
               <=> MaySee(e) /\ question.filter.operation \in {"", e.operation}
         /\ MaySee(e) /\ question.filter.operation \in {"", e.operation} /\ ~GlobalEntry(e)
               => Logql(e, scope, question.filter)
         /\ MaySee(e) /\ question.filter.operation \in {"", e.operation} /\ scope.all
               => Logql(e, scope, question.filter)
<1> DEFINE scope == AuditScope(question.model, question.roles)
           asked == question.filter.operation \in {"", e.operation}
<1>1. ~GlobalEntry(e) => (MaySee(e) <=> scope.all \/ e.namespace \in scope.namespaces)
  BY DEF MaySee, Allowed, AuditScope, NamespacesForOp, Listed
<1>2. GlobalEntry(e) => (MaySee(e) <=> scope.global)
  BY DEF MaySee, AuditScope
<1> HIDE DEF scope
<1>3. Keep(e, scope, question.filter) <=> MaySee(e) /\ asked
  BY <1>1, <1>2 DEF Keep
<1>4. MaySee(e) /\ asked /\ (~GlobalEntry(e) \/ scope.all) => Logql(e, scope, question.filter)
  <2> SUFFICES ASSUME MaySee(e), asked, ~GlobalEntry(e) \/ scope.all
               PROVE  Logql(e, scope, question.filter)
    OBVIOUS
  <2>1. CASE GlobalEntry(e)
    BY <1>2, <2>1 DEF Logql
  <2>2. CASE ~GlobalEntry(e)
    <3>1. e.namespace # "" /\ (scope.all \/ (e.namespace \in scope.namespaces
                                            /\ scope.namespaces # {}))
      BY <1>1, <2>2 DEF GlobalEntry
    <3> QED BY <3>1 DEF Logql
  <2> QED BY <2>1, <2>2
<1> QED BY <1>3, <1>4 DEF scope

\* A question about the trail brings a log and a filter of their types.
TrailsInv ==
    About("audit") =>
        /\ question.log \subseteq Lines /\ IsFiniteSet(question.log)
        /\ question.filter \in Filters
        /\ question.source \in {"loki", "pods"} /\ question.pause \in Nat

LEMMA TrailsInvariance == Spec => []TrailsInv
<1>1. Init => TrailsInv
  BY DEF Init, Nothing, TrailsInv, About
<1>2. TrailsInv /\ [Next]_question => TrailsInv'
  BY TrailsAreLogs DEF TrailsInv, Next, About
<1> QED BY <1>1, <1>2, PTL DEF Spec

LEMMA TrailInScope == TrailsInv => AuditStaysInScope /\ NothingTwice
<1> SUFFICES ASSUME TrailsInv, About("audit")
             PROVE  AuditStaysInScope /\ NothingTwice
  BY DEF AuditStaysInScope, NothingTwice
<1> DEFINE scope == AuditScope(question.model, question.roles)
<1>1. /\ \A k \in 1..Asked : Trail[k].entries \subseteq Shown(question.log, scope, question.filter)
      /\ \A j, k \in 1..Asked : j < k => Trail[j].entries \cap Trail[k].entries = {}
  <2>1. /\ question.log \subseteq Lines /\ IsFiniteSet(question.log)
        /\ question.filter \in Filters
        /\ question.pause \in Nat /\ Now \in Nat /\ Asked \in Nat
    BY TrailsAreLogs DEF TrailsInv
  <2> DEFINE pages == Pages(question.source, question.log, scope, question.filter, Now,
                            question.pause, Asked)
  <2>2. /\ \A k \in 1..Asked : pages[k].entries \subseteq Shown(question.log, scope, question.filter)
        /\ \A j, k \in 1..Asked : j < k => pages[j].entries \cap pages[k].entries = {}
    <3> HIDE DEF scope
    <3> QED BY <2>1, PagesAreShown
  <2> QED BY <2>2 DEF Trail
<1>2. ASSUME NEW k \in 1..Asked, NEW e \in Trail[k].entries
      PROVE  e.action /\ MaySee(e)
  <2>1. e.action /\ Keep(e, scope, question.filter)
    BY <1>1 DEF Shown
  <2> QED BY <2>1, ScopeAgrees
<1>3. ASSUME NEW j \in 1..Asked, NEW k \in 1..Asked, j # k
      PROVE  Trail[j].entries \cap Trail[k].entries = {}
  <2>1. CASE j < k
    BY <1>1, <2>1
  <2>2. CASE k < j
    BY <1>1, <2>2
  <2> QED BY <1>3, <2>1, <2>2
<1> QED BY <1>2, <1>3 DEF AuditStaysInScope, NothingTwice

\* Nothing this person may see is missing, but for what is known to be dropped.
LEMMA TrailIsWhole == TrailsInv => AuditPagesMeet
<1> SUFFICES ASSUME TrailsInv, About("audit")
             PROVE  AuditPagesMeet
  BY DEF AuditPagesMeet
<1> DEFINE scope == AuditScope(question.model, question.roles)
           source == question.source
           log == question.log
           filter == question.filter
           last == Now + Asked * question.pause
<1>1. /\ log \subseteq Lines /\ IsFiniteSet(log) /\ filter \in Filters
      /\ source \in {"loki", "pods"} /\ question.pause \in Nat
  BY DEF TrailsInv
<1>2. /\ Now \in Nat /\ Asked \in Nat \ {0}
      /\ Now >= Horizon + Milli /\ Asked * Window >= Horizon
  BY TrailsAreLogs
<1>3. Trail = Pages(source, log, scope, filter, Now, question.pause, Asked)
  BY DEF Trail
<1>4. /\ Trail[Asked].next = 0
      /\ \A k \in 1..Asked : Trail[k].next \in Int
  <2> HIDE DEF source, log, filter, scope
  <2> QED BY <1>1, <1>2, <1>3, CursorsRecede
<1>5. ASSUME NEW e \in Expected, ~DashedInLoki(e)
      PROVE  \/ \E k \in 1..Asked : e \in Trail[k].entries
             \/ PastTheLimit(e) \/ BelowACursor(e)
  <2>1. /\ e \in log /\ e.action /\ MaySee(e) /\ filter.operation \in {"", e.operation}
        /\ e.time < Start(filter, Now) /\ e.time >= Floor(source, filter, last)
        /\ source = "pods" => e.kept
    BY DEF Expected
  <2>2. source # "pods" => ~GlobalEntry(e) \/ scope.all
    BY <1>1, <1>5 DEF DashedInLoki
  <2>3. Keep(e, scope, filter) /\ (source # "pods" => Logql(e, scope, filter))
    BY <2>1, <2>2, ScopeAgrees
  <2>4. e \in CountedLines(source, log, scope, filter)
    BY <2>1, <2>3 DEF CountedLines
  <2>5. PICK k \in 1..Asked :
            /\ e.time >= Trail[k].next
            /\ k > 1 => e.time < Trail[k - 1].next
            /\ \/ e \in Trail[k].entries
               \/ \E to \in Int :
                     /\ k > 1 => to <= Trail[k - 1].next
                     /\ Cardinality(CountedIn(source, log, scope, filter, Trail[k].next, to))
                            > Limit(filter.limit)
               \/ Trail[k].next # 0 /\ e.time < Trail[k].next + Milli - 1
    <3> DEFINE pages == Trail
               pause == question.pause
    <3>1. pause \in Nat /\ pages = Pages(source, log, scope, filter, Now, pause, Asked)
      BY <1>1, <1>3
    <3>2. e.time < Start(filter, Now) /\ e.time >= Floor(source, filter, Now + Asked * pause)
      BY <2>1
    <3> HIDE DEF source, log, filter, scope, pages, pause
    <3>3. \E k \in 1..Asked :
            /\ e.time >= pages[k].next
            /\ k > 1 => e.time < pages[k - 1].next
            /\ \/ e \in pages[k].entries
               \/ \E to \in Int :
                     /\ k > 1 => to <= pages[k - 1].next
                     /\ Cardinality(CountedIn(source, log, scope, filter, pages[k].next, to))
                            > Limit(filter.limit)
               \/ pages[k].next # 0 /\ e.time < pages[k].next + Milli - 1
      BY <1>1, <1>2, <2>3, <2>4, <3>1, <3>2, PagesAreWhole
    <3> QED BY <3>3 DEF pages
  <2>6. e.time \in Nat /\ Trail[k].next \in Int /\ (k > 1 => Trail[k - 1].next \in Int)
    <3>1. e.time \in Nat
      BY <1>1, <2>1 DEF Lines
    <3>2. k > 1 => k - 1 \in 1..Asked
      BY <1>2
    <3> QED BY <1>4, <3>1, <3>2
  <2>7. OnPage(k, e)
    BY <2>5, <2>6 DEF OnPage
  <2>8. CASE e \in Trail[k].entries
    BY <2>8
  <2>9. CASE Trail[k].next # 0 /\ e.time < Trail[k].next + Milli - 1
    BY <2>5, <2>9 DEF BelowACursor
  <2>10. ASSUME NEW to \in Int, k > 1 => to <= Trail[k - 1].next,
                Cardinality(CountedIn(source, log, scope, filter, Trail[k].next, to))
                    > Limit(filter.limit)
         PROVE  PastTheLimit(e)
    <3> DEFINE here == CountedIn(source, log, scope, filter, Trail[k].next, to)
               page == {l \in log : Counted(l) /\ OnPage(k, l)}
    <3>1. ASSUME NEW l \in here
          PROVE  l \in page
      <4>1. /\ l \in log /\ l.time >= Trail[k].next
            /\ l.time < to \/ l.time <= to
            /\ l \in CountedLines(source, log, scope, filter)
        BY DEF CountedIn, CountedLines
      <4>2. l.time \in Nat
        BY <1>1, <4>1 DEF Lines
      <4>3. OnPage(k, l)
        BY <2>6, <2>10, <4>1, <4>2 DEF OnPage
      <4>4. Counted(l)
        BY <4>1 DEF Counted, CountedLines
      <4> QED BY <4>1, <4>3, <4>4
    <3>2. page \subseteq log
      OBVIOUS
    <3>3. Limit(filter.limit) \in Int /\ IsFiniteSet(page)
      <4>1. Limit(filter.limit) \in Int
        BY AuditConstants, <1>1 DEF Limit, Filters
      <4> HIDE DEF page
      <4> QED BY <1>1, <3>2, <4>1, FS_Subset
    <3>4. Cardinality(page) > Limit(filter.limit)
      <4>1. Cardinality(here) > Limit(filter.limit)
        BY <2>10
      <4>2. here \subseteq page
        BY <3>1
      <4> HIDE DEF here, page
      <4>3. /\ Cardinality(here) \in Nat /\ Cardinality(page) \in Nat
            /\ Cardinality(here) <= Cardinality(page)
        BY <3>3, <4>2, CountedMore, FS_CardinalityType
      <4> QED BY <3>3, <4>1, <4>3
    <3> QED BY <2>7, <3>4 DEF PastTheLimit
  <2> QED BY <2>5, <2>8, <2>9, <2>10
<1> QED BY <1>4, <1>5 DEF AuditPagesMeet

-----------------------------------------------------------------------------

\* Whatever the roles, operations and namespaces, the list of namespaces a page is
\* built from and the check in front of the handlers agree (NamespacesForOp,
\* VisibleNamespaces and Allowed).
THEOREM ListsAndChecksAgree == Spec => []ListsAgreeWithChecks
<1>1. ListsAgreeWithChecks
  BY ListsAgree
<1> QED BY <1>1, PTL

\* Whatever the roles and features, what the menu offers is what opens, graphs and
\* historical logs open where they are configured and allowed, and a namespace in which
\* something opens is on the start page (handleMe, handleNamespaces and the gates).
THEOREM MenuAndEndpointsAgree == Spec => []MenuMatchesEndpoints
<1>1. MenuMatchesEndpoints
  BY MenuMatches
<1> QED BY <1>1, PTL

\* Whatever paths are granted and asked for: a grant reaches what is the same segment
\* by segment, and nothing else; only canonical paths are served; lists, requests and
\* suggestions agree on it (configPathCovers, configRequest, handleListConfigs).
THEOREM GrantsFitTheirPaths == Spec => []PathGrantsFit
<1>1. PathsInv => PathGrantsFit
  BY GrantsCover, SuggestionsFit DEF PathGrantsFit
<1> QED BY <1>1, PathsInvariance, PTL

\* Whatever the settings and variables, in a cluster the role editor offers the
\* operations of the endpoints that are served, and beside these only graphs without
\* Prometheus (Operations, Router, handlePodMetrics).
THEOREM OfferedAndServedAgree == Spec => []OfferedOperationsOpenEndpoints
<1>1. OfferedOperationsOpenEndpoints
  BY OffersOpen
<1> QED BY <1>1, PTL

\* Whatever the registry, the project, the tag's marks and the environments' names: an
\* image of ours names its own project, environment and pipeline, and any other is
\* refused, as is one of an environment with a dash in its name (ParseImage).
THEOREM ImagesNameTheirPipelines == Spec => []ParsedImagesAreOurs
<1>1. ImagesInv => ParsedImagesAreOurs
  BY ImagesParse
<1> QED BY <1>1, ImagesInvariance, PTL

\* Whatever the pods wrote, and wherever their streams break: merged, the lines that came
\* are each there once, each pod's in its own order and all by time; a query for their services loses none of those a query
\* for the pods finds, and none leaves the namespace (MultiPodLogs, handleLokiQuery).
THEOREM LogsAreKept == Spec => []LogsKeepTheirLines
<1>1. LogsInv => LogsKeepTheirLines
  BY LinesMerge, LinesStay DEF LogsKeepTheirLines
<1> QED BY <1>1, LogsInvariance, PTL

\* Whatever the settings and variables: what Validate accepts locks neither the
\* break-glass account nor everybody else out (Load, auth.New, bootstrapLogin).
THEOREM AcceptedMeansAdministrable == Spec => []AdministratorsGetIn
<1>1. QuestionsInv => AdministratorsGetIn
  BY BreakGlass, Somebody DEF AdministratorsGetIn
<1> QED BY <1>1, QuestionsInvariance, PTL

\* Whatever is logged, asked and granted, from either source and over any number of
\* pages: nobody is shown an action their roles do not let them see, nor anything
\* that is no action (auditScope, logql, keep and the authorizer's answers).
THEOREM TrailsStayInScope == Spec => []AuditStaysInScope
<1>1. TrailsInv => AuditStaysInScope
  BY TrailInScope
<1> QED BY <1>1, TrailsInvariance, PTL

\* Nor is anybody who goes on from page to page shown a line twice, however the clock
\* goes on and the horizon with it (the windows and the cursor of Reader.Read).
THEOREM TrailsShowNothingTwice == Spec => []NothingTwice
<1>1. TrailsInv => NothingTwice
  BY TrailInScope
<1> QED BY <1>1, TrailsInvariance, PTL

\* Together with that nothing is missing: the pages show everything this person may see
\* and asked for, from the first request back to where the horizon has moved by the last,
\* but for what more lines than a page holds cut off, what a cursor's whole milliseconds
\* drop, and global entries that Loki is not asked for.  They end at the horizon.
THEOREM TrailsShowTheirScope == Spec => []AuditShowsItsScope
<1>1. TrailsInv => AuditShowsItsScope
  BY TrailInScope, TrailIsWhole DEF AuditShowsItsScope
<1> QED BY <1>1, TrailsInvariance, PTL
=============================================================================
