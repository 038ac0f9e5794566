----------------------------- MODULE AuditPaging -----------------------------
(***************************************************************************)
(* Reading the audit trail back, page by page (internal/auditlog): the     *)
(* scope pushed into the query, the windows walked backwards, the cursor.  *)
(*                                                                         *)
(* A log is a set of lines.  A line of an action has the time, the         *)
(* operation and the namespace it was recorded under; action is FALSE for  *)
(* whatever else the service writes.  kept says whether its container's    *)
(* stream can still be read to the end, which only the pod source needs.   *)
(* The filters by user and by text narrow like the one by operation, and   *)
(* are left out.  Times count from 1; 0 is Go's zero time.                 *)
(***************************************************************************)
EXTENDS Integers, FiniteSets, FiniteSetsExt

CONSTANTS
    Window,         \* how long a period one query spans
    Steps,          \* how many windows one request walks
    Horizon,        \* how far back Loki's history is offered
    PodHorizon,     \* and the pods' own logs
    DefaultLimit,   \* the entries of a page, unless the reader says
    MaxLimit,       \* the most a reader can ask for
    Milli           \* the ticks of a millisecond, which is what a cursor counts

ASSUME AuditConstants ==
    /\ {Window, Steps, Horizon, PodHorizon, DefaultLimit, MaxLimit, Milli} \subseteq Nat \ {0}
    /\ PodHorizon <= Window

\* requireGlobalOp, handleLogin and the access handlers record what belongs to
\* no namespace under a dash.
NoNamespace == "-"

Lines == [time : Nat, namespace : STRING, operation : STRING, action : BOOLEAN,
          kept : BOOLEAN]
Filters == [operation : STRING, to : Nat, from : Nat, limit : Nat]

\* Whether an entry belongs to no namespace.
GlobalEntry(e) == e.namespace \in {"", NoNamespace}

\* Mutant: only an entry without a namespace at all belongs to none.
KeepDashed(e, scope, filter) ==
    /\ IF e.namespace = "" THEN scope.global
       ELSE scope.all \/ e.namespace \in scope.namespaces \cup {NoNamespace}
    /\ filter.operation \in {"", e.operation}

\* The second gate, on what a query brought.
Keep(e, scope, filter) ==
    /\ IF GlobalEntry(e) THEN scope.global
       ELSE scope.all \/ e.namespace \in scope.namespaces
    /\ filter.operation \in {"", e.operation}

\* The first gate: the lines Loki's pipeline lets through.
Logql(e, scope, filter) ==
    /\ e.action
    /\ IF scope.all THEN scope.global \/ e.namespace # ""
       ELSE IF scope.namespaces # {}
       THEN e.namespace \in scope.namespaces \cup (IF scope.global THEN {""} ELSE {})
       ELSE e.namespace = ""
    /\ filter.operation \in {"", e.operation}

\* The newest of some lines; which of those of one moment is the source's affair.
Newest(lines, n) ==
    IF Cardinality(lines) <= n THEN lines
    ELSE CHOOSE some \in kSubset(n, lines) :
             \A e \in some, f \in lines \ some : e.time >= f.time

\* Loki counts the limit before the second gate, and excludes the end.
ReadLoki(log, scope, filter, from, to, limit) ==
    {e \in Newest({l \in log : /\ Logql(l, scope, filter)
                               /\ l.time >= from /\ l.time < to}, limit) :
        Keep(e, scope, filter)}

\* The pods' logs are read whole, and cut to the limit at the end.
ReadPods(log, scope, filter, from, to, limit) ==
    Newest({l \in log : /\ l.action /\ l.kept
                        /\ l.time >= from /\ l.time <= to
                        /\ Keep(l, scope, filter)}, limit)

Read(source, log, scope, filter, from, to, limit) ==
    IF source = "pods" THEN ReadPods(log, scope, filter, from, to, limit)
    ELSE ReadLoki(log, scope, filter, from, to, limit)

HorizonOf(source) == IF source = "pods" THEN PodHorizon ELSE Horizon

\* What the handler takes of the limit it is asked for.
Limit(asked) == IF asked \in 1..MaxLimit THEN asked ELSE DefaultLimit

\* How far back a request may go: the horizon, or the period the reader chose.
Floor(source, filter, now) ==
    IF filter.from > now - HorizonOf(source) THEN filter.from ELSE now - HorizonOf(source)

\* Where a request starts reading backwards.
Start(filter, now) == IF filter.to = 0 \/ filter.to > now THEN now ELSE filter.to

\* The windows of one request, newest first: it ends at the floor, after Steps
\* of them, or when the page is full.
Windows(source, log, scope, filter, now) ==
    LET floor == Floor(source, filter, now)
        limit == Limit(filter.limit)
        after[k \in 0..Steps] ==
            IF k = 0 THEN [entries |-> {}, to |-> Start(filter, now)]
            ELSE LET done == after[k - 1]
                     from == IF done.to - Window < floor THEN floor ELSE done.to - Window
                 IN  IF done.to <= floor \/ Cardinality(done.entries) >= limit THEN done
                     ELSE [entries |-> done.entries \cup
                               Read(source, log, scope, filter, from, done.to,
                                    limit - Cardinality(done.entries)),
                           to |-> from]
    IN  after[Steps]

\* Mutant: a page with nothing on it is the last one.
CursorEmptyIsLast(read, floor) == IF read.to > floor /\ read.entries # {} THEN read.to ELSE 0

\* Where the following page starts; zero at the horizon.
Cursor(read, floor) == IF read.to > floor THEN read.to ELSE 0

\* handleAuditLog's page: a cursor is sent in whole milliseconds.
Page(source, log, scope, filter, now) ==
    IF ~scope.all /\ ~scope.global /\ scope.namespaces = {} THEN [entries |-> {}, next |-> 0]
    ELSE LET read == Windows(source, log, scope, filter, now)
             next == Cursor(read, Floor(source, filter, now))
         IN  [entries |-> read.entries, next |-> next - (next % Milli)]

\* The pages a reader sees who goes on to the end, one every pause ticks.  At
\* most N are asked for.
Pages(source, log, scope, filter, now, pause, N) ==
    LET page[k \in 1..N] ==
            IF k = 1 THEN Page(source, log, scope, filter, now)
            ELSE IF page[k - 1].next = 0 THEN [entries |-> {}, next |-> 0]
            ELSE Page(source, log, scope, [filter EXCEPT !.to = page[k - 1].next],
                      now + (k - 1) * pause)
    IN  page
=============================================================================
