------------------------------ MODULE EntityGraph ------------------------------
(***************************************************************************)
(* The requests for the entity map of a case (detect/entity_graph.py), the *)
(* cache of its answers, and the writers of the case beside them.          *)
(*                                                                         *)
(* SQLite keeps what is committed in the log beside the database until a   *)
(* checkpoint copies it; the cache knows the case by the modification      *)
(* times and sizes of the two files, here the last commit each contains.   *)
(* A request holds the build lock of the case and reads its rows in three  *)
(* queries, between which others commit.                                   *)
(***************************************************************************)
EXTENDS EntityMap

CONSTANTS
  Request,
  Views,       \* what is asked: the types and the least severity of a map, or
               \* the node of a dossier
  Initial,     \* the rows of the case at first
  CacheLimit,
  MaxCommits

\* The rows a case can have.
Case ==
  LET F == ToSet(Findings)
  IN [processes : SUBSET Processes, findings : SUBSET F, suppressed : SUBSET F,
      unapplied : SUBSET F, events : SUBSET Events]

ASSUME EntityGraphConstants ==
  /\ Initial \subseteq Case
  /\ CacheLimit \in Nat \ {0} /\ MaxCommits \in Nat

VARIABLES data, logged, copied, cache, builder, request

vars == <<data, logged, copied, cache, builder, request>>
files == <<logged, copied>>

NoRows == [processes |-> {}, findings |-> {}, suppressed |-> {}, unapplied |-> {}, events |-> {}]

\* "since" is the last commit when the request took the lock.
Idle == [step |-> "idle", view |-> None, since |-> 0, stamp |-> None, read |-> NoRows, answer |-> None]

IsMap(view) == view.node = None

Init ==
  /\ data \in Initial
  /\ logged = 0 /\ copied = 0
  /\ cache = <<>> /\ builder = None
  /\ request = [r \in Request |-> Idle]

-----------------------------------------------------------------------------
(* The writers: ingestion, detection, the analyst; and SQLite. *)

Commit(new) ==
  /\ logged < MaxCommits /\ logged' = logged + 1
  /\ data' = new
  /\ UNCHANGED <<copied, cache, builder, request>>

AddEvent(e) == e \notin data.events /\ Commit([data EXCEPT !.events = @ \cup {e}])
AddProcess(p) == p \notin data.processes /\ Commit([data EXCEPT !.processes = @ \cup {p}])

\* A finding on an event is on an event there is; what the analyst's is about comes
\* from that event.
Rowed(f) ==
  f.event = None \/ \E e \in data.events :
    e.id = f.event /\ (f.node # None => f.node = Derived(e) /\ f.links = DerivedLinks(e))

\* A finding of a detector or of the analyst; one of an older version has not
\* been applied to its event yet.
AddFinding(f, legacy) ==
  /\ f \notin data.findings /\ Rowed(f)
  /\ legacy => f.node # None
  /\ Commit([data EXCEPT !.findings = @ \cup {f},
                         !.unapplied = IF legacy THEN @ \cup {f} ELSE @])

Override(f) ==
  /\ f \in data.findings
  /\ Commit([data EXCEPT !.suppressed = IF f \in @ THEN @ \ {f} ELSE @ \cup {f}])

Checkpoint ==
  /\ copied # logged /\ copied' = logged
  /\ UNCHANGED <<data, logged, cache, builder, request>>

-----------------------------------------------------------------------------
(* The requests. *)

\* _graph_fingerprint
Fingerprint == <<copied, logged>>

At(r, step) == request[r].step = step

Finish(r, rows) ==
  /\ builder' = None
  /\ request' = [request EXCEPT ![r].step = "done", ![r].stamp = None, ![r].read = NoRows,
                                ![r].answer = Answered(rows, request[r].view)]

Ask(r, view) ==
  /\ At(r, "idle") \/ At(r, "done")
  /\ request' = [request EXCEPT ![r] = [Idle EXCEPT !.step = "waiting", !.view = view]]
  /\ UNCHANGED <<data, files, cache, builder>>

\* _serialize_graph_build, then ensure_manual_findings_applied and its commit.
Enter(r) ==
  /\ At(r, "waiting") /\ builder = None /\ builder' = r
  /\ data' = [data EXCEPT !.unapplied = {}]
  /\ logged' = IF data.unapplied = {} THEN logged ELSE logged + 1
  /\ request' = [request EXCEPT ![r].step = IF IsMap(request[r].view) THEN "stamp" ELSE "processes",
                                ![r].since = logged']
  /\ UNCHANGED <<copied, cache>>

Hits(view, stamp) == {i \in DOMAIN cache : cache[i].view = view /\ cache[i].stamp = stamp}

\* The fingerprint is taken before the rows are read.
Stamp(r) ==
  LET hits == Hits(request[r].view, Fingerprint)
  IN /\ At(r, "stamp")
     /\ IF hits = {}
        THEN /\ request' = [request EXCEPT ![r].step = "processes", ![r].stamp = Fingerprint]
             /\ UNCHANGED builder
        ELSE \E i \in hits : Finish(r, cache[i].read)
     /\ UNCHANGED <<data, files, cache>>

ReadProcesses(r) ==
  /\ At(r, "processes")
  /\ request' = [request EXCEPT ![r].step = "findings", ![r].read.processes = data.processes]
  /\ UNCHANGED <<data, files, cache, builder>>

ReadFindings(r) ==
  /\ At(r, "findings")
  /\ request' = [request EXCEPT ![r].step = "events", ![r].read.findings = data.findings,
                                ![r].read.suppressed = data.suppressed]
  /\ UNCHANGED <<data, files, cache, builder>>

\* What manual findings did to the events is in their rows.
ReadEvents(r) ==
  /\ At(r, "events")
  /\ request' = [request EXCEPT ![r].step = "answer", ![r].read.events = data.events,
                                ![r].read.unapplied = data.unapplied]
  /\ UNCHANGED <<data, files, cache, builder>>

Remember(entry) ==
  LET known == {i \in DOMAIN cache : cache[i].view = entry.view}
      longer == Append(cache, entry)
  IN IF known # {} THEN [i \in DOMAIN cache |-> IF i \in known THEN entry ELSE cache[i]]
     ELSE IF Len(longer) > CacheLimit THEN Tail(longer) ELSE longer

\* Mutant: the map is kept under the fingerprint of the time it is kept.
AnswerStampedLate(r) ==
  /\ At(r, "answer") /\ Finish(r, request[r].read)
  /\ cache' = IF IsMap(request[r].view)
              THEN Remember([view |-> request[r].view, stamp |-> Fingerprint, read |-> request[r].read])
              ELSE cache
  /\ UNCHANGED <<data, files>>

\* A map is kept, by the rows it was made of; a dossier is not.
Answer(r) ==
  /\ At(r, "answer") /\ Finish(r, request[r].read)
  /\ cache' = IF IsMap(request[r].view)
              THEN Remember([view |-> request[r].view, stamp |-> request[r].stamp, read |-> request[r].read])
              ELSE cache
  /\ UNCHANGED <<data, files>>

Write ==
  \/ \E e \in Events : AddEvent(e)
  \/ \E p \in Processes : AddProcess(p)
  \/ \E i \in DOMAIN Findings : Override(Findings[i]) \/ \E legacy \in BOOLEAN : AddFinding(Findings[i], legacy)

Next ==
  \/ Write
  \/ Checkpoint
  \/ \E r \in Request : \/ \E view \in Views : Ask(r, view)
                        \/ Enter(r) \/ Stamp(r) \/ ReadProcesses(r) \/ ReadFindings(r) \/ ReadEvents(r)
                        \/ Answer(r)

Spec == Init /\ [][Next]_vars

-----------------------------------------------------------------------------
(* Properties. *)

\* A map that the cache would serve now is made of the rows as they are now: no
\* commit between the queries, and no checkpoint, leaves a map behind that passes
\* for current.
CachedIsCurrent ==
  \A i \in DOMAIN cache : cache[i].stamp = Fingerprint => cache[i].read = data

\* A request during which nobody committed is answered from the case as it is,
\* out of the cache or not.
AnswersAreCurrent ==
  \A r \in Request : At(r, "done") /\ request[r].since = logged =>
    request[r].answer = Answered(data, request[r].view)

Says(f, n) == n \in Chained(f) \/ f.node # None \/ Matches(f, n)

\* What is said of an event stands: a finding in force is on it if a dismissed one
\* is, and knows every name in its reason that a dismissed one knows.
Stands(e) ==
  /\ e.id \in EventsOf(data.suppressed) => e.id \in EventsOf(Active(data))
  /\ \A f \in data.suppressed : Reason(e, data) \cap Tokens(f) \subseteq UNION {Tokens(g) : g \in Active(data)}

RaisedShows(g) ==
  \A e \in data.events : Stands(e) =>
    \A n \in NodesOfEvent(e, RowSeverity(e, data)) : Severity(g, n) >= RowSeverity(e, data)

NothingElseShows(g) ==
  \A n \in g.nodes :
    /\ \A e \in data.events : Stands(e) => n \notin NodesOfEvent(e, RowSeverity(e, data))
    /\ \A f \in Effective(data) : ~Says(f, n)
    /\ \A p \in data.processes : n \notin NodesOfProcess(p)
    => Severity(g, n) = Info

\* Dismissing findings quiets exactly what stood on them alone, propagated events
\* included.  An event on which something still stands shows on all its nodes,
\* whatever else was dismissed; a node with nothing but dismissed events is at
\* info.
DismissalIsExact == LET g == Graph(data) IN RaisedShows(g) /\ NothingElseShows(g)

\* Two files or processes known by their full paths are joined on behalf of a
\* manual finding only if one event names both.
ManualEdgesWitnessed ==
  \A m \in Graph(data).manual :
    LET type == TypeOf(m.finding.node) v == ValueOf(m.finding.node)
        ends == (UNION {{e.from, e.to} : e \in m.edges}) \ {m.node}
    IN type \in Named /\ HasPath(v) =>
         /\ HasPath(ValueOf(m.node)) => ValueOf(m.node) = v
         /\ \A n \in ends : TypeOf(n) \in Named /\ HasPath(ValueOf(n)) =>
              \E e \in data.events : v \in IndexValues(e, type) /\ ValueOf(n) \in IndexValues(e, "process")

\* SECURITY.md, "Evidence Integrity And Analyst Overrides": a same name in another
\* directory is not evidence of identity.  A finding about one full path is not
\* attached to the node of another.
FindingsKeepToTheirPath ==
  \A a \in Graph(data).attached :
    LET n == a[1] f == a[2]
    IN TypeOf(n) \in Named /\ HasPath(ValueOf(n)) /\ (\A v \in f.named : HasPath(v)) =>
         ValueOf(n) \in f.named \/ f.node # None
=============================================================================
