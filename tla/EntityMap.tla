------------------------------- MODULE EntityMap -------------------------------
(***************************************************************************)
(* The entity map of a case, as detect/entity_graph.py derives it from the *)
(* process, event and finding rows: a function of those rows.              *)
(*                                                                         *)
(* A node is a type and a value: a file name for files and processes, an   *)
(* atom for the others.  A node and an edge are here the set of the marks  *)
(* the rows leave on them.  Left out: labels, counts, first and last times, *)
(* sample texts and descriptive metadata, and with the counts the cap on   *)
(* the neighbours of a manual node and the cut of the map at max_nodes.    *)
(* Manual findings are on the types whose rows are indexed.                *)
(***************************************************************************)
EXTENDS Naturals, FiniteSets, SequencesExt, Severities, FileNames

CONSTANTS
  Events,    \* the event rows there can be
  Processes, \* the process rows
  Findings   \* the findings, in the order of their ids

ASSUME EntityRows ==
  /\ Findings \in Seq(ToSet(Findings)) /\ \A f \in ToSet(Findings) : f.severity \in Grades
  /\ \A p \in Processes : p.severity \in Grades
  /\ \A e \in Events : /\ e.severity \in Grades
                     /\ \A v \in {e.proc, e.parent, e.owner, e.file} \ {None} : IsFileName(v)
                     /\ \A n \in e.told : n[1] \in {"process", "file"} => IsFileName(n[2])

Named == {"process", "file"}
Atomic == {"user", "account", "host", "ip", "service", "url"}

Greatest(S) == CHOOSE s \in S : \A t \in S : t <= s

\* _matches_pathish: a bare name is any file of that name.
Pathish(target, v) ==
  v # None /\ IF HasPath(target) THEN v = target ELSE v.base = target.base

Node(type, v) == IF v = None THEN {} ELSE {<<type, v>>}
BareNode(type, v) == IF v = None THEN {} ELSE {<<type, NameOnly(v)>>}
TypeOf(n) == n[1]
ValueOf(n) == n[2]

Link(from, verb, to, severity) ==
  {[from |-> ends[1], verb |-> verb, to |-> ends[2], severity |-> severity] :
     ends \in {pair \in from \X to : pair[1] # pair[2]}}

\* Graph.bump and Graph.mark_severity: a mark is of one of three sources.
Mark(nodes, source, severity) ==
  {[node |-> n, source |-> source, severity |-> severity] : n \in nodes}

-----------------------------------------------------------------------------
(* Which events name a value. *)

\* _manual_index_values; the columns of a service scan are not looked at.
IndexValues(e, type) ==
  LET scan == e.category = "svcscan" weblog == e.category = "weblog"
      Columns ==
        CASE type = "process" -> {e.proc, e.parent, e.owner}
          [] type = "file" /\ ~scan -> {e.file, e.proc}
          [] type \in {"user", "account"} -> {e.actor, e.target}
          [] type = "ip" -> {e.ip}
          [] type = "service" /\ ~scan -> {e.service}
          [] type = "host" /\ ~weblog -> {e.host}
          [] OTHER -> {}
  IN Columns \ {None}

\* _manual_event_candidates, and _event_mentions for the node that was found; what
\* is not indexed would be looked for in the summaries.
Naming(type, v, events) ==
  {e \in events : \E w \in IndexValues(e, type) : IF type \in Named THEN Pathish(v, w) ELSE v = w}

\* _event_mentions for any node: the requests to a web service name it too.
Mentioning(type, v, events) ==
  Naming(type, v, events)
    \cup {e \in events : type = "host" /\ e.category = "weblog" /\ e.host = v}

-----------------------------------------------------------------------------
(* Which rows are dismissed. *)

Effective(d) == d.findings \ d.suppressed

\* A suppressed finding is at info.
SeverityOf(f, d) == IF f \in d.suppressed THEN Info ELSE f.severity

\* _suppression_tokens; the names of an atom are the atom itself.
Tokens(f) == f.names \cup {NameOnly(v) : v \in f.named} \cup f.named

\* The event of a manual finding is not in this field of its evidence.
EventsOf(S) == {f.event : f \in {g \in S : g.node = None}} \ {None}
Active(d) == {f \in d.findings : SeverityOf(f, d) > Info}

\* Mutant: a suppression dismisses what another finding stands on.
EveryDismissed(d) == [events |-> EventsOf(d.suppressed), names |-> UNION {Tokens(f) : f \in d.suppressed}]

\* _suppressed_graph_signals
Dismissed(d) ==
  [events |-> EventsOf(d.suppressed) \ EventsOf(Active(d)),
   names |-> (UNION {Tokens(f) : f \in d.suppressed}) \ (UNION {Tokens(f) : f \in Active(d)})]

\* derive_event_node: what a finding of the analyst on an event is about, and what
\* it is linked to.  Events that tell of no file, program or address are left out.
Derived(e) ==
  CASE e.file # None /\ e.category # "svcscan" -> <<"file", e.file>>
    [] e.file = None /\ e.proc # None -> <<"process", NameOnly(e.proc)>>
    [] e.file = None /\ e.proc = None /\ e.category = "weblog" -> <<"ip", e.ip>>
    [] OTHER -> None

DerivedLinks(e) ==
  {n \in Node("host", e.host) \cup Node("user", e.actor) \cup BareNode("process", e.proc) :
     ValueOf(n) # ValueOf(Derived(e))}

\* _event_mentions_node, for the analyst's findings on events; it looks at other
\* columns than the map does, at the entity of the event and into its summary.
Tells(e, type, v) ==
  \E n \in e.told : TypeOf(n) = type /\ IF type \in Named THEN Pathish(v, ValueOf(n)) ELSE v = ValueOf(n)

\* _sync_manual_event_severities: a manual finding on an event raises it, and the
\* events that name the same node, when it is applied.
Raises(f, e) ==
  /\ f.node # None /\ f.event # None
  /\ f.event = e.id \/ Tells(e, TypeOf(f.node), ValueOf(f.node))

RowSeverity(e, d) ==
  Greatest({e.severity} \cup {f.severity : f \in {g \in Effective(d) \ d.unapplied : Raises(g, e)}})

\* The names that occur, be it inside another word, in the text of an event that was
\* raised for a flagged entity; who raises it further writes a text of his own.
Reason(e, d) == IF RowSeverity(e, d) = e.severity THEN e.reason ELSE {}

\* _is_suppressed_propagation: any dismissed name in that text.
Propagated(e, d) == Reason(e, d) \cap Dismissed(d).names # {}

EventSeverity(e, d) ==
  IF e.id \in Dismissed(d).events \/ Propagated(e, d) THEN Info
  ELSE RowSeverity(e, d)

-----------------------------------------------------------------------------
(* _extract_from_event. *)

\* A service of a memory image is drawn only when it is suspicious.
Service(e, severity) ==
  IF e.category = "svcscan" /\ severity = Info THEN {} ELSE Node("service", e.service)

Owner(e) == IF e.category = "network" THEN BareNode("process", e.owner) ELSE {}

Agent(e) == IF e.actor # None THEN Node("user", e.actor) ELSE Node("host", e.host)

Binary(e, severity) ==
  IF Service(e, severity) # {} /\ e.category = "svcscan" THEN Node("file", e.file) ELSE {}

EventNodes(e, severity) ==
  Node("host", e.host) \cup Node("user", e.actor) \cup Node("account", e.target)
    \cup Node("process", e.proc) \cup Node("process", e.parent) \cup Node("ip", e.ip)
    \cup Service(e, severity) \cup Binary(e, severity) \cup Owner(e)

EventLinks(e, severity) ==
  LET host == Node("host", e.host) actor == Node("user", e.actor)
      proc == Node("process", e.proc)
  IN Link(Node("process", e.parent), "spawned", proc, severity)
     \cup Link(actor, "executed", proc, severity)
     \cup Link(Node("ip", e.ip), e.verb, host, severity)
     \cup (IF proc = {} THEN Link(actor, e.verb, host, severity) ELSE {})
     \cup Link(Agent(e), e.verb, Node("account", e.target), severity)
     \cup Link(Agent(e), e.verb, Service(e, severity), severity)
     \cup Link(Service(e, severity), "runs", Binary(e, severity), severity)
     \cup (IF e.ofHost THEN Link(Agent(e), e.verb, host, severity) ELSE {})
     \cup Link(Owner(e), "connected to", Node("ip", e.ip), severity)

\* A request to a web service; a successful login is drawn high.
WebNodes(e) == Node("ip", e.ip) \cup Node("host", e.host) \cup Node("account", e.target)

WebLinks(e, severity) ==
  Link(Node("ip", e.ip), "requested", Node("host", e.host), severity)
    \cup IF e.success THEN Link(Node("ip", e.ip), "authenticated as", Node("account", e.target),
                                IF severity = Info THEN High ELSE severity)
         ELSE {}

NodesOfEvent(e, severity) == IF e.category = "weblog" THEN WebNodes(e) ELSE EventNodes(e, severity)
LinksOfEvent(e, severity) == IF e.category = "weblog" THEN WebLinks(e, severity) ELSE EventLinks(e, severity)

-----------------------------------------------------------------------------
(* _extract_from_processes. *)

NodesOfProcess(p) == BareNode("process", p.name) \cup Node("user", p.owner)

LinksOfProcess(p, all) ==
  UNION {Link(BareNode("process", q.name), "spawned", BareNode("process", p.name), Info) :
           q \in {r \in all : r.pid = p.ppid}}
    \cup Link(Node("user", p.owner), "ran", BareNode("process", p.name), Info)

\* The node of a process that has exited in all its instances.
DeadNodes(all) ==
  {n \in UNION {BareNode("process", p.name) : p \in all} :
     \A p \in all : BareNode("process", p.name) = {n} => p.dead}

-----------------------------------------------------------------------------
(* The map of what detectors and parsers wrote, before manual findings. *)

Chained(f) == UNION {{link.from, link.to} : link \in f.chain}

\* _attach_findings: by the value, and by the name for files and processes.
Matches(f, n) ==
  IF TypeOf(n) \in Named THEN {ValueOf(n), NameOnly(ValueOf(n))} \cap Tokens(f) # {}
  ELSE ValueOf(n) \in f.names

Automatic(d) == {f \in Effective(d) : f.node = None}

\* The nodes with the findings about them, and the edges; no manual finding yet.
Attached(marks, edges, nodes, d) ==
  LET attached == {a \in nodes \X Automatic(d) : Matches(a[2], a[1])}
  IN [nodes |-> nodes, edges |-> edges, manual |-> {}, attached |-> attached,
      marks |-> marks \cup {[node |-> a[1], source |-> "finding", severity |-> a[2].severity] : a \in attached}]

Extracted(marks, d) ==
  Attached(marks,
           (UNION {LinksOfProcess(p, d.processes) : p \in d.processes})
             \cup (UNION {LinksOfEvent(e, EventSeverity(e, d)) : e \in d.events})
             \cup (UNION {{[link EXCEPT !.severity = f.severity] : link \in f.chain} : f \in Effective(d)}),
           {m.node : m \in marks}, d)

RowMarks(d) ==
  LET OfEvent(e, severity) == Mark(NodesOfEvent(e, severity), "event", severity)
  IN (UNION {Mark(NodesOfProcess(p), "process", p.severity) : p \in d.processes})
       \cup (UNION {OfEvent(e, EventSeverity(e, d)) : e \in d.events})
       \cup (UNION {Mark(Chained(f), "finding", f.severity) : f \in Effective(d)})

-----------------------------------------------------------------------------
(* Manual findings. *)

Alike(nodes, type, v) ==
  {n \in nodes : /\ TypeOf(n) = type /\ ValueOf(n).base = v.base
                 /\ HasPath(v) /\ HasPath(ValueOf(n)) => ValueOf(n) = v}

\* Mutant: of several nodes of that name, one is taken.
FirstOfTheName(nodes, type, v) ==
  IF Alike(nodes, type, v) = {} THEN {} ELSE {CHOOSE n \in Alike(nodes, type, v) : TRUE}

\* _unique_basename_node
UniqueOfTheName(nodes, type, v) ==
  {n \in Alike(nodes, type, v) : Alike(nodes, type, v) = {n}}

\* An existing node, the one node of the same name, or a new one.
Resolve(nodes, type, v) ==
  IF <<type, v>> \in nodes \/ type \notin Named \/ UniqueOfTheName(nodes, type, v) = {}
  THEN <<type, v>>
  ELSE CHOOSE n \in UniqueOfTheName(nodes, type, v) : TRUE

\* _correlate_manual_node: who touched the value, by the events that name it.
Neighbours(n, e) ==
  LET image == TypeOf(n) \in Named /\ Pathish(ValueOf(n), e.proc)
      run == image /\ e.verb = "executed"
      by == IF run THEN BareNode("process", e.parent) ELSE BareNode("process", e.proc)
      verb == IF run THEN "executed" ELSE e.verb
      related ==
        {[to |-> m, verb |-> verb, out |-> FALSE] : m \in by \cup Node("user", e.actor)}
          \cup {[to |-> m, verb |-> "seen on", out |-> TRUE] : m \in Node("host", e.host)}
          \cup {[to |-> m, verb |-> "connected to", out |-> TRUE] :
                  m \in IF e.category = "network" THEN Node("ip", e.ip) ELSE {}}
      itself == {n} \cup IF TypeOf(n) \in Named THEN {<<TypeOf(n), NameOnly(ValueOf(n))>>} ELSE {}
  IN {r \in related : e.category # "weblog" /\ r.to \notin itself}

\* The edges by which the neighbours, resolved in the map, are drawn.
Ties(nodes, n, related, severity) ==
  LET Edge(r, m) == IF r.out THEN Link({n}, r.verb, {m}, severity) ELSE Link({m}, r.verb, {n}, severity)
  IN UNION {Edge(r, Resolve(nodes, TypeOf(r.to), ValueOf(r.to))) : r \in related}

\* A map with a manual finding, by the edges to its node.
Joined(g, f, n, drawn, edges) ==
  LET ends == (UNION {{e.from, e.to} : e \in edges}) \ {n}
  IN [nodes |-> g.nodes \cup {n} \cup ends,
      marks |-> g.marks \cup Mark({n}, "finding", f.severity) \cup Mark(ends, "event", Info),
      attached |-> g.attached \cup {<<n, f>>},
      edges |-> g.edges \cup edges,
      manual |-> g.manual \cup {[finding |-> f, node |-> n, edges |-> drawn]}]

JoinedBy(g, f, n, drawn) ==
  Joined(g, f, n, drawn, IF drawn # {} THEN drawn ELSE Link({n}, "connected to", f.links, f.severity))

\* _attach_manual_nodes, for one finding: its node, the edges the events give it
\* or, when there are none, the links kept with it.
AttachManual(g, f, n, d) ==
  LET events == Naming(TypeOf(n), ValueOf(n), Naming(TypeOf(f.node), ValueOf(f.node), d.events))
  IN JoinedBy(g, f, n, Ties(g.nodes \cup {n}, n, UNION {Neighbours(n, e) : e \in events}, f.severity))

Graph(d) ==
  FoldLeft(LAMBDA g, f : IF f \in Effective(d) /\ f.node # None
                         THEN AttachManual(g, f, Resolve(g.nodes, TypeOf(f.node), ValueOf(f.node)), d) ELSE g,
           Extracted(RowMarks(d), d), Findings)

-----------------------------------------------------------------------------
(* _finalize_node_severities: the findings on a node stand for its processes. *)

Severity(g, n) ==
  LET counted == IF \E a \in g.attached : a[1] = n THEN {"event", "finding"}
                 ELSE {"event", "process", "finding"}
  IN Greatest({Info} \cup {m.severity : m \in {k \in g.marks : k.node = n /\ k.source \in counted}})

\* What a request is answered.  A map: the nodes it asks for and the edges
\* between them; a dossier: a node with its neighbours, its findings and the rows
\* that name it.
Map(g, d, view) ==
  LET kept == {n \in g.nodes : Severity(g, n) >= view.severity /\ TypeOf(n) \in view.types}
  IN [nodes |-> {[node |-> n, severity |-> Severity(g, n), dead |-> n \in DeadNodes(d.processes)] : n \in kept},
      edges |-> {e \in g.edges : e.from \in kept /\ e.to \in kept}]

Dossier(g, d, n) ==
  IF n \notin g.nodes THEN {}
  ELSE {[severity |-> Severity(g, n),
         neighbours |-> {e \in g.edges : n \in {e.from, e.to}},
         findings |-> {a[2] : a \in {b \in g.attached : b[1] = n}},
         events |-> Mentioning(TypeOf(n), ValueOf(n), d.events),
         processes |-> {p \in d.processes : TypeOf(n) = "process" /\ p.name.base = ValueOf(n).base}]}

Answered(d, view) ==
  IF view.node = None THEN Map(Graph(d), d, view) ELSE Dossier(Graph(d), d, view.node)
=============================================================================
