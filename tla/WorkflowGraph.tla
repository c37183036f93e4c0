----------------------------- MODULE WorkflowGraph -----------------------------
(***************************************************************************)
(* The graph a request is executed on: how build_workflow_graph makes it    *)
(* from a route (src/runtime/workflow_graph.py, src/runtime/routing.py),    *)
(* how validate accepts or rejects it and how levels peels it into the      *)
(* lists the runner gathers.                                                *)
(*                                                                          *)
(* A node id is <<role, index>>.  Agents are kept apart only as far as the  *)
(* builder does: the Scrummaster, the Strategist, the Report agent and the  *)
(* others.  A route is what the builder reads of a RouteResult.             *)
(***************************************************************************)
EXTENDS Integers, Sequences, FiniteSetsExt

CONSTANTS
  Routes,       \* the routes the router can answer with
  Verticals,    \* how many vertical specialists a full audit's business asks for
  OtherGraphs,  \* graphs that callers of WorkflowGraph build themselves
  MaxNodes,     \* ExecutionLimits.max_nodes
  MaxDepth      \* ExecutionLimits.max_workflow_depth

LeadKind == {"Scrummaster", "Strategist", "Report", "Specialist"}

\* lead: the lead agent; support: the supporting agents that are left when the
\* lead and the three control agents are set aside; scrum, strategist: those
\* two are among the supporting agents; low: route.confidence is "Low".
Route == [lead : LeadKind, support : Nat, scrum : BOOLEAN, strategist : BOOLEAN, low : BOOLEAN]

\* The router's own tables and the limits under which the builder's graphs fit,
\* which are the runner's (workflow_runner.py:48); and any graph has finitely many nodes.
ASSUME GraphsAssumption ==
  /\ Routes \subseteq Route /\ Verticals \subseteq Nat
  /\ MaxNodes \in Nat /\ MaxNodes >= 12 /\ MaxDepth \in Nat /\ MaxDepth >= 5
  /\ \A g \in OtherGraphs : IsFiniteSet(g.nodes)

Lead == <<"lead", 0>>
Scrum == <<"governance", 0>>
Strategy == <<"strategy", 0>>
Report == <<"report", 0>>

Least(a, b) == IF a < b THEN a ELSE b

Graph(nodes, dependsOn, deliverable, strategists, excluded, asked) ==
  [nodes |-> nodes, dependsOn |-> dependsOn, deliverable |-> deliverable,
   strategists |-> strategists, excluded |-> excluded, asked |-> asked]

-----------------------------------------------------------------------------
(* _build_routed_graph: supports, lead, then the control nodes the route    *)
(* asks for, each depending on the one that was last.                       *)

SupportSlots == 6

Support(r) == {<<"support", i>> : i \in 1..Least(r.support, SupportSlots)}

WantsScrum(r) == r.scrum \/ r.low
WantsStrategy(r) == r.lead # "Strategist" /\ r.strategist
WantsReport(r) == r.lead # "Report"

\* A Strategist who leads has the report depend on the lead itself.
AfterScrum(r) == IF WantsScrum(r) /\ r.lead # "Strategist" THEN Scrum ELSE Lead
AfterStrategy(r) == IF WantsStrategy(r) THEN Strategy ELSE AfterScrum(r)
AfterReport(r) == IF WantsReport(r) THEN Report ELSE AfterStrategy(r)

RoutedNodes(r) ==
  Support(r) \cup {Lead}
    \cup (IF WantsScrum(r) THEN {Scrum} ELSE {})
    \cup (IF WantsStrategy(r) THEN {Strategy} ELSE {})
    \cup (IF WantsReport(r) THEN {Report} ELSE {})

RoutedDependsOn(r) ==
  [n \in RoutedNodes(r) |->
     CASE n = Lead     -> Support(r)
       [] n = Scrum    -> {Lead}
       [] n = Strategy -> {AfterScrum(r)}
       [] n = Report   -> {AfterStrategy(r)}
       [] OTHER        -> {}]

RoutedGraph(r) ==
  Graph(RoutedNodes(r), RoutedDependsOn(r), AfterReport(r),
        IF r.lead = "Strategist" THEN {Lead} ELSE RoutedNodes(r) \cap {Strategy},
        r.support - Cardinality(Support(r)), r.support)

-----------------------------------------------------------------------------
(* _build_full_audit_graph: six fixed specialists and up to two verticals,  *)
(* or two others when the business asks for none.                           *)

Specialists(v) == {<<"specialist", i>> : i \in 1..(6 + IF v = 0 THEN 2 ELSE Least(v, 2))}

FullAuditGraph(v) ==
  LET nodes == Specialists(v) \cup {Lead, Scrum, Strategy, Report}
  IN  Graph(nodes,
            [n \in nodes |-> CASE n = Lead     -> Specialists(v)
                               [] n = Scrum    -> {Lead}
                               [] n = Strategy -> {Scrum}
                               [] n = Report   -> {Strategy}
                               [] OTHER        -> {}],
            Report, {Strategy}, v - Least(v, 2), v)

BuiltGraphs == {RoutedGraph(r) : r \in Routes} \cup {FullAuditGraph(v) : v \in Verticals}

-----------------------------------------------------------------------------
(* _validate_depth: the depth of a node, or more than any depth when its    *)
(* own path meets it again.                                                 *)

DepthFrom(g) ==
  LET depth[p \in g.nodes \X SUBSET g.nodes] ==
        IF p[1] \in p[2]
          THEN Cardinality(g.nodes) + 1
          ELSE 1 + Max({0} \cup {depth[<<d, p[2] \cup {p[1]}>>] : d \in g.dependsOn[p[1]]})
  IN  depth

DepthIn(g) == [n \in g.nodes |-> DepthFrom(g)[<<n, {}>>]]

GraphDepth(g) == Max({DepthIn(g)[n] : n \in g.nodes})

NodesValid(g) ==
  /\ Cardinality(g.nodes) \in 1..MaxNodes
  /\ g.deliverable \in g.nodes
  /\ \A n \in g.nodes : g.dependsOn[n] \subseteq g.nodes \ {n}

\* A cycle is rejected before its depth is compared.
DepthValid(g) == GraphDepth(g) <= Least(MaxDepth, Cardinality(g.nodes))

DeliverableValid(g) == \A n \in g.nodes : g.deliverable \notin g.dependsOn[n]

Valid(g) == NodesValid(g) /\ DepthValid(g) /\ DeliverableValid(g)

-----------------------------------------------------------------------------
VARIABLES
  graph,
  graphPhase,      \* "built", then "rejected", or "valid" and then "levelled" or "cyclic"
  remaining,  \* the nodes levels has not placed
  levels      \* the levels so far

graphVars == <<graph, graphPhase, remaining, levels>>

GraphInit ==
  /\ graph \in BuiltGraphs \cup OtherGraphs
  /\ graphPhase = "built"
  /\ remaining = graph.nodes
  /\ levels = <<>>

Validate ==
  /\ graphPhase = "built"
  /\ graphPhase' = IF Valid(graph) THEN "valid" ELSE "rejected"
  /\ UNCHANGED <<graph, remaining, levels>>

Completed == graph.nodes \ remaining

\* Mutation: a node is ready with its first dependency.
ReadyEarly == {n \in remaining : graph.dependsOn[n] = {} \/ graph.dependsOn[n] \cap Completed # {}}

Ready == {n \in remaining : graph.dependsOn[n] \subseteq Completed}

\* One turn of the loop in levels.
PeelLevel ==
  /\ graphPhase = "valid"
  /\ remaining # {}
  /\ Ready # {}
  /\ levels' = Append(levels, Ready)
  /\ remaining' = remaining \ Ready
  /\ UNCHANGED <<graph, graphPhase>>

FinishLevels ==
  /\ graphPhase = "valid"
  /\ remaining = {} \/ Ready = {}
  /\ graphPhase' = IF remaining = {} THEN "levelled" ELSE "cyclic"
  /\ UNCHANGED <<graph, remaining, levels>>

GraphNext == Validate \/ PeelLevel \/ FinishLevels

GraphSpec == GraphInit /\ [][GraphNext]_graphVars

-----------------------------------------------------------------------------
GraphTypeOK ==
  /\ graphPhase \in {"built", "rejected", "valid", "levelled", "cyclic"}
  /\ remaining \subseteq graph.nodes
  /\ levels \in Seq(SUBSET graph.nodes)

\* What validate accepts runs: levels can always place it, each node once and at
\* the depth that validate computed for it, so no dependency runs beside or after
\* its dependent (workflow_graph.py:68-84, 98-116).  A graph the builder made is
\* never rejected under the runner's default limits, one call for every node
\* included (workflow_runner.py:48); a specialist that was cut off to fit is
\* counted (workflow_graph.py:160-164, 242, 297); and unless the Strategist leads,
\* the Scrummaster's challenge precedes the Strategist and the report
\* (workflow_graph.py:258-291).
GraphsAreRunnable ==
  /\ graphPhase # "cyclic"
  /\ graphPhase = "levelled" =>
       /\ Len(levels) = GraphDepth(graph)
       /\ \A n \in graph.nodes : \A i \in DOMAIN levels :
            n \in levels[i] <=> i = DepthIn(graph)[n]
  /\ graph \in BuiltGraphs =>
       /\ graphPhase # "rejected" /\ Cardinality(graph.nodes) <= 12
       /\ graph.asked > 0 =>
            graph.asked = graph.excluded +
              Cardinality({n \in graph.nodes : n[1] = "support" \/ (n[1] = "specialist" /\ n[2] > 6)})
       /\ Scrum \in graph.nodes /\ Lead \notin graph.strategists =>
            \A n \in (graph.strategists \cup {Report}) \cap graph.nodes : DepthIn(graph)[Scrum] < DepthIn(graph)[n]
=============================================================================
