------------------------------- MODULE MCGates -------------------------------
(***************************************************************************)
(* The components that let something through or not: a graph to the        *)
(* runner, findings and pages to a report, bytes and evidence to a release.*)
(* They share no state, so a behaviour runs one of them, chosen at the     *)
(* start, while the others rest.                                           *)
(***************************************************************************)
EXTENDS WorkflowGraph, FindingRegistry, Crawler, MCEvidenceStore,
  HandoffGovernance, MCReads, TLC

VARIABLE active     \* the component of this behaviour

gateVars == <<active, graphVars, registryVars, crawlVars, evidenceVars, storeVars, vars, agentVars,
              googleVars, callVars, ruleVars, captureVars>>

RestGraph == CHOOSE g \in OtherGraphs : TRUE
RestSite == CHOOSE s \in Sites : TRUE

GatesInit ==
    /\ active \in {"graph", "registry", "crawler", "evidence", "store", "handoffs",
                  "agent", "google", "provider", "rules", "capture"}
    /\ active # "graph" => graph = RestGraph
    /\ GraphInit
    /\ RegistryInit
    /\ active # "crawler" => site = RestSite
    /\ CrawlInit
    /\ active # "evidence" => package = 1
    /\ EvidenceInit
    /\ active # "store" => table = Nothing
    /\ StoreInit
    /\ Init
    /\ active # "agent" => request = PlainRequest
    /\ AgentInit
    /\ active # "google" => question = PlainQuestion
    /\ GoogleInit
    /\ active # "provider" => providerCall = PlainCommand
    /\ CallInit
    /\ active # "rules" => siteEvidence = PlainEvidence
    /\ RulesInit
    /\ active # "capture" => captureCall = PlainCapture
    /\ CaptureInit
    /\ active # "capture" => \A f \in Outputs : imageInode[f] = NoInode

GraphGate ==
    /\ active = "graph" /\ GraphNext
    /\ UNCHANGED <<active, registryVars, crawlVars, evidenceVars, storeVars, vars, agentVars, googleVars, callVars, ruleVars, captureVars>>
RegistryGate ==
    /\ active = "registry" /\ RegistryNext
    /\ UNCHANGED <<active, graphVars, crawlVars, evidenceVars, storeVars, vars, agentVars, googleVars, callVars, ruleVars, captureVars>>
CrawlerGate ==
    /\ active = "crawler" /\ CrawlNext
    /\ UNCHANGED <<active, graphVars, registryVars, evidenceVars, storeVars, vars, agentVars, googleVars, callVars, ruleVars, captureVars>>
EvidenceGate ==
    /\ active = "evidence" /\ EvidenceNext
    /\ UNCHANGED <<active, graphVars, registryVars, crawlVars, storeVars, vars, agentVars, googleVars, callVars, ruleVars, captureVars>>
StoreGate ==
    /\ active = "store" /\ StoreNext
    /\ UNCHANGED <<active, graphVars, registryVars, crawlVars, evidenceVars, vars, agentVars, googleVars, callVars, ruleVars, captureVars>>
HandoffGate ==
    /\ active = "handoffs" /\ Next
    /\ UNCHANGED <<active, graphVars, registryVars, crawlVars, evidenceVars, storeVars, agentVars, googleVars, callVars, ruleVars, captureVars>>
AgentGate ==
    /\ active = "agent" /\ AgentNext
    /\ UNCHANGED <<active, graphVars, registryVars, crawlVars, evidenceVars, storeVars, vars, googleVars, callVars, ruleVars, captureVars>>
GoogleGate ==
    /\ active = "google" /\ GoogleNext
    /\ UNCHANGED <<active, graphVars, registryVars, crawlVars, evidenceVars, storeVars, vars, agentVars, callVars, ruleVars, captureVars>>
ProviderGate ==
    /\ active = "provider" /\ CallNext
    /\ UNCHANGED <<active, graphVars, registryVars, crawlVars, evidenceVars, storeVars, vars, agentVars, googleVars, ruleVars, captureVars>>
RulesGate ==
    /\ active = "rules" /\ RulesNext
    /\ UNCHANGED <<active, graphVars, registryVars, crawlVars, evidenceVars, storeVars, vars, agentVars, googleVars, callVars, captureVars>>
CaptureGate ==
    /\ active = "capture" /\ CaptureNext
    /\ UNCHANGED <<active, graphVars, registryVars, crawlVars, evidenceVars, storeVars, vars, agentVars, googleVars, callVars, ruleVars>>
GatesNext ==
    \/ GraphGate \/ RegistryGate \/ CrawlerGate \/ EvidenceGate
    \/ StoreGate \/ HandoffGate \/ AgentGate \/ GoogleGate \/ ProviderGate \/ RulesGate
    \/ CaptureGate
GatesSpec == GatesInit /\ [][GatesNext]_gateVars

-----------------------------------------------------------------------------
\* Every route a classifier with the RouteResult contract can answer, up to two
\* supports past the capacity, and every graph over three ids, cyclic ones and
\* dangling dependencies included.
AnyRoute == [lead : LeadKind, support : 0..8, scrum : BOOLEAN, strategist : BOOLEAN, low : BOOLEAN]

ThreeNodes == {<<"node", i>> : i \in 1..3}
SmallGraphs ==
    {Graph(ThreeNodes, dependsOn, <<"node", 3>>, {}, 0, 0) :
        dependsOn \in [ThreeNodes -> SUBSET (ThreeNodes \cup {<<"node", 9>>})]}

\* Findings about two scopes; e1 holds, e2 is stale, e3 is listed twice, e4 unknown.
Finding(scope, root, text, refs, action, severity) ==
    [scope |-> scope, root |-> root, text |-> text, refs |-> refs, repeats |-> FALSE,
     action |-> action, hasId |-> TRUE, severity |-> severity]
MCEvidence == [e1 |-> <<"CURRENT">>, e2 |-> <<"STALE">>, e3 |-> <<"CURRENT", "CURRENT">>, e4 |-> <<>>,
               e5 |-> <<"CURRENT">>, e6 |-> <<"CONTRADICTORY">>, e7 |-> <<"INVALID">>]
SomeFindings ==
    LET enable == <<"noindex", "ENABLE">>
        disable == <<"noindex", "DISABLE">>
        base == Finding("site", "noindex", "t1", {"e1"}, enable, "High")
    IN  {base,
         [base EXCEPT !.text = "t2", !.refs = {"e5"}, !.severity = "Low"],
         [base EXCEPT !.root = "robots", !.action = disable, !.refs = {"e5"}],
         [base EXCEPT !.root = "robots", !.action = <<>>, !.text = "t2"],
         [base EXCEPT !.root = "robots", !.action = <<"robots", "DISABLE">>, !.refs = {"e1", "e5"}],
         [base EXCEPT !.action = <<"malformed">>, !.severity = "Critical"],
         [base EXCEPT !.scope = "page", !.hasId = FALSE],
         [base EXCEPT !.scope = "page", !.refs = {"e2"}],
         [base EXCEPT !.scope = "page", !.refs = {"e3"}, !.action = <<>>],
         [base EXCEPT !.scope = "page", !.repeats = TRUE],
         [base EXCEPT !.scope = "page", !.refs = {"e4"}],
         [base EXCEPT !.scope = "page", !.refs = {"e1", "e6"}],
         [base EXCEPT !.scope = "page", !.refs = {"e7"}],
         [base EXCEPT !.scope = "page", !.refs = {}]}
AllAgentOutputs ==
    LET output(agent, findings) == [agent |-> agent, evidence |-> MCEvidence, findings |-> findings]
    IN  {output("A", <<f>>) : f \in SomeFindings}
        \cup {output("B", <<f>>) : f \in {g \in SomeFindings : g.refs = {"e5"} \/ g.action = <<>>}}
        \cup {output("B", <<f, g>>) : f, g \in {h \in SomeFindings : h.refs = {"e5"}}}

\* Every site of three addresses, a chain with a short cut, a site with many links.
AllSites ==
    [1..3 -> SUBSET (1..3)]
    \cup {[i \in 1..5 |-> IF i = 1 THEN {2, 4} ELSE IF i < 5 THEN {i + 1} ELSE {1}]}
    \cup {[i \in 1..12 |-> IF i = 1 THEN 1..12 ELSE {}]}

\* A lead and the Scrummaster who challenges it: the least graph with a dependency
\* edge and a control handoff for the same receiver.
Pair == {"lead", "scrum"}
PairDependsOn == [n \in Pair |-> IF n = "scrum" THEN <<"lead">> ELSE <<>>]
TwoAgents == [n \in Pair |-> IF n = "scrum" THEN "Scrummaster" ELSE "Lead"]

\* TLC evaluates the right-hand sides once, and what stands for a constant at
\* each use.
MCAgentOutputs == AllAgentOutputs
MCSites == AllSites
=============================================================================
