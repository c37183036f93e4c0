--------------------------- MODULE MCWorkflowRunner ---------------------------
(***************************************************************************)
(* Small graphs for the runner, of the shapes build_workflow_graph makes:   *)
(* support nodes, the lead that depends on all of them, then a chain of     *)
(* governance and report.  Nodes are numbered in the order of their ids.    *)
(***************************************************************************)
EXTENDS WorkflowRunner

\* Four support nodes that compete for the slots, the lead, no Scrummaster.
FanNode == 1..5
FanDependsOn == [n \in FanNode |-> IF n = 5 THEN 1..4 ELSE {}]
FanLevel == [n \in FanNode |-> IF n = 5 THEN 2 ELSE 1]

\* Two support nodes, the lead, the Scrummaster that is owed the open risks,
\* and an optional report.
ChainNode == 1..5
ChainDependsOn == [n \in ChainNode |-> IF n <= 2 THEN {} ELSE IF n = 3 THEN {1, 2} ELSE {n - 1}]
ChainLevel == [n \in ChainNode |-> IF n <= 2 THEN 1 ELSE n - 1]

\* The Strategist leads: the Scrummaster and the report run side by side.
SplitNode == 1..4
SplitDependsOn == [n \in SplitNode |-> IF n = 1 THEN {} ELSE IF n = 2 THEN {1} ELSE {2}]
SplitLevel == [n \in SplitNode |-> IF n <= 2 THEN n ELSE 3]

InOrder == [n \in Node |-> n]
AllButLast == Node \ {Deliverable}
UnknownQuote == {Unknown}
MixedQuotes == {1, 2, Unknown}
=============================================================================
