--------------------------- MODULE HandoffGovernance ---------------------------
(***************************************************************************)
(* The handoffs of one session, across its runs: how they are created,      *)
(* resolved by the receiver's acknowledgements, sealed with a receipt and   *)
(* reconciled into a verdict (src/runtime/handoff_governance.py,            *)
(* handoff_control_governance.py, handoff_receipts.py, state.py).           *)
(*                                                                          *)
(* WorkflowRunner has the tasks of one run in every order and knows only    *)
(* the status of a handoff; here the nodes of a run take turns and a        *)
(* handoff is the record the audit reads.  Text is abstracted: content      *)
(* stands for every field that no check compares on its own, source for     *)
(* source_node_id and the sender, and a receipt is the record it was made   *)
(* from, as SHA-256 is taken to have no collisions.                         *)
(***************************************************************************)
EXTENDS Integers, Sequences, FiniteSets
LOCAL INSTANCE FiniteSetsExt

CONSTANTS
  Node,        \* graph.nodes
  DependsOn,   \* node.depends_on, a tuple
  Agent,       \* node.agent; two nodes may have the same
  RiskTarget,  \* the first Scrummaster node, or NoNode
  OutputId,    \* the output_id values that receivers declare
  MaxRuns,     \* bound: executions of the session
  Risk,        \* the id of the open-risk escalation
  Legacy,      \* the id of the handoff a single-agent execution leaves
  Foreign,     \* an id of another session
  NoNode,
  NoOutput,
  NoReceipt

ASSUME GovernanceAssumption ==
  /\ IsFiniteSet(Node)
  /\ DependsOn \in [Node -> Seq(Node)]
  /\ \A n \in Node : \A i, j \in DOMAIN DependsOn[n] : DependsOn[n][i] = DependsOn[n][j] => i = j
  /\ \A n \in Node : Agent[n] # "Unaddressed"
  /\ RiskTarget \in Node \cup {NoNode}
  /\ MaxRuns \in Nat
  /\ NoNode \notin Node
  /\ NoOutput \notin OutputId
  /\ \A id \in {Risk, Legacy, Foreign} : id \notin Node \X Node
  /\ Risk # Legacy /\ Risk # Foreign /\ Legacy # Foreign

VARIABLES
  ledger,    \* session.handoffs
  run,       \* how many runs the session has begun
  phase,     \* "idle", "running", then "reported" or "raised"
  states,    \* the run's node_states
  outputs,   \* the output_id of each node's output in this run
  declared,  \* graph.declared_control_handoffs of the run
  report,    \* what the last reconciliation answered
  meddled    \* what was done to the ledger outside the runtime: see Meddle

vars == <<ledger, run, phase, states, outputs, declared, report, meddled>>

Dependencies(n) == {DependsOn[n][i] : i \in DOMAIN DependsOn[n]}
Edge == {e \in Node \X Node : e[1] \in Dependencies(e[2])}

Pending(id, source, target, to, evidence) ==
  [id |-> id, source |-> source, target |-> target, to |-> to, evidence |-> evidence,
   content |-> "declared", status |-> "CREATED", resolution |-> "PENDING",
   output |-> NoOutput, node |-> NoNode, receipt |-> NoReceipt]

\* terminal_handoff_receipt: every field but the receipt itself.
Fields(h) ==
  [id |-> h.id, source |-> h.source, target |-> h.target, to |-> h.to,
   evidence |-> h.evidence, content |-> h.content, status |-> h.status,
   resolution |-> h.resolution, output |-> h.output, node |-> h.node]

Sealed(h) == [h EXCEPT !.receipt = Fields(h)]
ReceiptValid(h) == h.receipt = Fields(h)

\* Handoff.control_contract.
Contract(h) ==
  [id |-> h.id, source |-> h.source, target |-> h.target, to |-> h.to,
   evidence |-> h.evidence, content |-> h.content]

\* Handoff.consume.
Consumed(h, o, n, disposition) ==
  [h EXCEPT !.status = "CONSUMED", !.output = o, !.node = n, !.resolution = disposition]

\* Handoff.block, which keeps who answered.
Blocked(h) == [h EXCEPT !.status = "BLOCKED", !.resolution = "UNRESOLVED"]

Init ==
  /\ ledger = <<>> /\ run = 0 /\ phase = "idle"
  /\ states = [n \in Node |-> "NONE"]
  /\ outputs = [n \in Node |-> NoOutput]
  /\ declared = {}
  /\ report = [verdict |-> "NONE", issues |-> {}, consumed |-> 0, complete |-> FALSE]
  /\ meddled = "NO"

-----------------------------------------------------------------------------
(* A run.  Its ids are those of every other run of the session.             *)

\* append_risk_handoff: an open risk, which nothing closes again, is declared
\* in the graph and on record.
BeginRun ==
  /\ phase # "running"
  /\ run < MaxRuns
  /\ run' = run + 1
  /\ phase' = "running"
  /\ states' = [n \in Node |-> "NONE"]
  /\ outputs' = [n \in Node |-> NoOutput]
  /\ \/ declared = {} /\ declared' = {} /\ UNCHANGED ledger
     \/ \E evidence \in BOOLEAN :
          LET h == Pending(Risk, "control", RiskTarget, "Scrummaster", evidence)
          IN  declared' = {Contract(h)} /\ ledger' = Append(ledger, h)
  /\ UNCHANGED <<report, meddled>>

\* AgentExecutor.execute, the single-agent mode: it asks for a Scrummaster
\* that is not in any graph.
LegacyRun ==
  /\ phase # "running"
  /\ run < MaxRuns
  /\ run' = run + 1
  /\ ledger' = Append(ledger, Pending(Legacy, "legacy-lead", "legacy-scrummaster",
                                      "Scrummaster", TRUE))
  /\ phase' = "idle"
  /\ UNCHANGED <<states, outputs, declared, report, meddled>>

\* A dependency without findings hands over no evidence.
StartNode(n) ==
  /\ phase = "running"
  /\ states[n] = "NONE"
  /\ \A d \in Dependencies(n) : states[d] = "DONE"
  /\ \E evidence \in [Dependencies(n) -> BOOLEAN] :
       ledger' = ledger \o
         [i \in DOMAIN DependsOn[n] |->
            LET d == DependsOn[n][i]
            IN  Pending(<<d, n>>, d, n, Agent[n], evidence[d])]
  /\ states' = [states EXCEPT ![n] = "RUNNING"]
  /\ UNCHANGED <<run, phase, outputs, declared, report, meddled>>

BlockNode(n) ==
  /\ phase = "running"
  /\ states[n] = "NONE"
  /\ \E d \in Dependencies(n) : states[d] = "NOT_DONE"
  /\ states' = [states EXCEPT ![n] = "NOT_DONE"]
  /\ UNCHANGED <<ledger, run, phase, outputs, declared, report, meddled>>

\* What _resolve_node_handoffs looks at.
Addressed(h, n) ==
  h.status = "CREATED" /\ h.to = Agent[n] /\ h.target \in {NoNode, n}

\* What the output says of a handoff: nothing, one exact record, more than
\* one, or one that is wrong in any field.
Acknowledgement == {"none", "accepted", "challenged", "unresolved", "repeated", "inexact"}

\* resolve_handoff_acknowledgements.
Resolved(h, ack, o, n) ==
  LET exact == h.target = n
  IN  CASE ack = "none" -> h
        [] ack = "unresolved" /\ exact ->
             Sealed(Blocked([h EXCEPT !.output = o, !.node = n]))
        [] ack = "accepted" /\ exact /\ h.evidence ->
             Sealed(Consumed(h, o, n, "ACCEPTED"))
        [] ack = "challenged" /\ exact ->
             Sealed(Consumed(h, o, n, "CHALLENGED"))
        [] OTHER -> Sealed(Blocked(h))

\* An acknowledgement is for every pending record of its id.
MayAcknowledge(acks, n) ==
  /\ \A i \in DOMAIN acks : acks[i] # "none" => Addressed(ledger[i], n)
  /\ \A i, j \in DOMAIN acks :
       /\ ledger[i].id = ledger[j].id
       /\ Addressed(ledger[i], n) /\ Addressed(ledger[j], n)
         => (acks[i] = "none" <=> acks[j] = "none")

AnswerNode(n) ==
  /\ phase = "running"
  /\ states[n] = "RUNNING"
  /\ \E o \in OutputId, done \in {"DONE", "NOT_DONE"}, acks \in [DOMAIN ledger -> Acknowledgement] :
       /\ MayAcknowledge(acks, n)
       /\ outputs' = [outputs EXCEPT ![n] = o]
       /\ states' = [states EXCEPT ![n] = done]
       /\ ledger' = [i \in DOMAIN ledger |-> Resolved(ledger[i], acks[i], o, n)]
  /\ UNCHANGED <<run, phase, declared, report, meddled>>

-----------------------------------------------------------------------------
(* reconcile_required_handoffs.                                             *)

Matches(id) == {i \in DOMAIN ledger : ledger[i].id = id}
FirstOf(id) == ledger[CHOOSE i \in Matches(id) : \A j \in Matches(id) : i <= j]

Done(n) == states[n] = "DONE"
RequiredEdge == {e \in Edge : Done(e[1]) /\ Done(e[2])}
DeclaredControl == {c.id : c \in declared}

Ids == {ledger[i].id : i \in DOMAIN ledger}

Duplicate == {id \in Ids : \E i, j \in Matches(id) : i # j}
Stale == Ids \cap {Foreign}
Unexpected == (Ids \ {Foreign}) \ (RequiredEdge \cup DeclaredControl)
Missing == {id \in RequiredEdge \cup DeclaredControl : Matches(id) = {}}
Present == (RequiredEdge \cup DeclaredControl) \ Missing

\* Only the first record of an id is looked at; a second is a duplicate.
WrongRecipient ==
  {e \in RequiredEdge \cap Present :
     LET h == FirstOf(e) IN h.to # Agent[e[2]] \/ h.source # e[1] \/ h.target # e[2]}

\* A control record whose contract is not the declared one is not looked at
\* any further.
InvalidControl ==
  {c.id : c \in {d \in declared : d.id \in Present /\ Contract(FirstOf(d.id)) # d}}

OutputOf(n) == IF n \in Node THEN outputs[n] ELSE NoOutput

\* Mutation: a consumed record needs no particular consumer.
WrongConsumerNever == {}

ContextBound(h) == h.status = "CONSUMED" \/ (h.status = "BLOCKED" /\ h.output # NoOutput)
Receiver(id) == IF id = Risk THEN FirstOf(id).target ELSE id[2]
WrongConsumer ==
  {id \in Present \ InvalidControl :
     LET h == FirstOf(id)
     IN  ContextBound(h) /\ (h.output # OutputOf(Receiver(id)) \/ h.node # Receiver(id))}

Dropped == {ledger[i].id : i \in {j \in DOMAIN ledger : ledger[j].status = "CREATED"}}

\* Mutation: the receipt is not compared.
InvalidReceiptNever == {}

InvalidReceipt ==
  {id \in (Present \ InvalidControl) \ WrongConsumer :
     FirstOf(id).status # "CREATED" /\ ~ReceiptValid(FirstOf(id))}

EvidenceFree ==
  {ledger[i].id : i \in {j \in DOMAIN ledger :
     ledger[j].status = "CONSUMED" /\ ledger[j].resolution = "ACCEPTED" /\ ~ledger[j].evidence}}

Coded(code, ids) == {<<code, id>> : id \in ids}

Issues ==
  Coded("DUPLICATE_HANDOFF", Duplicate) \cup Coded("STALE_HANDOFF", Stale)
    \cup Coded("UNEXPECTED_HANDOFF", Unexpected) \cup Coded("MISSING_HANDOFF", Missing)
    \cup Coded("WRONG_RECIPIENT", WrongRecipient)
    \cup Coded("INVALID_CONTROL_HANDOFF", InvalidControl)
    \cup Coded("WRONG_CONSUMER", WrongConsumer)
    \cup Coded("SILENTLY_DROPPED_HANDOFF", Dropped)
    \cup Coded("INVALID_TERMINAL_RECEIPT", InvalidReceipt)
    \cup Coded("EVIDENCE_FREE_ACCEPTANCE", EvidenceFree)

\* Every pending record becomes a sealed BLOCKED one.
Finalized ==
  [i \in DOMAIN ledger |->
     IF ledger[i].status = "CREATED" THEN Sealed(Blocked(ledger[i])) ELSE ledger[i]]

\* Mutation: a blocked record is resolved.
UnresolvedPending == {i \in DOMAIN ledger : ledger[i].status = "CREATED"}

Unresolved == {i \in DOMAIN ledger : ledger[i].status # "CONSUMED"}

ConsumedRequired ==
  {e \in RequiredEdge :
     /\ \E i \in Matches(e) : Matches(e) = {i}
     /\ FirstOf(e).status = "CONSUMED" /\ ReceiptValid(FirstOf(e))}

Verdict == IF Issues = {} /\ Unresolved = {} THEN "PASS" ELSE "FAIL"

\* workflow_status looks at what is unresolved, not at the verdict.  It has
\* other reasons for not being COMPLETE: see WorkflowRunner.
Reconcile ==
  /\ phase = "running"
  /\ \A n \in Node : states[n] \in {"DONE", "NOT_DONE"}
  /\ report' = [verdict |-> Verdict, issues |-> Issues,
                consumed |-> Cardinality(ConsumedRequired),
                complete |-> Unresolved = {} /\ \A n \in Node : Done(n)]
  /\ ledger' = Finalized
  /\ phase' = "reported"
  /\ UNCHANGED <<run, states, outputs, declared, meddled>>

\* A provider, a store or the clock raises out of run: no audit, and what is
\* pending stays on the session's record.
RunRaises ==
  /\ phase = "running"
  /\ phase' = "raised"
  /\ UNCHANGED <<ledger, run, states, outputs, declared, report, meddled>>

-----------------------------------------------------------------------------
(* What is done to the session's list outside the runtime, once per         *)
(* behaviour: the changes test_handoff_governance.py makes.                 *)

\* A terminal record is changed and keeps its receipt, or a pending one is
\* made terminal without the resolver.
Changed(h) ==
  IF h.status = "CREATED"
    THEN {Blocked(h)} \cup {Consumed(h, o, h.target, "ACCEPTED") : o \in OutputId}
    ELSE {[h EXCEPT !.content = "altered"],
          [h EXCEPT !.status = "CREATED"],
          [h EXCEPT !.evidence = ~@],
          [h EXCEPT !.resolution = IF @ = "ACCEPTED" THEN "CHALLENGED" ELSE "ACCEPTED"],
          [h EXCEPT !.to = "Unaddressed"]}
         \cup {[h EXCEPT !.output = o] : o \in OutputId \ {h.output}}

Meddle ==
  /\ meddled = "NO"
  /\ phase = "running"
  /\ \/ \E i \in DOMAIN ledger : \E h \in Changed(ledger[i]) :
          ledger' = [ledger EXCEPT ![i] = h] /\ meddled' = "CHANGED"
     \/ /\ ledger' = Append(ledger, Pending(Foreign, "control", RiskTarget, "Scrummaster", TRUE))
        /\ meddled' = "ADDED"
     \/ \E i \in DOMAIN ledger :
          /\ ledger[i].status = "CONSUMED"
          /\ ledger' = [ledger EXCEPT ![i] =
                          Sealed([@ EXCEPT !.evidence = FALSE, !.resolution = "ACCEPTED"])]
          /\ meddled' = "RESEALED"
     \/ \E i \in DOMAIN ledger :
          ledger' = [j \in 1..(Len(ledger) - 1) |-> IF j < i THEN ledger[j] ELSE ledger[j + 1]]
            /\ meddled' = "REMOVED"
  /\ UNCHANGED <<run, phase, states, outputs, declared, report>>

Stopped == run = MaxRuns /\ phase # "running" /\ UNCHANGED vars

Next ==
  \/ BeginRun \/ LegacyRun
  \/ \E n \in Node : StartNode(n) \/ BlockNode(n) \/ AnswerNode(n)
  \/ Reconcile \/ RunRaises
  \/ Meddle
  \/ Stopped

Spec == Init /\ [][Next]_vars

-----------------------------------------------------------------------------
Id == (Node \X Node) \cup {Risk, Legacy, Foreign}
Target == Node \cup {NoNode, "legacy-scrummaster"}
Source == Node \cup {"control", "legacy-lead"}
Recipient == {Agent[n] : n \in Node} \cup {"Scrummaster", "Unaddressed"}
Status == {"CREATED", "CONSUMED", "BLOCKED"}
Resolution == {"PENDING", "ACCEPTED", "CHALLENGED", "UNRESOLVED"}

Receipt ==
  [id : Id, source : Source, target : Target, to : Recipient,
   evidence : BOOLEAN, content : {"declared", "altered"}, status : Status, resolution : Resolution,
   output : OutputId \cup {NoOutput}, node : Target]

ASSUME ReceiptAssumption == NoReceipt \notin Receipt

Handoff ==
  [id : Id, source : Source, target : Target, to : Recipient,
   evidence : BOOLEAN, content : {"declared", "altered"}, status : Status, resolution : Resolution,
   output : OutputId \cup {NoOutput}, node : Target,
   receipt : Receipt \cup {NoReceipt}]

TypeOK ==
  /\ ledger \in Seq(Handoff)
  /\ run \in 0..MaxRuns
  /\ phase \in {"idle", "running", "reported", "raised"}
  /\ states \in [Node -> {"NONE", "RUNNING", "DONE", "NOT_DONE"}]
  /\ outputs \in [Node -> OutputId \cup {NoOutput}]
  /\ \A c \in declared : c.id = Risk
  /\ report.verdict \in {"NONE", "PASS", "FAIL"}
  /\ meddled \in {"NO", "CHANGED", "ADDED", "RESEALED", "REMOVED"}

\* Every edge between two nodes that did their work, and every declared
\* control, has one record, consumed by the very output of this run it was
\* addressed to and sealed as it stands; nothing else is on record.
Delivered ==
  /\ Ids = RequiredEdge \cup DeclaredControl
  /\ \A i \in DOMAIN ledger :
       /\ Matches(ledger[i].id) = {i}
       /\ ledger[i].status = "CONSUMED"
       /\ ledger[i].node = ledger[i].target
       /\ ledger[i].output = OutputOf(ledger[i].target)
       /\ ledger[i].resolution = "ACCEPTED" => ledger[i].evidence
       /\ ReceiptValid(ledger[i])

\* PASS means delivery, and the count of consumed edges is the count of edges
\* (handoff_governance.py:97-157).
PassIsDelivery ==
  phase = "reported" /\ report.verdict = "PASS" =>
    Delivered /\ report.consumed = Cardinality(RequiredEdge)

\* The verdict and the status tell the truth of each other: a terminal record that
\* did not come from the resolver, or was changed after it, a record of another
\* session and an acceptance without evidence never pass, whatever the run does
\* before and after, and what could be COMPLETE in an untouched first run has
\* passed the audit that the status does not look at
\* (docs/REMEDIATION-RUNTIME-ARCHITECTURE.md:40-48, workflow_runner.py:196-208).
VerdictIsHonest ==
  phase = "reported" =>
    /\ meddled \in {"CHANGED", "ADDED", "RESEALED"} => report.verdict = "FAIL"
    /\ run = 1 /\ meddled = "NO" /\ report.complete => report.verdict = "PASS"

\* A session keeps its failures: after a FAIL no later run of the session
\* passes, and after a BLOCKED record none is COMPLETE
\* (workflow_runner.py:138, 196-202, handoff_governance.py:113-137).
FailuresStay ==
  [][ meddled' = "NO" =>
        /\ report.verdict = "FAIL" => report'.verdict = "FAIL"
        /\ (\E i \in DOMAIN ledger : ledger[i].status = "BLOCKED") /\ phase' = "reported"
             => ~report'.complete ]_vars

=============================================================================
