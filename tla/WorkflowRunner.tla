----------------------------- MODULE WorkflowRunner -----------------------------
(***************************************************************************)
(* One coordinated workflow run: WorkflowRunner.run                         *)
(* (src/runtime/workflow_runner.py) with the structured-output loop it      *)
(* awaits (src/runtime/structured_output.py), the run budget, the handoff   *)
(* reconciliation and the workflow status.                                  *)
(*                                                                          *)
(* The run is one coroutine that executes the graph level by level; each    *)
(* level is an asyncio.gather of one task per node, and a task enters the   *)
(* agent executor under a semaphore of max_parallel_agents slots.  An       *)
(* action is the code between two awaits of one task.  An exception that a  *)
(* node's provider, memory store or capability loader raises leaves gather  *)
(* at once: run raises, and the sibling tasks go on as orphans until they   *)
(* end or the event loop is torn down under them.                           *)
(***************************************************************************)
EXTENDS RunBudget, FiniteSets

CONSTANTS
  Node,              \* graph.nodes
  DependsOn,         \* node.depends_on
  Level,             \* the index of the node's list in graph.levels()
  Rank,              \* the order of nodes inside a level (sorted by id)
  Required,          \* nodes with node.required
  Deliverable,       \* graph.deliverable_node_id
  LastLevel,         \* len(graph.levels()), the depth of the graph
  MaxDepth,          \* ExecutionLimits.max_workflow_depth
  MaxParallel,       \* ExecutionLimits.max_parallel_agents
  CapacityExcluded,  \* graph.capacity_exclusions is not empty
  LeadEscalates,     \* route.lead_agent is not the Scrummaster
  Risk,              \* the open-risk escalation handoff
  RiskTarget,        \* the first Scrummaster node, or NoNode
  NoNode

ASSUME GraphAssumption ==
  /\ IsFiniteSet(Node)
  /\ DependsOn \in [Node -> SUBSET Node]
  /\ LastLevel \in Nat \ {0}
  /\ Level \in [Node -> 1..LastLevel]
  /\ \A n \in Node : \A d \in DependsOn[n] : Level[d] < Level[n]
  /\ Rank \in [Node -> Nat]
  /\ \A m, n \in Node : Rank[m] = Rank[n] => m = n
  /\ Required \subseteq Node
  /\ Deliverable \in Node

ASSUME RunAssumption ==
  /\ MaxParallel \in Nat \ {0}
  /\ MaxDepth \in Nat
  /\ CapacityExcluded \in BOOLEAN
  /\ LeadEscalates \in BOOLEAN
  /\ RiskTarget \in Node \cup {NoNode}
  /\ Risk \notin Node \X Node

VARIABLES
  echo,         \* the client is the offline synthetic provider
  phase,        \* where the run coroutine is
  level,        \* the level being gathered, 0 before the first
  shared,       \* the nodes whose outputs the current level was given
  pc,           \* where each node's task is
  slots,        \* free slots of the semaphore
  attempts,     \* LLM calls made for each node
  states,       \* the run's node_states
  outputs,      \* the nodes that have an output in the run's outputs
  handoff,      \* session.handoffs, by edge; "NONE" until appended
  openRisk,     \* session.open_risks is not empty
  toolFailed,   \* a required tool produced no usable evidence
  status        \* session.workflow_status

runVars == <<echo, phase, level, shared, pc, slots, attempts, states, outputs,
             handoff, openRisk, toolFailed, status>>
vars == <<usage, late, echo, phase, level, shared, pc, slots, attempts, states,
          outputs, handoff, openRisk, toolFailed, status>>

Edge == {e \in Node \X Node : e[1] \in DependsOn[e[2]]}
Handoff == Edge \cup {Risk}
Target(h) == IF h = Risk THEN RiskTarget ELSE h[2]

Successful == {"COMPLETE", "SYNTHETIC"}
Declared == {"COMPLETE", "PARTIAL", "BLOCKED", "FAILED"}

Init ==
  /\ BudgetInit
  /\ echo \in BOOLEAN
  /\ phase = "created" /\ level = 0 /\ shared = {}
  /\ pc = [n \in Node |-> "idle"]
  /\ slots = MaxParallel
  /\ attempts = [n \in Node |-> 0]
  /\ states = [n \in Node |-> "NONE"]
  /\ outputs = {}
  /\ handoff = [h \in Handoff |-> "NONE"]
  /\ openRisk \in BOOLEAN
  /\ toolFailed = FALSE
  /\ status = "PLANNED"

-----------------------------------------------------------------------------
(* The run coroutine before the graph. *)

\* graph.validate: a graph larger or deeper than the limits never starts.
ValidateGraph ==
  /\ phase = "created"
  /\ IF Cardinality(Node) <= MaxNodes /\ LastLevel <= MaxDepth
       THEN phase' = "tools" /\ status' = "RUNNING"
       ELSE phase' = "rejected" /\ UNCHANGED status
  /\ UNCHANGED <<usage, late, echo, level, shared, pc, slots, attempts, states, outputs,
                 handoff, openRisk, toolFailed>>

\* dispatch_many, record_required_tool_failures and append_risk_handoff: a
\* failed required tool opens a risk, and an open risk is escalated before
\* any specialist runs.
DispatchTools ==
  /\ phase = "tools"
  /\ phase' = "running"
  /\ toolFailed' \in BOOLEAN
  /\ openRisk' = (openRisk \/ toolFailed')
  /\ handoff' = [handoff EXCEPT ![Risk] =
                   IF openRisk' /\ LeadEscalates THEN "CREATED" ELSE @]
  /\ UNCHANGED <<usage, late, echo, level, shared, pc, slots, attempts, states, outputs,
                 status>>

\* gather is over only when every task of the level is.
LevelDone == \A n \in Node : Level[n] = level => pc[n] = "done"

BeginLevel ==
  /\ phase = "running"
  /\ LevelDone
  /\ level < LastLevel
  /\ level' = level + 1
  /\ shared' = outputs
  /\ pc' = [n \in Node |-> IF Level[n] = level + 1 THEN "scheduled" ELSE pc[n]]
  /\ UNCHANGED <<usage, late, echo, phase, slots, attempts, states, outputs, handoff,
                 openRisk, toolFailed, status>>

-----------------------------------------------------------------------------
(* A node's task: _execute_node. *)

\* gather starts its tasks in the order of the level.
MayStart(n) ==
  /\ pc[n] = "scheduled"
  /\ \A m \in Node : pc[m] = "scheduled" => Rank[n] <= Rank[m]

\* Mutation: an output is enough, whatever its state.
OutputsExist(n) == DependsOn[n] \subseteq outputs

DependenciesMet(n) == \A d \in DependsOn[n] : states[d] \in Successful

\* block_node: a failed dependency or a refused reservation; no output, no
\* handoff, no slot.
BlockNode(n) ==
  /\ MayStart(n)
  /\ ~DependenciesMet(n) \/ ~CanReserveNode
  /\ states' = [states EXCEPT ![n] = "BLOCKED"]
  /\ pc' = [pc EXCEPT ![n] = "done"]
  /\ UNCHANGED <<usage, late, echo, phase, level, shared, slots, attempts, outputs,
                 handoff, openRisk, toolFailed, status>>

Waiting == {n \in Node : pc[n] = "queued"}

\* The node is reserved and its handoffs are created before it waits for a slot.
StartNode(n) ==
  /\ MayStart(n)
  /\ DependenciesMet(n)
  /\ ReserveNode
  /\ handoff' = [h \in Handoff |-> IF h \in Edge /\ Target(h) = n
                                     THEN "CREATED" ELSE handoff[h]]
  /\ IF slots > 0 /\ Waiting = {}
       THEN slots' = slots - 1 /\ pc' = [pc EXCEPT ![n] = "admitted"]
       ELSE UNCHANGED slots /\ pc' = [pc EXCEPT ![n] = "queued"]
  /\ UNCHANGED <<echo, phase, level, shared, attempts, states, outputs, openRisk,
                 toolFailed, status>>

\* Mutation: the slot is handed to a waiter and also given back.
ReleaseTwice(n, to) ==
  /\ slots' = slots + 1
  /\ IF Waiting = {}
       THEN pc' = [pc EXCEPT ![n] = to]
       ELSE \E w \in Waiting : pc' = [pc EXCEPT ![n] = to, ![w] = "admitted"]

\* Mutation: the slot is lost.
ReleaseNothing(n, to) == UNCHANGED slots /\ pc' = [pc EXCEPT ![n] = to]

\* Leaving the semaphore passes the slot to the task that waits longest: the
\* first of the queue is the lowest in start order.
ReleaseSlot(n, to) ==
  IF Waiting = {}
    THEN slots' = slots + 1 /\ pc' = [pc EXCEPT ![n] = to]
    ELSE \E w \in Waiting :
           /\ \A m \in Waiting : Rank[w] <= Rank[m]
           /\ UNCHANGED slots
           /\ pc' = [pc EXCEPT ![n] = to, ![w] = "admitted"]

\* The handoffs _addressed_handoff_payloads gives the node and
\* _resolve_node_handoffs looks at again.
Addressed(n) == {h \in Handoff : handoff[h] = "CREATED" /\ Target(h) = n}

\* What one acknowledgement does to its handoff: none leaves it pending, one
\* exact ACCEPTED or CHALLENGED consumes it, anything else blocks it.
Acknowledgement == {"CREATED", "CONSUMED", "BLOCKED"}

NoAcknowledgement(n) == [h \in Addressed(n) |-> "CREATED"]

\* Mutation: the siblings see the output at once.
FinishShared(n, state, ack) ==
  /\ ReleaseSlot(n, "done")
  /\ states' = [states EXCEPT ![n] = state]
  /\ outputs' = outputs \cup {n}
  /\ shared' = shared \cup {n}
  /\ handoff' = [h \in Handoff |-> IF h \in DOMAIN ack THEN ack[h] ELSE handoff[h]]
  /\ UNCHANGED <<late, echo, phase, level, openRisk, toolFailed, status>>

FinishNode(n, state, ack) ==
  /\ ReleaseSlot(n, "done")
  /\ states' = [states EXCEPT ![n] = state]
  /\ outputs' = outputs \cup {n}
  /\ handoff' = [h \in Handoff |-> IF h \in DOMAIN ack THEN ack[h] ELSE handoff[h]]
  /\ UNCHANGED <<late, echo, phase, level, shared, openRisk, toolFailed, status>>

\* The offline provider answers without an await and without a reservation.
\* Its output consumes every handoff, or does not validate and carries none.
EchoAnswers(n) ==
  /\ echo
  /\ pc[n] = "admitted"
  /\ \/ FinishNode(n, "SYNTHETIC", [h \in Addressed(n) |-> "CONSUMED"])
     \/ FinishNode(n, "FAILED", NoAcknowledgement(n))
  /\ UNCHANGED <<usage, attempts>>

\* Mutation: the call is counted, and no ceiling is asked.
CallUnreserved(n, correction, quote) ==
  /\ usage' = [usage EXCEPT !.calls = @ + 1]
  /\ attempts' = [attempts EXCEPT ![n] = @ + 1]
  /\ pc' = [pc EXCEPT ![n] = "calling"]
  /\ UNCHANGED <<late, echo, phase, level, shared, slots, states, outputs, handoff,
                 openRisk, toolFailed, status>>

Call(n, correction, quote) ==
  /\ ReserveCall(correction, quote)
  /\ attempts' = [attempts EXCEPT ![n] = @ + 1]
  /\ pc' = [pc EXCEPT ![n] = "calling"]
  /\ UNCHANGED <<echo, phase, level, shared, slots, states, outputs, handoff, openRisk,
                 toolFailed, status>>

\* A refused reservation is the "blocked" result: the node ends with a
\* failure output that acknowledges nothing.
CallRefused(n, correction, quote) ==
  /\ ~CanReserveCall(correction, quote)
  /\ FinishNode(n, "BLOCKED", NoAcknowledgement(n))
  /\ UNCHANGED <<usage, attempts>>

FirstCall(n) ==
  /\ ~echo
  /\ pc[n] = "admitted"
  /\ \E quote \in Quotes : Call(n, FALSE, quote) \/ CallRefused(n, FALSE, quote)

\* The provider's answer validates: its declared execution_state is the
\* node's state.
ReplyValid(n) ==
  /\ pc[n] = "calling"
  /\ \E state \in Declared, ack \in [Addressed(n) -> Acknowledgement] :
       FinishNode(n, state, ack)
  /\ UNCHANGED <<usage, attempts>>

\* The answer does not validate: ask again while the node has corrections
\* left, under the run's shared correction and call ceilings.
ReplyInvalid(n) ==
  /\ pc[n] = "calling"
  /\ attempts[n] <= MaxCorrections
  /\ \E quote \in Quotes : Call(n, TRUE, quote) \/ CallRefused(n, TRUE, quote)

ReplyExhausted(n) ==
  /\ pc[n] = "calling"
  /\ attempts[n] > MaxCorrections
  /\ FinishNode(n, "FAILED", NoAcknowledgement(n))
  /\ UNCHANGED <<usage, attempts>>

\* The capability loader, the memory store or the provider raises.  Nothing
\* between the node and the caller of run catches it.
NodeRaises(n) ==
  /\ pc[n] \in {"admitted", "calling"}
  /\ ReleaseSlot(n, "raised")
  /\ phase' = "raised"
  /\ UNCHANGED <<usage, late, echo, level, shared, attempts, states, outputs, handoff,
                 openRisk, toolFailed, status>>

NodeStep(n) ==
  \/ BlockNode(n) \/ StartNode(n) \/ EchoAnswers(n) \/ FirstCall(n)
  \/ ReplyValid(n) \/ ReplyInvalid(n) \/ ReplyExhausted(n) \/ NodeRaises(n)

-----------------------------------------------------------------------------
(* The run coroutine after the graph: _finalize_run. *)

\* Mutation: only the graph's edges are finalized.
ReconciledEdges ==
  [h \in Handoff |-> IF h \in Edge /\ handoff[h] = "CREATED" THEN "BLOCKED" ELSE handoff[h]]

\* reconcile_required_handoffs turns every pending record into a BLOCKED one.
Reconciled == [h \in Handoff |-> IF handoff[h] = "CREATED" THEN "BLOCKED" ELSE handoff[h]]

\* Mutation: an unresolved risk escalation does not count.
UnresolvedEdges == \E e \in Edge : Reconciled[e] = "BLOCKED"

Unresolved == \E h \in Handoff : Reconciled[h] = "BLOCKED"

WorkflowStatus(conflicts) ==
  IF \/ \E n \in Required : states[n] \notin Successful
     \/ states[Deliverable] \notin Successful
    THEN "FAILED"
    ELSE IF \/ \E n \in Node \ Required : states[n] \notin Successful
            \/ toolFailed \/ conflicts \/ Unresolved \/ CapacityExcluded
            \/ \E n \in Node : states[n] = "SYNTHETIC"
           THEN "PARTIAL"
           ELSE "COMPLETE"

\* The status is stored first; budget.snapshot then raises if the deadline
\* has passed, or passes now.  Conflicts need a successful output.
FinalizeRun ==
  /\ phase = "running"
  /\ level = LastLevel
  /\ LevelDone
  /\ \E conflicts \in BOOLEAN :
       /\ conflicts => \E n \in Node : states[n] \in Successful
       /\ status' = WorkflowStatus(conflicts)
  /\ handoff' = Reconciled
  /\ late' \in {late, TRUE}
  /\ phase' = IF late' THEN "raised" ELSE "returned"
  /\ UNCHANGED <<usage, echo, level, shared, pc, slots, attempts, states, outputs,
                 openRisk, toolFailed>>

\* asyncio.run cancels what a raised run left behind; an embedding event loop
\* lets it run on.
Live(n) == pc[n] \in {"scheduled", "queued", "admitted", "calling"}

CancelOrphans ==
  /\ phase = "raised"
  /\ \E n \in Node : Live(n)
  /\ pc' = [n \in Node |-> IF Live(n) THEN "cancelled" ELSE pc[n]]
  /\ slots' = MaxParallel
  /\ UNCHANGED <<usage, late, echo, phase, level, shared, attempts, states, outputs,
                 handoff, openRisk, toolFailed, status>>

ClockStep ==
  /\ phase \in {"tools", "running", "raised"}
  /\ DeadlinePasses
  /\ UNCHANGED runVars

Ended == phase \in {"rejected", "returned", "raised"} /\ \A n \in Node : ~Live(n)

Stopped == Ended /\ UNCHANGED vars

RunStep == ValidateGraph \/ DispatchTools \/ BeginLevel \/ FinalizeRun

Next ==
  \/ RunStep
  \/ \E n \in Node : NodeStep(n)
  \/ CancelOrphans
  \/ ClockStep
  \/ Stopped

Spec == Init /\ [][Next]_vars

\* The event loop runs every ready task, and every provider call is answered
\* or raises: its transport has a timeout and a bounded number of attempts.
FairSpec == Spec /\ WF_vars(RunStep) /\ \A n \in Node : WF_vars(NodeStep(n))

-----------------------------------------------------------------------------
TypeOK ==
  /\ BudgetTypeOK
  /\ echo \in BOOLEAN
  /\ phase \in {"created", "rejected", "tools", "running", "raised", "returned"}
  /\ level \in 0..LastLevel
  /\ shared \subseteq Node
  /\ pc \in [Node -> {"idle", "scheduled", "queued", "admitted", "calling",
                      "done", "raised", "cancelled"}]
  /\ slots \in 0..MaxParallel
  /\ attempts \in [Node -> Nat]
  /\ states \in [Node -> Declared \cup {"NONE", "SYNTHETIC"}]
  /\ outputs \subseteq Node
  /\ handoff \in [Handoff -> {"NONE", "CREATED", "CONSUMED", "BLOCKED"}]
  /\ openRisk \in BOOLEAN
  /\ toolFailed \in BOOLEAN
  /\ status \in {"PLANNED", "RUNNING", "COMPLETE", "PARTIAL", "FAILED"}

InAgent == {n \in Node : pc[n] \in {"admitted", "calling"}}

\* Never more than max_parallel_agents tasks are inside the executor, whatever
\* the order in which they are answered, refused, corrected or raise, and also
\* among the orphans of a raised run (workflow_runner.py:92, 135).
ParallelCeiling == Cardinality(InAgent) <= MaxParallel

\* Siblings that are answered, refused, corrected or raise in any order pass neither the
\* ceilings of the shared budget (run_budget.py:65-104) nor that of the semaphore.
EveryCeilingHolds == CeilingsHold /\ ParallelCeiling

\* A node holds a slot, calls or has an output only if every dependency ended
\* COMPLETE or SYNTHETIC, so nothing below a failure is ever paid for
\* (workflow_runner.py:119-126).
DependencyOrder ==
  \A n \in Node :
    (pc[n] \in {"queued", "admitted", "calling"} \/ n \in outputs \/ attempts[n] > 0)
      => \A d \in DependsOn[n] : states[d] \in {"COMPLETE", "SYNTHETIC"}

\* A level is given exactly the outputs of the earlier levels, whichever of
\* its own members has already answered (workflow_runner.py:94).
SnapshotIsEarlierLevels ==
  phase \in {"running", "returned"} =>
    shared = {n \in outputs : Level[n] < level}

\* A run that returns has settled every handoff it created
\* (handoff_governance.py:216-230).
ReturnedHandoffsSettled ==
  phase = "returned" => \A h \in Handoff : handoff[h] # "CREATED"

\* COMPLETE is earned: every node was executed by a live provider and declared
\* COMPLETE, every edge's handoff was consumed by its receiver, and no risk,
\* tool failure or capacity exclusion was left out (workflow_run_support.py:134-156).
CompleteIsEarned ==
  status = "COMPLETE" =>
    /\ \A n \in Node : states[n] = "COMPLETE" /\ attempts[n] > 0
    /\ usage.nodes = Cardinality(Node)
    /\ \A e \in Edge : handoff[e] = "CONSUMED"
    /\ handoff[Risk] \in {"NONE", "CONSUMED"}
    /\ ~toolFailed /\ ~CapacityExcluded

\* Every dependency handoff is either consumed or explicitly blocked, once
\* nothing of the run is left to run.
EveryHandoffSettled ==
  Ended => \A e \in Edge : handoff[e] # "CREATED"

\* The run always ends: it is rejected, returns or raises.
RunEnds == <>(phase \in {"rejected", "returned", "raised"})

=============================================================================
