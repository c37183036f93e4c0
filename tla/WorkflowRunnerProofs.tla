-------------------------- MODULE WorkflowRunnerProofs --------------------------
(***************************************************************************)
(* Proofs about WorkflowRunner, for every graph, every set of limits and    *)
(* every sequence of answers.                                               *)
(***************************************************************************)
EXTENDS WorkflowRunner, FiniteSetTheorems, TLAPS

\* Arithmetic on a total that may be unknown stays a total.
LEMMA CostTotalType ==
  ASSUME NEW quote \in Quotes, BudgetTypeOK, quote # Invalid
  PROVE  CostTotal(quote) \in Nat \cup {Unknown}
BY QuotesAssumption DEF CostTotal, BudgetTypeOK, Usage

LEMMA ReserveNodeType ==
  ASSUME BudgetTypeOK, ReserveNode
  PROVE  BudgetTypeOK'
BY DEF BudgetTypeOK, Usage, ReserveNode, CanReserveNode

LEMMA ReserveCallType ==
  ASSUME NEW quote \in Quotes, NEW correction \in BOOLEAN, BudgetTypeOK,
         ReserveCall(correction, quote)
  PROVE  BudgetTypeOK'
<1>1. CostTotal(quote) \in Nat \cup {Unknown}
  BY CostTotalType DEF ReserveCall, CanReserveCall, CostAllowed
<1> DEFINE corrections == IF correction THEN usage.corrections + 1 ELSE usage.corrections
<1>2. corrections \in Nat
  BY DEF BudgetTypeOK, Usage
<1>3. usage' = [nodes |-> usage.nodes, calls |-> usage.calls + 1,
                corrections |-> corrections, cost |-> CostTotal(quote)]
  BY DEF BudgetTypeOK, Usage, ReserveCall
<1>4. late' = late
  BY DEF ReserveCall
<1> HIDE DEF corrections
<1> QED
  BY <1>1, <1>2, <1>3, <1>4 DEF BudgetTypeOK, Usage


-----------------------------------------------------------------------------
(* The semaphore. *)

PC == {"idle", "scheduled", "queued", "admitted", "calling", "done", "raised", "cancelled"}

\* A slot is free or a task inside the executor holds it.
SlotsBalance == slots + Cardinality(InAgent) = MaxParallel

LEMMA InAgentFinite == IsFiniteSet(InAgent) /\ Cardinality(InAgent) \in Nat
<1>1. InAgent \subseteq Node
  BY DEF InAgent
<1> QED
  BY <1>1, GraphAssumption, FS_Subset, FS_CardinalityType

\* Leaving the semaphore moves the leaver and at most one waiter.
LEMMA ReleaseMoves ==
  ASSUME NEW n \in Node, NEW to \in PC, ReleaseSlot(n, to)
  PROVE  \/ /\ slots' = slots + 1
            /\ pc' = [pc EXCEPT ![n] = to]
         \/ \E w \in Node :
              /\ pc[w] = "queued"
              /\ slots' = slots
              /\ pc' = [pc EXCEPT ![n] = to, ![w] = "admitted"]
BY DEF ReleaseSlot, Waiting

LEMMA ReleaseBalances ==
  ASSUME NEW n \in Node, NEW to \in PC \ {"admitted", "calling"},
         pc \in [Node -> PC], slots \in 0..MaxParallel, SlotsBalance,
         pc[n] \in {"admitted", "calling"}, ReleaseSlot(n, to)
  PROVE  /\ pc' \in [Node -> PC]
         /\ slots' \in 0..MaxParallel
         /\ SlotsBalance'
         /\ \A m \in Node : pc[m] = "idle" => pc'[m] = "idle"
<1> DEFINE left == InAgent \ {n}
<1>1. /\ n \in InAgent
      /\ IsFiniteSet(left)
      /\ Cardinality(left) \in Nat
      /\ Cardinality(left) = Cardinality(InAgent) - 1
  BY InAgentFinite, FS_RemoveElement, FS_CardinalityType DEF InAgent
<1>2. CASE slots' = slots + 1 /\ pc' = [pc EXCEPT ![n] = to]
  <2>1. InAgent' = left
    BY <1>2 DEF InAgent, PC
  <2> QED
    BY <1>1, <1>2, <2>1, RunAssumption, InAgentFinite DEF SlotsBalance, PC
<1>3. CASE \E w \in Node : /\ pc[w] = "queued"
                           /\ slots' = slots
                           /\ pc' = [pc EXCEPT ![n] = to, ![w] = "admitted"]
  <2>1. PICK w \in Node : /\ pc[w] = "queued"
                          /\ slots' = slots
                          /\ pc' = [pc EXCEPT ![n] = to, ![w] = "admitted"]
    BY <1>3
  <2>2. w \notin left /\ w # n
    BY <2>1 DEF InAgent
  <2>3. InAgent' = left \cup {w}
    BY <2>1, <2>2 DEF InAgent, PC
  <2>4. Cardinality(InAgent') = Cardinality(InAgent)
    <3>1. Cardinality(left \cup {w}) = Cardinality(left) + 1
      BY <1>1, <2>2, FS_AddElement
    <3> HIDE DEF left
    <3> QED
      BY <1>1, <2>3, <3>1, InAgentFinite
  <2> QED
    BY <2>1, <2>4 DEF SlotsBalance, PC
<1> QED
  BY <1>2, <1>3, ReleaseMoves

-----------------------------------------------------------------------------
(* Type correctness and the parallel ceiling, together. *)

\* A level that gather has not begun has no task.
LevelsAhead == \A n \in Node : Level[n] > level => pc[n] = "idle"

TypeInv == TypeOK /\ SlotsBalance /\ LevelsAhead

LEMMA TypeInit == Init => TypeInv
<1> SUFFICES ASSUME Init PROVE TypeInv
  OBVIOUS
<1>1. BudgetTypeOK
  BY DEF Init, BudgetInit, BudgetTypeOK, Usage
<1>2. SlotsBalance
  <2>1. InAgent = {}
    BY DEF Init, InAgent
  <2> QED
    BY <2>1, FS_EmptySet, RunAssumption DEF Init, SlotsBalance
<1>3. slots \in 0..MaxParallel /\ level \in 0..LastLevel
  BY GraphAssumption, RunAssumption DEF Init
<1>4. /\ pc \in [Node -> PC]
      /\ states \in [Node -> Declared \cup {"NONE", "SYNTHETIC"}]
      /\ attempts \in [Node -> Nat]
      /\ handoff \in [Handoff -> {"NONE", "CREATED", "CONSUMED", "BLOCKED"}]
  BY DEF Init, PC
<1>5. TypeOK
  BY <1>1, <1>3, <1>4 DEF Init, TypeOK, PC
<1>6. LevelsAhead
  BY DEF Init, LevelsAhead
<1> QED
  BY <1>2, <1>5, <1>6 DEF TypeInv

\* What finishing a node writes is typed, whatever the acknowledgements are.
LEMMA FinishType ==
  ASSUME NEW n \in Node, NEW state \in Declared \cup {"SYNTHETIC"}, NEW ack,
         ack \in [Addressed(n) -> Acknowledgement],
         TypeInv, pc[n] \in {"admitted", "calling"},
         FinishNode(n, state, ack), usage' = usage, attempts' = attempts
  PROVE  TypeInv'
<1>1. pc' \in [Node -> PC] /\ slots' \in 0..MaxParallel /\ SlotsBalance' /\ LevelsAhead'
  BY ReleaseBalances DEF TypeInv, TypeOK, FinishNode, LevelsAhead, PC
<1>2. handoff' \in [Handoff -> {"NONE", "CREATED", "CONSUMED", "BLOCKED"}]
  BY DEF TypeInv, TypeOK, FinishNode, Acknowledgement
<1>3. BudgetTypeOK'
  BY DEF TypeInv, TypeOK, FinishNode, BudgetTypeOK
<1> QED
  BY <1>1, <1>2, <1>3 DEF TypeInv, TypeOK, FinishNode, PC

LEMMA CallType ==
  ASSUME NEW n \in Node, NEW quote \in Quotes, NEW correction \in BOOLEAN,
         TypeInv, pc[n] \in {"admitted", "calling"}, Call(n, correction, quote)
  PROVE  TypeInv'
<1>1. BudgetTypeOK'
  BY ReserveCallType DEF Call, TypeInv, TypeOK
<1>2. InAgent' = InAgent
  BY DEF Call, InAgent, TypeInv, TypeOK
<1>3. SlotsBalance'
  BY <1>2 DEF Call, SlotsBalance, TypeInv
<1>4. LevelsAhead'
  BY DEF Call, LevelsAhead, TypeInv, TypeOK
<1> QED
  BY <1>1, <1>3, <1>4 DEF Call, TypeInv, TypeOK

LEMMA NoAckType ==
  ASSUME NEW n \in Node
  PROVE  /\ NoAcknowledgement(n) \in [Addressed(n) -> Acknowledgement]
         /\ [h \in Addressed(n) |-> "CONSUMED"] \in [Addressed(n) -> Acknowledgement]
BY DEF NoAcknowledgement, Acknowledgement

LEMMA NodeStepType ==
  ASSUME NEW n \in Node, TypeInv, NodeStep(n)
  PROVE  TypeInv'
<1>1. CASE BlockNode(n)
  <2>1. InAgent' = InAgent
    BY <1>1 DEF BlockNode, MayStart, InAgent, TypeInv, TypeOK
  <2>2. BudgetTypeOK'
    BY <1>1 DEF BlockNode, TypeInv, TypeOK, BudgetTypeOK
  <2> QED
    BY <1>1, <2>1, <2>2
    DEF BlockNode, MayStart, TypeInv, TypeOK, SlotsBalance, LevelsAhead, Declared
<1>2. CASE StartNode(n)
  <2>1. BudgetTypeOK'
    BY <1>2, ReserveNodeType DEF StartNode, TypeInv, TypeOK
  <2>2. handoff' \in [Handoff -> {"NONE", "CREATED", "CONSUMED", "BLOCKED"}]
    BY <1>2 DEF StartNode, TypeInv, TypeOK
  <2>3. slots' \in 0..MaxParallel /\ SlotsBalance'
    <3>1. CASE slots > 0 /\ Waiting = {}
      <4>1. n \notin InAgent /\ InAgent' = InAgent \cup {n}
        BY <1>2, <3>1 DEF StartNode, MayStart, InAgent, TypeInv, TypeOK
      <4>2. Cardinality(InAgent') = Cardinality(InAgent) + 1
        BY <4>1, InAgentFinite, FS_AddElement
      <4> QED
        BY <1>2, <3>1, <4>2, RunAssumption, InAgentFinite
        DEF StartNode, SlotsBalance, TypeInv, TypeOK
    <3>2. CASE ~(slots > 0 /\ Waiting = {})
      <4>1. InAgent' = InAgent
        BY <1>2, <3>2 DEF StartNode, MayStart, InAgent, TypeInv, TypeOK
      <4> QED
        BY <1>2, <3>2, <4>1 DEF StartNode, SlotsBalance, TypeInv, TypeOK
    <3> QED
      BY <3>1, <3>2
  <2>4. LevelsAhead'
    BY <1>2 DEF StartNode, MayStart, LevelsAhead, TypeInv, TypeOK
  <2> QED
    BY <1>2, <2>1, <2>2, <2>3, <2>4 DEF StartNode, TypeInv, TypeOK
<1>3. CASE EchoAnswers(n)
  BY <1>3, FinishType, NoAckType DEF EchoAnswers, Declared
<1>4. CASE FirstCall(n)
  BY <1>4, FinishType, NoAckType, CallType DEF FirstCall, CallRefused, Declared
<1>5. CASE ReplyValid(n)
  BY <1>5, FinishType DEF ReplyValid
<1>6. CASE ReplyInvalid(n)
  BY <1>6, FinishType, NoAckType, CallType DEF ReplyInvalid, CallRefused, Declared
<1>7. CASE ReplyExhausted(n)
  BY <1>7, FinishType, NoAckType DEF ReplyExhausted, Declared
<1>8. CASE NodeRaises(n)
  <2>1. pc' \in [Node -> PC] /\ slots' \in 0..MaxParallel /\ SlotsBalance' /\ LevelsAhead'
    BY <1>8, ReleaseBalances DEF NodeRaises, TypeInv, TypeOK, LevelsAhead, PC
  <2> QED
    BY <1>8, <2>1 DEF NodeRaises, TypeInv, TypeOK, PC, BudgetTypeOK
<1> QED
  BY <1>1, <1>2, <1>3, <1>4, <1>5, <1>6, <1>7, <1>8 DEF NodeStep

LEMMA TypeStep == TypeInv /\ [Next]_vars => TypeInv'
<1> SUFFICES ASSUME TypeInv, [Next]_vars PROVE TypeInv'
  OBVIOUS
<1>1. CASE ValidateGraph
  BY <1>1 DEF ValidateGraph, TypeInv, TypeOK, BudgetTypeOK, SlotsBalance, LevelsAhead, InAgent
<1>2. CASE DispatchTools
  BY <1>2 DEF DispatchTools, TypeInv, TypeOK, BudgetTypeOK, SlotsBalance, LevelsAhead, InAgent, Handoff
<1>3. CASE BeginLevel
  <2>1. level \in 0..LastLevel /\ level' = level + 1 /\ level' \in 0..LastLevel
    BY <1>3, GraphAssumption DEF BeginLevel, TypeInv, TypeOK
  <2>2. InAgent' = InAgent /\ LevelsAhead'
    BY <1>3, <2>1, GraphAssumption
    DEF BeginLevel, InAgent, LevelsAhead, TypeInv, TypeOK
  <2> QED
    BY <1>3, <2>1, <2>2 DEF BeginLevel, TypeInv, TypeOK, BudgetTypeOK, SlotsBalance
<1>4. CASE FinalizeRun
  <2>1. status' \in {"COMPLETE", "PARTIAL", "FAILED"}
    BY <1>4 DEF FinalizeRun, WorkflowStatus
  <2>2. handoff' \in [Handoff -> {"NONE", "CREATED", "CONSUMED", "BLOCKED"}]
    BY <1>4 DEF FinalizeRun, Reconciled, TypeInv, TypeOK
  <2> QED
    BY <1>4, <2>1, <2>2
    DEF FinalizeRun, TypeInv, TypeOK, BudgetTypeOK, SlotsBalance, LevelsAhead, InAgent
<1>5. CASE \E n \in Node : NodeStep(n)
  BY <1>5, NodeStepType
<1>6. CASE CancelOrphans
  <2>1. InAgent' = {}
    BY <1>6 DEF CancelOrphans, InAgent, Live
  <2> QED
    BY <1>6, <2>1, FS_EmptySet, RunAssumption
    DEF CancelOrphans, Live, TypeInv, TypeOK, BudgetTypeOK, SlotsBalance, LevelsAhead
<1>7. CASE ClockStep
  BY <1>7 DEF ClockStep, DeadlinePasses, runVars, TypeInv, TypeOK, BudgetTypeOK,
              SlotsBalance, LevelsAhead, InAgent
<1>8. CASE Stopped
  BY <1>8 DEF Stopped, vars, TypeInv, TypeOK, BudgetTypeOK, SlotsBalance, LevelsAhead, InAgent
<1>9. CASE UNCHANGED vars
  BY <1>9 DEF vars, TypeInv, TypeOK, BudgetTypeOK, SlotsBalance, LevelsAhead, InAgent
<1> QED
  BY <1>1, <1>2, <1>3, <1>4, <1>5, <1>6, <1>7, <1>8, <1>9 DEF Next, RunStep

THEOREM TypeInvariant == Spec => []TypeInv
BY TypeInit, TypeStep, PTL DEF Spec

\* Every variable keeps its type.
THEOREM TypeCorrect == Spec => []TypeOK
<1>1. TypeInv => TypeOK
  BY DEF TypeInv
<1> QED
  BY <1>1, TypeInvariant, PTL

\* The semaphore's promise, for any number of nodes and slots.
THEOREM ParallelCeilingHolds == Spec => []ParallelCeiling
<1>1. TypeInv => ParallelCeiling
  BY InAgentFinite, RunAssumption DEF TypeInv, TypeOK, SlotsBalance, ParallelCeiling
<1> QED
  BY <1>1, TypeInvariant, PTL

-----------------------------------------------------------------------------
(* The runner keeps the budget's promise: RunBudget is the abstract         *)
(* specification of what may happen to the usage, whoever asks.             *)

LEMMA NodeStepBudget ==
  ASSUME NEW n \in Node, NodeStep(n)
  PROVE  [BudgetNext]_budgetVars
<1>1. CASE BlockNode(n)
  BY <1>1 DEF BlockNode, budgetVars
<1>2. CASE StartNode(n)
  BY <1>2 DEF StartNode, BudgetNext
<1>3. CASE EchoAnswers(n) \/ ReplyValid(n) \/ ReplyExhausted(n) \/ NodeRaises(n)
  BY <1>3 DEF EchoAnswers, ReplyValid, ReplyExhausted, NodeRaises, FinishNode, budgetVars
<1>4. ASSUME NEW quote \in Quotes, NEW correction \in BOOLEAN,
             Call(n, correction, quote) \/ CallRefused(n, correction, quote)
      PROVE  [BudgetNext]_budgetVars
  BY <1>4 DEF Call, CallRefused, FinishNode, BudgetNext, budgetVars
<1>5. CASE FirstCall(n) \/ ReplyInvalid(n)
  BY <1>4, <1>5 DEF FirstCall, ReplyInvalid
<1> QED
  BY <1>1, <1>2, <1>3, <1>5 DEF NodeStep

LEMMA StepBudget == TypeInv /\ [Next]_vars => [BudgetNext]_budgetVars
<1> SUFFICES ASSUME TypeInv, [Next]_vars PROVE [BudgetNext]_budgetVars
  OBVIOUS
<1>1. CASE FinalizeRun
  <2>1. usage' = usage /\ (late' = late \/ (~late /\ late' = TRUE))
    BY <1>1 DEF FinalizeRun, TypeInv, TypeOK, BudgetTypeOK
  <2> QED
    BY <2>1 DEF BudgetNext, DeadlinePasses, budgetVars
<1>2. CASE ValidateGraph \/ DispatchTools \/ BeginLevel
  BY <1>2 DEF ValidateGraph, DispatchTools, BeginLevel, budgetVars
<1>3. CASE \E n \in Node : NodeStep(n)
  BY <1>3, NodeStepBudget
<1>4. CASE CancelOrphans \/ Stopped \/ UNCHANGED vars
  BY <1>4 DEF CancelOrphans, Stopped, vars, budgetVars
<1>5. CASE ClockStep
  BY <1>5 DEF ClockStep, BudgetNext
<1> QED
  BY <1>1, <1>2, <1>3, <1>4, <1>5 DEF Next, RunStep

\* Every behaviour of the runner is a behaviour of the budget: no path through
\* starts, corrections, refusals, raises or orphans reserves anything else.
THEOREM RunnerImplementsBudget == Spec => BudgetSpec
<1>1. Init => BudgetInit
  BY DEF Init
<1> QED
  BY <1>1, TypeInvariant, StepBudget, PTL DEF Spec, BudgetSpec

\* What the budget's own steps keep is kept by everything that implements it.
BudgetInv == BudgetTypeOK /\ CeilingsHold

LEMMA BudgetStep == BudgetInv /\ [BudgetNext]_budgetVars => BudgetInv'
<1> SUFFICES ASSUME BudgetInv, [BudgetNext]_budgetVars PROVE BudgetInv'
  OBVIOUS
<1>1. CASE ReserveNode
  <2>1. BudgetTypeOK'
    BY <1>1, ReserveNodeType DEF BudgetInv
  <2> QED
    BY <1>1, <2>1 DEF ReserveNode, CanReserveNode, BudgetInv, BudgetTypeOK, Usage, CeilingsHold
<1>2. ASSUME NEW correction \in BOOLEAN, NEW quote \in Quotes,
             ReserveCall(correction, quote)
      PROVE  BudgetInv'
  <2>1. BudgetTypeOK'
    BY <1>2, ReserveCallType DEF BudgetInv
  <2>2. CostCeiling # NoCeiling => usage'.cost # Unknown /\ usage'.cost <= CostCeiling
    BY <1>2 DEF ReserveCall, CanReserveCall, CostAllowed, BudgetInv, BudgetTypeOK, Usage
  <2>3. usage'.nodes <= MaxNodes /\ usage'.calls <= MaxCalls
    BY <1>2 DEF ReserveCall, CanReserveCall, BudgetInv, BudgetTypeOK, Usage, CeilingsHold
  <2>4. usage'.corrections <= MaxCorrections /\ usage'.corrections <= usage'.calls
    <3>1. CASE correction
      BY <1>2, <3>1 DEF ReserveCall, CanReserveCall, BudgetInv, BudgetTypeOK, Usage, CeilingsHold
    <3>2. CASE ~correction
      BY <1>2, <3>2 DEF ReserveCall, CanReserveCall, BudgetInv, BudgetTypeOK, Usage, CeilingsHold
    <3> QED
      BY <3>1, <3>2
  <2> QED
    BY <2>1, <2>2, <2>3, <2>4 DEF BudgetInv, CeilingsHold
<1>3. CASE DeadlinePasses \/ UNCHANGED budgetVars
  BY <1>3 DEF DeadlinePasses, budgetVars, BudgetInv, BudgetTypeOK, CeilingsHold
<1> QED
  BY <1>1, <1>2, <1>3 DEF BudgetNext

\* The ceilings, for every set of limits and every estimator.
THEOREM CeilingsAlwaysHold == Spec => []CeilingsHold
<1>1. BudgetInit => BudgetInv
  <2> SUFFICES ASSUME BudgetInit PROVE BudgetInv
    OBVIOUS
  <2>1. /\ usage = [nodes |-> 0, calls |-> 0, corrections |-> 0, cost |-> 0]
        /\ late \in BOOLEAN
    BY DEF BudgetInit
  <2>2. BudgetTypeOK
    BY <2>1 DEF BudgetTypeOK, Usage
  <2>3. CostCeiling # NoCeiling => CostCeiling >= 0
    BY LimitsAssumption
  <2>4. 0 # Unknown
    BY QuotesAssumption
  <2> QED
    BY <2>1, <2>2, <2>3, <2>4, LimitsAssumption DEF BudgetInv, CeilingsHold
<1>2. BudgetInv => CeilingsHold
  BY DEF BudgetInv
<1> QED
  BY <1>1, <1>2, BudgetStep, RunnerImplementsBudget, PTL DEF BudgetSpec

\* All ceilings together: those of the budget and that of the semaphore.
THEOREM EveryCeilingAlwaysHolds == Spec => []EveryCeilingHolds
<1>1. CeilingsHold /\ ParallelCeiling => EveryCeilingHolds
  BY DEF EveryCeilingHolds
<1> QED
  BY <1>1, CeilingsAlwaysHold, ParallelCeilingHolds, PTL

-----------------------------------------------------------------------------
(* Where the nodes are.  The dependency order is not inductive by itself: a *)
(* dependency's state must also be final, which it is once its task is done *)
(* and while no task of a later level exists.                               *)

BeforeTheGraph ==
  phase \in {"created", "tools", "rejected"} => level = 0 /\ outputs = {} /\ shared = {}

LevelsBehind == phase = "running" => \A n \in Node : Level[n] < level => pc[n] = "done"

AllReturned == phase = "returned" => \A n \in Node : pc[n] = "done"

StatesAreFinal == \A n \in Node : states[n] # "NONE" \/ n \in outputs => pc[n] = "done"

PlaceInv ==
  /\ BeforeTheGraph
  /\ LevelsBehind
  /\ AllReturned
  /\ StatesAreFinal
  /\ DependencyOrder
  /\ SnapshotIsEarlierLevels
  /\ ReturnedHandoffsSettled

Engaged(n) == pc[n] \in {"queued", "admitted", "calling"} \/ n \in outputs \/ attempts[n] > 0

\* The moves of one node's step, whichever it is: only a waiter moves with it,
\* and only its own results change.
NodeMoves(n) ==
  /\ level' = level /\ shared' = shared /\ phase' \in {phase, "raised"}
  /\ \A m \in Node \ {n} :
       /\ pc'[m] = pc[m] \/ (pc[m] = "queued" /\ pc'[m] = "admitted")
       /\ states'[m] = states[m]
       /\ attempts'[m] = attempts[m]
       /\ m \in outputs' <=> m \in outputs
  /\ pc'[n] = "done" \/ (states'[n] = states[n] /\ outputs' = outputs)
  /\ Engaged(n)' => DependenciesMet(n) \/ Engaged(n)

LEMMA ReleasePoints ==
  ASSUME NEW n \in Node, NEW to \in PC, TypeInv, pc[n] \in {"admitted", "calling"},
         ReleaseSlot(n, to)
  PROVE  /\ pc'[n] = to
         /\ \A m \in Node \ {n} :
              pc'[m] = pc[m] \/ (pc[m] = "queued" /\ pc'[m] = "admitted")
<1>1. pc \in [Node -> PC]
  BY DEF TypeInv, TypeOK, PC
<1> QED
  BY <1>1, ReleaseMoves

LEMMA NodeStepMoves ==
  ASSUME NEW n \in Node, TypeInv, NodeStep(n)
  PROVE  Live(n) /\ NodeMoves(n)
<1>1. ASSUME NEW state, NEW ack, FinishNode(n, state, ack), attempts' = attempts,
             pc[n] \in {"admitted", "calling"}
      PROVE  Live(n) /\ NodeMoves(n)
  <2>1. pc'[n] = "done" /\ \A m \in Node \ {n} :
          pc'[m] = pc[m] \/ (pc[m] = "queued" /\ pc'[m] = "admitted")
    BY <1>1, ReleasePoints DEF FinishNode, PC
  <2>2. \A m \in Node \ {n} : states'[m] = states[m] /\ (m \in outputs' <=> m \in outputs)
    BY <1>1 DEF FinishNode, TypeInv, TypeOK
  <2> QED
    BY <1>1, <2>1, <2>2 DEF FinishNode, NodeMoves, Engaged, Live
<1>2. ASSUME NEW quote, NEW correction, Call(n, correction, quote),
             pc[n] \in {"admitted", "calling"}
      PROVE  Live(n) /\ NodeMoves(n)
  BY <1>2 DEF Call, NodeMoves, Engaged, Live, TypeInv, TypeOK
<1>3. CASE BlockNode(n)
  <2>1. ~Engaged(n)' \/ Engaged(n)
    BY <1>3 DEF BlockNode, MayStart, Engaged, TypeInv, TypeOK
  <2> QED
    BY <1>3, <2>1 DEF BlockNode, MayStart, NodeMoves, Live, TypeInv, TypeOK
<1>4. CASE StartNode(n)
  BY <1>4 DEF StartNode, MayStart, NodeMoves, Live, TypeInv, TypeOK
<1>5. CASE EchoAnswers(n) \/ ReplyValid(n) \/ ReplyExhausted(n)
  BY <1>1, <1>5 DEF EchoAnswers, ReplyValid, ReplyExhausted
<1>6. CASE FirstCall(n) \/ ReplyInvalid(n)
  BY <1>1, <1>2, <1>6 DEF FirstCall, ReplyInvalid, CallRefused
<1>7. CASE NodeRaises(n)
  <2>1. pc'[n] = "raised" /\ \A m \in Node \ {n} :
          pc'[m] = pc[m] \/ (pc[m] = "queued" /\ pc'[m] = "admitted")
    BY <1>7, ReleasePoints DEF NodeRaises, PC
  <2> QED
    BY <1>7, <2>1 DEF NodeRaises, NodeMoves, Engaged, Live
<1> QED
  BY <1>3, <1>4, <1>5, <1>6, <1>7 DEF NodeStep

LEMMA NodeStepPlaces ==
  ASSUME NEW n \in Node, TypeInv, PlaceInv, NodeStep(n)
  PROVE  PlaceInv'
<1>1. Live(n) /\ NodeMoves(n)
  BY NodeStepMoves
<1>2. phase \in {"running", "raised"}
  <2>1. pc[n] \notin {"idle", "done"}
    BY <1>1 DEF Live
  <2>2. phase \notin {"created", "tools", "rejected"}
    BY <2>1, GraphAssumption DEF PlaceInv, BeforeTheGraph, TypeInv, LevelsAhead
  <2>3. phase # "returned"
    BY <2>1 DEF PlaceInv, AllReturned
  <2> QED
    BY <2>2, <2>3 DEF TypeInv, TypeOK
<1>3. phase' \in {"running", "raised"} /\ (phase' = "running" => phase = "running")
  BY <1>1, <1>2 DEF NodeMoves
<1>4. phase = "running" => Level[n] = level
  <2>1. pc[n] \notin {"idle", "done"}
    BY <1>1 DEF Live
  <2>2. Level[n] \in Int /\ level \in Int
    BY GraphAssumption DEF TypeInv, TypeOK
  <2> QED
    BY <2>1, <2>2 DEF PlaceInv, LevelsBehind, TypeInv, LevelsAhead
<1>5. StatesAreFinal'
  <2> SUFFICES ASSUME NEW m \in Node, states'[m] # "NONE" \/ m \in outputs'
               PROVE  pc'[m] = "done"
    BY DEF StatesAreFinal
  <2>1. CASE m = n
    BY <1>1, <2>1 DEF PlaceInv, StatesAreFinal, NodeMoves, Live
  <2>2. CASE m # n
    BY <1>1, <2>2 DEF PlaceInv, StatesAreFinal, NodeMoves
  <2> QED
    BY <2>1, <2>2
<1>6. DependencyOrder'
  <2> SUFFICES ASSUME NEW m \in Node, Engaged(m)', NEW d \in DependsOn[m]
               PROVE  states'[d] \in {"COMPLETE", "SYNTHETIC"}
    BY DEF DependencyOrder, Engaged
  <2>1. d \in Node
    BY GraphAssumption
  <2>2. Engaged(m) \/ DependenciesMet(m)
    BY <1>1 DEF NodeMoves, Engaged
  <2>3. states[d] \in {"COMPLETE", "SYNTHETIC"}
    BY <2>2 DEF PlaceInv, DependencyOrder, Engaged, DependenciesMet, Successful
  <2>4. d # n
    BY <1>1, <2>1, <2>3 DEF PlaceInv, StatesAreFinal, Live
  <2> QED
    BY <1>1, <2>1, <2>3, <2>4 DEF NodeMoves
<1>7. LevelsBehind'
  <2> SUFFICES ASSUME phase' = "running", NEW m \in Node, Level[m] < level
               PROVE  pc'[m] = "done"
    BY <1>1 DEF LevelsBehind, NodeMoves
  <2>1. m # n
    BY <1>3, <1>4 DEF TypeInv, TypeOK
  <2>2. pc[m] = "done"
    BY <1>3 DEF PlaceInv, LevelsBehind
  <2> QED
    BY <1>1, <2>1, <2>2 DEF NodeMoves
<1>8. SnapshotIsEarlierLevels'
  <2> SUFFICES ASSUME phase' = "running"
               PROVE  shared' = {m \in outputs' : Level[m] < level'}
    BY <1>3 DEF SnapshotIsEarlierLevels
  <2>1. shared = {m \in outputs : Level[m] < level}
    BY <1>3 DEF PlaceInv, SnapshotIsEarlierLevels
  <2>2. outputs \subseteq Node /\ outputs' \subseteq Node
    BY NodeStepType DEF TypeInv, TypeOK
  <2>3. ~(Level[n] < level)
    BY <1>3, <1>4 DEF TypeInv, TypeOK
  <2> QED
    BY <1>1, <2>1, <2>2, <2>3 DEF NodeMoves
<1> QED
  BY <1>3, <1>5, <1>6, <1>7, <1>8
  DEF PlaceInv, BeforeTheGraph, AllReturned, ReturnedHandoffsSettled

LEMMA PlaceInit == Init => PlaceInv
<1> SUFFICES ASSUME Init PROVE PlaceInv
  OBVIOUS
<1>1. \A n \in Node : ~Engaged(n)
  BY DEF Init, Engaged
<1> QED
  BY <1>1 DEF Init, PlaceInv, BeforeTheGraph, LevelsBehind, AllReturned, StatesAreFinal,
              DependencyOrder, Engaged, SnapshotIsEarlierLevels, ReturnedHandoffsSettled

\* A step that leaves tasks, results and level alone can only disturb what is
\* said of the phase.
LEMMA FramePlaces ==
  ASSUME PlaceInv, UNCHANGED <<level, shared, pc, attempts, states, outputs>>,
         phase' = phase, handoff' = handoff
  PROVE  PlaceInv'
BY DEF PlaceInv, BeforeTheGraph, LevelsBehind, AllReturned, StatesAreFinal,
       DependencyOrder, SnapshotIsEarlierLevels, ReturnedHandoffsSettled

LEMMA PlaceStep == TypeInv /\ PlaceInv /\ [Next]_vars => PlaceInv'
<1> SUFFICES ASSUME TypeInv, PlaceInv, [Next]_vars PROVE PlaceInv'
  OBVIOUS
<1>1. CASE ValidateGraph
  BY <1>1 DEF ValidateGraph, PlaceInv, BeforeTheGraph, LevelsBehind, AllReturned,
              StatesAreFinal, DependencyOrder, SnapshotIsEarlierLevels, ReturnedHandoffsSettled
<1>2. CASE DispatchTools
  <2>1. level = 0 /\ outputs = {} /\ shared = {}
    BY <1>2 DEF DispatchTools, PlaceInv, BeforeTheGraph
  <2>2. \A n \in Node : ~(Level[n] < 0)
    BY GraphAssumption
  <2> QED
    BY <1>2, <2>1, <2>2 DEF DispatchTools, PlaceInv, BeforeTheGraph, LevelsBehind, AllReturned,
       StatesAreFinal, DependencyOrder, SnapshotIsEarlierLevels, ReturnedHandoffsSettled
<1>3. CASE BeginLevel
  <2>1. /\ level \in Nat /\ level' = level + 1 /\ shared' = outputs /\ phase' = "running"
        /\ UNCHANGED <<attempts, states, outputs, handoff>> /\ outputs \subseteq Node
    BY <1>3 DEF BeginLevel, TypeInv, TypeOK
  <2>2. \A n \in Node : pc'[n] = IF Level[n] = level + 1 THEN "scheduled" ELSE pc[n]
    BY <1>3 DEF BeginLevel
  <2>3. \A n \in Node : Level[n] <= level => pc[n] = "done"
    BY <1>3, <2>1, GraphAssumption DEF BeginLevel, LevelDone, PlaceInv, LevelsBehind
  <2>4. \A n \in Node : pc[n] # "idle" => Level[n] <= level
    BY <2>1, GraphAssumption DEF TypeInv, LevelsAhead
  <2>5. StatesAreFinal' /\ DependencyOrder'
    BY <2>1, <2>2, <2>4 DEF PlaceInv, StatesAreFinal, DependencyOrder
  <2>6. LevelsBehind'
    BY <2>1, <2>2, <2>3, GraphAssumption DEF LevelsBehind
  <2>7. SnapshotIsEarlierLevels'
    <3>1. \A n \in outputs : Level[n] < level + 1
      BY <2>1, <2>4, GraphAssumption DEF PlaceInv, StatesAreFinal
    <3> QED
      BY <2>1, <3>1 DEF SnapshotIsEarlierLevels
  <2> QED
    BY <2>1, <2>5, <2>6, <2>7
    DEF PlaceInv, BeforeTheGraph, AllReturned, ReturnedHandoffsSettled
<1>4. CASE FinalizeRun
  <2>1. \A n \in Node : pc[n] = "done"
    <3>1. level = LastLevel /\ LevelDone /\ phase = "running"
      BY <1>4 DEF FinalizeRun
    <3>2. \A n \in Node : Level[n] < level \/ Level[n] = level
      BY <3>1, GraphAssumption
    <3> QED
      BY <3>1, <3>2 DEF LevelDone, PlaceInv, LevelsBehind
  <2>2. /\ phase = "running" /\ phase' \in {"raised", "returned"}
        /\ UNCHANGED <<level, shared, pc, attempts, states, outputs>>
    BY <1>4 DEF FinalizeRun
  <2>3. ReturnedHandoffsSettled'
    BY <1>4 DEF FinalizeRun, Reconciled, ReturnedHandoffsSettled
  <2> QED
    BY <2>1, <2>2, <2>3 DEF PlaceInv, BeforeTheGraph, LevelsBehind, AllReturned,
       StatesAreFinal, DependencyOrder, SnapshotIsEarlierLevels
<1>5. CASE \E n \in Node : NodeStep(n)
  BY <1>5, NodeStepPlaces
<1>6. CASE CancelOrphans
  <2>1. \A n \in Node : pc'[n] = pc[n] \/ (Live(n) /\ pc'[n] = "cancelled")
    BY <1>6 DEF CancelOrphans
  <2>2. /\ phase = "raised" /\ phase' = "raised"
        /\ UNCHANGED <<level, shared, attempts, states, outputs>>
    BY <1>6 DEF CancelOrphans
  <2>3. StatesAreFinal' /\ DependencyOrder'
    BY <2>1, <2>2 DEF PlaceInv, StatesAreFinal, DependencyOrder, Live
  <2> QED
    BY <2>2, <2>3 DEF PlaceInv, BeforeTheGraph, LevelsBehind, AllReturned,
       SnapshotIsEarlierLevels, ReturnedHandoffsSettled
<1>7. CASE ClockStep
  BY <1>7, FramePlaces DEF ClockStep, runVars
<1>8. CASE Stopped \/ UNCHANGED vars
  BY <1>8, FramePlaces DEF Stopped, vars
<1> QED
  BY <1>1, <1>2, <1>3, <1>4, <1>5, <1>6, <1>7, <1>8 DEF Next, RunStep

THEOREM PlaceInvariant == Spec => [](TypeInv /\ PlaceInv)
<1>1. Init => TypeInv /\ PlaceInv
  BY TypeInit, PlaceInit
<1>2. TypeInv /\ PlaceInv /\ [Next]_vars => TypeInv' /\ PlaceInv'
  BY TypeStep, PlaceStep
<1> QED
  BY <1>1, <1>2, PTL DEF Spec

\* Nothing below a failed or blocked node is admitted, called or answered, in
\* any graph and in any order of answers.
THEOREM DependencyOrderHolds == Spec => []DependencyOrder
<1>1. PlaceInv => DependencyOrder
  BY DEF PlaceInv
<1> QED
  BY <1>1, PlaceInvariant, PTL

\* The prior outputs of a level are those of the levels before it.
THEOREM SnapshotHolds == Spec => []SnapshotIsEarlierLevels
<1>1. PlaceInv => SnapshotIsEarlierLevels
  BY DEF PlaceInv
<1> QED
  BY <1>1, PlaceInvariant, PTL

\* A run that returns leaves no handoff pending, the risk escalation included.
THEOREM ReturnedRunsSettleHandoffs == Spec => []ReturnedHandoffsSettled
<1>1. PlaceInv => ReturnedHandoffsSettled
  BY DEF PlaceInv
<1> QED
  BY <1>1, PlaceInvariant, PTL

-----------------------------------------------------------------------------
(* COMPLETE.  When the run is finalized nothing of its past is looked at but *)
(* the states and the handoffs; that they were earned has to be kept from    *)
(* the start: reservations are counted once, an answer follows a call, and   *)
(* a node that was let in was given its handoffs.                            *)

Admitted(n) == pc[n] \in {"queued", "admitted", "calling"} \/ states[n] \in Successful
Paid == {n \in Node : Admitted(n)}
Begun == {n \in Node : pc[n] \notin {"idle", "scheduled"}}

NodesCounted ==
  /\ Cardinality(Paid) <= usage.nodes
  /\ usage.nodes <= Cardinality(Begun)

CallsBehind == \A n \in Node : pc[n] = "calling" \/ states[n] = "COMPLETE" => attempts[n] > 0

HandoffsGiven == \A e \in Edge : Admitted(e[2]) => handoff[e] # "NONE"

StatusIsLast ==
  status \in {"COMPLETE", "PARTIAL", "FAILED"} =>
    phase \in {"raised", "returned"} /\ \A n \in Node : pc[n] = "done"

EarnedInv ==
  /\ NodesCounted
  /\ CallsBehind
  /\ HandoffsGiven
  /\ StatusIsLast
  /\ CompleteIsEarned

LEMMA EdgeFacts ==
  ASSUME NEW e \in Edge
  PROVE  e \in Handoff /\ e # Risk /\ e[2] \in Node /\ Target(e) = e[2]
BY RunAssumption DEF Edge, Handoff, Target

LEMMA CountsFinite ==
  /\ Cardinality(Paid) \in Nat /\ Cardinality(Begun) \in Nat
  /\ IsFiniteSet(Paid) /\ IsFiniteSet(Begun)
  /\ Cardinality(Paid) <= Cardinality(Node) /\ Cardinality(Begun) <= Cardinality(Node)
<1>1. Paid \subseteq Node /\ Begun \subseteq Node
  BY DEF Paid, Begun
<1> QED
  BY <1>1, GraphAssumption, FS_Subset, FS_CardinalityType

\* Fewer that were let in and more that have begun, without a new reservation.
LEMMA CountsFrame ==
  ASSUME TypeInv, NodesCounted, usage'.nodes = usage.nodes,
         Paid' \subseteq Paid, Begun \subseteq Begun', Begun' \subseteq Node
  PROVE  NodesCounted'
<1>1. usage.nodes \in Nat
  BY DEF TypeInv, TypeOK, BudgetTypeOK, Usage
<1>2. Cardinality(Paid') <= Cardinality(Paid) /\ Cardinality(Paid') \in Nat
  BY CountsFinite, FS_Subset, FS_CardinalityType
<1>3. Cardinality(Begun) <= Cardinality(Begun') /\ Cardinality(Begun') \in Nat
  <2>1. IsFiniteSet(Begun')
    BY GraphAssumption, FS_Subset
  <2> QED
    BY <2>1, FS_Subset, FS_CardinalityType
<1> QED
  BY <1>1, <1>2, <1>3, CountsFinite DEF NodesCounted

LEMMA CompleteInit == Init => EarnedInv
<1> SUFFICES ASSUME Init PROVE EarnedInv
  OBVIOUS
<1>1. Paid = {} /\ Begun = {} /\ \A n \in Node : ~Admitted(n)
  BY DEF Init, Paid, Begun, Admitted, Successful
<1>2. NodesCounted
  BY <1>1, FS_EmptySet DEF Init, BudgetInit, NodesCounted
<1> QED
  BY <1>1, <1>2, EdgeFacts
  DEF Init, EarnedInv, CallsBehind, HandoffsGiven, StatusIsLast, CompleteIsEarned

\* A node whose task goes on has no state yet, and no status was stored.
LEMMA LiveNode ==
  ASSUME NEW n \in Node, TypeInv, PlaceInv, EarnedInv, Live(n)
  PROVE  states[n] = "NONE" /\ status \in {"PLANNED", "RUNNING"}
BY DEF Live, PlaceInv, StatesAreFinal, EarnedInv, StatusIsLast, TypeInv, TypeOK

\* What a step of n leaves of the others.
LEMMA OthersKept ==
  ASSUME NEW n \in Node, NodeMoves(n), NEW m \in Node \ {n}
  PROVE  /\ Admitted(m)' <=> Admitted(m)
         /\ m \in Begun' <=> m \in Begun
         /\ pc'[m] = "calling" => pc[m] = "calling"
         /\ attempts'[m] = attempts[m] /\ states'[m] = states[m]
BY DEF NodeMoves, Admitted, Begun

\* Leaving the executor, with a result or by an exception.
LEMMA LeaveEarned ==
  ASSUME NEW n \in Node, TypeInv, TypeInv', PlaceInv, EarnedInv, NodeMoves(n),
         pc[n] \in {"admitted", "calling"}, pc'[n] \in {"done", "raised"},
         usage' = usage, attempts' = attempts, status' = status,
         states'[n] = "COMPLETE" => pc[n] = "calling",
         \A h \in Handoff : handoff[h] # "NONE" => handoff'[h] # "NONE"
  PROVE  EarnedInv'
<1>1. states[n] = "NONE" /\ status \in {"PLANNED", "RUNNING"}
  BY LiveNode DEF Live
<1>2. NodesCounted'
  <2>1. Admitted(n) /\ n \in Begun /\ n \in Begun'
    BY DEF Admitted, Begun
  <2>2. Paid' \subseteq Paid /\ Begun \subseteq Begun' /\ Begun' \subseteq Node
    BY <2>1, OthersKept DEF Paid, Begun
  <2> QED
    BY <2>2, CountsFrame DEF EarnedInv
<1>3. CallsBehind'
  <2> SUFFICES ASSUME NEW m \in Node, pc'[m] = "calling" \/ states'[m] = "COMPLETE"
               PROVE  attempts'[m] > 0
    BY DEF CallsBehind
  <2> QED
    BY OthersKept DEF EarnedInv, CallsBehind
<1>4. HandoffsGiven'
  <2> SUFFICES ASSUME NEW e \in Edge, Admitted(e[2])'
               PROVE  handoff'[e] # "NONE"
    BY DEF HandoffsGiven, Edge
  <2>1. Admitted(e[2])
    BY OthersKept, EdgeFacts DEF Admitted
  <2> QED
    BY <2>1, EdgeFacts DEF EarnedInv, HandoffsGiven
<1>5. StatusIsLast' /\ CompleteIsEarned'
  BY <1>1 DEF StatusIsLast, CompleteIsEarned
<1> QED
  BY <1>2, <1>3, <1>4, <1>5 DEF EarnedInv

LEMMA FinishEarned ==
  ASSUME NEW n \in Node, NEW state, NEW ack \in [Addressed(n) -> Acknowledgement],
         TypeInv, TypeInv', PlaceInv, EarnedInv, NodeMoves(n),
         pc[n] \in {"admitted", "calling"}, FinishNode(n, state, ack),
         usage' = usage, attempts' = attempts,
         state = "COMPLETE" => pc[n] = "calling"
  PROVE  EarnedInv'
<1>1. pc'[n] = "done"
  BY ReleasePoints DEF FinishNode, PC
<1>2. states'[n] = state /\ status' = status
  BY DEF FinishNode, TypeInv, TypeOK
<1>3. \A h \in Handoff : handoff[h] # "NONE" => handoff'[h] # "NONE"
  BY DEF FinishNode, Acknowledgement
<1> QED
  BY <1>1, <1>2, <1>3, LeaveEarned

LEMMA CallEarned ==
  ASSUME NEW n \in Node, NEW correction \in BOOLEAN, NEW quote \in Quotes,
         TypeInv, PlaceInv, EarnedInv, NodeMoves(n),
         pc[n] \in {"admitted", "calling"}, Call(n, correction, quote)
  PROVE  EarnedInv'
<1>1. states[n] = "NONE" /\ status \in {"PLANNED", "RUNNING"}
  BY LiveNode DEF Live
<1>2. /\ pc' = [pc EXCEPT ![n] = "calling"] /\ attempts' = [attempts EXCEPT ![n] = @ + 1]
      /\ UNCHANGED <<states, handoff, status>> /\ usage'.nodes = usage.nodes
  BY DEF Call, ReserveCall, TypeInv, TypeOK, BudgetTypeOK, Usage
<1>3. Paid' = Paid /\ Begun' = Begun /\ \A m \in Node : Admitted(m)' <=> Admitted(m)
  BY <1>2 DEF Paid, Begun, Admitted, TypeInv, TypeOK
<1>4. NodesCounted'
  BY <1>2, <1>3, CountsFrame DEF EarnedInv, Begun
<1>5. CallsBehind'
  BY <1>2 DEF CallsBehind, EarnedInv, TypeInv, TypeOK
<1>6. HandoffsGiven'
  BY <1>2, <1>3, EdgeFacts DEF HandoffsGiven, EarnedInv
<1> QED
  BY <1>1, <1>2, <1>4, <1>5, <1>6 DEF EarnedInv, StatusIsLast, CompleteIsEarned

\* A node is let in: it is reserved and its handoffs are created at once.
LEMMA StartEarned ==
  ASSUME NEW n \in Node, TypeInv, PlaceInv, EarnedInv, NodeMoves(n), StartNode(n)
  PROVE  EarnedInv'
<1>1. states[n] = "NONE" /\ status \in {"PLANNED", "RUNNING"}
  BY LiveNode DEF StartNode, MayStart, Live
<1>2. /\ pc[n] = "scheduled" /\ pc'[n] \in {"queued", "admitted"}
      /\ UNCHANGED <<attempts, states, status>> /\ usage'.nodes = usage.nodes + 1
      /\ \A h \in Handoff :
           handoff'[h] = IF h \in Edge /\ Target(h) = n THEN "CREATED" ELSE handoff[h]
  BY DEF StartNode, MayStart, ReserveNode, TypeInv, TypeOK, BudgetTypeOK, Usage
<1>3. NodesCounted'
  <2>1. /\ n \notin Paid /\ Paid' = Paid \cup {n}
        /\ n \notin Begun /\ Begun' = Begun \cup {n}
    BY <1>1, <1>2, OthersKept DEF Paid, Begun, Admitted, Successful
  <2>2. /\ Cardinality(Paid') = Cardinality(Paid) + 1
        /\ Cardinality(Begun') = Cardinality(Begun) + 1
    BY <2>1, CountsFinite, FS_AddElement
  <2>3. usage.nodes \in Nat
    BY DEF TypeInv, TypeOK, BudgetTypeOK, Usage
  <2> QED
    BY <1>2, <2>2, <2>3, CountsFinite DEF EarnedInv, NodesCounted
<1>4. CallsBehind'
  BY <1>1, <1>2, OthersKept DEF EarnedInv, CallsBehind
<1>5. HandoffsGiven'
  <2> SUFFICES ASSUME NEW e \in Edge, Admitted(e[2])'
               PROVE  handoff'[e] # "NONE"
    BY DEF HandoffsGiven, Edge
  <2> QED
    BY <1>2, OthersKept, EdgeFacts DEF EarnedInv, HandoffsGiven
<1> QED
  BY <1>1, <1>2, <1>3, <1>4, <1>5 DEF EarnedInv, StatusIsLast, CompleteIsEarned

LEMMA BlockEarned ==
  ASSUME NEW n \in Node, TypeInv, PlaceInv, EarnedInv, NodeMoves(n), BlockNode(n)
  PROVE  EarnedInv'
<1>1. states[n] = "NONE" /\ status \in {"PLANNED", "RUNNING"}
  BY LiveNode DEF BlockNode, MayStart, Live
<1>2. /\ pc[n] = "scheduled" /\ pc'[n] = "done" /\ states'[n] = "BLOCKED"
      /\ UNCHANGED <<usage, attempts, handoff, status>>
  BY DEF BlockNode, MayStart, TypeInv, TypeOK
<1>3. ~Admitted(n) /\ ~Admitted(n)'
  BY <1>1, <1>2 DEF Admitted, Successful
<1>4. NodesCounted'
  <2>1. Paid' = Paid /\ Begun \subseteq Begun' /\ Begun' \subseteq Node
    BY <1>2, <1>3, OthersKept DEF Paid, Begun
  <2> QED
    BY <1>2, <2>1, CountsFrame DEF EarnedInv
<1>5. CallsBehind'
  BY <1>2, OthersKept DEF EarnedInv, CallsBehind
<1>6. HandoffsGiven'
  <2> SUFFICES ASSUME NEW e \in Edge, Admitted(e[2])'
               PROVE  handoff'[e] # "NONE"
    BY DEF HandoffsGiven, Edge
  <2> QED
    BY <1>2, <1>3, OthersKept, EdgeFacts DEF EarnedInv, HandoffsGiven
<1> QED
  BY <1>1, <1>2, <1>4, <1>5, <1>6 DEF EarnedInv, StatusIsLast, CompleteIsEarned

LEMMA NodeStepEarned ==
  ASSUME NEW n \in Node, TypeInv, PlaceInv, EarnedInv, NodeStep(n)
  PROVE  EarnedInv'
<1>1. NodeMoves(n) /\ TypeInv'
  BY NodeStepMoves, NodeStepType
<1>2. CASE BlockNode(n)
  BY <1>1, <1>2, BlockEarned
<1>3. CASE StartNode(n)
  BY <1>1, <1>3, StartEarned
<1>4. CASE EchoAnswers(n)
  BY <1>1, <1>4, FinishEarned, NoAckType DEF EchoAnswers
<1>5. ASSUME NEW quote \in Quotes, NEW correction \in BOOLEAN,
             pc[n] \in {"admitted", "calling"},
             Call(n, correction, quote) \/ CallRefused(n, correction, quote)
      PROVE  EarnedInv'
  BY <1>1, <1>5, CallEarned, FinishEarned, NoAckType DEF CallRefused
<1>6. CASE FirstCall(n) \/ ReplyInvalid(n)
  BY <1>5, <1>6 DEF FirstCall, ReplyInvalid
<1>7. CASE ReplyValid(n)
  BY <1>1, <1>7, FinishEarned DEF ReplyValid
<1>8. CASE ReplyExhausted(n)
  BY <1>1, <1>8, FinishEarned, NoAckType DEF ReplyExhausted
<1>9. CASE NodeRaises(n)
  <2>1. pc'[n] = "raised"
    BY <1>9, ReleasePoints DEF NodeRaises, PC
  <2>2. states[n] = "NONE"
    BY <1>9, LiveNode DEF NodeRaises, Live
  <2> QED
    BY <1>1, <1>9, <2>1, <2>2, LeaveEarned DEF NodeRaises
<1> QED
  BY <1>2, <1>3, <1>4, <1>6, <1>7, <1>8, <1>9 DEF NodeStep

\* The status that is stored: COMPLETE leaves no way out but the earned one.
LEMMA FinalizeEarned ==
  ASSUME TypeInv, PlaceInv, EarnedInv, FinalizeRun
  PROVE  EarnedInv'
<1>1. /\ phase' \in {"raised", "returned"} /\ handoff' = Reconciled
      /\ UNCHANGED <<usage, pc, attempts, states, toolFailed>>
  BY DEF FinalizeRun
<1>2. \A n \in Node : pc[n] = "done"
  <2>1. level = LastLevel /\ LevelDone /\ phase = "running"
    BY DEF FinalizeRun
  <2>2. \A n \in Node : Level[n] < level \/ Level[n] = level
    BY <2>1, GraphAssumption
  <2> QED
    BY <2>1, <2>2 DEF LevelDone, PlaceInv, LevelsBehind
<1>3. Paid' = Paid /\ Begun' = Begun /\ \A n \in Node : Admitted(n)' <=> Admitted(n)
  BY <1>1 DEF Paid, Begun, Admitted
<1>4. NodesCounted' /\ CallsBehind'
  BY <1>1, <1>3 DEF EarnedInv, NodesCounted, CallsBehind
<1>5. HandoffsGiven'
  <2>1. \A h \in Handoff : handoff[h] # "NONE" => Reconciled[h] # "NONE"
    BY DEF Reconciled
  <2> QED
    BY <1>1, <1>3, <2>1, EdgeFacts DEF EarnedInv, HandoffsGiven
<1>6. CompleteIsEarned'
  <2> SUFFICES ASSUME status' = "COMPLETE"
               PROVE  /\ \A n \in Node : states[n] = "COMPLETE" /\ attempts[n] > 0
                      /\ usage.nodes = Cardinality(Node)
                      /\ \A e \in Edge : Reconciled[e] = "CONSUMED"
                      /\ Reconciled[Risk] \in {"NONE", "CONSUMED"}
                      /\ ~toolFailed /\ ~CapacityExcluded
    BY <1>1 DEF CompleteIsEarned
  <2>1. /\ \A n \in Required : states[n] \in Successful
        /\ \A n \in Node \ Required : states[n] \in Successful
        /\ ~toolFailed /\ ~Unresolved /\ ~CapacityExcluded
        /\ \A n \in Node : states[n] # "SYNTHETIC"
    BY DEF FinalizeRun, WorkflowStatus
  <2>2. \A n \in Node : states[n] = "COMPLETE" /\ attempts[n] > 0
    BY <2>1, GraphAssumption DEF Successful, EarnedInv, CallsBehind
  <2>3. usage.nodes = Cardinality(Node)
    <3>1. Paid = Node /\ Begun = Node
      BY <1>2, <2>2 DEF Paid, Begun, Admitted, Successful
    <3>2. usage.nodes \in Nat
      BY DEF TypeInv, TypeOK, BudgetTypeOK, Usage
    <3> QED
      BY <3>1, <3>2, CountsFinite DEF EarnedInv, NodesCounted
  <2>4. \A h \in Handoff : Reconciled[h] # "BLOCKED" /\ handoff[h] # "CREATED"
    BY <2>1 DEF Unresolved, Reconciled
  <2>5. \A h \in Handoff : Reconciled[h] \in {"NONE", "CONSUMED"}
    BY <2>4 DEF Reconciled, TypeInv, TypeOK
  <2>6. \A e \in Edge : handoff[e] # "NONE"
    BY <2>2, EdgeFacts DEF EarnedInv, HandoffsGiven, Admitted, Successful
  <2>7. \A e \in Edge : Reconciled[e] = "CONSUMED"
    BY <2>5, <2>6, EdgeFacts DEF Reconciled
  <2> QED
    BY <2>1, <2>2, <2>3, <2>5, <2>7 DEF Handoff
<1>7. StatusIsLast'
  BY <1>1, <1>2 DEF StatusIsLast
<1> QED
  BY <1>4, <1>5, <1>6, <1>7 DEF EarnedInv

LEMMA CompleteStep == TypeInv /\ PlaceInv /\ EarnedInv /\ [Next]_vars => EarnedInv'
<1> SUFFICES ASSUME TypeInv, PlaceInv, EarnedInv, [Next]_vars PROVE EarnedInv'
  OBVIOUS
<1>1. CASE \E n \in Node : NodeStep(n)
  BY <1>1, NodeStepEarned
<1>2. CASE FinalizeRun
  BY <1>2, FinalizeEarned
<1>3. CASE ValidateGraph \/ DispatchTools
  <2>1. phase \in {"created", "tools"} /\ status \in {"PLANNED", "RUNNING"}
    BY <1>3 DEF ValidateGraph, DispatchTools, EarnedInv, StatusIsLast, TypeInv, TypeOK
  <2>2. /\ status' \in {"PLANNED", "RUNNING"} /\ UNCHANGED <<usage, pc, attempts, states>>
        /\ \A e \in Edge : handoff'[e] = handoff[e]
    BY <1>3, <2>1, EdgeFacts DEF ValidateGraph, DispatchTools, TypeInv, TypeOK
  <2>3. \A n \in Node : Admitted(n)' <=> Admitted(n)
    BY <2>2 DEF Admitted
  <2> QED
    BY <2>2, <2>3, EdgeFacts DEF EarnedInv, NodesCounted, Paid, Begun, CallsBehind,
       HandoffsGiven, StatusIsLast, CompleteIsEarned, Admitted
<1>4. CASE BeginLevel
  <2>1. /\ phase = "running" /\ level \in Nat
        /\ UNCHANGED <<usage, attempts, states, handoff, status>>
        /\ \A n \in Node : pc'[n] = IF Level[n] = level + 1 THEN "scheduled" ELSE pc[n]
        /\ status \in {"PLANNED", "RUNNING"}
    BY <1>4 DEF BeginLevel, EarnedInv, StatusIsLast, TypeInv, TypeOK
  <2>2. \A n \in Node : pc'[n] # pc[n] => pc[n] = "idle" /\ pc'[n] = "scheduled"
    BY <2>1, GraphAssumption DEF TypeInv, LevelsAhead
  <2>3. Paid' = Paid /\ Begun' = Begun /\ \A n \in Node : Admitted(n)' <=> Admitted(n)
    BY <2>1, <2>2 DEF Paid, Begun, Admitted
  <2>4. NodesCounted' /\ CallsBehind' /\ HandoffsGiven'
    BY <2>1, <2>2, <2>3, EdgeFacts DEF EarnedInv, NodesCounted, CallsBehind, HandoffsGiven
  <2> QED
    BY <2>1, <2>4 DEF EarnedInv, StatusIsLast, CompleteIsEarned
<1>5. CASE CancelOrphans
  <2>1. /\ UNCHANGED <<usage, attempts, states, handoff, status>>
        /\ \A n \in Node : pc'[n] = IF Live(n) THEN "cancelled" ELSE pc[n]
        /\ status \in {"PLANNED", "RUNNING"}
    BY <1>5 DEF CancelOrphans, EarnedInv, StatusIsLast, Live, TypeInv, TypeOK
  <2>2. \A n \in Node : Admitted(n)' => Admitted(n)
    BY <2>1 DEF Admitted
  <2>3. Paid' \subseteq Paid /\ Begun \subseteq Begun' /\ Begun' \subseteq Node
    BY <2>1, <2>2 DEF Paid, Begun
  <2>4. NodesCounted' /\ CallsBehind' /\ HandoffsGiven'
    BY <2>1, <2>2, <2>3, CountsFrame, EdgeFacts DEF EarnedInv, CallsBehind, HandoffsGiven
  <2> QED
    BY <2>1, <2>4 DEF EarnedInv, StatusIsLast, CompleteIsEarned
<1>6. CASE ClockStep \/ Stopped \/ UNCHANGED vars
  <2>1. UNCHANGED <<usage, phase, pc, attempts, states, handoff, toolFailed, status>>
    BY <1>6 DEF ClockStep, DeadlinePasses, Stopped, runVars, vars
  <2>2. Paid' = Paid /\ Begun' = Begun /\ \A n \in Node : Admitted(n)' <=> Admitted(n)
    BY <2>1 DEF Paid, Begun, Admitted
  <2>3. NodesCounted' /\ CallsBehind' /\ HandoffsGiven'
    BY <2>1, <2>2, EdgeFacts DEF EarnedInv, NodesCounted, CallsBehind, HandoffsGiven
  <2> QED
    BY <2>1, <2>3 DEF EarnedInv, StatusIsLast, CompleteIsEarned
<1> QED
  BY <1>1, <1>2, <1>3, <1>4, <1>5, <1>6 DEF Next, RunStep

\* No interleaving of starts, corrections, raises and orphans brings a run to
\* COMPLETE with a node that no provider answered, a node that was not paid for,
\* a handoff that its receiver did not consume, or a failure left out.
THEOREM CompleteIsAlwaysEarned == Spec => []CompleteIsEarned
<1>1. Init => TypeInv /\ PlaceInv /\ EarnedInv
  BY TypeInit, PlaceInit, CompleteInit
<1>2. TypeInv /\ PlaceInv /\ EarnedInv /\ [Next]_vars => TypeInv' /\ PlaceInv' /\ EarnedInv'
  BY TypeStep, PlaceStep, CompleteStep
<1>3. EarnedInv => CompleteIsEarned
  BY DEF EarnedInv
<1> QED
  BY <1>1, <1>2, <1>3, PTL DEF Spec

=============================================================================
