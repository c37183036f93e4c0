------------------------------- MODULE RunBudget -------------------------------
(***************************************************************************)
(* The single-use budget of one workflow run (src/runtime/run_budget.py)    *)
(* and the ceilings it enforces (src/runtime/execution_limits.py).          *)
(*                                                                          *)
(* A reservation either happens completely, before the work it pays for, or *)
(* raises BudgetExceeded and changes nothing.  The budget has no other      *)
(* entry point, so its next-state relation is the promise every user of it  *)
(* makes: WorkflowRunner extends this module and its steps are budget steps *)
(* or leave the budget alone.                                               *)
(***************************************************************************)
EXTENDS Integers

CONSTANTS
  MaxNodes,          \* ExecutionLimits.max_nodes
  MaxCalls,          \* ExecutionLimits.max_llm_calls
  MaxCorrections,    \* ExecutionLimits.max_correction_attempts
  CostCeiling,       \* ExecutionLimits.max_estimated_cost, or NoCeiling
  NoCeiling,
  Quotes,            \* what the client's estimator may answer
  Unknown,           \* no estimator: the quote, and then the total, is None
  Invalid            \* the estimator raises, or its answer is not a cost

ASSUME LimitsAssumption ==
  /\ MaxNodes \in Nat \ {0}
  /\ MaxCalls \in Nat \ {0}
  /\ MaxCorrections \in Nat
  /\ CostCeiling \in Nat \cup {NoCeiling}

ASSUME QuotesAssumption ==
  /\ Quotes \subseteq Nat \cup {Unknown, Invalid}
  /\ NoCeiling \notin Nat
  /\ Unknown \notin Nat
  /\ Invalid \notin Nat
  /\ Unknown # Invalid

VARIABLES
  usage,   \* RunBudget.usage
  late     \* time.monotonic() - started > max_runtime_seconds

budgetVars == <<usage, late>>

Usage == [nodes : Nat, calls : Nat, corrections : Nat, cost : Nat \cup {Unknown}]

BudgetInit ==
  /\ usage = [nodes |-> 0, calls |-> 0, corrections |-> 0, cost |-> 0]
  /\ late = FALSE

(***************************************************************************)
(* _cost_total: an absent quote is unknown, not free.  It is refused under  *)
(* a ceiling and otherwise makes the total unknown for the rest of the run. *)
(***************************************************************************)
CostTotal(quote) ==
  IF quote = Unknown \/ usage.cost = Unknown THEN Unknown ELSE usage.cost + quote

CostAllowed(quote) ==
  /\ quote # Invalid
  /\ CostCeiling # NoCeiling =>
       /\ CostTotal(quote) # Unknown
       /\ CostTotal(quote) <= CostCeiling

CanReserveNode == ~late /\ usage.nodes + 1 <= MaxNodes

ReserveNode ==
  /\ CanReserveNode
  /\ usage' = [usage EXCEPT !.nodes = @ + 1]
  /\ UNCHANGED late

CanReserveCall(correction, quote) ==
  /\ ~late
  /\ usage.calls + 1 <= MaxCalls
  /\ correction => usage.corrections + 1 <= MaxCorrections
  /\ CostAllowed(quote)

ReserveCall(correction, quote) ==
  /\ CanReserveCall(correction, quote)
  /\ usage' = [usage EXCEPT !.calls = @ + 1,
                            !.corrections = IF correction THEN @ + 1 ELSE @,
                            !.cost = CostTotal(quote)]
  /\ UNCHANGED late

\* The clock passes max_runtime_seconds: every later reservation and every
\* later snapshot raises.
DeadlinePasses ==
  /\ ~late
  /\ late' = TRUE
  /\ UNCHANGED usage

BudgetNext ==
  \/ ReserveNode
  \/ \E correction \in BOOLEAN, quote \in Quotes : ReserveCall(correction, quote)
  \/ DeadlinePasses

BudgetSpec == BudgetInit /\ [][BudgetNext]_budgetVars

-----------------------------------------------------------------------------
BudgetTypeOK == usage \in Usage /\ late \in BOOLEAN

\* No execution ceiling can be passed, and a monetary ceiling is never paired
\* with a total nobody knows (run_budget.py:33-46, 72-97).
CeilingsHold ==
  /\ usage.nodes <= MaxNodes
  /\ usage.calls <= MaxCalls
  /\ usage.corrections <= MaxCorrections
  /\ usage.corrections <= usage.calls
  /\ CostCeiling # NoCeiling => usage.cost # Unknown /\ usage.cost <= CostCeiling

=============================================================================
