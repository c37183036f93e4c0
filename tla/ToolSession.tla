---------------------------- MODULE ToolSession -----------------------------
(***************************************************************************)
(* One command: the tools are dispatched, then the nodes ask the model     *)
(* (src/runtime/workflow_runner.py:54, src/runtime/executor.py:143), then  *)
(* asyncio.run closes the loop and waits for the threads of the pool       *)
(* (src/runtime/orchestrator.py:213).  Dispatcher and model client share   *)
(* the pool: an adapter that never returns keeps its worker.               *)
(***************************************************************************)
EXTENDS ToolDispatcher, LLMClient

ASSUME SessionAssumption == Calls \cap Requests = {}

VARIABLE phase  \* "tools", "model", "closing" or "exited"

vars == <<poolVars, dispatchVars, clientVars, phase>>

TypeOK ==
    /\ PoolTypeOK /\ DispatchTypeOK /\ ClientTypeOK
    /\ phase \in {"tools", "model", "closing", "exited"}

Init == PoolInit /\ DispatchInit /\ ClientInit /\ phase = "tools"

DispatcherActs ==
    /\ \/ \E r \in Requests : Dispatch(r) \/ Deliver(r) \/ DeadlinePasses(r)
       \/ CancelBatch
    /\ UNCHANGED <<clientVars, phase>>

AdapterActs ==
    /\ \E r \in Requests : AdapterReturns(r) \/ AdapterHangs(r)
    /\ UNCHANGED <<clientVars, phase>>

WorkerTakes == Take /\ UNCHANGED <<dispatchVars, clientVars, phase>>

ToolsDone == ReturnResults /\ phase' = "model" /\ UNCHANGED clientVars

ClientActs(c) ==
    /\ \/ phase = "model" /\ (Complete(c) \/ DeliverReply(c))
       \/ Attempt(c)
    /\ UNCHANGED <<dispatchVars, phase>>

\* The coroutine returns or raises; asyncio.run cancels the tasks that are left.
Unsettled == {c \in Calls : call[c] \in {"idle", "waiting"}}
CloseLoop ==
    /\ \/ phase = "tools" /\ batch = "cancelled"
       \/ phase = "model" /\ (Unsettled = {} \/ \E c \in Calls : call[c] = "raised")
    /\ phase' = "closing"
    /\ call' = [c \in Calls |-> IF c \in Unsettled THEN "cancelled" ELSE call[c]]
    /\ Cancel(Unsettled)
    /\ UNCHANGED <<dispatchVars, attempts, reply>>

\* Shutting the executor down and leaving the interpreter join every worker.
Exit ==
    /\ phase = "closing"
    /\ queue = <<>> /\ Running = {}
    /\ phase' = "exited"
    /\ UNCHANGED <<poolVars, dispatchVars, clientVars>>

Next ==
    \/ DispatcherActs \/ AdapterActs \/ WorkerTakes \/ ToolsDone
    \/ \E c \in Calls : ClientActs(c)
    \/ CloseLoop \/ Exit

\* The loop runs what is ready and fires its timers, workers take jobs, adapters
\* that do not hang return, and an attempt ends (timeout=120 on the socket).
Fairness ==
    /\ WF_vars(WorkerTakes) /\ WF_vars(ToolsDone) /\ WF_vars(CloseLoop) /\ WF_vars(Exit)
    /\ \A r \in Requests :
         /\ WF_vars(DispatchStep(r) /\ UNCHANGED <<clientVars, phase>>)
         /\ WF_vars(DeadlinePasses(r) /\ UNCHANGED <<clientVars, phase>>)
         /\ WF_vars(AdapterReturns(r) /\ UNCHANGED <<clientVars, phase>>)
    /\ \A c \in Calls : WF_vars(ClientActs(c))

Spec == Init /\ [][Next]_vars /\ Fairness
-----------------------------------------------------------------------------
Hung == {r \in hanging : job[r] = "running"}

\* A completion is answered, raised or cancelled, after at most three requests,
\* unless adapters that were abandoned at their deadline occupy every worker:
\* complete has no deadline of its own while it waits for a thread.
CallsAreServed ==
    \A c \in Calls : call[c] = "waiting" ~> \/ call[c] # "waiting"
                                            \/ Cardinality(Hung) = PoolSize

\* The process ends unless an adapter that has been started hangs: one whose
\* request was refused, or abandoned while it was queued, does not hold it up.
ExitsUnlessHung == <>(phase = "exited" \/ Hung # {})

\* Both, of every session with its tools and its completion (tools.py:302-381,
\* llm.py:176-203).
SessionWindsUp == CallsAreServed /\ ExitsUnlessHung
=============================================================================
