----------------------------- MODULE MCServices -----------------------------
(***************************************************************************)
(* What guards one file, one set of sockets, one tree of processes or one   *)
(* attempt of a job, side by side.                                          *)
(* They share no state, so a behaviour runs one of them, chosen at the     *)
(* start, while the others rest: the run explores the sum of their         *)
(* behaviours, not the product.                                            *)
(***************************************************************************)
EXTENDS SessionMemory, HttpDeadline, BrowserEgress, BoundedProcess, Preparation, MCControls

VARIABLE active     \* the component of this behaviour

vars == <<active, memoryVars, deadlineVars, egressVars, processVars, prepVars, controlVars>>

Init ==
    /\ active \in {"memory", "deadline", "egress", "process", "preparation", "controls"}
    /\ MemoryInit /\ DeadlineInit /\ EgressInit /\ ProcessInit /\ PreparationInit
    /\ active # "controls" => evidence = Contract /\ procedure = "rollback" /\ privileged = TRUE
    /\ ControlsInit
    /\ active # "process" => platform = "posix"

Memory == active = "memory" /\ MemoryNext /\ UNCHANGED <<active, deadlineVars, egressVars, processVars, prepVars, controlVars>>
Deadline == active = "deadline" /\ DeadlineNext /\ UNCHANGED <<active, memoryVars, egressVars, processVars, prepVars, controlVars>>
Egress == active = "egress" /\ EgressNext /\ UNCHANGED <<active, memoryVars, deadlineVars, processVars, prepVars, controlVars>>
Process == active = "process" /\ ProcessNext /\ UNCHANGED <<active, memoryVars, deadlineVars, egressVars, prepVars, controlVars>>
Prepare ==
    active = "preparation" /\ PreparationNext /\ UNCHANGED <<active, memoryVars, deadlineVars, egressVars, processVars, controlVars>>

Control ==
    active = "controls" /\ ControlsNext
    /\ UNCHANGED <<active, memoryVars, deadlineVars, egressVars, processVars, prepVars>>

Next == Memory \/ Deadline \/ Egress \/ Process \/ Prepare \/ Control

\* DeadlineFairness, EgressFairness and ProcessFairness of the one that runs.
Fairness ==
    /\ WF_deadlineVars(active = "deadline" /\ CallerStep)
    /\ WF_deadlineVars(active = "deadline" /\ TimePasses)
    /\ WF_deadlineVars(active = "deadline" /\ TimerFires)
    /\ WF_deadlineVars(active = "deadline" /\ TimerCloses)
    /\ WF_egressVars(active = "egress" /\ EgressDeadline)
    /\ WF_egressVars(active = "egress" /\ \E h \in Handlers : DueStep(h))
    /\ WF_processVars(active = "process" /\ CallStep)
    /\ WF_processVars(active = "process" /\ DeadlinePasses)
    /\ WF_processVars(active = "process" /\ CleanupDeadlinePasses)

Spec == Init /\ [][Next]_vars /\ Fairness

\* What is started ends: a network operation with a result or an error, whatever
\* its peers and its timer do (http_deadline.py:42-101); a browser's egress with
\* every slot free and every connection closed after its exit
\* (browser_proxy.py:284-320); a child process's call with an answer, whatever
\* its tree does (publication_process.py:67, 89-109, 135-150).
ServicesEnd ==
    <>[]/\ active = "deadline" => OperationOver
        /\ active = "egress" => EgressAtRest
        /\ active = "process" => callPc = "done"

-----------------------------------------------------------------------------
MCSessions == {"a", "b"}
MCChunkSizes == {1}
=============================================================================
