-------------------------- MODULE DispatchContract --------------------------
(***************************************************************************)
(* What ToolDispatcher.dispatch_many promises to the workflow: "one result *)
(* per request; one adapter failure never erases the others", whatever the *)
(* adapters and their threads do, and a required tool whose evidence is    *)
(* not available answers in one of REQUIRED_TOOL_FAILURE_STATES            *)
(* (src/runtime/tools.py:136, 379-381).                                    *)
(***************************************************************************)
CONSTANTS Requests,
          NoAnswer

VARIABLES evidence,  \* evidence state answered to each request
          required,  \* the requests the workflow requires
          batch      \* "open", "returned" or "cancelled"

contractVars == <<evidence, required, batch>>

FailureStates == {"BLOCKED", "INVALID", "MISSING"}
EvidenceStates == FailureStates \cup {"AVAILABLE", "PARTIAL"}

MayAnswer(r, e) == e \in EvidenceStates /\ (r \in required => e # "PARTIAL")

Init ==
    /\ evidence = [r \in Requests |-> NoAnswer]
    /\ required \in SUBSET Requests
    /\ batch = "open"

Answer(r) ==
    /\ batch = "open"
    /\ evidence[r] = NoAnswer
    /\ \E e \in EvidenceStates :
         /\ MayAnswer(r, e)
         /\ evidence' = [evidence EXCEPT ![r] = e]
    /\ UNCHANGED <<required, batch>>

Return ==
    /\ batch = "open"
    /\ \A r \in Requests : evidence[r] # NoAnswer
    /\ batch' = "returned"
    /\ UNCHANGED <<evidence, required>>

\* The caller's task is cancelled: what was answered is lost with the batch.
Cancel ==
    /\ batch = "open"
    /\ batch' = "cancelled"
    /\ UNCHANGED <<evidence, required>>

Next == Return \/ Cancel \/ \E r \in Requests : Answer(r)

Spec ==
    /\ Init /\ [][Next]_contractVars
    /\ WF_contractVars(Return)
    /\ \A r \in Requests : WF_contractVars(Answer(r))
=============================================================================
