--------------------------- MODULE ToolDispatcher ---------------------------
(***************************************************************************)
(* One call of ToolDispatcher.dispatch_many (src/runtime/tools.py): every  *)
(* request is checked, handed to a thread of the shared pool and awaited   *)
(* under its own deadline.  A deadline abandons the thread, it does not    *)
(* stop it.  Some adapters never return.                                   *)
(***************************************************************************)
EXTENDS ThreadPool, SequencesExt

CONSTANTS Requests,   \* 1..n, in the order of the list given to dispatch_many
          Profiles,   \* the kinds of each request considered, see Profile
          Adapters,   \* what the adapter of each request may do, see Outcomes
          MaxEvents,  \* max_telemetry_events
          NoAnswer

\* What dispatch looks at before it starts a thread.
Profile == [known : BOOLEAN, approved : BOOLEAN, credentials : BOOLEAN,
            safeUrl : BOOLEAN, timeoutOk : BOOLEAN, required : BOOLEAN]

(* Adapter results by status class, what fetch may raise, what is malformed. *)
StatusClasses == {"success", "partial", "missing", "invalid", "blocking"}
Raises == {"NotConfigured", "TimeoutError", "Error"}
Outcomes == StatusClasses \cup Raises \cup {"malformed"}

Refusals == {"UnknownTool", "BudgetApprovalRequired", "MissingCredential", "UnsafeURL",
             "InvalidTimeout"}
Failures == Refusals \cup {"NotConfigured", "Deadline", "Internal"}

EvidenceStates == {"AVAILABLE", "PARTIAL", "MISSING", "INVALID", "BLOCKED"}
Answers == [error : Failures \cup {"none"}, evidence : EvidenceStates]

ASSUME DispatchAssumption ==
    /\ Requests \subseteq Nat /\ Requests \subseteq Jobs
    /\ Profiles \in [Requests -> SUBSET Profile]
    /\ Adapters \in [Requests -> SUBSET Outcomes]
    /\ MaxEvents \in Nat \ {0}
    /\ NoAnswer \notin Answers \cup EvidenceStates

VARIABLES profile,    \* the requests
          hanging,    \* the adapters that have started and never return
          request,    \* where the coroutine dispatch(r) is
          answer,     \* its ToolDispatchResult
          telemetry,  \* the ring of events
          batch       \* the gather around the coroutines

dispatchVars == <<profile, hanging, request, answer, telemetry, batch>>

Events == [request : Requests, status : Failures \cup StatusClasses \cup {"CANCELLED"}]

Possible == {p \in [Requests -> UNION {Profiles[r] : r \in Requests}] :
               \A r \in Requests : p[r] \in Profiles[r]}

DispatchTypeOK ==
    /\ profile \in Possible
    /\ hanging \in SUBSET Requests
    /\ request \in [Requests -> {"new", "waiting", "answered", "cancelled"}]
    /\ answer \in [Requests -> Answers \cup {NoAnswer}]
    /\ telemetry \in Seq(Events)
    /\ batch \in {"open", "returned", "cancelled"}

DispatchInit ==
    /\ profile \in Possible
    /\ hanging = {}
    /\ request = [r \in Requests |-> "new"]
    /\ answer = [r \in Requests |-> NoAnswer]
    /\ telemetry = <<>>
    /\ batch = "open"

-----------------------------------------------------------------------------
(* The evidence state of an answer.                                        *)

FailureEvidence(error, required) ==
    IF required \/ error = "BudgetApprovalRequired" THEN "BLOCKED"
    ELSE IF error \in {"UnknownTool", "MissingCredential", "NotConfigured"} THEN "MISSING"
    ELSE "INVALID"

\* Mutation: an optional request's rule for partial answers used for all.
AdapterEvidenceLenient(class, required) ==
    CASE class = "success" -> "AVAILABLE" [] class = "missing" -> "MISSING"
      [] class \in {"invalid", "blocking"} -> "INVALID" [] OTHER -> "PARTIAL"

AdapterEvidence(class, required) ==
    CASE class = "success" -> "AVAILABLE"
      [] class = "missing" -> "MISSING"
      [] class = "invalid" -> "INVALID"
      [] class \in {"partial", "blocking"} /\ required -> "BLOCKED"
      [] class = "blocking" /\ ~required -> "INVALID"
      [] OTHER -> "PARTIAL"

\* The first check that fails, in the order of dispatch; "none" if all pass.
Refusal(p) ==
    IF ~p.known THEN "UnknownTool"
    ELSE IF ~p.approved THEN "BudgetApprovalRequired"
    ELSE IF ~p.credentials THEN "MissingCredential"
    ELSE IF ~p.safeUrl THEN "UnsafeURL"
    ELSE IF ~p.timeoutOk THEN "InvalidTimeout"
    ELSE "none"

\* How dispatch maps what the thread gave it to its except clauses.  An
\* adapter's own TimeoutError lands in the clause of the deadline.
ErrorOf(o) ==
    CASE o \in StatusClasses -> "none"
      [] o = "NotConfigured" -> "NotConfigured"
      [] o = "TimeoutError" -> "Deadline"
      [] OTHER -> "Internal"

-----------------------------------------------------------------------------
(* Recording and answering.                                                *)

Ring(ring, event) ==
    Append(IF Len(ring) >= MaxEvents THEN Tail(ring) ELSE ring, event)

Record(events) == telemetry' = FoldLeft(Ring, telemetry, events)

Answered(r, error, evidence, status) ==
    /\ request' = [request EXCEPT ![r] = "answered"]
    /\ answer' = [answer EXCEPT ![r] = [error |-> error, evidence |-> evidence]]
    /\ Record(<<[request |-> r, status |-> status]>>)

Fails(r, error) ==
    Answered(r, error, FailureEvidence(error, profile[r].required), error)

-----------------------------------------------------------------------------
(* The coroutines.  gather starts them in the order of the list.           *)

Dispatch(r) ==
    /\ batch = "open"
    /\ request[r] = "new"
    /\ \A q \in Requests : q < r => request[q] # "new"
    /\ IF Refusal(profile[r]) # "none"
       THEN Fails(r, Refusal(profile[r])) /\ UNCHANGED poolVars
       ELSE /\ Submit(r)
            /\ request' = [request EXCEPT ![r] = "waiting"]
            /\ UNCHANGED <<answer, telemetry>>
    /\ UNCHANGED <<profile, hanging, batch>>

\* The thread ends, whether anyone still waits for it or not, or it never will.
AdapterReturns(r) ==
    /\ r \notin hanging
    /\ Finish(r)
    /\ UNCHANGED dispatchVars

AdapterHangs(r) ==
    /\ job[r] = "running"
    /\ hanging' = hanging \cup {r}
    /\ UNCHANGED <<profile, request, answer, telemetry, batch, poolVars>>

\* The loop sees what the thread returned or raised before the deadline.
Deliver(r) ==
    /\ request[r] = "waiting"
    /\ job[r] = "returned"
    /\ \E o \in Adapters[r] :
         IF ErrorOf(o) = "none"
         THEN Answered(r, "none", AdapterEvidence(o, profile[r].required), o)
         ELSE Fails(r, ErrorOf(o))
    /\ UNCHANGED <<profile, hanging, batch, poolVars>>

\* Mutation: a response deadline reported like any failure of the adapter.
DeadlineLooksInternal(r) ==
    /\ request[r] = "waiting"
    /\ Fails(r, "Internal")
    /\ Cancel({r})
    /\ UNCHANGED <<profile, hanging, batch>>

\* wait_for gives up, even if a result is already on its way to the loop.
DeadlinePasses(r) ==
    /\ request[r] = "waiting"
    /\ Fails(r, "Deadline")
    /\ Cancel({r})
    /\ UNCHANGED <<profile, hanging, batch>>

ReturnResults ==
    /\ batch = "open"
    /\ \A r \in Requests : request[r] = "answered"
    /\ batch' = "returned"
    /\ UNCHANGED <<profile, hanging, request, answer, telemetry, poolVars>>

\* The task that awaits dispatch_many is cancelled: gather cancels every
\* coroutine; those that wait record it and raise again.
CancelBatch ==
    LET unfinished == {r \in Requests : request[r] \in {"new", "waiting"}}
        waiting == {r \in Requests : request[r] = "waiting"}
        Event(r) == [request |-> r, status |-> "CANCELLED"]
        order == SetToSortSeq(waiting, LAMBDA a, b : a < b)
    IN /\ batch = "open"
       /\ unfinished # {}
       /\ batch' = "cancelled"
       /\ request' = [r \in Requests |-> IF r \in unfinished THEN "cancelled" ELSE request[r]]
       /\ Record([i \in DOMAIN order |-> Event(order[i])])
       /\ Cancel(waiting)
       /\ UNCHANGED <<profile, hanging, answer>>

DispatchStep(r) == Dispatch(r) \/ Deliver(r)
-----------------------------------------------------------------------------
(* Properties.                                                             *)

\* dispatch_many implements its contract: with adapters that hang, fail or
\* return after their deadline, each request is still answered once, the batch
\* returns, and a required tool never ends up half available.
Contract == INSTANCE DispatchContract WITH
    evidence <- [r \in Requests |-> IF answer[r] = NoAnswer THEN NoAnswer
                                    ELSE answer[r].evidence],
    required <- {r \in Requests : profile[r].required}
DispatchKeepsContract == Contract!Spec

\* Its safety part: an answer, the return or the cancellation, and nothing else.
DispatchRefines == Contract!Init /\ [][Contract!Next]_(Contract!contractVars)

\* Work goes on only behind an answer that says so: when an answer is neither
\* "deadline exceeded, work may continue" nor a cancellation, no thread of that
\* request runs or will run; and abandoned work that had not started never does
\* (_fetch_result, the except clauses of dispatch, _indeterminate_timeout_message).
NoHiddenWork ==
    \A r \in Requests :
        /\ request[r] = "answered" /\ answer[r].error # "Deadline"
              => job[r] \in {"none", "returned"}
        /\ request[r] \in {"answered", "cancelled"} => job[r] # "queued"
=============================================================================
