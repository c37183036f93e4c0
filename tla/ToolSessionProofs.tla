-------------------------- MODULE ToolSessionProofs --------------------------
(***************************************************************************)
(* The tool session for any number of requests, completions and workers:   *)
(* no thread works behind a final answer, a completion sends a bounded     *)
(* number of requests, and every step of the dispatcher is a step of its   *)
(* contract or a stutter.                                                  *)
(***************************************************************************)
EXTENDS ToolSession, TLAPS

DispatcherTypes ==
  /\ profile \in [Requests -> Profile]
  /\ request \in [Requests -> {"new", "waiting", "answered", "cancelled"}]
  /\ answer \in [Requests -> Answers \cup {NoAnswer}]
  /\ batch \in {"open", "returned", "cancelled"}
  /\ job \in [Jobs -> JobStates]

\* A request has an answer exactly when it is answered, and when the batch is over
\* none is left to be answered.
AnswersMatch ==
  /\ \A r \in Requests : request[r] = "answered" <=> answer[r] # NoAnswer
  /\ batch # "open" => \A r \in Requests : request[r] \in {"answered", "cancelled"}

\* Before it is dispatched a request has no thread.
NoEarlyWork == \A r \in Requests : request[r] = "new" => job[r] = "none"

SessionInv == DispatcherTypes /\ AnswersMatch /\ NoEarlyWork /\ NoHiddenWork

LEMMA EvidenceIsTyped ==
  /\ \A error \in Failures, required \in BOOLEAN :
       FailureEvidence(error, required) \in EvidenceStates \ {"PARTIAL"}
  /\ \A class \in StatusClasses, required \in BOOLEAN :
       /\ AdapterEvidence(class, required) \in EvidenceStates
       /\ required => AdapterEvidence(class, required) # "PARTIAL"
BY DEF FailureEvidence, AdapterEvidence, EvidenceStates, StatusClasses, Failures, Refusals

LEMMA ErrorsAreTyped ==
  /\ \A p : Refusal(p) # "none" => Refusal(p) \in Failures \ {"Deadline"}
  /\ \A o \in Outcomes : ErrorOf(o) # "none" => ErrorOf(o) \in Failures
  /\ \A o \in Outcomes : ErrorOf(o) = "none" => o \in StatusClasses
BY DEF Refusal, ErrorOf, Failures, Refusals, Outcomes, StatusClasses, Raises

\* What an answer does to the answers: it is typed, and for this request alone.
LEMMA AnsweredStep ==
  ASSUME DispatcherTypes, NEW r \in Requests, NEW error \in Failures \cup {"none"},
         NEW evidence \in EvidenceStates, NEW status, Answered(r, error, evidence, status)
  PROVE  /\ request' = [request EXCEPT ![r] = "answered"]
         /\ answer' = [answer EXCEPT ![r] = [error |-> error, evidence |-> evidence]]
         /\ [error |-> error, evidence |-> evidence] \in Answers
         /\ answer' \in [Requests -> Answers \cup {NoAnswer}]
         /\ answer'[r] # NoAnswer /\ answer'[r].error = error /\ answer'[r].evidence = evidence
<1>1. [error |-> error, evidence |-> evidence] \in Answers
  BY DEF Answers
<1> QED
  BY <1>1, DispatchAssumption DEF Answered, DispatcherTypes

LEMMA FailsStep ==
  ASSUME DispatcherTypes, NEW r \in Requests, NEW error \in Failures, Fails(r, error)
  PROVE  \E evidence \in EvidenceStates \ {"PARTIAL"} :
           Answered(r, error, evidence, error)
<1>1. profile[r].required \in BOOLEAN
  BY DEF DispatcherTypes, Profile
<1> QED
  BY <1>1, EvidenceIsTyped DEF Fails

\* A delivered outcome, a failure or an adapter's own answer, respects the contract's
\* condition on required tools.
LEMMA DeliverStep ==
  ASSUME DispatcherTypes, NEW r \in Requests, Deliver(r)
  PROVE  \E error \in Failures \cup {"none"}, evidence \in EvidenceStates, status \in Outcomes \cup Failures :
           /\ Answered(r, error, evidence, status)
           /\ profile[r].required => evidence # "PARTIAL"
<1>1. profile[r].required \in BOOLEAN
  BY DEF DispatcherTypes, Profile
<1>2. PICK o \in Adapters[r] :
        IF ErrorOf(o) = "none"
        THEN Answered(r, "none", AdapterEvidence(o, profile[r].required), o)
        ELSE Fails(r, ErrorOf(o))
  BY DEF Deliver
<1>3. o \in Outcomes
  BY DispatchAssumption
<1>4. CASE ErrorOf(o) = "none"
  <2>1. o \in StatusClasses
    BY <1>3, <1>4, ErrorsAreTyped
  <2> QED
    BY <1>1, <1>2, <1>3, <1>4, <2>1, EvidenceIsTyped
<1>5. CASE ErrorOf(o) # "none"
  <2>1. ErrorOf(o) \in Failures
    BY <1>3, <1>5, ErrorsAreTyped
  <2> QED
    BY <1>2, <1>5, <2>1, FailsStep
<1> QED
  BY <1>4, <1>5

\* An answer keeps the invariant and is the contract's answer to that request.
LEMMA AnswerStep ==
  ASSUME SessionInv, NEW r \in Requests, request[r] \in {"new", "waiting"},
         NEW error \in Failures \cup {"none"}, NEW evidence \in EvidenceStates, NEW status,
         Answered(r, error, evidence, status), UNCHANGED <<profile, batch>>,
         profile[r].required => evidence # "PARTIAL",
         job' \in [Jobs -> JobStates], \A q \in Requests \ {r} : job'[q] = job[q],
         job'[r] # "queued", error # "Deadline" => job'[r] \in {"none", "returned"}
  PROVE  SessionInv' /\ Contract!Answer(r)
<1> USE DEF SessionInv
<1>1. /\ request' = [request EXCEPT ![r] = "answered"]
      /\ answer' = [answer EXCEPT ![r] = [error |-> error, evidence |-> evidence]]
      /\ answer' \in [Requests -> Answers \cup {NoAnswer}]
      /\ answer'[r] # NoAnswer /\ answer'[r].error = error /\ answer'[r].evidence = evidence
  BY AnsweredStep
<1>2. \A q \in Requests \ {r} : request'[q] = request[q] /\ answer'[q] = answer[q]
  BY <1>1 DEF DispatcherTypes
<1>3. request'[r] = "answered"
  BY <1>1 DEF DispatcherTypes
<1>4. DispatcherTypes'
  BY <1>1 DEF DispatcherTypes
<1>5. batch = "open" /\ answer[r] = NoAnswer
  BY DEF AnswersMatch, DispatcherTypes
<1>6. AnswersMatch'
  BY <1>1, <1>2, <1>3, <1>5 DEF AnswersMatch
<1>7. NoEarlyWork'
  BY <1>2, <1>3 DEF NoEarlyWork
<1>8. NoHiddenWork'
  BY <1>1, <1>2, <1>3 DEF NoHiddenWork
<1>9. Contract!Answer(r)
  <2> DEFINE Seen(ans) == [q \in Requests |-> IF ans[q] = NoAnswer THEN NoAnswer ELSE ans[q].evidence]
  <2>1. Seen(answer)[r] = NoAnswer
    BY <1>5
  <2>2. Seen(answer') = [Seen(answer) EXCEPT ![r] = evidence]
    <3>1. \A q \in Requests : Seen(answer')[q] = IF q = r THEN evidence ELSE Seen(answer)[q]
      BY <1>1, <1>2
    <3> QED
      BY <3>1
  <2>3. Contract!MayAnswer(r, evidence)
    BY DEF Contract!MayAnswer, Contract!EvidenceStates, Contract!FailureStates, EvidenceStates
  <2>4. evidence \in Contract!EvidenceStates
    BY DEF Contract!EvidenceStates, Contract!FailureStates, EvidenceStates
  <2> QED
    BY <1>5, <2>1, <2>2, <2>3, <2>4 DEF Contract!Answer
<1> QED
  BY <1>4, <1>6, <1>7, <1>8, <1>9

\* A step that answers nothing and starts no thread but of a new request.
LEMMA QuietStep ==
  ASSUME SessionInv, UNCHANGED <<profile, request, answer, batch>>,
         job' \in [Jobs -> JobStates],
         \A r \in Requests :
           \/ job'[r] = job[r]
           \/ /\ job[r] \in {"queued", "running"}
              /\ job'[r] \in {"running", "returned", "cancelled"}
  PROVE  SessionInv' /\ UNCHANGED Contract!contractVars
<1> USE DEF SessionInv
<1>1. DispatcherTypes' /\ AnswersMatch'
  BY DEF DispatcherTypes, AnswersMatch
<1>2. NoEarlyWork'
  BY DEF NoEarlyWork
<1>3. NoHiddenWork'
  BY DEF NoHiddenWork
<1> QED
  BY <1>1, <1>2, <1>3 DEF Contract!contractVars

LEMMA SessionInit == Init => SessionInv /\ Contract!Init
<1> SUFFICES ASSUME Init PROVE SessionInv /\ Contract!Init
  OBVIOUS
<1> USE DEF Init, PoolInit, DispatchInit
<1>1. profile \in [Requests -> Profile]
  BY DispatchAssumption DEF Possible
<1>2. \A r \in Requests : r \in Jobs
  BY DispatchAssumption
<1>3. SessionInv
  BY <1>1, <1>2 DEF SessionInv, DispatcherTypes, JobStates, AnswersMatch, NoEarlyWork, NoHiddenWork
<1>4. Contract!Init
  BY DEF Contract!Init
<1> QED
  BY <1>3, <1>4

LEMMA DispatcherStep ==
  ASSUME SessionInv, DispatcherActs
  PROVE  SessionInv' /\ [Contract!Next]_(Contract!contractVars)
<1> USE DEF SessionInv
<1>0. Requests \subseteq Jobs
  BY DispatchAssumption
<1>1. ASSUME NEW r \in Requests, Dispatch(r)
      PROVE  SessionInv' /\ [Contract!Next]_(Contract!contractVars)
  <2>0. request[r] = "new" /\ job[r] = "none" /\ UNCHANGED <<profile, batch>>
    BY <1>1 DEF Dispatch, NoEarlyWork
  <2>1. CASE Refusal(profile[r]) # "none"
    <3>1. Fails(r, Refusal(profile[r])) /\ UNCHANGED job
      BY <1>1, <2>1 DEF Dispatch, poolVars
    <3>2. Refusal(profile[r]) \in Failures \ {"Deadline"}
      BY <2>1, ErrorsAreTyped
    <3>3. PICK evidence \in EvidenceStates \ {"PARTIAL"} :
            Answered(r, Refusal(profile[r]), evidence, Refusal(profile[r]))
      BY <3>1, <3>2, FailsStep
    <3>4. SessionInv' /\ Contract!Answer(r)
      BY <1>0, <2>0, <3>1, <3>2, <3>3, AnswerStep DEF DispatcherTypes
    <3> QED
      BY <3>4 DEF Contract!Next
  <2>2. CASE Refusal(profile[r]) = "none"
    <3>1. /\ job' = [job EXCEPT ![r] = "queued"] /\ request' = [request EXCEPT ![r] = "waiting"]
          /\ UNCHANGED answer
      BY <1>1, <2>2 DEF Dispatch, Submit
    <3>2. DispatcherTypes'
      BY <2>0, <3>1 DEF DispatcherTypes, JobStates
    <3>3. AnswersMatch'
      BY <2>0, <3>1 DEF DispatcherTypes, AnswersMatch
    <3>4. NoEarlyWork' /\ NoHiddenWork'
      BY <1>0, <2>0, <3>1 DEF DispatcherTypes, NoEarlyWork, NoHiddenWork
    <3> QED
      BY <2>0, <3>1, <3>2, <3>3, <3>4 DEF Contract!contractVars
  <2> QED
    BY <2>1, <2>2
<1>2. ASSUME NEW r \in Requests, Deliver(r)
      PROVE  SessionInv' /\ [Contract!Next]_(Contract!contractVars)
  <2>1. request[r] = "waiting" /\ job[r] = "returned" /\ UNCHANGED <<profile, batch, job>>
    BY <1>2 DEF Deliver, poolVars
  <2>2. PICK error \in Failures \cup {"none"}, evidence \in EvidenceStates, status \in Outcomes \cup Failures :
           /\ Answered(r, error, evidence, status)
           /\ profile[r].required => evidence # "PARTIAL"
    BY <1>2, DeliverStep
  <2>3. SessionInv' /\ Contract!Answer(r)
    BY <1>0, <2>1, <2>2, AnswerStep DEF DispatcherTypes
  <2> QED
    BY <2>3 DEF Contract!Next
<1>3. ASSUME NEW r \in Requests, DeadlinePasses(r)
      PROVE  SessionInv' /\ [Contract!Next]_(Contract!contractVars)
  <2>1. /\ request[r] = "waiting" /\ Fails(r, "Deadline") /\ UNCHANGED <<profile, batch>>
        /\ job' = Cancelled({r})
    BY <1>3 DEF DeadlinePasses, Cancel
  <2>2. "Deadline" \in Failures
    BY DEF Failures
  <2>3. PICK evidence \in EvidenceStates \ {"PARTIAL"} : Answered(r, "Deadline", evidence, "Deadline")
    BY <2>1, <2>2, FailsStep
  <2>4. /\ job' \in [Jobs -> JobStates] /\ job'[r] # "queued"
        /\ \A q \in Requests \ {r} : job'[q] = job[q]
    BY <1>0, <2>1 DEF Cancelled, DispatcherTypes, JobStates
  <2>5. SessionInv' /\ Contract!Answer(r)
    BY <2>1, <2>2, <2>3, <2>4, AnswerStep
  <2> QED
    BY <2>5 DEF Contract!Next
<1>4. CASE CancelBatch
  <2> DEFINE unfinished == {r \in Requests : request[r] \in {"new", "waiting"}}
             waiting == {r \in Requests : request[r] = "waiting"}
  <2>1. /\ batch = "open" /\ batch' = "cancelled"
        /\ request' = [r \in Requests |-> IF r \in unfinished THEN "cancelled" ELSE request[r]]
        /\ job' = Cancelled(waiting) /\ UNCHANGED <<profile, answer>>
    BY <1>4 DEF CancelBatch, Cancel
  <2>2. DispatcherTypes'
    BY <2>1 DEF DispatcherTypes, Cancelled, JobStates
  <2>3. AnswersMatch'
    BY <2>1 DEF DispatcherTypes, AnswersMatch
  <2>4. NoEarlyWork' /\ NoHiddenWork'
    BY <1>0, <2>1 DEF DispatcherTypes, Cancelled, NoEarlyWork, NoHiddenWork
  <2>5. Contract!Cancel
    BY <2>1 DEF Contract!Cancel
  <2> QED
    BY <2>2, <2>3, <2>4, <2>5 DEF Contract!Next
<1> QED
  BY <1>1, <1>2, <1>3, <1>4 DEF DispatcherActs

\* The worker, the adapters, the completions and the shutdown leave the answers alone.
LEMMA OthersStep ==
  ASSUME SessionInv, AdapterActs \/ WorkerTakes \/ (\E c \in Calls : ClientActs(c)) \/ CloseLoop \/ Exit
  PROVE  SessionInv' /\ UNCHANGED Contract!contractVars
<1> USE DEF SessionInv
<1>0. /\ Requests \subseteq Jobs /\ Calls \subseteq Jobs
      /\ \A c \in Calls : c \notin Requests
  BY DispatchAssumption, ClientAssumption, SessionAssumption
<1> DEFINE Quiet == /\ job' \in [Jobs -> JobStates]
                    /\ \A r \in Requests : \/ job'[r] = job[r]
                                           \/ /\ job[r] \in {"queued", "running"}
                                              /\ job'[r] \in {"running", "returned", "cancelled"}
<1>1. CASE AdapterActs
  <2>1. UNCHANGED <<profile, request, answer, batch>>
    BY <1>1 DEF AdapterActs, AdapterReturns, AdapterHangs, dispatchVars
  <2>2. Quiet
    BY <1>0, <1>1 DEF AdapterActs, AdapterReturns, AdapterHangs, Finish, poolVars, DispatcherTypes, JobStates
  <2> QED
    BY <2>1, <2>2, QuietStep
<1>2. CASE WorkerTakes
  <2>1. UNCHANGED <<profile, request, answer, batch>>
    BY <1>2 DEF WorkerTakes, dispatchVars
  <2>2. Quiet
    BY <1>0, <1>2 DEF WorkerTakes, Take, DispatcherTypes, JobStates
  <2> QED
    BY <2>1, <2>2, QuietStep
<1>3. ASSUME NEW c \in Calls, ClientActs(c) PROVE SessionInv' /\ UNCHANGED Contract!contractVars
  <2>1. UNCHANGED <<profile, request, answer, batch>>
    BY <1>3 DEF ClientActs, dispatchVars
  <2>2. \/ UNCHANGED job
        \/ \E state \in {"queued", "returned"} : job' = [job EXCEPT ![c] = state]
    BY <1>3 DEF ClientActs, Complete, DeliverReply, Attempt, Ends, TryAgain, Submit, Finish, poolVars
  <2>3. Quiet
    BY <1>0, <2>2 DEF DispatcherTypes, JobStates
  <2> QED
    BY <2>1, <2>3, QuietStep
<1>4. CASE CloseLoop
  <2>1. UNCHANGED <<profile, request, answer, batch>> /\ job' = Cancelled(Unsettled)
    BY <1>4 DEF CloseLoop, Cancel, dispatchVars
  <2>2. Quiet
    BY <1>0, <2>1 DEF Cancelled, Unsettled, DispatcherTypes, JobStates
  <2> QED
    BY <2>1, <2>2, QuietStep
<1>5. CASE Exit
  <2>1. UNCHANGED <<profile, request, answer, batch, job>>
    BY <1>5 DEF Exit, dispatchVars, poolVars
  <2> QED
    BY <2>1, QuietStep DEF DispatcherTypes
<1> QED
  BY <1>1, <1>2, <1>3, <1>4, <1>5

LEMMA SessionStep ==
  ASSUME SessionInv, [Next]_vars
  PROVE  SessionInv' /\ [Contract!Next]_(Contract!contractVars)
<1> USE DEF SessionInv
<1>1. CASE DispatcherActs
  BY <1>1, DispatcherStep
<1>2. CASE AdapterActs \/ WorkerTakes \/ (\E c \in Calls : ClientActs(c)) \/ CloseLoop \/ Exit
  BY <1>2, OthersStep
<1>3. CASE ToolsDone
  <2>1. /\ batch = "open" /\ batch' = "returned" /\ \A r \in Requests : request[r] = "answered"
        /\ UNCHANGED <<profile, request, answer, job>>
    BY <1>3 DEF ToolsDone, ReturnResults, poolVars
  <2>2. SessionInv'
    BY <2>1 DEF DispatcherTypes, AnswersMatch, NoEarlyWork, NoHiddenWork
  <2>3. \A r \in Requests : answer[r] # NoAnswer /\ answer[r].evidence # NoAnswer
    <3>1. \A a \in Answers : a.evidence \in EvidenceStates
      BY DEF Answers
    <3> QED
      BY <2>1, <3>1, DispatchAssumption DEF AnswersMatch, DispatcherTypes
  <2>4. Contract!Return
    BY <2>1, <2>3 DEF Contract!Return
  <2> QED
    BY <2>2, <2>4 DEF Contract!Next
<1>4. CASE UNCHANGED vars
  <2>1. UNCHANGED <<profile, request, answer, batch, job>>
    BY <1>4 DEF vars, dispatchVars, poolVars
  <2> QED
    BY <2>1, QuietStep DEF DispatcherTypes
<1> QED
  BY <1>1, <1>2, <1>3, <1>4 DEF Next

\* No thread runs or will run behind an answer that does not say so
\* (src/runtime/tools.py:302-377).
THEOREM NoWorkIsHidden == Spec => []NoHiddenWork
<1>1. SessionInv => NoHiddenWork
  BY DEF SessionInv
<1> QED
  BY <1>1, SessionInit, SessionStep, PTL DEF Spec

\* Every step of a session is a step of dispatch_many's contract or leaves it
\* alone: requests are answered once each, required ones never half available,
\* and the batch returns only with every answer (src/runtime/tools.py:136, 379-381).
THEOREM DispatcherRefinesContract == Spec => DispatchRefines
<1> QED
  BY SessionInit, SessionStep, PTL DEF Spec, DispatchRefines

-----------------------------------------------------------------------------
(* What a completion costs.                                                *)

AttemptsInv ==
  /\ attempts \in [Calls -> Nat] /\ job \in [Jobs -> JobStates]
  /\ \A c \in Calls :
       /\ attempts[c] <= MaxAttempts
       /\ job[c] \in {"none", "queued"} => attempts[c] = 0
       /\ job[c] = "running" => attempts[c] < MaxAttempts

AttemptsBounded == \A c \in Calls : attempts[c] <= MaxAttempts

LEMMA AttemptsStep == ASSUME AttemptsInv, [Next]_vars PROVE AttemptsInv'
<1> USE DEF AttemptsInv
<1>0. Requests \subseteq Jobs /\ Calls \subseteq Jobs /\ MaxAttempts \in Nat \ {0}
  BY DispatchAssumption, ClientAssumption
<1>1. ASSUME UNCHANGED attempts, job' \in [Jobs -> JobStates],
             \A c \in Calls : \/ job'[c] = job[c] \/ job'[c] \in {"returned", "cancelled"}
                              \/ job[c] = "none" /\ job'[c] = "queued"
                              \/ job[c] = "queued" /\ job'[c] = "running"
      PROVE  AttemptsInv'
  BY <1>0, <1>1
<1>2. ASSUME NEW c \in Calls, Attempt(c) PROVE AttemptsInv'
  <2>1. job[c] = "running" /\ attempts' = [attempts EXCEPT ![c] = attempts[c] + 1] /\ attempts[c] < MaxAttempts
    BY <1>2 DEF Attempt
  <2>2. attempts'[c] = attempts[c] + 1 /\ attempts'[c] \in Nat /\ attempts'[c] <= MaxAttempts
    BY <1>0, <2>1
  <2>3. job' \in [Jobs -> JobStates] /\ \A d \in Calls \ {c} : job'[d] = job[d]
    BY <1>0, <1>2 DEF Attempt, Ends, TryAgain, Finish, poolVars, JobStates
  <2>4. job'[c] = "returned" \/ (job'[c] = "running" /\ attempts'[c] < MaxAttempts)
    BY <1>0, <1>2, <2>1, <2>2 DEF Attempt, Ends, TryAgain, Finish, poolVars
  <2> QED
    BY <1>0, <2>1, <2>2, <2>3, <2>4
<1>3. CASE DispatcherActs
  <2>1. UNCHANGED attempts
    BY <1>3 DEF DispatcherActs, clientVars
  <2>2. \/ UNCHANGED job \/ (\E js : job' = Cancelled(js))
        \/ \E r \in Requests : job[r] = "none" /\ job' = [job EXCEPT ![r] = "queued"]
    BY <1>3 DEF DispatcherActs, Dispatch, Deliver, DeadlinePasses, CancelBatch, Cancel, Submit, poolVars
  <2> QED
    BY <1>0, <1>1, <2>1, <2>2 DEF Cancelled, JobStates
<1>4. CASE AdapterActs \/ WorkerTakes
  <2>1. UNCHANGED attempts
    BY <1>4 DEF AdapterActs, WorkerTakes, clientVars
  <2>2. \/ UNCHANGED job
        \/ \E r \in Requests : job' = [job EXCEPT ![r] = "returned"]
        \/ job' = [job EXCEPT ![Head(queue)] = IF @ = "queued" THEN "running" ELSE @]
    BY <1>4 DEF AdapterActs, WorkerTakes, AdapterReturns, AdapterHangs, Finish, Take, poolVars
  <2> QED
    BY <1>0, <1>1, <2>1, <2>2 DEF JobStates
<1>5. ASSUME NEW c \in Calls, ClientActs(c) PROVE AttemptsInv'
  <2>1. CASE Attempt(c)
    BY <1>2, <2>1
  <2>2. CASE Complete(c) \/ DeliverReply(c)
    <3>1. UNCHANGED attempts
      BY <2>2 DEF Complete, DeliverReply
    <3>2. UNCHANGED job \/ (job[c] = "none" /\ job' = [job EXCEPT ![c] = "queued"])
      BY <2>2 DEF Complete, DeliverReply, Submit, poolVars
    <3> QED
      BY <1>0, <1>1, <3>1, <3>2 DEF JobStates
  <2> QED
    BY <1>5, <2>1, <2>2 DEF ClientActs
<1>6. CASE CloseLoop
  BY <1>0, <1>1, <1>6 DEF CloseLoop, Cancel, Cancelled, JobStates
<1>7. CASE ToolsDone \/ Exit \/ UNCHANGED vars
  BY <1>1, <1>7 DEF ToolsDone, ReturnResults, Exit, vars, poolVars, clientVars
<1> QED
  BY <1>3, <1>4, <1>5, <1>6, <1>7 DEF Next

\* A completion is sent, and paid for, at most MaxAttempts times, whatever fails
\* (src/runtime/llm.py:176-203).
THEOREM CompletionsAreBounded == Spec => []AttemptsBounded
<1>1. Init => AttemptsInv
  BY ClientAssumption DEF Init, PoolInit, ClientInit, AttemptsInv, JobStates
<1>2. AttemptsInv => AttemptsBounded
  BY DEF AttemptsInv, AttemptsBounded
<1> QED
  BY <1>1, <1>2, AttemptsStep, PTL DEF Spec
=============================================================================
