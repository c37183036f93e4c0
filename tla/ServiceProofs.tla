---------------------------- MODULE ServiceProofs ----------------------------
(***************************************************************************)
(* What guards one operation, one page, one child process or one candidate  *)
(* of a publication, for any number of rounds, handlers, processes, bytes   *)
(* and attempts.  The components share no state and each theorem is about   *)
(* the behaviours of its own specification.                                 *)
(***************************************************************************)
EXTENDS HttpDeadline, BrowserEgress, BoundedProcess, Preparation, FiniteSetTheorems, TLAPS

-----------------------------------------------------------------------------
(* The HTTP deadline: the timer closes sockets only after it has expired the *)
(* deadline, and bounded asks for the deadline on both ways out.             *)

InterruptedInv ==
  /\ timer \in {"closing", "done"} => expired
  /\ interrupted => expired
  /\ InterruptedIsTimeout

LEMMA DeadlineInitInv == DeadlineInit => InterruptedInv
  BY DEF DeadlineInit, InterruptedInv, InterruptedIsTimeout

LEMMA DeadlineStepInv == InterruptedInv /\ [DeadlineNext]_deadlineVars => InterruptedInv'
<1> SUFFICES ASSUME InterruptedInv, [DeadlineNext]_deadlineVars PROVE InterruptedInv'
  OBVIOUS
<1> USE DEF InterruptedInv, InterruptedIsTimeout
<1>1. CASE StartOperation
  BY <1>1 DEF StartOperation
<1>2. CASE CheckRound \/ RegisterRaw \/ ConnectFails \/ RegisterConnection \/ ReadBroken
             \/ Evaluate \/ AttemptFails \/ Connect \/ PeerAnswers
  BY <1>2 DEF CheckRound, RegisterRaw, ConnectFails, RegisterConnection, ReadBroken, Evaluate,
              AttemptFails, Connect, PeerAnswers, clockVars
<1>3. CASE FinishOperation
  BY <1>3 DEF FinishOperation, Exceeded
<1>4. CASE TimePasses \/ TimerFires
  BY <1>4 DEF TimePasses, TimerFires
<1>5. CASE TimerCloses
  <2>1. timer = "closing" /\ expired /\ UNCHANGED <<expired, outcome>>
    BY <1>5 DEF TimerCloses
  <2>2. outcome # "none" /\ interrupted' => interrupted
    <3>1. CASE UNCHANGED interrupted
      BY <3>1
    <3>2. CASE \E s \in closing : interrupted' = (interrupted \/ (s \in open /\ outcome = "none"))
      BY <3>2, Zenon
    <3> QED
      BY <1>5, <3>1, <3>2 DEF TimerCloses
  <2> QED
    BY <2>1, <2>2
<1>6. CASE UNCHANGED deadlineVars
  BY <1>6 DEF deadlineVars
<1> QED
  BY <1>1, <1>2, <1>3, <1>4, <1>5, <1>6 DEF DeadlineNext, CallerStep

\* Once the timer has closed a socket in use, the operation ends in the deadline's
\* TimeoutError, in whatever round and on whatever path
\* (http_deadline.py:42-101).
THEOREM InterruptionsAreTimeouts == DeadlineSpec => []InterruptedIsTimeout
<1>1. InterruptedInv => InterruptedIsTimeout
  BY DEF InterruptedInv
<1> QED
  BY <1>1, DeadlineInitInv, DeadlineStepInv, PTL DEF DeadlineSpec

-----------------------------------------------------------------------------
(* The budget of a page.  What is admitted was authorized before, and each   *)
(* authorization counts, once and for good; what is forwarded was counted    *)
(* before, and a count above the budget is a failure from the same critical  *)
(* section on.                                                               *)

Authorized == {h \in Handlers : handlerPc[h] = "counted"} \cup admitted

\* An admitted handler has its authorization behind it.
AdmittedLater == \A h \in admitted : handlerPc[h] \notin {Unborn, "refused", "unstarted", "accepted"}

\* Who has a slot: a thread that could not start keeps its own for ever.
Holding == {h \in Handlers : handlerPc[h] \notin {Unborn, "refused", "ended"}}

\* Only a handler that is copying has counted bytes to forward.
Carrying == \A h \in Handlers : chunk[h] # {} => handlerPc[h] \in Copying

BudgetInv ==
  /\ EgressTypeOK /\ Carrying
  /\ slots + Cardinality(Holding) = Slots
  /\ AdmittedLater
  /\ Cardinality(Authorized) <= requestsSeen
  /\ Cardinality(admitted) <= MaxRequests
  /\ bytesSeen > MaxBytes => failure
  /\ sent \subseteq 1..MaxBytes

LEMMA EgressTypeInit == EgressInit => EgressTypeOK
<1> SUFFICES ASSUME EgressInit PROVE EgressTypeOK
  OBVIOUS
<1>1. Unborn \in HandlerPlaces /\ slots \in 0..Slots
  BY EgressAssumption DEF EgressInit, HandlerPlaces
<1> QED
  BY <1>1 DEF EgressInit, EgressTypeOK

\* The other variables of a step that counts no byte.
LEMMA LeaveType ==
  ASSUME EgressTypeOK, NEW h \in Handlers, Leave(h)
  PROVE  /\ handlerPc' \in [Handlers -> HandlerPlaces]
         /\ chunk' \in [Handlers -> SUBSET (1..bytesSeen)]
         /\ sent' \subseteq 1..bytesSeen /\ connections' \subseteq EgressSockets
BY DEF EgressTypeOK, Leave, Goto, HandlerPlaces

LEMMA GoOnType ==
  ASSUME EgressTypeOK, NEW h \in Handlers, NEW place \in HandlerPlaces, GoOn(h, place)
  PROVE  /\ handlerPc' \in [Handlers -> HandlerPlaces]
         /\ chunk' \in [Handlers -> SUBSET (1..bytesSeen)]
         /\ sent' \subseteq 1..bytesSeen /\ connections' \subseteq EgressSockets
BY DEF EgressTypeOK, GoOn, Goto

LEMMA HandlerType ==
  ASSUME EgressTypeOK, NEW h \in Handlers, HandlerStep(h), slots' \in 0..Slots
  PROVE  EgressTypeOK'
<1> {"counted", "dial", "tunnel", "headers", "body", "relay", "leaving", "ended"} \subseteq HandlerPlaces
  BY DEF HandlerPlaces, Copying, Ended
<1>1. CASE Authorize(h)
  <2>1. failure' \in BOOLEAN
    <3>1. CASE UNCHANGED budgetVars
      BY <3>1 DEF budgetVars, EgressTypeOK
    <3>2. CASE Remaining
      BY <3>2 DEF Remaining
    <3> QED
      BY <1>1, <3>1, <3>2 DEF Authorize
  <2>2. requestsSeen' \in Nat
    BY <1>1 DEF Authorize, EgressTypeOK, budgetVars
  <2> QED
    BY <1>1, <2>1, <2>2, LeaveType, GoOnType DEF Authorize, EgressTypeOK, budgetVars
<1>2. CASE Counted(h)
  <2>1. failure' \in BOOLEAN
    BY <1>2 DEF Counted, EgressTypeOK
  <2> QED
    BY <1>2, <2>1, LeaveType, GoOnType DEF Counted, EgressTypeOK
<1>3. CASE Dial(h)
  <2>1. failure' \in BOOLEAN
    BY <1>3 DEF Dial, Remaining, Stopping, EgressTypeOK
  <2> QED
    BY <1>3, <2>1, LeaveType, GoOnType DEF Dial, EgressTypeOK
<1>4. CASE RegisterUpstream(h)
  <2>1. CASE Leave(h)
    BY <1>4, <2>1, LeaveType DEF RegisterUpstream, EgressTypeOK, budgetVars
  <2>2. CASE ~Leave(h)
    <3>1. Upstream(h) \in EgressSockets
      BY DEF Upstream, EgressSockets
    <3>2. handlerPc' \in [Handlers -> HandlerPlaces] /\ connections' \subseteq EgressSockets
      BY <1>4, <2>2, <3>1 DEF RegisterUpstream, EgressTypeOK, Goto
    <3> QED
      BY <1>4, <2>2, <3>2 DEF RegisterUpstream, EgressTypeOK, budgetVars
  <2> QED
    BY <2>1, <2>2
<1>5. CASE Copy(h)
  <2>1. CASE Leave(h) /\ failure' \in BOOLEAN /\ UNCHANGED <<requestsSeen, bytesSeen>>
    BY <1>5, <2>1, LeaveType DEF Copy, EgressTypeOK
  <2>2. ASSUME NEW size \in ChunkSizes, bytesSeen' = bytesSeen + size,
               failure' = (failure \/ bytesSeen' > MaxBytes),
               chunk' = [chunk EXCEPT ![h] = (bytesSeen + 1)..bytesSeen'],
               UNCHANGED <<handlerPc, sent, connections, requestsSeen>>
        PROVE  EgressTypeOK'
    <3>1. bytesSeen \in Nat /\ bytesSeen' \in Nat /\ bytesSeen <= bytesSeen'
      BY <2>2, EgressAssumption DEF EgressTypeOK
    <3>2. 1..bytesSeen \subseteq 1..bytesSeen' /\ (bytesSeen + 1)..bytesSeen' \subseteq 1..bytesSeen'
      BY <3>1
    <3>3. chunk' \in [Handlers -> SUBSET (1..bytesSeen')] /\ sent' \subseteq 1..bytesSeen'
      BY <2>2, <3>2 DEF EgressTypeOK
    <3>4. UNCHANGED <<slots, admitted, overdue, exitPc>>
      BY <1>5 DEF Copy
    <3> QED
      BY <2>2, <3>1, <3>3, <3>4 DEF EgressTypeOK
  <2> QED
    BY <1>5, <2>1, <2>2 DEF Copy, Remaining, Stopping, EgressTypeOK, budgetVars
<1>6. CASE Send(h)
  <2>1. failure' \in BOOLEAN
    BY <1>6 DEF Send, Remaining, Stopping, EgressTypeOK
  <2>2. CASE Leave(h)
    BY <1>6, <2>1, <2>2, LeaveType DEF Send, EgressTypeOK
  <2>3. CASE ~Leave(h)
    <3>1. chunk' \in [Handlers -> SUBSET (1..bytesSeen)] /\ sent' \subseteq 1..bytesSeen
      BY <1>6, <2>3 DEF Send, EgressTypeOK
    <3>2. handlerPc' \in [Handlers -> HandlerPlaces]
      BY <1>6, <2>3 DEF Send, EgressTypeOK, Goto
    <3> QED
      BY <1>6, <2>1, <2>3, <3>1, <3>2 DEF Send, EgressTypeOK
  <2> QED
    BY <2>2, <2>3
<1>7. CASE Release(h)
  BY <1>7 DEF Release, EgressTypeOK, budgetVars, Goto
<1> QED
  BY <1>1, <1>2, <1>3, <1>4, <1>5, <1>6, <1>7 DEF HandlerStep

\* Where the handlers are, after a step of one of them.
LEMMA OthersStay ==
  ASSUME EgressTypeOK, Carrying, NEW h \in Handlers, HandlerStep(h)
  PROVE  /\ \A g \in Handlers \ {h} : handlerPc'[g] = handlerPc[g]
         /\ handlerPc[h] \notin {Unborn, "refused", "unstarted", "ended"}
         /\ handlerPc'[h] = "counted" =>
              handlerPc[h] = "accepted" /\ requestsSeen' = requestsSeen + 1
         /\ \/ admitted' = admitted
            \/ /\ admitted' = admitted \cup {h} /\ handlerPc'[h] = "dial"
               /\ handlerPc[h] = "counted" /\ requestsSeen <= MaxRequests
         /\ requestsSeen' \in Nat /\ requestsSeen' >= requestsSeen
         /\ handlerPc'[h] \notin {Unborn, "refused", "unstarted", "accepted"}
         /\ handlerPc'[h] = "ended" => slots' = slots + 1
         /\ handlerPc'[h] # "ended" => slots' = slots
<1> USE DEF EgressTypeOK, Unborn, Copying
<1>1. CASE Authorize(h)
  BY <1>1 DEF Authorize, Leave, GoOn, Goto, budgetVars
<1>2. CASE Counted(h)
  <2>1. requestsSeen \in Nat /\ MaxRequests \in Nat
    BY EgressAssumption
  <2>2. CASE failure'
    BY <1>2, <2>1, <2>2 DEF Counted, Leave, Goto
  <2>3. CASE ~failure'
    <3>1. ~(requestsSeen > MaxRequests)
      BY <1>2, <2>3, Zenon DEF Counted
    <3>2. requestsSeen <= MaxRequests
      BY <2>1, <3>1
    <3> QED
      BY <1>2, <2>1, <2>3, <3>2 DEF Counted, GoOn, Goto
  <2> QED
    BY <2>2, <2>3
<1>3. CASE Dial(h)
  BY <1>3 DEF Dial, Leave, GoOn, Goto
<1>4. CASE RegisterUpstream(h)
  BY <1>4 DEF RegisterUpstream, Leave, Goto, budgetVars
<1>5. CASE Copy(h)
  BY <1>5 DEF Copy, Leave, Goto, budgetVars
<1>6. CASE Send(h)
  <2>1. UNCHANGED <<slots, requestsSeen, admitted>> /\ handlerPc[h] \in HandlerPlaces
    BY <1>6 DEF Send
  <2>2. CASE Leave(h)
    <3>1. handlerPc' = [handlerPc EXCEPT ![h] = "leaving"]
      BY <2>2 DEF Leave, Goto
    <3>2. handlerPc[h] \notin {Unborn, "refused", "unstarted", "ended"}
      BY <1>6 DEF Send, Carrying
    <3> QED
      BY <2>1, <3>1, <3>2
  <2>3. CASE ~Leave(h)
    BY <1>6, <2>1, <2>3 DEF Send, Goto, Carrying
  <2> QED
    BY <2>2, <2>3
<1>7. CASE Release(h)
  BY <1>7 DEF Release, Goto, budgetVars
<1> QED
  BY <1>1, <1>2, <1>3, <1>4, <1>5, <1>6, <1>7 DEF HandlerStep

LEMMA FiniteHandlers ==
  /\ IsFiniteSet(Handlers)
  /\ \A S \in SUBSET Handlers : IsFiniteSet(S) /\ Cardinality(S) \in Nat
<1>1. 1 \in Int /\ Connections \in Int
  BY EgressAssumption
<1>2. IsFiniteSet(Handlers)
  BY <1>1, FS_Interval DEF Handlers
<1> QED
  BY <1>2, FS_Subset, FS_CardinalityType

LEMMA FinitePlaces ==
  ASSUME EgressTypeOK
  PROVE  /\ IsFiniteSet(Holding) /\ IsFiniteSet(Authorized) /\ IsFiniteSet(admitted)
         /\ Cardinality(Holding) \in Nat /\ Cardinality(Authorized) \in Nat
         /\ Cardinality(admitted) \in Nat
<1>1. Holding \in SUBSET Handlers /\ Authorized \in SUBSET Handlers /\ admitted \in SUBSET Handlers
  BY DEF Holding, Authorized, EgressTypeOK
<1> QED
  BY <1>1, FiniteHandlers

\* A handler's step moves no slot but its own.
LEMMA SlotStep ==
  ASSUME EgressTypeOK, Carrying, slots + Cardinality(Holding) = Slots, NEW h \in Handlers, HandlerStep(h)
  PROVE  slots' \in 0..Slots /\ slots' + Cardinality(Holding') = Slots
<1>1. h \in Holding /\ IsFiniteSet(Holding)
  BY OthersStay, FinitePlaces DEF Holding
<1>2. slots \in Nat /\ Slots \in Nat /\ Cardinality(Holding) \in Nat
  BY FinitePlaces, EgressAssumption DEF EgressTypeOK
<1>3. CASE handlerPc'[h] = "ended"
  <2>1. Holding' = Holding \ {h} /\ slots' = slots + 1
    BY <1>3, OthersStay DEF Holding
  <2>2. Cardinality(Holding') = Cardinality(Holding) - 1
    BY <1>1, <2>1, FS_RemoveElement
  <2>3. Cardinality(Holding') \in Nat
    BY <1>1, <2>1, FS_RemoveElement, FS_CardinalityType
  <2> QED
    BY <1>2, <2>1, <2>2, <2>3
<1>4. CASE handlerPc'[h] # "ended"
  <2>1. Holding' = Holding /\ slots' = slots
    BY <1>4, OthersStay DEF Holding
  <2> QED
    BY <1>2, <2>1
<1> QED
  BY <1>3, <1>4

\* Going on to the target needs an authorization that was counted, and the count
\* within the budget when it was looked at; neither is ever taken back.
LEMMA AdmittedStep ==
  ASSUME EgressTypeOK, Carrying, AdmittedLater, Cardinality(Authorized) <= requestsSeen,
         Cardinality(admitted) <= MaxRequests, NEW h \in Handlers, HandlerStep(h)
  PROVE  /\ AdmittedLater' /\ Cardinality(Authorized') <= requestsSeen'
         /\ Cardinality(admitted') <= MaxRequests
<1>1. requestsSeen \in Nat /\ requestsSeen' \in Nat /\ requestsSeen' >= requestsSeen
  BY OthersStay DEF EgressTypeOK
<1>2. MaxRequests \in Nat
  BY EgressAssumption
<1>3. AdmittedLater'
  BY OthersStay DEF AdmittedLater, EgressTypeOK
<1>4. CASE handlerPc'[h] = "counted"
  <2>1. handlerPc[h] = "accepted" /\ requestsSeen' = requestsSeen + 1 /\ admitted' = admitted
    BY <1>4, OthersStay
  <2>2. Authorized' = Authorized \cup {h} /\ h \notin Authorized
    BY <1>4, <2>1, OthersStay DEF Authorized, AdmittedLater
  <2>3. Cardinality(Authorized') = Cardinality(Authorized) + 1
    BY <2>2, FinitePlaces, FS_AddElement
  <2> QED
    BY <1>1, <1>3, <2>1, <2>3, FinitePlaces
<1>5. CASE handlerPc'[h] # "counted"
  <2>1. Authorized' \subseteq Authorized /\ Authorized' \in SUBSET Handlers
    BY <1>5, OthersStay DEF Authorized, EgressTypeOK
  <2>2. Cardinality(Authorized') <= Cardinality(Authorized) /\ Cardinality(Authorized') \in Nat
    BY <2>1, FinitePlaces, FS_Subset, FS_CardinalityType
  <2>3. CASE admitted' = admitted
    BY <1>1, <1>3, <2>2, <2>3, FinitePlaces
  <2>4. CASE admitted' = admitted \cup {h} /\ handlerPc[h] = "counted" /\ requestsSeen <= MaxRequests
    <3>1. admitted' \subseteq Authorized /\ admitted' \in SUBSET Handlers
      BY <2>4 DEF Authorized, EgressTypeOK
    <3>2. Cardinality(admitted') <= Cardinality(Authorized) /\ Cardinality(admitted') \in Nat
      BY <3>1, FinitePlaces, FS_Subset, FS_CardinalityType
    <3> QED
      BY <1>1, <1>2, <1>3, <2>2, <2>4, <3>2, FinitePlaces
  <2> QED
    BY <2>3, <2>4, OthersStay
<1> QED
  BY <1>4, <1>5

\* A byte beyond the budget sets the failure as it is counted, and Send looks at
\* the failure before anything is forwarded.
LEMMA ForwardedStep ==
  ASSUME EgressTypeOK, bytesSeen > MaxBytes => failure, sent \subseteq 1..MaxBytes,
         NEW h \in Handlers, HandlerStep(h)
  PROVE  (bytesSeen' > MaxBytes => failure') /\ sent' \subseteq 1..MaxBytes
<1>1. bytesSeen \in Nat /\ MaxBytes \in Nat
  BY EgressAssumption DEF EgressTypeOK
<1>2. CASE UNCHANGED bytesSeen /\ (failure => failure') /\ UNCHANGED sent
  BY <1>2
<1>3. CASE Authorize(h) \/ Counted(h) \/ Dial(h) \/ RegisterUpstream(h) \/ Release(h)
  <2>1. UNCHANGED <<bytesSeen, sent>>
    BY <1>3 DEF Authorize, Counted, Dial, RegisterUpstream, Release, Leave, GoOn, budgetVars
  <2>2. failure => failure'
    BY <1>3 DEF Authorize, Counted, Dial, RegisterUpstream, Release, Remaining, budgetVars
  <2> QED
    BY <1>2, <2>1, <2>2
<1>4. CASE Copy(h)
  <2>1. UNCHANGED sent
    BY <1>4 DEF Copy, Leave
  <2>2. bytesSeen' > MaxBytes => failure'
    <3>1. CASE UNCHANGED bytesSeen /\ (failure => failure')
      BY <3>1
    <3>2. CASE failure' = (failure \/ bytesSeen' > MaxBytes)
      BY <3>2
    <3> QED
      BY <1>4, <3>1, <3>2 DEF Copy, Remaining, budgetVars
  <2> QED
    BY <2>1, <2>2
<1>5. CASE Send(h)
  <2>1. UNCHANGED bytesSeen /\ (failure => failure')
    BY <1>5 DEF Send, Remaining
  <2>2. CASE UNCHANGED sent
    BY <1>2, <2>1, <2>2
  <2>3. CASE ~failure' /\ sent' = sent \cup chunk[h]
    <3>1. bytesSeen <= MaxBytes
      BY <1>1, <2>1, <2>3
    <3>2. chunk[h] \subseteq 1..bytesSeen
      BY DEF EgressTypeOK
    <3>3. 1..bytesSeen \subseteq 1..MaxBytes
      BY <1>1, <3>1
    <3> QED
      BY <2>1, <2>3, <3>1, <3>2, <3>3
  <2> QED
    BY <1>5, <2>2, <2>3 DEF Send, Leave
<1> QED
  BY <1>3, <1>4, <1>5 DEF HandlerStep

LEMMA CarryingStep ==
  ASSUME EgressTypeOK, Carrying, NEW h \in Handlers, HandlerStep(h)
  PROVE  Carrying'
<1> USE DEF Carrying
<1>1. ASSUME NEW g \in Handlers \ {h} PROVE handlerPc'[g] = handlerPc[g] /\ chunk'[g] = chunk[g]
  <2>1. handlerPc'[g] = handlerPc[g]
    BY OthersStay
  <2>2. chunk'[g] = chunk[g]
    BY DEF EgressTypeOK, HandlerStep, Authorize, Counted, Dial, RegisterUpstream, Copy, Send,
           Release, Leave, GoOn
  <2> QED
    BY <2>1, <2>2
<1>2. chunk'[h] # {} => handlerPc'[h] \in Copying
  <2> USE DEF EgressTypeOK
  <2>1. CASE chunk' = [chunk EXCEPT ![h] = {}]
    BY <2>1
  <2>2. CASE chunk' # [chunk EXCEPT ![h] = {}]
    <3>1. ~Leave(h)
      BY <2>2 DEF Leave
    <3>2. CASE Authorize(h) \/ Counted(h) \/ Dial(h) \/ RegisterUpstream(h) \/ Release(h)
      <4>1. UNCHANGED chunk /\ handlerPc[h] \in {"accepted", "counted", "dial", "tunnel", "body", "leaving"}
        BY <3>1, <3>2 DEF Authorize, Counted, Dial, RegisterUpstream, Release, GoOn
      <4>2. RegisterUpstream(h) => chunk[h] = {}
        BY DEF RegisterUpstream
      <4>3. ~RegisterUpstream(h) => handlerPc[h] # "body"
        BY <3>2 DEF Authorize, Counted, Dial, Release
      <4> QED
        BY <4>1, <4>2, <4>3 DEF Copying
    <3>3. CASE Copy(h)
      BY <3>1, <3>3 DEF Copy
    <3>4. CASE Send(h)
      BY <2>2, <3>1, <3>4 DEF Send
    <3> QED
      BY <3>2, <3>3, <3>4 DEF HandlerStep
  <2> QED
    BY <2>1, <2>2
<1> QED
  BY <1>1, <1>2

LEMMA BudgetInit == EgressInit => BudgetInv
<1> SUFFICES ASSUME EgressInit PROVE BudgetInv
  OBVIOUS
<1>1. Holding = {} /\ Authorized = {} /\ admitted = {}
  BY DEF EgressInit, Holding, Authorized, Unborn
<1>2. Cardinality({}) = 0
  BY FS_EmptySet
<1> QED
  BY <1>1, <1>2, EgressTypeInit, EgressAssumption DEF EgressInit, BudgetInv, Carrying, AdmittedLater

LEMMA BudgetStep == BudgetInv /\ [EgressNext]_egressVars => BudgetInv'
<1> SUFFICES ASSUME BudgetInv, [EgressNext]_egressVars PROVE BudgetInv'
  OBVIOUS
<1> USE DEF BudgetInv
<1>1. ASSUME NEW h \in Handlers, HandlerStep(h) PROVE BudgetInv'
  BY <1>1, HandlerType, CarryingStep, SlotStep, AdmittedStep, ForwardedStep
<1>2. ASSUME NEW h \in Handlers, Accept(h) PROVE BudgetInv'
  <2>1. /\ handlerPc[h] = Unborn /\ handlerPc'[h] \in {"refused", "accepted", "unstarted"}
        /\ \A g \in Handlers \ {h} : handlerPc'[g] = handlerPc[g]
        /\ handlerPc' \in [Handlers -> HandlerPlaces]
        /\ handlerPc'[h] = "refused" => slots' = slots
        /\ handlerPc'[h] # "refused" => slots' = slots - 1 /\ slots # 0
    BY <1>2 DEF Accept, Goto, EgressTypeOK, HandlerPlaces, Ended
  <2>2. Authorized' = Authorized /\ admitted' = admitted /\ AdmittedLater'
    <3>1. admitted' = admitted /\ h \notin admitted
      BY <1>2, <2>1 DEF Accept, AdmittedLater
    <3> QED
      BY <2>1, <3>1 DEF Authorized, AdmittedLater, EgressTypeOK, Unborn
  <2>3. slots' \in 0..Slots /\ slots' + Cardinality(Holding') = Slots
    <3>1. slots \in Nat /\ Slots \in Nat /\ slots <= Slots
      BY EgressAssumption DEF EgressTypeOK
    <3>2. CASE handlerPc'[h] = "refused"
      <4>1. Holding' = Holding
        BY <2>1, <3>2 DEF Holding
      <4> QED
        BY <2>1, <3>1, <3>2, <4>1
    <3>3. CASE handlerPc'[h] # "refused"
      <4>1. Holding' = Holding \cup {h} /\ h \notin Holding
        BY <2>1, <3>3 DEF Holding, Unborn
      <4>2. Cardinality(Holding') = Cardinality(Holding) + 1
        BY <4>1, FinitePlaces, FS_AddElement
      <4> QED
        BY <2>1, <3>1, <3>3, <4>2, FinitePlaces
    <3> QED
      BY <3>2, <3>3
  <2>4. failure' \in BOOLEAN /\ (failure => failure')
    BY <1>2 DEF Accept, EgressTypeOK
  <2>5. connections' \subseteq EgressSockets
    <3>1. Client(h) \in EgressSockets
      BY DEF Client, EgressSockets
    <3> QED
      BY <1>2, <3>1 DEF Accept, EgressTypeOK
  <2> QED
    BY <1>2, <2>1, <2>2, <2>3, <2>4, <2>5 DEF Accept, EgressTypeOK, Carrying, Copying, Unborn
<1>3. CASE EgressDeadline \/ AskBudget \/ ExitStops \/ ExitCloses \/ UNCHANGED egressVars
  <2>1. /\ UNCHANGED <<handlerPc, chunk, sent, slots, connections, budgetVars, admitted>>
        /\ overdue' \in BOOLEAN
        /\ exitPc' \in {"rendering", "verified", "failed", "stopping", "closed"}
    BY <1>3 DEF EgressDeadline, AskBudget, ExitStops, ExitCloses, egressVars, EgressTypeOK
  <2>2. Holding' = Holding /\ Authorized' = Authorized /\ AdmittedLater'
    BY <2>1 DEF Holding, Authorized, AdmittedLater
  <2> QED
    BY <2>1, <2>2 DEF EgressTypeOK, budgetVars, Carrying
<1> QED
  BY <1>1, <1>2, <1>3 DEF EgressNext

\* The page's budgets hold over its whole life, for any number of connections, slots
\* and requests, in every interleaving of the handlers, the deadline and the
\* renderer's exit, although each handler looks at counters that others move
\* (src/security/browser_proxy.py:337-350).
THEOREM BudgetsHold == EgressSpec => []BudgetNeverPassed
<1>1. BudgetInv => BudgetNeverPassed
  <2> SUFFICES ASSUME BudgetInv PROVE Cardinality(sent) <= MaxBytes
    BY DEF BudgetInv, BudgetNeverPassed
  <2>1. MaxBytes \in Nat /\ 1 \in Int /\ MaxBytes \in Int
    BY EgressAssumption
  <2>2. IsFiniteSet(1..MaxBytes) /\ Cardinality(1..MaxBytes) = MaxBytes
    BY <2>1, FS_Interval
  <2> QED
    BY <2>2, FS_Subset DEF BudgetInv
<1> QED
  BY <1>1, BudgetInit, BudgetStep, PTL DEF EgressSpec


-----------------------------------------------------------------------------
(* A bounded call.  While the call goes on, what runs under a job is in it;  *)
(* the kill leaves nothing alive in the group or the job, and then nothing   *)
(* can be born in it; a value means the end of the output was read before.   *)

\* Processes that do not exist are nowhere, and only the launcher waits at a gate.
Births ==
  /\ \A p \in Processes : life[p] = "absent" => p \notin contained /\ p \notin holders
  /\ \A p \in Processes : life[p] = "gate" => p = Leader
  /\ callPc = "start" => \A p \in Processes : life[p] = "absent"

\* The job or the group.
Containment ==
  /\ callPc \in {"start", "assign"} => contained = {}
  /\ callPc \in {"assign", "active", "members"} => Windows
  /\ ~Windows => handles = {}
  /\ contained # {} => Leader \in contained
  /\ callPc \in {"feed", "read", "poll"} => Leader \in contained
  /\ answer = "value" => Leader \in contained
  /\ Windows => \A p \in Processes : life[p] = "running" => p \in contained

Collected == {"active", "members", "wait", "done"}

Killing ==
  callPc \in Collected =>
    /\ \A p \in contained : p \notin Living
    /\ Windows => Living = {}

Waiting ==
  answer = "value" =>
    /\ callPc \in {"cleanup"} \cup Collected
    /\ Windows /\ callPc \in {"members", "wait", "done"} => \A p \in contained : ~CountedByJob(p)
    /\ Windows /\ callPc \in {"wait", "done"} => \A p \in handles : life[p] \in Over
    /\ ~Windows /\ callPc = "done" => \A p \in contained : life[p] \in Over

Output ==
  /\ heard + outPipe = said
  /\ eof => outPipe = 0 /\ holders = {}
  /\ answer # "error" => heard <= OutputLimit
  /\ answer = "value" => eof
  /\ callPc \in {"start", "assign", "feed", "read", "poll"} => answer = "none"
  /\ callPc = "start" => ~eof

CallInv == ProcessTypeOK /\ Births /\ Containment /\ Killing /\ Waiting /\ Output

LEMMA CallTypeStep ==
  ASSUME ProcessTypeOK, Containment, Output, [ProcessNext]_processVars
  PROVE  ProcessTypeOK'
<1> USE ProcessAssumption DEF ProcessTypeOK, Containment, Output, Payload, Windows, CountedByJob, Living, Over, treeVars, restVars
<1>1. CASE Launch
  BY <1>1 DEF Launch
<1>2. CASE LaunchFails
  BY <1>2 DEF LaunchFails
<1>3. CASE Assign
  BY <1>3 DEF Assign
<1>4. CASE AssignFails
  BY <1>4 DEF AssignFails, Raises
<1>5. CASE TimesOut
  BY <1>5 DEF TimesOut, Raises
<1>6. CASE Feed
  BY <1>6 DEF Feed, Captured, Opened
<1>7. CASE FeedFails
  BY <1>7 DEF FeedFails, Raises
<1>8. CASE Read
  <2>1. heard \in Nat /\ outPipe \in Nat /\ said \in Nat
    OBVIOUS
  <2>2. (outPipe' = outPipe /\ heard' = heard) \/ (outPipe # 0 /\ outPipe' = outPipe - 1 /\ heard' = heard + 1)
    BY <1>8 DEF Read, AtEof
  <2>3. outPipe' \in 0..PipeSize /\ heard' \in 0..said
    BY <2>1, <2>2
  <2>4. /\ eof' \in BOOLEAN /\ answer' \in {"none", "value", "error"}
        /\ callPc' \in {"poll", "cleanup"}
    BY <1>8 DEF Read, Raises
  <2> QED
    BY <1>8, <2>3, <2>4 DEF Read
<1>9. CASE Poll
  BY <1>9 DEF Poll
<1>10. CASE Kill
  BY <1>10 DEF Kill, Captured, Killed
<1>11. CASE TerminateFails
  BY <1>11 DEF TerminateFails, CloseJob, Killed
<1>12. CASE TerminateTimesOut
  BY <1>12 DEF TerminateTimesOut, CloseJob, Killed
<1>13. CASE Inactive
  BY <1>13 DEF Inactive
<1>14. CASE MembersSignalled
  BY <1>14 DEF MembersSignalled
<1>15. CASE Return
  BY <1>15 DEF Return, Quiet, LeaderGone
<1>16. CASE WaitTimesOut
  BY <1>16 DEF WaitTimesOut, WaitEnds
<1>17. ASSUME NEW p \in Processes, NEW q \in Processes, Fork(p, q) PROVE ProcessTypeOK'
  BY <1>17 DEF Fork
<1>18. ASSUME NEW p \in Processes, LeaveGroup(p) PROVE ProcessTypeOK'
  BY <1>18 DEF LeaveGroup
<1>19. ASSUME NEW p \in Processes, WriteOutput(p) PROVE ProcessTypeOK'
  BY <1>19 DEF WriteOutput
<1>20. ASSUME NEW p \in Processes, CloseOutput(p) PROVE ProcessTypeOK'
  BY <1>20 DEF CloseOutput
<1>21. ASSUME NEW p \in Processes, Exit(p) PROVE ProcessTypeOK'
  BY <1>21 DEF Exit
<1>22. ASSUME NEW p \in Processes, Vanish(p) PROVE ProcessTypeOK'
  BY <1>22 DEF Vanish, Going
<1>23. CASE DeadlinePasses \/ CleanupDeadlinePasses \/ UNCHANGED processVars
  BY <1>23 DEF DeadlinePasses, CleanupDeadlinePasses, processVars
<1> QED
  BY <1>1, <1>2, <1>3, <1>4, <1>5, <1>6, <1>7, <1>8, <1>9, <1>10, <1>11, <1>12, <1>13, <1>14, <1>15, <1>16, <1>17, <1>18, <1>19, <1>20, <1>21, <1>22, <1>23 DEF ProcessNext, CallStep, CallFails

LEMMA BirthsStep ==
  ASSUME ProcessTypeOK, Births, [ProcessNext]_processVars
  PROVE  Births'
<1> USE ProcessAssumption DEF ProcessTypeOK, Births, Living, Windows, treeVars, restVars
<1>1. CASE Launch
  BY <1>1 DEF Launch
<1>2. CASE LaunchFails
  BY <1>2 DEF LaunchFails
<1>3. CASE Assign
  BY <1>3 DEF Assign
<1>4. CASE AssignFails
  BY <1>4 DEF AssignFails, Raises
<1>5. CASE TimesOut
  BY <1>5 DEF TimesOut, Raises
<1>6. CASE Feed
  BY <1>6 DEF Feed, Captured, Opened
<1>7. CASE FeedFails
  BY <1>7 DEF FeedFails, Raises
<1>8. CASE Read
  BY <1>8 DEF Read, Raises, AtEof
<1>9. CASE Poll
  BY <1>9 DEF Poll
<1>10. CASE Kill
  BY <1>10 DEF Kill, Captured, Killed
<1>11. CASE TerminateFails
  BY <1>11 DEF TerminateFails, CloseJob, Killed
<1>12. CASE TerminateTimesOut
  BY <1>12 DEF TerminateTimesOut, CloseJob, Killed
<1>13. CASE Inactive
  BY <1>13 DEF Inactive
<1>14. CASE MembersSignalled
  BY <1>14 DEF MembersSignalled
<1>15. CASE Return
  BY <1>15 DEF Return, Quiet, LeaderGone
<1>16. CASE WaitTimesOut
  BY <1>16 DEF WaitTimesOut, WaitEnds
<1>17. ASSUME NEW p \in Processes, NEW q \in Processes, Fork(p, q) PROVE Births'
  BY <1>17 DEF Fork
<1>18. ASSUME NEW p \in Processes, LeaveGroup(p) PROVE Births'
  BY <1>18 DEF LeaveGroup
<1>19. ASSUME NEW p \in Processes, WriteOutput(p) PROVE Births'
  BY <1>19 DEF WriteOutput
<1>20. ASSUME NEW p \in Processes, CloseOutput(p) PROVE Births'
  BY <1>20 DEF CloseOutput
<1>21. ASSUME NEW p \in Processes, Exit(p) PROVE Births'
  BY <1>21 DEF Exit
<1>22. ASSUME NEW p \in Processes, Vanish(p) PROVE Births'
  BY <1>22 DEF Vanish, Going
<1>23. CASE DeadlinePasses \/ CleanupDeadlinePasses \/ UNCHANGED processVars
  BY <1>23 DEF DeadlinePasses, CleanupDeadlinePasses, processVars
<1> QED
  BY <1>1, <1>2, <1>3, <1>4, <1>5, <1>6, <1>7, <1>8, <1>9, <1>10, <1>11, <1>12, <1>13, <1>14, <1>15, <1>16, <1>17, <1>18, <1>19, <1>20, <1>21, <1>22, <1>23 DEF ProcessNext, CallStep, CallFails

LEMMA ContainmentStep ==
  ASSUME ProcessTypeOK, Births, Containment, [ProcessNext]_processVars
  PROVE  Containment'
<1> USE ProcessAssumption DEF ProcessTypeOK, Births, Containment, Windows, Living, treeVars, restVars
<1>1. CASE Launch
  BY <1>1 DEF Launch
<1>2. CASE LaunchFails
  BY <1>2 DEF LaunchFails
<1>3. CASE Assign
  BY <1>3 DEF Assign
<1>4. CASE AssignFails
  BY <1>4 DEF AssignFails, Raises
<1>5. CASE TimesOut
  BY <1>5 DEF TimesOut, Raises
<1>6. CASE Feed
  BY <1>6 DEF Feed, Captured, Opened
<1>7. CASE FeedFails
  BY <1>7 DEF FeedFails, Raises
<1>8. CASE Read
  BY <1>8 DEF Read, Raises, AtEof
<1>9. CASE Poll
  BY <1>9 DEF Poll
<1>10. CASE Kill
  BY <1>10 DEF Kill, Captured, Killed
<1>11. CASE TerminateFails
  BY <1>11 DEF TerminateFails, CloseJob, Killed
<1>12. CASE TerminateTimesOut
  BY <1>12 DEF TerminateTimesOut, CloseJob, Killed
<1>13. CASE Inactive
  BY <1>13 DEF Inactive
<1>14. CASE MembersSignalled
  BY <1>14 DEF MembersSignalled
<1>15. CASE Return
  BY <1>15 DEF Return, Quiet, LeaderGone
<1>16. CASE WaitTimesOut
  BY <1>16 DEF WaitTimesOut, WaitEnds
<1>17. ASSUME NEW p \in Processes, NEW q \in Processes, Fork(p, q) PROVE Containment'
  BY <1>17 DEF Fork
<1>18. ASSUME NEW p \in Processes, LeaveGroup(p) PROVE Containment'
  BY <1>18 DEF LeaveGroup
<1>19. ASSUME NEW p \in Processes, WriteOutput(p) PROVE Containment'
  BY <1>19 DEF WriteOutput
<1>20. ASSUME NEW p \in Processes, CloseOutput(p) PROVE Containment'
  BY <1>20 DEF CloseOutput
<1>21. ASSUME NEW p \in Processes, Exit(p) PROVE Containment'
  BY <1>21 DEF Exit
<1>22. ASSUME NEW p \in Processes, Vanish(p) PROVE Containment'
  BY <1>22 DEF Vanish, Going
<1>23. CASE DeadlinePasses \/ CleanupDeadlinePasses \/ UNCHANGED processVars
  BY <1>23 DEF DeadlinePasses, CleanupDeadlinePasses, processVars
<1> QED
  BY <1>1, <1>2, <1>3, <1>4, <1>5, <1>6, <1>7, <1>8, <1>9, <1>10, <1>11, <1>12, <1>13, <1>14, <1>15, <1>16, <1>17, <1>18, <1>19, <1>20, <1>21, <1>22, <1>23 DEF ProcessNext, CallStep, CallFails

LEMMA KillingStep ==
  ASSUME ProcessTypeOK, Births, Containment, Killing, [ProcessNext]_processVars
  PROVE  Killing'
<1> USE ProcessAssumption DEF ProcessTypeOK, Births, Containment, Killing, Collected, Windows, Living, Going, treeVars, restVars
<1>1. CASE Launch
  BY <1>1 DEF Launch
<1>2. CASE LaunchFails
  BY <1>2 DEF LaunchFails
<1>3. CASE Assign
  BY <1>3 DEF Assign
<1>4. CASE AssignFails
  BY <1>4 DEF AssignFails, Raises
<1>5. CASE TimesOut
  BY <1>5 DEF TimesOut, Raises
<1>6. CASE Feed
  BY <1>6 DEF Feed, Captured, Opened
<1>7. CASE FeedFails
  BY <1>7 DEF FeedFails, Raises
<1>8. CASE Read
  BY <1>8 DEF Read, Raises, AtEof
<1>9. CASE Poll
  BY <1>9 DEF Poll
<1>10. CASE Kill
  BY <1>10 DEF Kill, Captured, Killed
<1>11. CASE TerminateFails
  BY <1>11 DEF TerminateFails, CloseJob, Killed
<1>12. CASE TerminateTimesOut
  BY <1>12 DEF TerminateTimesOut, CloseJob, Killed
<1>13. CASE Inactive
  BY <1>13 DEF Inactive
<1>14. CASE MembersSignalled
  BY <1>14 DEF MembersSignalled
<1>15. CASE Return
  BY <1>15 DEF Return, Quiet, LeaderGone
<1>16. CASE WaitTimesOut
  BY <1>16 DEF WaitTimesOut, WaitEnds
<1>17. ASSUME NEW p \in Processes, NEW q \in Processes, Fork(p, q) PROVE Killing'
  BY <1>17 DEF Fork
<1>18. ASSUME NEW p \in Processes, LeaveGroup(p) PROVE Killing'
  BY <1>18 DEF LeaveGroup
<1>19. ASSUME NEW p \in Processes, WriteOutput(p) PROVE Killing'
  BY <1>19 DEF WriteOutput
<1>20. ASSUME NEW p \in Processes, CloseOutput(p) PROVE Killing'
  BY <1>20 DEF CloseOutput
<1>21. ASSUME NEW p \in Processes, Exit(p) PROVE Killing'
  BY <1>21 DEF Exit
<1>22. ASSUME NEW p \in Processes, Vanish(p) PROVE Killing'
  BY <1>22 DEF Vanish
<1>23. CASE DeadlinePasses \/ CleanupDeadlinePasses \/ UNCHANGED processVars
  BY <1>23 DEF DeadlinePasses, CleanupDeadlinePasses, processVars
<1> QED
  BY <1>1, <1>2, <1>3, <1>4, <1>5, <1>6, <1>7, <1>8, <1>9, <1>10, <1>11, <1>12, <1>13, <1>14, <1>15, <1>16, <1>17, <1>18, <1>19, <1>20, <1>21, <1>22, <1>23 DEF ProcessNext, CallStep, CallFails

LEMMA WaitingStep ==
  ASSUME ProcessTypeOK, Births, Containment, Killing, Waiting, Output, [ProcessNext]_processVars
  PROVE  Waiting'
<1> USE ProcessAssumption DEF ProcessTypeOK, Births, Containment, Killing, Waiting, Collected, Windows, Living, CountedByJob, Over, Going, Output, treeVars, restVars
<1>1. CASE Launch
  BY <1>1 DEF Launch
<1>2. CASE LaunchFails
  BY <1>2 DEF LaunchFails
<1>3. CASE Assign
  BY <1>3 DEF Assign
<1>4. CASE AssignFails
  BY <1>4 DEF AssignFails, Raises
<1>5. CASE TimesOut
  BY <1>5 DEF TimesOut, Raises
<1>6. CASE Feed
  BY <1>6 DEF Feed, Captured, Opened
<1>7. CASE FeedFails
  BY <1>7 DEF FeedFails, Raises
<1>8. CASE Read
  BY <1>8 DEF Read, Raises, AtEof
<1>9. CASE Poll
  BY <1>9 DEF Poll
<1>10. CASE Kill
  BY <1>10 DEF Kill, Captured, Killed
<1>11. CASE TerminateFails
  BY <1>11 DEF TerminateFails, CloseJob, Killed
<1>12. CASE TerminateTimesOut
  BY <1>12 DEF TerminateTimesOut, CloseJob, Killed
<1>13. CASE Inactive
  BY <1>13 DEF Inactive
<1>14. CASE MembersSignalled
  BY <1>14 DEF MembersSignalled
<1>15. CASE Return
  BY <1>15 DEF Return, Quiet, LeaderGone
<1>16. CASE WaitTimesOut
  BY <1>16 DEF WaitTimesOut, WaitEnds
<1>17. ASSUME NEW p \in Processes, NEW q \in Processes, Fork(p, q) PROVE Waiting'
  BY <1>17 DEF Fork
<1>18. ASSUME NEW p \in Processes, LeaveGroup(p) PROVE Waiting'
  BY <1>18 DEF LeaveGroup
<1>19. ASSUME NEW p \in Processes, WriteOutput(p) PROVE Waiting'
  BY <1>19 DEF WriteOutput
<1>20. ASSUME NEW p \in Processes, CloseOutput(p) PROVE Waiting'
  BY <1>20 DEF CloseOutput
<1>21. ASSUME NEW p \in Processes, Exit(p) PROVE Waiting'
  BY <1>21 DEF Exit
<1>22. ASSUME NEW p \in Processes, Vanish(p) PROVE Waiting'
  BY <1>22 DEF Vanish
<1>23. CASE DeadlinePasses \/ CleanupDeadlinePasses \/ UNCHANGED processVars
  BY <1>23 DEF DeadlinePasses, CleanupDeadlinePasses, processVars
<1> QED
  BY <1>1, <1>2, <1>3, <1>4, <1>5, <1>6, <1>7, <1>8, <1>9, <1>10, <1>11, <1>12, <1>13, <1>14, <1>15, <1>16, <1>17, <1>18, <1>19, <1>20, <1>21, <1>22, <1>23 DEF ProcessNext, CallStep, CallFails

LEMMA OutputStep ==
  ASSUME ProcessTypeOK, Births, Output, [ProcessNext]_processVars
  PROVE  Output'
<1> USE ProcessAssumption DEF ProcessTypeOK, Output, Births, Windows, treeVars, restVars
<1>1. CASE Launch
  BY <1>1 DEF Launch
<1>2. CASE LaunchFails
  BY <1>2 DEF LaunchFails
<1>3. CASE Assign
  BY <1>3 DEF Assign
<1>4. CASE AssignFails
  BY <1>4 DEF AssignFails, Raises
<1>5. CASE TimesOut
  BY <1>5 DEF TimesOut, Raises
<1>6. CASE Feed
  BY <1>6 DEF Feed, Captured, Opened
<1>7. CASE FeedFails
  BY <1>7 DEF FeedFails, Raises
<1>8. CASE Read
  BY <1>8 DEF Read, Raises, AtEof
<1>9. CASE Poll
  BY <1>9 DEF Poll
<1>10. CASE Kill
  BY <1>10 DEF Kill, Captured, Killed
<1>11. CASE TerminateFails
  BY <1>11 DEF TerminateFails, CloseJob, Killed
<1>12. CASE TerminateTimesOut
  BY <1>12 DEF TerminateTimesOut, CloseJob, Killed
<1>13. CASE Inactive
  BY <1>13 DEF Inactive
<1>14. CASE MembersSignalled
  BY <1>14 DEF MembersSignalled
<1>15. CASE Return
  BY <1>15 DEF Return, Quiet, LeaderGone
<1>16. CASE WaitTimesOut
  BY <1>16 DEF WaitTimesOut, WaitEnds
<1>17. ASSUME NEW p \in Processes, NEW q \in Processes, Fork(p, q) PROVE Output'
  BY <1>17 DEF Fork
<1>18. ASSUME NEW p \in Processes, LeaveGroup(p) PROVE Output'
  BY <1>18 DEF LeaveGroup
<1>19. ASSUME NEW p \in Processes, WriteOutput(p) PROVE Output'
  BY <1>19 DEF WriteOutput
<1>20. ASSUME NEW p \in Processes, CloseOutput(p) PROVE Output'
  BY <1>20 DEF CloseOutput
<1>21. ASSUME NEW p \in Processes, Exit(p) PROVE Output'
  BY <1>21 DEF Exit
<1>22. ASSUME NEW p \in Processes, Vanish(p) PROVE Output'
  BY <1>22 DEF Vanish, Going
<1>23. CASE DeadlinePasses \/ CleanupDeadlinePasses \/ UNCHANGED processVars
  BY <1>23 DEF DeadlinePasses, CleanupDeadlinePasses, processVars
<1> QED
  BY <1>1, <1>2, <1>3, <1>4, <1>5, <1>6, <1>7, <1>8, <1>9, <1>10, <1>11, <1>12, <1>13, <1>14, <1>15, <1>16, <1>17, <1>18, <1>19, <1>20, <1>21, <1>22, <1>23 DEF ProcessNext, CallStep, CallFails

LEMMA CallInit == ProcessInit => CallInv
<1> SUFFICES ASSUME ProcessInit PROVE CallInv
  OBVIOUS
<1> USE ProcessAssumption DEF ProcessInit
<1>1. ProcessTypeOK
  <2>1. Payload \in Nat
    BY DEF Payload
  <2>2. outPipe \in 0..PipeSize /\ said \in 0..MaxOutput /\ heard \in 0..said /\ fed \in 0..Payload
    BY <2>1
  <2>3. {eof, closedJob, past, pastCleanup} \subseteq BOOLEAN
    OBVIOUS
  <2>4. handles \subseteq contained /\ contained \subseteq Processes /\ holders \subseteq Processes
    OBVIOUS
  <2> QED
    BY <2>2, <2>3, <2>4 DEF ProcessTypeOK
<1>2. Births
  BY DEF Births
<1>3. Containment
  BY DEF Containment, Windows
<1>4. Killing /\ Waiting
  BY DEF Killing, Waiting, Collected
<1>5. Output
  BY DEF Output
<1> QED
  BY <1>1, <1>2, <1>3, <1>4, <1>5 DEF CallInv

\* When a bounded call returns, nothing that it contains runs on; when it returns a
\* value, all of it is gone and the value is the whole output
\* (src/scripts/publication_process.py:62-110, 130-200).
THEOREM ReturnsAreFinal == ProcessSpec => []ReturnIsFinal
<1>1. CallInv => ReturnIsFinal
  <2> SUFFICES ASSUME CallInv PROVE ReturnIsFinal
    OBVIOUS
  <2> USE DEF CallInv
  <2>1. callPc = "done" => \A p \in contained : p \notin Living
    BY DEF Killing, Collected
  <2>2. callPc = "done" /\ answer = "value" =>
          \A p \in contained : life[p] \in Over \/ (Windows /\ p \notin handles /\ ~CountedByJob(p))
    BY DEF Waiting
  <2>3. answer = "value" => heard = said /\ said <= OutputLimit /\ outPipe = 0
    BY DEF Output, ProcessTypeOK
  <2> QED
    BY <2>1, <2>2, <2>3 DEF ReturnIsFinal, Containment
<1>2. CallInv /\ [ProcessNext]_processVars => CallInv'
  <2> SUFFICES ASSUME CallInv, [ProcessNext]_processVars PROVE CallInv'
    OBVIOUS
  <2> QED
    BY CallTypeStep, BirthsStep, ContainmentStep, KillingStep, WaitingStep, OutputStep DEF CallInv
<1> QED
  BY <1>1, <1>2, CallInit, PTL DEF ProcessSpec

-----------------------------------------------------------------------------
(* The preparation of a publication: what has been built stays built, and   *)
(* nothing a consumer has read can become older than what it saw when it    *)
(* began.                                                                   *)

Subjects == [number : Nat, ci : Nat, at : Nat]
Artifacts == [name : {"publication-build", "publication-candidate"}, at : Nat, subject : Subjects]
Builds == [state : {"queued"}] \cup [state : {"success"}, start : Nat, end : Nat, output : Artifacts]
Validations == [state : {"running", "success", "failure"}, start : Nat, end : Nat]
Attempts == [state : {"running", "success", "failure"}, start : Nat, end : Nat, build : Builds]
Seen == [moved : BOOLEAN, number : Nat, ci : Nat]
Workers ==
  [pc : {"idle", "build", "attest", "uploaded"}] \cup [pc : {"validate", "handoff", "revalidate"}, now : Nat]
    \cup [pc : {"upload"}, now : Nat, ci : Nat] \cup [pc : {"sign", "preserve"}, subject : Subjects]
Consumers ==
  {Idle} \cup [pc : {"preparation"}, now : Nat, artifact : Artifacts, seen : Seen]
    \cup [pc : {"validation", "attestations"}, now : Nat, artifact : Artifacts, seen : Seen, times : SUBSET Nat]

PrepTypeOK ==
  /\ prepClock \in Nat /\ moved \in BOOLEAN
  /\ validation \in Seq(Validations) /\ attempts \in Seq(Attempts)
  /\ artifacts \subseteq Artifacts
  /\ attested \subseteq [subject : Subjects, number : Nat]
  /\ worker \in Workers /\ consumer \in Consumers
  /\ accepted \subseteq [artifact : Artifacts, seen : Seen, at : Nat]

\* What a subject says of its validation.
Succeeds(ci, now) == ci \in DOMAIN validation /\ validation[ci].state = "success" /\ validation[ci].end <= now

Built(subject) == subject.number \in 1..Latest /\ Succeeds(subject.ci, subject.at)

Succeeded == {i \in DOMAIN attempts : attempts[i].build.state = "success"}
Products == artifacts \cup {attempts[i].build.output : i \in Succeeded}

ProductsInv ==
  /\ \A a \in Products : Built(a.subject)
  /\ \A s \in attested : s.subject.number = s.number

WorkerInv ==
  /\ worker.pc # "idle" => Running
  /\ worker.pc = "upload" => Succeeds(worker.ci, worker.now)
  /\ worker.pc \in {"attest", "handoff", "revalidate"} => attempts[Latest].build.state = "success"
  /\ worker.pc = "revalidate" => attempts[Latest].build.output.subject.number = Latest
  /\ worker.pc \in {"sign", "preserve"} => Built(worker.subject) /\ worker.subject.number = Latest

ConsumerInv ==
  consumer.pc # "idle" =>
    LET subject == consumer.artifact.subject
        seen == consumer.seen
    IN  /\ Built(subject)
        /\ subject.number <= seen.number /\ seen.number <= Latest
        /\ subject.ci <= seen.ci /\ seen.ci <= Len(validation)
        /\ seen.moved => moved
        /\ consumer.pc # "preparation" =>
             ~seen.moved /\ seen.number = subject.number /\ consumer.artifact.name = "publication-candidate"
        /\ consumer.pc = "attestations" => seen.ci = subject.ci

AcceptedInv ==
  \A a \in accepted :
    LET subject == a.artifact.subject
    IN  /\ Built(subject) /\ Signed(subject)
        /\ ~a.seen.moved /\ a.seen.number = subject.number /\ a.seen.ci = subject.ci
        /\ a.artifact.name = "publication-candidate"
        /\ a.at < subject.at + PreparedTtl

PrepInv == PrepTypeOK /\ ProductsInv /\ WorkerInv /\ ConsumerInv /\ AcceptedInv

LEMMA PrepInitInv == PreparationInit => PrepInv
<1> SUFFICES ASSUME PreparationInit PROVE PrepInv
  OBVIOUS
<1>1. PrepTypeOK
  <2>1. Idle \in Workers /\ Idle \in Consumers
    <3>1. Idle \in [pc : {"idle", "build", "attest", "uploaded"}]
      BY DEF Idle
    <3>2. Idle \in Workers
      BY <3>1 DEF Workers
    <3>3. Idle \in Consumers
      BY Zenon DEF Consumers
    <3> QED
      BY <3>2, <3>3
  <2>2. /\ prepClock = 0 /\ moved = FALSE /\ validation = <<>> /\ attempts = <<>>
        /\ artifacts = {} /\ attested = {} /\ accepted = {} /\ worker = Idle /\ consumer = Idle
    BY DEF PreparationInit
  <2>3. moved \in BOOLEAN
    BY <2>2, Zenon
  <2> QED
    BY <2>1, <2>2, <2>3 DEF PrepTypeOK
<1>2. ProductsInv /\ AcceptedInv
  BY DEF PreparationInit, ProductsInv, Products, Succeeded, AcceptedInv
<1>3. WorkerInv /\ ConsumerInv
  BY DEF PreparationInit, WorkerInv, ConsumerInv, Idle
<1> QED
  BY <1>1, <1>2, <1>3 DEF PrepInv

\* No step takes anything back: attempts and signatures are only added, a
\* validation that has succeeded stays as it was, and main does not return.
PrepGrows ==
  /\ Latest \in Nat /\ Latest' \in Nat /\ Latest <= Latest'
  /\ Len(validation) \in Nat /\ Len(validation') \in Nat /\ Len(validation) <= Len(validation')
  /\ DOMAIN validation \subseteq DOMAIN validation'
  /\ \A c \in DOMAIN validation : validation[c].state = "success" => validation'[c] = validation[c]
  /\ moved => moved'
  /\ attested \subseteq attested'

LEMMA BuiltStays ==
  ASSUME PrepTypeOK, PrepGrows
  PROVE  /\ \A c, now : Succeeds(c, now) => Succeeds(c, now)'
         /\ \A s : Built(s) => Built(s)'
         /\ \A s : Signed(s) => Signed(s)'
<1> USE DEF PrepGrows
<1>1. \A c, now : Succeeds(c, now) => Succeeds(c, now)'
  BY DEF Succeeds
<1>2. \A s : Built(s) => Built(s)'
  <2>1. \A n \in 1..Latest : n \in 1..Latest'
    OBVIOUS
  <2> HIDE DEF PrepGrows
  <2> QED
    BY <1>1, <2>1, Zenon DEF Built
<1>3. \A s : Signed(s) => Signed(s)'
  BY DEF Signed
<1> QED
  BY <1>1, <1>2, <1>3, Zenon

LEMMA PrepStepGrows == PrepTypeOK /\ [PreparationNext]_prepVars => PrepGrows
<1> SUFFICES ASSUME PrepTypeOK, [PreparationNext]_prepVars PROVE PrepGrows
  OBVIOUS
<1>1. Len(attempts) \in Nat /\ Len(validation) \in Nat
  BY DEF PrepTypeOK
<1>2. ASSUME UNCHANGED <<validation, attempts>>, attested \subseteq attested', moved => moved' PROVE PrepGrows
  BY <1>1, <1>2 DEF PrepGrows, Latest
<1>3. CASE \E onlyFailed \in BOOLEAN : StartAttempt(onlyFailed)
  <2>1. Len(attempts') = Len(attempts) + 1 /\ UNCHANGED <<validation, moved, attested>>
    BY <1>3 DEF StartAttempt, PrepTypeOK
  <2> QED
    BY <1>1, <2>1 DEF PrepGrows, Latest
<1>4. CASE JobFails \/ UploadBuild \/ UploadCandidate
  <2>1. Len(attempts') = Len(attempts) /\ UNCHANGED <<validation, moved, attested>>
    BY <1>4 DEF JobFails, UploadBuild, UploadCandidate, EndAttempt, PrepTypeOK
  <2> QED
    BY <1>1, <2>1 DEF PrepGrows, Latest
<1>5. CASE ValidationStarts
  <2>1. /\ validation' = Append(validation, [state |-> "running", start |-> prepClock, end |-> prepClock])
        /\ UNCHANGED <<attempts, moved, attested>>
    BY <1>5 DEF ValidationStarts
  <2> QED
    BY <1>1, <2>1 DEF PrepGrows, Latest, PrepTypeOK
<1>6. CASE \E s \in {"success", "failure"} : ValidationEnds(s)
  <2>1. PICK s : ValidationEnds(s)
    BY <1>6
  <2>2. /\ validation # <<>> /\ validation[Len(validation)].state = "running"
        /\ validation' = [validation EXCEPT ![Len(validation)] = [@ EXCEPT !.state = s, !.end = prepClock]]
        /\ UNCHANGED <<attempts, moved, attested>>
    BY <2>1 DEF ValidationEnds, Last
  <2>3. Len(validation') = Len(validation)
    BY <2>2 DEF PrepTypeOK
  <2>4. \A c \in DOMAIN validation : validation[c].state = "success" => validation'[c] = validation[c]
    BY <2>2 DEF PrepTypeOK
  <2> QED
    BY <1>1, <2>2, <2>3, <2>4 DEF PrepGrows, Latest
<1>7. CASE Attest
  BY <1>2, <1>7 DEF Attest
<1>8. CASE \/ JobBegins("build", "validate") \/ BuildValidates
           \/ JobBegins("attest", "handoff") \/ AttestReadsBuild \/ AttestValidates
  BY <1>2, <1>8 DEF JobBegins, BuildValidates, AttestReadsBuild, AttestValidates
<1>9. CASE \/ \E a \in artifacts : Select(a)
           \/ AuthenticatePreparation \/ AuthenticateValidation \/ AcceptPrepared \/ Reject
           \/ ClockTicks \/ MainAdvances
  BY <1>2, <1>9 DEF Select, AuthenticatePreparation, AuthenticateValidation, AcceptPrepared, Reject,
       ClockTicks, MainAdvances
<1>10. CASE UNCHANGED prepVars
  BY <1>2, <1>10 DEF prepVars
<1> QED
  BY <1>3, <1>4, <1>5, <1>6, <1>7, <1>8, <1>9, <1>10 DEF PreparationNext

LEMMA AttemptStates ==
  ASSUME PrepTypeOK, Running
  PROVE  Latest \in DOMAIN attempts /\ Latest \in Nat /\ attempts[Latest] \in Attempts
BY DEF PrepTypeOK, Running, Latest

\* The owner, the clock, the source and the validation.
LEMMA PrepWorldTypes ==
  ASSUME PrepTypeOK,
         \/ \E onlyFailed \in BOOLEAN : StartAttempt(onlyFailed)
         \/ ClockTicks \/ MainAdvances \/ ValidationStarts
         \/ \E s \in {"success", "failure"} : ValidationEnds(s)
  PROVE  PrepTypeOK'
<1> USE DEF PrepTypeOK
<1>1. CASE \E onlyFailed \in BOOLEAN : StartAttempt(onlyFailed)
  <2>1. PICK onlyFailed \in BOOLEAN : StartAttempt(onlyFailed)
    BY <1>1
  <2> DEFINE build == IF onlyFailed THEN attempts[Latest].build ELSE [state |-> "queued"]
             next == [state |-> "running", start |-> prepClock, end |-> prepClock,
                      build |-> IF build.state = "success" THEN build ELSE [state |-> "queued"]]
  <2>2. /\ attempts' = Append(attempts, next)
        /\ worker' = [pc |-> IF build.state = "success" THEN "attest" ELSE "build"]
        /\ onlyFailed => Latest > 0
        /\ UNCHANGED <<prepClock, moved, validation, artifacts, attested, consumer, accepted>>
    BY <2>1 DEF StartAttempt
  <2>3. build \in Builds
    <3>1. [state |-> "queued"] \in Builds
      BY DEF Builds
    <3>2. onlyFailed => attempts[Latest] \in Attempts
      BY <2>2 DEF Latest
    <3> QED
      BY <3>1, <3>2 DEF Attempts
  <2> HIDE DEF build
  <2>4. next \in Attempts
    BY <2>3 DEF Attempts, Builds
  <2>5. worker' \in Workers
    BY <2>2 DEF Workers
  <2> HIDE DEF next
  <2> QED
    BY <2>2, <2>4, <2>5
<1>2. CASE ClockTicks \/ MainAdvances
  <2>1. prepClock' \in Nat
    BY <1>2 DEF ClockTicks, MainAdvances
  <2>3. moved' \in BOOLEAN
    <3>1. moved' = moved \/ moved' = TRUE
      BY <1>2 DEF ClockTicks, MainAdvances
    <3> QED
      BY <3>1, Zenon
  <2>2. UNCHANGED <<validation, attempts, artifacts, attested, worker, consumer, accepted>>
    BY <1>2 DEF ClockTicks, MainAdvances
  <2> QED
    BY <2>1, <2>2, <2>3
<1>3. CASE ValidationStarts
  <2>1. [state |-> "running", start |-> prepClock, end |-> prepClock] \in Validations
    BY DEF Validations
  <2> QED
    BY <1>3, <2>1 DEF ValidationStarts
<1>4. CASE \E s \in {"success", "failure"} : ValidationEnds(s)
  <2>1. PICK s \in {"success", "failure"} : ValidationEnds(s)
    BY <1>4
  <2>2. validation # <<>> /\ Len(validation) \in DOMAIN validation
    BY <2>1 DEF ValidationEnds
  <2>3. [validation[Len(validation)] EXCEPT !.state = s, !.end = prepClock] \in Validations
    <3>1. validation[Len(validation)] \in Validations /\ s \in {"success", "failure"}
      BY <2>1, <2>2
    <3> QED
      BY <3>1 DEF Validations
  <2>4. validation' \in Seq(Validations)
    BY <2>1, <2>2, <2>3 DEF ValidationEnds
  <2> QED
    BY <2>1, <2>4 DEF ValidationEnds
<1> QED
  BY <1>1, <1>2, <1>3, <1>4

\* The jobs.
LEMMA PrepJobTypes ==
  ASSUME PrepTypeOK, WorkerInv,
         \/ JobFails \/ JobBegins("build", "validate") \/ BuildValidates \/ UploadBuild
         \/ JobBegins("attest", "handoff") \/ AttestReadsBuild \/ AttestValidates \/ Attest \/ UploadCandidate
  PROVE  PrepTypeOK'
<1> USE DEF PrepTypeOK
<1>0. worker.pc # "idle" => Latest \in DOMAIN attempts /\ Latest \in Nat /\ attempts[Latest] \in Attempts
  BY AttemptStates DEF WorkerInv
<1>1. ASSUME NEW state \in {"success", "failure"}, Running, EndAttempt(state)
      PROVE  attempts' \in Seq(Attempts) /\ worker' \in Workers
  <2>1. [attempts[Latest] EXCEPT !.state = state, !.end = prepClock] \in Attempts
    BY <1>1, AttemptStates DEF Attempts
  <2>2. attempts' = [attempts EXCEPT ![Latest] = [attempts[Latest] EXCEPT !.state = state, !.end = prepClock]]
    BY <1>1, AttemptStates DEF EndAttempt
  <2>3. worker' \in Workers
    BY <1>1 DEF EndAttempt, Idle, Workers
  <2> QED
    BY <1>1, <2>1, <2>2, <2>3, AttemptStates
<1>2. CASE JobFails
  BY <1>1, <1>2 DEF JobFails
<1>3. CASE JobBegins("build", "validate") \/ JobBegins("attest", "handoff")
  BY <1>3 DEF JobBegins, Workers
<1>4. CASE BuildValidates
  <2>1. PICK number \in DOMAIN validation : worker' = [pc |-> "upload", now |-> worker.now, ci |-> number]
    BY <1>4 DEF BuildValidates
  <2>2. worker.now \in Nat
    BY <1>4 DEF BuildValidates, Workers
  <2>3. worker' \in Workers
    BY <2>1, <2>2 DEF Workers
  <2> QED
    BY <1>4, <2>3 DEF BuildValidates
<1>5. CASE UploadBuild
  <2> DEFINE made == [name |-> "publication-build", at |-> prepClock,
                      subject |-> Subject(Latest, worker.ci, worker.now)]
             build == [state |-> "success", start |-> worker.now, end |-> prepClock, output |-> made]
  <2>1. /\ worker.pc = "upload" /\ artifacts' = artifacts \cup {made} /\ worker' = [pc |-> "attest"]
        /\ attempts' = [attempts EXCEPT ![Latest].build = build]
        /\ UNCHANGED <<prepClock, moved, validation, attested, consumer, accepted>>
    BY <1>5 DEF UploadBuild
  <2>2. worker.now \in Nat /\ worker.ci \in Nat
    BY <2>1 DEF Workers
  <2>3. made \in Artifacts
    BY <1>0, <2>1, <2>2 DEF Subject, Artifacts, Subjects
  <2> HIDE DEF made
  <2>4. build \in Builds
    BY <2>2, <2>3 DEF Builds
  <2> HIDE DEF build
  <2>5. [attempts[Latest] EXCEPT !.build = build] \in Attempts
    BY <1>0, <2>1, <2>4 DEF Attempts
  <2>6. attempts' \in Seq(Attempts)
    BY <1>0, <2>1, <2>5
  <2>7. worker' \in Workers
    BY <2>1 DEF Workers
  <2> QED
    BY <2>1, <2>3, <2>6, <2>7
<1>6. CASE AttestReadsBuild
  <2>1. worker.pc = "handoff" /\ worker' = [worker EXCEPT !.pc = "revalidate"]
    BY <1>6 DEF AttestReadsBuild
  <2>2. worker' \in Workers
    BY <2>1 DEF Workers
  <2> QED
    BY <1>6, <2>2 DEF AttestReadsBuild
<1>7. CASE AttestValidates
  <2>1. /\ worker.pc = "revalidate"
        /\ worker' = [pc |-> "sign", subject |-> attempts[Latest].build.output.subject]
    BY <1>7 DEF AttestValidates
  <2>2. attempts[Latest].build.output.subject \in Subjects
    <3>1. attempts[Latest].build \in Builds /\ attempts[Latest].build.state = "success"
      BY <1>0, <2>1 DEF WorkerInv, Attempts
    <3>2. attempts[Latest].build.output \in Artifacts
      BY <3>1 DEF Builds
    <3> QED
      BY <3>2 DEF Artifacts
  <2>3. worker' \in Workers
    BY <2>1, <2>2 DEF Workers
  <2> QED
    BY <1>7, <2>3 DEF AttestValidates
<1>8. CASE Attest \/ UploadCandidate
  <2>1. worker.subject \in Subjects /\ worker.pc # "idle"
    BY <1>8 DEF Attest, UploadCandidate, Workers
  <2>2. CASE Attest
    <3>1. worker' \in Workers
      BY <2>2 DEF Attest, Workers
    <3> QED
      BY <1>0, <2>1, <2>2, <3>1 DEF Attest
  <2>3. CASE UploadCandidate
    <3>1. [name |-> "publication-candidate", at |-> prepClock, subject |-> worker.subject] \in Artifacts
      BY <2>1 DEF Artifacts
    <3>2. attempts' \in Seq(Attempts) /\ worker' \in Workers
      <4>1. Running
        BY <2>1 DEF WorkerInv
      <4>2. [pc |-> "uploaded"] \in Workers
        BY DEF Workers
      <4> QED
        BY <1>1, <2>3, <4>1, <4>2 DEF UploadCandidate
    <3> QED
      BY <2>3, <3>1, <3>2 DEF UploadCandidate
  <2> QED
    BY <1>8, <2>2, <2>3
<1> QED
  BY <1>2, <1>3, <1>4, <1>5, <1>6, <1>7, <1>8

\* The consumer.
LEMMA PrepConsumerTypes ==
  ASSUME PrepTypeOK, ConsumerInv,
         \/ \E a \in artifacts : Select(a)
         \/ AuthenticatePreparation \/ AuthenticateValidation \/ AcceptPrepared \/ Reject
  PROVE  PrepTypeOK'
<1> USE DEF PrepTypeOK
<1>1. UNCHANGED <<prepClock, moved, validation, attempts, artifacts, attested, worker>>
  BY DEF Select, AuthenticatePreparation, AuthenticateValidation, AcceptPrepared, Reject
<1>2. Idle \in Consumers
  BY DEF Consumers
<1>3. SUFFICES consumer' \in Consumers /\ accepted' \subseteq [artifact : Artifacts, seen : Seen, at : Nat]
  BY <1>1
<1>4. CASE \E a \in artifacts : Select(a)
  <2>1. PICK a \in artifacts : Select(a)
    BY <1>4
  <2>2. [moved |-> moved, number |-> Latest, ci |-> Len(validation)] \in Seen
    BY DEF Seen, Latest
  <2>3. consumer' \in Consumers
    BY <2>1, <2>2 DEF Select, Consumers
  <2> QED
    BY <2>1, <2>3 DEF Select
<1>5. CASE AuthenticatePreparation
  <2>1. consumer.now \in Nat /\ consumer.artifact \in Artifacts /\ consumer.seen \in Seen
    BY <1>5 DEF AuthenticatePreparation, Consumers, Idle
  <2>2. attempts[consumer.artifact.subject.number] \in Attempts
    BY <1>5 DEF AuthenticatePreparation, ConsumerInv, Built, Latest
  <2> DEFINE times == {attempts[consumer.artifact.subject.number].start, attempts[consumer.artifact.subject.number].end}
  <2>3. times \in SUBSET Nat
    BY <2>2 DEF Attempts
  <2>4. consumer' = [pc |-> "validation", now |-> consumer.now, artifact |-> consumer.artifact,
                     seen |-> consumer.seen, times |-> times]
    BY <1>5 DEF AuthenticatePreparation
  <2> HIDE DEF times
  <2>5. consumer' \in Consumers
    BY <2>1, <2>3, <2>4 DEF Consumers
  <2> QED
    BY <1>5, <2>5 DEF AuthenticatePreparation
<1>6. CASE AuthenticateValidation
  <2>1. consumer.pc = "validation" /\ consumer' = [consumer EXCEPT !.pc = "attestations"]
    BY <1>6 DEF AuthenticateValidation
  <2>2. consumer' \in Consumers
    <3>1. consumer \in [pc : {"validation", "attestations"}, now : Nat, artifact : Artifacts, seen : Seen, times : SUBSET Nat]
      BY <2>1 DEF Consumers, Idle
    <3>2. consumer' \in [pc : {"validation", "attestations"}, now : Nat, artifact : Artifacts, seen : Seen, times : SUBSET Nat]
      BY <2>1, <3>1
    <3> QED
      BY <3>2 DEF Consumers
  <2> QED
    BY <1>6, <2>2 DEF AuthenticateValidation
<1>7. CASE AcceptPrepared
  <2>1. consumer.artifact \in Artifacts /\ consumer.seen \in Seen
    BY <1>7 DEF AcceptPrepared, Consumers, Idle
  <2> QED
    BY <1>2, <1>7, <2>1 DEF AcceptPrepared
<1>8. CASE Reject
  BY <1>2, <1>8 DEF Reject
<1> QED
  BY <1>4, <1>5, <1>6, <1>7, <1>8

LEMMA ProductsStepInv ==
  ASSUME PrepInv, [PreparationNext]_prepVars
  PROVE  ProductsInv'
<1> USE DEF PrepInv
<1>1. \A s : Built(s) => Built(s)'
  BY BuiltStays, PrepStepGrows, Zenon
<1>2. ASSUME Products' \subseteq Products, UNCHANGED attested PROVE ProductsInv'
  BY <1>1, <1>2 DEF ProductsInv
<1>3. CASE \E onlyFailed \in BOOLEAN : StartAttempt(onlyFailed)
  <2>1. PICK onlyFailed \in BOOLEAN : StartAttempt(onlyFailed)
    BY <1>3
  <2> DEFINE build == IF onlyFailed THEN attempts[Latest].build ELSE [state |-> "queued"]
             next == [state |-> "running", start |-> prepClock, end |-> prepClock,
                      build |-> IF build.state = "success" THEN build ELSE [state |-> "queued"]]
  <2>2. /\ attempts' = Append(attempts, next) /\ UNCHANGED <<artifacts, attested>>
        /\ onlyFailed => Latest \in DOMAIN attempts
    BY <2>1 DEF StartAttempt, PrepTypeOK, Latest
  <2>3. next.build.state = "success" => next.build.output \in Products
    BY <2>2 DEF Products, Succeeded
  <2> HIDE DEF next
  <2>4. \A i \in DOMAIN attempts' : attempts'[i] = next \/ (i \in DOMAIN attempts /\ attempts'[i] = attempts[i])
    BY <2>2 DEF PrepTypeOK
  <2>5. Products' \subseteq Products
    BY <2>2, <2>3, <2>4 DEF Products, Succeeded
  <2> QED
    BY <1>2, <2>2, <2>5
<1>4. ASSUME NEW state, Running, EndAttempt(state) PROVE Succeeded' = Succeeded /\ \A i \in Succeeded : attempts'[i].build = attempts[i].build
  <2>1. DOMAIN attempts' = DOMAIN attempts /\ \A i \in DOMAIN attempts' : attempts'[i].build = attempts[i].build
    BY <1>4 DEF EndAttempt, PrepTypeOK, Attempts
  <2> QED
    BY <2>1 DEF Succeeded
<1>5. CASE JobFails
  <2>1. Succeeded' = Succeeded /\ \A i \in Succeeded : attempts'[i].build = attempts[i].build
    BY <1>4, <1>5 DEF JobFails
  <2> QED
    BY <1>2, <1>5, <2>1 DEF JobFails, Products
<1>6. CASE UploadBuild
  <2> DEFINE made == [name |-> "publication-build", at |-> prepClock,
                      subject |-> Subject(Latest, worker.ci, worker.now)]
             build == [state |-> "success", start |-> worker.now, end |-> prepClock, output |-> made]
  <2>1. /\ worker.pc = "upload" /\ artifacts' = artifacts \cup {made}
        /\ attempts' = [attempts EXCEPT ![Latest].build = build] /\ UNCHANGED attested
    BY <1>6 DEF UploadBuild
  <2>2. Built(Subject(Latest, worker.ci, worker.now))
    <3>1. Succeeds(worker.ci, worker.now) /\ Running
      BY <2>1 DEF WorkerInv
    <3>2. Latest \in 1..Latest
      BY <3>1, AttemptStates DEF Latest, PrepTypeOK
    <3> QED
      BY <3>1, <3>2 DEF Built, Subject
  <2>3. \A i \in DOMAIN attempts' : i \in DOMAIN attempts /\ (attempts'[i].build = build \/ attempts'[i].build = attempts[i].build)
    BY <2>1 DEF PrepTypeOK, Attempts
  <2>4. build.output = made /\ made.subject = Subject(Latest, worker.ci, worker.now)
    OBVIOUS
  <2> HIDE DEF made, build
  <2>5. \A a \in Products' : a \in Products \cup {made}
    BY <2>1, <2>3, <2>4 DEF Products, Succeeded
  <2>6. PICK product : product = made
    OBVIOUS
  <2>7. Built(product.subject) /\ \A a \in Products' : a \in Products \cup {product}
    BY <2>2, <2>4, <2>5, <2>6
  <2> QED
    BY <1>1, <2>1, <2>7 DEF ProductsInv
<1>7. CASE Attest
  <2>1. worker.subject.number = Latest
    BY <1>7 DEF Attest, WorkerInv
  <2>2. UNCHANGED Products
    BY <1>7 DEF Attest, Products, Succeeded
  <2> QED
    BY <1>1, <1>7, <2>1, <2>2 DEF Attest, ProductsInv
<1>8. CASE UploadCandidate
  <2>1. Built(worker.subject) /\ Running
    BY <1>8 DEF UploadCandidate, WorkerInv
  <2>2. UNCHANGED Succeeded /\ \A i \in Succeeded : attempts'[i].build = attempts[i].build
    BY <1>4, <1>8, <2>1 DEF UploadCandidate, Succeeded
  <2>3. PICK product : product = [name |-> "publication-candidate", at |-> prepClock, subject |-> worker.subject]
    OBVIOUS
  <2>4. artifacts' = artifacts \cup {product} /\ UNCHANGED attested /\ Built(product.subject)
    BY <1>8, <2>1, <2>3 DEF UploadCandidate
  <2>5. \A a \in Products' : a \in Products \cup {product}
    BY <2>2, <2>4 DEF Products
  <2> QED
    BY <1>1, <2>4, <2>5 DEF ProductsInv
<1>9. CASE \/ JobBegins("build", "validate") \/ BuildValidates
           \/ JobBegins("attest", "handoff") \/ AttestReadsBuild \/ AttestValidates
  BY <1>2, <1>9 DEF JobBegins, BuildValidates, AttestReadsBuild, AttestValidates, Products, Succeeded
<1>10. CASE \/ \E a \in artifacts : Select(a)
            \/ AuthenticatePreparation \/ AuthenticateValidation \/ AcceptPrepared \/ Reject
  BY <1>2, <1>10 DEF Select, AuthenticatePreparation, AuthenticateValidation, AcceptPrepared, Reject,
       Products, Succeeded
<1>11. CASE \/ ClockTicks \/ MainAdvances \/ ValidationStarts
            \/ \E s \in {"success", "failure"} : ValidationEnds(s)
  BY <1>2, <1>11 DEF ClockTicks, MainAdvances, ValidationStarts, ValidationEnds, Products, Succeeded
<1>12. CASE UNCHANGED prepVars
  BY <1>2, <1>12 DEF prepVars, Products, Succeeded
<1> QED
  BY <1>3, <1>5, <1>6, <1>7, <1>8, <1>9, <1>10, <1>11, <1>12 DEF PreparationNext

LEMMA WorkerStepInv ==
  ASSUME PrepInv, [PreparationNext]_prepVars
  PROVE  WorkerInv'
<1> USE DEF PrepInv
<1>1. /\ \A s : Built(s) => Built(s)'
      /\ \A c, now : Succeeds(c, now) => Succeeds(c, now)'
  BY BuiltStays, PrepStepGrows, Zenon
<1>2. ASSUME UNCHANGED <<attempts, worker>> PROVE WorkerInv'
  <2>1. /\ worker' = worker /\ attempts' = attempts /\ Latest' = Latest /\ Running' = Running
    BY <1>2 DEF Latest, Running
  <2> QED
    BY <1>1, <2>1 DEF WorkerInv
<1>3. CASE \E onlyFailed \in BOOLEAN : StartAttempt(onlyFailed)
  <2>1. PICK onlyFailed \in BOOLEAN : StartAttempt(onlyFailed)
    BY <1>3
  <2> DEFINE build == IF onlyFailed THEN attempts[Latest].build ELSE [state |-> "queued"]
             next == [state |-> "running", start |-> prepClock, end |-> prepClock,
                      build |-> IF build.state = "success" THEN build ELSE [state |-> "queued"]]
  <2>2. attempts' = Append(attempts, next) /\ worker' = [pc |-> IF build.state = "success" THEN "attest" ELSE "build"]
    BY <2>1 DEF StartAttempt
  <2>3. next.state = "running" /\ (build.state = "success" => next.build.state = "success")
    OBVIOUS
  <2> HIDE DEF next, build
  <2>4. Latest' = Latest + 1 /\ attempts'[Latest'] = next /\ Latest \in Nat
    BY <2>2 DEF Latest, PrepTypeOK
  <2> QED
    BY <2>2, <2>3, <2>4 DEF WorkerInv, Running
<1>4. CASE JobFails
  <2>1. worker' = Idle
    BY <1>4 DEF JobFails, EndAttempt
  <2> QED
    BY <2>1 DEF WorkerInv, Idle
<1>5. CASE JobBegins("build", "validate") \/ JobBegins("attest", "handoff")
  <2>1. /\ UNCHANGED attempts /\ Latest' = Latest /\ Running' = Running
        /\ \/ worker.pc = "build" /\ worker' = [pc |-> "validate", now |-> prepClock]
           \/ worker.pc = "attest" /\ worker' = [pc |-> "handoff", now |-> prepClock]
    BY <1>5 DEF JobBegins, Latest, Running
  <2> QED
    BY <2>1 DEF WorkerInv
<1>6. CASE BuildValidates
  <2>1. PICK number \in DOMAIN validation :
           Validated(number, worker.now) /\ worker' = [pc |-> "upload", now |-> worker.now, ci |-> number]
    BY <1>6 DEF BuildValidates
  <2>2. UNCHANGED <<attempts, validation>> /\ Latest' = Latest /\ Running' = Running /\ worker.pc = "validate"
    BY <1>6 DEF BuildValidates, Latest, Running
  <2>3. Succeeds(number, worker.now)'
    BY <2>1, <2>2 DEF Succeeds, Validated, Fresh
  <2>4. Succeeds(worker.ci, worker.now)'
    BY <2>1, <2>2, <2>3 DEF Succeeds
  <2> QED
    BY <2>1, <2>2, <2>4 DEF WorkerInv
<1>7. CASE UploadBuild
  <2> DEFINE made == [name |-> "publication-build", at |-> prepClock,
                      subject |-> Subject(Latest, worker.ci, worker.now)]
             build == [state |-> "success", start |-> worker.now, end |-> prepClock, output |-> made]
  <2>1. /\ worker.pc = "upload" /\ worker' = [pc |-> "attest"]
        /\ attempts' = [attempts EXCEPT ![Latest].build = build] /\ build.state = "success"
    BY <1>7 DEF UploadBuild
  <2> HIDE DEF build
  <2>2. Running /\ Latest \in DOMAIN attempts /\ attempts[Latest] \in Attempts
    BY <2>1, AttemptStates DEF WorkerInv
  <2>3. Latest' = Latest /\ attempts'[Latest].state = attempts[Latest].state /\ attempts'[Latest].build = build
    <3>1. attempts'[Latest] = [attempts[Latest] EXCEPT !.build = build]
      BY <2>1, <2>2
    <3>2. DOMAIN attempts[Latest] = {"state", "start", "end", "build"}
      BY <2>2 DEF Attempts
    <3>3. Len(attempts') = Len(attempts)
      BY <2>1 DEF PrepTypeOK
    <3> QED
      BY <3>1, <3>2, <3>3 DEF Latest
  <2> QED
    BY <2>1, <2>2, <2>3 DEF WorkerInv, Running
<1>8. CASE AttestReadsBuild
  <2>1. /\ UNCHANGED attempts /\ Latest' = Latest /\ Running' = Running
        /\ worker.pc = "handoff" /\ worker' = [worker EXCEPT !.pc = "revalidate"]
        /\ attempts[Latest].build.output.subject.number = Latest
    BY <1>8 DEF AttestReadsBuild, OwnBuild, Latest, Running
  <2>2. worker'.pc = "revalidate"
    BY <2>1 DEF PrepTypeOK, Workers
  <2> QED
    BY <2>1, <2>2 DEF WorkerInv
<1>9. CASE AttestValidates
  <2>1. /\ UNCHANGED attempts /\ Latest' = Latest /\ Running' = Running
        /\ worker.pc = "revalidate" /\ worker' = [pc |-> "sign", subject |-> attempts[Latest].build.output.subject]
    BY <1>9 DEF AttestValidates, Latest, Running
  <2>2. attempts[Latest].build.output.subject.number = Latest /\ attempts[Latest].build.state = "success" /\ Running
    BY <2>1 DEF WorkerInv
  <2>3. Built(attempts[Latest].build.output.subject)
    BY <2>2, AttemptStates DEF ProductsInv, Products, Succeeded
  <2>4. PICK subject : subject = attempts[Latest].build.output.subject
    OBVIOUS
  <2>5. Built(subject)'
    BY <1>1, <2>3, <2>4
  <2>6. worker'.subject = subject /\ worker'.pc = "sign"
    BY <2>1, <2>4
  <2>7. Built(worker.subject)' /\ worker'.subject.number = Latest'
    BY <2>1, <2>2, <2>4, <2>5, <2>6 DEF Built, Succeeds
  <2> QED
    BY <2>1, <2>2, <2>6, <2>7 DEF WorkerInv
<1>10. CASE Attest
  <2>1. /\ UNCHANGED attempts /\ Latest' = Latest /\ Running' = Running
        /\ worker.pc = "sign" /\ worker' = [worker EXCEPT !.pc = "preserve"]
    BY <1>10 DEF Attest, Latest, Running
  <2>2. worker'.pc = "preserve" /\ worker'.subject = worker.subject
    BY <2>1 DEF PrepTypeOK, Workers
  <2>3. Built(worker.subject) /\ worker.subject.number = Latest /\ Running
    BY <2>1 DEF WorkerInv
  <2>4. PICK subject : subject = worker.subject
    OBVIOUS
  <2>5. Built(subject)'
    BY <1>1, <2>3, <2>4
  <2>6. Built(worker.subject)'
    BY <2>2, <2>4, <2>5 DEF Built, Succeeds
  <2> QED
    BY <2>1, <2>2, <2>3, <2>6 DEF WorkerInv
<1>11. CASE UploadCandidate
  <2>1. worker' = Idle \/ (worker' = [pc |-> "uploaded"] /\ UNCHANGED attempts /\ worker.pc = "preserve")
    BY <1>11 DEF UploadCandidate, EndAttempt
  <2>2. worker.pc = "preserve" => Running
    BY DEF WorkerInv
  <2> QED
    BY <2>1, <2>2 DEF WorkerInv, Idle, Running, Latest
<1>12. CASE \/ \E a \in artifacts : Select(a)
            \/ AuthenticatePreparation \/ AuthenticateValidation \/ AcceptPrepared \/ Reject
  BY <1>2, <1>12 DEF Select, AuthenticatePreparation, AuthenticateValidation, AcceptPrepared, Reject
<1>13. CASE \/ ClockTicks \/ MainAdvances \/ ValidationStarts
            \/ \E s \in {"success", "failure"} : ValidationEnds(s)
  BY <1>2, <1>13 DEF ClockTicks, MainAdvances, ValidationStarts, ValidationEnds
<1>14. CASE UNCHANGED prepVars
  BY <1>2, <1>14 DEF prepVars
<1> QED
  BY <1>3, <1>4, <1>5, <1>6, <1>7, <1>8, <1>9, <1>10, <1>11, <1>12, <1>13, <1>14 DEF PreparationNext

LEMMA AcceptedStepInv ==
  ASSUME PrepInv, [PreparationNext]_prepVars
  PROVE  AcceptedInv'
<1> USE DEF PrepInv
<1>1. /\ \A s : Built(s) => Built(s)'
      /\ \A s : Signed(s) => Signed(s)'
  BY BuiltStays, PrepStepGrows, Zenon
<1>2. CASE AcceptPrepared
  <2>1. consumer.pc = "attestations"
    BY <1>2 DEF AcceptPrepared
  <2>2. PICK entry : entry = [artifact |-> consumer.artifact, seen |-> consumer.seen, at |-> prepClock]
    OBVIOUS
  <2>3. accepted' = accepted \cup {entry} /\ Signed(entry.artifact.subject)
    BY <1>2, <2>2 DEF AcceptPrepared
  <2>4. entry.at < entry.artifact.subject.at + PreparedTtl
    <3>1. AssertCurrent(Expiries(consumer.artifact, consumer.times))
      BY <1>2 DEF AcceptPrepared
    <3>2. consumer.artifact.subject.at + PreparedTtl \in Expiries(consumer.artifact, consumer.times)
      BY DEF Expiries
    <3>3. prepClock < consumer.artifact.subject.at + PreparedTtl
      BY <3>1, <3>2, Zenon DEF AssertCurrent
    <3> QED
      BY <2>2, <3>3
  <2>5. /\ Built(entry.artifact.subject)
        /\ ~entry.seen.moved /\ entry.seen.number = entry.artifact.subject.number
        /\ entry.seen.ci = entry.artifact.subject.ci
        /\ entry.artifact.name = "publication-candidate"
    BY <2>1, <2>2 DEF ConsumerInv
  <2> QED
    BY <1>1, <2>3, <2>4, <2>5 DEF AcceptedInv
<1>3. CASE UNCHANGED accepted
  BY <1>1, <1>3 DEF AcceptedInv
<1>4. AcceptPrepared \/ UNCHANGED accepted
  BY DEF PreparationNext, prepVars, StartAttempt, JobFails, JobBegins, BuildValidates, UploadBuild, AttestReadsBuild,
     AttestValidates, Attest, UploadCandidate, Select, AuthenticatePreparation, AuthenticateValidation, Reject,
     ClockTicks, MainAdvances, ValidationStarts, ValidationEnds
<1> QED
  BY <1>2, <1>3, <1>4

LEMMA ConsumerStepInv ==
  ASSUME PrepInv, [PreparationNext]_prepVars
  PROVE  ConsumerInv'
<1> USE DEF PrepInv
<1>1. /\ \A s : Built(s) => Built(s)'
      /\ Latest <= Latest' /\ Len(validation) <= Len(validation') /\ (moved => moved')
      /\ Latest \in Nat /\ Latest' \in Nat /\ Len(validation) \in Nat /\ Len(validation') \in Nat
  BY BuiltStays, PrepStepGrows DEF PrepGrows, PrepTypeOK
<1>2. PICK subject : subject = consumer'.artifact.subject
  OBVIOUS
<1>3. ASSUME consumer'.pc = "idle" PROVE ConsumerInv'
  BY <1>3 DEF ConsumerInv
<1>4. CASE UNCHANGED consumer
  <2>1. SUFFICES ASSUME consumer'.pc # "idle" PROVE ConsumerInv'
    BY <1>3
  <2>2. Built(subject)
    BY <1>2, <1>4, <2>1 DEF ConsumerInv
  <2>3. Built(subject)'
    BY <1>1, <2>2
  <2>4. Built(consumer.artifact.subject)'
    BY <1>2, <2>3 DEF Built, Succeeds
  <2>5. consumer.artifact.subject \in Subjects /\ consumer.seen \in Seen
    BY <1>4, <2>1 DEF PrepTypeOK, Consumers, Idle, Artifacts
  <2> QED
    BY <1>1, <1>4, <2>1, <2>4, <2>5 DEF ConsumerInv, Subjects, Seen
<1>5. CASE \E a \in artifacts : Select(a)
  <2>1. PICK a \in artifacts : Select(a)
    BY <1>5
  <2>2. /\ consumer' = [pc |-> "preparation", now |-> prepClock, artifact |-> a,
                        seen |-> [moved |-> moved, number |-> Latest, ci |-> Len(validation)]]
        /\ UNCHANGED <<moved, attempts, validation>> /\ Latest' = Latest
    BY <2>1 DEF Select, Latest
  <2>3. Built(a.subject) /\ a \in Artifacts
    BY <2>1 DEF ProductsInv, Products, PrepTypeOK
  <2>4. a.subject.number <= Latest /\ a.subject.ci <= Len(validation)
    <3>1. a.subject \in Subjects /\ validation \in Seq(Validations)
      BY <2>3 DEF Artifacts, PrepTypeOK
    <3> QED
      BY <1>1, <2>3, <3>1 DEF Built, Succeeds
  <2>5. Built(a.subject)'
    BY <2>2, <2>3 DEF Built, Succeeds
  <2>6. Built(consumer.artifact.subject)'
    BY <2>2, <2>5 DEF Built, Succeeds
  <2> QED
    BY <1>1, <2>2, <2>4, <2>6 DEF ConsumerInv
<1>6. CASE AuthenticatePreparation
  <2>1. /\ consumer.pc = "preparation" /\ UNCHANGED <<moved, attempts, validation>> /\ Latest' = Latest
        /\ consumer'.pc = "validation" /\ consumer'.artifact = consumer.artifact /\ consumer'.seen = consumer.seen
        /\ consumer.artifact.subject.number = Latest /\ ~moved
        /\ consumer.artifact.name = "publication-candidate"
    BY <1>6 DEF AuthenticatePreparation, Prepared, PreparedByAny, Latest
  <2>2. consumer.artifact.subject \in Subjects /\ consumer.seen \in Seen
    BY <2>1 DEF PrepTypeOK, Consumers, Idle, Artifacts
  <2>3. Built(consumer.artifact.subject)'
    BY <2>1 DEF ConsumerInv, Built, Succeeds
  <2> QED
    BY <1>1, <2>1, <2>2, <2>3 DEF ConsumerInv, Subjects, Seen
<1>7. CASE AuthenticateValidation
  <2>1. /\ consumer.pc = "validation" /\ UNCHANGED <<moved, attempts, validation>> /\ Latest' = Latest
        /\ consumer' = [consumer EXCEPT !.pc = "attestations"]
        /\ consumer.artifact.subject.ci = Len(validation)
    BY <1>7 DEF AuthenticateValidation, Validated, Latest
  <2>2. /\ consumer.artifact.subject \in Subjects /\ consumer.seen \in Seen
        /\ consumer'.pc = "attestations" /\ consumer'.artifact = consumer.artifact /\ consumer'.seen = consumer.seen
    BY <2>1 DEF PrepTypeOK, Consumers, Idle, Artifacts
  <2>3. Built(consumer.artifact.subject)'
    BY <2>1, <2>2 DEF ConsumerInv, Built, Succeeds
  <2> QED
    BY <1>1, <2>1, <2>2, <2>3 DEF ConsumerInv, Subjects, Seen
<1>8. CASE AcceptPrepared \/ Reject
  BY <1>3, <1>8 DEF AcceptPrepared, Reject, Idle
<1>9. CASE UNCHANGED consumer
  BY <1>4, <1>9
<1>10. \/ \E a \in artifacts : Select(a)
       \/ AuthenticatePreparation \/ AuthenticateValidation \/ AcceptPrepared \/ Reject
       \/ UNCHANGED consumer
  BY DEF PreparationNext, prepVars, StartAttempt, JobFails, JobBegins, BuildValidates, UploadBuild, AttestReadsBuild,
     AttestValidates, Attest, UploadCandidate, ClockTicks, MainAdvances, ValidationStarts, ValidationEnds
<1> QED
  BY <1>5, <1>6, <1>7, <1>8, <1>9, <1>10

LEMMA PrepStepInv == PrepInv /\ [PreparationNext]_prepVars => PrepInv'
<1> SUFFICES ASSUME PrepInv, [PreparationNext]_prepVars PROVE PrepInv'
  OBVIOUS
<1>1. PrepTypeOK'
  <2>1. CASE PreparationNext
    BY <2>1, PrepWorldTypes, PrepJobTypes, PrepConsumerTypes DEF PreparationNext, PrepInv
  <2>2. CASE UNCHANGED prepVars
    BY <2>2 DEF prepVars, PrepInv, PrepTypeOK
  <2> QED
    BY <2>1, <2>2
<1> QED
  BY <1>1, ProductsStepInv, WorkerStepInv, ConsumerStepInv, AcceptedStepInv DEF PrepInv

\* What is signed was built in the attempt that signs it, and what a consumer
\* accepts was the product of the newest attempt and of the newest validation
\* when it began, for any number of attempts, reruns, validations and commits and
\* whatever the lifetimes are (publication_bundle.py:97-112,
\* publication_prepare.py:110-128, publication_freshness.py:33-38).
THEOREM AcceptedAreCurrent == PreparationSpec => []AcceptedIsCurrent
<1>1. PrepInv => AcceptedIsCurrent
  BY DEF PrepInv, ProductsInv, AcceptedInv, Built, Succeeds, AcceptedIsCurrent
<1> QED
  BY <1>1, PrepInitInv, PrepStepInv, PTL DEF PreparationSpec
=============================================================================
