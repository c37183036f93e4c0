------------------------ MODULE HandoffGovernanceProofs ------------------------
(***************************************************************************)
(* What a verdict promises, for every graph, every number of runs and every *)
(* ledger the session can hold.  PassIsDelivery needs no history beyond the *)
(* types: the audit's issue sets, all empty, are enough, because a reported *)
(* ledger is the audited one with its pending records blocked, and under a  *)
(* PASS there are none.  VerdictIsHonest and FailuresStay need the history: *)
(* which records the runtime made, which were meddled with, and why a later *)
(* run of the same session cannot make up for either.  AnswersAreGrounded   *)
(* is about the answers of the agents themselves: its induction only        *)
(* remembers that what was endorsed had passed its validator, and the work  *)
(* is in what passing means.  GraphsRun is about the graph they run on: the *)
(* recursion of validate ends because a path cannot see more than all nodes,*)
(* its depths layer an accepted graph, and levels peels layer after layer.  *)
(***************************************************************************)
EXTENDS HandoffGovernance, AgentOutput, WorkflowGraph, FiniteSetTheorems,
  SequenceTheorems, WellFoundedInduction, TLAPS

LEMMA FieldsType == \A h \in Handoff : Fields(h) \in Receipt
  BY DEF Handoff, Receipt, Fields

LEMMA SealedType == \A h \in Handoff : Sealed(h) \in Handoff
  BY FieldsType DEF Sealed, Handoff

LEMMA BlockedType == \A h \in Handoff : Blocked(h) \in Handoff
  BY DEF Blocked, Handoff, Status, Resolution

LEMMA ConsumedType ==
  ASSUME NEW h \in Handoff, NEW o \in OutputId, NEW n \in Target,
         NEW disposition \in {"ACCEPTED", "CHALLENGED"}
  PROVE  Consumed(h, o, n, disposition) \in Handoff
  BY DEF Consumed, Handoff, Status, Resolution

LEMMA PendingType ==
  ASSUME NEW id \in Id, NEW source \in Source, NEW target \in Target,
         NEW to \in Recipient, NEW evidence \in BOOLEAN
  PROVE  Pending(id, source, target, to, evidence) \in Handoff
  BY DEF Pending, Handoff, Status, Resolution, Target

LEMMA ResolvedType ==
  ASSUME NEW h \in Handoff, NEW ack \in Acknowledgement, NEW o \in OutputId, NEW n \in Node
  PROVE  Resolved(h, ack, o, n) \in Handoff
<1>1. [h EXCEPT !.output = o, !.node = n] \in Handoff /\ n \in Target
  BY DEF Handoff, Target
<1> QED
  BY <1>1, SealedType, BlockedType, ConsumedType DEF Resolved, Acknowledgement

LEMMA ChangedType == \A h \in Handoff : Changed(h) \subseteq Handoff
<1> SUFFICES ASSUME NEW h \in Handoff PROVE Changed(h) \subseteq Handoff
  OBVIOUS
<1>1. CASE h.status = "CREATED"
  <2>1. h.target \in Target
    BY DEF Handoff
  <2>2. \A o \in OutputId : Consumed(h, o, h.target, "ACCEPTED") \in Handoff
    BY <2>1, ConsumedType
  <2> QED BY <1>1, <2>2, BlockedType DEF Changed
<1>2. CASE h.status # "CREATED"
  <2>1. \A o \in OutputId : [h EXCEPT !.output = o] \in Handoff
    BY DEF Handoff
  <2>2. /\ [h EXCEPT !.content = "altered"] \in Handoff
        /\ [h EXCEPT !.status = "CREATED"] \in Handoff
        /\ [h EXCEPT !.evidence = ~@] \in Handoff
        /\ [h EXCEPT !.to = "Unaddressed"] \in Handoff
    BY DEF Handoff, Status, Recipient
  <2>3. [h EXCEPT !.resolution = IF @ = "ACCEPTED" THEN "CHALLENGED" ELSE "ACCEPTED"] \in Handoff
    BY DEF Handoff, Resolution
  <2> QED BY <1>2, <2>1, <2>2, <2>3 DEF Changed
<1> QED BY <1>1, <1>2

-----------------------------------------------------------------------------
\* Only Reconcile and what runs inside a run leave the other variables'
\* types to prove; the ledger is the one that takes work.

LEMMA AppendType == \A s \in Seq(Handoff), h \in Handoff : Append(s, h) \in Seq(Handoff)
  BY AppendProperties

LEMMA LedgerOfBeginRun == TypeOK /\ BeginRun => ledger' \in Seq(Handoff)
<1> SUFFICES ASSUME TypeOK, BeginRun PROVE ledger' \in Seq(Handoff)
  OBVIOUS
<1>1. ledger \in Seq(Handoff)
  BY DEF TypeOK
<1>2. \A evidence \in BOOLEAN : Pending(Risk, "control", RiskTarget, "Scrummaster", evidence) \in Handoff
  BY PendingType, GovernanceAssumption DEF Id, Source, Target, Recipient
<1> QED BY <1>1, <1>2 DEF BeginRun

LEMMA LedgerOfLegacyRun == TypeOK /\ LegacyRun => ledger' \in Seq(Handoff)
<1> SUFFICES ASSUME TypeOK, LegacyRun PROVE ledger' \in Seq(Handoff)
  OBVIOUS
<1>1. Pending(Legacy, "legacy-lead", "legacy-scrummaster", "Scrummaster", TRUE) \in Handoff
  BY PendingType DEF Id, Source, Target, Recipient
<1> QED BY <1>1, AppendType DEF LegacyRun, TypeOK

LEMMA LedgerOfStartNode ==
  ASSUME TypeOK, NEW n \in Node, StartNode(n)
  PROVE  ledger' \in Seq(Handoff)
<1>1. PICK evidence \in [Dependencies(n) -> BOOLEAN] :
        ledger' = ledger \o
          [i \in DOMAIN DependsOn[n] |->
             LET d == DependsOn[n][i]
             IN  Pending(<<d, n>>, d, n, Agent[n], evidence[d])]
  BY DEF StartNode
<1>2. DependsOn[n] \in Seq(Node)
  BY GovernanceAssumption
<1>3. ASSUME NEW i \in DOMAIN DependsOn[n]
      PROVE  Pending(<<DependsOn[n][i], n>>, DependsOn[n][i], n, Agent[n],
                     evidence[DependsOn[n][i]]) \in Handoff
  <2>1. DependsOn[n][i] \in Node /\ evidence[DependsOn[n][i]] \in BOOLEAN
    BY <1>1, <1>2, <1>3 DEF Dependencies
  <2> QED BY <2>1, PendingType DEF Id, Source, Target, Recipient
<1>4. [i \in DOMAIN DependsOn[n] |->
         LET d == DependsOn[n][i]
         IN  Pending(<<d, n>>, d, n, Agent[n], evidence[d])] \in Seq(Handoff)
  <2>1. PICK m \in Nat : DOMAIN DependsOn[n] = 1..m
    BY <1>2, LenProperties
  <2> DEFINE new == [i \in DOMAIN DependsOn[n] |->
                       LET d == DependsOn[n][i]
                       IN  Pending(<<d, n>>, d, n, Agent[n], evidence[d])]
  <2>2. new \in [1..m -> Handoff]
    BY <1>3, <2>1
  <2> QED BY <2>1, <2>2, SeqDef
<1> QED BY <1>1, <1>4, ConcatProperties DEF TypeOK

LEMMA LedgerOfAnswerNode ==
  ASSUME TypeOK, NEW n \in Node, AnswerNode(n)
  PROVE  ledger' \in Seq(Handoff)
<1>1. PICK o \in OutputId, acks \in [DOMAIN ledger -> Acknowledgement] :
        ledger' = [i \in DOMAIN ledger |-> Resolved(ledger[i], acks[i], o, n)]
  BY DEF AnswerNode
<1>2. ledger \in Seq(Handoff)
  BY DEF TypeOK
<1>3. \A i \in DOMAIN ledger : Resolved(ledger[i], acks[i], o, n) \in Handoff
  BY <1>1, <1>2, ResolvedType
<1> QED BY <1>1, <1>2, <1>3

LEMMA FinalizedType == TypeOK => Finalized \in Seq(Handoff)
<1> SUFFICES ASSUME TypeOK PROVE Finalized \in Seq(Handoff)
  OBVIOUS
<1>1. \A h \in Handoff : Sealed(Blocked(h)) \in Handoff
  BY SealedType, BlockedType
<1> QED BY <1>1 DEF Finalized, TypeOK

LEMMA LedgerOfMeddle == TypeOK /\ Meddle => ledger' \in Seq(Handoff)
<1> SUFFICES ASSUME TypeOK, Meddle PROVE ledger' \in Seq(Handoff)
  OBVIOUS
<1>1. ledger \in Seq(Handoff)
  BY DEF TypeOK
<1>2. CASE \E i \in DOMAIN ledger : \E h \in Changed(ledger[i]) :
             ledger' = [ledger EXCEPT ![i] = h]
  BY <1>1, <1>2, ChangedType
<1>3. CASE ledger' = Append(ledger, Pending(Foreign, "control", RiskTarget, "Scrummaster", TRUE))
  <2>1. Pending(Foreign, "control", RiskTarget, "Scrummaster", TRUE) \in Handoff
    BY PendingType, GovernanceAssumption DEF Id, Source, Target, Recipient
  <2> QED BY <1>1, <1>3, <2>1, AppendType
<1>4. CASE \E i \in DOMAIN ledger :
             ledger' = [ledger EXCEPT ![i] =
                          Sealed([@ EXCEPT !.evidence = FALSE, !.resolution = "ACCEPTED"])]
  <2>1. \A h \in Handoff : [h EXCEPT !.evidence = FALSE, !.resolution = "ACCEPTED"] \in Handoff
    BY DEF Handoff, Resolution
  <2>2. \A h \in Handoff :
          Sealed([h EXCEPT !.evidence = FALSE, !.resolution = "ACCEPTED"]) \in Handoff
    BY <2>1, SealedType
  <2>3. \A i \in DOMAIN ledger : ledger[i] \in Handoff
    BY <1>1
  <2>4. PICK i \in DOMAIN ledger :
          ledger' = [ledger EXCEPT ![i] =
                       Sealed([ledger[i] EXCEPT !.evidence = FALSE, !.resolution = "ACCEPTED"])]
    BY <1>4
  <2> DEFINE e == Sealed([ledger[i] EXCEPT !.evidence = FALSE, !.resolution = "ACCEPTED"])
  <2>5. e \in Handoff
    <3> HIDE DEF e
    <3> DEFINE h == ledger[i]
    <3>1. h \in Handoff
      BY <2>3
    <3>2. e = Sealed([h EXCEPT !.evidence = FALSE, !.resolution = "ACCEPTED"])
      BY DEF e
    <3> HIDE DEF h
    <3> QED BY <2>2, <3>1, <3>2
  <2>6. i \in 1..Len(ledger)
    BY <1>1, LenProperties
  <2> HIDE DEF e
  <2>7. [ledger EXCEPT ![i] = e] \in Seq(Handoff)
    BY <1>1, <2>5, <2>6, ExceptSeq
  <2> QED BY <2>4, <2>7 DEF e
<1>5. CASE \E i \in DOMAIN ledger :
             ledger' = [j \in 1..(Len(ledger) - 1) |->
                          IF j < i THEN ledger[j] ELSE ledger[j + 1]]
  BY <1>1, <1>5
<1> QED BY <1>2, <1>3, <1>4, <1>5 DEF Meddle

LEMMA InitType == Init => TypeOK
  BY GovernanceAssumption DEF Init, TypeOK

LEMMA StepType == TypeOK /\ [Next]_vars => TypeOK'
<1> SUFFICES ASSUME TypeOK, [Next]_vars PROVE TypeOK'
  OBVIOUS
<1>1. CASE BeginRun
  <2>1. \A evidence \in BOOLEAN :
          Contract(Pending(Risk, "control", RiskTarget, "Scrummaster", evidence)).id = Risk
    BY DEF Contract, Pending
  <2>2. \A c \in declared' : c.id = Risk
    BY <1>1, <2>1 DEF BeginRun
  <2>3. run' \in 0..MaxRuns
    BY <1>1, GovernanceAssumption DEF BeginRun, TypeOK
  <2> QED BY <1>1, <2>2, <2>3, LedgerOfBeginRun DEF BeginRun, TypeOK
<1>2. CASE LegacyRun
  <2>1. run' \in 0..MaxRuns
    BY <1>2, GovernanceAssumption DEF LegacyRun, TypeOK
  <2> QED BY <1>2, <2>1, LedgerOfLegacyRun DEF LegacyRun, TypeOK
<1>3. ASSUME NEW n \in Node, StartNode(n) PROVE TypeOK'
  BY <1>3, LedgerOfStartNode DEF StartNode, TypeOK
<1>4. ASSUME NEW n \in Node, BlockNode(n) PROVE TypeOK'
  BY <1>4 DEF BlockNode, TypeOK
<1>5. ASSUME NEW n \in Node, AnswerNode(n) PROVE TypeOK'
  BY <1>5, LedgerOfAnswerNode DEF AnswerNode, TypeOK
<1>6. CASE Reconcile
  BY <1>6, FinalizedType DEF Reconcile, Verdict, TypeOK
<1>7. CASE RunRaises
  BY <1>7 DEF RunRaises, TypeOK
<1>8. CASE Meddle
  BY <1>8, LedgerOfMeddle DEF Meddle, TypeOK
<1>9. CASE UNCHANGED vars
  BY <1>9 DEF vars, TypeOK
<1> QED
  BY <1>1, <1>2, <1>3, <1>4, <1>5, <1>6, <1>7, <1>8, <1>9 DEF Next, Stopped

\* Every record of every ledger has its type, through the resolver, the
\* reconciliation and what is done outside the runtime
\* (state.py:46-100, handoff_governance.py:20-65, 216-230).
THEOREM TypeCorrect == Spec => []TypeOK
  BY InitType, StepType, PTL DEF Spec

-----------------------------------------------------------------------------
LEMMA NoIssue ==
  ASSUME Verdict = "PASS"
  PROVE  /\ Unresolved = {} /\ Duplicate = {} /\ Stale = {} /\ Unexpected = {}
         /\ Missing = {} /\ WrongRecipient = {} /\ InvalidControl = {}
         /\ WrongConsumer = {} /\ InvalidReceipt = {} /\ EvidenceFree = {}
<1>1. Issues = {} /\ Unresolved = {}
  BY DEF Verdict
<1>2. \A code, ids : Coded(code, ids) = {} => ids = {}
  <2> SUFFICES ASSUME NEW code, NEW ids, Coded(code, ids) = {}, NEW id \in ids PROVE FALSE
    OBVIOUS
  <2>1. <<code, id>> \in Coded(code, ids)
    BY DEF Coded
  <2> QED BY <2>1
<1> QED BY <1>1, <1>2 DEF Issues

\* The first record of an id that has one record only.
LEMMA OnlyRecord ==
  ASSUME TypeOK, NEW i \in DOMAIN ledger, Matches(ledger[i].id) = {i}
  PROVE  FirstOf(ledger[i].id) = ledger[i]
<1>1. i \in Nat
  BY LenProperties DEF TypeOK
<1> QED BY <1>1 DEF FirstOf

LEMMA RecordDelivered ==
  ASSUME TypeOK, Verdict = "PASS", NEW i \in DOMAIN ledger
  PROVE  /\ ledger[i].id \in RequiredEdge \cup DeclaredControl
         /\ Matches(ledger[i].id) = {i}
         /\ ledger[i].status = "CONSUMED"
         /\ ledger[i].node = ledger[i].target
         /\ ledger[i].output = OutputOf(ledger[i].target)
         /\ ledger[i].resolution = "ACCEPTED" => ledger[i].evidence
         /\ ReceiptValid(ledger[i])
<1> DEFINE h == ledger[i]
           id == h.id
<1>1. id \in Ids
  BY DEF Ids
<1>2. id \in RequiredEdge \cup DeclaredControl
  BY <1>1, NoIssue DEF Stale, Unexpected
<1>3. Matches(id) = {i}
  BY <1>1, NoIssue DEF Duplicate, Matches
<1>4. FirstOf(id) = h
  BY <1>3, OnlyRecord
<1>5. h.status = "CONSUMED"
  BY NoIssue DEF Unresolved
<1>6. id \in Present \ InvalidControl
  BY <1>2, NoIssue DEF Present
<1>7. h.output = OutputOf(Receiver(id)) /\ h.node = Receiver(id)
  BY <1>4, <1>5, <1>6, NoIssue DEF WrongConsumer, ContextBound
<1>8. Receiver(id) = h.target
  <2>1. CASE id \in DeclaredControl
    BY <2>1, <1>4 DEF DeclaredControl, Receiver, TypeOK
  <2>2. CASE id \in RequiredEdge
    <3>1. id # Risk
      BY <2>2, GovernanceAssumption DEF RequiredEdge, Edge
    <3>2. h.target = id[2]
      BY <2>2, <1>4, <1>6, NoIssue DEF WrongRecipient
    <3> QED BY <3>1, <3>2 DEF Receiver
  <2> QED BY <1>2, <2>1, <2>2
<1>9. ReceiptValid(h)
  BY <1>4, <1>5, <1>6, NoIssue DEF InvalidReceipt
<1>10. h.resolution = "ACCEPTED" => h.evidence
  BY <1>5, NoIssue DEF EvidenceFree
<1> QED BY <1>2, <1>3, <1>5, <1>7, <1>8, <1>9, <1>10

LEMMA PassDelivers ==
  ASSUME TypeOK, Verdict = "PASS"
  PROVE  Delivered /\ Finalized = ledger /\ ConsumedRequired = RequiredEdge
<1>1. Ids = RequiredEdge \cup DeclaredControl
  <2>1. Ids \subseteq RequiredEdge \cup DeclaredControl
    BY RecordDelivered DEF Ids
  <2>2. \A id \in RequiredEdge \cup DeclaredControl : Matches(id) # {}
    BY NoIssue DEF Missing
  <2>3. \A id \in RequiredEdge \cup DeclaredControl : id \in Ids
    BY <2>2 DEF Matches, Ids
  <2> QED BY <2>1, <2>3
<1>2. Delivered
  BY <1>1, RecordDelivered DEF Delivered
<1>3. Finalized = ledger
  <2>1. Finalized = [i \in DOMAIN ledger |-> ledger[i]]
    BY RecordDelivered DEF Finalized
  <2>2. ledger \in [1..Len(ledger) -> Handoff]
    BY LenProperties DEF TypeOK
  <2> QED BY <2>1, <2>2
<1>4. ASSUME NEW e \in RequiredEdge PROVE e \in ConsumedRequired
  <2>1. PICK i \in DOMAIN ledger : ledger[i].id = e
    BY <1>1 DEF Ids
  <2>2. Matches(e) = {i} /\ FirstOf(e) = ledger[i]
    BY <2>1, RecordDelivered, OnlyRecord
  <2>3. i \in Matches(e)
    BY <2>2
  <2> QED BY <2>1, <2>2, <2>3, RecordDelivered DEF ConsumedRequired
<1>5. ConsumedRequired = RequiredEdge
  BY <1>4 DEF ConsumedRequired
<1> QED BY <1>2, <1>3, <1>5

LEMMA StepDelivery == TypeOK /\ PassIsDelivery /\ [Next]_vars => PassIsDelivery'
<1> SUFFICES ASSUME TypeOK, PassIsDelivery, [Next]_vars PROVE PassIsDelivery'
  OBVIOUS
<1> USE DEF PassIsDelivery
<1>1. CASE Reconcile
  <2> SUFFICES ASSUME Verdict = "PASS"
               PROVE  Delivered' /\ report'.consumed = Cardinality(RequiredEdge)'
    BY <1>1 DEF Reconcile
  <2>1. Delivered /\ Finalized = ledger /\ ConsumedRequired = RequiredEdge
    BY PassDelivers
  <2>2. UNCHANGED <<ledger, states, outputs, declared>>
    BY <1>1, <2>1 DEF Reconcile
  <2>3. Delivered' /\ RequiredEdge' = RequiredEdge
    BY <2>1, <2>2 DEF Delivered, Ids, RequiredEdge, Done, DeclaredControl, Matches, OutputOf,
                      ReceiptValid
  <2> QED BY <1>1, <2>1, <2>3 DEF Reconcile
<1>2. CASE UNCHANGED vars
  <2>1. Delivered => Delivered'
    BY <1>2 DEF vars, Delivered, Ids, RequiredEdge, Done, DeclaredControl, Matches, OutputOf,
                ReceiptValid
  <2>2. RequiredEdge' = RequiredEdge
    BY <1>2 DEF vars, RequiredEdge, Done
  <2> QED BY <1>2, <2>1, <2>2 DEF vars
<1>3. CASE BeginRun \/ LegacyRun \/ RunRaises \/ Meddle
  BY <1>3 DEF BeginRun, LegacyRun, RunRaises, Meddle
<1>4. CASE \E n \in Node : StartNode(n) \/ BlockNode(n) \/ AnswerNode(n)
  BY <1>4 DEF StartNode, BlockNode, AnswerNode
<1> QED BY <1>1, <1>2, <1>3, <1>4 DEF Next, Stopped

\* A PASS is a delivery: every edge between two nodes that did their work and
\* every declared control was consumed once, by the output of this run it was
\* addressed to, as it stands, and nothing else is on record
\* (handoff_governance.py:97-157, handoff_control_governance.py:10-61).
THEOREM PassesAreDeliveries == Spec => []PassIsDelivery
<1>1. Init => PassIsDelivery
  BY DEF Init, PassIsDelivery
<1>2. TypeOK /\ PassIsDelivery /\ [Next]_vars => PassIsDelivery'
  BY StepDelivery
<1> QED BY <1>1, <1>2, TypeCorrect, PTL DEF Spec

-----------------------------------------------------------------------------
(* The verdict and the history of the session.  What an audit says of a      *)
(* record depends on how the record came to be as it is: the invariants tell *)
(* the records that the runtime made from those that were meddled with, and  *)
(* say of the latter, and of a failed run's, why no later run mends them.    *)

\* A record as the runtime makes it, before anything else touches the list.
Genuine(h) ==
  /\ \/ /\ h.id \in Edge
        /\ h.source = h.id[1] /\ h.target = h.id[2] /\ h.to = Agent[h.id[2]]
     \/ h.id = Risk /\ h.target = RiskTarget
     \/ h.id = Legacy
  /\ h.content = "declared" /\ h.to # "Unaddressed"
  /\ h.status = "CREATED" => h.receipt = NoReceipt
  /\ h.status # "CREATED" => ReceiptValid(h)
  /\ h.status = "CONSUMED" =>
       h.node = h.target /\ h.target # NoNode /\ (h.resolution = "ACCEPTED" => h.evidence)

Answered(n) == n \in Node /\ states[n] \in {"DONE", "NOT_DONE"}

Twice(i) == \E j \in DOMAIN ledger : j # i /\ ledger[j].id = ledger[i].id

\* Nobody resolves this record again: its receiver is over for this run, and a
\* later run that asks the receiver again makes a second record first.
Passed(i) ==
  LET h == ledger[i]
  IN  \/ h.target = NoNode
      \/ h.id \in Edge /\ h.target = h.id[2] /\ states[h.target] # "RUNNING"
      \/ h.id = Risk /\ h.target = RiskTarget /\ declared # {}
           /\ (phase = "running" => Answered(RiskTarget))

\* No audit passes over it, whatever happens to it.
Unexplained(i) == ledger[i].id \in {Foreign, Legacy} \/ Twice(i)

\* The ledger as long as only the runtime has touched it.
Untouched ==
  meddled = "NO" =>
    /\ \A i \in DOMAIN ledger : Genuine(ledger[i])
    /\ \A i \in DOMAIN ledger : ledger[i].status # "CREATED" => Unexplained(i) \/ Passed(i)
    /\ Risk \in Ids <=> declared # {}
    /\ \A e \in Edge : states[e[2]] \in {"RUNNING", "DONE"} => e \in Ids
    /\ run = 0 => ledger = <<>> /\ phase = "idle"

\* A record that keeps every later audit from passing.
Condemned(i) ==
  LET h == ledger[i]
  IN  \/ Unexplained(i)
      \/ h.status = "BLOCKED"
      \/ h.status = "CONSUMED" /\ (~ReceiptValid(h) \/ (h.resolution = "ACCEPTED" /\ ~h.evidence))
      \/ h.status = "CREATED" /\ Passed(i)

\* Whatever was changed, added or resealed has left such a record.
Condemning ==
  meddled \in {"CHANGED", "ADDED", "RESEALED"} => \E i \in DOMAIN ledger : Condemned(i)

\* In the first run every record is the only one of its id and was answered, if at
\* all, by the output that its receiver still has.
FirstRun ==
  run = 1 /\ phase # "idle" /\ meddled = "NO" =>
    \A i \in DOMAIN ledger :
      LET h == ledger[i]
      IN  /\ h.id # Legacy
          /\ ~Twice(i)
          /\ h.id \in Edge => states[h.id[2]] # "NONE"
          /\ h.id = Risk => Contract(h) \in declared
          /\ h.status = "CONSUMED" => h.output = outputs[h.target]

\* A run declares one control handoff at most.
OneControl == \A c, d \in declared : c = d

\* A record that the next reconciliation cannot pass: it is there already, or the
\* next run makes a second one.
Reminder(i) ==
  \/ Twice(i) \/ ledger[i].id = Legacy \/ ledger[i].status = "BLOCKED"
  \/ /\ ledger[i].id \in Edge
     /\ phase # "running" \/ states[ledger[i].id[2]] \in {"NONE", "NOT_DONE"}
  \/ ledger[i].id = Risk /\ phase # "running"

\* A session that failed still holds one.
Remembered ==
  meddled = "NO" /\ report.verdict = "FAIL" => \E i \in DOMAIN ledger : Reminder(i)

HistoryInv == Untouched /\ Condemning /\ FirstRun /\ OneControl

LEMMA EdgeIds ==
  ASSUME NEW e \in Edge
  PROVE  e[1] \in Dependencies(e[2]) /\ e[2] \in Node /\ e = <<e[1], e[2]>> /\ e \notin {Risk, Legacy, Foreign}
BY GovernanceAssumption DEF Edge

\* What sealing keeps, and what a seal is.
LEMMA SealedFacts ==
  ASSUME NEW h \in Handoff
  PROVE  /\ Sealed(h) \in Handoff /\ ReceiptValid(Sealed(h))
         /\ Fields(Sealed(h)) = Fields(h) /\ Contract(Sealed(h)) = Contract(h)
         /\ Sealed(h).id = h.id /\ Sealed(h).source = h.source /\ Sealed(h).target = h.target
         /\ Sealed(h).to = h.to /\ Sealed(h).evidence = h.evidence
         /\ Sealed(h).content = h.content /\ Sealed(h).status = h.status
         /\ Sealed(h).resolution = h.resolution /\ Sealed(h).output = h.output
         /\ Sealed(h).node = h.node
<1>1. Sealed(h) = [id |-> h.id, source |-> h.source, target |-> h.target, to |-> h.to,
                   evidence |-> h.evidence, content |-> h.content, status |-> h.status,
                   resolution |-> h.resolution, output |-> h.output, node |-> h.node,
                   receipt |-> Fields(h)]
  BY DEF Sealed, Handoff
<1>2. Fields(Sealed(h)) = Fields(h) /\ Sealed(h).receipt = Fields(h)
  BY <1>1 DEF Fields
<1> QED
  BY <1>1, <1>2, SealedType DEF ReceiptValid, Contract

\* The resolver seals what it consumes or blocks, and consumes only for the
\* receiver that is addressed.
LEMMA ResolvedFacts ==
  ASSUME NEW h \in Handoff, NEW ack \in Acknowledgement \ {"none"}, NEW o \in OutputId, NEW n \in Node
  PROVE  LET r == Resolved(h, ack, o, n)
         IN  /\ r \in Handoff /\ r.id = h.id /\ r.target = h.target /\ r.source = h.source
             /\ r.to = h.to /\ r.content = h.content /\ Contract(r) = Contract(h)
             /\ r.status \in {"CONSUMED", "BLOCKED"} /\ ReceiptValid(r)
             /\ r.status = "CONSUMED" =>
                  /\ h.target = n /\ r.node = n /\ r.output = o
                  /\ r.resolution = "ACCEPTED" => r.evidence
<1> DEFINE named == [h EXCEPT !.output = o, !.node = n]
<1>1. named \in Handoff
  BY DEF Handoff, Target
<1>2. ASSUME NEW g \in {h, named}
      PROVE  /\ Blocked(g) \in Handoff /\ Blocked(g).status = "BLOCKED" /\ Blocked(g).id = h.id
             /\ Blocked(g).target = h.target /\ Blocked(g).source = h.source
             /\ Blocked(g).to = h.to /\ Blocked(g).content = h.content
             /\ Contract(Blocked(g)) = Contract(h)
  BY <1>1, BlockedType DEF Blocked, Handoff, Contract
<1>3. ASSUME NEW disposition \in {"ACCEPTED", "CHALLENGED"}
      PROVE  LET c == Consumed(h, o, n, disposition)
             IN  /\ c \in Handoff /\ c.status = "CONSUMED" /\ c.id = h.id /\ c.target = h.target
                 /\ c.source = h.source /\ c.to = h.to /\ c.content = h.content
                 /\ Contract(c) = Contract(h) /\ c.node = n /\ c.output = o
                 /\ c.resolution = disposition /\ c.evidence = h.evidence
  <2>1. n \in Target
    BY DEF Target
  <2> QED
    BY <2>1, ConsumedType DEF Consumed, Handoff, Contract
<1>4. CASE ack = "accepted" /\ h.target = n /\ h.evidence
  <2> DEFINE c == Consumed(h, o, n, "ACCEPTED")
  <2>1. Resolved(h, ack, o, n) = Sealed(c)
    BY <1>4 DEF Resolved
  <2>2. /\ c \in Handoff /\ c.status = "CONSUMED" /\ c.id = h.id /\ c.target = h.target
        /\ c.source = h.source /\ c.to = h.to /\ c.content = h.content
        /\ Contract(c) = Contract(h) /\ c.node = n /\ c.output = o
        /\ c.resolution = "ACCEPTED" => c.evidence
    BY <1>3, <1>4
  <2> HIDE DEF c
  <2> QED
    BY <1>4, <2>1, <2>2, SealedFacts
<1>5. CASE ack = "challenged" /\ h.target = n
  <2> DEFINE c == Consumed(h, o, n, "CHALLENGED")
  <2>1. Resolved(h, ack, o, n) = Sealed(c)
    BY <1>5 DEF Resolved
  <2>2. /\ c \in Handoff /\ c.status = "CONSUMED" /\ c.id = h.id /\ c.target = h.target
        /\ c.source = h.source /\ c.to = h.to /\ c.content = h.content
        /\ Contract(c) = Contract(h) /\ c.node = n /\ c.output = o
        /\ c.resolution = "ACCEPTED" => c.evidence
    BY <1>3, <1>5
  <2> HIDE DEF c
  <2> QED
    BY <1>5, <2>1, <2>2, SealedFacts
<1>6. CASE \E g \in {h, named} : Resolved(h, ack, o, n) = Sealed(Blocked(g))
  BY <1>2, <1>6, SealedFacts
<1> QED
  BY <1>4, <1>5, <1>6 DEF Resolved, Acknowledgement

\* How the ledger of a run grows: a record keeps its place, its id and its
\* receiver, and once terminal it is not written again.
Keeps ==
  /\ DOMAIN ledger \subseteq DOMAIN ledger'
  /\ \A i \in DOMAIN ledger :
       /\ ledger'[i].id = ledger[i].id /\ ledger'[i].target = ledger[i].target
       /\ ledger[i].status # "CREATED" => ledger'[i] = ledger[i]

LEMMA AppendKeeps ==
  ASSUME NEW s \in Seq(Handoff), NEW h \in Handoff
  PROVE  /\ DOMAIN Append(s, h) = DOMAIN s \cup {Len(s) + 1}
         /\ Len(s) + 1 \notin DOMAIN s
         /\ Append(s, h)[Len(s) + 1] = h
         /\ \A i \in DOMAIN s : Append(s, h)[i] = s[i]
<1>1. DOMAIN s = 1..Len(s) /\ Len(s) \in Nat
  BY LenProperties
<1>2. DOMAIN Append(s, h) = 1..(Len(s) + 1)
  BY AppendProperties, LenProperties
<1> QED
  BY <1>1, <1>2, AppendProperties

LEMMA BeginRunAdds ==
  ASSUME TypeOK, BeginRun
  PROVE  \/ declared = {} /\ declared' = {} /\ ledger' = ledger
         \/ \E h \in Handoff :
              /\ h.id = Risk /\ h.target = RiskTarget /\ h.status = "CREATED" /\ Genuine(h)
              /\ declared' = {Contract(h)} /\ ledger' = Append(ledger, h)
<1> DEFINE new(evidence) == Pending(Risk, "control", RiskTarget, "Scrummaster", evidence)
<1>1. ASSUME NEW evidence \in BOOLEAN
      PROVE  /\ new(evidence) \in Handoff /\ new(evidence).id = Risk
             /\ new(evidence).target = RiskTarget /\ new(evidence).status = "CREATED"
             /\ Genuine(new(evidence))
  <2>1. new(evidence) \in Handoff
    BY PendingType, GovernanceAssumption DEF Id, Source, Target, Recipient
  <2> QED
    BY <2>1 DEF Pending, Genuine
<1> HIDE DEF new
<1> QED
  BY <1>1 DEF BeginRun, new

LEMMA LegacyRunAdds ==
  ASSUME TypeOK, LegacyRun
  PROVE  \E h \in Handoff :
           /\ h.id = Legacy /\ h.status = "CREATED" /\ Genuine(h)
           /\ ledger' = Append(ledger, h)
<1> DEFINE new == Pending(Legacy, "legacy-lead", "legacy-scrummaster", "Scrummaster", TRUE)
<1>1. new \in Handoff
  BY PendingType DEF Id, Source, Target, Recipient
<1>2. new.id = Legacy /\ new.status = "CREATED" /\ Genuine(new)
  BY DEF Pending, Genuine
<1> HIDE DEF new
<1> QED
  BY <1>1, <1>2 DEF LegacyRun, new

LEMMA EdgeRecord ==
  ASSUME NEW n \in Node, NEW d \in Dependencies(n), NEW evidence \in BOOLEAN
  PROVE  LET h == Pending(<<d, n>>, d, n, Agent[n], evidence)
         IN  /\ h \in Handoff /\ Genuine(h) /\ h.status = "CREATED"
             /\ h.id = <<d, n>> /\ h.id \in Edge /\ h.id[2] = n
<1> DEFINE h == Pending(<<d, n>>, d, n, Agent[n], evidence)
<1>1. d \in Node
  BY GovernanceAssumption DEF Dependencies
<1>2. h \in Handoff
  BY <1>1, PendingType DEF Id, Source, Target, Recipient
<1>3. <<d, n>> \in Edge /\ <<d, n>>[1] = d /\ <<d, n>>[2] = n
  BY <1>1 DEF Edge
<1>4. /\ h.id = <<d, n>> /\ h.source = d /\ h.target = n /\ h.to = Agent[n]
      /\ h.content = "declared" /\ h.status = "CREATED" /\ h.receipt = NoReceipt
  BY DEF Pending
<1> HIDE DEF h
<1>5. Genuine(h)
  BY <1>3, <1>4, GovernanceAssumption DEF Genuine
<1> QED
  BY <1>2, <1>3, <1>4, <1>5 DEF h

LEMMA StartNodeAdds ==
  ASSUME TypeOK, NEW n \in Node, StartNode(n)
  PROVE  /\ DOMAIN ledger \subseteq DOMAIN ledger'
         /\ \A i \in DOMAIN ledger : ledger'[i] = ledger[i]
         /\ \A i \in DOMAIN ledger' \ DOMAIN ledger :
              /\ ledger'[i] \in Handoff /\ Genuine(ledger'[i]) /\ ledger'[i].status = "CREATED"
              /\ ledger'[i].id \in Edge /\ ledger'[i].id[2] = n
         /\ \A d \in Dependencies(n) :
              \E i \in DOMAIN ledger' \ DOMAIN ledger : ledger'[i].id = <<d, n>>
         /\ \A i, j \in DOMAIN ledger' \ DOMAIN ledger :
              ledger'[i].id = ledger'[j].id => i = j
<1>1. PICK evidence \in [Dependencies(n) -> BOOLEAN] :
        ledger' = ledger \o
          [i \in DOMAIN DependsOn[n] |->
             LET d == DependsOn[n][i]
             IN  Pending(<<d, n>>, d, n, Agent[n], evidence[d])]
  BY DEF StartNode
<1> DEFINE made == [i \in DOMAIN DependsOn[n] |->
                      Pending(<<DependsOn[n][i], n>>, DependsOn[n][i], n, Agent[n],
                              evidence[DependsOn[n][i]])]
           k == Len(DependsOn[n])
           l == Len(ledger)
<1>2. k \in Nat /\ DOMAIN DependsOn[n] = 1..k /\ l \in Nat /\ DOMAIN ledger = 1..l
  BY GovernanceAssumption, LenProperties DEF TypeOK
<1>3. ASSUME NEW i \in 1..k
      PROVE  /\ made[i] \in Handoff /\ Genuine(made[i]) /\ made[i].status = "CREATED"
             /\ made[i].id = <<DependsOn[n][i], n>> /\ made[i].id \in Edge /\ made[i].id[2] = n
  <2> DEFINE d == DependsOn[n][i]
             given == evidence[d]
             h == Pending(<<d, n>>, d, n, Agent[n], given)
  <2>1. d \in Dependencies(n)
    BY <1>2 DEF Dependencies
  <2>2. given \in BOOLEAN
    BY <1>1, <2>1
  <2>3. made[i] = h
    BY <1>2
  <2> HIDE DEF made, d, given
  <2>4. /\ h \in Handoff /\ Genuine(h) /\ h.status = "CREATED"
        /\ h.id = <<d, n>> /\ h.id \in Edge /\ h.id[2] = n
    BY <2>1, <2>2, EdgeRecord
  <2> QED
    BY <2>3, <2>4 DEF d
<1>4. made \in Seq(Handoff) /\ Len(made) = k /\ ledger' = ledger \o made
  <2>1. made \in [1..k -> Handoff]
    BY <1>2, <1>3
  <2>2. made \in Seq(Handoff)
    BY <1>2, <2>1, SeqDef
  <2>3. Len(made) = k
    BY <1>2, <2>1, <2>2, LenProperties
  <2> QED
    BY <1>1, <2>2, <2>3
<1> HIDE DEF made
<1>5. /\ DOMAIN ledger' = 1..(l + k)
      /\ \A i \in 1..l : ledger'[i] = ledger[i]
      /\ \A i \in 1..k : ledger'[l + i] = made[i]
  <2>1. ledger \in Seq(Handoff)
    BY DEF TypeOK
  <2>2. ledger' \in Seq(Handoff) /\ Len(ledger') = l + k
    <3>1. made \in Seq(Handoff) /\ ledger' = ledger \o made
      BY <1>4
    <3>2. ledger' \in Seq(Handoff) /\ Len(ledger') = Len(ledger) + Len(made)
      BY <2>1, <3>1, ConcatProperties
    <3> QED
      BY <1>4, <3>2
  <2>3. \A i \in 1..(l + k) : ledger'[i] = IF i <= l THEN ledger[i] ELSE made[i - l]
    BY <1>4, <2>1, ConcatProperties
  <2>4. \A i \in 1..k : l + i \in 1..(l + k) /\ ~(l + i <= l) /\ (l + i) - l = i
    BY <1>2
  <2>5. DOMAIN ledger' = 1..(l + k)
    BY <2>2, LenProperties
  <2>6. \A i \in 1..l : i \in 1..(l + k) /\ i <= l
    BY <1>2
  <2> HIDE DEF l, k
  <2>7. \A i \in 1..l : ledger'[i] = ledger[i]
    BY <2>3, <2>6
  <2>8. \A i \in 1..k : ledger'[l + i] = made[i]
    BY <2>3, <2>4
  <2> QED
    BY <2>5, <2>7, <2>8
<1>6. \A i \in DOMAIN ledger' \ DOMAIN ledger : i - l \in 1..k /\ ledger'[i] = made[i - l]
  BY <1>2, <1>5
<1>7. \A i \in 1..k : l + i \in DOMAIN ledger' \ DOMAIN ledger
  BY <1>2, <1>5
<1>8. \A d \in Dependencies(n) : \E i \in DOMAIN ledger' \ DOMAIN ledger : ledger'[i].id = <<d, n>>
  <2> SUFFICES ASSUME NEW d \in Dependencies(n)
               PROVE  \E i \in DOMAIN ledger' \ DOMAIN ledger : ledger'[i].id = <<d, n>>
    OBVIOUS
  <2>1. PICK i \in 1..k : DependsOn[n][i] = d
    BY <1>2 DEF Dependencies
  <2> QED
    BY <1>3, <1>5, <1>7, <2>1
<1>9. ASSUME NEW i \in DOMAIN ledger' \ DOMAIN ledger, NEW j \in DOMAIN ledger' \ DOMAIN ledger,
             ledger'[i].id = ledger'[j].id
      PROVE  i = j
  <2>1. DependsOn[n][i - l] = DependsOn[n][j - l]
    BY <1>3, <1>6, <1>9
  <2>2. i - l = j - l
    BY <1>2, <1>6, <2>1, GovernanceAssumption
  <2>3. i \in Int /\ j \in Int
    BY <1>5, <1>2
  <2> QED
    BY <1>2, <2>2, <2>3
<1>10. DOMAIN ledger \subseteq DOMAIN ledger' /\ \A i \in DOMAIN ledger : ledger'[i] = ledger[i]
  BY <1>2, <1>5
<1>11. \A i \in DOMAIN ledger' \ DOMAIN ledger :
         /\ ledger'[i] \in Handoff /\ Genuine(ledger'[i]) /\ ledger'[i].status = "CREATED"
         /\ ledger'[i].id \in Edge /\ ledger'[i].id[2] = n
  <2> HIDE DEF l, k
  <2> QED
    BY <1>3, <1>6
<1> QED
  BY <1>8, <1>9, <1>10, <1>11

\* What one answer does: the answering node's pending records are resolved, and
\* nothing else is.
LEMMA AnswerNodeResolves ==
  ASSUME TypeOK, NEW n \in Node, AnswerNode(n)
  PROVE  /\ DOMAIN ledger' = DOMAIN ledger
         /\ \A i \in DOMAIN ledger :
              \/ ledger'[i] = ledger[i]
              \/ /\ ledger[i].status = "CREATED" /\ ledger[i].target \in {NoNode, n}
                 /\ ledger'[i].status \in {"CONSUMED", "BLOCKED"} /\ ReceiptValid(ledger'[i])
                 /\ ledger'[i].id = ledger[i].id /\ ledger'[i].target = ledger[i].target
                 /\ ledger'[i].source = ledger[i].source /\ ledger'[i].to = ledger[i].to
                 /\ ledger'[i].content = ledger[i].content
                 /\ Contract(ledger'[i]) = Contract(ledger[i])
                 /\ ledger'[i].status = "CONSUMED" =>
                      /\ ledger[i].target = n /\ ledger'[i].node = n
                      /\ ledger'[i].output = outputs'[n]
                      /\ ledger'[i].resolution = "ACCEPTED" => ledger'[i].evidence
         /\ \A m \in Node \ {n} : states'[m] = states[m] /\ outputs'[m] = outputs[m]
         /\ states[n] = "RUNNING" /\ states'[n] \in {"DONE", "NOT_DONE"}
<1>1. PICK o \in OutputId, done \in {"DONE", "NOT_DONE"}, acks \in [DOMAIN ledger -> Acknowledgement] :
        /\ MayAcknowledge(acks, n)
        /\ outputs' = [outputs EXCEPT ![n] = o]
        /\ states' = [states EXCEPT ![n] = done]
        /\ ledger' = [i \in DOMAIN ledger |-> Resolved(ledger[i], acks[i], o, n)]
  BY DEF AnswerNode
<1>2. outputs'[n] = o
  BY <1>1 DEF TypeOK
<1>3. ASSUME NEW i \in DOMAIN ledger, acks[i] = "none"
      PROVE  ledger'[i] = ledger[i]
  BY <1>1, <1>3 DEF Resolved
<1>4. ASSUME NEW i \in DOMAIN ledger, acks[i] # "none"
      PROVE  /\ ledger[i] \in Handoff /\ Addressed(ledger[i], n)
             /\ acks[i] \in Acknowledgement \ {"none"}
             /\ ledger'[i] = Resolved(ledger[i], acks[i], o, n)
  BY <1>1, <1>4 DEF MayAcknowledge, TypeOK
<1>5. /\ \A m \in Node \ {n} : states'[m] = states[m] /\ outputs'[m] = outputs[m]
      /\ states[n] = "RUNNING" /\ states'[n] \in {"DONE", "NOT_DONE"}
  BY <1>1 DEF TypeOK, AnswerNode
<1> QED
  BY <1>1, <1>2, <1>3, <1>4, <1>5, ResolvedFacts DEF Addressed

LEMMA FinalizedBlocks ==
  ASSUME TypeOK, Reconcile
  PROVE  /\ DOMAIN ledger' = DOMAIN ledger
         /\ \A i \in DOMAIN ledger :
              \/ ledger[i].status # "CREATED" /\ ledger'[i] = ledger[i]
              \/ /\ ledger[i].status = "CREATED" /\ ledger'[i].status = "BLOCKED"
                 /\ ReceiptValid(ledger'[i])
                 /\ ledger'[i].id = ledger[i].id /\ ledger'[i].target = ledger[i].target
                 /\ ledger'[i].source = ledger[i].source /\ ledger'[i].to = ledger[i].to
                 /\ ledger'[i].content = ledger[i].content
                 /\ Contract(ledger'[i]) = Contract(ledger[i])
<1>1. ASSUME NEW h \in Handoff
      PROVE  LET b == Sealed(Blocked(h))
             IN  /\ b.status = "BLOCKED" /\ ReceiptValid(b) /\ b.id = h.id /\ b.target = h.target
                 /\ b.source = h.source /\ b.to = h.to /\ b.content = h.content
                 /\ Contract(b) = Contract(h)
  <2>1. /\ Blocked(h) \in Handoff /\ Blocked(h).status = "BLOCKED" /\ Blocked(h).id = h.id
        /\ Blocked(h).target = h.target /\ Blocked(h).source = h.source
        /\ Blocked(h).to = h.to /\ Blocked(h).content = h.content
        /\ Contract(Blocked(h)) = Contract(h)
    BY BlockedType DEF Blocked, Handoff, Contract
  <2> QED
    BY <2>1, SealedFacts
<1>2. /\ DOMAIN ledger' = DOMAIN ledger
      /\ \A i \in DOMAIN ledger :
           ledger'[i] = IF ledger[i].status = "CREATED" THEN Sealed(Blocked(ledger[i])) ELSE ledger[i]
  BY DEF Reconcile, Finalized
<1>3. \A i \in DOMAIN ledger : ledger[i] \in Handoff
  BY DEF TypeOK
<1> QED
  BY <1>1, <1>2, <1>3

\* A step of the runtime, of any kind but meddling.
LEMMA RuntimeKeeps ==
  ASSUME TypeOK, [Next]_vars, meddled' = meddled
  PROVE  Keeps
<1>1. CASE BeginRun
  <2>1. CASE ledger' = ledger
    BY <2>1 DEF Keeps
  <2>2. CASE \E h \in Handoff : ledger' = Append(ledger, h)
    BY <2>2, AppendKeeps DEF Keeps, TypeOK
  <2> QED
    BY <1>1, <2>1, <2>2, BeginRunAdds
<1>2. CASE LegacyRun
  <2>1. PICK h \in Handoff : ledger' = Append(ledger, h)
    BY <1>2, LegacyRunAdds
  <2> QED
    BY <2>1, AppendKeeps DEF Keeps, TypeOK
<1>3. ASSUME NEW n \in Node, StartNode(n) PROVE Keeps
  BY <1>3, StartNodeAdds DEF Keeps
<1>4. ASSUME NEW n \in Node, AnswerNode(n) PROVE Keeps
  BY <1>4, AnswerNodeResolves DEF Keeps
<1>5. CASE Reconcile
  BY <1>5, FinalizedBlocks DEF Keeps
<1>6. CASE RunRaises \/ UNCHANGED vars \/ \E n \in Node : BlockNode(n)
  BY <1>6 DEF RunRaises, BlockNode, vars, Keeps
<1>7. CASE Meddle
  BY <1>7 DEF Meddle
<1> QED
  BY <1>1, <1>2, <1>3, <1>4, <1>5, <1>6, <1>7 DEF Next, Stopped

LEMMA UnexplainedStays ==
  ASSUME Keeps, NEW i \in DOMAIN ledger, Unexplained(i)
  PROVE  Unexplained(i)'
BY DEF Keeps, Unexplained, Twice

\* A second record of the same id has been made.
LEMMA MadeTwice ==
  ASSUME Keeps, NEW i \in DOMAIN ledger, NEW j \in DOMAIN ledger' \ DOMAIN ledger,
         ledger'[j].id = ledger[i].id
  PROVE  Unexplained(i)'
BY DEF Keeps, Unexplained, Twice

LEMMA PassedStays ==
  ASSUME TypeOK, [Next]_vars, meddled' = meddled, NEW i \in DOMAIN ledger, Passed(i)
  PROVE  Unexplained(i)' \/ Passed(i)'
<1> DEFINE h == ledger[i]
<1>1. Keeps
  BY RuntimeKeeps
<1>2. i \in DOMAIN ledger' /\ ledger'[i].id = h.id /\ ledger'[i].target = h.target
  BY <1>1 DEF Keeps
<1>3. CASE h.target = NoNode
  BY <1>2, <1>3 DEF Passed
<1>4. CASE h.id \in Edge /\ h.target = h.id[2] /\ states[h.target] # "RUNNING"
  <2>1. h.target \in Node
    BY <1>4, EdgeIds
  <2>2. CASE states'[h.target] # "RUNNING"
    BY <1>2, <1>4, <2>2 DEF Passed
  <2>3. CASE states'[h.target] = "RUNNING"
    <3>1. StartNode(h.target)
      <4>1. states'[h.target] # states[h.target]
        BY <1>4, <2>3
      <4>2. CASE BeginRun
        BY <2>1, <2>3, <4>2 DEF BeginRun
      <4>3. ASSUME NEW n \in Node, BlockNode(n) \/ AnswerNode(n) PROVE FALSE
        <5>1. states'[n] \in {"DONE", "NOT_DONE"} /\ \A m \in Node \ {n} : states'[m] = states[m]
          BY <4>3, AnswerNodeResolves DEF BlockNode, TypeOK
        <5> QED
          BY <2>1, <2>3, <4>1, <5>1
      <4>4. CASE \E n \in Node : StartNode(n)
        <5>1. PICK n \in Node : StartNode(n)
          BY <4>4
        <5>2. states' = [states EXCEPT ![n] = "RUNNING"]
          BY <5>1 DEF StartNode
        <5>3. h.target = n
          BY <2>1, <4>1, <5>2 DEF TypeOK
        <5> QED
          BY <5>1, <5>3
      <4>5. CASE LegacyRun \/ Reconcile \/ RunRaises \/ Meddle \/ UNCHANGED vars
        BY <4>1, <4>5 DEF LegacyRun, Reconcile, RunRaises, Meddle, vars
      <4> QED
        BY <4>2, <4>3, <4>4, <4>5 DEF Next, Stopped
    <3>2. h.id[1] \in Dependencies(h.target) /\ h.id = <<h.id[1], h.target>>
      BY <1>4, EdgeIds
    <3>3. PICK j \in DOMAIN ledger' \ DOMAIN ledger : ledger'[j].id = <<h.id[1], h.target>>
      BY <2>1, <3>1, <3>2, StartNodeAdds
    <3> QED
      BY <1>1, <3>2, <3>3, MadeTwice
  <2> QED
    BY <2>2, <2>3
<1>5. CASE /\ h.id = Risk /\ h.target = RiskTarget /\ declared # {}
           /\ phase = "running" => Answered(RiskTarget)
  <2>1. CASE BeginRun
    <3>1. PICK new \in Handoff : new.id = Risk /\ ledger' = Append(ledger, new)
      BY <1>5, <2>1, BeginRunAdds
    <3>2. Len(ledger) + 1 \in DOMAIN ledger' \ DOMAIN ledger /\ ledger'[Len(ledger) + 1] = new
      BY <3>1, AppendKeeps DEF TypeOK
    <3> QED
      BY <1>1, <1>5, <3>1, <3>2, MadeTwice
  <2>2. CASE LegacyRun \/ Reconcile \/ RunRaises
    BY <1>2, <1>5, <2>2 DEF LegacyRun, Reconcile, RunRaises, Passed
  <2>3. ASSUME NEW n \in Node, StartNode(n) \/ BlockNode(n) \/ AnswerNode(n)
        PROVE  Passed(i)'
    <3>1. phase = "running" /\ phase' = phase /\ declared' = declared /\ Answered(RiskTarget)
      BY <1>5, <2>3 DEF StartNode, BlockNode, AnswerNode
    <3>2. Answered(RiskTarget)'
      BY <2>3, <3>1, AnswerNodeResolves DEF StartNode, BlockNode, Answered, TypeOK
    <3> QED
      BY <1>2, <1>5, <3>1, <3>2 DEF Passed
  <2>4. CASE UNCHANGED vars
    BY <1>2, <1>5, <2>4 DEF vars, Passed, Answered
  <2> QED
    BY <2>1, <2>2, <2>3, <2>4 DEF Next, Stopped, Meddle
<1> QED
  BY <1>3, <1>4, <1>5 DEF Passed

\* And nobody consumes it.
LEMMA PassedUnconsumed ==
  ASSUME TypeOK, [Next]_vars, meddled' = meddled, NEW i \in DOMAIN ledger, Passed(i),
         ledger[i].status = "CREATED"
  PROVE  ledger'[i].status \in {"CREATED", "BLOCKED"}
<1>1. CASE \E n \in Node : AnswerNode(n)
  <2>1. PICK n \in Node : AnswerNode(n)
    BY <1>1
  <2>2. states[n] = "RUNNING" /\ phase = "running" /\ n # NoNode
    BY <2>1, AnswerNodeResolves, GovernanceAssumption DEF AnswerNode
  <2>3. ledger[i].target # n
    BY <2>2 DEF Passed, Answered
  <2> QED
    BY <2>1, <2>3, AnswerNodeResolves
<1>2. CASE Reconcile
  BY <1>2, FinalizedBlocks
<1>3. CASE BeginRun
  BY <1>3, BeginRunAdds, AppendKeeps DEF TypeOK
<1>4. CASE LegacyRun
  BY <1>4, LegacyRunAdds, AppendKeeps DEF TypeOK
<1>5. CASE \E n \in Node : StartNode(n)
  BY <1>5, StartNodeAdds
<1>6. CASE RunRaises \/ UNCHANGED vars \/ \E n \in Node : BlockNode(n)
  BY <1>6 DEF RunRaises, BlockNode, vars
<1>7. CASE Meddle
  BY <1>7 DEF Meddle
<1> QED
  BY <1>1, <1>2, <1>3, <1>4, <1>5, <1>6, <1>7 DEF Next, Stopped

LEMMA CondemnedStays ==
  ASSUME TypeOK, TypeOK', [Next]_vars, meddled' = meddled, NEW i \in DOMAIN ledger, Condemned(i)
  PROVE  i \in DOMAIN ledger' /\ Condemned(i)'
<1>1. Keeps /\ i \in DOMAIN ledger'
  BY RuntimeKeeps DEF Keeps
<1>2. CASE Unexplained(i)
  BY <1>1, <1>2, UnexplainedStays DEF Condemned
<1>3. CASE ledger[i].status # "CREATED"
  <2>1. ledger'[i] = ledger[i]
    BY <1>1, <1>3 DEF Keeps
  <2> QED
    BY <1>1, <1>2, <1>3, <2>1 DEF Condemned, ReceiptValid
<1>4. CASE ledger[i].status = "CREATED" /\ Passed(i)
  BY <1>1, <1>4, PassedStays, PassedUnconsumed DEF Condemned
<1> QED
  BY <1>2, <1>3, <1>4 DEF Condemned
\* What a step of the runtime puts on record is pending and as it was declared.
LEMMA RuntimeAdds ==
  ASSUME TypeOK, [Next]_vars, meddled' = meddled, NEW i \in DOMAIN ledger' \ DOMAIN ledger
  PROVE  ledger'[i] \in Handoff /\ Genuine(ledger'[i]) /\ ledger'[i].status = "CREATED"
<1>1. CASE BeginRun
  BY <1>1, BeginRunAdds, AppendKeeps DEF TypeOK
<1>2. CASE LegacyRun
  BY <1>2, LegacyRunAdds, AppendKeeps DEF TypeOK
<1>3. CASE \E n \in Node : StartNode(n)
  BY <1>3, StartNodeAdds
<1>4. CASE \E n \in Node : AnswerNode(n)
  BY <1>4, AnswerNodeResolves
<1>5. CASE Reconcile
  BY <1>5, FinalizedBlocks
<1>6. CASE RunRaises \/ UNCHANGED vars \/ \E n \in Node : BlockNode(n)
  BY <1>6 DEF RunRaises, BlockNode, vars
<1>7. CASE Meddle
  BY <1>7 DEF Meddle
<1> QED
  BY <1>1, <1>2, <1>3, <1>4, <1>5, <1>6, <1>7 DEF Next, Stopped

\* Only an answer and the reconciliation make a record terminal.
LEMMA OnlyResolved ==
  ASSUME TypeOK, [Next]_vars, meddled' = meddled, NEW i \in DOMAIN ledger, ledger'[i] # ledger[i]
  PROVE  Reconcile \/ \E n \in Node : AnswerNode(n)
<1>1. ASSUME BeginRun PROVE FALSE
  BY <1>1, BeginRunAdds, AppendKeeps DEF TypeOK
<1>2. ASSUME LegacyRun PROVE FALSE
  BY <1>2, LegacyRunAdds, AppendKeeps DEF TypeOK
<1>3. ASSUME \E n \in Node : StartNode(n) PROVE FALSE
  BY <1>3, StartNodeAdds
<1>4. ASSUME RunRaises \/ UNCHANGED vars \/ \E n \in Node : BlockNode(n) PROVE FALSE
  BY <1>4 DEF RunRaises, BlockNode, vars
<1>5. ASSUME Meddle PROVE FALSE
  BY <1>5 DEF Meddle
<1> QED
  BY <1>1, <1>2, <1>3, <1>4, <1>5 DEF Next, Stopped

LEMMA GenuineResolved ==
  ASSUME NEW h, NEW g, Genuine(h),
         g.id = h.id, g.target = h.target, g.source = h.source, g.to = h.to,
         g.content = h.content, g.status \in {"CONSUMED", "BLOCKED"}, ReceiptValid(g),
         g.status = "CONSUMED" =>
           g.node = h.target /\ h.target # NoNode /\ (g.resolution = "ACCEPTED" => g.evidence)
  PROVE  Genuine(g)
BY DEF Genuine

LEMMA GenuineStays ==
  ASSUME TypeOK, [Next]_vars, meddled' = meddled, NEW i \in DOMAIN ledger, Genuine(ledger[i])
  PROVE  Genuine(ledger'[i])
<1>1. CASE ledger'[i] = ledger[i]
  BY <1>1
<1>2. CASE ledger'[i] # ledger[i] /\ \E n \in Node : AnswerNode(n)
  <2>1. PICK n \in Node : AnswerNode(n)
    BY <1>2
  <2>2. n # NoNode
    BY GovernanceAssumption
  <2> QED
    BY <1>2, <2>1, <2>2, AnswerNodeResolves, GenuineResolved
<1>3. CASE ledger'[i] # ledger[i] /\ Reconcile
  BY <1>3, FinalizedBlocks, GenuineResolved
<1> QED
  BY <1>1, <1>2, <1>3, OnlyResolved

\* A record that was just resolved is one that nobody resolves again.
LEMMA TerminalPassed ==
  ASSUME TypeOK, [Next]_vars, meddled' = meddled, meddled = "NO", Untouched,
         NEW i \in DOMAIN ledger', ledger'[i].status # "CREATED"
  PROVE  Unexplained(i)' \/ Passed(i)'
<1> DEFINE h == ledger[i]
<1>1. i \in DOMAIN ledger /\ Keeps
  BY RuntimeAdds, RuntimeKeeps
<1>2. CASE h.status # "CREATED"
  BY <1>1, <1>2, PassedStays, UnexplainedStays DEF Untouched
<1>3. CASE h.status = "CREATED"
  <2>1. ledger'[i].id = h.id /\ ledger'[i].target = h.target /\ ledger'[i] # h
    BY <1>1, <1>3 DEF Keeps
  <2>2. Genuine(h) /\ (h.id = Risk => declared # {})
    BY <1>1 DEF Untouched, Ids
  <2>3. CASE Reconcile
    <3>1. /\ \A n \in Node : states'[n] \in {"DONE", "NOT_DONE"}
          /\ phase' = "reported" /\ declared' = declared
      BY <2>3 DEF Reconcile
    <3>2. CASE h.id \in Edge /\ h.target = h.id[2]
      BY <2>1, <3>1, <3>2, EdgeIds DEF Passed
    <3>3. CASE h.id = Risk /\ h.target = RiskTarget
      BY <2>1, <2>2, <3>1, <3>3 DEF Passed
    <3>4. CASE h.id = Legacy
      BY <2>1, <3>4 DEF Unexplained
    <3> QED
      BY <2>2, <3>2, <3>3, <3>4 DEF Genuine
  <2>4. CASE \E n \in Node : AnswerNode(n)
    <3>1. PICK n \in Node : AnswerNode(n)
      BY <2>4
    <3>2. /\ h.target \in {NoNode, n} /\ states'[n] \in {"DONE", "NOT_DONE"}
          /\ declared' = declared
      BY <1>1, <2>1, <3>1, AnswerNodeResolves DEF AnswerNode
    <3>3. CASE h.target = NoNode
      BY <2>1, <3>3 DEF Passed
    <3>4. CASE h.target = n /\ h.id \in Edge /\ h.target = h.id[2]
      BY <2>1, <3>2, <3>4 DEF Passed
    <3>5. CASE h.target = n /\ h.id = Risk /\ h.target = RiskTarget
      BY <2>1, <2>2, <3>2, <3>5 DEF Passed, Answered
    <3>6. CASE h.id = Legacy
      BY <2>1, <3>6 DEF Unexplained
    <3> QED
      BY <2>2, <3>2, <3>3, <3>4, <3>5, <3>6 DEF Genuine
  <2> QED
    BY <1>1, <2>1, <2>3, <2>4, OnlyResolved
<1> QED
  BY <1>2, <1>3

LEMMA IdsGrow == Keeps => Ids \subseteq Ids'
  BY DEF Keeps, Ids

LEMMA RiskDeclared ==
  ASSUME TypeOK, [Next]_vars, meddled' = meddled, Risk \in Ids <=> declared # {}
  PROVE  Risk \in Ids' <=> declared' # {}
<1>1. Ids \subseteq Ids'
  BY RuntimeKeeps, IdsGrow
<1>2. CASE BeginRun
  <2>1. CASE declared = {} /\ declared' = {} /\ ledger' = ledger
    BY <2>1 DEF Ids
  <2>2. ASSUME NEW h \in Handoff, h.id = Risk, declared' = {Contract(h)},
               ledger' = Append(ledger, h)
        PROVE  Risk \in Ids' /\ declared' # {}
    <3>1. Len(ledger) + 1 \in DOMAIN ledger' /\ ledger'[Len(ledger) + 1].id = Risk
      BY <2>2, AppendKeeps DEF TypeOK
    <3> QED
      BY <2>2, <3>1 DEF Ids
  <2> QED
    BY <1>2, <2>1, <2>2, BeginRunAdds
<1>3. CASE ~BeginRun
  <2>1. declared' = declared
    BY <1>3 DEF Next, LegacyRun, StartNode, BlockNode, AnswerNode, Reconcile, RunRaises, Meddle,
                Stopped, vars
  <2>2. ASSUME NEW i \in DOMAIN ledger' \ DOMAIN ledger PROVE ledger'[i].id # Risk
    <3>1. CASE LegacyRun
      <4>1. PICK h \in Handoff : h.id = Legacy /\ ledger' = Append(ledger, h)
        BY <3>1, LegacyRunAdds
      <4>2. ledger'[i] = h
        BY <2>2, <4>1, AppendKeeps DEF TypeOK
      <4> QED
        BY <4>1, <4>2, GovernanceAssumption
    <3>2. CASE \E n \in Node : StartNode(n)
      BY <2>2, <3>2, StartNodeAdds, EdgeIds
    <3>3. CASE Reconcile \/ \E n \in Node : AnswerNode(n)
      BY <2>2, <3>3, FinalizedBlocks, AnswerNodeResolves
    <3>4. CASE RunRaises \/ UNCHANGED vars \/ \E n \in Node : BlockNode(n)
      BY <2>2, <3>4 DEF RunRaises, BlockNode, vars
    <3>5. CASE Meddle
      BY <3>5 DEF Meddle
    <3> QED
      BY <1>3, <3>1, <3>2, <3>3, <3>4, <3>5 DEF Next, Stopped
  <2>3. \A i \in DOMAIN ledger : ledger'[i].id = ledger[i].id
    BY RuntimeKeeps DEF Keeps
  <2>4. Risk \in Ids' => Risk \in Ids
    BY <2>2, <2>3 DEF Ids
  <2> QED
    BY <1>1, <2>1, <2>4
<1> QED
  BY <1>2, <1>3

\* What a node needs to start was put on record when it did.
LEMMA StartedOnRecord ==
  ASSUME TypeOK, [Next]_vars, meddled' = meddled, NEW e \in Edge,
         states[e[2]] \in {"RUNNING", "DONE"} => e \in Ids,
         states'[e[2]] \in {"RUNNING", "DONE"}
  PROVE  e \in Ids'
<1>1. Ids \subseteq Ids' /\ e[2] \in Node /\ e[1] \in Dependencies(e[2]) /\ e = <<e[1], e[2]>>
  BY RuntimeKeeps, IdsGrow, EdgeIds
<1>2. CASE BeginRun
  BY <1>1, <1>2 DEF BeginRun
<1>3. ASSUME NEW n \in Node, StartNode(n)
      PROVE  e \in Ids'
  <2>1. CASE n = e[2]
    <3>1. PICK i \in DOMAIN ledger' : ledger'[i].id = <<e[1], n>>
      BY <1>1, <1>3, <2>1, StartNodeAdds
    <3> QED
      BY <1>1, <2>1, <3>1 DEF Ids
  <2>2. CASE n # e[2]
    <3>1. states'[e[2]] = states[e[2]]
      BY <1>1, <1>3, <2>2 DEF StartNode, TypeOK
    <3> QED
      BY <1>1, <3>1
  <2> QED
    BY <2>1, <2>2
<1>4. ASSUME NEW n \in Node, AnswerNode(n)
      PROVE  e \in Ids'
  BY <1>1, <1>4, AnswerNodeResolves
<1>5. ASSUME NEW n \in Node, BlockNode(n)
      PROVE  e \in Ids'
  BY <1>1, <1>5 DEF BlockNode, TypeOK
<1>6. CASE LegacyRun \/ Reconcile \/ RunRaises \/ Meddle \/ UNCHANGED vars
  BY <1>1, <1>6 DEF LegacyRun, Reconcile, RunRaises, Meddle, vars
<1> QED
  BY <1>2, <1>3, <1>4, <1>5, <1>6 DEF Next, Stopped

LEMMA UntouchedStep ==
  TypeOK /\ Untouched /\ [Next]_vars => Untouched'
<1> SUFFICES ASSUME TypeOK, Untouched, [Next]_vars, meddled' = "NO"
             PROVE  /\ \A i \in DOMAIN ledger' : Genuine(ledger'[i])
                    /\ \A i \in DOMAIN ledger' :
                         ledger'[i].status # "CREATED" => Unexplained(i)' \/ Passed(i)'
                    /\ Risk \in Ids' <=> declared' # {}
                    /\ \A e \in Edge : states'[e[2]] \in {"RUNNING", "DONE"} => e \in Ids'
                    /\ run' = 0 => ledger' = <<>> /\ phase' = "idle"
  BY DEF Untouched
<1>1. meddled = "NO" /\ meddled' = meddled
  BY DEF Next, BeginRun, LegacyRun, StartNode, BlockNode, AnswerNode, Reconcile, RunRaises, Meddle,
         Stopped, vars
<1>2. \A i \in DOMAIN ledger' : Genuine(ledger'[i])
  BY <1>1, RuntimeAdds, GenuineStays DEF Untouched
<1>3. \A i \in DOMAIN ledger' :
        ledger'[i].status # "CREATED" => Unexplained(i)' \/ Passed(i)'
  BY <1>1, TerminalPassed
<1>4. Risk \in Ids' <=> declared' # {}
  BY <1>1, RiskDeclared DEF Untouched
<1>5. \A e \in Edge : states'[e[2]] \in {"RUNNING", "DONE"} => e \in Ids'
  BY <1>1, StartedOnRecord DEF Untouched
<1>6. run' = 0 => ledger' = <<>> /\ phase' = "idle"
  <2>1. CASE BeginRun \/ LegacyRun
    <3>1. run \in Nat
      BY GovernanceAssumption DEF TypeOK
    <3>2. run' = run + 1
      BY <2>1 DEF BeginRun, LegacyRun
    <3> QED
      BY <3>1, <3>2
  <2>2. CASE RunRaises \/ Reconcile \/ \E n \in Node : StartNode(n) \/ BlockNode(n) \/ AnswerNode(n)
    BY <1>1, <2>2 DEF Untouched, RunRaises, Reconcile, StartNode, BlockNode, AnswerNode
  <2>3. CASE UNCHANGED vars \/ Meddle
    BY <1>1, <2>3 DEF Untouched, vars, Meddle
  <2> QED
    BY <2>1, <2>2, <2>3 DEF Next, Stopped
<1> QED
  BY <1>2, <1>3, <1>4, <1>5, <1>6


-----------------------------------------------------------------------------
LEMMA ConsumedFacts ==
  ASSUME NEW h \in Handoff, NEW o \in OutputId, NEW n \in Target
  PROVE  LET c == Consumed(h, o, n, "ACCEPTED")
         IN  c \in Handoff /\ c.status = "CONSUMED" /\ c.receipt = h.receipt
BY ConsumedType DEF Consumed, Handoff

\* A changed record is one that no audit passes over, or one that is pending
\* again with the receipt of what it was.
LEMMA ChangedFacts ==
  ASSUME NEW h \in Handoff, Genuine(h), NEW g \in Changed(h)
  PROVE  \/ g.status = "BLOCKED"
         \/ g.status = "CONSUMED" /\ ~ReceiptValid(g)
         \/ h.status # "CREATED" /\ g.status = "CREATED" /\ g.id = h.id /\ g.target = h.target
<1>1. CASE h.status = "CREATED"
  <2>1. g = Blocked(h) \/ \E o \in OutputId : g = Consumed(h, o, h.target, "ACCEPTED")
    BY <1>1 DEF Changed
  <2>2. Blocked(h).status = "BLOCKED"
    BY DEF Blocked, Handoff
  <2>3. ASSUME NEW o \in OutputId, g = Consumed(h, o, h.target, "ACCEPTED")
        PROVE  g.status = "CONSUMED" /\ ~ReceiptValid(g)
    <3>1. h.target \in Target /\ h.receipt = NoReceipt
      BY <1>1 DEF Handoff, Genuine
    <3>2. g \in Handoff /\ g.status = "CONSUMED" /\ g.receipt = NoReceipt
      BY <2>3, <3>1, ConsumedFacts
    <3> QED
      BY <3>2, FieldsType, ReceiptAssumption DEF ReceiptValid
  <2> QED
    BY <2>1, <2>2, <2>3
<1>2. CASE h.status # "CREATED"
  <2>1. h.receipt = Fields(h) /\ h.content = "declared" /\ h.to # "Unaddressed"
    BY <1>2 DEF Genuine, ReceiptValid
  <2>2. h.status \in {"CONSUMED", "BLOCKED"}
    BY <1>2 DEF Handoff, Status
  <2>3. CASE g = [h EXCEPT !.status = "CREATED"]
    BY <1>2, <2>3 DEF Handoff
  <2>4. ASSUME g.receipt = h.receipt, g.status = h.status, Fields(g) # Fields(h)
        PROVE  g.status = "BLOCKED" \/ (g.status = "CONSUMED" /\ ~ReceiptValid(g))
    BY <2>1, <2>2, <2>4 DEF ReceiptValid
  <2>5. /\ Fields(g) = Fields(h) =>
             /\ g.content = h.content /\ g.evidence = h.evidence /\ g.to = h.to
             /\ g.resolution = h.resolution /\ g.output = h.output
    <3>1. ASSUME NEW k
          PROVE  /\ Fields(k).content = k.content /\ Fields(k).evidence = k.evidence
                 /\ Fields(k).to = k.to /\ Fields(k).resolution = k.resolution
                 /\ Fields(k).output = k.output
      BY DEF Fields
    <3>2. SUFFICES ASSUME Fields(g) = Fields(h)
                   PROVE  /\ g.content = h.content /\ g.evidence = h.evidence /\ g.to = h.to
                          /\ g.resolution = h.resolution /\ g.output = h.output
      OBVIOUS
    <3> DEFINE f == Fields(g)
    <3>3. /\ f.content = g.content /\ f.evidence = g.evidence /\ f.to = g.to
          /\ f.resolution = g.resolution /\ f.output = g.output
      BY <3>1
    <3>4. /\ f.content = h.content /\ f.evidence = h.evidence /\ f.to = h.to
          /\ f.resolution = h.resolution /\ f.output = h.output
      BY <3>1, <3>2
    <3> QED
      BY <3>3, <3>4
  <2>6. CASE g = [h EXCEPT !.content = "altered"]
    <3>1. g.receipt = h.receipt /\ g.status = h.status /\ g.content = "altered"
      BY <2>6 DEF Handoff
    <3> QED
      BY <2>1, <2>4, <2>5, <3>1
  <2>7. CASE g = [h EXCEPT !.evidence = ~@]
    <3>1. g.receipt = h.receipt /\ g.status = h.status /\ g.evidence # h.evidence
      BY <2>7 DEF Handoff
    <3> QED
      BY <2>4, <2>5, <3>1
  <2>8. CASE g = [h EXCEPT !.resolution = IF @ = "ACCEPTED" THEN "CHALLENGED" ELSE "ACCEPTED"]
    <3>1. g.receipt = h.receipt /\ g.status = h.status /\ g.resolution # h.resolution
      BY <2>8 DEF Handoff
    <3> QED
      BY <2>4, <2>5, <3>1
  <2>9. CASE g = [h EXCEPT !.to = "Unaddressed"]
    <3>1. g.receipt = h.receipt /\ g.status = h.status /\ g.to = "Unaddressed"
      BY <2>9 DEF Handoff
    <3> QED
      BY <2>1, <2>4, <2>5, <3>1
  <2>10. CASE \E o \in OutputId \ {h.output} : g = [h EXCEPT !.output = o]
    <3>1. g.receipt = h.receipt /\ g.status = h.status /\ g.output # h.output
      BY <2>10 DEF Handoff
    <3> QED
      BY <2>4, <2>5, <3>1
  <2> QED
    BY <1>2, <2>3, <2>6, <2>7, <2>8, <2>9, <2>10 DEF Changed
<1> QED
  BY <1>1, <1>2

LEMMA MeddledCondemned ==
  ASSUME TypeOK, Untouched, Meddle, meddled' \in {"CHANGED", "ADDED", "RESEALED"}
  PROVE  \E i \in DOMAIN ledger' : Condemned(i)'
<1>1. /\ \A i \in DOMAIN ledger : Genuine(ledger[i])
      /\ \A i \in DOMAIN ledger : ledger[i].status # "CREATED" => Unexplained(i) \/ Passed(i)
  BY DEF Untouched, Meddle
<1>2. ASSUME NEW i \in DOMAIN ledger, NEW g \in Changed(ledger[i]),
             ledger' = [ledger EXCEPT ![i] = g]
      PROVE  i \in DOMAIN ledger' /\ Condemned(i)'
  <2>1. i \in DOMAIN ledger' /\ ledger'[i] = g
    BY <1>2 DEF TypeOK
  <2>2. CASE g.status = "BLOCKED" \/ (g.status = "CONSUMED" /\ ~ReceiptValid(g))
    BY <2>1, <2>2 DEF Condemned, ReceiptValid
  <2>3. CASE /\ ledger[i].status # "CREATED" /\ g.status = "CREATED"
             /\ g.id = ledger[i].id /\ g.target = ledger[i].target
    <3>1. UNCHANGED <<states, phase, declared>>
      BY DEF Meddle
    <3>2. \A j \in DOMAIN ledger : j \in DOMAIN ledger' /\ ledger'[j].id = ledger[j].id
      BY <1>2, <2>3
    <3>3. Passed(i) => Passed(i)'
      BY <2>1, <2>3, <3>1 DEF Passed, Answered
    <3>4. Unexplained(i) => Unexplained(i)'
      BY <3>2 DEF Unexplained, Twice
    <3> QED
      BY <1>1, <2>1, <2>3, <3>3, <3>4 DEF Condemned
  <2> QED
    BY <1>1, <2>1, <2>2, <2>3, ChangedFacts DEF TypeOK
<1>3. CASE ledger' = Append(ledger, Pending(Foreign, "control", RiskTarget, "Scrummaster", TRUE))
  <2> DEFINE h == Pending(Foreign, "control", RiskTarget, "Scrummaster", TRUE)
  <2>1. h \in Handoff /\ h.id = Foreign
    <3>1. h \in Handoff
      BY PendingType, GovernanceAssumption DEF Id, Source, Target, Recipient
    <3> QED
      BY <3>1 DEF Pending
  <2> HIDE DEF h
  <2>2. ledger' = Append(ledger, h) /\ ledger \in Seq(Handoff)
    BY <1>3 DEF TypeOK, h
  <2>3. Len(ledger) + 1 \in DOMAIN ledger' /\ ledger'[Len(ledger) + 1] = h
    BY <2>1, <2>2, AppendKeeps
  <2> QED
    BY <2>1, <2>3 DEF Condemned, Unexplained
<1>4. ASSUME NEW i \in DOMAIN ledger, ledger[i].status = "CONSUMED",
             ledger' = [ledger EXCEPT ![i] =
                          Sealed([@ EXCEPT !.evidence = FALSE, !.resolution = "ACCEPTED"])]
      PROVE  i \in DOMAIN ledger' /\ Condemned(i)'
  <2> DEFINE h == [ledger[i] EXCEPT !.evidence = FALSE, !.resolution = "ACCEPTED"]
  <2>1. h \in Handoff /\ h.status = "CONSUMED" /\ h.resolution = "ACCEPTED" /\ h.evidence = FALSE
    <3>1. ledger[i] \in Handoff
      BY DEF TypeOK
    <3> QED
      BY <1>4, <3>1 DEF Handoff, Resolution
  <2>2. i \in DOMAIN ledger' /\ ledger'[i] = Sealed(h)
    BY <1>4
  <2> HIDE DEF h
  <2>3. /\ Sealed(h).status = "CONSUMED" /\ Sealed(h).resolution = "ACCEPTED"
        /\ Sealed(h).evidence = FALSE
    BY <2>1, SealedFacts
  <2> QED
    BY <2>2, <2>3 DEF Condemned
<1> QED
  BY <1>2, <1>3, <1>4 DEF Meddle

LEMMA CondemningStep ==
  TypeOK /\ TypeOK' /\ Untouched /\ Condemning /\ [Next]_vars => Condemning'
<1> SUFFICES ASSUME TypeOK, TypeOK', Untouched, Condemning, [Next]_vars,
                    meddled' \in {"CHANGED", "ADDED", "RESEALED"}
             PROVE  \E i \in DOMAIN ledger' : Condemned(i)'
  BY DEF Condemning
<1>1. CASE Meddle
  BY <1>1, MeddledCondemned
<1>2. CASE meddled' = meddled
  BY <1>2, CondemnedStays DEF Condemning
<1> QED
  BY <1>1, <1>2 DEF Next, BeginRun, LegacyRun, StartNode, BlockNode, AnswerNode, Reconcile,
                    RunRaises, Stopped, vars

LEMMA OneControlStep ==
  TypeOK /\ OneControl /\ [Next]_vars => OneControl'
<1> SUFFICES ASSUME TypeOK, OneControl, [Next]_vars PROVE OneControl'
  OBVIOUS
<1>1. CASE BeginRun
  BY <1>1, BeginRunAdds DEF OneControl
<1> QED
  BY <1>1 DEF OneControl, Next, LegacyRun, StartNode, BlockNode, AnswerNode, Reconcile,
              RunRaises, Meddle, Stopped, vars

\* In the first run no receiver answers twice, so what it consumed is what its
\* output still is.
LEMMA ConsumedThen ==
  ASSUME TypeOK, Untouched, FirstRun, run = 1, meddled = "NO", phase = "running",
         NEW i \in DOMAIN ledger, ledger[i].status = "CONSUMED"
  PROVE  /\ ledger[i].target \in Node /\ states[ledger[i].target] # "RUNNING"
         /\ ledger[i].output = outputs[ledger[i].target]
         /\ ledger[i].id \in Edge \cup {Risk}
<1> DEFINE h == ledger[i]
<1>1. Genuine(h) /\ (Unexplained(i) \/ Passed(i))
  BY DEF Untouched
<1>2. h.id # Legacy /\ ~Twice(i) /\ h.output = outputs[h.target]
  BY DEF FirstRun
<1>3. h.id \in Edge \cup {Risk} /\ h.id # Foreign
  BY <1>1, <1>2, GovernanceAssumption, EdgeIds DEF Genuine
<1>4. Passed(i) /\ h.target # NoNode
  BY <1>1, <1>2, <1>3 DEF Unexplained, Genuine
<1>5. CASE h.id \in Edge /\ h.target = h.id[2] /\ states[h.target] # "RUNNING"
  BY <1>2, <1>3, <1>5, EdgeIds
<1>6. CASE h.target = RiskTarget /\ Answered(RiskTarget)
  BY <1>2, <1>3, <1>6 DEF Answered
<1> QED
  BY <1>4, <1>5, <1>6 DEF Passed

LEMMA FirstRunStep ==
  TypeOK /\ Untouched /\ FirstRun /\ [Next]_vars => FirstRun'
<1> SUFFICES ASSUME TypeOK, Untouched, FirstRun, [Next]_vars,
                    run' = 1, phase' # "idle", meddled' = "NO", NEW i \in DOMAIN ledger'
             PROVE  /\ ledger'[i].id # Legacy
                    /\ ~Twice(i)'
                    /\ ledger'[i].id \in Edge => states'[ledger'[i].id[2]] # "NONE"
                    /\ ledger'[i].id = Risk => Contract(ledger'[i]) \in declared'
                    /\ ledger'[i].status = "CONSUMED" =>
                         ledger'[i].output = outputs'[ledger'[i].target]
  BY DEF FirstRun
<1>1. meddled = "NO" /\ meddled' = meddled
  BY DEF Next, BeginRun, LegacyRun, StartNode, BlockNode, AnswerNode, Reconcile, RunRaises, Meddle,
         Stopped, vars
<1>2. CASE BeginRun
  <2>1. ledger = <<>>
    <3>1. run = 0
      BY <1>2 DEF BeginRun, TypeOK
    <3> QED
      BY <1>1, <3>1 DEF Untouched
  <2>2. PICK h \in Handoff : /\ h.id = Risk /\ h.status = "CREATED"
                             /\ declared' = {Contract(h)} /\ ledger' = Append(ledger, h)
    BY <1>2, <2>1, BeginRunAdds
  <2>3. DOMAIN ledger' = {1} /\ ledger'[1] = h
    <3>1. <<>> \in Seq(Handoff) /\ Len(<<>>) = 0 /\ DOMAIN <<>> = {}
      OBVIOUS
    <3> QED
      BY <2>1, <2>2, <3>1, AppendKeeps
  <2> QED
    BY <2>2, <2>3, GovernanceAssumption, EdgeIds DEF Twice
<1>3. CASE LegacyRun
  BY <1>3 DEF LegacyRun
<1>4. CASE ~BeginRun /\ ~LegacyRun
  <2>1. run = 1 /\ phase # "idle" /\ declared' = declared
    BY <1>4 DEF Next, StartNode, BlockNode, AnswerNode, Reconcile, RunRaises, Meddle, Stopped, vars
  <2>2. \A j \in DOMAIN ledger :
          /\ ledger[j].id # Legacy /\ ~Twice(j)
          /\ ledger[j].id \in Edge => states[ledger[j].id[2]] # "NONE"
          /\ ledger[j].id = Risk => Contract(ledger[j]) \in declared
          /\ ledger[j].status = "CONSUMED" => ledger[j].output = outputs[ledger[j].target]
    BY <1>1, <2>1 DEF FirstRun
  <2>3. ASSUME NEW n \in Node, StartNode(n)
        PROVE  /\ ledger'[i].id # Legacy
               /\ ~Twice(i)'
               /\ ledger'[i].id \in Edge => states'[ledger'[i].id[2]] # "NONE"
               /\ ledger'[i].id = Risk => Contract(ledger'[i]) \in declared'
               /\ ledger'[i].status = "CONSUMED" =>
                    ledger'[i].output = outputs'[ledger'[i].target]
    <3>1. states[n] = "NONE" /\ outputs' = outputs
          /\ \A m \in Node : states'[m] = IF m = n THEN "RUNNING" ELSE states[m]
      BY <2>3 DEF StartNode, TypeOK
    <3>2. /\ DOMAIN ledger \subseteq DOMAIN ledger'
          /\ \A j \in DOMAIN ledger : ledger'[j] = ledger[j]
          /\ \A j \in DOMAIN ledger' \ DOMAIN ledger :
               ledger'[j].status = "CREATED" /\ ledger'[j].id \in Edge /\ ledger'[j].id[2] = n
          /\ \A j, k \in DOMAIN ledger' \ DOMAIN ledger : ledger'[j].id = ledger'[k].id => j = k
      BY <2>3, StartNodeAdds
    <3>3. \A j \in DOMAIN ledger, k \in DOMAIN ledger' \ DOMAIN ledger : ledger'[j].id # ledger'[k].id
      BY <2>2, <3>1, <3>2
    <3>4. ~Twice(i)'
      BY <2>2, <3>2, <3>3 DEF Twice
    <3>5. CASE i \in DOMAIN ledger
      BY <2>1, <2>2, <3>1, <3>2, <3>4, <3>5, EdgeIds
    <3>6. CASE i \notin DOMAIN ledger
      BY <3>1, <3>2, <3>4, <3>6, EdgeIds
    <3> QED
      BY <3>5, <3>6
  <2>4. CASE \E n \in Node : AnswerNode(n)
    <3>1. PICK n \in Node : AnswerNode(n)
      BY <2>4
    <3>2. /\ DOMAIN ledger' = DOMAIN ledger /\ phase = "running" /\ states[n] = "RUNNING"
          /\ \A j \in DOMAIN ledger : ledger'[j].id = ledger[j].id
          /\ Contract(ledger'[i]) = Contract(ledger[i])
          /\ states'[n] # "NONE"
          /\ \A m \in Node \ {n} : states'[m] = states[m] /\ outputs'[m] = outputs[m]
      BY <3>1, AnswerNodeResolves DEF AnswerNode
    <3>3. ~Twice(i)'
      BY <2>2, <3>2 DEF Twice
    <3>4. ledger'[i].status = "CONSUMED" => ledger'[i].output = outputs'[ledger'[i].target]
      <4>1. CASE ledger'[i] = ledger[i] /\ ledger[i].status = "CONSUMED"
        <5>1. ledger[i].target \in Node \ {n} /\ ledger[i].output = outputs[ledger[i].target]
          BY <1>1, <2>1, <3>2, <4>1, ConsumedThen
        <5> QED
          BY <3>2, <4>1, <5>1
      <4>2. CASE ledger'[i] # ledger[i]
        BY <3>1, <3>2, <4>2, AnswerNodeResolves
      <4> QED
        BY <4>1, <4>2
    <3> QED
      BY <2>1, <2>2, <3>2, <3>3, <3>4, EdgeIds
  <2>5. CASE Reconcile
    <3>1. /\ DOMAIN ledger' = DOMAIN ledger
          /\ \A j \in DOMAIN ledger : ledger'[j].id = ledger[j].id
          /\ Contract(ledger'[i]) = Contract(ledger[i])
          /\ ledger'[i].status = "CONSUMED" => ledger'[i] = ledger[i]
          /\ states' = states /\ outputs' = outputs
      BY <2>5, FinalizedBlocks DEF Reconcile
    <3>2. ~Twice(i)'
      BY <2>2, <3>1 DEF Twice
    <3> QED
      BY <2>1, <2>2, <3>1, <3>2
  <2>6. ASSUME NEW n \in Node, BlockNode(n)
        PROVE  /\ ledger'[i].id # Legacy
               /\ ~Twice(i)'
               /\ ledger'[i].id \in Edge => states'[ledger'[i].id[2]] # "NONE"
               /\ ledger'[i].id = Risk => Contract(ledger'[i]) \in declared'
               /\ ledger'[i].status = "CONSUMED" =>
                    ledger'[i].output = outputs'[ledger'[i].target]
    <3>1. ledger' = ledger /\ outputs' = outputs
          /\ \A m \in Node : states'[m] = IF m = n THEN "NOT_DONE" ELSE states[m]
      BY <2>6 DEF BlockNode, TypeOK
    <3>2. ~Twice(i)'
      BY <2>2, <3>1 DEF Twice
    <3> QED
      BY <2>1, <2>2, <3>1, <3>2, EdgeIds
  <2>7. CASE RunRaises \/ UNCHANGED vars
    <3>1. ledger' = ledger /\ outputs' = outputs /\ states' = states
      BY <2>7 DEF RunRaises, vars
    <3>2. ~Twice(i)'
      BY <2>2, <3>1 DEF Twice
    <3> QED
      BY <2>1, <2>2, <3>1, <3>2
  <2>8. CASE Meddle
    BY <1>1, <2>8 DEF Meddle
  <2> QED
    BY <1>4, <2>3, <2>4, <2>5, <2>6, <2>7, <2>8 DEF Next, Stopped
<1> QED
  BY <1>2, <1>3, <1>4


-----------------------------------------------------------------------------
LEMMA CondemnedFails ==
  ASSUME TypeOK, NEW i \in DOMAIN ledger, Condemned(i)
  PROVE  Verdict = "FAIL"
<1> SUFFICES ASSUME Verdict = "PASS" PROVE FALSE
  BY DEF Verdict
<1>1. /\ ledger[i].id \in RequiredEdge \cup DeclaredControl /\ Matches(ledger[i].id) = {i}
      /\ ledger[i].status = "CONSUMED" /\ ReceiptValid(ledger[i])
      /\ ledger[i].resolution = "ACCEPTED" => ledger[i].evidence
  BY RecordDelivered
<1>2. ledger[i].id \notin {Foreign, Legacy}
  <2>1. CASE ledger[i].id \in RequiredEdge
    BY <2>1, EdgeIds DEF RequiredEdge
  <2>2. CASE ledger[i].id \in DeclaredControl
    BY <2>2, GovernanceAssumption DEF DeclaredControl, TypeOK
  <2> QED
    BY <1>1, <2>1, <2>2
<1>3. ~Twice(i)
  BY <1>1 DEF Twice, Matches
<1> QED
  BY <1>1, <1>2, <1>3 DEF Condemned, Unexplained

\* When every node of an untouched first run did its work and every record was
\* consumed, the audit has nothing to say.
LEMMA NothingToSay ==
  ASSUME TypeOK, Untouched, FirstRun, OneControl, run = 1, meddled = "NO", phase = "running",
         Unresolved = {}, \A n \in Node : Done(n)
  PROVE  Verdict = "PASS"
<1>1. ASSUME NEW i \in DOMAIN ledger
      PROVE  LET h == ledger[i]
             IN  /\ Genuine(h) /\ h.status = "CONSUMED" /\ ReceiptValid(h) /\ ~Twice(i)
                 /\ h.target \in Node /\ h.node = h.target /\ h.output = outputs[h.target]
                 /\ h.id \in Edge \cup {Risk}
                 /\ h.id = Risk => Contract(h) \in declared
                 /\ h.resolution = "ACCEPTED" => h.evidence
  <2>1. Genuine(ledger[i]) /\ ledger[i].status = "CONSUMED"
    BY DEF Untouched, Unresolved
  <2> QED
    BY <2>1, ConsumedThen DEF FirstRun, Genuine
<1>2. RequiredEdge = Edge
  BY EdgeIds, GovernanceAssumption DEF RequiredEdge, Edge
<1>3. declared # {} => DeclaredControl = {Risk}
  BY DEF DeclaredControl, TypeOK
<1>4. \A i \in DOMAIN ledger : ledger[i].id = Risk => Risk \in DeclaredControl
  BY <1>1, <1>3
<1>5. RequiredEdge \cup DeclaredControl \subseteq Ids
  <2>1. Edge \subseteq Ids
    BY EdgeIds DEF Untouched, Done
  <2>2. DeclaredControl \subseteq Ids
    BY DEF DeclaredControl, TypeOK, Untouched
  <2> QED
    BY <1>2, <2>1, <2>2
<1>6. ASSUME NEW id \in RequiredEdge \cup DeclaredControl
      PROVE  \E i \in DOMAIN ledger : ledger[i].id = id /\ Matches(id) = {i} /\ FirstOf(id) = ledger[i]
  <2>1. PICK i \in DOMAIN ledger : ledger[i].id = id
    BY <1>5 DEF Ids
  <2>2. Matches(id) = {i}
    BY <1>1, <2>1 DEF Matches, Twice
  <2> QED
    BY <2>1, <2>2, OnlyRecord
<1>7. Duplicate = {} /\ Dropped = {} /\ EvidenceFree = {}
  <2>1. Duplicate = {}
    BY <1>1 DEF Duplicate, Matches, Twice
  <2>2. Dropped = {}
    BY <1>1 DEF Dropped
  <2>3. EvidenceFree = {}
    BY <1>1 DEF EvidenceFree
  <2> QED
    BY <2>1, <2>2, <2>3
<1>8. Stale = {} /\ Unexpected = {} /\ Missing = {}
  <2>1. Stale = {}
    BY <1>1, EdgeIds, GovernanceAssumption DEF Stale, Ids
  <2>2. Unexpected = {}
    BY <1>1, <1>2, <1>4 DEF Unexpected, Ids
  <2>3. Missing = {}
    BY <1>6 DEF Missing
  <2> QED
    BY <2>1, <2>2, <2>3
<1>9. WrongRecipient = {}
  <2> SUFFICES ASSUME NEW e \in RequiredEdge
               PROVE  LET h == FirstOf(e) IN h.to = Agent[e[2]] /\ h.source = e[1] /\ h.target = e[2]
    BY DEF WrongRecipient
  <2>1. PICK i \in DOMAIN ledger : ledger[i].id = e /\ FirstOf(e) = ledger[i]
    BY <1>6
  <2>2. Genuine(ledger[i]) /\ e \in Edge /\ e # Risk /\ e # Legacy
    BY <1>1, <1>2, EdgeIds
  <2> QED
    BY <2>1, <2>2 DEF Genuine
<1>10. InvalidControl = {}
  <2> SUFFICES ASSUME NEW d \in declared
               PROVE  Contract(FirstOf(d.id)) = d
    BY DEF InvalidControl
  <2>1. d.id = Risk /\ d.id \in DeclaredControl
    BY DEF TypeOK, DeclaredControl
  <2>2. PICK i \in DOMAIN ledger : ledger[i].id = Risk /\ FirstOf(d.id) = ledger[i]
    BY <1>6, <2>1
  <2> QED
    BY <1>1, <2>2 DEF OneControl
<1>11. \A id \in Present :
         \E i \in DOMAIN ledger : FirstOf(id) = ledger[i] /\ Receiver(id) = ledger[i].target
  <2> SUFFICES ASSUME NEW id \in RequiredEdge \cup DeclaredControl
               PROVE  \E i \in DOMAIN ledger :
                        FirstOf(id) = ledger[i] /\ Receiver(id) = ledger[i].target
    BY DEF Present
  <2>1. PICK i \in DOMAIN ledger : ledger[i].id = id /\ FirstOf(id) = ledger[i]
    BY <1>6
  <2>2. CASE id = Risk
    BY <2>1, <2>2 DEF Receiver
  <2>3. CASE id # Risk
    <3>1. id \in Edge /\ id # Legacy
      BY <1>1, <2>1, <2>3, EdgeIds
    <3>2. ledger[i].target = id[2]
      BY <1>1, <2>1, <2>3, <3>1 DEF Genuine
    <3> QED
      BY <2>1, <2>3, <3>2 DEF Receiver
  <2> QED
    BY <2>2, <2>3
<1>12. WrongConsumer = {} /\ InvalidReceipt = {}
  <2>1. WrongConsumer = {}
    BY <1>1, <1>11 DEF WrongConsumer, OutputOf
  <2>2. InvalidReceipt = {}
    BY <1>1, <1>11 DEF InvalidReceipt
  <2> QED
    BY <2>1, <2>2
<1>13. \A code : Coded(code, {}) = {}
  BY DEF Coded
<1>14. Issues = {}
  BY <1>7, <1>8, <1>9, <1>10, <1>12, <1>13 DEF Issues
<1> QED
  BY <1>14 DEF Verdict

LEMMA HonestStep ==
  TypeOK /\ HistoryInv /\ VerdictIsHonest /\ [Next]_vars => VerdictIsHonest'
<1> SUFFICES ASSUME TypeOK, HistoryInv, VerdictIsHonest, [Next]_vars PROVE VerdictIsHonest'
  OBVIOUS
<1>1. CASE Reconcile
  <2>1. /\ UNCHANGED <<run, meddled>> /\ phase = "running" /\ report'.verdict = Verdict
        /\ report'.complete = (Unresolved = {} /\ \A n \in Node : Done(n))
    BY <1>1 DEF Reconcile
  <2>2. meddled \in {"CHANGED", "ADDED", "RESEALED"} => Verdict = "FAIL"
    BY CondemnedFails DEF HistoryInv, Condemning
  <2>3. run = 1 /\ meddled = "NO" /\ report'.complete => Verdict = "PASS"
    BY <2>1, NothingToSay DEF HistoryInv
  <2> QED
    BY <2>1, <2>2, <2>3 DEF VerdictIsHonest
<1>2. CASE UNCHANGED vars
  BY <1>2 DEF VerdictIsHonest, vars
<1>3. CASE BeginRun \/ LegacyRun \/ RunRaises \/ Meddle
  BY <1>3 DEF VerdictIsHonest, BeginRun, LegacyRun, RunRaises, Meddle
<1>4. CASE \E n \in Node : StartNode(n) \/ BlockNode(n) \/ AnswerNode(n)
  BY <1>4 DEF VerdictIsHonest, StartNode, BlockNode, AnswerNode
<1> QED
  BY <1>1, <1>2, <1>3, <1>4 DEF Next, Stopped

LEMMA HistoryInit == Init => HistoryInv /\ VerdictIsHonest /\ Remembered
<1> SUFFICES ASSUME Init PROVE HistoryInv /\ VerdictIsHonest /\ Remembered
  OBVIOUS
<1>1. DOMAIN ledger = {} /\ Ids = {}
  BY DEF Init, Ids
<1>2. Untouched
  BY <1>1, EdgeIds DEF Init, Untouched
<1> QED
  BY <1>1, <1>2 DEF Init, HistoryInv, Condemning, FirstRun, OneControl, VerdictIsHonest, Remembered

\* The history of the ledger, as the runtime and the list's other writers make it
\* (handoff_governance.py:20-95, workflow_runner.py:138, 196-208).
THEOREM HistoriesAreKept == Spec => []HistoryInv
<1>1. Init => HistoryInv
  BY HistoryInit
<1>2. TypeOK /\ TypeOK' /\ HistoryInv /\ [Next]_vars => HistoryInv'
  BY UntouchedStep, CondemningStep, FirstRunStep, OneControlStep DEF HistoryInv
<1> QED
  BY <1>1, <1>2, TypeCorrect, PTL DEF Spec

\* The verdict and the status tell the truth of each other: what was changed, added
\* or sealed again outside the runtime fails the audit, whatever the run does with
\* it afterwards, and the first run of an untouched session that is COMPLETE has
\* passed it (handoff_governance.py:97-157, workflow_runner.py:196-208).
THEOREM VerdictsAreHonest == Spec => []VerdictIsHonest
<1>1. Init => VerdictIsHonest
  BY HistoryInit
<1>2. TypeOK /\ HistoryInv /\ VerdictIsHonest /\ [Next]_vars => VerdictIsHonest'
  BY HonestStep
<1> QED
  BY <1>1, <1>2, TypeCorrect, HistoriesAreKept, PTL DEF Spec

-----------------------------------------------------------------------------
\* A FAIL leaves a record behind: an empty ledger passes.
LEMMA FailReminds ==
  ASSUME TypeOK, Untouched, meddled = "NO", Reconcile, Verdict = "FAIL"
  PROVE  \E i \in DOMAIN ledger' : Reminder(i)'
<1>1. DOMAIN ledger # {}
  <2> SUFFICES ASSUME DOMAIN ledger = {} PROVE Verdict = "PASS"
    BY DEF Verdict
  <2>1. Ids = {} /\ \A id : Matches(id) = {}
    BY DEF Ids, Matches
  <2>2. Unresolved = {} /\ Dropped = {} /\ EvidenceFree = {}
    BY DEF Unresolved, Dropped, EvidenceFree
  <2>3. RequiredEdge = {}
    BY <2>1, EdgeIds DEF RequiredEdge, Untouched, Done
  <2>4. DeclaredControl = {}
    BY <2>1 DEF DeclaredControl, Untouched
  <2>5. Duplicate = {} /\ Stale = {} /\ Unexpected = {} /\ Missing = {} /\ Present = {}
    BY <2>1, <2>3, <2>4 DEF Duplicate, Stale, Unexpected, Missing, Present
  <2>6. WrongRecipient = {} /\ InvalidControl = {} /\ WrongConsumer = {} /\ InvalidReceipt = {}
    BY <2>3, <2>5 DEF WrongRecipient, InvalidControl, WrongConsumer, InvalidReceipt
  <2>7. \A code : Coded(code, {}) = {}
    BY DEF Coded
  <2> QED
    BY <2>2, <2>5, <2>6, <2>7 DEF Issues, Verdict
<1>2. PICK i \in DOMAIN ledger : TRUE
  BY <1>1
<1>3. i \in DOMAIN ledger' /\ ledger'[i].id = ledger[i].id /\ phase' = "reported"
  BY FinalizedBlocks DEF Reconcile
<1>4. ledger[i].id \in Edge \cup {Risk, Legacy}
  BY DEF Untouched, Genuine
<1> QED
  BY <1>3, <1>4 DEF Reminder

LEMMA ReminderStays ==
  ASSUME TypeOK, Untouched, meddled = "NO", [Next]_vars, meddled' = meddled,
         NEW i \in DOMAIN ledger, Reminder(i)
  PROVE  i \in DOMAIN ledger' /\ Reminder(i)'
<1> DEFINE h == ledger[i]
<1>1. /\ Keeps /\ i \in DOMAIN ledger' /\ ledger'[i].id = h.id
      /\ h.status = "BLOCKED" => ledger'[i].status = "BLOCKED"
  BY RuntimeKeeps DEF Keeps
<1>2. CASE Twice(i)
  BY <1>1, <1>2 DEF Keeps, Twice, Reminder
<1>3. CASE h.id = Legacy \/ h.status = "BLOCKED"
  BY <1>1, <1>3 DEF Reminder
<1>4. CASE h.id \in Edge /\ (phase # "running" \/ states[h.id[2]] \in {"NONE", "NOT_DONE"})
  <2>1. h.id[2] \in Node /\ h.id[1] \in Dependencies(h.id[2]) /\ h.id = <<h.id[1], h.id[2]>>
    BY <1>4, EdgeIds
  <2>2. CASE BeginRun
    BY <1>1, <1>4, <2>1, <2>2 DEF BeginRun, Reminder
  <2>3. CASE LegacyRun \/ RunRaises \/ Reconcile
    BY <1>1, <1>4, <2>3 DEF LegacyRun, RunRaises, Reconcile, Reminder
  <2>4. CASE UNCHANGED vars
    BY <1>1, <1>4, <2>4 DEF vars, Reminder
  <2>5. ASSUME NEW n \in Node, StartNode(n) PROVE Reminder(i)'
    <3>1. CASE n = h.id[2]
      <4>1. h.id[1] \in Dependencies(n)
        BY <2>1, <3>1
      <4>2. PICK j \in DOMAIN ledger' \ DOMAIN ledger : ledger'[j].id = <<h.id[1], n>>
        BY <2>5, <4>1, StartNodeAdds
      <4>3. ledger'[j].id = h.id
        BY <2>1, <3>1, <4>2
      <4> QED
        BY <1>1, <4>2, <4>3 DEF Twice, Reminder
    <3>2. CASE n # h.id[2]
      <4>1. phase = "running" /\ phase' = phase /\ states'[h.id[2]] = states[h.id[2]]
        BY <2>1, <2>5, <3>2 DEF StartNode, TypeOK
      <4> QED
        BY <1>1, <1>4, <4>1 DEF Reminder
    <3> QED
      BY <3>1, <3>2
  <2>6. ASSUME NEW n \in Node, BlockNode(n) PROVE Reminder(i)'
    <3>1. phase = "running" /\ phase' = phase /\ states'[h.id[2]] \in {states[h.id[2]], "NOT_DONE"}
      BY <2>1, <2>6 DEF BlockNode, TypeOK
    <3> QED
      BY <1>1, <1>4, <3>1 DEF Reminder
  <2>7. ASSUME NEW n \in Node, AnswerNode(n) PROVE Reminder(i)'
    <3>1. phase = "running" /\ phase' = phase /\ states'[h.id[2]] = states[h.id[2]]
      BY <1>4, <2>1, <2>7, AnswerNodeResolves DEF AnswerNode
    <3> QED
      BY <1>1, <1>4, <3>1 DEF Reminder
  <2> QED
    BY <1>1, <2>2, <2>3, <2>4, <2>5, <2>6, <2>7 DEF Next, Stopped, Meddle
<1>5. CASE h.id = Risk /\ phase # "running"
  <2>1. CASE BeginRun
    <3>1. declared # {}
      BY <1>5 DEF Untouched, Ids
    <3>2. PICK g \in Handoff : g.id = Risk /\ ledger' = Append(ledger, g)
      BY <2>1, <3>1, BeginRunAdds
    <3>3. Len(ledger) + 1 \in DOMAIN ledger' \ DOMAIN ledger /\ ledger'[Len(ledger) + 1] = g
      BY <3>2, AppendKeeps DEF TypeOK
    <3> QED
      BY <1>1, <1>5, <3>2, <3>3 DEF Twice, Reminder
  <2>2. CASE LegacyRun \/ UNCHANGED vars
    BY <1>1, <1>5, <2>2 DEF LegacyRun, vars, Reminder
  <2> QED
    BY <1>5, <2>1, <2>2 DEF Next, Stopped, StartNode, BlockNode, AnswerNode, Reconcile, RunRaises,
                            Meddle
<1> QED
  BY <1>2, <1>3, <1>4, <1>5 DEF Reminder

LEMMA RememberedStep ==
  TypeOK /\ Untouched /\ Remembered /\ [Next]_vars => Remembered'
<1> SUFFICES ASSUME TypeOK, Untouched, Remembered, [Next]_vars,
                    meddled' = "NO", report'.verdict = "FAIL"
             PROVE  \E i \in DOMAIN ledger' : Reminder(i)'
  BY DEF Remembered
<1>1. meddled = "NO" /\ meddled' = meddled
  BY DEF Next, BeginRun, LegacyRun, StartNode, BlockNode, AnswerNode, Reconcile, RunRaises, Meddle,
         Stopped, vars
<1>2. CASE report.verdict = "FAIL"
  <2>1. PICK i \in DOMAIN ledger : Reminder(i)
    BY <1>1, <1>2 DEF Remembered
  <2> QED
    BY <1>1, <2>1, ReminderStays
<1>3. CASE report.verdict # "FAIL"
  <2>1. Reconcile
    BY <1>3 DEF Next, BeginRun, LegacyRun, StartNode, BlockNode, AnswerNode, RunRaises, Meddle,
                Stopped, vars
  <2>2. Verdict = "FAIL"
    BY <2>1 DEF Reconcile
  <2> QED
    BY <1>1, <2>1, <2>2, FailReminds
<1> QED
  BY <1>2, <1>3

LEMMA ReminderFails ==
  ASSUME TypeOK, Reconcile, NEW i \in DOMAIN ledger, Reminder(i)
  PROVE  Verdict = "FAIL"
<1> SUFFICES ASSUME Verdict = "PASS" PROVE FALSE
  BY DEF Verdict
<1>1. /\ ledger[i].id \in RequiredEdge \cup DeclaredControl /\ ledger[i].status = "CONSUMED"
      /\ phase = "running"
  BY RecordDelivered DEF Reconcile
<1>2. ~Twice(i) /\ ledger[i].id # Legacy
  BY CondemnedFails DEF Condemned, Unexplained, Verdict
<1>3. ASSUME ledger[i].id \in Edge, states[ledger[i].id[2]] \in {"NONE", "NOT_DONE"} PROVE FALSE
  <2>1. ledger[i].id \notin DeclaredControl
    BY <1>3, EdgeIds DEF DeclaredControl, TypeOK
  <2> QED
    BY <1>1, <1>3, <2>1 DEF RequiredEdge, Done
<1> QED
  BY <1>1, <1>2, <1>3 DEF Reminder

\* A session keeps its failures, however many runs follow: after a FAIL none
\* passes, and what was blocked keeps every later run from being COMPLETE
\* (workflow_runner.py:138, 196-202, handoff_governance.py:113-137).
THEOREM FailuresAlwaysStay == Spec => FailuresStay
<1>1. Init => Remembered
  BY HistoryInit
<1>2. TypeOK /\ HistoryInv /\ Remembered /\ [Next]_vars => Remembered'
  BY RememberedStep DEF HistoryInv
<1>3. TypeOK /\ Remembered /\ [Next]_vars =>
        [ meddled' = "NO" =>
            /\ report.verdict = "FAIL" => report'.verdict = "FAIL"
            /\ (\E i \in DOMAIN ledger : ledger[i].status = "BLOCKED") /\ phase' = "reported"
                 => ~report'.complete ]_vars
  <2> SUFFICES ASSUME TypeOK, Remembered, Next, meddled' = "NO", ~UNCHANGED vars
               PROVE  /\ report.verdict = "FAIL" => report'.verdict = "FAIL"
                      /\ (\E i \in DOMAIN ledger : ledger[i].status = "BLOCKED")
                           /\ phase' = "reported" => ~report'.complete
    OBVIOUS
  <2>1. CASE Reconcile
    <3>1. /\ meddled = "NO" /\ report'.verdict = Verdict
          /\ report'.complete = (Unresolved = {} /\ \A n \in Node : Done(n))
      BY <2>1 DEF Reconcile
    <3>2. report.verdict = "FAIL" => Verdict = "FAIL"
      BY <2>1, <3>1, ReminderFails DEF Remembered
    <3>3. \A i \in DOMAIN ledger : ledger[i].status = "BLOCKED" => Unresolved # {}
      BY DEF Unresolved
    <3> QED
      BY <3>1, <3>2, <3>3
  <2>2. CASE BeginRun \/ LegacyRun \/ RunRaises \/ Meddle
    BY <2>2 DEF BeginRun, LegacyRun, RunRaises, Meddle
  <2>3. CASE \E n \in Node : StartNode(n) \/ BlockNode(n) \/ AnswerNode(n)
    BY <2>3 DEF StartNode, BlockNode, AnswerNode
  <2> QED
    BY <2>1, <2>2, <2>3 DEF Next, Stopped
<1> QED
  BY <1>1, <1>2, <1>3, TypeCorrect, HistoriesAreKept, PTL DEF Spec, FailuresStay

-----------------------------------------------------------------------------
(* What an agent answers, and who believes it.                               *)

\* Ids that are as many as the items tell the items apart.
LEMMA IdsTellApart ==
  ASSUME NEW list, IsList(list), HasIds(list), NEW i \in DOMAIN list, NEW j \in DOMAIN list,
         list[i].id = list[j].id
  PROVE  i = j
<1>1. DOMAIN list = 1..Len(list) /\ Len(list) \in Nat
  BY DEF IsList
<1>2. IsFiniteSet(1..Len(list)) /\ Cardinality(1..Len(list)) = Len(list)
  <2>1. 1 \in Int /\ Len(list) \in Int
    BY <1>1
  <2>2. IsFiniteSet(1..Len(list))
        /\ Cardinality(1..Len(list)) = IF 1 > Len(list) THEN 0 ELSE Len(list) - 1 + 1
    BY <2>1, FS_Interval
  <2> QED
    BY <1>1, <2>2
<1> DEFINE f == [k \in 1..Len(list) |-> list[k].id]
<1>3. f \in Surjection(1..Len(list), IdsOf(list))
  BY <1>1 DEF Surjection, IdsOf
<1>4. f \in Injection(1..Len(list), IdsOf(list))
  BY <1>2, <1>3, FS_SurjSameCardinalityImpliesInj DEF HasIds
<1> QED
  BY <1>1, <1>4 DEF Injection, IsInjective

\* A reference that resolves names one item, which is the one the validator keeps.
LEMMA OneBehind ==
  ASSUME NEW o, IsList(o.evidence), HasIds(o.evidence), NEW ref \in IdsOf(o.evidence)
  PROVE  \E i \in DOMAIN o.evidence : Behind(o, ref) = {i} /\ ItemOf(o, ref) = o.evidence[i]
<1>1. PICK i \in DOMAIN o.evidence : o.evidence[i].id = ref
  BY DEF IdsOf
<1>2. \A j \in DOMAIN o.evidence : o.evidence[j].id = ref => j = i
  BY <1>1, IdsTellApart
<1>3. Behind(o, ref) = {i}
  BY <1>1, <1>2 DEF Behind
<1>4. DOMAIN o.evidence = 1..Len(o.evidence)
  BY DEF IsList
<1> DEFINE I == {j \in 1..Len(o.evidence) : o.evidence[j].id = ref}
<1>5. I = {i}
  BY <1>1, <1>2, <1>4
<1>6. SelectInSeq(o.evidence, LAMBDA e : e.id = ref) = IF I # {} THEN Min(I) ELSE 0
  BY DEF SelectInSeq
<1> HIDE DEF I
<1>7. i \in Int
  BY <1>4
<1>8. Min({i}) = i
  BY <1>7 DEF Min
<1>9. SelectInSeq(o.evidence, LAMBDA e : e.id = ref) = i
  BY <1>5, <1>6, <1>8
<1>10. ItemOf(o, ref) = o.evidence[i]
  BY <1>9 DEF ItemOf
<1> QED
  BY <1>3, <1>10

\* Weakness is a number, and the worst of the items is at least each of them.
LEMMA AllowedIsWorst ==
  ASSUME NEW o, EvidenceHolds(o), NEW refs, NEW ref \in Range(refs) \cap IdsOf(o.evidence),
         \A r \in Range(refs) \cap IdsOf(o.evidence) : ItemOf(o, r).state \in DOMAIN ClaimStateOf
  PROVE  Weakness[ClaimStateOf[ItemOf(o, ref).state]] <= Allowed(o, refs) /\ Allowed(o, refs) \in 0..5
<1> DEFINE S == {Weakness[ClaimStateOf[ItemOf(o, r).state]] : r \in Range(refs) \cap IdsOf(o.evidence)}
<1>1. \A state \in DOMAIN ClaimStateOf : Weakness[ClaimStateOf[state]] \in 0..5
  BY DEF ClaimStateOf, Weakness
<1>2. S \subseteq 0..5
  BY <1>1
<1>3. Weakness[ClaimStateOf[ItemOf(o, ref).state]] \in S
  OBVIOUS
<1>4. Allowed(o, refs) = IF S = {} THEN 0 ELSE CHOOSE w \in S : \A v \in S : v <= w
  BY DEF Allowed
<1> HIDE DEF S
<1>5. \E w \in S : \A v \in S : v <= w
  <2>1. \A v \in S : v \in 0..5
    BY <1>2
  <2>2. CASE 5 \in S
    BY <2>1, <2>2
  <2>3. CASE 5 \notin S /\ 4 \in S
    BY <2>1, <2>3
  <2>4. CASE 5 \notin S /\ 4 \notin S /\ 3 \in S
    BY <2>1, <2>4
  <2>5. CASE 5 \notin S /\ 4 \notin S /\ 3 \notin S /\ 2 \in S
    BY <2>1, <2>5
  <2>6. CASE 5 \notin S /\ 4 \notin S /\ 3 \notin S /\ 2 \notin S /\ 1 \in S
    BY <2>1, <2>6
  <2>7. CASE 5 \notin S /\ 4 \notin S /\ 3 \notin S /\ 2 \notin S /\ 1 \notin S
    BY <1>3, <2>1, <2>7
  <2> QED
    BY <2>2, <2>3, <2>4, <2>5, <2>6, <2>7
<1>6. Allowed(o, refs) \in S /\ \A v \in S : v <= Allowed(o, refs)
  BY <1>3, <1>4, <1>5
<1> QED
  BY <1>2, <1>3, <1>6

LEMMA StrengthOfStates ==
  ASSUME NEW claimed \in {"AVAILABLE", "PARTIAL", "STALE"}, NEW state \in DOMAIN ClaimStateOf,
         Weakness[ClaimStateOf[state]] <= Weakness[claimed]
  PROVE  state \in SafeFor[claimed]
BY DEF ClaimStateOf, Weakness, SafeFor

LEMMA ClaimsAreSupported ==
  ASSUME NEW o, IsList(o.evidence), BindingHolds(o), NEW i \in DOMAIN o.claims
  PROVE  ClaimSupported(o, o.claims[i]) /\ o.claims[i].refs # <<>>
<1>1. PICK claim : claim = o.claims[i]
  OBVIOUS
<1>2. EvidenceHolds(o) /\ HasIds(o.evidence) /\ RefsHold(o, claim.refs) /\ ClaimStateHolds(o, claim)
  BY <1>1 DEF BindingHolds, EvidenceHolds, ClaimsHold
<1>3. claim.refs # <<>> /\ Range(claim.refs) \subseteq IdsOf(o.evidence)
  BY <1>2 DEF RefsHold
<1>4. \A ref \in IdsOf(o.evidence) : ItemOf(o, ref).state \in DOMAIN ClaimStateOf
  BY <1>2, OneBehind DEF EvidenceHolds
<1>5. ASSUME NEW ref \in Range(claim.refs)
      PROVE  \E k \in DOMAIN o.evidence :
                Behind(o, ref) = {k} /\ (claim.inference \/ o.evidence[k].state \in SafeFor[claim.state])
  <2>1. PICK k \in DOMAIN o.evidence : Behind(o, ref) = {k} /\ ItemOf(o, ref) = o.evidence[k]
    BY <1>2, <1>3, OneBehind
  <2>2. /\ Weakness[ClaimStateOf[o.evidence[k].state]] <= Allowed(o, claim.refs)
        /\ Allowed(o, claim.refs) \in 0..5
    BY <1>2, <1>3, <1>4, <2>1, AllowedIsWorst
  <2>3. CASE ~claim.inference
    <3>1. claim.state \in {"AVAILABLE", "PARTIAL", "STALE"} /\ Weakness[claim.state] >= Allowed(o, claim.refs)
      BY <1>2, <2>3 DEF ClaimStateHolds, Weakness
    <3>2. o.evidence[k].state \in DOMAIN ClaimStateOf
      BY <1>2 DEF EvidenceHolds
    <3>3. Weakness[ClaimStateOf[o.evidence[k].state]] \in 0..5 /\ Weakness[claim.state] \in 0..5
      BY <3>1, <3>2 DEF ClaimStateOf, Weakness
    <3>4. Weakness[ClaimStateOf[o.evidence[k].state]] <= Weakness[claim.state]
      BY <2>2, <3>1, <3>3
    <3>5. o.evidence[k].state \in SafeFor[claim.state]
      BY <3>1, <3>2, <3>4, StrengthOfStates
    <3> QED
      BY <2>1, <3>5
  <2> QED
    BY <2>1, <2>3
<1> QED
  BY <1>1, <1>3, <1>5 DEF ClaimSupported

LEMMA FindingsAreSingle ==
  ASSUME NEW o, IsList(o.evidence), BindingHolds(o), NEW i \in DOMAIN o.findings,
         NEW ref \in Range(o.findings[i].refs)
  PROVE  Cardinality(Behind(o, ref)) = 1
<1>1. HasIds(o.evidence) /\ ref \in IdsOf(o.evidence)
  BY DEF BindingHolds, EvidenceHolds, FindingsHold, RefsHold
<1>2. PICK k \in DOMAIN o.evidence : Behind(o, ref) = {k}
  BY <1>1, OneBehind
<1> QED
  BY <1>2, FS_Singleton

\* What the validators let through.
EndorsedRight(a) ==
  LET o == a.output
  IN  /\ IsList(o.evidence) /\ BindingHolds(o)
      /\ a.as = "agent" =>
           /\ SpecialistHolds(o) /\ o.agent = request.agent
           /\ IF request.echo THEN o.state = "SYNTHETIC" ELSE o = exchange.reply /\ o.state # "SYNTHETIC"
      /\ a.as = "file" /\ request.legacy => exchange.reply \in Answers /\ o = NormalizeLegacy(exchange.reply)

Asking ==
  /\ DOMAIN exchange = {"attempts", "reply"}
  /\ agentStage = "asking" => ~request.echo

AgentInv ==
  /\ endorsed # {} => agentStage \in {"done", "pdf", "html"}
  /\ \A a \in endorsed : EndorsedRight(a)

LEMMA NormalizedOutput ==
  ASSUME NEW o, Shaped(o), NEW r, r = NormalizeLegacy(o)
  PROVE  /\ IsList(r.evidence) /\ DOMAIN r.evidence = DOMAIN o.evidence
         /\ \A i \in DOMAIN o.evidence : r.evidence[i].id = LegacyId(o, i)
         /\ DOMAIN r.findings = DOMAIN o.findings
         /\ \A i \in DOMAIN o.findings : r.findings[i].refs = Rewritten(o, o.findings[i].refs)
<1> DEFINE E == [i \in DOMAIN o.evidence |-> [o.evidence[i] EXCEPT !.id = LegacyId(o, i), !.state = "UNVERIFIED"]]
           F == [i \in DOMAIN o.findings |-> [o.findings[i] EXCEPT !.refs = Rewritten(o, o.findings[i].refs)]]
           C == [i \in DOMAIN o.claims |-> [o.claims[i] EXCEPT !.refs = Rewritten(o, o.claims[i].refs), !.state = "PARTIAL"]]
<1>1. r = [o EXCEPT !.version = "1.0.0", !.state = "PARTIAL", !.unverified = "set",
                    !.evidence = E, !.findings = F, !.claims = C]
  BY DEF NormalizeLegacy
<1>2. {"version", "state", "unverified", "evidence", "findings", "claims"} \subseteq DOMAIN o
  BY DEF Shaped, OutputFields
<1>3. DOMAIN E = DOMAIN o.evidence /\ DOMAIN F = DOMAIN o.findings
  OBVIOUS
<1>4. \A i \in DOMAIN o.evidence : E[i].id = LegacyId(o, i)
  BY DEF Shaped
<1>5. \A i \in DOMAIN o.findings : F[i].refs = Rewritten(o, o.findings[i].refs)
  BY DEF Shaped
<1>6. IsList(E)
  <2>1. DOMAIN o.evidence = 1..Len(o.evidence) /\ Len(o.evidence) \in Nat
    BY DEF Shaped, IsList
  <2>2. E = [i \in 1..Len(o.evidence) |-> E[i]] /\ \A i \in 1..Len(o.evidence) : E[i] \in Range(E)
    BY <2>1 DEF Range
  <2> HIDE DEF E
  <2> QED
    BY <2>1, <2>2, SeqDef DEF IsList
<1> HIDE DEF E, F, C
<1>7. r.evidence = E /\ r.findings = F
  BY <1>1, <1>2
<1> QED
  BY <1>3, <1>4, <1>5, <1>6, <1>7

\* What a legacy file named it still names.
LEMMA LegacyStillNames ==
  ASSUME NEW o, Shaped(o), NEW r, r = NormalizeLegacy(o), BindingHolds(r),
         NEW i \in DOMAIN r.findings, NEW k \in DOMAIN r.findings[i].refs
  PROVE  o.findings[i].refs[k] \in NamesOf(o, CHOOSE j \in DOMAIN r.evidence : r.evidence[j].id = r.findings[i].refs[k])
<1>1. /\ IsList(r.evidence) /\ DOMAIN r.evidence = DOMAIN o.evidence
      /\ \A j \in DOMAIN o.evidence : r.evidence[j].id = LegacyId(o, j)
      /\ DOMAIN r.findings = DOMAIN o.findings
      /\ \A f \in DOMAIN o.findings : r.findings[f].refs = Rewritten(o, o.findings[f].refs)
  BY NormalizedOutput
<1>2. HasIds(r.evidence) /\ Range(r.findings[i].refs) \subseteq IdsOf(r.evidence)
  BY DEF BindingHolds, EvidenceHolds, FindingsHold, RefsHold
<1> DEFINE refs == o.findings[i].refs
           ref == r.findings[i].refs[k]
           item == CHOOSE j \in DOMAIN r.evidence : r.evidence[j].id = ref
<1>3. k \in DOMAIN refs /\ ref = (IF Cardinality(NamedBy(o, refs[k])) = 1
                                 THEN CHOOSE id \in NamedBy(o, refs[k]) : TRUE ELSE refs[k])
  <2>1. r.findings[i].refs = Rewritten(o, refs)
    BY <1>1
  <2> HIDE DEF refs, ref
  <2>2. Rewritten(o, refs) = [j \in DOMAIN refs |->
                                IF Cardinality(NamedBy(o, refs[j])) = 1
                                  THEN CHOOSE id \in NamedBy(o, refs[j]) : TRUE ELSE refs[j]]
    BY DEF Rewritten
  <2>3. k \in DOMAIN Rewritten(o, refs) /\ ref = Rewritten(o, refs)[k]
    BY <2>1 DEF ref
  <2> QED
    BY <2>2, <2>3
<1>4. ref \in IdsOf(r.evidence)
  BY <1>2 DEF Range
<1>5. item \in DOMAIN r.evidence /\ r.evidence[item].id = ref
  BY <1>4 DEF IdsOf
<1> HIDE DEF item, ref, refs
<1>6. LegacyId(o, item) = ref
  BY <1>1, <1>5
<1>7. CASE Cardinality(NamedBy(o, refs[k])) = 1
  <2>1. NamedBy(o, refs[k]) # {}
    BY <1>7, FS_EmptySet
  <2>2. ref \in NamedBy(o, refs[k])
    BY <1>3, <1>7, <2>1
  <2>3. PICK j \in DOMAIN o.evidence : refs[k] \in NamesOf(o, j) /\ ref = LegacyId(o, j)
    BY <2>2 DEF NamedBy
  <2>4. r.evidence[j].id = r.evidence[item].id /\ j \in DOMAIN r.evidence
    BY <1>1, <1>5, <2>3
  <2>5. j = item
    BY <1>1, <1>2, <1>5, <2>4, IdsTellApart
  <2> QED
    BY <2>3, <2>5 DEF item, ref, refs
<1>8. CASE Cardinality(NamedBy(o, refs[k])) # 1
  <2>1. refs[k] = LegacyId(o, item)
    BY <1>3, <1>6, <1>8
  <2>2. refs[k] \in NamesOf(o, item)
    BY <2>1 DEF NamesOf
  <2> QED
    BY <2>2 DEF item, ref, refs
<1> QED
  BY <1>7, <1>8

LEMMA AgentInitRight == AgentInit => AgentInv /\ Asking
BY DEF AgentInit, AgentInv, Asking

\* A model is asked only where no answer is written for it.
LEMMA AskingStep == ASSUME Asking, [AgentNext]_agentVars PROVE Asking'
<1>1. CASE StartSession \/ RouteSession \/ PromptAgent \/ AskModel \/ ModelRaises \/ StreamAnswer
           \/ RenderReport \/ CheckFile
  <2>1. request' = request
    BY <1>1 DEF StartSession, RouteSession, PromptAgent, AskModel, ModelRaises, StreamAnswer, RenderReport, CheckFile
  <2>2. DOMAIN exchange' = DOMAIN exchange
    BY <1>1 DEF StartSession, RouteSession, PromptAgent, AskModel, ModelRaises, StreamAnswer, RenderReport, CheckFile
  <2>3. agentStage' = "asking" => ~request.echo
    BY <1>1 DEF StartSession, RouteSession, PromptAgent, AskModel, ModelRaises, StreamAnswer, RenderReport, CheckFile
  <2> QED
    BY <2>1, <2>2, <2>3 DEF Asking
<1>2. CASE AnswerOffline
  BY <1>2 DEF AnswerOffline, Conclude, Asking
<1>3. CASE BudgetRefuses
  BY <1>3 DEF BudgetRefuses, Conclude, Asking
<1>4. CASE TakeReply
  <2>1. request' = request /\ DOMAIN exchange' = DOMAIN exchange
    BY <1>4 DEF TakeReply
  <2>2. agentStage' \in {"done", "prompted"}
    BY <1>4 DEF TakeReply, Conclude
  <2> QED
    BY <2>1, <2>2 DEF Asking
<1>5. CASE UNCHANGED agentVars
  BY <1>5 DEF agentVars, Asking
<1> QED
  BY <1>1, <1>2, <1>3, <1>4, <1>5 DEF AgentNext

\* What the runtime writes for the offline provider.
LEMMA EchoShape ==
  ASSUME NEW r
  PROVE  EchoOutput(r).state = "SYNTHETIC" /\ IsList(EchoOutput(r).evidence)
<1> DEFINE e == [id |-> "synthetic-runtime-context", source |-> "synthetic-runtime-context", state |-> "CURRENT"]
           plain == Written(r.agent, "SYNTHETIC", "synthetic-runtime-context",
                            OwnFinding("synthetic-runtime-context"))
<1>1. plain.state = "SYNTHETIC" /\ plain.evidence = <<e>> /\ {"texts", "decision"} \subseteq DOMAIN plain
  BY DEF Written
<1>2. EchoOutput(r).state = plain.state /\ EchoOutput(r).evidence = plain.evidence
  BY <1>1 DEF EchoOutput
<1>3. Range(<<e>>) = {e}
  BY DEF Range
<1> HIDE DEF e, plain
<1> QED
  BY <1>1, <1>2, <1>3 DEF IsList

\* An agent's conclusion endorses at most its output.
LEMMA ConcludedRight ==
  ASSUME NEW output, NEW ok \in BOOLEAN, Conclude(output, ok), UNCHANGED request,
         ok => /\ IsList(output.evidence) /\ BindingHolds(output) /\ SpecialistHolds(output)
               /\ output.agent = request.agent
               /\ IF request.echo THEN output.state = "SYNTHETIC"
                  ELSE output = exchange'.reply /\ output.state # "SYNTHETIC"
  PROVE  AgentInv'
<1>1. agentStage' = "done" /\ endorsed' = IF ok THEN {[output |-> output, as |-> "agent"]} ELSE {}
  BY DEF Conclude
<1>2. request' = request
  OBVIOUS
<1>3. CASE ok
  <2>1. endorsed' = {[output |-> output, as |-> "agent"]}
    BY <1>1, <1>3
  <2>2. EndorsedRight([output |-> output, as |-> "agent"])'
    BY <1>2, <1>3 DEF EndorsedRight
  <2> QED
    BY <1>1, <2>1, <2>2 DEF AgentInv
<1>4. CASE ~ok
  BY <1>1, <1>4 DEF AgentInv
<1> QED
  BY <1>3, <1>4

\* A step before anything is endorsed, which endorses nothing.
LEMMA NothingEndorsedYet ==
  ASSUME AgentInv, agentStage \notin {"done", "pdf", "html"}, UNCHANGED endorsed
  PROVE  AgentInv'
<1>1. endorsed = {} /\ endorsed' = {}
  BY DEF AgentInv
<1> QED
  BY <1>1 DEF AgentInv

LEMMA AnswerOfflineRight == ASSUME AgentInv, AnswerOffline PROVE AgentInv'
<1>1. request.echo /\ request' = request
  BY DEF AnswerOffline
<1>2. CASE OutputValid(EchoOutput(request), request.agent, TRUE)
  <2>1. Conclude(EchoOutput(request), TRUE)
    BY <1>2 DEF AnswerOffline
  <2>2. /\ BindingHolds(EchoOutput(request)) /\ SpecialistHolds(EchoOutput(request))
        /\ EchoOutput(request).agent = request.agent
    BY <1>2 DEF OutputValid
  <2> QED
    BY <1>1, <2>1, <2>2, EchoShape, ConcludedRight
<1>3. CASE ~OutputValid(EchoOutput(request), request.agent, TRUE)
  <2>1. Conclude(FailureOutput(request.agent, "FAILED"), FALSE)
    BY <1>3 DEF AnswerOffline
  <2> QED
    BY <1>1, <2>1, ConcludedRight
<1> QED
  BY <1>2, <1>3

LEMMA TakeReplyRight == ASSUME AgentInv, Asking, TakeReply PROVE AgentInv'
<1>1. PICK reply \in Answers \cup {NoReply} :
        /\ exchange' = [exchange EXCEPT !.reply = reply]
        /\ IF OutputValid(reply, request.agent, FALSE) THEN Conclude(reply, TRUE)
           ELSE IF exchange.attempts >= MaxAttempts
           THEN Conclude(FailureOutput(request.agent, "FAILED"), FALSE)
           ELSE agentStage' = "prompted" /\ UNCHANGED <<desk, transcript, endorsed>>
  BY DEF TakeReply
<1>2. agentStage = "asking" /\ request' = request
  BY DEF TakeReply
<1>3. CASE OutputValid(reply, request.agent, FALSE)
  <2>1. Conclude(reply, TRUE)
    BY <1>1, <1>3
  <2>2. reply.parses /\ reply.agent = request.agent /\ SpecialistHolds(reply) /\ BindingHolds(reply)
        /\ reply.state # "SYNTHETIC"
    BY <1>3 DEF OutputValid
  <2>3. reply \in Answers
    BY <1>1, <2>2 DEF NoReply
  <2>4. IsList(reply.evidence)
    BY <2>3, AnswersAssumption DEF Shaped
  <2>5. ~request.echo /\ reply = exchange'.reply
    BY <1>1, <1>2 DEF Asking
  <2> QED
    BY <1>2, <2>1, <2>2, <2>4, <2>5, ConcludedRight
<1>4. CASE ~OutputValid(reply, request.agent, FALSE) /\ exchange.attempts >= MaxAttempts
  BY <1>1, <1>2, <1>4, ConcludedRight
<1>5. CASE ~OutputValid(reply, request.agent, FALSE) /\ ~(exchange.attempts >= MaxAttempts)
  BY <1>1, <1>2, <1>5, NothingEndorsedYet
<1> QED
  BY <1>3, <1>4, <1>5

LEMMA CheckFileRight == ASSUME AgentInv, Asking, CheckFile PROVE AgentInv'
<1>1. PICK o \in Answers :
        LET read == IF request.legacy THEN NormalizeLegacy(o) ELSE o
            passes == (request.legacy => o.version = "none") /\ BindingHolds(read)
        IN  /\ exchange' = [exchange EXCEPT !.reply = o]
            /\ agentStage' = IF passes THEN "done" ELSE "raised"
            /\ endorsed' = IF passes THEN {[output |-> read, as |-> "file"]} ELSE {}
  BY DEF CheckFile
<1> DEFINE read == IF request.legacy THEN NormalizeLegacy(o) ELSE o
           passes == (request.legacy => o.version = "none") /\ BindingHolds(read)
<1>2. request' = request /\ Shaped(o)
  BY AnswersAssumption DEF CheckFile
<1>3. IsList(read.evidence)
  BY <1>2, NormalizedOutput DEF Shaped
<1>4. CASE passes
  <2>1. agentStage' = "done" /\ endorsed' = {[output |-> read, as |-> "file"]}
    BY <1>1, <1>4
  <2>2. exchange'.reply = o
    BY <1>1 DEF Asking
  <2>3. PICK seen : seen = read
    OBVIOUS
  <2>4. BindingHolds(seen) /\ IsList(seen.evidence) /\ (request.legacy => seen = NormalizeLegacy(exchange'.reply))
    BY <1>3, <1>4, <2>2, <2>3
  <2>5. endorsed' = {[output |-> seen, as |-> "file"]}
    BY <2>1, <2>3
  <2> HIDE DEF read, passes
  <2>6. EndorsedRight([output |-> seen, as |-> "file"])'
    BY <1>2, <2>2, <2>4 DEF EndorsedRight
  <2> QED
    BY <2>1, <2>5, <2>6 DEF AgentInv
<1>5. CASE ~passes
  BY <1>1, <1>5 DEF AgentInv
<1> QED
  BY <1>4, <1>5

LEMMA RenderReportRight == ASSUME AgentInv, RenderReport PROVE AgentInv'
<1>1. PICK o \in Answers, renders \in BOOLEAN :
        LET current == o.version = "2.0.0"
            canonical == current /\ o.unverified # "set"
        IN  /\ exchange' = [exchange EXCEPT !.reply = o]
            /\ IF current => o.wellFormed /\ BindingHolds(o)
               THEN /\ agentStage' = IF renders THEN "pdf" ELSE "html"
                    /\ endorsed' = IF canonical THEN {[output |-> o, as |-> "report"]} ELSE {}
               ELSE agentStage' = "raised" /\ UNCHANGED endorsed
  BY DEF RenderReport
<1>2. request' = request /\ IsList(o.evidence) /\ agentStage = "new"
  BY AnswersAssumption DEF RenderReport, Shaped
<1>3. CASE o.version = "2.0.0" => o.wellFormed /\ BindingHolds(o)
  <2>1. agentStage' \in {"pdf", "html"}
    BY <1>1, <1>3
  <2>2. CASE o.version = "2.0.0" /\ o.unverified # "set"
    <3>1. endorsed' = {[output |-> o, as |-> "report"]}
      BY <1>1, <1>3, <2>2
    <3>2. EndorsedRight([output |-> o, as |-> "report"])'
      BY <1>2, <1>3, <2>2 DEF EndorsedRight
    <3> QED
      BY <2>1, <3>1, <3>2 DEF AgentInv
  <2>3. CASE ~(o.version = "2.0.0" /\ o.unverified # "set")
    <3>1. endorsed' = {}
      BY <1>1, <1>3, <2>3
    <3> QED
      BY <2>1, <3>1 DEF AgentInv
  <2> QED
    BY <2>2, <2>3
<1>4. CASE ~(o.version = "2.0.0" => o.wellFormed /\ BindingHolds(o))
  BY <1>1, <1>2, <1>4, NothingEndorsedYet
<1> QED
  BY <1>3, <1>4

LEMMA AgentStep == ASSUME AgentInv, Asking, [AgentNext]_agentVars PROVE AgentInv'
<1>1. CASE StartSession
  BY <1>1, NothingEndorsedYet DEF StartSession
<1>2. CASE RouteSession
  BY <1>2, NothingEndorsedYet DEF RouteSession
<1>3. CASE PromptAgent
  BY <1>3, NothingEndorsedYet DEF PromptAgent
<1>4. CASE AnswerOffline
  BY <1>4, AnswerOfflineRight
<1>5. CASE AskModel
  BY <1>5, NothingEndorsedYet DEF AskModel
<1>6. CASE BudgetRefuses
  BY <1>6, ConcludedRight DEF BudgetRefuses
<1>7. CASE TakeReply
  BY <1>7, TakeReplyRight
<1>8. CASE ModelRaises
  BY <1>8, NothingEndorsedYet DEF ModelRaises
<1>9. CASE StreamAnswer
  BY <1>9, NothingEndorsedYet DEF StreamAnswer
<1>10. CASE CheckFile
  BY <1>10, CheckFileRight
<1>11. CASE RenderReport
  BY <1>11, RenderReportRight
<1>12. CASE UNCHANGED agentVars
  BY <1>12 DEF agentVars, AgentInv, EndorsedRight
<1> QED
  BY <1>1, <1>2, <1>3, <1>4, <1>5, <1>6, <1>7, <1>8, <1>9, <1>10, <1>11, <1>12 DEF AgentNext

\* A specialist's decision and the state of its output agree.
LEMMA CompleteIsReady ==
  ASSUME NEW o, SpecialistHolds(o), o.agent \in DecisionAgents
  PROVE  (o.state = "COMPLETE") = (o.decision.state = "READY")
<1>1. /\ o.decision.state \in DOMAIN DecisionToExecution
      /\ \/ o.state = DecisionToExecution[o.decision.state]
         \/ o.state = "SYNTHETIC" /\ o.decision.state = "PARTIAL"
  BY DEF SpecialistHolds
<1> QED
  BY <1>1 DEF DecisionToExecution

LEMMA EndorsedIsGrounded == AgentInv => AcceptedIsGrounded
<1> DEFINE
  Supported(o) == \A i \in DOMAIN o.claims : ClaimSupported(o, o.claims[i])
  Single(o) == \A i \in DOMAIN o.findings : \A ref \in Range(o.findings[i].refs) : Cardinality(Behind(o, ref)) = 1
  Said(o) == o.version = "2.0.0" /\ o.state \in {"COMPLETE", "PARTIAL"} =>
               \A path \in MaterialPaths(o) : \A token \in o.texts[path] :
                  \E i \in DOMAIN o.claims : /\ path \in Range(o.claims[i].bound)
                                             /\ o.claims[i].refs # <<>>
                                             /\ States(o.claims[i], token)
  Asked(a, o) == a.as = "agent" =>
               /\ o.agent = request.agent
               /\ IF request.echo THEN o.state = "SYNTHETIC" ELSE o = exchange.reply /\ o.state # "SYNTHETIC"
               /\ o.agent \in DecisionAgents => (o.state = "COMPLETE") = (o.decision.state = "READY")
  Capped(o) == o.version = "1.0.0" =>
               /\ o.state = "PARTIAL"
               /\ \A i \in DOMAIN o.evidence : o.evidence[i].state = "UNVERIFIED"
  Named(a, o) == a.as = "file" /\ request.legacy =>
               \A i \in DOMAIN o.findings : \A k \in DOMAIN o.findings[i].refs :
                  exchange.reply.findings[i].refs[k] \in
                    NamesOf(exchange.reply, CHOOSE j \in DOMAIN o.evidence : o.evidence[j].id = o.findings[i].refs[k])
<1>0. AcceptedIsGrounded <=> \A a \in endorsed : /\ Supported(a.output) /\ Single(a.output) /\ Said(a.output)
                                                  /\ Asked(a, a.output) /\ Capped(a.output) /\ Named(a, a.output)
  BY Zenon DEF AcceptedIsGrounded
<1> SUFFICES ASSUME AgentInv, NEW a \in endorsed, NEW o, o = a.output
             PROVE  Supported(o) /\ Single(o) /\ Said(o) /\ Asked(a, o) /\ Capped(o) /\ Named(a, o)
  <2> HIDE DEF Supported, Single, Said, Asked, Capped, Named
  <2> QED
    BY <1>0
<1>1. EndorsedRight(a)
  BY DEF AgentInv
<1>2. IsList(o.evidence) /\ BindingHolds(o)
  BY <1>1 DEF EndorsedRight
<1>3. \A i \in DOMAIN o.claims : ClaimSupported(o, o.claims[i]) /\ o.claims[i].refs # <<>>
  BY <1>2, ClaimsAreSupported
<1>4. \A i \in DOMAIN o.findings : \A ref \in Range(o.findings[i].refs) : Cardinality(Behind(o, ref)) = 1
  BY <1>2, FindingsAreSingle
<1>5. ASSUME o.version = "2.0.0", o.state \in {"COMPLETE", "PARTIAL"},
             NEW path \in MaterialPaths(o), NEW token \in o.texts[path]
      PROVE  \E i \in DOMAIN o.claims : /\ path \in Range(o.claims[i].bound)
                                         /\ o.claims[i].refs # <<>>
                                         /\ States(o.claims[i], token)
  <2>1. \E i \in DOMAIN o.claims : path \in Range(o.claims[i].bound) /\ States(o.claims[i], token)
    BY <1>2, <1>5 DEF BindingHolds, MaterialHolds, IsLegacy
  <2> QED
    BY <1>3, <2>1
<1>6. ASSUME a.as = "agent"
      PROVE  /\ o.agent = request.agent
             /\ IF request.echo THEN o.state = "SYNTHETIC"
                ELSE o = exchange.reply /\ o.state # "SYNTHETIC"
             /\ o.agent \in DecisionAgents => (o.state = "COMPLETE") = (o.decision.state = "READY")
  BY <1>1, <1>6, CompleteIsReady DEF EndorsedRight
<1>7. ASSUME o.version = "1.0.0"
      PROVE  o.state = "PARTIAL" /\ \A i \in DOMAIN o.evidence : o.evidence[i].state = "UNVERIFIED"
  BY <1>2, <1>7 DEF BindingHolds, ContractHolds, EvidenceHolds, IsLegacy
<1>8. ASSUME a.as = "file", request.legacy
      PROVE  \A i \in DOMAIN o.findings : \A k \in DOMAIN o.findings[i].refs :
               exchange.reply.findings[i].refs[k] \in
                 NamesOf(exchange.reply, CHOOSE j \in DOMAIN o.evidence : o.evidence[j].id = o.findings[i].refs[k])
  <2>1. exchange.reply \in Answers /\ o = NormalizeLegacy(exchange.reply)
    BY <1>1, <1>8 DEF EndorsedRight
  <2>2. Shaped(exchange.reply)
    BY <2>1, AnswersAssumption
  <2> QED
    BY <1>2, <2>1, <2>2, LegacyStillNames
<1> QED
  BY <1>3, <1>4, <1>5, <1>6, <1>7, <1>8

\* What is accepted is grounded.
THEOREM AnswersAreGrounded == AgentSpec => []AcceptedIsGrounded
<1>1. AgentInv /\ Asking /\ [AgentNext]_agentVars => (AgentInv /\ Asking)'
  BY AgentStep, AskingStep
<1>2. AgentSpec => []AgentInv
  BY <1>1, AgentInitRight, PTL DEF AgentSpec
<1> QED
  BY <1>2, EndorsedIsGrounded, PTL

-----------------------------------------------------------------------------
(* The graph.                                                                *)

LEMMA LeastOfNaturals ==
  ASSUME NEW S \in SUBSET Nat, S # {}
  PROVE  \E n \in S : \A m \in S : n <= m
<1>1. PICK n \in S : \A m \in S : ~ (<<m, n>> \in OpToRel(<, Nat))
  BY NatLessThanWellFounded, WFMin
<1>2. \A m \in S : ~ (m < n)
  BY <1>1 DEF OpToRel
<1> QED
  BY <1>2

\* A bounded set of naturals has a greatest member, and Max is that.
LEMMA MaxIsGreatest ==
  ASSUME NEW S \in SUBSET Nat, S # {}, NEW B \in Nat, \A s \in S : s <= B
  PROVE  Max(S) \in S /\ \A s \in S : s <= Max(S)
<1> DEFINE T == {B - s : s \in S}
<1>1. T \in SUBSET Nat /\ T # {}
  <2>1. ASSUME NEW s \in S PROVE B - s \in Nat
    <3>1. s \in Nat /\ s <= B
      OBVIOUS
    <3> QED
      BY <3>1
  <2> QED
    BY <2>1
<1> HIDE DEF T
<1>2. PICK t \in T : \A u \in T : t <= u
  BY <1>1, LeastOfNaturals
<1>3. PICK m \in S : t = B - m
  BY <1>2 DEF T
<1>4. \A s \in S : s <= m
  <2> SUFFICES ASSUME NEW s \in S PROVE s <= m
    OBVIOUS
  <2>1. B - s \in T
    BY DEF T
  <2>2. B - m <= B - s
    BY <1>2, <1>3, <2>1
  <2> QED
    BY <2>2
<1> QED
  BY <1>4 DEF Max

\* A graph whose dependencies are nodes of it.
Closed(g) == IsFiniteSet(g.nodes) /\ \A n \in g.nodes : g.dependsOn[n] \subseteq g.nodes

Entries(g) == g.nodes \X SUBSET g.nodes
Unseen(g, e) == Cardinality(g.nodes \ e[2])
Below(g, e, d) == <<d, e[2] \cup {e[1]}>>

LEMMA UnseenShrinks ==
  ASSUME NEW g, Closed(g), NEW e \in Entries(g)
  PROVE  /\ Unseen(g, e) \in 0..Cardinality(g.nodes) /\ Cardinality(g.nodes) \in Nat
         /\ e[1] \notin e[2] => \A d \in g.dependsOn[e[1]] :
              Below(g, e, d) \in Entries(g) /\ Unseen(g, Below(g, e, d)) = Unseen(g, e) - 1
<1>1. IsFiniteSet(g.nodes) /\ e[1] \in g.nodes /\ e[2] \in SUBSET g.nodes
  BY DEF Closed, Entries
<1>2. Cardinality(g.nodes) \in Nat
  BY <1>1, FS_CardinalityType
<1>3. IsFiniteSet(g.nodes \ e[2]) /\ Cardinality(g.nodes \ e[2]) <= Cardinality(g.nodes)
  BY <1>1, FS_Subset
<1>4. Cardinality(g.nodes \ e[2]) \in Nat
  BY <1>3, FS_CardinalityType
<1>5. ASSUME e[1] \notin e[2], NEW d \in g.dependsOn[e[1]]
      PROVE  Below(g, e, d) \in Entries(g) /\ Unseen(g, Below(g, e, d)) = Unseen(g, e) - 1
  <2>1. d \in g.nodes /\ e[2] \cup {e[1]} \in SUBSET g.nodes
    BY <1>1, <1>5 DEF Closed
  <2>2. Below(g, e, d) \in Entries(g)
    BY <2>1 DEF Below, Entries
  <2>3. g.nodes \ (e[2] \cup {e[1]}) = (g.nodes \ e[2]) \ {e[1]}
    OBVIOUS
  <2>4. Cardinality((g.nodes \ e[2]) \ {e[1]}) = Cardinality(g.nodes \ e[2]) - 1
    BY <1>1, <1>3, <1>5, FS_RemoveElement
  <2>5. Below(g, e, d)[2] = e[2] \cup {e[1]}
    BY DEF Below
  <2> QED
    BY <2>2, <2>3, <2>4, <2>5 DEF Unseen
<1>6. Unseen(g, e) \in 0..Cardinality(g.nodes)
  BY <1>2, <1>3, <1>4 DEF Unseen
<1> QED
  BY <1>2, <1>5, <1>6

\* What holds of an entry that has met itself, and of one of whose dependencies it
\* holds, holds of every entry: a path cannot see more than all nodes.
LEMMA EntriesInduction ==
  ASSUME NEW g, Closed(g), NEW S \in SUBSET Entries(g),
         \A e \in Entries(g) :
            (e[1] \notin e[2] => \A d \in g.dependsOn[e[1]] : Below(g, e, d) \in S) => e \in S
  PROVE  S = Entries(g)
<1> DEFINE Bad == {Unseen(g, e) : e \in Entries(g) \ S}
<1> SUFFICES ASSUME Bad # {} PROVE FALSE
  OBVIOUS
<1>1. Bad \in SUBSET Nat
  <2>1. ASSUME NEW e \in Entries(g) PROVE Unseen(g, e) \in Nat
    <3>1. Unseen(g, e) \in 0..Cardinality(g.nodes) /\ Cardinality(g.nodes) \in Nat
      BY UnseenShrinks
    <3> QED
      BY <3>1
  <2> QED
    BY <2>1
<1>2. PICK k \in Bad : \A m \in Bad : k <= m
  <2> HIDE DEF Bad
  <2> QED
    BY <1>1, LeastOfNaturals
<1>3. PICK e \in Entries(g) \ S : k = Unseen(g, e)
  BY <1>2
<1>4. PICK d \in g.dependsOn[e[1]] : e[1] \notin e[2] /\ Below(g, e, d) \notin S
  BY <1>3
<1>5. Below(g, e, d) \in Entries(g) /\ Unseen(g, Below(g, e, d)) = k - 1 /\ k \in Nat
  BY <1>1, <1>3, <1>4, UnseenShrinks
<1>6. k - 1 \in Bad
  BY <1>4, <1>5
<1> QED
  BY <1>2, <1>5, <1>6

Turn(g, f, e) ==
  IF e[1] \in e[2] THEN Cardinality(g.nodes) + 1
  ELSE 1 + Max({0} \cup {f[Below(g, e, d)] : d \in g.dependsOn[e[1]]})

\* The recursion ends: the longer the path, the fewer nodes it has not seen.
LEMMA DepthUnfolds ==
  ASSUME NEW g, Closed(g)
  PROVE  \A e \in Entries(g) : DepthFrom(g)[e] = Turn(g, DepthFrom(g), e)
<1> DEFINE N == Cardinality(g.nodes)
           Near(k) == {e \in Entries(g) : Unseen(g, e) <= k}
           Solves(f, k) == f = [e \in Near(k) |-> Turn(g, f, e)]
           Bad == {k \in 0..N : ~ \E f : Solves(f, k)}
<1>0. N \in Nat /\ \A e \in Entries(g) : Unseen(g, e) \in 0..N
  <2>1. N \in Nat
    BY FS_CardinalityType DEF Closed
  <2> QED
    BY <2>1, UnseenShrinks
<1>1. Bad = {}
  <2> SUFFICES ASSUME Bad # {} PROVE FALSE
    OBVIOUS
  <2>1. PICK k \in Bad : \A m \in Bad : k <= m
    <3>1. Bad \in SUBSET Nat
      BY <1>0
    <3> HIDE DEF Bad
    <3> QED
      BY <3>1, LeastOfNaturals
  <2>2. k \in 0..N /\ ~ \E f : Solves(f, k)
    BY <2>1
  <2>3. \E f : k # 0 => Solves(f, k - 1)
    <3>1. CASE k = 0
      BY <3>1
    <3>2. CASE k # 0
      <4>1. k - 1 \in 0..N /\ ~(k <= k - 1)
        BY <1>0, <2>2, <3>2
      <4>2. k - 1 \notin Bad
        BY <2>1, <4>1
      <4> QED
        BY <4>1, <4>2
    <3> QED
      BY <3>1, <3>2
  <2>4. PICK f : k # 0 => Solves(f, k - 1)
    BY <2>3
  <2> DEFINE h == [e \in Near(k) |-> Turn(g, f, e)]
  <2>5. ASSUME NEW e \in Near(k), e[1] \notin e[2], NEW d \in g.dependsOn[e[1]]
        PROVE  h[Below(g, e, d)] = f[Below(g, e, d)]
    <3>1. Below(g, e, d) \in Entries(g) /\ Unseen(g, Below(g, e, d)) = Unseen(g, e) - 1
      BY <2>5, UnseenShrinks
    <3>2. Unseen(g, e) <= k /\ Unseen(g, e) \in 0..N /\ Unseen(g, Below(g, e, d)) \in 0..N
      BY <1>0, <3>1
    <3>3. k # 0 /\ Unseen(g, Below(g, e, d)) <= k - 1
      BY <1>0, <2>2, <3>1, <3>2
    <3>4. Below(g, e, d) \in Near(k - 1) /\ Below(g, e, d) \in Near(k)
      BY <1>0, <2>2, <3>1, <3>2, <3>3
    <3>5. Solves(f, k - 1)
      BY <2>4, <3>3
    <3>6. f[Below(g, e, d)] = Turn(g, f, Below(g, e, d))
      BY <3>4, <3>5
    <3> HIDE DEF Near
    <3> QED
      BY <3>4, <3>6
  <2>6. ASSUME NEW e \in Near(k) PROVE h[e] = Turn(g, h, e)
    <3>1. h[e] = Turn(g, f, e)
      OBVIOUS
    <3> HIDE DEF h
    <3>2. CASE e[1] \in e[2]
      BY <3>1, <3>2 DEF Turn
    <3>3. CASE e[1] \notin e[2]
      <4>1. {h[Below(g, e, d)] : d \in g.dependsOn[e[1]]} = {f[Below(g, e, d)] : d \in g.dependsOn[e[1]]}
        BY <2>5, <3>3
      <4> QED
        BY <3>1, <3>3, <4>1 DEF Turn
    <3> QED
      BY <3>2, <3>3
  <2>7. h = [e \in Near(k) |-> h[e]]
    OBVIOUS
  <2> HIDE DEF h, Near
  <2>8. Solves(h, k)
    BY <2>6, <2>7
  <2> QED
    BY <2>2, <2>8
<1>2. Near(N) = Entries(g)
  BY <1>0
<1>3. \E f : f = [e \in Entries(g) |-> Turn(g, f, e)]
  <2>1. N \in 0..N
    BY <1>0
  <2>2. PICK f : Solves(f, N)
    BY <1>1, <2>1
  <2> HIDE DEF Near
  <2> QED
    BY <1>2, <2>2
<1>4. DepthFrom(g) = CHOOSE f : f = [e \in Entries(g) |-> Turn(g, f, e)]
  BY DEF DepthFrom, Entries, Turn, Below
<1>5. DepthFrom(g) = [e \in Entries(g) |-> Turn(g, DepthFrom(g), e)]
  BY <1>3, <1>4
<1> QED
  BY <1>5

\* An entry that has not met itself is deeper than each of its dependencies, and
\* deeper by one than one of them unless it has none.
LEMMA DepthSteps ==
  ASSUME NEW g, Closed(g)
  PROVE  \A e \in Entries(g) :
           /\ DepthFrom(g)[e] \in 1..(2 * Cardinality(g.nodes) + 1)
           /\ e[1] \notin e[2] =>
                /\ \A d \in g.dependsOn[e[1]] : DepthFrom(g)[Below(g, e, d)] < DepthFrom(g)[e]
                /\ \/ DepthFrom(g)[e] = 1
                   \/ \E d \in g.dependsOn[e[1]] : DepthFrom(g)[e] = 1 + DepthFrom(g)[Below(g, e, d)]
<1> DEFINE D == DepthFrom(g)
           N == Cardinality(g.nodes)
           Bounded(e) == D[e] \in Nat /\ D[e] >= 1 /\ D[e] <= Unseen(g, e) + N + 1
           S == {e \in Entries(g) : Bounded(e)}
           Depths(e) == {0} \cup {D[Below(g, e, d)] : d \in g.dependsOn[e[1]]}
<1>0. N \in Nat /\ \A e \in Entries(g) : Unseen(g, e) \in 0..N
  <2>1. N \in Nat
    BY FS_CardinalityType DEF Closed
  <2> QED
    BY <2>1, UnseenShrinks
<1>1. ASSUME NEW e \in Entries(g), e[1] \notin e[2],
             \A d \in g.dependsOn[e[1]] : Below(g, e, d) \in S
      PROVE  /\ Depths(e) \in SUBSET Nat /\ Max(Depths(e)) \in Depths(e)
             /\ \A k \in Depths(e) : k <= Max(Depths(e)) /\ k <= Unseen(g, e) + N
             /\ D[e] = 1 + Max(Depths(e))
  <2>1. Unseen(g, e) + N \in Nat
    BY <1>0
  <2>2. ASSUME NEW d \in g.dependsOn[e[1]]
        PROVE  D[Below(g, e, d)] \in Nat /\ D[Below(g, e, d)] <= Unseen(g, e) + N
    <3>1. Bounded(Below(g, e, d)) /\ Unseen(g, Below(g, e, d)) = Unseen(g, e) - 1
      BY <1>1, UnseenShrinks
    <3> HIDE DEF D
    <3> QED
      BY <1>0, <3>1
  <2>3. Depths(e) \in SUBSET Nat /\ Depths(e) # {} /\ \A k \in Depths(e) : k <= Unseen(g, e) + N
    <3> HIDE DEF D
    <3> QED
      BY <2>1, <2>2
  <2>4. D[e] = 1 + Max(Depths(e))
    BY <1>1, DepthUnfolds DEF Turn
  <2> HIDE DEF Depths, D
  <2> QED
    BY <2>1, <2>3, <2>4, MaxIsGreatest
<1>2. ASSUME NEW e \in Entries(g),
             e[1] \notin e[2] => \A d \in g.dependsOn[e[1]] : Below(g, e, d) \in S
      PROVE  e \in S
  <2>1. CASE e[1] \in e[2]
    <3>1. D[e] = N + 1
      BY <2>1, DepthUnfolds DEF Turn
    <3> HIDE DEF D, N
    <3> QED
      BY <1>0, <3>1
  <2>2. CASE e[1] \notin e[2]
    <3>1. Max(Depths(e)) \in Nat /\ Max(Depths(e)) <= Unseen(g, e) + N /\ D[e] = 1 + Max(Depths(e))
      BY <1>1, <1>2, <2>2
    <3> HIDE DEF D, N, Depths
    <3> QED
      BY <1>0, <3>1
  <2> QED
    BY <2>1, <2>2
<1>3. S = Entries(g)
  <2> HIDE DEF Bounded
  <2>1. S \in SUBSET Entries(g)
    OBVIOUS
  <2> HIDE DEF S
  <2> QED
    BY <1>2, <2>1, EntriesInduction
<1>4. ASSUME NEW e \in Entries(g), e[1] \notin e[2]
      PROVE  /\ \A d \in g.dependsOn[e[1]] : D[Below(g, e, d)] < D[e]
             /\ D[e] = 1 \/ \E d \in g.dependsOn[e[1]] : D[e] = 1 + D[Below(g, e, d)]
  <2>1. \A d \in g.dependsOn[e[1]] : Below(g, e, d) \in S
    BY <1>3, <1>4, UnseenShrinks
  <2>2. /\ Depths(e) \in SUBSET Nat /\ Max(Depths(e)) \in Depths(e)
        /\ \A k \in Depths(e) : k <= Max(Depths(e))
        /\ D[e] = 1 + Max(Depths(e))
    BY <1>1, <1>4, <2>1
  <2>3. \A d \in g.dependsOn[e[1]] : D[Below(g, e, d)] \in Depths(e)
    OBVIOUS
  <2>4. Max(Depths(e)) = 0 \/ \E d \in g.dependsOn[e[1]] : Max(Depths(e)) = D[Below(g, e, d)]
    BY <2>2
  <2> HIDE DEF D, Depths
  <2>5. \A d \in g.dependsOn[e[1]] : D[Below(g, e, d)] < D[e]
    <3> SUFFICES ASSUME NEW d \in g.dependsOn[e[1]] PROVE D[Below(g, e, d)] < D[e]
      OBVIOUS
    <3>1. D[Below(g, e, d)] \in Nat /\ Max(Depths(e)) \in Nat /\ D[Below(g, e, d)] <= Max(Depths(e))
      BY <2>2, <2>3
    <3> QED
      BY <2>2, <3>1
  <2>6. D[e] = 1 \/ \E d \in g.dependsOn[e[1]] : D[e] = 1 + D[Below(g, e, d)]
    BY <2>2, <2>4
  <2> QED
    BY <2>5, <2>6
<1>5. ASSUME NEW e \in Entries(g) PROVE D[e] \in 1..(2 * N + 1)
  <2>1. Bounded(e)
    BY <1>3
  <2> HIDE DEF D, N
  <2> QED
    BY <1>0, <2>1
<1> QED
  BY <1>4, <1>5

\* A depth that no cycle reaches does not depend on the path that asks for it.
LEMMA PathsAgree ==
  ASSUME NEW g, Closed(g), NEW e \in Entries(g), DepthFrom(g)[e] <= Cardinality(g.nodes),
         NEW p \in SUBSET e[2]
  PROVE  DepthFrom(g)[<<e[1], p>>] = DepthFrom(g)[e]
<1> DEFINE D == DepthFrom(g)
           N == Cardinality(g.nodes)
           S == {x \in Entries(g) : D[x] <= N => \A q \in SUBSET x[2] : D[<<x[1], q>>] = D[x]}
<1>1. ASSUME NEW x \in Entries(g),
             x[1] \notin x[2] => \A d \in g.dependsOn[x[1]] : Below(g, x, d) \in S
      PROVE  x \in S
  <2> SUFFICES ASSUME D[x] <= N, NEW q \in SUBSET x[2] PROVE D[<<x[1], q>>] = D[x]
    OBVIOUS
  <2> DEFINE y == <<x[1], q>>
  <2>0. N \in Nat /\ D[x] \in Nat /\ \A d \in g.dependsOn[x[1]] : x[1] \notin x[2] => D[Below(g, x, d)] \in Nat
    BY FS_CardinalityType, DepthSteps, UnseenShrinks DEF Closed
  <2>1. x[1] \notin x[2]
    <3> SUFFICES ASSUME x[1] \in x[2] PROVE FALSE
      OBVIOUS
    <3>1. D[x] = N + 1
      BY DepthUnfolds DEF Turn
    <3> HIDE DEF D, N
    <3> QED
      BY <2>0, <3>1
  <2>2. y \in Entries(g) /\ y[1] = x[1] /\ y[2] = q
    BY DEF Entries
  <2>3. ASSUME NEW d \in g.dependsOn[x[1]] PROVE D[Below(g, y, d)] = D[Below(g, x, d)]
    <3>1. Below(g, x, d) \in S /\ D[Below(g, x, d)] < D[x]
      BY <1>1, <2>1, DepthSteps
    <3>2. D[Below(g, x, d)] <= N
      <4> HIDE DEF D, N, S
      <4> QED
        BY <2>0, <2>1, <3>1
    <3>3. q \cup {x[1]} \in SUBSET Below(g, x, d)[2] /\ Below(g, x, d)[1] = d
      BY DEF Below
    <3>4. Below(g, y, d) = <<d, q \cup {x[1]}>>
      BY <2>2 DEF Below
    <3>5. D[<<Below(g, x, d)[1], q \cup {x[1]}>>] = D[Below(g, x, d)]
      BY <3>1, <3>2, <3>3
    <3> QED
      BY <3>3, <3>4, <3>5
  <2>4. {D[Below(g, y, d)] : d \in g.dependsOn[y[1]]} = {D[Below(g, x, d)] : d \in g.dependsOn[x[1]]}
    BY <2>2, <2>3
  <2>5. D[y] = Turn(g, D, y) /\ D[x] = Turn(g, D, x)
    BY <2>2, DepthUnfolds
  <2>6. y[1] \notin y[2]
    BY <2>1, <2>2
  <2> HIDE DEF D, y
  <2>7. D[y] = D[x]
    BY <2>1, <2>4, <2>5, <2>6 DEF Turn
  <2> QED
    BY <2>7 DEF y
<1>2. S \in SUBSET Entries(g)
  OBVIOUS
<1>3. S = Entries(g)
  <2> HIDE DEF S
  <2> QED
    BY <1>1, <1>2, EntriesInduction
<1>4. e \in S
  BY <1>3
<1>5. D[e] <= N
  OBVIOUS
<1> HIDE DEF D, N
<1>6. D[<<e[1], p>>] = D[e]
  BY <1>4, <1>5
<1> QED
  BY <1>6 DEF D

\* In a graph without a cycle a node is deeper than all it depends on, and is
\* either at the first depth or one below one of them.
LEMMA DepthsLayer ==
  ASSUME NEW g, Closed(g), NEW n \in g.nodes, DepthIn(g)[n] <= Cardinality(g.nodes)
  PROVE  /\ DepthIn(g)[n] \in Nat /\ DepthIn(g)[n] >= 1
         /\ \A m \in g.dependsOn[n] : m \in g.nodes /\ DepthIn(g)[m] < DepthIn(g)[n]
         /\ DepthIn(g)[n] = 1 \/ \E m \in g.dependsOn[n] : DepthIn(g)[n] = 1 + DepthIn(g)[m]
<1> DEFINE D == DepthFrom(g)
           e == <<n, {}>>
<1>1. e \in Entries(g) /\ e[1] = n /\ e[2] = {} /\ DepthIn(g)[n] = D[e]
  BY DEF Entries, DepthIn
<1>2. /\ D[e] \in Nat /\ D[e] >= 1
      /\ \A d \in g.dependsOn[n] : D[Below(g, e, d)] < D[e]
      /\ D[e] = 1 \/ \E d \in g.dependsOn[n] : D[e] = 1 + D[Below(g, e, d)]
  <2> HIDE DEF e
  <2>1. e[1] \notin e[2]
    BY <1>1
  <2> QED
    BY <1>1, <2>1, DepthSteps
<1>3. ASSUME NEW m \in g.dependsOn[n] PROVE m \in g.nodes /\ DepthIn(g)[m] = D[Below(g, e, m)]
  <2>1. m \in g.nodes
    BY DEF Closed
  <2>2. Below(g, e, m) \in Entries(g) /\ Below(g, e, m)[1] = m /\ {} \in SUBSET Below(g, e, m)[2]
    BY <1>1, UnseenShrinks DEF Below
  <2>3. D[Below(g, e, m)] \in Nat /\ Cardinality(g.nodes) \in Nat
    BY <2>2, DepthSteps, FS_CardinalityType DEF Closed
  <2>4. D[Below(g, e, m)] <= Cardinality(g.nodes)
    <3>1. D[Below(g, e, m)] < D[e] /\ D[e] <= Cardinality(g.nodes)
      BY <1>1, <1>2
    <3> HIDE DEF D, e
    <3> QED
      BY <1>2, <2>3, <3>1
  <2>5. D[<<m, {}>>] = D[Below(g, e, m)]
    BY <2>2, <2>4, PathsAgree
  <2> QED
    BY <2>1, <2>5 DEF DepthIn
<1> HIDE DEF D, e
<1> QED
  BY <1>1, <1>2, <1>3

\* A graph whose dependencies all lie in lower layers has no cycle, and no node is
\* deeper than its layer or than the nodes are many.
LEMMA LayersBoundDepths ==
  ASSUME NEW g, Closed(g), NEW layer, \A n \in g.nodes : layer[n] \in Nat /\ layer[n] >= 1,
         \A n \in g.nodes : \A m \in g.dependsOn[n] : layer[m] < layer[n]
  PROVE  \A n \in g.nodes : DepthIn(g)[n] <= layer[n] /\ DepthIn(g)[n] <= Cardinality(g.nodes)
<1> DEFINE D == DepthFrom(g)
           Descends(e) == \A x \in e[2] : layer[e[1]] < layer[x]
           S == {e \in Entries(g) : Descends(e) => D[e] <= layer[e[1]] /\ D[e] <= Unseen(g, e)}
<1>1. ASSUME NEW e \in Entries(g),
             e[1] \notin e[2] => \A d \in g.dependsOn[e[1]] : Below(g, e, d) \in S
      PROVE  e \in S
  <2> SUFFICES ASSUME Descends(e) PROVE D[e] <= layer[e[1]] /\ D[e] <= Unseen(g, e)
    OBVIOUS
  <2>1. e[1] \in g.nodes /\ e[2] \in SUBSET g.nodes /\ layer[e[1]] \in Nat /\ layer[e[1]] >= 1
    BY DEF Entries
  <2>2. e[1] \notin e[2]
    BY <2>1
  <2>3. /\ D[e] \in Nat
        /\ D[e] = 1 \/ \E d \in g.dependsOn[e[1]] : D[e] = 1 + D[Below(g, e, d)]
    BY <2>2, DepthSteps
  <2>4. Unseen(g, e) \in Nat /\ Unseen(g, e) >= 1
    <3>1. IsFiniteSet(g.nodes \ e[2]) /\ g.nodes \ e[2] # {}
      BY <2>1, <2>2, FS_Difference DEF Closed
    <3>2. Cardinality(g.nodes \ e[2]) \in Nat /\ Cardinality(g.nodes \ e[2]) # 0
      BY <3>1, FS_CardinalityType, FS_EmptySet
    <3> QED
      BY <3>2 DEF Unseen
  <2>5. CASE D[e] = 1
    <3> HIDE DEF D
    <3> QED
      BY <2>1, <2>4, <2>5
  <2>6. ASSUME NEW d \in g.dependsOn[e[1]], D[e] = 1 + D[Below(g, e, d)]
        PROVE  D[e] <= layer[e[1]] /\ D[e] <= Unseen(g, e)
    <3>1. /\ Below(g, e, d) \in Entries(g) /\ Unseen(g, Below(g, e, d)) = Unseen(g, e) - 1
          /\ Below(g, e, d) \in S
      BY <1>1, <2>2, UnseenShrinks
    <3>2. d \in g.nodes /\ layer[d] \in Nat /\ layer[d] < layer[e[1]]
      BY <2>1 DEF Closed
    <3>3. Below(g, e, d)[1] = d /\ Below(g, e, d)[2] = e[2] \cup {e[1]}
      BY DEF Below
    <3>4. Descends(Below(g, e, d))
      <4>1. ASSUME NEW x \in e[2] PROVE layer[d] < layer[x]
        <5>1. layer[x] \in Nat /\ layer[e[1]] < layer[x]
          BY <2>1
        <5> QED
          BY <2>1, <3>2, <5>1
      <4> QED
        BY <3>2, <3>3, <4>1
    <3>5. D[Below(g, e, d)] <= layer[d] /\ D[Below(g, e, d)] <= Unseen(g, e) - 1 /\ D[Below(g, e, d)] \in Nat
      BY <3>1, <3>3, <3>4, DepthSteps
    <3> HIDE DEF D
    <3> QED
      BY <2>1, <2>4, <2>6, <3>2, <3>5
  <2> HIDE DEF D
  <2> QED
    BY <2>3, <2>5, <2>6
<1>2. S \in SUBSET Entries(g)
  OBVIOUS
<1>3. S = Entries(g)
  <2> HIDE DEF S
  <2> QED
    BY <1>1, <1>2, EntriesInduction
<1>4. ASSUME NEW n \in g.nodes PROVE DepthIn(g)[n] <= layer[n] /\ DepthIn(g)[n] <= Cardinality(g.nodes)
  <2>1. <<n, {}>> \in Entries(g) /\ <<n, {}>>[1] = n /\ <<n, {}>>[2] = {}
    BY DEF Entries
  <2>2. Unseen(g, <<n, {}>>) = Cardinality(g.nodes)
    BY <2>1 DEF Unseen
  <2>3. D[<<n, {}>>] <= layer[n] /\ D[<<n, {}>>] <= Unseen(g, <<n, {}>>)
    BY <1>3, <2>1
  <2> QED
    BY <2>2, <2>3 DEF DepthIn
<1> QED
  BY <1>4

\* Where the builder places a node: the specialists first, then the lead, and after
\* it the control nodes in their order.
Layer(n) ==
  IF n = Report THEN 5 ELSE IF n = Strategy THEN 4 ELSE IF n = Scrum THEN 3
  ELSE IF n = Lead THEN 2 ELSE 1

Controls == {Lead, Scrum, Strategy, Report}

LEMMA SlotsAreCounted ==
  ASSUME NEW name, NEW a \in Nat, NEW b \in Nat
  PROVE  LET S == {<<name, i>> : i \in (a + 1)..b}
         IN  IsFiniteSet(S) /\ Cardinality(S) = IF a < b THEN b - a ELSE 0
<1> DEFINE S == {<<name, i>> : i \in (a + 1)..b}
           f == [i \in (a + 1)..b |-> <<name, i>>]
<1>1. f \in Bijection((a + 1)..b, S)
  <2>1. f \in [(a + 1)..b -> S]
    OBVIOUS
  <2>2. \A i, j \in (a + 1)..b : f[i] = f[j] => i = j
    OBVIOUS
  <2>3. \A s \in S : \E i \in (a + 1)..b : f[i] = s
    OBVIOUS
  <2> HIDE DEF f, S
  <2> QED
    BY <2>1, <2>2, <2>3 DEF Bijection, Injection, Surjection, IsInjective
<1>2. IsFiniteSet((a + 1)..b) /\ Cardinality((a + 1)..b) = IF a + 1 > b THEN 0 ELSE b - (a + 1) + 1
  BY FS_Interval
<1>3. Cardinality((a + 1)..b) = IF a < b THEN b - a ELSE 0
  BY <1>2
<1>4. ExistsBijection((a + 1)..b, S)
  BY <1>1 DEF ExistsBijection
<1> HIDE DEF S
<1>5. IsFiniteSet(S) /\ Cardinality(S) = Cardinality((a + 1)..b)
  BY <1>2, <1>4, FS_Bijection
<1> QED
  BY <1>3, <1>5 DEF S

LEMMA ControlsAreFour ==
  /\ IsFiniteSet(Controls) /\ Cardinality(Controls) = 4
  /\ Lead # Scrum /\ Lead # Strategy /\ Lead # Report
  /\ Scrum # Strategy /\ Scrum # Report /\ Strategy # Report
  /\ \A i : <<"support", i>> \notin Controls /\ <<"specialist", i>> \notin Controls
<1>1. /\ Lead # Scrum /\ Lead # Strategy /\ Lead # Report
      /\ Scrum # Strategy /\ Scrum # Report /\ Strategy # Report
  BY DEF Lead, Scrum, Strategy, Report
<1>2. \A i : <<"support", i>> \notin Controls /\ <<"specialist", i>> \notin Controls
  BY DEF Controls, Lead, Scrum, Strategy, Report
<1>3. IsFiniteSet({Lead}) /\ Cardinality({Lead}) = 1
  BY FS_Singleton
<1>4. IsFiniteSet({Lead, Scrum}) /\ Cardinality({Lead, Scrum}) = 2
  <2>1. {Lead, Scrum} = {Lead} \cup {Scrum} /\ Scrum \notin {Lead}
    BY <1>1
  <2> QED
    BY <1>3, <2>1, FS_AddElement
<1>5. IsFiniteSet({Lead, Scrum, Strategy}) /\ Cardinality({Lead, Scrum, Strategy}) = 3
  <2>1. {Lead, Scrum, Strategy} = {Lead, Scrum} \cup {Strategy} /\ Strategy \notin {Lead, Scrum}
    BY <1>1
  <2> QED
    BY <1>4, <2>1, FS_AddElement
<1>6. IsFiniteSet(Controls) /\ Cardinality(Controls) = 4
  <2>1. Controls = {Lead, Scrum, Strategy} \cup {Report} /\ Report \notin {Lead, Scrum, Strategy}
    BY <1>1 DEF Controls
  <2> QED
    BY <1>5, <2>1, FS_AddElement
<1> QED
  BY <1>1, <1>2, <1>6

\* What the two builders promise of their graphs.
WellBuilt(g) ==
  /\ Closed(g) /\ Cardinality(g.nodes) \in 1..12
  /\ \A n \in g.nodes : \A m \in g.dependsOn[n] : Layer(m) < Layer(n)
  /\ g.deliverable \in g.nodes /\ DeliverableValid(g)
  /\ g.asked > 0 =>
       g.asked = g.excluded +
         Cardinality({n \in g.nodes : n[1] = "support" \/ (n[1] = "specialist" /\ n[2] > 6)})
  /\ Scrum \in g.nodes /\ Lead \notin g.strategists =>
       \A n \in (g.strategists \cup {Report}) \cap g.nodes :
          Scrum \in g.dependsOn[n] \/ \E m \in g.dependsOn[n] : Scrum \in g.dependsOn[m]

\* A routed graph: at most six supports, the lead, and the control nodes asked for.
LEMMA RoutedIsWellBuilt ==
  ASSUME NEW r \in Route
  PROVE  WellBuilt(RoutedGraph(r))
<1> DEFINE g == RoutedGraph(r)
<1>1. /\ g.nodes = RoutedNodes(r) /\ g.dependsOn = RoutedDependsOn(r)
      /\ g.deliverable = AfterReport(r) /\ g.asked = r.support
      /\ g.excluded = r.support - Cardinality(Support(r))
      /\ g.strategists = IF r.lead = "Strategist" THEN {Lead} ELSE RoutedNodes(r) \cap {Strategy}
  BY DEF RoutedGraph, Graph
<1>2. r.support \in Nat /\ r.lead \in LeadKind /\ Least(r.support, SupportSlots) \in 0..6
  <2>1. r.support \in Nat /\ r.lead \in LeadKind
    BY DEF Route
  <2> QED
    BY <2>1 DEF Least, SupportSlots
<1>3. IsFiniteSet(Support(r)) /\ Cardinality(Support(r)) \in 0..6
  <2> DEFINE k == Least(r.support, SupportSlots)
  <2>1. k \in Nat /\ k <= 6
    BY <1>2
  <2>2. Support(r) = {<<"support", i>> : i \in (0 + 1)..k}
    BY DEF Support
  <2> HIDE DEF k
  <2>3. LET S == {<<"support", i>> : i \in (0 + 1)..k}
        IN  IsFiniteSet(S) /\ Cardinality(S) = IF 0 < k THEN k - 0 ELSE 0
    BY <2>1, SlotsAreCounted
  <2>4. IsFiniteSet(Support(r)) /\ Cardinality(Support(r)) = IF 0 < k THEN k - 0 ELSE 0
    BY <2>2, <2>3
  <2> QED
    BY <2>1, <2>4
<1>4. Support(r) \cap Controls = {} /\ \A s \in Support(r) : s[1] = "support"
  <2>1. ASSUME NEW s \in Support(r) PROVE s \notin Controls /\ s[1] = "support"
    <3>1. PICK i \in 1..Least(r.support, SupportSlots) : s = <<"support", i>>
      BY DEF Support
    <3> QED
      BY <3>1, ControlsAreFour
  <2> QED
    BY <2>1
<1>5. /\ RoutedNodes(r) \subseteq Support(r) \cup Controls /\ Support(r) \subseteq RoutedNodes(r)
      /\ Lead \in RoutedNodes(r)
      /\ Scrum \in RoutedNodes(r) <=> WantsScrum(r)
      /\ Strategy \in RoutedNodes(r) <=> WantsStrategy(r)
      /\ Report \in RoutedNodes(r) <=> WantsReport(r)
  BY <1>4, ControlsAreFour DEF RoutedNodes, Controls
<1>6. /\ g.dependsOn[Lead] = Support(r)
      /\ WantsScrum(r) => g.dependsOn[Scrum] = {Lead}
      /\ WantsStrategy(r) => g.dependsOn[Strategy] = {AfterScrum(r)}
      /\ WantsReport(r) => g.dependsOn[Report] = {AfterStrategy(r)}
      /\ \A s \in Support(r) : g.dependsOn[s] = {}
  <2> HIDE DEF g
  <2>1. \A n \in RoutedNodes(r) : g.dependsOn[n] =
         CASE n = Lead     -> Support(r)
           [] n = Scrum    -> {Lead}
           [] n = Strategy -> {AfterScrum(r)}
           [] n = Report   -> {AfterStrategy(r)}
           [] OTHER        -> {}
    BY <1>1 DEF RoutedDependsOn
  <2>2. g.dependsOn[Lead] = Support(r)
    BY <1>5, <2>1, ControlsAreFour
  <2>3. WantsScrum(r) => g.dependsOn[Scrum] = {Lead}
    BY <1>5, <2>1, ControlsAreFour
  <2>4. WantsStrategy(r) => g.dependsOn[Strategy] = {AfterScrum(r)}
    BY <1>5, <2>1, ControlsAreFour
  <2>5. WantsReport(r) => g.dependsOn[Report] = {AfterStrategy(r)}
    BY <1>5, <2>1, ControlsAreFour
  <2>6. \A s \in Support(r) : g.dependsOn[s] = {}
    BY <1>4, <1>5, <2>1 DEF Controls
  <2> QED
    BY <2>2, <2>3, <2>4, <2>5, <2>6
<1>7. /\ AfterScrum(r) \in RoutedNodes(r) \cap {Lead, Scrum}
      /\ AfterStrategy(r) \in RoutedNodes(r) \cap {Lead, Scrum, Strategy}
      /\ AfterReport(r) \in RoutedNodes(r)
  BY <1>5 DEF AfterScrum, AfterStrategy, AfterReport
<1>8. Layer(Lead) = 2 /\ Layer(Scrum) = 3 /\ Layer(Strategy) = 4 /\ Layer(Report) = 5
      /\ \A s \in Support(r) : Layer(s) = 1
  BY <1>4, ControlsAreFour DEF Layer, Controls
<1> HIDE DEF g
<1>9. ASSUME NEW n \in g.nodes PROVE g.dependsOn[n] \subseteq g.nodes /\ \A m \in g.dependsOn[n] : Layer(m) < Layer(n)
  <2>1. CASE n \in Support(r)
    BY <1>6, <2>1
  <2>2. CASE n = Lead
    BY <1>1, <1>5, <1>6, <1>8, <2>2
  <2>3. CASE n = Scrum
    BY <1>1, <1>5, <1>6, <1>8, <1>9, <2>3
  <2>4. CASE n = Strategy
    BY <1>1, <1>5, <1>6, <1>7, <1>8, <1>9, <2>4
  <2>5. CASE n = Report
    BY <1>1, <1>5, <1>6, <1>7, <1>8, <1>9, <2>5
  <2> QED
    BY <1>1, <1>5, <1>9, <2>1, <2>2, <2>3, <2>4, <2>5 DEF Controls
<1>10. IsFiniteSet(g.nodes) /\ Cardinality(g.nodes) \in 1..12
  <2>1. IsFiniteSet(Support(r) \cup Controls) /\ Support(r) \cap Controls = {}
    BY <1>3, <1>4, ControlsAreFour, FS_Union
  <2>2. Cardinality(Support(r) \cup Controls) = Cardinality(Support(r)) + 4
    BY <1>3, <2>1, ControlsAreFour, FS_Union, FS_EmptySet
  <2>3. IsFiniteSet(g.nodes) /\ Cardinality(g.nodes) <= Cardinality(Support(r) \cup Controls)
    BY <1>1, <1>5, <2>1, FS_Subset
  <2>4. Cardinality(g.nodes) \in Nat /\ Cardinality(g.nodes) # 0
    BY <1>1, <1>5, <2>3, FS_CardinalityType, FS_EmptySet
  <2> QED
    BY <1>3, <2>2, <2>3, <2>4
<1>11. DeliverableValid(g)
  <2>1. ASSUME NEW n \in g.nodes PROVE AfterReport(r) \notin g.dependsOn[n]
    <3>1. CASE n \in Support(r)
      BY <1>6, <3>1
    <3>2. CASE n = Lead
      <4>1. AfterReport(r) \in Controls
        BY <1>7 DEF AfterReport, AfterStrategy, AfterScrum, Controls
      <4> QED
        BY <1>4, <1>6, <3>2, <4>1
    <3>3. CASE n = Scrum
      <4>1. WantsScrum(r) /\ g.dependsOn[n] = {Lead}
        BY <1>1, <1>5, <1>6, <2>1, <3>3
      <4> QED
        BY <4>1, ControlsAreFour
           DEF AfterReport, AfterStrategy, AfterScrum, WantsReport
    <3>4. CASE n = Strategy
      <4>1. WantsStrategy(r) /\ g.dependsOn[n] = {AfterScrum(r)}
        BY <1>1, <1>5, <1>6, <2>1, <3>4
      <4> QED
        BY <1>7, <4>1, ControlsAreFour DEF AfterReport, AfterStrategy
    <3>5. CASE n = Report
      <4>1. WantsReport(r) /\ g.dependsOn[n] = {AfterStrategy(r)}
        BY <1>1, <1>5, <1>6, <2>1, <3>5
      <4> QED
        BY <1>7, <4>1, ControlsAreFour DEF AfterReport
    <3> QED
      BY <1>1, <1>5, <2>1, <3>1, <3>2, <3>3, <3>4, <3>5 DEF Controls
  <2> QED
    BY <1>1, <2>1 DEF DeliverableValid
<1>12. {n \in g.nodes : n[1] = "support" \/ (n[1] = "specialist" /\ n[2] > 6)} = Support(r)
  <2>1. Support(r) \subseteq g.nodes /\ g.nodes \subseteq Support(r) \cup Controls
    BY <1>1, <1>5
  <2>2. \A n \in Controls : n[1] # "support" /\ n[1] # "specialist"
    BY DEF Controls, Lead, Scrum, Strategy, Report
  <2>3. \A n \in Support(r) : n[1] = "support"
    BY <1>4
  <2> QED
    BY <2>1, <2>2, <2>3
<1>13. g.asked = g.excluded + Cardinality(Support(r))
  BY <1>1, <1>2, <1>3
<1>14. ASSUME Scrum \in g.nodes, Lead \notin g.strategists,
              NEW n \in (g.strategists \cup {Report}) \cap g.nodes
       PROVE  Scrum \in g.dependsOn[n] \/ \E m \in g.dependsOn[n] : Scrum \in g.dependsOn[m]
  <2>1. r.lead # "Strategist" /\ WantsScrum(r) /\ AfterScrum(r) = Scrum
    BY <1>1, <1>5, <1>14 DEF AfterScrum
  <2>2. n \in {Strategy, Report}
    BY <1>1, <1>14, <2>1
  <2>3. CASE n = Strategy
    BY <1>1, <1>5, <1>6, <1>14, <2>1, <2>3
  <2>4. CASE n = Report
    <3>1. g.dependsOn[n] = {AfterStrategy(r)}
      BY <1>1, <1>5, <1>6, <1>14, <2>4
    <3> QED
      BY <1>6, <2>1, <3>1 DEF AfterStrategy
  <2> QED
    BY <2>2, <2>3, <2>4
<1>15. Closed(g)
  BY <1>9, <1>10 DEF Closed
<1>16. g.deliverable \in g.nodes
  BY <1>1, <1>7
<1>17. WellBuilt(g)
  BY <1>9, <1>10, <1>11, <1>12, <1>13, <1>14, <1>15, <1>16 DEF WellBuilt
<1> QED
  BY <1>17 DEF g

\* A full audit: six or eight specialists, the lead and the three control nodes.
LEMMA FullAuditIsWellBuilt ==
  ASSUME NEW v \in Nat
  PROVE  WellBuilt(FullAuditGraph(v))
<1> DEFINE g == FullAuditGraph(v)
           k == 6 + IF v = 0 THEN 2 ELSE Least(v, 2)
           extra == {<<"specialist", i>> : i \in (6 + 1)..k}
<1>1. /\ g.nodes = Specialists(v) \cup Controls
      /\ g.deliverable = Report /\ g.strategists = {Strategy}
      /\ g.excluded = v - Least(v, 2) /\ g.asked = v
      /\ \A n \in g.nodes : g.dependsOn[n] =
           CASE n = Lead     -> Specialists(v)
             [] n = Scrum    -> {Lead}
             [] n = Strategy -> {Scrum}
             [] n = Report   -> {Strategy}
             [] OTHER        -> {}
  BY DEF FullAuditGraph, Graph, Controls
<1>2. k \in 7..8 /\ (v > 0 => k = 6 + Least(v, 2))
  BY DEF Least
<1>3. Specialists(v) = {<<"specialist", i>> : i \in (0 + 1)..k}
  BY DEF Specialists
<1> HIDE DEF k
<1>4. IsFiniteSet(Specialists(v)) /\ Cardinality(Specialists(v)) = k
  <2>1. k \in Nat
    BY <1>2
  <2>2. LET S == {<<"specialist", i>> : i \in (0 + 1)..k}
        IN  IsFiniteSet(S) /\ Cardinality(S) = IF 0 < k THEN k - 0 ELSE 0
    BY <2>1, SlotsAreCounted
  <2>3. IsFiniteSet(Specialists(v)) /\ Cardinality(Specialists(v)) = IF 0 < k THEN k - 0 ELSE 0
    BY <1>3, <2>2
  <2> QED
    BY <1>2, <2>3
<1>5. IsFiniteSet(extra) /\ Cardinality(extra) = k - 6
  <2> HIDE DEF extra
  <2>1. k \in Nat
    BY <1>2
  <2>2. LET S == {<<"specialist", i>> : i \in (6 + 1)..k}
        IN  IsFiniteSet(S) /\ Cardinality(S) = IF 6 < k THEN k - 6 ELSE 0
    BY <2>1, SlotsAreCounted
  <2> QED
    BY <1>2, <2>2 DEF extra
<1>6. Specialists(v) \cap Controls = {}
  BY <1>3, ControlsAreFour
<1>7. /\ g.dependsOn[Lead] = Specialists(v) /\ g.dependsOn[Scrum] = {Lead}
      /\ g.dependsOn[Strategy] = {Scrum} /\ g.dependsOn[Report] = {Strategy}
      /\ \A s \in Specialists(v) : g.dependsOn[s] = {}
  <2> HIDE DEF g
  <2>0. {Lead, Scrum, Strategy, Report} \subseteq g.nodes /\ Specialists(v) \subseteq g.nodes
    BY <1>1 DEF Controls
  <2>1. g.dependsOn[Lead] = Specialists(v)
    BY <1>1, <2>0, ControlsAreFour
  <2>2. g.dependsOn[Scrum] = {Lead}
    BY <1>1, <2>0, ControlsAreFour
  <2>3. g.dependsOn[Strategy] = {Scrum}
    BY <1>1, <2>0, ControlsAreFour
  <2>4. g.dependsOn[Report] = {Strategy}
    BY <1>1, <2>0, ControlsAreFour
  <2>5. \A s \in Specialists(v) : g.dependsOn[s] = {}
    BY <1>1, <1>6, <2>0 DEF Controls
  <2> QED
    BY <2>1, <2>2, <2>3, <2>4, <2>5
<1> HIDE DEF g
<1>8. Layer(Lead) = 2 /\ Layer(Scrum) = 3 /\ Layer(Strategy) = 4 /\ Layer(Report) = 5
      /\ \A s \in Specialists(v) : Layer(s) = 1
  BY <1>6, ControlsAreFour DEF Layer, Controls
<1>9. ASSUME NEW n \in g.nodes
      PROVE  g.dependsOn[n] \subseteq g.nodes /\ \A m \in g.dependsOn[n] : Layer(m) < Layer(n)
  <2>1. n \in Specialists(v) \/ n \in Controls
    BY <1>1, <1>9
  <2>2. CASE n \in Specialists(v)
    BY <1>7, <2>2
  <2>3. CASE n = Lead
    BY <1>1, <1>7, <1>8, <2>3
  <2>4. CASE n \in {Scrum, Strategy, Report}
    BY <1>1, <1>7, <1>8, <2>4 DEF Controls
  <2> QED
    BY <2>1, <2>2, <2>3, <2>4 DEF Controls
<1>10. IsFiniteSet(g.nodes) /\ Cardinality(g.nodes) \in 1..12
  <2>1. IsFiniteSet(Specialists(v) \cup Controls)
        /\ Cardinality(Specialists(v) \cup Controls) =
             Cardinality(Specialists(v)) + Cardinality(Controls) - Cardinality(Specialists(v) \cap Controls)
    BY <1>4, ControlsAreFour, FS_Union
  <2> QED
    BY <1>1, <1>2, <1>4, <1>6, <2>1, ControlsAreFour, FS_EmptySet
<1>11. DeliverableValid(g)
  <2>1. ASSUME NEW n \in g.nodes PROVE Report \notin g.dependsOn[n]
    <3>1. n \in Specialists(v) \/ n \in Controls
      BY <1>1, <2>1
    <3> QED
      BY <1>6, <1>7, <3>1, ControlsAreFour DEF Controls
  <2> QED
    BY <1>1, <2>1 DEF DeliverableValid
<1>12. {n \in g.nodes : n[1] = "support" \/ (n[1] = "specialist" /\ n[2] > 6)} = extra
  <2>1. \A n \in Controls : n[1] # "support" /\ n[1] # "specialist"
    BY DEF Controls, Lead, Scrum, Strategy, Report
  <2>2. \A n \in Specialists(v) : n \in extra <=> n[2] > 6
    <3> SUFFICES ASSUME NEW i \in 1..k PROVE <<"specialist", i>> \in extra <=> i > 6
      BY <1>3
    <3> QED
      BY <1>2
  <2>3. \A n \in Specialists(v) : n[1] = "specialist"
    BY <1>3
  <2>4. extra \subseteq Specialists(v)
    <3> SUFFICES ASSUME NEW i \in (6 + 1)..k PROVE <<"specialist", i>> \in Specialists(v)
      OBVIOUS
    <3>1. i \in (0 + 1)..k
      BY <1>2
    <3> QED
      BY <1>3, <3>1
  <2> HIDE DEF extra
  <2> QED
    BY <1>1, <2>1, <2>2, <2>3, <2>4
<1>13. g.asked > 0 => g.asked = g.excluded + Cardinality(extra)
  <2> HIDE DEF extra
  <2>1. g.asked = v /\ g.excluded = v - Least(v, 2) /\ Least(v, 2) \in Nat
    BY <1>1 DEF Least
  <2> QED
    BY <1>2, <1>5, <2>1
<1>14. \A n \in (g.strategists \cup {Report}) \cap g.nodes :
          Scrum \in g.dependsOn[n] \/ \E m \in g.dependsOn[n] : Scrum \in g.dependsOn[m]
  BY <1>1, <1>7
<1>15. Closed(g)
  BY <1>9, <1>10 DEF Closed
<1>16. g.deliverable \in g.nodes
  BY <1>1 DEF Controls
<1>17. WellBuilt(g)
  BY <1>9, <1>10, <1>11, <1>12, <1>13, <1>14, <1>15, <1>16 DEF WellBuilt
<1> QED
  BY <1>17 DEF g

\* A well built graph passes validate, and its depths are its control order.
LEMMA WellBuiltIsValid ==
  ASSUME NEW g, WellBuilt(g)
  PROVE  /\ Valid(g)
         /\ Scrum \in g.nodes /\ Lead \notin g.strategists =>
              \A n \in (g.strategists \cup {Report}) \cap g.nodes : DepthIn(g)[Scrum] < DepthIn(g)[n]
<1> DEFINE layer == [n \in g.nodes |-> Layer(n)]
           N == Cardinality(g.nodes)
<1>1. Closed(g) /\ N \in 1..12
  BY DEF WellBuilt
<1>2. \A n \in g.nodes : Layer(n) \in 1..5
  BY DEF Layer
<1>3. \A n \in g.nodes : DepthIn(g)[n] <= Layer(n) /\ DepthIn(g)[n] <= N /\ DepthIn(g)[n] \in Nat
  <2>1. \A n \in g.nodes : layer[n] = Layer(n) /\ layer[n] \in Nat /\ layer[n] >= 1
    BY <1>2
  <2>2. \A n \in g.nodes : \A m \in g.dependsOn[n] : layer[m] < layer[n]
    BY <1>1, <2>1 DEF WellBuilt, Closed
  <2> HIDE DEF layer
  <2>3. \A n \in g.nodes : DepthIn(g)[n] <= layer[n] /\ DepthIn(g)[n] <= N
    BY <1>1, <2>1, <2>2, LayersBoundDepths
  <2>4. \A n \in g.nodes : DepthIn(g)[n] \in Nat
    BY <1>1, <2>3, DepthsLayer
  <2> QED
    BY <2>1, <2>3, <2>4
<1>4. NodesValid(g)
  <2>1. N \in 1..MaxNodes
    BY <1>1, GraphsAssumption
  <2>2. ASSUME NEW n \in g.nodes, NEW m \in g.dependsOn[n] PROVE m \in g.nodes /\ m # n
    <3>1. m \in g.nodes /\ Layer(m) < Layer(n)
      BY <2>2 DEF WellBuilt, Closed
    <3> QED
      BY <1>2, <3>1
  <2>3. \A n \in g.nodes : g.dependsOn[n] \subseteq g.nodes \ {n}
    BY <2>2
  <2> QED
    BY <2>1, <2>3 DEF NodesValid, WellBuilt
<1>5. DepthValid(g)
  <2> DEFINE S == {DepthIn(g)[n] : n \in g.nodes}
  <2>1. S \in SUBSET Nat /\ \A s \in S : s <= 5 /\ s <= N
    <3>1. \A n \in g.nodes : DepthIn(g)[n] \in Nat /\ DepthIn(g)[n] <= 5 /\ DepthIn(g)[n] <= N
      BY <1>2, <1>3
    <3> QED
      BY <3>1
  <2>2. S # {}
    BY <1>1 DEF WellBuilt
  <2> HIDE DEF S, N
  <2>3. Max(S) \in S
    <3>1. \A s \in S : s <= 5
      BY <2>1
    <3> QED
      BY <2>1, <2>2, <3>1, MaxIsGreatest
  <2>4. Max(S) \in Nat /\ Max(S) <= MaxDepth /\ Max(S) <= N
    <3>1. Max(S) \in Nat /\ Max(S) <= 5 /\ Max(S) <= N
      BY <2>1, <2>3
    <3>2. MaxDepth \in Nat /\ MaxDepth >= 5
      BY GraphsAssumption
    <3> QED
      BY <3>1, <3>2
  <2>5. Max(S) <= Least(MaxDepth, N)
    BY <1>1, <2>4, GraphsAssumption DEF Least
  <2> QED
    BY <2>5 DEF DepthValid, GraphDepth, S, N
<1>6. Valid(g)
  BY <1>4, <1>5 DEF Valid, WellBuilt
<1>7. ASSUME Scrum \in g.nodes, Lead \notin g.strategists,
             NEW n \in (g.strategists \cup {Report}) \cap g.nodes
      PROVE  DepthIn(g)[Scrum] < DepthIn(g)[n]
  <2>1. ASSUME NEW x \in g.nodes, NEW m \in g.dependsOn[x]
        PROVE  m \in g.nodes /\ DepthIn(g)[m] \in Nat /\ DepthIn(g)[m] < DepthIn(g)[x]
    BY <1>1, <1>3, <2>1, DepthsLayer
  <2>2. CASE Scrum \in g.dependsOn[n]
    BY <2>1, <2>2
  <2>3. ASSUME NEW m \in g.dependsOn[n], Scrum \in g.dependsOn[m] PROVE DepthIn(g)[Scrum] < DepthIn(g)[n]
    <3>1. /\ m \in g.nodes /\ DepthIn(g)[m] \in Nat /\ DepthIn(g)[m] < DepthIn(g)[n]
          /\ DepthIn(g)[Scrum] \in Nat /\ DepthIn(g)[n] \in Nat
      BY <1>3, <1>7, <2>1, <2>3
    <3>2. DepthIn(g)[Scrum] < DepthIn(g)[m]
      BY <2>1, <2>3, <3>1
    <3> QED
      BY <3>1, <3>2
  <2> QED
    BY <1>7, <2>2, <2>3 DEF WellBuilt
<1> QED
  BY <1>6, <1>7

LEMMA BuiltIsWellBuilt ==
  ASSUME NEW g \in BuiltGraphs
  PROVE  WellBuilt(g)
BY RoutedIsWellBuilt, FullAuditIsWellBuilt, GraphsAssumption DEF BuiltGraphs

\* While levels peels a valid graph, each level so far is the nodes of its depth and
\* what remains lies deeper.
LevelsInv ==
  /\ GraphTypeOK
  /\ graph \in BuiltGraphs \cup OtherGraphs
  /\ graphPhase \in {"built", "rejected"} => remaining = graph.nodes /\ levels = <<>>
  /\ graphPhase = "rejected" => ~ Valid(graph)
  /\ graphPhase \in {"valid", "levelled", "cyclic"} =>
       Valid(graph) /\ remaining = {n \in graph.nodes : Len(levels) < DepthIn(graph)[n]}
  /\ \A i \in DOMAIN levels : levels[i] # {} /\ levels[i] = {n \in graph.nodes : DepthIn(graph)[n] = i}
  /\ graphPhase # "cyclic" /\ (graphPhase = "levelled" => remaining = {})

\* What validate accepts is closed, has no cycle, and every node of it has a depth.
LEMMA ValidIsLayered ==
  ASSUME NEW g \in BuiltGraphs \cup OtherGraphs, Valid(g)
  PROVE  /\ Closed(g) /\ g.nodes # {} /\ GraphDepth(g) \in {DepthIn(g)[n] : n \in g.nodes}
         /\ \A n \in g.nodes :
              /\ DepthIn(g)[n] \in Nat /\ 1 <= DepthIn(g)[n] /\ DepthIn(g)[n] <= GraphDepth(g)
              /\ \A m \in g.dependsOn[n] : m \in g.nodes /\ DepthIn(g)[m] < DepthIn(g)[n]
              /\ DepthIn(g)[n] = 1 \/ \E m \in g.dependsOn[n] : DepthIn(g)[n] = 1 + DepthIn(g)[m]
<1> DEFINE N == Cardinality(g.nodes)
           S == {DepthIn(g)[n] : n \in g.nodes}
<1>1. IsFiniteSet(g.nodes)
  BY BuiltIsWellBuilt, GraphsAssumption DEF WellBuilt, Closed
<1>2. Closed(g) /\ N \in Nat /\ N >= 1
  BY <1>1, GraphsAssumption, FS_CardinalityType DEF Valid, NodesValid, Closed
<1>3. g.nodes # {}
  BY <1>1, <1>2, FS_EmptySet
<1>4. S \in SUBSET Nat /\ S # {}
  <2>1. ASSUME NEW n \in g.nodes PROVE DepthIn(g)[n] \in Nat
    <3>1. <<n, {}>> \in Entries(g)
      BY DEF Entries
    <3> QED
      BY <1>2, <3>1, DepthSteps DEF DepthIn
  <2> QED
    BY <1>3, <2>1
<1>5. 2 * N + 1 \in Nat /\ \A s \in S : s <= 2 * N + 1
  <2>1. \A n \in g.nodes : DepthIn(g)[n] \in 1..(2 * N + 1)
    BY <1>2, <1>4, DepthSteps DEF DepthIn, Entries
  <2> HIDE DEF N
  <2> QED
    BY <1>2, <2>1
<1>6. Max(S) \in S /\ \A s \in S : s <= Max(S)
  <2> HIDE DEF S, N
  <2> QED
    BY <1>4, <1>5, MaxIsGreatest
<1>7. GraphDepth(g) = Max(S)
  BY DEF GraphDepth
<1>8. Max(S) <= N
  <2>1. Max(S) <= Least(MaxDepth, N)
    BY <1>7 DEF Valid, DepthValid
  <2> HIDE DEF S, N
  <2>2. MaxDepth \in Nat
    BY GraphsAssumption
  <2>3. Max(S) \in Nat
    BY <1>4, <1>6
  <2> QED
    BY <1>2, <2>1, <2>2, <2>3 DEF Least
<1>9. ASSUME NEW n \in g.nodes PROVE DepthIn(g)[n] <= Max(S) /\ DepthIn(g)[n] \in Nat /\ DepthIn(g)[n] <= N
  <2>1. DepthIn(g)[n] \in S
    OBVIOUS
  <2> HIDE DEF S, N
  <2>2. DepthIn(g)[n] \in Nat /\ Max(S) \in Nat
    BY <1>4, <1>6, <2>1
  <2>3. DepthIn(g)[n] <= Max(S)
    BY <1>6, <2>1
  <2> QED
    BY <1>2, <1>8, <2>2, <2>3
<1> HIDE DEF S
<1> QED
  BY <1>2, <1>3, <1>6, <1>7, <1>9, DepthsLayer DEF S

\* The loop of levels: what is ready is the next depth, and never nothing while
\* nodes remain.
LEMMA ReadyIsTheNextDepth ==
  ASSUME LevelsInv, graphPhase = "valid"
  PROVE  /\ Ready = {n \in graph.nodes : DepthIn(graph)[n] = Len(levels) + 1}
         /\ remaining # {} => Ready # {}
<1> DEFINE D == DepthIn(graph)
           L == Len(levels)
<1>1. /\ graph \in BuiltGraphs \cup OtherGraphs /\ Valid(graph)
      /\ remaining = {n \in graph.nodes : L < D[n]} /\ L \in Nat
  BY DEF LevelsInv, GraphTypeOK
<1>2. /\ Closed(graph)
      /\ \A n \in graph.nodes :
              /\ D[n] \in Nat /\ 1 <= D[n]
              /\ \A m \in graph.dependsOn[n] : m \in graph.nodes /\ D[m] < D[n]
              /\ D[n] = 1 \/ \E m \in graph.dependsOn[n] : D[n] = 1 + D[m]
  BY <1>1, ValidIsLayered
<1> HIDE DEF D, L
<1>3. Ready = {n \in graph.nodes : D[n] = L + 1}
  <2>1. ASSUME NEW n \in graph.nodes PROVE n \in Ready <=> D[n] = L + 1
    <3>1. ASSUME D[n] = L + 1 PROVE n \in Ready
      <4>1. n \in remaining
        BY <1>1, <3>1
      <4>2. ASSUME NEW m \in graph.dependsOn[n] PROVE m \in Completed
        <5>1. m \in graph.nodes /\ D[m] < D[n] /\ D[m] \in Nat
          BY <1>2
        <5>2. ~ (L < D[m])
          BY <1>1, <3>1, <5>1
        <5> QED
          BY <1>1, <5>1, <5>2 DEF Completed
      <4> QED
        BY <4>1, <4>2 DEF Ready
    <3>2. ASSUME n \in Ready PROVE D[n] = L + 1
      <4>1. n \in remaining /\ graph.dependsOn[n] \subseteq Completed /\ L < D[n] /\ D[n] \in Nat
        BY <1>1, <1>2, <3>2 DEF Ready
      <4>2. CASE D[n] = 1
        BY <1>1, <4>1, <4>2
      <4>3. ASSUME NEW m \in graph.dependsOn[n], D[n] = 1 + D[m] PROVE D[n] = L + 1
        <5>1. m \in graph.nodes /\ D[m] \in Nat /\ ~ (L < D[m])
          BY <1>1, <1>2, <4>1 DEF Completed
        <5> QED
          BY <1>1, <4>1, <4>3, <5>1
      <4> QED
        BY <1>2, <4>2, <4>3
    <3> QED
      BY <3>1, <3>2
  <2>2. Ready \subseteq graph.nodes
    BY <1>1 DEF Ready
  <2> QED
    BY <2>1, <2>2
<1>4. ASSUME remaining # {} PROVE Ready # {}
  <2> DEFINE S == {D[n] : n \in remaining}
  <2>1. S \in SUBSET Nat /\ S # {}
    BY <1>1, <1>2, <1>4
  <2>2. PICK k \in S : \A j \in S : k <= j
    <3> HIDE DEF S
    <3> QED
      BY <2>1, LeastOfNaturals
  <2>3. PICK n \in remaining : D[n] = k
    BY <2>2
  <2>4. k \in Nat /\ L < k /\ n \in graph.nodes
    BY <1>1, <1>2, <2>3
  <2>5. k = L + 1
    <3>1. CASE D[n] = 1
      BY <1>1, <2>3, <2>4, <3>1
    <3>2. ASSUME NEW m \in graph.dependsOn[n], D[n] = 1 + D[m], k # L + 1 PROVE FALSE
      <4>1. m \in graph.nodes /\ D[m] \in Nat /\ D[m] = k - 1
        BY <1>2, <2>3, <2>4, <3>2
      <4>2. L < D[m]
        BY <1>1, <2>4, <3>2, <4>1
      <4>3. D[m] \in S
        BY <1>1, <4>1, <4>2
      <4>4. k <= D[m]
        BY <2>2, <4>3
      <4> QED
        BY <2>4, <4>1, <4>4
    <3> QED
      BY <1>2, <2>4, <3>1, <3>2
  <2> QED
    BY <1>3, <2>3, <2>4, <2>5
<1> QED
  BY <1>3, <1>4 DEF D, L

LEMMA LevelsHold == GraphSpec => []LevelsInv
<1>1. GraphInit => LevelsInv
  BY DEF GraphInit, LevelsInv, GraphTypeOK
<1>2. ASSUME LevelsInv, GraphNext PROVE LevelsInv'
  <2>0. GraphTypeOK /\ Len(levels) \in Nat
    BY <1>2 DEF LevelsInv, GraphTypeOK
  <2>1. CASE Validate
    <3>1. \A n \in graph.nodes : Valid(graph) => Len(levels) < DepthIn(graph)[n]
      <4> SUFFICES ASSUME NEW n \in graph.nodes, Valid(graph) PROVE Len(levels) < DepthIn(graph)[n]
        OBVIOUS
      <4>1. DepthIn(graph)[n] \in Nat /\ 1 <= DepthIn(graph)[n]
        BY <1>2, ValidIsLayered DEF LevelsInv
      <4>2. Len(levels) = 0
        BY <1>2, <2>1 DEF LevelsInv, Validate
      <4> QED
        BY <4>1, <4>2
    <3>2. UNCHANGED <<graph, remaining, levels>> /\ remaining = graph.nodes /\ levels = <<>>
          /\ graphPhase' = IF Valid(graph) THEN "valid" ELSE "rejected"
      BY <1>2, <2>1 DEF LevelsInv, Validate
    <3>3. GraphTypeOK'
      BY <2>0, <3>2 DEF GraphTypeOK
    <3>4. Valid(graph)' <=> Valid(graph)
      BY <3>2 DEF Valid, NodesValid, DepthValid, DeliverableValid, GraphDepth, DepthIn, DepthFrom
    <3> QED
      BY <1>2, <3>1, <3>2, <3>3, <3>4 DEF LevelsInv
  <2>2. CASE PeelLevel
    <3>1. /\ Ready = {n \in graph.nodes : DepthIn(graph)[n] = Len(levels) + 1} /\ Ready # {}
          /\ Valid(graph) /\ remaining = {n \in graph.nodes : Len(levels) < DepthIn(graph)[n]}
          /\ graphPhase = "valid"
      BY <1>2, <2>2, ReadyIsTheNextDepth DEF PeelLevel, LevelsInv
    <3>2. /\ levels' = Append(levels, Ready) /\ remaining' = remaining \ Ready
          /\ UNCHANGED <<graph, graphPhase>>
      BY <2>2 DEF PeelLevel
    <3>3. /\ Len(levels') = Len(levels) + 1 /\ DOMAIN levels' = 1..(Len(levels) + 1)
          /\ levels'[Len(levels) + 1] = Ready
          /\ \A i \in 1..Len(levels) : levels'[i] = levels[i]
          /\ levels' \in Seq(SUBSET graph.nodes) /\ DOMAIN levels = 1..Len(levels)
      <4>1. levels \in Seq(SUBSET graph.nodes) /\ Ready \in SUBSET graph.nodes
        BY <2>0, <3>1 DEF GraphTypeOK
      <4> QED
        BY <3>2, <4>1
    <3>4. GraphTypeOK'
      BY <2>0, <3>2, <3>3 DEF GraphTypeOK
    <3>5. \A n \in graph.nodes : DepthIn(graph)[n] \in Nat
      BY <1>2, <3>1, ValidIsLayered DEF LevelsInv
    <3>6. remaining' = {n \in graph.nodes : Len(levels') < DepthIn(graph)[n]}
      <4>1. ASSUME NEW n \in graph.nodes
            PROVE  n \in remaining \ Ready <=> Len(levels) + 1 < DepthIn(graph)[n]
        BY <2>0, <3>1, <3>5
      <4> QED
        BY <3>1, <3>2, <3>3, <4>1
    <3>7. \A i \in DOMAIN levels' : levels'[i] # {} /\ levels'[i] = {n \in graph.nodes : DepthIn(graph)[n] = i}
      <4> SUFFICES ASSUME NEW i \in 1..(Len(levels) + 1)
                   PROVE  levels'[i] # {} /\ levels'[i] = {n \in graph.nodes : DepthIn(graph)[n] = i}
        BY <3>3
      <4>1. CASE i = Len(levels) + 1
        BY <3>1, <3>3, <4>1
      <4>2. CASE i \in 1..Len(levels)
        BY <1>2, <3>3, <4>2 DEF LevelsInv
      <4> QED
        BY <2>0, <4>1, <4>2
    <3>8. DepthIn(graph)' = DepthIn(graph) /\ (Valid(graph)' <=> Valid(graph))
      BY <3>2 DEF Valid, NodesValid, DepthValid, DeliverableValid, GraphDepth, DepthIn, DepthFrom
    <3> QED
      BY <1>2, <3>1, <3>2, <3>4, <3>6, <3>7, <3>8 DEF LevelsInv
  <2>3. CASE FinishLevels
    <3>1. /\ graphPhase = "valid" /\ remaining = {} /\ graphPhase' = "levelled"
          /\ UNCHANGED <<graph, remaining, levels>>
      BY <1>2, <2>3, ReadyIsTheNextDepth DEF FinishLevels
    <3>2. DepthIn(graph)' = DepthIn(graph) /\ (Valid(graph)' <=> Valid(graph))
      BY <3>1 DEF Valid, NodesValid, DepthValid, DeliverableValid, GraphDepth, DepthIn, DepthFrom
    <3>3. GraphTypeOK'
      BY <2>0, <3>1 DEF GraphTypeOK
    <3> QED
      BY <1>2, <3>1, <3>2, <3>3 DEF LevelsInv
  <2> QED
    BY <1>2, <2>1, <2>2, <2>3 DEF GraphNext
<1>3. ASSUME LevelsInv, UNCHANGED graphVars PROVE LevelsInv'
  <2>1. UNCHANGED <<graph, graphPhase, remaining, levels>>
    BY <1>3 DEF graphVars
  <2>2. DepthIn(graph)' = DepthIn(graph) /\ (Valid(graph)' <=> Valid(graph))
    BY <2>1 DEF Valid, NodesValid, DepthValid, DeliverableValid, GraphDepth, DepthIn, DepthFrom
  <2>3. GraphTypeOK'
    BY <1>3, <2>1 DEF GraphTypeOK, LevelsInv
  <2> QED
    BY <1>3, <2>1, <2>2, <2>3 DEF LevelsInv
<1> QED
  BY <1>1, <1>2, <1>3, PTL DEF GraphSpec

\* What validate accepts can be levelled, each node at the depth that validate
\* computed, the level count being the graph's depth; every graph of the two
\* builders is accepted, counts what it left out and keeps the control order
\* (workflow_graph.py:61-116, 119-330).
THEOREM GraphsRun == GraphSpec => []GraphsAreRunnable
<1>1. ASSUME LevelsInv PROVE GraphsAreRunnable
  <2>1. ASSUME graphPhase = "levelled"
        PROVE  /\ Len(levels) = GraphDepth(graph)
               /\ \A n \in graph.nodes : \A i \in DOMAIN levels : n \in levels[i] <=> i = DepthIn(graph)[n]
    <3>1. /\ Valid(graph) /\ graph \in BuiltGraphs \cup OtherGraphs
          /\ \A n \in graph.nodes : ~ (Len(levels) < DepthIn(graph)[n])
          /\ \A i \in DOMAIN levels : levels[i] # {} /\ levels[i] = {n \in graph.nodes : DepthIn(graph)[n] = i}
          /\ Len(levels) \in Nat /\ DOMAIN levels = 1..Len(levels)
      BY <1>1, <2>1 DEF LevelsInv, GraphTypeOK
    <3>2. /\ graph.nodes # {} /\ GraphDepth(graph) \in {DepthIn(graph)[n] : n \in graph.nodes}
          /\ \A n \in graph.nodes : /\ DepthIn(graph)[n] \in Nat /\ 1 <= DepthIn(graph)[n]
                                    /\ DepthIn(graph)[n] <= GraphDepth(graph)
      BY <3>1, ValidIsLayered
    <3>3. GraphDepth(graph) \in Nat /\ GraphDepth(graph) >= 1 /\ GraphDepth(graph) <= Len(levels)
      BY <3>1, <3>2
    <3>4. Len(levels) \in DOMAIN levels
      BY <3>1, <3>3
    <3>5. PICK deepest \in graph.nodes : DepthIn(graph)[deepest] = Len(levels)
      BY <3>1, <3>4
    <3>6. Len(levels) = GraphDepth(graph)
      BY <3>1, <3>2, <3>3, <3>5
    <3>7. \A n \in graph.nodes : \A i \in DOMAIN levels : n \in levels[i] <=> i = DepthIn(graph)[n]
      BY <3>1
    <3> QED
      BY <3>6, <3>7
  <2>2. ASSUME graph \in BuiltGraphs
        PROVE  /\ graphPhase # "rejected" /\ Cardinality(graph.nodes) <= 12
               /\ graph.asked > 0 =>
                    graph.asked = graph.excluded +
                      Cardinality({n \in graph.nodes : n[1] = "support" \/ (n[1] = "specialist" /\ n[2] > 6)})
               /\ Scrum \in graph.nodes /\ Lead \notin graph.strategists =>
                    \A n \in (graph.strategists \cup {Report}) \cap graph.nodes :
                       DepthIn(graph)[Scrum] < DepthIn(graph)[n]
    <3>1. WellBuilt(graph)
      BY <2>2, BuiltIsWellBuilt
    <3>2. Valid(graph) /\
          (Scrum \in graph.nodes /\ Lead \notin graph.strategists =>
                    \A n \in (graph.strategists \cup {Report}) \cap graph.nodes :
                       DepthIn(graph)[Scrum] < DepthIn(graph)[n])
      BY <3>1, WellBuiltIsValid
    <3>3. graphPhase # "rejected"
      BY <1>1, <3>2 DEF LevelsInv
    <3>4. Cardinality(graph.nodes) <= 12
      BY <3>1 DEF WellBuilt
    <3> QED
      BY <3>1, <3>2, <3>3, <3>4 DEF WellBuilt
  <2>3. graphPhase # "cyclic"
    BY <1>1 DEF LevelsInv
  <2> QED
    BY <2>1, <2>2, <2>3 DEF GraphsAreRunnable
<1> QED
  BY <1>1, LevelsHold, PTL
====
