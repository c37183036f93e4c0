--------------------------- MODULE FindingRegistry --------------------------
(***************************************************************************)
(* The registry that merges what the agents of a session found             *)
(* (src/runtime/finding_registry.py): outputs are added one after another, *)
(* findings with the same root cause share a record, then conflicts are    *)
(* sought pairwise over all the outputs and the rest is accepted.          *)
(***************************************************************************)
EXTENDS Integers, Sequences, Functions

CONSTANTS AgentOutputs, \* what an agent may hand over: [agent, evidence, findings]
          MaxOutputs    \* bound: outputs of a session

\* A finding is [scope, root, text, refs, repeats, action, hasId, severity]: refs is
\* the set of its references and repeats says that it lists one twice; action is
\* <<target, polarity>>, <<>> for none or <<"malformed">>.  The evidence of an output gives the
\* states of the items behind each reference, [reference -> sequence of states].

ASSUME RegistryAssumption ==
    /\ MaxOutputs \in Nat
    /\ \A output \in AgentOutputs : output.findings \in Seq(Range(output.findings))

VARIABLES added,        \* the outputs added so far, in order
          looked,       \* how many findings of the last one the loop of add_output has seen
          records,      \* key -> record
          conflictPairs,\* the conflicts reported: pairs of places
          registryPhase \* "adding", "reconciled" or "accepted"

registryVars == <<added, looked, records, conflictPairs, registryPhase>>

-----------------------------------------------------------------------------
\* The states of evidence from best to worst, and the worse of two.
EvidenceOrder == [VALID |-> 0, DUPLICATE |-> 1, STALE |-> 2, MISSING |-> 3, CONTRADICTORY |-> 4]
Worse(left, right) == IF EvidenceOrder[left] >= EvidenceOrder[right] THEN left ELSE right

\* The worst of some states, as the loop over the references finds it.
Worst(states) ==
    CHOOSE worst \in {"VALID"} \cup states :
        \A state \in {"VALID"} \cup states : EvidenceOrder[state] <= EvidenceOrder[worst]

SeverityOrder == [Low |-> 1, Medium |-> 2, High |-> 3, Critical |-> 4]

\* One reference: nothing behind it, several items, or items that do not hold.
ReferenceState(observed) ==
    LET states == Range(observed)
    IN  IF observed = <<>> THEN "MISSING"
        ELSE IF "CONTRADICTORY" \in states THEN "CONTRADICTORY"
        ELSE IF states \cap {"MISSING", "INVALID"} # {} THEN "MISSING"
        ELSE IF "STALE" \in states THEN "STALE"
        ELSE IF Len(observed) # 1 THEN "DUPLICATE" ELSE "VALID"

EvidenceState(output, finding) ==
    IF finding.refs = {} THEN "MISSING"
    ELSE Worst({ReferenceState(output.evidence[r]) : r \in finding.refs}
               \cup (IF finding.repeats THEN {"DUPLICATE"} ELSE {}))

\* Findings with the same scope and the same terms of a root cause share a record.
Key(finding) == <<finding.scope, finding.root>>

OwnIssues(finding) ==
    {issue \in {"contract", "id"} : \/ issue = "contract" /\ finding.action = <<"malformed">>
                                    \/ issue = "id" /\ ~finding.hasId}

NewRecord(agent, finding, evidence) ==
    [finding |-> finding, refs |-> finding.refs, severity |-> finding.severity,
     agents |-> <<agent>>, evidence |-> evidence, issues |-> OwnIssues(finding), state |-> "PROPOSED"]

\* Mutation: the record takes the state of the newest finding.
MergeNewest(record, agent, finding, evidence) ==
    [record EXCEPT !.refs = @ \cup finding.refs, !.evidence = evidence,
                   !.issues = @ \cup OwnIssues(finding)]

\* A repeated finding adds its agent, its references, its issues and, when it is
\* worse, its severity; a reference already cited makes the record a duplicate.
Merge(record, agent, finding, evidence) ==
    LET cited == record.refs \cap finding.refs # {}
    IN  [record EXCEPT
           !.agents = IF agent \in Range(@) THEN @ ELSE Append(@, agent),
           !.refs = @ \cup finding.refs,
           !.evidence = Worse(@, IF cited THEN Worse(evidence, "DUPLICATE") ELSE evidence),
           !.issues = @ \cup OwnIssues(finding),
           !.severity = IF SeverityOrder[finding.severity] > SeverityOrder[@] THEN finding.severity ELSE @]

Put(table, key, record) == [k \in DOMAIN table \cup {key} |-> IF k = key THEN record ELSE table[k]]

AddFinding(table, output, finding) ==
    LET key == Key(finding)
        evidence == EvidenceState(output, finding)
    IN  Put(table, key, IF key \in DOMAIN table
                        THEN Merge(table[key], output.agent, finding, evidence)
                        ELSE NewRecord(output.agent, finding, evidence))

-----------------------------------------------------------------------------
\* The rows compared with each other: the place <<i, j>> is finding j of output i.
PlacesIn(outputs) == UNION {({i} \X DOMAIN outputs[i].findings) : i \in DOMAIN outputs}
Earlier(p, q) == p[1] < q[1] \/ (p[1] = q[1] /\ p[2] < q[2])

RowAt(outputs, p) == [agent |-> outputs[p[1]].agent, finding |-> outputs[p[1]].findings[p[2]]]
KeyAt(outputs, p) == Key(RowAt(outputs, p).finding)

MalformedRow(row) == row.finding.action = <<"malformed">> \/ ~row.finding.hasId
Contracted(row) == Len(row.finding.action) = 2

Opposed(left, right) ==
    /\ ~MalformedRow(left) /\ ~MalformedRow(right)
    /\ Contracted(left) /\ Contracted(right)
    /\ left.finding.action[1] = right.finding.action[1]
    /\ left.finding.action[2] # right.finding.action[2]

\* Two agents say different things and at least one did not declare its action.
Unproven(left, right) ==
    /\ ~MalformedRow(left) /\ ~MalformedRow(right)
    /\ ~(Contracted(left) /\ Contracted(right))
    /\ left.agent # right.agent /\ left.finding.text # right.finding.text

\* Every two findings of one scope, the earlier first.
PairsOfScope(outputs) ==
    {pair \in PlacesIn(outputs) \X PlacesIn(outputs) :
        /\ Earlier(pair[1], pair[2])
        /\ RowAt(outputs, pair[1]).finding.scope = RowAt(outputs, pair[2]).finding.scope}

KeysOf(outputs, pairs) == UNION {{KeyAt(outputs, pair[1]), KeyAt(outputs, pair[2])} : pair \in pairs}

-----------------------------------------------------------------------------
RegistryInit ==
    /\ added = <<>> /\ looked = 0 /\ records = <<>> /\ conflictPairs = {}
    /\ registryPhase = "adding"

LastOutput == added[Len(added)]
AllLookedAt == looked = IF added = <<>> THEN 0 ELSE Len(LastOutput.findings)

AddOutput(output) ==
    /\ registryPhase = "adding" /\ AllLookedAt /\ Len(added) < MaxOutputs
    /\ added' = Append(added, output) /\ looked' = 0
    /\ UNCHANGED <<records, conflictPairs, registryPhase>>

\* One round of the loop over the findings of the output.
LookAtFinding ==
    /\ registryPhase = "adding" /\ ~AllLookedAt
    /\ looked' = looked + 1
    /\ records' = AddFinding(records, LastOutput, LastOutput.findings[looked + 1])
    /\ UNCHANGED <<added, conflictPairs, registryPhase>>

\* conflicts: opposite actions on one target contradict each other, malformed or
\* undeclared ones send both records to review.
OpposedPairs(outputs) == {pair \in PairsOfScope(outputs) : Opposed(RowAt(outputs, pair[1]), RowAt(outputs, pair[2]))}
UnprovenPairs(outputs) == {pair \in PairsOfScope(outputs) : Unproven(RowAt(outputs, pair[1]), RowAt(outputs, pair[2]))}
MalformedPairs(outputs) ==
    {pair \in PairsOfScope(outputs) : MalformedRow(RowAt(outputs, pair[1])) \/ MalformedRow(RowAt(outputs, pair[2]))}

ReconcileFindings ==
    /\ registryPhase = "adding" /\ AllLookedAt
    /\ registryPhase' = "reconciled"
    /\ conflictPairs' = OpposedPairs(added)
    /\ records' = [key \in DOMAIN records |->
         [records[key] EXCEPT
            !.evidence = IF key \in KeysOf(added, OpposedPairs(added)) THEN "CONTRADICTORY" ELSE @,
            !.issues = @ \cup (IF key \in KeysOf(added, MalformedPairs(added)) THEN {"malformed"} ELSE {})
                         \cup (IF key \in KeysOf(added, UnprovenPairs(added)) THEN {"unproven"} ELSE {})]]
    /\ UNCHANGED <<added, looked>>

AcceptAllWithoutConflict ==
    LET conflicted == KeysOf(added, conflictPairs)
    IN  /\ registryPhase = "reconciled"
        /\ registryPhase' = "accepted"
        /\ records' = [key \in DOMAIN records |->
             [records[key] EXCEPT
                !.evidence = IF key \in conflicted THEN "CONTRADICTORY" ELSE @,
                !.state = IF key \in conflicted THEN "CONFLICTED"
                          ELSE IF records[key].evidence = "VALID" /\ records[key].issues = {} THEN "ACCEPTED"
                          ELSE "EVIDENCE_REVIEW"]]
        /\ UNCHANGED <<added, looked, conflictPairs>>

\* build_decisions: one revision per conflict and one review of the accepted
\* findings of high risk, each with the keys it stands on.
CriticalKeys ==
    {key \in DOMAIN records : records[key].state = "ACCEPTED" /\ records[key].severity \in {"High", "Critical"}}
Decisions ==
    {[decision |-> "Revise", evidence |-> KeysOf(added, {pair})] : pair \in conflictPairs}
    \cup {[decision |-> "Approve", evidence |-> keys] : keys \in {CriticalKeys} \ {{}}}

RegistryNext ==
    \/ \E output \in AgentOutputs : AddOutput(output)
    \/ LookAtFinding \/ ReconcileFindings \/ AcceptAllWithoutConflict

RegistrySpec == RegistryInit /\ [][RegistryNext]_registryVars

-----------------------------------------------------------------------------
\* What acceptance means, said of all the findings at once and of no order: all that
\* share the root cause stand on evidence of their own that holds, are well formed,
\* and clash with nothing in their scope.
Supported(outputs, key) ==
    LET Row(p) == RowAt(outputs, p)
        mine == {p \in PlacesIn(outputs) : KeyAt(outputs, p) = key}
        Clash(p, q) == Opposed(Row(p), Row(q)) \/ Unproven(Row(p), Row(q)) \/ MalformedRow(Row(q))
    IN  \A p \in mine :
          /\ EvidenceState(outputs[p[1]], Row(p).finding) = "VALID"
          /\ ~MalformedRow(Row(p))
          /\ \A q \in mine \ {p} : Row(p).finding.refs \cap Row(q).finding.refs = {}
          /\ \A q \in PlacesIn(outputs) \ {p} : Row(q).finding.scope = Row(p).finding.scope => ~Clash(p, q)

\* The order in which agents report never decides what is accepted: a record is
\* accepted exactly when all its findings are supported, and an approval rests on
\* accepted records alone.
AcceptedIsSupported ==
    registryPhase = "accepted" =>
        /\ \A key \in DOMAIN records : (records[key].state = "ACCEPTED") <=> Supported(added, key)
        /\ \A d \in Decisions : d.decision = "Approve" =>
             \A key \in d.evidence : Supported(added, key)
=============================================================================
