----------------------------- MODULE AgentOutput ----------------------------
(***************************************************************************)
(* What an agent answers and who believes it: the single-agent path of a   *)
(* session (src/runtime/orchestrator.py, executor.py), the correction loop *)
(* (structured_output.py), the specialist decision and the evidence        *)
(* binding that validate an answer, the explicit normalisation of an       *)
(* unversioned file and the report that renders an output.                 *)
(***************************************************************************)
EXTENDS Integers, Sequences, FiniteSets, SequencesExt, TLC

CONSTANTS
  Requests,     \* the requests an operator may make
  Answers,      \* what a model may answer, and what a file may hold
  DecisionAgents,  \* the agents that owe a specialist decision
  PartOf,       \* pairs of tokens, the first a part of the text of the second
  BaseName,     \* the file name of each source
  MaxAttempts,  \* max_correction_attempts + 1
  MaxCalls      \* max_llm_calls of the session's budget

\* An output is [parses, wellFormed, agent, version, state, unverified, evidence,
\* findings, claims, texts, decision]: texts gives the numbers and addresses of
\* each text by its path <<field, index>>, a claim says a set of them, and
\* unverified is "absent", "set" or "unset".  wellFormed is what the schema asks
\* beyond the contract below.

IsList(list) == list \in Seq(Range(list))
OutputFields == {"parses", "wellFormed", "agent", "version", "state", "unverified", "evidence",
                 "findings", "claims", "texts", "decision"}
Shaped(o) ==
    /\ DOMAIN o = OutputFields
    /\ IsList(o.evidence) /\ IsList(o.findings) /\ IsList(o.claims)
    /\ \A i \in DOMAIN o.evidence : {"id", "source", "state"} \subseteq DOMAIN o.evidence[i]
    /\ \A i \in DOMAIN o.findings : "refs" \in DOMAIN o.findings[i] /\ IsList(o.findings[i].refs)
    /\ \A i \in DOMAIN o.claims : {"refs", "state"} \subseteq DOMAIN o.claims[i]

ASSUME AnswersAssumption == \A o \in Answers : Shaped(o)

VARIABLES request, agentStage, \* what was asked, and where it is
          desk,                \* the session: risks, outputs, handoffs
          exchange,            \* the attempts made and the last reply
          transcript,          \* the memory of the session
          endorsed             \* what a validator let through: [output, as, of]

agentVars == <<request, agentStage, desk, exchange, transcript, endorsed>>

NoDecision == [state |-> "none"]
NoReply == [parses |-> FALSE]

-----------------------------------------------------------------------------
\* The contract: a known version, a known state, and a legacy output says so.
ExecutionStates == {"COMPLETE", "PARTIAL", "BLOCKED", "FAILED", "SYNTHETIC"}
IsLegacy(o) == o.version = "1.0.0"
ContractHolds(o) ==
    /\ o.version \in {"1.0.0", "2.0.0"}
    /\ o.state \in ExecutionStates
    /\ IF IsLegacy(o) THEN o.state = "PARTIAL" /\ o.unverified = "set" ELSE o.unverified = "absent"

\* What a state of the evidence allows a claim to say, and how weak that is.
ClaimStateOf ==
    [CURRENT |-> "AVAILABLE", UNVERIFIED |-> "PARTIAL", STALE |-> "STALE",
     MISSING |-> "MISSING", INVALID |-> "INVALID", CONTRADICTORY |-> "BLOCKED"]
Weakness == [AVAILABLE |-> 0, PARTIAL |-> 1, STALE |-> 2, MISSING |-> 3, INVALID |-> 4, BLOCKED |-> 5]

Distinct(list) == Cardinality(Range(list)) = Len(list)
IdsOf(list) == {list[i].id : i \in DOMAIN list}
HasIds(list) == "" \notin IdsOf(list) /\ Cardinality(IdsOf(list)) = Len(list)

EvidenceHolds(o) ==
    /\ HasIds(o.evidence)
    /\ Cardinality({o.evidence[i].source : i \in DOMAIN o.evidence}) = Len(o.evidence)
    /\ \A i \in DOMAIN o.evidence :
          /\ o.evidence[i].source # ""
          /\ o.evidence[i].state \in DOMAIN ClaimStateOf
          /\ (o.evidence[i].state = "UNVERIFIED") = IsLegacy(o)

\* The first item of an id, which is the one the validator keeps.
ItemOf(o, id) == o.evidence[SelectInSeq(o.evidence, LAMBDA e : e.id = id)]

RefsHold(o, refs) == refs # <<>> /\ Distinct(refs) /\ Range(refs) \subseteq IdsOf(o.evidence)

FindingsHold(o) ==
    /\ HasIds(o.findings)
    /\ IdsOf(o.findings) \cap IdsOf(o.evidence) = {}
    /\ \A i \in DOMAIN o.findings : RefsHold(o, o.findings[i].refs)

\* Mutation: the best state among the items, min in place of max.
AllowedBest(o, refs) ==
    LET states == {Weakness[ClaimStateOf[ItemOf(o, ref).state]] :
                      ref \in Range(refs) \cap IdsOf(o.evidence)}
    IN  IF states = {} THEN 0 ELSE CHOOSE w \in states : \A v \in states : v >= w
\* The worst state among the items a claim refers to.
Allowed(o, refs) ==
    LET states == {Weakness[ClaimStateOf[ItemOf(o, ref).state]] :
                      ref \in Range(refs) \cap IdsOf(o.evidence)}
    IN  IF states = {} THEN 0 ELSE CHOOSE w \in states : \A v \in states : v <= w
ClaimStateHolds(o, claim) ==
    /\ claim.state \in DOMAIN Weakness
    /\ Weakness[claim.state] >= Allowed(o, claim.refs)
    /\ claim.state \in {"MISSING", "INVALID", "BLOCKED"} => claim.inference

\* The texts whose numbers and addresses count.
MaterialNames ==
    {"summary", "impact", "follow_up", "risks", "dependencies", "acceptance_criteria",
     "verification", "finding", "affected_scope", "action", "success_metric"}
MaterialPaths(o) == {path \in DOMAIN o.texts : path[1] \in MaterialNames}

ClaimsHold(o) ==
    /\ HasIds(o.claims)
    /\ IdsOf(o.claims) \cap (IdsOf(o.evidence) \cup IdsOf(o.findings)) = {}
    /\ \A i \in DOMAIN o.claims :
          LET claim == o.claims[i]
          IN  /\ IsLegacy(o) \/ claim.bound # <<>>
              /\ Distinct(claim.bound) /\ Range(claim.bound) \subseteq MaterialPaths(o)
              /\ RefsHold(o, claim.refs)
              /\ ClaimStateHolds(o, claim)

\* A token is in a statement as a part of its text.
States(claim, token) == \E said \in claim.says : token = said \/ <<token, said>> \in PartOf
MaterialHolds(o) ==
    ~IsLegacy(o) /\ o.state \in {"COMPLETE", "PARTIAL"} =>
        \A path \in MaterialPaths(o) : \A token \in o.texts[path] :
            \E i \in DOMAIN o.claims : path \in Range(o.claims[i].bound) /\ States(o.claims[i], token)

BindingHolds(o) ==
    ContractHolds(o) /\ EvidenceHolds(o) /\ FindingsHold(o) /\ ClaimsHold(o) /\ MaterialHolds(o)

\* The decision of a specialist and the state it maps to.
DecisionToExecution ==
    [READY |-> "COMPLETE", PARTIAL |-> "PARTIAL", BLOCKED |-> "BLOCKED",
     ABSTAIN |-> "PARTIAL", ESCALATE |-> "BLOCKED"]
SpecialistHolds(o) ==
    o.agent \in DecisionAgents =>
        /\ o.decision.state \in DOMAIN DecisionToExecution
        /\ LET decision == o.decision
               mapped == DecisionToExecution[decision.state]
           IN  /\ decision.mapped = mapped
               /\ o.state = mapped \/ (o.state = "SYNTHETIC" /\ decision.state = "PARTIAL")
               /\ decision.human = (decision.state = "ESCALATE")
               /\ decision.refs \subseteq IdsOf(o.evidence)
               /\ decision.state # "BLOCKED" => decision.refs # {}

\* StructuredOutputService._errors finds nothing.
OutputValid(o, expected, trusted) ==
    /\ o.parses /\ o.wellFormed /\ o.agent = expected
    /\ SpecialistHolds(o) /\ BindingHolds(o)
    /\ trusted \/ o.state # "SYNTHETIC"

-----------------------------------------------------------------------------
\* Outputs the runtime writes itself, with one item of evidence and no claim.
Written(agent, state, item, findings) ==
    [parses |-> TRUE, wellFormed |-> TRUE, agent |-> agent, version |-> "2.0.0",
     state |-> state, unverified |-> "absent",
     evidence |-> <<[id |-> item, source |-> item, state |-> "CURRENT"]>>,
     findings |-> findings, claims |-> <<>>, texts |-> (<<"summary", 0>> :> {}),
     decision |-> NoDecision]
OwnFinding(item) == <<[id |-> "own-finding", refs |-> <<item>>, grave |-> FALSE]>>
RoutingOutput == Written("scrum", "SYNTHETIC", "runtime-route", OwnFinding("runtime-route"))
FailureOutput(agent, state) == Written(agent, state, "runtime-validation", <<>>)
\* The offline provider repeats the request, and its numbers, without a claim.
EchoOutput(r) ==
    LET plain == Written(r.agent, "SYNTHETIC", "synthetic-runtime-context",
                         OwnFinding("synthetic-runtime-context"))
        decision == [state |-> "PARTIAL", mapped |-> "PARTIAL", human |-> FALSE,
                     refs |-> {"synthetic-runtime-context"}]
    IN  [plain EXCEPT !.texts = @ @@ (<<"finding", 0>> :> r.tokens),
                      !.decision = IF r.agent \in DecisionAgents THEN decision ELSE @]

\* The profile of the business: a declared one wins; else the scores must show two
\* strong profiles, or one with a lead of two.
ScoreOf(signs) == 3 * signs.strong + signs.supporting - 2 * signs.against
Strong(r) == {p \in DOMAIN r.signals : ScoreOf(r.signals[p]) >= 6}
ProfileConfirmed(r) ==
    \/ r.declared = "known"
    \/ Cardinality(Strong(r)) > 1
    \/ \E p \in Strong(r) : \A q \in DOMAIN r.signals \ {p} :
           ScoreOf(r.signals[p]) - ScoreOf(r.signals[q]) >= 2

\* What an agent is given: its files, one definition of each skill that they do not
\* hold, one section of each procedure and, for a specialist, one playbook.
BundleResolves(r) == r.registered /\ r.files
SkillsDefined(r) == \A skill \in r.skills : skill.grouped \/ skill.definitions <= 1
ProceduresResolve(r) == r.procedures <= 1
PlaybookResolves(r) == r.agent \in DecisionAgents => r.playbooks = 1
ContextLoads(r) ==
    BundleResolves(r) /\ SkillsDefined(r) /\ PlaybookResolves(r) /\ ProceduresResolve(r)

\* A session with open risks, or with a grave finding, goes to the Scrummaster.
Escalates(r, risks, output) ==
    r.agent # "scrum" /\ (risks # {} \/ \E i \in DOMAIN output.findings : output.findings[i].grave)

-----------------------------------------------------------------------------
EmptyDesk == [risks |-> {}, outputs |-> <<>>, handoffs |-> {}]
AgentInit ==
    /\ request \in Requests
    /\ agentStage = "new"
    /\ desk = EmptyDesk
    /\ exchange = [attempts |-> 0, reply |-> NoReply]
    /\ transcript = <<>>
    /\ endorsed = {}

\* start_session: a profile that does not exist raises; a weak one and a missing
\* domain are risks of the session.
StartSession ==
    /\ agentStage = "new" /\ request.kind \in {"session", "stream"}
    /\ IF request.declared = "unsupported" THEN agentStage' = "raised" /\ UNCHANGED desk
       ELSE /\ agentStage' = "started"
            /\ desk' = [desk EXCEPT !.risks =
                  {risk \in {"profile", "domain"} :
                      IF risk = "profile" THEN request.signalled /\ ~ProfileConfirmed(request)
                      ELSE ~request.domain}]
    /\ UNCHANGED <<request, exchange, transcript, endorsed>>

\* A route that the caller brings is taken as it is; the router's own is an output.
RouteSession ==
    /\ agentStage = "started"
    /\ agentStage' = "routed"
    /\ desk' = IF request.routed THEN desk ELSE [desk EXCEPT !.outputs = Append(@, RoutingOutput)]
    /\ UNCHANGED <<request, exchange, transcript, endorsed>>

\* execute_agent: the context is loaded whole or the run ends before a word is said.
PromptAgent ==
    /\ agentStage = "routed" /\ request.kind = "session"
    /\ IF ContextLoads(request)
       THEN agentStage' = "prompted" /\ transcript' = Append(transcript, "agent_prompt")
       ELSE agentStage' = "raised" /\ UNCHANGED transcript
    /\ UNCHANGED <<request, desk, exchange, endorsed>>

\* The end of execute_agent and of execute.
Conclude(output, ok) ==
    /\ agentStage' = "done"
    /\ transcript' = Append(transcript, "agent_result")
    /\ desk' = [desk EXCEPT !.outputs = Append(@, output),
                            !.handoffs = IF Escalates(request, desk.risks, output) THEN {"scrum"} ELSE @]
    /\ endorsed' = IF ok THEN {[output |-> output, as |-> "agent"]} ELSE {}

\* The offline provider is not asked; its output is validated like any other.
AnswerOffline ==
    /\ agentStage = "prompted" /\ request.echo
    /\ LET output == EchoOutput(request)
       IN  IF OutputValid(output, request.agent, TRUE) THEN Conclude(output, TRUE)
           ELSE Conclude(FailureOutput(request.agent, "FAILED"), FALSE)
    /\ UNCHANGED <<request, exchange>>

AskModel ==
    /\ agentStage = "prompted" /\ ~request.echo
    /\ exchange.attempts < MaxCalls
    /\ agentStage' = "asking"
    /\ exchange' = [exchange EXCEPT !.attempts = @ + 1]
    /\ UNCHANGED <<request, desk, transcript, endorsed>>

\* The budget refuses: the calls are used up, or time or cost is.
BudgetRefuses ==
    /\ agentStage = "prompted" /\ ~request.echo
    /\ Conclude(FailureOutput(request.agent, "BLOCKED"), FALSE)
    /\ UNCHANGED <<request, exchange>>

\* One reply: accepted, answered by the list of its errors, or the last.
TakeReply ==
    /\ agentStage = "asking"
    /\ \E reply \in Answers \cup {NoReply} :
          /\ exchange' = [exchange EXCEPT !.reply = reply]
          /\ IF OutputValid(reply, request.agent, FALSE) THEN Conclude(reply, TRUE)
             ELSE IF exchange.attempts >= MaxAttempts
             THEN Conclude(FailureOutput(request.agent, "FAILED"), FALSE)
             ELSE agentStage' = "prompted" /\ UNCHANGED <<desk, transcript, endorsed>>
    /\ UNCHANGED request

\* The provider raises: nothing is recorded of the answer.
ModelRaises ==
    /\ agentStage = "asking"
    /\ agentStage' = "raised"
    /\ UNCHANGED <<request, desk, exchange, transcript, endorsed>>

\* stream: sensitive input is refused, and what streams is never an output.
StreamAnswer ==
    /\ agentStage = "routed" /\ request.kind = "stream"
    /\ agentStage' = IF request.sensitive \/ ~ContextLoads(request) THEN "raised" ELSE "streamed"
    /\ UNCHANGED <<request, desk, exchange, transcript, endorsed>>

-----------------------------------------------------------------------------
\* An unversioned output, asked to be read as legacy: every item gets a name, each
\* reference by a name that only one item has is rewritten, and everything becomes
\* partial and unverified.
LegacyNames == <<"legacy-evidence-1", "legacy-evidence-2">>
LegacyId(o, i) ==
    LET e == o.evidence[i]
    IN  IF e.id # "" THEN e.id ELSE IF e.source # "" THEN e.source ELSE LegacyNames[i]
NamesOf(o, i) ==
    LET source == o.evidence[i].source
    IN  {LegacyId(o, i)} \cup (IF source = "" THEN {} ELSE {source, BaseName[source]})
NamedBy(o, name) == {LegacyId(o, i) : i \in {j \in DOMAIN o.evidence : name \in NamesOf(o, j)}}
Rewritten(o, refs) ==
    [k \in DOMAIN refs |->
        IF Cardinality(NamedBy(o, refs[k])) = 1 THEN CHOOSE id \in NamedBy(o, refs[k]) : TRUE
        ELSE refs[k]]
NormalizeLegacy(o) ==
    [o EXCEPT !.version = "1.0.0", !.state = "PARTIAL", !.unverified = "set",
              !.evidence = [i \in DOMAIN o.evidence |->
                               [o.evidence[i] EXCEPT !.id = LegacyId(o, i), !.state = "UNVERIFIED"]],
              !.findings = [i \in DOMAIN o.findings |->
                               [o.findings[i] EXCEPT !.refs = Rewritten(o, o.findings[i].refs)]],
              !.claims = [i \in DOMAIN o.claims |->
                               [o.claims[i] EXCEPT !.refs = Rewritten(o, o.claims[i].refs), !.state = "PARTIAL"]]]

\* scripts/validate_evidence_binding.py on a file, with --legacy or without.
CheckFile ==
    /\ agentStage = "new" /\ request.kind = "file"
    /\ \E o \in Answers :
          LET read == IF request.legacy THEN NormalizeLegacy(o) ELSE o
              passes == (request.legacy => o.version = "none") /\ BindingHolds(read)
          IN  /\ exchange' = [exchange EXCEPT !.reply = o]
              /\ agentStage' = IF passes THEN "done" ELSE "raised"
              /\ endorsed' = IF passes THEN {[output |-> read, as |-> "file"]} ELSE {}
    /\ UNCHANGED <<request, desk, transcript>>

\* scripts/seo_pdf_report.py: a current output is validated or raises, anything else
\* is shown as legacy; the renderer writes, or the markup is kept as a page.
RenderReport ==
    /\ agentStage = "new" /\ request.kind = "report"
    /\ \E o \in Answers, renders \in BOOLEAN :
          LET current == o.version = "2.0.0"
              canonical == current /\ o.unverified # "set"
          IN  /\ exchange' = [exchange EXCEPT !.reply = o]
              /\ IF current => o.wellFormed /\ BindingHolds(o)
                 THEN /\ agentStage' = IF renders THEN "pdf" ELSE "html"
                      /\ endorsed' = IF canonical THEN {[output |-> o, as |-> "report"]} ELSE {}
                 ELSE agentStage' = "raised" /\ UNCHANGED endorsed
    /\ UNCHANGED <<request, desk, transcript>>

AgentNext ==
    \/ StartSession \/ RouteSession \/ PromptAgent \/ AnswerOffline \/ AskModel
    \/ BudgetRefuses \/ TakeReply \/ ModelRaises \/ StreamAnswer \/ CheckFile \/ RenderReport
AgentSpec == AgentInit /\ [][AgentNext]_agentVars

-----------------------------------------------------------------------------
\* The items that stand behind one reference.
Behind(o, ref) == {i \in DOMAIN o.evidence : o.evidence[i].id = ref}
SafeFor ==
    [AVAILABLE |-> {"CURRENT"}, PARTIAL |-> {"CURRENT", "UNVERIFIED"},
     STALE |-> {"CURRENT", "UNVERIFIED", "STALE"}]

\* A claim made as fact names single items, none weaker than it says.
ClaimSupported(o, claim) ==
    \A ref \in Range(claim.refs) : \E i \in DOMAIN o.evidence :
        /\ Behind(o, ref) = {i}
        /\ claim.inference \/ o.evidence[i].state \in SafeFor[claim.state]

\* What was accepted from a model, a file or for a report as canonical is grounded:
\* each number or address in a text that a reader acts on is said by a claim about
\* that text whose facts rest on single items of the same output no weaker than it
\* says; it is the last reply to the agent that was asked, a specialist's COMPLETE
\* is READY, synthetic only offline, and legacy partial, unverified and still about
\* the sources it named (structured_output.py:199, evidence_binding.py:336).
AcceptedIsGrounded ==
    \A accepted \in endorsed :
        LET o == accepted.output
            wholly == o.version = "2.0.0" /\ o.state \in {"COMPLETE", "PARTIAL"}
        IN  /\ \A i \in DOMAIN o.claims : ClaimSupported(o, o.claims[i])
            /\ \A i \in DOMAIN o.findings : \A ref \in Range(o.findings[i].refs) :
                  Cardinality(Behind(o, ref)) = 1
            /\ wholly => \A path \in MaterialPaths(o) : \A token \in o.texts[path] :
                  \E i \in DOMAIN o.claims : /\ path \in Range(o.claims[i].bound)
                                             /\ o.claims[i].refs # <<>>
                                             /\ States(o.claims[i], token)
            /\ accepted.as = "agent" =>
                  /\ o.agent = request.agent
                  /\ IF request.echo THEN o.state = "SYNTHETIC"
                     ELSE o = exchange.reply /\ o.state # "SYNTHETIC"
                  /\ o.agent \in DecisionAgents => (o.state = "COMPLETE") = (o.decision.state = "READY")
            /\ o.version = "1.0.0" =>
                  /\ o.state = "PARTIAL"
                  /\ \A i \in DOMAIN o.evidence : o.evidence[i].state = "UNVERIFIED"
            /\ accepted.as = "file" /\ request.legacy =>
                  \A i \in DOMAIN o.findings : \A k \in DOMAIN o.findings[i].refs :
                      LET cited == exchange.reply.findings[i].refs[k]
                          item == CHOOSE j \in DOMAIN o.evidence : o.evidence[j].id = o.findings[i].refs[k]
                      IN  cited \in NamesOf(exchange.reply, item)
=============================================================================
