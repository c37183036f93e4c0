---------------------------- MODULE MCGovernance ----------------------------
(***************************************************************************)
(* What a commit must pass before it counts: the workflow that certifies a *)
(* head, the ratchet on its quality and the two programs whose phases it   *)
(* closes, and the registry of what was verified live.  They share no state *)
(* here, so a behaviour runs one of them while the others rest.            *)
(***************************************************************************)
EXTENDS RemediationProgram, ExpansionProgram, Certification, QualityRatchet, Capabilities, TLC

VARIABLE active     \* the component of this behaviour

governanceVars == <<active, remediationVars, expansionVars, certificationVars, ratchetVars, certVars>>

RestModel == CHOOSE m \in ApprovalModels : TRUE
RestTrunk == <<[tree |-> CHOOSE t \in Consistent : TRUE, touched |-> TRUE, green |-> TRUE]>>

\* One reviewer of two roles is replaced; the two registries are alike.
Registry(scrum) == [role \in Roles |-> IF role = "VP_ENGINEERING" THEN "vp" ELSE scrum]
TwoRegistries == {Registry("first"), Registry("second")}

GovernanceInit ==
    /\ active \in {"remediation", "expansion", "certification", "ratchet", "capabilities"}
    /\ RemediationInit
    /\ Files(head).registry = Registry("first")
    /\ ExpansionInit
    /\ active # "expansion" => Plan(1).model = RestModel
    /\ CertificationInit
    /\ active # "certification" => edit = NoEdit /\ origin = "push"
    /\ RatchetInit
    /\ active # "ratchet" => trunk = RestTrunk
    /\ CertInit

RemediationTurn ==
    /\ active = "remediation" /\ RemediationNext
    /\ UNCHANGED <<active, expansionVars, certificationVars, ratchetVars, certVars>>
ExpansionTurn ==
    /\ active = "expansion" /\ ExpansionNext
    /\ UNCHANGED <<active, remediationVars, certificationVars, ratchetVars, certVars>>
CertificationTurn ==
    /\ active = "certification" /\ CertificationNext
    /\ UNCHANGED <<active, remediationVars, expansionVars, ratchetVars, certVars>>
RatchetTurn ==
    /\ active = "ratchet" /\ RatchetNext
    /\ UNCHANGED <<active, remediationVars, expansionVars, certificationVars, certVars>>
CapabilityTurn ==
    /\ active = "capabilities" /\ CertNext
    /\ UNCHANGED <<active, remediationVars, expansionVars, certificationVars, ratchetVars>>
GovernanceNext == RemediationTurn \/ ExpansionTurn \/ CertificationTurn \/ RatchetTurn \/ CapabilityTurn
GovernanceSpec == GovernanceInit /\ [][GovernanceNext]_governanceVars

-----------------------------------------------------------------------------
\* Capabilities: a profile that reads and one that writes for money, over one
\* client; the second contract allows receipts to live longer, the second
\* registry gives a command away.
CertProfile(id, capabilities, writes) ==
    [id |-> id, version |-> 1, capabilities |-> capabilities, relevant |-> {"contract", "client"},
     writes |-> writes, needsWrite |-> writes, needsCost |-> writes]
AllContracts ==
    [t \in 0..2 |-> [profiles |-> IF t = 0 THEN <<>>
                                  ELSE <<CertProfile("search", {"gsc"}, FALSE),
                                         CertProfile("submit", {"indexnow"}, TRUE)>>,
                     maxAge |-> t]]
AllRegistries ==
    LET spec(network, skills) == [network |-> network, owner |-> "lead", skills |-> skills]
        specs == ("gsc" :> spec("live_required", {"read"})) @@ ("indexnow" :> spec("live_required", {"read", "write"}))
                 @@ ("plan" :> spec("none", {"write"}))
    IN  [t \in 0..2 |->
           [specs |-> IF t = 0 THEN [c \in {} |-> 0] ELSE IF t = 1 THEN specs ELSE [specs EXCEPT !["plan"].owner = "support"],
            agents |-> [a \in {"lead", "support"} |-> IF a = "lead" THEN {"gsc", "plan"} ELSE {}],
            additions |-> [a \in {"lead", "support"} |-> IF a = "lead" THEN {"indexnow"} ELSE IF t = 2 THEN {"plan"} ELSE {}]]]
AgentRows == [a \in {"lead", "support"} |-> [skills |-> {"read"}, overlay |-> IF a = "lead" THEN {"write"} ELSE {"talk"}]]
ContractTexts == AllContracts
CommandTexts == AllRegistries
=============================================================================
