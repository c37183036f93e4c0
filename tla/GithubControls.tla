--------------------------- MODULE GithubControls ---------------------------
(***************************************************************************)
(* What reads and writes the repository's controls at GitHub: the capture  *)
(* of capture_github_controls.py, alone in CI or behind the rollback of    *)
(* plan_github_controls_rollback.py.  Each call reads or writes a part of  *)
(* the controls at its own time, others change them in between, and a call *)
(* may fail before or after it has had its effect.  The rules of the       *)
(* ruleset are one value; the bypass actors are another.                   *)
(***************************************************************************)
EXTENDS Naturals, Sequences, FiniteSets, SequencesExt

CONSTANTS
  Issues,       \* the issues in the registry, in ascending order
  Transitional, \* REMEDIATION_TRANSITION_ISSUES
  Baseline,     \* phase1-provider-baseline.json
  Contract,     \* github-controls.json
  MaxMeddling   \* bound: changes by others

\* In the order of build_plan.
Settings == <<"reporting", "discussions", "alerts", "updates", "scanning", "push", "ruleset">>
Owned == {"reporting", "alerts", "updates", "scanning", "push"}
Restored == Range(Settings) \cup {"branch", "bypass"}

IssueFields == Range(Issues)
Controls == Restored \cup {"reviewers", "pull"} \cup IssueFields

Values(f) ==
  IF f \in IssueFields THEN {"OPEN", "CLOSED", "UNFIT"}  \* unassigned, locked or renamed
  ELSE CASE f = "pull" -> {"OPEN", "MERGED", "ABANDONED"}
         [] f = "ruleset" -> {"baseline", "contract", "other"}
         [] f = "bypass" -> {0, 1}
         [] f = "branch" -> {"main", "other"}
         [] OTHER -> BOOLEAN

ASSUME ControlsAssumption ==
  /\ Issues \in Seq(Range(Issues))
  /\ Transitional \subseteq Range(Issues) /\ MaxMeddling \in Nat
  /\ DOMAIN Baseline = Restored /\ DOMAIN Contract = Restored
  /\ \A f \in Restored : {Baseline[f], Contract[f]} \subseteq Values(f)
  \* apply_plan writes no bypass actor.
  /\ Baseline.bypass = 0

VARIABLES
  provider,  \* the controls at GitHub
  evidence,  \* phase1-provider-evidence.json: the settings as once captured
  procedure, \* "rollback" or "certify"
  privileged, \* the token sees the bypass actors
  controlPc, \* "apply", "capture" or "done"
  applied,   \* applied_settings
  captured,  \* what the capture has read
  result,
  altered,   \* history: settings the rollback has changed at GitHub
  touched,   \* history: what others have changed since the capture began
  meddling   \* history: changes by others, failures of calls

controlVars == <<provider, evidence, procedure, privileged, controlPc, applied, captured,
                 result, altered, touched, meddling>>

ControlsInit ==
  /\ provider = [f \in Controls |-> IF f \in Restored THEN Contract[f]
                                    ELSE IF f = "pull" THEN "MERGED"
                                    ELSE IF f = "reviewers" THEN FALSE ELSE "CLOSED"]
  /\ \E stale \in {Contract} \cup {[Contract EXCEPT ![f] = Baseline[f]] : f \in Restored} :
       evidence = stale
  /\ procedure \in {"rollback", "certify"}
  /\ privileged \in BOOLEAN
  /\ controlPc = IF procedure = "rollback" THEN "apply" ELSE "capture"
  /\ applied = <<>> /\ captured = <<>> /\ result = "none"
  /\ altered = {} /\ touched = {} /\ meddling = [others |-> 0, failed |-> FALSE]

-----------------------------------------------------------------------------
(* The rollback. *)

\* build_plan: the settings in which the evidence differs from the baseline; the
\* normalized ruleset holds the number of bypass actors.
Differs(s) ==
  \/ evidence[s] # Baseline[s]
  \/ s = "ruleset" /\ evidence["bypass"] # Baseline["bypass"]

Change(s) == IF Differs(s) THEN <<s>> ELSE <<>>

Plan ==
  Change("reporting") \o Change("discussions") \o Change("alerts") \o Change("updates")
    \o Change("scanning") \o Change("push") \o Change("ruleset")

Written(s) == IF s = "ruleset" THEN {"ruleset", "bypass"} ELSE {s}

Restore(s) ==
  /\ provider' = [f \in Controls |-> IF f \in Written(s) THEN Baseline[f] ELSE provider[f]]
  /\ altered' = altered \cup {s}

Ends(r) == controlPc' = "done" /\ result' = r

Apply ==
  /\ controlPc = "apply" /\ Len(applied) < Len(Plan)
  /\ LET s == Plan[Len(applied) + 1]
     IN  Restore(s) /\ applied' = Append(applied, s)
  /\ UNCHANGED <<evidence, procedure, privileged, controlPc, captured, result, touched, meddling>>

\* The call is refused, or its answer is lost.
ApplyFails ==
  /\ controlPc = "apply" /\ Len(applied) < Len(Plan)
  /\ Restore(Plan[Len(applied) + 1]) \/ UNCHANGED <<provider, altered>>
  /\ Ends("FAIL_PARTIAL_APPLICATION")
  /\ meddling' = [meddling EXCEPT !.failed = TRUE]
  /\ UNCHANGED <<evidence, procedure, privileged, applied, captured, touched>>

BeginCapture ==
  /\ controlPc = "apply" /\ Len(applied) = Len(Plan)
  /\ controlPc' = "capture"
  /\ UNCHANGED <<provider, evidence, procedure, privileged, applied, captured, result, altered, touched, meddling>>

-----------------------------------------------------------------------------
(* capture. *)

Live == procedure = "rollback"

\* The calls in their order, each the set of the controls it answers with.
Endpoints ==
  << IF Live THEN {"branch", "discussions", "updates", "scanning", "push"}
             ELSE {"branch", "discussions"} >>
  \o (IF Live THEN <<{"reporting"}, {"alerts"}>> ELSE <<>>)
  \o << IF privileged THEN {"ruleset", "bypass"} ELSE {"ruleset"}, {"reviewers"} >>
  \o [i \in DOMAIN Issues |-> {Issues[i]}]
  \o << {"pull"} >>

CallsMade == Cardinality({i \in DOMAIN Endpoints : Endpoints[i] \subseteq DOMAIN captured})

\* GitHub answers 404 where vulnerability alerts are off, and gh fails.
Answers(fields) == "alerts" \in fields => provider["alerts"]

\* _normalized_ruleset has nobody to ask about the bypass actors.
Complete(fields) == "ruleset" \in fields => privileged \/ ~Live

CaptureCall ==
  /\ controlPc = "capture" /\ CallsMade < Len(Endpoints)
  /\ LET fields == Endpoints[CallsMade + 1]
     IN  /\ Answers(fields) /\ Complete(fields)
         /\ captured' = [f \in DOMAIN captured \cup fields |->
                          IF f \in DOMAIN captured THEN captured[f] ELSE provider[f]]
  /\ UNCHANGED <<provider, evidence, procedure, privileged, controlPc, applied, result, altered, touched, meddling>>

CaptureRaises == Ends(IF Live THEN "FAIL_POST_RESTORE_CAPTURE" ELSE "RAISED")

CaptureRefused ==
  /\ controlPc = "capture" /\ CallsMade < Len(Endpoints)
  /\ LET fields == Endpoints[CallsMade + 1] IN ~(Answers(fields) /\ Complete(fields))
  /\ CaptureRaises
  /\ UNCHANGED <<provider, evidence, procedure, privileged, applied, captured, altered, touched, meddling>>

CaptureFails ==
  /\ controlPc = "capture"
  /\ CaptureRaises
  /\ meddling' = [meddling EXCEPT !.failed = TRUE]
  /\ UNCHANGED <<provider, evidence, procedure, privileged, applied, captured, altered, touched>>

\* What the token cannot see is taken from the owner's evidence.
Composed == [f \in DOMAIN captured \cup DOMAIN evidence |->
               IF f \in DOMAIN captured THEN captured[f] ELSE evidence[f]]

\* restored_state_errors of a capture that is live, authenticated and fresh.
\* Mutation: only what was planned is compared.
PlannedMatch(observed) == \A i \in DOMAIN Plan : \A f \in Written(Plan[i]) : observed[f] = Baseline[f]

MatchesBaseline(observed) == \A f \in Restored : observed[f] = Baseline[f]

\* _row_errors: an issue that is to be closed may be open while the pull request is.
IssueFits(n, observed) ==
  \/ observed[n] = "CLOSED"
  \/ observed[n] = "OPEN" /\ n \in Transitional /\ observed["pull"] = "OPEN"

OwnerEvidenceFits == \A f \in Owned \cup {"bypass"} : evidence[f] = Contract[f]

\* provider_state_errors and _owner_evidence_errors.
MatchesContract(observed) ==
  /\ \A f \in Restored : observed[f] = Contract[f]
  /\ ~observed["reviewers"]
  /\ \A n \in Range(Issues) : IssueFits(n, observed)
  /\ observed["pull"] \in {"OPEN", "MERGED"}
  /\ OwnerEvidenceFits

Judge ==
  /\ controlPc = "capture" /\ CallsMade = Len(Endpoints)
  /\ Ends(IF Live
            THEN IF MatchesBaseline(Composed) THEN "PASS" ELSE "FAIL_POST_RESTORE_MISMATCH"
            ELSE IF MatchesContract(Composed) THEN "PASS" ELSE "FAIL")
  /\ UNCHANGED <<provider, evidence, procedure, privileged, applied, captured, altered, touched, meddling>>

-----------------------------------------------------------------------------
\* Other administrators, a merge, or a comment that closes an issue.
Meddle ==
  /\ controlPc # "done" /\ meddling.others < MaxMeddling
  /\ \E f \in Controls : \E v \in Values(f) \ {provider[f]} :
       /\ provider' = [provider EXCEPT ![f] = v]
       /\ touched' = IF controlPc = "capture" THEN touched \cup {f} ELSE touched
  /\ meddling' = [meddling EXCEPT !.others = @ + 1]
  /\ UNCHANGED <<evidence, procedure, privileged, controlPc, applied, captured, result, altered>>

ControlsNext ==
  \/ Apply \/ ApplyFails \/ BeginCapture
  \/ CaptureCall \/ CaptureRefused \/ CaptureFails \/ Judge
  \/ Meddle

ControlsSpec == ControlsInit /\ [][ControlsNext]_controlVars

-----------------------------------------------------------------------------
ControlsTypeOK ==
  /\ DOMAIN provider = Controls /\ \A f \in Controls : provider[f] \in Values(f)
  /\ DOMAIN evidence = Restored
  /\ procedure \in {"rollback", "certify"} /\ privileged \in BOOLEAN
  /\ controlPc \in {"apply", "capture", "done"}
  /\ IsPrefix(applied, Plan) /\ DOMAIN captured \subseteq Controls
  /\ altered \subseteq Range(Settings) /\ touched \subseteq Controls

LiveFields == IF Live THEN Restored ELSE {"branch", "discussions", "ruleset"}

\* A report that says PASS is true of everything it has looked at and nobody has
\* changed since the capture began, whatever was changed between the plan and the
\* capture and however old the evidence was that the plan was made from; and a
\* receipt names every setting the rollback has changed, but for the one whose
\* call failed (capture_github_controls.py:242-342,
\* plan_github_controls_rollback.py:101-253).
ReceiptIsTruthful ==
  /\ result = "PASS" =>
       /\ \A f \in LiveFields \ touched : provider[f] = IF Live THEN Baseline[f] ELSE Contract[f]
       /\ ~Live =>
            /\ "reviewers" \notin touched => ~provider["reviewers"]
            /\ \A n \in Range(Issues) : {n, "pull"} \cap touched = {} => IssueFits(n, provider)
       /\ Live => applied = Plan
  /\ altered \subseteq {Plan[i] : i \in 1..Len(applied)}
                         \cup {Plan[i] : i \in (DOMAIN Plan) \cap {Len(applied) + 1}}

Undisturbed == meddling = [others |-> 0, failed |-> FALSE]

\* A rollback that was planned from what is true, that nobody disturbs and whose
\* calls all succeed verifies what it has restored
\* (tests/test_github_controls_rollback.py:155-174).
UndisturbedRollbackPasses ==
  controlPc = "done" /\ Live /\ privileged /\ evidence = Contract /\ Undisturbed
    => result = "PASS"
=============================================================================
