---------------------------- MODULE Certification ----------------------------
(***************************************************************************)
(* The workflow that certifies a head: .github/workflows/validate.yml, the *)
(* proof that runs before each of its steps                                *)
(* (scripts/validate_source_integrity.py), the rehearsals that replace the *)
(* sources, and the check by which the workflow vouches for its own text   *)
(* (scripts/workflow_quality_contract.py).  The head under certification   *)
(* may edit the workflow in one place; a step may fail, be cancelled or    *)
(* leave something in its checkout.                                        *)
(*                                                                         *)
(* Each job has a machine and a checkout of its own; they share results    *)
(* and one artifact, so they are run one after the other.  A job that      *)
(* fails has failed whatever its later steps and its other legs do.        *)
(***************************************************************************)
EXTENDS Naturals, Sequences, FiniteSets, SequencesExt, TLC

CONSTANTS
  MatrixLegs,   \* legs of a job with a matrix
  MaxAttempts,  \* bound: runs of the workflow, the first included
  MaxTrouble    \* bound: edits, failures and leavings

ASSUME CertificationAssumption ==
  MatrixLegs \in Nat \ {0} /\ MaxAttempts \in Nat \ {0} /\ MaxTrouble \in Nat

-----------------------------------------------------------------------------
\* A step: its name and what it is about, how the workflow treats its outcome,
\* and whether its command is its own or one that does nothing and succeeds.
CiStep(name, about, kind) == [name |-> name, about |-> about, kind |-> kind, command |-> "own"]
Must(name) == CiStep(name, "none", "must")
Soft(name) == CiStep(name, "none", "continue-on-error")
Enforce(name) == CiStep("enforce", name, "if-failed")
Always(name) == CiStep(name, "none", "always")
Succeeded(j) == CiStep("succeeded", j, "must")

SourceGate == Must("prove_source")
RestoredGate == Must("prove_restored")
Behind(gate, steps) == [k \in 1..(2 * Len(steps)) |-> IF k % 2 = 1 THEN gate ELSE steps[k \div 2]]

MatrixChecks == Behind(SourceGate, <<Must("install"), Must("ratchets"), Soft("governance")>>)
MatrixTests ==
  Behind(SourceGate, <<Always("upload_governance"), Enforce("governance"),
                       Soft("pytest"), Must("upload_pytest"), Enforce("pytest")>>)
ProviderChecks ==
  Behind(SourceGate, <<Must("receipts"), CiStep("controls", "none", "own_branch"), CiStep("reject", "none", "fork")>>)
  \o <<SourceGate>>
ValidateChecks == <<Succeeded("validation_matrix"), Succeeded("provider_authentication")>>
QualityChecks == Behind(SourceGate, <<Must("install"), Must("ratchets"), Must("coverage"), Must("risk")>>)
QualityRelease == Behind(SourceGate, <<Must("audit"), Must("build"), Always("upload_dist")>>)
WheelChecks == Behind(SourceGate, <<Must("download_dist"), Must("verify_wheel")>>)
RehearseSteps == Behind(SourceGate, <<Must("preserve"), Must("rehearse")>>)
RestoredSteps ==
  Behind(RestoredGate, <<Must("install"), Must("historical"), Must("regression"), Must("seal"), Must("upload_receipt")>>)

\* In an order in which no job comes before one it needs.
JobOrder == <<"validation_matrix", "provider_authentication", "validate", "quality_security_release",
              "clean_wheel_install", "phase0_rollback", "phase_rollback", "certification_status">>
CiJobs == Range(JobOrder)
Rollbacks == {"phase0_rollback", "phase_rollback"}

Needs(j) ==
  CASE j \in {"validation_matrix", "provider_authentication"} -> {}
    [] j = "validate" -> {"validation_matrix", "provider_authentication"}
    [] j = "clean_wheel_install" -> {"quality_security_release"}
    [] j = "certification_status" -> CiJobs \ {"certification_status"}
    [] OTHER -> {"validate"}
CertificationChecks == [i \in 1..Len(JobOrder) - 1 |-> Succeeded(JobOrder[i])]
Unconditional == {"validate", "certification_status"}   \* if: always()
Legs(j) == IF j \in {"validation_matrix", "clean_wheel_install"} THEN MatrixLegs ELSE 1

ApprovedJobs ==
  [j \in CiJobs |->
    CASE j = "validation_matrix" -> MatrixChecks \o MatrixTests
      [] j = "provider_authentication" -> ProviderChecks
      [] j = "validate" -> ValidateChecks
      [] j = "quality_security_release" -> QualityChecks \o QualityRelease
      [] j = "clean_wheel_install" -> WheelChecks
      [] j \in Rollbacks -> RehearseSteps \o RestoredSteps
      [] j = "certification_status" -> CertificationChecks]

\* One edit of the workflow: a step left out, its command emptied, its failure
\* forgiven, a step put before it, or a job's condition taken away.
NoEdit == [change |-> "none", job |-> "none", place |-> 0]
Edits ==
  {NoEdit}
  \cup {[change |-> c, job |-> j, place |-> i] :
          c \in {"drop", "empty", "forgive", "insert"}, j \in CiJobs, i \in 1..16}
  \cup {[change |-> "conditional", job |-> j, place |-> 0] : j \in Unconditional}
PossibleEdits == {e \in Edits : e.place = 0 \/ e.place \in 1..Len(ApprovedJobs[e.job])}

Edited(steps, e) ==
  CASE e.change = "drop" -> RemoveAt(steps, e.place)
    [] e.change = "empty" -> [steps EXCEPT ![e.place].command = "nothing"]
    [] e.change = "forgive" -> [steps EXCEPT ![e.place].kind = "continue-on-error"]
    [] e.change = "insert" -> InsertAt(steps, e.place, Must("inserted"))
    [] OTHER -> steps
Workflow(e) == [j \in CiJobs |-> IF j = e.job THEN Edited(ApprovedJobs[j], e) ELSE ApprovedJobs[j]]

-----------------------------------------------------------------------------
\* workflow_quality_contract.py.  The finite contract fixes every step's name and
\* treatment and the commands of some; a gate counts only as it is written.
ProofSteps == {SourceGate, RestoredGate}
CheckoutJobs == CiJobs \ {"validate", "certification_status"}
BoundCommand(step) ==
  step.name \in {"succeeded", "prove_restored", "preserve", "rehearse", "historical", "seal", "pytest", "coverage",
                 "audit", "upload_governance", "upload_pytest", "upload_dist", "download_dist", "upload_receipt"}
Projection(steps) ==
  [i \in 1..Len(steps) |-> <<steps[i].name, steps[i].about, steps[i].kind,
                             IF BoundCommand(steps[i]) THEN steps[i].command ELSE "any">>]
FiniteContractErrors(e) ==
  e.change = "conditional" \/ \E j \in CiJobs : Projection(Workflow(e)[j]) # Projection(ApprovedJobs[j])

ReplacesSource(j, step) == j \in Rollbacks /\ step = Must("rehearse")
\* Mutation: a step that has the name of a proof counts as one.
NamedSourceErrors(j, steps) ==
  ~ \A i \in 1..Len(steps) :
    LET replaced == \E k \in 1..(i - 1) : ReplacesSource(j, steps[k])
        proof == IF replaced THEN RestoredGate ELSE SourceGate
        isProof == steps[i].name \in {SourceGate.name, RestoredGate.name}
    IN  ~isProof => i > 1 /\ steps[i - 1].name = proof.name
OrderedSourceErrors(j, steps) ==
  ~ \A i \in 1..Len(steps) :
    LET replaced == \E k \in 1..(i - 1) : ReplacesSource(j, steps[k])
        proof == IF replaced THEN RestoredGate ELSE SourceGate
        isProof == steps[i] = SourceGate \/ (j \in Rollbacks /\ steps[i] = RestoredGate)
    IN  ~isProof => i > 1 /\ steps[i - 1] = proof
QualityStepErrors(steps) ==
  ~ \E i, k \in 1..Len(steps) : i < k /\ steps[i] = Must("coverage") /\ steps[k] = Must("risk")
WorkflowErrors(e) ==
  \/ FiniteContractErrors(e)
  \/ \E j \in CheckoutJobs : OrderedSourceErrors(j, Workflow(e)[j])
  \/ QualityStepErrors(Workflow(e)["quality_security_release"])
Rejected == {e \in PossibleEdits : WorkflowErrors(e)}

-----------------------------------------------------------------------------
\* validate_source_integrity.py over a checkout: its HEAD, in what its tracked
\* files differ from it, what lies beside them, the wheels in dist/, by what they
\* were built from, and the rollback's receipt.
Checkout == [head |-> "candidate", tracked |-> {}, untracked |-> {}, dist |-> {}, receipt |-> "none"]

Leavings == {"content", "hidden_content", "mode", "index", "commit",
             "module", "launcher", "package", "forged_cache", "compiled_cache", "data", "wheel"}
Left(c, what) ==
  CASE what \in {"content", "mode", "index"} -> [c EXCEPT !.tracked = @ \cup {what}]
    [] what = "hidden_content" -> [c EXCEPT !.tracked = @ \cup {"content", "flag"}]
    [] what = "commit" -> [c EXCEPT !.head = "other"]
    [] what = "wheel" -> [c EXCEPT !.dist = @ \cup {"stray"}]
    [] OTHER -> [c EXCEPT !.untracked = @ \cup {what}]

\* git diff and git status take a flagged file for unchanged; its hash does not.
TrackedContentErrors(c) == c.tracked \cap {"content", "mode", "index"} # {}
IndexFlagErrors(c) == "flag" \in c.tracked
ShadowErrors(c) == c.untracked \cap {"module", "launcher", "package"} # {}
CacheErrors(c) == "forged_cache" \in c.untracked
\* To the candidate's proof a wheel in dist/ is data like any other.
UntrackedErrors(c, mode) ==
  \/ ShadowErrors(c) \/ CacheErrors(c)
  \/ mode = "restored-baseline" /\ ("data" \in c.untracked \/ c.dist # {} \/ c.receipt = "none")
ProofPasses(c, expected, mode) ==
  /\ c.head = expected
  /\ ~TrackedContentErrors(c) /\ ~IndexFlagErrors(c)
  /\ ~UntrackedErrors(c, mode)

-----------------------------------------------------------------------------
VARIABLES
  edit,      \* the head's edit of the workflow
  origin,    \* "branch" of the repository, "fork" or "push"
  attempt,   \* runs of the workflow
  outcomes,  \* per job: "waiting", "success", "failure" or "skipped"
  running,   \* the job that runs, its leg and its step
  checkout,  \* of the job that runs
  forgiven,  \* its steps that failed under continue-on-error
  dist,      \* the uploaded wheels
  receipts,  \* the uploaded receipt of each rollback
  wheel,     \* history: the wheel that each leg has verified
  proven,    \* history: what has run and passed on the sources it is about
  trouble    \* history: edits, failures and leavings

certificationVars ==
  <<edit, origin, attempt, outcomes, running, checkout, forgiven, dist, receipts, wheel, proven, trouble>>

NoJob == [job |-> "none", leg |-> 0, at |-> 0]

CertificationInit ==
  /\ edit \in PossibleEdits
  /\ origin \in {"branch", "fork", "push"}
  /\ attempt = 1
  /\ outcomes = [j \in CiJobs |-> "waiting"]
  /\ running = NoJob /\ checkout = Checkout /\ forgiven = {}
  /\ dist = {} /\ receipts = [j \in Rollbacks |-> "none"]
  /\ wheel = [leg \in 1..MatrixLegs |-> "none"] /\ proven = {}
  /\ trouble = IF edit = NoEdit THEN 0 ELSE 1

\* A job whose needs did not all succeed is skipped, unless it always runs.
Unhindered(j) ==
  \/ \A n \in Needs(j) : outcomes[n] = "success"
  \/ j \in Unconditional /\ ~(edit.change = "conditional" /\ edit.job = j)

BeginJob ==
  /\ running = NoJob
  /\ \E i \in 1..Len(JobOrder) :
       /\ outcomes[JobOrder[i]] = "waiting"
       /\ \A k \in 1..(i - 1) : outcomes[JobOrder[k]] # "waiting"
       /\ IF Unhindered(JobOrder[i])
          THEN running' = [job |-> JobOrder[i], leg |-> 1, at |-> 1] /\ UNCHANGED outcomes
          ELSE outcomes' = [outcomes EXCEPT ![JobOrder[i]] = "skipped"] /\ UNCHANGED running
  /\ checkout' = Checkout /\ forgiven' = {}
  /\ UNCHANGED <<edit, origin, attempt, dist, receipts, wheel, proven, trouble>>

JobSteps == Workflow(edit)[running.job]
AtStep == running # NoJob /\ running.at <= Len(JobSteps)
CurrentStep == JobSteps[running.at]

EndLeg ==
  /\ running # NoJob /\ running.at > Len(JobSteps)
  /\ IF running.leg < Legs(running.job)
     THEN running' = [running EXCEPT !.leg = @ + 1, !.at = 1] /\ UNCHANGED outcomes
     ELSE running' = NoJob /\ outcomes' = [outcomes EXCEPT ![running.job] = "success"]
  /\ checkout' = Checkout /\ forgiven' = {}
  /\ UNCHANGED <<edit, origin, attempt, dist, receipts, wheel, proven, trouble>>

Applies(step) ==
  CASE step.kind = "own_branch" -> origin # "fork"
    [] step.kind = "fork" -> origin = "fork"
    [] step.kind = "if-failed" -> step.about \in forgiven
    [] OTHER -> TRUE

\* The outcomes that are not the command's own affair.
CannotPass(step) ==
  /\ step.command = "own"
  /\ CASE step.name = "prove_source" -> ~ProofPasses(checkout, "candidate", "candidate")
       [] step.name = "prove_restored" -> ~ProofPasses(checkout, "baseline", "restored-baseline")
       [] step.name = "ratchets" -> edit \in Rejected
       [] step.name \in {"enforce", "reject"} -> TRUE
       [] step.name = "succeeded" -> outcomes[step.about] # "success"
       [] step.name = "verify_wheel" -> checkout.dist = {}
       [] step.name = "upload_receipt" -> checkout.receipt = "none"
       [] OTHER -> FALSE

\* What runs when a step of the job is run: the sources it is about, or not.
RestoredNames == {s.name : s \in Range(RestoredSteps)}
Genuine(step) ==
  /\ checkout.head = IF running.job \in Rollbacks /\ step.name \in RestoredNames THEN "baseline" ELSE "candidate"
  /\ checkout.tracked \cap {"content", "mode"} = {}
  /\ checkout.untracked \cap {"module", "launcher", "package", "forged_cache"} = {}

\* verify_phase0_rollback.py and rehearse_phase_rollback.py: the tree, the index
\* and HEAD become the baseline's, and a receipt says so.
Rehearsed == [checkout EXCEPT !.head = "baseline", !.receipt = "TREE_MATCH"]
\* The pattern of the Phase 0 job has no space after the colon; the receipt has.
SealedReceipt == IF running.job = "phase_rollback" THEN [checkout EXCEPT !.receipt = "PASS"] ELSE checkout

Performed(step) ==
  IF step.command = "nothing" THEN checkout
  ELSE CASE step.name = "rehearse" -> Rehearsed
         [] step.name = "seal" -> SealedReceipt
         [] step.name = "build" -> [checkout EXCEPT !.dist = @ \cup {IF Genuine(step) THEN "own" ELSE "foreign"}]
         [] step.name = "download_dist" -> [checkout EXCEPT !.dist = @ \cup dist]
         [] OTHER -> checkout

SkipStep ==
  /\ AtStep /\ ~Applies(CurrentStep)
  /\ running' = [running EXCEPT !.at = @ + 1]
  /\ UNCHANGED <<edit, origin, attempt, outcomes, checkout, forgiven, dist, receipts, wheel, proven, trouble>>

PassStep ==
  /\ AtStep /\ Applies(CurrentStep) /\ ~CannotPass(CurrentStep)
  /\ running' = [running EXCEPT !.at = @ + 1]
  /\ \/ checkout' = Performed(CurrentStep) /\ UNCHANGED trouble
     \/ /\ CurrentStep \notin ProofSteps /\ CurrentStep.name # "succeeded" /\ trouble < MaxTrouble
        /\ \E what \in Leavings : checkout' = Left(Performed(CurrentStep), what)
        /\ trouble' = trouble + 1
  /\ dist' = IF CurrentStep.name = "upload_dist" /\ CurrentStep.command = "own" THEN checkout.dist ELSE dist
  /\ IF CurrentStep.name = "verify_wheel" /\ CurrentStep.command = "own"
     THEN \E w \in checkout.dist : wheel' = [wheel EXCEPT ![running.leg] = w]
     ELSE UNCHANGED wheel
  /\ receipts' = IF CurrentStep.name = "upload_receipt" THEN [receipts EXCEPT ![running.job] = checkout.receipt] ELSE receipts
  /\ proven' = IF CurrentStep.command = "own" /\ Genuine(CurrentStep) /\ CurrentStep.name \notin {"prove_source", "prove_restored", "succeeded"}
               THEN proven \cup {<<running.job, running.leg, CurrentStep.name>>} ELSE proven
  /\ UNCHANGED <<edit, origin, attempt, outcomes, forgiven>>

FailStep ==
  /\ AtStep /\ Applies(CurrentStep)
  /\ \/ CannotPass(CurrentStep) /\ UNCHANGED trouble
     \/ /\ ~CannotPass(CurrentStep) /\ CurrentStep.command = "own" /\ CurrentStep.name # "succeeded"
        /\ trouble < MaxTrouble /\ trouble' = trouble + 1
  /\ IF CurrentStep.kind = "continue-on-error"
     THEN /\ running' = [running EXCEPT !.at = @ + 1]
          /\ forgiven' = forgiven \cup {CurrentStep.name}
          /\ UNCHANGED <<outcomes, checkout>>
     ELSE /\ running' = NoJob /\ checkout' = Checkout /\ forgiven' = {}
          /\ outcomes' = [outcomes EXCEPT ![running.job] = "failure"]
  /\ UNCHANGED <<edit, origin, attempt, dist, receipts, wheel, proven>>

\* The jobs that did not succeed are run again.
Rerun ==
  /\ attempt < MaxAttempts /\ \A j \in CiJobs : outcomes[j] # "waiting"
  /\ running = NoJob
  /\ LET again == {j \in CiJobs : outcomes[j] # "success"}
     IN  /\ again # {}
         /\ outcomes' = [j \in CiJobs |-> IF j \in again THEN "waiting" ELSE outcomes[j]]
         /\ proven' = {p \in proven : p[1] \notin again}
  /\ attempt' = attempt + 1
  /\ UNCHANGED <<edit, origin, running, checkout, forgiven, dist, receipts, wheel, trouble>>

CertificationNext == BeginJob \/ EndLeg \/ SkipStep \/ PassStep \/ FailStep \/ Rerun
CertificationSpec == CertificationInit /\ [][CertificationNext]_certificationVars

-----------------------------------------------------------------------------
\* The commands an edit has emptied unnoticed: the contract does not bind them.
Emptied ==
  IF edit.change # "empty" THEN {}
  ELSE LET step == ApprovedJobs[edit.job][edit.place]
       IN  IF BoundCommand(step) THEN {} ELSE {<<edit.job, step.name>>, <<edit.job, step.about>>}

Vouched(j) ==
  {step.name : step \in {s \in Range(ApprovedJobs[j]) :
      s \notin ProofSteps /\ s.kind \in {"must", "continue-on-error", "own_branch"}}}

\* A certified head has passed every step of every leg, each on the sources it
\* is about, and no leg has verified a wheel that was built from other sources,
\* whatever one step left behind, however the workflow was edited in one place and
\* whichever jobs were run again (validate.yml:889-906); a fork's is never
\* certified.  There are two exceptions.  One is a command that the contract does
\* not bind (CONTRACT_RUN_STEPS).  The other is a wheel that a step leaves in
\* dist/: the proof lets it pass as untracked data, the build does not clear the
\* directory, all of it is uploaded, and the first that is found is verified
\* (validate.yml:585-602, 642-656), which need not be the one that was built.
CertifiedIsProven ==
  outcomes["certification_status"] = "success" =>
    /\ \A j \in CheckoutJobs : \A leg \in 1..Legs(j) : \A name \in Vouched(j) :
         \/ <<j, leg, name>> \in proven
         \/ <<j, name>> \in Emptied
         \/ name = "controls" /\ origin = "fork"
    /\ \A leg \in 1..MatrixLegs :
         \/ wheel[leg] = "own"
         \/ wheel[leg] = "stray"
         \/ wheel[leg] = "none" /\ <<"clean_wheel_install", "verify_wheel">> \in Emptied
    /\ origin = "fork" => <<"provider_authentication", "reject">> \in Emptied
=============================================================================
