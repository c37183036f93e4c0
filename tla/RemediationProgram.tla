-------------------------- MODULE RemediationProgram --------------------------
(***************************************************************************)
(* The remediation program: a document in the repository whose phases are  *)
(* completed one after the other, each with evidence at a verified commit, *)
(* a package frozen in a snapshot, a certified run of CI on that snapshot  *)
(* and two reviews.  validate_remediation_program.py reads the document    *)
(* and the git history at every commit; here anybody commits anything, the *)
(* reviewed source may be squashed into one commit of main, and what the   *)
(* validator accepts is judged.  A commit is known by its number, a digest *)
(* by what it digests.                                                     *)
(***************************************************************************)
EXTENDS Naturals, Sequences, FiniteSets
LOCAL INSTANCE FiniteSetsExt

CONSTANTS
  Phases,     \* bound: the phases are 1..Phases
  Registries, \* the versions of reviewer-registry.json: reviewers by role
  MaxCommits, \* bound
  MaxEdits    \* bound: departures from the procedure

Roles == {"SENIOR_SCRUMMASTER_3", "VP_ENGINEERING"}
Phase == 1..Phases
Reviewers == UNION {{r[role] : role \in Roles} : r \in Registries}

ASSUME RemediationAssumption ==
  /\ Phases \in Nat \ {0} /\ MaxCommits \in Nat /\ MaxEdits \in Nat
  /\ Registries # {} /\ Registries \subseteq [Roles -> Reviewers]

VARIABLES
  history, \* the commits: their files, and their line, which is their ancestors and they
  head,
  passed,  \* commits on which the validation workflow succeeded
  tag,     \* <<>> or the evidence tag: its object and the commit it peels to
  edits    \* history: departures from the procedure

remediationVars == <<history, head, passed, tag, edits>>

Files(c) == history[c].files  \* the tree
Program == Files(head).program
IsAncestor(a, b) == a \in history[b].line

Baseline == 1  \* the program's baseline commit

Draft ==
  [verified |-> 0, criterion |-> <<>>, certified |-> <<>>, gates |-> "NOT_RUN",
   authority |-> <<>>, baseline |-> 0, rollback |-> <<>>]
NoReview == [hash |-> <<>>, verdicts |-> <<>>]
Unstarted ==
  [status |-> "NOT_STARTED", contract |-> Draft, review |-> NoReview,
   snapshot |-> 0, frozen |-> 0, certification |-> <<>>]

FirstProgram ==
  [current |-> 1, scope |-> 0,
   phases |-> [p \in Phase |-> IF p = 1 THEN [Unstarted EXCEPT !.status = "IN_PROGRESS", !.contract.baseline = Baseline]
                          ELSE Unstarted],
   findings |-> [p \in Phase |-> "OPEN"], failures |-> [p \in Phase |-> <<>>]]

RemediationInit ==
  /\ \E registry \in Registries :
       LET before == [program |-> <<>>, registry |-> registry, source |-> 0,
                      rollback |-> [p \in Phase |-> <<>>], receipt |-> <<>>]
           files == [before EXCEPT !.program = FirstProgram, !.source = 1,
                                   !.rollback[1] = [baseline |-> Baseline, expected |-> Baseline]]
       IN  history = << [line |-> {1}, files |-> before], [line |-> {1, 2}, files |-> files] >>
  /\ head = 2 /\ passed = {} /\ tag = <<>> /\ edits = 0

-----------------------------------------------------------------------------
(* remediation_squash_integration.py *)

\* The closure of the source, if the receipt in the work tree still describes
\* the tag, the trees and the parent of the squash commit.
SquashSource ==
  LET r == Files(head).receipt IN
  IF /\ r # <<>> /\ tag # <<>>
     /\ r.object = tag.object /\ tag.commit = r.closure
     /\ Files(r.target) = Files(r.closure)
     /\ history[r.target].line = {Baseline, r.target}
     /\ IsAncestor(r.target, head)
  THEN {r.closure} ELSE {}

InAcceptedHistory(c) ==
  IsAncestor(c, head) \/ \E closure \in SquashSource : IsAncestor(c, closure)

ClosureHistoryHead(s) == IF IsAncestor(s, head) THEN {head} ELSE SquashSource

-----------------------------------------------------------------------------
(* remediation_evidence.py *)

SourceEvidence(c) == [class |-> "SOURCE", commit |-> c, digest |-> Files(c).source]
CiEvidence(c, ran) == [class |-> "CI", commit |-> c, head |-> ran]

\* The evidence is about the commit it must be about, or an ancestor of it.
Bound(e, c, ancestor) == IF ancestor THEN IsAncestor(e.commit, c) ELSE e.commit = c

\* As GitHub answers, in CI.
Authentic(e) == e.head \in passed

EvidenceHolds(e, c, ancestor, unchanged) ==
  /\ Bound(e, c, ancestor)
  /\ e.class = "SOURCE" =>
       /\ e.digest = Files(IF ancestor THEN e.commit ELSE c).source
       /\ ancestor /\ unchanged => e.digest = Files(c).source
  /\ e.class = "CI" =>
       e.head = e.commit /\ e.commit = c /\ Authentic(e)

-----------------------------------------------------------------------------
(* The rules of a complete phase. *)

\* What evidence_package_hash hashes, and its digest: the first commit whose
\* program holds the package.
Package(program, p) ==
  [scope |-> program.scope, findings |-> program.findings,
   contracts |-> [q \in Phase |-> program.phases[q].contract], failures |-> program.failures[p]]

PackageHash(program, p) ==
  LET same == {c \in Baseline + 1..Len(history) : Package(Files(c).program, p) = Package(program, p)}
  IN  <<p, IF same = {} THEN Len(history) + 1 ELSE Min(same)>>

\* _normalize_closure_delta: the closure with what a closure may change undone.
Undone(closure, snapshot, p) ==
  [closure EXCEPT
     !.current = snapshot.current,
     !.phases = [q \in Phase |->
       IF q = p THEN [snapshot.phases[p] EXCEPT !.contract = closure.phases[p].contract]
       ELSE IF q = p + 1 THEN [closure.phases[q] EXCEPT !.status = snapshot.phases[q].status]
       ELSE closure.phases[q]]]

\* The first commit after the snapshot, on the way to the accepted head.
ClosureCommits(s) ==
  UNION {LET later == {c \in history[tip].line \ {s} : IsAncestor(s, c)}
         IN  {c \in later : \A d \in later : c <= d} : tip \in ClosureHistoryHead(s)}

ClosureIsBounded(p, s) ==
  \E c \in ClosureCommits(s) :
    /\ [Files(c) EXCEPT !.program = <<>>] = [Files(s) EXCEPT !.program = <<>>]
    /\ Undone(Files(c).program, Files(s).program, p) = Files(s).program

ArtifactIsDurable(artifact, contract) ==
  artifact.baseline = contract.baseline /\ Files(artifact.expected) = Files(contract.baseline)

RollbackIsDurable(p) ==
  LET contract == Program.phases[p].contract
      artifact == Files(head).rollback[p]
  IN  artifact # <<>> /\ artifact = contract.rollback /\ ArtifactIsDurable(artifact, contract)

\* Mutation: frozen where it was verified, and free afterwards.
AuthorityWasFrozen(contract) ==
  Files(contract.verified).registry = contract.authority

\* The registry, which stands for the four files of the authority package.
AuthorityIsFrozen(contract) ==
  \A c \in {contract.verified, head} : Files(c).registry = contract.authority

EvidenceIsCurrent(contract) ==
  /\ contract.gates = "PASS"
  /\ \A e \in {contract.criterion, contract.certified} : EvidenceHolds(e, contract.verified, TRUE, TRUE)

FailuresAreLearnt(p, verified) ==
  LET f == Program.failures[p] IN
  /\ Program.findings[p] = "RESOLVED"
  /\ f # <<>> => /\ f.status = "RESOLVED" /\ f.learning = "CONFIRMED"
                 /\ EvidenceHolds(f.fix, verified, FALSE, TRUE)
                 /\ EvidenceHolds(f.observed, verified, TRUE, FALSE)

\* What holds of a package before its review too.
PackageIsReady(p) ==
  LET contract == Program.phases[p].contract IN
  /\ contract.verified # 0 /\ InAcceptedHistory(contract.verified)
  /\ RollbackIsDurable(p)
  /\ AuthorityIsFrozen(contract)
  /\ EvidenceIsCurrent(contract)
  /\ FailuresAreLearnt(p, contract.verified)

SnapshotIsFrozen(phase) ==
  /\ phase.snapshot # 0 /\ phase.frozen = phase.snapshot
  /\ phase.certification # <<>> /\ EvidenceHolds(phase.certification, phase.snapshot, FALSE, TRUE)

Approved(verdicts) ==
  DOMAIN verdicts = Roles /\ \A role \in Roles : verdicts[role].verdict = "APPROVE_GREAT"

SamePackageReviewed(p, review, snapshot) ==
  /\ review.hash = PackageHash(Files(snapshot).program, p)
  /\ \A role \in Roles : review.verdicts[role].hash = review.hash

ReviewersAreRegistered(verdicts, verified) ==
  /\ \A role \in Roles : verdicts[role].reviewer = Files(verified).registry[role]
  /\ \A f \in {"reviewer", "context"} :
       Cardinality({verdicts[role][f] : role \in Roles}) = Cardinality(Roles)

CompleteIsValid(p) ==
  LET phase == Program.phases[p] IN
  /\ PackageIsReady(p)
  /\ SnapshotIsFrozen(phase)
  /\ ClosureIsBounded(p, phase.snapshot)
  /\ Approved(phase.review.verdicts)
  /\ SamePackageReviewed(p, phase.review, phase.snapshot)
  /\ ReviewersAreRegistered(phase.review.verdicts, phase.contract.verified)

-----------------------------------------------------------------------------
(* validate and validate_current_candidate_complete. *)

InSequence ==
  LET status(p) == Program.phases[p].status IN
  /\ \A p \in Phase : p < Program.current => status(p) = "COMPLETE"
  /\ \A p \in Phase : p > Program.current => status(p) = "NOT_STARTED"
  /\ \/ status(Program.current) = "IN_PROGRESS"
     \/ \A p \in Phase : status(p) = "COMPLETE"

\* The contexts of the reviewers, one for each verdict of each phase.
ContextsAreFresh ==
  LET verdicts(p) == Program.phases[p].review.verdicts IN
  \A p, q \in Phase : \A r \in DOMAIN verdicts(p), t \in DOMAIN verdicts(q) :
    verdicts(p)[r].context = verdicts(q)[t].context => p = q /\ r = t

Accepted ==
  /\ InSequence /\ ContextsAreFresh
  /\ \A p \in Phase : Program.phases[p].status = "COMPLETE" => CompleteIsValid(p)

CandidateAccepted ==
  LET p == Program.current
      phase == Program.phases[p]
  IN  phase.status = "IN_PROGRESS" /\ phase.review.hash # <<>> =>
        PackageIsReady(p) /\ phase.review.hash = PackageHash(Program, p)

RollbackHead(baseline) == IF IsAncestor(baseline, head) THEN {head} ELSE SquashSource

\* rehearse: the artifact of the last phase begun leads back to its baseline.
RollbackRehearsed ==
  LET begun == {p \in Phase : Program.phases[p].status # "NOT_STARTED" /\ Program.phases[p].contract.baseline # 0}
      artifact == Files(head).rollback[Max(begun)]
  IN  begun # {} /\ \E c \in RollbackHead(artifact.baseline) :
        /\ artifact.baseline # c /\ IsAncestor(artifact.baseline, c)
        /\ Files(artifact.expected) = Files(artifact.baseline)

-----------------------------------------------------------------------------
(* A phase which the validator takes for complete is one whose content two   *)
(* different people approved whom the registry still names, in contexts of   *)
(* their own; CI passed on it as they saw it; and what closed it changed     *)
(* neither the content nor the source.                                       *)

CompleteStaysApproved ==
  Accepted => \A p \in Phase : Program.phases[p].status = "COMPLETE" =>
    LET phase == Program.phases[p]
        approved(role) == phase.review.verdicts[role]
    IN  /\ phase.snapshot \in passed
        /\ \A role \in Roles : approved(role).reviewer = Files(head).registry[role]
        /\ \E c \in ClosureCommits(phase.snapshot) :
             /\ Files(c).source = Files(phase.snapshot).source
             /\ \A role \in Roles : approved(role).hash = PackageHash(Files(c).program, p)
        /\ \A q \in Phase \ {p}, role, other \in Roles :
             Program.phases[q].review.verdicts # <<>> =>
               Program.phases[q].review.verdicts[other].context # approved(role).context

-----------------------------------------------------------------------------
(* The commits. *)

CommitFiles(files) ==
  /\ Len(history) < MaxCommits
  /\ history' = Append(history, [files |-> files, line |-> history[head].line \cup {Len(history) + 1}])
  /\ head' = Len(history) + 1

\* Something beside the procedure: a fault in a document, a commit, a moved tag.
Departure == edits < MaxEdits /\ edits' = edits + 1
Procedure == UNCHANGED edits

\* The packages of a phase that say of a verified commit what is true of it.
Contracts ==
  LET certified == history[head].line \cap passed IN
  {[verified |-> v, criterion |-> SourceEvidence(v), certified |-> CiEvidence(v, v), gates |-> "PASS",
    authority |-> Files(head).registry, baseline |-> Baseline,
    rollback |-> [baseline |-> Baseline, expected |-> Baseline]]
      : v \in {c \in certified : c = Max(certified)}}

FaultyContracts ==
  UNION {{[c EXCEPT !.gates = "FAIL"], [c EXCEPT !.authority = Files(Baseline).registry],
          [c EXCEPT !.rollback.expected = head], [c EXCEPT !.rollback.baseline = head]}
         \cup {[c EXCEPT !.criterion = SourceEvidence(a)] : a \in history[c.verified].line}
         \cup {[c EXCEPT !.certified = CiEvidence(a, ran)] : a \in history[c.verified].line, ran \in passed}
           : c \in Contracts}

Failure(status, learning, fix, observed) ==
  [status |-> status, learning |-> learning, fix |-> SourceEvidence(fix), observed |-> SourceEvidence(observed)]

\* A failure of the phase seen at some commit, its fix verified.
Failures(v) ==
  {<<>>, Failure("RESOLVED", "CONFIRMED", v, Min(history[v].line))}
FaultyFailures(v) ==
  {Failure("OPEN", "CONFIRMED", v, v), Failure("RESOLVED", "PROPOSED", v, v)}
  \cup {Failure("RESOLVED", "CONFIRMED", c, v) : c \in history[v].line}

WithPackage(p, contract, failure) ==
  LET program == [Program EXCEPT !.phases[p].contract = contract, !.findings[p] = "RESOLVED", !.failures[p] = failure]
  IN  [program EXCEPT !.phases[p].review = [hash |-> PackageHash(program, p), verdicts |-> <<>>]]

Frozen(contract, failure) ==
  LET p == Program.current IN
  /\ Program.phases[p].status = "IN_PROGRESS"
  /\ CommitFiles([Files(head) EXCEPT !.program = WithPackage(p, contract, failure), !.rollback[p] = contract.rollback])

Freeze ==
  /\ \/ /\ Procedure
        /\ \E contract \in Contracts : \E failure \in Failures(contract.verified) : Frozen(contract, failure)
     \/ /\ Departure
        /\ \/ \E contract \in Contracts : \E failure \in FaultyFailures(contract.verified) : Frozen(contract, failure)
           \/ \E contract \in FaultyContracts : Frozen(contract, <<>>)
  /\ UNCHANGED <<passed, tag>>

\* The reviewers see the package frozen in a commit; a context is known by the
\* phase and the role it was opened for.
Verdicts(p, hash) ==
  [role \in Roles |-> [verdict |-> "APPROVE_GREAT", reviewer |-> Files(head).registry[role],
                       context |-> <<p, role>>, hash |-> hash]]

FaultyVerdicts(p, hash) ==
  UNION {{[Verdicts(p, hash) EXCEPT ![role].verdict = "REWORK_GOOD"],
          [Verdicts(p, hash) EXCEPT ![role].hash = PackageHash(Program, p)],
          [r \in {role} |-> Verdicts(p, hash)[r]]}
         \cup {[Verdicts(p, hash) EXCEPT ![role].reviewer = id] : id \in Reviewers}
         \cup {[Verdicts(p, hash) EXCEPT ![role].context = <<q, other>>] : q \in Phase, other \in Roles}
           : role \in Roles}

Closed(program, p, s, frozen, ran, hash, verdicts) ==
  [program EXCEPT
     !.current = IF p < Phases THEN p + 1 ELSE p,
     !.phases = [q \in Phase |->
       IF q = p THEN [@[p] EXCEPT !.status = "COMPLETE", !.snapshot = s, !.frozen = frozen,
                                  !.certification = CiEvidence(s, ran),
                                  !.review = [hash |-> hash, verdicts |-> verdicts]]
       ELSE IF q = p + 1 THEN [@[q] EXCEPT !.status = "IN_PROGRESS"] ELSE @[q]]]

Snapshots == {s \in passed : Files(s).program.phases[Program.current].review.hash # <<>>}

\* The closure of the current phase.
Close ==
  LET p == Program.current IN
  /\ Program.phases[p].status = "IN_PROGRESS"
  /\ \E s \in Snapshots :
       LET hash == PackageHash(Files(s).program, p)
           close(frozen, ran, verdicts) ==
             [Files(head) EXCEPT !.program = Closed(Program, p, s, frozen, ran, hash, verdicts)]
           good == close(s, s, Verdicts(p, hash))
       IN  \/ Procedure /\ CommitFiles(good)
           \/ /\ Departure
              /\ \/ \E ran \in passed : CommitFiles(close(s, ran, Verdicts(p, hash)))
                 \/ CommitFiles(close(head, s, Verdicts(p, hash)))
                 \/ \E verdicts \in FaultyVerdicts(p, hash) : CommitFiles(close(s, s, verdicts))
                 \* Its commit holds another change too.
                 \/ CommitFiles([good EXCEPT !.source = @ + 1])
                 \/ CommitFiles([good EXCEPT !.program.scope = @ + 1])
                 \/ \E contract \in Contracts : CommitFiles([good EXCEPT !.program.phases[p].contract = contract])
  /\ UNCHANGED <<passed, tag>>

\* Work on the source, another registry, an amendment of a package.
Edit ==
  /\ Departure
  /\ \/ CommitFiles([Files(head) EXCEPT !.source = @ + 1])
     \/ \E r \in Registries \ {Files(head).registry} : CommitFiles([Files(head) EXCEPT !.registry = r])
     \/ \E p \in Phase : \E contract \in Contracts :
          /\ Program.phases[p].contract.verified # 0
          /\ CommitFiles([Files(head) EXCEPT !.program.phases[p].contract = contract])
     \/ CommitFiles([Files(head) EXCEPT !.program.scope = @ + 1])
     \/ \E p \in Phase : CommitFiles([Files(head) EXCEPT !.program.findings[p] = "OPEN"])
  /\ UNCHANGED <<passed, tag>>

\* A run of the validation workflow succeeds on the head.
RunCi ==
  /\ head \notin passed /\ Accepted /\ CandidateAccepted /\ RollbackRehearsed
  /\ passed' = passed \cup {head}
  /\ UNCHANGED <<history, head, tag, edits>>

\* The pull request is squashed on its baseline, its head tagged; the receipt follows.
Squash ==
  /\ tag = <<>> /\ head # Baseline /\ Len(history) < MaxCommits
  /\ tag' = [object |-> 0, commit |-> head]
  /\ history' = Append(history, [history[head] EXCEPT !.line = {Baseline, Len(history) + 1}])
  /\ head' = Len(history) + 1
  /\ UNCHANGED <<passed, edits>>

RecordSquash ==
  /\ tag # <<>> /\ Files(head).receipt = <<>>
  /\ CommitFiles([Files(head) EXCEPT !.receipt = [closure |-> tag.commit, object |-> tag.object, target |-> head]])
  /\ UNCHANGED <<passed, tag, edits>>

\* The tag is made anew, somewhere.
MoveTag ==
  /\ tag # <<>> /\ Departure
  /\ \E c \in 1..Len(history) : tag' = [object |-> tag.object + 1, commit |-> c]
  /\ UNCHANGED <<history, head, passed>>

RemediationNext == Freeze \/ Close \/ Edit \/ RunCi \/ Squash \/ RecordSquash \/ MoveTag
RemediationSpec == RemediationInit /\ [][RemediationNext]_remediationVars
=============================================================================
