--------------------------- MODULE ExpansionProgram ---------------------------
(***************************************************************************)
(* The autonomous expansion program: phases closed one after the other,     *)
(* each by the founder's recorded approval or by two independent reviews,   *)
(* and at the end the whole program.  A record in the repository is only a  *)
(* pointer: the certification of a pull request asks GitHub for the comment *)
(* or the review it points at, for the run of CI and for the rehearsal of   *)
(* the rollback.  Commits go to pull requests, which are squashed into      *)
(* main; a commit is known by its number, and what happened on GitHub by    *)
(* its place in the order of events.                                        *)
(***************************************************************************)
EXTENDS Naturals, Sequences, FiniteSets
LOCAL INSTANCE FiniteSetsExt
LOCAL INSTANCE TLC

CONSTANTS
  LastStage,      \* the phases P0.. are numbered 1..LastStage
  ApprovalModels, \* of FOUNDER_CONTROLLED and INDEPENDENT_REVIEW
  MaxLog,         \* bound: commits
  MaxActs,        \* bound: what happens on GitHub
  MaxSlips        \* bound: steps beside the procedure

ASSUME ExpansionAssumption ==
  /\ LastStage \in Nat \ {0} /\ MaxLog \in Nat /\ MaxActs \in Nat /\ MaxSlips \in Nat
  /\ ApprovalModels \subseteq {"FOUNDER_CONTROLLED", "INDEPENDENT_REVIEW"}

VARIABLES
  commitLog, \* the commits: files, parent, and line, which is they and their ancestors
  mainTip,
  pulls,   \* pull requests: head and base; the branch at work is the last one's
  acts,    \* runs of CI, comments and reviews
  slips

expansionVars == <<commitLog, mainTip, pulls, acts, slips>>

Stage == 1..LastStage
Reviewer == {"senior-scrummaster-3", "vp-engineering"}
Owner == "wfprieto"

At(c) == commitLog[c].files
Plan(c) == At(c).program
Includes(c, ancestor) == ancestor \in commitLog[c].line
Tip == pulls[Len(pulls)].head

Closable == [status |-> "IN_PROGRESS", definition |-> 0, technical |-> "NOT_RUN", outcome |-> "PENDING"]

ExpansionInit ==
  /\ \E model \in ApprovalModels :
       LET program == [model |-> model, state |-> "NOT_RUN", current |-> 1,
                       phases |-> [p \in Stage |-> [Closable EXCEPT !.status = IF p = 1 THEN @ ELSE "NOT_STARTED"]]]
           files == [program |-> program, evidence |-> 0, approvals |-> [p \in Stage |-> <<>>],
                     closures |-> [p \in Stage |-> <<>>], final |-> <<>>]
       IN  commitLog = << [files |-> files, parent |-> 1, line |-> {1}],
                    [files |-> [files EXCEPT !.evidence = 1], parent |-> 1, line |-> {1, 2}] >>
  /\ mainTip = 1 /\ pulls = << [head |-> 2, base |-> 1] >> /\ acts = <<>> /\ slips = 0

-----------------------------------------------------------------------------
(* autonomous_seo_review_trust.py: evidence is bound to the candidate, and the *)
(* checked out file is still the candidate's.                                  *)

RefTo(c) == [bound |-> c, digest |-> At(c).evidence]

\* Mutation: the file may have changed since.
RefHeldOnce(ref, h, candidate) == ref.bound = candidate /\ ref.digest = At(candidate).evidence

RefHolds(ref, h, candidate) ==
  ref.bound = candidate /\ ref.digest = At(candidate).evidence /\ At(h).evidence = At(candidate).evidence

-----------------------------------------------------------------------------
(* The founder's approval, as recorded in the commit h. *)

NextStage(p) == Min({p + 1, LastStage})

ApprovalStands(h, p) ==
  LET a == At(h).approvals[p] IN
  /\ a # <<>> /\ a.phase = p
  /\ Includes(h, a.candidate)
  /\ RefHolds(a.ref, h, a.candidate) /\ a.hash = a.ref
  /\ a.next = NextStage(p)
  /\ Plan(a.candidate).phases[p].definition = Plan(h).phases[p].definition

\* _owner_act_errors: the comment, as GitHub shows it now.
OwnerActStands(a) ==
  /\ a.act \in DOMAIN acts
  /\ LET comment == acts[a.act] IN
     /\ comment.type = "comment" /\ comment.author = Owner /\ ~comment.edited
     /\ comment.decision = [phase |-> a.phase, candidate |-> a.candidate, hash |-> a.hash, next |-> a.next]
     /\ comment.pull = a.pull /\ pulls[a.pull].head = a.candidate

-----------------------------------------------------------------------------
(* autonomous_seo_phase_closure.py: the closure after two reviews. *)

ClosureHash(c) == <<c.phase, c.candidate, c.ref>>

TwoReviews(c) ==
  LET contexts == {c.reviews[r].context : r \in DOMAIN c.reviews} IN
  /\ DOMAIN c.reviews = Reviewer
  /\ Cardinality(contexts) = 2 /\ c.builder \notin contexts
  /\ \A r \in Reviewer :
       LET review == c.reviews[r] IN
       /\ review.verdict = "APPROVE_GREAT"
       /\ review.candidate = c.candidate /\ review.hash = c.hash
  /\ Cardinality({c.reviews[r].act : r \in Reviewer}) = 2
  /\ Cardinality({c.reviews[r].pull : r \in Reviewer}) = 1

OnlyClosed(h, p, candidate) ==
  LET rest(c) == [At(c) EXCEPT !.program = <<>>, !.closures[p] = <<>>] IN rest(h) = rest(candidate)

\* field_bounded_transition_errors
Advances(before, after, p) ==
  /\ \A q \in Stage : after.phases[q].definition = before.phases[q].definition
  /\ before.phases[p].status \in {"IN_PROGRESS", "BLOCKED"}
  /\ after.phases[p].status = "COMPLETE" /\ after.phases[p].technical = "PASS"
  /\ after.phases[p].outcome \in {"PASS", "NOT_REQUIRED", "PENDING"}
  /\ after.current = NextStage(p)
  /\ p < LastStage => before.phases[p + 1].status = "NOT_STARTED" /\ after.phases[p + 1].status = "IN_PROGRESS"
  /\ \A q \in Stage \ {p, p + 1} : after.phases[q] = before.phases[q]

ClosureStands(h, p) ==
  LET c == At(h).closures[p] IN
  /\ c # <<>> /\ c.hash = ClosureHash(c) /\ c.phase = p
  /\ RefHolds(c.ref, h, c.candidate)
  /\ Includes(h, c.candidate)
  /\ OnlyClosed(h, p, c.candidate)
  /\ Advances(Plan(c.candidate), Plan(h), p)
  /\ p = LastStage => c.outcome = "PASS"
  /\ TwoReviews(c)

-----------------------------------------------------------------------------
(* autonomous_seo_program_closure.py *)

FinalStands(h) ==
  LET f == At(h).final
      rest(c) == [At(c) EXCEPT !.program.state = <<>>, !.final = <<>>]
  IN  /\ f # <<>> /\ Includes(h, f.candidate)
      /\ rest(h) = rest(f.candidate) /\ Plan(f.candidate).state # "VERIFIED"
      /\ RefHolds(f.ref, h, f.candidate) /\ f.hash = ClosureHash(f)
      /\ TwoReviews(f)
      /\ \A r \in Reviewer : f.reviews[r].run = f.run

-----------------------------------------------------------------------------
(* validate_autonomous_seo_expansion_program.py on the commit h. *)

AllClosed(h) == \A p \in Stage : Plan(h).phases[p].status = "COMPLETE"

StagesInOrder(h) ==
  LET status(p) == Plan(h).phases[p].status IN
  IF AllClosed(h) THEN Plan(h).current = LastStage
  ELSE \A p \in Stage :
         /\ p < Plan(h).current => status(p) = "COMPLETE"
         /\ p = Plan(h).current => status(p) \in {"IN_PROGRESS", "BLOCKED"}
         /\ p > Plan(h).current => status(p) = "NOT_STARTED"

StageStands(h, p) ==
  /\ Plan(h).phases[p].technical = "PASS"
  /\ p = LastStage => Plan(h).phases[p].outcome = "PASS"
  /\ IF Plan(h).model = "FOUNDER_CONTROLLED" THEN ApprovalStands(h, p) ELSE ClosureStands(h, p)

ProgramStands(h) ==
  /\ StagesInOrder(h)
  /\ \A p \in Stage : Plan(h).phases[p].status = "COMPLETE" => StageStands(h, p)
  /\ AllClosed(h) <=> Plan(h).state = "VERIFIED"
  /\ Plan(h).state = "VERIFIED" => FinalStands(h)

-----------------------------------------------------------------------------
(* The certification of a pull request's head. *)

IsRun(i, c) == i \in DOMAIN acts /\ acts[i].type = "run" /\ acts[i].head = c

\* wait_for_canonical: the newest run decides.
CanonicalRunPassed(h) ==
  \E i \in DOMAIN acts :
    /\ IsRun(i, h) /\ acts[i].conclusion = "success"
    /\ \A k \in DOMAIN acts : IsRun(k, h) => k <= i

\* _authenticate_one
Authenticated(c, r) ==
  LET review == c.reviews[r] IN
  /\ review.act \in DOMAIN acts
  /\ LET result == acts[review.act] IN
     /\ result.type = "review" /\ result.author = r /\ result.approves
     /\ review.context = review.act
     /\ review.run = c.run /\ IsRun(c.run, c.candidate) /\ acts[c.run].conclusion = "success"
     /\ result.subject = [candidate |-> c.candidate, run |-> c.run, hash |-> c.hash]
     /\ c.run < review.act
     /\ result.pull = review.pull /\ pulls[review.pull].head = c.candidate

ReviewsAuthenticated(h) ==
  LET complete == {p \in Stage : Plan(h).phases[p].status = "COMPLETE"}
      records == {At(h).closures[p] : p \in IF Plan(h).model = "FOUNDER_CONTROLLED" THEN {} ELSE complete}
                 \cup IF Plan(h).state = "VERIFIED" THEN {At(h).final} ELSE {}
  IN  /\ Plan(h).model = "FOUNDER_CONTROLLED" =>
           \A p \in complete : ApprovalStands(h, p) /\ OwnerActStands(At(h).approvals[p])
      /\ \A c \in records : \A r \in Reviewer : Authenticated(c, r)

\* rehearse_autonomous_seo_rollback.py: what is undone, and back to where.
RollbackCandidate(h) ==
  IF Plan(h).phases[1].status # "COMPLETE" THEN h
  ELSE IF Plan(h).model = "FOUNDER_CONTROLLED" THEN At(h).approvals[1].candidate
  ELSE At(h).closures[1].candidate

RecoveryBaseline(h, candidate) ==
  IF Plan(h).model = "FOUNDER_CONTROLLED" /\ Includes(mainTip, candidate)
    THEN {commitLog[candidate].parent}
    ELSE {Max(commitLog[candidate].line \cap commitLog[mainTip].line)} \cap {mainTip}

RollbackStands(h) ==
  LET candidate == RollbackCandidate(h) IN
  Includes(h, candidate) /\ \E baseline \in RecoveryBaseline(h, candidate) : baseline # candidate

Certified(h) == CanonicalRunPassed(h) /\ ReviewsAuthenticated(h) /\ RollbackStands(h)

-----------------------------------------------------------------------------
(* A pull request whose certification is green has, for every phase that is *)
(* complete in it, what the phase demands on GitHub and in the history: the  *)
(* owner's unedited words about that phase at an ancestor with the very      *)
(* evidence and definition of the head, or both reviewers' approvals of such *)
(* an ancestor after CI had passed on it.                                    *)

CertifiedIsApproved ==
  \A h \in {pulls[k].head : k \in DOMAIN pulls} : Certified(h) =>
    \A p \in Stage : Plan(h).phases[p].status = "COMPLETE" =>
      \E candidate \in commitLog[h].line :
        /\ At(candidate).evidence = At(h).evidence
        /\ Plan(candidate).phases[p].definition = Plan(h).phases[p].definition
        /\ IF Plan(h).model = "FOUNDER_CONTROLLED"
             THEN \E i \in DOMAIN acts :
                    /\ acts[i].type = "comment" /\ acts[i].author = Owner /\ ~acts[i].edited
                    /\ acts[i].decision.phase = p /\ acts[i].decision.candidate = candidate
             ELSE \A r \in Reviewer : \E i, j \in DOMAIN acts :
                    /\ IsRun(i, candidate) /\ acts[i].conclusion = "success" /\ i < j
                    /\ acts[j].type = "review" /\ acts[j].author = r /\ acts[j].approves
                    /\ acts[j].subject.candidate = candidate

-----------------------------------------------------------------------------
(* What happens. *)

Slip == slips < MaxSlips /\ slips' = slips + 1
ByTheBook == UNCHANGED slips

PushCommit(files) ==
  /\ Len(commitLog) < MaxLog
  /\ commitLog' = Append(commitLog, [files |-> files, parent |-> Tip, line |-> commitLog[Tip].line \cup {Len(commitLog) + 1}])
  /\ pulls' = [pulls EXCEPT ![Len(pulls)].head = Len(commitLog) + 1]
  /\ UNCHANGED <<mainTip, acts>>

Happens(act) == Len(acts) < MaxActs /\ acts' = Append(acts, act) /\ UNCHANGED <<commitLog, mainTip, pulls>>

\* A branch for the next pull request; the last one stays as it is.
OpenPull ==
  /\ pulls[Len(pulls)].head # pulls[Len(pulls)].base
  /\ \A k \in DOMAIN pulls : pulls[k].head = Tip => k = Len(pulls)
  /\ pulls' = Append(pulls, [head |-> Tip, base |-> mainTip])
  /\ UNCHANGED <<commitLog, mainTip, acts, slips>>

\* The canonical workflow validates the head; it may fail for other reasons too.
CanonicalRun ==
  \/ /\ ByTheBook /\ ~CanonicalRunPassed(Tip)
     /\ Happens([type |-> "run", head |-> Tip, conclusion |-> IF ProgramStands(Tip) THEN "success" ELSE "failure"])
  \/ Slip /\ Happens([type |-> "run", head |-> Tip, conclusion |-> "failure"])

Words(p, candidate) == [phase |-> p, candidate |-> candidate, hash |-> RefTo(candidate), next |-> NextStage(p)]

OwnerComments ==
  /\ Plan(Tip).model = "FOUNDER_CONTROLLED"
  /\ LET comment(author, decision) ==
           Happens([type |-> "comment", author |-> author, pull |-> Len(pulls), edited |-> FALSE, decision |-> decision])
     IN  \/ ByTheBook /\ comment(Owner, Words(Plan(Tip).current, Tip))
         \/ /\ Slip
            /\ \/ comment("someone", Words(Plan(Tip).current, Tip))
               \/ \E p \in Stage, c \in commitLog[Tip].line : comment(Owner, Words(p, c))

EditComment ==
  /\ Slip
  /\ \E i \in DOMAIN acts : acts[i].type = "comment" /\ acts' = [acts EXCEPT ![i].edited = TRUE]
  /\ UNCHANGED <<commitLog, mainTip, pulls>>

Advanced(program, p) ==
  [program EXCEPT !.current = NextStage(p),
                  !.phases = [q \in Stage |->
                    IF q = p THEN [@[q] EXCEPT !.status = "COMPLETE", !.technical = "PASS", !.outcome = "PASS"]
                    ELSE IF q = p + 1 THEN [@[q] EXCEPT !.status = "IN_PROGRESS"] ELSE @[q]]]

\* The approval that a comment allows, recorded with the step to the next phase.
RecordApproval ==
  /\ Plan(Tip).model = "FOUNDER_CONTROLLED"
  /\ \E i \in DOMAIN acts :
       /\ acts[i].type = "comment"
       /\ LET said == acts[i].decision
              p == Plan(Tip).current
              record == [phase |-> said.phase, candidate |-> said.candidate, ref |-> said.hash, hash |-> said.hash,
                         next |-> said.next, pull |-> acts[i].pull, act |-> i]
              recorded(a) == PushCommit([At(Tip) EXCEPT !.program = Advanced(@, p), !.approvals[p] = a])
          IN  \/ ByTheBook /\ said.phase = p /\ recorded(record)
              \/ /\ Slip
                 /\ \/ recorded([record EXCEPT !.phase = p, !.next = NextStage(p)])
                    \/ recorded([record EXCEPT !.candidate = Tip, !.ref = RefTo(Tip), !.hash = RefTo(Tip)])
                    \/ recorded([record EXCEPT !.ref = RefTo(Tip)])
                    \/ PushCommit([At(Tip) EXCEPT !.program = Advanced(@, p)])

\* What would be closed at a candidate: a phase, or with none the program.
Closing(p, candidate) ==
  LET c == [phase |-> p, candidate |-> candidate, ref |-> RefTo(candidate), builder |-> 0, outcome |-> "PASS"]
  IN  c @@ [hash |-> ClosureHash(c)]

ReviewCandidate ==
  /\ Plan(Tip).model = "INDEPENDENT_REVIEW" \/ AllClosed(Tip)
  /\ \E r \in Reviewer, i \in DOMAIN acts :
       LET p == IF AllClosed(Tip) THEN 0 ELSE Plan(Tip).current
           review(run, approves, author) ==
             Happens([type |-> "review", author |-> author, pull |-> Len(pulls), approves |-> approves,
                      subject |-> [candidate |-> Tip, run |-> run, hash |-> Closing(p, Tip).hash]])
       IN  /\ acts[i].type = "run"
           /\ \/ ByTheBook /\ acts[i].head = Tip /\ acts[i].conclusion = "success" /\ review(i, TRUE, r)
              \/ /\ Slip
                 /\ \/ review(i, FALSE, r)
                    \/ acts[i].head # Tip /\ review(i, TRUE, r)
                    \/ review(i, TRUE, "someone")

\* The closure that two reviews of one run allow.
ReviewedClosure(p, chosen) ==
  LET first == acts[chosen["vp-engineering"]]
      subject == first.subject
  IN  Closing(p, subject.candidate) @@
      [run |-> subject.run, reviews |-> [r \in Reviewer |->
        [verdict |-> "APPROVE_GREAT", context |-> chosen[r], candidate |-> subject.candidate,
         hash |-> Closing(p, subject.candidate).hash, run |-> subject.run,
         act |-> chosen[r], pull |-> acts[chosen[r]].pull]]]

RecordClosure ==
  LET reviews == {i \in DOMAIN acts : acts[i].type = "review"}
      p == Plan(Tip).current
      close(c) == PushCommit([At(Tip) EXCEPT !.program = Advanced(@, p), !.closures[p] = c])
      finish(c) == PushCommit([At(Tip) EXCEPT !.program.state = "VERIFIED", !.final = c])
  IN  \E chosen \in [Reviewer -> reviews] :
        \/ /\ ByTheBook /\ \A r \in Reviewer : acts[chosen[r]].author = r
           /\ IF AllClosed(Tip) THEN finish(ReviewedClosure(0, chosen)) ELSE close(ReviewedClosure(p, chosen))
        \/ /\ Slip /\ ~AllClosed(Tip)
           /\ LET c == ReviewedClosure(p, chosen) IN
              \/ close(c)
              \/ close([c EXCEPT !.reviews = [r \in {"vp-engineering"} |-> @[r]]])
              \/ PushCommit([At(Tip) EXCEPT !.evidence = @ + 1, !.program = Advanced(@, p), !.closures[p] = c])

\* Work on the sources, or on what a phase is to be.
Work ==
  /\ Slip
  /\ \/ PushCommit([At(Tip) EXCEPT !.evidence = @ + 1])
     \/ \E p \in Stage : PushCommit([At(Tip) EXCEPT !.program.phases[p].definition = @ + 1])

\* main takes pull requests squashed, and only green ones
\* (governance/github-controls.json:26-27); the next one starts from there.
SquashMerge ==
  /\ Certified(Tip) /\ At(Tip) # At(mainTip) /\ Len(commitLog) < MaxLog
  /\ commitLog' = Append(commitLog, [files |-> At(Tip), parent |-> mainTip, line |-> commitLog[mainTip].line \cup {Len(commitLog) + 1}])
  /\ mainTip' = Len(commitLog) + 1
  /\ pulls' = Append(pulls, [head |-> Len(commitLog) + 1, base |-> Len(commitLog) + 1])
  /\ UNCHANGED <<acts, slips>>

ExpansionNext ==
  \/ OpenPull \/ CanonicalRun \/ OwnerComments \/ EditComment \/ RecordApproval
  \/ ReviewCandidate \/ RecordClosure \/ Work \/ SquashMerge
ExpansionSpec == ExpansionInit /\ [][ExpansionNext]_expansionVars

-----------------------------------------------------------------------------
(* "P0 is squash-merged before later PRs run this certification"             *)
(* (rehearse_autonomous_seo_rollback.py:97): what a green pull request holds *)
(* stands on main too, once it is merged.                                    *)

MergedStands == ProgramStands(mainTip)
=============================================================================
