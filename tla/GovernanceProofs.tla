--------------------------- MODULE GovernanceProofs ---------------------------
(***************************************************************************)
(* What a commit must pass before it counts, for any number of commits,    *)
(* phases, reviews, files, legs and attempts: the autonomous expansion     *)
(* program, the quality ratchet, the remediation program, the registry of  *)
(* claims and the workflow that certifies a head.  They share no state, and*)
(* each theorem is about the behaviours of its own specification.          *)
(***************************************************************************)
EXTENDS ExpansionProgram, QualityRatchet, RemediationProgram, Capabilities, Certification,
        SequenceTheorems, TLAPS

-----------------------------------------------------------------------------
(* Sequences whose elements are not typed.                                 *)

IsSeq(s) == \E S : s \in Seq(S)

LEMMA AppendAny ==
  ASSUME NEW s, IsSeq(s), NEW e
  PROVE  /\ IsSeq(Append(s, e)) /\ Len(s) \in Nat /\ DOMAIN s = 1..Len(s)
         /\ Len(Append(s, e)) = Len(s) + 1 /\ DOMAIN Append(s, e) = 1..(Len(s) + 1)
         /\ \A i \in 1..Len(s) : Append(s, e)[i] = s[i]
         /\ Append(s, e)[Len(s) + 1] = e
<1>1. PICK S : s \in Seq(S)
  BY DEF IsSeq
<1>2. s \in Seq(S \cup {e}) /\ e \in S \cup {e}
  BY <1>1, SeqMonotonic
<1>3. /\ Append(s, e) \in Seq(S \cup {e}) /\ Len(Append(s, e)) = Len(s) + 1
      /\ \A i \in 1..Len(s) : Append(s, e)[i] = s[i]
      /\ Append(s, e)[Len(s) + 1] = e
  BY <1>2, AppendProperties
<1>4. Len(s) \in Nat /\ DOMAIN s = 1..Len(s) /\ DOMAIN Append(s, e) = 1..(Len(s) + 1)
  BY <1>2, <1>3, LenProperties
<1> QED
  BY <1>3, <1>4 DEF IsSeq

LEMMA ExceptAny ==
  ASSUME NEW s, IsSeq(s), NEW i \in 1..Len(s), NEW e
  PROVE  /\ IsSeq([s EXCEPT ![i] = e]) /\ Len([s EXCEPT ![i] = e]) = Len(s)
         /\ DOMAIN [s EXCEPT ![i] = e] = DOMAIN s /\ [s EXCEPT ![i] = e][i] = e
         /\ \A j \in 1..Len(s) \ {i} : [s EXCEPT ![i] = e][j] = s[j]
<1>1. PICK S : s \in Seq(S)
  BY DEF IsSeq
<1>2. s \in Seq(S \cup {e}) /\ e \in S \cup {e}
  BY <1>1, SeqMonotonic
<1>3. /\ [s EXCEPT ![i] = e] \in Seq(S \cup {e}) /\ Len([s EXCEPT ![i] = e]) = Len(s)
      /\ \A j \in 1..Len(s) : [s EXCEPT ![i] = e][j] = IF j = i THEN e ELSE s[j]
  BY <1>2, ExceptSeq
<1> QED
  BY <1>3 DEF IsSeq

-----------------------------------------------------------------------------
(* The expansion program.  A run of CI succeeds only on a commit that stands, *)
(* commits never change, and so what a closure says of its candidate holds    *)
(* when the certification of a later head asks GitHub about it.               *)

Logged == 1..Len(commitLog)

\* Commits descend from commits, and main and the pull requests point at some.
LogInv ==
  /\ IsSeq(commitLog) /\ Len(commitLog) # 0
  /\ \A c \in Logged : commitLog[c].line \subseteq Logged
  /\ mainTip \in Logged
  /\ IsSeq(pulls) /\ Len(pulls) # 0
  /\ \A k \in 1..Len(pulls) :
       pulls[k].head \in Logged /\ DOMAIN pulls[k] = {"head", "base"}

\* What the two reviews of a closure were about is what the commit holds.
Reviewed(h) ==
  Plan(h).model # "FOUNDER_CONTROLLED" =>
    \A p \in Stage : Plan(h).phases[p].status = "COMPLETE" =>
      LET c == At(h).closures[p] IN
      /\ Includes(h, c.candidate)
      /\ At(c.candidate).evidence = At(h).evidence
      /\ Plan(c.candidate).phases[p].definition = Plan(h).phases[p].definition

ActsInv ==
  /\ IsSeq(acts)
  /\ \A i \in 1..Len(acts) :
       /\ "type" \in DOMAIN acts[i]
       /\ acts[i].type = "run" /\ acts[i].conclusion = "success" =>
            acts[i].head \in Logged /\ Reviewed(acts[i].head)

ExpansionInv == LogInv /\ ActsInv

LEMMA StandingIsReviewed ==
  ASSUME NEW h, ProgramStands(h)
  PROVE  Reviewed(h)
BY DEF ProgramStands, StageStands, ClosureStands, RefHolds, Advances, Reviewed

\* A commit more changes nothing of those before it.
LEMMA LogGrows ==
  ASSUME LogInv, NEW commit, commit.line \subseteq Logged \cup {Len(commitLog) + 1},
         commitLog' = Append(commitLog, commit)
  PROVE  /\ IsSeq(commitLog') /\ Len(commitLog') = Len(commitLog) + 1
         /\ Logged' = Logged \cup {Len(commitLog) + 1} /\ Logged \subseteq Logged'
         /\ \A c \in Logged : commitLog'[c] = commitLog[c]
         /\ \A c \in Logged' : commitLog'[c].line \subseteq Logged'
         /\ \A h \in Logged : Reviewed(h) => Reviewed(h)'
<1>1. /\ IsSeq(commitLog') /\ Len(commitLog') = Len(commitLog) + 1
      /\ \A c \in Logged : commitLog'[c] = commitLog[c]
      /\ commitLog'[Len(commitLog) + 1] = commit /\ Len(commitLog) \in Nat
  BY AppendAny DEF LogInv, Logged
<1>2. Logged' = Logged \cup {Len(commitLog) + 1}
  BY <1>1 DEF Logged
<1>3. \A c \in Logged' : commitLog'[c].line \subseteq Logged'
  BY <1>1, <1>2 DEF LogInv
<1>4. ASSUME NEW h \in Logged, Reviewed(h) PROVE Reviewed(h)'
  <2>1. commitLog'[h] = commitLog[h] /\ commitLog[h].line \subseteq Logged
    BY <1>1 DEF LogInv
  <2>2. ASSUME NEW p \in Stage, Plan(h).model # "FOUNDER_CONTROLLED", Plan(h).phases[p].status = "COMPLETE"
        PROVE  /\ At(h).closures[p].candidate \in commitLog[h].line \cap Logged
               /\ At(At(h).closures[p].candidate).evidence = At(h).evidence
               /\ Plan(At(h).closures[p].candidate).phases[p].definition = Plan(h).phases[p].definition
    BY <1>4, <2>1, <2>2 DEF Reviewed, Includes
  <2>3. At(h)' = At(h) /\ Plan(h)' = Plan(h)
    BY <2>1 DEF At, Plan
  <2>4. \A c \in Logged : At(c)' = At(c) /\ Plan(c)' = Plan(c)
    BY <1>1 DEF At, Plan
  <2>5. ASSUME NEW p \in Stage, Plan(h)'.model # "FOUNDER_CONTROLLED", Plan(h)'.phases[p].status = "COMPLETE",
               NEW c, c = At(h).closures[p].candidate
        PROVE  /\ c \in commitLog'[h].line
               /\ At(c)'.evidence = At(h)'.evidence
               /\ Plan(c)'.phases[p].definition = Plan(h)'.phases[p].definition
    <3>1. /\ c \in commitLog[h].line \cap Logged /\ At(c).evidence = At(h).evidence
          /\ Plan(c).phases[p].definition = Plan(h).phases[p].definition
      BY <2>2, <2>3, <2>5
    <3>2. At(c)' = At(c) /\ Plan(c)' = Plan(c)
      BY <2>4, <3>1
    <3> QED
      BY <2>1, <2>3, <3>1, <3>2
  <2>6. At(h)'.closures = At(h).closures
    BY <2>3
  <2> QED
    BY <2>5, <2>6, Zenon DEF Reviewed, Includes
<1> QED
  BY <1>1, <1>2, <1>3, <1>4

LEMMA PushStep ==
  ASSUME ExpansionInv, NEW files, PushCommit(files)
  PROVE  ExpansionInv'
<1> USE DEF ExpansionInv
<1>1. Tip \in Logged /\ Len(pulls) \in 1..Len(pulls) /\ Len(pulls) \in Nat
  BY AppendAny DEF LogInv, Tip
<1> DEFINE commit == [files |-> files, parent |-> Tip, line |-> commitLog[Tip].line \cup {Len(commitLog) + 1}]
<1>2. commitLog' = Append(commitLog, commit) /\ commit.line \subseteq Logged \cup {Len(commitLog) + 1}
  BY <1>1 DEF PushCommit, LogInv
<1>3. /\ IsSeq(commitLog') /\ Len(commitLog') = Len(commitLog) + 1
      /\ Logged' = Logged \cup {Len(commitLog) + 1}
      /\ \A c \in Logged' : commitLog'[c].line \subseteq Logged'
      /\ \A h \in Logged : Reviewed(h) => Reviewed(h)'
  BY <1>2, LogGrows
<1>4. Len(commitLog') # 0
  BY <1>3, AppendAny DEF LogInv
<1>5. /\ IsSeq(pulls') /\ Len(pulls') = Len(pulls)
      /\ \A k \in 1..Len(pulls) : pulls'[k].head \in Logged' /\ DOMAIN pulls'[k] = {"head", "base"}
  <2> DEFINE tip == [pulls[Len(pulls)] EXCEPT !.head = Len(commitLog) + 1]
  <2>1. pulls' = [pulls EXCEPT ![Len(pulls)] = tip]
    BY DEF PushCommit
  <2>2. DOMAIN tip = {"head", "base"} /\ tip.head = Len(commitLog) + 1
    BY <1>1 DEF LogInv
  <2> HIDE DEF tip
  <2>3. /\ IsSeq(pulls') /\ Len(pulls') = Len(pulls) /\ pulls'[Len(pulls)] = tip
        /\ \A k \in 1..Len(pulls) \ {Len(pulls)} : pulls'[k] = pulls[k]
    <3>1. IsSeq(pulls)
      BY DEF LogInv
    <3>2. /\ IsSeq([pulls EXCEPT ![Len(pulls)] = tip]) /\ Len([pulls EXCEPT ![Len(pulls)] = tip]) = Len(pulls)
          /\ [pulls EXCEPT ![Len(pulls)] = tip][Len(pulls)] = tip
          /\ \A k \in 1..Len(pulls) \ {Len(pulls)} : [pulls EXCEPT ![Len(pulls)] = tip][k] = pulls[k]
      BY <1>1, <3>1, ExceptAny
    <3> QED
      BY <2>1, <3>2, Zenon
  <2> QED
    BY <1>3, <2>2, <2>3 DEF LogInv
<1>6. LogInv'
  BY <1>3, <1>4, <1>5 DEF LogInv, PushCommit
<1>7. ActsInv'
  BY <1>3 DEF ActsInv, PushCommit
<1> QED
  BY <1>6, <1>7

LEMMA HappensStep ==
  ASSUME ExpansionInv, NEW act, Happens(act), "type" \in DOMAIN act,
         act.type = "run" /\ act.conclusion = "success" => act.head \in Logged /\ ProgramStands(act.head)
  PROVE  ExpansionInv'
<1> USE DEF ExpansionInv
<1>1. /\ IsSeq(acts') /\ Len(acts) \in Nat /\ Len(acts') = Len(acts) + 1 /\ acts'[Len(acts) + 1] = act
      /\ \A i \in 1..Len(acts) : acts'[i] = acts[i]
  BY AppendAny DEF Happens, ActsInv
<1>2. UNCHANGED <<commitLog, mainTip, pulls>>
  BY DEF Happens
<1>3. LogInv' /\ Logged' = Logged /\ \A h : Reviewed(h) => Reviewed(h)'
  BY <1>2 DEF LogInv, Logged, Reviewed, Plan, At, Includes
<1>4. \A i \in 1..Len(acts') : i \in 1..Len(acts) \/ i = Len(acts) + 1
  BY <1>1
<1>5. ActsInv'
  BY <1>1, <1>3, <1>4, StandingIsReviewed DEF ActsInv
<1> QED
  BY <1>3, <1>5

LEMMA ExpansionInitInv == ExpansionInit => ExpansionInv
<1> SUFFICES ASSUME ExpansionInit PROVE ExpansionInv
  OBVIOUS
<1>1. PICK files : commitLog = << [files |-> files, parent |-> 1, line |-> {1}],
                                  [files |-> [files EXCEPT !.evidence = 1], parent |-> 1, line |-> {1, 2}] >>
  BY DEF ExpansionInit
<1>2. /\ Len(commitLog) = 2 /\ Logged = {1, 2}
      /\ commitLog[1].line = {1} /\ commitLog[2].line = {1, 2}
  BY <1>1 DEF Logged
<1>3. IsSeq(commitLog)
  <2> DEFINE a == [files |-> files, parent |-> 1, line |-> {1}]
             b == [files |-> [files EXCEPT !.evidence = 1], parent |-> 1, line |-> {1, 2}]
  <2> HIDE DEF a, b
  <2>1. <<a, b>> \in Seq({a, b})
    OBVIOUS
  <2>2. commitLog = <<a, b>>
    BY <1>1 DEF a, b
  <2> QED
    BY <2>1, <2>2 DEF IsSeq
<1>4. /\ pulls \in Seq([head : Nat, base : Nat]) /\ Len(pulls) = 1
      /\ pulls[1].head = 2 /\ DOMAIN pulls[1] = {"head", "base"} /\ mainTip = 1
  BY DEF ExpansionInit
<1>5. IsSeq(pulls)
  BY <1>4 DEF IsSeq
<1>6. LogInv
  BY <1>2, <1>3, <1>4, <1>5 DEF LogInv
<1>7. acts \in Seq({}) /\ Len(acts) = 0
  BY DEF ExpansionInit
<1>8. ActsInv
  BY <1>7 DEF ActsInv, IsSeq
<1> QED
  BY <1>6, <1>8 DEF ExpansionInv

LEMMA ExpansionStep ==
  ASSUME ExpansionInv, [ExpansionNext]_expansionVars
  PROVE  ExpansionInv'
<1> USE DEF ExpansionInv
<1>0. Len(pulls) \in Nat /\ Len(pulls) \in 1..Len(pulls) /\ Tip \in Logged /\ Len(acts) \in Nat
  BY AppendAny DEF LogInv, ActsInv, Tip
<1>1. CASE OpenPull
  <2> DEFINE opened == [head |-> Tip, base |-> mainTip]
  <2>1. pulls' = Append(pulls, opened) /\ UNCHANGED <<commitLog, mainTip, acts>>
    BY <1>1 DEF OpenPull
  <2>2. DOMAIN opened = {"head", "base"} /\ opened.head \in Logged
    BY <1>0
  <2> HIDE DEF opened
  <2>3. /\ IsSeq(pulls') /\ Len(pulls') = Len(pulls) + 1 /\ pulls'[Len(pulls) + 1] = opened
        /\ \A k \in 1..Len(pulls) : pulls'[k] = pulls[k]
    BY <2>1, AppendAny DEF LogInv
  <2>4. \A k \in 1..Len(pulls') : k \in 1..Len(pulls) \/ k = Len(pulls) + 1
    BY <1>0, <2>3
  <2>5. Len(pulls') # 0 /\ Logged' = Logged
    BY <1>0, <2>1, <2>3 DEF Logged
  <2>7. ASSUME NEW h PROVE Reviewed(h) => Reviewed(h)'
    BY <2>1 DEF Reviewed, Plan, At, Includes
  <2>6. LogInv'
    BY <2>1, <2>2, <2>3, <2>4, <2>5 DEF LogInv
  <2> QED
    BY <2>1, <2>5, <2>6, <2>7 DEF ActsInv
<1>2. CASE CanonicalRun
  <2>1. PICK conclusion :
          /\ Happens([type |-> "run", head |-> Tip, conclusion |-> conclusion])
          /\ conclusion = "success" => ProgramStands(Tip)
    BY <1>2 DEF CanonicalRun
  <2> QED
    BY <1>0, <2>1, HappensStep
<1>3. CASE OwnerComments
  <2>1. PICK author, decision :
          Happens([type |-> "comment", author |-> author, pull |-> Len(pulls), edited |-> FALSE, decision |-> decision])
    BY <1>3 DEF OwnerComments
  <2> QED
    BY <2>1, HappensStep
<1>4. CASE ReviewCandidate
  <2>1. PICK author, approves, subject :
          Happens([type |-> "review", author |-> author, pull |-> Len(pulls), approves |-> approves, subject |-> subject])
    BY <1>4, Zenon DEF ReviewCandidate
  <2> QED
    BY <2>1, HappensStep
<1>5. CASE EditComment
  <2>1. PICK i \in 1..Len(acts) :
          /\ acts[i].type = "comment" /\ acts' = [acts EXCEPT ![i] = [acts[i] EXCEPT !.edited = TRUE]]
          /\ UNCHANGED <<commitLog, mainTip, pulls>>
    BY <1>5, AppendAny DEF EditComment, ActsInv
  <2> DEFINE edited == [acts[i] EXCEPT !.edited = TRUE]
  <2>2. "type" \in DOMAIN edited /\ edited.type = "comment"
    BY <2>1 DEF ActsInv
  <2> HIDE DEF edited
  <2>3. /\ IsSeq([acts EXCEPT ![i] = edited]) /\ Len([acts EXCEPT ![i] = edited]) = Len(acts)
        /\ [acts EXCEPT ![i] = edited][i] = edited
        /\ \A j \in 1..Len(acts) \ {i} : [acts EXCEPT ![i] = edited][j] = acts[j]
    BY ExceptAny DEF ActsInv
  <2>4. /\ IsSeq(acts') /\ Len(acts') = Len(acts) /\ acts'[i] = edited
        /\ \A j \in 1..Len(acts) \ {i} : acts'[j] = acts[j]
    BY <2>1, <2>3, Zenon DEF edited
  <2>5. LogInv' /\ Logged' = Logged /\ \A h : Reviewed(h) => Reviewed(h)'
    BY <2>1 DEF LogInv, Logged, Reviewed, Plan, At, Includes
  <2>6. ActsInv'
    BY <2>2, <2>4, <2>5 DEF ActsInv
  <2> QED
    BY <2>5, <2>6
<1>6. CASE RecordApproval \/ RecordClosure \/ Work
  <2>1. PICK files : PushCommit(files)
    <3>1. CASE RecordApproval
      BY <3>1, Zenon DEF RecordApproval
    <3>2. CASE RecordClosure
      BY <3>2, Zenon DEF RecordClosure
    <3>3. CASE Work
      BY <3>3, Zenon DEF Work
    <3> QED
      BY <1>6, <3>1, <3>2, <3>3
  <2> QED
    BY <2>1, PushStep
<1>7. CASE SquashMerge
  <2> DEFINE commit == [files |-> At(Tip), parent |-> mainTip, line |-> commitLog[mainTip].line \cup {Len(commitLog) + 1}]
             merged == [head |-> Len(commitLog) + 1, base |-> Len(commitLog) + 1]
  <2>1. /\ commitLog' = Append(commitLog, commit) /\ commit.line \subseteq Logged \cup {Len(commitLog) + 1}
        /\ mainTip' = Len(commitLog) + 1 /\ pulls' = Append(pulls, merged) /\ UNCHANGED acts
    BY <1>7 DEF SquashMerge, LogInv
  <2>2. /\ IsSeq(commitLog') /\ Len(commitLog') = Len(commitLog) + 1
        /\ Logged' = Logged \cup {Len(commitLog) + 1}
        /\ \A c \in Logged' : commitLog'[c].line \subseteq Logged'
        /\ \A h \in Logged : Reviewed(h) => Reviewed(h)'
    BY <2>1, LogGrows
  <2>3. Len(commitLog') # 0
    BY <2>2, AppendAny DEF LogInv
  <2>4. DOMAIN merged = {"head", "base"} /\ merged.head = Len(commitLog) + 1
    OBVIOUS
  <2> HIDE DEF merged
  <2>5. /\ IsSeq(pulls') /\ Len(pulls') = Len(pulls) + 1 /\ pulls'[Len(pulls) + 1] = merged
        /\ \A k \in 1..Len(pulls) : pulls'[k] = pulls[k]
    BY <2>1, AppendAny DEF LogInv
  <2>6. \A k \in 1..Len(pulls') : k \in 1..Len(pulls) \/ k = Len(pulls) + 1
    BY <1>0, <2>5
  <2>7. Len(pulls') # 0
    BY <1>0, <2>5
  <2>8. LogInv'
    BY <2>1, <2>2, <2>3, <2>4, <2>5, <2>6, <2>7 DEF LogInv
  <2>9. ActsInv'
    BY <2>1, <2>2 DEF ActsInv
  <2> QED
    BY <2>8, <2>9
<1>8. CASE UNCHANGED expansionVars
  BY <1>8 DEF expansionVars, LogInv, ActsInv, Logged, Reviewed, Plan, At, Includes
<1> QED
  BY <1>1, <1>2, <1>3, <1>4, <1>5, <1>6, <1>7, <1>8 DEF ExpansionNext

\* What the certification of a head found on GitHub and in the history is what
\* every complete phase of the head demands.
LEMMA CertifiedByOwner ==
  ASSUME NEW h, Certified(h), Plan(h).model = "FOUNDER_CONTROLLED",
         NEW p \in Stage, Plan(h).phases[p].status = "COMPLETE"
  PROVE  \E candidate \in commitLog[h].line :
           /\ At(candidate).evidence = At(h).evidence
           /\ Plan(candidate).phases[p].definition = Plan(h).phases[p].definition
           /\ \E i \in DOMAIN acts :
                /\ acts[i].type = "comment" /\ acts[i].author = Owner /\ ~acts[i].edited
                /\ acts[i].decision.phase = p /\ acts[i].decision.candidate = candidate
<1> DEFINE a == At(h).approvals[p]
<1>1. ApprovalStands(h, p) /\ OwnerActStands(a)
  BY DEF Certified, ReviewsAuthenticated
<1>2. /\ a.candidate \in commitLog[h].line /\ a.phase = p
      /\ At(a.candidate).evidence = At(h).evidence
      /\ Plan(a.candidate).phases[p].definition = Plan(h).phases[p].definition
  BY <1>1 DEF ApprovalStands, Includes, RefHolds
<1>3. /\ a.act \in DOMAIN acts
      /\ acts[a.act].type = "comment" /\ acts[a.act].author = Owner /\ ~acts[a.act].edited
      /\ acts[a.act].decision.phase = a.phase /\ acts[a.act].decision.candidate = a.candidate
  BY <1>1 DEF OwnerActStands
<1> QED
  BY <1>2, <1>3

LEMMA CertifiedByReviews ==
  ASSUME ExpansionInv, NEW h, Certified(h), Plan(h).model # "FOUNDER_CONTROLLED",
         NEW p \in Stage, Plan(h).phases[p].status = "COMPLETE"
  PROVE  \E candidate \in commitLog[h].line :
           /\ At(candidate).evidence = At(h).evidence
           /\ Plan(candidate).phases[p].definition = Plan(h).phases[p].definition
           /\ \A r \in Reviewer : \E i, j \in DOMAIN acts :
                /\ IsRun(i, candidate) /\ acts[i].conclusion = "success" /\ i < j
                /\ acts[j].type = "review" /\ acts[j].author = r /\ acts[j].approves
                /\ acts[j].subject.candidate = candidate
<1> DEFINE c == At(h).closures[p]
<1>1. Reviewed(h)
  <2>1. PICK i \in DOMAIN acts : acts[i].type = "run" /\ acts[i].head = h /\ acts[i].conclusion = "success"
    BY DEF Certified, CanonicalRunPassed, IsRun
  <2> QED
    BY <2>1, AppendAny DEF ExpansionInv, ActsInv
<1>2. /\ c.candidate \in commitLog[h].line
      /\ At(c.candidate).evidence = At(h).evidence
      /\ Plan(c.candidate).phases[p].definition = Plan(h).phases[p].definition
  BY <1>1 DEF Reviewed, Includes
<1>3. ASSUME NEW r \in Reviewer
      PROVE  \E i, j \in DOMAIN acts :
                /\ IsRun(i, c.candidate) /\ acts[i].conclusion = "success" /\ i < j
                /\ acts[j].type = "review" /\ acts[j].author = r /\ acts[j].approves
                /\ acts[j].subject.candidate = c.candidate
  <2>1. Authenticated(c, r)
    BY DEF Certified, ReviewsAuthenticated
  <2>2. /\ c.run \in DOMAIN acts /\ c.reviews[r].act \in DOMAIN acts
        /\ IsRun(c.run, c.candidate) /\ acts[c.run].conclusion = "success" /\ c.run < c.reviews[r].act
        /\ acts[c.reviews[r].act].type = "review" /\ acts[c.reviews[r].act].author = r
        /\ acts[c.reviews[r].act].approves
        /\ acts[c.reviews[r].act].subject.candidate = c.candidate
    BY <2>1 DEF Authenticated, IsRun
  <2> QED
    BY <2>2
<1> QED
  BY <1>2, <1>3

\* A green pull request has, for every phase that is complete in it, the owner's
\* unedited words or both reviewers' approvals about an ancestor with the very
\* evidence and definition of the head
\* (src/scripts/autonomous_seo_review_trust.py, autonomous_seo_phase_closure.py).
THEOREM CertifiedAreApproved == ExpansionSpec => []CertifiedIsApproved
<1>1. ExpansionInv => CertifiedIsApproved
  <2> SUFFICES ASSUME ExpansionInv, NEW h \in {pulls[k].head : k \in DOMAIN pulls}, Certified(h),
                      NEW p \in Stage, Plan(h).phases[p].status = "COMPLETE"
               PROVE  \E candidate \in commitLog[h].line :
        /\ At(candidate).evidence = At(h).evidence
        /\ Plan(candidate).phases[p].definition = Plan(h).phases[p].definition
        /\ IF Plan(h).model = "FOUNDER_CONTROLLED"
             THEN \E i \in DOMAIN acts :
                    /\ acts[i].type = "comment" /\ acts[i].author = Owner /\ ~acts[i].edited
                    /\ acts[i].decision.phase = p /\ acts[i].decision.candidate = candidate
             ELSE \A r \in Reviewer : \E i, j \in DOMAIN acts :
                    /\ IsRun(i, candidate) /\ acts[i].conclusion = "success" /\ i < j
                    /\ acts[j].type = "review" /\ acts[j].author = r /\ acts[j].approves
                    /\ acts[j].subject.candidate = candidate
    BY DEF CertifiedIsApproved
  <2> QED
    BY CertifiedByOwner, CertifiedByReviews
<1> QED
  BY <1>1, ExpansionInitInv, ExpansionStep, PTL DEF ExpansionSpec

-----------------------------------------------------------------------------
(* The quality ratchet.  A commit of main is compared with the revision of    *)
(* the contract before its own, which holds what the commit before it holds,  *)
(* so that a row of green commits never loosens the contract.                 *)

Tree == [debt : [RatchetFiles -> Nat], covered : Nat, ceiling : [RatchetFiles -> Nat], floor : Nat]
Main == 1..Len(trunk)

RatchetTypes ==
  /\ trunk \in Seq([tree : Tree, touched : BOOLEAN, green : BOOLEAN]) /\ Len(trunk) # 0
  /\ pull \in Seq([tree : Tree, touched : BOOLEAN])

\* The newest revision of the contract is the one that the tip of main holds.
IsNewest(m) ==
  /\ m \in Main /\ trunk[m].touched
  /\ \A k \in Main : trunk[k].touched => k <= m
  /\ SameContract(trunk[m].tree, trunk[Len(trunk)].tree)

GreenInv == \A k \in Main : trunk[k].green => ~MeasurementErrors(trunk[k].tree) /\ ~CoverageErrors(trunk[k].tree)

MonotonicInv ==
  \A i, k \in Main :
    i <= k /\ (\A n \in i..k : trunk[n].green) => ~MonotonicContractErrors(trunk[i].tree, trunk[k].tree)

RatchetInv == RatchetTypes /\ (\E m \in Main : IsNewest(m)) /\ GreenInv /\ MonotonicInv

LEMMA SameIsMonotonic ==
  ASSUME NEW t \in Tree, NEW u \in Tree, SameContract(u, t)
  PROVE  ~MonotonicContractErrors(t, u)
<1>1. \A f \in RatchetFiles : u.ceiling[f] = t.ceiling[f] /\ t.ceiling[f] \in Nat
  BY DEF SameContract, Tree
<1>2. Excepted(u) \subseteq Excepted(t) /\ \A f \in Excepted(u) : f \in RatchetFiles
  BY <1>1 DEF Excepted
<1>3. u.floor = t.floor /\ t.floor \in Nat
  BY DEF SameContract, Tree
<1> QED
  BY <1>1, <1>2, <1>3 DEF MonotonicContractErrors, MonotonicExceptionErrors

LEMMA MonotonicTransitive ==
  ASSUME NEW t \in Tree, NEW u \in Tree, NEW v \in Tree,
         ~MonotonicContractErrors(t, u), ~MonotonicContractErrors(u, v)
  PROVE  ~MonotonicContractErrors(t, v)
<1>1. Excepted(v) \subseteq Excepted(u) /\ Excepted(u) \subseteq Excepted(t) /\ Excepted(v) \subseteq RatchetFiles
  BY DEF MonotonicContractErrors, MonotonicExceptionErrors, Excepted
<1>2. \A f \in RatchetFiles : t.ceiling[f] \in Nat /\ u.ceiling[f] \in Nat /\ v.ceiling[f] \in Nat
  BY DEF Tree
<1>3. \A f \in Excepted(v) : v.ceiling[f] <= u.ceiling[f] /\ u.ceiling[f] <= t.ceiling[f]
  BY <1>1, <1>2 DEF MonotonicContractErrors, MonotonicExceptionErrors
<1>4. \A f \in Excepted(v) : ~(v.ceiling[f] > t.ceiling[f])
  BY <1>1, <1>2, <1>3
<1>5. ~(v.floor < t.floor)
  BY DEF MonotonicContractErrors, Tree
<1> QED
  BY <1>1, <1>4, <1>5 DEF MonotonicContractErrors, MonotonicExceptionErrors

LEMMA PullTipIsTree ==
  ASSUME RatchetTypes
  PROVE  PullTip \in Tree /\ trunk[Len(trunk)].tree \in Tree /\ Len(trunk) \in Main
<1>1. Len(trunk) \in Nat /\ Len(pull) \in Nat
  BY LenProperties DEF RatchetTypes
<1>2. Len(trunk) \in Main /\ (pull # <<>> => Len(pull) \in 1..Len(pull))
  BY <1>1, EmptySeq DEF RatchetTypes, Main
<1>3. trunk[Len(trunk)] \in [tree : Tree, touched : BOOLEAN, green : BOOLEAN]
  BY <1>2, ElementOfSeq DEF RatchetTypes, Main
<1>4. pull # <<>> => pull[Len(pull)] \in [tree : Tree, touched : BOOLEAN]
  BY <1>2, ElementOfSeq DEF RatchetTypes
<1> QED
  BY <1>2, <1>3, <1>4 DEF PullTip

LEMMA TrunkTree ==
  ASSUME RatchetTypes, NEW k \in Main
  PROVE  trunk[k].tree \in Tree
<1>1. trunk[k] \in [tree : Tree, touched : BOOLEAN, green : BOOLEAN]
  BY ElementOfSeq DEF RatchetTypes, Main
<1> QED
  BY <1>1

LEMMA RatchetInitInv == RatchetInit => RatchetInv
<1> SUFFICES ASSUME RatchetInit PROVE RatchetInv
  OBVIOUS
<1>1. PICK t \in Consistent : trunk = <<[tree |-> t, touched |-> TRUE, green |-> TRUE]>>
  BY DEF RatchetInit
<1>2. t \in Tree /\ ~MeasurementErrors(t) /\ ~CoverageErrors(t)
  BY RatchetAssumption DEF Consistent, Tree, Debts, Floors
<1>3. /\ Len(trunk) = 1 /\ Main = {1}
      /\ trunk[1].tree = t /\ trunk[1].touched /\ trunk[1].green
  BY <1>1 DEF Main
<1>4. RatchetTypes
  BY <1>1, <1>2, <1>3 DEF RatchetInit, RatchetTypes
<1>5. IsNewest(1)
  BY <1>3 DEF IsNewest, SameContract
<1>6. SameContract(t, t)
  BY DEF SameContract
<1>7. GreenInv /\ MonotonicInv
  BY <1>2, <1>3, <1>6, SameIsMonotonic DEF GreenInv, MonotonicInv
<1> QED
  BY <1>3, <1>4, <1>5, <1>7 DEF RatchetInv

\* What a green squash was compared with.
LEMMA GreenSquash ==
  ASSUME RatchetInv, NEW commit \in [tree : Tree, touched : BOOLEAN, green : BOOLEAN],
         commit.touched = ~SameContract(commit.tree, trunk[Len(trunk)].tree),
         RatchetHolds(Append(trunk, commit))
  PROVE  /\ ~MeasurementErrors(commit.tree) /\ ~CoverageErrors(commit.tree)
         /\ ~MonotonicContractErrors(trunk[Len(trunk)].tree, commit.tree)
<1> DEFINE longer == Append(trunk, commit)
<1>0. RatchetTypes /\ Len(trunk) \in Nat /\ trunk[Len(trunk)].tree \in Tree
  BY LenProperties, PullTipIsTree DEF RatchetInv, RatchetTypes
<1>1. /\ Len(longer) = Len(trunk) + 1 /\ longer[Len(trunk) + 1] = commit
      /\ \A k \in Main : longer[k] = trunk[k]
  BY <1>0, AppendProperties DEF RatchetTypes, Main
<1>2. RatchetHolds(longer)
  OBVIOUS
<1> HIDE DEF longer
<1>3. /\ ~MeasurementErrors(commit.tree) /\ ~CoverageErrors(commit.tree)
      /\ ~MonotonicContractErrors(PreviousContract(longer), commit.tree)
  BY <1>1, <1>2 DEF RatchetHolds
<1>4. CASE ~commit.touched
  BY <1>0, <1>3, <1>4, SameIsMonotonic
<1>5. CASE commit.touched
  <2>1. PICK m \in Main : IsNewest(m)
    BY DEF RatchetInv
  <2> DEFINE revisions == {i \in 1..Len(longer) : longer[i].touched}
             newest == CHOOSE i \in revisions : \A k \in revisions : k <= i
             older == revisions \ {newest}
             before == CHOOSE i \in older : \A k \in older : k <= i
  <2>2. 1..Len(longer) = Main \cup {Len(trunk) + 1} /\ Len(trunk) + 1 \notin Main
    BY <1>0, <1>1 DEF Main
  <2>3. /\ Len(trunk) + 1 \in revisions /\ \A k \in revisions : k \in Nat /\ k <= Len(trunk) + 1
    BY <1>0, <1>1, <1>5, <2>2 DEF Main
  <2>4. newest = Len(trunk) + 1
    <3>1. newest \in revisions /\ \A k \in revisions : k <= newest
      BY <2>3
    <3> QED
      BY <1>0, <2>3, <3>1
  <2>5. m \in older /\ \A k \in older : k \in Main /\ k <= m
    BY <1>1, <2>1, <2>2, <2>4 DEF IsNewest
  <2>7. PreviousContract(longer) = IF older = {} THEN longer[1].tree ELSE longer[before].tree
    BY DEF PreviousContract
  <2>11. m \in Nat /\ \A k \in older : k \in Nat
    BY <1>0, <2>5 DEF Main
  <2>12. before \in older /\ \A k \in older : k <= before
    BY <2>5
  <2> HIDE DEF before, older
  <2>6. before = m
    <3>1. before \in Nat /\ before <= m /\ m <= before
      BY <2>5, <2>11, <2>12
    <3> QED
      BY <2>11, <3>1
  <2>8. PreviousContract(longer) = trunk[m].tree
    BY <1>1, <2>5, <2>6, <2>7
  <2>9. trunk[m].tree \in Tree
    BY <1>0, <2>1, TrunkTree
  <2>10. ~MonotonicContractErrors(trunk[Len(trunk)].tree, trunk[m].tree)
    BY <1>0, <2>1, <2>9, SameIsMonotonic DEF IsNewest
  <2> QED
    BY <1>0, <1>3, <2>8, <2>9, <2>10, MonotonicTransitive
<1> QED
  BY <1>3, <1>4, <1>5

LEMMA RatchetStep == RatchetInv /\ [RatchetNext]_ratchetVars => RatchetInv'
<1> SUFFICES ASSUME RatchetInv, [RatchetNext]_ratchetVars PROVE RatchetInv'
  OBVIOUS
<1>0. RatchetTypes /\ PullTip \in Tree /\ trunk[Len(trunk)].tree \in Tree /\ Len(trunk) \in Nat /\ Len(trunk) \in Main
  BY PullTipIsTree, LenProperties DEF RatchetInv, RatchetTypes
<1>1. ASSUME NEW tree \in Tree, NEW touched \in BOOLEAN, Push(tree, touched)
      PROVE  RatchetInv'
  <2>1. trunk' = trunk /\ pull' = Append(pull, [tree |-> tree, touched |-> touched])
    BY <1>1 DEF Push
  <2>2. pull' \in Seq([tree : Tree, touched : BOOLEAN])
    BY <1>0, <2>1, AppendProperties DEF RatchetTypes
  <2> QED
    BY <2>1, <2>2 DEF RatchetInv, RatchetTypes, IsNewest, GreenInv, MonotonicInv, Main
<1>2. CASE ChangeDebt
  <2>1. PICK f \in RatchetFiles, debt \in Debts, ceiling \in Debts :
          LET tree == [PullTip EXCEPT !.debt[f] = debt, !.ceiling[f] = ceiling]
          IN  Push(tree, ~SameContract(tree, PullTip))
    BY <1>2 DEF ChangeDebt
  <2>3. debt \in Nat /\ ceiling \in Nat
    BY RatchetAssumption DEF Debts
  <2>2. [PullTip EXCEPT !.debt[f] = debt, !.ceiling[f] = ceiling] \in Tree
    BY <1>0, <2>3 DEF Tree
  <2> QED
    BY <1>1, <2>1, <2>2 DEF SameContract
<1>3. CASE ChangeCoverage
  <2>1. PICK covered \in Floors, floor \in Floors :
          LET tree == [PullTip EXCEPT !.covered = covered, !.floor = floor]
          IN  Push(tree, ~SameContract(tree, PullTip))
    BY <1>3 DEF ChangeCoverage
  <2>3. covered \in Nat /\ floor \in Nat
    BY RatchetAssumption DEF Floors
  <2>2. [PullTip EXCEPT !.covered = covered, !.floor = floor] \in Tree
    BY <1>0, <2>3 DEF Tree
  <2> QED
    BY <1>1, <2>1, <2>2 DEF SameContract
<1>4. CASE Reword
  BY <1>0, <1>1, <1>4 DEF Reword
<1>7. CASE Tighten
  <2>1. Tightened(PullTip) \in Tree
    BY <1>0 DEF Tightened, Tree
  <2> QED
    BY <1>1, <1>7, <2>1 DEF Tighten
<1>5. CASE SquashPull
  <2> DEFINE squashed == [tree |-> PullTip, touched |-> ~SameContract(PullTip, trunk[Len(trunk)].tree), green |-> TRUE]
             green == RatchetHolds(Append(trunk, squashed))
             commit == [squashed EXCEPT !.green = green]
             n == Len(trunk) + 1
  <2>1. trunk' = Append(trunk, commit) /\ pull' = <<>>
    BY <1>5 DEF SquashPull
  <2>2. squashed \in [tree : Tree, touched : BOOLEAN, green : BOOLEAN]
    BY <1>0 DEF SameContract
  <2>3. commit \in [tree : Tree, touched : BOOLEAN, green : BOOLEAN]
    BY <1>0, <2>2 DEF RatchetHolds
  <2>4. /\ commit.tree = PullTip /\ commit.touched = ~SameContract(PullTip, trunk[Len(trunk)].tree)
        /\ commit.green => /\ ~MeasurementErrors(PullTip) /\ ~CoverageErrors(PullTip)
                           /\ ~MonotonicContractErrors(trunk[Len(trunk)].tree, PullTip)
    BY <2>2, GreenSquash
  <2> HIDE DEF squashed, green, commit
  <2>5. /\ Len(trunk') = n /\ trunk'[n] = commit /\ \A k \in Main : trunk'[k] = trunk[k]
        /\ trunk' \in Seq([tree : Tree, touched : BOOLEAN, green : BOOLEAN])
    BY <1>0, <2>1, <2>3, AppendProperties DEF RatchetTypes, Main
  <2>6. Main' = Main \cup {n} /\ n \notin Main /\ n # 0
    BY <1>0, <2>5 DEF Main
  <2>7. RatchetTypes'
    BY <2>1, <2>5, <2>6 DEF RatchetTypes
  <2>8. \E m \in Main' : IsNewest(m)'
    <3>1. CASE commit.touched
      <4>1. \A k \in Main' : k <= n
        BY <1>0, <2>6 DEF Main
      <4> QED
        BY <2>5, <2>6, <3>1, <4>1 DEF IsNewest, SameContract
    <3>2. CASE ~commit.touched
      <4>1. PICK m \in Main : IsNewest(m)
        BY DEF RatchetInv
      <4>2. SameContract(trunk[m].tree, commit.tree)
        BY <2>4, <3>2, <4>1 DEF IsNewest, SameContract
      <4> QED
        BY <2>5, <2>6, <3>2, <4>1, <4>2 DEF IsNewest
    <3> QED
      BY <3>1, <3>2
  <2>9. GreenInv'
    BY <2>4, <2>5, <2>6 DEF GreenInv, RatchetInv
  <2>10. MonotonicInv'
    <3> SUFFICES ASSUME NEW i \in Main', NEW k \in Main', i <= k, \A j \in i..k : trunk'[j].green
                 PROVE  ~MonotonicContractErrors(trunk'[i].tree, trunk'[k].tree)
      BY DEF MonotonicInv
    <3>0. i \in Nat /\ k \in Nat /\ (i = n => k = n)
      BY <1>0, <2>6 DEF Main
    <3>1. CASE k # n
      <4>1. i \in Main /\ k \in Main /\ \A j \in i..k : j \in Main
        BY <1>0, <2>6, <3>0, <3>1 DEF Main
      <4> QED
        BY <2>5, <4>1 DEF RatchetInv, MonotonicInv
    <3>2. CASE k = n /\ i = n
      BY <2>3, <2>5, <3>2, SameIsMonotonic DEF SameContract
    <3>3. CASE k = n /\ i # n
      <4>1. i \in Main /\ i <= Len(trunk) /\ n \in i..k /\ \A j \in i..Len(trunk) : j \in Main /\ j \in i..k
        BY <1>0, <2>6, <3>0, <3>3 DEF Main
      <4>2. ~MonotonicContractErrors(trunk[i].tree, trunk[Len(trunk)].tree)
        BY <1>0, <2>5, <4>1 DEF RatchetInv, MonotonicInv
      <4>3. ~MonotonicContractErrors(trunk[Len(trunk)].tree, commit.tree)
        BY <2>4, <2>5, <4>1
      <4>4. trunk[i].tree \in Tree /\ commit.tree \in Tree
        BY <1>0, <2>3, <4>1, TrunkTree
      <4>5. ~MonotonicContractErrors(trunk[i].tree, commit.tree)
        BY <1>0, <4>2, <4>3, <4>4, MonotonicTransitive
      <4> QED
        BY <2>5, <3>3, <4>1, <4>5
    <3> QED
      BY <3>1, <3>2, <3>3
  <2> QED
    BY <2>7, <2>8, <2>9, <2>10 DEF RatchetInv
<1>6. CASE UNCHANGED ratchetVars
  BY <1>6 DEF ratchetVars, RatchetInv, RatchetTypes, IsNewest, GreenInv, MonotonicInv, Main
<1> QED
  BY <1>2, <1>3, <1>4, <1>5, <1>6, <1>7 DEF RatchetNext

\* While main stays green, no file's debt exceeds what it was at an earlier commit,
\* or the default, and coverage stays at the highest floor that was reached
\* (src/scripts/validate_quality_ratchets.py).
THEOREM DebtOnlyShrinks == RatchetSpec => []DebtNeverGrows
<1>1. RatchetInv => DebtNeverGrows
  <2> SUFFICES ASSUME RatchetInv, NEW i \in 1..Len(trunk), NEW k \in 1..Len(trunk),
                      i < k, \A n \in i..k : trunk[n].green
               PROVE  /\ \A f \in RatchetFiles : trunk[k].tree.debt[f] <= Greater(DefaultCeiling, trunk[i].tree.debt[f])
                      /\ trunk[k].tree.covered >= trunk[i].tree.floor
    BY DEF DebtNeverGrows
  <2>0. RatchetTypes /\ i \in Main /\ k \in Main /\ Len(trunk) \in Nat
    BY LenProperties DEF RatchetInv, RatchetTypes, Main
  <2>1. trunk[i].green /\ trunk[k].green /\ i <= k
    BY <2>0 DEF Main
  <2> DEFINE then == trunk[i].tree
             now == trunk[k].tree
  <2>2. then \in Tree /\ now \in Tree
    BY <2>0, TrunkTree
  <2>3. /\ ~MeasurementErrors(then) /\ ~MeasurementErrors(now) /\ ~CoverageErrors(now)
        /\ ~MonotonicContractErrors(then, now)
    BY <2>0, <2>1 DEF RatchetInv, GreenInv, MonotonicInv
  <2> HIDE DEF then, now
  <2>4. ASSUME NEW f \in RatchetFiles PROVE now.debt[f] <= Greater(DefaultCeiling, then.debt[f])
    <3>0. {now.debt[f], now.ceiling[f], then.debt[f], then.ceiling[f], DefaultCeiling} \subseteq Nat
      BY <2>2, RatchetAssumption DEF Tree
    <3>1. CASE f \in Excepted(now)
      <4>1. f \in Excepted(then) /\ ~(now.ceiling[f] > then.ceiling[f])
        BY <2>3, <3>1 DEF MonotonicContractErrors, MonotonicExceptionErrors
      <4>2. now.debt[f] = now.ceiling[f] /\ then.debt[f] = then.ceiling[f]
        BY <2>3, <3>1, <4>1 DEF MeasurementErrors
      <4> QED
        BY <3>0, <4>1, <4>2 DEF Greater
    <3>2. CASE f \notin Excepted(now)
      BY <2>3, <3>0, <3>2 DEF MeasurementErrors, Greater
    <3> QED
      BY <3>1, <3>2
  <2>5. now.covered >= then.floor
    BY <2>2, <2>3 DEF CoverageErrors, MonotonicContractErrors, Tree
  <2> QED
    BY <2>4, <2>5 DEF then, now
<1> QED
  BY <1>1, RatchetInitInv, RatchetStep, PTL DEF RatchetSpec

-----------------------------------------------------------------------------
(* The remediation program.  The programs of all commits have their fields,   *)
(* only a complete phase has verdicts, and a certification is one of CI; what *)
(* the validator then says of the head is what the property asks for.         *)

Commits == 1..Len(history)
TreeFields == {"program", "registry", "source", "rollback", "receipt"}
ProgramFields == {"current", "scope", "phases", "findings", "failures"}
PhaseFields == {"status", "contract", "review", "snapshot", "frozen", "certification"}

IsPhase(phase) ==
  /\ DOMAIN phase = PhaseFields
  /\ phase.certification # <<>> => phase.certification.class = "CI"
  /\ phase.review.verdicts # <<>> => phase.status = "COMPLETE"

IsProgram(program) ==
  /\ DOMAIN program = ProgramFields
  /\ program.current \in Phase
  /\ DOMAIN program.phases = Phase
  /\ \A q \in Phase :
       /\ IsPhase(program.phases[q])
       /\ q > program.current => program.phases[q].review.verdicts = <<>>

IsCommit(c) ==
  /\ DOMAIN history[c] = {"files", "line"} /\ history[c].line \subseteq Commits
  /\ DOMAIN Files(c) = TreeFields
  /\ c # Baseline => IsProgram(Files(c).program)

HistoryInv ==
  /\ IsSeq(history) /\ Len(history) # 0 /\ history[Baseline].line = {Baseline}
  /\ \A c \in Commits : IsCommit(c)

RemediationInv ==
  /\ HistoryInv
  /\ head \in Commits \ {Baseline} /\ passed \subseteq Commits \ {Baseline}
  /\ tag # <<>> => tag.commit \in Commits

LEMMA PhaseFacts == Phases \in Nat /\ 1 \in Phase /\ \A p \in Phase : p \in Nat /\ (p < Phases => p + 1 \in Phase)
BY RemediationAssumption DEF Phase

LEMMA RemediationInitInv == RemediationInit => RemediationInv
<1> SUFFICES ASSUME RemediationInit PROVE RemediationInv
  OBVIOUS
<1>1. PICK before, files :
        /\ DOMAIN before = TreeFields /\ DOMAIN files = TreeFields /\ files.program = FirstProgram
        /\ history = << [line |-> {1}, files |-> before], [line |-> {1, 2}, files |-> files] >>
  BY DEF RemediationInit, TreeFields
<1>2. /\ history \in Seq({history[1], history[2]}) /\ Len(history) = 2
      /\ DOMAIN history[1] = {"files", "line"} /\ DOMAIN history[2] = {"files", "line"}
      /\ history[1].line = {1} /\ history[2].line = {1, 2}
      /\ history[1].files = before /\ history[2].files = files
  BY <1>1
<1>3. Commits = {1, 2}
  BY <1>2 DEF Commits
<1>4. ASSUME NEW q \in Phase
      PROVE  IsPhase(FirstProgram.phases[q]) /\ FirstProgram.phases[q].review.verdicts = <<>>
  <2>1. DOMAIN Unstarted = PhaseFields /\ Unstarted.certification = <<>> /\ Unstarted.review.verdicts = <<>>
    BY DEF Unstarted, NoReview, PhaseFields
  <2>2. FirstProgram.phases[q] = IF q = 1 THEN [Unstarted EXCEPT !.status = "IN_PROGRESS", !.contract.baseline = Baseline]
                                 ELSE Unstarted
    BY DEF FirstProgram
  <2>3. LET first == [Unstarted EXCEPT !.status = "IN_PROGRESS", !.contract.baseline = Baseline]
        IN  DOMAIN first = PhaseFields /\ first.certification = <<>> /\ first.review.verdicts = <<>>
    BY <2>1 DEF PhaseFields
  <2> QED
    BY <2>1, <2>2, <2>3 DEF IsPhase
<1>5. DOMAIN FirstProgram = ProgramFields /\ FirstProgram.current = 1 /\ DOMAIN FirstProgram.phases = Phase
  BY DEF FirstProgram, ProgramFields
<1>6. IsProgram(FirstProgram)
  BY <1>4, <1>5, PhaseFacts DEF IsProgram
<1>7. IsCommit(1) /\ IsCommit(2)
  BY <1>1, <1>2, <1>3, <1>6 DEF IsCommit, Files, Baseline
<1>8. IsSeq(history)
  BY <1>2 DEF IsSeq
<1> QED
  BY <1>2, <1>3, <1>7, <1>8 DEF RemediationInv, HistoryInv, RemediationInit, Baseline

-----------------------------------------------------------------------------
(* One more commit, whose files are those of the head but for what changed.   *)

LEMMA CommitIsKept ==
  ASSUME RemediationInv, NEW commit, DOMAIN commit = {"files", "line"},
         commit.line \subseteq Commits \cup {Len(history) + 1},
         DOMAIN commit.files = TreeFields, IsProgram(commit.files.program),
         history' = Append(history, commit), head' = Len(history) + 1,
         passed' = passed, tag' = tag \/ tag'.commit \in Commits
  PROVE  RemediationInv'
<1>0. PICK n : n = Len(history) + 1
  OBVIOUS
<1>1. /\ IsSeq(history') /\ Len(history) \in Nat /\ Len(history') = n
      /\ \A c \in Commits : history'[c] = history[c]
      /\ history'[n] = commit
  BY <1>0, AppendAny DEF RemediationInv, HistoryInv, Commits
<1>2. Commits' = Commits \cup {n} /\ n \notin Commits /\ n # Baseline /\ Baseline \in Commits /\ Len(history') # 0
  BY <1>0, <1>1 DEF Commits, RemediationInv, HistoryInv, Baseline
<1>3. ASSUME NEW c \in Commits PROVE IsCommit(c)'
  BY <1>1, <1>2 DEF RemediationInv, HistoryInv, IsCommit, Files
<1>4. IsCommit(n)'
  BY <1>0, <1>1, <1>2 DEF IsCommit, Files
<1>5. HistoryInv'
  BY <1>1, <1>2, <1>3, <1>4 DEF HistoryInv, RemediationInv
<1> QED
  BY <1>0, <1>2, <1>5 DEF RemediationInv

LEMMA CommitStep ==
  ASSUME RemediationInv, NEW files, CommitFiles(files), UNCHANGED <<passed, tag>>,
         DOMAIN files = TreeFields, IsProgram(files.program)
  PROVE  RemediationInv'
<1> DEFINE commit == [files |-> files, line |-> history[head].line \cup {Len(history) + 1}]
<1>1. history' = Append(history, commit) /\ head' = Len(history) + 1
  BY DEF CommitFiles
<1>2. history[head].line \subseteq Commits
  BY DEF RemediationInv, HistoryInv, IsCommit
<1>3. /\ DOMAIN commit = {"files", "line"} /\ commit.files = files
      /\ commit.line \subseteq Commits \cup {Len(history) + 1}
  BY <1>2
<1> HIDE DEF commit
<1> QED
  BY <1>1, <1>3, CommitIsKept

LEMMA HeadIsProgram ==
  ASSUME RemediationInv
  PROVE  DOMAIN Files(head) = TreeFields /\ IsProgram(Program) /\ Files(head).program = Program
BY DEF RemediationInv, HistoryInv, IsCommit, Program

LEMMA EditedProgram ==
  ASSUME NEW program, IsProgram(program), NEW p \in Phase, NEW x
  PROVE  /\ IsProgram([program EXCEPT !.phases[p].contract = x])
         /\ IsProgram([program EXCEPT !.scope = x])
         /\ IsProgram([program EXCEPT !.findings[p] = x])
         /\ IsProgram([program EXCEPT !.failures[p] = x])
         /\ x.verdicts = <<>> => IsProgram([program EXCEPT !.phases[p].review = x])
<1>1. /\ DOMAIN program = ProgramFields /\ program.current \in Phase /\ DOMAIN program.phases = Phase
      /\ IsPhase(program.phases[p]) /\ DOMAIN program.phases[p] = PhaseFields
  BY DEF IsProgram, IsPhase
<1>2. ASSUME NEW phase, IsPhase(phase), p > program.current => phase.review.verdicts = <<>>,
             NEW other, DOMAIN other = ProgramFields, other.current = program.current,
             DOMAIN other.phases = Phase, other.phases[p] = phase,
             \A q \in Phase \ {p} : other.phases[q] = program.phases[q]
      PROVE  IsProgram(other)
  BY <1>1, <1>2 DEF IsProgram
<1>3. IsProgram([program EXCEPT !.phases[p].contract = x])
  <2> DEFINE other == [program EXCEPT !.phases[p].contract = x]
             phase == [program.phases[p] EXCEPT !.contract = x]
  <2>1. /\ DOMAIN phase = PhaseFields /\ phase.certification = program.phases[p].certification
        /\ phase.review = program.phases[p].review /\ phase.status = program.phases[p].status
    BY <1>1 DEF PhaseFields
  <2>2. /\ DOMAIN other = ProgramFields /\ other.current = program.current
        /\ other.phases = [program.phases EXCEPT ![p] = phase]
    BY <1>1 DEF ProgramFields
  <2> HIDE DEF phase, other
  <2>3. IsPhase(phase) /\ (p > program.current => phase.review.verdicts = <<>>)
    BY <1>1, <2>1 DEF IsPhase, IsProgram
  <2>4. /\ DOMAIN other.phases = Phase /\ other.phases[p] = phase
        /\ \A q \in Phase \ {p} : other.phases[q] = program.phases[q]
    BY <1>1, <2>2
  <2>5. IsProgram(other)
    BY <1>2, <2>2, <2>3, <2>4
  <2> QED
    BY <2>5 DEF other
<1>4. ASSUME NEW other, DOMAIN other = ProgramFields, other.current = program.current, other.phases = program.phases
      PROVE  IsProgram(other)
  BY <1>4 DEF IsProgram
<1>5. IsProgram([program EXCEPT !.scope = x])
  <2> DEFINE other == [program EXCEPT !.scope = x]
  <2>1. DOMAIN other = ProgramFields /\ other.current = program.current /\ other.phases = program.phases
    BY <1>1 DEF ProgramFields
  <2> HIDE DEF other
  <2>2. IsProgram(other)
    BY <1>4, <2>1
  <2> QED
    BY <2>2 DEF other
<1>6. IsProgram([program EXCEPT !.findings[p] = x])
  <2> DEFINE other == [program EXCEPT !.findings[p] = x]
  <2>1. DOMAIN other = ProgramFields /\ other.current = program.current /\ other.phases = program.phases
    BY <1>1 DEF ProgramFields
  <2> HIDE DEF other
  <2>2. IsProgram(other)
    BY <1>4, <2>1
  <2> QED
    BY <2>2 DEF other
<1>7. IsProgram([program EXCEPT !.failures[p] = x])
  <2> DEFINE other == [program EXCEPT !.failures[p] = x]
  <2>1. DOMAIN other = ProgramFields /\ other.current = program.current /\ other.phases = program.phases
    BY <1>1 DEF ProgramFields
  <2> HIDE DEF other
  <2>2. IsProgram(other)
    BY <1>4, <2>1
  <2> QED
    BY <2>2 DEF other
<1>8. ASSUME x.verdicts = <<>> PROVE IsProgram([program EXCEPT !.phases[p].review = x])
  <2> DEFINE other == [program EXCEPT !.phases[p].review = x]
             phase == [program.phases[p] EXCEPT !.review = x]
  <2>1. /\ DOMAIN phase = PhaseFields /\ phase.certification = program.phases[p].certification
        /\ phase.review = x
    BY <1>1 DEF PhaseFields
  <2>2. /\ DOMAIN other = ProgramFields /\ other.current = program.current
        /\ other.phases = [program.phases EXCEPT ![p] = phase]
    BY <1>1 DEF ProgramFields
  <2> HIDE DEF phase, other
  <2>3. IsPhase(phase) /\ phase.review.verdicts = <<>>
    BY <1>1, <1>8, <2>1 DEF IsPhase
  <2>4. /\ DOMAIN other.phases = Phase /\ other.phases[p] = phase
        /\ \A q \in Phase \ {p} : other.phases[q] = program.phases[q]
    BY <1>1, <2>2
  <2>5. IsProgram(other)
    BY <1>2, <2>2, <2>3, <2>4
  <2> QED
    BY <2>5 DEF other
<1> QED
  BY <1>3, <1>5, <1>6, <1>7, <1>8

LEMMA WithPackageIs ==
  ASSUME RemediationInv, NEW p \in Phase, NEW contract, NEW failure
  PROVE  IsProgram(WithPackage(p, contract, failure))
<1> DEFINE first == [Program EXCEPT !.phases[p].contract = contract]
           second == [first EXCEPT !.findings[p] = "RESOLVED"]
           third == [second EXCEPT !.failures[p] = failure]
           program == [Program EXCEPT !.phases[p].contract = contract, !.findings[p] = "RESOLVED", !.failures[p] = failure]
           review == [hash |-> PackageHash(program, p), verdicts |-> <<>>]
<1>1. IsProgram(third)
  BY HeadIsProgram, EditedProgram
<1>2. program = third
  OBVIOUS
<1>3. WithPackage(p, contract, failure) = [program EXCEPT !.phases[p].review = review]
  BY DEF WithPackage
<1>4. review.verdicts = <<>>
  OBVIOUS
<1> HIDE DEF program, review, third
<1>5. IsProgram(program)
  BY <1>1, <1>2
<1>6. IsProgram([program EXCEPT !.phases[p].review = review])
  BY <1>4, <1>5, EditedProgram
<1> QED
  BY <1>3, <1>6

LEMMA ClosedIs ==
  ASSUME RemediationInv, NEW s, NEW frozen, NEW ran, NEW hash, NEW verdicts
  PROVE  IsProgram(Closed(Program, Program.current, s, frozen, ran, hash, verdicts))
<1> DEFINE p == Program.current
           program == Closed(Program, p, s, frozen, ran, hash, verdicts)
           closing == [Program.phases[p] EXCEPT
                         !.status = "COMPLETE", !.snapshot = s, !.frozen = frozen,
                         !.certification = CiEvidence(s, ran), !.review = [hash |-> hash, verdicts |-> verdicts]]
           begun(q) == [Program.phases[q] EXCEPT !.status = "IN_PROGRESS"]
<1>1. /\ IsProgram(Program) /\ p \in Phase /\ p \in Nat /\ DOMAIN Program = ProgramFields /\ DOMAIN Program.phases = Phase
      /\ \A q \in Phase : /\ IsPhase(Program.phases[q]) /\ DOMAIN Program.phases[q] = PhaseFields
                          /\ q > p => Program.phases[q].review.verdicts = <<>>
  BY HeadIsProgram, PhaseFacts DEF IsProgram, IsPhase
<1>2. /\ DOMAIN program = ProgramFields /\ program.current = IF p < Phases THEN p + 1 ELSE p
      /\ program.phases = [q \in Phase |-> IF q = p THEN closing ELSE IF q = p + 1 THEN begun(q) ELSE Program.phases[q]]
  BY <1>1 DEF Closed, ProgramFields
<1>3. DOMAIN closing = PhaseFields /\ closing.certification.class = "CI" /\ closing.status = "COMPLETE"
  BY <1>1 DEF PhaseFields, CiEvidence
<1>4. ASSUME NEW q \in Phase, q = p + 1
      PROVE  DOMAIN begun(q) = PhaseFields /\ begun(q).review.verdicts = <<>>
             /\ begun(q).certification = Program.phases[q].certification
  <2>1. DOMAIN Program.phases[q] = PhaseFields /\ Program.phases[q].review.verdicts = <<>>
    BY <1>1, <1>4
  <2> QED
    BY <2>1 DEF PhaseFields
<1>5. program.current \in Phase /\ program.current \in Nat /\ program.current >= p
  BY <1>1, <1>2, PhaseFacts
<1>6. IsPhase(closing)
  BY <1>3 DEF IsPhase
<1> HIDE DEF program, closing, p
<1>7. ASSUME NEW q \in Phase
      PROVE  /\ IsPhase(program.phases[q])
             /\ q > program.current => program.phases[q].review.verdicts = <<>>
  <2>0. q \in Nat
    BY PhaseFacts
  <2>1. CASE q = p
    BY <1>1, <1>2, <1>5, <1>6, <2>0, <2>1
  <2>2. CASE q = p + 1
    <3>1. q # p /\ program.phases[q] = begun(q)
      BY <1>1, <1>2, <2>2
    <3>2. IsPhase(Program.phases[q])
      BY <1>1
    <3> QED
      BY <1>4, <2>2, <3>1, <3>2 DEF IsPhase
  <2>3. CASE q # p /\ q # p + 1
    <3>1. program.phases[q] = Program.phases[q]
      BY <1>2, <2>3
    <3>2. q > program.current => q > p
      BY <1>1, <1>5, <2>0
    <3> QED
      BY <1>1, <3>1, <3>2
  <2> QED
    BY <2>1, <2>2, <2>3
<1>8. DOMAIN program.phases = Phase
  BY <1>2
<1>9. IsProgram(program)
  BY <1>2, <1>5, <1>7, <1>8 DEF IsProgram
<1> QED
  BY <1>9 DEF program, p

\* The files of the head with another program, or another file.
LEMMA ProgramChanges ==
  ASSUME RemediationInv, NEW program, IsProgram(program), UNCHANGED <<passed, tag>>,
         CommitFiles([Files(head) EXCEPT !.program = program])
  PROVE  RemediationInv'
<1>1. /\ DOMAIN [Files(head) EXCEPT !.program = program] = TreeFields
      /\ [Files(head) EXCEPT !.program = program].program = program
  BY HeadIsProgram DEF TreeFields
<1> QED
  BY <1>1, CommitStep

LEMMA FreezeKeeps ==
  ASSUME RemediationInv, UNCHANGED <<passed, tag>>, NEW contract, NEW failure, Frozen(contract, failure)
  PROVE  RemediationInv'
<1> DEFINE p == Program.current
           files == [Files(head) EXCEPT !.program = WithPackage(p, contract, failure), !.rollback[p] = contract.rollback]
<1>1. p \in Phase /\ DOMAIN Files(head) = TreeFields
  BY HeadIsProgram DEF IsProgram
<1>2. DOMAIN files = TreeFields /\ files.program = WithPackage(p, contract, failure)
  BY <1>1 DEF TreeFields
<1>3. CommitFiles(files)
  BY DEF Frozen
<1>4. IsProgram(WithPackage(p, contract, failure))
  BY <1>1, WithPackageIs
<1> HIDE DEF files
<1> QED
  BY <1>2, <1>3, <1>4, CommitStep

LEMMA CloseKeeps ==
  ASSUME RemediationInv, Close
  PROVE  RemediationInv'
<1> DEFINE p == Program.current
           closed(s, frozen, ran, verdicts) == Closed(Program, p, s, frozen, ran, PackageHash(Files(s).program, p), verdicts)
           close(s, frozen, ran, verdicts) == [Files(head) EXCEPT !.program = closed(s, frozen, ran, verdicts)]
           good(s) == close(s, s, s, Verdicts(p, PackageHash(Files(s).program, p)))
<1>0. UNCHANGED <<passed, tag>> /\ p \in Phase /\ DOMAIN Files(head) = TreeFields
  BY HeadIsProgram DEF Close, IsProgram
<1>1. PICK s \in Snapshots :
        \/ CommitFiles(good(s))
        \/ \E ran \in passed : CommitFiles(close(s, s, ran, Verdicts(p, PackageHash(Files(s).program, p))))
        \/ CommitFiles(close(s, head, s, Verdicts(p, PackageHash(Files(s).program, p))))
        \/ \E verdicts \in FaultyVerdicts(p, PackageHash(Files(s).program, p)) : CommitFiles(close(s, s, s, verdicts))
        \/ CommitFiles([good(s) EXCEPT !.source = @ + 1])
        \/ CommitFiles([good(s) EXCEPT !.program.scope = @ + 1])
        \/ \E contract \in Contracts : CommitFiles([good(s) EXCEPT !.program.phases[p].contract = contract])
  BY DEF Close
<1> DEFINE base == good(s)
<1>2. \A frozen, ran, verdicts : IsProgram(closed(s, frozen, ran, verdicts))
  BY ClosedIs
<1>3. DOMAIN base = TreeFields /\ IsProgram(base.program)
  BY <1>0, <1>2 DEF TreeFields
<1> HIDE DEF closed
<1>4. \A frozen, ran, verdicts : CommitFiles(close(s, frozen, ran, verdicts)) => RemediationInv'
  BY <1>0, <1>2, ProgramChanges
<1> HIDE DEF close, p
<1>5. CommitFiles(good(s)) => RemediationInv'
  BY <1>4
<1> HIDE DEF good, base
<1>6. CASE CommitFiles([base EXCEPT !.source = @ + 1])
  <2>1. DOMAIN [base EXCEPT !.source = @ + 1] = TreeFields /\ [base EXCEPT !.source = @ + 1].program = base.program
    BY <1>3 DEF TreeFields
  <2> QED
    BY <1>0, <1>3, <1>6, <2>1, CommitStep
<1>7. CASE CommitFiles([base EXCEPT !.program.scope = @ + 1])
  <2>1. /\ DOMAIN [base EXCEPT !.program.scope = @ + 1] = TreeFields
        /\ [base EXCEPT !.program.scope = @ + 1].program = [base.program EXCEPT !.scope = @ + 1]
    BY <1>3 DEF TreeFields
  <2>2. IsProgram([base.program EXCEPT !.scope = @ + 1])
    BY <1>0, <1>3, EditedProgram
  <2> QED
    BY <1>0, <1>7, <2>1, <2>2, CommitStep
<1>8. ASSUME NEW contract, CommitFiles([base EXCEPT !.program.phases[p].contract = contract])
      PROVE  RemediationInv'
  <2>1. /\ DOMAIN [base EXCEPT !.program.phases[p].contract = contract] = TreeFields
        /\ [base EXCEPT !.program.phases[p].contract = contract].program = [base.program EXCEPT !.phases[p].contract = contract]
    BY <1>3 DEF TreeFields
  <2>2. IsProgram([base.program EXCEPT !.phases[p].contract = contract])
    BY <1>0, <1>3, EditedProgram
  <2> QED
    BY <1>0, <1>8, <2>1, <2>2, CommitStep
<1> QED
  BY <1>1, <1>4, <1>5, <1>6, <1>7, <1>8 DEF base

LEMMA EditKeeps ==
  ASSUME RemediationInv, Edit
  PROVE  RemediationInv'
<1>0. UNCHANGED <<passed, tag>> /\ DOMAIN Files(head) = TreeFields /\ IsProgram(Program) /\ Files(head).program = Program
  BY HeadIsProgram DEF Edit
<1>1. CASE CommitFiles([Files(head) EXCEPT !.source = @ + 1])
  <2>1. DOMAIN [Files(head) EXCEPT !.source = @ + 1] = TreeFields /\ [Files(head) EXCEPT !.source = @ + 1].program = Program
    BY <1>0 DEF TreeFields
  <2> QED
    BY <1>0, <1>1, <2>1, CommitStep
<1>2. ASSUME NEW r, CommitFiles([Files(head) EXCEPT !.registry = r])
      PROVE  RemediationInv'
  <2>1. DOMAIN [Files(head) EXCEPT !.registry = r] = TreeFields /\ [Files(head) EXCEPT !.registry = r].program = Program
    BY <1>0 DEF TreeFields
  <2> QED
    BY <1>0, <1>2, <2>1, CommitStep
<1>3. ASSUME NEW p \in Phase, NEW contract, CommitFiles([Files(head) EXCEPT !.program.phases[p].contract = contract])
      PROVE  RemediationInv'
  <2>1. [Files(head) EXCEPT !.program.phases[p].contract = contract]
          = [Files(head) EXCEPT !.program = [Program EXCEPT !.phases[p].contract = contract]]
    BY <1>0
  <2> QED
    BY <1>0, <1>3, <2>1, EditedProgram, ProgramChanges
<1>4. CASE CommitFiles([Files(head) EXCEPT !.program.scope = @ + 1])
  <2>1. [Files(head) EXCEPT !.program.scope = @ + 1]
          = [Files(head) EXCEPT !.program = [Program EXCEPT !.scope = Program.scope + 1]]
    BY <1>0
  <2>2. IsProgram([Program EXCEPT !.scope = Program.scope + 1])
    BY <1>0, PhaseFacts, EditedProgram
  <2> QED
    BY <1>0, <1>4, <2>1, <2>2, ProgramChanges
<1>5. ASSUME NEW p \in Phase, CommitFiles([Files(head) EXCEPT !.program.findings[p] = "OPEN"])
      PROVE  RemediationInv'
  <2>1. [Files(head) EXCEPT !.program.findings[p] = "OPEN"]
          = [Files(head) EXCEPT !.program = [Program EXCEPT !.findings[p] = "OPEN"]]
    BY <1>0
  <2> QED
    BY <1>0, <1>5, <2>1, EditedProgram, ProgramChanges
<1> QED
  BY <1>1, <1>2, <1>3, <1>4, <1>5 DEF Edit

LEMMA RemediationStep == RemediationInv /\ [RemediationNext]_remediationVars => RemediationInv'
<1> SUFFICES ASSUME RemediationInv, [RemediationNext]_remediationVars PROVE RemediationInv'
  OBVIOUS
<1>0. /\ DOMAIN history[head] = {"files", "line"} /\ IsProgram(Program) /\ DOMAIN Files(head) = TreeFields
      /\ Baseline \in Commits
  BY HeadIsProgram, AppendAny DEF RemediationInv, HistoryInv, IsCommit, Commits, Baseline
<1>1. CASE Freeze
  BY <1>1, FreezeKeeps DEF Freeze
<1>2. CASE Close
  BY <1>2, CloseKeeps
<1>3. CASE Edit
  BY <1>3, EditKeeps
<1>4. CASE RunCi
  BY <1>4 DEF RunCi, RemediationInv, HistoryInv, IsCommit, Commits, Files
<1>5. CASE Squash
  <2> DEFINE commit == [history[head] EXCEPT !.line = {Baseline, Len(history) + 1}]
  <2>1. /\ history' = Append(history, commit) /\ head' = Len(history) + 1 /\ passed' = passed
        /\ tag'.commit \in Commits
    BY <1>5 DEF Squash, RemediationInv
  <2>2. /\ DOMAIN commit = {"files", "line"} /\ commit.files = Files(head)
        /\ commit.line \subseteq Commits \cup {Len(history) + 1}
    BY <1>0 DEF Files
  <2> HIDE DEF commit
  <2> QED
    BY <1>0, <2>1, <2>2, CommitIsKept DEF Program
<1>6. CASE RecordSquash
  <2> DEFINE receipt == [closure |-> tag.commit, object |-> tag.object, target |-> head]
  <2>1. UNCHANGED <<passed, tag>> /\ CommitFiles([Files(head) EXCEPT !.receipt = receipt])
    BY <1>6 DEF RecordSquash
  <2> HIDE DEF receipt
  <2>2. DOMAIN [Files(head) EXCEPT !.receipt = receipt] = TreeFields /\ [Files(head) EXCEPT !.receipt = receipt].program = Program
    BY <1>0 DEF TreeFields, Program
  <2> QED
    BY <1>0, <2>1, <2>2, CommitStep
<1>7. CASE MoveTag
  BY <1>7 DEF MoveTag, RemediationInv, HistoryInv, IsCommit, Commits, Files
<1>8. CASE UNCHANGED remediationVars
  BY <1>8 DEF remediationVars, RemediationInv, HistoryInv, IsCommit, Commits, Files
<1> QED
  BY <1>1, <1>2, <1>3, <1>4, <1>5, <1>6, <1>7, <1>8 DEF RemediationNext

\* What closed a phase changed neither the source nor the package that was reviewed.
LEMMA ClosureKeepsPackage ==
  ASSUME RemediationInv, NEW p \in Phase, NEW s \in passed, NEW c \in ClosureCommits(s),
         [Files(c) EXCEPT !.program = <<>>] = [Files(s) EXCEPT !.program = <<>>],
         Undone(Files(c).program, Files(s).program, p) = Files(s).program
  PROVE  /\ Files(c).source = Files(s).source
         /\ PackageHash(Files(c).program, p) = PackageHash(Files(s).program, p)
<1> DEFINE closure == Files(c).program
           snapshot == Files(s).program
<1>1. s \in Commits /\ s # Baseline
  BY DEF RemediationInv
<1>2. PICK t \in ClosureHistoryHead(s) : c \in history[t].line /\ IsAncestor(s, c)
  BY DEF ClosureCommits
<1>3. t \in Commits
  BY <1>2 DEF ClosureHistoryHead, SquashSource, RemediationInv
<1>4. c \in Commits /\ c # Baseline
  BY <1>1, <1>2, <1>3 DEF RemediationInv, HistoryInv, IsCommit, IsAncestor
<1>5. /\ DOMAIN Files(c) = TreeFields /\ DOMAIN Files(s) = TreeFields
      /\ IsProgram(closure) /\ IsProgram(snapshot)
  BY <1>1, <1>4 DEF RemediationInv, HistoryInv, IsCommit
<1>6. Files(c).source = Files(s).source
  <2>1. [Files(c) EXCEPT !.program = <<>>].source = [Files(s) EXCEPT !.program = <<>>].source
    OBVIOUS
  <2> QED
    BY <1>5, <2>1 DEF TreeFields
<1>7. /\ DOMAIN closure = ProgramFields /\ DOMAIN closure.phases = Phase /\ DOMAIN snapshot.phases = Phase
      /\ \A q \in Phase : DOMAIN closure.phases[q] = PhaseFields /\ DOMAIN snapshot.phases[q] = PhaseFields
  BY <1>5 DEF IsProgram, IsPhase
<1> HIDE DEF closure, snapshot
<1> DEFINE phases == [q \in Phase |->
             IF q = p THEN [snapshot.phases[p] EXCEPT !.contract = closure.phases[p].contract]
             ELSE IF q = p + 1 THEN [closure.phases[q] EXCEPT !.status = snapshot.phases[q].status]
             ELSE closure.phases[q]]
<1>8. [closure EXCEPT !.current = snapshot.current, !.phases = phases] = snapshot
  BY DEF Undone, closure, snapshot
<1> HIDE DEF phases
<1>9. /\ snapshot.scope = closure.scope /\ snapshot.findings = closure.findings
      /\ snapshot.failures = closure.failures /\ snapshot.phases = phases
  BY <1>7, <1>8, Zenon DEF ProgramFields
<1>10. ASSUME NEW q \in Phase PROVE closure.phases[q].contract = snapshot.phases[q].contract
  <2>1. /\ "contract" \in DOMAIN closure.phases[q] /\ "contract" \in DOMAIN snapshot.phases[q]
    BY <1>7 DEF PhaseFields
  <2>2. snapshot.phases[q] =
          IF q = p THEN [snapshot.phases[p] EXCEPT !.contract = closure.phases[p].contract]
          ELSE IF q = p + 1 THEN [closure.phases[q] EXCEPT !.status = snapshot.phases[q].status]
          ELSE closure.phases[q]
    BY <1>9 DEF phases
  <2>3. CASE q = p
    <3>1. snapshot.phases[q] = [snapshot.phases[q] EXCEPT !.contract = closure.phases[q].contract]
      BY <2>2, <2>3
    <3> QED
      BY <2>1, <3>1
  <2>4. CASE q # p /\ q = p + 1
    <3>1. snapshot.phases[q] = [closure.phases[q] EXCEPT !.status = snapshot.phases[q].status]
      BY <2>2, <2>4
    <3> QED
      BY <2>1, <3>1
  <2> QED
    BY <2>2, <2>3, <2>4
<1>11. Package(closure, p) = Package(snapshot, p)
  BY <1>9, <1>10 DEF Package
<1>12. PackageHash(closure, p) = PackageHash(snapshot, p)
  BY <1>11 DEF PackageHash
<1> QED
  BY <1>6, <1>12 DEF closure, snapshot

\* A phase which the validator takes for complete is one whose content two
\* registered people approved, in contexts of their own; CI passed on it as they
\* saw it, and its closure changed neither the content nor the source
\* (src/scripts/validate_remediation_program.py).
THEOREM CompleteIsApproved == RemediationSpec => []CompleteStaysApproved
<1>1. RemediationInv => CompleteStaysApproved
  <2> SUFFICES ASSUME RemediationInv, Accepted, NEW p \in Phase, Program.phases[p].status = "COMPLETE"
               PROVE  LET phase == Program.phases[p]
                          approved(role) == phase.review.verdicts[role]
                      IN  /\ phase.snapshot \in passed
                          /\ \A role \in Roles : approved(role).reviewer = Files(head).registry[role]
                          /\ \E c \in ClosureCommits(phase.snapshot) :
                               /\ Files(c).source = Files(phase.snapshot).source
                               /\ \A role \in Roles : approved(role).hash = PackageHash(Files(c).program, p)
                          /\ \A q \in Phase \ {p}, role, other \in Roles :
                               Program.phases[q].review.verdicts # <<>> =>
                                 Program.phases[q].review.verdicts[other].context # approved(role).context
    BY Zenon DEF CompleteStaysApproved
  <2> DEFINE phase == Program.phases[p]
             s == phase.snapshot
             verdicts(q) == Program.phases[q].review.verdicts
  <2>0. CompleteIsValid(p) /\ \A q \in Phase : IsPhase(Program.phases[q])
    BY HeadIsProgram DEF Accepted, IsProgram
  <2>1. s \in passed
    <3>1. /\ phase.certification.class = "CI"
          /\ EvidenceHolds(phase.certification, s, FALSE, TRUE)
      BY <2>0 DEF CompleteIsValid, SnapshotIsFrozen, IsPhase
    <3>2. phase.certification.commit = s /\ phase.certification.head = s
      BY <3>1 DEF EvidenceHolds, Bound
    <3>3. phase.certification.head \in passed
      BY <3>1 DEF EvidenceHolds, Authentic
    <3> QED
      BY <3>2, <3>3
  <2>2. \A role \in Roles : verdicts(p)[role].reviewer = Files(head).registry[role]
    <3>1. ReviewersAreRegistered(verdicts(p), phase.contract.verified) /\ AuthorityIsFrozen(phase.contract)
      BY <2>0 DEF CompleteIsValid, PackageIsReady
    <3>2. Files(phase.contract.verified).registry = Files(head).registry
      BY <3>1 DEF AuthorityIsFrozen
    <3> QED
      BY <3>1, <3>2 DEF ReviewersAreRegistered
  <2>3. \E c \in ClosureCommits(s) :
          /\ Files(c).source = Files(s).source
          /\ \A role \in Roles : verdicts(p)[role].hash = PackageHash(Files(c).program, p)
    <3>1. PICK c \in ClosureCommits(s) :
            /\ [Files(c) EXCEPT !.program = <<>>] = [Files(s) EXCEPT !.program = <<>>]
            /\ Undone(Files(c).program, Files(s).program, p) = Files(s).program
      BY <2>0, Zenon DEF CompleteIsValid, ClosureIsBounded
    <3>2. Files(c).source = Files(s).source /\ PackageHash(Files(c).program, p) = PackageHash(Files(s).program, p)
      BY <2>1, <3>1, ClosureKeepsPackage
    <3>3. \A role \in Roles : verdicts(p)[role].hash = PackageHash(Files(s).program, p)
      BY <2>0 DEF CompleteIsValid, SamePackageReviewed
    <3> QED
      BY <3>2, <3>3
  <2>4. ASSUME NEW q \in Phase \ {p}, NEW role \in Roles, NEW other \in Roles, verdicts(q) # <<>>
        PROVE  verdicts(q)[other].context # verdicts(p)[role].context
    <3>1. Program.phases[q].status = "COMPLETE"
      BY <2>0, <2>4 DEF IsPhase
    <3>2. CompleteIsValid(q)
      BY <3>1 DEF Accepted
    <3>3. DOMAIN verdicts(p) = Roles /\ DOMAIN verdicts(q) = Roles
      BY <2>0, <3>2 DEF CompleteIsValid, Approved
    <3> QED
      BY <3>3 DEF Accepted, ContextsAreFresh
  <2> QED
    BY <2>1, <2>2, <2>3, <2>4
<1> QED
  BY <1>1, RemediationInitInv, RemediationStep, PTL DEF RemediationSpec
-----------------------------------------------------------------------------
(* The registry of claims.  A sealed receipt that no slip has given its digest *)
(* anew has the fingerprint of the sources it ran on; the rest of what a       *)
(* passing check says is what it compares on the spot.                         *)

Untouched(r) ==
  /\ {"sealed", "genuine", "fingerprint", "ran"} \subseteq DOMAIN r
  /\ r.genuine /\ r.sealed => r.fingerprint = [s \in DOMAIN r.fingerprint |-> r.ran[s]]

ReceiptInv ==
  /\ DOMAIN receiptAt = ReceiptFile
  /\ \A f \in Receipts : Untouched(receiptAt[f])

LEMMA FilesAreFingerprinted ==
  ASSUME NEW p
  PROVE  ImplementationFingerprint(p) = [s \in p.relevant |-> workTree[s]]
BY DEF ImplementationFingerprint, FingerprintAt

\* A slip changes what the receipt says or who issued it, and then its seal.
LEMMA SlipIsSeen ==
  ASSUME NEW old, Untouched(old), NEW r \in Amended(old), NEW anew \in BOOLEAN
  PROVE  Untouched([r EXCEPT !.sealed = anew, !.genuine = ~anew])
<1>1. DOMAIN r = DOMAIN old
  BY DEF Amended
<1> DEFINE new == [r EXCEPT !.sealed = anew, !.genuine = ~anew]
<1>2. {"sealed", "genuine", "fingerprint", "ran"} \subseteq DOMAIN new
  BY <1>1 DEF Untouched
<1>3. new.sealed = anew /\ new.genuine = ~anew
  BY <1>1 DEF Untouched
<1>4. ~(new.genuine /\ new.sealed)
  BY <1>3
<1> QED
  BY <1>2, <1>4 DEF Untouched

LEMMA CertInitInv == CertInit => ReceiptInv
BY DEF CertInit, ReceiptInv, Receipts

LEMMA CertStep == ReceiptInv /\ [CertNext]_certVars => ReceiptInv'
<1> SUFFICES ASSUME ReceiptInv, [CertNext]_certVars PROVE ReceiptInv'
  OBVIOUS
<1>1. CASE UNCHANGED receiptAt
  BY <1>1 DEF ReceiptInv, Receipts, Untouched
<1>2. ASSUME NEW f \in ReceiptFile, Issue(f) PROVE ReceiptInv'
  <2>1. PICK c \in NetworkCommands, i \in ReceiptId, cost, write \in BOOLEAN, lifetime \in 1..2 :
          /\ evidenceOf' = [evidenceOf EXCEPT ![i] = @ + 1]
          /\ receiptAt' = [receiptAt EXCEPT ![f] = Candidate(c, i, cost, write, lifetime)]
    BY <1>2, Zenon DEF Issue
  <2> DEFINE new == Candidate(c, i, cost, write, lifetime)
  <2>2. new.fingerprint = [s \in ProfileOf(c).relevant |-> workTree[s]] /\ new.ran = workTree
    BY FilesAreFingerprinted DEF Candidate
  <2>3. {"sealed", "genuine", "fingerprint", "ran"} \subseteq DOMAIN new
    BY DEF Candidate
  <2>4. Untouched(new)
    BY <2>2, <2>3 DEF Untouched
  <2> QED
    BY <2>1, <2>4 DEF ReceiptInv, Receipts
<1>3. ASSUME NEW f \in ReceiptFile, Withdraw(f) PROVE ReceiptInv'
  BY <1>3 DEF Withdraw, ReceiptInv, Receipts
<1>4. CASE ReceiptSlip
  <2>1. ASSUME NEW f \in Receipts, NEW anew \in BOOLEAN, NEW r \in Amended(receiptAt[f]),
               receiptAt' = [receiptAt EXCEPT ![f] = [r EXCEPT !.sealed = anew, !.genuine = ~anew]]
        PROVE  ReceiptInv'
    <3>1. Untouched([r EXCEPT !.sealed = anew, !.genuine = ~anew])
      BY SlipIsSeen DEF ReceiptInv
    <3> QED
      BY <2>1, <3>1 DEF ReceiptInv, Receipts
  <2>2. ASSUME NEW f \in Receipts, NEW g \in ReceiptFile \ Receipts,
               receiptAt' = [receiptAt EXCEPT ![g] = receiptAt[f]]
        PROVE  ReceiptInv'
    BY <2>2 DEF ReceiptInv, Receipts
  <2> QED
    BY <1>1, <1>4, <2>1, <2>2 DEF ReceiptSlip
<1> QED
  BY <1>1, <1>2, <1>3, <1>4
     DEF CertNext, certVars, Generate, Check, StageAll, Commit, Switch, DayPasses, EditFile

\* What the registry says where certification trusts no receipt for promotion.
LEMMA NothingIsPromoted ==
  ASSUME Buildable, published = Claims
  PROVE  /\ DOMAIN published.commands = DOMAIN Commands.specs
         /\ \A c \in DOMAIN published.commands :
              /\ published.commands[c].ceiling # "LIVE_VERIFIED" /\ ~published.commands[c].provider
              /\ published.commands[c].live = (c \in UNION {p.capabilities : p \in Profiles})
         /\ \A s \in DOMAIN published.skills : published.skills[s].ceiling # "LIVE_VERIFIED"
<1>1. CurrentCapabilities = {}
  BY DEF CurrentCapabilities, TrustedForPromotion
<1>2. /\ published.commands = [c \in DOMAIN Commands.specs |-> CommandRow(c)]
      /\ published.skills = [s \in Catalog |-> SkillRow(s)]
  BY DEF Claims
<1>3. UNION {p.capabilities : p \in Profiles} = NetworkCommands
  BY DEF Buildable, CertificationHolds, ValidConfiguration
<1>4. ASSUME NEW c \in DOMAIN Commands.specs
      PROVE  /\ CommandRow(c).ceiling # "LIVE_VERIFIED" /\ ~CommandRow(c).provider
             /\ CommandRow(c).live = (c \in NetworkCommands)
  <2>1. CommandRow(c).provider = (c \in CurrentCapabilities)
    BY DEF CommandRow
  <2>2. ~CommandRow(c).provider
    BY <1>1, <2>1
  <2>3. CommandRow(c).ceiling # "LIVE_VERIFIED"
    BY <1>1 DEF CommandRow
  <2>4. CommandRow(c).live = (Commands.specs[c].network # "none")
    BY DEF CommandRow
  <2>5. (c \in NetworkCommands) <=> (Commands.specs[c].network # "none")
    BY DEF NetworkCommands
  <2>6. (c \in NetworkCommands) = (Commands.specs[c].network # "none")
    BY <2>5
  <2> QED
    BY <2>2, <2>3, <2>4, <2>6
<1>5. ASSUME NEW s \in Catalog PROVE SkillRow(s).ceiling # "LIVE_VERIFIED"
  BY <1>1 DEF SkillRow
<1> QED
  BY <1>2, <1>3, <1>4, <1>5

LEMMA ReceiptsHold ==
  ASSUME ReceiptInv, CertificationHolds, NEW f \in Receipts
  PROVE  LET r == receiptAt[f]
         IN  /\ r.issued <= certDay /\ certDay < r.expires /\ r.expires - r.issued <= Contract.maxAge
             /\ \A g \in Receipts \ {f} : receiptAt[g].capability # r.capability
             /\ r.evidence = evidenceOf[r.id]
             /\ r.genuine => \E p \in Profiles :
                               /\ p.id = r.profile[1] /\ r.capability \in p.capabilities
                               /\ \A s \in p.relevant : r.ran[s] = workTree[s]
                               /\ p.needsCost => r.costApproved
                               /\ p.writes <=> r.writeApproved
<1> DEFINE r == receiptAt[f]
<1>1. ValidReceipt(r)
  BY DEF CertificationHolds
<1>2. /\ r.issued <= certDay /\ certDay < r.expires /\ r.expires - r.issued <= Contract.maxAge
      /\ r.evidence = evidenceOf[r.id]
  BY <1>1 DEF ValidReceipt, Timely, EvidenceIsBound
<1>3. \A g \in Receipts \ {f} : receiptAt[g].capability # r.capability
  BY DEF CertificationHolds
<1>4. ASSUME r.genuine
      PROVE  \E p \in Profiles :
               /\ p.id = r.profile[1] /\ r.capability \in p.capabilities
               /\ \A s \in p.relevant : r.ran[s] = workTree[s]
               /\ p.needsCost => r.costApproved
               /\ p.writes <=> r.writeApproved
  <2>1. PICK p \in Profiles : r.capability \in p.capabilities /\ ProfileBound(r, p)
    BY <1>1, Zenon DEF ValidReceipt
  <2>2. r.profile = <<p.id, p.version>> /\ r.fingerprint = [s \in p.relevant |-> workTree[s]]
    BY <2>1, FilesAreFingerprinted DEF ProfileBound, SourceBound
  <2>3. r.sealed
    BY <1>1, Zenon DEF ValidReceipt
  <2>4. r.fingerprint = [s \in DOMAIN r.fingerprint |-> r.ran[s]]
    BY <1>4, <2>3, Zenon DEF ReceiptInv, Untouched
  <2>5. \A s \in p.relevant : r.ran[s] = workTree[s]
    BY <2>2, <2>4
  <2>6. p.writes => p.needsWrite
    BY Zenon DEF CertificationHolds, ValidConfiguration
  <2>7. (p.needsCost => r.costApproved) /\ (p.writes <=> r.writeApproved)
    BY <2>1, <2>6, Zenon DEF ProfileBound
  <2> QED
    BY <2>1, <2>2, <2>5, <2>7
<1> QED
  BY <1>2, <1>3, <1>4

\* Where the check of the registry passes, the registry claims nothing of a live
\* provider, and every receipt beside it is in time, has its evidence, and (where
\* its digest was not made anew) ran on the sources that are there now
\* (capability_certification.py:113-137, 215-235, 359-387;
\* generate_capability_evidence_registry.py:278-352).
THEOREM ClaimsAreCurrent == CertSpec => []CheckedIsCurrent
<1> DEFINE Current == ReceiptInv /\ CheckedIsCurrent
<1>1. CertInit => Current
  BY CertInitInv DEF CertInit, CheckedIsCurrent
<1>2. Current /\ [CertNext]_certVars => Current'
  <2> SUFFICES ASSUME ReceiptInv, CheckedIsCurrent, [CertNext]_certVars PROVE CheckedIsCurrent'
    BY CertStep
  <2>1. CASE certAnswer' # "current"
    BY <2>1 DEF CheckedIsCurrent
  <2>2. CASE UNCHANGED certVars
    BY <2>2 DEF certVars, CheckedIsCurrent, Receipts, Contract, Commands, Profiles
  <2>3. CASE Check /\ certAnswer' = "current"
    <3>1. /\ UNCHANGED <<workTree, receiptAt, evidenceOf, certDay, published>>
          /\ Buildable /\ published = Claims
      BY <2>3 DEF Check
    <3>2. CertificationHolds
      BY <3>1 DEF Buildable
    <3>3. UNCHANGED <<Receipts, Contract, Commands, Profiles>>
      BY <3>1 DEF Receipts, Contract, Commands, Profiles
    <3> QED
      BY <3>1, <3>2, <3>3, NothingIsPromoted, ReceiptsHold DEF CheckedIsCurrent
  <2> QED
    BY <2>1, <2>2, <2>3
       DEF CertNext, Generate, StageAll, Commit, Switch, DayPasses, EditFile, Issue, Withdraw, ReceiptSlip
<1> QED
  BY <1>1, <1>2, PTL DEF CertSpec

-----------------------------------------------------------------------------
(* The workflow of a certification.  Each job's steps, place by place; what an *)
(* edit of one place does to them; what the contract of the workflow lets      *)
(* through; and then the run: a gate leaves a checkout that is the head's, so  *)
(* each step behind one is about its sources, a job that ends has passed what  *)
(* it vouches for, and the job that certifies asks one that runs the tests of  *)
(* the workflow's own text and that the edit did not touch.                    *)

LEMMA JoinAny ==
  ASSUME NEW s, IsSeq(s), NEW t, IsSeq(t)
  PROVE  /\ IsSeq(s \o t) /\ Len(s) \in Nat /\ Len(t) \in Nat /\ Len(s \o t) = Len(s) + Len(t)
         /\ \A i \in 1..Len(s) + Len(t) : (s \o t)[i] = IF i <= Len(s) THEN s[i] ELSE t[i - Len(s)]
<1>1. PICK S : s \in Seq(S)
  BY DEF IsSeq
<1>2. PICK T : t \in Seq(T)
  BY DEF IsSeq
<1>3. s \in Seq(S \cup T) /\ t \in Seq(S \cup T)
  BY <1>1, <1>2, SeqMonotonic
<1>4. s \o t \in Seq(S \cup T) /\ Len(s) \in Nat /\ Len(t) \in Nat
  BY <1>3, ConcatProperties, LenProperties
<1>5. /\ Len(s \o t) = Len(s) + Len(t)
      /\ \A i \in 1..Len(s) + Len(t) : (s \o t)[i] = IF i <= Len(s) THEN s[i] ELSE t[i - Len(s)]
  BY <1>3, ConcatProperties
<1> QED
  BY <1>4, <1>5 DEF IsSeq

LEMMA BehindShape ==
  ASSUME NEW gate, NEW steps, IsSeq(steps)
  PROVE  /\ IsSeq(Behind(gate, steps)) /\ Len(Behind(gate, steps)) = 2 * Len(steps)
         /\ \A k \in 1..(2 * Len(steps)) :
              Behind(gate, steps)[k] = IF k % 2 = 1 THEN gate ELSE steps[k \div 2]
<1> DEFINE n == Len(steps)
           B == Behind(gate, steps)
<1>1. PICK S : steps \in Seq(S)
  BY DEF IsSeq
<1>2. n \in Nat /\ \A i \in 1..n : steps[i] \in S
  BY <1>1
<1>3. B = [k \in 1..(2 * n) |-> IF k % 2 = 1 THEN gate ELSE steps[k \div 2]]
  BY DEF Behind
<1>4. \A k \in 1..(2 * n) : k % 2 = 1 \/ k \div 2 \in 1..n
  BY <1>2
<1>5. B \in [1..(2 * n) -> S \cup {gate}]
  BY <1>2, <1>3, <1>4
<1>6. 2 * n \in Nat
  BY <1>2
<1>7. B \in Seq(S \cup {gate})
  BY <1>5, <1>6, SeqDef
<1>8. Len(B) = 2 * n
  BY <1>5, <1>6, <1>7, LenProperties
<1> QED
  BY <1>3, <1>7, <1>8 DEF IsSeq

LEMMA TwoBehind ==
  ASSUME NEW gate, NEW a, NEW b
  PROVE  LET B == Behind(gate, <<a, b>>)
         IN  /\ IsSeq(B) /\ Len(B) = 4
             /\ B[1] = gate /\ B[3] = gate
             /\ B[2] = a /\ B[4] = b
<1> DEFINE steps == <<a, b>>
           B == Behind(gate, steps)
<1>1. steps \in Seq({a, b}) /\ Len(steps) = 2
  OBVIOUS
<1>2. steps[1] = a /\ steps[2] = b
  OBVIOUS
<1> HIDE DEF steps
<1>3. IsSeq(steps)
  BY <1>1 DEF IsSeq
<1>4. /\ IsSeq(B) /\ Len(B) = 2 * Len(steps)
      /\ \A k \in 1..(2 * Len(steps)) : B[k] = IF k % 2 = 1 THEN gate ELSE steps[k \div 2]
  BY <1>3, BehindShape
<1> HIDE DEF B
<1>5. IsSeq(B) /\ Len(B) = 4 /\ \A k \in 1..4 : B[k] = IF k % 2 = 1 THEN gate ELSE steps[k \div 2]
  BY <1>1, <1>4
<1>6. B[1] = gate /\ B[3] = gate
  BY <1>5
<1>7. B[2] = a /\ B[4] = b
  BY <1>2, <1>5
<1> QED
  BY <1>5, <1>6, <1>7 DEF B, steps

LEMMA ThreeBehind ==
  ASSUME NEW gate, NEW a, NEW b, NEW c
  PROVE  LET B == Behind(gate, <<a, b, c>>)
         IN  /\ IsSeq(B) /\ Len(B) = 6
             /\ B[1] = gate /\ B[3] = gate /\ B[5] = gate
             /\ B[2] = a /\ B[4] = b /\ B[6] = c
<1> DEFINE steps == <<a, b, c>>
           B == Behind(gate, steps)
<1>1. steps \in Seq({a, b, c}) /\ Len(steps) = 3
  OBVIOUS
<1>2. steps[1] = a /\ steps[2] = b /\ steps[3] = c
  OBVIOUS
<1> HIDE DEF steps
<1>3. IsSeq(steps)
  BY <1>1 DEF IsSeq
<1>4. /\ IsSeq(B) /\ Len(B) = 2 * Len(steps)
      /\ \A k \in 1..(2 * Len(steps)) : B[k] = IF k % 2 = 1 THEN gate ELSE steps[k \div 2]
  BY <1>3, BehindShape
<1> HIDE DEF B
<1>5. IsSeq(B) /\ Len(B) = 6 /\ \A k \in 1..6 : B[k] = IF k % 2 = 1 THEN gate ELSE steps[k \div 2]
  BY <1>1, <1>4
<1>6. B[1] = gate /\ B[3] = gate /\ B[5] = gate
  BY <1>5
<1>7. B[2] = a /\ B[4] = b /\ B[6] = c
  BY <1>2, <1>5
<1> QED
  BY <1>5, <1>6, <1>7 DEF B, steps

LEMMA FourBehind ==
  ASSUME NEW gate, NEW a, NEW b, NEW c, NEW d
  PROVE  LET B == Behind(gate, <<a, b, c, d>>)
         IN  /\ IsSeq(B) /\ Len(B) = 8
             /\ B[1] = gate /\ B[3] = gate /\ B[5] = gate /\ B[7] = gate
             /\ B[2] = a /\ B[4] = b /\ B[6] = c /\ B[8] = d
<1> DEFINE steps == <<a, b, c, d>>
           B == Behind(gate, steps)
<1>1. steps \in Seq({a, b, c, d}) /\ Len(steps) = 4
  OBVIOUS
<1>2. steps[1] = a /\ steps[2] = b /\ steps[3] = c /\ steps[4] = d
  OBVIOUS
<1> HIDE DEF steps
<1>3. IsSeq(steps)
  BY <1>1 DEF IsSeq
<1>4. /\ IsSeq(B) /\ Len(B) = 2 * Len(steps)
      /\ \A k \in 1..(2 * Len(steps)) : B[k] = IF k % 2 = 1 THEN gate ELSE steps[k \div 2]
  BY <1>3, BehindShape
<1> HIDE DEF B
<1>5. IsSeq(B) /\ Len(B) = 8 /\ \A k \in 1..8 : B[k] = IF k % 2 = 1 THEN gate ELSE steps[k \div 2]
  BY <1>1, <1>4
<1>6. B[1] = gate /\ B[3] = gate /\ B[5] = gate /\ B[7] = gate
  BY <1>5
<1>7. B[2] = a /\ B[4] = b /\ B[6] = c /\ B[8] = d
  BY <1>2, <1>5
<1> QED
  BY <1>5, <1>6, <1>7 DEF B, steps

LEMMA FiveBehind ==
  ASSUME NEW gate, NEW a, NEW b, NEW c, NEW d, NEW e
  PROVE  LET B == Behind(gate, <<a, b, c, d, e>>)
         IN  /\ IsSeq(B) /\ Len(B) = 10
             /\ B[1] = gate /\ B[3] = gate /\ B[5] = gate /\ B[7] = gate /\ B[9] = gate
             /\ B[2] = a /\ B[4] = b /\ B[6] = c /\ B[8] = d /\ B[10] = e
<1> DEFINE steps == <<a, b, c, d, e>>
           B == Behind(gate, steps)
<1>1. steps \in Seq({a, b, c, d, e}) /\ Len(steps) = 5
  OBVIOUS
<1>2. steps[1] = a /\ steps[2] = b /\ steps[3] = c /\ steps[4] = d /\ steps[5] = e
  OBVIOUS
<1> HIDE DEF steps
<1>3. IsSeq(steps)
  BY <1>1 DEF IsSeq
<1>4. /\ IsSeq(B) /\ Len(B) = 2 * Len(steps)
      /\ \A k \in 1..(2 * Len(steps)) : B[k] = IF k % 2 = 1 THEN gate ELSE steps[k \div 2]
  BY <1>3, BehindShape
<1> HIDE DEF B
<1>5. IsSeq(B) /\ Len(B) = 10 /\ \A k \in 1..10 : B[k] = IF k % 2 = 1 THEN gate ELSE steps[k \div 2]
  BY <1>1, <1>4
<1>6. B[1] = gate /\ B[3] = gate /\ B[5] = gate /\ B[7] = gate /\ B[9] = gate
  BY <1>5
<1>7. B[2] = a /\ B[4] = b /\ B[6] = c /\ B[8] = d /\ B[10] = e
  BY <1>2, <1>5
<1> QED
  BY <1>5, <1>6, <1>7 DEF B, steps

LEMMA JobNames ==
  /\ Len(JobOrder) = 8
  /\ CiJobs = {"validation_matrix", "provider_authentication", "validate", "quality_security_release",
               "clean_wheel_install", "phase0_rollback", "phase_rollback", "certification_status"}
<1>1. Len(JobOrder) = 8 /\ DOMAIN JobOrder = 1..8
  BY DEF JobOrder
<1>2. 1..8 = {1, 2, 3, 4, 5, 6, 7, 8}
  OBVIOUS
<1>3. CiJobs = {JobOrder[i] : i \in {1, 2, 3, 4, 5, 6, 7, 8}}
  BY <1>1, <1>2 DEF CiJobs, Range
<1> QED
  BY <1>1, <1>3 DEF JobOrder

LEMMA MatrixJob ==
  LET A == ApprovedJobs["validation_matrix"]
  IN  /\ IsSeq(A) /\ Len(A) = 16
      /\ A[1] = SourceGate /\ A[3] = SourceGate /\ A[5] = SourceGate /\ A[7] = SourceGate
      /\ A[9] = SourceGate /\ A[11] = SourceGate /\ A[13] = SourceGate /\ A[15] = SourceGate
      /\ A[2] = Must("install") /\ A[4] = Must("ratchets") /\ A[6] = Soft("governance")
      /\ A[8] = Always("upload_governance") /\ A[10] = Enforce("governance") /\ A[12] = Soft("pytest")
      /\ A[14] = Must("upload_pytest") /\ A[16] = Enforce("pytest")
<1> DEFINE A == ApprovedJobs["validation_matrix"]
           c == MatrixChecks
           t == MatrixTests
<1>1. A = c \o t
  BY JobNames DEF ApprovedJobs, Rollbacks
<1>2. IsSeq(c) /\ Len(c) = 6
  BY ThreeBehind DEF MatrixChecks
<1>3. IsSeq(t) /\ Len(t) = 10
  BY FiveBehind DEF MatrixTests
<1>4. /\ c[1] = SourceGate /\ c[3] = SourceGate /\ c[5] = SourceGate
      /\ c[2] = Must("install") /\ c[4] = Must("ratchets") /\ c[6] = Soft("governance")
  BY ThreeBehind DEF MatrixChecks
<1>5. /\ t[1] = SourceGate /\ t[3] = SourceGate /\ t[5] = SourceGate /\ t[7] = SourceGate /\ t[9] = SourceGate
      /\ t[2] = Always("upload_governance") /\ t[4] = Enforce("governance") /\ t[6] = Soft("pytest")
      /\ t[8] = Must("upload_pytest") /\ t[10] = Enforce("pytest")
  BY FiveBehind DEF MatrixTests
<1> HIDE DEF A, c, t
<1>6. /\ IsSeq(c \o t) /\ Len(c \o t) = Len(c) + Len(t)
      /\ \A i \in 1..Len(c) + Len(t) : (c \o t)[i] = IF i <= Len(c) THEN c[i] ELSE t[i - Len(c)]
  BY <1>2, <1>3, JoinAny
<1>7. IsSeq(A) /\ Len(A) = 16 /\ \A i \in 1..16 : A[i] = IF i <= 6 THEN c[i] ELSE t[i - 6]
  <2>1. Len(c) + Len(t) = 16
    BY <1>2, <1>3
  <2>2. ASSUME NEW i \in 1..16 PROVE A[i] = IF i <= 6 THEN c[i] ELSE t[i - 6]
    BY <1>1, <1>2, <1>6, <2>1
  <2> QED
    BY <1>1, <1>6, <2>1, <2>2
<1>8. A[1] = c[1] /\ A[2] = c[2] /\ A[3] = c[3] /\ A[4] = c[4] /\ A[5] = c[5] /\ A[6] = c[6]
  BY <1>7
<1>9. /\ A[7] = t[1] /\ A[8] = t[2] /\ A[9] = t[3] /\ A[10] = t[4] /\ A[11] = t[5]
      /\ A[12] = t[6] /\ A[13] = t[7] /\ A[14] = t[8] /\ A[15] = t[9] /\ A[16] = t[10]
  BY <1>7
<1> QED
  BY <1>4, <1>5, <1>7, <1>8, <1>9 DEF A

LEMMA ProviderJob ==
  LET A == ApprovedJobs["provider_authentication"]
  IN  /\ IsSeq(A) /\ Len(A) = 7
      /\ A[1] = SourceGate /\ A[3] = SourceGate /\ A[5] = SourceGate /\ A[7] = SourceGate
      /\ A[2] = Must("receipts") /\ A[4] = CiStep("controls", "none", "own_branch") /\ A[6] = CiStep("reject", "none", "fork")
<1> DEFINE A == ApprovedJobs["provider_authentication"]
           controls == CiStep("controls", "none", "own_branch")
           reject == CiStep("reject", "none", "fork")
           c == Behind(SourceGate, <<Must("receipts"), controls, reject>>)
           t == <<SourceGate>>
<1>1. A = c \o t
  BY JobNames DEF ApprovedJobs, Rollbacks, ProviderChecks
<1>2. /\ IsSeq(c) /\ Len(c) = 6 /\ c[1] = SourceGate /\ c[3] = SourceGate /\ c[5] = SourceGate
      /\ c[2] = Must("receipts") /\ c[4] = controls /\ c[6] = reject
  BY ThreeBehind
<1>3. t \in Seq({SourceGate}) /\ Len(t) = 1 /\ t[1] = SourceGate
  OBVIOUS
<1> HIDE DEF A, c, t
<1>4. /\ IsSeq(c \o t) /\ Len(c \o t) = Len(c) + Len(t)
      /\ \A i \in 1..Len(c) + Len(t) : (c \o t)[i] = IF i <= Len(c) THEN c[i] ELSE t[i - Len(c)]
  BY <1>2, <1>3, JoinAny DEF IsSeq
<1>5. IsSeq(A) /\ Len(A) = 7 /\ \A i \in 1..7 : A[i] = IF i <= 6 THEN c[i] ELSE t[i - 6]
  BY <1>1, <1>2, <1>3, <1>4
<1>6. A[1] = c[1] /\ A[2] = c[2] /\ A[3] = c[3] /\ A[4] = c[4] /\ A[5] = c[5] /\ A[6] = c[6] /\ A[7] = t[1]
  BY <1>5
<1> QED
  BY <1>2, <1>3, <1>5, <1>6 DEF A

LEMMA QualityJob ==
  LET A == ApprovedJobs["quality_security_release"]
  IN  /\ IsSeq(A) /\ Len(A) = 14
      /\ A[1] = SourceGate /\ A[3] = SourceGate /\ A[5] = SourceGate /\ A[7] = SourceGate
      /\ A[9] = SourceGate /\ A[11] = SourceGate /\ A[13] = SourceGate
      /\ A[2] = Must("install") /\ A[4] = Must("ratchets") /\ A[6] = Must("coverage") /\ A[8] = Must("risk")
      /\ A[10] = Must("audit") /\ A[12] = Must("build") /\ A[14] = Always("upload_dist")
<1> DEFINE A == ApprovedJobs["quality_security_release"]
           c == QualityChecks
           t == QualityRelease
<1>1. A = c \o t
  BY JobNames DEF ApprovedJobs, Rollbacks
<1>2. IsSeq(c) /\ Len(c) = 8
  BY FourBehind DEF QualityChecks
<1>3. IsSeq(t) /\ Len(t) = 6
  BY ThreeBehind DEF QualityRelease
<1>4. /\ c[1] = SourceGate /\ c[3] = SourceGate /\ c[5] = SourceGate /\ c[7] = SourceGate
      /\ c[2] = Must("install") /\ c[4] = Must("ratchets") /\ c[6] = Must("coverage") /\ c[8] = Must("risk")
  BY FourBehind DEF QualityChecks
<1>5. /\ t[1] = SourceGate /\ t[3] = SourceGate /\ t[5] = SourceGate
      /\ t[2] = Must("audit") /\ t[4] = Must("build") /\ t[6] = Always("upload_dist")
  BY ThreeBehind DEF QualityRelease
<1> HIDE DEF A, c, t
<1>6. /\ IsSeq(c \o t) /\ Len(c \o t) = Len(c) + Len(t)
      /\ \A i \in 1..Len(c) + Len(t) : (c \o t)[i] = IF i <= Len(c) THEN c[i] ELSE t[i - Len(c)]
  BY <1>2, <1>3, JoinAny
<1>7. IsSeq(A) /\ Len(A) = 14 /\ \A i \in 1..14 : A[i] = IF i <= 8 THEN c[i] ELSE t[i - 8]
  <2>1. Len(c) + Len(t) = 14
    BY <1>2, <1>3
  <2>2. ASSUME NEW i \in 1..14 PROVE A[i] = IF i <= 8 THEN c[i] ELSE t[i - 8]
    BY <1>1, <1>2, <1>6, <2>1
  <2> QED
    BY <1>1, <1>6, <2>1, <2>2
<1>8. /\ A[1] = c[1] /\ A[2] = c[2] /\ A[3] = c[3] /\ A[4] = c[4]
      /\ A[5] = c[5] /\ A[6] = c[6] /\ A[7] = c[7] /\ A[8] = c[8]
  BY <1>7
<1>9. A[9] = t[1] /\ A[10] = t[2] /\ A[11] = t[3] /\ A[12] = t[4] /\ A[13] = t[5] /\ A[14] = t[6]
  BY <1>7
<1> QED
  BY <1>4, <1>5, <1>7, <1>8, <1>9 DEF A

LEMMA WheelJob ==
  LET A == ApprovedJobs["clean_wheel_install"]
  IN  /\ IsSeq(A) /\ Len(A) = 4 /\ A[1] = SourceGate /\ A[3] = SourceGate
      /\ A[2] = Must("download_dist") /\ A[4] = Must("verify_wheel")
<1>1. ApprovedJobs["clean_wheel_install"] = WheelChecks
  BY JobNames DEF ApprovedJobs, Rollbacks
<1> QED
  BY <1>1, TwoBehind DEF WheelChecks

LEMMA RollbackJob ==
  ASSUME NEW j \in Rollbacks
  PROVE  LET A == ApprovedJobs[j]
         IN  /\ IsSeq(A) /\ Len(A) = 14
             /\ A[1] = SourceGate /\ A[3] = SourceGate /\ A[5] = RestoredGate /\ A[7] = RestoredGate
             /\ A[9] = RestoredGate /\ A[11] = RestoredGate /\ A[13] = RestoredGate
             /\ A[2] = Must("preserve") /\ A[4] = Must("rehearse") /\ A[6] = Must("install") /\ A[8] = Must("historical")
             /\ A[10] = Must("regression") /\ A[12] = Must("seal") /\ A[14] = Must("upload_receipt")
<1> DEFINE A == ApprovedJobs[j]
           c == RehearseSteps
           t == RestoredSteps
<1>1. A = c \o t
  BY JobNames DEF ApprovedJobs, Rollbacks
<1>2. IsSeq(c) /\ Len(c) = 4
  BY TwoBehind DEF RehearseSteps
<1>3. IsSeq(t) /\ Len(t) = 10
  BY FiveBehind DEF RestoredSteps
<1>4. /\ c[1] = SourceGate /\ c[3] = SourceGate
      /\ c[2] = Must("preserve") /\ c[4] = Must("rehearse")
  BY TwoBehind DEF RehearseSteps
<1>5. /\ t[1] = RestoredGate /\ t[3] = RestoredGate /\ t[5] = RestoredGate /\ t[7] = RestoredGate /\ t[9] = RestoredGate
      /\ t[2] = Must("install") /\ t[4] = Must("historical") /\ t[6] = Must("regression")
      /\ t[8] = Must("seal") /\ t[10] = Must("upload_receipt")
  BY FiveBehind DEF RestoredSteps
<1> HIDE DEF A, c, t
<1>6. /\ IsSeq(c \o t) /\ Len(c \o t) = Len(c) + Len(t)
      /\ \A i \in 1..Len(c) + Len(t) : (c \o t)[i] = IF i <= Len(c) THEN c[i] ELSE t[i - Len(c)]
  BY <1>2, <1>3, JoinAny
<1>7. IsSeq(A) /\ Len(A) = 14 /\ \A i \in 1..14 : A[i] = IF i <= 4 THEN c[i] ELSE t[i - 4]
  <2>1. Len(c) + Len(t) = 14
    BY <1>2, <1>3
  <2>2. ASSUME NEW i \in 1..14 PROVE A[i] = IF i <= 4 THEN c[i] ELSE t[i - 4]
    BY <1>1, <1>2, <1>6, <2>1
  <2> QED
    BY <1>1, <1>6, <2>1, <2>2
<1>8. A[1] = c[1] /\ A[2] = c[2] /\ A[3] = c[3] /\ A[4] = c[4]
  BY <1>7
<1>9. /\ A[5] = t[1] /\ A[6] = t[2] /\ A[7] = t[3] /\ A[8] = t[4] /\ A[9] = t[5]
      /\ A[10] = t[6] /\ A[11] = t[7] /\ A[12] = t[8] /\ A[13] = t[9] /\ A[14] = t[10]
  BY <1>7
<1> QED
  BY <1>4, <1>5, <1>7, <1>8, <1>9 DEF A

LEMMA StatusJob ==
  LET A == ApprovedJobs["certification_status"]
  IN  IsSeq(A) /\ Len(A) = 7 /\ \A i \in 1..7 : A[i] = Succeeded(JobOrder[i])
<1>1. ApprovedJobs["certification_status"] = CertificationChecks
  BY JobNames DEF ApprovedJobs, Rollbacks
<1>2. CertificationChecks = [i \in 1..7 |-> Succeeded(JobOrder[i])]
  BY JobNames DEF CertificationChecks
<1> DEFINE S == {Succeeded(JobOrder[i]) : i \in 1..7}
<1>3. CertificationChecks \in [1..7 -> S]
  BY <1>2
<1>4. CertificationChecks \in Seq(S)
  BY <1>3, SeqDef
<1>5. Len(CertificationChecks) = 7
  BY <1>3, <1>4, LenProperties
<1> QED
  BY <1>1, <1>2, <1>4, <1>5 DEF IsSeq

LEMMA ValidateJob ==
  LET A == ApprovedJobs["validate"]
  IN  /\ IsSeq(A) /\ Len(A) = 2
      /\ A[1] = Succeeded("validation_matrix") /\ A[2] = Succeeded("provider_authentication")
<1>1. ApprovedJobs["validate"] = ValidateChecks
  BY JobNames DEF ApprovedJobs, Rollbacks
<1> DEFINE m == Succeeded("validation_matrix")
           p == Succeeded("provider_authentication")
<1>2. ValidateChecks = <<m, p>>
  BY DEF ValidateChecks
<1> HIDE DEF m, p
<1>3. <<m, p>> \in Seq({m, p}) /\ Len(<<m, p>>) = 2 /\ <<m, p>>[1] = m /\ <<m, p>>[2] = p
  OBVIOUS
<1> QED
  BY <1>1, <1>2, <1>3 DEF IsSeq, m, p

StepFieldNames == {"name", "about", "kind", "command"}

LEMMA StepFields ==
  /\ \A n : /\ Must(n).name = n /\ Must(n).kind = "must" /\ Must(n).command = "own" /\ Must(n).about = "none"
            /\ DOMAIN Must(n) = StepFieldNames
  /\ \A n : /\ Soft(n).name = n /\ Soft(n).kind = "continue-on-error" /\ Soft(n).command = "own"
            /\ DOMAIN Soft(n) = StepFieldNames
  /\ \A n : /\ Always(n).name = n /\ Always(n).kind = "always" /\ Always(n).command = "own"
            /\ DOMAIN Always(n) = StepFieldNames
  /\ \A n : /\ Enforce(n).name = "enforce" /\ Enforce(n).kind = "if-failed" /\ Enforce(n).about = n
            /\ Enforce(n).command = "own" /\ DOMAIN Enforce(n) = StepFieldNames
  /\ \A n : /\ Succeeded(n).name = "succeeded" /\ Succeeded(n).kind = "must" /\ Succeeded(n).about = n
            /\ Succeeded(n).command = "own" /\ DOMAIN Succeeded(n) = StepFieldNames
  /\ \A n, k : /\ CiStep(n, "none", k).name = n /\ CiStep(n, "none", k).kind = k /\ CiStep(n, "none", k).command = "own"
               /\ DOMAIN CiStep(n, "none", k) = StepFieldNames
  BY DEF Must, Soft, Always, Enforce, Succeeded, CiStep, StepFieldNames

LEMMA GateFields ==
  /\ SourceGate.name = "prove_source" /\ SourceGate.kind = "must" /\ SourceGate.command = "own"
  /\ RestoredGate.name = "prove_restored" /\ RestoredGate.kind = "must" /\ RestoredGate.command = "own"
  /\ DOMAIN SourceGate = StepFieldNames /\ DOMAIN RestoredGate = StepFieldNames
  /\ SourceGate # RestoredGate
  BY StepFields DEF SourceGate, RestoredGate

\* What a step of a job that checks the sources out may be.
Sensible(A, i) ==
  /\ A[i].command = "own" /\ DOMAIN A[i] = StepFieldNames
  /\ A[i] \notin ProofSteps =>
       /\ A[i].name \notin {"prove_source", "prove_restored", "succeeded"}
       /\ A[i].kind \in {"must", "always", "continue-on-error", "if-failed", "own_branch", "fork"}
       /\ A[i].kind = "own_branch" => A[i].name = "controls"
       /\ A[i].kind = "if-failed" => A[i].name = "enforce"
       /\ A[i].kind = "fork" => A[i].name = "reject"

\* A failure that is forgiven is enforced later, and not before.
Enforced(A, i) ==
  A[i].kind = "continue-on-error" =>
    /\ \E k \in 1..Len(A) : A[k] \notin ProofSteps /\ A[k].kind = "if-failed" /\ A[k].about = A[i].name
    /\ \A k \in 1..(i - 1) : A[k].kind = "if-failed" => A[k].about # A[i].name

LEMMA MatrixSensible ==
  LET A == ApprovedJobs["validation_matrix"]
  IN  \A i \in 1..Len(A) : Sensible(A, i) /\ Enforced(A, i)
<1> DEFINE A == ApprovedJobs["validation_matrix"]
<1>1. /\ Len(A) = 16
      /\ A[1] = SourceGate /\ A[3] = SourceGate /\ A[5] = SourceGate /\ A[7] = SourceGate
      /\ A[9] = SourceGate /\ A[11] = SourceGate /\ A[13] = SourceGate /\ A[15] = SourceGate
      /\ A[2] = Must("install") /\ A[4] = Must("ratchets") /\ A[6] = Soft("governance")
      /\ A[8] = Always("upload_governance") /\ A[10] = Enforce("governance") /\ A[12] = Soft("pytest")
      /\ A[14] = Must("upload_pytest") /\ A[16] = Enforce("pytest")
  BY MatrixJob
<1> HIDE DEF A
<1>2. \A i \in 1..16 : i \in {1, 3, 5, 7, 9, 11, 13, 15} \/ i \in {2, 4, 6, 8, 10, 12, 14, 16}
  OBVIOUS
<1>3. ASSUME NEW i \in {1, 3, 5, 7, 9, 11, 13, 15} PROVE A[i] = SourceGate
  BY <1>1
<1>4. \A i \in 1..16 : Sensible(A, i)
  <2>1. ASSUME NEW i \in {2, 4, 6, 8, 10, 12, 14, 16} PROVE Sensible(A, i)
    BY <1>1, StepFields DEF Sensible
  <2>2. ASSUME NEW i \in {1, 3, 5, 7, 9, 11, 13, 15} PROVE Sensible(A, i)
    BY <1>3, GateFields DEF Sensible, ProofSteps
  <2> QED
    BY <1>2, <2>1, <2>2
<1>5. \A i \in 1..16 : Enforced(A, i)
  <2>1. \A i \in 1..16 : A[i].kind = "continue-on-error" => i \in {6, 12}
    BY <1>1, <1>2, <1>3, StepFields, GateFields
  <2>2. A[10].kind = "if-failed" /\ A[10].about = "governance" /\ A[16].kind = "if-failed" /\ A[16].about = "pytest"
    BY <1>1, StepFields
  <2>3. A[10] \notin ProofSteps /\ A[16] \notin ProofSteps
    BY <2>2, GateFields DEF ProofSteps
  <2>4. A[6].name = "governance" /\ A[12].name = "pytest"
    BY <1>1, StepFields
  <2>5. \A k \in 1..11 : A[k].kind = "if-failed" => k = 10
    BY <1>1, <1>3, StepFields, GateFields
  <2> QED
    BY <1>1, <2>1, <2>2, <2>3, <2>4, <2>5 DEF Enforced
<1> QED
  BY <1>1, <1>4, <1>5 DEF A

LEMMA ProviderSensible ==
  LET A == ApprovedJobs["provider_authentication"]
  IN  \A i \in 1..Len(A) : Sensible(A, i) /\ Enforced(A, i)
<1> DEFINE A == ApprovedJobs["provider_authentication"]
<1>1. /\ Len(A) = 7
      /\ A[1] = SourceGate /\ A[3] = SourceGate /\ A[5] = SourceGate /\ A[7] = SourceGate
      /\ A[2] = Must("receipts") /\ A[4] = CiStep("controls", "none", "own_branch") /\ A[6] = CiStep("reject", "none", "fork")
  BY ProviderJob
<1> HIDE DEF A
<1>2. ASSUME NEW i \in {1, 3, 5, 7} PROVE Sensible(A, i) /\ Enforced(A, i)
  BY <1>1, GateFields DEF Sensible, Enforced, ProofSteps
<1>3. ASSUME NEW i \in {2, 4, 6} PROVE Sensible(A, i) /\ Enforced(A, i)
  BY <1>1, StepFields DEF Sensible, Enforced
<1>4. \A i \in 1..7 : i \in {1, 3, 5, 7} \/ i \in {2, 4, 6}
  OBVIOUS
<1> QED
  BY <1>1, <1>2, <1>3, <1>4 DEF A

LEMMA QualitySensible ==
  LET A == ApprovedJobs["quality_security_release"]
  IN  \A i \in 1..Len(A) : Sensible(A, i) /\ Enforced(A, i)
<1> DEFINE A == ApprovedJobs["quality_security_release"]
<1>1. /\ Len(A) = 14
      /\ A[1] = SourceGate /\ A[3] = SourceGate /\ A[5] = SourceGate /\ A[7] = SourceGate
      /\ A[9] = SourceGate /\ A[11] = SourceGate /\ A[13] = SourceGate
      /\ A[2] = Must("install") /\ A[4] = Must("ratchets") /\ A[6] = Must("coverage") /\ A[8] = Must("risk")
      /\ A[10] = Must("audit") /\ A[12] = Must("build") /\ A[14] = Always("upload_dist")
  BY QualityJob
<1> HIDE DEF A
<1>2. ASSUME NEW i \in {1, 3, 5, 7, 9, 11, 13} PROVE Sensible(A, i) /\ Enforced(A, i)
  BY <1>1, GateFields DEF Sensible, Enforced, ProofSteps
<1>3. ASSUME NEW i \in {2, 4, 6, 8, 10, 12, 14} PROVE Sensible(A, i) /\ Enforced(A, i)
  BY <1>1, StepFields DEF Sensible, Enforced
<1>4. \A i \in 1..14 : i \in {1, 3, 5, 7, 9, 11, 13} \/ i \in {2, 4, 6, 8, 10, 12, 14}
  OBVIOUS
<1> QED
  BY <1>1, <1>2, <1>3, <1>4 DEF A

LEMMA WheelSensible ==
  LET A == ApprovedJobs["clean_wheel_install"]
  IN  \A i \in 1..Len(A) : Sensible(A, i) /\ Enforced(A, i)
<1> DEFINE A == ApprovedJobs["clean_wheel_install"]
<1>1. /\ Len(A) = 4 /\ A[1] = SourceGate /\ A[3] = SourceGate
      /\ A[2] = Must("download_dist") /\ A[4] = Must("verify_wheel")
  BY WheelJob
<1> HIDE DEF A
<1>2. ASSUME NEW i \in {1, 3} PROVE Sensible(A, i) /\ Enforced(A, i)
  BY <1>1, GateFields DEF Sensible, Enforced, ProofSteps
<1>3. ASSUME NEW i \in {2, 4} PROVE Sensible(A, i) /\ Enforced(A, i)
  BY <1>1, StepFields DEF Sensible, Enforced
<1>4. \A i \in 1..4 : i \in {1, 3} \/ i \in {2, 4}
  OBVIOUS
<1> QED
  BY <1>1, <1>2, <1>3, <1>4 DEF A

\* In a rehearsal the steps about the restored sources are those behind it.
LEMMA RollbackSensible ==
  ASSUME NEW j \in Rollbacks
  PROVE  LET A == ApprovedJobs[j]
         IN  \A i \in 1..Len(A) :
               /\ Sensible(A, i) /\ Enforced(A, i)
               /\ A[i] \notin ProofSteps =>
                    (A[i].name \in RestoredNames <=> \E k \in 1..(i - 1) : ReplacesSource(j, A[k]))
<1> DEFINE A == ApprovedJobs[j]
<1>1. /\ Len(A) = 14
      /\ A[1] = SourceGate /\ A[3] = SourceGate /\ A[5] = RestoredGate /\ A[7] = RestoredGate
      /\ A[9] = RestoredGate /\ A[11] = RestoredGate /\ A[13] = RestoredGate
      /\ A[2] = Must("preserve") /\ A[4] = Must("rehearse") /\ A[6] = Must("install") /\ A[8] = Must("historical")
      /\ A[10] = Must("regression") /\ A[12] = Must("seal") /\ A[14] = Must("upload_receipt")
  BY RollbackJob
<1> HIDE DEF A
<1>2. ASSUME NEW i \in {1, 3, 5, 7, 9, 11, 13} PROVE Sensible(A, i) /\ Enforced(A, i) /\ A[i] \in ProofSteps
  BY <1>1, GateFields DEF Sensible, Enforced, ProofSteps
<1>3. ASSUME NEW i \in {2, 4, 6, 8, 10, 12, 14} PROVE Sensible(A, i) /\ Enforced(A, i)
  BY <1>1, StepFields DEF Sensible, Enforced
<1>4. \A i \in 1..14 : i \in {1, 3, 5, 7, 9, 11, 13} \/ i \in {2, 4, 6, 8, 10, 12, 14}
  OBVIOUS
<1>5. RestoredNames = {"prove_restored", "install", "historical", "regression", "seal", "upload_receipt"}
  <2> DEFINE R == RestoredSteps
  <2>1. /\ IsSeq(R) /\ Len(R) = 10
        /\ R[1] = RestoredGate /\ R[3] = RestoredGate /\ R[5] = RestoredGate /\ R[7] = RestoredGate /\ R[9] = RestoredGate
        /\ R[2] = Must("install") /\ R[4] = Must("historical") /\ R[6] = Must("regression")
        /\ R[8] = Must("seal") /\ R[10] = Must("upload_receipt")
    BY FiveBehind DEF RestoredSteps
  <2> HIDE DEF R
  <2>2. DOMAIN R = 1..10
    BY <2>1, LenProperties DEF IsSeq
  <2>3. 1..10 = {1, 2, 3, 4, 5, 6, 7, 8, 9, 10}
    OBVIOUS
  <2>4. RestoredNames = {R[i].name : i \in {1, 2, 3, 4, 5, 6, 7, 8, 9, 10}}
    BY <2>2, <2>3 DEF RestoredNames, Range, R
  <2>5. /\ R[1].name = "prove_restored" /\ R[3].name = "prove_restored" /\ R[5].name = "prove_restored"
        /\ R[7].name = "prove_restored" /\ R[9].name = "prove_restored"
        /\ R[2].name = "install" /\ R[4].name = "historical" /\ R[6].name = "regression"
        /\ R[8].name = "seal" /\ R[10].name = "upload_receipt"
    BY <2>1, StepFields, GateFields
  <2> QED
    BY <2>4, <2>5
<1>6. \A k \in 1..14 : ReplacesSource(j, A[k]) <=> k = 4
  <2>1. \A k \in {1, 3, 5, 7, 9, 11, 13} : A[k] # Must("rehearse")
    BY <1>1, GateFields, StepFields
  <2>2. \A k \in {2, 6, 8, 10, 12, 14} : A[k] # Must("rehearse")
    BY <1>1, StepFields
  <2> QED
    BY <1>1, <1>4, <2>1, <2>2 DEF ReplacesSource
<1>7. ASSUME NEW i \in {2, 4, 6, 8, 10, 12, 14}
      PROVE  A[i].name \in RestoredNames <=> \E k \in 1..(i - 1) : ReplacesSource(j, A[k])
  <2>1. A[i].name \in RestoredNames <=> i > 4
    BY <1>1, <1>5, StepFields
  <2>2. (\E k \in 1..(i - 1) : ReplacesSource(j, A[k])) <=> i > 4
    BY <1>6
  <2> QED
    BY <2>1, <2>2
<1> QED
  BY <1>1, <1>2, <1>3, <1>4, <1>7 DEF A

JobsThatTest == {"validation_matrix", "quality_security_release"}

LEMMA JobSets ==
  /\ Rollbacks = {"phase0_rollback", "phase_rollback"}
  /\ CheckoutJobs = {"validation_matrix", "provider_authentication", "quality_security_release",
                     "clean_wheel_install", "phase0_rollback", "phase_rollback"}
  /\ \A j \in CiJobs : j \in CheckoutJobs \/ j = "validate" \/ j = "certification_status"
  BY JobNames DEF CheckoutJobs, Rollbacks

\* Every job of the approved workflow is a sequence of commands of its own.
LEMMA ApprovedShape ==
  ASSUME NEW j \in CiJobs
  PROVE  /\ IsSeq(ApprovedJobs[j]) /\ Len(ApprovedJobs[j]) \in Nat
         /\ \A i \in 1..Len(ApprovedJobs[j]) :
              ApprovedJobs[j][i].command = "own" /\ DOMAIN ApprovedJobs[j][i] = StepFieldNames
<1>1. IsSeq(ApprovedJobs[j])
  BY JobSets, JobNames, MatrixJob, ProviderJob, QualityJob, WheelJob, RollbackJob, StatusJob, ValidateJob
<1>2. Len(ApprovedJobs[j]) \in Nat
  BY <1>1, LenProperties DEF IsSeq
<1>3. CASE j \in CheckoutJobs
  <2>1. \A i \in 1..Len(ApprovedJobs[j]) : Sensible(ApprovedJobs[j], i)
    BY <1>3, JobSets, MatrixSensible, ProviderSensible, QualitySensible, WheelSensible, RollbackSensible
  <2> QED
    BY <1>1, <1>2, <2>1 DEF Sensible
<1>4. CASE j = "validate"
  BY <1>1, <1>2, <1>4, ValidateJob, StepFields
<1>5. CASE j = "certification_status"
  BY <1>1, <1>2, <1>5, StatusJob, StepFields
<1> QED
  BY <1>3, <1>4, <1>5, JobSets

LEMMA EditPlaces ==
  ASSUME NEW e \in PossibleEdits
  PROVE  \/ e.change \in {"none", "conditional"}
         \/ /\ e.change \in {"drop", "empty", "forgive", "insert"}
            /\ e.job \in CiJobs /\ e.place \in 1..Len(ApprovedJobs[e.job])
<1>1. e \in Edits /\ (e.place = 0 \/ e.place \in 1..Len(ApprovedJobs[e.job]))
  BY DEF PossibleEdits
<1> QED
  BY <1>1 DEF Edits, NoEdit

LEMMA CutAny ==
  ASSUME NEW s, IsSeq(s), NEW m \in Int, NEW n \in Int, 1 <= m, n <= Len(s)
  PROVE  /\ IsSeq(SubSeq(s, m, n)) /\ Len(SubSeq(s, m, n)) = IF m <= n THEN n - m + 1 ELSE 0
         /\ \A i \in 1..(n - m + 1) : SubSeq(s, m, n)[i] = s[m + i - 1]
<1>1. PICK S : s \in Seq(S)
  BY DEF IsSeq
<1>2. Len(s) \in Nat /\ \A i \in m..n : s[i] \in S
  BY <1>1
<1>3. /\ SubSeq(s, m, n) \in Seq(S)
      /\ Len(SubSeq(s, m, n)) = IF m <= n THEN n - m + 1 ELSE 0
      /\ \A i \in 1..(n - m + 1) : SubSeq(s, m, n)[i] = s[m + i - 1]
  BY <1>1, <1>2, SubSeqProperties
<1> QED
  BY <1>3 DEF IsSeq

LEMMA DropShape ==
  ASSUME NEW s, IsSeq(s), NEW p \in 1..Len(s)
  PROVE  /\ IsSeq(RemoveAt(s, p)) /\ Len(RemoveAt(s, p)) = Len(s) - 1
         /\ \A i \in 1..(Len(s) - 1) : RemoveAt(s, p)[i] = IF i < p THEN s[i] ELSE s[i + 1]
<1> DEFINE u == SubSeq(s, 1, p - 1)
           v == SubSeq(s, p + 1, Len(s))
<1>1. Len(s) \in Nat /\ p \in Int
  BY LenProperties DEF IsSeq
<1>2. IsSeq(u) /\ Len(u) = p - 1 /\ \A i \in 1..(p - 1) : u[i] = s[i]
  BY <1>1, CutAny
<1>3. IsSeq(v) /\ Len(v) = Len(s) - p /\ \A i \in 1..(Len(s) - p) : v[i] = s[p + i]
  BY <1>1, CutAny
<1>4. RemoveAt(s, p) = u \o v
  BY DEF RemoveAt
<1> HIDE DEF u, v
<1>5. /\ IsSeq(u \o v) /\ Len(u \o v) = Len(u) + Len(v)
      /\ \A i \in 1..Len(u) + Len(v) : (u \o v)[i] = IF i <= Len(u) THEN u[i] ELSE v[i - Len(u)]
  BY <1>2, <1>3, JoinAny
<1>6. Len(u) + Len(v) = Len(s) - 1
  BY <1>1, <1>2, <1>3
<1>7. ASSUME NEW i \in 1..(Len(s) - 1)
      PROVE  RemoveAt(s, p)[i] = IF i < p THEN s[i] ELSE s[i + 1]
  <2>1. CASE i < p
    BY <1>1, <1>2, <1>4, <1>5, <1>6, <2>1
  <2>2. CASE i >= p
    <3>1. (u \o v)[i] = v[i - (p - 1)]
      BY <1>1, <1>2, <1>5, <1>6, <2>2
    <3>2. i - (p - 1) \in 1..(Len(s) - p) /\ p + (i - (p - 1)) = i + 1
      BY <1>1, <2>2
    <3> QED
      BY <1>1, <1>3, <1>4, <2>2, <3>1, <3>2
  <2> QED
    BY <1>1, <2>1, <2>2
<1> QED
  BY <1>4, <1>5, <1>6, <1>7

LEMMA InsertShape ==
  ASSUME NEW s, IsSeq(s), NEW p \in 1..Len(s), NEW x
  PROVE  /\ IsSeq(InsertAt(s, p, x)) /\ Len(InsertAt(s, p, x)) = Len(s) + 1
         /\ \A i \in 1..Len(s) : InsertAt(s, p, x)[IF i < p THEN i ELSE i + 1] = s[i]
<1> DEFINE u == SubSeq(s, 1, p - 1)
           v == SubSeq(s, p, Len(s))
           w == u \o <<x>>
<1>1. Len(s) \in Nat /\ p \in Int
  BY LenProperties DEF IsSeq
<1>2. IsSeq(u) /\ Len(u) = p - 1 /\ \A i \in 1..(p - 1) : u[i] = s[i]
  BY <1>1, CutAny
<1>3. IsSeq(v) /\ Len(v) = Len(s) - p + 1 /\ \A i \in 1..(Len(s) - p + 1) : v[i] = s[p + i - 1]
  BY <1>1, CutAny
<1>4. <<x>> \in Seq({x}) /\ Len(<<x>>) = 1
  OBVIOUS
<1>5. InsertAt(s, p, x) = w \o v
  BY DEF InsertAt
<1> HIDE DEF u, v
<1>6. /\ IsSeq(w) /\ Len(w) = Len(u) + Len(<<x>>)
      /\ \A i \in 1..Len(u) + Len(<<x>>) : w[i] = IF i <= Len(u) THEN u[i] ELSE <<x>>[i - Len(u)]
  BY <1>2, <1>4, JoinAny DEF IsSeq
<1> HIDE DEF w
<1>7. IsSeq(w) /\ Len(w) = p /\ \A i \in 1..(p - 1) : w[i] = s[i]
  BY <1>1, <1>2, <1>4, <1>6
<1>8. /\ IsSeq(w \o v) /\ Len(w \o v) = Len(w) + Len(v)
      /\ \A i \in 1..Len(w) + Len(v) : (w \o v)[i] = IF i <= Len(w) THEN w[i] ELSE v[i - Len(w)]
  BY <1>3, <1>7, JoinAny
<1>9. Len(w) + Len(v) = Len(s) + 1
  BY <1>1, <1>3, <1>7
<1>10. ASSUME NEW i \in 1..Len(s)
       PROVE  InsertAt(s, p, x)[IF i < p THEN i ELSE i + 1] = s[i]
  <2>1. CASE i < p
    BY <1>1, <1>5, <1>7, <1>8, <1>9, <2>1
  <2>2. CASE i >= p
    <3>1. (w \o v)[i + 1] = v[i + 1 - p]
      BY <1>1, <1>7, <1>8, <1>9, <2>2
    <3>2. i + 1 - p \in 1..(Len(s) - p + 1) /\ p + (i + 1 - p) - 1 = i
      BY <1>1, <2>2
    <3>3. v[i + 1 - p] = s[i]
      BY <1>3, <3>2
    <3>4. ~(i < p)
      BY <1>1, <2>2
    <3> QED
      BY <1>5, <3>1, <3>3, <3>4
  <2> QED
    BY <1>1, <2>1, <2>2
<1> QED
  BY <1>5, <1>8, <1>9, <1>10

\* An edited job is a sequence of steps, and what its steps are.
LEMMA EditedShape ==
  ASSUME NEW e \in PossibleEdits, NEW j \in CiJobs
  PROVE  LET A == ApprovedJobs[j]
             W == Workflow(e)[j]
         IN  /\ IsSeq(W) /\ Len(W) \in Nat
             /\ e.job # j \/ e.change \in {"none", "conditional"} => W = A
             /\ e.job = j /\ e.change = "drop" => W = RemoveAt(A, e.place)
             /\ e.job = j /\ e.change = "insert" => W = InsertAt(A, e.place, Must("inserted"))
             /\ e.job = j /\ e.change \in {"empty", "forgive"} =>
                  /\ Len(W) = Len(A) /\ \A i \in 1..Len(A) \ {e.place} : W[i] = A[i]
                  /\ e.change = "empty" => W[e.place] = [A[e.place] EXCEPT !.command = "nothing"]
                  /\ e.change = "forgive" => W[e.place] = [A[e.place] EXCEPT !.kind = "continue-on-error"]
<1> DEFINE A == ApprovedJobs[j]
           W == Workflow(e)[j]
<1>1. IsSeq(A) /\ Len(A) \in Nat
  BY ApprovedShape
<1>2. W = IF j = e.job THEN Edited(A, e) ELSE A
  BY DEF Workflow
<1>3. CASE e.job # j \/ e.change \in {"none", "conditional"}
  <2>1. W = A
    BY <1>2, <1>3 DEF Edited
  <2>2. e.job = j => e.change \notin {"drop", "insert", "empty", "forgive"}
    BY <1>3
  <2> HIDE DEF A, W
  <2> QED
    BY <1>1, <2>1, <2>2 DEF A, W
<1>4. CASE e.job = j /\ e.change \in {"drop", "empty", "forgive", "insert"}
  <2>1. e.place \in 1..Len(A) /\ W = Edited(A, e)
    BY <1>2, <1>4, EditPlaces
  <2> HIDE DEF A, W
  <2>2. CASE e.change = "drop"
    <3>1. W = RemoveAt(A, e.place)
      BY <2>1, <2>2 DEF Edited
    <3>2. IsSeq(W) /\ Len(W) \in Nat
      BY <1>1, <2>1, <3>1, DropShape
    <3> QED
      BY <1>4, <2>2, <3>1, <3>2 DEF A, W
  <2>3. CASE e.change = "insert"
    <3>1. W = InsertAt(A, e.place, Must("inserted"))
      BY <2>1, <2>3 DEF Edited
    <3>2. IsSeq(W) /\ Len(W) \in Nat
      BY <1>1, <2>1, <3>1, InsertShape
    <3> QED
      BY <1>4, <2>3, <3>1, <3>2 DEF A, W
  <2>4. CASE e.change = "empty"
    <3> DEFINE p == e.place
               x == [A[p] EXCEPT !.command = "nothing"]
    <3>1. W = [A EXCEPT ![p] = x] /\ p \in 1..Len(A)
      BY <2>1, <2>4 DEF Edited
    <3> HIDE DEF x, p
    <3>2. PICK S : A \in Seq(S)
      BY <1>1 DEF IsSeq
    <3>3. A \in Seq(S \cup {x}) /\ x \in S \cup {x}
      BY <3>2, SeqMonotonic
    <3>4. /\ W \in Seq(S \cup {x}) /\ Len(W) = Len(A)
          /\ \A k \in 1..Len(A) : W[k] = IF k = p THEN x ELSE A[k]
      BY <3>1, <3>3, ExceptSeq
    <3>5. IsSeq(W)
      BY <3>4 DEF IsSeq
    <3> QED
      BY <1>1, <1>4, <2>4, <3>1, <3>4, <3>5 DEF A, W, x, p
  <2>5. CASE e.change = "forgive"
    <3> DEFINE p == e.place
               x == [A[p] EXCEPT !.kind = "continue-on-error"]
    <3>1. W = [A EXCEPT ![p] = x] /\ p \in 1..Len(A)
      BY <2>1, <2>5 DEF Edited
    <3> HIDE DEF x, p
    <3>2. PICK S : A \in Seq(S)
      BY <1>1 DEF IsSeq
    <3>3. A \in Seq(S \cup {x}) /\ x \in S \cup {x}
      BY <3>2, SeqMonotonic
    <3>4. /\ W \in Seq(S \cup {x}) /\ Len(W) = Len(A)
          /\ \A k \in 1..Len(A) : W[k] = IF k = p THEN x ELSE A[k]
      BY <3>1, <3>3, ExceptSeq
    <3>5. IsSeq(W)
      BY <3>4 DEF IsSeq
    <3> QED
      BY <1>1, <1>4, <2>5, <3>1, <3>4, <3>5 DEF A, W, x, p
  <2> QED
    BY <1>4, <2>2, <2>3, <2>4, <2>5
<1> QED
  BY <1>3, <1>4, EditPlaces

\* An edit that the contract does not see empties one command that it does not bind.
LEMMA UnseenEdits ==
  ASSUME NEW e \in PossibleEdits, e \notin Rejected, NEW j \in CiJobs
  PROVE  LET A == ApprovedJobs[j]
             W == Workflow(e)[j]
         IN  /\ Len(W) = Len(A)
             /\ \A i \in 1..Len(A) :
                  /\ W[i].name = A[i].name /\ W[i].about = A[i].about /\ W[i].kind = A[i].kind
                  /\ \/ W[i].command = "own"
                     \/ e.change = "empty" /\ e.job = j /\ e.place = i /\ ~BoundCommand(A[i])
<1> DEFINE A == ApprovedJobs[j]
           W == Workflow(e)[j]
<1>1. Projection(W) = Projection(A)
  BY DEF Rejected, WorkflowErrors, FiniteContractErrors
<1>2. Len(A) \in Nat /\ Len(W) \in Nat /\ \A i \in 1..Len(A) : A[i].command = "own" /\ "command" \in DOMAIN A[i]
  BY ApprovedShape, EditedShape DEF StepFieldNames
<1>3. /\ e.job # j \/ e.change \in {"none", "conditional"} => W = A
      /\ e.job = j /\ e.change = "drop" => W = RemoveAt(A, e.place)
      /\ e.job = j /\ e.change = "insert" => W = InsertAt(A, e.place, Must("inserted"))
      /\ e.job = j /\ e.change \in {"empty", "forgive"} =>
           /\ \A i \in 1..Len(A) \ {e.place} : W[i] = A[i]
           /\ e.change = "empty" => W[e.place] = [A[e.place] EXCEPT !.command = "nothing"]
           /\ e.change = "forgive" => W[e.place] = [A[e.place] EXCEPT !.kind = "continue-on-error"]
  BY EditedShape
<1>4. e.job = j => \/ e.change \in {"none", "conditional"}
                   \/ e.change \in {"drop", "insert", "empty", "forgive"} /\ e.place \in 1..Len(A)
  BY EditPlaces
<1>5. IsSeq(A)
  BY ApprovedShape
<1> HIDE DEF A, W
<1> DEFINE pick(s, i) == <<s[i].name, s[i].about, s[i].kind, IF BoundCommand(s[i]) THEN s[i].command ELSE "any">>
<1>6. Projection(W) = [i \in 1..Len(W) |-> pick(W, i)] /\ Projection(A) = [i \in 1..Len(A) |-> pick(A, i)]
  BY DEF Projection
<1>7. Len(W) = Len(A)
  <2>1. 1..Len(W) = 1..Len(A)
    BY <1>1, <1>6
  <2> QED
    BY <1>2, <2>1
<1>8. ASSUME NEW i \in 1..Len(A)
      PROVE  /\ W[i].name = A[i].name /\ W[i].about = A[i].about /\ W[i].kind = A[i].kind
             /\ BoundCommand(A[i]) => W[i].command = A[i].command
  <2>1. pick(W, i) = pick(A, i)
    BY <1>1, <1>6, <1>7
  <2>2. W[i].name = A[i].name /\ W[i].about = A[i].about /\ W[i].kind = A[i].kind
    BY <2>1
  <2>3. BoundCommand(W[i]) <=> BoundCommand(A[i])
    BY <2>2 DEF BoundCommand
  <2> QED
    BY <2>1, <2>2, <2>3
<1>9. ASSUME NEW i \in 1..Len(A), W[i].command # "own"
      PROVE  e.change = "empty" /\ e.job = j /\ e.place = i /\ ~BoundCommand(A[i])
  <2>1. W # A
    BY <1>2, <1>9
  <2>2. e.job = j /\ e.change \in {"drop", "insert", "empty", "forgive"} /\ e.place \in 1..Len(A)
    BY <1>3, <1>4, <2>1
  <2>3. e.change # "drop"
    BY <1>2, <1>3, <1>5, <1>7, <2>2, DropShape
  <2>4. e.change # "insert"
    BY <1>2, <1>3, <1>5, <1>7, <2>2, InsertShape
  <2>5. e.place = i
    BY <1>2, <1>3, <1>9, <2>2, <2>3, <2>4
  <2>6. e.change # "forgive"
    BY <1>2, <1>3, <1>9, <2>2, <2>5
  <2> QED
    BY <1>2, <1>8, <1>9, <2>2, <2>3, <2>4, <2>5, <2>6
<1> QED
  BY <1>7, <1>8, <1>9 DEF A, W

\* A certification of other jobs asks for one that runs the tests and was not edited.
LEMMA ChecksRemain ==
  ASSUME NEW e \in PossibleEdits
  PROVE  \E i \in 1..Len(Workflow(e)["certification_status"]) : \E x \in JobsThatTest :
           x # e.job /\ Workflow(e)["certification_status"][i] = Succeeded(x)
<1> DEFINE A == ApprovedJobs["certification_status"]
           W == Workflow(e)["certification_status"]
           matrix == Succeeded("validation_matrix")
           quality == Succeeded("quality_security_release")
<1>1. IsSeq(A) /\ Len(A) = 7 /\ A[1] = matrix /\ A[4] = quality
  <2>1. JobOrder[1] = "validation_matrix" /\ JobOrder[4] = "quality_security_release"
    BY DEF JobOrder
  <2> QED
    BY <2>1, StatusJob
<1>2. /\ "certification_status" \in CiJobs
      /\ "certification_status" # "validation_matrix" /\ "certification_status" # "quality_security_release"
  BY JobNames
<1>3. /\ IsSeq(W)
      /\ e.job # "certification_status" \/ e.change \in {"none", "conditional"} => W = A
      /\ e.job = "certification_status" /\ e.change = "drop" => W = RemoveAt(A, e.place)
      /\ e.job = "certification_status" /\ e.change = "insert" => W = InsertAt(A, e.place, Must("inserted"))
      /\ e.job = "certification_status" /\ e.change \in {"empty", "forgive"} =>
           Len(W) = Len(A) /\ \A i \in 1..Len(A) \ {e.place} : W[i] = A[i]
  BY <1>2, EditedShape
<1>4. e.job = "certification_status" =>
        \/ e.change \in {"none", "conditional"}
        \/ e.change \in {"drop", "insert", "empty", "forgive"} /\ e.place \in 1..Len(A)
  BY EditPlaces
<1> HIDE DEF A, W, matrix, quality
<1>5. SUFFICES /\ e.job = "certification_status" => \E i \in 1..Len(W) : W[i] \in {matrix, quality}
               /\ e.job # "certification_status" =>
                    Len(W) = 7 /\ W[1] = matrix /\ W[4] = quality
  BY <1>2 DEF W, matrix, quality, JobsThatTest
<1>6. CASE e.job # "certification_status" \/ e.change \in {"none", "conditional"}
  BY <1>1, <1>3, <1>6
<1>7. CASE e.job = "certification_status" /\ e.change \in {"drop", "insert", "empty", "forgive"}
  <2>1. e.place \in 1..7
    BY <1>1, <1>4, <1>7
  <2>2. CASE e.change \in {"empty", "forgive"}
    BY <1>1, <1>3, <1>7, <2>1, <2>2
  <2>3. CASE e.change = "drop"
    <3> DEFINE p == e.place
    <3>1. W = RemoveAt(A, p) /\ p \in 1..Len(A)
      BY <1>1, <1>3, <1>7, <2>1, <2>3
    <3> HIDE DEF p
    <3>2. Len(W) = Len(A) - 1 /\ \A i \in 1..(Len(A) - 1) : W[i] = IF i < p THEN A[i] ELSE A[i + 1]
      BY <1>1, <3>1, DropShape
    <3>3. Len(W) = 6 /\ W[1] \in {A[1], A[2]} /\ W[3] \in {A[3], A[4]} /\ (1 < p => W[1] = A[1]) /\ (p = 1 => W[3] = A[4])
      BY <1>1, <3>2
    <3> QED
      BY <1>1, <1>7, <3>1, <3>3
  <2>4. CASE e.change = "insert"
    <3> DEFINE p == e.place
    <3>1. W = InsertAt(A, p, Must("inserted")) /\ p \in 1..Len(A)
      BY <1>1, <1>3, <1>7, <2>1, <2>4
    <3> HIDE DEF p
    <3>2. Len(W) = Len(A) + 1 /\ \A i \in 1..Len(A) : W[IF i < p THEN i ELSE i + 1] = A[i]
      BY <1>1, <3>1, InsertShape
    <3>3. Len(W) = 8 /\ W[IF 1 < p THEN 1 ELSE 2] = matrix
      BY <1>1, <3>2
    <3> QED
      BY <1>7, <3>1, <3>3
  <2> QED
    BY <1>7, <2>2, <2>3, <2>4
<1> QED
  BY <1>4, <1>6, <1>7

CertificationTypeOK ==
  /\ edit \in PossibleEdits
  /\ outcomes \in [CiJobs -> {"waiting", "success", "failure", "skipped"}]
  /\ running \in {NoJob} \cup [job : CiJobs, leg : Nat, at : Nat]
  /\ running # NoJob =>
       /\ running.leg \in 1..Legs(running.job) /\ running.at \in 1..(Len(JobSteps) + 1)
       /\ outcomes[running.job] = "waiting"

\* Behind a gate that the job has just passed its checkout is what the gate asks for.
GateHolds ==
  running # NoJob /\ running.at > 1 =>
    /\ JobSteps[running.at - 1] = SourceGate => ProofPasses(checkout, "candidate", "candidate")
    /\ JobSteps[running.at - 1] = RestoredGate => ProofPasses(checkout, "baseline", "restored-baseline")

AsksForJob(step) == step.name = "succeeded" /\ step.kind = "must" /\ step.command = "own"
ChecksHold ==
  running # NoJob =>
    \A k \in 1..(running.at - 1) : AsksForJob(JobSteps[k]) => outcomes[JobSteps[k].about] = "success"

\* The tests of the workflow's text stop the job that runs them, if the edit spared it.
RatchetsHold ==
  edit \in Rejected =>
    \A x \in JobsThatTest : x # edit.job =>
      outcomes[x] # "success" /\ (running # NoJob /\ running.job = x => running.at <= 4)

CertifiedIsFinal ==
  outcomes["certification_status"] = "success" =>
    edit \notin Rejected /\ running = NoJob /\ \A j \in CiJobs : outcomes[j] = "success"

PassedOrEmptied(j, leg, name) == <<j, leg, name>> \in proven \/ <<j, name>> \in Emptied
StepDone(j, leg, step) ==
  /\ step.kind = "must" => PassedOrEmptied(j, leg, step.name)
  /\ step.kind = "own_branch" => PassedOrEmptied(j, leg, step.name) \/ origin = "fork"
  /\ step.kind = "continue-on-error" => PassedOrEmptied(j, leg, step.name) \/ step.name \in forgiven
  /\ step.kind = "if-failed" => step.about \notin forgiven \/ <<j, step.about>> \in Emptied
  /\ step.kind = "fork" /\ origin = "fork" => <<j, step.name>> \in Emptied
LegIsProven(j, leg) ==
  /\ \A name \in Vouched(j) : PassedOrEmptied(j, leg, name) \/ (name = "controls" /\ origin = "fork")
  /\ j = "provider_authentication" /\ origin = "fork" => <<j, "reject">> \in Emptied

StepsAreDone ==
  edit \notin Rejected /\ running # NoJob /\ running.job \in CheckoutJobs =>
    /\ \A k \in 1..(running.at - 1) :
         ApprovedJobs[running.job][k] \notin ProofSteps =>
           StepDone(running.job, running.leg, ApprovedJobs[running.job][k])
    /\ \A leg \in 1..(running.leg - 1) : LegIsProven(running.job, leg)
JobsAreProven ==
  edit \notin Rejected =>
    \A j \in CheckoutJobs : outcomes[j] = "success" => \A leg \in 1..Legs(j) : LegIsProven(j, leg)

WheelKinds == {"own", "foreign", "stray"}
Checkouts ==
  [head : {"candidate", "baseline", "other"}, tracked : SUBSET {"content", "flag", "mode", "index"},
   untracked : SUBSET Leavings, dist : SUBSET WheelKinds, receipt : {"none", "TREE_MATCH", "PASS"}]

\* No wheel that was built from other sources gets into dist/, the artifact or a leg.
BuiltFromTheHead ==
  /\ checkout \in Checkouts /\ dist \subseteq WheelKinds
  /\ wheel \in [1..MatrixLegs -> WheelKinds \cup {"none"}]
  /\ \A leg \in 1..MatrixLegs : <<"clean_wheel_install", leg, "verify_wheel">> \in proven => wheel[leg] # "none"
  /\ edit \notin Rejected =>
       /\ "foreign" \notin dist /\ "foreign" \notin checkout.dist
       /\ \A leg \in 1..MatrixLegs : wheel[leg] # "foreign"

CertificationIInv ==
  /\ CertificationTypeOK /\ GateHolds /\ ChecksHold /\ RatchetsHold /\ CertifiedIsFinal
  /\ StepsAreDone /\ JobsAreProven /\ BuiltFromTheHead

\* What the contract does not see leaves a step as it is, empties it, or forgives what was forgiven.
LEMMA UnseenSteps ==
  ASSUME NEW e \in PossibleEdits, e \notin Rejected, NEW j \in CiJobs, NEW i \in 1..Len(ApprovedJobs[j]),
         BoundCommand(ApprovedJobs[j][i]), ApprovedJobs[j][i].kind = "must"
  PROVE  Workflow(e)[j][i] = ApprovedJobs[j][i]
<1> DEFINE A == ApprovedJobs[j]
           W == Workflow(e)[j]
<1>1. /\ Len(W) = Len(A) /\ W[i].kind = A[i].kind /\ W[i].command = A[i].command
      /\ A[i].command = "own" /\ DOMAIN A[i] = StepFieldNames /\ Len(A) \in Nat /\ IsSeq(A)
  BY UnseenEdits, ApprovedShape
<1>2. /\ e.job # j \/ e.change \in {"none", "conditional"} => W = A
      /\ e.job = j /\ e.change = "drop" => W = RemoveAt(A, e.place)
      /\ e.job = j /\ e.change = "insert" => W = InsertAt(A, e.place, Must("inserted"))
      /\ e.job = j /\ e.change \in {"empty", "forgive"} =>
           /\ \A k \in 1..Len(A) \ {e.place} : W[k] = A[k]
           /\ e.change = "empty" => W[e.place] = [A[e.place] EXCEPT !.command = "nothing"]
           /\ e.change = "forgive" => W[e.place] = [A[e.place] EXCEPT !.kind = "continue-on-error"]
  BY EditedShape
<1>3. e.job = j => \/ e.change \in {"none", "conditional"}
                   \/ e.change \in {"drop", "insert", "empty", "forgive"} /\ e.place \in 1..Len(A)
  BY EditPlaces
<1> HIDE DEF A, W
<1>4. e.job = j => e.change # "drop" /\ e.change # "insert"
  BY <1>1, <1>2, <1>3, DropShape, InsertShape
<1>5. ASSUME e.job = j, e.place = i PROVE e.change # "empty" /\ e.change # "forgive"
  <2>1. "command" \in DOMAIN A[i] /\ "kind" \in DOMAIN A[i]
    BY <1>1 DEF StepFieldNames
  <2>2. A[i].kind = "must"
    BY DEF A
  <2> QED
    BY <1>1, <1>2, <1>5, <2>1, <2>2
<1>6. i \in 1..Len(A)
  BY DEF A
<1>7. W[i] = A[i]
  BY <1>2, <1>3, <1>4, <1>5, <1>6
<1> QED
  BY <1>7 DEF A, W

LEMMA CheckoutSteps ==
  ASSUME NEW j \in CheckoutJobs, NEW i \in 1..Len(ApprovedJobs[j])
  PROVE  Sensible(ApprovedJobs[j], i) /\ Enforced(ApprovedJobs[j], i)
<1>1. CASE j \in Rollbacks
  BY <1>1, RollbackSensible
<1>2. CASE j \notin Rollbacks
  BY <1>2, JobSets, MatrixSensible, ProviderSensible, QualitySensible, WheelSensible
<1> QED
  BY <1>1, <1>2

LEMMA RunningJob ==
  ASSUME CertificationTypeOK, running # NoJob
  PROVE  /\ running.job \in CiJobs /\ running.leg \in Nat /\ running.at \in Nat
         /\ running = [job |-> running.job, leg |-> running.leg, at |-> running.at]
         /\ DOMAIN running = {"job", "leg", "at"}
         /\ edit \in PossibleEdits
         /\ IsSeq(JobSteps) /\ Len(JobSteps) \in Nat
<1>1. edit \in PossibleEdits /\ running \in [job : CiJobs, leg : Nat, at : Nat]
  BY DEF CertificationTypeOK
<1>2. running.job \in CiJobs
  BY <1>1
<1>3. IsSeq(JobSteps) /\ Len(JobSteps) \in Nat
  BY <1>1, <1>2, EditedShape DEF JobSteps
<1> QED
  BY <1>1, <1>2, <1>3

LEMMA SameStep ==
  ASSUME CertificationTypeOK, edit \notin Rejected, AtStep
  PROVE  LET A == ApprovedJobs[running.job]
         IN  /\ running.at \in 1..Len(A) /\ Len(JobSteps) = Len(A)
             /\ CurrentStep.name = A[running.at].name /\ CurrentStep.about = A[running.at].about
             /\ CurrentStep.kind = A[running.at].kind
             /\ CurrentStep.command # "own" =>
                  {<<running.job, A[running.at].name>>, <<running.job, A[running.at].about>>} = Emptied
<1> DEFINE A == ApprovedJobs[running.job]
<1>1. running # NoJob /\ running.job \in CiJobs /\ edit \in PossibleEdits /\ running.at \in Nat
  BY RunningJob DEF AtStep
<1>2. Len(JobSteps) = Len(A) /\ running.at \in 1..Len(JobSteps)
  BY <1>1, UnseenEdits DEF AtStep, JobSteps, CertificationTypeOK
<1>3. /\ CurrentStep.name = A[running.at].name /\ CurrentStep.about = A[running.at].about
      /\ CurrentStep.kind = A[running.at].kind
      /\ \/ CurrentStep.command = "own"
         \/ edit.change = "empty" /\ edit.job = running.job /\ edit.place = running.at /\ ~BoundCommand(A[running.at])
  BY <1>1, <1>2, UnseenEdits DEF CurrentStep, JobSteps
<1>4. CurrentStep.command # "own" =>
         {<<running.job, A[running.at].name>>, <<running.job, A[running.at].about>>} = Emptied
  BY <1>3 DEF Emptied
<1> QED
  BY <1>2, <1>3, <1>4

\* What a checkout must be when a step of its job is run.
LEMMA StepIsGenuine ==
  ASSUME CertificationTypeOK, GateHolds, edit \notin Rejected, AtStep, running.job \in CheckoutJobs,
         ApprovedJobs[running.job][running.at] \notin ProofSteps
  PROVE  Genuine(CurrentStep)
<1> DEFINE j == running.job
           i == running.at
           A == ApprovedJobs[j]
           W == Workflow(edit)[j]
           replaced == \E k \in 1..(i - 1) : ReplacesSource(j, W[k])
           proof == IF replaced THEN RestoredGate ELSE SourceGate
<1>1. /\ i \in 1..Len(A) /\ Len(W) = Len(A) /\ W[i].name = A[i].name /\ CurrentStep = W[i] /\ running # NoJob
      /\ j \in CiJobs /\ edit \in PossibleEdits /\ Len(A) \in Nat
  BY SameStep, RunningJob, ApprovedShape DEF AtStep, JobSteps, CurrentStep
<1>2. Sensible(A, i)
  BY <1>1, CheckoutSteps
<1>3. W[i].name \notin {"prove_source", "prove_restored"} /\ A[i] \notin ProofSteps
  BY <1>1, <1>2 DEF Sensible
<1>4. W[i] # SourceGate /\ W[i] # RestoredGate
  BY <1>3, GateFields
<1>5. ~OrderedSourceErrors(j, W)
  BY <1>1 DEF Rejected, WorkflowErrors
<1>6. i > 1 /\ W[i - 1] = proof
  BY <1>1, <1>4, <1>5 DEF OrderedSourceErrors
<1>7. CASE j \notin Rollbacks
  <2>1. ~replaced
    BY <1>7 DEF ReplacesSource
  <2>2. ProofPasses(checkout, "candidate", "candidate")
    BY <1>1, <1>6, <2>1 DEF GateHolds, JobSteps
  <2> QED
    BY <1>1, <1>7, <2>2 DEF ProofPasses, TrackedContentErrors, UntrackedErrors, ShadowErrors, CacheErrors, Genuine
<1>8. CASE j \in Rollbacks
  <2>1. ASSUME NEW k \in 1..(i - 1) PROVE ReplacesSource(j, W[k]) <=> ReplacesSource(j, A[k])
    <3>1. k \in 1..Len(A) /\ W[k].name = A[k].name /\ W[k].kind = A[k].kind
      BY <1>1, UnseenEdits
    <3>2. Must("rehearse").name = "rehearse" /\ Must("rehearse").kind = "must"
      BY StepFields
    <3>3. W[k] = Must("rehearse") \/ A[k] = Must("rehearse") => A[k].name = "rehearse" /\ A[k].kind = "must"
      BY <3>1, <3>2
    <3>4. A[k].name = "rehearse" /\ A[k].kind = "must" => W[k] = A[k]
      BY <1>1, <3>1, UnseenSteps DEF BoundCommand
    <3> QED
      BY <3>3, <3>4 DEF ReplacesSource
  <2>2. A[i].name \in RestoredNames <=> replaced
    BY <1>1, <1>3, <1>8, <2>1, RollbackSensible
  <2>3. CASE replaced
    <3>1. ProofPasses(checkout, "baseline", "restored-baseline")
      BY <1>1, <1>6, <2>3 DEF GateHolds, JobSteps
    <3>2. checkout.head = "baseline" /\ W[i].name \in RestoredNames
      BY <1>1, <2>2, <2>3, <3>1 DEF ProofPasses
    <3> QED
      BY <1>1, <1>8, <3>1, <3>2 DEF ProofPasses, TrackedContentErrors, UntrackedErrors, ShadowErrors, CacheErrors, Genuine
  <2>4. CASE ~replaced
    <3>1. ProofPasses(checkout, "candidate", "candidate")
      BY <1>1, <1>6, <2>4 DEF GateHolds, JobSteps
    <3>2. checkout.head = "candidate" /\ W[i].name \notin RestoredNames
      BY <1>1, <2>2, <2>4, <3>1 DEF ProofPasses
    <3> QED
      BY <1>1, <1>8, <3>1, <3>2 DEF ProofPasses, TrackedContentErrors, UntrackedErrors, ShadowErrors, CacheErrors, Genuine
  <2> QED
    BY <2>3, <2>4
<1> QED
  BY <1>7, <1>8

\* A step that is passed or skipped is done, as the approved workflow has it.
LEMMA PassedStepIsDone ==
  ASSUME CertificationTypeOK, GateHolds, PassStep, edit \notin Rejected, NEW j \in CheckoutJobs, NEW leg, NEW i,
         running.job = j, running.leg = leg, running.at = i, ApprovedJobs[j][i] \notin ProofSteps
  PROVE  StepDone(j, leg, ApprovedJobs[j][i])'
<1> DEFINE step == ApprovedJobs[j][i]
<1>1. /\ AtStep /\ ~CannotPass(CurrentStep) /\ UNCHANGED <<edit, origin, forgiven>>
      /\ proven' = IF CurrentStep.command = "own" /\ Genuine(CurrentStep)
                      /\ CurrentStep.name \notin {"prove_source", "prove_restored", "succeeded"}
                   THEN proven \cup {<<running.job, running.leg, CurrentStep.name>>} ELSE proven
  BY DEF PassStep
<1>2. /\ i \in 1..Len(ApprovedJobs[j])
      /\ CurrentStep.name = step.name /\ CurrentStep.about = step.about /\ CurrentStep.kind = step.kind
      /\ CurrentStep.command # "own" => {<<j, step.name>>, <<j, step.about>>} = Emptied
  BY <1>1, SameStep
<1>3. Emptied' = Emptied
  BY <1>1 DEF Emptied
<1>4. Sensible(ApprovedJobs[j], i)
  BY <1>2, CheckoutSteps
<1>5. Genuine(CurrentStep)
  BY <1>1, StepIsGenuine
<1>6. CASE CurrentStep.command # "own"
  <2>1. <<j, step.name>> \in Emptied' /\ <<j, step.about>> \in Emptied'
    BY <1>2, <1>3, <1>6
  <2> QED
    BY <2>1 DEF StepDone, PassedOrEmptied
<1>7. CASE CurrentStep.command = "own"
  <2>1. step.name \notin {"prove_source", "prove_restored", "succeeded"}
    BY <1>4 DEF Sensible
  <2>2. <<j, leg, step.name>> \in proven'
    BY <1>1, <1>2, <1>5, <1>7, <2>1
  <2>3. step.kind # "if-failed" /\ step.kind # "fork"
    BY <1>1, <1>2, <1>4, <1>7, <2>1 DEF Sensible, CannotPass
  <2> QED
    BY <2>2, <2>3 DEF StepDone, PassedOrEmptied
<1> QED
  BY <1>6, <1>7

LEMMA SkippedStepIsDone ==
  ASSUME CertificationTypeOK, SkipStep, edit \notin Rejected, NEW j \in CheckoutJobs, NEW leg, NEW i,
         running.job = j, running.leg = leg, running.at = i, ApprovedJobs[j][i] \notin ProofSteps
  PROVE  StepDone(j, leg, ApprovedJobs[j][i])'
<1> DEFINE step == ApprovedJobs[j][i]
<1>1. AtStep /\ ~Applies(CurrentStep) /\ UNCHANGED <<edit, origin, forgiven, proven>>
  BY DEF SkipStep
<1>2. CurrentStep.about = step.about /\ CurrentStep.kind = step.kind /\ i \in 1..Len(ApprovedJobs[j])
  BY <1>1, SameStep
<1>3. \/ step.kind = "own_branch" /\ origin' = "fork"
      \/ step.kind = "fork" /\ origin' # "fork"
      \/ step.kind = "if-failed" /\ step.about \notin forgiven'
  BY <1>1, <1>2 DEF Applies
<1> QED
  BY <1>3 DEF StepDone

LEMMA ForgivenStepIsDone ==
  ASSUME CertificationTypeOK, FailStep, edit \notin Rejected, NEW j \in CheckoutJobs, NEW leg, NEW i,
         running.job = j, running.leg = leg, running.at = i, CurrentStep.kind = "continue-on-error"
  PROVE  StepDone(j, leg, ApprovedJobs[j][i])'
<1> DEFINE step == ApprovedJobs[j][i]
<1>1. AtStep /\ forgiven' = forgiven \cup {CurrentStep.name}
  BY DEF FailStep
<1>2. CurrentStep.name = step.name /\ CurrentStep.kind = step.kind
  BY <1>1, SameStep
<1> QED
  BY <1>1, <1>2 DEF StepDone

\* A job that has run to its end has passed what it vouches for.
LEMMA EndedLegIsProven ==
  ASSUME CertificationTypeOK, StepsAreDone, edit \notin Rejected, running # NoJob, NEW j \in CheckoutJobs, NEW leg,
         running.job = j, running.leg = leg, running.at > Len(JobSteps)
  PROVE  LegIsProven(j, leg)
<1> DEFINE A == ApprovedJobs[j]
<1>1. Len(JobSteps) = Len(A) /\ Len(A) \in Nat /\ running.at \in Nat /\ j \in CiJobs
  BY RunningJob, UnseenEdits, ApprovedShape DEF JobSteps
<1>2. \A k \in 1..Len(A) : A[k] \notin ProofSteps => StepDone(j, leg, A[k])
  BY <1>1 DEF StepsAreDone
<1>3. ASSUME NEW name \in Vouched(j) PROVE PassedOrEmptied(j, leg, name) \/ (name = "controls" /\ origin = "fork")
  <2> HIDE DEF A
  <2>1. PICK k \in DOMAIN A : A[k].name = name /\ A[k] \notin ProofSteps /\ A[k].kind \in {"must", "continue-on-error", "own_branch"}
    BY DEF Vouched, Range, A
  <2>0. A[k].name = name
    BY <2>1
  <2>2. k \in 1..Len(A)
    <3>1. PICK S : A \in Seq(S)
      BY <1>1, ApprovedShape DEF IsSeq, A
    <3>2. DOMAIN A = 1..Len(A)
      BY <3>1, LenProperties
    <3> QED
      BY <2>1, <3>2
  <2>3. StepDone(j, leg, A[k]) /\ Sensible(A, k) /\ Enforced(A, k)
    BY <1>2, <2>1, <2>2, CheckoutSteps DEF A
  <2>4. CASE A[k].kind = "continue-on-error"
    <3>1. PICK m \in 1..Len(A) : A[m] \notin ProofSteps /\ A[m].kind = "if-failed" /\ A[m].about = name
      BY <2>1, <2>3, <2>4 DEF Enforced
    <3>2. name \notin forgiven \/ <<j, name>> \in Emptied
      BY <1>2, <3>1 DEF StepDone
    <3>3. PassedOrEmptied(j, leg, A[k].name) \/ A[k].name \in forgiven
      BY <2>3, <2>4 DEF StepDone
    <3> QED
      BY <2>0, <3>2, <3>3 DEF PassedOrEmptied
  <2>5. CASE A[k].kind = "must"
    <3>1. PassedOrEmptied(j, leg, A[k].name)
      BY <2>3, <2>5 DEF StepDone
    <3> QED
      BY <2>0, <3>1 DEF PassedOrEmptied
  <2>6. CASE A[k].kind = "own_branch"
    <3>1. name = "controls"
      BY <2>1, <2>3, <2>6 DEF Sensible
    <3>2. PassedOrEmptied(j, leg, A[k].name) \/ origin = "fork"
      BY <2>3, <2>6 DEF StepDone
    <3> QED
      BY <2>0, <3>1, <3>2 DEF PassedOrEmptied
  <2> QED
    BY <2>1, <2>4, <2>5, <2>6
<1>4. ASSUME j = "provider_authentication", origin = "fork" PROVE <<j, "reject">> \in Emptied
  <2>1. Len(A) = 7 /\ A[6] = CiStep("reject", "none", "fork")
    BY <1>4, ProviderJob
  <2>2. A[6].kind = "fork" /\ A[6].name = "reject"
    BY <2>1, StepFields
  <2>3. A[6] \notin ProofSteps
    BY <2>2, GateFields DEF ProofSteps
  <2> QED
    BY <1>2, <1>4, <2>1, <2>2, <2>3 DEF StepDone
<1> QED
  BY <1>3, <1>4 DEF LegIsProven

\* A history that grows leaves what is proven proven.
LEMMA StaysProven ==
  ASSUME UNCHANGED <<edit, origin>>, NEW j, NEW leg, \A name : <<j, leg, name>> \in proven => <<j, leg, name>> \in proven'
  PROVE  /\ \A name : PassedOrEmptied(j, leg, name) => PassedOrEmptied(j, leg, name)'
         /\ LegIsProven(j, leg) => LegIsProven(j, leg)'
<1>1. Emptied' = Emptied
  BY DEF Emptied
<1>2. \A name : PassedOrEmptied(j, leg, name) => PassedOrEmptied(j, leg, name)'
  BY <1>1 DEF PassedOrEmptied
<1>3. ASSUME LegIsProven(j, leg) PROVE LegIsProven(j, leg)'
  <2>1. \A name \in Vouched(j) : PassedOrEmptied(j, leg, name)' \/ (name = "controls" /\ origin' = "fork")
    BY <1>2, <1>3 DEF LegIsProven
  <2>2. j = "provider_authentication" /\ origin' = "fork" => <<j, "reject">> \in Emptied'
    BY <1>1, <1>3 DEF LegIsProven
  <2> QED
    BY <2>1, <2>2 DEF LegIsProven
<1> QED
  BY <1>2, <1>3

\* The job goes on to its next step.
LEMMA StepAdvances ==
  ASSUME CertificationIInv, AtStep, running' = [running EXCEPT !.at = @ + 1], UNCHANGED <<edit, origin, outcomes>>,
         proven \subseteq proven',
         forgiven' = forgiven \/ (CurrentStep.kind = "continue-on-error" /\ forgiven' = forgiven \cup {CurrentStep.name}),
         CurrentStep = SourceGate => ProofPasses(checkout', "candidate", "candidate"),
         CurrentStep = RestoredGate => ProofPasses(checkout', "baseline", "restored-baseline"),
         AsksForJob(CurrentStep) => outcomes[CurrentStep.about] = "success",
         edit \in Rejected => CurrentStep # Must("ratchets"),
         \A j \in CheckoutJobs : \A leg, i :
           edit \notin Rejected /\ running.job = j /\ running.leg = leg /\ running.at = i /\ ApprovedJobs[j][i] \notin ProofSteps =>
             StepDone(j, leg, ApprovedJobs[j][i])'
  PROVE  /\ CertificationTypeOK' /\ GateHolds' /\ ChecksHold' /\ RatchetsHold' /\ CertifiedIsFinal'
         /\ StepsAreDone' /\ JobsAreProven'
<1>1. /\ CertificationTypeOK /\ GateHolds /\ ChecksHold /\ RatchetsHold /\ CertifiedIsFinal
      /\ StepsAreDone /\ JobsAreProven
  BY DEF CertificationIInv
<1>2. /\ running # NoJob /\ running.job \in CiJobs /\ running.leg \in Nat /\ running.at \in Nat
      /\ running = [job |-> running.job, leg |-> running.leg, at |-> running.at]
      /\ Len(JobSteps) \in Nat /\ running.at <= Len(JobSteps)
      /\ running.leg \in 1..Legs(running.job) /\ running.at \in 1..(Len(JobSteps) + 1)
      /\ outcomes[running.job] = "waiting"
  BY <1>1, RunningJob DEF AtStep, CertificationTypeOK
<1>3. /\ running' = [job |-> running.job, leg |-> running.leg, at |-> running.at + 1]
      /\ running'.job = running.job /\ running'.leg = running.leg /\ running'.at = running.at + 1
      /\ running' # NoJob /\ running' \in [job : CiJobs, leg : Nat, at : Nat]
  <2>1. running' = [job |-> running.job, leg |-> running.leg, at |-> running.at + 1]
    BY <1>2
  <2>2. "none" \notin CiJobs
    BY JobNames
  <2> QED
    BY <1>2, <2>1, <2>2 DEF NoJob
<1>4. JobSteps' = JobSteps
  BY <1>3 DEF JobSteps
<1>5. CertificationTypeOK'
  BY <1>1, <1>2, <1>3, <1>4 DEF CertificationTypeOK
<1>6. GateHolds'
  BY <1>2, <1>3, <1>4 DEF GateHolds, CurrentStep
<1>7. ChecksHold'
  <2>1. ASSUME NEW k \in 1..running.at, AsksForJob(JobSteps[k]) PROVE outcomes[JobSteps[k].about] = "success"
    <3>1. CASE k = running.at
      BY <2>1, <3>1 DEF CurrentStep
    <3>2. CASE k \in 1..(running.at - 1)
      BY <1>1, <1>2, <2>1, <3>2 DEF ChecksHold
    <3> QED
      BY <1>2, <3>1, <3>2
  <2>2. \A k \in 1..(running'.at - 1) : k \in 1..running.at
    BY <1>2, <1>3
  <2>3. \A k : AsksForJob(JobSteps'[k]) => AsksForJob(JobSteps[k])
    BY <1>4
  <2> QED
    BY <1>4, <2>1, <2>2, <2>3 DEF ChecksHold, AsksForJob
<1>8. RatchetsHold'
  <2>1. ASSUME edit \in Rejected, NEW x \in JobsThatTest, x # edit.job, running.job = x PROVE running.at + 1 <= 4
    <3>1. running.at <= 4
      BY <1>1, <1>2, <2>1 DEF RatchetsHold
    <3>2. JobSteps = ApprovedJobs[x] /\ edit \in PossibleEdits
      BY <1>1, <1>2, <2>1, EditedShape DEF JobSteps, CertificationTypeOK
    <3>3. ApprovedJobs[x][4] = Must("ratchets")
      BY MatrixJob, QualityJob DEF JobsThatTest
    <3>4. running.at # 4
      BY <2>1, <3>2, <3>3 DEF CurrentStep
    <3> QED
      BY <1>2, <3>1, <3>4
  <2> QED
    BY <1>1, <1>2, <1>3, <2>1 DEF RatchetsHold
<1>9. CertifiedIsFinal'
  BY <1>1, <1>2 DEF CertifiedIsFinal
<1>10. StepsAreDone'
  <2>1. SUFFICES ASSUME edit \notin Rejected, NEW j \in CheckoutJobs, NEW leg, NEW i, running.job = j, running.leg = leg, running.at = i
                 PROVE  /\ \A k \in 1..i : ApprovedJobs[j][k] \notin ProofSteps => StepDone(j, leg, ApprovedJobs[j][k])'
                        /\ \A l \in 1..(leg - 1) : LegIsProven(j, l)'
    <3>1. running'.at - 1 = running.at
      BY <1>2, <1>3
    <3> QED
      BY <1>3, <3>1 DEF StepsAreDone
  <2> DEFINE A == ApprovedJobs[j]
  <2>2. \A l \in 1..(leg - 1) : LegIsProven(j, l)'
    BY <1>1, <1>2, <2>1, StaysProven DEF StepsAreDone
  <2>3. ASSUME NEW k \in 1..i, A[k] \notin ProofSteps PROVE StepDone(j, leg, A[k])'
    <3>1. CASE k = i
      BY <2>1, <2>3, <3>1
    <3>2. CASE k # i
      <4>1. k \in 1..(i - 1) /\ k \in 1..Len(A) /\ i \in 1..Len(A)
        BY <1>1, <1>2, <2>1, <3>2, SameStep
      <4>2. StepDone(j, leg, A[k])
        BY <1>1, <1>2, <2>1, <2>3, <4>1 DEF StepsAreDone
      <4>3. \A name : PassedOrEmptied(j, leg, name) => PassedOrEmptied(j, leg, name)'
        BY StaysProven
      <4>4. A[k].kind = "if-failed" => (A[k].about \notin forgiven => A[k].about \notin forgiven')
        <5>1. CASE forgiven' = forgiven
          BY <5>1
        <5>2. CASE CurrentStep.kind = "continue-on-error" /\ forgiven' = forgiven \cup {CurrentStep.name}
          <6>1. Enforced(A, i) /\ A[i].name = CurrentStep.name /\ A[i].kind = CurrentStep.kind
            BY <1>1, <2>1, <4>1, CheckoutSteps, SameStep
          <6> QED
            BY <4>1, <5>2, <6>1 DEF Enforced
        <5> QED
          BY <5>1, <5>2
      <4>5. Emptied' = Emptied /\ forgiven \subseteq forgiven'
        BY DEF Emptied
      <4>6. A[k].kind = "must" => PassedOrEmptied(j, leg, A[k].name)'
        BY <4>2, <4>3 DEF StepDone
      <4>7. A[k].kind = "own_branch" => PassedOrEmptied(j, leg, A[k].name)' \/ origin' = "fork"
        BY <4>2, <4>3 DEF StepDone
      <4>8. A[k].kind = "continue-on-error" => PassedOrEmptied(j, leg, A[k].name)' \/ A[k].name \in forgiven'
        BY <4>2, <4>3, <4>5 DEF StepDone
      <4>9. A[k].kind = "if-failed" => A[k].about \notin forgiven' \/ <<j, A[k].about>> \in Emptied'
        BY <4>2, <4>4, <4>5 DEF StepDone
      <4>10. A[k].kind = "fork" /\ origin' = "fork" => <<j, A[k].name>> \in Emptied'
        BY <4>2, <4>5 DEF StepDone
      <4> QED
        BY <4>6, <4>7, <4>8, <4>9, <4>10 DEF StepDone
    <3> QED
      BY <3>1, <3>2
  <2> QED
    BY <2>2, <2>3
<1>11. JobsAreProven'
  <2>1. \A j \in CheckoutJobs : \A leg : LegIsProven(j, leg) => LegIsProven(j, leg)'
    BY StaysProven
  <2> QED
    BY <1>1, <2>1 DEF JobsAreProven
<1> QED
  BY <1>5, <1>6, <1>7, <1>8, <1>9, <1>10, <1>11

\* The last job ends only when every job of an approved workflow has succeeded.
LEMMA EndOfCertification ==
  ASSUME CertificationTypeOK, ChecksHold, RatchetsHold,
         running # NoJob, running.job = "certification_status", running.at > Len(JobSteps)
  PROVE  edit \notin Rejected /\ \A j \in CiJobs \ {"certification_status"} : outcomes[j] = "success"
<1> DEFINE A == ApprovedJobs["certification_status"]
           W == Workflow(edit)["certification_status"]
<1>1. edit \in PossibleEdits /\ W = JobSteps /\ Len(W) \in Nat /\ running.at \in Nat /\ "certification_status" \in CiJobs
  BY RunningJob DEF JobSteps
<1>2. \A k \in 1..Len(W) : AsksForJob(W[k]) => outcomes[W[k].about] = "success"
  BY <1>1 DEF ChecksHold
<1>3. \A j : AsksForJob(Succeeded(j)) /\ Succeeded(j).about = j /\ Succeeded(j).name = "succeeded" /\ Succeeded(j).kind = "must"
  BY StepFields DEF AsksForJob
<1>4. edit \notin Rejected
  <2>1. PICK i \in 1..Len(W) : \E x \in JobsThatTest : x # edit.job /\ W[i] = Succeeded(x)
    BY <1>1, ChecksRemain
  <2>2. PICK x \in JobsThatTest : x # edit.job /\ W[i] = Succeeded(x)
    BY <2>1
  <2>3. outcomes[x] = "success"
    BY <1>2, <1>3, <2>2
  <2> QED
    BY <2>2, <2>3 DEF RatchetsHold
<1>5. Len(A) = 7 /\ \A i \in 1..7 : A[i] = Succeeded(JobOrder[i])
  BY StatusJob
<1>6. ASSUME NEW i \in 1..7 PROVE outcomes[JobOrder[i]] = "success"
  <2>1. A[i] = Succeeded(JobOrder[i]) /\ i \in 1..Len(A)
    BY <1>5
  <2>2. BoundCommand(A[i]) /\ A[i].kind = "must"
    BY <1>3, <2>1 DEF BoundCommand
  <2>3. W[i] = A[i]
    BY <1>1, <1>4, <2>1, <2>2, UnseenSteps
  <2>4. i \in 1..Len(W)
    BY <1>1, <1>4, <2>1, UnseenEdits
  <2> QED
    BY <1>2, <1>3, <2>1, <2>3, <2>4
<1>7. ASSUME NEW j \in CiJobs \ {"certification_status"} PROVE \E i \in 1..7 : JobOrder[i] = j
  <2>1. JobOrder[1] = "validation_matrix" /\ JobOrder[2] = "provider_authentication" /\ JobOrder[3] = "validate"
        /\ JobOrder[4] = "quality_security_release" /\ JobOrder[5] = "clean_wheel_install"
        /\ JobOrder[6] = "phase0_rollback" /\ JobOrder[7] = "phase_rollback"
    BY DEF JobOrder
  <2>2. j \in {"validation_matrix", "provider_authentication", "validate", "quality_security_release",
               "clean_wheel_install", "phase0_rollback", "phase_rollback"}
    BY JobNames
  <2> QED
    BY <2>1, <2>2
<1> QED
  BY <1>4, <1>6, <1>7

\* The job ends, one way or the other.
LEMMA Ends ==
  ASSUME CertificationIInv, running # NoJob, UNCHANGED <<edit, origin, proven>>, running' = NoJob,
         NEW v \in {"success", "failure"}, outcomes' = [outcomes EXCEPT ![running.job] = v],
         v = "success" => running.at > Len(JobSteps) /\ ~(running.leg < Legs(running.job))
  PROVE  /\ CertificationTypeOK' /\ GateHolds' /\ ChecksHold' /\ RatchetsHold' /\ CertifiedIsFinal'
         /\ StepsAreDone' /\ JobsAreProven'
<1>1. /\ CertificationTypeOK /\ GateHolds /\ ChecksHold /\ RatchetsHold /\ CertifiedIsFinal
      /\ StepsAreDone /\ JobsAreProven
  BY DEF CertificationIInv
<1>2. /\ running.job \in CiJobs /\ running.leg \in Nat /\ running.at \in Nat /\ Len(JobSteps) \in Nat
      /\ running.leg \in 1..Legs(running.job) /\ outcomes[running.job] = "waiting"
      /\ outcomes \in [CiJobs -> {"waiting", "success", "failure", "skipped"}]
  BY <1>1, RunningJob DEF CertificationTypeOK
<1>3. \A j \in CiJobs : outcomes'[j] = IF j = running.job THEN v ELSE outcomes[j]
  BY <1>2
<1>4. CertificationTypeOK'
  BY <1>1, <1>2 DEF CertificationTypeOK
<1>5. GateHolds' /\ ChecksHold' /\ StepsAreDone'
  BY DEF GateHolds, ChecksHold, StepsAreDone
<1>6. RatchetsHold'
  <2>1. ASSUME edit \in Rejected, NEW x \in JobsThatTest, x # edit.job PROVE outcomes'[x] # "success"
    <3>1. x \in CiJobs
      BY JobNames DEF JobsThatTest
    <3>2. CASE x # running.job
      BY <1>1, <1>3, <2>1, <3>1, <3>2 DEF RatchetsHold
    <3>3. CASE x = running.job
      <4>1. running.at <= 4
        BY <1>1, <2>1, <3>3 DEF RatchetsHold
      <4>2. JobSteps = ApprovedJobs[x]
        BY <1>1, <2>1, <3>1, <3>3, EditedShape DEF JobSteps, CertificationTypeOK
      <4>3. Len(ApprovedJobs[x]) \in {14, 16}
        BY MatrixJob, QualityJob DEF JobsThatTest
      <4>4. v # "success"
        <5>1. ~(running.at > Len(JobSteps))
          <6> DEFINE at == running.at
                     length == Len(JobSteps)
          <6>1. (length = 14 \/ length = 16) /\ at \in Nat /\ at <= 4
            BY <1>2, <4>1, <4>2, <4>3
          <6> HIDE DEF at, length
          <6>2. ~(at > length)
            BY <6>1
          <6> QED
            BY <6>2 DEF at, length
        <5> QED
          BY <5>1
      <4> QED
        BY <1>3, <3>1, <3>3, <4>4
    <3> QED
      BY <3>2, <3>3
  <2> QED
    BY <2>1 DEF RatchetsHold
<1>7. CertifiedIsFinal'
  <2>0. "certification_status" \in CiJobs
    BY JobNames
  <2>1. CASE running.job = "certification_status" /\ v = "success"
    <3>1. edit \notin Rejected /\ \A j \in CiJobs \ {"certification_status"} : outcomes[j] = "success"
      BY <1>1, <2>1, EndOfCertification
    <3>2. \A j \in CiJobs : outcomes'[j] = "success"
      BY <1>3, <2>1, <3>1
    <3> QED
      BY <3>1, <3>2 DEF CertifiedIsFinal
  <2>2. CASE ~(running.job = "certification_status" /\ v = "success")
    <3>1. outcomes'["certification_status"] # "success"
      BY <1>1, <1>3, <2>0, <2>2 DEF CertifiedIsFinal
    <3> QED
      BY <3>1 DEF CertifiedIsFinal
  <2> QED
    BY <2>1, <2>2
<1>8. JobsAreProven'
  <2>1. SUFFICES ASSUME edit \notin Rejected, NEW j \in CheckoutJobs, outcomes'[j] = "success", NEW leg \in 1..Legs(j)
                 PROVE  LegIsProven(j, leg)
    <3>1. \A j \in CheckoutJobs : \A leg : LegIsProven(j, leg) => LegIsProven(j, leg)'
      BY StaysProven
    <3> QED
      BY <3>1 DEF JobsAreProven
  <2>2. j \in CiJobs
    BY DEF CheckoutJobs
  <2>3. CASE j # running.job
    BY <1>1, <1>3, <2>1, <2>2, <2>3 DEF JobsAreProven
  <2>4. CASE j = running.job
    <3>1. running.at > Len(JobSteps) /\ ~(running.leg < Legs(j))
      BY <1>3, <2>1, <2>2, <2>4
    <3>2. CASE leg \in 1..(running.leg - 1)
      BY <1>1, <2>1, <2>4, <3>2 DEF StepsAreDone
    <3>3. CASE leg = running.leg
      BY <1>1, <2>1, <2>4, <3>1, <3>3, EndedLegIsProven
    <3>4. Legs(j) \in Nat
      BY CertificationAssumption DEF Legs
    <3> QED
      BY <1>2, <2>4, <3>1, <3>2, <3>3, <3>4
  <2> QED
    BY <2>3, <2>4
<1> QED
  BY <1>4, <1>5, <1>6, <1>7, <1>8

LEMMA FreshCheckout == Checkout \in Checkouts /\ Checkout.dist = {}
BY DEF Checkout, Checkouts

LEMMA CertificationStarts == CertificationInit => CertificationIInv
<1> SUFFICES ASSUME CertificationInit PROVE CertificationIInv
  OBVIOUS
<1>1. /\ edit \in PossibleEdits /\ outcomes = [j \in CiJobs |-> "waiting"] /\ running = NoJob
      /\ dist = {} /\ checkout = Checkout /\ wheel = [leg \in 1..MatrixLegs |-> "none"] /\ proven = {}
  BY DEF CertificationInit
<1>2. CertificationTypeOK
  BY <1>1 DEF CertificationTypeOK
<1>3. GateHolds /\ ChecksHold /\ StepsAreDone
  BY <1>1 DEF GateHolds, ChecksHold, StepsAreDone
<1>4. RatchetsHold
  <2>1. \A x \in JobsThatTest : x \in CiJobs
    BY JobNames DEF JobsThatTest
  <2> QED
    BY <1>1, <2>1 DEF RatchetsHold
<1>5. CertifiedIsFinal
  BY <1>1, JobNames DEF CertifiedIsFinal
<1>6. JobsAreProven
  BY <1>1 DEF JobsAreProven, CheckoutJobs
<1>7. BuiltFromTheHead
  BY <1>1, FreshCheckout DEF BuiltFromTheHead
<1> QED
  BY <1>2, <1>3, <1>4, <1>5, <1>6, <1>7 DEF CertificationIInv

LEMMA StillBuiltFromTheHead ==
  ASSUME BuiltFromTheHead, UNCHANGED <<edit, dist, wheel>>, checkout' \in {checkout, Checkout}, proven' \subseteq proven
  PROVE  BuiltFromTheHead'
BY FreshCheckout DEF BuiltFromTheHead

\* Nothing runs, and no job that had not succeeded has: the certification of a head is untouched.
LEMMA BetweenJobs ==
  ASSUME CertificationIInv, running = NoJob, running' = NoJob, UNCHANGED <<edit, origin, dist, wheel>>,
         checkout' \in {checkout, Checkout},
         outcomes' \in [CiJobs -> {"waiting", "success", "failure", "skipped"}],
         \A j \in CiJobs : outcomes'[j] = "success" => outcomes[j] = "success",
         \E j \in CiJobs : outcomes[j] # "success",
         proven' \subseteq proven,
         \A j \in CiJobs : outcomes'[j] = "success" =>
           \A leg, name : <<j, leg, name>> \in proven => <<j, leg, name>> \in proven'
  PROVE  CertificationIInv'
<1>1. /\ CertificationTypeOK /\ RatchetsHold /\ CertifiedIsFinal /\ JobsAreProven /\ BuiltFromTheHead
  BY DEF CertificationIInv
<1>2. CertificationTypeOK'
  BY <1>1 DEF CertificationTypeOK
<1>3. GateHolds' /\ ChecksHold' /\ StepsAreDone'
  BY DEF GateHolds, ChecksHold, StepsAreDone
<1>4. RatchetsHold'
  <2>1. \A x \in JobsThatTest : x \in CiJobs
    BY JobNames DEF JobsThatTest
  <2> QED
    BY <1>1, <2>1 DEF RatchetsHold
<1>5. CertifiedIsFinal'
  BY <1>1, JobNames DEF CertifiedIsFinal
<1>6. JobsAreProven'
  <2>1. SUFFICES ASSUME edit \notin Rejected, NEW j \in CheckoutJobs, outcomes'[j] = "success", NEW leg \in 1..Legs(j)
                 PROVE  LegIsProven(j, leg)'
    BY DEF JobsAreProven
  <2>2. j \in CiJobs
    BY DEF CheckoutJobs
  <2>3. LegIsProven(j, leg)
    BY <1>1, <2>1, <2>2 DEF JobsAreProven
  <2> QED
    BY <2>1, <2>2, <2>3, StaysProven
<1>7. BuiltFromTheHead'
  BY <1>1, StillBuiltFromTheHead
<1> QED
  BY <1>2, <1>3, <1>4, <1>5, <1>6, <1>7 DEF CertificationIInv

LEMMA BeginJobKeeps == CertificationIInv /\ BeginJob => CertificationIInv'
<1> SUFFICES ASSUME CertificationIInv, BeginJob PROVE CertificationIInv'
  OBVIOUS
<1>1. /\ CertificationTypeOK /\ RatchetsHold /\ CertifiedIsFinal /\ JobsAreProven /\ BuiltFromTheHead
  BY DEF CertificationIInv
<1>2. /\ running = NoJob /\ UNCHANGED <<edit, origin, dist, wheel, proven>> /\ checkout' \in {checkout, Checkout}
      /\ edit \in PossibleEdits
      /\ outcomes \in [CiJobs -> {"waiting", "success", "failure", "skipped"}]
  BY <1>1 DEF BeginJob, CertificationTypeOK
<1>3. PICK i \in 1..Len(JobOrder) :
        /\ outcomes[JobOrder[i]] = "waiting"
        /\ \/ running' = [job |-> JobOrder[i], leg |-> 1, at |-> 1] /\ UNCHANGED outcomes
           \/ outcomes' = [outcomes EXCEPT ![JobOrder[i]] = "skipped"] /\ UNCHANGED running
  BY DEF BeginJob
<1> DEFINE j == JobOrder[i]
<1>4. j \in CiJobs
  <2>1. i = 1 \/ i = 2 \/ i = 3 \/ i = 4 \/ i = 5 \/ i = 6 \/ i = 7 \/ i = 8
    <3>1. i \in 1..8
      BY <1>3, JobNames
    <3> HIDE <1>3
    <3> QED
      BY <3>1
  <2>2. JobOrder[1] \in CiJobs /\ JobOrder[2] \in CiJobs /\ JobOrder[3] \in CiJobs /\ JobOrder[4] \in CiJobs
    BY JobNames DEF JobOrder
  <2>3. JobOrder[5] \in CiJobs /\ JobOrder[6] \in CiJobs /\ JobOrder[7] \in CiJobs /\ JobOrder[8] \in CiJobs
    BY JobNames DEF JobOrder
  <2> QED
    BY <2>1, <2>2, <2>3
<1> HIDE DEF j
<1>5. outcomes[j] = "waiting"
  BY <1>3 DEF j
<1>6. CASE running' = [job |-> j, leg |-> 1, at |-> 1] /\ UNCHANGED outcomes
  <2>1. /\ running'.job = j /\ running'.leg = 1 /\ running'.at = 1 /\ running' \in [job : CiJobs, leg : Nat, at : Nat]
    BY <1>4, <1>6
  <2>2. IsSeq(JobSteps') /\ Len(JobSteps') \in Nat
    BY <1>2, <1>4, <2>1, EditedShape DEF JobSteps
  <2>3. 1 \in 1..Legs(j)
    BY CertificationAssumption DEF Legs
  <2>4. CertificationTypeOK'
    BY <1>2, <1>5, <1>6, <2>1, <2>2, <2>3 DEF CertificationTypeOK
  <2>5. GateHolds' /\ ChecksHold'
    BY <2>1 DEF GateHolds, ChecksHold
  <2>6. RatchetsHold'
    BY <1>1, <1>2, <1>6, <2>1 DEF RatchetsHold
  <2>7. CertifiedIsFinal'
    BY <1>1, <1>4, <1>5, <1>6 DEF CertifiedIsFinal
  <2>8. StepsAreDone'
    BY <2>1 DEF StepsAreDone
  <2>9. JobsAreProven'
    <3>1. \A x \in CheckoutJobs : \A leg : LegIsProven(x, leg) => LegIsProven(x, leg)'
      BY <1>2, StaysProven
    <3> QED
      BY <1>1, <1>2, <1>6, <3>1 DEF JobsAreProven
  <2>10. BuiltFromTheHead'
    BY <1>1, <1>2, StillBuiltFromTheHead
  <2> QED
    BY <2>4, <2>5, <2>6, <2>7, <2>8, <2>9, <2>10 DEF CertificationIInv
<1>7. CASE outcomes' = [outcomes EXCEPT ![j] = "skipped"] /\ UNCHANGED running
  <2>1. \A x \in CiJobs : outcomes'[x] = IF x = j THEN "skipped" ELSE outcomes[x]
    BY <1>2, <1>4, <1>7
  <2>2. outcomes' \in [CiJobs -> {"waiting", "success", "failure", "skipped"}]
    BY <1>2, <1>4, <1>7
  <2>3. \E x \in CiJobs : outcomes[x] # "success"
    BY <1>4, <1>5
  <2>4. running' = NoJob
    BY <1>2, <1>7
  <2>5. \A x \in CiJobs : outcomes'[x] = "success" => outcomes[x] = "success"
    BY <2>1
  <2> QED
    BY <1>2, <2>2, <2>3, <2>4, <2>5, BetweenJobs
<1> QED
  BY <1>3, <1>6, <1>7 DEF j

LEMMA EndLegKeeps == CertificationIInv /\ EndLeg => CertificationIInv'
<1> SUFFICES ASSUME CertificationIInv, EndLeg PROVE CertificationIInv'
  OBVIOUS
<1>1. /\ CertificationTypeOK /\ RatchetsHold /\ CertifiedIsFinal /\ StepsAreDone /\ JobsAreProven /\ BuiltFromTheHead
  BY DEF CertificationIInv
<1>2. /\ running # NoJob /\ running.at > Len(JobSteps) /\ UNCHANGED <<edit, origin, dist, wheel, proven>>
      /\ checkout' \in {checkout, Checkout}
  BY DEF EndLeg
<1>3. /\ running.job \in CiJobs /\ running.leg \in Nat /\ running.at \in Nat
      /\ running = [job |-> running.job, leg |-> running.leg, at |-> running.at]
      /\ Len(JobSteps) \in Nat
      /\ running.leg \in 1..Legs(running.job) /\ outcomes[running.job] = "waiting" /\ Legs(running.job) \in Nat
  BY <1>1, <1>2, RunningJob, CertificationAssumption DEF CertificationTypeOK, Legs
<1>4. BuiltFromTheHead'
  BY <1>1, <1>2, StillBuiltFromTheHead
<1>5. CASE running.leg < Legs(running.job)
  <2>1. running' = [running EXCEPT !.leg = @ + 1, !.at = 1] /\ UNCHANGED outcomes
    BY <1>5 DEF EndLeg
  <2>2. /\ running'.job = running.job /\ running'.leg = running.leg + 1 /\ running'.at = 1
        /\ running' \in [job : CiJobs, leg : Nat, at : Nat]
    <3>1. PICK j \in CiJobs, leg \in Nat, at \in Nat : running = [job |-> j, leg |-> leg, at |-> at]
      BY <1>3
    <3>2. running' = [job |-> j, leg |-> leg + 1, at |-> 1]
      BY <2>1, <3>1
    <3> QED
      BY <3>1, <3>2
  <2>3. JobSteps' = JobSteps
    BY <1>2, <2>2 DEF JobSteps
  <2>4. CertificationTypeOK'
    <3>1. running'.leg \in 1..Legs(running'.job)
      BY <1>3, <1>5, <2>2
    <3>2. running'.at \in 1..(Len(JobSteps') + 1)
      BY <1>3, <2>2, <2>3
    <3>3. edit' \in PossibleEdits /\ outcomes' \in [CiJobs -> {"waiting", "success", "failure", "skipped"}]
      BY <1>1, <1>2, <2>1 DEF CertificationTypeOK
    <3>4. outcomes'[running'.job] = "waiting"
      BY <1>3, <2>1, <2>2
    <3> QED
      BY <2>2, <3>1, <3>2, <3>3, <3>4 DEF CertificationTypeOK
  <2>5. GateHolds' /\ ChecksHold'
    BY <2>2 DEF GateHolds, ChecksHold
  <2>6. RatchetsHold'
    BY <1>1, <1>2, <2>1, <2>2 DEF RatchetsHold
  <2>7. CertifiedIsFinal'
    BY <1>1, <1>2, <2>1 DEF CertifiedIsFinal
  <2>8. \A x \in CheckoutJobs : \A leg : LegIsProven(x, leg) => LegIsProven(x, leg)'
    BY <1>2, StaysProven
  <2>9. StepsAreDone'
    <3>1. SUFFICES ASSUME edit \notin Rejected, NEW x \in CheckoutJobs, running.job = x, NEW leg \in 1..running.leg
                   PROVE  LegIsProven(x, leg)
      <4>1. running'.leg - 1 = running.leg /\ running'.at - 1 = 0
        BY <1>3, <2>2
      <4> QED
        BY <1>2, <2>2, <2>8, <4>1 DEF StepsAreDone
    <3>2. CASE leg = running.leg
      BY <1>1, <1>2, <3>1, <3>2, EndedLegIsProven
    <3>3. CASE leg # running.leg
      BY <1>1, <1>2, <1>3, <3>1, <3>3 DEF StepsAreDone
    <3> QED
      BY <3>2, <3>3
  <2>10. JobsAreProven'
    BY <1>1, <1>2, <2>1, <2>8 DEF JobsAreProven
  <2> QED
    BY <1>4, <2>4, <2>5, <2>6, <2>7, <2>9, <2>10 DEF CertificationIInv
<1>6. CASE ~(running.leg < Legs(running.job))
  <2>1. running' = NoJob /\ outcomes' = [outcomes EXCEPT ![running.job] = "success"]
    BY <1>6 DEF EndLeg
  <2> QED
    BY <1>2, <1>4, <1>6, <2>1, Ends DEF CertificationIInv
<1> QED
  BY <1>5, <1>6

LEMMA RerunKeeps == CertificationIInv /\ Rerun => CertificationIInv'
<1> SUFFICES ASSUME CertificationIInv, Rerun PROVE CertificationIInv'
  OBVIOUS
<1> DEFINE again == {j \in CiJobs : outcomes[j] # "success"}
<1>1. /\ running = NoJob /\ UNCHANGED <<edit, origin, running, dist, wheel>> /\ again # {}
      /\ checkout' \in {checkout, Checkout}
      /\ outcomes' = [j \in CiJobs |-> IF j \in again THEN "waiting" ELSE outcomes[j]]
      /\ proven' = {p \in proven : p[1] \notin again}
  BY DEF Rerun
<1>2. outcomes \in [CiJobs -> {"waiting", "success", "failure", "skipped"}]
  BY DEF CertificationIInv, CertificationTypeOK
<1>3. /\ outcomes' \in [CiJobs -> {"waiting", "success", "failure", "skipped"}]
      /\ \A j \in CiJobs : outcomes'[j] = "success" => j \notin again
  BY <1>1, <1>2
<1>4. \A j \in CiJobs : outcomes'[j] = "success" =>
        \A leg, name : <<j, leg, name>> \in proven => <<j, leg, name>> \in proven'
  BY <1>1, <1>3
<1>5. \E j \in CiJobs : outcomes[j] # "success"
  BY <1>1
<1>6. proven' \subseteq proven
  BY <1>1
<1>7. running' = NoJob
  BY <1>1
<1>8. \A j \in CiJobs : outcomes'[j] = "success" => outcomes[j] = "success"
  BY <1>3
<1> QED
  BY <1>1, <1>3, <1>4, <1>5, <1>6, <1>7, <1>8, BetweenJobs

LEMMA GatesAsk ==
  ASSUME CurrentStep \in ProofSteps
  PROVE  CurrentStep.kind = "must" /\ CurrentStep.command = "own"
BY GateFields DEF ProofSteps

LEMMA SkipStepKeeps == CertificationIInv /\ SkipStep => CertificationIInv'
<1> SUFFICES ASSUME CertificationIInv, SkipStep PROVE CertificationIInv'
  OBVIOUS
<1>1. /\ AtStep /\ ~Applies(CurrentStep) /\ running' = [running EXCEPT !.at = @ + 1]
      /\ UNCHANGED <<edit, origin, outcomes, checkout, forgiven, dist, wheel, proven>>
  BY DEF SkipStep
<1>2. CurrentStep.kind # "must"
  BY <1>1 DEF Applies
<1>3. CurrentStep # SourceGate /\ CurrentStep # RestoredGate /\ ~AsksForJob(CurrentStep) /\ CurrentStep # Must("ratchets")
  BY <1>2, GateFields, StepFields DEF AsksForJob
<1>4. \A j \in CheckoutJobs : \A leg, i :
        edit \notin Rejected /\ running.job = j /\ running.leg = leg /\ running.at = i /\ ApprovedJobs[j][i] \notin ProofSteps =>
          StepDone(j, leg, ApprovedJobs[j][i])'
  BY SkippedStepIsDone DEF CertificationIInv
<1>5. BuiltFromTheHead'
  BY <1>1, StillBuiltFromTheHead DEF CertificationIInv
<1> QED
  BY <1>1, <1>3, <1>4, <1>5, StepAdvances DEF CertificationIInv

\* Nothing but a build on other sources puts a foreign wheel into dist/ that was in
\* neither dist/ nor the artifact.
LEMMA PerformedWheels ==
  ASSUME checkout \in Checkouts, dist \subseteq WheelKinds, NEW step
  PROVE  /\ Performed(step) \in Checkouts
         /\ "foreign" \in Performed(step).dist =>
              "foreign" \in checkout.dist \/ "foreign" \in dist \/ (step.name = "build" /\ ~Genuine(step))
<1>1. CASE step.command = "nothing"
  BY <1>1 DEF Performed
<1>2. CASE step.command # "nothing" /\ step.name = "rehearse"
  <2>1. Performed(step) = Rehearsed
    BY <1>2 DEF Performed
  <2> DEFINE c == [checkout EXCEPT !.head = "baseline"]
  <2>2. c \in Checkouts /\ c.dist = checkout.dist
    BY DEF Checkouts
  <2>3. Rehearsed = [c EXCEPT !.receipt = "TREE_MATCH"]
    BY DEF Rehearsed, Checkouts
  <2> HIDE DEF c
  <2>4. Rehearsed \in Checkouts /\ Rehearsed.dist = c.dist
    BY <2>2, <2>3 DEF Checkouts
  <2> QED
    BY <2>1, <2>2, <2>4
<1>3. CASE step.command # "nothing" /\ step.name = "seal"
  BY <1>3 DEF Performed, SealedReceipt, Checkouts
<1>4. CASE step.command # "nothing" /\ step.name = "build"
  BY <1>4 DEF Performed, Checkouts, WheelKinds
<1>5. CASE step.command # "nothing" /\ step.name = "download_dist"
  BY <1>5 DEF Performed, Checkouts
<1>6. CASE step.command # "nothing" /\ step.name \notin {"rehearse", "seal", "build", "download_dist"}
  BY <1>6 DEF Performed
<1> QED
  BY <1>1, <1>2, <1>3, <1>4, <1>5, <1>6

LEMMA LeftWheels ==
  ASSUME NEW c \in Checkouts, NEW what \in Leavings
  PROVE  Left(c, what) \in Checkouts /\ ("foreign" \in Left(c, what).dist => "foreign" \in c.dist)
<1>1. CASE what \in {"content", "mode", "index"}
  BY <1>1 DEF Left, Checkouts
<1>2. CASE what = "hidden_content"
  BY <1>2 DEF Left, Checkouts
<1>3. CASE what = "commit"
  BY <1>3 DEF Left, Checkouts
<1>4. CASE what = "wheel"
  BY <1>4 DEF Left, Checkouts, WheelKinds
<1>5. CASE what \notin {"content", "mode", "index", "hidden_content", "commit", "wheel"}
  BY <1>5 DEF Left, Checkouts
<1> QED
  BY <1>1, <1>2, <1>3, <1>4, <1>5

LEMMA PassStepKeeps == CertificationIInv /\ PassStep => CertificationIInv'
<1> SUFFICES ASSUME CertificationIInv, PassStep PROVE CertificationIInv'
  OBVIOUS
<1>1. /\ AtStep /\ ~CannotPass(CurrentStep) /\ running' = [running EXCEPT !.at = @ + 1]
      /\ UNCHANGED <<edit, origin, outcomes, forgiven>>
      /\ \/ checkout' = Performed(CurrentStep)
         \/ /\ CurrentStep \notin ProofSteps
            /\ \E what \in Leavings : checkout' = Left(Performed(CurrentStep), what)
      /\ dist' = dist \/ dist' = checkout.dist
      /\ proven' = IF CurrentStep.command = "own" /\ Genuine(CurrentStep)
                      /\ CurrentStep.name \notin {"prove_source", "prove_restored", "succeeded"}
                   THEN proven \cup {<<running.job, running.leg, CurrentStep.name>>} ELSE proven
  BY DEF PassStep
<1>2. /\ CurrentStep = SourceGate => ProofPasses(checkout', "candidate", "candidate")
      /\ CurrentStep = RestoredGate => ProofPasses(checkout', "baseline", "restored-baseline")
  <2>1. CurrentStep \in ProofSteps => checkout' = checkout
    BY <1>1, GateFields DEF ProofSteps, Performed
  <2>2. CurrentStep = SourceGate => ProofPasses(checkout, "candidate", "candidate")
    BY <1>1, GateFields DEF CannotPass
  <2>3. CurrentStep = RestoredGate => ProofPasses(checkout, "baseline", "restored-baseline")
    BY <1>1, GateFields DEF CannotPass
  <2> QED
    BY <2>1, <2>2, <2>3 DEF ProofSteps
<1>3. AsksForJob(CurrentStep) => outcomes[CurrentStep.about] = "success"
  BY <1>1 DEF AsksForJob, CannotPass
<1>4. edit \in Rejected => CurrentStep # Must("ratchets")
  BY <1>1, StepFields DEF CannotPass
<1>5. \A j \in CheckoutJobs : \A leg, i :
        edit \notin Rejected /\ running.job = j /\ running.leg = leg /\ running.at = i /\ ApprovedJobs[j][i] \notin ProofSteps =>
          StepDone(j, leg, ApprovedJobs[j][i])'
  BY PassedStepIsDone DEF CertificationIInv
<1>6. BuiltFromTheHead'
  <2>1. BuiltFromTheHead /\ CertificationTypeOK /\ GateHolds
    BY DEF CertificationIInv
  <2>2. running # NoJob /\ running.job \in CiJobs /\ running.leg \in Nat /\ edit \in PossibleEdits
    BY <1>1, <2>1, RunningJob DEF AtStep
  <2>3. ASSUME edit \notin Rejected, CurrentStep.name = "build" PROVE Genuine(CurrentStep)
    <3> DEFINE j == running.job
               i == running.at
               step == ApprovedJobs[j][i]
    <3>1. step.name = "build" /\ i \in 1..Len(ApprovedJobs[j])
      BY <1>1, <2>1, <2>3, SameStep
    <3>2. step \notin ProofSteps
      BY <3>1, GateFields DEF ProofSteps
    <3>3. j \in CheckoutJobs
      <4>1. CASE j = "validate"
        <5>1. step = Succeeded("validation_matrix") \/ step = Succeeded("provider_authentication")
          <6>1. i = 1 \/ i = 2
            BY <3>1, <4>1, ValidateJob
          <6> QED
            BY <4>1, <6>1, ValidateJob
        <5> QED
          BY <3>1, <5>1, StepFields
      <4>2. CASE j = "certification_status"
        BY <3>1, <4>2, StatusJob, StepFields
      <4> QED
        BY <2>2, <4>1, <4>2, JobSets
    <3> QED
      BY <1>1, <2>1, <2>3, <3>2, <3>3, StepIsGenuine
  <2>4. checkout \in Checkouts /\ dist \subseteq WheelKinds /\ wheel \in [1..MatrixLegs -> WheelKinds \cup {"none"}]
    BY <2>1 DEF BuiltFromTheHead
  <2>5. checkout' \in Checkouts /\ (edit \notin Rejected => "foreign" \notin checkout'.dist)
    <3> DEFINE c == Performed(CurrentStep)
    <3>1. c \in Checkouts /\ (edit \notin Rejected => "foreign" \notin c.dist)
      BY <2>1, <2>3, <2>4, PerformedWheels DEF BuiltFromTheHead
    <3> HIDE DEF c
    <3>2. CASE checkout' = c
      BY <3>1, <3>2
    <3>3. CASE \E what \in Leavings : checkout' = Left(c, what)
      BY <3>1, <3>3, LeftWheels
    <3> QED
      BY <1>1, <3>2, <3>3 DEF c
  <2>6. dist' \subseteq WheelKinds /\ (edit \notin Rejected => "foreign" \notin dist')
    BY <1>1, <2>1, <2>4 DEF BuiltFromTheHead, Checkouts
  <2>7. /\ wheel' \in [1..MatrixLegs -> WheelKinds \cup {"none"}]
        /\ \A leg \in 1..MatrixLegs : wheel'[leg] = wheel[leg] \/ wheel'[leg] \in checkout.dist
        /\ CurrentStep.name = "verify_wheel" /\ CurrentStep.command = "own" /\ running.leg \in 1..MatrixLegs =>
             wheel'[running.leg] \in checkout.dist
    <3>1. CASE UNCHANGED wheel /\ ~(CurrentStep.name = "verify_wheel" /\ CurrentStep.command = "own")
      BY <2>4, <3>1
    <3>2. CASE \E w \in checkout.dist : wheel' = [wheel EXCEPT ![running.leg] = w]
      <4>1. PICK w \in checkout.dist : wheel' = [wheel EXCEPT ![running.leg] = w]
        BY <3>2
      <4>2. w \in WheelKinds \cup {"none"}
        BY <2>4 DEF Checkouts
      <4>3. wheel' \in [1..MatrixLegs -> WheelKinds \cup {"none"}]
        BY <2>4, <4>1, <4>2
      <4>4. \A leg \in 1..MatrixLegs : wheel'[leg] = IF leg = running.leg THEN w ELSE wheel[leg]
        BY <2>4, <4>1
      <4> QED
        BY <4>1, <4>3, <4>4
    <3>3. IF CurrentStep.name = "verify_wheel" /\ CurrentStep.command = "own"
          THEN \E w \in checkout.dist : wheel' = [wheel EXCEPT ![running.leg] = w]
          ELSE UNCHANGED wheel
      BY DEF PassStep
    <3> DEFINE verifies == CurrentStep.name = "verify_wheel" /\ CurrentStep.command = "own"
    <3>4. CASE verifies
      BY <3>2, <3>3, <3>4
    <3>5. CASE ~verifies
      BY <3>1, <3>3, <3>5
    <3> QED
      BY <3>4, <3>5
  <2>8. checkout.dist \subseteq WheelKinds /\ "none" \notin WheelKinds
    BY <2>4 DEF Checkouts, WheelKinds
  <2>9. ASSUME NEW leg \in 1..MatrixLegs, <<"clean_wheel_install", leg, "verify_wheel">> \in proven'
        PROVE  wheel'[leg] # "none"
    <3>1. CASE <<"clean_wheel_install", leg, "verify_wheel">> \in proven
      BY <2>1, <2>7, <2>8, <3>1 DEF BuiltFromTheHead
    <3>2. CASE <<"clean_wheel_install", leg, "verify_wheel">> \notin proven
      <4>1. CurrentStep.command = "own" /\ CurrentStep.name = "verify_wheel" /\ running.leg = leg
        BY <1>1, <2>9, <3>2
      <4> QED
        BY <2>7, <2>8, <4>1
    <3> QED
      BY <3>1, <3>2
  <2>10. ASSUME edit \notin Rejected, NEW leg \in 1..MatrixLegs PROVE wheel'[leg] # "foreign"
    BY <2>1, <2>7, <2>10 DEF BuiltFromTheHead
  <2> QED
    BY <1>1, <2>5, <2>6, <2>7, <2>9, <2>10 DEF BuiltFromTheHead
<1>7. proven \subseteq proven'
  BY <1>1
<1> QED
  BY <1>1, <1>2, <1>3, <1>4, <1>5, <1>6, <1>7, StepAdvances DEF CertificationIInv

LEMMA FailStepKeeps == CertificationIInv /\ FailStep => CertificationIInv'
<1> SUFFICES ASSUME CertificationIInv, FailStep PROVE CertificationIInv'
  OBVIOUS
<1>1. /\ AtStep /\ UNCHANGED <<edit, origin, dist, wheel, proven>> /\ checkout' \in {checkout, Checkout}
      /\ \/ /\ CurrentStep.kind = "continue-on-error"
            /\ running' = [running EXCEPT !.at = @ + 1] /\ forgiven' = forgiven \cup {CurrentStep.name}
            /\ UNCHANGED <<outcomes, checkout>>
         \/ running' = NoJob /\ outcomes' = [outcomes EXCEPT ![running.job] = "failure"]
  BY DEF FailStep
<1>2. BuiltFromTheHead'
  BY <1>1, StillBuiltFromTheHead DEF CertificationIInv
<1>3. CASE /\ CurrentStep.kind = "continue-on-error"
           /\ running' = [running EXCEPT !.at = @ + 1] /\ forgiven' = forgiven \cup {CurrentStep.name}
           /\ UNCHANGED <<outcomes, checkout>>
  <2>1. CurrentStep # SourceGate /\ CurrentStep # RestoredGate /\ ~AsksForJob(CurrentStep) /\ CurrentStep # Must("ratchets")
    BY <1>3, GateFields, StepFields DEF AsksForJob
  <2>2. \A j \in CheckoutJobs : \A leg, i :
          edit \notin Rejected /\ running.job = j /\ running.leg = leg /\ running.at = i /\ ApprovedJobs[j][i] \notin ProofSteps =>
            StepDone(j, leg, ApprovedJobs[j][i])'
    BY <1>3, ForgivenStepIsDone DEF CertificationIInv
  <2> QED
    BY <1>1, <1>2, <1>3, <2>1, <2>2, StepAdvances DEF CertificationIInv
<1>4. CASE running' = NoJob /\ outcomes' = [outcomes EXCEPT ![running.job] = "failure"]
  <2>1. running # NoJob
    BY <1>1 DEF AtStep
  <2> QED
    BY <1>1, <1>2, <1>4, <2>1, Ends DEF CertificationIInv
<1> QED
  BY <1>1, <1>3, <1>4

LEMMA CertifiedIsDone == CertificationIInv => CertifiedIsProven
<1> SUFFICES ASSUME CertificationIInv, outcomes["certification_status"] = "success"
             PROVE  /\ \A j \in CheckoutJobs : \A leg \in 1..Legs(j) : \A name \in Vouched(j) :
                         \/ <<j, leg, name>> \in proven
                         \/ <<j, name>> \in Emptied
                         \/ name = "controls" /\ origin = "fork"
                    /\ \A leg \in 1..MatrixLegs :
                         \/ wheel[leg] = "own"
                         \/ wheel[leg] = "stray"
                         \/ wheel[leg] = "none" /\ <<"clean_wheel_install", "verify_wheel">> \in Emptied
                    /\ origin = "fork" => <<"provider_authentication", "reject">> \in Emptied
  BY DEF CertifiedIsProven
<1>1. edit \notin Rejected /\ \A j \in CiJobs : outcomes[j] = "success"
  BY DEF CertificationIInv, CertifiedIsFinal
<1>2. \A j \in CheckoutJobs : \A leg \in 1..Legs(j) : LegIsProven(j, leg)
  BY <1>1 DEF CertificationIInv, JobsAreProven, CheckoutJobs
<1>3. \A j \in CheckoutJobs : 1 \in 1..Legs(j)
  BY CertificationAssumption DEF Legs
<1>4. {"provider_authentication", "clean_wheel_install"} \subseteq CheckoutJobs
  BY JobSets
<1>5. origin = "fork" => <<"provider_authentication", "reject">> \in Emptied
  BY <1>2, <1>3, <1>4 DEF LegIsProven
<1>6. "verify_wheel" \in Vouched("clean_wheel_install")
  <2> DEFINE A == ApprovedJobs["clean_wheel_install"]
  <2>1. 4 \in 1..Len(A) /\ A[4] = Must("verify_wheel") /\ "clean_wheel_install" \in CiJobs
    BY WheelJob, JobNames
  <2>2. PICK S : A \in Seq(S)
    BY <2>1, ApprovedShape DEF IsSeq
  <2>3. 4 \in DOMAIN A
    BY <2>1, <2>2, LenProperties
  <2>4. A[4].kind = "must" /\ A[4].name = "verify_wheel" /\ A[4] \notin ProofSteps
    BY <2>1, StepFields, GateFields DEF ProofSteps
  <2> QED
    BY <2>3, <2>4 DEF Vouched, Range
<1>7. ASSUME NEW leg \in 1..MatrixLegs
      PROVE  \/ wheel[leg] = "own"
             \/ wheel[leg] = "stray"
             \/ wheel[leg] = "none" /\ <<"clean_wheel_install", "verify_wheel">> \in Emptied
  <2>1. leg \in 1..Legs("clean_wheel_install")
    BY DEF Legs
  <2>2. \/ <<"clean_wheel_install", leg, "verify_wheel">> \in proven
        \/ <<"clean_wheel_install", "verify_wheel">> \in Emptied
    BY <1>2, <1>4, <1>6, <2>1 DEF LegIsProven, PassedOrEmptied
  <2>3. wheel[leg] \in WheelKinds \cup {"none"} /\ wheel[leg] # "foreign"
    BY <1>1 DEF CertificationIInv, BuiltFromTheHead
  <2>4. <<"clean_wheel_install", leg, "verify_wheel">> \in proven => wheel[leg] # "none"
    BY DEF CertificationIInv, BuiltFromTheHead
  <2> QED
    BY <2>2, <2>3, <2>4 DEF WheelKinds
<1> QED
  BY <1>2, <1>5, <1>7 DEF LegIsProven, PassedOrEmptied

\* A certified head has passed every step of every leg on the sources it is about,
\* and no leg has verified a wheel built from other sources, for any number of legs,
\* attempts and troubles, wherever it edits its workflow, save for the commands that
\* the contract does not bind and the wheels that a step leaves in dist/ (.github/workflows/
\* validate.yml:585-602, 642-656, 889-906; workflow_quality_contract.py:193-208,
\* 341-371; validate_source_integrity.py:349-374).
THEOREM CertificationIsProven == CertificationSpec => []CertifiedIsProven
<1>1. CertificationInit => CertificationIInv
  BY CertificationStarts
<1>2. CertificationIInv /\ [CertificationNext]_certificationVars => CertificationIInv'
  <2> SUFFICES ASSUME CertificationIInv, [CertificationNext]_certificationVars PROVE CertificationIInv'
    OBVIOUS
  <2>1. CASE UNCHANGED certificationVars
    <3>1. UNCHANGED <<edit, origin, outcomes, running, checkout, forgiven, dist, wheel, proven>>
      BY <2>1 DEF certificationVars
    <3>2. JobSteps' = JobSteps /\ Emptied' = Emptied
      BY <3>1 DEF JobSteps, Emptied
    <3>3. CertificationTypeOK' /\ GateHolds' /\ ChecksHold' /\ RatchetsHold'
      BY <3>1, <3>2 DEF CertificationIInv, CertificationTypeOK, GateHolds, ChecksHold, RatchetsHold
    <3>4. CertifiedIsFinal' /\ BuiltFromTheHead'
      BY <3>1 DEF CertificationIInv, CertifiedIsFinal, BuiltFromTheHead
    <3>5. StepsAreDone' /\ JobsAreProven'
      BY <3>1, <3>2 DEF CertificationIInv, StepsAreDone, JobsAreProven, StepDone, LegIsProven, PassedOrEmptied
    <3> QED
      BY <3>3, <3>4, <3>5 DEF CertificationIInv
  <2> QED
    BY <2>1, BeginJobKeeps, EndLegKeeps, SkipStepKeeps, PassStepKeeps, FailStepKeeps, RerunKeeps DEF CertificationNext
<1>3. CertificationIInv => CertifiedIsProven
  BY CertifiedIsDone
<1> QED
  BY <1>1, <1>2, <1>3, PTL DEF CertificationSpec
=============================================================================
