--------------------------- MODULE TrustedPublication ---------------------------
(***************************************************************************)
(* The release workflow (src/.github/workflows/release.yml) over GitHub:    *)
(* publish_candidate (src/scripts/publication_publish.py,                   *)
(* publication_remote.py), the completion job and the detached consumer     *)
(* (publication_completion.py), each of whose calls the provider answers    *)
(* at another moment, while reviewers, the owner, the branch, the clock and *)
(* administrators go on.                                                    *)
(*                                                                          *)
(* authorize_candidate is one reading of one fact, authority: the review,   *)
(* owner, evidence, main-branch and producer checks are all of the form     *)
(* "still as selected".  One concurrency group: attempts do not overlap.    *)
(***************************************************************************)
EXTENDS Integers, FiniteSets
LOCAL INSTANCE FiniteSetsExt

CONSTANTS
  Name,         \* the prepared files, six in the code
  Stray,        \* the name of a file that is not one of them
  MaxAttempts,  \* bound: runs and reruns of the workflow
  MaxMeddling,  \* bound: what administrators do outside the protocol
  NoTag,
  NoRelease,
  NoReceipt

ASSUME PublicationAssumption ==
  /\ IsFiniteSet(Name) /\ Name # {} /\ Stray \notin Name
  /\ MaxAttempts \in Nat
  /\ MaxMeddling \in Nat
  /\ NoTag \notin {"candidate", "other"}

Attempt == 1..MaxAttempts
MaxAsset == MaxAttempts * Cardinality(Name) + MaxMeddling
Bytes == {"approved", "other"}
Asset == [id : 1..MaxAsset, name : Name \cup {Stray}, bytes : Bytes]

VARIABLES
  authority,  \* does the selection still authorize: granted, suspended, revoked
  expired,    \* has the earliest of the validity windows passed
  tag,        \* the commit refs/tags/<planned tag> names
  release,    \* the release of the tag, a draft or public
  nextAsset,
  gone,       \* the assets removed so far
  runOf,      \* the workflow run of each attempt dispatched
  outcome,    \* of each attempt: how it stands, or the job that failed
  pc,         \* where the latest attempt is, and the write a refresh is for
  uploaded,   \* the assets it has had acknowledged, with their names
  receipt,    \* the completion receipt of each attempt
  consumer,   \* where verify_completion is, with what it has read
  approved,   \* the attempts it has approved, with what it had read
  writers,    \* attempts that have changed the provider's state
  late,       \* writes since the authority was lost for good
  changed,    \* have the assets changed since the running attempt last read them
  meddled     \* how often administrators have changed the release, or the tag

provider == <<authority, expired, tag, release, nextAsset, gone>>
run == <<runOf, outcome, pc, uploaded, receipt>>
history == <<writers, late, changed, meddled>>
vars == <<provider, run, consumer, approved, history>>

Latest == Cardinality({a \in Attempt : outcome[a] # "none"})
Running == Latest > 0 /\ outcome[Latest] = "running"
Lost == authority = "revoked" \/ expired
Idle == [at |-> "idle", attempt |-> 0, kept |-> TRUE, lost |-> FALSE]

Init ==
  /\ authority = "granted"
  /\ expired = FALSE
  /\ tag = NoTag
  /\ release = NoRelease
  /\ nextAsset = 1
  /\ gone = {}
  /\ runOf = [a \in Attempt |-> 0]
  /\ outcome = [a \in Attempt |-> "none"]
  /\ pc = <<"idle", "none">>
  /\ uploaded = {}
  /\ receipt = [a \in Attempt |-> NoReceipt]
  /\ consumer = Idle
  /\ approved = {}
  /\ writers = {}
  /\ late = 0
  /\ changed = TRUE
  /\ meddled = [release |-> 0, tag |-> 0]

-----------------------------------------------------------------------------
(* The checks.                                                              *)

\* authorize_candidate with workflow_context.
Authorized == authority = "granted" /\ ~expired

\* observed_release reads the tag and the release ...
Identified(state) ==
  /\ tag = "candidate"
  /\ release # NoRelease
  /\ release.state = state

\* Mutation: assets that were not prepared are passed over.
ExactAmongOthers ==
  /\ release # NoRelease
  /\ \A name \in Name : \E asset \in release.assets : asset.name = name /\ asset.bytes = "approved"

\* ... and then every asset and its bytes, by id.
Exact ==
  /\ release # NoRelease
  /\ {asset.name : asset \in release.assets} = Name
  /\ \A asset \in release.assets : asset.bytes = "approved"

\* What the readback reports of a public release.
Publication == {[id |-> asset.id, name |-> asset.name] : asset \in release.assets}

\* Mutation: the acknowledged uploads are not counted.
DraftAsCreated ==
  /\ release # NoRelease
  /\ release.state = "draft"
  /\ Publication = {}

\* _draft: the draft has exactly what has been acknowledged.
DraftAsUploaded ==
  /\ release # NoRelease
  /\ release.state = "draft"
  /\ Publication = uploaded

\* unused_destination.
Unused == tag = NoTag /\ release = NoRelease

-----------------------------------------------------------------------------
(* The attempt's steps.  A check that does not hold, a provider that does   *)
(* not answer and a cancelled job all raise.                                *)

At(step, goal) == Running /\ pc = <<step, goal>>
Step(step, goal, then) == At(step, goal) /\ pc' = then

\* The job a step belongs to, and the first step of each job.
Job == IF pc[2] = "job" THEN "authorize" ELSE IF pc[2] = "complete" THEN "complete" ELSE "publish"

\* Mutation: a publish job goes on where its predecessor has left a tag.
FirstStepResuming ==
  [authorize |-> <<"authorize", "job">>,
   publish |-> IF tag = "candidate" THEN <<"listing", "none">> ELSE <<"authorize", "publish">>,
   complete |-> <<"authorize", "complete">>]

FirstStep == [authorize |-> <<"authorize", "job">>,
              publish |-> <<"authorize", "publish">>,
              complete |-> <<"authorize", "complete">>]

\* An attempt is a new run, a rerun, or a rerun of the failed jobs, for which
\* the jobs that had succeeded still count.
Dispatch ==
  /\ ~Running
  /\ Latest < MaxAttempts
  /\ outcome' = [outcome EXCEPT ![Latest + 1] = "running"]
  /\ \/ /\ \E r \in {runOf[a] : a \in 1..Latest} \cup {Latest + 1} :
             runOf' = [runOf EXCEPT ![Latest + 1] = r]
        /\ pc' = FirstStep.authorize
     \/ \E job \in DOMAIN FirstStep :
          /\ Latest > 0 /\ outcome[Latest] = job
          /\ runOf' = [runOf EXCEPT ![Latest + 1] = runOf[Latest]]
          /\ pc' = FirstStep[job]
  /\ uploaded' = {}
  /\ UNCHANGED <<provider, receipt, consumer, approved, history>>

Raise ==
  /\ Running
  /\ outcome' = [outcome EXCEPT ![Latest] = Job]
  /\ pc' = <<"idle", "none">>
  /\ uploaded' = {}
  /\ changed' = TRUE
  /\ UNCHANGED <<provider, runOf, receipt, consumer, approved, writers, late, meddled>>

\* The authorize job, then the publish job's first authorization.
Authorize ==
  /\ \/ Step("authorize", "job", <<"authorize", "publish">>)
     \/ Step("authorize", "publish", <<"unused", "none">>)
  /\ Authorized
  /\ UNCHANGED <<provider, runOf, outcome, uploaded, receipt, consumer, approved, history>>

CheckUnused ==
  /\ Step("unused", "none", <<"refresh", "tag">>)
  /\ Unused
  /\ UNCHANGED <<provider, runOf, outcome, uploaded, receipt, consumer, approved, history>>

\* Mutation: uploads are authorized by what came before them.
RefreshUnlessUploading ==
  \E goal \in {"tag", "draft", "upload", "publish", "public"} :
    /\ \/ Step("refresh", goal, <<"assert", goal>>) /\ (goal = "upload" \/ Authorized)
       \/ /\ Step("assert", goal, <<IF goal = "public" THEN "identity" ELSE "do", goal>>)
          /\ goal = "upload" \/ ~expired
    /\ UNCHANGED <<provider, runOf, outcome, uploaded, receipt, consumer, approved, history>>

\* _refresh: authorized again, and then its validity has not passed.
Refresh ==
  \E goal \in {"tag", "draft", "upload", "publish", "public"} :
    /\ \/ Step("refresh", goal, <<"assert", goal>>) /\ Authorized
       \/ Step("assert", goal, <<IF goal = "public" THEN "identity" ELSE "do", goal>>) /\ ~expired
    /\ UNCHANGED <<provider, runOf, outcome, uploaded, receipt, consumer, approved, history>>

\* A change of the provider's state by the attempt, of the assets or not.
Wrote(assets) ==
  /\ writers' = writers \cup {Latest}
  /\ late' = IF Lost THEN late + 1 ELSE late
  /\ changed' = (changed \/ assets)
  /\ UNCHANGED meddled

\* The provider has made the change; its answer comes, or is lost.
Answered(then) ==
  \/ pc' = then /\ UNCHANGED outcome
  \/ /\ pc' = <<"idle", "none">>
     /\ outcome' = [outcome EXCEPT ![Latest] = Job]

CreateTag ==
  /\ At("do", "tag")
  /\ tag = NoTag
  /\ tag' = "candidate"
  /\ Wrote(FALSE)
  /\ Answered(<<"tagged", "none">>)
  /\ UNCHANGED <<authority, expired, release, nextAsset, gone, runOf, uploaded, receipt, consumer, approved>>

\* observed_tag, and the releases are listed again.
CheckTag ==
  /\ Step("tagged", "none", <<"listing", "none">>)
  /\ tag = "candidate"
  /\ UNCHANGED <<provider, runOf, outcome, uploaded, receipt, consumer, approved, history>>

ListReleases ==
  /\ Step("listing", "none", <<"refresh", "draft">>)
  /\ release = NoRelease
  /\ UNCHANGED <<provider, runOf, outcome, uploaded, receipt, consumer, approved, history>>

CreateDraft ==
  /\ At("do", "draft")
  /\ release = NoRelease
  /\ release' = [state |-> "draft", assets |-> {}]
  /\ Wrote(FALSE)
  /\ Answered(<<"inspect", "draft">>)
  /\ UNCHANGED <<authority, expired, tag, nextAsset, gone, runOf, uploaded, receipt, consumer, approved>>

Remaining == Name \ {asset.name : asset \in uploaded}

\* _draft, after the draft was created and before each upload.
InspectDraft ==
  /\ \/ Step("inspect", "draft", <<"inspect", "upload">>)
     \/ Step("inspect", "upload", <<"refresh", "upload">>)
  /\ DraftAsUploaded
  /\ UNCHANGED <<provider, runOf, outcome, uploaded, receipt, consumer, approved, history>>

Upload ==
  /\ At("do", "upload")
  /\ release # NoRelease
  /\ \E name \in Remaining :
       /\ name \notin {asset.name : asset \in release.assets}
       /\ release' = [release EXCEPT !.assets =
                        @ \cup {[id |-> nextAsset, name |-> name, bytes |-> "approved"]}]
       /\ uploaded' = uploaded \cup {[id |-> nextAsset, name |-> name]}
       /\ Answered(IF Remaining = {name} THEN <<"identity", "draft">> ELSE <<"inspect", "upload">>)
  /\ nextAsset' = nextAsset + 1
  /\ Wrote(TRUE)
  /\ UNCHANGED <<authority, expired, tag, gone, runOf, receipt, consumer, approved>>

\* The three readbacks of an attempt, the release's state in each, and what
\* comes after it.
Expected(goal) == IF goal = "draft" THEN "draft" ELSE "public"

After(goal) ==
  CASE goal = "draft" -> <<"refresh", "publish">>
    [] goal = "public" -> <<"authorize", "complete">>  \* PUBLISHED_UNCERTIFIED
    [] goal = "complete" -> <<"reauthorize", "complete">>

ReadIdentity ==
  \E goal \in {"draft", "public", "complete"} :
    /\ Step("identity", goal, <<"assets", goal>>)
    /\ Identified(Expected(goal))
    /\ UNCHANGED <<provider, runOf, outcome, uploaded, receipt, consumer, approved, history>>

ReadAssets ==
  \E goal \in {"draft", "public", "complete"} :
    /\ Step("assets", goal, After(goal))
    /\ Exact
    /\ changed' = FALSE
    /\ receipt' = IF goal = "complete"
                    THEN [receipt EXCEPT ![Latest] =
                            [publication |-> Publication, sealed |-> FALSE]]
                    ELSE receipt
    /\ UNCHANGED <<provider, runOf, outcome, uploaded, consumer, approved, writers, late, meddled>>

Publish ==
  /\ At("do", "publish")
  /\ release # NoRelease
  /\ release' = [release EXCEPT !.state = "public"]
  /\ Wrote(FALSE)
  /\ Answered(<<"refresh", "public">>)
  /\ UNCHANGED <<authority, expired, tag, nextAsset, gone, runOf, uploaded, receipt, consumer, approved>>

-----------------------------------------------------------------------------
(* The complete job: COMPLETION_OBSERVED.                                   *)

BeginCompletion ==
  /\ Step("authorize", "complete", <<"identity", "complete">>)
  /\ Authorized
  /\ UNCHANGED <<provider, runOf, outcome, uploaded, receipt, consumer, approved, history>>

ReauthorizeCompletion ==
  /\ Step("reauthorize", "complete", <<"assert", "complete">>)
  /\ Authorized
  /\ UNCHANGED <<provider, runOf, outcome, uploaded, receipt, consumer, approved, history>>

\* The receipt is written, attested and kept as the attempt's artifact.
SealReceipt ==
  /\ Step("assert", "complete", <<"finish", "complete">>)
  /\ ~expired
  /\ receipt' = [receipt EXCEPT ![Latest].sealed = TRUE]
  /\ UNCHANGED <<provider, runOf, outcome, uploaded, consumer, approved, history>>

FinishRun ==
  /\ Step("finish", "complete", <<"idle", "none">>)
  /\ outcome' = [outcome EXCEPT ![Latest] = "succeeded"]
  /\ uploaded' = {}
  /\ changed' = TRUE
  /\ UNCHANGED <<provider, runOf, receipt, consumer, approved, writers, late, meddled>>

-----------------------------------------------------------------------------
(* verify_completion, whenever somebody calls it.                           *)

\* authenticate_workflow_artifact: the latest attempt of its run has succeeded.
Authentic(a) ==
  /\ receipt[a] # NoReceipt
  /\ receipt[a].sealed
  /\ outcome[a] = "succeeded"
  /\ \A b \in Attempt : runOf[b] = runOf[a] => b <= a

BeginConsumer ==
  /\ consumer.at = "idle"
  /\ \E a \in Attempt :
       /\ Authentic(a)
       /\ Authorized
       /\ consumer' = [consumer EXCEPT !.at = "identity", !.attempt = a]
  /\ UNCHANGED <<provider, run, approved, history>>

\* Mutation: the names are compared and the identities are not.
SameNames ==
  {asset.name : asset \in release.assets} =
    {asset.name : asset \in receipt[consumer.attempt].publication}

\* What is read is what the receipt says.
SameAsReceipt == Publication = receipt[consumer.attempt].publication

IdentifyPublished ==
  /\ consumer.at = "identity"
  /\ Identified("public")
  /\ consumer' = [consumer EXCEPT !.at = "assets"]
  /\ UNCHANGED <<provider, run, approved, history>>

ReadPublished ==
  /\ consumer.at = "assets"
  /\ Exact
  /\ SameAsReceipt
  /\ consumer' = [consumer EXCEPT
                    !.at = "reauthorize", !.lost = Lost,
                    !.kept = {asset.id : asset \in receipt[consumer.attempt].publication} \cap gone = {}]
  /\ UNCHANGED <<provider, run, approved, history>>

ReauthorizeConsumer ==
  /\ consumer.at = "reauthorize"
  /\ Authorized
  /\ consumer' = [consumer EXCEPT !.at = "assert"]
  /\ UNCHANGED <<provider, run, approved, history>>

Certify ==
  /\ consumer.at = "assert"
  /\ ~expired
  /\ approved' = approved \cup
       {[attempt |-> consumer.attempt, kept |-> consumer.kept, lost |-> consumer.lost]}
  /\ consumer' = Idle
  /\ UNCHANGED <<provider, run, history>>

\* BLOCKED: a check did not hold, or a call failed.
Refuse ==
  /\ consumer.at # "idle"
  /\ consumer' = Idle
  /\ UNCHANGED <<provider, run, approved, history>>

-----------------------------------------------------------------------------
(* The rest of the world.                                                   *)

\* The evidence head, the pull request or a producer changes and may change
\* back; a review, an edited comment or a newer main does not.
AuthorityChanges ==
  /\ ~Lost
  /\ \/ authority = "granted" /\ authority' \in {"suspended", "revoked"}
     \/ authority = "suspended" /\ authority' \in {"granted", "revoked"}
  /\ UNCHANGED <<expired, tag, release, nextAsset, gone, run, consumer, approved, history>>

Expire ==
  /\ ~Lost
  /\ expired' = TRUE
  /\ UNCHANGED <<authority, tag, release, nextAsset, gone, run, consumer, approved, history>>

\* An administrator removes or adds an asset, changes the release's state,
\* deletes the release, or deletes or moves the tag.
ChangedAssets ==
  LET missing == (Name \cup {Stray}) \ {asset.name : asset \in release.assets}
      added == [id : {nextAsset}, name : missing, bytes : Bytes]
  IN  {release.assets \ {asset} : asset \in release.assets}
      \cup {release.assets \cup {asset} : asset \in added}

MeddleRelease ==
  /\ meddled.release + meddled.tag < MaxMeddling
  /\ release # NoRelease
  /\ \/ /\ \E assets \in ChangedAssets : release' = [release EXCEPT !.assets = assets]
        /\ changed' = TRUE
        /\ nextAsset' = nextAsset + 1
        /\ gone' = gone \cup {asset.id : asset \in release.assets \ release'.assets}
     \/ /\ release' \in {[release EXCEPT !.state = state] : state \in {"draft", "public"} \ {release.state}}
        /\ UNCHANGED <<nextAsset, gone, changed>>
     \/ /\ release' = NoRelease
        /\ changed' = TRUE
        /\ gone' = gone \cup {asset.id : asset \in release.assets}
        /\ UNCHANGED nextAsset
  /\ meddled' = [meddled EXCEPT !.release = @ + 1]
  /\ UNCHANGED <<authority, expired, tag, run, consumer, approved, writers, late>>

MeddleTag ==
  /\ meddled.release + meddled.tag < MaxMeddling
  /\ tag # NoTag
  /\ tag' \in {NoTag, "other"} \ {tag}
  /\ meddled' = [meddled EXCEPT !.tag = @ + 1]
  /\ UNCHANGED <<authority, expired, release, nextAsset, gone, run, consumer, approved, writers, late, changed>>

AttemptStep ==
  \/ Authorize \/ CheckUnused \/ Refresh \/ CreateTag \/ CheckTag \/ ListReleases \/ CreateDraft
  \/ InspectDraft \/ Upload \/ ReadIdentity \/ ReadAssets \/ Publish
  \/ BeginCompletion \/ ReauthorizeCompletion \/ SealReceipt \/ FinishRun

Consume == BeginConsumer \/ IdentifyPublished \/ ReadPublished \/ ReauthorizeConsumer \/ Certify \/ Refuse

World == AuthorityChanges \/ Expire \/ MeddleRelease \/ MeddleTag

Next == Dispatch \/ AttemptStep \/ Raise \/ Consume \/ World

\* A job that has been started runs until it ends; nobody must start one, and
\* nothing outside has to happen.
Spec == Init /\ [][Next]_vars /\ WF_vars(AttemptStep)

-----------------------------------------------------------------------------
Publications == SUBSET [id : 1..MaxAsset, name : Name \cup {Stray}]

TypeOK ==
  /\ authority \in {"granted", "suspended", "revoked"}
  /\ expired \in BOOLEAN
  /\ tag \in {NoTag, "candidate", "other"}
  /\ release \in [state : {"draft", "public"}, assets : SUBSET Asset] \cup {NoRelease}
  /\ nextAsset \in 1..(MaxAsset + 1)
  /\ gone \subseteq 1..MaxAsset
  /\ runOf \in [Attempt -> 0..MaxAttempts]
  /\ outcome \in [Attempt -> {"none", "running", "succeeded"} \cup DOMAIN FirstStep]
  /\ uploaded \in Publications
  /\ receipt \in [Attempt -> [publication : Publications, sealed : BOOLEAN] \cup {NoReceipt}]
  /\ consumer \in [at : {"idle", "identity", "assets", "reauthorize", "assert"},
                    attempt : 0..MaxAttempts, kept : BOOLEAN, lost : BOOLEAN]
  /\ approved \subseteq [attempt : Attempt, kept : BOOLEAN, lost : BOOLEAN]
  /\ writers \subseteq Attempt
  /\ late \in Nat
  /\ changed \in BOOLEAN
  /\ meddled \in [release : 0..MaxMeddling, tag : 0..MaxMeddling]

\* Partial publications are not resumed: unless an administrator takes the tag
\* away, one attempt makes every change of the provider's state, whatever
\* answers are lost and however often the workflow is run again
\* (publication_remote.py:40-49, publication_publish.py:74-79).
OneAttemptWrites == meddled.tag = 0 => Cardinality(writers) <= 1

\* After the authority is lost for good, by a review, the branch, an edit or
\* the clock, at most one write still reaches the provider, over all attempts
\* (publication_publish.py:24-30).
OneLateWrite == late <= 1

\* The release is made public with exactly the prepared bytes, or it was
\* changed by others after the attempt's last look at its assets
\* (publication_publish.py:86-90).
PublishesWhatItRead ==
  [][At("do", "publish") /\ release' # release /\ meddled' = meddled =>
       \/ {<<asset.name, asset.bytes>> : asset \in release.assets} = Name \X {"approved"}
       \/ changed]_vars

\* APPROVED: the assets that the complete job read were never taken away until
\* the consumer read them, not even for others with the same bytes, and at its
\* reading the selection still authorized (publication_completion.py:107-138).
ApprovalsAreCurrent == \A a \in approved : a.kept /\ ~a.lost

\* A publication that nothing disturbs never stands still before one of its
\* own checks: each accepts what the attempt itself has written, in every order
\* of uploads (publication_publish.py:65-94, publication_completion.py:54-81).
Undisturbed(a) ==
  authority = "granted" /\ ~expired /\ meddled.release + meddled.tag = 0 /\ writers \subseteq {a}

UndisturbedRunsEnd ==
  \A a \in Attempt : outcome[a] = "running" ~> outcome[a] # "running" \/ ~Undisturbed(a)

=============================================================================
