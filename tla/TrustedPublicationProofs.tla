------------------------ MODULE TrustedPublicationProofs ------------------------
(***************************************************************************)
(* What TrustedPublication promises, for any prepared files, number of     *)
(* attempts and amount of outside interference; and what an accepted       *)
(* package of PublicationEvidence holds, for any packages and amendments.  *)
(* The two specifications share no state.                                  *)
(***************************************************************************)
EXTENDS TrustedPublication, PublicationEvidence, FiniteSetTheorems, SequenceTheorems,
        WellFoundedInduction, TLAPS

-----------------------------------------------------------------------------
(* After the authority is lost for good.                                    *)

\* Lost is for good, and with one late write done no attempt stands between a
\* refresh and its write, where another could still be made.
LateInv ==
  /\ late \in Nat
  /\ ~Lost => late = 0
  /\ late <= 1
  /\ late = 1 => pc[1] \notin {"assert", "do"}

LEMMA LateInit == Init => LateInv
  BY DEF Init, LateInv, Lost

LEMMA LateStep == LateInv /\ [Next]_vars => LateInv'
<1> SUFFICES ASSUME LateInv, [Next]_vars PROVE LateInv'
  OBVIOUS
<1> USE DEF LateInv
<1>1. ASSUME NEW step, NEW goal, NEW then, Step(step, goal, then),
             then[1] \notin {"assert", "do"}, UNCHANGED <<provider, late>>
      PROVE  LateInv'
  BY <1>1 DEF Step, provider, Lost
<1>2. ASSUME NEW goal, At("do", goal), pc'[1] \notin {"assert", "do"},
             late' = IF Lost THEN late + 1 ELSE late, UNCHANGED <<authority, expired>>
      PROVE  LateInv'
  <2>1. pc[1] = "do"
    BY <1>2 DEF At
  <2>2. late = 0
    BY <2>1
  <2> QED
    BY <1>2, <2>2 DEF Lost
<1>3. CASE Dispatch
  <2>1. pc'[1] = "authorize"
    BY <1>3 DEF Dispatch, FirstStep
  <2> QED
    BY <1>3, <2>1 DEF Dispatch, provider, history, Lost
<1>4. CASE Raise
  BY <1>4 DEF Raise, provider, Lost
<1>5. CASE AttemptStep
  <2>1. CASE Authorize
    BY <2>1, <1>1 DEF Authorize, history, Step, provider, Lost
  <2>2. CASE CheckUnused
    BY <2>2 DEF CheckUnused, history, Step, provider, Lost
  <2>3. CASE Refresh
    <3>1. late = 0
      <4>1. CASE Authorized
        BY <4>1 DEF Authorized, Lost
      <4>2. CASE pc[1] = "assert"
        BY <4>2
      <4> QED
        BY <2>3, <4>1, <4>2 DEF Refresh, Step, At
    <3> QED
      BY <2>3, <3>1 DEF Refresh, history, provider, Lost
  <2>4. CASE CreateTag
    <3>1. pc'[1] \notin {"assert", "do"}
      BY <2>4 DEF CreateTag, Answered
    <3> QED
      BY <2>4, <3>1, <1>2 DEF CreateTag, Wrote
  <2>5. CASE CheckTag
    BY <2>5 DEF CheckTag, history, Step, provider, Lost
  <2>6. CASE ListReleases
    BY <2>6 DEF ListReleases, history, Step, provider, Lost
  <2>7. CASE CreateDraft
    <3>1. pc'[1] \notin {"assert", "do"}
      BY <2>7 DEF CreateDraft, Answered
    <3> QED
      BY <2>7, <3>1, <1>2 DEF CreateDraft, Wrote
  <2>8. CASE InspectDraft
    BY <2>8 DEF InspectDraft, history, Step, provider, Lost
  <2>9. CASE Upload
    <3>1. pc'[1] \notin {"assert", "do"}
      BY <2>9 DEF Upload, Answered
    <3> QED
      BY <2>9, <3>1, <1>2 DEF Upload, Wrote
  <2>10. CASE ReadIdentity
    BY <2>10 DEF ReadIdentity, history, Step, provider, Lost
  <2>11. CASE ReadAssets
    BY <2>11 DEF ReadAssets, After, Step, provider, Lost
  <2>12. CASE Publish
    <3>1. pc'[1] \notin {"assert", "do"}
      BY <2>12 DEF Publish, Answered
    <3> QED
      BY <2>12, <3>1, <1>2 DEF Publish, Wrote
  <2>13. CASE BeginCompletion
    BY <2>13 DEF BeginCompletion, history, Step, provider, Lost
  <2>14. CASE ReauthorizeCompletion
    <3>1. late = 0
      BY <2>14 DEF ReauthorizeCompletion, Authorized, Lost
    <3> QED
      BY <2>14, <3>1 DEF ReauthorizeCompletion, history, provider, Lost
  <2>15. CASE SealReceipt
    BY <2>15 DEF SealReceipt, history, Step, provider, Lost
  <2>16. CASE FinishRun
    BY <2>16 DEF FinishRun, Step, provider, Lost
  <2> QED
    BY <1>5, <2>1, <2>2, <2>3, <2>4, <2>5, <2>6, <2>7, <2>8, <2>9, <2>10, <2>11, <2>12,
       <2>13, <2>14, <2>15, <2>16 DEF AttemptStep
<1>6. CASE Consume
  BY <1>6 DEF Consume, BeginConsumer, IdentifyPublished, ReadPublished, ReauthorizeConsumer,
              Certify, Refuse, provider, run, history, Lost
<1>7. CASE World
  BY <1>7 DEF World, AuthorityChanges, Expire, MeddleRelease, MeddleTag, run, history, Lost
<1>8. CASE UNCHANGED vars
  BY <1>8 DEF vars, provider, run, history, Lost
<1> QED
  BY <1>3, <1>4, <1>5, <1>6, <1>7, <1>8 DEF Next

\* However many attempts are made and wherever they stand when the authority
\* is lost for good, at most one write follows (publication_publish.py:23-29).
THEOREM AtMostOneLateWrite == Spec => []OneLateWrite
<1>1. LateInv => OneLateWrite
  BY DEF LateInv, OneLateWrite
<1> QED
  BY LateInit, LateStep, <1>1, PTL DEF Spec

-----------------------------------------------------------------------------
(* One attempt's writes.                                                    *)

\* Where the running attempt has created the tag and may still write.
AfterTag ==
  \/ pc[1] \in {"tagged", "listing"}
  \/ pc[2] \in {"draft", "upload", "publish"} /\ pc[1] # "authorize"

\* A missing tag says that nobody has written, and an attempt that stands behind
\* the tag's creation is the one that has.
WritersInv ==
  /\ meddled \in [release : Nat, tag : Nat]
  /\ meddled.tag = 0 =>
       /\ tag = NoTag => writers = {}
       /\ AfterTag => tag # NoTag /\ writers \subseteq {Latest}
       /\ \E a \in Nat : writers \subseteq {a}

LEMMA LatestType == Latest \in Nat
<1>1. IsFiniteSet(Attempt) /\ {a \in Attempt : outcome[a] # "none"} \subseteq Attempt
  BY PublicationAssumption, FS_Interval DEF Attempt
<1> QED
  BY <1>1, FS_Subset, FS_CardinalityType DEF Latest

LEMMA WritersInit == Init => WritersInv
<1> SUFFICES ASSUME Init PROVE WritersInv
  OBVIOUS
<1>1. writers = {} /\ ~AfterTag /\ meddled = [release |-> 0, tag |-> 0]
  BY DEF Init, AfterTag
<1> QED
  BY <1>1 DEF WritersInv

LEMMA WritersStep == WritersInv /\ [Next]_vars => WritersInv'
<1> SUFFICES ASSUME WritersInv, [Next]_vars PROVE WritersInv'
  OBVIOUS
\* A step that leaves the history and the tag, and enters the part behind the
\* tag's creation only from there.
<1>1. ASSUME UNCHANGED <<writers, tag, meddled>>,
             AfterTag' => AfterTag /\ UNCHANGED outcome
      PROVE  WritersInv'
  <2>1. AfterTag' => Latest' = Latest
    BY <1>1 DEF Latest
  <2> QED
    BY <1>1, <2>1 DEF WritersInv
<1>2. ASSUME NEW goal \in {"tag", "draft", "upload", "publish"}, At("do", goal),
             writers' = writers \cup {Latest}, tag' # NoTag \/ UNCHANGED tag, UNCHANGED meddled,
             goal = "tag" => tag = NoTag,
             goal = "tag" => tag' # NoTag,
             AfterTag' => UNCHANGED outcome
      PROVE  WritersInv'
  <2>1. meddled.tag = 0 => writers \subseteq {Latest}
    <3>1. CASE goal = "tag"
      BY <1>2, <3>1 DEF WritersInv
    <3>2. CASE goal # "tag"
      BY <1>2, <3>2 DEF WritersInv, At, AfterTag
    <3> QED
      BY <3>1, <3>2
  <2>2. meddled.tag = 0 => writers' \subseteq {Latest}
    BY <1>2, <2>1
  <2>3. AfterTag' => Latest' = Latest
    BY <1>2 DEF Latest
  <2>4. meddled.tag = 0 => tag' # NoTag
    <3>1. CASE goal = "tag"
      BY <1>2, <3>1
    <3>2. CASE goal # "tag"
      BY <1>2, <3>2 DEF WritersInv, At, AfterTag
    <3> QED
      BY <3>1, <3>2
  <2>5. meddled.tag = 0 => \E a \in Nat : writers' \subseteq {a}
    BY <2>2, LatestType
  <2> QED
    BY <1>2, <2>2, <2>3, <2>4, <2>5 DEF WritersInv
<1>3. CASE Dispatch
  <2>1. pc'[1] = "authorize"
    BY <1>3 DEF Dispatch, FirstStep
  <2> QED
    BY <1>1, <1>3, <2>1 DEF Dispatch, provider, history, AfterTag
<1>4. CASE Raise
  BY <1>1, <1>4 DEF Raise, provider, AfterTag
<1>5. CASE AttemptStep
  <2>1. CASE Authorize
    BY <2>1, <1>1 DEF Authorize, Step, history, provider, AfterTag
  <2>2. CASE CheckUnused
    BY <2>2, <1>1 DEF CheckUnused, Step, history, provider, AfterTag
  <2>3. CASE Refresh
    <3>1. PICK goal \in {"tag", "draft", "upload", "publish", "public"} :
            /\ \/ Step("refresh", goal, <<"assert", goal>>)
               \/ Step("assert", goal, <<IF goal = "public" THEN "identity" ELSE "do", goal>>)
            /\ UNCHANGED <<outcome, writers, tag, meddled>>
      BY <2>3 DEF Refresh, history, provider
    <3>2. pc[2] = goal /\ pc'[2] = goal /\ pc[1] # "authorize" /\ pc'[1] \in {"assert", "do", "identity"}
      BY <3>1 DEF Step, At
    <3> QED
      BY <1>1, <3>1, <3>2 DEF AfterTag
  <2>4. CASE CreateTag
    <3>1. AfterTag' => UNCHANGED outcome
      BY <2>4 DEF CreateTag, Answered, AfterTag
    <3>2. At("do", "tag") /\ tag = NoTag /\ tag' # NoTag /\ UNCHANGED meddled /\ writers' = writers \cup {Latest}
      BY <2>4, PublicationAssumption DEF CreateTag, Wrote
    <3> QED
      BY <1>2, <3>1, <3>2
  <2>5. CASE CheckTag
    BY <2>5, <1>1 DEF CheckTag, Step, At, history, provider, AfterTag
  <2>6. CASE ListReleases
    BY <2>6, <1>1 DEF ListReleases, Step, At, history, provider, AfterTag
  <2>7. CASE CreateDraft
    <3>1. AfterTag' => UNCHANGED outcome
      BY <2>7 DEF CreateDraft, Answered, AfterTag
    <3>2. At("do", "draft") /\ UNCHANGED <<tag, meddled>> /\ writers' = writers \cup {Latest}
      BY <2>7 DEF CreateDraft, Wrote
    <3> QED
      BY <1>2, <3>1, <3>2
  <2>8. CASE InspectDraft
    BY <2>8, <1>1 DEF InspectDraft, Step, At, history, provider, AfterTag
  <2>9. CASE Upload
    <3>1. AfterTag' => UNCHANGED outcome
      BY <2>9 DEF Upload, Answered, AfterTag
    <3>2. At("do", "upload") /\ UNCHANGED <<tag, meddled>> /\ writers' = writers \cup {Latest}
      BY <2>9 DEF Upload, Wrote
    <3> QED
      BY <1>2, <3>1, <3>2
  <2>10. CASE ReadIdentity
    BY <2>10, <1>1 DEF ReadIdentity, Step, At, history, provider, AfterTag
  <2>11. CASE ReadAssets
    BY <2>11, <1>1 DEF ReadAssets, After, Step, At, provider, AfterTag
  <2>12. CASE Publish
    <3>1. AfterTag' => UNCHANGED outcome
      BY <2>12 DEF Publish, Answered, AfterTag
    <3>2. At("do", "publish") /\ UNCHANGED <<tag, meddled>> /\ writers' = writers \cup {Latest}
      BY <2>12 DEF Publish, Wrote
    <3> QED
      BY <1>2, <3>1, <3>2
  <2>13. CASE BeginCompletion
    BY <2>13, <1>1 DEF BeginCompletion, Step, history, provider, AfterTag
  <2>14. CASE ReauthorizeCompletion
    BY <2>14, <1>1 DEF ReauthorizeCompletion, Step, history, provider, AfterTag
  <2>15. CASE SealReceipt
    BY <2>15, <1>1 DEF SealReceipt, Step, history, provider, AfterTag
  <2>16. CASE FinishRun
    BY <2>16, <1>1 DEF FinishRun, Step, provider, AfterTag
  <2> QED
    BY <1>5, <2>1, <2>2, <2>3, <2>4, <2>5, <2>6, <2>7, <2>8, <2>9, <2>10, <2>11, <2>12,
       <2>13, <2>14, <2>15, <2>16 DEF AttemptStep
<1>6. CASE Consume
  BY <1>1, <1>6 DEF Consume, BeginConsumer, IdentifyPublished, ReadPublished, ReauthorizeConsumer,
              Certify, Refuse, provider, run, history, AfterTag
<1>7. CASE World
  <2>1. CASE MeddleTag
    <3>1. meddled'.tag # 0 /\ meddled' \in [release : Nat, tag : Nat]
      BY <2>1 DEF MeddleTag, WritersInv
    <3> QED
      BY <3>1 DEF WritersInv
  <2>2. CASE MeddleRelease
    <3>1. meddled'.tag = meddled.tag /\ meddled' \in [release : Nat, tag : Nat]
      BY <2>2 DEF MeddleRelease, WritersInv
    <3>2. UNCHANGED <<pc, outcome, writers, tag>>
      BY <2>2 DEF MeddleRelease, run
    <3>3. Latest' = Latest /\ AfterTag' = AfterTag
      BY <3>2 DEF Latest, AfterTag
    <3> QED
      BY <3>1, <3>2, <3>3 DEF WritersInv
  <2>3. CASE AuthorityChanges \/ Expire
    BY <1>1, <2>3 DEF AuthorityChanges, Expire, run, history, AfterTag
  <2> QED
    BY <1>7, <2>1, <2>2, <2>3 DEF World
<1>8. CASE UNCHANGED vars
  BY <1>1, <1>8 DEF vars, provider, run, history, AfterTag
<1> QED
  BY <1>3, <1>4, <1>5, <1>6, <1>7, <1>8 DEF Next

\* Unless an administrator takes the tag away, one attempt makes all the
\* changes, over any number of reruns (publication_remote.py:40-49).
THEOREM OneAttemptWritesAll == Spec => []OneAttemptWrites
<1>1. WritersInv => OneAttemptWrites
  <2> SUFFICES ASSUME WritersInv, meddled.tag = 0 PROVE Cardinality(writers) <= 1
    BY DEF OneAttemptWrites
  <2>1. PICK a \in Nat : writers \subseteq {a}
    BY DEF WritersInv
  <2>2. IsFiniteSet({a}) /\ Cardinality({a}) = 1
    BY FS_Singleton
  <2> QED
    BY <2>1, <2>2, FS_Subset, FS_CardinalityType
<1> QED
  BY WritersInit, WritersStep, <1>1, PTL DEF Spec

-----------------------------------------------------------------------------
(* Assets and their identities.                                             *)

AnyAsset == [id : Nat, name : Name \cup {Stray}, bytes : Bytes]

\* Identities are given out once: an asset that is there has one of its own,
\* and one that is gone has none of the present.
ReleaseInv ==
  /\ meddled \in [release : Nat, tag : Nat]
  /\ nextAsset \in Nat
  /\ \A i \in gone : i \in Nat /\ i < nextAsset
  /\ release # NoRelease =>
       /\ release \in [state : {"draft", "public"}, assets : SUBSET AnyAsset]
       /\ \A x \in release.assets : x.id < nextAsset /\ x.id \notin gone
       /\ \A x, y \in release.assets : x.id = y.id => x = y

LEMMA ReleaseInit == Init => ReleaseInv
  BY DEF Init, ReleaseInv

\* Adding an asset under the next identity, taking one away.
LEMMA AssetAdded ==
  ASSUME ReleaseInv, release # NoRelease, NEW name \in Name \cup {Stray}, NEW bytes \in Bytes,
         release' = [release EXCEPT !.assets = @ \cup {[id |-> nextAsset, name |-> name, bytes |-> bytes]}],
         nextAsset' = nextAsset + 1, gone' = gone, meddled' \in [release : Nat, tag : Nat]
  PROVE  ReleaseInv'
<1> DEFINE new == [id |-> nextAsset, name |-> name, bytes |-> bytes]
<1>1. release \in [state : {"draft", "public"}, assets : SUBSET AnyAsset] /\ nextAsset \in Nat
  BY DEF ReleaseInv
<1>2. new \in AnyAsset /\ new.id = nextAsset
  BY <1>1 DEF AnyAsset
<1>3. release' = [release EXCEPT !.assets = release.assets \cup {new}]
  BY DEF ReleaseInv
<1> HIDE DEF new
<1>4. /\ release' \in [state : {"draft", "public"}, assets : SUBSET AnyAsset]
      /\ release'.assets = release.assets \cup {new}
  BY <1>1, <1>2, <1>3
<1>5. \A x \in release.assets : x.id \in Nat /\ x.id < nextAsset /\ x.id \notin gone
  BY <1>1 DEF ReleaseInv, AnyAsset
<1>6. \A x \in release'.assets : x.id < nextAsset' /\ x.id \notin gone'
  BY <1>1, <1>2, <1>4, <1>5 DEF ReleaseInv
<1>7. \A x, y \in release'.assets : x.id = y.id => x = y
  BY <1>1, <1>2, <1>4, <1>5 DEF ReleaseInv
<1> QED
  BY <1>1, <1>4, <1>6, <1>7 DEF ReleaseInv

LEMMA AssetRemoved ==
  ASSUME ReleaseInv, release # NoRelease, NEW asset \in release.assets,
         release' = [release EXCEPT !.assets = release.assets \ {asset}],
         nextAsset' = nextAsset + 1, gone' = gone \cup {x.id : x \in release.assets \ release'.assets},
         meddled' \in [release : Nat, tag : Nat]
  PROVE  ReleaseInv'
<1>1. release \in [state : {"draft", "public"}, assets : SUBSET AnyAsset] /\ nextAsset \in Nat
  BY DEF ReleaseInv
<1>2. /\ release' \in [state : {"draft", "public"}, assets : SUBSET AnyAsset]
      /\ release'.assets = release.assets \ {asset}
  BY <1>1
<1>3. gone' = gone \cup {asset.id}
  BY <1>2
<1>4. \A x \in release.assets : x.id \in Nat /\ x.id < nextAsset /\ x.id \notin gone
  BY <1>1 DEF ReleaseInv, AnyAsset
<1>5. \A x \in release'.assets : x.id < nextAsset' /\ x.id \notin gone'
  BY <1>1, <1>2, <1>3, <1>4 DEF ReleaseInv
<1>6. \A i \in gone' : i \in Nat /\ i < nextAsset'
  BY <1>1, <1>3, <1>4 DEF ReleaseInv
<1> QED
  BY <1>1, <1>2, <1>5, <1>6 DEF ReleaseInv

LEMMA ReleaseStep == ReleaseInv /\ [Next]_vars => ReleaseInv'
<1> SUFFICES ASSUME ReleaseInv, [Next]_vars PROVE ReleaseInv'
  OBVIOUS
<1>1. ASSUME UNCHANGED <<release, nextAsset, gone, meddled>> PROVE ReleaseInv'
  BY <1>1 DEF ReleaseInv
<1>2. CASE CreateDraft
  <2>1. release' \in [state : {"draft", "public"}, assets : SUBSET AnyAsset] /\ release'.assets = {}
    BY <1>2 DEF CreateDraft
  <2> QED
    BY <1>2, <2>1 DEF CreateDraft, Wrote, ReleaseInv
<1>3. CASE Upload
  <2>1. PICK name \in Remaining :
          release' = [release EXCEPT !.assets =
                        @ \cup {[id |-> nextAsset, name |-> name, bytes |-> "approved"]}]
    BY <1>3 DEF Upload
  <2>2. name \in Name \cup {Stray} /\ "approved" \in Bytes
    BY DEF Remaining, Bytes
  <2>3. release # NoRelease /\ nextAsset' = nextAsset + 1 /\ gone' = gone /\ meddled' = meddled
    BY <1>3 DEF Upload, Wrote
  <2> QED
    BY <2>1, <2>2, <2>3, AssetAdded DEF ReleaseInv
<1>4. CASE Publish
  <2>1. release \in [state : {"draft", "public"}, assets : SUBSET AnyAsset]
    BY <1>4 DEF Publish, ReleaseInv
  <2>2. /\ release' \in [state : {"draft", "public"}, assets : SUBSET AnyAsset]
        /\ release'.assets = release.assets
    BY <1>4, <2>1 DEF Publish
  <2> QED
    BY <1>4, <2>2 DEF Publish, Wrote, ReleaseInv
<1>5. CASE MeddleRelease
  <2>1. release \in [state : {"draft", "public"}, assets : SUBSET AnyAsset] /\ release # NoRelease
    BY <1>5 DEF MeddleRelease, ReleaseInv
  <2>2. meddled' \in [release : Nat, tag : Nat]
    BY <1>5 DEF MeddleRelease, ReleaseInv
  <2>3. CASE /\ \E assets \in ChangedAssets : release' = [release EXCEPT !.assets = assets]
             /\ nextAsset' = nextAsset + 1
             /\ gone' = gone \cup {asset.id : asset \in release.assets \ release'.assets}
    <3>1. PICK assets \in ChangedAssets : release' = [release EXCEPT !.assets = assets]
      BY <2>3
    <3>2. CASE \E asset \in release.assets : assets = release.assets \ {asset}
      BY <2>1, <2>2, <2>3, <3>1, <3>2, AssetRemoved
    <3>3. CASE \E name \in Name \cup {Stray}, bytes \in Bytes :
                 assets = release.assets \cup {[id |-> nextAsset, name |-> name, bytes |-> bytes]}
      <4>1. release'.assets = assets
        BY <2>1, <3>1
      <4>2. release.assets \ release'.assets = {}
        BY <3>3, <4>1
      <4>3. gone' = gone
        BY <2>3, <4>2
      <4> QED
        BY <2>1, <2>2, <2>3, <3>1, <3>3, <4>3, AssetAdded
    <3>4. \/ \E asset \in release.assets : assets = release.assets \ {asset}
          \/ \E new \in [id : {nextAsset}, name : Name \cup {Stray}, bytes : Bytes] :
               assets = release.assets \cup {new}
      BY <3>1 DEF ChangedAssets
    <3>5. \A new \in [id : {nextAsset}, name : Name \cup {Stray}, bytes : Bytes] :
            /\ new = [id |-> nextAsset, name |-> new.name, bytes |-> new.bytes]
            /\ new.name \in Name \cup {Stray} /\ new.bytes \in Bytes
      OBVIOUS
    <3> QED
      BY <3>2, <3>3, <3>4, <3>5
  <2>4. CASE /\ release' \in {[release EXCEPT !.state = state] :
                                state \in {"draft", "public"} \ {release.state}}
             /\ UNCHANGED <<nextAsset, gone>>
    <3>1. /\ release' \in [state : {"draft", "public"}, assets : SUBSET AnyAsset]
          /\ release'.assets = release.assets
      BY <2>1, <2>4
    <3>2. UNCHANGED <<nextAsset, gone>>
      BY <2>4
    <3> QED
      BY <2>1, <2>2, <3>1, <3>2 DEF ReleaseInv
  <2>5. CASE release' = NoRelease /\ gone' = gone \cup {asset.id : asset \in release.assets} /\ UNCHANGED nextAsset
    <3>1. \A x \in release.assets : x.id \in Nat /\ x.id < nextAsset
      BY <2>1 DEF ReleaseInv, AnyAsset
    <3> QED
      BY <2>2, <2>5, <3>1 DEF ReleaseInv
  <2> QED
    BY <1>5, <2>3, <2>4, <2>5 DEF MeddleRelease
<1>6. CASE MeddleTag
  BY <1>6 DEF MeddleTag, ReleaseInv
<1>7. CASE Dispatch \/ Raise \/ Consume \/ AuthorityChanges \/ Expire \/ UNCHANGED vars
  BY <1>1, <1>7 DEF Dispatch, Raise, Consume, BeginConsumer, IdentifyPublished, ReadPublished,
     ReauthorizeConsumer, Certify, Refuse, AuthorityChanges, Expire, vars, provider, history
<1>8. CASE Authorize \/ CheckUnused \/ Refresh \/ CreateTag \/ CheckTag \/ ListReleases \/ InspectDraft
  BY <1>1, <1>8 DEF Authorize, CheckUnused, Refresh, CreateTag, Wrote, CheckTag, ListReleases,
     InspectDraft, provider, history
<1>9. CASE ReadIdentity \/ ReadAssets \/ BeginCompletion \/ ReauthorizeCompletion \/ SealReceipt \/ FinishRun
  BY <1>1, <1>9 DEF ReadIdentity, ReadAssets, BeginCompletion, ReauthorizeCompletion, SealReceipt,
     FinishRun, provider, history
<1> QED
  BY <1>2, <1>3, <1>4, <1>5, <1>6, <1>7, <1>8, <1>9 DEF Next, AttemptStep, World

-----------------------------------------------------------------------------
(* What is made public.                                                     *)

Prepared(assets) ==
  /\ {asset.name : asset \in assets} = Name
  /\ \A asset \in assets : asset.bytes = "approved"

BeforePublish == pc[1] \in {"refresh", "assert", "do"} /\ pc[2] = "publish"

\* Between the readback of the draft and its publication the assets are the
\* prepared ones, or others have changed them.
PublishInv == BeforePublish => changed \/ Prepared(release.assets)

LEMMA PublishInit == Init => PublishInv
  BY DEF Init, PublishInv

LEMMA PublishStep == ReleaseInv /\ PublishInv /\ [Next]_vars => PublishInv'
<1> SUFFICES ASSUME ReleaseInv, PublishInv, [Next]_vars PROVE PublishInv'
  OBVIOUS
<1>1. ASSUME UNCHANGED release, changed => changed', BeforePublish' => BeforePublish PROVE PublishInv'
  BY <1>1 DEF PublishInv
<1>2. ASSUME ~BeforePublish' PROVE PublishInv'
  BY <1>2 DEF PublishInv
<1>3. CASE Dispatch
  <2>1. pc'[1] = "authorize"
    BY <1>3 DEF Dispatch, FirstStep
  <2> QED
    BY <1>2, <2>1 DEF BeforePublish
<1>4. CASE Raise \/ FinishRun
  BY <1>2, <1>4 DEF Raise, FinishRun, Step, BeforePublish
<1>5. CASE Authorize \/ CheckUnused \/ CheckTag \/ ListReleases \/ InspectDraft \/ ReadIdentity
  BY <1>2, <1>5 DEF Authorize, CheckUnused, CheckTag, ListReleases, InspectDraft, ReadIdentity, Step, BeforePublish
<1>6. CASE BeginCompletion \/ ReauthorizeCompletion \/ SealReceipt
  BY <1>2, <1>6 DEF BeginCompletion, ReauthorizeCompletion, SealReceipt, Step, BeforePublish
<1>7. CASE CreateTag \/ CreateDraft \/ Publish
  <2>1. pc' \in {<<"tagged", "none">>, <<"inspect", "draft">>, <<"refresh", "public">>, <<"idle", "none">>}
    BY <1>7 DEF CreateTag, CreateDraft, Publish, Answered
  <2> QED
    BY <1>2, <2>1 DEF BeforePublish
<1>8. CASE Upload
  BY <1>2, <1>8 DEF Upload, Answered, BeforePublish
<1>9. CASE Refresh
  <2>1. PICK goal \in {"tag", "draft", "upload", "publish", "public"} :
          \/ Step("refresh", goal, <<"assert", goal>>)
          \/ Step("assert", goal, <<IF goal = "public" THEN "identity" ELSE "do", goal>>)
    BY <1>9 DEF Refresh
  <2>2. pc[1] \in {"refresh", "assert"} /\ pc[2] = goal /\ pc'[2] = goal
    BY <2>1 DEF Step, At
  <2>3. UNCHANGED <<release, changed>>
    BY <1>9 DEF Refresh, provider, history
  <2> QED
    BY <1>1, <2>2, <2>3 DEF BeforePublish
<1>10. CASE ReadAssets
  <2>1. Prepared(release.assets) /\ UNCHANGED release
    BY <1>10 DEF ReadAssets, Exact, Prepared, provider
  <2> QED
    BY <2>1 DEF PublishInv, Prepared
<1>11. CASE Consume \/ AuthorityChanges \/ Expire \/ MeddleTag \/ UNCHANGED vars
  <2>1. UNCHANGED <<pc, release, changed>>
    BY <1>11 DEF Consume, BeginConsumer, IdentifyPublished, ReadPublished, ReauthorizeConsumer,
       Certify, Refuse, AuthorityChanges, Expire, MeddleTag, vars, provider, run, history
  <2> QED
    BY <1>1, <2>1 DEF BeforePublish
<1>12. CASE MeddleRelease
  <2>1. CASE changed'
    BY <2>1 DEF PublishInv
  <2>2. CASE /\ release' \in {[release EXCEPT !.state = state] : state \in {"draft", "public"} \ {release.state}}
             /\ UNCHANGED changed
    <3>1. release \in [state : {"draft", "public"}, assets : SUBSET AnyAsset]
      BY <1>12 DEF MeddleRelease, ReleaseInv
    <3>2. release'.assets = release.assets
      BY <2>2, <3>1
    <3>3. UNCHANGED <<pc, changed>>
      BY <1>12, <2>2 DEF MeddleRelease, run
    <3> QED
      BY <3>2, <3>3 DEF PublishInv, BeforePublish
  <2> QED
    BY <1>12, <2>1, <2>2 DEF MeddleRelease
<1> QED
  BY <1>3, <1>4, <1>5, <1>6, <1>7, <1>8, <1>9, <1>10, <1>11, <1>12 DEF Next, AttemptStep, World

\* A step that publishes is the attempt's PATCH, and what it makes public was
\* read back, or has been changed since (publication_publish.py:86-90).
THEOREM PublicBytesWereRead == Spec => PublishesWhatItRead
<1>1. ASSUME ReleaseInv, PublishInv, [Next]_vars,
             At("do", "publish"), release' # release, meddled' = meddled
      PROVE  {<<asset.name, asset.bytes>> : asset \in release.assets} = Name \X {"approved"} \/ changed
  <2>1. CASE changed
    BY <2>1
  <2>2. CASE Prepared(release.assets)
    <3>1. {asset.name : asset \in release.assets} = Name
      BY <2>2 DEF Prepared
    <3>2. \A asset \in release.assets : asset.bytes = "approved"
      BY <2>2 DEF Prepared
    <3>3. {<<asset.name, asset.bytes>> : asset \in release.assets}
             = {<<asset.name, "approved">> : asset \in release.assets}
      BY <3>2
    <3>4. {<<asset.name, "approved">> : asset \in release.assets} = Name \X {"approved"}
      BY <3>1
    <3> QED
      BY <3>3, <3>4
  <2>3. BeforePublish
    BY <1>1 DEF At, BeforePublish
  <2> QED
    BY <1>1, <2>1, <2>2, <2>3 DEF PublishInv
<1>2. ReleaseInv /\ PublishInv /\ [Next]_vars =>
        [At("do", "publish") /\ release' # release /\ meddled' = meddled =>
           \/ {<<asset.name, asset.bytes>> : asset \in release.assets} = Name \X {"approved"}
           \/ changed]_vars
  BY <1>1
<1> QED
  BY ReleaseInit, ReleaseStep, PublishInit, PublishStep, <1>2, PTL DEF Spec, PublishesWhatItRead

-----------------------------------------------------------------------------
(* Approvals.                                                               *)

\* What the consumer carries from its reading to its answer: the assets it read
\* were all still there, and if the authority was lost for good it still is.
ConsumerInv ==
  /\ consumer \in [at : {"idle", "identity", "assets", "reauthorize", "assert"},
                   attempt : Nat, kept : BOOLEAN, lost : BOOLEAN]
  /\ consumer.at = "reauthorize" => consumer.kept /\ (consumer.lost => Lost)
  /\ consumer.at = "assert" => consumer.kept /\ ~consumer.lost
  /\ \A a \in approved : a.kept /\ ~a.lost

LEMMA ConsumerInit == Init => ConsumerInv
  BY DEF Init, ConsumerInv, Idle

LEMMA ConsumerStep == ReleaseInv /\ ConsumerInv /\ [Next]_vars => ConsumerInv'
<1> SUFFICES ASSUME ReleaseInv, ConsumerInv, [Next]_vars PROVE ConsumerInv'
  OBVIOUS
<1>1. ASSUME UNCHANGED <<consumer, approved>>, Lost => Lost' PROVE ConsumerInv'
  BY <1>1 DEF ConsumerInv
<1>2. CASE BeginConsumer
  <2>1. PICK a \in Attempt : consumer' = [consumer EXCEPT !.at = "identity", !.attempt = a]
    BY <1>2 DEF BeginConsumer
  <2>2. a \in Nat
    BY DEF Attempt
  <2> QED
    BY <1>2, <2>1, <2>2 DEF BeginConsumer, ConsumerInv
<1>3. CASE IdentifyPublished
  BY <1>3 DEF IdentifyPublished, ConsumerInv
<1>4. CASE ReadPublished
  <2>1. \A x \in release.assets : x.id \notin gone
    BY <1>4 DEF ReadPublished, Exact, ReleaseInv
  <2>2. \A x \in Publication : x.id \notin gone
    BY <2>1 DEF Publication
  <2>3. {asset.id : asset \in receipt[consumer.attempt].publication} \cap gone = {}
    BY <1>4, <2>2 DEF ReadPublished, SameAsReceipt
  <2>4. /\ consumer' = [consumer EXCEPT !.at = "reauthorize", !.lost = Lost, !.kept = TRUE]
        /\ approved' = approved /\ Lost' = Lost
    BY <1>4, <2>3 DEF ReadPublished, provider, Lost
  <2>5. Lost \in BOOLEAN
    BY DEF Lost
  <2> QED
    BY <2>4, <2>5 DEF ConsumerInv
<1>5. CASE ReauthorizeConsumer
  <2>1. ~Lost
    BY <1>5 DEF ReauthorizeConsumer, Authorized, Lost
  <2> QED
    BY <1>5, <2>1 DEF ReauthorizeConsumer, ConsumerInv
<1>6. CASE Certify
  <2>1. approved' = approved \cup
          {[attempt |-> consumer.attempt, kept |-> consumer.kept, lost |-> consumer.lost]}
    BY <1>6 DEF Certify
  <2>2. consumer.kept /\ ~consumer.lost /\ consumer' = Idle
    BY <1>6 DEF Certify, ConsumerInv
  <2>3. \A a \in approved' : a.kept /\ ~a.lost
    BY <2>1, <2>2 DEF ConsumerInv
  <2> QED
    BY <2>2, <2>3 DEF ConsumerInv, Idle
<1>7. CASE Refuse
  BY <1>7 DEF Refuse, ConsumerInv, Idle
<1>8. CASE AuthorityChanges \/ Expire
  BY <1>1, <1>8 DEF AuthorityChanges, Expire
<1>9. CASE Dispatch \/ Raise \/ MeddleRelease \/ MeddleTag \/ UNCHANGED vars
  BY <1>1, <1>9 DEF Dispatch, Raise, MeddleRelease, MeddleTag, vars, provider, Lost
<1>10. CASE AttemptStep
  <2>1. CASE Authorize \/ CheckUnused \/ Refresh \/ CheckTag \/ ListReleases \/ InspectDraft
    BY <1>1, <2>1 DEF Authorize, CheckUnused, Refresh, CheckTag, ListReleases, InspectDraft, provider, Lost
  <2>2. CASE CreateTag \/ CreateDraft \/ Upload \/ Publish
    BY <1>1, <2>2 DEF CreateTag, CreateDraft, Upload, Publish, Lost
  <2>3. CASE ReadIdentity \/ ReadAssets \/ BeginCompletion \/ ReauthorizeCompletion \/ SealReceipt \/ FinishRun
    BY <1>1, <2>3 DEF ReadIdentity, ReadAssets, BeginCompletion, ReauthorizeCompletion, SealReceipt,
       FinishRun, provider, Lost
  <2> QED
    BY <1>10, <2>1, <2>2, <2>3 DEF AttemptStep
<1> QED
  BY <1>2, <1>3, <1>4, <1>5, <1>6, <1>7, <1>8, <1>9, <1>10 DEF Next, Consume, World

\* An approval is given for assets of which none was taken away before the
\* consumer read them, under an authority that outlived the reading
\* (publication_completion.py:127-134).
THEOREM ApprovalsStayCurrent == Spec => []ApprovalsAreCurrent
<1>1. ConsumerInv => ApprovalsAreCurrent
  BY DEF ConsumerInv, ApprovalsAreCurrent
<1> QED
  BY ReleaseInit, ReleaseStep, ConsumerInit, ConsumerStep, <1>1, PTL DEF Spec


-----------------------------------------------------------------------------
(* The evidence package.  What the closures leave no record out of, the three *)
(* seals contain: a record is named by a section, by a closure or by one of   *)
(* theirs.  The package stands still while it is read.                        *)

\* What CheckClosures asks.
ClosuresHold ==
  /\ DOMAIN Evidence.closures = Capability
  /\ Evidence.closures[Distribution] = {}
  /\ \A id \in Capability \ {Distribution} :
       /\ Evidence.closures[id] # {}
       /\ \A c \in Evidence.closures[id] : c \in Evidence.present /\ ClosureValid(Evidence, id, c)
  /\ Used(Evidence) = Evidence.present

\* The turns of the loop so far, each with requests of its own.
Turns == 1..read
TurnIds(i) == RequestIds(Evidence.observations[i])

\* What the loop has added up under a grant is the sum of the turns so far, and
\* is no more than the grant allows.
UsageInv ==
  /\ \A i \in Turns : Evidence.observations[i].authorization \in DOMAIN usage
  /\ \A g \in DOMAIN usage : usage[g].requests <= g.maxRequests /\ usage[g].cost <= g.maxCost
  /\ \A g : /\ UsageOf(g).requests = RunningSum(RequestsUnder(g))[read]
            /\ UsageOf(g).cost = RunningSum(CostUnder(g))[read]

ObservationsInv ==
  /\ read \in 0..Len(Evidence.observations)
  /\ \A i \in Turns : ObservationValid(Evidence.observations[i])
  /\ \A i \in Turns : TurnIds(i) \subseteq actual
  /\ \A i, j \in Turns : i < j => TurnIds(i) \cap TurnIds(j) = {}

PackageInv ==
  /\ package \in DOMAIN Packages
  /\ verdict = "open" => read = 0 /\ actual = {} /\ usage = <<>>
  /\ ObservationsInv /\ UsageInv
  /\ verdict \in {"closures", "executions", "accepted"} =>
       read = Len(Evidence.observations) /\ PrerequisitesValid(Evidence)
  /\ verdict \in {"executions", "accepted"} => ClosuresHold
  /\ verdict = "accepted" =>
       (\A gate \in Gate : SealHolds(gate)) /\ (\A claim \in Claims(Evidence) : ClaimHolds(claim))

\* A set of naturals has a least member.
LEMMA LeastOfNaturals ==
  ASSUME NEW S \in SUBSET Nat, S # {}
  PROVE  \E n \in S : \A m \in S : n <= m
<1>1. PICK n \in S : \A m \in S : ~ (<<m, n>> \in OpToRel(<, Nat))
  BY NatLessThanWellFounded, WFMin
<1>2. \A m \in S : ~ (m < n)
  BY <1>1 DEF OpToRel
<1> QED
  BY <1>2

\* The running sum is what its definition says: without a function for every
\* prefix there would be a shortest prefix without one.
LEMMA SumsAdd ==
  ASSUME NEW amounts, Len(amounts) \in Nat, \A i \in 1..Len(amounts) : amounts[i] \in Nat
  PROVE  /\ RunningSum(amounts)[0] = 0
         /\ \A n \in 1..Len(amounts) :
              RunningSum(amounts)[n] = RunningSum(amounts)[n - 1] + amounts[n]
         /\ \A n \in 0..Len(amounts) : RunningSum(amounts)[n] \in Nat
<1> DEFINE N == Len(amounts)
           Adds(f, k) == f = [n \in 0..k |-> IF n = 0 THEN 0 ELSE f[n - 1] + amounts[n]]
           Bad == {k \in 0..N : ~ \E f : Adds(f, k)}
<1>1. Bad = {}
  <2> SUFFICES ASSUME Bad # {} PROVE FALSE
    OBVIOUS
  <2>1. PICK k \in Bad : \A m \in Bad : k <= m
    <3>1. Bad \in SUBSET Nat
      OBVIOUS
    <3> HIDE DEF Bad
    <3> QED
      BY <3>1, LeastOfNaturals
  <2>2. k \in Nat /\ k \in 0..N /\ ~ \E f : Adds(f, k)
    BY <2>1
  <2>3. CASE k = 0
    <3>1. Adds([n \in 0..0 |-> 0], 0)
      OBVIOUS
    <3> QED
      BY <2>2, <2>3, <3>1
  <2>4. CASE k # 0
    <3>1. k - 1 \in 0..N /\ ~(k <= k - 1)
      BY <2>2, <2>4
    <3>2. PICK f : Adds(f, k - 1)
      BY <2>1, <3>1
    <3> DEFINE g == [n \in 0..k |-> IF n = k THEN f[k - 1] + amounts[k] ELSE f[n]]
    <3>3. \A n \in 0..k : g[n] = IF n = 0 THEN 0 ELSE g[n - 1] + amounts[n]
      <4> SUFFICES ASSUME NEW n \in 0..k PROVE g[n] = IF n = 0 THEN 0 ELSE g[n - 1] + amounts[n]
        OBVIOUS
      <4>1. CASE n = k
        <5>1. k - 1 \in 0..k /\ k - 1 # k
          BY <2>2, <2>4
        <5>2. g[k - 1] = f[k - 1] /\ g[k] = f[k - 1] + amounts[k]
          BY <2>2, <5>1
        <5> QED
          BY <2>4, <4>1, <5>2
      <4>2. CASE n # k
        <5>1. n \in 0..(k - 1)
          BY <2>2, <4>2
        <5>2. f[n] = IF n = 0 THEN 0 ELSE f[n - 1] + amounts[n]
          BY <3>2, <5>1
        <5>3. n # 0 => n - 1 \in 0..k /\ n - 1 # k
          BY <2>2, <4>2
        <5> QED
          BY <4>2, <5>2, <5>3
      <4> QED
        BY <4>1, <4>2
    <3>4. Adds(g, k)
      <4>1. g = [n \in 0..k |-> g[n]]
        OBVIOUS
      <4> HIDE DEF g
      <4> QED
        BY <3>3, <4>1
    <3> QED
      BY <2>2, <3>4
  <2> QED
    BY <2>3, <2>4
<1>2. RunningSum(amounts) = CHOOSE f : Adds(f, N)
  BY DEF RunningSum
<1>3. \E f : Adds(f, N)
  BY <1>1
<1>4. Adds(RunningSum(amounts), N)
  <2> HIDE DEF Adds
  <2> QED
    BY <1>2, <1>3
<1>5. \A n \in 0..N : RunningSum(amounts)[n] = IF n = 0 THEN 0 ELSE RunningSum(amounts)[n - 1] + amounts[n]
  BY <1>4
<1> DEFINE Odd == {k \in 0..N : RunningSum(amounts)[k] \notin Nat}
<1>6. Odd = {}
  <2> SUFFICES ASSUME Odd # {} PROVE FALSE
    OBVIOUS
  <2>1. PICK k \in Odd : \A m \in Odd : k <= m
    <3>1. Odd \in SUBSET Nat
      OBVIOUS
    <3> HIDE DEF Odd
    <3> QED
      BY <3>1, LeastOfNaturals
  <2>2. k \in 0..N /\ k # 0 /\ RunningSum(amounts)[k] \notin Nat
    BY <1>5, <2>1
  <2>3. k - 1 \in 0..N /\ ~(k <= k - 1) /\ amounts[k] \in Nat
    BY <2>2
  <2>4. RunningSum(amounts)[k - 1] \in Nat
    BY <2>1, <2>3
  <2> QED
    BY <1>5, <2>2, <2>3, <2>4
<1>7. RunningSum(amounts)[0] = 0
  BY <1>5
<1>8. \A n \in 1..N : RunningSum(amounts)[n] = RunningSum(amounts)[n - 1] + amounts[n]
  BY <1>5
<1>9. \A n \in 0..N : RunningSum(amounts)[n] \in Nat
  BY <1>6
<1> QED
  BY <1>7, <1>8, <1>9

\* A request has an identity of its own in its observation.
LEMMA MadeIsIds ==
  ASSUME NEW o, IsFiniteSet(o.normalized.requests), ObservationValid(o)
  PROVE  o.normalized.made = Cardinality(RequestIds(o)) /\ Cardinality(RequestIds(o)) \in Nat
<1> DEFINE R == o.normalized.requests
           f == [q \in R |-> q.id]
<1>1. o.normalized.made = Cardinality(R) /\ \A p, q \in R : p.id = q.id => p = q
  BY DEF ObservationValid
<1>2. f \in Bijection(R, RequestIds(o))
  BY <1>1 DEF RequestIds, Bijection, Injection, Surjection, IsInjective
<1>3. IsFiniteSet(RequestIds(o)) /\ Cardinality(RequestIds(o)) = Cardinality(R)
  <2>1. R \in {R} /\ IsFiniteSet(R)
    OBVIOUS
  <2> HIDE DEF R, f
  <2> QED
    BY <1>2, <2>1, FS_Bijection DEF ExistsBijection
<1> QED
  BY <1>1, <1>3, FS_CardinalityType

\* A producer seals what its section and its closures name, and what that names.
LEMMA NamedIsSealed ==
  ASSUME NEW p, NEW gate,
         NEW r \in Section(p, gate) \cup UNION {p.closures[c] : c \in ClosuresOf(p, gate)}
  PROVE  r \in SealedRecords(p, gate) /\ Refs(r) \subseteq SealedRecords(p, gate)
BY DEF SealedRecords, Reachable

LEMMA UsedIsSealed ==
  ASSUME package \in DOMAIN Packages, ClosuresHold, NEW r \in Used(Evidence)
  PROVE  \E gate \in Gate : r \in SealedRecords(Evidence, gate)
<1> DEFINE p == Evidence
           closed == UNION {p.closures[id] : id \in DOMAIN p.closures}
           live == "live_authorized_smokes"
           external == "external_reproduction"
           corpus == "seven_archetype_benchmark"
<1>1. /\ {live, external, corpus} \subseteq Gate
      /\ Section(p, live) = Range(p.observations) \cup Range(p.prerequisites)
      /\ Section(p, external) = {p.environment} \cup Range(p.commands)
      /\ Section(p, corpus) = {p.benchmark}
  BY DEF Gate, Section
<1>2. ASSUME NEW c \in closed
      PROVE  \E gate \in Gate : c \in SealedRecords(p, gate) /\ Refs(c) \subseteq SealedRecords(p, gate)
  <2>1. PICK id \in DOMAIN p.closures : c \in p.closures[id]
    OBVIOUS
  <2>2. id \in Capability \ {Distribution}
    BY <2>1 DEF ClosuresHold
  <2>3. ClosureValid(p, id, c)
    BY <2>1, <2>2 DEF ClosuresHold
  <2>4. c.execution_gate \in {live, external}
    BY <2>3 DEF ClosureValid
  <2>5. id \in ClosuresOf(p, c.execution_gate)
    BY <2>1, <2>2 DEF ClosuresOf, Gates
  <2>6. c \in UNION {p.closures[k] : k \in ClosuresOf(p, c.execution_gate)}
    BY <2>1, <2>5
  <2> QED
    BY <1>1, <2>4, <2>6, NamedIsSealed
<1>3. ASSUME NEW o \in Range(p.observations)
      PROVE  o \in SealedRecords(p, live) /\ Refs(o) \subseteq SealedRecords(p, live)
  BY <1>1, <1>3, NamedIsSealed
<1>4. CASE r \in closed
  BY <1>2, <1>4
<1>5. CASE r \in Range(p.observations) \cup UNION {Refs(o) : o \in Range(p.observations)}
  BY <1>1, <1>3, <1>5
<1>6. CASE r \in Range(p.prerequisites)
  BY <1>1, <1>6, NamedIsSealed
<1>7. CASE r \in Range(p.commands) \cup {p.environment}
  BY <1>1, <1>7, NamedIsSealed
<1>8. CASE r = p.benchmark
  BY <1>1, <1>8, NamedIsSealed
<1>9. CASE r \in UNION {c.observations : c \in closed}
  <2>1. PICK c \in closed : r \in c.observations
    BY <1>9
  <2>2. c.kind = "capability_closure"
    BY PackagesAssumption DEF Evidence
  <2>3. r \in Refs(c)
    BY <2>1, <2>2 DEF Refs
  <2> QED
    BY <1>2, <2>3
<1> QED
  BY <1>4, <1>5, <1>6, <1>7, <1>8, <1>9 DEF Used

\* What a package's observations took of a grant, turn by turn.
LEMMA UnderAdds ==
  ASSUME package \in DOMAIN Packages, NEW g
  PROVE  LET obs == Evidence.observations
             requests == RunningSum(RequestsUnder(g))
             costs == RunningSum(CostUnder(g))
         IN  /\ Len(obs) \in Nat /\ DOMAIN obs = 1..Len(obs)
             /\ requests[0] = 0 /\ costs[0] = 0
             /\ \A n \in 0..Len(obs) : requests[n] \in Nat /\ costs[n] \in Nat
             /\ \A n \in 1..Len(obs) :
                   /\ IsFiniteSet(obs[n].normalized.requests) /\ obs[n].normalized.cost \in Nat
                   /\ requests[n] = requests[n - 1] + RequestsUnder(g)[n]
                   /\ costs[n] = costs[n - 1] + CostUnder(g)[n]
<1> DEFINE obs == Evidence.observations
           N == Len(obs)
<1>1. /\ Len(obs) \in Nat /\ DOMAIN obs = 1..Len(obs)
      /\ \A o \in Range(obs) : IsFiniteSet(o.normalized.requests) /\ o.normalized.cost \in Nat
  <2>1. Len(obs) \in Nat /\ DOMAIN obs = 1..Len(obs)
    BY PackagesAssumption DEF Evidence
  <2>2. \A o \in Range(obs) : IsFiniteSet(o.normalized.requests) /\ o.normalized.cost \in Nat
    BY Zenon, PackagesAssumption DEF Evidence
  <2> QED
    BY <2>1, <2>2
<1>2. N \in Nat /\ DOMAIN obs = 1..N
  BY <1>1
<1>3. \A i \in 1..N : IsFiniteSet(obs[i].normalized.requests) /\ obs[i].normalized.cost \in Nat
  BY <1>1, <1>2 DEF Range
<1>4. ASSUME NEW i \in 1..N PROVE Cardinality(RequestIds(obs[i])) \in Nat
  <2>1. IsFiniteSet(RequestIds(obs[i]))
    <3> DEFINE R == obs[i].normalized.requests
               f == [q \in R |-> q.id]
    <3>1. f \in Surjection(R, RequestIds(obs[i])) /\ IsFiniteSet(R)
      BY <1>3 DEF Surjection, RequestIds
    <3> HIDE DEF R, f
    <3> QED
      BY <3>1, FS_Surjection
  <2> QED
    BY <2>1, FS_CardinalityType
<1>5. DOMAIN RequestsUnder(g) = 1..N /\ DOMAIN CostUnder(g) = 1..N
  BY <1>2 DEF RequestsUnder, CostUnder
<1>6. \A i \in 1..N : RequestsUnder(g)[i] \in Nat /\ CostUnder(g)[i] \in Nat
  BY <1>2, <1>3, <1>4 DEF RequestsUnder, CostUnder
<1>7. RequestsUnder(g) \in [1..N -> Nat] /\ CostUnder(g) \in [1..N -> Nat]
  BY <1>2, <1>5, <1>6 DEF RequestsUnder, CostUnder
<1>8. Len(RequestsUnder(g)) = N /\ Len(CostUnder(g)) = N
  <2>1. RequestsUnder(g) \in Seq(Nat) /\ CostUnder(g) \in Seq(Nat)
    BY <1>2, <1>7, SeqDef
  <2> QED
    BY <1>2, <1>5, <2>1
<1> HIDE DEF N
<1> QED
  BY <1>2, <1>3, <1>6, <1>8, SumsAdd DEF N

\* One more turn, and the sums of its grant grow by what it took.
LEMMA UsageTurn ==
  ASSUME PackageInv, read < Len(Evidence.observations), UNCHANGED package, NEW turn,
         turn = Evidence.observations[read + 1], ObservationValid(turn), WithinBudget(turn),
         read' = read + 1,
         usage' = [g \in DOMAIN usage \cup {turn.authorization} |->
                     IF g # turn.authorization THEN usage[g]
                     ELSE [requests |-> UsageOf(g).requests + turn.normalized.made,
                           cost |-> UsageOf(g).cost + turn.normalized.cost]]
  PROVE  UsageInv'
<1> DEFINE obs == Evidence.observations
           grant == turn.authorization
           N == Len(obs)
           made(g) == IF grant = g THEN turn.normalized.made ELSE 0
           paid(g) == IF grant = g THEN turn.normalized.cost ELSE 0
<1>1. /\ N \in Nat /\ DOMAIN obs = 1..N /\ read \in 0..N /\ read + 1 \in 1..N
      /\ package \in DOMAIN Packages
  <2>1. package \in DOMAIN Packages /\ read \in 0..N /\ read < N
    BY DEF PackageInv, ObservationsInv
  <2>2. N \in Nat /\ DOMAIN obs = 1..N
    BY <2>1, UnderAdds
  <2> QED
    BY <2>1, <2>2
<1>2. turn.normalized.made = Cardinality(RequestIds(turn)) /\ turn.normalized.made \in Nat
  <2>1. IsFiniteSet(turn.normalized.requests)
    BY <1>1, UnderAdds
  <2> QED
    BY <2>1, MadeIsIds
<1>3. Evidence' = Evidence
  BY DEF Evidence
<1>4. \A g : RequestsUnder(g)' = RequestsUnder(g) /\ CostUnder(g)' = CostUnder(g)
  BY <1>3 DEF RequestsUnder, CostUnder
<1>5. ASSUME NEW g
      PROVE  /\ RunningSum(RequestsUnder(g))[read'] = UsageOf(g).requests + made(g)
             /\ RunningSum(CostUnder(g))[read'] = UsageOf(g).cost + paid(g)
             /\ UsageOf(g).requests \in Nat /\ UsageOf(g).cost \in Nat
  <2>1. RequestsUnder(g)[read + 1] = made(g) /\ CostUnder(g)[read + 1] = paid(g)
    BY <1>1, <1>2 DEF RequestsUnder, CostUnder
  <2>2. /\ UsageOf(g).requests = RunningSum(RequestsUnder(g))[read]
        /\ UsageOf(g).cost = RunningSum(CostUnder(g))[read]
    BY DEF PackageInv, UsageInv
  <2>3. /\ RunningSum(RequestsUnder(g))[read + 1] = RunningSum(RequestsUnder(g))[(read + 1) - 1] + RequestsUnder(g)[read + 1]
        /\ RunningSum(CostUnder(g))[read + 1] = RunningSum(CostUnder(g))[(read + 1) - 1] + CostUnder(g)[read + 1]
        /\ RunningSum(RequestsUnder(g))[read] \in Nat /\ RunningSum(CostUnder(g))[read] \in Nat
    BY <1>1, UnderAdds
  <2>4. (read + 1) - 1 = read
    BY <1>1
  <2> HIDE DEF made, paid
  <2> QED
    BY <2>1, <2>2, <2>3, <2>4
<1>6. ASSUME NEW g
      PROVE  /\ UsageOf(g)'.requests = UsageOf(g).requests + made(g)
             /\ UsageOf(g)'.cost = UsageOf(g).cost + paid(g)
  <2>1. CASE g = grant
    <3>1. UsageOf(g)' = [requests |-> UsageOf(g).requests + turn.normalized.made,
                         cost |-> UsageOf(g).cost + turn.normalized.cost]
      BY <2>1 DEF UsageOf
    <3> QED
      BY <2>1, <3>1
  <2>2. CASE g # grant
    <3>1. UsageOf(g)' = UsageOf(g)
      BY <2>2 DEF UsageOf
    <3> QED
      BY <1>5, <2>2, <3>1
  <2> QED
    BY <2>1, <2>2
<1>7. \A g : /\ UsageOf(g)'.requests = RunningSum(RequestsUnder(g)')[read']
            /\ UsageOf(g)'.cost = RunningSum(CostUnder(g)')[read']
  BY <1>4, <1>5, <1>6
<1>8. \A i \in Turns' : obs[i].authorization \in DOMAIN usage'
  <2>1. Turns' = Turns \cup {read + 1}
    BY <1>1 DEF Turns
  <2> QED
    BY <2>1 DEF PackageInv, UsageInv
<1>9. ASSUME NEW g \in DOMAIN usage' PROVE usage'[g].requests <= g.maxRequests /\ usage'[g].cost <= g.maxCost
  <2>1. CASE g = grant
    <3>1. usage'[g] = [requests |-> UsageOf(g).requests + turn.normalized.made,
                       cost |-> UsageOf(g).cost + turn.normalized.cost]
      BY <2>1
    <3> QED
      BY <2>1, <3>1 DEF WithinBudget
  <2>2. CASE g # grant
    <3>1. g \in DOMAIN usage /\ usage'[g] = usage[g]
      BY <2>2
    <3> QED
      BY <3>1 DEF PackageInv, UsageInv
  <2> QED
    BY <2>1, <2>2
<1> QED
  BY <1>3, <1>7, <1>8, <1>9 DEF UsageInv

LEMMA ObservationTurn ==
  ASSUME PackageInv, CheckObservation
  PROVE  PackageInv'
<1> DEFINE turn == Evidence.observations[read + 1]
<1>1. /\ verdict = "observations" /\ read < Len(Evidence.observations)
      /\ UNCHANGED <<package, seals>>
  BY DEF CheckObservation
<1>2. UNCHANGED Evidence
  BY <1>1 DEF Evidence
<1>3. Len(Evidence.observations) \in Nat /\ read \in Nat
  BY PackagesAssumption DEF PackageInv, ObservationsInv, Evidence
<1>4. CASE Refused
  <2>1. UNCHANGED <<ObservationsInv, UsageInv>>
    BY <1>2, <1>4 DEF Refused, ObservationsInv, UsageInv, Turns, TurnIds, UsageOf, RequestsUnder, CostUnder
  <2> QED
    BY <1>1, <1>2, <1>4, <2>1 DEF Refused, PackageInv
<1>5. CASE /\ RequestIds(turn) \cap actual = {} /\ actual' = actual \cup RequestIds(turn)
           /\ read' = read + 1 /\ UNCHANGED verdict /\ ObservationValid(turn) /\ WithinBudget(turn)
           /\ usage' = [g \in DOMAIN usage \cup {turn.authorization} |->
                           IF g # turn.authorization THEN usage[g]
                           ELSE [requests |-> UsageOf(g).requests + turn.normalized.made,
                                 cost |-> UsageOf(g).cost + turn.normalized.cost]]
  <2>1. Turns' = Turns \cup {read + 1} /\ read' \in 0..Len(Evidence.observations)
    BY <1>1, <1>3, <1>5 DEF Turns
  <2>2. \A i : TurnIds(i)' = TurnIds(i)
    BY <1>2 DEF TurnIds
  <2>3. TurnIds(read + 1) = RequestIds(turn)
    BY DEF TurnIds
  <2>4. \A i \in Turns' : TurnIds(i) \subseteq actual'
    BY <1>5, <2>1, <2>3 DEF PackageInv, ObservationsInv
  <2>5. ASSUME NEW i \in Turns', NEW j \in Turns', i < j PROVE TurnIds(i) \cap TurnIds(j) = {}
    <3>1. i \in Turns
      BY <1>3, <2>1, <2>5 DEF Turns
    <3>2. CASE j \in Turns
      BY <2>5, <3>1, <3>2 DEF PackageInv, ObservationsInv
    <3>3. CASE j = read + 1
      BY <1>5, <2>3, <3>1, <3>3 DEF PackageInv, ObservationsInv
    <3> QED
      BY <2>1, <3>2, <3>3
  <2>6. \A i \in Turns' : ObservationValid(Evidence.observations[i])
    BY <1>5, <2>1 DEF PackageInv, ObservationsInv
  <2>7. ObservationsInv'
    BY <1>2, <2>1, <2>2, <2>4, <2>5, <2>6 DEF ObservationsInv
  <2>8. UsageInv'
    BY <1>1, <1>2, <1>3, <1>5, <2>1, UsageTurn
  <2> QED
    BY <1>1, <1>2, <1>5, <2>7, <2>8 DEF PackageInv
<1> QED
  BY <1>4, <1>5 DEF CheckObservation

\* A package nobody has read yet owes nothing.
LEMMA UnreadPackage ==
  package \in DOMAIN Packages /\ read = 0 /\ usage = <<>> => ObservationsInv /\ UsageInv
<1> SUFFICES ASSUME package \in DOMAIN Packages, read = 0, usage = <<>>
             PROVE  ObservationsInv /\ UsageInv
  OBVIOUS
<1>1. Len(Evidence.observations) \in Nat /\ Turns = {}
  BY PackagesAssumption DEF Evidence, Turns
<1>2. \A g : UsageOf(g).requests = 0 /\ UsageOf(g).cost = 0
  BY DEF UsageOf
<1>3. \A g : RunningSum(RequestsUnder(g))[0] = 0 /\ RunningSum(CostUnder(g))[0] = 0
  BY UnderAdds
<1>4. UsageInv
  BY <1>1, <1>2, <1>3 DEF UsageInv
<1> QED
  BY <1>1, <1>4 DEF ObservationsInv

LEMMA UnreadNext ==
  (package \in DOMAIN Packages /\ read = 0 /\ usage = <<>> => ObservationsInv /\ UsageInv)'
BY UnreadPackage, PTL

LEMMA PackageStep == PackageInv /\ [EvidenceNext]_evidenceVars => PackageInv'
<1> SUFFICES ASSUME PackageInv, [EvidenceNext]_evidenceVars PROVE PackageInv'
  OBVIOUS
<1> USE DEF PackageInv
<1>1. ASSUME UNCHANGED <<package, seals, actual, read, usage>>
      PROVE  /\ UNCHANGED <<Evidence, ObservationsInv, UsageInv, ClosuresHold>>
             /\ UNCHANGED PrerequisitesValid(Evidence)
             /\ \A gate : UNCHANGED SealHolds(gate)
             /\ UNCHANGED Claims(Evidence)
  <2>1. UNCHANGED Evidence
    BY <1>1 DEF Evidence
  <2>2. UNCHANGED ObservationsInv
    BY <1>1, <2>1 DEF ObservationsInv, Turns, TurnIds
  <2>3. UNCHANGED UsageInv
    BY <1>1, <2>1 DEF UsageInv, Turns, UsageOf, RequestsUnder, CostUnder
  <2> QED
    BY <1>1, <2>1, <2>2, <2>3 DEF ClosuresHold, SealHolds
<1>2. ASSUME verdict = "open", verdict' \in {"open", "observations"}, package' \in DOMAIN Packages,
             UNCHANGED <<actual, read, usage>>
      PROVE  PackageInv'
  <2>1. read' = 0 /\ usage' = <<>> /\ actual' = {}
    BY <1>2
  <2>2. ObservationsInv' /\ UsageInv'
    BY <1>2, <2>1, UnreadNext
  <2> QED
    BY <1>2, <2>1, <2>2
<1>3. CASE \E gate \in Gate : ExecuteGate(gate)
  BY <1>2, <1>3 DEF ExecuteGate
<1>4. CASE AmendPackage \/ BeginCheck
  BY <1>2, <1>4 DEF AmendPackage, BeginCheck
<1>5. CASE CheckObservation
  BY <1>5, ObservationTurn
<1>6. CASE UNCHANGED evidenceVars
  <2>1. UNCHANGED <<package, seals, actual, read, usage>> /\ UNCHANGED verdict
    BY <1>6 DEF evidenceVars
  <2> QED
    BY <1>1, <2>1
<1>7. CASE CheckSections
  <2>1. /\ UNCHANGED <<package, seals, actual, read, usage>> /\ verdict' \in {"closures", "refused"}
        /\ read = Len(Evidence.observations) /\ (verdict' = "closures" => PrerequisitesValid(Evidence))
    BY <1>7 DEF CheckSections
  <2> QED
    BY <1>1, <2>1
<1>8. CASE CheckClosures
  <2>1. /\ UNCHANGED <<package, seals, actual, read, usage>> /\ verdict = "closures"
        /\ verdict' = IF ClosuresHold THEN "executions" ELSE "refused"
    BY <1>8 DEF CheckClosures, ClosuresHold
  <2> QED
    BY <1>1, <2>1
<1>9. CASE AuthenticateExecutions
  <2>1. /\ UNCHANGED <<package, seals, actual, read, usage>> /\ verdict = "executions"
        /\ verdict' \in {"accepted", "refused"}
        /\ verdict' = "accepted" =>
             (\A gate \in Gate : SealHolds(gate)) /\ (\A claim \in Claims(Evidence) : ClaimHolds(claim))
    BY <1>9 DEF AuthenticateExecutions, AuthenticateJobs
  <2> QED
    BY <1>1, <2>1
<1> QED
  BY <1>3, <1>4, <1>5, <1>6, <1>7, <1>8, <1>9 DEF EvidenceNext

LEMMA PackageInit == EvidenceInit => PackageInv
<1> SUFFICES ASSUME EvidenceInit PROVE PackageInv
  OBVIOUS
<1>1. package \in DOMAIN Packages /\ read = 0 /\ usage = <<>> /\ actual = {} /\ verdict = "open"
  BY DEF EvidenceInit
<1> QED
  BY <1>1, UnreadPackage DEF PackageInv

\* Every record of an accepted package lies under a seal.
LEMMA NothingUnsealed ==
  ASSUME PackageInv, verdict = "accepted"
  PROVE  EveryRecordSealed
<1> SUFFICES ASSUME NEW r \in Evidence.present
             PROVE  \E gate \in Gate : seals[gate] # NoSeal /\ r \in Seal(Packages[seals[gate]], gate).records
  BY DEF EveryRecordSealed
<1>1. package \in DOMAIN Packages /\ ClosuresHold /\ \A gate \in Gate : SealHolds(gate)
  BY DEF PackageInv
<1>2. PICK gate \in Gate : r \in SealedRecords(Evidence, gate)
  BY <1>1, UsedIsSealed DEF ClosuresHold
<1>3. seals[gate] # NoSeal /\ Seal(Packages[seals[gate]], gate) = Seal(Evidence, gate)
  BY <1>1 DEF SealHolds
<1>4. Seal(Evidence, gate).records = SealedRecords(Evidence, gate)
  BY DEF Seal
<1> QED
  BY <1>2, <1>3, <1>4

\* The turns of a whole loop are the observations.
LEMMA AllTurns ==
  ASSUME PackageInv, read = Len(Evidence.observations), NEW o \in Range(Evidence.observations)
  PROVE  \E i \in Turns : o = Evidence.observations[i]
<1>1. DOMAIN Evidence.observations = Turns
  BY UnderAdds DEF Turns, PackageInv
<1> QED
  BY <1>1 DEF Range

LEMMA RequestsCountOnce ==
  ASSUME PackageInv, read = Len(Evidence.observations)
  PROVE  RequestsOnce
<1> SUFFICES ASSUME NEW o1 \in Range(Evidence.observations), NEW o2 \in Range(Evidence.observations),
                    RequestIds(o1) \cap RequestIds(o2) # {}
             PROVE  o1 = o2
  BY DEF RequestsOnce
<1>1. PICK i \in Turns : o1 = Evidence.observations[i]
  BY AllTurns
<1>2. PICK j \in Turns : o2 = Evidence.observations[j]
  BY AllTurns
<1>3. ~(i < j) /\ ~(j < i)
  BY <1>1, <1>2 DEF PackageInv, ObservationsInv, TurnIds
<1>4. i = j
  BY <1>3 DEF Turns
<1> QED
  BY <1>1, <1>2, <1>4

LEMMA NoGrantOverdrawn ==
  ASSUME PackageInv, read = Len(Evidence.observations)
  PROVE  GrantsKept
<1> SUFFICES ASSUME NEW o \in Range(Evidence.observations), NEW g, g = o.authorization
             PROVE  /\ RunningSum(RequestsUnder(g))[read] <= g.maxRequests
                    /\ RunningSum(CostUnder(g))[read] <= g.maxCost
  BY DEF GrantsKept
<1>1. PICK i \in Turns : o = Evidence.observations[i]
  BY AllTurns
<1>2. g \in DOMAIN usage
  BY <1>1 DEF PackageInv, UsageInv
<1>3. UsageOf(g) = usage[g]
  BY <1>2 DEF UsageOf
<1> QED
  BY <1>2, <1>3 DEF PackageInv, UsageInv

\* The rows of a closure are those of its prerequisites and of its observations.
LEMMA RowsOf ==
  ASSUME NEW c, NEW e
  PROVE  e \in Executions(c) <=>
           \/ \E r \in Prerequisites(c) :
                e = [command |-> r.command, platform |-> r.platform, job |-> r.job, at |-> r.executed]
           \/ \E o \in Observations(c) : \E k \in o.commands :
                e = [command |-> k, platform |-> o.platform, job |-> o.job, at |-> RequestStart(o, k)]
BY DEF Executions

LEMMA KindsOfAll ==
  ASSUME NEW rows, NEW kind, rows \in Seq({r \in Range(rows) : r.kind = kind}), NEW row \in Range(rows)
  PROVE  row.kind = kind
<1>1. PICK i \in DOMAIN rows : row = rows[i]
  BY DEF Range
<1>2. rows[i] \in {r \in Range(rows) : r.kind = kind}
  BY <1>1
<1> QED
  BY <1>1, <1>2

LEMMA MinIsLeast ==
  ASSUME NEW S \in SUBSET Nat, NEW t \in S
  PROVE  Min(S) \in S /\ Min(S) <= t
<1>1. \E n \in S : \A m \in S : n <= m
  BY LeastOfNaturals
<1> QED
  BY <1>1 DEF Min

\* What the closure of the browser shows: on a platform one job, whose rows are the
\* local prerequisites and the remote smokes.
LEMMA SmokesAreInOrder ==
  ASSUME PackageInv, verdict = "accepted", "render-installable" \in External
  PROVE  SmokesInOrder
<1> DEFINE id == "render-installable"
           obs == Evidence.observations
<1>1. /\ package \in DOMAIN Packages /\ ClosuresHold /\ read = Len(obs) /\ PrerequisitesValid(Evidence)
      /\ \A i \in Turns : ObservationValid(obs[i])
      /\ \A claim \in Claims(Evidence) : ClaimHolds(claim)
  BY DEF PackageInv, ObservationsInv
<1>2. \A o \in Range(obs) : ObservationValid(o)
  BY <1>1, AllTurns
<1>3. PICK c \in Evidence.closures[id] : ClosureValid(Evidence, id, c)
  <2>1. id \in Capability \ {Distribution}
    BY DEF Capability, Distribution
  <2> QED
    BY <1>1, <2>1 DEF ClosuresHold
<1>4. c.observations \subseteq Range(obs) \cup Range(Evidence.prerequisites) /\ JointlyProven(id, c)
  BY <1>3 DEF ClosureValid
<1>5. /\ \A r \in Range(Evidence.prerequisites) : r.kind = "capability_prerequisite" /\ r.executed \in Nat
      /\ \A o \in Range(obs) : /\ o.kind = "live_observation"
                                /\ \A q \in o.normalized.requests : q.at \in Nat
  <2>1. PICK p : p = Evidence
    OBVIOUS
  <2>2. /\ p.observations \in Seq({o \in Range(p.observations) : o.kind = "live_observation"})
        /\ p.prerequisites \in Seq({r \in Range(p.prerequisites) : r.kind = "capability_prerequisite"})
        /\ \A r \in Range(p.prerequisites) : r.executed \in Nat
        /\ \A o \in Range(p.observations) : \A q \in o.normalized.requests : q.at \in Nat
    BY <1>1, <2>1, PackagesAssumption, Zenon DEF Evidence
  <2>3. \A r \in Range(p.prerequisites) : r.kind = "capability_prerequisite"
    BY <2>2, KindsOfAll
  <2>4. \A o \in Range(p.observations) : o.kind = "live_observation"
    BY <2>2, KindsOfAll
  <2> QED
    BY <2>1, <2>2, <2>3, <2>4
<1>6. Prerequisites(c) \subseteq Range(Evidence.prerequisites) /\ Observations(c) \subseteq Range(obs)
  BY <1>4, <1>5 DEF Prerequisites, Observations
<1>7. RenderJoint(c) /\ \A o \in Observations(c) : o.commands \subseteq Remote(id)
  BY <1>4 DEF JointlyProven
<1> HIDE DEF id
<1> SUFFICES ASSUME NEW platform \in {"ubuntu", "windows"}
             PROVE  \E job \in DOMAIN ProducerJobs,
                       i \in {r \in Range(Evidence.prerequisites) : r.platform = platform /\ r.command = "browser.install"},
                       h \in {r \in Range(Evidence.prerequisites) : r.platform = platform /\ r.command = "render.health"} :
                      /\ ProducerJobs[job].succeeded /\ ProducerJobs[job].platform = platform
                      /\ i.job = job /\ h.job = job /\ i.executed <= h.executed
                      /\ \E o \in {x \in Range(obs) : x.platform = platform
                                       /\ x.commands \cap {"render.page", "render.screenshot"} # {}} :
                            o.job = job /\ \A q \in o.normalized.requests : h.executed <= q.at
  BY DEF SmokesInOrder
<1> DEFINE on == {e \in Executions(c) : e.platform = platform}
<1>8. /\ {e.command : e \in on} = {"browser.install", "render.health", "render.page", "render.screenshot"}
      /\ \A e, f \in on : e.job = f.job
      /\ \A i, h, s \in on :
           i.command = "browser.install" /\ h.command = "render.health" /\ s.command \notin {"browser.install", "render.health"}
             => i.at <= h.at /\ h.at <= s.at
  BY <1>7 DEF RenderJoint
<1>9. ASSUME NEW e \in on, e.command \in {"browser.install", "render.health"}
      PROVE  \E r \in Range(Evidence.prerequisites) :
               r.platform = platform /\ r.command = e.command /\ r.job = e.job /\ r.executed = e.at
  <2>1. CASE \E r \in Prerequisites(c) :
               e = [command |-> r.command, platform |-> r.platform, job |-> r.job, at |-> r.executed]
    BY <1>6, <2>1
  <2>2. CASE \E o \in Observations(c) : \E k \in o.commands :
               e = [command |-> k, platform |-> o.platform, job |-> o.job, at |-> RequestStart(o, k)]
    BY <1>7, <1>9, <2>2 DEF Remote, id
  <2> QED
    BY <2>1, <2>2, RowsOf
<1>10. ASSUME NEW e \in on, e.command = "render.page"
       PROVE  \E o \in Observations(c) :
                o.platform = platform /\ o.job = e.job /\ "render.page" \in o.commands
  <2>1. CASE \E r \in Prerequisites(c) :
               e = [command |-> r.command, platform |-> r.platform, job |-> r.job, at |-> r.executed]
    BY <1>1, <1>6, <1>10, <2>1 DEF PrerequisitesValid, Local
  <2>2. CASE \E o \in Observations(c) : \E k \in o.commands :
               e = [command |-> k, platform |-> o.platform, job |-> o.job, at |-> RequestStart(o, k)]
    BY <1>10, <2>2
  <2> QED
    BY <2>1, <2>2, RowsOf
<1>11. ASSUME NEW o \in Observations(c), o.platform = platform, NEW q \in o.normalized.requests
       PROVE  \E s \in on : s.command \in {"render.page", "render.screenshot"} /\ s.at <= q.at /\ s.at \in Nat
  <2> DEFINE times == {x.at : x \in {y \in o.normalized.requests : y.command = q.command}}
             s == [command |-> q.command, platform |-> o.platform, job |-> o.job, at |-> RequestStart(o, q.command)]
  <2>1. q.command \in o.commands
    BY <1>2, <1>6 DEF ObservationValid
  <2>2. q.command \in {"render.page", "render.screenshot"}
    BY <1>7, <2>1 DEF Remote, id
  <2>3. times \in SUBSET Nat /\ q.at \in times
    BY <1>5, <1>6
  <2>4. s.at \in Nat /\ s.at <= q.at
    <3>1. s.at = Min(times)
      BY DEF RequestStart
    <3> HIDE DEF times, s
    <3> QED
      BY <2>3, <3>1, MinIsLeast
  <2>5. s \in on
    BY <1>11, <2>1, RowsOf
  <2> QED
    BY <2>2, <2>4, <2>5
<1>12. PICK e1 \in on, e2 \in on, e3 \in on :
         e1.command = "browser.install" /\ e2.command = "render.health" /\ e3.command = "render.page"
  BY <1>8
<1>13. e1.job = e2.job /\ e2.job = e3.job
  BY <1>8, <1>12
<1> HIDE DEF on
<1>14. PICK i \in Range(Evidence.prerequisites) :
         i.platform = platform /\ i.command = "browser.install" /\ i.job = e1.job /\ i.executed = e1.at
  BY <1>9, <1>12
<1>15. PICK h \in Range(Evidence.prerequisites) :
         h.platform = platform /\ h.command = "render.health" /\ h.job = e2.job /\ h.executed = e2.at
  BY <1>9, <1>12
<1>16. PICK o \in Observations(c) : o.platform = platform /\ o.job = e3.job /\ "render.page" \in o.commands
  BY <1>10, <1>12
<1>17. i.executed <= h.executed
  BY <1>8, <1>12, <1>14, <1>15
<1>18. ASSUME NEW q \in o.normalized.requests PROVE h.executed <= q.at
  <2>1. PICK s \in on : s.command \in {"render.page", "render.screenshot"} /\ s.at <= q.at /\ s.at \in Nat
    BY <1>11, <1>16
  <2>2. h.executed <= s.at
    BY <1>8, <1>12, <1>15, <2>1
  <2>3. h.executed \in Nat /\ q.at \in Nat
    BY <1>5, <1>6, <1>16
  <2> QED
    BY <2>1, <2>2, <2>3
<1>19. /\ i.job \in DOMAIN ProducerJobs
       /\ ProducerJobs[i.job].succeeded /\ ProducerJobs[i.job].platform = platform
  <2>1. [job |-> i.job, platform |-> i.platform, at |-> i.executed] \in Claims(Evidence)
    BY <1>14 DEF Claims
  <2> QED
    BY <1>1, <1>14, <2>1 DEF ClaimHolds
<1>20. o \in Range(obs) /\ o.commands \cap {"render.page", "render.screenshot"} # {}
  BY <1>6, <1>16
<1> QED
  BY <1>13, <1>14, <1>15, <1>16, <1>17, <1>18, <1>19, <1>20

\* What an accepted package shows was sealed by its producers, whoever changed it
\* between them, and was permitted, paid for and done in order
\* (publication_evidence.py:58-74, 94-131, 308; publication_evidence_records.py:165-220;
\* publication_prerequisites.py:142-204).
THEOREM NothingIsSlippedIn == EvidenceSpec => []AcceptedIsSealed
<1>1. PackageInv => AcceptedIsSealed
  <2> SUFFICES ASSUME PackageInv, verdict = "accepted"
               PROVE  /\ EveryRecordSealed /\ RequestsOnce /\ GrantsKept
                      /\ "render-installable" \in External => SmokesInOrder
    BY DEF AcceptedIsSealed
  <2>1. read = Len(Evidence.observations)
    BY DEF PackageInv
  <2> QED
    BY <2>1, NothingUnsealed, RequestsCountOnce, NoGrantOverdrawn, SmokesAreInOrder
<1> QED
  BY <1>1, PackageInit, PackageStep, PTL DEF EvidenceSpec
=============================================================================
