---------------------------- MODULE CaptureProofs ----------------------------
(***************************************************************************)
(* What a report says of what is outside, for any callers, sizes, numbers   *)
(* of attempts and of changes by others: a rendering was read whole, a      *)
(* report on the controls at GitHub is true of what nobody has changed      *)
(* since the capture began, what a provider takes in was confirmed, and a   *)
(* Google read that says "ok" has everything that was asked.  And what the  *)
(* rules of an audit make of what was read, whatever it is: a configuration *)
(* of consent, canonical annotations, a robots file, a whole crawl.  The    *)
(* five components share no state.                                          *)
(***************************************************************************)
EXTENDS PageCapture, GithubControls, ProviderCalls, GoogleData, SiteRules, FiniteSetTheorems, SequenceTheorems,
  WellFoundedInduction, TLAPS

-----------------------------------------------------------------------------
(* Renderings.                                                              *)

Stages == {"asked", "fetching", "health", "entering", "visiting", "reading", "asking", "leaving",
           "writing", "filling", "replacing", "done"}

CaptureTypeOK ==
  /\ captureStage \in [Capturers -> Stages]
  /\ Capturers = DOMAIN rawRead /\ Capturers = DOMAIN held /\ Capturers = DOMAIN taken
  /\ Capturers = DOMAIN captureAnswer
  /\ tempInode \in [Outputs -> Capturers \cup {NoInode}]
  /\ imageInode \in [Outputs -> Capturers \cup {NoInode, "earlier"}]
  /\ writesTo \in [Capturers -> Capturers \cup {NoInode}]
  /\ cutInodes \subseteq Capturers
  /\ captureCall \in CaptureCalls
  /\ \A c \in Capturers : captureStage[c] # "done" => captureCall[c] # NoCall

-----------------------------------------------------------------------------
(* One caller: what it has read, and what it may say of it.                 *)

\* Everything was read, nothing raised, and nothing was read too late.
ReadWhole(c) == taken[c] = Wanted(captureCall[c]) /\ c \notin broken /\ c \notin takenLate

Reading(c) ==
  /\ captureStage[c] = "asking" => taken[c] = Wanted(captureCall[c])
  /\ captureStage[c] = "leaving" =>
       c \in broken \/ (taken[c] = Wanted(captureCall[c]) /\ c \notin takenLate)
  /\ captureStage[c] \in {"writing", "filling", "replacing"} =>
       ReadWhole(c) /\ held[c] = <<>>
  /\ captureStage[c] = "fetching" => Face(c) = "evidence"

Saying(c) ==
  /\ captureStage[c] # "done" => captureAnswer[c].status # "ok"
  /\ captureAnswer[c].status = "ok" /\ Face(c) # "health" =>
       \/ captureAnswer[c].claims = {} /\ Face(c) = "evidence" /\ rawRead[c].html
       \/ captureAnswer[c].claims = Wanted(captureCall[c]) /\ ReadWhole(c) /\ held[c] = <<>>
  /\ captureAnswer[c].status = "ok" /\ Face(c) = "screenshot" =>
       imageInode[Output(c)] \in Capturers

CallerInv ==
  /\ takenLate \subseteq exceeded
  /\ \A c \in Capturers : Reading(c) /\ Saying(c)

-----------------------------------------------------------------------------
(* The directory: which file a name stands for, and who writes it.          *)

\* A file is made by one caller for its output, and stays a file of that output.
OwnNames(f, i) ==
  i \in Capturers => Output(i) = f /\ captureStage[i] \in {"filling", "replacing", "done"}

Names ==
  \A f \in Outputs :
    /\ OwnNames(f, tempInode[f]) /\ OwnNames(f, imageInode[f])
    /\ tempInode[f] \in Capturers => tempInode[f] # imageInode[f]

Writers ==
  \A c \in Capturers :
    Writing(c) =>
      /\ writesTo[c] \in Capturers /\ Output(writesTo[c]) = Output(c)
      /\ Output(c) \notin contended =>
           /\ \A d \in Capturers \ {c} : Writing(d) => Output(d) # Output(c)
           /\ tempInode[Output(c)] = writesTo[c]
           /\ captureStage[c] = "replacing" => writesTo[c] \notin cutInodes

Images == \A f \in Outputs \ contended : imageInode[f] \notin cutInodes

DirectoryInv == Names /\ Writers /\ Images

CaptureInv == CaptureTypeOK /\ CallerInv /\ DirectoryInv
-----------------------------------------------------------------------------
(* Outputs and stages.                                                      *)

LEMMA OutputIsOne ==
  ASSUME CaptureTypeOK, NEW c \in Capturers, captureStage[c] # "done"
  PROVE  Output(c) \in Outputs
<1>1. captureCall[c] \in {captureCall[d] : d \in Capturers} /\ captureCall[c] # NoCall
  BY DEF CaptureTypeOK
<1>2. {captureCall[d] : d \in Capturers} \in {{calls[d] : d \in Capturers} : calls \in CaptureCalls}
  BY DEF CaptureTypeOK
<1>3. captureCall[c] \in KnownCalls \ {NoCall}
  BY <1>1, <1>2 DEF KnownCalls
<1> QED
  BY <1>3 DEF Output, Outputs

LEMMA CaptureTypeStep ==
  ASSUME CaptureTypeOK, [CaptureNext]_captureVars
  PROVE  CaptureTypeOK'
<1> USE DEF CaptureTypeOK, Stages
<1> DEFINE Stepped(c, to) == captureStage[c] # "done" /\ captureStage' = [captureStage EXCEPT ![c] = to]
           StagesOK == /\ captureStage' \in [Capturers -> Stages]
                       /\ \A d \in Capturers : captureStage'[d] # "done" => captureCall'[d] # NoCall
           Quiet == UNCHANGED <<captureCall, directoryVars>>
           Domains == /\ Capturers = DOMAIN rawRead' /\ Capturers = DOMAIN held'
                      /\ Capturers = DOMAIN taken' /\ Capturers = DOMAIN captureAnswer'
<1>0. ASSUME NEW c \in Capturers, NEW to \in Stages, Stepped(c, to), UNCHANGED captureCall PROVE StagesOK
  BY <1>0
<1>1. ASSUME NEW c \in Capturers, RefuseCall(c) \/ AcceptCall(c) \/ ReadRaw(c) \/ CheckHealth(c)
      PROVE  CaptureTypeOK'
  BY <1>1, <1>0 DEF RefuseCall, AcceptCall, ReadRaw, CheckHealth, CaptureStep, AnswerCapture, renderVars, directoryVars
<1>2. ASSUME NEW c \in Capturers, EnterScope(c) \/ VisitPage(c) \/ ReadPart(c) \/ AssertBudget(c) \/ PassBudget(c) \/ LeaveScope(c)
      PROVE  CaptureTypeOK'
  BY <1>2, <1>0 DEF EnterScope, VisitPage, ReadPart, AssertBudget, PassBudget, LeaveScope, Break, CaptureStep, renderVars, directoryVars
<1>3. ASSUME NEW c \in Capturers, ConcludeRendering(c) \/ ConcludeScreenshot(c) \/ LoseTemporary(c) \/ EndCapturer(c)
      PROVE  CaptureTypeOK'
  BY <1>3, <1>0 DEF ConcludeRendering, ConcludeScreenshot, LoseTemporary, EndCapturer, CaptureStep, AnswerCapture, renderVars, directoryVars
<1>4. ASSUME NEW c \in Capturers, OpenTemporary(c) PROVE CaptureTypeOK'
  <2>1. Output(c) \in Outputs /\ captureStage[c] # "done"
    BY <1>4, OutputIsOne DEF OpenTemporary, CaptureStep
  <2>2. StagesOK
    BY <1>4, <1>0, <2>1 DEF OpenTemporary, CaptureStep
  <2> DEFINE inode == IF tempInode[Output(c)] = NoInode THEN c ELSE tempInode[Output(c)]
  <2>3. /\ inode \in Capturers
        /\ tempInode' = [tempInode EXCEPT ![Output(c)] = inode]
        /\ writesTo' = [writesTo EXCEPT ![c] = inode]
        /\ cutInodes' = cutInodes \cup {inode}
    BY <1>4, <2>1 DEF OpenTemporary
  <2> HIDE DEF inode
  <2>4. /\ tempInode' \in [Outputs -> Capturers \cup {NoInode}]
        /\ writesTo' \in [Capturers -> Capturers \cup {NoInode}]
        /\ cutInodes' \subseteq Capturers
    BY <2>1, <2>3
  <2> QED
    BY <1>4, <2>2, <2>4 DEF OpenTemporary, renderVars
<1>5. ASSUME NEW c \in Capturers, FillTemporary(c) PROVE CaptureTypeOK'
  BY <1>5, <1>0 DEF FillTemporary, CaptureStep, renderVars
<1>6. ASSUME NEW c \in Capturers, ReplaceImage(c) PROVE CaptureTypeOK'
  BY <1>6, <1>0, OutputIsOne DEF ReplaceImage, AnswerCapture, CaptureStep, renderVars
<1>7. CASE UNCHANGED captureVars
  BY <1>7 DEF captureVars, renderVars, directoryVars
<1> QED
  BY <1>1, <1>2, <1>3, <1>4, <1>5, <1>6, <1>7 DEF CaptureNext

-----------------------------------------------------------------------------
(* What a caller may say.                                                   *)

LEMMA SaidIsWanted == ASSUME NEW call PROVE SaidVerified(call) = Wanted(call)
  BY DEF SaidVerified, Wanted
LEMMA CallerStep ==
  ASSUME CaptureTypeOK, CaptureTypeOK', CallerInv, [CaptureNext]_captureVars
  PROVE  CallerInv'
<1> USE DEF CallerInv, Reading, Saying, ReadWhole, CaptureTypeOK
<1>1. ASSUME NEW c \in Capturers, RefuseCall(c) \/ AcceptCall(c) PROVE CallerInv'
  BY <1>1 DEF RefuseCall, AcceptCall, CaptureStep, AnswerCapture, Face, renderVars, directoryVars, Output
<1>2. ASSUME NEW c \in Capturers, ReadRaw(c) PROVE CallerInv'
  <2>1. Face(c) = "evidence"
    BY <1>2 DEF ReadRaw, CaptureStep, AnswerCapture
  <2>2. UNCHANGED <<captureCall, held, exceeded, taken, takenLate, broken, imageInode>>
    BY <1>2 DEF ReadRaw, renderVars, directoryVars
  <2>3. captureStage[c] = "fetching" /\ \E to \in {"entering", "done"} : captureStage' = [captureStage EXCEPT ![c] = to]
    BY <1>2 DEF ReadRaw, CaptureStep, AnswerCapture
  <2>4. \A d \in Capturers : d # c => captureAnswer'[d] = captureAnswer[d] /\ rawRead'[d] = rawRead[d]
    BY <1>2 DEF ReadRaw, CaptureStep, AnswerCapture
  <2>5. captureAnswer'[c].status = "ok" =>
          captureStage'[c] = "done" /\ captureAnswer'[c].claims = {} /\ rawRead'[c].html
    <3>1. CASE AnswerCapture(c, "fetching", "not_configured", {})
      BY <3>1 DEF AnswerCapture
    <3>2. CASE ~AnswerCapture(c, "fetching", "not_configured", {})
      <4> PICK raw \in RawReads :
            /\ rawRead' = [rawRead EXCEPT ![c] = raw]
            /\ \/ AnswerCapture(c, "fetching", IF raw.html /\ ~raw.warned THEN "ok" ELSE "partial", {})
               \/ AnswerCapture(c, "fetching", "partial", {})
               \/ UNCHANGED captureAnswer
        BY <1>2, <3>2 DEF ReadRaw
      <4>1. rawRead'[c].html = raw.html
        OBVIOUS
      <4>2. CASE UNCHANGED captureAnswer
        BY <4>2, <2>3
      <4>3. CASE AnswerCapture(c, "fetching", "partial", {})
        BY <4>3 DEF AnswerCapture
      <4>4. CASE AnswerCapture(c, "fetching", IF raw.html /\ ~raw.warned THEN "ok" ELSE "partial", {})
        BY <4>4, <4>1 DEF AnswerCapture, CaptureStep
      <4> QED
        BY <4>2, <4>3, <4>4
    <3> QED
      BY <3>1, <3>2
  <2>6. \A d \in Capturers : Reading(d)'
    BY <2>2, <2>3, <2>1 DEF Face
  <2>7. \A d \in Capturers : Saying(d)'
    <3> SUFFICES ASSUME NEW d \in Capturers PROVE Saying(d)'
      OBVIOUS
    <3>1. CASE d = c
      BY <3>1, <2>1, <2>2, <2>5 DEF Face, Output
    <3>2. CASE d # c
      BY <3>2, <2>2, <2>3, <2>4 DEF Face, Output
    <3> QED
      BY <3>1, <3>2
  <2> QED
    BY <2>2, <2>6, <2>7
<1>3. ASSUME NEW c \in Capturers, CheckHealth(c) PROVE CallerInv'
  BY <1>3 DEF CheckHealth, CaptureStep, AnswerCapture, Face, renderVars, directoryVars, Output
<1>4. ASSUME NEW c \in Capturers, EnterScope(c) \/ VisitPage(c) PROVE CallerInv'
  <2>1. CASE Break(c, "entering") \/ VisitPage(c)
    BY <2>1 DEF VisitPage, Break, CaptureStep, Face, renderVars, directoryVars, Output
  <2>2. CASE ~Break(c, "entering") /\ ~VisitPage(c)
    <3> PICK to \in {"visiting", "entering"}, entered \in {Append(held[c], Scopes[Len(held[c]) + 1])} :
          /\ CaptureStep(c, "entering", to)
          /\ held' = [held EXCEPT ![c] = entered]
          /\ UNCHANGED <<captureCall, rawRead, captureAnswer, exceeded, taken, takenLate, broken, directoryVars>>
      BY <1>4, <2>2 DEF EnterScope
    <3> QED
      BY DEF CaptureStep, Face, directoryVars, Output
  <2> QED
    BY <2>1, <2>2
<1>5. ASSUME NEW c \in Capturers, ReadPart(c) PROVE CallerInv'
  <2>1. CASE Break(c, "reading")
    BY <2>1 DEF Break, CaptureStep, Face, renderVars, directoryVars, Output
  <2>2. CASE ~Break(c, "reading")
    <3> DEFINE read == taken[c] \cup {NextPart(c)}
    <3>1. /\ CaptureStep(c, "reading", IF read = Wanted(captureCall[c]) THEN "asking" ELSE "reading")
          /\ taken' = [taken EXCEPT ![c] = read]
          /\ takenLate' = takenLate \cup ({c} \cap exceeded)
          /\ UNCHANGED <<captureCall, rawRead, captureAnswer, held, exceeded, broken, imageInode>>
      BY <1>5, <2>2 DEF ReadPart, directoryVars
    <3> HIDE DEF read
    <3>2. takenLate' \subseteq exceeded'
      BY <3>1
    <3>3. \A d \in Capturers : Reading(d)'
      BY <3>1 DEF CaptureStep, Face
    <3>4. \A d \in Capturers : Saying(d)'
      BY <3>1 DEF CaptureStep, Face, Output
    <3> QED
      BY <3>2, <3>3, <3>4
  <2> QED
    BY <2>1, <2>2
<1>6. ASSUME NEW c \in Capturers, AssertBudget(c) \/ PassBudget(c) PROVE CallerInv'
  BY <1>6 DEF AssertBudget, PassBudget, Break, CaptureStep, Face, renderVars, directoryVars, Output
<1>7. ASSUME NEW c \in Capturers, LeaveScope(c) PROVE CallerInv'
  BY <1>7 DEF LeaveScope, Face, renderVars, directoryVars, Output
<1>8. ASSUME NEW c \in Capturers, ConcludeRendering(c) PROVE CallerInv'
  BY <1>8, SaidIsWanted DEF ConcludeRendering, CaptureStep, AnswerCapture, Face, renderVars, directoryVars, Output
<1>9. ASSUME NEW c \in Capturers, ConcludeScreenshot(c) PROVE CallerInv'
  BY <1>9 DEF ConcludeScreenshot, CaptureStep, AnswerCapture, Face, renderVars, directoryVars, Output
<1>10. ASSUME NEW c \in Capturers, OpenTemporary(c) \/ FillTemporary(c) PROVE CallerInv'
  BY <1>10 DEF OpenTemporary, FillTemporary, CaptureStep, Face, renderVars, Output
<1>11. ASSUME NEW c \in Capturers, ReplaceImage(c) PROVE CallerInv'
  BY <1>11, SaidIsWanted, OutputIsOne DEF ReplaceImage, CaptureStep, AnswerCapture, Face, renderVars, Output
<1>12. ASSUME NEW c \in Capturers, LoseTemporary(c) \/ EndCapturer(c) PROVE CallerInv'
  BY <1>12 DEF LoseTemporary, EndCapturer, CaptureStep, AnswerCapture, Face, renderVars, directoryVars, Output
<1>13. CASE UNCHANGED captureVars
  BY <1>13 DEF captureVars, renderVars, directoryVars, Face, Output
<1> QED
  BY <1>1, <1>2, <1>3, <1>4, <1>5, <1>6, <1>7, <1>8, <1>9, <1>10, <1>11, <1>12, <1>13 DEF CaptureNext
-----------------------------------------------------------------------------
(* What stands in the directory.                                            *)

\* A caller that is not writing, or that leaves off, disturbs nothing.
LEMMA DirectoryRests ==
  ASSUME CaptureTypeOK, DirectoryInv, UNCHANGED <<captureCall, directoryVars>>,
         NEW c \in Capturers, NEW to \in Stages,
         captureStage[c] # "done", captureStage' = [captureStage EXCEPT ![c] = to],
         to \notin {"filling", "replacing"},
         captureStage[c] \in {"filling", "replacing"} => to = "done"
  PROVE  DirectoryInv'
<1> USE DEF CaptureTypeOK, directoryVars
<1>1. \A f, i : OwnNames(f, i) => OwnNames(f, i)'
  BY DEF OwnNames, Output
<1>2. Names'
  BY <1>1 DEF DirectoryInv, Names
<1>3. \A d \in Capturers : Writing(d)' => Writing(d) /\ captureStage'[d] = captureStage[d]
  BY DEF Writing
<1>4. Writers'
  BY <1>3 DEF DirectoryInv, Writers, Output
<1>5. Images'
  BY DEF DirectoryInv, Images, Outputs
<1> QED
  BY <1>2, <1>4, <1>5 DEF DirectoryInv

LEMMA OpenKeepsDirectory ==
  ASSUME CaptureTypeOK, DirectoryInv, NEW c \in Capturers, OpenTemporary(c)
  PROVE  DirectoryInv'
<1> USE DEF CaptureTypeOK
<1> PICK F : F = Output(c)
  OBVIOUS
<1> PICK inode : inode = IF tempInode[F] = NoInode THEN c ELSE tempInode[F]
  OBVIOUS
<1> DEFINE StillOwned(f, i) ==
             i \in Capturers => Output(i) = f /\ captureStage'[i] \in {"filling", "replacing", "done"}
<1>1. F \in Outputs /\ captureStage[c] = "writing"
  BY OutputIsOne DEF OpenTemporary, CaptureStep
<1>2. /\ captureStage' = [captureStage EXCEPT ![c] = "filling"]
      /\ tempInode' = [tempInode EXCEPT ![F] = inode]
      /\ writesTo' = [writesTo EXCEPT ![c] = inode]
      /\ cutInodes' = cutInodes \cup {inode}
      /\ contended' = contended \cup {Output(c) : d \in {d \in Capturers \ {c} : Writing(d) /\ Output(d) = Output(c)}}
      /\ UNCHANGED <<captureCall, imageInode>>
  BY DEF OpenTemporary, CaptureStep
<1>3. contended \subseteq contended' /\ contended' \subseteq contended \cup {F}
  BY <1>2
<1>4. F \notin contended' => \A d \in Capturers \ {c} : Writing(d) => Output(d) # F
  BY <1>2
<1>5. \A d \in Capturers : Output(d)' = Output(d)
  BY <1>2 DEF Output
\* No name stands for a file of the caller before it has made one.
<1>6. \A f \in Outputs : tempInode[f] # c /\ imageInode[f] # c
  BY <1>1 DEF DirectoryInv, Names, OwnNames
<1>7. /\ inode \in Capturers /\ Output(inode) = F /\ inode # imageInode[F]
      /\ inode = c \/ inode = tempInode[F]
  BY <1>1, <1>6 DEF DirectoryInv, Names, OwnNames
<1>8. \A f \in Outputs : f # F => tempInode[f] # inode /\ imageInode[f] # inode
  BY <1>1, <1>6, <1>7 DEF DirectoryInv, Names, OwnNames
<1>9. Names'
  <2>1. \A f, i : OwnNames(f, i) => StillOwned(f, i)
    BY <1>1, <1>2, <1>5 DEF OwnNames
  <2>2. StillOwned(F, inode)
    BY <1>1, <1>2, <1>5, <1>7, <2>1 DEF OwnNames, DirectoryInv, Names
  <2> SUFFICES ASSUME NEW f \in Outputs
               PROVE  /\ StillOwned(f, tempInode'[f]) /\ StillOwned(f, imageInode'[f])
                      /\ tempInode'[f] \in Capturers => tempInode'[f] # imageInode'[f]
    BY <1>2 DEF Names, OwnNames, Output, Outputs
  <2>3. CASE f = F
    BY <2>1, <2>2, <2>3, <1>1, <1>2, <1>7 DEF DirectoryInv, Names
  <2>4. CASE f # F
    BY <2>1, <2>4, <1>1, <1>2 DEF DirectoryInv, Names
  <2> QED
    BY <2>3, <2>4
<1>10. Writers'
  <2> SUFFICES ASSUME NEW d \in Capturers, Writing(d)'
               PROVE  /\ writesTo'[d] \in Capturers /\ Output(writesTo'[d]) = Output(d)
                      /\ Output(d) \notin contended' =>
                           /\ \A e \in Capturers \ {d} : Writing(e)' => Output(e) # Output(d)
                           /\ tempInode'[Output(d)] = writesTo'[d]
                           /\ captureStage'[d] = "replacing" => writesTo'[d] \notin cutInodes'
    BY <1>5 DEF Writers, Output
  <2>1. \A e \in Capturers : e # c => Writing(e)' = Writing(e)
    BY <1>2 DEF Writing
  <2>2. CASE d = c
    <3>1. writesTo'[d] = inode /\ tempInode'[Output(d)] = inode /\ captureStage'[d] = "filling"
      BY <2>2, <1>1, <1>2
    <3>2. Output(d) \notin contended' => \A e \in Capturers \ {d} : Writing(e)' => Output(e) # Output(d)
      BY <2>1, <2>2, <1>4
    <3> QED
      BY <3>1, <3>2, <2>2, <1>7
  <2>3. CASE d # c
    <3>1. /\ Writing(d) /\ writesTo'[d] = writesTo[d] /\ captureStage'[d] = captureStage[d]
          /\ writesTo[d] \in Capturers /\ Output(writesTo[d]) = Output(d)
      BY <2>1, <2>3, <1>2 DEF DirectoryInv, Writers
    <3>2. ASSUME Output(d) \notin contended'
          PROVE  /\ \A e \in Capturers \ {d} : Writing(e)' => Output(e) # Output(d)
                 /\ tempInode'[Output(d)] = writesTo[d]
                 /\ captureStage[d] = "replacing" => writesTo[d] \notin cutInodes'
      <4>1. Output(d) # F
        BY <3>1, <3>2, <2>3, <1>2
      <4>2. Output(d) \in Outputs
        BY <3>1, OutputIsOne DEF Writing
      <4>3. /\ \A e \in Capturers \ {d} : Writing(e) => Output(e) # Output(d)
            /\ tempInode[Output(d)] = writesTo[d]
            /\ captureStage[d] = "replacing" => writesTo[d] \notin cutInodes
        BY <3>1, <3>2, <1>3 DEF DirectoryInv, Writers
      <4>4. writesTo[d] # inode
        BY <4>1, <3>1, <1>7
      <4> QED
        BY <4>1, <4>2, <4>3, <4>4, <2>1, <1>1, <1>2
    <3> QED
      BY <3>1, <3>2
  <2> QED
    BY <2>2, <2>3
<1>11. Images'
  BY <1>2, <1>3, <1>7, <1>8 DEF DirectoryInv, Images, Outputs
<1> QED
  BY <1>9, <1>10, <1>11 DEF DirectoryInv

LEMMA FillKeepsDirectory ==
  ASSUME CaptureTypeOK, DirectoryInv, NEW c \in Capturers, FillTemporary(c)
  PROVE  DirectoryInv'
<1> USE DEF CaptureTypeOK
<1>1. /\ captureStage[c] = "filling" /\ captureStage' = [captureStage EXCEPT ![c] = "replacing"]
      /\ cutInodes' = cutInodes \ {writesTo[c]}
      /\ UNCHANGED <<captureCall, tempInode, imageInode, writesTo, contended>>
  BY DEF FillTemporary, CaptureStep
<1>2. \A d \in Capturers : Output(d)' = Output(d) /\ Writing(d)' = Writing(d)
  BY <1>1 DEF Output, Writing
<1>3. \A f, i : OwnNames(f, i) => OwnNames(f, i)'
  BY <1>1, <1>2 DEF OwnNames
<1>4. Names'
  BY <1>1, <1>3 DEF DirectoryInv, Names, Outputs
<1>5. Writers'
  BY <1>1, <1>2 DEF DirectoryInv, Writers
<1>6. Images'
  BY <1>1 DEF DirectoryInv, Images, Outputs
<1> QED
  BY <1>4, <1>5, <1>6 DEF DirectoryInv

LEMMA ReplaceKeepsDirectory ==
  ASSUME CaptureTypeOK, DirectoryInv, NEW c \in Capturers, ReplaceImage(c)
  PROVE  DirectoryInv'
<1> USE CaptureAssumption DEF CaptureTypeOK
<1> PICK F : F = Output(c)
  OBVIOUS
<1> DEFINE StillOwned(f, i) ==
             i \in Capturers => Output(i) = f /\ captureStage'[i] \in {"filling", "replacing", "done"}
<1>1. /\ captureStage[c] = "replacing" /\ F \in Outputs
      /\ captureStage' = [captureStage EXCEPT ![c] = "done"]
      /\ tempInode[F] # NoInode
      /\ imageInode' = [imageInode EXCEPT ![F] = tempInode[F]]
      /\ tempInode' = [tempInode EXCEPT ![F] = NoInode]
      /\ UNCHANGED <<captureCall, writesTo, cutInodes, contended>>
  BY OutputIsOne DEF ReplaceImage, AnswerCapture, CaptureStep
<1>2. \A d \in Capturers : Output(d)' = Output(d)
  BY <1>1 DEF Output
<1>3. \A d \in Capturers : Writing(d)' => d # c /\ Writing(d) /\ captureStage'[d] = captureStage[d]
  BY <1>1 DEF Writing
<1>4. Writing(c)
  BY <1>1 DEF Writing
<1>5. \A f, i : OwnNames(f, i) => StillOwned(f, i)
  BY <1>1, <1>2 DEF OwnNames
<1>6. Names'
  <2> SUFFICES ASSUME NEW f \in Outputs
               PROVE  /\ StillOwned(f, tempInode'[f]) /\ StillOwned(f, imageInode'[f])
                      /\ tempInode'[f] \in Capturers => tempInode'[f] # imageInode'[f]
    BY <1>1 DEF Names, OwnNames, Output, Outputs
  <2>1. CASE f = F
    <3>1. StillOwned(f, NoInode)
      OBVIOUS
    <3> QED
      BY <3>1, <2>1, <1>1, <1>5 DEF DirectoryInv, Names
  <2>2. CASE f # F
    BY <2>2, <1>1, <1>5 DEF DirectoryInv, Names
  <2> QED
    BY <2>1, <2>2
<1>7. Writers'
  <2> SUFFICES ASSUME NEW d \in Capturers, Writing(d)'
               PROVE  /\ writesTo[d] \in Capturers /\ Output(writesTo[d]) = Output(d)
                      /\ Output(d) \notin contended =>
                           /\ \A e \in Capturers \ {d} : Writing(e)' => Output(e) # Output(d)
                           /\ tempInode'[Output(d)] = writesTo[d]
                           /\ captureStage'[d] = "replacing" => writesTo[d] \notin cutInodes
    BY <1>1, <1>2 DEF Writers, Output
  <2>1. d # c /\ Writing(d) /\ captureStage'[d] = captureStage[d]
    BY <1>3
  <2>2. Output(d) \notin contended => Output(d) # F
    BY <2>1, <1>4 DEF DirectoryInv, Writers
  <2>3. Output(d) \in Outputs
    BY <2>1, OutputIsOne DEF Writing
  <2> QED
    BY <2>1, <2>2, <2>3, <1>1, <1>3 DEF DirectoryInv, Writers
<1>8. Images'
  <2>1. F \notin contended => tempInode[F] \notin cutInodes
    BY <1>1, <1>4 DEF DirectoryInv, Writers
  <2> QED
    BY <2>1, <1>1 DEF DirectoryInv, Images, Outputs
<1> QED
  BY <1>6, <1>7, <1>8 DEF DirectoryInv

LEMMA DirectoryStep ==
  ASSUME CaptureTypeOK, DirectoryInv, [CaptureNext]_captureVars
  PROVE  DirectoryInv'
<1>1. ASSUME NEW c \in Capturers,
             \/ RefuseCall(c) \/ AcceptCall(c) \/ ReadRaw(c) \/ CheckHealth(c)
             \/ EnterScope(c) \/ VisitPage(c) \/ ReadPart(c) \/ AssertBudget(c)
             \/ ConcludeRendering(c) \/ ConcludeScreenshot(c) \/ LoseTemporary(c) \/ EndCapturer(c)
      PROVE  DirectoryInv'
  <2>1. UNCHANGED <<captureCall, directoryVars>>
    BY <1>1 DEF RefuseCall, AcceptCall, ReadRaw, CheckHealth, EnterScope, VisitPage, ReadPart, AssertBudget,
                ConcludeRendering, ConcludeScreenshot, LoseTemporary, EndCapturer, Break
  <2>2. PICK to \in Stages :
          /\ captureStage[c] # "done" /\ captureStage' = [captureStage EXCEPT ![c] = to]
          /\ to \notin {"filling", "replacing"}
          /\ captureStage[c] \in {"filling", "replacing"} => to = "done"
    BY <1>1 DEF Stages, CaptureStep, AnswerCapture, Break, RefuseCall, AcceptCall, ReadRaw, CheckHealth, EnterScope,
                VisitPage, ReadPart, AssertBudget, ConcludeRendering, ConcludeScreenshot, LoseTemporary, EndCapturer
  <2> QED
    BY <2>1, <2>2, DirectoryRests
<1>2. CASE UNCHANGED <<captureCall, captureStage, directoryVars>>
  BY <1>2 DEF DirectoryInv, Names, Writers, Images, OwnNames, Writing, Output, Outputs, directoryVars
<1>3. ASSUME NEW c \in Capturers, PassBudget(c) \/ LeaveScope(c) PROVE DirectoryInv'
  BY <1>2, <1>3 DEF PassBudget, LeaveScope
<1>4. CASE UNCHANGED captureVars
  BY <1>2, <1>4 DEF captureVars
<1> QED
  BY <1>1, <1>3, <1>4, OpenKeepsDirectory, FillKeepsDirectory, ReplaceKeepsDirectory DEF CaptureNext

-----------------------------------------------------------------------------
LEMMA CaptureInitInv == CaptureInit => CaptureInv
<1> SUFFICES ASSUME CaptureInit PROVE CaptureInv
  OBVIOUS
<1> USE CaptureAssumption DEF CaptureInit
<1>1. CaptureTypeOK
  BY DEF CaptureTypeOK, Stages
<1>2. CallerInv
  BY DEF CallerInv, Reading, Saying, NotAnswered
<1>3. DirectoryInv
  BY DEF DirectoryInv, Names, Writers, Images, OwnNames, Writing
<1> QED
  BY <1>1, <1>2, <1>3 DEF CaptureInv

\* What an "ok" says is verified was read whole, in time and with nothing left open,
\* and an image it names is written to its end, for any number of callers that end
\* anywhere (src/security/browser_capture.py:100-215,
\* src/integrations/technical/browser.py:60-190).
THEOREM VerifiedWasRead == CaptureSpec => []CapturesAreWhole
<1>1. CaptureInv => CapturesAreWhole
  <2> SUFFICES ASSUME CaptureInv PROVE CapturesAreWhole
    OBVIOUS
  <2> USE CaptureAssumption DEF CaptureInv
  <2>1. ASSUME NEW c \in Capturers, captureAnswer[c].status = "ok", Face(c) # "health",
               captureAnswer[c].claims = {}
        PROVE  Face(c) = "evidence" /\ rawRead[c].html
    <3>1. Wanted(captureCall[c]) # {}
      BY DEF Wanted
    <3> QED
      BY <2>1, <3>1 DEF CallerInv, Saying
  <2>2. ASSUME NEW c \in Capturers, captureAnswer[c].status = "ok", Face(c) # "health",
               captureAnswer[c].claims # {}
        PROVE  /\ captureAnswer[c].claims \subseteq taken[c] /\ RenderingConforms(c)
               /\ c \notin broken \cup takenLate /\ held[c] = <<>>
    <3>1. captureAnswer[c].claims = Wanted(captureCall[c]) /\ ReadWhole(c) /\ held[c] = <<>>
      BY <2>2 DEF CallerInv, Saying
    <3>2. "html" \in Wanted(captureCall[c]) /\ ("image" \in Wanted(captureCall[c])) = (Face(c) = "screenshot")
      BY DEF Wanted, Face
    <3> QED
      BY <2>2, <3>1, <3>2 DEF ReadWhole, RenderingConforms
  <2>3. ASSUME NEW c \in Capturers, captureAnswer[c].status = "ok", Face(c) = "screenshot"
        PROVE  imageInode[Output(c)] \notin {NoInode, "earlier"}
    BY <2>3 DEF CallerInv, Saying
  <2>4. \A f \in Outputs \ contended : imageInode[f] \notin cutInodes
    BY DEF DirectoryInv, Images
  <2> QED
    BY <2>1, <2>2, <2>3, <2>4 DEF CapturesAreWhole
<1>2. CaptureInv /\ [CaptureNext]_captureVars => CaptureInv'
  BY CaptureTypeStep, CallerStep, DirectoryStep DEF CaptureInv
<1> QED
  BY <1>1, <1>2, CaptureInitInv, PTL DEF CaptureSpec

-----------------------------------------------------------------------------
(* The controls at GitHub: what a capture has read is there until somebody   *)
(* changes it, and what a rollback has changed is in its plan.              *)

PlanPart(n) == {Plan[i] : i \in 1..n}

ApplyInv ==
  /\ applied \in Seq(Range(Settings)) /\ Len(applied) <= Len(Plan)
  /\ \A i \in DOMAIN applied : applied[i] = Plan[i]
  /\ controlPc = "apply" => captured = <<>> /\ touched = {} /\ altered \subseteq PlanPart(Len(applied))
  /\ altered \subseteq PlanPart(Len(applied)) \cup {Plan[i] : i \in (DOMAIN Plan) \cap {Len(applied) + 1}}
  /\ Live /\ controlPc = "capture" => Len(applied) = Len(Plan)

CapturedInv ==
  /\ DOMAIN provider = Controls /\ DOMAIN captured \subseteq Controls
  /\ \A f \in DOMAIN captured : f \in touched \/ captured[f] = provider[f]
  /\ "ruleset" \in DOMAIN captured => privileged \/ ~Live

ControlsInv ==
  /\ procedure \in {"rollback", "certify"} /\ controlPc \in {"apply", "capture", "done"}
  /\ result # "none" => controlPc = "done"
  /\ ApplyInv /\ CapturedInv /\ ReceiptIsTruthful

Within(s, t) == \A i \in DOMAIN s : \E j \in DOMAIN t : t[j] = s[i]

LEMMA ConcatFields ==
  ASSUME NEW S, NEW s \in Seq(S), NEW t \in Seq(S)
  PROVE  s \o t \in Seq(S) /\ Within(s, s \o t) /\ Within(t, s \o t)
<1>1. \A i \in DOMAIN s : i \in DOMAIN (s \o t) /\ (s \o t)[i] = s[i]
  OBVIOUS
<1>2. \A i \in DOMAIN t : Len(s) + i \in DOMAIN (s \o t) /\ (s \o t)[Len(s) + i] = t[i]
  OBVIOUS
<1>3. s \o t \in Seq(S)
  OBVIOUS
<1> QED
  BY <1>1, <1>2, <1>3, Zenon DEF Within

LEMMA PlanType == Plan \in Seq(Range(Settings))
<1> DEFINE T == Range(Settings)
<1>1. DOMAIN Settings = 1..7
  BY DEF Settings
<1>a. \A i \in 1..7 : Settings[i] \in T
  BY <1>1 DEF Range
<1> HIDE DEF T
<1>b. /\ "reporting" \in T /\ "discussions" \in T /\ "alerts" \in T /\ "updates" \in T
      /\ "scanning" \in T /\ "push" \in T /\ "ruleset" \in T
  BY <1>a DEF Settings
<1>c. \A s \in T : Change(s) \in Seq(T)
  BY DEF Change
<1>2. /\ Change("reporting") \in Seq(T) /\ Change("discussions") \in Seq(T)
      /\ Change("alerts") \in Seq(T) /\ Change("updates") \in Seq(T)
      /\ Change("scanning") \in Seq(T) /\ Change("push") \in Seq(T)
      /\ Change("ruleset") \in Seq(T)
  BY <1>b, <1>c
<1>3. Plan \in Seq(T)
  BY <1>2 DEF Plan
<1> QED
  BY <1>3 DEF T

\* What the calls answer with, and what each of the judgements is made of.
LEMMA EndpointFields ==
  /\ Endpoints \in Seq(SUBSET Controls)
  /\ \A f \in {"branch", "discussions", "ruleset", "reviewers", "pull"} \cup Range(Issues) :
       \E i \in DOMAIN Endpoints : f \in Endpoints[i]
  /\ Live => \A f \in Range(Settings) \cup {"branch"} : \E i \in DOMAIN Endpoints : f \in Endpoints[i]
  /\ privileged => \E i \in DOMAIN Endpoints : "bypass" \in Endpoints[i]
<1> DEFINE F  == SUBSET Controls
           A == << IF Live THEN {"branch", "discussions", "updates", "scanning", "push"}
                           ELSE {"branch", "discussions"} >>
           B == IF Live THEN <<{"reporting"}, {"alerts"}>> ELSE <<>>
           C == << IF privileged THEN {"ruleset", "bypass"} ELSE {"ruleset"}, {"reviewers"} >>
           D == [i \in DOMAIN Issues |-> {Issues[i]}]
           E == << {"pull"} >>
<1>1. Endpoints = (((A \o B) \o C) \o D) \o E
  BY DEF Endpoints
<1>2. Settings = <<"reporting", "discussions", "alerts", "updates", "scanning", "push", "ruleset">>
  BY DEF Settings
<1>3. Range(Settings) = {"reporting", "discussions", "alerts", "updates", "scanning", "push", "ruleset"}
  <2>1. DOMAIN Settings = 1..7
    BY <1>2
  <2>2. \A i \in 1..7 : Settings[i] \in {"reporting", "discussions", "alerts", "updates", "scanning", "push", "ruleset"}
    BY <1>2
  <2>3. /\ Settings[1] = "reporting" /\ Settings[2] = "discussions" /\ Settings[3] = "alerts"
        /\ Settings[4] = "updates" /\ Settings[5] = "scanning" /\ Settings[6] = "push"
        /\ Settings[7] = "ruleset"
    BY <1>2
  <2> QED
    BY <2>1, <2>2, <2>3 DEF Range
<1>4. {"branch", "bypass", "reviewers", "pull"} \cup Range(Settings) \cup Range(Issues) \subseteq Controls
  BY DEF Controls, Restored, IssueFields
<1>5. A \in Seq(F) /\ B \in Seq(F) /\ C \in Seq(F) /\ E \in Seq(F)
  <2>1. /\ {"ruleset", "bypass"} \in F /\ {"ruleset"} \in F /\ {"reviewers"} \in F /\ {"pull"} \in F
        /\ {"reporting"} \in F /\ {"alerts"} \in F /\ {"branch", "discussions"} \in F
        /\ {"branch", "discussions", "updates", "scanning", "push"} \in F
    BY <1>3, <1>4
  <2> HIDE DEF F
  <2> QED
    BY <2>1
<1>6. D \in Seq(F)
  <2>1. Issues \in Seq(Range(Issues))
    BY ControlsAssumption DEF ControlsAssumption
  <2>2. \A i \in DOMAIN Issues : {Issues[i]} \in F
    BY <1>4 DEF Range
  <2> QED
    BY <2>1, <2>2
<1>7. /\ "branch" \in A[1] /\ "discussions" \in A[1] /\ DOMAIN A = 1..1
      /\ Live => "updates" \in A[1] /\ "scanning" \in A[1] /\ "push" \in A[1]
      /\ Live => DOMAIN B = 1..2 /\ "reporting" \in B[1] /\ "alerts" \in B[2]
      /\ DOMAIN C = 1..2 /\ "ruleset" \in C[1] /\ "reviewers" \in C[2]
      /\ privileged => "bypass" \in C[1]
      /\ DOMAIN E = 1..1 /\ "pull" \in E[1]
  OBVIOUS
<1>8. \A f \in Range(Issues) : \E i \in DOMAIN D : f \in D[i]
  BY DEF Range
<1> DEFINE AB == A \o B
           ABC == AB \o C
           ABCD == ABC \o D
<1> HIDE DEF A, B, C, D, E, F
<1>9. /\ AB \in Seq(F)
      /\ Within(A, AB)
      /\ Within(B, AB)
  BY <1>5, ConcatFields, Zenon
<1> HIDE DEF AB
<1>10. /\ ABC \in Seq(F)
       /\ Within(AB, ABC)
       /\ Within(C, ABC)
  BY <1>5, <1>9, ConcatFields, Zenon
<1> HIDE DEF ABC
<1>11. /\ ABCD \in Seq(F)
       /\ Within(ABC, ABCD)
       /\ Within(D, ABCD)
  BY <1>6, <1>10, ConcatFields, Zenon
<1> HIDE DEF ABCD
<1>12. /\ Endpoints \in Seq(F)
       /\ Within(ABCD, Endpoints)
       /\ Within(E, Endpoints)
  BY <1>1, <1>5, <1>11, ConcatFields, Zenon DEF AB, ABC, ABCD
<1>13. Within(AB, Endpoints)
  BY <1>10, <1>11, <1>12 DEF Within
<1>14. Within(A, Endpoints)
  BY <1>9, <1>13 DEF Within
<1>15. Within(B, Endpoints)
  BY <1>9, <1>13 DEF Within
<1>16. Within(C, Endpoints)
  BY <1>10, <1>11, <1>12 DEF Within
<1>17. Within(D, Endpoints)
  BY <1>11, <1>12 DEF Within
<1>18. 1 \in 1..1 /\ 1 \in 1..2 /\ 2 \in 1..2
  OBVIOUS
<1>19. \A f : (\/ f \in A[1] \/ f \in C[1] \/ f \in C[2] \/ f \in E[1]
              \/ (Live /\ (f \in B[1] \/ f \in B[2]))) =>
              \E j \in DOMAIN Endpoints : f \in Endpoints[j]
  <2>1. /\ \E j \in DOMAIN Endpoints : Endpoints[j] = A[1]
        /\ \E j \in DOMAIN Endpoints : Endpoints[j] = C[1]
        /\ \E j \in DOMAIN Endpoints : Endpoints[j] = C[2]
        /\ \E j \in DOMAIN Endpoints : Endpoints[j] = E[1]
    BY <1>7, <1>12, <1>14, <1>16, <1>18 DEF Within
  <2>2. Live => /\ \E j \in DOMAIN Endpoints : Endpoints[j] = B[1]
                /\ \E j \in DOMAIN Endpoints : Endpoints[j] = B[2]
    BY <1>7, <1>15, <1>18 DEF Within
  <2> QED
    BY <2>1, <2>2, Zenon
<1>20. \A f \in Range(Issues) : \E j \in DOMAIN Endpoints : f \in Endpoints[j]
  BY <1>8, <1>17, Zenon DEF Within
<1>21. Endpoints \in Seq(SUBSET Controls)
  BY <1>12 DEF F
<1>22. \A f \in {"branch", "discussions", "ruleset", "reviewers", "pull"} :
         \E j \in DOMAIN Endpoints : f \in Endpoints[j]
  BY <1>7, <1>19
<1>23. Live => \A f \in {"reporting", "alerts", "updates", "scanning", "push"} :
         \E j \in DOMAIN Endpoints : f \in Endpoints[j]
  BY <1>7, <1>19
<1>24. privileged => \E j \in DOMAIN Endpoints : "bypass" \in Endpoints[j]
  BY <1>7, <1>19
<1> QED
  BY <1>3, <1>20, <1>21, <1>22, <1>23, <1>24, Zenon

\* Once as many calls are made as there are, all of them are.
LEMMA AllCallsMade ==
  CallsMade = Len(Endpoints) => \A i \in DOMAIN Endpoints : Endpoints[i] \subseteq DOMAIN captured
<1> DEFINE Made == {i \in DOMAIN Endpoints : Endpoints[i] \subseteq DOMAIN captured}
<1>1. Len(Endpoints) \in Nat /\ DOMAIN Endpoints = 1..Len(Endpoints)
  BY EndpointFields
<1>2. IsFiniteSet(1..Len(Endpoints)) /\ Cardinality(1..Len(Endpoints)) = Len(Endpoints)
  <2>1. 1 \in Int /\ Len(Endpoints) \in Int
    BY <1>1
  <2>2. /\ IsFiniteSet(1..Len(Endpoints))
        /\ Cardinality(1..Len(Endpoints)) = IF 1 > Len(Endpoints) THEN 0 ELSE Len(Endpoints) - 1 + 1
    BY <2>1, FS_Interval, Zenon
  <2> QED
    BY <1>1, <2>2
<1>3. Made \subseteq 1..Len(Endpoints)
  BY <1>1
<1>4. CallsMade = Cardinality(Made)
  BY DEF CallsMade
<1> HIDE DEF Made
<1>5. Cardinality(Made) = Cardinality(1..Len(Endpoints)) => Made = 1..Len(Endpoints)
  BY <1>2, <1>3, FS_Subset
<1>6. CallsMade = Len(Endpoints) => Made = DOMAIN Endpoints
  BY <1>1, <1>2, <1>4, <1>5
<1> QED
  BY <1>6 DEF Made

\* What the last judgement compares is what the capture has read, in every field
\* the report speaks of.
LEMMA JudgedIsRead ==
  ASSUME CapturedInv, CallsMade = Len(Endpoints)
  PROVE  /\ LiveFields \subseteq DOMAIN captured
         /\ {"reviewers", "pull"} \cup Range(Issues) \subseteq DOMAIN captured
         /\ \A f \in DOMAIN captured : Composed[f] = captured[f]
<1>1. \A f : (\E i \in DOMAIN Endpoints : f \in Endpoints[i]) => f \in DOMAIN captured
  BY AllCallsMade, Zenon
<1>2. {"branch", "discussions", "ruleset", "reviewers", "pull"} \cup Range(Issues) \subseteq DOMAIN captured
  BY <1>1, EndpointFields, Zenon
<1>3. Live => Restored \subseteq DOMAIN captured
  <2>1. Live => Range(Settings) \cup {"branch"} \subseteq DOMAIN captured
    BY <1>1, EndpointFields, Zenon
  <2>2. privileged => "bypass" \in DOMAIN captured
    BY <1>1, EndpointFields, Zenon
  <2>3. Live => privileged
    BY <1>2 DEF CapturedInv
  <2> QED
    BY <2>1, <2>2, <2>3 DEF Restored
<1>4. \A f \in DOMAIN captured : Composed[f] = captured[f]
  BY DEF Composed
<1> QED
  BY <1>2, <1>3, <1>4 DEF LiveFields

LEMMA PassIsTrue ==
  ASSUME CapturedInv, ApplyInv, controlPc = "capture", CallsMade = Len(Endpoints),
         IF Live THEN MatchesBaseline(Composed) ELSE MatchesContract(Composed)
  PROVE  /\ \A f \in LiveFields \ touched : provider[f] = IF Live THEN Baseline[f] ELSE Contract[f]
         /\ ~Live =>
              /\ "reviewers" \notin touched => ~provider["reviewers"]
              /\ \A n \in Range(Issues) : {n, "pull"} \cap touched = {} => IssueFits(n, provider)
         /\ Live => applied = Plan
<1>1. \A f \in LiveFields \cup {"reviewers", "pull"} \cup Range(Issues) :
        f \notin touched => Composed[f] = provider[f]
  BY JudgedIsRead DEF CapturedInv
<1>2. LiveFields \subseteq Restored
  BY DEF LiveFields, Restored, Range, Settings
<1>3. \A f \in LiveFields \ touched : provider[f] = IF Live THEN Baseline[f] ELSE Contract[f]
  BY <1>1, <1>2 DEF MatchesBaseline, MatchesContract
<1>4. ASSUME ~Live, "reviewers" \notin touched PROVE ~provider["reviewers"]
  BY <1>1, <1>4 DEF MatchesContract
<1>5. ASSUME ~Live, NEW n \in Range(Issues), {n, "pull"} \cap touched = {} PROVE IssueFits(n, provider)
  <2>1. Composed[n] = provider[n] /\ Composed["pull"] = provider["pull"]
    BY <1>1, <1>5
  <2> QED
    BY <2>1, <1>5 DEF MatchesContract, IssueFits
<1>6. ASSUME Live PROVE applied = Plan
  BY <1>6, PlanType DEF ApplyInv
<1> QED
  BY <1>3, <1>4, <1>5, <1>6

LEMMA ControlsInitInv == ControlsInit => ControlsInv
<1> SUFFICES ASSUME ControlsInit PROVE ControlsInv
  OBVIOUS
<1> USE DEF ControlsInit
<1>1. Len(Plan) \in Nat
  BY PlanType
<1>2. ApplyInv
  <2>1. applied = <<>> /\ captured = <<>> /\ touched = {} /\ altered = {}
    OBVIOUS
  <2>2. ~(Live /\ controlPc = "capture")
    BY DEF Live
  <2> HIDE DEF ControlsInit
  <2> QED
    BY <1>1, <2>1, <2>2 DEF ApplyInv
<1>3. CapturedInv
  BY DEF CapturedInv
<1>4. ReceiptIsTruthful
  BY DEF ReceiptIsTruthful
<1> QED
  BY <1>2, <1>3, <1>4 DEF ControlsInv

LEMMA PlanStays ==
  UNCHANGED evidence => UNCHANGED Plan /\ \A n : PlanPart(n)' = PlanPart(n)
  BY DEF Plan, Change, Differs, PlanPart

\* What the rollback does.
LEMMA ApplyStepInv ==
  ASSUME ControlsInv, Apply \/ ApplyFails \/ BeginCapture
  PROVE  ApplyInv' /\ CapturedInv'
<1> USE DEF ControlsInv
<1>1. /\ controlPc = "apply" /\ captured = <<>> /\ captured' = <<>> /\ UNCHANGED <<evidence, procedure, touched>>
      /\ result' # "none" => controlPc' = "done"
  BY DEF Apply, ApplyFails, BeginCapture, Ends, ApplyInv
<1>2. CapturedInv'
  <2>1. DOMAIN provider' = Controls
    BY DEF Apply, ApplyFails, BeginCapture, Restore, CapturedInv
  <2> QED
    BY <1>1, <2>1 DEF CapturedInv
<1>3. /\ Plan' = Plan /\ Plan \in Seq(Range(Settings)) /\ (\A n : PlanPart(n)' = PlanPart(n))
      /\ Live' = Live
  BY <1>1, PlanStays, PlanType DEF Live
<1>4. applied \in Seq(Range(Settings)) /\ Len(applied) \in Nat /\ Len(Plan) \in Nat
  BY <1>3 DEF ApplyInv
<1>5. CASE Apply
  <2> DEFINE s == Plan[Len(applied) + 1]
  <2>1. s \in Range(Settings) /\ Len(applied) < Len(Plan) /\ Len(applied) + 1 \in DOMAIN Plan
    BY <1>3, <1>4, <1>5 DEF Apply
  <2>2. applied' = Append(applied, s) /\ altered' = altered \cup {s} /\ controlPc' = "apply"
    BY <1>1, <1>5 DEF Apply, Restore
  <2> HIDE DEF s
  <2>3. /\ applied' \in Seq(Range(Settings)) /\ Len(applied') = Len(applied) + 1
        /\ Len(applied') <= Len(Plan)
    BY <1>4, <2>1, <2>2
  <2>4. \A i \in DOMAIN applied' : applied'[i] = Plan[i]
    BY <1>4, <2>1, <2>2 DEF ApplyInv, s
  <2>5. altered' \subseteq PlanPart(Len(applied'))
    <3>1. altered \subseteq PlanPart(Len(applied))
      BY <1>1 DEF ApplyInv
    <3>2. PlanPart(Len(applied) + 1) = PlanPart(Len(applied)) \cup {Plan[Len(applied) + 1]}
      BY <1>4 DEF PlanPart
    <3> QED
      BY <2>2, <2>3, <3>1, <3>2 DEF s
  <2>6. ApplyInv'
    BY <1>1, <1>3, <2>2, <2>3, <2>4, <2>5 DEF ApplyInv
  <2> QED
    BY <1>2, <2>6
<1>6. CASE ApplyFails
  <2>1. /\ applied' = applied /\ controlPc' = "done" /\ Len(applied) + 1 \in DOMAIN Plan
        /\ altered' \subseteq altered \cup {Plan[Len(applied) + 1]}
    BY <1>3, <1>4, <1>6 DEF ApplyFails, Restore, Ends
  <2>2. altered' \subseteq PlanPart(Len(applied)) \cup {Plan[i] : i \in (DOMAIN Plan) \cap {Len(applied) + 1}}
    BY <1>1, <2>1 DEF ApplyInv
  <2>3. ApplyInv'
    BY <1>3, <2>1, <2>2 DEF ApplyInv
  <2> QED
    BY <1>2, <2>3
<1>7. CASE BeginCapture
  <2>1. /\ applied' = applied /\ altered' = altered /\ controlPc' = "capture"
        /\ Len(applied) = Len(Plan)
    BY <1>7 DEF BeginCapture
  <2>2. ApplyInv'
    BY <1>3, <2>1 DEF ApplyInv
  <2> QED
    BY <1>2, <2>2
<1> QED
  BY <1>5, <1>6, <1>7

\* What the capture does.
LEMMA CaptureStepInv ==
  ASSUME ControlsInv, CaptureCall \/ CaptureRefused \/ CaptureFails \/ Judge
  PROVE  ApplyInv' /\ CapturedInv'
<1> USE DEF ControlsInv
<1>1. /\ controlPc = "capture" /\ controlPc' \in {"capture", "done"}
      /\ UNCHANGED <<provider, evidence, procedure, privileged, applied, altered, touched>>
  BY DEF CaptureCall, CaptureRefused, CaptureFails, CaptureRaises, Judge, Ends
<1>2. /\ Plan' = Plan /\ (\A n : PlanPart(n)' = PlanPart(n)) /\ Live' = Live
  BY <1>1, PlanStays DEF Live
<1>3. ApplyInv'
  BY <1>1, <1>2 DEF ApplyInv
<1>4. CASE CaptureCall
  <2>1. Endpoints \in Seq(SUBSET Controls) /\ CallsMade \in Nat
    <3>1. Endpoints \in Seq(SUBSET Controls)
      BY EndpointFields
    <3>2. IsFiniteSet(1..Len(Endpoints))
      <4>1. 1 \in Int /\ Len(Endpoints) \in Int
        BY <3>1
      <4> QED
        BY <4>1, FS_Interval, Zenon
    <3>3. {i \in DOMAIN Endpoints : Endpoints[i] \subseteq DOMAIN captured} \subseteq 1..Len(Endpoints)
      BY <3>1
    <3>4. IsFiniteSet({i \in DOMAIN Endpoints : Endpoints[i] \subseteq DOMAIN captured})
      BY <3>2, <3>3, FS_Subset
    <3>5. CallsMade \in Nat
      BY <3>4, FS_CardinalityType DEF CallsMade
    <3> QED
      BY <3>1, <3>5
  <2>2. PICK fields : /\ fields \subseteq Controls /\ Complete(fields)
                      /\ captured' = [f \in DOMAIN captured \cup fields |->
                                       IF f \in DOMAIN captured THEN captured[f] ELSE provider[f]]
    <3>1. Endpoints[CallsMade + 1] \subseteq Controls
      BY <2>1, <1>4 DEF CaptureCall
    <3> QED
      BY <3>1, <1>4 DEF CaptureCall
  <2>3. CapturedInv'
    BY <1>1, <1>2, <2>2 DEF CapturedInv, Complete
  <2> QED
    BY <1>3, <2>3
<1>5. CASE CaptureRefused \/ CaptureFails \/ Judge
  <2>1. captured' = captured
    BY <1>5 DEF CaptureRefused, CaptureFails, Judge
  <2>2. CapturedInv'
    BY <1>1, <1>2, <2>1 DEF CapturedInv
  <2> QED
    BY <1>3, <2>2
<1> QED
  BY <1>4, <1>5

LEMMA MeddleStepInv ==
  ASSUME ControlsInv, Meddle
  PROVE  ApplyInv' /\ CapturedInv'
<1> USE DEF ControlsInv
<1>1. /\ controlPc # "done"
      /\ UNCHANGED <<evidence, procedure, privileged, controlPc, applied, captured, result, altered>>
  BY DEF Meddle
<1>2. PICK f \in Controls : /\ \E v : provider' = [provider EXCEPT ![f] = v]
                            /\ touched' = IF controlPc = "capture" THEN touched \cup {f} ELSE touched
  BY DEF Meddle
<1>3. /\ Plan' = Plan /\ (\A n : PlanPart(n)' = PlanPart(n)) /\ Live' = Live
  BY <1>1, PlanStays DEF Live
<1>4. ApplyInv'
  BY <1>1, <1>2, <1>3 DEF ApplyInv
<1>5. captured = <<>> \/ controlPc = "capture"
  BY <1>1 DEF ApplyInv
<1>6. CapturedInv'
  BY <1>1, <1>2, <1>3, <1>5 DEF CapturedInv
<1> QED
  BY <1>4, <1>6

LEMMA ControlsStepInv == ControlsInv /\ [ControlsNext]_controlVars => ControlsInv'
<1> SUFFICES ASSUME ControlsInv, [ControlsNext]_controlVars PROVE ControlsInv'
  OBVIOUS
<1>1. CASE UNCHANGED controlVars
  <2>1. UNCHANGED <<provider, evidence, procedure, privileged, controlPc, applied, captured, result, altered, touched>>
    BY <1>1 DEF controlVars
  <2>2. /\ Plan' = Plan /\ (\A n : PlanPart(n)' = PlanPart(n)) /\ Live' = Live /\ LiveFields' = LiveFields
        /\ \A n : IssueFits(n, provider)' = IssueFits(n, provider)
    BY <2>1, PlanStays DEF Live, LiveFields, IssueFits
  <2>3. ApplyInv' /\ CapturedInv' /\ ReceiptIsTruthful'
    BY <2>1, <2>2 DEF ControlsInv, ApplyInv, CapturedInv, ReceiptIsTruthful
  <2> QED
    BY <2>1, <2>3 DEF ControlsInv
<1>2. CASE ControlsNext
  <2>1. ApplyInv' /\ CapturedInv'
    BY <1>2, ApplyStepInv, CaptureStepInv, MeddleStepInv DEF ControlsNext
  <2>2. /\ controlPc # "done" /\ procedure' = procedure /\ evidence' = evidence
        /\ result' # "none" => controlPc' = "done"
    BY <1>2 DEF ControlsNext, ControlsInv, Apply, ApplyFails, BeginCapture, CaptureCall, CaptureRefused,
                CaptureFails, CaptureRaises, Judge, Meddle, Ends
  <2>3. /\ Plan' = Plan /\ (\A n : PlanPart(n)' = PlanPart(n)) /\ Live' = Live /\ LiveFields' = LiveFields
    BY <2>2, PlanStays DEF Live, LiveFields
  <2>4. altered' \subseteq {Plan[i] : i \in 1..Len(applied)}'
                           \cup {Plan[i] : i \in (DOMAIN Plan) \cap {Len(applied) + 1}}'
    BY <2>1 DEF ApplyInv, PlanPart
  <2>5. result' # "PASS" => ReceiptIsTruthful'
    BY <2>4 DEF ReceiptIsTruthful
  <2>6. ASSUME result' = "PASS" PROVE ReceiptIsTruthful'
    <3>1. Judge /\ controlPc = "capture" /\ CallsMade = Len(Endpoints) /\ UNCHANGED <<provider, applied, touched>>
      BY <1>2, <2>2, <2>6 DEF ControlsNext, ControlsInv, Apply, ApplyFails, BeginCapture, CaptureCall,
           CaptureRefused, CaptureFails, CaptureRaises, Judge, Meddle, Ends
    <3>2. IF Live THEN MatchesBaseline(Composed) ELSE MatchesContract(Composed)
      BY <2>6, <3>1 DEF Judge, Ends
    <3>3. /\ \A f \in LiveFields \ touched : provider[f] = IF Live THEN Baseline[f] ELSE Contract[f]
          /\ ~Live =>
               /\ "reviewers" \notin touched => ~provider["reviewers"]
               /\ \A n \in Range(Issues) : {n, "pull"} \cap touched = {} => IssueFits(n, provider)
          /\ Live => applied = Plan
      BY <3>1, <3>2, PassIsTrue DEF ControlsInv
    <3>4. \A n : IssueFits(n, provider)' = IssueFits(n, provider)
      BY <3>1 DEF IssueFits
    <3>5. /\ \A f \in LiveFields' \ touched' : provider'[f] = IF Live' THEN Baseline[f] ELSE Contract[f]
          /\ ~Live' =>
               /\ "reviewers" \notin touched' => ~provider'["reviewers"]
               /\ \A n \in Range(Issues) : {n, "pull"} \cap touched' = {} => IssueFits(n, provider)'
          /\ Live' => applied' = Plan'
      <4>1. /\ LiveFields' = LiveFields /\ touched' = touched /\ provider' = provider
            /\ applied' = applied /\ Plan' = Plan
        BY <2>3, <3>1
      <4>2. Live' <=> Live
        BY <2>2 DEF Live
      <4>3. \A f \in LiveFields' \ touched' : provider'[f] = IF Live' THEN Baseline[f] ELSE Contract[f]
        BY <3>3, <4>1, <4>2
      <4>4. ~Live' =>
               /\ "reviewers" \notin touched' => ~provider'["reviewers"]
               /\ \A n \in Range(Issues) : {n, "pull"} \cap touched' = {} => IssueFits(n, provider)'
        BY <3>3, <3>4, <4>1, <4>2
      <4>5. Live' => applied' = Plan'
        BY <3>3, <4>1, <4>2
      <4> QED
        BY <4>3, <4>4, <4>5, Zenon
    <3> QED
      BY <2>4, <3>5 DEF ReceiptIsTruthful
  <2>7. ReceiptIsTruthful'
    BY <2>5, <2>6, Zenon
  <2>8. /\ procedure' \in {"rollback", "certify"} /\ controlPc' \in {"apply", "capture", "done"}
        /\ result' # "none" => controlPc' = "done"
    BY <1>2, <2>2 DEF ControlsNext, ControlsInv, Apply, ApplyFails, BeginCapture, CaptureCall, CaptureRefused,
         CaptureFails, CaptureRaises, Judge, Meddle, Ends
  <2> QED
    BY <2>1, <2>7, <2>8, Zenon DEF ControlsInv
<1> QED
  BY <1>1, <1>2

\* A report that says PASS is true of everything it has looked at that nobody has
\* changed since the capture began, with any number of issues and of changes by
\* others between any two calls, and a receipt names every setting the rollback
\* has changed, but for the one whose call failed
\* (capture_github_controls.py:242-342, plan_github_controls_rollback.py:101-253).
THEOREM ReceiptsAreTruthful == ControlsSpec => []ReceiptIsTruthful
<1>1. ControlsInv => ReceiptIsTruthful
  BY DEF ControlsInv
<1> QED
  BY <1>1, ControlsInitInv, ControlsStepInv, PTL DEF ControlsSpec

-----------------------------------------------------------------------------
(* A submission, and what is answered without one.  What is sent was checked  *)
(* before its first attempt and does not change; no more arrives than is sent. *)

Submitting ==
  /\ providerCall.kind = "submit" /\ Normal(providerCall) /\ Confirmed(providerCall)
  /\ providerCall.retries \in 0..RetryLimit /\ attemptsSent <= providerCall.retries + 1

SubmissionInv ==
  /\ providerCall \in CallCommands
  /\ attemptsSent \in Nat /\ arrivals \in 0..attemptsSent
  /\ callStage = "new" => attemptsSent = 0
  /\ callStage = "sending" => Submitting /\ attemptsSent <= providerCall.retries
  /\ callStage # "done" => reported = "none"
  /\ attemptsSent > 0 => Submitting

\* A normal list of addresses has one host, that of its key file, and fits.
LEMMA NormalIsOfOneHost ==
  ASSUME NEW c \in CallCommands, Normal(c)
  PROVE  /\ \E host \in {u.host : u \in c.urls} : \A u \in c.urls \cup c.keyFile : u.host = host
         /\ Cardinality(c.urls) \in 1..UrlLimit /\ OneHost(c.urls \cup c.keyFile)
<1>1. PICK u \in c.urls : TRUE
  BY DEF Normal
<1>2. \A v \in c.urls \cup c.keyFile : v.host = u.host
  BY <1>1 DEF Normal, OneHost, Covered
<1>3. Cardinality(c.urls) \in Nat /\ Cardinality(c.urls) # 0
  BY CallAssumption, <1>1, FS_CardinalityType, FS_EmptySet
<1>4. Cardinality(c.urls) \in 1..UrlLimit
  BY CallAssumption, <1>3 DEF Normal
<1> QED
  BY <1>1, <1>2, <1>4 DEF OneHost

\* What is answered on the spot.
LEMMA LocalAnswersHold ==
  ASSUME SubmissionInv, AnswerLocally
  PROVE  SubmissionInv' /\ WriteIsConfirmed'
<1> DEFINE c == providerCall
<1>1. /\ c.kind \notin {"submit", "validate"} /\ c \in CallCommands
      /\ UNCHANGED <<providerCall, attemptsSent, arrivals>>
      /\ callStage' = "done" /\ attemptsSent = 0 /\ arrivals = 0
  BY DEF AnswerLocally, Answer, SubmissionInv
<1>2. ASSUME c.kind = "plan", reported' = "ok"
      PROVE  /\ c.approve /\ c.units * c.unitCost <= c.ceiling
             /\ c.extension.connected \/ c.extension.keys \subseteq c.extension.set
  <2>1. PlanStatus(c) = "ok"
    BY <1>2 DEF AnswerLocally, Answer
  <2>2. PreflightState(c.extension) = "AVAILABLE" /\ CostState(c) = "APPROVED"
    BY <2>1 DEF PlanStatus, PreflightStatus
  <2>3. Available(c.extension)
    BY <2>2 DEF PreflightState
  <2>4. c.approve /\ CeilingHolds(c)
    BY <2>2 DEF CostState
  <2> QED
    BY <2>3, <2>4 DEF Available, CeilingHolds
<1>3. ASSUME c.kind = "entities", reported' = "ok"
      PROVE  c.receipt.approval.estimated \in 0..c.receipt.approval.ceiling
  <2>1. ReceiptHolds(c)
    BY <1>3 DEF AnswerLocally, Answer
  <2> QED
    BY <1>1, <2>1, CallAssumption DEF ReceiptHolds
<1>4. SubmissionInv'
  BY <1>1 DEF SubmissionInv
<1>5. WriteIsConfirmed'
  BY <1>1, <1>2, <1>3 DEF WriteIsConfirmed
<1> QED
  BY <1>4, <1>5

LEMMA SubmissionStep ==
  ASSUME SubmissionInv, WriteIsConfirmed, [CallNext]_callVars
  PROVE  SubmissionInv' /\ WriteIsConfirmed'
<1> DEFINE c == providerCall
<1>0. c \in CallCommands /\ attemptsSent \in Nat /\ arrivals \in 0..attemptsSent
  BY DEF SubmissionInv
<1>1. CASE UNCHANGED callVars
  BY <1>1 DEF callVars, SubmissionInv, Submitting, WriteIsConfirmed, CallConforms
<1>2. CASE StartSubmission
  <2>1. /\ c.kind = "submit" /\ UNCHANGED <<providerCall, attemptsSent, arrivals>>
        /\ attemptsSent = 0 /\ arrivals = 0 /\ reported' \notin {"ok", "partial"}
        /\ \/ callStage' = "done"
           \/ callStage' = "sending" /\ Normal(c) /\ Confirmed(c) /\ c.retries \in 0..RetryLimit
              /\ reported' = "none"
    BY <1>2 DEF StartSubmission, Answer, SubmissionInv
  <2>2. SubmissionInv'
    BY <1>0, <2>1 DEF SubmissionInv, Submitting
  <2> QED
    BY <1>0, <2>1, <2>2 DEF WriteIsConfirmed
<1>3. ASSUME Sending, UNCHANGED providerCall, arrivals' \in {arrivals, arrivals + 1},
             \/ UNCHANGED <<callStage, reported>> /\ attemptsSent' <= c.retries
             \/ /\ callStage' = "done" /\ reported' \notin {"blocked", "not_configured"}
                /\ reported' \in {"ok", "partial"} => arrivals' = arrivals + 1
      PROVE  SubmissionInv' /\ WriteIsConfirmed'
  <2>1. /\ c.kind = "submit" /\ Normal(c) /\ Confirmed(c) /\ c.retries \in 0..RetryLimit
        /\ attemptsSent' = attemptsSent + 1 /\ attemptsSent <= c.retries
        /\ arrivals' \in 0..attemptsSent' /\ reported = "none"
    BY <1>0, <1>3 DEF Sending, SubmissionInv, Submitting
  <2>2. SubmissionInv'
    BY <1>0, <1>3, <2>1 DEF SubmissionInv, Submitting, Sending
  <2>3. arrivals' > 0 => /\ c.execute /\ c.confirmed
                         /\ \E host \in {u.host : u \in c.urls} :
                              \A u \in c.urls \cup c.keyFile : u.host = host
    BY <1>0, <2>1, NormalIsOfOneHost DEF Confirmed
  <2>4. reported' \in {"ok", "partial"} => arrivals' > 0 /\ CallConforms(c)'
    BY <1>0, <1>3, <2>1, CallAssumption DEF CallConforms
  <2>5. arrivals' <= c.retries + 1
    BY <1>0, <2>1
  <2> QED
    BY <1>3, <2>1, <2>2, <2>3, <2>4, <2>5 DEF WriteIsConfirmed
<1>4. CASE ProviderAccepts
  BY <1>3, <1>4 DEF ProviderAccepts, Closing, Answer, StatusFor
<1>5. CASE ProviderRefuses
  <2>1. PICK code \in RefusalCodes :
          /\ arrivals' \in IF code \in WorthRetrying THEN {arrivals, arrivals + 1} ELSE {arrivals}
          /\ IF code \in WorthRetrying /\ attemptsSent' <= c.retries
             THEN UNCHANGED <<providerCall, callStage, reported>>
             ELSE Closing(code)
    BY <1>5 DEF ProviderRefuses
  <2>2. StatusFor(code) \notin {"ok", "partial", "blocked", "not_configured"}
    BY DEF RefusalCodes, StatusFor
  <2> QED
    BY <1>3, <1>5, <2>1, <2>2 DEF ProviderRefuses, Closing, Answer
<1>6. CASE AnswerLost
  BY <1>3, <1>6 DEF AnswerLost, Answer
<1>7. CASE ValidateUrls
  <2>1. /\ c.kind = "validate" /\ UNCHANGED <<providerCall, attemptsSent, arrivals>>
        /\ callStage' = "done" /\ attemptsSent = 0 /\ arrivals = 0
        /\ reported' = "ok" => Normal(c)
    BY <1>7 DEF ValidateUrls, Answer, SubmissionInv
  <2>2. reported' = "ok" => CallConforms(c)'
    <3>1. reported' = "ok" => Cardinality(c.urls) \in 1..UrlLimit /\ OneHost(c.urls \cup c.keyFile)
      BY <1>0, <2>1, NormalIsOfOneHost
    <3> QED
      BY <2>1, <3>1 DEF CallConforms
  <2> QED
    BY <1>0, <1>7, <2>1, <2>2 DEF SubmissionInv, WriteIsConfirmed, ValidateUrls, Answer
<1>8. CASE AnswerLocally
  BY <1>8, LocalAnswersHold
<1> QED
  BY <1>1, <1>2, <1>4, <1>5, <1>6, <1>7, <1>8 DEF CallNext

\* What a provider takes in was confirmed and belongs to one host, however often it
\* is tried and whatever is lost, and no answer about it is untrue; what may be paid
\* for was approved within its ceiling (indexnow_retry.py:37, mcp_extensions.py:284).
THEOREM WritesAreConfirmed == CallSpec => []WriteIsConfirmed
<1>1. CallInit => SubmissionInv /\ WriteIsConfirmed
  BY DEF CallInit, SubmissionInv, WriteIsConfirmed
<1>2. (SubmissionInv /\ WriteIsConfirmed) /\ [CallNext]_callVars => (SubmissionInv /\ WriteIsConfirmed)'
  BY SubmissionStep
<1> QED
  BY <1>1, <1>2, PTL DEF CallSpec

-----------------------------------------------------------------------------
(* A read of a Google API.  Between two requests the rows are the first ones  *)
(* of the table, a full page at a time; at the end they are all of them, or    *)
(* as many as the pages hold and the table is truncated.                      *)

Counted(n) == [i \in 1..n |-> i]

Times(a, b) == a * b

GatheredFields == {"rows", "pages", "totals", "truncated", "remarks", "lab", "field", "series"}

TableRead ==
  LET most == Times(question.maxPages, question.rowLimit)
      read == Times(gathered.pages, question.rowLimit)
      details == question.holds.details
  IN  /\ gathered.totals = question.holds.totals /\ gathered.remarks = question.holds.incomplete
      /\ gathered.truncated \in BOOLEAN
      /\ requestPart = "page" =>
           /\ question.paged /\ gathered.pages \in 0..(question.maxPages - 1) /\ ~gathered.truncated
           /\ gathered.rows = Counted(read) /\ read <= details
      /\ requestPart = "end" =>
           IF question.paged
           THEN /\ gathered.pages \in 1..question.maxPages
                /\ gathered.truncated => gathered.pages = question.maxPages /\ gathered.rows = Counted(most)
                /\ ~gathered.truncated => gathered.rows = Counted(details) /\ details <= most
           ELSE gathered.pages = 0 /\ gathered.rows = <<>> /\ ~gathered.truncated

PageRead ==
  /\ gathered.lab = question.holds.lab
  /\ requestPart = "end" =>
       /\ gathered.field = "skipped" => question.field # "asked"
       /\ gathered.field = "available" => question.holds.record # "bad"

PartsOf(adapter) ==
  CASE adapter = "query" -> {"aggregate", "page", "end"}
    [] adapter = "pagespeed" -> {"lab", "field", "end"}
    [] OTHER -> {"only"}

ReadInv ==
  /\ question \in Questions /\ DOMAIN gathered = GatheredFields
  /\ requestPart \in PartsOf(question.adapter)
  /\ googleStage \in {"token", "asking"} => question.proper
  /\ googleStage \in {"new", "token"} => requestPart = FirstPart(question.adapter)
  /\ requestPart = FirstPart(question.adapter) /\ googleStage \in {"new", "token", "asking"} =>
       gathered = NothingGathered
  /\ googleStage = "asking" /\ requestPart \in {"page", "end"} /\ question.adapter = "query" => TableRead
  /\ googleStage = "asking" /\ requestPart \in {"field", "end"} /\ question.adapter = "pagespeed" => PageRead

LEMMA CountedProperties ==
  ASSUME NEW n \in Nat
  PROVE  Counted(n) \in Seq(Nat) /\ Len(Counted(n)) = n /\ DOMAIN Counted(n) = 1..n
<1>1. \A i \in 1..n : i \in Nat
  OBVIOUS
<1>2. Counted(n) \in [1..n -> Nat]
  BY <1>1 DEF Counted
<1> QED
  BY <1>2 DEF Counted

LEMMA CountedAppends ==
  ASSUME NEW m \in Nat, NEW n \in Nat
  PROVE  Counted(m) \o [i \in 1..n |-> m + i] = Counted(m + n)
<1> DEFINE more == [i \in 1..n |-> m + i]
           both == Counted(m) \o more
<1>1. more \in [1..n -> Nat] /\ \A i \in 1..n : more[i] = m + i
  OBVIOUS
<1>2. more \in Seq(Nat) /\ Len(more) = n
  BY <1>1
<1>3. Counted(m) \in Seq(Nat) /\ Len(Counted(m)) = m /\ \A i \in 1..m : Counted(m)[i] = i
  BY CountedProperties DEF Counted
<1> HIDE DEF more
<1>4. /\ both \in Seq(Nat) /\ Len(both) = m + n
      /\ \A i \in 1..(m + n) : both[i] = IF i <= m THEN Counted(m)[i] ELSE more[i - m]
  <2>1. /\ both \in Seq(Nat) /\ Len(both) = Len(Counted(m)) + Len(more)
        /\ \A i \in 1..(Len(Counted(m)) + Len(more)) :
             both[i] = IF i <= Len(Counted(m)) THEN Counted(m)[i] ELSE more[i - Len(Counted(m))]
    BY <1>2, <1>3, ConcatProperties
  <2> QED
    BY <1>2, <1>3, <2>1
<1> HIDE DEF both
<1>5. \A i \in 1..(m + n) : both[i] = i
  <2> TAKE i \in 1..(m + n)
  <2>1. CASE i <= m
    BY <1>3, <1>4, <2>1
  <2>2. CASE ~(i <= m)
    <3>1. i - m \in 1..n /\ both[i] = more[i - m]
      BY <1>4, <2>2
    <3>2. more[i - m] = m + (i - m)
      BY <1>1, <3>1
    <3> QED
      BY <3>1, <3>2
  <2> QED
    BY <2>1, <2>2
<1>6. both = [i \in 1..(m + n) |-> both[i]]
  BY <1>4
<1>7. both = Counted(m + n)
  BY <1>5, <1>6 DEF Counted
<1> QED
  BY <1>7 DEF both, more

LEMMA PagesFit ==
  ASSUME NEW p \in Nat, NEW most \in Nat, p < most, NEW limit \in Nat
  PROVE  /\ Times(p + 1, limit) = Times(p, limit) + limit /\ Times(p, limit) \in Nat
         /\ Times(p + 1, limit) <= Times(most, limit) /\ Times(most, limit) \in Nat
<1>1. PICK k \in Nat : most = (p + 1) + k
  <2>1. most - (p + 1) \in Nat
    OBVIOUS
  <2> QED
    BY <2>1
<1>2. k * limit \in Nat /\ p * limit \in Nat
  OBVIOUS
<1>3. most * limit = (p + 1) * limit + k * limit
  BY <1>1
<1> QED
  BY <1>2, <1>3 DEF Times

\* The next page is full, or the last one.
LEMMA PageAdds ==
  ASSUME ReadInv, googleStage = "asking", question.adapter = "query", requestPart = "page"
  PROVE  LET rows == PageRows(gathered.pages)
             next == gathered.rows \o rows
             limit == question.rowLimit
             details == question.holds.details
         IN  /\ Len(rows) \in 0..limit
             /\ Len(rows) < limit => next = Counted(details) /\ details <= Times(question.maxPages, limit)
             /\ ~(Len(rows) < limit) =>
                  next = Counted(Times(gathered.pages + 1, limit)) /\ Times(gathered.pages + 1, limit) <= details
<1> DEFINE limit == question.rowLimit
           details == question.holds.details
           first == Times(gathered.pages, limit)
           room == details - first
           size == IF room < 0 THEN 0 ELSE IF room < limit THEN room ELSE limit
<1>1. limit \in Nat \ {0} /\ question.maxPages \in Nat \ {0} /\ details \in Nat
  BY QuestionAssumption DEF ReadInv
<1>2. /\ gathered.pages \in Nat /\ gathered.pages < question.maxPages
      /\ gathered.rows = Counted(first) /\ first <= details
  BY <1>1 DEF ReadInv, TableRead
<1>3. /\ Times(gathered.pages + 1, limit) = first + limit /\ first \in Nat
      /\ first + limit <= Times(question.maxPages, limit) /\ Times(question.maxPages, limit) \in Nat
  <2>1. /\ Times(gathered.pages + 1, limit) = first + limit /\ first \in Nat
        /\ Times(gathered.pages + 1, limit) <= Times(question.maxPages, limit)
        /\ Times(question.maxPages, limit) \in Nat
    <3>1. limit \in Nat /\ question.maxPages \in Nat
      BY <1>1
    <3> QED
      BY <1>2, <3>1, PagesFit
  <2> QED
    BY <2>1
<1>4. room \in Nat /\ size \in 0..limit
  BY <1>1, <1>2, <1>3
<1>5. PageRows(gathered.pages) = [i \in 1..size |-> first + i]
  BY DEF PageRows, Times
<1>6. [i \in 1..size |-> first + i] \in [1..size -> Nat]
  BY <1>3, <1>4
<1>7. Len(PageRows(gathered.pages)) = size
  BY <1>4, <1>5, <1>6
<1>8. gathered.rows \o PageRows(gathered.pages) = Counted(first + size)
  <2>1. size \in Nat
    BY <1>1, <1>4
  <2>2. Counted(first) \o [i \in 1..size |-> first + i] = Counted(first + size)
    BY <1>3, <2>1, CountedAppends
  <2> QED
    BY <1>2, <1>5, <2>2
<1>9. CASE size < limit
  <2>1. size = room /\ first + size = details
    BY <1>1, <1>3, <1>4, <1>9
  <2>2. details <= Times(question.maxPages, limit)
    BY <1>1, <1>3, <1>4, <1>9, <2>1
  <2> QED
    BY <1>4, <1>7, <1>8, <1>9, <2>1, <2>2
<1>10. CASE ~(size < limit)
  <2>1. size = limit /\ first + limit <= details
    BY <1>1, <1>2, <1>3, <1>4, <1>10
  <2> QED
    BY <1>3, <1>4, <1>7, <1>8, <1>10, <2>1
<1> QED
  BY <1>9, <1>10

\* What is returned of a table whose pages have been read.
LEMMA TableIsWhole ==
  ASSUME ReadInv, googleStage = "asking", question.adapter = "query", requestPart = "end"
  PROVE  LET holds == question.holds
             ok == QueryResult.status = "ok"
         IN  /\ TableConforms(QueryResult, gathered)
             /\ ok /\ question.paged => gathered.rows = AllRows
             /\ ok /\ QueryResult.state # "EMPTY" => ~holds.incomplete
             /\ QueryResult.state = "EMPTY" => ~holds.totals /\ (question.paged => holds.details = 0)
<1> DEFINE limit == question.rowLimit
           most == limit * question.maxPages
           details == question.holds.details
           state == QueryResult.state
<1>1. /\ limit \in Nat \ {0} /\ question.maxPages \in Nat \ {0} /\ details \in Nat
      /\ {question.paged, question.holds.totals, question.holds.incomplete} \subseteq BOOLEAN
  BY QuestionAssumption DEF ReadInv
<1>2. most \in Nat /\ most > 0 /\ most = Times(question.maxPages, limit)
  <2>1. question.maxPages - 1 \in Nat /\ question.maxPages - 1 < question.maxPages
    BY <1>1
  <2>2. Times(question.maxPages - 1, limit) \in Nat /\ Times((question.maxPages - 1) + 1, limit) = Times(question.maxPages - 1, limit) + limit
    BY <1>1, <2>1, PagesFit
  <2>3. (question.maxPages - 1) + 1 = question.maxPages
    BY <1>1
  <2>4. most = Times(question.maxPages, limit)
    BY <1>1 DEF Times
  <2> QED
    BY <1>1, <2>2, <2>3, <2>4
<1>3. /\ gathered.totals = question.holds.totals /\ gathered.remarks = question.holds.incomplete
      /\ gathered.truncated \in BOOLEAN
      /\ IF question.paged
         THEN /\ gathered.pages \in 1..question.maxPages
              /\ gathered.truncated => gathered.pages = question.maxPages /\ gathered.rows = Counted(most)
              /\ ~gathered.truncated => gathered.rows = Counted(details) /\ details <= most
         ELSE gathered.pages = 0 /\ gathered.rows = <<>> /\ ~gathered.truncated
  BY <1>2 DEF ReadInv, TableRead
<1>4. /\ state = (IF ~gathered.totals /\ gathered.rows = <<>> THEN "EMPTY"
                  ELSE IF gathered.truncated \/ gathered.remarks THEN "PARTIAL" ELSE "AVAILABLE")
      /\ QueryResult.status = IF state = "PARTIAL" THEN "partial" ELSE "ok"
      /\ QueryResult.warnings = QueryWarnings
  BY DEF QueryResult
<1>5. /\ Len(Counted(most)) = most /\ Len(Counted(details)) = details
      /\ Counted(most) # <<>> /\ (Counted(details) = <<>> => details = 0)
  <2>1. /\ Len(Counted(most)) = most /\ Len(Counted(details)) = details
        /\ DOMAIN Counted(most) = 1..most /\ DOMAIN Counted(details) = 1..details
    BY <1>1, <1>2, CountedProperties
  <2> HIDE DEF most, details
  <2>2. Counted(most) # <<>>
    BY <1>2, <2>1
  <2>3. Counted(details) = <<>> => details = 0
    BY <1>1, <2>1
  <2> QED
    BY <2>1, <2>2, <2>3
<1>6. Len(gathered.rows) <= most /\ (gathered.truncated => Len(gathered.rows) = most)
  BY <1>1, <1>2, <1>3, <1>5
<1>7. /\ ("ceiling" \in QueryWarnings) <=> gathered.truncated
      /\ ("incomplete" \in QueryWarnings) <=> gathered.remarks
      /\ ("not_sums" \in QueryWarnings) <=> question.paged
  BY DEF QueryWarnings
<1>8. /\ ("ceiling" \in QueryWarnings) = gathered.truncated
      /\ ("incomplete" \in QueryWarnings) = gathered.remarks
      /\ ("not_sums" \in QueryWarnings) = question.paged
  <2>1. gathered.truncated \in BOOLEAN /\ gathered.remarks \in BOOLEAN /\ question.paged \in BOOLEAN
    BY <1>1, <1>3
  <2>2. ("ceiling" \in QueryWarnings) = gathered.truncated
    BY <1>7, <2>1
  <2>3. ("incomplete" \in QueryWarnings) = gathered.remarks
    BY <1>7, <2>1
  <2>4. ("not_sums" \in QueryWarnings) = question.paged
    BY <1>7, <2>1
  <2> QED
    BY <2>2, <2>3, <2>4
<1>9. (gathered.pages > 0) = question.paged
  <2>1. (gathered.pages > 0) <=> question.paged
    BY <1>1, <1>3
  <2> QED
    BY <1>1, <2>1
<1>10. TableConforms(QueryResult, gathered)
  <2>1. /\ Len(gathered.rows) <= most /\ gathered.pages <= question.maxPages
        /\ ~question.paged => gathered.rows = <<>>
        /\ gathered.truncated => gathered.pages = question.maxPages /\ Len(gathered.rows) = most
    BY <1>1, <1>3, <1>6
  <2>2. /\ state = "EMPTY" => gathered.rows = <<>> /\ ~gathered.totals
        /\ state # "EMPTY" => state = IF gathered.truncated \/ gathered.remarks THEN "PARTIAL" ELSE "AVAILABLE"
        /\ QueryResult.status = IF state = "PARTIAL" THEN "partial" ELSE "ok"
    BY <1>4
  <2> QED
    BY <1>4, <1>8, <1>9, <2>1, <2>2, Zenon DEF TableConforms
<1>11. ASSUME QueryResult.status = "ok", question.paged PROVE gathered.rows = AllRows
  <2>1. ~gathered.truncated
    BY <1>3, <1>4, <1>5, <1>11
  <2> QED
    BY <1>3, <1>11, <2>1 DEF AllRows, Counted
<1>12. QueryResult.status = "ok" /\ state # "EMPTY" => ~question.holds.incomplete
  BY <1>3, <1>4
<1>13. state = "EMPTY" => ~question.holds.totals /\ (question.paged => details = 0)
  BY <1>3, <1>4, <1>5
<1> QED
  BY <1>10, <1>11, <1>12, <1>13

\* A window is what the report holds from the offset on, up to the limit.
LEMMA WindowIsWhole ==
  ASSUME NEW q \in Questions, q = question, q.proper
  PROVE  /\ ReportConforms(ReportResult(Window), Window)
         /\ ReportResult(Window).status = "ok" =>
              /\ ~q.holds.loss
              /\ {i \in 1..q.holds.details : i > q.offset} \subseteq {Window[k] : k \in DOMAIN Window}
<1> DEFINE details == q.holds.details
           room == details - q.offset
           size == IF room < 0 THEN 0 ELSE IF room < q.rowLimit THEN room ELSE q.rowLimit
           warnings == ReportResult(Window).warnings
<1>1. q.rowLimit \in Nat \ {0} /\ q.offset \in Nat /\ details \in Nat /\ q.holds.loss \in BOOLEAN
  BY QuestionAssumption
<1>2. size \in 0..q.rowLimit /\ room \in Int /\ (size = 0 \/ size <= room)
  BY <1>1
<1>3. Window = [i \in 1..size |-> q.offset + i]
  BY DEF Window
<1>4. [i \in 1..size |-> q.offset + i] \in [1..size -> Nat]
  BY <1>1
<1>5. Len(Window) = size /\ DOMAIN Window = 1..size /\ (Window # <<>> => size # 0)
  BY <1>2, <1>3, <1>4
<1>6. /\ warnings = (IF q.offset + Len(Window) < details THEN {"more"} ELSE {})
                    \cup (IF q.holds.loss THEN {"loss"} ELSE {})
      /\ ReportResult(Window).status = IF warnings # {} THEN "partial" ELSE "ok"
  BY DEF ReportResult
<1>7. /\ ("more" \in warnings) <=> q.offset + Len(Window) < details
      /\ ("loss" \in warnings) <=> q.holds.loss
      /\ warnings # {} <=> (q.offset + Len(Window) < details \/ q.holds.loss)
  BY <1>6
<1>8. /\ ("more" \in warnings) = (q.offset + Len(Window) < details)
      /\ ("loss" \in warnings) = q.holds.loss
  BY <1>1, <1>7
<1>9. Window # <<>> => q.offset + Len(Window) <= details
  BY <1>1, <1>2, <1>5
<1>10. ReportConforms(ReportResult(Window), Window)
  BY <1>1, <1>2, <1>5, <1>6, <1>7, <1>8, <1>9 DEF ReportConforms
<1>11. ASSUME ReportResult(Window).status = "ok", NEW i \in 1..details, i > q.offset
       PROVE  i \in {Window[k] : k \in DOMAIN Window}
  <2>1. details <= q.offset + size
    BY <1>1, <1>2, <1>5, <1>6, <1>7, <1>11
  <2>2. i - q.offset \in 1..size
    BY <1>1, <1>2, <1>11, <2>1
  <2>3. Window[i - q.offset] = i
    BY <1>1, <1>3, <1>11, <2>2
  <2> QED
    BY <1>5, <2>2, <2>3
<1>12. ReportResult(Window).status = "ok" => ~q.holds.loss
  BY <1>6, <1>7
<1> QED
  BY <1>10, <1>11, <1>12

\* A request that failed for good is the answer of a record, a remark on a page or
\* the end of the read.
LEMMA FailedKeeps ==
  ASSUME ReadInv, Sendable, NEW state, NEW status, Failed(state, status)
  PROVE  ReadInv' /\ OkIsWhole'
<1>1. CASE NotFound(state)
  <2>1. /\ googleStage' = "returned" /\ outcome'.status = "not_found" /\ question.adapter \in {"crux", "history"}
        /\ UNCHANGED <<question, requestPart, gathered>>
    BY <1>1 DEF Failed, NotFound, Deliver
  <2>2. ReadInv'
    BY <2>1 DEF ReadInv
  <2>3. OkIsWhole'
    BY <2>1 DEF OkIsWhole
  <2> QED
    BY <2>2, <2>3
<1>2. CASE ~NotFound(state) /\ requestPart = "field"
  <2>1. /\ requestPart' = "end" /\ UNCHANGED <<question, googleStage>> /\ googleStage = "asking"
        /\ gathered' = [gathered EXCEPT !.field = IF status = 404 THEN "not_found" ELSE "unavailable"]
    BY <1>2 DEF Failed, FieldMissing, Sendable
  <2>2. question.adapter = "pagespeed" /\ PageRead
    BY <1>2, <2>1 DEF ReadInv, PartsOf
  <2>3. DOMAIN gathered' = GatheredFields /\ gathered'.lab = gathered.lab /\ gathered'.field \in {"not_found", "unavailable"}
    BY <2>1 DEF ReadInv, GatheredFields
  <2>4. PageRead'
    BY <2>1, <2>2, <2>3 DEF PageRead
  <2>5. ReadInv'
    BY <2>1, <2>2, <2>3, <2>4 DEF ReadInv, PartsOf, FirstPart
  <2> QED
    BY <2>1, <2>5 DEF OkIsWhole
<1>3. CASE ~NotFound(state) /\ requestPart # "field"
  BY <1>3 DEF Failed, Raise, ReadInv, OkIsWhole
<1> QED
  BY <1>1, <1>2, <1>3

\* What a delivery has to show.
LEMMA DeliveredIsWhole ==
  ASSUME ReadInv, googleStage = "asking", NEW reply, Deliver(reply), DOMAIN gathered' = GatheredFields
  PROVE  ReadInv' /\ outcome' = reply /\ UNCHANGED question
BY DEF Deliver, ReadInv

\* Nothing is returned before the last request.
LEMMA BegunKeeps ==
  ASSUME ReadInv,
         \/ googleStage = "new" /\ question.proper /\ (Begin("asking") \/ Begin("token"))
         \/ googleStage = "token" /\ Begin("asking")
         \/ \E state : Raise(state)
         \/ googleStage = "asking" /\ Again
  PROVE  ReadInv' /\ OkIsWhole'
<1>1. CASE \E state : Raise(state)
  BY <1>1 DEF Raise, ReadInv, OkIsWhole
<1>2. CASE googleStage = "asking" /\ Again
  <2>1. UNCHANGED <<question, googleStage, requestPart, gathered, outcome>>
    BY <1>2 DEF Again
  <2>2. (TableRead => TableRead') /\ (PageRead => PageRead')
    BY <2>1, Zenon DEF TableRead, PageRead
  <2>3. ReadInv'
    <3>1. /\ question' = question /\ googleStage' = googleStage /\ requestPart' = requestPart
          /\ gathered' = gathered
      BY <2>1
    <3> QED
      BY <2>2, <3>1, Zenon DEF ReadInv
  <2>4. OkIsWhole'
    BY <1>2, <2>1 DEF Again, OkIsWhole
  <2> QED
    BY <2>3, <2>4
<1>3. ASSUME NEW stage \in {"asking", "token"}, Begin(stage), googleStage \in {"new", "token"}, question.proper
      PROVE  ReadInv' /\ OkIsWhole'
  <2>1. requestPart = FirstPart(question.adapter) /\ gathered = NothingGathered
    BY <1>3 DEF ReadInv
  <2>2. ~(requestPart \in {"page", "end"} /\ question.adapter = "query")
    BY <2>1 DEF FirstPart
  <2>3. ~(requestPart \in {"field", "end"} /\ question.adapter = "pagespeed")
    BY <2>1 DEF FirstPart
  <2> QED
    BY <1>3, <2>1, <2>2, <2>3 DEF Begin, ReadInv, OkIsWhole
<1> QED
  BY <1>1, <1>2, <1>3 DEF ReadInv

LEMMA TotalsKeep ==
  ASSUME ReadInv, TakeTotals
  PROVE  ReadInv' /\ OkIsWhole'
<1>1. /\ googleStage = "asking" /\ requestPart = "aggregate" /\ UNCHANGED <<question, googleStage>>
      /\ requestPart' = IF question.paged THEN "page" ELSE "end"
      /\ gathered' = [gathered EXCEPT !.totals = question.holds.totals, !.remarks = question.holds.incomplete]
  BY DEF TakeTotals, Sendable, Advance
<1>2. question.adapter = "query" /\ gathered = NothingGathered
  BY <1>1 DEF ReadInv, PartsOf, FirstPart
<1>3. /\ DOMAIN gathered' = GatheredFields
      /\ gathered'.totals = question.holds.totals /\ gathered'.remarks = question.holds.incomplete
      /\ gathered'.rows = <<>> /\ gathered'.pages = 0 /\ gathered'.truncated = FALSE
  BY <1>1, <1>2 DEF NothingGathered, GatheredFields
<1>4. /\ question.maxPages \in Nat \ {0} /\ question.rowLimit \in Nat \ {0} /\ question.holds.details \in Nat
      /\ question.paged \in BOOLEAN
  BY <1>1, QuestionAssumption DEF ReadInv
<1>5. Times(0, question.rowLimit) = 0 /\ Counted(0) = <<>>
  BY <1>4 DEF Counted, Times
<1>6. TableRead'
  <2>1. Counted(Times(gathered'.pages, question.rowLimit)) = gathered'.rows /\ Times(gathered'.pages, question.rowLimit) = 0
    BY <1>3, <1>5
  <2>2. 0 \in 0..(question.maxPages - 1) /\ 0 <= question.holds.details
    BY <1>4
  <2> QED
    BY <1>1, <1>3, <1>4, <2>1, <2>2 DEF TableRead
<1>7. ReadInv'
  BY <1>1, <1>2, <1>3, <1>6 DEF ReadInv, PartsOf, FirstPart
<1> QED
  BY <1>1, <1>7 DEF OkIsWhole

LEMMA PageKeeps ==
  ASSUME ReadInv, TakePage
  PROVE  ReadInv' /\ OkIsWhole'
<1> DEFINE rows == PageRows(gathered.pages)
           pages == gathered.pages + 1
           limit == question.rowLimit
           details == question.holds.details
           short == Len(rows) < limit
<1>1. /\ googleStage = "asking" /\ requestPart = "page" /\ UNCHANGED <<question, googleStage>>
      /\ requestPart' = IF short \/ pages = question.maxPages THEN "end" ELSE "page"
      /\ gathered' = [gathered EXCEPT !.rows = gathered.rows \o rows, !.pages = pages,
                                      !.truncated = ~short /\ Truncates(pages),
                                      !.remarks = gathered.remarks \/ question.holds.incomplete]
  BY DEF TakePage, Sendable, Advance
<1>2. question.adapter = "query" /\ TableRead
  BY <1>1 DEF ReadInv, PartsOf
<1>3. /\ question.maxPages \in Nat \ {0} /\ limit \in Nat \ {0} /\ details \in Nat
      /\ question.holds.incomplete \in BOOLEAN
  BY <1>1, QuestionAssumption DEF ReadInv
<1>4. /\ DOMAIN gathered' = GatheredFields
      /\ gathered'.rows = gathered.rows \o rows /\ gathered'.pages = pages
      /\ gathered'.totals = gathered.totals
      /\ gathered'.truncated = (~short /\ Truncates(pages))
      /\ gathered'.remarks = (gathered.remarks \/ question.holds.incomplete)
  BY <1>1 DEF ReadInv, GatheredFields
<1>5. gathered'.totals = question.holds.totals /\ gathered'.remarks = question.holds.incomplete
  BY <1>2, <1>3, <1>4 DEF TableRead
<1>6. gathered'.truncated \in BOOLEAN /\ (gathered'.truncated <=> ~short /\ pages = question.maxPages)
  BY <1>4 DEF Truncates
<1>7. question.paged /\ gathered.pages \in 0..(question.maxPages - 1) /\ pages \in 1..question.maxPages
  BY <1>1, <1>2, <1>3 DEF TableRead
<1>8. /\ short => gathered'.rows = Counted(details) /\ details <= Times(question.maxPages, limit)
      /\ ~short => gathered'.rows = Counted(Times(pages, limit)) /\ Times(pages, limit) <= details
  BY <1>1, <1>2, <1>4, PageAdds
<1>9. TableRead'
  <2>1. requestPart' = "page" =>
          /\ gathered'.pages \in 0..(question.maxPages - 1) /\ ~gathered'.truncated
          /\ gathered'.rows = Counted(Times(gathered'.pages, limit)) /\ Times(gathered'.pages, limit) <= details
    <3> SUFFICES ASSUME requestPart' = "page"
                 PROVE  /\ gathered'.pages \in 0..(question.maxPages - 1) /\ ~gathered'.truncated
                        /\ gathered'.rows = Counted(Times(gathered'.pages, limit))
                        /\ Times(gathered'.pages, limit) <= details
      OBVIOUS
    <3>1. ~short /\ pages # question.maxPages
      BY <1>1, Zenon
    <3> HIDE DEF short
    <3>2. pages \in 0..(question.maxPages - 1)
      BY <1>3, <1>7, <3>1
    <3> QED
      BY <1>4, <1>6, <1>8, <3>1, <3>2, Zenon
  <2>2. requestPart' = "end" =>
          /\ gathered'.pages \in 1..question.maxPages
          /\ gathered'.truncated =>
               gathered'.pages = question.maxPages /\ gathered'.rows = Counted(Times(question.maxPages, limit))
          /\ ~gathered'.truncated => gathered'.rows = Counted(details) /\ details <= Times(question.maxPages, limit)
    BY <1>1, <1>4, <1>6, <1>7, <1>8
  <2> QED
    BY <1>1, <1>5, <1>6, <1>7, <2>1, <2>2 DEF TableRead
<1>10. requestPart' \in {"page", "end"}
  BY <1>1
<1>11. ReadInv'
  BY <1>1, <1>2, <1>4, <1>9, <1>10 DEF ReadInv, PartsOf, FirstPart
<1> QED
  BY <1>1, <1>11 DEF OkIsWhole

LEMMA PageSpeedKeeps ==
  ASSUME ReadInv, TakeLab \/ TakeField
  PROVE  ReadInv' /\ OkIsWhole'
<1>1. CASE TakeLab
  <2>1. /\ googleStage = "asking" /\ requestPart = "lab" /\ UNCHANGED <<question, googleStage>>
        /\ requestPart' = IF question.field = "asked" THEN "field" ELSE "end"
        /\ gathered' = [gathered EXCEPT !.lab = question.holds.lab,
                                        !.field = IF question.field = "asked" THEN gathered.field ELSE "skipped"]
    BY <1>1 DEF TakeLab, Sendable, Advance
  <2>2. question.adapter = "pagespeed"
    BY <2>1 DEF ReadInv, PartsOf
  <2>3. /\ DOMAIN gathered' = GatheredFields /\ gathered'.lab = question.holds.lab
        /\ question.field # "asked" => gathered'.field = "skipped"
    BY <2>1 DEF ReadInv, GatheredFields
  <2>4. PageRead'
    BY <2>1, <2>3 DEF PageRead
  <2>5. ReadInv'
    BY <2>1, <2>2, <2>3, <2>4 DEF ReadInv, PartsOf, FirstPart
  <2> QED
    BY <2>1, <2>5 DEF OkIsWhole
<1>2. CASE TakeField
  <2>1. /\ googleStage = "asking" /\ requestPart = "field" /\ UNCHANGED <<question, googleStage>>
        /\ requestPart' = "end"
        /\ gathered' = [gathered EXCEPT !.field = IF question.holds.record = "bad" THEN "invalid_response"
                                                  ELSE "available"]
    BY <1>2 DEF TakeField, Sendable, Advance
  <2>2. question.adapter = "pagespeed" /\ PageRead
    BY <2>1 DEF ReadInv, PartsOf
  <2>3. /\ DOMAIN gathered' = GatheredFields /\ gathered'.lab = gathered.lab
        /\ gathered'.field = IF question.holds.record = "bad" THEN "invalid_response" ELSE "available"
    BY <2>1 DEF ReadInv, GatheredFields
  <2>4. PageRead'
    BY <2>1, <2>2, <2>3 DEF PageRead
  <2>5. ReadInv'
    BY <2>1, <2>2, <2>3, <2>4 DEF ReadInv, PartsOf, FirstPart
  <2> QED
    BY <2>1, <2>5 DEF OkIsWhole
<1> QED
  BY <1>1, <1>2

\* The reads of one request.
LEMMA SingleKeeps ==
  ASSUME ReadInv, TakeReport \/ TakeInspection \/ TakeSitemaps \/ TakeCurrent \/ TakeHistory
  PROVE  ReadInv' /\ OkIsWhole'
<1>1. googleStage = "asking"
  BY DEF TakeReport, TakeInspection, TakeSitemaps, TakeCurrent, TakeHistory, Only, Sendable
<1>2. CASE TakeReport
  <2>1. /\ question.adapter = "report" /\ Deliver(ReportResult(Window))
        /\ gathered' = [gathered EXCEPT !.rows = Window]
    BY <1>2 DEF TakeReport, Only
  <2>2. DOMAIN gathered' = GatheredFields /\ gathered'.rows = Window
    BY <2>1 DEF ReadInv, GatheredFields
  <2>3. ReadInv' /\ outcome' = ReportResult(Window) /\ UNCHANGED question
    BY <1>1, <2>1, <2>2, DeliveredIsWhole
  <2>4. /\ ReportConforms(ReportResult(Window), Window)
        /\ ReportResult(Window).status = "ok" =>
             /\ ~question.holds.loss
             /\ {i \in 1..question.holds.details : i > question.offset} \subseteq {Window[k] : k \in DOMAIN Window}
    BY <1>1, WindowIsWhole DEF ReadInv
  <2>5. ReportConforms(outcome, gathered.rows)'
    BY <2>2, <2>3, <2>4 DEF ReportConforms
  <2>6. OkIsWhole'
    BY <2>1, <2>2, <2>3, <2>4, <2>5 DEF OkIsWhole
  <2> QED
    BY <2>3, <2>6
<1>3. ASSUME NEW reply, Deliver(reply), UNCHANGED gathered,
             \/ question.adapter = "inspect" /\ reply = InspectResult(question.holds.found)
             \/ question.adapter = "sitemaps" /\ reply = SitemapsResult(question.holds.found)
             \/ question.adapter = "crux" /\ reply = CurrentResult(question.holds.metrics)
      PROVE  ReadInv' /\ OkIsWhole'
  <2>1. ReadInv' /\ outcome' = reply /\ UNCHANGED question
    BY <1>1, <1>3, DeliveredIsWhole DEF ReadInv
  <2>2. reply.status = "ok" /\ question.adapter = "crux" => question.holds.metrics # {}
    BY <1>3 DEF CurrentResult
  <2>3. reply.status = "ok" /\ reply.state = "AVAILABLE" /\ question.adapter # "crux" => question.holds.found
    BY <1>3 DEF InspectResult, SitemapsResult
  <2> QED
    BY <1>3, <2>1, <2>2, <2>3 DEF OkIsWhole
<1>4. CASE TakeHistory
  <2>1. CASE ~DimensionsHold(question.holds.series)
    BY <1>4, <2>1, BegunKeeps DEF TakeHistory
  <2> DEFINE holds == question.holds
             reply == HistoryResult(holds.periods, holds.series)
  <2>2. CASE DimensionsHold(question.holds.series)
    <3>1. question.adapter = "history" /\ Deliver(reply) /\ gathered' = [gathered EXCEPT !.series = holds.series]
      BY <1>4, <2>2 DEF TakeHistory, Only
    <3>2. DOMAIN gathered' = GatheredFields
      BY <3>1 DEF ReadInv, GatheredFields
    <3>3. ReadInv' /\ outcome' = reply /\ UNCHANGED question
      BY <1>1, <3>1, <3>2, DeliveredIsWhole
    <3>4. reply.status = "ok" => holds.periods > 0
      BY DEF HistoryResult
    <3>5. reply.parts = "AVAILABLE" =>
            \A m \in {"lcp", "part"} : \E i \in DOMAIN holds.series[m] : holds.series[m][i] # NoValue
      <4> SUFFICES ASSUME reply.parts = "AVAILABLE", NEW m \in {"lcp", "part"}
                   PROVE  \E i \in DOMAIN holds.series[m] : holds.series[m][i] # NoValue
        OBVIOUS
      <4>1. PartsComplete(holds.series)
        BY DEF HistoryResult
      <4>2. Latest(holds.series[m]) # NoValue
        BY <4>1 DEF PartsComplete, ObservedMetrics
      <4>3. {i \in DOMAIN holds.series[m] : holds.series[m][i] # NoValue} # {}
        BY <4>2 DEF Latest
      <4> QED
        BY <4>3
    <3> QED
      BY <3>1, <3>3, <3>4, <3>5 DEF OkIsWhole
  <2> QED
    BY <2>1, <2>2
<1> QED
  BY <1>2, <1>3, <1>4 DEF TakeInspection, TakeSitemaps, TakeCurrent, Only

LEMMA FinishKeeps ==
  ASSUME ReadInv, Finish
  PROVE  ReadInv' /\ OkIsWhole'
<1>1. googleStage = "asking" /\ requestPart = "end" /\ UNCHANGED gathered
  BY DEF Finish
<1>2. DOMAIN gathered' = GatheredFields
  BY <1>1 DEF ReadInv
<1>3. CASE question.adapter = "query"
  <2>1. Deliver(QueryResult)
    BY <1>3 DEF Finish
  <2>2. ReadInv' /\ outcome' = QueryResult /\ UNCHANGED question
    BY <1>1, <1>2, <2>1, DeliveredIsWhole
  <2>3. TableConforms(outcome, gathered)'
    BY <1>1, <1>3, <2>2, TableIsWhole DEF TableConforms
  <2>4. UNCHANGED AllRows
    BY <2>2 DEF AllRows
  <2> QED
    BY <1>1, <1>3, <2>2, <2>3, <2>4, TableIsWhole DEF OkIsWhole
<1>4. CASE question.adapter # "query"
  <2>1. question.adapter = "pagespeed" /\ Deliver(PageResult)
    BY <1>1, <1>4 DEF Finish, ReadInv, PartsOf
  <2>2. ReadInv' /\ outcome' = PageResult /\ UNCHANGED question
    BY <1>1, <1>2, <2>1, DeliveredIsWhole
  <2>3. PageRead /\ question.holds.record \in {"good", "bad"}
    BY <1>1, <2>1, QuestionAssumption DEF ReadInv
  <2>4. PageResult.status = "ok" =>
          question.holds.lab = "scored" /\ (question.field = "asked" => question.holds.record = "good")
    BY <1>1, <2>3 DEF PageResult, PageRead
  <2> QED
    BY <2>1, <2>2, <2>4 DEF OkIsWhole
<1> QED
  BY <1>3, <1>4

LEMMA ReadStep ==
  ASSUME ReadInv, OkIsWhole, [GoogleNext]_googleVars
  PROVE  ReadInv' /\ OkIsWhole'
<1>1. CASE UNCHANGED googleVars
  BY <1>1 DEF googleVars, ReadInv, TableRead, PageRead, OkIsWhole, TableConforms, ReportConforms, AllRows
<1>2. CASE CheckRecord \/ CheckPage \/ CheckReport \/ CheckTable \/ CheckSite \/ HaveToken \/ NoToken
  BY <1>2, BegunKeeps DEF CheckRecord, CheckPage, CheckReport, CheckTable, CheckSite, HaveToken, NoToken
<1>3. CASE ProviderErrs \/ NetworkFails \/ ReplyUnusable
  BY <1>3, BegunKeeps, FailedKeeps DEF ProviderErrs, NetworkFails, ReplyUnusable, Sendable
<1> QED
  BY <1>1, <1>2, <1>3, TotalsKeep, PageKeeps, PageSpeedKeeps, SingleKeeps, FinishKeeps DEF GoogleNext

\* A read that says "ok" has everything that was asked, for any sizes of tables, pages
\* and windows and however many attempts it took; and what it returns conforms to
\* what a publication accepts (gsc.py:206, gsc_results.py:40, ga4.py:126,
\* google_pagespeed_live.py:109, publication_capability_results.py:91-233).
THEOREM OkReadsAreWhole == GoogleSpec => []OkIsWhole
<1>1. GoogleInit => ReadInv /\ OkIsWhole
  BY DEF GoogleInit, ReadInv, OkIsWhole, NothingGathered, GatheredFields, PartsOf, FirstPart
<1>2. (ReadInv /\ OkIsWhole) /\ [GoogleNext]_googleVars => (ReadInv /\ OkIsWhole)'
  BY ReadStep
<1> QED
  BY <1>1, <1>2, PTL DEF GoogleSpec

-----------------------------------------------------------------------------
(* The consent diagnostic.                                                 *)

\* What is declared of a signal after one more row: what the row says of it, or else
\* what was declared before.
Declared(r, s) == IF s \in r.invalid THEN "invalid" ELSE IF s \in DOMAIN r.resolved THEN r.resolved[s] ELSE "missing"
Heard(row, s) == IF row[s] \in ValidStates THEN row[s] ELSE "invalid"

LEMMA RowSpeaks ==
  ASSUME NEW before, NEW row, NEW s \in SIGNALS
  PROVE  /\ Declared(ApplyRow(before, row), s) = IF s \in DOMAIN row THEN Heard(row, s) ELSE Declared(before, s)
         /\ s \in DOMAIN ApplyRow(before, row).resolved <=> s \in DOMAIN row \/ s \in DOMAIN before.resolved
<1> DEFINE P == ProjectSignals(row)
           A == ApplyRow(before, row)
<1>1. DOMAIN P = SIGNALS \cap DOMAIN row
  BY DEF ProjectSignals
<1>2. A.resolved = [x \in DOMAIN P \cup DOMAIN before.resolved |-> IF x \in DOMAIN P THEN P[x] ELSE before.resolved[x]]
  BY DEF ApplyRow
<1>3. A.invalid = (before.invalid \ DOMAIN P) \cup InvalidSignals(row)
  BY DEF ApplyRow
<1> HIDE DEF A
<1>4. CASE s \in DOMAIN row
  <2>1. s \in DOMAIN P /\ P[s] = IF row[s] \in ValidStates THEN row[s] ELSE "denied"
    BY <1>4 DEF ProjectSignals
  <2>2. s \in A.invalid <=> row[s] \notin ValidStates
    BY <1>1, <1>3, <1>4 DEF InvalidSignals
  <2>3. s \in DOMAIN A.resolved /\ A.resolved[s] = P[s]
    BY <1>2, <2>1
  <2> HIDE DEF P
  <2> QED
    BY <1>4, <2>1, <2>2, <2>3 DEF A, Declared, Heard
<1>5. CASE s \notin DOMAIN row
  <2>1. s \notin DOMAIN P /\ s \notin InvalidSignals(row)
    BY <1>1, <1>5 DEF InvalidSignals
  <2>2. s \in A.invalid <=> s \in before.invalid
    BY <1>3, <2>1
  <2> HIDE DEF P
  <2>3. s \in DOMAIN A.resolved <=> s \in DOMAIN before.resolved
    BY <1>2, <2>1
  <2>4. s \in DOMAIN A.resolved => A.resolved[s] = before.resolved[s]
    BY <1>2, <2>1
  <2> QED
    BY <1>5, <2>2, <2>3, <2>4 DEF A, Declared
<1> QED
  BY <1>4, <1>5

\* Which row is the first to speak about a signal.
LEMMA FirstToSpeak ==
  ASSUME NEW config, NEW s
  PROVE  LET R == RowsInForce(config) IN
         /\ s \in DOMAIN R[1] => Spoken(config, s) # {} /\ Min(Spoken(config, s)) = 1
         /\ s \notin DOMAIN R[1] /\ s \in DOMAIN R[2] => Spoken(config, s) # {} /\ Min(Spoken(config, s)) = 2
         /\ s \notin DOMAIN R[1] /\ s \notin DOMAIN R[2] /\ s \in DOMAIN R[3]
              => Spoken(config, s) # {} /\ Min(Spoken(config, s)) = 3
         /\ s \notin DOMAIN R[1] /\ s \notin DOMAIN R[2] /\ s \notin DOMAIN R[3] => Spoken(config, s) = {}
<1> DEFINE R == RowsInForce(config)
<1>1. ASSUME NEW S, NEW n \in S, S \subseteq 1..3, \A m \in S : n <= m PROVE Min(S) = n
  <2>1. Min(S) \in S /\ \A m \in S : Min(S) <= m
    BY <1>1 DEF Min
  <2>2. PICK m : m = Min(S)
    OBVIOUS
  <2>3. m \in S /\ m <= n /\ n <= m /\ m \in 1..3 /\ n \in 1..3
    BY <1>1, <2>1, <2>2
  <2> QED
    BY <2>2, <2>3
<1>2. Spoken(config, s) = {n \in 1..3 : s \in DOMAIN R[n]}
  BY DEF Spoken
<1> HIDE DEF R
<1>3. s \in DOMAIN R[1] => Spoken(config, s) # {} /\ Min(Spoken(config, s)) = 1
  BY <1>1, <1>2
<1>4. s \notin DOMAIN R[1] /\ s \in DOMAIN R[2] => Spoken(config, s) # {} /\ Min(Spoken(config, s)) = 2
  BY <1>1, <1>2
<1>5. s \notin DOMAIN R[1] /\ s \notin DOMAIN R[2] /\ s \in DOMAIN R[3]
        => Spoken(config, s) # {} /\ Min(Spoken(config, s)) = 3
  BY <1>1, <1>2
<1>6. s \notin DOMAIN R[1] /\ s \notin DOMAIN R[2] /\ s \notin DOMAIN R[3] => Spoken(config, s) = {}
  BY <1>2
<1> QED
  BY <1>3, <1>4, <1>5, <1>6 DEF R

\* A signal is declared to be what the first row says that speaks about it.
LEMMA DeclaredIsHeard ==
  ASSUME NEW config, NEW s \in SIGNALS
  PROVE  /\ Spoken(config, s) = {} <=> s \notin DOMAIN ResolveRegionDefaults(config).resolved
         /\ Spoken(config, s) = {} => DeclaredDefault(config, s) = "missing"
         /\ Spoken(config, s) # {} =>
              DeclaredDefault(config, s) = Heard(RowsInForce(config)[Min(Spoken(config, s))], s)
<1> DEFINE R == RowsInForce(config)
           safe(k) == k \in SafeOverrides(config.overrides)
           over(before, k) == IF safe(k) THEN ApplyRow(before, config.overrides[k].row) ELSE before
           none == [resolved |-> ProjectSignals(config.defaults), invalid |-> InvalidSignals(config.defaults)]
           country == over(none, CountryOf(config.region))
           row(k) == IF safe(k) THEN config.overrides[k].row ELSE <<>>
<1>1. ResolveRegionDefaults(config) = IF config.region = CountryOf(config.region) THEN country ELSE over(country, config.region)
  BY DEF ResolveRegionDefaults
<1>2. R[1] = row(config.region) /\ R[2] = row(CountryOf(config.region)) /\ R[3] = config.defaults
  BY DEF RowsInForce
<1>3. /\ Declared(none, s) = IF s \in DOMAIN config.defaults THEN Heard(config.defaults, s) ELSE "missing"
      /\ s \in DOMAIN none.resolved <=> s \in DOMAIN config.defaults
  BY DEF Declared, Heard, ProjectSignals, InvalidSignals
<1>4. ASSUME NEW before, NEW k
      PROVE  /\ Declared(over(before, k), s) = IF s \in DOMAIN row(k) THEN Heard(row(k), s) ELSE Declared(before, s)
             /\ s \in DOMAIN over(before, k).resolved <=> s \in DOMAIN row(k) \/ s \in DOMAIN before.resolved
  <2>1. CASE safe(k)
    BY <2>1, RowSpeaks
  <2>2. CASE ~safe(k)
    <3>1. row(k) = <<>> /\ s \notin DOMAIN <<>>
      BY <2>2
    <3> QED
      BY <2>2, <3>1
  <2> QED
    BY <2>1, <2>2
<1>5. DeclaredDefault(config, s) = Declared(ResolveRegionDefaults(config), s)
  BY DEF DeclaredDefault, Declared
<1> HIDE DEF row, over, none, safe
<1>6. /\ Declared(country, s) = IF s \in DOMAIN R[2] THEN Heard(R[2], s)
                                 ELSE IF s \in DOMAIN R[3] THEN Heard(R[3], s) ELSE "missing"
      /\ s \in DOMAIN country.resolved <=> s \in DOMAIN R[2] \/ s \in DOMAIN R[3]
  BY <1>2, <1>3, <1>4
<1>7. /\ Declared(over(country, config.region), s) = IF s \in DOMAIN R[1] THEN Heard(R[1], s) ELSE Declared(country, s)
      /\ s \in DOMAIN over(country, config.region).resolved <=> s \in DOMAIN R[1] \/ s \in DOMAIN country.resolved
  BY <1>2, <1>4
<1> HIDE DEF country, R
<1>8. /\ DeclaredDefault(config, s) = IF s \in DOMAIN R[1] THEN Heard(R[1], s) ELSE IF s \in DOMAIN R[2] THEN Heard(R[2], s)
                                      ELSE IF s \in DOMAIN R[3] THEN Heard(R[3], s) ELSE "missing"
      /\ s \in DOMAIN ResolveRegionDefaults(config).resolved
           <=> s \in DOMAIN R[1] \/ s \in DOMAIN R[2] \/ s \in DOMAIN R[3]
  <2>1. CASE config.region = CountryOf(config.region)
    <3>1. R[1] = R[2]
      BY <1>2, <2>1
    <3> QED
      BY <1>1, <1>5, <1>6, <2>1, <3>1
  <2>2. CASE config.region # CountryOf(config.region)
    BY <1>1, <1>5, <1>6, <1>7, <2>2
  <2> QED
    BY <2>1, <2>2
<1>9. /\ s \in DOMAIN R[1] => Spoken(config, s) # {} /\ Min(Spoken(config, s)) = 1
      /\ s \notin DOMAIN R[1] /\ s \in DOMAIN R[2] => Spoken(config, s) # {} /\ Min(Spoken(config, s)) = 2
      /\ s \notin DOMAIN R[1] /\ s \notin DOMAIN R[2] /\ s \in DOMAIN R[3]
              => Spoken(config, s) # {} /\ Min(Spoken(config, s)) = 3
      /\ s \notin DOMAIN R[1] /\ s \notin DOMAIN R[2] /\ s \notin DOMAIN R[3] => Spoken(config, s) = {}
  BY FirstToSpeak DEF R
<1>10. /\ Spoken(config, s) = {} <=> s \notin DOMAIN ResolveRegionDefaults(config).resolved
       /\ Spoken(config, s) = {} => DeclaredDefault(config, s) = "missing"
       /\ Spoken(config, s) # {} => DeclaredDefault(config, s) = Heard(R[Min(Spoken(config, s))], s)
  BY <1>8, <1>9
<1> QED
  BY <1>10 DEF R

\* So it is declared granted, or denied, exactly when that row says so.
LEMMA DeclaredIsSaid ==
  ASSUME NEW config, NEW s \in SIGNALS, NEW v \in ValidStates
  PROVE  DeclaredDefault(config, s) = v <=> Says(config, s, v)
<1>1. v \notin {"missing", "invalid"}
  BY DEF ValidStates
<1>2. CASE Spoken(config, s) = {}
  BY <1>1, <1>2, DeclaredIsHeard DEF Says
<1>3. CASE Spoken(config, s) # {}
  <2>1. DeclaredDefault(config, s) = Heard(RowsInForce(config)[Min(Spoken(config, s))], s)
    BY <1>3, DeclaredIsHeard
  <2> QED
    BY <1>1, <1>3, <2>1 DEF Says, Heard
<1> QED
  BY <1>2, <1>3

\* The findings of a configuration, and those that are critical.
Findings(config) ==
  ConfigurationFindings(config) \cup OrderingFindings(config) \cup MissingSignalFindings(config)
    \cup StateFindings(config) \cup InitializationFindings(config) \cup TopologyFindings(config)
Critical(f) == f.observed /\ f.severity = "critical"

Flaw(severity, area) == [severity |-> severity, area |-> area, observed |-> TRUE]
LEMMA FlawIs == \A severity, area : Critical(Flaw(severity, area)) <=> severity = "critical"
  BY DEF Flaw, Critical

LEMMA TopologyIs ==
  ASSUME NEW how, NEW worst, NEW unverified, NEW area, unverified # "critical"
  PROVE  /\ (\E f \in Topology(how, worst, unverified, area) : Critical(f)) <=> how = "broken" /\ worst = "critical"
         /\ Topology(how, worst, unverified, area) = {} <=> how = "absent"
<1> DEFINE f == [severity |-> IF how = "broken" THEN worst ELSE unverified, area |-> area, observed |-> how = "broken"]
<1>1. Critical(f) <=> how = "broken" /\ worst = "critical"
  BY DEF Critical
<1> HIDE DEF f
<1>2. Topology(how, worst, unverified, area) = IF how = "absent" THEN {} ELSE {f}
  BY DEF Topology, f
<1> QED
  BY <1>1, <1>2

LEMMA CriticalIsDangerous ==
  ASSUME NEW config, config.cmp
  PROVE  (\E f \in Findings(config) : Critical(f)) <=> Dangerous(config)
<1>1. (\E f \in ConfigurationFindings(config) : Critical(f)) <=> FALSE
  BY DEF ConfigurationFindings, Flag, Critical
<1>2. (\E f \in OrderingFindings(config) : Critical(f))
        <=> ~(config.defaultSet /\ config.beforeTags) \/ (config.update /\ ~config.afterDefault)
  <2>1. OrderingFindings(config) =
          (IF ~(config.defaultSet /\ config.beforeTags) THEN {Flaw("critical", "default")} ELSE {})
          \cup (IF (config.choice = "seen" \/ (config.choice = "unrecorded" /\ config.update)) /\ ~config.update
                  THEN {Flaw("high", "update")} ELSE {})
          \cup (IF config.update /\ ~config.afterDefault THEN {Flaw("critical", "update")} ELSE {})
    BY DEF OrderingFindings, Flag, Flaw
  <2> QED
    BY <2>1, FlawIs
<1>3. (\E f \in MissingSignalFindings(config) : Critical(f))
        <=> \E s \in {"ad_user_data", "ad_personalization"} : Spoken(config, s) = {}
  <2>1. \A s \in SIGNALS : Spoken(config, s) = {} <=> s \notin DOMAIN ResolveRegionDefaults(config).resolved
    BY DeclaredIsHeard
  <2> DEFINE S(s) == Flag(s \notin DOMAIN ResolveRegionDefaults(config).resolved,
                          IF s \in {"ad_user_data", "ad_personalization"} THEN "critical" ELSE "high", s)
  <2>2. \A s \in SIGNALS : (\E f \in S(s) : Critical(f))
                            <=> s \in {"ad_user_data", "ad_personalization"} /\ Spoken(config, s) = {}
    <3>1. \A s : S(s) = IF s \notin DOMAIN ResolveRegionDefaults(config).resolved
                          THEN {Flaw(IF s \in {"ad_user_data", "ad_personalization"} THEN "critical" ELSE "high", s)} ELSE {}
      BY DEF Flag, Flaw
    <3> HIDE DEF S
    <3> QED
      BY <2>1, <3>1, FlawIs
  <2>3. MissingSignalFindings(config) = UNION {S(s) : s \in SIGNALS}
    BY DEF MissingSignalFindings
  <2> HIDE DEF S
  <2>4. {"ad_user_data", "ad_personalization"} \subseteq SIGNALS
    BY DEF SIGNALS
  <2> QED
    BY <2>2, <2>3, <2>4
<1>4. (\E f \in StateFindings(config) : Critical(f))
        <=> RequiresConsent(config.region) /\ \E s \in SIGNALS : Says(config, s, "granted")
  <2> DEFINE S(s) == Flag(DeclaredDefault(config, s) \notin ValidStates, "high", s)
                      \cup Flag(DeclaredDefault(config, s) = "granted" /\ RequiresConsent(config.region), "critical", s)
  <2>1. \A s \in SIGNALS : (\E f \in S(s) : Critical(f)) <=> Says(config, s, "granted") /\ RequiresConsent(config.region)
    <3>1. \A s \in SIGNALS : DeclaredDefault(config, s) = "granted" <=> Says(config, s, "granted")
      BY DeclaredIsSaid DEF ValidStates
    <3>2. \A s : S(s) = (IF DeclaredDefault(config, s) \notin ValidStates THEN {Flaw("high", s)} ELSE {})
                        \cup (IF DeclaredDefault(config, s) = "granted" /\ RequiresConsent(config.region)
                                THEN {Flaw("critical", s)} ELSE {})
      BY DEF Flag, Flaw
    <3> HIDE DEF S
    <3> QED
      BY <3>1, <3>2, FlawIs
  <2>2. StateFindings(config) = UNION {S(s) : s \in SIGNALS}
    BY DEF StateFindings
  <2> HIDE DEF S
  <2> QED
    BY <2>1, <2>2
<1>5. (\E f \in InitializationFindings(config) : Critical(f)) <=> FALSE
  BY DEF InitializationFindings, Flag, Critical
<1>6. (\E f \in TopologyFindings(config) : Critical(f)) <=> config.server = "broken"
  BY TopologyIs DEF TopologyFindings, Flag, Critical
<1> QED
  BY <1>1, <1>2, <1>3, <1>4, <1>5, <1>6 DEF Findings, Dangerous

\* A report without findings is of a configuration that meets the criteria.
LEMMA CleanIsAcceptable ==
  ASSUME NEW config, Findings(config) = {}
  PROVE  config.cmp /\ Acceptable(config)
<1>1. /\ ConfigurationFindings(config) = {} /\ OrderingFindings(config) = {} /\ StateFindings(config) = {}
      /\ InitializationFindings(config) = {} /\ TopologyFindings(config) = {}
  BY DEF Findings
<1>2. config.cmp /\ ~InvalidOverrideEntries(config)
  BY <1>1 DEF ConfigurationFindings, Flag, Critical
<1>3. config.choice = "seen" => config.update
  BY <1>1 DEF OrderingFindings, Flag, Critical
<1>4. ~config.duplicates
  BY <1>1 DEF InitializationFindings, Flag, Critical
<1>5. config.spa = "absent" /\ config.server = "absent" /\ config.cross = "absent" /\ ~config.differs
  <2>1. /\ Topology(config.spa, "high", "medium", "spa") = {}
        /\ Topology(config.server, "critical", "high", "server-side") = {}
        /\ Topology(config.cross, "high", "high", "cross-domain") = {}
        /\ Flag(config.differs, "high", "environment") = {}
    BY <1>1 DEF TopologyFindings
  <2> QED
    BY <2>1, TopologyIs DEF Flag
<1>6. ASSUME NEW s \in SIGNALS
      PROVE  Says(config, s, "denied") \/ (Says(config, s, "granted") /\ ~RequiresConsent(config.region))
  <2>1. DeclaredDefault(config, s) \in ValidStates /\ ~(DeclaredDefault(config, s) = "granted" /\ RequiresConsent(config.region))
    <3>1. /\ Flag(DeclaredDefault(config, s) \notin ValidStates, "high", s) = {}
          /\ Flag(DeclaredDefault(config, s) = "granted" /\ RequiresConsent(config.region), "critical", s) = {}
      BY <1>1, <1>6 DEF StateFindings
    <3> QED
      BY <3>1 DEF Flag
  <2> QED
    BY <1>6, <2>1, DeclaredIsSaid DEF ValidStates
<1> QED
  BY <1>2, <1>3, <1>4, <1>5, <1>6 DEF Acceptable, InvalidOverrideEntries

LEMMA DiagnosisIsMeant ==
  ASSUME NEW config
  PROVE  ConsentVerdict(config, Diagnose(config))
<1> DEFINE F == Findings(config)
           report == [status |-> ReportStatus(config, F), findings |-> F, matrix |-> [s \in SIGNALS |-> Treated(config, s)]]
<1>1. CASE config.live /\ ~config.authorized
  BY <1>1 DEF ConsentVerdict, Diagnose
<1>2. CASE ~(config.live /\ ~config.authorized)
  <2>1. Diagnose(config) = report
    BY <1>2 DEF Diagnose, Findings
  <2>2. \A s \in SIGNALS : report.matrix[s] = "granted" <=> config.region # UnknownRegion /\ Says(config, s, "granted")
    BY DeclaredIsSaid DEF Treated, ValidStates
  <2>3. report.status = ReportStatus(config, F)
    OBVIOUS
  <2> HIDE DEF report, F
  <2>4. report.status = IF ~config.cmp THEN "BLOCKED"
                        ELSE IF \E f \in F : Critical(f) THEN "FAIL" ELSE IF F # {} THEN "PARTIAL" ELSE "PASS"
    BY <2>3 DEF ReportStatus, Critical
  <2>5. config.cmp => ((\E f \in F : Critical(f)) <=> Dangerous(config))
    BY CriticalIsDangerous DEF F
  <2>6. F = {} => config.cmp /\ Acceptable(config)
    BY CleanIsAcceptable DEF F
  <2>7. report.status = "BLOCKED" <=> ~config.cmp
    BY <2>4
  <2>8. report.status = "FAIL" <=> config.cmp /\ Dangerous(config)
    BY <2>4, <2>5
  <2>9. report.status = "PASS" => config.cmp /\ ~Dangerous(config) /\ Acceptable(config)
    BY <2>4, <2>5, <2>6
  <2> QED
    BY <1>2, <2>1, <2>2, <2>7, <2>8, <2>9 DEF ConsentVerdict
<1> QED
  BY <1>1, <1>2

\* Whatever configuration is supplied: what is reported of a signal is what the most
\* particular row says of it, a report passes only a configuration that meets the
\* criteria, and fails exactly the dangerous ones (consent_mode_diagnostic.py, the
\* function diagnose_consent_mode).
THEOREM ConsentIsDiagnosed == RulesSpec => []ConsentMeans
<1> DEFINE Diagnosed == evaluated /\ Consent => consentReport = Diagnose(siteEvidence.config)
<1>1. RulesInit => Diagnosed
  BY DEF RulesInit
<1>2. Diagnosed /\ [RulesNext]_ruleVars => Diagnosed'
  <2> SUFFICES ASSUME Diagnosed, [RulesNext]_ruleVars PROVE Diagnosed'
    OBVIOUS
  <2>1. CASE EvaluateConsent
    BY <2>1 DEF EvaluateConsent, Consent
  <2>2. CASE ReadLine \/ Hop \/ LeaveTrail \/ BeginTrail
    BY <2>2 DEF ReadLine, Hop, LeaveTrail, BeginTrail, Consent
  <2>3. CASE EvaluateRobots \/ EndCanonical \/ EvaluateAudit
    BY <2>3 DEF EvaluateRobots, EndCanonical, EvaluateAudit, Robots, Audit, Consent
  <2>4. CASE UNCHANGED ruleVars
    BY <2>4 DEF ruleVars, Consent
  <2> QED
    BY <2>1, <2>2, <2>3, <2>4 DEF RulesNext
<1>3. Diagnosed => ConsentMeans
  BY DiagnosisIsMeant DEF ConsentMeans
<1> QED
  BY <1>1, <1>2, <1>3, PTL DEF RulesSpec

-----------------------------------------------------------------------------
(* Canonical annotations.  The walk from a page is compared with where its *)
(* annotations lead, hop by hop.                                           *)

\* A set of numbers has a smallest one.
LEMMA SmallestOf ==
  ASSUME NEW S \in SUBSET Nat, S # {}
  PROVE  \E n \in S : \A m \in S : n <= m
<1>1. PICK n \in S : \A m \in S : ~ (<<m, n>> \in OpToRel(<, Nat))
  BY NatLessThanWellFounded, WFMin
<1>2. \A m \in S : ~ (m < n)
  BY <1>1 DEF OpToRel
<1> QED
  BY <1>2

\* Where the annotations lead is a function of the hops: without one for every number
\* of hops there would be a smallest number without one.
LEMMA LeadsOnward ==
  ASSUME NEW c, NEW p
  PROVE  /\ Leads(c, p)[0] = p
         /\ \A n \in Nat : Leads(c, p)[n + 1] = Onward(c, Leads(c, p)[n])
<1> DEFINE Goes(f, k) == f = [n \in 0..k |-> IF n = 0 THEN p ELSE Onward(c, f[n - 1])]
           Lost == {k \in Nat : ~ \E f : Goes(f, k)}
<1>1. Lost = {}
  <2> SUFFICES ASSUME Lost # {} PROVE FALSE
    OBVIOUS
  <2>1. PICK k \in Lost : \A m \in Lost : k <= m
    BY SmallestOf
  <2>2. k \in Nat /\ ~ \E f : Goes(f, k)
    BY <2>1
  <2>3. CASE k = 0
    <3>1. Goes([n \in 0..0 |-> p], 0)
      OBVIOUS
    <3> QED
      BY <2>2, <2>3, <3>1
  <2>4. CASE k # 0
    <3>1. k - 1 \in Nat /\ k - 1 \notin Lost
      <4>1. k - 1 \in Nat /\ ~(k <= k - 1)
        BY <2>2, <2>4
      <4> HIDE DEF Lost
      <4> QED
        BY <2>1, <4>1
    <3>2. PICK f : Goes(f, k - 1)
      BY <3>1
    <3> DEFINE g == [n \in 0..k |-> IF n = 0 THEN p ELSE Onward(c, f[n - 1])]
    <3>3. \A n \in 0..(k - 1) : f[n] = g[n]
      <4> TAKE n \in 0..(k - 1)
      <4>1. f[n] = IF n = 0 THEN p ELSE Onward(c, f[n - 1])
        BY <3>2
      <4>2. n \in 0..k
        BY <2>2
      <4>3. g[n] = IF n = 0 THEN p ELSE Onward(c, f[n - 1])
        BY <4>2
      <4> QED
        BY <4>1, <4>3
    <3>4. \A n \in 0..k : g[n] = IF n = 0 THEN p ELSE Onward(c, g[n - 1])
      <4> TAKE n \in 0..k
      <4>1. g[n] = IF n = 0 THEN p ELSE Onward(c, f[n - 1])
        OBVIOUS
      <4>2. n # 0 => n - 1 \in 0..(k - 1)
        BY <2>2
      <4> HIDE DEF g
      <4> QED
        BY <3>3, <4>1, <4>2
    <3>5. g = [n \in 0..k |-> g[n]]
      OBVIOUS
    <3> HIDE DEF g
    <3>6. Goes(g, k)
      BY <3>4, <3>5
    <3> QED
      BY <2>2, <3>6
  <2> QED
    BY <2>3, <2>4
<1> DEFINE F(k) == CHOOSE f : Goes(f, k)
           H == [n \in Nat |-> F(n)[n]]
<1>2. \A k \in Nat : Goes(F(k), k)
  BY <1>1
<1> HIDE DEF F, Lost
\* Two such functions agree where both are defined.
<1>3. \A k \in Nat : \A n \in 0..k : F(k)[n] = F(n)[n]
  <2> DEFINE Odd == {n \in Nat : \E k \in Nat : n <= k /\ F(k)[n] # F(n)[n]}
  <2>1. Odd = {}
    <3> SUFFICES ASSUME Odd # {} PROVE FALSE
      OBVIOUS
    <3>1. PICK n \in Odd : \A m \in Odd : n <= m
      BY SmallestOf
    <3>2. PICK k \in Nat : n <= k /\ F(k)[n] # F(n)[n]
      BY <3>1
    <3>3. n \in Nat /\ n \in 0..k /\ n \in 0..n
      BY <3>1, <3>2
    <3>4. F(k)[n] = (IF n = 0 THEN p ELSE Onward(c, F(k)[n - 1])) /\ F(n)[n] = IF n = 0 THEN p ELSE Onward(c, F(n)[n - 1])
      BY <1>2, <3>3
    <3>5. n # 0
      BY <3>2, <3>4
    <3>6. n - 1 \in Nat /\ n - 1 \notin Odd /\ n - 1 <= k /\ n - 1 <= n
      BY <3>1, <3>3, <3>5
    <3>7. F(k)[n - 1] = F(n - 1)[n - 1] /\ F(n)[n - 1] = F(n - 1)[n - 1]
      BY <3>3, <3>6
    <3> QED
      BY <3>2, <3>4, <3>7
  <2> QED
    BY <2>1
<1>4. \A n \in Nat : H[n] = IF n = 0 THEN p ELSE Onward(c, H[n - 1])
  <2> TAKE n \in Nat
  <2>1. F(n)[n] = IF n = 0 THEN p ELSE Onward(c, F(n)[n - 1])
    BY <1>2
  <2>2. n # 0 => n - 1 \in Nat /\ n - 1 \in 0..n
    OBVIOUS
  <2>3. n # 0 => F(n)[n - 1] = F(n - 1)[n - 1]
    BY <1>3, <2>2
  <2> QED
    BY <2>1, <2>2, <2>3
<1>5. H = [n \in Nat |-> H[n]]
  OBVIOUS
<1> HIDE DEF H
<1>6. H = [n \in Nat |-> IF n = 0 THEN p ELSE Onward(c, H[n - 1])]
  BY <1>4, <1>5
<1>7. Leads(c, p) = CHOOSE f : f = [n \in Nat |-> IF n = 0 THEN p ELSE Onward(c, f[n - 1])]
  BY DEF Leads
<1>8. Leads(c, p) = [n \in Nat |-> IF n = 0 THEN p ELSE Onward(c, Leads(c, p)[n - 1])]
  BY <1>6, <1>7
<1>9. \A n \in Nat : Leads(c, p)[n] = IF n = 0 THEN p ELSE Onward(c, Leads(c, p)[n - 1])
  BY <1>8
<1> QED
  <2>1. Leads(c, p)[0] = p
    BY <1>9
  <2>2. ASSUME NEW n \in Nat PROVE Leads(c, p)[n + 1] = Onward(c, Leads(c, p)[n])
    <3>1. n + 1 \in Nat /\ n + 1 # 0 /\ (n + 1) - 1 = n
      OBVIOUS
    <3> QED
      BY <1>9, <3>1
  <2> QED
    BY <2>1, <2>2

\* A walk in the annotations, and one whose first pages differ and lead on.
Walks(L) == \A n \in Nat : L[n + 1] = Onward(CanonicalOf, L[n])
Path(L, h) ==
  /\ \A n \in 0..h : L[n] \in Crawled /\ CanonicalOf[L[n]] # NoPage
  /\ \A m, n \in 0..h : m < n => L[m] # L[n]
  /\ L[h + 1] # L[h]

LEMMA ReturnIsCircular ==
  ASSUME NEW L, Walks(L), MaxHops \in Nat, NEW h \in 0..(MaxHops - 1), Path(L, h), NEW m \in 0..h, L[h + 1] = L[m]
  PROVE  Circular(L)
<1>1. m # h /\ m \in 0..h /\ h \in Nat
  BY DEF Path
<1>2. \E n \in 1..MaxHops : L[n] \in Crawled /\ L[n - 1] # L[n] /\ \E k \in 0..(n - 1) : L[n] = L[k]
  <2>1. h + 1 \in 1..MaxHops /\ (h + 1) - 1 = h
    OBVIOUS
  <2>2. L[h + 1] \in Crawled /\ L[h] # L[h + 1]
    BY <1>1 DEF Path
  <2> QED
    BY <1>1, <2>1, <2>2
<1>3. \A n \in Nat : \E i \in 0..h : L[n] = L[i]
  <2> DEFINE Off == {n \in Nat : ~ \E i \in 0..h : L[n] = L[i]}
  <2>1. Off = {}
    <3> SUFFICES ASSUME Off # {} PROVE FALSE
      OBVIOUS
    <3>1. PICK n \in Off : \A k \in Off : n <= k
      BY SmallestOf
    <3>2. n \in Nat /\ n # 0
      BY <1>1, <3>1
    <3>3. n - 1 \in Nat /\ n - 1 \notin Off
      <4>1. n - 1 \in Nat /\ ~(n <= n - 1)
        BY <3>2
      <4> HIDE DEF Off
      <4> QED
        BY <3>1, <4>1
    <3>4. PICK i \in 0..h : L[n - 1] = L[i]
      BY <3>3
    <3>5. L[n] = L[i + 1]
      <4>1. (n - 1) + 1 = n /\ i \in Nat
        BY <1>1, <3>2, <3>4
      <4>2. L[(n - 1) + 1] = Onward(CanonicalOf, L[n - 1]) /\ L[i + 1] = Onward(CanonicalOf, L[i])
        BY <3>3, <4>1 DEF Walks
      <4> QED
        BY <3>4, <4>1, <4>2
    <3>6. \E k \in 0..h : L[n] = L[k]
      <4>1. CASE i = h
        BY <1>1, <3>5, <4>1
      <4>2. CASE i # h
        <5>1. i + 1 \in 0..h
          BY <1>1, <3>4, <4>2
        <5> QED
          BY <3>5, <5>1
      <4> QED
        BY <4>1, <4>2
    <3> QED
      BY <3>1, <3>6
  <2> QED
    BY <2>1
<1>4. \A n \in Nat : L[n] # L[n + 1]
  <2> TAKE n \in Nat
  <2>1. PICK i \in 0..h : L[n] = L[i]
    BY <1>3
  <2>2. L[n + 1] = L[i + 1]
    <3>1. i \in Nat
      BY <1>1, <2>1
    <3>2. L[n + 1] = Onward(CanonicalOf, L[n]) /\ L[i + 1] = Onward(CanonicalOf, L[i])
      BY <3>1 DEF Walks
    <3> QED
      BY <2>1, <3>2
  <2>3. L[i + 1] # L[i]
    <3>1. CASE i = h
      BY <3>1 DEF Path
    <3>2. CASE i # h
      <4>1. i + 1 \in 0..h /\ i < i + 1
        BY <1>1, <2>1, <3>2
      <4> QED
        BY <2>1, <4>1 DEF Path
    <3> QED
      BY <3>1, <3>2
  <2> QED
    BY <2>1, <2>2, <2>3
<1>5. \A n \in 1..MaxHops : L[n] # L[n + 1]
  BY <1>4
<1> QED
  BY <1>2, <1>5 DEF Circular

LEMMA StraightAtBound ==
  ASSUME NEW L, MaxHops \in Nat, NEW h \in 0..(MaxHops - 1), Path(L, h), \A n \in 0..h : L[h + 1] # L[n],
         h + 1 = MaxHops
  PROVE  ~Circular(L)
<1>1. ASSUME NEW n \in 1..MaxHops, NEW m \in 0..(n - 1), L[n] = L[m] PROVE FALSE
  <2>1. CASE n = h + 1
    <3>1. m \in 0..h
      BY <1>1, <2>1
    <3> QED
      BY <1>1, <2>1, <3>1
  <2>2. CASE n # h + 1
    <3>1. n \in 0..h /\ m \in 0..h /\ m < n
      BY <1>1, <2>2
    <3> QED
      BY <1>1, <3>1 DEF Path
  <2> QED
    BY <2>1, <2>2
<1> QED
  BY <1>1 DEF Circular

LEMMA StraightAtEnd ==
  ASSUME NEW L, Walks(L), MaxHops \in Nat, NEW h \in 0..(MaxHops - 1), Path(L, h), NoPage \notin Crawled,
         \/ L[h + 2] = L[h + 1]
         \/ L[h + 1] \notin Crawled
         \/ CanonicalOf[L[h + 1]] = NoPage
  PROVE  ~Circular(L)
<1>1. h + 1 \in 1..MaxHops /\ h + 1 \in Nat /\ (h + 1) + 1 = h + 2 /\ h + 2 \in Nat /\ (h + 2) + 1 = h + 3 /\ h \in Nat
  OBVIOUS
<1>2. CASE L[h + 2] = L[h + 1]
  BY <1>1, <1>2 DEF Circular
<1>3. CASE L[h + 1] \notin Crawled
  <2>1. L[h + 2] = Onward(CanonicalOf, L[h + 1])
    BY <1>1 DEF Walks
  <2>2. L[h + 2] = L[h + 1]
    BY <1>3, <2>1 DEF Onward, Crawled
  <2> QED
    BY <1>2, <2>2
<1>4. CASE L[h + 1] \in Crawled /\ CanonicalOf[L[h + 1]] = NoPage
  <2>1. L[h + 2] = NoPage
    <3>1. L[h + 2] = Onward(CanonicalOf, L[h + 1])
      BY <1>1 DEF Walks
    <3> QED
      BY <1>4, <3>1 DEF Onward, Crawled
  <2>2. L[h + 3] = L[h + 2]
    <3>1. L[h + 3] = Onward(CanonicalOf, L[h + 2])
      BY <1>1 DEF Walks
    <3> QED
      BY <2>1, <3>1 DEF Onward, Crawled
  <2>3. CASE h + 2 \in 1..MaxHops
    BY <1>1, <2>2, <2>3 DEF Circular
  <2>4. CASE h + 2 \notin 1..MaxHops
    <3>1. h + 1 = MaxHops
      BY <2>4
    <3>2. \A n \in 0..h : L[h + 1] # L[n]
      BY <1>4 DEF Path
    <3> QED
      BY <3>1, <3>2, StraightAtBound
  <2> QED
    BY <2>3, <2>4
<1> QED
  BY <1>2, <1>3, <1>4

\* What is said of an origin when its walk has ended.
Judged(p) ==
  LET lead == Leads(CanonicalOf, p)
  IN  /\ p \in Reported("canonical-cycle") <=> Circular(lead)
      /\ p \in Reported("canonical-chain") => Cardinality({lead[n] : n \in 0..2}) = 3
      /\ ~Circular(lead) /\ lead[1] # lead[2] /\ lead[1] \in Crawled
           /\ lead[2] \in Crawled /\ CanonicalOf[lead[2]] # NoPage
           => p \in Reported("canonical-chain")

Unreported(p) == p \notin Reported("canonical-cycle") \cup Reported("canonical-chain")

OnPath ==
  LET lead == Leads(CanonicalOf, trail.origin) IN
  /\ trail = [origin |-> trail.origin, at |-> lead[trail.hops + 1],
              seen |-> {lead[n] : n \in 0..trail.hops}, hops |-> trail.hops]
  /\ trail.origin \in NonSelf(CanonicalOf) \ origins
  /\ trail.hops \in 0..(MaxHops - 1)
  /\ Path(lead, trail.hops)

\* An origin is still to be followed, is being followed, or has been judged.
WalkInv ==
  Canonicals =>
    /\ NoPage \notin Crawled /\ Crawled \subseteq Nat
    /\ origins \subseteq NonSelf(CanonicalOf)
    /\ trail = NoTrail \/ OnPath
    /\ \A p \in NonSelf(CanonicalOf) : IF p \in origins \cup {trail.origin} THEN Unreported(p) ELSE Judged(p)
    /\ evaluated => trail = NoTrail /\ origins = {}

LEMMA CrawledIsNumbered ==
  ASSUME Canonicals, siteEvidence \in SiteEvidence
  PROVE  NoPage \notin Crawled /\ Crawled \subseteq Nat
<1>1. CASE ~Audit
  BY <1>1, EvidenceAssumption DEF Canonicals, Audit, Crawled, CanonicalOf, NoPage
<1>2. CASE Audit
  <2> DEFINE P == PageRecords(siteEvidence.crawl)
  <2>1. Crawled = At(P, DOMAIN P)
    BY <1>2 DEF Crawled, CanonicalOf
  <2>2. DOMAIN P = DOMAIN siteEvidence.crawl.replies /\ \A i \in DOMAIN P : P[i].at = siteEvidence.crawl.replies[i].at
    BY DEF PageRecords, PageRecord
  <2>3. \A i \in DOMAIN P : P[i].at \in Nat \ {0}
    BY <1>2, <2>2, EvidenceAssumption DEF AuditedCrawl, Audit, Range
  <2> QED
    BY <2>1, <2>3 DEF At, NoPage
<1> QED
  BY <1>1, <1>2

LEMMA LeadsWalk ==
  ASSUME NEW p \in NonSelf(CanonicalOf)
  PROVE  LET lead == Leads(CanonicalOf, p) IN
         /\ lead[0] = p /\ Walks(lead) /\ lead[1] = CanonicalOf[p]
         /\ p \in Crawled /\ CanonicalOf[p] # NoPage /\ CanonicalOf[p] # p
<1>1. p \in Crawled /\ CanonicalOf[p] # NoPage /\ CanonicalOf[p] # p
  BY DEF NonSelf, Crawled
<1>2. Leads(CanonicalOf, p)[0] = p /\ \A n \in Nat : Leads(CanonicalOf, p)[n + 1] = Onward(CanonicalOf, Leads(CanonicalOf, p)[n])
  BY LeadsOnward
<1>3. 0 \in Nat /\ 0 + 1 = 1
  OBVIOUS
<1>4. Leads(CanonicalOf, p)[1] = Onward(CanonicalOf, Leads(CanonicalOf, p)[0])
  BY <1>2, <1>3
<1> QED
  BY <1>1, <1>2, <1>4 DEF Walks, Onward, Crawled

LEMMA WalkBegins == RulesInit => WalkInv
<1> SUFFICES ASSUME RulesInit, Canonicals PROVE WalkInv
  BY DEF WalkInv
<1>1. NoPage \notin Crawled /\ Crawled \subseteq Nat
  BY CrawledIsNumbered DEF RulesInit
<1>2. origins = NonSelf(CanonicalOf) /\ trail = NoTrail /\ ~evaluated /\ ruleFindings = {}
  BY DEF RulesInit
<1>3. \A p : Unreported(p)
  BY <1>2 DEF Unreported, Reported
<1> QED
  BY <1>1, <1>2, <1>3 DEF WalkInv

\* The end of a walk says something of its origin, and of nobody else.
LEMMA EndReports ==
  ASSUME NEW cyclic \in BOOLEAN, NEW hops \in Nat, EndTrail(cyclic, hops)
  PROVE  /\ \A p : p \in Reported("canonical-cycle")' <=> p \in Reported("canonical-cycle") \/ (cyclic /\ p = trail.origin)
         /\ \A p : p \in Reported("canonical-chain")' <=>
                 p \in Reported("canonical-chain") \/ (~cyclic /\ hops > 1 /\ p = trail.origin)
<1> DEFINE new == IF cyclic THEN {<<"canonical-cycle", trail.origin>>}
                  ELSE IF hops > 1 THEN {<<"canonical-chain", trail.origin>>} ELSE {}
<1>1. ruleFindings' = ruleFindings \cup new
  BY DEF EndTrail
<1>2. ASSUME NEW kind, NEW p
      PROVE  p \in Reported(kind)' <=> p \in Reported(kind) \/ \E f \in new : f[1] = kind /\ f[2] = p
  <2> HIDE DEF new
  <2>1. Reported(kind)' = {f[2] : f \in {g \in ruleFindings' : g[1] = kind}}
    BY DEF Reported
  <2> QED
    BY <1>1, <2>1 DEF Reported
<1>3. CASE cyclic
  <2>1. \A kind, p : (\E f \in new : f[1] = kind /\ f[2] = p) <=> kind = "canonical-cycle" /\ p = trail.origin
    <3>1. new = {<<"canonical-cycle", trail.origin>>}
      BY <1>3
    <3> HIDE DEF new
    <3> QED
      BY <3>1
  <2> HIDE DEF new
  <2> QED
    BY <1>2, <1>3, <2>1
<1>4. CASE ~cyclic
  <2>1. \A kind, p : (\E f \in new : f[1] = kind /\ f[2] = p) <=> hops > 1 /\ kind = "canonical-chain" /\ p = trail.origin
    <3>1. new = IF hops > 1 THEN {<<"canonical-chain", trail.origin>>} ELSE {}
      BY <1>4
    <3> HIDE DEF new
    <3>2. CASE hops > 1
      <4>1. new = {<<"canonical-chain", trail.origin>>}
        BY <3>1, <3>2
      <4> QED
        BY <3>2, <4>1
    <3>3. CASE ~(hops > 1)
      BY <3>1, <3>3
    <3> QED
      BY <3>2, <3>3
  <2> HIDE DEF new
  <2> QED
    BY <1>2, <1>4, <2>1
<1> QED
  BY <1>3, <1>4

\* The walk of an origin has ended and is judged: all others stay as they were.
LEMMA EndIsJudged ==
  ASSUME Canonicals, WalkInv, OnPath, trail # NoTrail, NEW cyclic \in BOOLEAN, NEW hops \in Nat, EndTrail(cyclic, hops),
         UNCHANGED <<siteEvidence, origins, evaluated>>, ~evaluated,
         LET lead == Leads(CanonicalOf, trail.origin)
         IN  /\ cyclic <=> Circular(lead)
             /\ ~cyclic /\ hops > 1 => Cardinality({lead[n] : n \in 0..2}) = 3
             /\ ~Circular(lead) /\ lead[1] # lead[2] /\ lead[1] \in Crawled
                  /\ lead[2] \in Crawled /\ CanonicalOf[lead[2]] # NoPage => hops > 1
  PROVE  WalkInv'
<1>0. PICK o : o = trail.origin
  OBVIOUS
<1>1. /\ CanonicalOf' = CanonicalOf /\ Crawled' = Crawled /\ Canonicals' /\ origins' = origins /\ trail' = NoTrail
      /\ ~evaluated'
  BY DEF CanonicalOf, Crawled, Canonicals, Audit, EndTrail
<1>2. /\ \A p : p \in Reported("canonical-cycle")' <=> p \in Reported("canonical-cycle") \/ (cyclic /\ p = o)
      /\ \A p : p \in Reported("canonical-chain")' <=> p \in Reported("canonical-chain") \/ (~cyclic /\ hops > 1 /\ p = o)
  BY <1>0, EndReports
<1>3. o \in NonSelf(CanonicalOf) /\ o \notin origins
  BY <1>0 DEF OnPath
<1>4. \A lead : Circular(lead)' <=> Circular(lead)
  BY <1>1 DEF Circular
<1>5. Unreported(o)
  BY <1>0, <1>3 DEF WalkInv
<1>6. Judged(o)'
  BY <1>0, <1>1, <1>2, <1>4, <1>5 DEF Judged, Unreported
<1>7. NoTrail.origin \notin NonSelf(CanonicalOf)
  BY DEF WalkInv, NoTrail, NonSelf, Crawled
<1>8. ASSUME NEW p \in NonSelf(CanonicalOf), p # o
      PROVE  IF p \in origins THEN Unreported(p)' ELSE Judged(p)'
  <2>1. /\ p \in Reported("canonical-cycle")' <=> p \in Reported("canonical-cycle")
        /\ p \in Reported("canonical-chain")' <=> p \in Reported("canonical-chain")
    BY <1>2, <1>8
  <2>2. IF p \in origins THEN Unreported(p) ELSE Judged(p)
    BY <1>0, <1>8 DEF WalkInv
  <2>3. CASE p \in origins
    BY <2>1, <2>2, <2>3 DEF Unreported
  <2>4. CASE p \notin origins
    <3>1. Judged(p)
      BY <2>2, <2>4
    <3>2. Judged(p)'
      BY <1>1, <1>4, <2>1, <3>1 DEF Judged
    <3> QED
      BY <2>4, <3>2
  <2> QED
    BY <2>3, <2>4
<1>9. \A p \in NonSelf(CanonicalOf') : IF p \in origins' \cup {trail'.origin} THEN Unreported(p)' ELSE Judged(p)'
  BY <1>1, <1>3, <1>6, <1>7, <1>8
<1> QED
  BY <1>1, <1>9 DEF WalkInv

LEMMA ThreePages ==
  ASSUME NEW L, L[0] # L[1], L[0] # L[2], L[1] # L[2]
  PROVE  Cardinality({L[n] : n \in 0..2}) = 3
<1>1. {L[n] : n \in 0..2} = (({} \cup {L[0]}) \cup {L[1]}) \cup {L[2]}
  <2>1. 0..2 = {0, 1, 2}
    OBVIOUS
  <2> QED
    BY <2>1
<1>2. IsFiniteSet({}) /\ Cardinality({}) = 0
  BY FS_EmptySet
<1>3. IsFiniteSet({} \cup {L[0]}) /\ Cardinality({} \cup {L[0]}) = 1
  BY <1>2, FS_AddElement
<1>4. IsFiniteSet(({} \cup {L[0]}) \cup {L[1]}) /\ Cardinality(({} \cup {L[0]}) \cup {L[1]}) = 2
  BY <1>3, FS_AddElement
<1> QED
  BY <1>1, <1>4, FS_AddElement

LEMMA WalkSteps == WalkInv /\ siteEvidence \in SiteEvidence /\ [RulesNext]_ruleVars => WalkInv'
<1> SUFFICES ASSUME WalkInv, [RulesNext]_ruleVars PROVE WalkInv'
  OBVIOUS
<1>0. siteEvidence' = siteEvidence
  BY DEF RulesNext, ruleVars, ReadLine, EvaluateRobots, EvaluateConsent, BeginTrail, Hop, LeaveTrail,
    EndCanonical, EvaluateAudit
<1>1. /\ CanonicalOf' = CanonicalOf /\ Crawled' = Crawled /\ (Canonicals' <=> Canonicals)
      /\ \A lead : Circular(lead)' <=> Circular(lead)
  <2>1. CanonicalOf' = CanonicalOf
    BY <1>0 DEF CanonicalOf, Audit
  <2>2. Crawled' = Crawled
    BY <2>1 DEF Crawled
  <2> QED
    BY <1>0, <2>1, <2>2 DEF Canonicals, Circular
<1>2. CASE ~Canonicals
  BY <1>1, <1>2 DEF WalkInv
<1> SUFFICES ASSUME Canonicals PROVE WalkInv'
  BY <1>2
<1>3. NoPage \notin Crawled /\ Crawled \subseteq Nat
  BY DEF WalkInv
<1>4. ASSUME UNCHANGED <<origins, trail, ruleFindings>>, evaluated' => trail = NoTrail /\ origins = {} PROVE WalkInv'
  <2>1. \A kind : Reported(kind)' = Reported(kind)
    BY <1>4 DEF Reported
  <2>2. \A p : (Unreported(p)' <=> Unreported(p)) /\ (Judged(p)' <=> Judged(p))
    BY <1>1, <2>1 DEF Unreported, Judged
  <2>3. OnPath' <=> OnPath
    BY <1>1, <1>4 DEF OnPath, Path
  <2> QED
    BY <1>1, <1>4, <2>2, <2>3 DEF WalkInv
<1>5. CASE ReadLine \/ EvaluateRobots \/ EvaluateConsent
  BY <1>5 DEF ReadLine, EvaluateRobots, EvaluateConsent, Robots, Consent, Canonicals
<1>6. CASE EndCanonical \/ EvaluateAudit
  BY <1>4, <1>6 DEF EndCanonical, EvaluateAudit
<1>7. CASE UNCHANGED ruleVars
  BY <1>4, <1>7 DEF ruleVars, WalkInv
<1>8. CASE BeginTrail
  <2>0. trail = NoTrail /\ origins # {} /\ ~evaluated
    BY <1>8 DEF BeginTrail
  <2>1. PICK o : o = Min(origins)
    OBVIOUS
  <2>2. o \in origins /\ o \in NonSelf(CanonicalOf)
    <3>1. origins \subseteq Nat /\ origins \subseteq NonSelf(CanonicalOf)
      BY <1>3 DEF WalkInv, NonSelf, Crawled
    <3> QED
      BY <2>0, <2>1, <3>1, SmallestOf DEF Min
  <2>3. /\ origins' = origins \ {o} /\ trail' = [origin |-> o, at |-> CanonicalOf[o], seen |-> {o}, hops |-> 0]
        /\ ruleFindings' = ruleFindings /\ evaluated' = evaluated
    BY <1>8, <2>1 DEF BeginTrail
  <2> DEFINE L == Leads(CanonicalOf, o)
  <2>4. L[0] = o /\ L[1] = CanonicalOf[o] /\ o \in Crawled /\ CanonicalOf[o] # NoPage /\ CanonicalOf[o] # o
    BY <2>2, LeadsWalk
  <2>5. OnPath'
    <3>1. trail'.origin = o /\ trail'.hops = 0 /\ Leads(CanonicalOf, trail.origin)' = L
      BY <1>1, <2>3
    <3> HIDE DEF L
    <3>2. {L[n] : n \in 0..0} = {o}
      BY <2>4
    <3>3. trail' = [origin |-> o, at |-> L[0 + 1], seen |-> {L[n] : n \in 0..0}, hops |-> 0]
      BY <2>3, <2>4, <3>2
    <3>4. 0 \in 0..(MaxHops - 1)
      BY RulesAssumption
    <3>5. Path(L, 0)
      BY <2>4 DEF Path
    <3>6. Path(L, 0)'
      BY <1>1, <3>5 DEF Path, L
    <3> QED
      BY <1>1, <2>2, <2>3, <3>1, <3>3, <3>4, <3>6 DEF OnPath, L
  <2>6. \A p : (Unreported(p)' <=> Unreported(p)) /\ (Judged(p)' <=> Judged(p))
    BY <1>1, <2>3 DEF Unreported, Judged, Reported
  <2>7. NoTrail.origin \notin NonSelf(CanonicalOf)
    BY <1>3 DEF NoTrail, NonSelf, Crawled
  <2>8. origins' \cup {trail'.origin} = origins
    BY <2>2, <2>3
  <2>9. \A p \in NonSelf(CanonicalOf) : IF p \in origins THEN Unreported(p) ELSE Judged(p)
    BY <2>0, <2>7 DEF WalkInv
  <2> QED
    BY <1>1, <1>3, <2>0, <2>2, <2>3, <2>5, <2>6, <2>8, <2>9 DEF WalkInv
<1> DEFINE L == Leads(CanonicalOf, trail.origin)
           h == trail.hops
<1>11. ASSUME OnPath
       PROVE  /\ Walks(L) /\ L[0] = trail.origin /\ MaxHops \in Nat /\ h \in 0..(MaxHops - 1) /\ Path(L, h)
              /\ trail.at = L[h + 1] /\ trail.seen = {L[n] : n \in 0..h}
              /\ L[h + 2] = Onward(CanonicalOf, L[h + 1])
  <2>1. trail.origin \in NonSelf(CanonicalOf)
    BY <1>11 DEF OnPath
  <2>2. Walks(L) /\ L[0] = trail.origin
    BY <2>1, LeadsWalk
  <2>3. MaxHops \in Nat /\ h \in 0..(MaxHops - 1) /\ Path(L, h) /\ h + 1 \in Nat /\ (h + 1) + 1 = h + 2
    BY <1>11, RulesAssumption DEF OnPath
  <2>4. trail.at = L[h + 1] /\ trail.seen = {L[n] : n \in 0..h}
    BY <1>11 DEF OnPath
  <2> QED
    BY <2>2, <2>3, <2>4 DEF Walks
<1>9. CASE Hop
  <2>0. OnTrail /\ ~evaluated /\ UNCHANGED <<siteEvidence, origins, evaluated>>
    BY <1>9 DEF Hop
  <2>1. OnPath /\ trail # NoTrail
    BY <2>0 DEF OnTrail, WalkInv
  <2>2. /\ Walks(L) /\ MaxHops \in Nat /\ h \in 0..(MaxHops - 1) /\ Path(L, h)
        /\ trail.at = L[h + 1] /\ trail.seen = {L[n] : n \in 0..h} /\ L[h + 2] = Onward(CanonicalOf, L[h + 1])
    BY <1>11, <2>1
  <2>3. L[h + 1] \in Crawled /\ CanonicalOf[L[h + 1]] # NoPage /\ L[h + 2] = CanonicalOf[trail.at]
    BY <2>0, <2>2 DEF OnTrail, Onward, Crawled
  <2>4. CASE Returns(trail) \/ L[h + 2] = trail.at \/ h + 1 >= MaxHops
    <3>1. EndTrail(Returns(trail), h + 1)
      BY <1>9, <2>3, <2>4 DEF Hop
    <3>2. Returns(trail) \in BOOLEAN /\ h + 1 \in Nat
      BY <2>2 DEF Returns
    <3>3. Returns(trail) <=> \E m \in 0..h : L[h + 1] = L[m]
      BY <2>2 DEF Returns
    <3>4. Returns(trail) <=> Circular(L)
      <4>1. CASE Returns(trail)
        BY <2>2, <3>3, <4>1, ReturnIsCircular
      <4>2. CASE ~Returns(trail)
        <5>1. CASE L[h + 2] = trail.at
          BY <1>3, <2>2, <4>2, <5>1, StraightAtEnd
        <5>2. CASE L[h + 2] # trail.at
          <6>1. h + 1 = MaxHops
            BY <2>2, <2>4, <4>2, <5>2
          <6>2. \A n \in 0..h : L[h + 1] # L[n]
            BY <3>3, <4>2
          <6> QED
            BY <2>2, <4>2, <6>1, <6>2, StraightAtBound
        <5> QED
          BY <5>1, <5>2
      <4> QED
        BY <4>1, <4>2
    <3>5. ~Returns(trail) /\ h + 1 > 1 => Cardinality({L[n] : n \in 0..2}) = 3
      <4> SUFFICES ASSUME ~Returns(trail), h + 1 > 1 PROVE Cardinality({L[n] : n \in 0..2}) = 3
        OBVIOUS
      <4> HIDE DEF L, h
      <4>1. 0 \in 0..h /\ 1 \in 0..h /\ 0 < 1 /\ 0 < 2 /\ 1 < 2
        BY <2>2
      <4>2. L[0] # L[1]
        BY <2>2, <4>1 DEF Path
      <4>3. CASE h = 1
        <5>1. L[2] # L[0] /\ L[2] # L[1]
          BY <3>3, <4>1, <4>3
        <5> QED
          BY <4>2, <5>1, ThreePages
      <4>4. CASE h # 1
        <5>1. 2 \in 0..h
          BY <2>2, <4>1, <4>4
        <5>2. L[0] # L[2] /\ L[1] # L[2]
          BY <2>2, <4>1, <5>1 DEF Path
        <5> QED
          BY <4>2, <5>2, ThreePages
      <4> QED
        BY <4>3, <4>4
    <3>6. ~Circular(L) /\ L[1] # L[2] => h + 1 > 1
      <4> SUFFICES ASSUME ~Circular(L), L[1] # L[2], ~(h + 1 > 1) PROVE FALSE
        OBVIOUS
      <4> HIDE DEF L, h
      <4>1. h = 0
        BY <2>2
      <4>2. L[2] # trail.at
        BY <2>2, <4>1
      <4>3. h + 1 >= MaxHops
        BY <2>4, <3>4, <4>1, <4>2
      <4> QED
        BY <4>1, <4>3, RulesAssumption
    <3> HIDE DEF L, h
    <3> QED
      BY <2>0, <2>1, <3>1, <3>2, <3>4, <3>5, <3>6, EndIsJudged DEF L, h
  <2>5. CASE ~(Returns(trail) \/ L[h + 2] = trail.at \/ h + 1 >= MaxHops)
    <3>1. /\ trail' = [trail EXCEPT !.at = L[h + 2], !.seen = @ \cup {L[h + 1]}, !.hops = h + 1]
          /\ ruleFindings' = ruleFindings
      BY <1>9, <2>2, <2>3, <2>5 DEF Hop
    <3>2. PICK o, m : o = trail.origin /\ m = h
      OBVIOUS
    <3> DEFINE lead == Leads(CanonicalOf, o)
    <3>3. lead = L
      BY <3>2
    <3>4. trail = [origin |-> o, at |-> lead[m + 1], seen |-> {lead[n] : n \in 0..m}, hops |-> m]
      BY <2>1, <3>2 DEF OnPath
    <3>5. trail' = [origin |-> o, at |-> lead[m + 2], seen |-> {lead[n] : n \in 0..m} \cup {lead[m + 1]}, hops |-> m + 1]
      <4>1. trail' = [trail EXCEPT !.at = lead[m + 2], !.seen = @ \cup {lead[m + 1]}, !.hops = m + 1]
        BY <3>1, <3>2
      <4> HIDE DEF lead
      <4> QED
        BY <3>4, <4>1
    <3> HIDE DEF L, h
    <3>6. m \in Nat /\ m + 1 \in 0..(MaxHops - 1) /\ (m + 1) + 1 = m + 2
      BY <2>2, <2>5, <3>2
    <3>7. {lead[n] : n \in 0..m} \cup {lead[m + 1]} = {lead[n] : n \in 0..(m + 1)}
      <4>1. 0..(m + 1) = (0..m) \cup {m + 1}
        BY <3>6
      <4> HIDE DEF lead
      <4> QED
        BY <4>1
    <3>8. Path(lead, m + 1)
      <4>1. Path(lead, m) /\ lead[m + 1] \in Crawled /\ CanonicalOf[lead[m + 1]] # NoPage
        BY <2>2, <2>3, <3>2, <3>3
      <4>2. lead[m + 2] # lead[m + 1]
        BY <2>2, <2>5, <3>2, <3>3
      <4>3. \A n \in 0..m : lead[m + 1] # lead[n]
        BY <2>2, <2>5, <3>2, <3>3 DEF Returns
      <4> HIDE DEF lead
      <4>4. \A n \in 0..(m + 1) : n \in 0..m \/ n = m + 1
        BY <3>6
      <4>5. \A n \in 0..(m + 1) : lead[n] \in Crawled /\ CanonicalOf[lead[n]] # NoPage
        BY <4>1, <4>4 DEF Path
      <4>6. \A k, n \in 0..(m + 1) : k < n => lead[k] # lead[n]
        <5> SUFFICES ASSUME NEW k \in 0..(m + 1), NEW n \in 0..(m + 1), k < n PROVE lead[k] # lead[n]
          OBVIOUS
        <5>1. k \in 0..m
          BY <3>6
        <5>2. CASE n = m + 1
          BY <4>3, <5>1, <5>2
        <5>3. CASE n # m + 1
          <6>1. n \in 0..m
            BY <4>4, <5>3
          <6> QED
            BY <4>1, <5>1, <6>1 DEF Path
        <5> QED
          BY <5>2, <5>3
      <4> QED
        BY <3>6, <4>2, <4>5, <4>6 DEF Path
    <3>9. OnPath'
      <4>1. trail'.origin = o /\ trail'.hops = m + 1 /\ Leads(CanonicalOf, trail.origin)' = lead
        BY <1>1, <3>5
      <4>2. Path(lead, m + 1)'
        BY <1>1, <3>8 DEF Path
      <4>3. o \in NonSelf(CanonicalOf) \ origins
        BY <2>1, <3>2 DEF OnPath
      <4> HIDE DEF lead
      <4>4. trail' = [origin |-> o, at |-> lead[(m + 1) + 1], seen |-> {lead[n] : n \in 0..(m + 1)}, hops |-> m + 1]
        BY <3>5, <3>6, <3>7
      <4> QED
        BY <1>1, <2>0, <3>6, <4>1, <4>2, <4>3, <4>4 DEF OnPath, lead
    <3>10. \A p : (Unreported(p)' <=> Unreported(p)) /\ (Judged(p)' <=> Judged(p))
      BY <1>1, <3>1 DEF Unreported, Judged, Reported
    <3>11. trail'.origin = trail.origin /\ origins' = origins /\ ~evaluated'
      BY <2>0, <3>2, <3>5
    <3> QED
      BY <1>1, <3>9, <3>10, <3>11 DEF WalkInv
  <2> QED
    BY <2>4, <2>5
<1>10. CASE LeaveTrail
  <2>0. trail # NoTrail /\ ~OnTrail /\ EndTrail(FALSE, h) /\ ~evaluated /\ UNCHANGED <<siteEvidence, origins, evaluated>>
    BY <1>10 DEF LeaveTrail
  <2>1. OnPath
    BY <2>0 DEF WalkInv
  <2>2. /\ Walks(L) /\ MaxHops \in Nat /\ h \in 0..(MaxHops - 1) /\ Path(L, h)
        /\ trail.at = L[h + 1] /\ L[h + 2] = Onward(CanonicalOf, L[h + 1])
    BY <1>11, <2>1
  <2>3. L[h + 1] \notin Crawled \/ CanonicalOf[L[h + 1]] = NoPage
    BY <2>0, <2>2 DEF OnTrail
  <2>4. ~Circular(L)
    BY <1>3, <2>2, <2>3, StraightAtEnd
  <2>5. h > 1 => Cardinality({L[n] : n \in 0..2}) = 3
    <3> SUFFICES ASSUME h > 1 PROVE Cardinality({L[n] : n \in 0..2}) = 3
      OBVIOUS
    <3> HIDE DEF L, h
    <3>1. 0 \in 0..h /\ 1 \in 0..h /\ 2 \in 0..h /\ 0 < 1 /\ 0 < 2 /\ 1 < 2
      BY <2>2
    <3>2. L[0] # L[1] /\ L[0] # L[2] /\ L[1] # L[2]
      BY <2>2, <3>1 DEF Path
    <3> QED
      BY <3>2, ThreePages
  <2>6. L[1] \in Crawled /\ L[2] \in Crawled /\ CanonicalOf[L[2]] # NoPage => h > 1
    <3> SUFFICES ASSUME L[1] \in Crawled, L[2] \in Crawled, CanonicalOf[L[2]] # NoPage, ~(h > 1) PROVE FALSE
      OBVIOUS
    <3> HIDE DEF L, h
    <3>1. h = 0 \/ h = 1
      BY <2>2
    <3>2. CASE h = 0
      <4>1. CanonicalOf[L[1]] = NoPage /\ L[2] = Onward(CanonicalOf, L[1])
        BY <2>2, <2>3, <3>2
      <4> QED
        BY <1>3, <4>1 DEF Onward, Crawled
    <3>3. CASE h = 1
      BY <2>3, <3>3
    <3> QED
      BY <3>1, <3>2, <3>3
  <2>7. h \in Nat
    BY <2>2
  <2> HIDE DEF L, h
  <2> QED
    BY <2>0, <2>1, <2>4, <2>5, <2>6, <2>7, EndIsJudged DEF L, h
<1> QED
  BY <1>5, <1>6, <1>7, <1>8, <1>9, <1>10 DEF RulesNext

\* Whatever the pages of a site name as their canonical address: a cycle is reported
\* exactly where the annotations run in one within the bound, a reported chain has two
\* hops or more, and one that ends at a page that names itself is reported
\* (canonical_rules.py:34-58).
THEOREM CanonicalsAreFollowed == RulesSpec => []CanonicalsMean
<1>1. RulesInit => WalkInv /\ siteEvidence \in SiteEvidence
  BY WalkBegins DEF RulesInit
<1>2. siteEvidence \in SiteEvidence /\ [RulesNext]_ruleVars => siteEvidence' \in SiteEvidence
  BY DEF RulesNext, ruleVars, ReadLine, EvaluateRobots, EvaluateConsent, BeginTrail, Hop, LeaveTrail,
    EndCanonical, EvaluateAudit
<1>3. WalkInv /\ siteEvidence \in SiteEvidence /\ [RulesNext]_ruleVars => (WalkInv /\ siteEvidence \in SiteEvidence)'
  BY <1>2, WalkSteps
<1>4. WalkInv => CanonicalsMean
  <2> SUFFICES ASSUME WalkInv, evaluated, Canonicals PROVE CanonicalVerdict
    BY DEF CanonicalsMean
  <2>1. trail = NoTrail /\ origins = {} /\ NoPage \notin Crawled
    BY DEF WalkInv
  <2>2. \A p \in NonSelf(CanonicalOf) : p \notin origins \cup {trail.origin}
    BY <2>1 DEF NoTrail, NonSelf, Crawled
  <2>3. \A p \in NonSelf(CanonicalOf) : Judged(p)
    BY <2>2 DEF WalkInv
  <2> QED
    BY <2>3 DEF CanonicalVerdict, Judged
<1> QED
  BY <1>1, <1>3, <1>4, PTL DEF RulesSpec

-----------------------------------------------------------------------------
(* Robots files: the matching loop.                                        *)

LEMMA LargestOf ==
  ASSUME NEW b \in Nat, NEW S \in SUBSET (0..b), S # {}
  PROVE  \E n \in S : \A m \in S : m <= n
<1> DEFINE T == {b - n : n \in S}
<1>1. T \in SUBSET Nat /\ T # {}
  <2>1. \A n \in S : n \in 0..b /\ b - n \in Nat
    OBVIOUS
  <2> QED
    BY <2>1
<1>2. PICK t \in T : \A u \in T : t <= u
  <2> HIDE DEF T
  <2> QED
    BY <1>1, SmallestOf
<1>3. PICK n \in S : t = b - n
  BY <1>2
<1>4. \A m \in S : b - n <= b - m
  BY <1>2, <1>3
<1>5. \A m \in S : m \in 0..b /\ n \in 0..b
  OBVIOUS
<1> QED
  BY <1>4, <1>5

\* A recursion that ends in an answer, or goes on to one of several others, has a
\* solution: the least set that is closed under it.
Solves(f, S, Yes, next) == \A s \in S : f[s] <=> (s \in Yes \/ \E t \in next[s] : f[t])
StaysWithin(next, S) == \A s \in S : next[s] \subseteq S

LEMMA SearchHasAnswer ==
  ASSUME NEW S, NEW Yes, NEW next, StaysWithin(next, S)
  PROVE  \E f \in [S -> BOOLEAN] : Solves(f, S, Yes, next)
<1> DEFINE Finds(C, s) == s \in Yes \/ \E t \in next[s] : t \in C
           Closed(C) == \A s \in S : Finds(C, s) => s \in C
           A == {s \in S : \A C \in SUBSET S : Closed(C) => s \in C}
           f == [s \in S |-> s \in A]
<1>1. A \in SUBSET S
  OBVIOUS
<1>2. \A C \in SUBSET S, s \in A : Closed(C) => s \in C
  OBVIOUS
<1>3. Closed(A)
  <2> SUFFICES ASSUME NEW s \in S, Finds(A, s), NEW C \in SUBSET S, Closed(C) PROVE s \in C
    OBVIOUS
  <2> HIDE DEF A
  <2>1. Finds(C, s)
    BY <1>2
  <2> QED
    BY <2>1
<1> HIDE DEF A
<1>4. ASSUME NEW s \in A PROVE Finds(A, s)
  <2> SUFFICES ASSUME ~Finds(A, s) PROVE FALSE
    OBVIOUS
  <2>1. Closed(A \ {s})
    <3> SUFFICES ASSUME NEW t \in S, Finds(A \ {s}, t) PROVE t \in A \ {s}
      OBVIOUS
    <3>1. Finds(A, t)
      OBVIOUS
    <3> QED
      BY <1>3, <3>1
  <2>2. A \ {s} \in SUBSET S
    BY <1>1
  <2>3. s \in A \ {s}
    BY <1>2, <2>1, <2>2
  <2> QED
    BY <2>3
<1>5. f \in [S -> BOOLEAN]
  OBVIOUS
<1>6. ASSUME NEW s \in S PROVE f[s] <=> (s \in Yes \/ \E t \in next[s] : f[t])
  <2>1. f[s] <=> s \in A
    OBVIOUS
  <2>2. \A t \in next[s] : t \in S /\ (f[t] <=> t \in A)
    BY DEF StaysWithin
  <2>3. s \in A <=> Finds(A, s)
    BY <1>3, <1>4
  <2> HIDE DEF f
  <2> QED
    BY <2>1, <2>2, <2>3
<1> HIDE DEF f
<1> QED
  BY <1>5, <1>6 DEF Solves

\* Where the rest of a pattern may begin is known from its end on.
Rest(path, target, i, rest) ==
  IF i > Len(path.pattern) THEN (IF path.anchored THEN {Len(target) + 1} ELSE 1..(Len(target) + 1))
  ELSE IF path.pattern[i] = Star THEN {j \in 1..(Len(target) + 1) : \E k \in rest : j <= k}
  ELSE {j \in 1..Len(target) : target[j] = path.pattern[i] /\ j + 1 \in rest}

LEMMA PatternBegins ==
  ASSUME NEW path, NEW target, Len(path.pattern) \in Nat, Len(target) \in Nat
  PROVE  \E B : /\ FitsFrom(path, target) <=> 1 \in B[1]
                /\ \A i \in 1..(Len(path.pattern) + 1) : B[i] = Rest(path, target, i, B[i + 1])
<1> DEFINE M == Len(path.pattern)
           Goes(f, k) == f = [i \in k..(M + 1) |-> Rest(path, target, i, f[i + 1])]
           Known == {k \in 1..(M + 2) : \E f : Goes(f, k)}
<1>1. M + 2 \in Known
  <2>1. (M + 2)..(M + 1) = {}
    OBVIOUS
  <2>2. [i \in (M + 2)..(M + 1) |-> 0] = [i \in (M + 2)..(M + 1) |-> Rest(path, target, i, [n \in (M + 2)..(M + 1) |-> 0][i + 1])]
    BY <2>1
  <2> QED
    BY <2>2
<1>2. PICK k \in Known : \A m \in Known : k <= m
  <2>1. Known \in SUBSET Nat
    OBVIOUS
  <2> HIDE DEF Known
  <2> QED
    BY <1>1, <2>1, SmallestOf
<1>3. k \in 1..(M + 2) /\ \E f : Goes(f, k)
  BY <1>2
<1>4. PICK f : Goes(f, k)
  BY <1>3
<1>5. k = 1
  <2> SUFFICES ASSUME k # 1 PROVE FALSE
    OBVIOUS
  <2> DEFINE g == [i \in (k - 1)..(M + 1) |-> Rest(path, target, i, f[i + 1])]
  <2>1. k - 1 \in 1..(M + 1) /\ ~(k <= k - 1) /\ k - 1 \in 1..(M + 2)
    BY <1>3
  <2>2. \A i \in k..(M + 1) : f[i] = g[i]
    <3> TAKE i \in k..(M + 1)
    <3>1. f[i] = Rest(path, target, i, f[i + 1])
      BY <1>4
    <3>2. i \in (k - 1)..(M + 1)
      BY <2>1
    <3>3. g[i] = Rest(path, target, i, f[i + 1])
      BY <3>2
    <3> QED
      BY <3>1, <3>3
  <2>3. \A i \in (k - 1)..(M + 1) : g[i] = Rest(path, target, i, g[i + 1])
    <3> TAKE i \in (k - 1)..(M + 1)
    <3>1. g[i] = Rest(path, target, i, f[i + 1])
      OBVIOUS
    <3>2. i <= M => i + 1 \in k..(M + 1)
      BY <2>1
    <3> HIDE DEF g
    <3>3. i <= M => f[i + 1] = g[i + 1]
      BY <2>2, <3>2
    <3>4. i <= M \/ i > M
      BY <2>1
    <3> QED
      BY <3>1, <3>3, <3>4 DEF Rest
  <2>4. g = [i \in (k - 1)..(M + 1) |-> g[i]]
    OBVIOUS
  <2> HIDE DEF g
  <2>5. Goes(g, k - 1)
    BY <2>3, <2>4
  <2>6. k - 1 \in Known
    BY <2>1, <2>5
  <2> HIDE DEF Known
  <2> QED
    BY <1>2, <2>1, <2>6
<1> DEFINE B == CHOOSE b : b = [i \in 1..(M + 1) |-> Rest(path, target, i, b[i + 1])]
<1>6. B = [i \in 1..(M + 1) |-> Rest(path, target, i, B[i + 1])]
  BY <1>4, <1>5
<1>7. FitsFrom(path, target) <=> 1 \in B[1]
  BY DEF FitsFrom, Rest
<1> HIDE DEF B
<1>8. \A i \in 1..(M + 1) : B[i] = Rest(path, target, i, B[i + 1])
  BY <1>6
<1> QED
  BY <1>7, <1>8

\* The states of the loop, and where it goes from one.
Loop == [cursor : Nat, position : Nat, star : Nat, retry : Nat]
Start == [cursor |-> 1, position |-> 1, star |-> 0, retry |-> 0]
TryStar(s) == [s EXCEPT !.star = s.cursor, !.retry = s.position, !.cursor = @ + 1]
Consume(s) == [s EXCEPT !.cursor = @ + 1, !.position = @ + 1]
GoBack(s) == [s EXCEPT !.retry = @ + 1, !.position = s.retry + 1, !.cursor = s.star + 1]
On(path, s, c) == s.cursor <= Len(path.pattern) /\ path.pattern[s.cursor] = c
Turns(path, target, f, s) ==
  IF s.position > Len(target) THEN \A i \in s.cursor..Len(path.pattern) : path.pattern[i] = Star
  ELSE \/ s.cursor > Len(path.pattern) /\ ~path.anchored
       \/ /\ On(path, s, Star)
          /\ f[TryStar(s)]
       \/ /\ ~On(path, s, Star) /\ On(path, s, target[s.position])
          /\ f[Consume(s)]
       \/ /\ ~On(path, s, Star) /\ ~On(path, s, target[s.position]) /\ s.star > 0
          /\ f[GoBack(s)]

LEMMA StaysInLoop ==
  ASSUME NEW s \in Loop
  PROVE  TryStar(s) \in Loop /\ Consume(s) \in Loop /\ GoBack(s) \in Loop
<1>1. TryStar(s) \in Loop
  <2> DEFINE c == s.cursor + 1
  <2>1. s.cursor \in Nat /\ s.position \in Nat /\ c \in Nat
   
    BY DEF Loop
  <2>2. TryStar(s) = [s EXCEPT !.star = s.cursor, !.retry = s.position, !.cursor = c]
   
    BY DEF TryStar
  <2> HIDE DEF c
  <2> QED
    BY <2>1, <2>2 DEF Loop
<1>2. Consume(s) \in Loop
  <2> DEFINE c == s.cursor + 1 p == s.position + 1
  <2>1. c \in Nat /\ p \in Nat
   
    BY DEF Loop
  <2>2. Consume(s) = [s EXCEPT !.cursor = c, !.position = p]
   
    BY DEF Consume
  <2> HIDE DEF c, p
  <2> QED
    BY <2>1, <2>2 DEF Loop
<1>3. GoBack(s) \in Loop
  <2> DEFINE c == s.star + 1 r == s.retry + 1
  <2>1. c \in Nat /\ r \in Nat
   
    BY DEF Loop
  <2>2. GoBack(s) = [s EXCEPT !.retry = r, !.position = r, !.cursor = c]
   
    BY DEF GoBack
  <2> HIDE DEF c, r
  <2> QED
    BY <2>1, <2>2 DEF Loop
<1> QED
  BY <1>1, <1>2, <1>3

LEMMA LoopTurns ==
  ASSUME NEW path, NEW target, Len(path.pattern) \in Nat, Len(target) \in Nat
  PROVE  \E W : /\ PathMatches(path, target) <=> W[Start]
                /\ \A s \in Loop : W[s] = Turns(path, target, W, s)
<1> DEFINE M == Len(path.pattern)
           N == Len(target)
           ends(s) == IF s.position > N THEN \A i \in s.cursor..M : path.pattern[i] = Star ELSE s.cursor > M /\ ~path.anchored
           goes(s, t) == /\ ~(s.position > N)
                         /\ \/ On(path, s, Star) /\ t = TryStar(s)
                            \/ ~On(path, s, Star) /\ On(path, s, target[s.position]) /\ t = Consume(s)
                            \/ ~On(path, s, Star) /\ ~On(path, s, target[s.position]) /\ s.star > 0 /\ t = GoBack(s)
           Yes == {s \in Loop : ends(s)}
           next == [s \in Loop |-> {t \in Loop : goes(s, t)}]
<1>1. \A s \in Loop : TryStar(s) \in Loop /\ Consume(s) \in Loop /\ GoBack(s) \in Loop
  BY StaysInLoop
<1>2. \A s \in Loop : next[s] \subseteq Loop
  <2> HIDE DEF goes
  <2> QED
    OBVIOUS
<1>3. \E f \in [Loop -> BOOLEAN] : Solves(f, Loop, Yes, next)
  <2>1. StaysWithin(next, Loop)
    BY <1>2 DEF StaysWithin
  <2> HIDE DEF Yes, next
  <2> QED
    BY <2>1, SearchHasAnswer
<1>4. PICK f \in [Loop -> BOOLEAN] : Solves(f, Loop, Yes, next)
  BY <1>3
<1>5. ASSUME NEW s \in Loop PROVE f[s] = Turns(path, target, f, s)
  <2>1. f[s] \in BOOLEAN
    BY <1>4
  <2>2. s \in Yes <=> ends(s)
    OBVIOUS
  <2>3. (\E t \in next[s] : f[t]) <=> \E t \in Loop : goes(s, t) /\ f[t]
    <3>1. next[s] = {t \in Loop : goes(s, t)}
      <4> HIDE DEF goes
      <4> QED
        OBVIOUS
    <3> HIDE DEF goes, next
    <3> QED
      BY <3>1
  <2> HIDE DEF Yes, next
  <2>4. f[s] <=> ends(s) \/ \E t \in Loop : goes(s, t) /\ f[t]
    BY <1>4, <2>2, <2>3 DEF Solves
  <2>5. Turns(path, target, f, s) <=> ends(s) \/ \E t \in Loop : goes(s, t) /\ f[t]
    BY <1>1, <1>5 DEF Turns
  <2>6. Turns(path, target, f, s) \in BOOLEAN
    BY DEF Turns
  <2> QED
    BY <2>1, <2>4, <2>5, <2>6
<1> HIDE DEF Yes, next
<1>6. f = [s \in Loop |-> Turns(path, target, f, s)]
  BY <1>4, <1>5
<1> DEFINE W == CHOOSE w : w = [s \in Loop |-> Turns(path, target, w, s)]
<1>7. W = [s \in Loop |-> Turns(path, target, W, s)]
  BY <1>6
<1>8. PathMatches(path, target) <=> W[Start]
  BY DEF PathMatches, Turns, On, TryStar, Consume, GoBack, Loop, Start
<1> HIDE DEF W
<1>9. \A s \in Loop : W[s] = Turns(path, target, W, s)
  BY <1>7
<1> QED
  BY <1>8, <1>9

-----------------------------------------------------------------------------
(* The loop finds what the pattern means.                                   *)

\* B and W are where the rest of the pattern may begin, and what the loop answers.
Solved(path, target, B, W) ==
  /\ \A i \in 1..(Len(path.pattern) + 1) : B[i] = Rest(path, target, i, B[i + 1])
  /\ \A s \in Loop : W[s] = Turns(path, target, W, s)
\* Nothing but characters from here to there.
Plain(path, i, c) == \A n \in i..(c - 1) : path.pattern[n] # Star

LEMMA BeginsInTarget ==
  ASSUME NEW path, NEW target, Len(path.pattern) \in Nat, Len(target) \in Nat, NEW B, NEW W,
         Solved(path, target, B, W), NEW i \in 1..(Len(path.pattern) + 1)
  PROVE  B[i] \subseteq 1..(Len(target) + 1)
<1>1. B[i] = Rest(path, target, i, B[i + 1])
  BY DEF Solved
<1>2. Len(target) + 1 \in 1..(Len(target) + 1) /\ 1..Len(target) \subseteq 1..(Len(target) + 1)
  OBVIOUS
<1> QED
  BY <1>1, <1>2 DEF Rest

LEMMA PlainGoesOn ==
  ASSUME NEW path, NEW target, Len(path.pattern) \in Nat, Len(target) \in Nat, NEW B, NEW W,
         Solved(path, target, B, W), NEW i \in 1..(Len(path.pattern) + 1),
         NEW c \in i..(Len(path.pattern) + 1), Plain(path, i, c), NEW k \in B[i]
  PROVE  k + (c - i) \in B[c]
<1> DEFINE M == Len(path.pattern)
           Off == {n \in Nat : i + n <= c /\ k + n \notin B[i + n]}
<1>0. k \in Nat
  BY BeginsInTarget
<1> SUFFICES ASSUME Off # {} PROVE FALSE
  <2>1. c - i \in Nat /\ i + (c - i) = c
    OBVIOUS
  <2> QED
    BY <2>1
<1>1. PICK n \in Off : \A m \in Off : n <= m
  <2>1. Off \in SUBSET Nat
    OBVIOUS
  <2> HIDE DEF Off
  <2> QED
    BY <2>1, SmallestOf
<1>2. n \in Nat /\ i + n <= c /\ k + n \notin B[i + n]
  OBVIOUS
<1>3. n # 0
  BY <1>0, <1>2
<1>4. n - 1 \in Nat /\ ~(n <= n - 1) /\ i + (n - 1) <= c /\ (i + (n - 1)) + 1 = i + n /\ (k + (n - 1)) + 1 = k + n
  BY <1>0, <1>2, <1>3
<1> DEFINE j == i + (n - 1)
<1>5. k + (n - 1) \in B[j]
  BY <1>1, <1>4
<1>6. j \in i..(c - 1) /\ j \in 1..(M + 1) /\ j <= M
  BY <1>2, <1>3
<1>7. B[j] = Rest(path, target, j, B[j + 1]) /\ path.pattern[j] # Star
  BY <1>6 DEF Solved, Plain
<1>8. (k + (n - 1)) + 1 \in B[j + 1]
  <2> HIDE DEF j
  <2> QED
    BY <1>5, <1>6, <1>7 DEF Rest
<1> QED
  BY <1>2, <1>4, <1>8

\* A pattern whose rest is at the end of the target is a row of stars.
StarsAreLeft(path, target, B, c) ==
  Len(target) + 1 \in B[c] <=> \A i \in c..Len(path.pattern) : path.pattern[i] = Star

LEMMA EndIsStars ==
  ASSUME NEW path, NEW target, Len(path.pattern) \in Nat, Len(target) \in Nat, NEW B, NEW W,
         Solved(path, target, B, W), NEW c \in 1..(Len(path.pattern) + 1)
  PROVE  StarsAreLeft(path, target, B, c)
<1> DEFINE M == Len(path.pattern)
           N == Len(target)
           Stars(d) == \A i \in d..M : path.pattern[i] = Star
           Off == {n \in Nat : n <= M /\ ~(N + 1 \in B[M + 1 - n] <=> Stars(M + 1 - n))}
<1> SUFFICES ASSUME Off # {} PROVE FALSE
  <2>1. M + 1 - c \in Nat /\ M + 1 - (M + 1 - c) = c /\ M + 1 - c <= M
    OBVIOUS
  <2> QED
    BY <2>1 DEF StarsAreLeft
<1>1. PICK n \in Off : \A m \in Off : n <= m
  <2>1. Off \in SUBSET Nat
    OBVIOUS
  <2> HIDE DEF Off
  <2> QED
    BY <2>1, SmallestOf
<1> DEFINE d == M + 1 - n
<1>2. n \in Nat /\ n <= M /\ ~(N + 1 \in B[d] <=> Stars(d)) /\ d \in 1..(M + 1)
  OBVIOUS
<1>3. B[d] = Rest(path, target, d, B[d + 1])
  BY <1>2 DEF Solved
<1>4. CASE n = 0
  <2>1. d = M + 1 /\ d > M /\ d..M = {}
    BY <1>4
  <2>2. N + 1 \in B[d]
    BY <1>3, <2>1 DEF Rest
  <2> QED
    BY <1>2, <2>1, <2>2
<1>5. CASE n # 0
  <2>1. n - 1 \in Nat /\ ~(n <= n - 1) /\ n - 1 <= M /\ M + 1 - (n - 1) = d + 1 /\ d <= M /\ d + 1 \in 1..(M + 1)
    BY <1>2, <1>5
  <2>2. N + 1 \in B[d + 1] <=> Stars(d + 1)
    <3>1. n - 1 \notin Off
      BY <1>1, <2>1
    <3>2. N + 1 \in B[M + 1 - (n - 1)] <=> Stars(M + 1 - (n - 1))
      BY <2>1, <3>1
    <3> QED
      BY <2>1, <3>2
  <2>3. Stars(d) <=> path.pattern[d] = Star /\ Stars(d + 1)
    <3>1. \A i : i \in d..M <=> i = d \/ i \in (d + 1)..M
      BY <1>2, <2>1, SMTT(20)
    <3> QED
      BY <3>1
  <2>4. B[d + 1] \subseteq 1..(N + 1)
    BY <2>1, BeginsInTarget
  <2>5. N + 1 \in B[d] <=> path.pattern[d] = Star /\ N + 1 \in B[d + 1]
    <3>0. ~(d > M)
      BY <1>2, <2>1
    <3> HIDE DEF d
    <3>1. CASE path.pattern[d] = Star
      <4>1. B[d] = {j \in 1..(N + 1) : \E k \in B[d + 1] : j <= k}
        BY <1>3, <3>0, <3>1 DEF Rest
      <4>2. \A k \in 1..(N + 1) : N + 1 <= k <=> k = N + 1
        OBVIOUS
      <4>3. N + 1 \in 1..(N + 1)
        OBVIOUS
      <4> QED
        BY <2>4, <3>1, <4>1, <4>2, <4>3
    <3>2. CASE path.pattern[d] # Star
      <4>1. B[d] \subseteq 1..N
        BY <1>3, <3>0, <3>2 DEF Rest
      <4> QED
        BY <3>2, <4>1
    <3> QED
      BY <3>1, <3>2
  <2> QED
    BY <1>2, <2>2, <2>3, <2>5
<1> QED
  BY <1>4, <1>5

\* What the loop knows: it has matched all between the last star and where it is.
Matched(path, target, s) ==
  /\ s \in Loop
  /\ s.cursor \in 1..(Len(path.pattern) + 1) /\ s.position \in 1..(Len(target) + 1)
  /\ s.star \in 0..Len(path.pattern) /\ s.retry \in 0..(Len(target) + 1)
  /\ s.star > 0 => /\ s.star < s.cursor /\ s.retry > 0
                   /\ Plain(path, s.star + 1, s.cursor)
                   /\ s.position = s.retry + (s.cursor - s.star - 1)

\* The rest may begin where the loop is, or the last star may stand for more.
Later(target, B, s) == s.star > 0 /\ \E k \in (s.retry + 1)..(Len(target) + 1) : k \in B[s.star + 1]
Hopeful(target, B, s) == s.position \in B[s.cursor] \/ Later(target, B, s)

Farther(s, t) == \/ s.star < t.star
                 \/ s.star = t.star /\ s.retry < t.retry
                 \/ s.star = t.star /\ s.retry = t.retry /\ s.position < t.position
\* The loop has come to its answer, or goes on to one that is as good.
Sound(target, B, W, s) == W[s] <=> Hopeful(target, B, s)
GoesOn(path, target, B, W, s) ==
  \E t : /\ Matched(path, target, t) /\ Farther(s, t)
         /\ W[s] <=> W[t]
         /\ Hopeful(target, B, s) <=> Hopeful(target, B, t)

LEMMA LaterIsLater ==
  ASSUME NEW path, NEW target, Len(path.pattern) \in Nat, Len(target) \in Nat, NEW B, NEW W,
         Solved(path, target, B, W), NEW s, Matched(path, target, s), Later(target, B, s)
  PROVE  \E k \in B[s.cursor] : k > s.position
<1> DEFINE i == s.star + 1
<1>1. PICK k \in (s.retry + 1)..(Len(target) + 1) : k \in B[i]
  BY DEF Later
<1>2. s.star > 0 /\ s.star < s.cursor /\ Plain(path, i, s.cursor) /\ s.position = s.retry + (s.cursor - s.star - 1)
  BY DEF Later, Matched
<1>3. s.star \in Nat /\ s.cursor \in Nat /\ s.retry \in Nat /\ s.cursor <= Len(path.pattern) + 1
  BY DEF Matched, Loop
<1>4. i \in 1..(Len(path.pattern) + 1) /\ s.cursor \in i..(Len(path.pattern) + 1)
  BY <1>2, <1>3, SMTT(20)
<1>5. k + (s.cursor - i) \in B[s.cursor]
  <2> HIDE DEF i
  <2> QED
    BY <1>1, <1>2, <1>4, PlainGoesOn
<1>6. k + (s.cursor - i) > s.position
  BY <1>1, <1>2, <1>3
<1> QED
  BY <1>5, <1>6

LEMMA AtTheEnd ==
  ASSUME NEW path, NEW target, Len(path.pattern) \in Nat, Len(target) \in Nat, NEW B, NEW W,
         Solved(path, target, B, W), NEW s, Matched(path, target, s), s.position > Len(target)
  PROVE  Sound(target, B, W, s)
<1>1. W[s] = \A i \in s.cursor..Len(path.pattern) : path.pattern[i] = Star
  <2>1. W[s] = Turns(path, target, W, s)
    BY DEF Matched, Solved
  <2> QED
    BY <2>1 DEF Turns
<1>2. s.position = Len(target) + 1 /\ s.cursor \in 1..(Len(path.pattern) + 1)
  BY DEF Matched
<1>3. ~Later(target, B, s)
  <2> SUFFICES ASSUME Later(target, B, s) PROVE FALSE
    OBVIOUS
  <2>1. PICK k \in B[s.cursor] : k > s.position
    BY LaterIsLater
  <2>2. k \in 1..(Len(target) + 1)
    BY <1>2, BeginsInTarget
  <2> QED
    BY <1>2, <2>1, <2>2
<1>4. s.position \in B[s.cursor] <=> \A i \in s.cursor..Len(path.pattern) : path.pattern[i] = Star
  <2> DEFINE c == s.cursor
  <2>1. c \in 1..(Len(path.pattern) + 1)
    BY <1>2
  <2> HIDE DEF c
  <2>2. StarsAreLeft(path, target, B, c)
    BY <2>1, EndIsStars
  <2> QED
    BY <1>2, <2>2 DEF StarsAreLeft, c
<1> QED
  BY <1>1, <1>3, <1>4 DEF Sound, Hopeful

\* The last star stands for one character more.
LEMMA AgainIsAsGood ==
  ASSUME NEW path, NEW target, Len(path.pattern) \in Nat, Len(target) \in Nat, NEW B, NEW W,
         Solved(path, target, B, W), NEW s, Matched(path, target, s), s.position <= Len(target),
         s.position \notin B[s.cursor], W[s] <=> s.star > 0 /\ W[GoBack(s)]
  PROVE  Sound(target, B, W, s) \/ GoesOn(path, target, B, W, s)
<1> DEFINE M == Len(path.pattern)
           N == Len(target)
           t == GoBack(s)
<1>1. CASE ~(s.star > 0)
  BY <1>1 DEF Sound, Hopeful, Later
<1>2. CASE s.star > 0
  <2>1. s \in Loop /\ t \in Loop
    BY StaysInLoop DEF Matched
  <2>2. t.cursor = s.star + 1 /\ t.position = s.retry + 1 /\ t.star = s.star /\ t.retry = s.retry + 1
    BY <2>1 DEF GoBack, Loop
  <2>3. /\ s.cursor \in 1..(M + 1) /\ s.position \in 1..N /\ s.star \in 1..M /\ s.retry \in 1..N
        /\ s.star < s.cursor /\ s.position = s.retry + (s.cursor - s.star - 1)
    BY <1>2, <2>1, SMTT(20) DEF Matched, Loop
  <2> HIDE DEF t
  <2>4. Matched(path, target, t)
    <3>1. Plain(path, t.star + 1, t.cursor)
      <4>1. (s.star + 1)..((s.star + 1) - 1) = {}
        BY <2>3
      <4> QED
        BY <2>2, <2>3, <4>1 DEF Plain
    <3> QED
      <4>1. M \in Nat /\ N \in Nat
        OBVIOUS
      <4>2. /\ t.cursor \in 1..(M + 1) /\ t.position \in 1..(N + 1) /\ t.star \in 0..M /\ t.retry \in 0..(N + 1)
            /\ t.star < t.cursor /\ t.retry > 0 /\ t.position = t.retry + (t.cursor - t.star - 1)
        <5> HIDE DEF M, N
        <5>1. s.star \in Nat /\ s.star >= 1 /\ s.star <= M /\ s.retry \in Nat /\ s.retry >= 1 /\ s.retry <= N
          BY <2>3, <4>1
        <5>2. s.star + 1 \in 1..(M + 1) /\ s.retry + 1 \in 1..(N + 1) /\ s.star \in 0..M
          BY <4>1, <5>1
        <5>3. s.star < s.star + 1 /\ s.retry + 1 > 0 /\ s.retry + 1 = (s.retry + 1) + ((s.star + 1) - s.star - 1)
          BY <5>1
        <5>4. s.retry + 1 \in 0..(N + 1)
          BY <4>1, <5>1
        <5> QED
          BY <2>2, <5>2, <5>3, <5>4
      <4> QED
        BY <2>1, <3>1, <4>2 DEF Matched
  <2>5. Farther(s, t)
    BY <2>2, <2>3 DEF Farther
  <2>6. Hopeful(target, B, s) <=> \E k \in (s.retry + 1)..(N + 1) : k \in B[s.star + 1]
    BY <1>2 DEF Hopeful, Later
  <2>7. Hopeful(target, B, t) <=> s.retry + 1 \in B[s.star + 1] \/ \E k \in (s.retry + 2)..(N + 1) : k \in B[s.star + 1]
    <3>1. t.retry + 1 = s.retry + 2 /\ t.star > 0
      BY <1>2, <2>2, <2>3
    <3> QED
      BY <2>2, <3>1 DEF Hopeful, Later
  <2>8. \A k : k \in (s.retry + 1)..(N + 1) <=> k = s.retry + 1 \/ k \in (s.retry + 2)..(N + 1)
    BY <2>3
  <2>9. Hopeful(target, B, s) <=> Hopeful(target, B, t)
    BY <2>6, <2>7, <2>8
  <2> QED
    BY <1>2, <2>4, <2>5, <2>9 DEF GoesOn, t
<1> QED
  BY <1>1, <1>2

\* A star of the pattern may stand for nothing, or for what comes.
LEMMA EnterIsAsGood ==
  ASSUME NEW path, NEW target, Len(path.pattern) \in Nat, Len(target) \in Nat, NEW B, NEW W,
         Solved(path, target, B, W), NEW s, Matched(path, target, s), s.position <= Len(target),
         On(path, s, Star), W[s] <=> W[TryStar(s)]
  PROVE  GoesOn(path, target, B, W, s)
<1> DEFINE M == Len(path.pattern)
           N == Len(target)
           t == TryStar(s)
<1>1. s \in Loop /\ t \in Loop
  BY StaysInLoop DEF Matched
<1>2. t.cursor = s.cursor + 1 /\ t.position = s.position /\ t.star = s.cursor /\ t.retry = s.position
  BY <1>1 DEF TryStar, Loop
<1>3. s.cursor \in 1..M /\ s.position \in 1..N /\ s.star \in 0..M /\ (s.star > 0 => s.star < s.cursor)
  BY <1>1 DEF Matched, Loop, On
<1> HIDE DEF t
<1>4. M \in Nat /\ N \in Nat
  OBVIOUS
<1> HIDE DEF M, N
<1>5. Plain(path, t.star + 1, t.cursor)
  <2>1. (s.cursor + 1)..((s.cursor + 1) - 1) = {}
    BY <1>3, <1>4
  <2> QED
    BY <1>2, <2>1 DEF Plain
<1>6. /\ t.cursor \in 1..(M + 1) /\ t.position \in 1..(N + 1) /\ t.star \in 0..M /\ t.retry \in 0..(N + 1)
      /\ t.star < t.cursor /\ t.retry > 0 /\ t.position = t.retry + (t.cursor - t.star - 1)
  <2>1. s.cursor + 1 \in 1..(M + 1) /\ s.position \in 1..(N + 1) /\ s.position \in 0..(N + 1) /\ s.cursor \in 0..M /\ s.position > 0
    BY <1>3, <1>4
  <2>2. s.cursor < s.cursor + 1 /\ s.position = s.position + ((s.cursor + 1) - s.cursor - 1)
    BY <1>3, <1>4
  <2> QED
    BY <1>2, <2>1, <2>2
<1>7. Matched(path, target, t)
  BY <1>1, <1>5, <1>6 DEF Matched, M, N
<1>8. Farther(s, t)
  BY <1>2, <1>3, <1>4 DEF Farther
<1>9. B[s.cursor] = {j \in 1..(N + 1) : \E k \in B[s.cursor + 1] : j <= k}
  <2>1. B[s.cursor] = Rest(path, target, s.cursor, B[s.cursor + 1])
    BY <1>3, <1>4 DEF Solved, M
  <2>2. ~(s.cursor > M)
    BY <1>3, <1>4
  <2> QED
    BY <2>1, <2>2 DEF Rest, On, M, N
<1>10. B[s.cursor + 1] \subseteq 1..(N + 1)
  <2>1. s.cursor + 1 \in 1..(M + 1)
    BY <1>3, <1>4
  <2> QED
    BY <2>1, BeginsInTarget DEF M, N
<1>11. s.position \in B[s.cursor] <=> \E k \in B[s.cursor + 1] : s.position <= k
  BY <1>3, <1>4, <1>9
<1>12. Later(target, B, s) => s.position \in B[s.cursor]
  <2> SUFFICES ASSUME Later(target, B, s) PROVE s.position \in B[s.cursor]
    OBVIOUS
  <2>1. PICK k \in B[s.cursor] : k > s.position
    BY LaterIsLater
  <2>2. PICK j \in B[s.cursor + 1] : k \in 1..(N + 1) /\ k <= j
    BY <1>9
  <2>3. j \in 1..(N + 1)
    BY <1>10
  <2>4. s.position <= j
    BY <1>3, <1>4, <2>1, <2>2, <2>3
  <2> QED
    BY <1>11, <2>4
<1>13. Hopeful(target, B, t) <=> s.position \in B[s.cursor + 1] \/ \E k \in (s.position + 1)..(N + 1) : k \in B[s.cursor + 1]
  <2>1. t.star > 0
    BY <1>2, <1>3, <1>4
  <2> QED
    BY <1>2, <2>1 DEF Hopeful, Later, N
<1>14. \A k \in 1..(N + 1) : s.position <= k <=> k = s.position \/ k \in (s.position + 1)..(N + 1)
  BY <1>3, <1>4
<1>15. Hopeful(target, B, s) <=> Hopeful(target, B, t)
  BY <1>10, <1>11, <1>12, <1>13, <1>14 DEF Hopeful
<1> QED
  BY <1>7, <1>8, <1>15 DEF GoesOn, t

\* A character of the pattern stands for itself.
LEMMA AdvanceIsAsGood ==
  ASSUME NEW path, NEW target, Len(path.pattern) \in Nat, Len(target) \in Nat, NEW B, NEW W,
         Solved(path, target, B, W), NEW s, Matched(path, target, s), s.position <= Len(target),
         ~On(path, s, Star), On(path, s, target[s.position]), W[s] <=> W[Consume(s)]
  PROVE  GoesOn(path, target, B, W, s)
<1> DEFINE M == Len(path.pattern)
           N == Len(target)
           t == Consume(s)
<1>1. s \in Loop /\ t \in Loop
  BY StaysInLoop DEF Matched
<1>2. t.cursor = s.cursor + 1 /\ t.position = s.position + 1 /\ t.star = s.star /\ t.retry = s.retry
  BY <1>1 DEF Consume, Loop
<1>3. s.cursor \in 1..M /\ s.position \in 1..N /\ s.star \in 0..M /\ s.retry \in 0..(N + 1)
  BY <1>1 DEF Matched, Loop, On
<1>4. s.star > 0 => s.star < s.cursor /\ s.retry > 0 /\ Plain(path, s.star + 1, s.cursor) /\ s.position = s.retry + (s.cursor - s.star - 1)
  BY DEF Matched
<1> HIDE DEF t
<1>5. M \in Nat /\ N \in Nat
  OBVIOUS
<1>6. path.pattern[s.cursor] # Star /\ path.pattern[s.cursor] = target[s.position]
  BY <1>3 DEF On
<1> HIDE DEF M, N
<1>7. s.star > 0 => Plain(path, t.star + 1, t.cursor)
  <2> SUFFICES ASSUME s.star > 0, NEW n \in (s.star + 1)..((s.cursor + 1) - 1) PROVE path.pattern[n] # Star
    BY <1>2 DEF Plain
  <2>1. n = s.cursor \/ n \in (s.star + 1)..(s.cursor - 1)
    BY <1>3, <1>5
  <2> QED
    BY <1>4, <1>6, <2>1 DEF Plain
<1>8. t.cursor \in 1..(M + 1) /\ t.position \in 1..(N + 1) /\ t.star \in 0..M /\ t.retry \in 0..(N + 1)
  <2>1. s.cursor + 1 \in 1..(M + 1) /\ s.position + 1 \in 1..(N + 1)
    BY <1>3, <1>5, SMTT(20)
  <2> QED
    BY <1>2, <1>3, <2>1
<1>9. s.star > 0 => t.star < t.cursor /\ t.retry > 0 /\ t.position = t.retry + (t.cursor - t.star - 1)
  <2> SUFFICES ASSUME s.star > 0 PROVE s.star < s.cursor + 1 /\ s.retry > 0 /\ s.position + 1 = s.retry + ((s.cursor + 1) - s.star - 1)
    BY <1>2
  <2>1. s.cursor \in Nat /\ s.position \in Nat /\ s.star \in Nat /\ s.retry \in Nat
    BY <1>1 DEF Loop
  <2>2. s.star < s.cursor /\ s.retry > 0 /\ s.position = s.retry + (s.cursor - s.star - 1)
    BY <1>4
  <2> DEFINE c == s.cursor  p == s.position  a == s.star  r == s.retry
  <2>3. c \in Nat /\ p \in Nat /\ a \in Nat /\ r \in Nat /\ a < c /\ p = r + (c - a - 1)
    BY <2>1, <2>2
  <2>4. a < c + 1 /\ p + 1 = r + ((c + 1) - a - 1)
    <3> HIDE DEF c, p, a, r
    <3> QED
      BY <2>3
  <2> QED
    BY <2>2, <2>4
<1>10. Matched(path, target, t)
  <2>1. t.star > 0 => s.star > 0
    BY <1>2
  <2> QED
    BY <1>1, <1>7, <1>8, <1>9, <2>1 DEF Matched, M, N
<1>11. Farther(s, t)
  <2>1. s.position \in Nat /\ s.position < s.position + 1
    BY <1>1 DEF Loop
  <2> QED
    BY <1>2, <2>1 DEF Farther
<1>12. s.position \in B[s.cursor] <=> s.position + 1 \in B[s.cursor + 1]
  <2>0. s.cursor \in 1..(M + 1)
    BY <1>3, <1>5
  <2>1. B[s.cursor] = Rest(path, target, s.cursor, B[s.cursor + 1])
    BY <2>0 DEF Solved, M
  <2>2. ~(s.cursor > M)
    BY <1>3, <1>5
  <2>3. B[s.cursor] = {j \in 1..N : target[j] = path.pattern[s.cursor] /\ j + 1 \in B[s.cursor + 1]}
    BY <1>6, <2>1, <2>2 DEF Rest, M, N
  <2> QED
    BY <1>3, <1>6, <2>3
<1>13. Hopeful(target, B, s) <=> Hopeful(target, B, t)
  BY <1>2, <1>12 DEF Hopeful, Later
<1> QED
  BY <1>10, <1>11, <1>13 DEF GoesOn, t

LEMMA LoopGoesOn ==
  ASSUME NEW path, NEW target, Len(path.pattern) \in Nat, Len(target) \in Nat, NEW B, NEW W,
         Solved(path, target, B, W), NEW s, Matched(path, target, s)
  PROVE  Sound(target, B, W, s) \/ GoesOn(path, target, B, W, s)
<1>1. W[s] = Turns(path, target, W, s)
  BY DEF Solved, Matched
<1>2. s.cursor \in 1..(Len(path.pattern) + 1) /\ s.position \in 1..(Len(target) + 1)
  BY DEF Matched
<1>3. CASE s.position > Len(target)
  BY <1>3, AtTheEnd
<1>4. CASE s.position <= Len(target) /\ On(path, s, Star)
  <2>1. ~(s.cursor > Len(path.pattern)) /\ ~(s.position > Len(target))
    BY <1>2, <1>4 DEF On
  <2>2. W[s] <=> W[TryStar(s)]
    BY <1>1, <1>4, <2>1 DEF Turns
  <2> QED
    BY <1>4, <2>2, EnterIsAsGood
<1>5. CASE s.position <= Len(target) /\ ~On(path, s, Star) /\ On(path, s, target[s.position])
  <2>1. ~(s.cursor > Len(path.pattern)) /\ ~(s.position > Len(target))
    BY <1>2, <1>5 DEF On
  <2>2. W[s] <=> W[Consume(s)]
    BY <1>1, <1>5, <2>1 DEF Turns
  <2> QED
    BY <1>5, <2>2, AdvanceIsAsGood
<1>6. CASE s.position <= Len(target) /\ ~On(path, s, Star) /\ ~On(path, s, target[s.position])
  <2>1. ~(s.position > Len(target)) /\ s.position \in 1..Len(target)
    BY <1>2, <1>6
  <2>2. W[s] <=> (s.cursor > Len(path.pattern) /\ ~path.anchored) \/ (s.star > 0 /\ W[GoBack(s)])
    BY <1>1, <1>6, <2>1 DEF Turns
  <2>3. B[s.cursor] = Rest(path, target, s.cursor, B[s.cursor + 1])
    BY <1>2 DEF Solved
  <2>4. CASE s.cursor > Len(path.pattern) /\ ~path.anchored
    <3>1. B[s.cursor] = 1..(Len(target) + 1)
      BY <2>3, <2>4 DEF Rest
    <3> QED
      BY <1>2, <2>2, <2>4, <3>1 DEF Sound, Hopeful
  <2>5. CASE ~(s.cursor > Len(path.pattern) /\ ~path.anchored)
    <3>1. s.position \notin B[s.cursor]
      <4>1. CASE s.cursor > Len(path.pattern)
        <5>1. B[s.cursor] = {Len(target) + 1}
          BY <2>3, <2>5, <4>1 DEF Rest
        <5> QED
          BY <2>1, <5>1
      <4>2. CASE ~(s.cursor > Len(path.pattern))
        <5>1. path.pattern[s.cursor] # Star /\ path.pattern[s.cursor] # target[s.position]
          BY <1>2, <1>6, <4>2 DEF On
        <5>2. B[s.cursor] = {j \in 1..Len(target) : target[j] = path.pattern[s.cursor] /\ j + 1 \in B[s.cursor + 1]}
          BY <2>3, <4>2, <5>1 DEF Rest
        <5> QED
          BY <5>1, <5>2
      <4> QED
        BY <4>1, <4>2
    <3>2. W[s] <=> s.star > 0 /\ W[GoBack(s)]
      BY <2>2, <2>5
    <3> QED
      BY <1>6, <3>1, <3>2, AgainIsAsGood
  <2> QED
    BY <2>4, <2>5
<1>7. s.position > Len(target) \/ s.position <= Len(target)
  BY <1>2
<1> QED
  BY <1>3, <1>4, <1>5, <1>6, <1>7

\* Of the states where the loop is wrong the last one would go on to another.
LEMMA LoopIsSound ==
  ASSUME NEW path, NEW target, Len(path.pattern) \in Nat, Len(target) \in Nat, NEW B, NEW W,
         Solved(path, target, B, W), NEW s, Matched(path, target, s)
  PROVE  Sound(target, B, W, s)
<1> DEFINE M == Len(path.pattern)
           N == Len(target)
           Wrong == {u \in Loop : Matched(path, target, u) /\ ~Sound(target, B, W, u)}
           Stars == {u.star : u \in Wrong}
<1> SUFFICES ASSUME Wrong # {} PROVE FALSE
  BY DEF Matched
<1>1. \A u \in Wrong : Matched(path, target, u) /\ ~Sound(target, B, W, u)
  OBVIOUS
<1>2. \A u : Matched(path, target, u) /\ ~Sound(target, B, W, u) => u \in Wrong
  BY DEF Matched
<1> HIDE DEF Wrong
<1>3. PICK a \in Stars : \A b \in Stars : b <= a
  <2>1. Stars \in SUBSET (0..M) /\ Stars # {}
    BY <1>1 DEF Matched
  <2> HIDE DEF Stars
  <2> QED
    BY <2>1, LargestOf
<1> DEFINE Retries == {u.retry : u \in {v \in Wrong : v.star = a}}
<1>4. PICK r \in Retries : \A b \in Retries : b <= r
  <2>1. Retries \in SUBSET (0..(N + 1)) /\ Retries # {}
    BY <1>1, <1>3 DEF Matched
  <2>2. N + 1 \in Nat
    OBVIOUS
  <2> HIDE DEF Retries
  <2> QED
    BY <2>1, <2>2, LargestOf
<1> DEFINE Positions == {u.position : u \in {v \in Wrong : v.star = a /\ v.retry = r}}
<1>5. PICK p \in Positions : \A b \in Positions : b <= p
  <2>1. Positions \in SUBSET (0..(N + 1)) /\ Positions # {}
    <3>1. Positions # {}
      BY <1>4
    <3>2. \A u \in Wrong : u.position \in 1..(N + 1)
      BY <1>1 DEF Matched
    <3>3. 1..(N + 1) \subseteq 0..(N + 1)
      OBVIOUS
    <3> QED
      BY <3>1, <3>2, <3>3
  <2>2. N + 1 \in Nat
    OBVIOUS
  <2> HIDE DEF Positions
  <2> QED
    BY <2>1, <2>2, LargestOf
<1>6. PICK u \in Wrong : u.star = a /\ u.retry = r /\ u.position = p
  BY <1>5
<1>7. GoesOn(path, target, B, W, u)
  BY <1>1, <1>6, LoopGoesOn
<1>8. PICK t : /\ Matched(path, target, t) /\ Farther(u, t)
               /\ W[u] <=> W[t]
               /\ Hopeful(target, B, u) <=> Hopeful(target, B, t)
  BY <1>7 DEF GoesOn
<1>9. t \in Wrong
  <2>1. ~Sound(target, B, W, t)
    BY <1>1, <1>6, <1>8 DEF Sound
  <2> QED
    BY <1>2, <1>8, <2>1
<1>10. t.star <= u.star
  BY <1>3, <1>6, <1>9
<1>11. t.star = u.star => t.retry <= u.retry
  BY <1>4, <1>6, <1>9
<1>12. t.star = u.star /\ t.retry = u.retry => t.position <= u.position
  BY <1>5, <1>6, <1>9
<1>13. t \in Loop /\ u \in Loop
  BY <1>1, <1>6, <1>8 DEF Matched
<1>14. /\ t.star \in Nat /\ u.star \in Nat /\ t.retry \in Nat /\ u.retry \in Nat
       /\ t.position \in Nat /\ u.position \in Nat
  BY <1>13 DEF Loop
<1> QED
  BY <1>8, <1>10, <1>11, <1>12, <1>14 DEF Farther

\* For every pattern and every target the loop that advances greedily, and goes back to
\* its last star only, answers whether the pattern fits the beginning of the target, or
\* all of it where it is anchored (robots_policy.py:39-64).
THEOREM LoopIsRight ==
  ASSUME NEW path, NEW target, Len(path.pattern) \in Nat, Len(target) \in Nat
  PROVE  PathMatches(path, target) <=> FitsFrom(path, target)
<1>1. PICK B : /\ FitsFrom(path, target) <=> 1 \in B[1]
               /\ \A i \in 1..(Len(path.pattern) + 1) : B[i] = Rest(path, target, i, B[i + 1])
  BY PatternBegins
<1>2. PICK W : /\ PathMatches(path, target) <=> W[Start]
               /\ \A s \in Loop : W[s] = Turns(path, target, W, s)
  BY LoopTurns
<1>3. Solved(path, target, B, W)
  BY <1>1, <1>2 DEF Solved
<1>4. Matched(path, target, Start)
  BY DEF Matched, Start, Loop
<1>5. Sound(target, B, W, Start)
  BY <1>3, <1>4, LoopIsSound
<1>6. Hopeful(target, B, Start) <=> 1 \in B[1]
  BY DEF Hopeful, Later, Start
<1> QED
  BY <1>1, <1>2, <1>5, <1>6 DEF Sound

-----------------------------------------------------------------------------
(* Robots files: the lines of a file and the groups made of them.           *)

\* After an agent's line a rule has been read, and then another agent's line: that is
\* where its group ends.
Turned(text, a, n) == \E i, j \in a..n : i < j /\ text[i].kind = "rule" /\ text[j].kind = "agent"
OpenAgents(text, n) == {a \in 1..n : text[a].kind = "agent" /\ ~Turned(text, a, n)}
OpenRules(text, n) == {r \in 1..n : text[r].kind = "rule" /\ \E a \in OpenAgents(text, n) : a < r}
Under(text, a) == {r \in DOMAIN text : Governs(text, a, r)}
LinesOf(text, R) == {text[r] : r \in R}
NamesOf(text, A) == {text[a].name : a \in A}
AgentLines(text) == {a \in DOMAIN text : text[a].kind = "agent"}

\* A group that has been read to its end: it speaks for each of its agents.
IsKept(text, g) ==
  /\ IsSequence(g.agents)
  /\ \E A \in SUBSET AgentLines(text) : /\ A # {} /\ Range(g.agents) = NamesOf(text, A)
                                        /\ \A a \in A : Range(g.rules) = LinesOf(text, Under(text, a))
Keeps(text, g, a) == text[a].name \in Range(g.agents) /\ Range(g.rules) = LinesOf(text, Under(text, a))

\* What has been read after n lines.
OpenIs(text, n, g) ==
  /\ g = [agents |-> g.agents, rules |-> g.rules]
  /\ IsSequence(g.agents) /\ IsSequence(g.rules)
  /\ Range(g.agents) = NamesOf(text, OpenAgents(text, n))
  /\ Range(g.rules) = LinesOf(text, OpenRules(text, n))
KeptAre(text, n, groups) ==
  /\ IsSequence(groups)
  /\ \A g \in Range(groups) : IsKept(text, g)
  /\ \A a \in 1..n : text[a].kind = "agent" => a \in OpenAgents(text, n) \/ \E g \in Range(groups) : Keeps(text, g, a)
ReadSoFar(text, n, groups, g) == OpenIs(text, n, g) /\ KeptAre(text, n, groups)

\* What is known of a list, and of a list with one element more.
LEMMA ListIs ==
  ASSUME NEW s, IsSequence(s)
  PROVE  /\ Len(s) \in Nat /\ DOMAIN s = 1..Len(s)
         /\ s = <<>> <=> Range(s) = {}
         /\ Range(s) = {s[i] : i \in 1..Len(s)}
<1>1. s \in Seq(Range(s))
  BY DEF IsSequence
<1> DEFINE R == Range(s)
<1>2. Len(s) \in Nat /\ DOMAIN s = 1..Len(s)
  <2> HIDE DEF R
  <2> QED
    BY <1>1 DEF R
<1>3. Range(s) = {s[i] : i \in 1..Len(s)}
  BY <1>2 DEF Range
<1>4. s = <<>> <=> Len(s) = 0
  BY <1>1
<1>5. Range(s) = {} <=> Len(s) = 0
  <2> DEFINE L == Len(s)
  <2>1. L \in Nat /\ Range(s) = {s[i] : i \in 1..L}
    BY <1>2, <1>3
  <2> HIDE DEF L
  <2>2. L = 0 => 1..L = {}
    OBVIOUS
  <2>3. L # 0 => 1 \in 1..L
    BY <2>1
  <2>4. Range(s) = {} <=> L = 0
    BY <2>1, <2>2, <2>3
  <2> QED
    BY <2>4 DEF L
<1> QED
  BY <1>2, <1>3, <1>4, <1>5

LEMMA ListGrows ==
  ASSUME NEW s, IsSequence(s), NEW e
  PROVE  IsSequence(Append(s, e)) /\ Range(Append(s, e)) = Range(s) \cup {e}
<1> DEFINE S == Range(s) \cup {e}
           t == Append(s, e)
<1>1. s \in Seq(S) /\ e \in S
  <2>1. s \in Seq(Range(s)) /\ Range(s) \subseteq S
    BY DEF IsSequence
  <2> HIDE DEF S
  <2>2. \A T : Range(s) \subseteq T => s \in Seq(T)
    BY <2>1
  <2>3. e \in S
    BY DEF S
  <2> QED
    BY <2>1, <2>2, <2>3
<1>2. t \in Seq(S) /\ Len(t) = Len(s) + 1 /\ DOMAIN t = 1..(Len(s) + 1) /\ \A i \in 1..(Len(s) + 1) : t[i] = IF i <= Len(s) THEN s[i] ELSE e
  <2> HIDE DEF S
  <2> QED
    BY <1>1
<1>3. Len(s) \in Nat /\ DOMAIN s = 1..Len(s)
  BY ListIs
<1>4. Range(t) = S
  <2>1. \A x \in Range(t) : x \in S
    <3> HIDE DEF t
    <3> QED
      BY <1>2, <1>3 DEF Range
  <2>2. \A x \in Range(s) : x \in Range(t)
    <3> HIDE DEF t
    <3>1. 1..Len(s) \subseteq 1..(Len(s) + 1) /\ \A i \in 1..Len(s) : i <= Len(s)
      BY <1>3
    <3> QED
      BY <1>2, <1>3, <3>1 DEF Range
  <2>3. e \in Range(t)
    <3> HIDE DEF t
    <3>1. Len(s) + 1 \in 1..(Len(s) + 1) /\ ~(Len(s) + 1 <= Len(s))
      BY <1>3
    <3> QED
      BY <1>2, <3>1 DEF Range
  <2> QED
    BY <2>1, <2>2, <2>3
<1> QED
  BY <1>2, <1>4 DEF IsSequence

\* The agents of an open group share their rules, which follow all of them.
LEMMA OpenRulesFollow ==
  ASSUME NEW text, NEW n \in Nat, NEW a \in OpenAgents(text, n), NEW r \in OpenRules(text, n)
  PROVE  a < r
<1>1. PICK b \in OpenAgents(text, n) : b < r
  BY DEF OpenRules
<1>2. a \in 1..n /\ b \in 1..n /\ r \in 1..n /\ text[r].kind = "rule" /\ text[a].kind = "agent" /\ ~Turned(text, b, n)
  BY DEF OpenAgents, OpenRules
<1>3. a # r
  BY <1>2
<1>4. ~(r < a)
  <2> SUFFICES ASSUME r < a PROVE FALSE
    OBVIOUS
  <2>1. r \in b..n /\ a \in b..n
    BY <1>1, <1>2
  <2> QED
    BY <1>2, <2>1 DEF Turned
<1> QED
  BY <1>2, <1>3, <1>4

LEMMA TurnedStays ==
  ASSUME NEW text, NEW a \in Nat, NEW n \in Nat, NEW m \in Nat, n <= m, Turned(text, a, n)
  PROVE  Turned(text, a, m)
<1>1. PICK i, j \in a..n : i < j /\ text[i].kind = "rule" /\ text[j].kind = "agent"
  BY DEF Turned
<1>2. i \in a..m /\ j \in a..m
  OBVIOUS
<1> QED
  BY <1>1, <1>2 DEF Turned

\* An open group that is closed after line n speaks for its agents.
LEMMA ClosedSpeaks ==
  ASSUME NEW text, IsSequence(text), NEW n \in 0..Len(text), NEW a \in OpenAgents(text, n),
         n = Len(text) \/ Turned(text, a, n + 1)
  PROVE  Under(text, a) = OpenRules(text, n)
<1> DEFINE L == Len(text)
<1>1. L \in Nat /\ DOMAIN text = 1..L /\ n \in 0..L /\ (n = L \/ Turned(text, a, n + 1))
  BY ListIs
<1> HIDE DEF L
<1>0. n \in Nat /\ n <= L
  BY <1>1
<1>2. a \in 1..n /\ text[a].kind = "agent" /\ ~Turned(text, a, n)
  BY DEF OpenAgents
<1>3. ASSUME NEW r \in Under(text, a) PROVE r \in OpenRules(text, n)
  <2>1. r \in 1..L /\ a < r /\ text[r].kind = "rule" /\ ~Turned(text, a, r)
    BY <1>1 DEF Under, Governs, Turned
  <2>2. r <= n
    <3> SUFFICES ASSUME ~(r <= n) PROVE FALSE
      OBVIOUS
    <3>1. n # L /\ n + 1 \in Nat /\ n + 1 <= r /\ r \in Nat /\ a \in Nat
      <4>1. r \in Nat /\ r <= L /\ a \in Nat
        BY <1>0, <1>1, <1>2, <2>1
      <4> QED
        BY <1>0, <1>1, <4>1
    <3>2. Turned(text, a, r)
      BY <1>1, <3>1, TurnedStays
    <3> QED
      BY <2>1, <3>2
  <2> QED
    BY <1>2, <2>1, <2>2 DEF OpenRules
<1>4. ASSUME NEW r \in OpenRules(text, n) PROVE r \in Under(text, a)
  <2>1. a < r
    BY <1>0, OpenRulesFollow
  <2>2. r \in 1..n /\ text[r].kind = "rule"
    BY DEF OpenRules
  <2>3. ~Turned(text, a, r)
    BY <1>0, <1>2, <2>2, TurnedStays
  <2>4. r \in DOMAIN text
    BY <1>1, <2>2
  <2> QED
    BY <1>2, <2>1, <2>2, <2>3, <2>4 DEF Under, Governs, Turned
<1> QED
  BY <1>3, <1>4

LEMMA NothingIsOpen ==
  ASSUME NEW text
  PROVE  ReadSoFar(text, 0, <<>>, NoGroup)
<1>1. 1..0 = {}
  OBVIOUS
<1>2. OpenAgents(text, 0) = {} /\ OpenRules(text, 0) = {}
  BY <1>1 DEF OpenAgents, OpenRules
<1>3. IsSequence(<<>>) /\ Range(<<>>) = {}
  BY DEF IsSequence, Range
<1> QED
  BY <1>1, <1>2, <1>3 DEF ReadSoFar, OpenIs, KeptAre, NoGroup, NamesOf, LinesOf

\* What is open after a line, by its kind.
LEMMA TurnedNext ==
  ASSUME NEW text, NEW n \in Nat, NEW a \in 1..n
  PROVE  Turned(text, a, n + 1) <=>
             Turned(text, a, n) \/ (text[n + 1].kind = "agent" /\ \E i \in a..n : text[i].kind = "rule")
<1>1. \A i : i \in a..(n + 1) <=> i \in a..n \/ i = n + 1
  OBVIOUS
<1>2. \A i \in a..n : i < n + 1 /\ ~(n + 1 < i)
  OBVIOUS
<1>3. ~(n + 1 < n + 1)
  OBVIOUS
<1> QED
  BY <1>1, <1>2, <1>3 DEF Turned

LEMMA AloneIsNotTurned ==
  ASSUME NEW text, NEW n \in Nat
  PROVE  ~Turned(text, n, n)
BY DEF Turned

LEMMA AgentsNext ==
  ASSUME NEW text, NEW n \in Nat
  PROVE  /\ text[n + 1].kind # "agent" => OpenAgents(text, n + 1) = OpenAgents(text, n)
         /\ text[n + 1].kind = "agent" /\ OpenRules(text, n) = {} => OpenAgents(text, n + 1) = OpenAgents(text, n) \cup {n + 1}
         /\ text[n + 1].kind = "agent" /\ OpenRules(text, n) # {} =>
              /\ OpenAgents(text, n + 1) = {n + 1}
              /\ \A a \in OpenAgents(text, n) : Turned(text, a, n + 1)
<1>1. \A a : a \in 1..(n + 1) <=> a \in 1..n \/ a = n + 1
  OBVIOUS
<1>2. \A a \in 1..n : Turned(text, a, n + 1) <=>
             Turned(text, a, n) \/ (text[n + 1].kind = "agent" /\ \E i \in a..n : text[i].kind = "rule")
  <2> TAKE a \in 1..n
  <2> QED
    BY TurnedNext
<1>3. ~Turned(text, n + 1, n + 1)
  BY AloneIsNotTurned
<1>4. ASSUME NEW a \in OpenAgents(text, n)
      PROVE  (\E i \in a..n : text[i].kind = "rule") <=> OpenRules(text, n) # {}
  <2>1. a \in 1..n /\ text[a].kind = "agent"
    BY DEF OpenAgents
  <2>2. ASSUME NEW i \in a..n, text[i].kind = "rule" PROVE i \in OpenRules(text, n)
    <3>1. i # a /\ i \in 1..n /\ a < i
      BY <2>1, <2>2
    <3> QED
      BY <2>2, <3>1 DEF OpenRules
  <2>3. ASSUME NEW i \in OpenRules(text, n) PROVE i \in a..n /\ text[i].kind = "rule"
    <3>1. i \in 1..n /\ text[i].kind = "rule" /\ a < i
      BY OpenRulesFollow DEF OpenRules
    <3> QED
      BY <2>1, <3>1
  <2> QED
    BY <2>2, <2>3
<1>5. \A a : a \in OpenAgents(text, n) <=> a \in 1..n /\ text[a].kind = "agent" /\ ~Turned(text, a, n)
  BY DEF OpenAgents
<1>6. \A a : a \in OpenAgents(text, n + 1) <=> a \in 1..(n + 1) /\ text[a].kind = "agent" /\ ~Turned(text, a, n + 1)
  BY DEF OpenAgents
<1>7. ASSUME text[n + 1].kind # "agent", NEW a
      PROVE  a \in OpenAgents(text, n + 1) <=> a \in OpenAgents(text, n)
  <2>1. CASE a \in 1..n
    <3>1. Turned(text, a, n + 1) <=> Turned(text, a, n)
      BY <1>2, <1>7, <2>1
    <3> QED
      BY <1>1, <1>5, <1>6, <2>1, <3>1
  <2>2. CASE a \notin 1..n
    BY <1>1, <1>5, <1>6, <1>7, <2>2
  <2> QED
    BY <2>1, <2>2
<1>8. ASSUME text[n + 1].kind = "agent", NEW a
      PROVE  a \in OpenAgents(text, n + 1) <=> a = n + 1 \/ (a \in OpenAgents(text, n) /\ OpenRules(text, n) = {})
  <2>1. CASE a = n + 1
    BY <1>1, <1>3, <1>6, <1>8, <2>1
  <2>2. CASE a # n + 1
    <3>1. a \in OpenAgents(text, n + 1) <=> a \in OpenAgents(text, n) /\ ~\E i \in a..n : text[i].kind = "rule"
      <4>1. CASE a \in 1..n
        <5>1. Turned(text, a, n + 1) <=> Turned(text, a, n) \/ \E i \in a..n : text[i].kind = "rule"
          BY <1>2, <1>8, <4>1
        <5> QED
          BY <1>1, <1>5, <1>6, <4>1, <5>1
      <4>2. CASE a \notin 1..n
        BY <1>1, <1>5, <1>6, <2>2, <4>2
      <4> QED
        BY <4>1, <4>2
    <3> QED
      BY <1>4, <2>2, <3>1
  <2> QED
    BY <2>1, <2>2
<1>9. text[n + 1].kind = "agent" /\ OpenRules(text, n) # {} => \A a \in OpenAgents(text, n) : Turned(text, a, n + 1)
  BY <1>2, <1>4, <1>5
<1> QED
  BY <1>7, <1>8, <1>9

LEMMA RulesNextLine ==
  ASSUME NEW text, NEW n \in Nat
  PROVE  /\ text[n + 1].kind = "rule" /\ OpenAgents(text, n) # {} => OpenRules(text, n + 1) = OpenRules(text, n) \cup {n + 1}
         /\ text[n + 1].kind = "rule" /\ OpenAgents(text, n) = {} => OpenRules(text, n + 1) = OpenRules(text, n)
         /\ text[n + 1].kind \notin {"agent", "rule"} => OpenRules(text, n + 1) = OpenRules(text, n)
         /\ text[n + 1].kind = "agent" => OpenRules(text, n + 1) = {}
<1>1. \A r : r \in OpenRules(text, n + 1) <=> r \in 1..(n + 1) /\ text[r].kind = "rule" /\ \E a \in OpenAgents(text, n + 1) : a < r
  BY DEF OpenRules
<1>2. \A r : r \in OpenRules(text, n) <=> r \in 1..n /\ text[r].kind = "rule" /\ \E a \in OpenAgents(text, n) : a < r
  BY DEF OpenRules
<1>3. \A r : r \in 1..(n + 1) <=> r \in 1..n \/ r = n + 1
  OBVIOUS
<1>4. \A a \in OpenAgents(text, n) : a < n + 1
  BY DEF OpenAgents
<1>5. CASE text[n + 1].kind # "agent"
  <2>1. OpenAgents(text, n + 1) = OpenAgents(text, n)
    BY <1>5, AgentsNext
  <2>2. \A r : r \in OpenRules(text, n + 1) <=> r \in OpenRules(text, n) \/ (r = n + 1 /\ text[r].kind = "rule" /\ OpenAgents(text, n) # {})
    BY <1>1, <1>2, <1>3, <1>4, <2>1
  <2> QED
    BY <1>5, <2>2
<1>6. CASE text[n + 1].kind = "agent"
  <2>1. ASSUME NEW r \in OpenRules(text, n + 1) PROVE FALSE
    <3>1. r \in 1..n /\ text[r].kind = "rule" /\ n + 1 \notin 1..n
      BY <1>1, <1>3, <1>6, <2>1
    <3>2. PICK a \in OpenAgents(text, n + 1) : a < r
      BY <1>1, <2>1
    <3>3. a # n + 1
      BY <3>1, <3>2
    <3>4. a \in OpenAgents(text, n) /\ OpenRules(text, n) = {}
      BY <1>6, <3>2, <3>3, AgentsNext
    <3> QED
      BY <1>2, <3>1, <3>2, <3>4
  <2> QED
    BY <1>6, <2>1
<1> QED
  BY <1>5, <1>6

\* A group that is read to its end is kept.
LEMMA GroupIsKept ==
  ASSUME NEW text, IsSequence(text), NEW n \in 0..Len(text), NEW g, OpenIs(text, n, g),
         n = Len(text) \/ (\A a \in OpenAgents(text, n) : Turned(text, a, n + 1))
  PROVE  /\ g.agents # <<>> => IsKept(text, g)
         /\ \A a \in OpenAgents(text, n) : Keeps(text, g, a)
         /\ g.agents = <<>> <=> OpenAgents(text, n) = {}
         /\ g.rules = <<>> <=> OpenRules(text, n) = {}
<1>1. \A a \in OpenAgents(text, n) : Under(text, a) = OpenRules(text, n)
  BY ClosedSpeaks
<1>2. \A a \in OpenAgents(text, n) : Keeps(text, g, a)
  BY <1>1 DEF Keeps, OpenIs, NamesOf
<1>3. OpenAgents(text, n) \subseteq AgentLines(text)
  <2> DEFINE L == Len(text)
  <2>1. L \in Nat /\ DOMAIN text = 1..L /\ n \in 0..L
    BY ListIs
  <2> HIDE DEF L
  <2>2. 1..n \subseteq 1..L
    BY <2>1
  <2> QED
    BY <2>1, <2>2 DEF OpenAgents, AgentLines
<1>4. g.agents = <<>> <=> OpenAgents(text, n) = {}
  <2>1. g.agents = <<>> <=> Range(g.agents) = {}
    BY ListIs DEF OpenIs
  <2> QED
    BY <2>1 DEF OpenIs, NamesOf
<1>5. g.rules = <<>> <=> OpenRules(text, n) = {}
  <2>1. g.rules = <<>> <=> Range(g.rules) = {}
    BY ListIs DEF OpenIs
  <2> QED
    BY <2>1 DEF OpenIs, LinesOf
<1>6. g.agents # <<>> => IsKept(text, g)
  <2> SUFFICES ASSUME g.agents # <<>> PROVE IsKept(text, g)
    OBVIOUS
  <2> DEFINE A == OpenAgents(text, n)
  <2>1. A \in SUBSET AgentLines(text) /\ A # {} /\ IsSequence(g.agents) /\ Range(g.agents) = NamesOf(text, A)
    BY <1>3, <1>4 DEF OpenIs
  <2>2. \A a \in A : Range(g.rules) = LinesOf(text, Under(text, a))
    BY <1>2 DEF Keeps
  <2> HIDE DEF A
  <2> QED
    BY <2>1, <2>2 DEF IsKept
<1> QED
  BY <1>2, <1>4, <1>5, <1>6

LEMMA OpenIsEmpty ==
  ASSUME NEW text, NEW n, NEW g, OpenIs(text, n, g)
  PROVE  /\ g.agents = <<>> <=> OpenAgents(text, n) = {}
         /\ g.rules = <<>> <=> OpenRules(text, n) = {}
<1>1. g.agents = <<>> <=> Range(g.agents) = {}
  BY ListIs DEF OpenIs
<1>2. g.rules = <<>> <=> Range(g.rules) = {}
  BY ListIs DEF OpenIs
<1> QED
  BY <1>1, <1>2 DEF OpenIs, NamesOf, LinesOf

\* What Flush keeps.
LEMMA FlushKeeps ==
  ASSUME NEW text, NEW groups, NEW g, IsSequence(groups)
  PROVE  /\ IsSequence(Flush(groups, g))
         /\ Range(Flush(groups, g)) = IF g.agents = <<>> THEN Range(groups) ELSE Range(groups) \cup {g}
BY ListGrows DEF Flush

LEMMA AgentRead ==
  ASSUME NEW text, IsSequence(text), NEW n \in Nat, n < Len(text), NEW groups, NEW g, ReadSoFar(text, n, groups, g),
         text[n + 1].kind = "agent"
  PROVE  /\ StartsGroup(g) => ReadSoFar(text, n + 1, Flush(groups, g), [agents |-> <<text[n + 1].name>>, rules |-> <<>>])
         /\ ~StartsGroup(g) => ReadSoFar(text, n + 1, groups, [g EXCEPT !.agents = Append(@, text[n + 1].name)])
<1> DEFINE name == text[n + 1].name
<1>0. n \in 0..Len(text)
  <2>1. Len(text) \in Nat
    BY ListIs
  <2> QED
    BY <2>1
<1>1. OpenIs(text, n, g) /\ KeptAre(text, n, groups)
  BY DEF ReadSoFar
<1>2. OpenRules(text, n + 1) = {}
  BY RulesNextLine
<1>3. StartsGroup(g) <=> OpenRules(text, n) # {}
  BY <1>1, OpenIsEmpty DEF StartsGroup
<1>4. \A a : a \in 1..(n + 1) <=> a \in 1..n \/ a = n + 1
  OBVIOUS
<1>5. CASE StartsGroup(g)
  <2> DEFINE new == [agents |-> <<name>>, rules |-> <<>>]
  <2>1. OpenAgents(text, n + 1) = {n + 1} /\ \A a \in OpenAgents(text, n) : Turned(text, a, n + 1)
    BY <1>3, <1>5, AgentsNext
  <2>2. IsSequence(<<name>>) /\ Range(<<name>>) = {name} /\ IsSequence(<<>>) /\ Range(<<>>) = {}
    BY DEF IsSequence, Range
  <2>3. OpenIs(text, n + 1, new)
    BY <1>2, <2>1, <2>2 DEF OpenIs, NamesOf, LinesOf
  <2>4. OpenAgents(text, n) # {}
    BY <1>3, <1>5 DEF OpenRules
  <2>5. g.agents # <<>> /\ IsKept(text, g) /\ \A a \in OpenAgents(text, n) : Keeps(text, g, a)
    <3>1. /\ g.agents # <<>> => IsKept(text, g)
          /\ \A a \in OpenAgents(text, n) : Keeps(text, g, a)
          /\ g.agents = <<>> <=> OpenAgents(text, n) = {}
      BY <1>0, <1>1, <2>1, GroupIsKept
    <3> QED
      BY <2>4, <3>1
  <2>6. IsSequence(Flush(groups, g)) /\ Range(Flush(groups, g)) = Range(groups) \cup {g}
    BY <1>1, <2>5, FlushKeeps DEF KeptAre
  <2>7. KeptAre(text, n + 1, Flush(groups, g))
    <3>1. ASSUME NEW a \in 1..(n + 1), text[a].kind = "agent"
          PROVE  a \in OpenAgents(text, n + 1) \/ \E h \in Range(groups) \cup {g} : Keeps(text, h, a)
      <4>1. CASE a = n + 1
        BY <2>1, <4>1
      <4>2. CASE a \in 1..n
        BY <1>1, <2>5, <3>1, <4>2 DEF KeptAre
      <4> QED
        BY <1>4, <4>1, <4>2
    <3>2. \A h \in Range(groups) \cup {g} : IsKept(text, h)
      BY <1>1, <2>5 DEF KeptAre
    <3> QED
      BY <2>6, <3>1, <3>2 DEF KeptAre
  <2> QED
    BY <1>5, <2>3, <2>7 DEF ReadSoFar
<1>6. CASE ~StartsGroup(g)
  <2> DEFINE new == [g EXCEPT !.agents = Append(@, name)]
  <2>1. OpenAgents(text, n + 1) = OpenAgents(text, n) \cup {n + 1} /\ OpenRules(text, n) = {}
    BY <1>3, <1>6, AgentsNext
  <2>2. new = [agents |-> Append(g.agents, name), rules |-> g.rules]
    <3> DEFINE A == Append(g.agents, name)
    <3>1. g = [agents |-> g.agents, rules |-> g.rules] /\ new = [g EXCEPT !.agents = A]
      BY <1>1 DEF OpenIs
    <3> HIDE DEF A, new
    <3> QED
      BY <3>1 DEF A
  <2>3. IsSequence(Append(g.agents, name)) /\ Range(Append(g.agents, name)) = Range(g.agents) \cup {name}
    BY <1>1, ListGrows DEF OpenIs
  <2>4. IsSequence(g.rules) /\ Range(g.rules) = LinesOf(text, OpenRules(text, n)) /\ Range(g.agents) = NamesOf(text, OpenAgents(text, n))
    BY <1>1 DEF OpenIs
  <2>5. OpenIs(text, n + 1, new)
    <3> HIDE DEF new
    <3> QED
      BY <1>2, <2>1, <2>2, <2>3, <2>4 DEF OpenIs, NamesOf
  <2>6. KeptAre(text, n + 1, groups)
    <3>1. ASSUME NEW a \in 1..(n + 1), text[a].kind = "agent"
          PROVE  a \in OpenAgents(text, n + 1) \/ \E h \in Range(groups) : Keeps(text, h, a)
      BY <1>1, <1>4, <2>1, <3>1 DEF KeptAre
    <3> QED
      BY <1>1, <3>1 DEF KeptAre
  <2> QED
    BY <1>6, <2>5, <2>6 DEF ReadSoFar
<1> QED
  BY <1>5, <1>6

LEMMA RuleRead ==
  ASSUME NEW text, NEW n \in Nat, NEW groups, NEW g, ReadSoFar(text, n, groups, g), text[n + 1].kind = "rule"
  PROVE  ReadSoFar(text, n + 1, groups, IF g.agents = <<>> THEN g ELSE [g EXCEPT !.rules = Append(@, text[n + 1])])
<1> DEFINE l == text[n + 1]
           new == [g EXCEPT !.rules = Append(@, l)]
<1>1. OpenIs(text, n, g) /\ KeptAre(text, n, groups)
  BY DEF ReadSoFar
<1>2. OpenAgents(text, n + 1) = OpenAgents(text, n)
  BY AgentsNext
<1>3. g.agents = <<>> <=> OpenAgents(text, n) = {}
  BY <1>1, OpenIsEmpty
<1>4. KeptAre(text, n + 1, groups)
  <2>1. \A a : a \in 1..(n + 1) <=> a \in 1..n \/ a = n + 1
    OBVIOUS
  <2> QED
    BY <1>1, <1>2, <2>1 DEF KeptAre
<1>5. CASE g.agents = <<>>
  <2>1. OpenRules(text, n + 1) = OpenRules(text, n)
    BY <1>3, <1>5, RulesNextLine
  <2> QED
    BY <1>1, <1>2, <1>4, <1>5, <2>1 DEF ReadSoFar, OpenIs
<1>6. CASE g.agents # <<>>
  <2>1. OpenRules(text, n + 1) = OpenRules(text, n) \cup {n + 1}
    BY <1>3, <1>6, RulesNextLine
  <2>2. new = [agents |-> g.agents, rules |-> Append(g.rules, l)]
    BY <1>1, SMTT(20) DEF OpenIs
  <2>3. IsSequence(Append(g.rules, l)) /\ Range(Append(g.rules, l)) = Range(g.rules) \cup {l}
    BY <1>1, ListGrows DEF OpenIs
  <2>4. IsSequence(g.agents) /\ Range(g.rules) = LinesOf(text, OpenRules(text, n)) /\ Range(g.agents) = NamesOf(text, OpenAgents(text, n))
    BY <1>1 DEF OpenIs
  <2>5. OpenIs(text, n + 1, new)
    <3> HIDE DEF new
    <3> QED
      BY <1>2, <2>1, <2>2, <2>3, <2>4 DEF OpenIs, LinesOf
  <2> QED
    BY <1>4, <1>6, <2>5 DEF ReadSoFar
<1> QED
  BY <1>5, <1>6

LEMMA OtherRead ==
  ASSUME NEW text, NEW n \in Nat, NEW groups, NEW g, ReadSoFar(text, n, groups, g), text[n + 1].kind = "other"
  PROVE  ReadSoFar(text, n + 1, groups, g)
<1>1. OpenAgents(text, n + 1) = OpenAgents(text, n) /\ OpenRules(text, n + 1) = OpenRules(text, n)
  BY AgentsNext, RulesNextLine
<1>2. \A a : a \in 1..(n + 1) <=> a \in 1..n \/ a = n + 1
  OBVIOUS
<1> QED
  BY <1>1, <1>2 DEF ReadSoFar, OpenIs, KeptAre

\* Of a file read to its end every group is kept, and every agent's line is in one.
FullyRead(text, policy) ==
  /\ \A g \in Range(policy) : IsKept(text, g)
  /\ \A a \in AgentLines(text) : \E g \in Range(policy) : Keeps(text, g, a)

LEMMA EndIsFullyRead ==
  ASSUME NEW text, IsSequence(text), NEW groups, NEW g, ReadSoFar(text, Len(text), groups, g)
  PROVE  FullyRead(text, Flush(groups, g))
<1> DEFINE L == Len(text)
<1>1. L \in Nat /\ DOMAIN text = 1..L /\ L \in 0..L
  BY ListIs
<1>2. OpenIs(text, L, g) /\ KeptAre(text, L, groups)
  BY DEF ReadSoFar
<1>3. /\ g.agents # <<>> => IsKept(text, g)
      /\ \A a \in OpenAgents(text, L) : Keeps(text, g, a)
      /\ g.agents = <<>> <=> OpenAgents(text, L) = {}
  BY <1>1, <1>2, GroupIsKept
<1>4. Range(Flush(groups, g)) = IF g.agents = <<>> THEN Range(groups) ELSE Range(groups) \cup {g}
  BY <1>2, FlushKeeps DEF KeptAre
<1> HIDE DEF L
<1>5. \A h \in Range(Flush(groups, g)) : IsKept(text, h)
  BY <1>2, <1>3, <1>4 DEF KeptAre
<1>6. ASSUME NEW a \in AgentLines(text) PROVE \E h \in Range(Flush(groups, g)) : Keeps(text, h, a)
  <2>1. a \in 1..L /\ text[a].kind = "agent"
    BY <1>1 DEF AgentLines
  <2>2. a \in OpenAgents(text, L) \/ \E h \in Range(groups) : Keeps(text, h, a)
    BY <1>2, <2>1 DEF KeptAre
  <2>3. Range(groups) \subseteq Range(Flush(groups, g))
    BY <1>4
  <2>4. a \in OpenAgents(text, L) => g \in Range(Flush(groups, g)) /\ Keeps(text, g, a)
    BY <1>3, <1>4
  <2> QED
    BY <2>2, <2>3, <2>4
<1> QED
  BY <1>5, <1>6 DEF FullyRead

-----------------------------------------------------------------------------
(* The policy of a file.                                                    *)

FitOf(name) == IF name \in OwnTokens THEN AgentTokens[name] ELSE IF name = AnyAgent THEN 0 ELSE -1

LEMMA FitIsAtLeast ==
  ASSUME NEW name
  PROVE  FitOf(name) \in Int /\ -1 <= FitOf(name) /\ (name \in OwnTokens => FitOf(name) = AgentTokens[name])
<1>1. CASE name \in OwnTokens
  <2>1. AgentTokens[name] \in Nat
    BY <1>1, RulesAssumption DEF RulesAssumption
  <2> QED
    BY <1>1, <2>1 DEF FitOf
<1>2. CASE name \notin OwnTokens
  BY <1>2 DEF FitOf
<1> QED
  BY <1>1, <1>2

LEMMA OneMoreIsBounded ==
  ASSUME NEW s, NEW n \in Nat, n # 0, NEW b \in Nat,
         \A i \in 1..(n - 1) : s[i] \in OwnTokens => AgentTokens[s[i]] <= b
  PROVE  \E c \in Nat : \A i \in 1..n : s[i] \in OwnTokens => AgentTokens[s[i]] <= c
<1>1. \A x \in OwnTokens : AgentTokens[x] \in Nat
  BY RulesAssumption DEF RulesAssumption
<1>2. \A i \in 1..n : i \in 1..(n - 1) \/ i = n
  OBVIOUS
<1>3. CASE s[n] \notin OwnTokens
  BY <1>2, <1>3
<1>4. CASE s[n] \in OwnTokens
  <2>1. PICK v \in Nat : v = AgentTokens[s[n]]
    BY <1>1, <1>4
  <2>2. PICK c \in Nat : b <= c /\ v <= c
    OBVIOUS
  <2>3. \A m \in Nat : m <= b => m <= c
    BY <2>2
  <2> QED
    BY <1>1, <1>2, <2>1, <2>2, <2>3
<1> QED
  BY <1>3, <1>4

\* The lengths of a list's own names have a bound.
LEMMA OwnAreBounded ==
  ASSUME NEW s, IsSequence(s)
  PROVE  \E b \in Nat : \A x \in Range(s) : x \in OwnTokens => AgentTokens[x] <= b
<1> DEFINE L == Len(s)
           Bounded(n) == \E b \in Nat : \A i \in 1..n : s[i] \in OwnTokens => AgentTokens[s[i]] <= b
           Off == {n \in Nat : n <= L /\ ~Bounded(n)}
<1>1. L \in Nat /\ Range(s) = {s[i] : i \in 1..L}
  BY ListIs
<1>2. Off = {}
  <2> SUFFICES ASSUME Off # {} PROVE FALSE
    OBVIOUS
  <2>1. PICK n \in Off : \A m \in Off : n <= m
    <3>1. Off \in SUBSET Nat
      OBVIOUS
    <3> HIDE DEF Off
    <3> QED
      BY <3>1, SmallestOf
  <2>2. n \in Nat /\ n <= L /\ ~Bounded(n)
    OBVIOUS
  <2>3. n # 0
    <3>1. 1..0 = {} /\ 0 \in Nat
      OBVIOUS
    <3>2. Bounded(0)
      BY <3>1
    <3> QED
      BY <2>2, <3>2
  <2>4. n - 1 \in Nat /\ n - 1 <= L /\ ~(n <= n - 1)
    <3> HIDE DEF L, Bounded
    <3> QED
      BY <1>1, <2>2, <2>3
  <2>5. Bounded(n - 1)
    BY <2>1, <2>4
  <2>6. PICK b \in Nat : \A i \in 1..(n - 1) : s[i] \in OwnTokens => AgentTokens[s[i]] <= b
    BY <2>5
  <2>7. Bounded(n)
    BY <2>2, <2>3, <2>6, OneMoreIsBounded
  <2> QED
    BY <2>2, <2>7
<1>3. Bounded(L)
  <2>1. L <= L
    <3> HIDE DEF L
    <3> QED
      BY <1>1
  <2> HIDE DEF Bounded, L
  <2>2. L \notin Off
    BY <1>2
  <2> QED
    BY <1>1, <2>1, <2>2
<1> QED
  BY <1>1, <1>3

\* A group fits as its best name does.
LEMMA FitIs ==
  ASSUME NEW g, IsSequence(g.agents)
  PROVE  /\ \A x \in Range(g.agents) : FitOf(x) <= Fit(g)
         /\ Range(g.agents) # {} => \E x \in Range(g.agents) : FitOf(x) = Fit(g)
<1> DEFINE S == Range(g.agents)
           own == {AgentTokens[a] : a \in S \cap OwnTokens}
<1>1. Fit(g) = IF own # {} THEN Max(own) ELSE IF AnyAgent \in S THEN 0 ELSE -1
  BY DEF Fit
<1>2. CASE own = {}
  <2>1. S \cap OwnTokens = {}
    BY <1>2
  <2>2. \A x \in S : FitOf(x) = IF x = AnyAgent THEN 0 ELSE -1
    BY <2>1 DEF FitOf
  <2> HIDE DEF own, S
  <2> QED
    BY <1>1, <1>2, <2>2 DEF S
<1>3. CASE own # {}
  <2>1. PICK b \in Nat : \A x \in S : x \in OwnTokens => AgentTokens[x] <= b
    BY OwnAreBounded
  <2>2. \A x \in OwnTokens : AgentTokens[x] \in Nat
    BY RulesAssumption DEF RulesAssumption
  <2>3. own \in SUBSET (0..b)
    BY <2>1, <2>2
  <2>4. \E m \in own : \A n \in own : n <= m
    <3> HIDE DEF own
    <3> QED
      BY <1>3, <2>3, LargestOf
  <2>5. \A m, n \in own : n <= m <=> m >= n
    BY <2>3
  <2>6. Max(own) \in own /\ \A n \in own : n <= Max(own)
    <3> HIDE DEF own
    <3> QED
      BY <2>4, <2>5 DEF Max
  <2>7. Fit(g) \in own /\ \A n \in own : n <= Fit(g)
    BY <1>1, <1>3, <2>6
  <2>8. Fit(g) \in Nat
    BY <2>3, <2>7
  <2>9. ASSUME NEW x \in S PROVE FitOf(x) <= Fit(g)
    <3>1. CASE x \in OwnTokens
      <4>1. FitOf(x) = AgentTokens[x]
        BY <3>1, FitIsAtLeast
      <4>2. AgentTokens[x] \in own
        BY <3>1
      <4> QED
        BY <2>7, <4>1, <4>2
    <3>2. CASE x \notin OwnTokens
      BY <2>8, <3>2 DEF FitOf
    <3> QED
      BY <3>1, <3>2
  <2>10. PICK x \in S \cap OwnTokens : Fit(g) = AgentTokens[x]
    BY <2>7
  <2>11. FitOf(x) = Fit(g)
    BY <2>10, FitIsAtLeast
  <2> QED
    BY <2>9, <2>10, <2>11
<1> QED
  BY <1>2, <1>3

LEMMA FitIsInt ==
  ASSUME NEW text, NEW g, IsKept(text, g)
  PROVE  Fit(g) \in Int
<1>1. PICK A \in SUBSET AgentLines(text) : A # {} /\ Range(g.agents) = NamesOf(text, A)
  BY DEF IsKept
<1>2. Range(g.agents) # {}
  BY <1>1 DEF NamesOf
<1>3. PICK x \in Range(g.agents) : FitOf(x) = Fit(g)
  BY <1>2, FitIs DEF IsKept
<1> QED
  BY <1>3, FitIsAtLeast

\* The rules that apply are those of the groups that are selected.
LEMMA SelectedApply ==
  ASSUME NEW text, NEW policy, FullyRead(text, policy)
  PROVE  UNION {Range(g.rules) : g \in SelectedGroups(policy)} = LinesOf(text, Applying(text))
<1> DEFINE own == {a \in DOMAIN text : text[a].kind = "agent" /\ FitOf(text[a].name) >= 0}
           best == {a \in own : \A b \in own : FitOf(text[b].name) <= FitOf(text[a].name)}
           fitting == {g \in Range(policy) : Fit(g) >= 0}
           chosen == {g \in fitting : \A h \in fitting : Fit(h) <= Fit(g)}
<1>1. Applying(text) = {r \in DOMAIN text : \E a \in best : Governs(text, a, r)}
  BY DEF Applying, FitOf
<1>2. SelectedGroups(policy) = chosen
  BY DEF SelectedGroups
<1>3. \A a \in own : a \in AgentLines(text) /\ FitOf(text[a].name) >= 0 /\ FitOf(text[a].name) \in Int
  BY FitIsAtLeast DEF AgentLines
<1>4. \A a \in AgentLines(text) : FitOf(text[a].name) >= 0 => a \in own
  BY DEF AgentLines
<1>5. \A g \in Range(policy) : Fit(g) \in Int
  BY FitIsInt DEF FullyRead
<1>6. \A a \in AgentLines(text), g \in Range(policy) : Keeps(text, g, a) => FitOf(text[a].name) <= Fit(g)
  BY FitIs DEF FullyRead, IsKept, Keeps
<1>7. ASSUME NEW g \in Range(policy)
      PROVE  \E a \in AgentLines(text) : Keeps(text, g, a) /\ FitOf(text[a].name) = Fit(g)
  <2>1. PICK A \in SUBSET AgentLines(text) : /\ A # {} /\ Range(g.agents) = NamesOf(text, A)
                                             /\ \A a \in A : Range(g.rules) = LinesOf(text, Under(text, a))
    BY DEF FullyRead, IsKept
  <2>2. Range(g.agents) # {}
    BY <2>1 DEF NamesOf
  <2>3. PICK x \in Range(g.agents) : FitOf(x) = Fit(g)
    BY <2>2, FitIs DEF FullyRead, IsKept
  <2>4. PICK a \in A : text[a].name = x
    BY <2>1, <2>3 DEF NamesOf
  <2> QED
    BY <2>1, <2>3, <2>4 DEF Keeps
<1>8. \A a \in AgentLines(text) : \E g \in Range(policy) : Keeps(text, g, a)
  BY DEF FullyRead
<1>9. \A g : g \in chosen <=> g \in Range(policy) /\ Fit(g) >= 0 /\ \A h \in Range(policy) : Fit(h) >= 0 => Fit(h) <= Fit(g)
  OBVIOUS
<1>10. \A a : a \in best <=> a \in own /\ \A b \in own : FitOf(text[b].name) <= FitOf(text[a].name)
  OBVIOUS
<1> HIDE DEF own, best, fitting, chosen
<1>11. ASSUME NEW g \in chosen, NEW l \in Range(g.rules) PROVE l \in LinesOf(text, Applying(text))
  <2>1. g \in Range(policy) /\ Fit(g) >= 0
    BY <1>9
  <2>2. PICK a \in AgentLines(text) : Keeps(text, g, a) /\ FitOf(text[a].name) = Fit(g)
    BY <1>7, <2>1
  <2>3. a \in own
    BY <1>4, <2>1, <2>2
  <2>4. ASSUME NEW b \in own PROVE FitOf(text[b].name) <= FitOf(text[a].name)
    <3>1. PICK h \in Range(policy) : Keeps(text, h, b)
      BY <1>3, <1>8
    <3>2. FitOf(text[b].name) <= Fit(h) /\ FitOf(text[b].name) >= 0 /\ FitOf(text[b].name) \in Int
      BY <1>3, <1>6, <3>1
    <3>3. Fit(h) \in Int /\ Fit(g) \in Int
      BY <1>5, <2>1
    <3>4. Fit(h) >= 0
      BY <3>2, <3>3
    <3>5. Fit(h) <= Fit(g)
      BY <1>9, <3>4
    <3> QED
      BY <2>2, <3>2, <3>3, <3>5
  <2>5. a \in best
    BY <1>10, <2>3, <2>4
  <2>6. PICK r \in Under(text, a) : l = text[r]
    BY <2>2 DEF Keeps, LinesOf
  <2>7. r \in Applying(text)
    BY <1>1, <2>5, <2>6 DEF Under
  <2> QED
    BY <2>6, <2>7 DEF LinesOf
<1>12. ASSUME NEW r \in Applying(text) PROVE \E g \in chosen : text[r] \in Range(g.rules)
  <2>1. PICK a \in best : r \in DOMAIN text /\ Governs(text, a, r)
    BY <1>1
  <2>2. a \in own /\ a \in AgentLines(text) /\ FitOf(text[a].name) >= 0 /\ FitOf(text[a].name) \in Int
    BY <1>3, <1>10
  <2>3. PICK g \in Range(policy) : Keeps(text, g, a)
    BY <1>8, <2>2
  <2>4. FitOf(text[a].name) <= Fit(g) /\ Fit(g) \in Int
    BY <1>5, <1>6, <2>2, <2>3
  <2>5. ASSUME NEW h \in Range(policy), Fit(h) >= 0 PROVE Fit(h) <= Fit(g)
    <3>1. PICK b \in AgentLines(text) : FitOf(text[b].name) = Fit(h)
      BY <1>7
    <3>2. b \in own
      BY <1>4, <2>5, <3>1
    <3>3. FitOf(text[b].name) <= FitOf(text[a].name)
      BY <1>10, <3>2
    <3>4. Fit(h) \in Int
      BY <1>5
    <3> QED
      BY <2>2, <2>4, <3>1, <3>3, <3>4
  <2>6. Fit(g) >= 0
    BY <2>2, <2>4
  <2>7. g \in chosen
    BY <1>9, <2>5, <2>6
  <2>8. text[r] \in Range(g.rules)
    BY <2>1, <2>3 DEF Keeps, LinesOf, Under
  <2> QED
    BY <2>7, <2>8
<1>13. \A l \in LinesOf(text, Applying(text)) : \E g \in chosen : l \in Range(g.rules)
  BY <1>12 DEF LinesOf
<1> QED
  BY <1>2, <1>11, <1>13

\* The audit allows what the file does not forbid.
LEMMA AllowedIsNotForbidden ==
  ASSUME NEW text, NEW policy, FullyRead(text, policy), NEW target, Len(target) \in Nat,
         \A r \in DOMAIN text : text[r].kind = "rule" => Len(text[r].path.pattern) \in Nat
  PROVE  AllowedBy(policy, target) <=> ~Forbidden(text, target)
<1> DEFINE U == LinesOf(text, Applying(text))
           says(p) == p.pattern # <<>> \/ p.anchored
           rules == {r \in U : says(r.path) /\ PathMatches(r.path, target)}
           longest == {r \in rules : \A q \in rules : Specificity(q.path) <= Specificity(r.path)}
           matching == {text[r].path : r \in {q \in Applying(text) : FitsFrom(text[q].path, target) /\ says(text[q].path)}}
           longestPaths == {p \in matching : \A q \in matching : Specificity(q) <= Specificity(p)}
<1>1. AllowedBy(policy, target) <=> (rules # {} => \E r \in longest : r.allow)
  BY SelectedApply DEF AllowedBy
<1>2. Forbidden(text, target) <=> matching # {} /\ \A r \in Applying(text) : text[r].path \in longestPaths => ~text[r].allow
  BY DEF Forbidden
<1>3. \A r \in Applying(text) : r \in DOMAIN text /\ text[r].kind = "rule"
  BY DEF Applying, Governs
<1>4. \A r \in Applying(text) : PathMatches(text[r].path, target) <=> FitsFrom(text[r].path, target)
  BY <1>3, LoopIsRight
<1>5. \A r \in Applying(text) : text[r] \in rules <=> text[r].path \in matching
  <2> TAKE r \in Applying(text)
  <2>1. text[r] \in U
    BY DEF LinesOf
  <2>2. text[r] \in rules <=> says(text[r].path) /\ FitsFrom(text[r].path, target)
    BY <1>4, <2>1
  <2>3. text[r].path \in matching <=> says(text[r].path) /\ FitsFrom(text[r].path, target)
    OBVIOUS
  <2> QED
    BY <2>2, <2>3
<1>6. \A l \in rules : \E r \in Applying(text) : l = text[r]
  BY DEF LinesOf
<1>7. \A p \in matching : \E r \in Applying(text) : p = text[r].path
  OBVIOUS
<1>8. \A l : l \in longest <=> l \in rules /\ \A q \in rules : Specificity(q.path) <= Specificity(l.path)
  OBVIOUS
<1>9. \A p : p \in longestPaths <=> p \in matching /\ \A q \in matching : Specificity(q) <= Specificity(p)
  OBVIOUS
<1> HIDE DEF U, rules, longest, matching, longestPaths
<1>10. \A r \in Applying(text) : text[r] \in longest <=> text[r].path \in longestPaths
  BY <1>5, <1>6, <1>7, <1>8, <1>9
<1>11. rules # {} <=> matching # {}
  BY <1>5, <1>6, <1>7
<1>12. (\E l \in longest : l.allow) <=> \E r \in Applying(text) : text[r].path \in longestPaths /\ text[r].allow
  BY <1>6, <1>8, <1>10
<1> QED
  BY <1>1, <1>2, <1>11, <1>12

\* Until a robots file is evaluated the groups are what has been read of it.
RobotsInv ==
  /\ siteEvidence \in SiteEvidence
  /\ Robots /\ ~evaluated => /\ linesRead \in 0..Len(siteEvidence.text)
                             /\ ReadSoFar(siteEvidence.text, linesRead, robotsGroups, openGroup)
  /\ RobotsFilesMean

LEMMA RobotsEvidence ==
  ASSUME siteEvidence \in SiteEvidence, Robots
  PROVE  /\ IsSequence(siteEvidence.text)
         /\ \A p \in siteEvidence.pages : Len(p.target) \in Nat
         /\ \A r \in DOMAIN siteEvidence.text : siteEvidence.text[r].kind = "rule" => Len(siteEvidence.text[r].path.pattern) \in Nat
<1>1. /\ IsSequence(siteEvidence.text)
      /\ \A p \in siteEvidence.pages : IsSequence(p.target)
      /\ \A l \in Range(siteEvidence.text) : l.kind = "rule" => IsSequence(l.path.pattern)
  BY EvidenceAssumption DEF EvidenceAssumption, Robots
<1>2. \A r \in DOMAIN siteEvidence.text : siteEvidence.text[r] \in Range(siteEvidence.text)
  BY DEF Range
<1> QED
  BY <1>1, <1>2, ListIs

LEMMA FileIsJudged ==
  ASSUME RobotsInv, EvaluateRobots
  PROVE  RobotsVerdict'
<1> DEFINE text == siteEvidence.text
           policy == Flush(robotsGroups, openGroup)
           barred == {p \in siteEvidence.pages : p.noindex /\ ~AllowedBy(policy, p.target)}
           hidden == {p \in siteEvidence.pages : p.noindex /\ Forbidden(text, p.target)}
<1>1. Robots /\ ~evaluated /\ siteEvidence' = siteEvidence /\ ruleFindings' = ReplyFindings \cup BlockedFindings(policy)
  BY DEF EvaluateRobots
<1>2. BlockedFindings(policy) = IF siteEvidence.reply \in {"busy", "absent"} \/ barred = {} THEN {} ELSE {<<"noindex-blocked-by-robots", barred>>}
  BY DEF BlockedFindings
<1>3. siteEvidence.reply = "found" => ruleFindings' = IF hidden = {} THEN {} ELSE {<<"noindex-blocked-by-robots", hidden>>}
  <2> SUFFICES ASSUME siteEvidence.reply = "found" PROVE ruleFindings' = IF hidden = {} THEN {} ELSE {<<"noindex-blocked-by-robots", hidden>>}
    OBVIOUS
  <2>1. linesRead = Len(text)
    BY DEF EvaluateRobots
  <2>2. ReadSoFar(text, Len(text), robotsGroups, openGroup)
    BY <1>1, <2>1 DEF RobotsInv
  <2>3. siteEvidence \in SiteEvidence
    BY DEF RobotsInv
  <2>4. IsSequence(text)
    BY <1>1, <2>3, RobotsEvidence
  <2>5. FullyRead(text, policy)
    BY <2>2, <2>4, EndIsFullyRead
  <2>6. ASSUME NEW p \in siteEvidence.pages PROVE AllowedBy(policy, p.target) <=> ~Forbidden(text, p.target)
    <3>1. Len(p.target) \in Nat /\ \A r \in DOMAIN text : text[r].kind = "rule" => Len(text[r].path.pattern) \in Nat
      BY <1>1, <2>3, RobotsEvidence
    <3> HIDE DEF text, policy
    <3> QED
      BY <2>5, <3>1, AllowedIsNotForbidden
  <2>7. barred = hidden
    BY <2>6
  <2>8. ReplyFindings = {}
    BY DEF ReplyFindings
  <2> HIDE DEF barred, hidden, policy
  <2> QED
    BY <1>1, <1>2, <2>7, <2>8
<1>4. siteEvidence.reply \in {"lost", "busy"} => ruleFindings' # {}
  <2>1. siteEvidence.reply \in {"lost", "busy"} => ReplyFindings # {}
    BY DEF ReplyFindings
  <2> QED
    BY <1>1, <2>1
<1> QED
  BY <1>1, <1>3, <1>4 DEF RobotsVerdict

LEMMA LineIsRead ==
  ASSUME RobotsInv, ReadLine
  PROVE  RobotsInv'
<1> DEFINE text == siteEvidence.text
           n == linesRead
           l == text[n + 1]
<1>1. /\ Robots /\ ~evaluated /\ n < Len(text) /\ linesRead' = n + 1 /\ siteEvidence' = siteEvidence /\ evaluated' = evaluated
      /\ ReadAgent(l) \/ ReadRule(l) \/ ReadOther(l)
  BY DEF ReadLine
<1>2. siteEvidence \in SiteEvidence /\ n \in 0..Len(text) /\ ReadSoFar(text, n, robotsGroups, openGroup)
  BY <1>1 DEF RobotsInv
<1>3. IsSequence(text)
  BY <1>1, <1>2, RobotsEvidence
<1>4. n \in Nat /\ n + 1 \in 0..Len(text)
  <2> DEFINE L == Len(text)
  <2>1. L \in Nat /\ n \in 0..L /\ n < L
    BY <1>1, <1>2, <1>3, ListIs
  <2> HIDE DEF L, n
  <2>2. n \in Nat /\ n + 1 \in 0..L
    BY <2>1
  <2> QED
    BY <2>2 DEF L
<1>5. CASE ReadAgent(l)
  <2>1. l.kind = "agent"
    BY <1>5 DEF ReadAgent
  <2>2. /\ StartsGroup(openGroup) => ReadSoFar(text, n + 1, Flush(robotsGroups, openGroup), [agents |-> <<l.name>>, rules |-> <<>>])
        /\ ~StartsGroup(openGroup) => ReadSoFar(text, n + 1, robotsGroups, [openGroup EXCEPT !.agents = Append(@, l.name)])
    BY <1>1, <1>2, <1>3, <1>4, <2>1, AgentRead
  <2>3. ReadSoFar(text, n + 1, robotsGroups', openGroup')
    BY <1>5, <2>2 DEF ReadAgent
  <2> QED
    BY <1>1, <1>2, <1>4, <2>3 DEF RobotsInv, Robots, RobotsFilesMean
<1>6. CASE ReadRule(l)
  <2>1. l.kind = "rule" /\ robotsGroups' = robotsGroups
        /\ openGroup' = IF openGroup.agents = <<>> THEN openGroup ELSE [openGroup EXCEPT !.rules = Append(@, l)]
    BY <1>6 DEF ReadRule
  <2>2. ReadSoFar(text, n + 1, robotsGroups, IF openGroup.agents = <<>> THEN openGroup ELSE [openGroup EXCEPT !.rules = Append(@, l)])
    BY <1>2, <1>4, <2>1, RuleRead
  <2>3. ReadSoFar(text, n + 1, robotsGroups', openGroup')
    BY <2>1, <2>2
  <2> QED
    BY <1>1, <1>2, <1>4, <2>3 DEF RobotsInv, Robots, RobotsFilesMean
<1>7. CASE ReadOther(l)
  <2>1. l.kind = "other" /\ robotsGroups' = robotsGroups /\ openGroup' = openGroup
    BY <1>7 DEF ReadOther
  <2>2. ReadSoFar(text, n + 1, robotsGroups, openGroup)
    BY <1>2, <1>4, <2>1, OtherRead
  <2>3. ReadSoFar(text, n + 1, robotsGroups', openGroup')
    BY <2>1, <2>2
  <2> QED
    BY <1>1, <1>2, <1>4, <2>3 DEF RobotsInv, Robots, RobotsFilesMean
<1> QED
  BY <1>1, <1>5, <1>6, <1>7

\* Whatever robots file was read, and whatever pages were crawled: the pages reported as
\* hidden from the crawler are exactly those that ask not to be indexed and that the
\* rules of the best fitting agents forbid, however the file spreads them over groups,
\* and a file that could not be read is reported (crawler.py, parse_robots;
\* robots_policy.py:81-112; robots_rules.py, robots).
THEOREM RobotsFilesAreObeyed == RulesSpec => []RobotsFilesMean
<1>1. RulesInit => RobotsInv
  <2> SUFFICES ASSUME RulesInit, Robots PROVE RobotsInv
    BY DEF RulesInit, RobotsInv, RobotsFilesMean
  <2>1. siteEvidence \in SiteEvidence /\ linesRead = 0 /\ robotsGroups = <<>> /\ openGroup = NoGroup /\ evaluated = FALSE
    BY DEF RulesInit
  <2>2. Len(siteEvidence.text) \in Nat
    BY <2>1, RobotsEvidence, ListIs
  <2>3. 0 \in 0..Len(siteEvidence.text)
    BY <2>2
  <2>4. ReadSoFar(siteEvidence.text, 0, <<>>, NoGroup)
    BY NothingIsOpen
  <2> QED
    BY <2>1, <2>3, <2>4 DEF RobotsInv, RobotsFilesMean
<1>2. RobotsInv /\ [RulesNext]_ruleVars => RobotsInv'
  <2> SUFFICES ASSUME RobotsInv, [RulesNext]_ruleVars PROVE RobotsInv'
    OBVIOUS
  <2>1. CASE ReadLine
    BY <2>1, LineIsRead
  <2>2. CASE EvaluateRobots
    <3>1. RobotsVerdict'
      BY <2>2, FileIsJudged
    <3>2. siteEvidence' = siteEvidence /\ evaluated'
      BY <2>2 DEF EvaluateRobots
    <3> QED
      BY <3>1, <3>2 DEF RobotsInv, RobotsFilesMean
  <2>3. CASE EvaluateConsent \/ BeginTrail \/ Hop \/ LeaveTrail \/ EndCanonical \/ EvaluateAudit
    <3>1. siteEvidence' = siteEvidence /\ siteEvidence.rule # "robots"
      BY <2>3 DEF EvaluateConsent, BeginTrail, Hop, LeaveTrail, EndCanonical, EvaluateAudit, Consent, Canonicals, Audit
    <3> QED
      BY <3>1 DEF RobotsInv, RobotsFilesMean, Robots
  <2>4. CASE UNCHANGED ruleVars
    BY <2>4 DEF ruleVars, RobotsInv, RobotsFilesMean, RobotsVerdict, Robots
  <2> QED
    BY <2>1, <2>2, <2>3, <2>4 DEF RulesNext
<1>3. RobotsInv => RobotsFilesMean
  BY DEF RobotsInv
<1> QED
  BY <1>1, <1>2, <1>3, PTL DEF RulesSpec

-----------------------------------------------------------------------------
(* The audit: the order of its findings, their groups, and what they tell.  *)

\* Ranks that differ are all the ranks there are.
LEMMA RanksFill ==
  ASSUME NEW S, IsFiniteSet(S), NEW rank \in [S -> 1..Cardinality(S)],
         \A a, b \in S : a # b => rank[a] # rank[b]
  PROVE  \A n \in 1..Cardinality(S) : \E a \in S : rank[a] = n
<1> DEFINE N == Cardinality(S)
<1>1. N \in Nat
  BY FS_CardinalityType
<1>2. IsFiniteSet(1..N) /\ Cardinality(1..N) = N
  BY <1>1, FS_Interval
<1>3. rank \in Injection(S, 1..N)
  BY DEF Injection, IsInjective
<1>4. rank \in Surjection(S, 1..N)
  BY <1>2, <1>3, FS_Injection
<1> QED
  BY <1>4 DEF Surjection

LEMMA InTheirOrder ==
  ASSUME NEW places \in SUBSET Nat, IsFiniteSet(places), NEW n \in 1..Cardinality(places)
  PROVE  Nth(places, n) \in places
<1> DEFINE upTo(i) == {j \in places : j <= i}
           rank == [i \in places |-> Cardinality(upTo(i))]
<1>1. \A i \in places : IsFiniteSet(upTo(i)) /\ Cardinality(upTo(i)) \in 1..Cardinality(places)
  <2> TAKE i \in places
  <2>1. upTo(i) \subseteq places /\ i \in upTo(i)
    OBVIOUS
  <2> HIDE DEF upTo
  <2>2. IsFiniteSet(upTo(i)) /\ Cardinality(upTo(i)) <= Cardinality(places)
    BY <2>1, FS_Subset
  <2>3. Cardinality(upTo(i)) \in Nat /\ Cardinality(upTo(i)) # 0 /\ Cardinality(places) \in Nat
    BY <2>1, <2>2, FS_CardinalityType, FS_EmptySet
  <2> QED
    BY <2>2, <2>3
<1>2. \A i, j \in places : i < j => Cardinality(upTo(i)) < Cardinality(upTo(j))
  <2> TAKE i, j \in places
  <2> HAVE i < j
  <2>0. \A k \in upTo(i) : k \in upTo(j)
    OBVIOUS
  <2>a. j \in upTo(j) /\ ~(j <= i)
    OBVIOUS
  <2>1. upTo(i) \subseteq upTo(j) /\ j \in upTo(j) /\ j \notin upTo(i)
    BY <2>0, <2>a
  <2> HIDE DEF upTo
  <2>2. upTo(i) # upTo(j)
    BY <2>1
  <2>3. IsFiniteSet(upTo(j)) /\ upTo(i) \in SUBSET upTo(j)
    BY <1>1, <2>1
  <2>5. Cardinality(upTo(i)) <= Cardinality(upTo(j))
        /\ (Cardinality(upTo(j)) = Cardinality(upTo(i)) => upTo(j) = upTo(i))
    BY <2>3, FS_Subset
  <2>4. Cardinality(upTo(i)) \in Nat /\ Cardinality(upTo(j)) \in Nat
    BY <1>1, FS_CardinalityType
  <2> QED
    BY <2>2, <2>4, <2>5
<1> HIDE DEF upTo
<1>3. rank \in [places -> 1..Cardinality(places)]
  BY <1>1
<1>4. \A i, j \in places : i # j => rank[i] # rank[j]
  <2> TAKE i, j \in places
  <2> HAVE i # j
  <2>1. i < j \/ j < i
    OBVIOUS
  <2>2. Cardinality(upTo(i)) \in Nat /\ Cardinality(upTo(j)) \in Nat
    BY <1>1, FS_CardinalityType
  <2>3. rank[i] = Cardinality(upTo(i)) /\ rank[j] = Cardinality(upTo(j))
    OBVIOUS
  <2> HIDE DEF rank
  <2> QED
    BY <1>2, <2>1, <2>2, <2>3
<1>5. \E i \in places : rank[i] = n
  <2> HIDE DEF rank
  <2> QED
    BY <1>3, <1>4, RanksFill
<1>6. \E i \in places : Cardinality({j \in places : j <= i}) = n
  BY <1>5 DEF upTo
<1> QED
  BY <1>6 DEF Nth

LEMMA PlacesAreFinite ==
  ASSUME NEW list, IsSequence(list), NEW places \in SUBSET DOMAIN list
  PROVE  IsFiniteSet(places)
<1>1. DOMAIN list = 1..Len(list) /\ Len(list) \in Nat
  BY DEF IsSequence
<1>2. IsFiniteSet(1..Len(list))
  BY <1>1, FS_Interval
<1>3. places \in SUBSET (1..Len(list))
  BY <1>1
<1> QED
  BY <1>2, <1>3, FS_Subset

\* What is kept of a list is in it, at one of the places.
LEMMA KeptIsThere ==
  ASSUME NEW list, IsSequence(list), NEW places \in SUBSET DOMAIN list
  PROVE  \A n \in DOMAIN Kept(list, places) : \E i \in places : Kept(list, places)[n] = list[i]
<1>1. DOMAIN list = 1..Len(list) /\ Len(list) \in Nat
  BY DEF IsSequence
<1>2. places \in SUBSET Nat
  BY <1>1
<1>3. IsFiniteSet(places)
  BY PlacesAreFinite
<1>4. \A n \in 1..Cardinality(places) : Nth(places, n) \in places
  BY <1>2, <1>3, InTheirOrder
<1>5. Kept(list, places) = [n \in 1..Cardinality(places) |-> list[Nth(places, n)]]
  BY DEF Kept
<1>6. DOMAIN Kept(list, places) = 1..Cardinality(places)
      /\ \A n \in 1..Cardinality(places) : Kept(list, places)[n] = list[Nth(places, n)]
  BY <1>5
<1>7. ASSUME NEW n \in DOMAIN Kept(list, places) PROVE \E i \in places : Kept(list, places)[n] = list[i]
  <2>1. Nth(places, n) \in places /\ Kept(list, places)[n] = list[Nth(places, n)]
    BY <1>4, <1>6
  <2> QED
    BY <2>1
<1> QED
  BY <1>7

-----------------------------------------------------------------------------
\* A strict order: the rows are sorted by it, each row once.
Orders(a) ==
  /\ \A i \in DOMAIN a : ~Before(a[i], a[i])
  /\ \A i, j \in DOMAIN a : i # j => Before(a[i], a[j]) \/ Before(a[j], a[i])
  /\ \A i, j, k \in DOMAIN a : Before(a[i], a[j]) /\ Before(a[j], a[k]) => Before(a[i], a[k])

LEMMA SortedIsSorted ==
  ASSUME NEW a, NEW n \in Nat, DOMAIN a = 1..n, Orders(a)
  PROVE  \E at \in [1..n -> 1..n] :
           /\ Sorted(a) = [m \in 1..n |-> a[at[m]]]
           /\ \A k \in 1..n : \E m \in 1..n : at[m] = k
           /\ \A l, m \in 1..n : l < m => at[l] # at[m] /\ Before(a[at[l]], a[at[m]])
<1> DEFINE before(k) == {j \in 1..n : Before(a[j], a[k])}
           rank == [k \in 1..n |-> 1 + Cardinality(before(k))]
<1>1. IsFiniteSet(1..n) /\ Cardinality(1..n) = n
  BY FS_Interval
<1>2. \A k \in 1..n : /\ IsFiniteSet(before(k)) /\ Cardinality(before(k)) \in Nat
                      /\ Cardinality(before(k)) < n
  <2> TAKE k \in 1..n
  <2>1. before(k) \in SUBSET (1..n) /\ k \notin before(k)
    BY DEF Orders
  <2> HIDE DEF before
  <2>2. IsFiniteSet(before(k)) /\ Cardinality(before(k)) <= n /\ (n = Cardinality(before(k)) => 1..n = before(k))
    BY <1>1, <2>1, FS_Subset
  <2>3. Cardinality(before(k)) \in Nat
    BY <2>2, FS_CardinalityType
  <2>4. Cardinality(before(k)) # n
    BY <2>1, <2>2
  <2> QED
    BY <2>2, <2>3, <2>4
<1>3. \A j, k \in 1..n : Before(a[j], a[k]) => Cardinality(before(j)) < Cardinality(before(k))
  <2> TAKE j, k \in 1..n
  <2> HAVE Before(a[j], a[k])
  <2>1. before(j) \in SUBSET before(k) /\ j \in before(k) /\ j \notin before(j)
    BY DEF Orders
  <2> HIDE DEF before
  <2>2. IsFiniteSet(before(k)) /\ Cardinality(before(k)) \in Nat /\ Cardinality(before(j)) \in Nat
    BY <1>2
  <2>3. Cardinality(before(j)) <= Cardinality(before(k))
        /\ (Cardinality(before(k)) = Cardinality(before(j)) => before(k) = before(j))
    BY <2>1, <2>2, FS_Subset
  <2>4. before(j) # before(k)
    BY <2>1
  <2> QED
    BY <2>2, <2>3, <2>4
<1> HIDE DEF before
<1>4. rank \in [1..n -> 1..n] /\ \A k \in 1..n : rank[k] = 1 + Cardinality(before(k))
  BY <1>2
<1> HIDE DEF rank
<1>5. \A j, k \in 1..n : j # k => rank[j] # rank[k]
  <2> TAKE j, k \in 1..n
  <2> HAVE j # k
  <2>1. Before(a[j], a[k]) \/ Before(a[k], a[j])
    BY DEF Orders
  <2>2. Cardinality(before(j)) < Cardinality(before(k)) \/ Cardinality(before(k)) < Cardinality(before(j))
    BY <1>3, <2>1
  <2>3. /\ rank[j] = 1 + Cardinality(before(j)) /\ rank[k] = 1 + Cardinality(before(k))
        /\ Cardinality(before(j)) \in Nat /\ Cardinality(before(k)) \in Nat
    BY <1>2, <1>4
  <2> QED
    BY <2>2, <2>3
<1>6. \A m \in 1..n : \E k \in 1..n : rank[k] = m
  <2>1. rank \in [1..n -> 1..Cardinality(1..n)]
    BY <1>1, <1>4
  <2>2. \A m \in 1..Cardinality(1..n) : \E k \in 1..n : rank[k] = m
    BY <1>1, <1>5, <2>1, RanksFill
  <2> QED
    BY <1>1, <2>2
<1> DEFINE at == [m \in 1..n |-> CHOOSE k \in 1..n : rank[k] = m]
<1>7. at \in [1..n -> 1..n] /\ \A m \in 1..n : rank[at[m]] = m
  BY <1>6
<1>8. Sorted(a) = [m \in 1..n |-> a[at[m]]]
  BY DEF Sorted, rank, before
<1> HIDE DEF at
<1>9. \A k \in 1..n : \E m \in 1..n : at[m] = k
  <2> TAKE k \in 1..n
  <2>1. rank[k] \in 1..n /\ at[rank[k]] \in 1..n /\ rank[at[rank[k]]] = rank[k]
    BY <1>4, <1>7
  <2>2. at[rank[k]] = k
    BY <1>5, <2>1
  <2> QED
    BY <2>1, <2>2
<1>10. \A l, m \in 1..n : l < m => at[l] # at[m] /\ Before(a[at[l]], a[at[m]])
  <2> TAKE l, m \in 1..n
  <2> HAVE l < m
  <2>1. at[l] \in 1..n /\ at[m] \in 1..n /\ rank[at[l]] = l /\ rank[at[m]] = m
    BY <1>7
  <2>2. at[l] # at[m]
    BY <2>1
  <2>3. ~Before(a[at[m]], a[at[l]])
    <3> SUFFICES ASSUME Before(a[at[m]], a[at[l]]) PROVE FALSE
      OBVIOUS
    <3>1. Cardinality(before(at[m])) < Cardinality(before(at[l]))
      BY <1>3, <2>1
    <3>2. rank[at[m]] = 1 + Cardinality(before(at[m])) /\ rank[at[l]] = 1 + Cardinality(before(at[l]))
          /\ Cardinality(before(at[m])) \in Nat /\ Cardinality(before(at[l])) \in Nat
      BY <1>2, <1>4, <2>1
    <3> QED
      BY <2>1, <3>1, <3>2
  <2> QED
    BY <2>1, <2>2, <2>3 DEF Orders
<1> QED
  BY <1>7, <1>8, <1>9, <1>10

LEMMA PlaceIs ==
  ASSUME NEW list, IsSequence(list), NEW name \in Range(list)
  PROVE  Place(list, name) \in Nat /\ list[Place(list, name)] = name
<1>1. \E i \in DOMAIN list : list[i] = name
  BY DEF Range
<1>2. Place(list, name) \in DOMAIN list /\ list[Place(list, name)] = name
  BY <1>1 DEF Place
<1>3. DOMAIN list = 1..Len(list)
  BY DEF IsSequence
<1> QED
  BY <1>2, <1>3

LEMMA BeforeIs ==
  ASSUME NEW f, NEW g
  PROVE  LET s(h) == Place(SEV, h.severity)
             c(h) == Place(Categories, h.category)
             r(h) == Place(RuleNames, h.id[1])
         IN  Before(f, g) <=> \/ s(f) < s(g)
                              \/ s(f) = s(g) /\ c(f) < c(g)
                              \/ s(f) = s(g) /\ c(f) = c(g) /\ r(f) < r(g)
                              \/ s(f) = s(g) /\ c(f) = c(g) /\ r(f) = r(g) /\ f.id[2] < g.id[2]
<1> DEFINE F == SortKey(f)
           G == SortKey(g)
<1>1. Before(f, g) <=> \E k \in 1..4 : F[k] < G[k] /\ \A i \in 1..(k - 1) : F[i] = G[i]
  BY DEF Before
<1>2. /\ F[1] = Place(SEV, f.severity) /\ F[2] = Place(Categories, f.category)
      /\ F[3] = Place(RuleNames, f.id[1]) /\ F[4] = f.id[2]
      /\ G[1] = Place(SEV, g.severity) /\ G[2] = Place(Categories, g.category)
      /\ G[3] = Place(RuleNames, g.id[1]) /\ G[4] = g.id[2]
  BY DEF SortKey
<1> HIDE DEF F, G
<1>3. /\ \A i \in 1..(1 - 1) : F[i] = G[i]
      /\ (\A i \in 1..(2 - 1) : F[i] = G[i]) <=> F[1] = G[1]
      /\ (\A i \in 1..(3 - 1) : F[i] = G[i]) <=> F[1] = G[1] /\ F[2] = G[2]
      /\ (\A i \in 1..(4 - 1) : F[i] = G[i]) <=> F[1] = G[1] /\ F[2] = G[2] /\ F[3] = G[3]
  <2>1. 1..(1 - 1) = {} /\ 1..(2 - 1) = {1} /\ 1..(3 - 1) = {1, 2} /\ 1..(4 - 1) = {1, 2, 3}
    OBVIOUS
  <2> QED
    BY <2>1
<1>4. 1..4 = {1, 2, 3, 4}
  OBVIOUS
<1> QED
  BY <1>1, <1>2, <1>3, <1>4
-----------------------------------------------------------------------------
\* What a finding is made of that a report sorts and counts it by.
RaisedStates == {"VERIFIED", "STRONGLY_SUPPORTED", "MISSING"}
IsRaised(f) ==
  /\ f.rule \in Range(RuleNames) /\ f.severity \in Range(SEV) /\ f.category \in Range(Categories)
  /\ f.state \in RaisedStates
  /\ f = [rule |-> f.rule, severity |-> f.severity, category |-> f.category, owner |-> f.owner,
          claims |-> f.claims, urls |-> f.urls, state |-> f.state]
Raising(s) == IsSequence(s) /\ \A f \in Range(s) : IsRaised(f)

LEMMA ListIsSequence ==
  ASSUME NEW s, NEW n \in Nat, s = [i \in 1..n |-> s[i]]
  PROVE  IsSequence(s)
<1>1. DOMAIN s = 1..n
  OBVIOUS
<1>2. \A i \in 1..n : s[i] \in Range(s)
  BY <1>1 DEF Range
<1>3. [i \in 1..n |-> s[i]] \in Seq(Range(s))
  BY <1>2
<1> QED
  BY <1>3 DEF IsSequence

LEMMA NamesAreLists == IsSequence(RuleNames) /\ IsSequence(SEV) /\ IsSequence(Categories)
<1>1. SEV = [i \in 1..5 |-> SEV[i]]
  BY DEF SEV
<1>2. Categories = [i \in 1..12 |-> Categories[i]]
  BY DEF Categories
<1>3. RuleNames = [i \in 1..33 |-> RuleNames[i]]
  BY DEF RuleNames
<1> QED
  BY <1>1, <1>2, <1>3, ListIsSequence

\* A finding is the so many-th of its rule.
Ordinal(s, k) == Cardinality({j \in 1..k : s[j].rule = s[k].rule})

LEMMA NumbersGrow ==
  ASSUME NEW s, NEW j \in Nat, NEW k \in Nat
  PROVE  Ordinal(s, k) \in Nat /\ (0 < j /\ j < k /\ s[j].rule = s[k].rule => Ordinal(s, j) < Ordinal(s, k))
<1> DEFINE alike(n) == {i \in 1..n : s[i].rule = s[n].rule}
<1>1. \A n \in Nat : IsFiniteSet(alike(n)) /\ Cardinality(alike(n)) \in Nat
  <2> TAKE n \in Nat
  <2>1. alike(n) \in SUBSET (1..n)
    OBVIOUS
  <2> HIDE DEF alike
  <2>2. IsFiniteSet(1..n)
    BY FS_Interval
  <2> QED
    BY <2>1, <2>2, FS_Subset, FS_CardinalityType
<1>2. ASSUME 0 < j, j < k, s[j].rule = s[k].rule PROVE Cardinality(alike(j)) < Cardinality(alike(k))
  <2>1. alike(j) \in SUBSET alike(k) /\ k \in alike(k) /\ k \notin alike(j)
    BY <1>2
  <2> HIDE DEF alike
  <2>2. alike(j) # alike(k)
    BY <2>1
  <2>3. Cardinality(alike(j)) <= Cardinality(alike(k))
        /\ (Cardinality(alike(k)) = Cardinality(alike(j)) => alike(k) = alike(j))
    BY <1>1, <2>1, FS_Subset
  <2> QED
    BY <1>1, <2>2, <2>3
<1> QED
  BY <1>1, <1>2 DEF Ordinal

LEMMA AddedFields ==
  ASSUME NEW s, NEW registry, Raising(s)
  PROVE  LET a == Added(s, registry) IN
         /\ Len(s) \in Nat /\ DOMAIN a = 1..Len(s) /\ DOMAIN s = 1..Len(s)
         /\ \A k \in 1..Len(s) :
              /\ s[k] \in Range(s) /\ IsRaised(s[k])
              /\ a[k] = [id |-> <<s[k].rule, Ordinal(s, k)>>,
                         severity |-> s[k].severity, category |-> s[k].category, owner |-> s[k].owner,
                         state |-> IF ApprovedForRecommendation(registry, s[k].claims) THEN s[k].state ELSE "REQUIRES_VERIFICATION",
                         class |-> StrongestClass(registry, s[k].claims), claims |-> s[k].claims, urls |-> Shown(s[k].urls)]
<1>1. Len(s) \in Nat /\ DOMAIN s = 1..Len(s)
  BY DEF Raising, IsSequence
<1>2. \A k \in 1..Len(s) : s[k] \in Range(s) /\ IsRaised(s[k])
  BY <1>1 DEF Raising, Range
<1> QED
  BY <1>1, <1>2 DEF Added, Ordinal

\* Four numbers before four others: the first place where they differ decides.
Ahead(s, c, r, n, t, d, q, m) ==
  \/ s < t
  \/ s = t /\ c < d
  \/ s = t /\ c = d /\ r < q
  \/ s = t /\ c = d /\ r = q /\ n < m

LEMMA AheadIsTotal ==
  ASSUME NEW s \in Nat, NEW c \in Nat, NEW r \in Nat, NEW n \in Nat,
         NEW t \in Nat, NEW d \in Nat, NEW q \in Nat, NEW m \in Nat
  PROVE  /\ ~Ahead(s, c, r, n, s, c, r, n)
         /\ r # q \/ n # m => Ahead(s, c, r, n, t, d, q, m) \/ Ahead(t, d, q, m, s, c, r, n)
BY DEF Ahead

LEMMA AheadGoesOn ==
  ASSUME NEW s \in Nat, NEW c \in Nat, NEW r \in Nat, NEW n \in Nat,
         NEW t \in Nat, NEW d \in Nat, NEW q \in Nat, NEW m \in Nat,
         NEW u \in Nat, NEW e \in Nat, NEW p \in Nat, NEW l \in Nat,
         Ahead(s, c, r, n, t, d, q, m), Ahead(t, d, q, m, u, e, p, l)
  PROVE  Ahead(s, c, r, n, u, e, p, l)
BY DEF Ahead

LEMMA AddedIsOrdered ==
  ASSUME NEW s, NEW registry, Raising(s)
  PROVE  /\ Orders(Added(s, registry))
         /\ \A j, k \in 1..Len(s) : j # k => Added(s, registry)[j].id # Added(s, registry)[k].id
<1> DEFINE a == Added(s, registry)
           S(k) == Place(SEV, a[k].severity)
           C(k) == Place(Categories, a[k].category)
           R(k) == Place(RuleNames, a[k].id[1])
           I(k) == a[k].id[2]
<1>1. Len(s) \in Nat /\ DOMAIN a = 1..Len(s)
  BY AddedFields
<1>2. \A k \in 1..Len(s) : /\ a[k].id = <<s[k].rule, Ordinal(s, k)>>
                           /\ a[k].severity \in Range(SEV) /\ a[k].category \in Range(Categories)
                           /\ s[k].rule \in Range(RuleNames)
  <2> TAKE k \in 1..Len(s)
  <2>1. /\ IsRaised(s[k])
        /\ a[k] = [id |-> <<s[k].rule, Ordinal(s, k)>>,
                   severity |-> s[k].severity, category |-> s[k].category, owner |-> s[k].owner,
                   state |-> IF ApprovedForRecommendation(registry, s[k].claims) THEN s[k].state ELSE "REQUIRES_VERIFICATION",
                   class |-> StrongestClass(registry, s[k].claims), claims |-> s[k].claims, urls |-> Shown(s[k].urls)]
    BY AddedFields
  <2> HIDE DEF a
  <2> QED
    BY <2>1 DEF IsRaised
<1>3. \A k \in 1..Len(s) : /\ S(k) \in Nat /\ C(k) \in Nat /\ R(k) \in Nat /\ I(k) \in Nat
                           /\ RuleNames[R(k)] = s[k].rule /\ I(k) = Ordinal(s, k)
  <2> TAKE k \in 1..Len(s)
  <2>1. k \in Nat
    BY <1>1
  <2>2. Ordinal(s, k) \in Nat
    BY <2>1, NumbersGrow
  <2>3. a[k].id[1] = s[k].rule /\ a[k].id[2] = Ordinal(s, k)
    BY <1>2
  <2>4. S(k) \in Nat /\ C(k) \in Nat
    BY <1>2, PlaceIs, NamesAreLists
  <2>5. R(k) \in Nat /\ RuleNames[R(k)] = s[k].rule
    BY <1>2, <2>3, PlaceIs, NamesAreLists
  <2> HIDE DEF a
  <2> QED
    BY <2>2, <2>3, <2>4, <2>5
<1>4. \A j, k \in 1..Len(s) : j # k => R(j) # R(k) \/ I(j) # I(k)
  <2> TAKE j, k \in 1..Len(s)
  <2> HAVE j # k
  <2> SUFFICES ASSUME R(j) = R(k) PROVE I(j) # I(k)
    OBVIOUS
  <2>1. s[j].rule = s[k].rule /\ I(j) = Ordinal(s, j) /\ I(k) = Ordinal(s, k)
    BY <1>3
  <2>2. j \in Nat /\ k \in Nat /\ 0 < j /\ 0 < k /\ (j < k \/ k < j)
    BY <1>1
  <2>3. Ordinal(s, j) < Ordinal(s, k) \/ Ordinal(s, k) < Ordinal(s, j)
    BY <2>1, <2>2, NumbersGrow
  <2>4. Ordinal(s, j) \in Nat /\ Ordinal(s, k) \in Nat
    BY <2>2, NumbersGrow
  <2> HIDE DEF a
  <2> QED
    BY <2>1, <2>3, <2>4
<1>5. \A j, k \in 1..Len(s) : Before(a[j], a[k]) <=> Ahead(S(j), C(j), R(j), I(j), S(k), C(k), R(k), I(k))
  BY BeforeIs DEF Ahead
<1>6. \A j, k \in 1..Len(s) : j # k => a[j].id # a[k].id
  <2> TAKE j, k \in 1..Len(s)
  <2> HAVE j # k
  <2>1. R(j) # R(k) \/ I(j) # I(k)
    BY <1>4
  <2> QED
    BY <2>1
<1> HIDE DEF S, C, R, I, a
<1>7. \A i \in 1..Len(s) : ~Before(a[i], a[i])
  <2> TAKE i \in 1..Len(s)
  <2>1. S(i) \in Nat /\ C(i) \in Nat /\ R(i) \in Nat /\ I(i) \in Nat
    BY <1>3
  <2>2. ~Ahead(S(i), C(i), R(i), I(i), S(i), C(i), R(i), I(i))
    BY <2>1, AheadIsTotal
  <2> QED
    BY <1>5, <2>2
<1>8. \A i, j \in 1..Len(s) : i # j => Before(a[i], a[j]) \/ Before(a[j], a[i])
  <2> TAKE i, j \in 1..Len(s)
  <2> HAVE i # j
  <2>1. /\ S(i) \in Nat /\ C(i) \in Nat /\ R(i) \in Nat /\ I(i) \in Nat
        /\ S(j) \in Nat /\ C(j) \in Nat /\ R(j) \in Nat /\ I(j) \in Nat
    BY <1>3
  <2>2. R(i) # R(j) \/ I(i) # I(j)
    BY <1>4
  <2>3. \/ Ahead(S(i), C(i), R(i), I(i), S(j), C(j), R(j), I(j))
        \/ Ahead(S(j), C(j), R(j), I(j), S(i), C(i), R(i), I(i))
    BY <2>1, <2>2, AheadIsTotal
  <2> QED
    BY <1>5, <2>3
<1>9. \A i, j, k \in 1..Len(s) : Before(a[i], a[j]) /\ Before(a[j], a[k]) => Before(a[i], a[k])
  <2> TAKE i, j, k \in 1..Len(s)
  <2> HAVE Before(a[i], a[j]) /\ Before(a[j], a[k])
  <2>1. /\ S(i) \in Nat /\ C(i) \in Nat /\ R(i) \in Nat /\ I(i) \in Nat
        /\ S(j) \in Nat /\ C(j) \in Nat /\ R(j) \in Nat /\ I(j) \in Nat
        /\ S(k) \in Nat /\ C(k) \in Nat /\ R(k) \in Nat /\ I(k) \in Nat
    BY <1>3
  <2>2. /\ Ahead(S(i), C(i), R(i), I(i), S(j), C(j), R(j), I(j))
        /\ Ahead(S(j), C(j), R(j), I(j), S(k), C(k), R(k), I(k))
    BY <1>5
  <2>3. Ahead(S(i), C(i), R(i), I(i), S(k), C(k), R(k), I(k))
    BY <2>1, <2>2, AheadGoesOn
  <2> QED
    BY <1>5, <2>3
<1>10. Orders(a)
  BY <1>1, <1>7, <1>8, <1>9 DEF Orders
<1> QED
  BY <1>6, <1>10 DEF a

\* The findings of a report: the raised ones, named and sorted.
InOrder(F, n) ==
  /\ n \in Nat /\ DOMAIN F = 1..n /\ Len(F) = n
  /\ \A l, m \in 1..n : l < m => F[l].id # F[m].id /\ Place(SEV, F[l].severity) <= Place(SEV, F[m].severity)
  /\ \A m \in 1..n : Place(SEV, F[m].severity) \in Nat

Lists(F, a, n) ==
  /\ InOrder(F, n)
  /\ \A m \in 1..n : \E k \in 1..n : F[m] = a[k]
  /\ \A k \in 1..n : \E m \in 1..n : F[m] = a[k]

LEMMA FindingsAre ==
  ASSUME NEW s, NEW registry, Raising(s)
  PROVE  Lists(Sorted(Added(s, registry)), Added(s, registry), Len(s))
<1> DEFINE a == Added(s, registry)
           n == Len(s)
           F == Sorted(a)
<1>1. n \in Nat /\ DOMAIN a = 1..n /\ Orders(a)
  BY AddedFields, AddedIsOrdered
<1>2. \A j, k \in 1..n : j # k => a[j].id # a[k].id
  BY AddedIsOrdered
<1>3. \A k \in 1..n : Place(SEV, a[k].severity) \in Nat
  <2> TAKE k \in 1..n
  <2>0. IsRaised(s[k]) /\
        a[k] = [id |-> <<s[k].rule, Ordinal(s, k)>>,
                severity |-> s[k].severity, category |-> s[k].category, owner |-> s[k].owner,
                state |-> IF ApprovedForRecommendation(registry, s[k].claims) THEN s[k].state ELSE "REQUIRES_VERIFICATION",
                class |-> StrongestClass(registry, s[k].claims), claims |-> s[k].claims, urls |-> Shown(s[k].urls)]
    BY AddedFields
  <2> HIDE DEF a
  <2>1. a[k].severity \in Range(SEV)
    BY <2>0 DEF IsRaised
  <2> QED
    BY <2>1, PlaceIs, NamesAreLists
<1> HIDE DEF a, n
<1>4. PICK at \in [1..n -> 1..n] :
        /\ F = [m \in 1..n |-> a[at[m]]]
        /\ \A k \in 1..n : \E m \in 1..n : at[m] = k
        /\ \A l, m \in 1..n : l < m => at[l] # at[m] /\ Before(a[at[l]], a[at[m]])
  BY <1>1, SortedIsSorted
<1>5. DOMAIN F = 1..n /\ \A m \in 1..n : F[m] = a[at[m]] /\ at[m] \in 1..n
  BY <1>4
<1>6. Len(F) = n
  BY <1>1, <1>4
<1> HIDE DEF F
<1>7. ASSUME NEW l \in 1..n, NEW m \in 1..n, l < m
      PROVE  F[l].id # F[m].id /\ Place(SEV, F[l].severity) <= Place(SEV, F[m].severity)
  <2>1. at[l] # at[m] /\ Before(a[at[l]], a[at[m]])
    BY <1>4, <1>7
  <2>2. F[l] = a[at[l]] /\ F[m] = a[at[m]] /\ at[l] \in 1..n /\ at[m] \in 1..n
    BY <1>5
  <2>3. Place(SEV, a[at[l]].severity) \in Nat /\ Place(SEV, a[at[m]].severity) \in Nat
    BY <1>3, <2>2
  <2>4. Place(SEV, a[at[l]].severity) <= Place(SEV, a[at[m]].severity)
    BY <2>1, <2>3, BeforeIs
  <2> QED
    BY <1>2, <2>1, <2>2, <2>4
<1>8. \A m \in 1..n : Place(SEV, F[m].severity) \in Nat
  BY <1>3, <1>5
<1>9. InOrder(F, n)
  BY <1>1, <1>5, <1>6, <1>7, <1>8 DEF InOrder
<1>10. (\A m \in 1..n : \E k \in 1..n : F[m] = a[k]) /\ \A k \in 1..n : \E m \in 1..n : F[m] = a[k]
  BY <1>4, <1>5
<1> QED
  BY <1>9, <1>10 DEF Lists, F, a, n

LEMMA GroupsCover ==
  ASSUME NEW F, NEW n, InOrder(F, n)
  PROVE  /\ \A k \in DOMAIN F : Cardinality({g \in Groups(F) : F[k].id \in g.ids}) = 1
         /\ UNION {g.ids : g \in Groups(F)} = {f.id : f \in Range(F)}
<1> DEFINE ids(c) == {F[i].id : i \in {j \in DOMAIN F : F[j].category = c}}
           group(c) == [category |-> c, ids |-> ids(c)]
<1>1. Groups(F) = {group(c) : c \in {f.category : f \in Range(F)}}
  BY DEF Groups
<1>2. \A i, j \in DOMAIN F : F[i].id = F[j].id => i = j
  <2> TAKE i, j \in DOMAIN F
  <2>1. i \in 1..n /\ j \in 1..n /\ n \in Nat
    BY DEF InOrder
  <2>2. i < j \/ j < i \/ i = j
    BY <2>1
  <2> QED
    BY <2>1, <2>2 DEF InOrder
<1>3. \A k \in DOMAIN F : F[k] \in Range(F) /\ F[k].id \in ids(F[k].category)
  BY DEF Range
<1>4. \A k \in DOMAIN F : \A c : F[k].id \in ids(c) => c = F[k].category
  BY <1>2
<1>a. \A c : group(c).ids = ids(c) /\ group(c).category = c
  OBVIOUS
<1>b. \A c : ids(c) \subseteq {f.id : f \in Range(F)}
  BY DEF Range
<1> HIDE DEF ids, group
<1>5. ASSUME NEW k \in DOMAIN F
      PROVE  {g \in Groups(F) : F[k].id \in g.ids} = {group(F[k].category)}
  <2>1. group(F[k].category) \in Groups(F) /\ F[k].id \in group(F[k].category).ids
    BY <1>1, <1>3, <1>a
  <2>2. \A g \in Groups(F) : F[k].id \in g.ids => g = group(F[k].category)
    <3> TAKE g \in Groups(F)
    <3> HAVE F[k].id \in g.ids
    <3>1. PICK c : g = group(c)
      BY <1>1
    <3> QED
      BY <1>4, <1>a, <3>1
  <2> QED
    BY <2>1, <2>2
<1>6. \A k \in DOMAIN F : Cardinality({g \in Groups(F) : F[k].id \in g.ids}) = 1
  BY <1>5, FS_Singleton
<1>7. UNION {g.ids : g \in Groups(F)} \subseteq {f.id : f \in Range(F)}
  <2>1. \A g \in Groups(F) : g.ids \subseteq {f.id : f \in Range(F)}
    BY <1>1, <1>a, <1>b
  <2> QED
    BY <2>1
<1>8. {f.id : f \in Range(F)} \subseteq UNION {g.ids : g \in Groups(F)}
  <2> SUFFICES ASSUME NEW f \in Range(F) PROVE \E g \in Groups(F) : f.id \in g.ids
    OBVIOUS
  <2>1. PICK k \in DOMAIN F : F[k] = f
    BY DEF Range
  <2>2. group(F[k].category) \in Groups(F) /\ F[k].id \in group(F[k].category).ids
    BY <1>1, <1>3, <1>a
  <2> QED
    BY <2>1, <2>2
<1> QED
  BY <1>6, <1>7, <1>8

\* Of a sorted report, the graver and earlier findings are the earlier ones.
LEMMA HeadlineIsFirst ==
  ASSUME NEW F, NEW n, InOrder(F, n)
  PROVE  /\ {k \in DOMAIN F : F[k].id \in Headline(F)} = {k \in 1..n : k <= ShownActions}
         /\ Cardinality({k \in 1..n : k <= ShownActions}) = Min({Len(F), ShownActions})
<1> DEFINE sev(k) == Place(SEV, F[k].severity)
           graver(k) == {i \in DOMAIN F : sev(i) < sev(k) \/ (sev(i) = sev(k) /\ i < k)}
           first == {k \in 1..n : k <= ShownActions}
<1>1. n \in Nat /\ DOMAIN F = 1..n /\ Len(F) = n /\ ShownActions \in Nat \ {0}
  BY RulesAssumption DEF InOrder
<1>2. \A i, j \in 1..n : sev(i) \in Nat /\ (i < j => sev(i) <= sev(j))
  BY DEF InOrder
<1>3. \A i, j \in DOMAIN F : F[i].id = F[j].id => i = j
  <2> TAKE i, j \in DOMAIN F
  <2>1. i < j \/ j < i \/ i = j
    BY <1>1
  <2> QED
    BY <1>1, <2>1 DEF InOrder
<1>4. Headline(F) = {F[j].id : j \in {k \in DOMAIN F : Cardinality(graver(k)) < ShownActions}}
  BY DEF Headline
<1> HIDE DEF sev
<1>5. \A k \in 1..n : Cardinality(graver(k)) = k - 1
  <2> TAKE k \in 1..n
  <2>1. \A i \in 1..n : i < k => sev(i) < sev(k) \/ (sev(i) = sev(k) /\ i < k)
    BY <1>2
  <2>2. \A i \in 1..n : (sev(i) < sev(k) \/ (sev(i) = sev(k) /\ i < k)) => i < k
    <3> TAKE i \in 1..n
    <3>1. i < k \/ k < i \/ i = k
      BY <1>1
    <3>2. k < i => sev(k) <= sev(i)
      BY <1>2
    <3>3. sev(i) \in Nat /\ sev(k) \in Nat
      BY <1>2
    <3> QED
      BY <1>1, <3>1, <3>2, <3>3
  <2>3. graver(k) = 1..(k - 1)
    BY <1>1, <2>1, <2>2
  <2>4. Cardinality(1..(k - 1)) = k - 1
    BY <1>1, FS_Interval
  <2> QED
    BY <2>3, <2>4
<1> HIDE DEF graver
<1>6. {k \in DOMAIN F : Cardinality(graver(k)) < ShownActions} = first
  BY <1>1, <1>5
<1>7. {k \in DOMAIN F : F[k].id \in Headline(F)} = first
  BY <1>1, <1>3, <1>4, <1>6
<1>8. CASE n <= ShownActions
  <2>1. first = 1..n /\ Cardinality(1..n) = n
    BY <1>1, <1>8, FS_Interval
  <2>2. Min({Len(F), ShownActions}) = n
    BY <1>1, <1>8 DEF Min
  <2> QED
    BY <1>7, <2>1, <2>2
<1>9. CASE ~(n <= ShownActions)
  <2>0. ShownActions < n
    BY <1>1, <1>9
  <2>a. first = 1..ShownActions
    BY <1>1, <2>0
  <2>b. Cardinality(1..ShownActions) = ShownActions
    BY <1>1, FS_Interval
  <2>1. Cardinality(first) = ShownActions
    BY <2>a, <2>b
  <2>2. Min({Len(F), ShownActions}) = ShownActions
    BY <1>1, <1>9 DEF Min
  <2> QED
    BY <1>7, <2>1, <2>2
<1> QED
  BY <1>8, <1>9

LEMMA StatesAddUp ==
  ASSUME NEW F, NEW n, InOrder(F, n)
  PROVE  LET open == InState(F, OpenGap)
         IN  /\ InState(F, EvidencedStates) + (Len(F) - InState(F, EvidencedStates \cup OpenGap)) + open = Len(F)
             /\ (Len(F) - open) + open = Len(F)
<1> DEFINE evidenced == {i \in DOMAIN F : F[i].state \in EvidencedStates}
           gap == {i \in DOMAIN F : F[i].state \in OpenGap}
<1>1. n \in Nat /\ DOMAIN F = 1..n /\ Len(F) = n
  BY DEF InOrder
<1>2. IsFiniteSet(1..n)
  BY <1>1, FS_Interval
<1>3. evidenced \in SUBSET (1..n) /\ gap \in SUBSET (1..n) /\ evidenced \cap gap = {}
  BY <1>1 DEF EvidencedStates, OpenGap
<1>4. {i \in DOMAIN F : F[i].state \in EvidencedStates \cup OpenGap} = evidenced \cup gap
  OBVIOUS
<1> HIDE DEF evidenced, gap
<1>5. IsFiniteSet(evidenced) /\ IsFiniteSet(gap)
  BY <1>2, <1>3, FS_Subset
<1>6. Cardinality(evidenced) \in Nat /\ Cardinality(gap) \in Nat
  BY <1>5, FS_CardinalityType
<1>7. Cardinality(evidenced \cup gap) = Cardinality(evidenced) + Cardinality(gap)
  <2>1. Cardinality(evidenced \cap gap) = 0
    BY <1>3, FS_EmptySet
  <2>2. Cardinality(evidenced \cup gap)
          = Cardinality(evidenced) + Cardinality(gap) - Cardinality(evidenced \cap gap)
    BY <1>5, FS_Union
  <2> QED
    BY <1>6, <2>1, <2>2
<1>8. /\ InState(F, EvidencedStates) = Cardinality(evidenced) /\ InState(F, OpenGap) = Cardinality(gap)
      /\ InState(F, EvidencedStates \cup OpenGap) = Cardinality(evidenced \cup gap)
  BY <1>4 DEF InState, evidenced, gap
<1> QED
  BY <1>1, <1>6, <1>7, <1>8

\* A claim's class supports a recommendation if all the claims of the finding do.
LEMMA StrongestIsOne ==
  ASSUME NEW registry, NEW claims, claims # {}, ClaimsKnown(registry, claims)
  PROVE  \E c \in claims : StrongestClass(registry, claims) = registry.classes[c]
<1> DEFINE kinds == {registry.classes[c] : c \in claims}
           known == {i \in DOMAIN StrengthOrder : StrengthOrder[i] \in kinds}
<1>1. known # {} /\ kinds # {}
  BY DEF ClaimsKnown, Range
<1>2. DOMAIN StrengthOrder = 1..10
  BY DEF StrengthOrder
<1>3. known \in SUBSET Nat
  BY <1>2
<1>4. \E i \in known : \A j \in known : i <= j
  <2> HIDE DEF known
  <2> QED
    BY <1>1, <1>3, SmallestOf
<1>5. Min(known) \in known
  BY <1>4 DEF Min
<1>6. StrongestClass(registry, claims) = StrengthOrder[Min(known)]
  BY <1>1 DEF StrongestClass
<1>7. StrengthOrder[Min(known)] \in kinds
  BY <1>5
<1> QED
  BY <1>6, <1>7

LEMMA AuditAccounts ==
  ASSUME NEW crawl, NEW registry, Raising(RaisedBy(crawl, PageRecords(crawl))),
         ClaimsKnown(registry, UNION {r.claims : r \in Range(RaisedBy(crawl, PageRecords(crawl)))})
  PROVE  AccountsAddUp(registry, AuditReportOf(crawl, registry))
<1> DEFINE P == PageRecords(crawl)
           s == RaisedBy(crawl, P)
           a == Added(s, registry)
           F == Sorted(a)
           n == Len(s)
           report == AuditReportOf(crawl, registry)
           open == InState(F, OpenGap)
<1>1. /\ report.findings = F /\ report.groups = Groups(F) /\ report.headline = Headline(F)
      /\ report.trust = TrustSummary(crawl, P, F)
      /\ report.decided = DecisionContributions(F, Groups(F))
  BY DEF AuditReportOf
<1>2. /\ report.trust.verified = InState(F, EvidencedStates)
      /\ report.trust.inferred = Len(F) - InState(F, EvidencedStates \cup OpenGap)
      /\ report.trust.unsupported = open
  BY <1>1 DEF TrustSummary
<1>3. report.decided.Scrummaster.accepted = Len(F) - open /\ report.decided.Scrummaster.rejected = open
  <2>1. report.decided.Scrummaster = [added |-> 0, proposed |-> 0, accepted |-> Len(F) - open, merged |-> 0, rejected |-> open]
    BY <1>1 DEF DecisionContributions, Contribution
  <2> HIDE DEF report
  <2> QED
    BY <2>1
<1>4. InOrder(F, n) /\ \A m \in 1..n : \E k \in 1..n : F[m] = a[k]
  <2>1. Raising(s)
    OBVIOUS
  <2> HIDE DEF s
  <2>2. Lists(F, a, n)
    BY <2>1, FindingsAre
  <2> HIDE DEF F, a, n
  <2> QED
    BY <2>2 DEF Lists
<1>5. \A k \in 1..n :
        /\ s[k] \in Range(s) /\ s[k].state \in RaisedStates
        /\ a[k].state = (IF ApprovedForRecommendation(registry, s[k].claims) THEN s[k].state ELSE "REQUIRES_VERIFICATION")
        /\ a[k].class = StrongestClass(registry, s[k].claims) /\ a[k].claims = s[k].claims
  <2> TAKE k \in 1..n
  <2>1. /\ s[k] \in Range(s) /\ IsRaised(s[k])
        /\ a[k] = [id |-> <<s[k].rule, Ordinal(s, k)>>,
                   severity |-> s[k].severity, category |-> s[k].category, owner |-> s[k].owner,
                   state |-> IF ApprovedForRecommendation(registry, s[k].claims) THEN s[k].state ELSE "REQUIRES_VERIFICATION",
                   class |-> StrongestClass(registry, s[k].claims), claims |-> s[k].claims, urls |-> Shown(s[k].urls)]
    BY AddedFields
  <2> HIDE DEF a, s
  <2> QED
    BY <2>1 DEF IsRaised
<1>6. \A k \in 1..n : ClaimsKnown(registry, s[k].claims)
  <2> TAKE k \in 1..n
  <2>1. s[k].claims \subseteq UNION {r.claims : r \in Range(s)}
    BY <1>5
  <2> QED
    BY <2>1 DEF ClaimsKnown
<1> HIDE DEF F, a, s, n, P, report
<1>7. \A k \in DOMAIN F : F[k].state \in {"VERIFIED", "STRONGLY_SUPPORTED"} /\ F[k].claims # {}
      => F[k].class \in registry.allowed
  <2> SUFFICES ASSUME NEW m \in DOMAIN F, F[m].state \in {"VERIFIED", "STRONGLY_SUPPORTED"}, F[m].claims # {}
               PROVE  F[m].class \in registry.allowed
    OBVIOUS
  <2>1. PICK k \in 1..n : F[m] = a[k]
    BY <1>4 DEF InOrder
  <2>2. ApprovedForRecommendation(registry, s[k].claims) /\ s[k].claims # {}
        /\ F[m].class = StrongestClass(registry, s[k].claims)
    BY <1>5, <2>1
  <2>3. PICK c \in s[k].claims : F[m].class = registry.classes[c]
    BY <1>6, <2>2, StrongestIsOne
  <2> QED
    BY <2>2, <2>3 DEF ApprovedForRecommendation
<1>8. \A i, j \in DOMAIN F : i < j => F[i].id # F[j].id /\ Place(SEV, F[i].severity) <= Place(SEV, F[j].severity)
  BY <1>4 DEF InOrder
<1> DEFINE shown == {k \in DOMAIN F : F[k].id \in Headline(F)}
<1>9. Cardinality(shown) = Min({Len(F), ShownActions})
  BY <1>4, HeadlineIsFirst
<1>10. \A k \in shown, m \in DOMAIN F \ shown : Place(SEV, F[k].severity) <= Place(SEV, F[m].severity)
  <2>1. shown = {k \in 1..n : k <= ShownActions} /\ DOMAIN F = 1..n /\ n \in Nat /\ ShownActions \in Nat
    BY <1>4, HeadlineIsFirst, RulesAssumption DEF InOrder
  <2> HIDE DEF shown
  <2>2. \A k \in shown, m \in DOMAIN F \ shown : k < m /\ k \in DOMAIN F
    BY <2>1
  <2> QED
    BY <1>8, <2>2
<1>11. \A k \in DOMAIN F : Cardinality({g \in Groups(F) : F[k].id \in g.ids}) = 1
  BY <1>4, GroupsCover
<1>12. UNION {g.ids : g \in Groups(F)} = {f.id : f \in Range(F)}
  BY <1>4, GroupsCover
<1>13. /\ report.trust.verified + report.trust.inferred + report.trust.unsupported = Len(F)
       /\ report.decided.Scrummaster.accepted + report.decided.Scrummaster.rejected = Len(F)
  BY <1>2, <1>3, <1>4, StatesAddUp
<1>14. AccountsAddUp(registry, report)
  BY <1>1, <1>7, <1>8, <1>9, <1>10, <1>11, <1>12, <1>13 DEF AccountsAddUp
<1> QED
  BY <1>14 DEF report

-----------------------------------------------------------------------------
\* What the rules said: a rule's name, and an address it speaks of.
Speaks(f) == {f.rule} \X f.urls
Said(s) == UNION {Speaks(f) : f \in Range(s)}

LEMMA RaisedBoth ==
  ASSUME NEW s, NEW t, Raising(s), Raising(t)
  PROVE  Raising(s \o t) /\ Said(s \o t) = Said(s) \cup Said(t)
<1> DEFINE R == Range(s) \cup Range(t)
<1>1. s \in Seq(R) /\ t \in Seq(R) /\ s \o t \in Seq(R)
  BY DEF Raising, IsSequence
<1>2. Range(s \o t) = R
  <2>1. \A i \in DOMAIN s : i \in DOMAIN (s \o t) /\ (s \o t)[i] = s[i]
    BY <1>1
  <2>2. \A i \in DOMAIN t : Len(s) + i \in DOMAIN (s \o t) /\ (s \o t)[Len(s) + i] = t[i]
    BY <1>1
  <2>3. \A i \in DOMAIN (s \o t) : (s \o t)[i] \in R
    BY <1>1
  <2> HIDE DEF R
  <2>4. Range(s \o t) \subseteq R
    BY <2>3 DEF Range
  <2>5. Range(s) \subseteq Range(s \o t)
    BY <2>1 DEF Range
  <2>6. Range(t) \subseteq Range(s \o t)
    BY <2>2 DEF Range
  <2> QED
    BY <2>4, <2>5, <2>6 DEF R
<1>3. IsSequence(s \o t)
  BY <1>1, <1>2 DEF IsSequence
<1>4. \A f \in R : IsRaised(f)
  BY DEF Raising
<1>5. \A p : p \in Said(s \o t) <=> p \in Said(s) \/ p \in Said(t)
  <2> HIDE DEF R
  <2> TAKE p
  <2>1. p \in Said(s \o t) <=> \E f \in R : p \in Speaks(f)
    BY <1>2 DEF Said
  <2>2. (p \in Said(s)
        <=> \E f \in Range(s) : p \in Speaks(f)) /\ (p \in Said(t) <=> \E f \in Range(t) : p \in Speaks(f))
    BY DEF Said
  <2> QED
    BY <2>1, <2>2 DEF R
<1>6. Said(s \o t) = Said(s) \cup Said(t)
  BY <1>5
<1> QED
  BY <1>2, <1>3, <1>4, <1>6 DEF Raising

LEMMA NothingIsRaised == Raising(<<>>) /\ Said(<<>>) = {}
<1>1. Range(<<>>) = {}
  BY DEF Range
<1>2. <<>> \in Seq({})
  OBVIOUS
<1> QED
  BY <1>1, <1>2 DEF Raising, IsSequence, Said

LEMMA RaisedOne ==
  ASSUME NEW rule \in Range(RuleNames), NEW severity \in Range(SEV), NEW category \in Range(Categories),
         NEW owner, NEW claims, NEW urls
  PROVE  LET s == RuleFinding(rule, severity, category, owner, claims, urls)
         IN  Raising(s) /\ Said(s) = {rule} \X urls
<1> DEFINE f == [rule |-> rule, severity |-> severity, category |-> category, owner |-> owner,
                 claims |-> claims, urls |-> urls, state |-> "VERIFIED"]
           s == RuleFinding(rule, severity, category, owner, claims, urls)
<1>1. CASE urls = {}
  <2>1. s = <<>> /\ {rule} \X urls = {}
    BY <1>1 DEF RuleFinding
  <2> QED
    BY <2>1, NothingIsRaised
<1>2. CASE urls # {}
  <2>1. s = <<f>>
    BY <1>2 DEF RuleFinding
  <2>2. IsRaised(f) /\ f.rule = rule /\ f.urls = urls
    BY DEF IsRaised, RaisedStates
  <2> HIDE DEF f
  <2>a. <<f>> = [i \in 1..1 |-> f]
    OBVIOUS
  <2>b. DOMAIN <<f>> = {1} /\ <<f>>[1] = f
    BY <2>a
  <2>3. Range(<<f>>) = {f} /\ <<f>> \in Seq({f})
    BY <2>b DEF Range
  <2>4. Said(<<f>>) = {rule} \X urls
    BY <2>2, <2>3 DEF Said, Speaks
  <2>5. Raising(<<f>>)
    BY <2>2, <2>3 DEF Raising, IsSequence
  <2> QED
    BY <2>1, <2>4, <2>5
<1> QED
  BY <1>1, <1>2

LEMMA RaisedStated ==
  ASSUME NEW s, Raising(s), NEW state \in RaisedStates
  PROVE  Raising(Stated(state, s)) /\ Said(Stated(state, s)) = Said(s)
<1> DEFINE t == Stated(state, s)
           n == Len(s)
<1>1. n \in Nat /\ DOMAIN s = 1..n /\ s \in Seq(Range(s))
  BY DEF Raising, IsSequence
<1>2. t = [k \in 1..n |-> [s[k] EXCEPT !.state = state]]
  BY <1>1 DEF Stated
<1>3. DOMAIN t = 1..n /\ \A k \in 1..n : t[k] = [s[k] EXCEPT !.state = state]
  BY <1>2
<1>4. t = [k \in 1..n |-> t[k]]
  BY <1>2
<1> HIDE DEF t, n
<1>5. IsSequence(t)
  BY <1>1, <1>4, ListIsSequence
<1>6. \A f : IsRaised(f) => /\ IsRaised([f EXCEPT !.state = state])
                           /\ [f EXCEPT !.state = state].rule = f.rule /\ [f EXCEPT !.state = state].urls = f.urls
  <2> TAKE f
  <2> HAVE IsRaised(f)
  <2> DEFINE g == [f EXCEPT !.state = state]
             h == [rule |-> f.rule, severity |-> f.severity, category |-> f.category, owner |-> f.owner,
                   claims |-> f.claims, urls |-> f.urls, state |-> f.state]
  <2>1. f = h /\ f.rule \in Range(RuleNames) /\ f.severity \in Range(SEV) /\ f.category \in Range(Categories)
    BY DEF IsRaised
  <2>2. g = [rule |-> f.rule, severity |-> f.severity, category |-> f.category, owner |-> f.owner,
             claims |-> f.claims, urls |-> f.urls, state |-> state]
    <3>1. g = [h EXCEPT !.state = state]
      BY <2>1
    <3> QED
      BY <3>1
  <2> HIDE DEF g, h
  <2>3. IsRaised(g) /\ g.rule = f.rule /\ g.urls = f.urls
    BY <2>1, <2>2 DEF IsRaised
  <2> QED
    BY <2>3 DEF g
<1>7. \A k \in 1..n : s[k] \in Range(s) /\ IsRaised(s[k]) /\ t[k] \in Range(t)
  BY <1>1, <1>3 DEF Raising, Range
<1>8. \A k \in 1..n : IsRaised(t[k]) /\ t[k].rule = s[k].rule /\ t[k].urls = s[k].urls
  <2> TAKE k \in 1..n
  <2> DEFINE f == s[k]
  <2>1. IsRaised(f) /\ t[k] = [f EXCEPT !.state = state]
    BY <1>3, <1>7
  <2> HIDE DEF f
  <2>2. IsRaised(t[k]) /\ t[k].rule = f.rule /\ t[k].urls = f.urls
    BY <1>6, <2>1
  <2> QED
    BY <2>2 DEF f
<1>9. Raising(t)
  <2>1. \A f \in Range(t) : \E k \in 1..n : f = t[k]
    BY <1>3 DEF Range
  <2> QED
    BY <1>5, <1>8, <2>1 DEF Raising
<1>10. \A k \in 1..n : Speaks(t[k]) = Speaks(s[k])
  BY <1>8 DEF Speaks
<1>11. Range(t) = {t[k] : k \in 1..n} /\ Range(s) = {s[k] : k \in 1..n}
  BY <1>1, <1>3 DEF Range
<1>12. \A p : p \in Said(t) <=> p \in Said(s)
  <2> TAKE p
  <2>1. (p \in Said(t)
        <=> \E k \in 1..n : p \in Speaks(t[k])) /\ (p \in Said(s) <=> \E k \in 1..n : p \in Speaks(s[k]))
    BY <1>11 DEF Said
  <2> QED
    BY <1>10, <2>1
<1> QED
  BY <1>9, <1>12 DEF t

LEMMA NamesAreThere ==
  /\ {"Critical", "High", "Medium", "Low", "Info"} \subseteq Range(SEV)
  /\ {"AI Extraction Controls", "Availability", "Canonicalization", "Core Web Vitals", "Crawl Access",
      "Faceted Navigation", "Head Metadata", "Index Quality", "Indexability", "Internal Links",
      "Pagination", "Rendering"} \subseteq Range(Categories)
  /\ {"blocked-render-assets", "canonical-broken-target", "canonical-chain", "canonical-cycle",
      "canonical-missing", "charset-missing", "deprecated-head-metadata", "facet-empty-200",
      "facet-order-inconsistent", "head-title-duplicated", "head-title-generic",
      "head-title-missing", "image-dimensions", "internal-redirects", "likely-lcp-lazy",
      "links-to-noncanonical", "maxsnippet-tradeoff"} \subseteq Range(RuleNames)
  /\ {"meta-description-duplicated",
      "meta-description-missing", "missing-linked-pages", "noindex-blocked-by-robots",
      "nosnippet-tradeoff", "pagination-canonical-page-one", "pagination-legacy-rel",
      "robots-crawl-delay", "robots-fetch-failed", "robots-noindex", "robots-server-error",
      "robots-too-large", "server-errors", "social-metadata-incomplete", "soft-404",
      "viewport-missing"} \subseteq Range(RuleNames)
<1>1. (\A i \in 1..5 : SEV[i] \in Range(SEV)) /\ (\A i \in 1..12 : Categories[i] \in Range(Categories))
  <2>1. DOMAIN SEV = 1..5 /\ DOMAIN Categories = 1..12
    BY DEF SEV, Categories
  <2> QED
    BY <2>1 DEF Range
<1>2. \A i \in 1..33 : RuleNames[i] \in Range(RuleNames)
  <2>1. DOMAIN RuleNames = 1..33
    BY DEF RuleNames
  <2> QED
    BY <2>1 DEF Range
<1>3. /\ SEV[1] = "Critical" /\ SEV[2] = "High" /\ SEV[3] = "Medium" /\ SEV[4] = "Low" /\ SEV[5] = "Info"
  BY DEF SEV
<1>4. /\ Categories[1] = "AI Extraction Controls" /\ Categories[2] = "Availability" /\ Categories[3] = "Canonicalization"
      /\ Categories[4] = "Core Web Vitals" /\ Categories[5] = "Crawl Access" /\ Categories[6] = "Faceted Navigation"
      /\ Categories[7] = "Head Metadata" /\ Categories[8] = "Index Quality" /\ Categories[9] = "Indexability"
      /\ Categories[10] = "Internal Links" /\ Categories[11] = "Pagination" /\ Categories[12] = "Rendering"
  BY DEF Categories
<1>5. /\ RuleNames[1] = "blocked-render-assets" /\ RuleNames[2] = "canonical-broken-target"
      /\ RuleNames[3] = "canonical-chain" /\ RuleNames[4] = "canonical-cycle" /\ RuleNames[5] = "canonical-missing"
      /\ RuleNames[6] = "charset-missing" /\ RuleNames[7] = "deprecated-head-metadata"
      /\ RuleNames[8] = "facet-empty-200" /\ RuleNames[9] = "facet-order-inconsistent"
      /\ RuleNames[10] = "head-title-duplicated" /\ RuleNames[11] = "head-title-generic"
      /\ RuleNames[12] = "head-title-missing" /\ RuleNames[13] = "image-dimensions"
      /\ RuleNames[14] = "internal-redirects" /\ RuleNames[15] = "likely-lcp-lazy"
      /\ RuleNames[16] = "links-to-noncanonical" /\ RuleNames[17] = "maxsnippet-tradeoff"
  BY DEF RuleNames
<1>6. /\ RuleNames[18] = "meta-description-duplicated" /\ RuleNames[19] = "meta-description-missing"
      /\ RuleNames[20] = "missing-linked-pages" /\ RuleNames[21] = "noindex-blocked-by-robots"
      /\ RuleNames[22] = "nosnippet-tradeoff" /\ RuleNames[23] = "pagination-canonical-page-one"
      /\ RuleNames[24] = "pagination-legacy-rel" /\ RuleNames[25] = "robots-crawl-delay"
      /\ RuleNames[26] = "robots-fetch-failed" /\ RuleNames[27] = "robots-noindex"
      /\ RuleNames[28] = "robots-server-error" /\ RuleNames[29] = "robots-too-large"
      /\ RuleNames[30] = "server-errors" /\ RuleNames[31] = "social-metadata-incomplete"
      /\ RuleNames[32] = "soft-404" /\ RuleNames[33] = "viewport-missing"
  BY DEF RuleNames
<1>7. /\ SEV[1] \in Range(SEV) /\ SEV[2] \in Range(SEV) /\ SEV[3] \in Range(SEV)
      /\ SEV[4] \in Range(SEV) /\ SEV[5] \in Range(SEV)
  BY <1>1
<1>8. /\ Categories[1] \in Range(Categories) /\ Categories[2] \in Range(Categories) /\ Categories[3] \in Range(Categories)
      /\ Categories[4] \in Range(Categories) /\ Categories[5] \in Range(Categories) /\ Categories[6] \in Range(Categories)
      /\ Categories[7] \in Range(Categories) /\ Categories[8] \in Range(Categories) /\ Categories[9] \in Range(Categories)
      /\ Categories[10] \in Range(Categories) /\ Categories[11] \in Range(Categories) /\ Categories[12] \in Range(Categories)
  BY <1>1
<1>9. /\ RuleNames[1] \in Range(RuleNames) /\ RuleNames[2] \in Range(RuleNames) /\ RuleNames[3] \in Range(RuleNames)
      /\ RuleNames[4] \in Range(RuleNames) /\ RuleNames[5] \in Range(RuleNames) /\ RuleNames[6] \in Range(RuleNames)
      /\ RuleNames[7] \in Range(RuleNames) /\ RuleNames[8] \in Range(RuleNames) /\ RuleNames[9] \in Range(RuleNames)
      /\ RuleNames[10] \in Range(RuleNames) /\ RuleNames[11] \in Range(RuleNames) /\ RuleNames[12] \in Range(RuleNames)
      /\ RuleNames[13] \in Range(RuleNames) /\ RuleNames[14] \in Range(RuleNames) /\ RuleNames[15] \in Range(RuleNames)
      /\ RuleNames[16] \in Range(RuleNames) /\ RuleNames[17] \in Range(RuleNames)
  BY <1>2
<1>10. /\ RuleNames[18] \in Range(RuleNames) /\ RuleNames[19] \in Range(RuleNames) /\ RuleNames[20] \in Range(RuleNames)
       /\ RuleNames[21] \in Range(RuleNames) /\ RuleNames[22] \in Range(RuleNames) /\ RuleNames[23] \in Range(RuleNames)
       /\ RuleNames[24] \in Range(RuleNames) /\ RuleNames[25] \in Range(RuleNames) /\ RuleNames[26] \in Range(RuleNames)
       /\ RuleNames[27] \in Range(RuleNames) /\ RuleNames[28] \in Range(RuleNames) /\ RuleNames[29] \in Range(RuleNames)
       /\ RuleNames[30] \in Range(RuleNames) /\ RuleNames[31] \in Range(RuleNames) /\ RuleNames[32] \in Range(RuleNames)
       /\ RuleNames[33] \in Range(RuleNames)
  BY <1>2
<1>11. {"Critical", "High", "Medium", "Low", "Info"} \subseteq Range(SEV)
  BY <1>3, <1>7
<1>12. {"AI Extraction Controls", "Availability", "Canonicalization", "Core Web Vitals", "Crawl Access",
        "Faceted Navigation", "Head Metadata", "Index Quality", "Indexability", "Internal Links",
        "Pagination", "Rendering"} \subseteq Range(Categories)
  BY <1>4, <1>8
<1>13. {"blocked-render-assets", "canonical-broken-target", "canonical-chain", "canonical-cycle",
        "canonical-missing", "charset-missing", "deprecated-head-metadata", "facet-empty-200",
        "facet-order-inconsistent", "head-title-duplicated", "head-title-generic",
        "head-title-missing", "image-dimensions", "internal-redirects", "likely-lcp-lazy",
        "links-to-noncanonical", "maxsnippet-tradeoff"} \subseteq Range(RuleNames)
  BY <1>5, <1>9
<1>14. {"meta-description-duplicated",
        "meta-description-missing", "missing-linked-pages", "noindex-blocked-by-robots",
        "nosnippet-tradeoff", "pagination-canonical-page-one", "pagination-legacy-rel",
        "robots-crawl-delay", "robots-fetch-failed", "robots-noindex", "robots-server-error",
        "robots-too-large", "server-errors", "social-metadata-incomplete", "soft-404",
        "viewport-missing"} \subseteq Range(RuleNames)
  BY <1>6, <1>10
<1> QED
  BY <1>11, <1>12, <1>13, <1>14

\* What is flattened is what each list raised, and says no more.
LEMMA RaisedAll ==
  ASSUME NEW lists, NEW n \in Nat, lists = [i \in 1..n |-> lists[i]], \A i \in 1..n : Raising(lists[i])
  PROVE  /\ Raising(FlattenSeq(lists))
         /\ \A p \in Said(FlattenSeq(lists)) : \E i \in 1..n : p \in Said(lists[i])
<1> DEFINE Step(f, i) == IF i = 1 THEN lists[i] ELSE f[i - 1] \o lists[i]
           Goes(f, k) == f = [i \in 1..k |-> Step(f, i)]
           Lost == {k \in Nat : ~ \E f : Goes(f, k)}
<1>1. Lost = {}
  <2> SUFFICES ASSUME Lost # {} PROVE FALSE
    OBVIOUS
  <2>1. PICK k \in Lost : \A m \in Lost : k <= m
    BY SmallestOf
  <2>2. k \in Nat /\ ~ \E f : Goes(f, k)
    BY <2>1
  <2>3. CASE k = 0
    <3>1. Goes([i \in 1..0 |-> lists], 0)
      OBVIOUS
    <3> QED
      BY <2>2, <2>3, <3>1
  <2>4. CASE k # 0
    <3>1. k - 1 \in Nat /\ k - 1 \notin Lost
      <4>1. k - 1 \in Nat /\ ~(k <= k - 1)
        BY <2>2, <2>4
      <4> HIDE DEF Lost
      <4> QED
        BY <2>1, <4>1
    <3>2. PICK f : Goes(f, k - 1)
      BY <3>1
    <3> DEFINE g == [i \in 1..k |-> Step(f, i)]
    <3>3. \A i \in 1..(k - 1) : f[i] = g[i]
      <4> TAKE i \in 1..(k - 1)
      <4>1. f[i] = Step(f, i)
        BY <3>2
      <4>2. i \in 1..k
        BY <2>2
      <4>3. g[i] = Step(f, i)
        BY <4>2
      <4> QED
        BY <4>1, <4>3
    <3>4. \A i \in 1..k : g[i] = Step(g, i)
      <4> TAKE i \in 1..k
      <4>1. g[i] = Step(f, i)
        OBVIOUS
      <4>2. i # 1 => i - 1 \in 1..(k - 1)
        BY <2>2
      <4> HIDE DEF g
      <4>3. i # 1 => f[i - 1] = g[i - 1]
        BY <3>3, <4>2
      <4> QED
        BY <4>1, <4>3
    <3>5. g = [i \in 1..k |-> g[i]]
      OBVIOUS
    <3> HIDE DEF g, Step
    <3>6. Goes(g, k)
      BY <3>4, <3>5
    <3> QED
      BY <2>2, <3>6
  <2> QED
    BY <2>3, <2>4
<1>2. Len(lists) = n
  OBVIOUS
<1>3. CASE n = 0
  <2>1. FlattenSeq(lists) = lists
    BY <1>2, <1>3 DEF FlattenSeq
  <2>2. lists = <<>>
    BY <1>3
  <2> QED
    BY <2>1, <2>2, NothingIsRaised
<1>4. CASE n # 0
  <2> DEFINE F == CHOOSE f : Goes(f, n)
  <2>1. Goes(F, n)
    <3>1. n \notin Lost
      BY <1>1
    <3>2. \E f : Goes(f, n)
      BY <3>1
    <3> HIDE DEF Goes
    <3> QED
      BY <3>2
  <2>2. FlattenSeq(lists) = F[n]
    BY <1>2, <1>4 DEF FlattenSeq
  <2> HIDE DEF F
  <2>3. \A i \in 1..n : F[i] = Step(F, i)
    BY <2>1
  <2> DEFINE Right(i) == /\ Raising(F[i])
                         /\ \A p \in Said(F[i]) : \E j \in 1..n : p \in Said(lists[j])
             Wrong == {i \in 1..n : ~Right(i)}
  <2>4. Wrong = {}
    <3> SUFFICES ASSUME Wrong # {} PROVE FALSE
      OBVIOUS
    <3>1. Wrong \in SUBSET Nat
      OBVIOUS
    <3>2. PICK i \in Wrong : \A m \in Wrong : i <= m
      <4> HIDE DEF Wrong
      <4> QED
        BY <3>1, SmallestOf
    <3>3. i \in 1..n /\ ~Right(i)
      BY <3>2
    <3>4. i # 1
      <4> SUFFICES ASSUME i = 1 PROVE FALSE
        OBVIOUS
      <4>1. F[i] = lists[i]
        BY <2>3, <3>3
      <4> QED
        BY <3>3, <4>1
    <3>5. i - 1 \in 1..n /\ i - 1 \notin Wrong
      <4>1. i - 1 \in 1..n /\ ~(i <= i - 1)
        BY <3>3, <3>4
      <4> HIDE DEF Wrong
      <4> QED
        BY <3>2, <4>1
    <3>6. Right(i - 1)
      BY <3>5
    <3>7. F[i] = F[i - 1] \o lists[i]
      BY <2>3, <3>3, <3>4
    <3>8. Raising(F[i]) /\ Said(F[i]) = Said(F[i - 1]) \cup Said(lists[i])
      BY <3>3, <3>6, <3>7, RaisedBoth
    <3> QED
      BY <3>3, <3>6, <3>8
  <2>5. n \in 1..n /\ Right(n)
    BY <1>4, <2>4
  <2> QED
    BY <2>2, <2>5
<1> QED
  BY <1>3, <1>4

\* A list of findings tells a rule of an address.
Tells(s, rule, u) == <<rule, u>> \in Said(s)

LEMMA TellsOne ==
  ASSUME NEW rule \in Range(RuleNames), NEW severity \in Range(SEV), NEW category \in Range(Categories),
         NEW owner, NEW claims, NEW urls
  PROVE  LET s == RuleFinding(rule, severity, category, owner, claims, urls)
         IN  Raising(s) /\ \A r, u : Tells(s, r, u) <=> r = rule /\ u \in urls
<1> DEFINE s == RuleFinding(rule, severity, category, owner, claims, urls)
<1>1. Raising(s) /\ Said(s) = {rule} \X urls
  BY RaisedOne
<1> HIDE DEF s
<1> QED
  BY <1>1 DEF Tells, s

LEMMA TellsBoth ==
  ASSUME NEW s, NEW t, Raising(s), Raising(t)
  PROVE  Raising(s \o t) /\ \A r, u : Tells(s \o t, r, u) <=> Tells(s, r, u) \/ Tells(t, r, u)
BY RaisedBoth DEF Tells

LEMMA TellsStated ==
  ASSUME NEW s, Raising(s), NEW state \in RaisedStates
  PROVE  Raising(Stated(state, s)) /\ \A r, u : Tells(Stated(state, s), r, u) <=> Tells(s, r, u)
BY RaisedStated DEF Tells

LEMMA TellsThree ==
  ASSUME NEW a, NEW b, NEW c, Raising(a), Raising(b), Raising(c)
  PROVE  /\ Raising(a \o b \o c)
         /\ \A r, u : Tells(a \o b \o c, r, u) <=> Tells(a, r, u) \/ Tells(b, r, u) \/ Tells(c, r, u)
<1>1. Raising(a \o b) /\ \A r, u : Tells(a \o b, r, u) <=> Tells(a, r, u) \/ Tells(b, r, u)
  BY TellsBoth
<1>2. Raising(a \o b \o c) /\ \A r, u : Tells(a \o b \o c, r, u) <=> Tells(a \o b, r, u) \/ Tells(c, r, u)
  BY <1>1, TellsBoth
<1> QED
  BY <1>1, <1>2

LEMMA TellsFour ==
  ASSUME NEW a, NEW b, NEW c, NEW d, Raising(a), Raising(b), Raising(c), Raising(d)
  PROVE  /\ Raising(a \o b \o c \o d)
         /\ \A r, u : Tells(a \o b \o c \o d, r, u)
                      <=> Tells(a, r, u) \/ Tells(b, r, u) \/ Tells(c, r, u) \/ Tells(d, r, u)
<1>1. Raising(a \o b \o c) /\ \A r, u : Tells(a \o b \o c, r, u) <=> Tells(a, r, u) \/ Tells(b, r, u) \/ Tells(c, r, u)
  BY TellsThree
<1>2. Raising(a \o b \o c \o d) /\ \A r, u : Tells(a \o b \o c \o d, r, u) <=> Tells(a \o b \o c, r, u) \/ Tells(d, r, u)
  BY <1>1, TellsBoth
<1> QED
  BY <1>1, <1>2

\* What each group of rules tells.
LEMMA StatusTells ==
  ASSUME NEW P
  PROVE  /\ Raising(StatusRaised(P))
         /\ \A r, u : Tells(StatusRaised(P), r, u) <=>
              \/ r = "server-errors" /\ u \in At(P, {i \in DOMAIN P : Overloaded(P[i].status)})
              \/ r = "missing-linked-pages" /\ u \in At(P, {i \in DOMAIN P : P[i].status \in {404, 410}})
              \/ r = "soft-404" /\ u \in At(P, {i \in DOMAIN P : P[i].soft})
              \/ r = "internal-redirects" /\ u \in {P[i].requested : i \in {j \in DOMAIN P : P[j].requested # P[j].at}}
<1> DEFINE A1 == At(P, {i \in DOMAIN P : Overloaded(P[i].status)})
           A2 == At(P, {i \in DOMAIN P : P[i].status \in {404, 410}})
           A3 == At(P, {i \in DOMAIN P : P[i].soft})
           A4 == {P[i].requested : i \in {j \in DOMAIN P : P[j].requested # P[j].at}}
           s1 == RuleFinding("server-errors", "Critical", "Availability", "Diagnostic",
                             {"http-429-server-signal"}, A1)
           s2 == RuleFinding("missing-linked-pages", "High", "Internal Links", "Architecture", {"http-404-410"}, A2)
           s3 == RuleFinding("soft-404", "High", "Index Quality", "Technical", {"soft-404"}, A3)
           s4 == RuleFinding("internal-redirects", "Medium", "Internal Links", "Architecture",
                             {"http-redirect-signals"}, A4)
<1>1. StatusRaised(P) = s1 \o s2 \o s3 \o s4
  BY DEF StatusRaised
<1> HIDE DEF A1, A2, A3, A4
<1>2. Raising(s1) /\ \A r, u : Tells(s1, r, u) <=> r = "server-errors" /\ u \in A1
  <2>1. "server-errors" \in Range(RuleNames) /\ "Critical" \in Range(SEV) /\ "Availability" \in Range(Categories)
    BY NamesAreThere
  <2> QED
    BY <2>1, TellsOne
<1>3. Raising(s2) /\ \A r, u : Tells(s2, r, u) <=> r = "missing-linked-pages" /\ u \in A2
  <2>1. "missing-linked-pages" \in Range(RuleNames) /\ "High" \in Range(SEV) /\ "Internal Links" \in Range(Categories)
    BY NamesAreThere
  <2> QED
    BY <2>1, TellsOne
<1>4. Raising(s3) /\ \A r, u : Tells(s3, r, u) <=> r = "soft-404" /\ u \in A3
  <2>1. "soft-404" \in Range(RuleNames) /\ "High" \in Range(SEV) /\ "Index Quality" \in Range(Categories)
    BY NamesAreThere
  <2> QED
    BY <2>1, TellsOne
<1>5. Raising(s4) /\ \A r, u : Tells(s4, r, u) <=> r = "internal-redirects" /\ u \in A4
  <2>1. "internal-redirects" \in Range(RuleNames) /\ "Medium" \in Range(SEV) /\ "Internal Links" \in Range(Categories)
    BY NamesAreThere
  <2> QED
    BY <2>1, TellsOne
<1> HIDE DEF s1, s2, s3, s4
<1>6. Raising(s1 \o s2 \o s3 \o s4)
      /\ \A r, u : Tells(s1 \o s2 \o s3 \o s4, r, u) <=>
              Tells(s1, r, u) \/ Tells(s2, r, u) \/ Tells(s3, r, u) \/ Tells(s4, r, u)
  BY <1>2, <1>3, <1>4, <1>5, TellsFour
<1>7. \A r, u : (Tells(s1, r, u) \/ Tells(s2, r, u) \/ Tells(s3, r, u) \/ Tells(s4, r, u)) <=>
        \/ r = "server-errors" /\ u \in A1
        \/ r = "missing-linked-pages" /\ u \in A2
        \/ r = "soft-404" /\ u \in A3
        \/ r = "internal-redirects" /\ u \in A4
  BY <1>2, <1>3, <1>4, <1>5
<1>8. Raising(StatusRaised(P)) /\ \A r, u : Tells(StatusRaised(P), r, u) <=>
        \/ r = "server-errors" /\ u \in A1
        \/ r = "missing-linked-pages" /\ u \in A2
        \/ r = "soft-404" /\ u \in A3
        \/ r = "internal-redirects" /\ u \in A4
  BY <1>1, <1>6, <1>7
<1> QED
  BY <1>8 DEF A1, A2, A3, A4

OnFirst(crawl, P) ==
  {i \in DOMAIN P : /\ Paged(crawl.address[P[i].at]) /\ P[i].canonical # NoPage
                    /\ crawl.address[P[i].canonical] = FirstPage(crawl.address[P[i].at])}

LEMMA CanonicalTells ==
  ASSUME NEW crawl, NEW P
  PROVE  /\ Raising(CanonicalRaised(crawl, P))
         /\ \A r, u : Tells(CanonicalRaised(crawl, P), r, u) <=>
              \/ r = "canonical-broken-target" /\ u \in At(P, BrokenTargets(P))
              \/ r = "canonical-cycle" /\ u \in Reported("canonical-cycle")
              \/ r = "canonical-chain" /\ u \in Reported("canonical-chain")
              \/ r = "pagination-canonical-page-one" /\ u \in At(P, OnFirst(crawl, P))
              \/ r = "pagination-legacy-rel" /\ u \in At(P, {i \in DOMAIN P : P[i].legacy})
              \/ r = "links-to-noncanonical" /\ u \in (UNION {P[i].links : i \in DOMAIN P}) \cap At(P, NonCanonical(P))
<1> DEFINE A1 == At(P, BrokenTargets(P))
           A2 == Reported("canonical-cycle")
           A3 == Reported("canonical-chain")
           A4 == At(P, OnFirst(crawl, P))
           A5 == At(P, {i \in DOMAIN P : P[i].legacy})
           A6 == (UNION {P[i].links : i \in DOMAIN P}) \cap At(P, NonCanonical(P))
           s1 == RuleFinding("canonical-broken-target", "Critical", "Canonicalization", "Technical",
                             {"canonical-strength"}, A1)
           s2 == RuleFinding("canonical-cycle", "Critical", "Canonicalization", "Technical",
                             {"canonical-strength"}, A2)
           s3 == RuleFinding("canonical-chain", "High", "Canonicalization", "Technical", {"canonical-strength"}, A3)
           s4 == RuleFinding("pagination-canonical-page-one", "Critical", "Pagination", "Architecture",
                             {"pagination-self-canonical"}, A4)
           s5 == RuleFinding("pagination-legacy-rel", "Low", "Pagination", "Architecture",
                             {"rel-next-prev-dead", "pagination-real-links"}, A5)
           s6 == RuleFinding("links-to-noncanonical", "High", "Internal Links", "Architecture",
                             {"canonical-link-consistency"}, A6)
<1>1. CanonicalRaised(crawl, P) = s1 \o s2 \o s3 \o s4 \o s5 \o s6
  BY DEF CanonicalRaised, OnFirst
<1> HIDE DEF A1, A2, A3, A4, A5, A6
<1>2. Raising(s1) /\ \A r, u : Tells(s1, r, u) <=> r = "canonical-broken-target" /\ u \in A1
  <2>1. "canonical-broken-target" \in Range(RuleNames) /\ "Critical" \in Range(SEV) /\ "Canonicalization" \in Range(Categories)
    BY NamesAreThere
  <2> QED
    BY <2>1, TellsOne
<1>3. Raising(s2) /\ \A r, u : Tells(s2, r, u) <=> r = "canonical-cycle" /\ u \in A2
  <2>1. "canonical-cycle" \in Range(RuleNames) /\ "Critical" \in Range(SEV) /\ "Canonicalization" \in Range(Categories)
    BY NamesAreThere
  <2> QED
    BY <2>1, TellsOne
<1>4. Raising(s3) /\ \A r, u : Tells(s3, r, u) <=> r = "canonical-chain" /\ u \in A3
  <2>1. "canonical-chain" \in Range(RuleNames) /\ "High" \in Range(SEV) /\ "Canonicalization" \in Range(Categories)
    BY NamesAreThere
  <2> QED
    BY <2>1, TellsOne
<1>5. Raising(s4) /\ \A r, u : Tells(s4, r, u) <=> r = "pagination-canonical-page-one" /\ u \in A4
  <2>1. "pagination-canonical-page-one" \in Range(RuleNames) /\ "Critical" \in Range(SEV) /\ "Pagination" \in Range(Categories)
    BY NamesAreThere
  <2> QED
    BY <2>1, TellsOne
<1>6. Raising(s5) /\ \A r, u : Tells(s5, r, u) <=> r = "pagination-legacy-rel" /\ u \in A5
  <2>1. "pagination-legacy-rel" \in Range(RuleNames) /\ "Low" \in Range(SEV) /\ "Pagination" \in Range(Categories)
    BY NamesAreThere
  <2> QED
    BY <2>1, TellsOne
<1>7. Raising(s6) /\ \A r, u : Tells(s6, r, u) <=> r = "links-to-noncanonical" /\ u \in A6
  <2>1. "links-to-noncanonical" \in Range(RuleNames) /\ "High" \in Range(SEV) /\ "Internal Links" \in Range(Categories)
    BY NamesAreThere
  <2> QED
    BY <2>1, TellsOne
<1> HIDE DEF s1, s2, s3, s4, s5, s6
<1> DEFINE h == s1 \o s2 \o s3 \o s4
<1>8. Raising(h)
      /\ \A r, u : Tells(h, r, u) <=> Tells(s1, r, u) \/ Tells(s2, r, u) \/ Tells(s3, r, u) \/ Tells(s4, r, u)
  BY <1>2, <1>3, <1>4, <1>5, <1>6, <1>7, TellsFour
<1> HIDE DEF h
<1>9. Raising(h \o s5 \o s6)
      /\ \A r, u : Tells(h \o s5 \o s6, r, u) <=> Tells(h, r, u) \/ Tells(s5, r, u) \/ Tells(s6, r, u)
  BY <1>2, <1>3, <1>4, <1>5, <1>6, <1>7, <1>8, TellsThree
<1>10. s1 \o s2 \o s3 \o s4 \o s5 \o s6 = h \o s5 \o s6
  BY DEF h
<1>11. Raising(s1 \o s2 \o s3 \o s4 \o s5 \o s6)
      /\ \A r, u : Tells(s1 \o s2 \o s3 \o s4 \o s5 \o s6, r, u) <=>
              Tells(s1, r, u) \/ Tells(s2, r, u) \/ Tells(s3, r, u) \/ Tells(s4, r, u) \/ Tells(s5, r, u) \/ Tells(s6, r, u)
  BY <1>8, <1>9, <1>10
<1>12. \A r, u : (Tells(s1, r, u) \/ Tells(s2, r, u) \/ Tells(s3, r, u) \/ Tells(s4, r, u) \/ Tells(s5, r, u) \/ Tells(s6, r, u)) <=>
        \/ r = "canonical-broken-target" /\ u \in A1
        \/ r = "canonical-cycle" /\ u \in A2
        \/ r = "canonical-chain" /\ u \in A3
        \/ r = "pagination-canonical-page-one" /\ u \in A4
        \/ r = "pagination-legacy-rel" /\ u \in A5
        \/ r = "links-to-noncanonical" /\ u \in A6
  BY <1>2, <1>3, <1>4, <1>5, <1>6, <1>7
<1>13. Raising(CanonicalRaised(crawl, P)) /\ \A r, u : Tells(CanonicalRaised(crawl, P), r, u) <=>
        \/ r = "canonical-broken-target" /\ u \in A1
        \/ r = "canonical-cycle" /\ u \in A2
        \/ r = "canonical-chain" /\ u \in A3
        \/ r = "pagination-canonical-page-one" /\ u \in A4
        \/ r = "pagination-legacy-rel" /\ u \in A5
        \/ r = "links-to-noncanonical" /\ u \in A6
  BY <1>1, <1>11, <1>12
<1> QED
  BY <1>13 DEF A1, A2, A3, A4, A5, A6

LEMMA SnippetTells ==
  ASSUME NEW P
  PROVE  /\ Raising(SnippetRaised(P))
         /\ \A r, u : Tells(SnippetRaised(P), r, u) <=>
              \/ r = "nosnippet-tradeoff" /\ u \in At(P, {i \in DOMAIN P : "nosnippet" \in P[i].directives})
              \/ r = "maxsnippet-tradeoff" /\ u \in At(P, {i \in DOMAIN P : "max-snippet" \in P[i].directives})
<1> DEFINE A1 == At(P, {i \in DOMAIN P : "nosnippet" \in P[i].directives})
           A2 == At(P, {i \in DOMAIN P : "max-snippet" \in P[i].directives})
           s1 == RuleFinding("nosnippet-tradeoff", "Medium", "AI Extraction Controls", "Compliance",
                             {"nosnippet-ai-input"}, A1)
           s2 == RuleFinding("maxsnippet-tradeoff", "Info", "AI Extraction Controls", "Compliance",
                             {"max-snippet-ai-input"}, A2)
<1>1. SnippetRaised(P) = s1 \o s2
  BY DEF SnippetRaised
<1> HIDE DEF A1, A2
<1>2. Raising(s1) /\ \A r, u : Tells(s1, r, u) <=> r = "nosnippet-tradeoff" /\ u \in A1
  <2>1. "nosnippet-tradeoff" \in Range(RuleNames) /\ "Medium" \in Range(SEV) /\ "AI Extraction Controls" \in Range(Categories)
    BY NamesAreThere
  <2> QED
    BY <2>1, TellsOne
<1>3. Raising(s2) /\ \A r, u : Tells(s2, r, u) <=> r = "maxsnippet-tradeoff" /\ u \in A2
  <2>1. "maxsnippet-tradeoff" \in Range(RuleNames) /\ "Info" \in Range(SEV) /\ "AI Extraction Controls" \in Range(Categories)
    BY NamesAreThere
  <2> QED
    BY <2>1, TellsOne
<1> HIDE DEF s1, s2
<1>4. Raising(s1 \o s2)
      /\ \A r, u : Tells(s1 \o s2, r, u) <=> Tells(s1, r, u) \/ Tells(s2, r, u)
  BY <1>2, <1>3, TellsBoth
<1>5. \A r, u : (Tells(s1, r, u) \/ Tells(s2, r, u)) <=>
        \/ r = "nosnippet-tradeoff" /\ u \in A1
        \/ r = "maxsnippet-tradeoff" /\ u \in A2
  BY <1>2, <1>3
<1>6. Raising(SnippetRaised(P)) /\ \A r, u : Tells(SnippetRaised(P), r, u) <=>
        \/ r = "nosnippet-tradeoff" /\ u \in A1
        \/ r = "maxsnippet-tradeoff" /\ u \in A2
  BY <1>1, <1>4, <1>5
<1> QED
  BY <1>6 DEF A1, A2

LEMMA ImagesTell ==
  ASSUME NEW P
  PROVE  /\ Raising(ImagesRaised(P))
         /\ \A r, u : Tells(ImagesRaised(P), r, u) <=>
              \/ /\ r = "likely-lcp-lazy"
                 /\ u \in At(P, {i \in DOMAIN P : \E m \in {P[i].images[k] : k \in DOMAIN P[i].images \cap 1..2} : m.lazy})
              \/ /\ r = "image-dimensions"
                 /\ u \in At(P, {i \in DOMAIN P : \E m \in {P[i].images[k] : k \in DOMAIN P[i].images \cap 1..2} : ~m.sized})
<1> DEFINE A1 == At(P, {i \in DOMAIN P : \E m \in {P[i].images[k] : k \in DOMAIN P[i].images \cap 1..2} : m.lazy})
           A2 == At(P, {i \in DOMAIN P : \E m \in {P[i].images[k] : k \in DOMAIN P[i].images \cap 1..2} : ~m.sized})
           s1 == Stated("STRONGLY_SUPPORTED", RuleFinding("likely-lcp-lazy", "High", "Core Web Vitals", "Diagnostic",
                                                          {"lcp-no-lazy", "lcp-subparts"}, A1))
           s2 == RuleFinding("image-dimensions", "Medium", "Core Web Vitals", "Diagnostic", {"cwv-thresholds"}, A2)
<1>1. ImagesRaised(P) = s1 \o s2
  BY DEF ImagesRaised
<1> HIDE DEF A1, A2
<1>2. Raising(s1) /\ \A r, u : Tells(s1, r, u) <=> r = "likely-lcp-lazy" /\ u \in A1
  <2>1. "likely-lcp-lazy" \in Range(RuleNames) /\ "High" \in Range(SEV) /\ "Core Web Vitals" \in Range(Categories)
    BY NamesAreThere
  <2> DEFINE t == RuleFinding("likely-lcp-lazy", "High", "Core Web Vitals", "Diagnostic",
                              {"lcp-no-lazy", "lcp-subparts"}, A1)
  <2>2. Raising(t) /\ \A r, u : Tells(t, r, u) <=> r = "likely-lcp-lazy" /\ u \in A1
    BY <2>1, TellsOne
  <2> HIDE DEF t
  <2>3. Raising(Stated("STRONGLY_SUPPORTED", t)) /\ \A r, u : Tells(Stated("STRONGLY_SUPPORTED", t), r, u) <=> Tells(t, r, u)
    BY <2>2, TellsStated DEF RaisedStates
  <2> QED
    BY <2>2, <2>3 DEF t
<1>3. Raising(s2) /\ \A r, u : Tells(s2, r, u) <=> r = "image-dimensions" /\ u \in A2
  <2>1. "image-dimensions" \in Range(RuleNames) /\ "Medium" \in Range(SEV) /\ "Core Web Vitals" \in Range(Categories)
    BY NamesAreThere
  <2> QED
    BY <2>1, TellsOne
<1> HIDE DEF s1, s2
<1>4. Raising(s1 \o s2)
      /\ \A r, u : Tells(s1 \o s2, r, u) <=> Tells(s1, r, u) \/ Tells(s2, r, u)
  BY <1>2, <1>3, TellsBoth
<1>5. \A r, u : (Tells(s1, r, u) \/ Tells(s2, r, u)) <=>
        \/ r = "likely-lcp-lazy" /\ u \in A1
        \/ r = "image-dimensions" /\ u \in A2
  BY <1>2, <1>3
<1>6. Raising(ImagesRaised(P)) /\ \A r, u : Tells(ImagesRaised(P), r, u) <=>
        \/ r = "likely-lcp-lazy" /\ u \in A1
        \/ r = "image-dimensions" /\ u \in A2
  BY <1>1, <1>4, <1>5
<1> QED
  BY <1>6 DEF A1, A2

Facets(crawl, P) == {i \in DOMAIN P : Faceted(crawl.address[P[i].at])}
Disorder(crawl, P) ==
  LET keys(i) == QueryKeys(crawl.address[P[i].at])
      count(i) == [k \in Range(keys(i)) |-> Cardinality({n \in DOMAIN keys(i) : keys(i)[n] = k})]
  IN  \E i, j \in Facets(crawl, P) : count(i) = count(j) /\ keys(i) # keys(j)

LEMMA FacetsTell ==
  ASSUME NEW crawl, NEW P
  PROVE  /\ Raising(FacetsRaised(crawl, P))
         /\ \A r, u : Tells(FacetsRaised(crawl, P), r, u) <=>
              \/ r = "facet-empty-200" /\ u \in At(P, {i \in Facets(crawl, P) : Succeeds(P[i].status) /\ P[i].soft})
              \/ r = "facet-order-inconsistent" /\ u \in {a \in At(P, Facets(crawl, P)) : Disorder(crawl, P)}
<1> DEFINE A1 == At(P, {i \in Facets(crawl, P) : Succeeds(P[i].status) /\ P[i].soft})
           A2 == {a \in At(P, Facets(crawl, P)) : Disorder(crawl, P)}
           s1 == RuleFinding("facet-empty-200", "High", "Faceted Navigation", "Commerce",
                             {"facets-empty-404", "soft-404"}, A1)
           s2 == RuleFinding("facet-order-inconsistent", "Medium", "Faceted Navigation", "Commerce",
                             {"facets-parameter-separator"}, A2)
<1>1. FacetsRaised(crawl, P) = s1 \o s2
  BY DEF FacetsRaised, Facets, Disorder
<1> HIDE DEF A1, A2
<1>2. Raising(s1) /\ \A r, u : Tells(s1, r, u) <=> r = "facet-empty-200" /\ u \in A1
  <2>1. "facet-empty-200" \in Range(RuleNames) /\ "High" \in Range(SEV) /\ "Faceted Navigation" \in Range(Categories)
    BY NamesAreThere
  <2> QED
    BY <2>1, TellsOne
<1>3. Raising(s2) /\ \A r, u : Tells(s2, r, u) <=> r = "facet-order-inconsistent" /\ u \in A2
  <2>1. "facet-order-inconsistent" \in Range(RuleNames) /\ "Medium" \in Range(SEV) /\ "Faceted Navigation" \in Range(Categories)
    BY NamesAreThere
  <2> QED
    BY <2>1, TellsOne
<1> HIDE DEF s1, s2
<1>4. Raising(s1 \o s2)
      /\ \A r, u : Tells(s1 \o s2, r, u) <=> Tells(s1, r, u) \/ Tells(s2, r, u)
  BY <1>2, <1>3, TellsBoth
<1>5. \A r, u : (Tells(s1, r, u) \/ Tells(s2, r, u)) <=>
        \/ r = "facet-empty-200" /\ u \in A1
        \/ r = "facet-order-inconsistent" /\ u \in A2
  BY <1>2, <1>3
<1>6. Raising(FacetsRaised(crawl, P)) /\ \A r, u : Tells(FacetsRaised(crawl, P), r, u) <=>
        \/ r = "facet-empty-200" /\ u \in A1
        \/ r = "facet-order-inconsistent" /\ u \in A2
  BY <1>1, <1>4, <1>5
<1> QED
  BY <1>6 DEF A1, A2

LEMMA TitlesTell ==
  ASSUME NEW P
  PROVE  /\ Raising(TitlesRaised(P))
         /\ \A r, u : Tells(TitlesRaised(P), r, u) <=>
              \/ r = "head-title-missing" /\ u \in At(P, {i \in Indexable(P) : P[i].title = ""})
              \/ r = "head-title-generic" /\ u \in At(P, {i \in Indexable(P) : P[i].title \in GENERIC_TITLES})
              \/ r = "head-title-duplicated" /\ u \in DuplicateUrls(P, Indexable(P), "title")
<1> DEFINE A1 == At(P, {i \in Indexable(P) : P[i].title = ""})
           A2 == At(P, {i \in Indexable(P) : P[i].title \in GENERIC_TITLES})
           A3 == DuplicateUrls(P, Indexable(P), "title")
           s1 == HeadFinding("head-title-missing", "High", "Technical", A1)
           s2 == HeadFinding("head-title-generic", "Medium", "Content", A2)
           s3 == HeadFinding("head-title-duplicated", "Medium", "Content", A3)
<1>1. TitlesRaised(P) = s1 \o s2 \o s3
  BY DEF TitlesRaised
<1> HIDE DEF A1, A2, A3
<1>2. Raising(s1) /\ \A r, u : Tells(s1, r, u) <=> r = "head-title-missing" /\ u \in A1
  <2>1. "head-title-missing" \in Range(RuleNames) /\ "High" \in Range(SEV) /\ "Head Metadata" \in Range(Categories)
    BY NamesAreThere
  <2> QED
    BY <2>1, TellsOne DEF HeadFinding
<1>3. Raising(s2) /\ \A r, u : Tells(s2, r, u) <=> r = "head-title-generic" /\ u \in A2
  <2>1. "head-title-generic" \in Range(RuleNames) /\ "Medium" \in Range(SEV) /\ "Head Metadata" \in Range(Categories)
    BY NamesAreThere
  <2> QED
    BY <2>1, TellsOne DEF HeadFinding
<1>4. Raising(s3) /\ \A r, u : Tells(s3, r, u) <=> r = "head-title-duplicated" /\ u \in A3
  <2>1. "head-title-duplicated" \in Range(RuleNames) /\ "Medium" \in Range(SEV) /\ "Head Metadata" \in Range(Categories)
    BY NamesAreThere
  <2> QED
    BY <2>1, TellsOne DEF HeadFinding
<1> HIDE DEF s1, s2, s3
<1>5. Raising(s1 \o s2 \o s3)
      /\ \A r, u : Tells(s1 \o s2 \o s3, r, u) <=> Tells(s1, r, u) \/ Tells(s2, r, u) \/ Tells(s3, r, u)
  BY <1>2, <1>3, <1>4, TellsThree
<1>6. \A r, u : (Tells(s1, r, u) \/ Tells(s2, r, u) \/ Tells(s3, r, u)) <=>
        \/ r = "head-title-missing" /\ u \in A1
        \/ r = "head-title-generic" /\ u \in A2
        \/ r = "head-title-duplicated" /\ u \in A3
  BY <1>2, <1>3, <1>4
<1>7. Raising(TitlesRaised(P)) /\ \A r, u : Tells(TitlesRaised(P), r, u) <=>
        \/ r = "head-title-missing" /\ u \in A1
        \/ r = "head-title-generic" /\ u \in A2
        \/ r = "head-title-duplicated" /\ u \in A3
  BY <1>1, <1>5, <1>6
<1> QED
  BY <1>7 DEF A1, A2, A3

LEMMA DescriptionsTell ==
  ASSUME NEW P
  PROVE  /\ Raising(DescriptionsRaised(P))
         /\ \A r, u : Tells(DescriptionsRaised(P), r, u) <=>
              \/ r = "meta-description-missing" /\ u \in At(P, {i \in Indexable(P) : P[i].description = ""})
              \/ r = "meta-description-duplicated" /\ u \in DuplicateUrls(P, Indexable(P), "description")
<1> DEFINE A1 == At(P, {i \in Indexable(P) : P[i].description = ""})
           A2 == DuplicateUrls(P, Indexable(P), "description")
           s1 == HeadFinding("meta-description-missing", "Medium", "Content", A1)
           s2 == HeadFinding("meta-description-duplicated", "Low", "Content", A2)
<1>1. DescriptionsRaised(P) = s1 \o s2
  BY DEF DescriptionsRaised
<1> HIDE DEF A1, A2
<1>2. Raising(s1) /\ \A r, u : Tells(s1, r, u) <=> r = "meta-description-missing" /\ u \in A1
  <2>1. "meta-description-missing" \in Range(RuleNames) /\ "Medium" \in Range(SEV) /\ "Head Metadata" \in Range(Categories)
    BY NamesAreThere
  <2> QED
    BY <2>1, TellsOne DEF HeadFinding
<1>3. Raising(s2) /\ \A r, u : Tells(s2, r, u) <=> r = "meta-description-duplicated" /\ u \in A2
  <2>1. "meta-description-duplicated" \in Range(RuleNames) /\ "Low" \in Range(SEV) /\ "Head Metadata" \in Range(Categories)
    BY NamesAreThere
  <2> QED
    BY <2>1, TellsOne DEF HeadFinding
<1> HIDE DEF s1, s2
<1>4. Raising(s1 \o s2)
      /\ \A r, u : Tells(s1 \o s2, r, u) <=> Tells(s1, r, u) \/ Tells(s2, r, u)
  BY <1>2, <1>3, TellsBoth
<1>5. \A r, u : (Tells(s1, r, u) \/ Tells(s2, r, u)) <=>
        \/ r = "meta-description-missing" /\ u \in A1
        \/ r = "meta-description-duplicated" /\ u \in A2
  BY <1>2, <1>3
<1>6. Raising(DescriptionsRaised(P)) /\ \A r, u : Tells(DescriptionsRaised(P), r, u) <=>
        \/ r = "meta-description-missing" /\ u \in A1
        \/ r = "meta-description-duplicated" /\ u \in A2
  BY <1>1, <1>4, <1>5
<1> QED
  BY <1>6 DEF A1, A2

LEMMA TechnicalHeadTells ==
  ASSUME NEW P
  PROVE  /\ Raising(TechnicalHeadRaised(P))
         /\ \A r, u : Tells(TechnicalHeadRaised(P), r, u) <=>
              \/ r = "viewport-missing" /\ u \in At(P, {i \in Html(P) : P[i].viewport = ""})
              \/ r = "charset-missing" /\ u \in At(P, {i \in Html(P) : P[i].charset = ""})
              \/ r = "canonical-missing" /\ u \in At(P, {i \in Indexable(P) : P[i].canonical = NoPage})
              \/ r = "deprecated-head-metadata" /\ u \in At(P, {i \in Html(P) : P[i].deprecated})
<1> DEFINE A1 == At(P, {i \in Html(P) : P[i].viewport = ""})
           A2 == At(P, {i \in Html(P) : P[i].charset = ""})
           A3 == At(P, {i \in Indexable(P) : P[i].canonical = NoPage})
           A4 == At(P, {i \in Html(P) : P[i].deprecated})
           s1 == HeadFinding("viewport-missing", "High", "Engineer", A1)
           s2 == HeadFinding("charset-missing", "Medium", "Engineer", A2)
           s3 == Stated("STRONGLY_SUPPORTED", RuleFinding("canonical-missing", "Medium", "Head Metadata", "Technical",
                                                          {"canonical-strength"}, A3))
           s4 == HeadFinding("deprecated-head-metadata", "Low", "Engineer", A4)
<1>1. TechnicalHeadRaised(P) = s1 \o s2 \o s3 \o s4
  BY DEF TechnicalHeadRaised
<1> HIDE DEF A1, A2, A3, A4
<1>2. Raising(s1) /\ \A r, u : Tells(s1, r, u) <=> r = "viewport-missing" /\ u \in A1
  <2>1. "viewport-missing" \in Range(RuleNames) /\ "High" \in Range(SEV) /\ "Head Metadata" \in Range(Categories)
    BY NamesAreThere
  <2> QED
    BY <2>1, TellsOne DEF HeadFinding
<1>3. Raising(s2) /\ \A r, u : Tells(s2, r, u) <=> r = "charset-missing" /\ u \in A2
  <2>1. "charset-missing" \in Range(RuleNames) /\ "Medium" \in Range(SEV) /\ "Head Metadata" \in Range(Categories)
    BY NamesAreThere
  <2> QED
    BY <2>1, TellsOne DEF HeadFinding
<1>4. Raising(s3) /\ \A r, u : Tells(s3, r, u) <=> r = "canonical-missing" /\ u \in A3
  <2>1. "canonical-missing" \in Range(RuleNames) /\ "Medium" \in Range(SEV) /\ "Head Metadata" \in Range(Categories)
    BY NamesAreThere
  <2> DEFINE t == RuleFinding("canonical-missing", "Medium", "Head Metadata", "Technical", {"canonical-strength"}, A3)
  <2>2. Raising(t) /\ \A r, u : Tells(t, r, u) <=> r = "canonical-missing" /\ u \in A3
    BY <2>1, TellsOne
  <2> HIDE DEF t
  <2>3. Raising(Stated("STRONGLY_SUPPORTED", t)) /\ \A r, u : Tells(Stated("STRONGLY_SUPPORTED", t), r, u) <=> Tells(t, r, u)
    BY <2>2, TellsStated DEF RaisedStates
  <2> QED
    BY <2>2, <2>3 DEF t
<1>5. Raising(s4) /\ \A r, u : Tells(s4, r, u) <=> r = "deprecated-head-metadata" /\ u \in A4
  <2>1. "deprecated-head-metadata" \in Range(RuleNames) /\ "Low" \in Range(SEV) /\ "Head Metadata" \in Range(Categories)
    BY NamesAreThere
  <2> QED
    BY <2>1, TellsOne DEF HeadFinding
<1> HIDE DEF s1, s2, s3, s4
<1>6. Raising(s1 \o s2 \o s3 \o s4)
      /\ \A r, u : Tells(s1 \o s2 \o s3 \o s4, r, u) <=>
              Tells(s1, r, u) \/ Tells(s2, r, u) \/ Tells(s3, r, u) \/ Tells(s4, r, u)
  BY <1>2, <1>3, <1>4, <1>5, TellsFour
<1>7. \A r, u : (Tells(s1, r, u) \/ Tells(s2, r, u) \/ Tells(s3, r, u) \/ Tells(s4, r, u)) <=>
        \/ r = "viewport-missing" /\ u \in A1
        \/ r = "charset-missing" /\ u \in A2
        \/ r = "canonical-missing" /\ u \in A3
        \/ r = "deprecated-head-metadata" /\ u \in A4
  BY <1>2, <1>3, <1>4, <1>5
<1>8. Raising(TechnicalHeadRaised(P)) /\ \A r, u : Tells(TechnicalHeadRaised(P), r, u) <=>
        \/ r = "viewport-missing" /\ u \in A1
        \/ r = "charset-missing" /\ u \in A2
        \/ r = "canonical-missing" /\ u \in A3
        \/ r = "deprecated-head-metadata" /\ u \in A4
  BY <1>1, <1>6, <1>7
<1> QED
  BY <1>8 DEF A1, A2, A3, A4

LEMMA SocialTells ==
  ASSUME NEW P
  PROVE  /\ Raising(SocialRaised(P))
         /\ \A r, u : Tells(SocialRaised(P), r, u) <=>
              \/ /\ r = "social-metadata-incomplete"
                 /\ u \in At(P, {i \in Indexable(P) : P[i].title # "" /\ ~({"og:title", "og:description"} \subseteq P[i].openGraph)})
<1> DEFINE A1 == At(P, {i \in Indexable(P) : P[i].title # "" /\ ~({"og:title", "og:description"} \subseteq P[i].openGraph)})
           s1 == HeadFinding("social-metadata-incomplete", "Low", "Content", A1)
<1>1. SocialRaised(P) = s1
  BY DEF SocialRaised
<1> HIDE DEF A1
<1>2. Raising(s1) /\ \A r, u : Tells(s1, r, u) <=> r = "social-metadata-incomplete" /\ u \in A1
  <2>1. "social-metadata-incomplete" \in Range(RuleNames) /\ "Low" \in Range(SEV) /\ "Head Metadata" \in Range(Categories)
    BY NamesAreThere
  <2> QED
    BY <2>1, TellsOne DEF HeadFinding
<1> HIDE DEF s1
<1> QED
  BY <1>1, <1>2 DEF A1

-----------------------------------------------------------------------------
(* The audit: what its rules tell, one after the other and together.        *)

\* What is said of the robots files themselves, and of the assets they forbid.
OfRobots == {"robots-fetch-failed", "robots-server-error", "robots-too-large", "robots-crawl-delay",
             "robots-noindex", "blocked-render-assets"}
SaysOfRobots(s) == Raising(s) /\ \A r, u : Tells(s, r, u) => r \in OfRobots

LEMMA SaysOne ==
  ASSUME NEW rule \in OfRobots, rule \in Range(RuleNames), NEW severity \in Range(SEV),
         NEW category \in Range(Categories), NEW owner, NEW claims, NEW urls
  PROVE  SaysOfRobots(RuleFinding(rule, severity, category, owner, claims, urls))
<1> DEFINE s == RuleFinding(rule, severity, category, owner, claims, urls)
<1>1. Raising(s) /\ \A r, u : Tells(s, r, u) <=> r = rule /\ u \in urls
  BY TellsOne
<1> HIDE DEF s
<1>2. SaysOfRobots(s)
  BY <1>1 DEF SaysOfRobots
<1> QED
  BY <1>2 DEF s

LEMMA SaysBoth ==
  ASSUME NEW s, NEW t, SaysOfRobots(s), SaysOfRobots(t)
  PROVE  SaysOfRobots(s \o t)
BY TellsBoth DEF SaysOfRobots

LEMMA SaysNothing == SaysOfRobots(<<>>)
BY NothingIsRaised DEF SaysOfRobots, Tells

LEMMA SaysAll ==
  ASSUME NEW lists, NEW n \in Nat, lists = [i \in 1..n |-> lists[i]], \A i \in 1..n : SaysOfRobots(lists[i])
  PROVE  SaysOfRobots(FlattenSeq(lists))
<1>1. \A i \in 1..n : Raising(lists[i]) /\ \A r, u : Tells(lists[i], r, u) => r \in OfRobots
  BY DEF SaysOfRobots
<1>2. Raising(FlattenSeq(lists)) /\ \A p \in Said(FlattenSeq(lists)) : \E i \in 1..n : p \in Said(lists[i])
  BY <1>1, RaisedAll
<1>3. ASSUME NEW r, NEW u, Tells(FlattenSeq(lists), r, u)
      PROVE  r \in OfRobots
  <2>1. PICK i \in 1..n : <<r, u>> \in Said(lists[i])
    BY <1>2, <1>3 DEF Tells
  <2> QED
    BY <2>1, <1>1 DEF Tells
<1> QED
  BY <1>2, <1>3 DEF SaysOfRobots

LEMMA ResponseSays ==
  ASSUME NEW r
  PROVE  SaysOfRobots(ResponseRaised(r))
<1> DEFINE lost == RuleFinding("robots-fetch-failed", "High", "Crawl Access", "Diagnostic",
                               {"robots-scope", "robots-5xx"}, {r.at})
           busy == RuleFinding("robots-server-error", "Critical", "Crawl Access", "Technical", {"robots-5xx"},
                               Concerning(r, Overloaded(r.status)))
           large == RuleFinding("robots-too-large", "High", "Crawl Access", "Technical", {"robots-file-limit"},
                                Concerning(r, r.large))
<1>1. /\ {"robots-fetch-failed", "robots-server-error", "robots-too-large"} \subseteq OfRobots
      /\ {"robots-fetch-failed", "robots-server-error", "robots-too-large"} \subseteq Range(RuleNames)
      /\ {"High", "Critical"} \subseteq Range(SEV) /\ "Crawl Access" \in Range(Categories)
  BY NamesAreThere DEF OfRobots
<1>2. SaysOfRobots(lost) /\ SaysOfRobots(busy) /\ SaysOfRobots(large)
  BY <1>1, SaysOne
<1>3. ResponseRaised(r) = IF r.failed THEN Stated("MISSING", lost) ELSE busy \o large
  BY DEF ResponseRaised
<1> HIDE DEF lost, busy, large
<1>4. Raising(Stated("MISSING", lost)) /\ \A q, u : Tells(Stated("MISSING", lost), q, u) <=> Tells(lost, q, u)
  BY <1>2, TellsStated DEF RaisedStates, SaysOfRobots
<1>5. SaysOfRobots(Stated("MISSING", lost)) /\ SaysOfRobots(busy \o large)
  BY <1>2, <1>4, SaysBoth DEF SaysOfRobots
<1> QED
  BY <1>3, <1>5

LEMMA UnsupportedSays ==
  ASSUME NEW r, IsSequence(r.unknown)
  PROVE  SaysOfRobots(UnsupportedRaised(r))
<1> DEFINE slow(k) == RuleFinding("robots-crawl-delay", "Medium", "Crawl Access", "Technical",
                                  {"robots-crawl-delay-unsupported"},
                                  Concerning(r, r.unknown[k] = "crawl-delay"))
           hidden(k) == RuleFinding("robots-noindex", "High", "Indexability", "Technical",
                                    {"robots-disallow-not-noindex"},
                                    Concerning(r, r.unknown[k] = "noindex"))
           lists == [k \in DOMAIN r.unknown |-> slow(k) \o hidden(k)]
           n == Len(r.unknown)
<1>1. n \in Nat /\ DOMAIN r.unknown = 1..n
  BY ListIsSequence
<1>2. /\ {"robots-crawl-delay", "robots-noindex"} \subseteq OfRobots \cap Range(RuleNames)
      /\ {"High", "Medium"} \subseteq Range(SEV) /\ {"Crawl Access", "Indexability"} \subseteq Range(Categories)
  BY NamesAreThere DEF OfRobots
<1>3. \A k : SaysOfRobots(slow(k)) /\ SaysOfRobots(hidden(k))
  BY <1>2, SaysOne
<1>4. UnsupportedRaised(r) = FlattenSeq(lists)
  BY DEF UnsupportedRaised
<1> HIDE DEF slow, hidden
<1>5. \A k : SaysOfRobots(slow(k) \o hidden(k))
  BY <1>3, SaysBoth
<1>6. lists = [i \in 1..n |-> lists[i]] /\ \A i \in 1..n : SaysOfRobots(lists[i])
  BY <1>1, <1>5
<1> HIDE DEF lists, n
<1> QED
  BY <1>1, <1>4, <1>6, SaysAll

\* What the robots files give rise to: a page is said to be hidden from the crawler only if
\* it asks not to be indexed.
LEMMA RobotsTell ==
  ASSUME NEW crawl, NEW P, IsSequence(crawl.robots), \A r \in Range(crawl.robots) : IsSequence(r.unknown)
  PROVE  /\ Raising(RobotsRaised(crawl, P))
         /\ \A r, u : Tells(RobotsRaised(crawl, P), r, u) =>
              \/ r \in OfRobots
              \/ r = "noindex-blocked-by-robots" /\ u \in At(P, {i \in DOMAIN P : "noindex" \in P[i].directives})
<1> DEFINE n == Len(crawl.robots)
           of(r) == ResponseRaised(r) \o (IF r.failed THEN <<>> ELSE UnsupportedRaised(r))
           lists == [i \in DOMAIN crawl.robots |-> of(crawl.robots[i])]
           files == FlattenSeq(lists)
           noindex == At(P, {i \in DOMAIN P : "noindex" \in P[i].directives})
           root == CHOOSE r \in Range(crawl.robots) : r.host = crawl.host
           blocked == {u \in DOMAIN crawl.address : root.status < 400 /\ crawl.address[u].base \in root.forbids}
           assets == {u \in UNION {P[i].assets : i \in DOMAIN P} : crawl.address[u].host = crawl.host}
           both == blocked \cap noindex
           cut == blocked \cap assets
           pages == RuleFinding("noindex-blocked-by-robots", "Critical", "Indexability", "Technical",
                                {"robots-disallow-not-noindex"}, both)
           files2 == RuleFinding("blocked-render-assets", "High", "Rendering", "Diagnostic",
                                 {"robots-disallow-not-noindex"}, cut)
<1>1. n \in Nat /\ DOMAIN crawl.robots = 1..n
  BY ListIsSequence
<1>2. \A i \in 1..n : SaysOfRobots(of(crawl.robots[i]))
  <2> TAKE i \in 1..n
  <2> DEFINE r == crawl.robots[i]
  <2>1. IsSequence(r.unknown)
    BY <1>1 DEF Range
  <2> HIDE DEF r
  <2>2. SaysOfRobots(ResponseRaised(r)) /\ SaysOfRobots(IF r.failed THEN <<>> ELSE UnsupportedRaised(r))
    BY <2>1, ResponseSays, UnsupportedSays, SaysNothing
  <2> QED
    BY <2>2, SaysBoth DEF r
<1>3. RobotsRaised(crawl, P) = files \o (pages \o files2)
  BY DEF RobotsRaised, BlockedRaised
<1>4. /\ Raising(pages) /\ \A r, u : Tells(pages, r, u) <=> r = "noindex-blocked-by-robots" /\ u \in both
      /\ Raising(files2) /\ \A r, u : Tells(files2, r, u) <=> r = "blocked-render-assets" /\ u \in cut
  <2>1. /\ {"noindex-blocked-by-robots", "blocked-render-assets"} \subseteq Range(RuleNames)
        /\ {"High", "Critical"} \subseteq Range(SEV) /\ {"Indexability", "Rendering"} \subseteq Range(Categories)
    BY NamesAreThere
  <2> HIDE DEF both, cut
  <2> QED
    BY <2>1, TellsOne
<1>5. both \subseteq noindex
  OBVIOUS
<1> HIDE DEF of
<1>6. lists = [i \in 1..n |-> lists[i]] /\ \A i \in 1..n : SaysOfRobots(lists[i])
  BY <1>1, <1>2
<1> HIDE DEF lists, both, cut, noindex
<1>7. Raising(files) /\ \A r, u : Tells(files, r, u) => r \in OfRobots
  BY <1>1, <1>6, SaysAll DEF SaysOfRobots
<1> HIDE DEF files, pages, files2
<1>8. Raising(pages \o files2) /\ \A r, u : Tells(pages \o files2, r, u) <=> Tells(pages, r, u) \/ Tells(files2, r, u)
  BY <1>4, TellsBoth
<1>9. /\ Raising(files \o (pages \o files2))
      /\ \A r, u : Tells(files \o (pages \o files2), r, u) <=> Tells(files, r, u) \/ Tells(pages \o files2, r, u)
  BY <1>7, <1>8, TellsBoth
<1>10. "blocked-render-assets" \in OfRobots
  BY DEF OfRobots
<1>11. \A r, u : Tells(files \o (pages \o files2), r, u) =>
              \/ r \in OfRobots
              \/ r = "noindex-blocked-by-robots" /\ u \in noindex
  BY <1>4, <1>5, <1>7, <1>8, <1>9, <1>10
<1> QED
  BY <1>3, <1>9, <1>11 DEF noindex

\* What each rule that is judged tells, among all that is raised.
TellsAsRuled(crawl, P) ==
  LET T(r, u) == Tells(RaisedBy(crawl, P), r, u) IN
  /\ \A u : T("noindex-blocked-by-robots", u) => u \in At(P, {i \in DOMAIN P : "noindex" \in P[i].directives})
  /\ \A u : T("server-errors", u) <=> u \in At(P, {i \in DOMAIN P : Overloaded(P[i].status)})
  /\ \A u : T("missing-linked-pages", u) <=> u \in At(P, {i \in DOMAIN P : P[i].status \in {404, 410}})
  /\ \A u : T("soft-404", u) <=> u \in At(P, {i \in DOMAIN P : P[i].soft})
  /\ \A u : T("internal-redirects", u) <=> u \in {P[i].requested : i \in {j \in DOMAIN P : P[j].requested # P[j].at}}
  /\ \A u : T("canonical-broken-target", u) <=> u \in At(P, BrokenTargets(P))
  /\ \A u : T("canonical-cycle", u) <=> u \in Reported("canonical-cycle")
  /\ \A u : T("canonical-chain", u) <=> u \in Reported("canonical-chain")
  /\ \A u : T("pagination-canonical-page-one", u) <=> u \in At(P, OnFirst(crawl, P))
  /\ \A u : T("links-to-noncanonical", u) <=> u \in (UNION {P[i].links : i \in DOMAIN P}) \cap At(P, NonCanonical(P))
  /\ \A u : T("facet-empty-200", u) <=> u \in At(P, {i \in Facets(crawl, P) : Succeeds(P[i].status) /\ P[i].soft})
  /\ \A u : T("head-title-missing", u) <=> u \in At(P, {i \in Indexable(P) : P[i].title = ""})
  /\ \A u : T("head-title-generic", u) <=> u \in At(P, {i \in Indexable(P) : P[i].title \in GENERIC_TITLES})
  /\ \A u : T("head-title-duplicated", u) <=> u \in DuplicateUrls(P, Indexable(P), "title")
  /\ \A u : T("meta-description-missing", u) <=> u \in At(P, {i \in Indexable(P) : P[i].description = ""})
  /\ \A u : T("meta-description-duplicated", u) <=> u \in DuplicateUrls(P, Indexable(P), "description")
  /\ \A u : T("viewport-missing", u) <=> u \in At(P, {i \in Html(P) : P[i].viewport = ""})
  /\ \A u : T("charset-missing", u) <=> u \in At(P, {i \in Html(P) : P[i].charset = ""})
  /\ \A u : T("canonical-missing", u) <=> u \in At(P, {i \in Indexable(P) : P[i].canonical = NoPage})
  /\ \A u : T("deprecated-head-metadata", u) <=> u \in At(P, {i \in Html(P) : P[i].deprecated})
  /\ \A u : T("social-metadata-incomplete", u) <=>
       u \in At(P, {i \in Indexable(P) : P[i].title # "" /\ ~({"og:title", "og:description"} \subseteq P[i].openGraph)})

LEMMA RulesTell ==
  ASSUME NEW crawl, NEW P, IsSequence(crawl.robots), \A r \in Range(crawl.robots) : IsSequence(r.unknown)
  PROVE  Raising(RaisedBy(crawl, P)) /\ TellsAsRuled(crawl, P)
<1> DEFINE g1 == RobotsRaised(crawl, P)
           g2 == StatusRaised(P)
           g3 == CanonicalRaised(crawl, P)
           g4 == SnippetRaised(P)
           g5 == ImagesRaised(P)
           g6 == FacetsRaised(crawl, P)
           g7 == TitlesRaised(P)
           g8 == DescriptionsRaised(P)
           g9 == TechnicalHeadRaised(P)
           g10 == SocialRaised(P)
           h1 == g1 \o g2 \o g3 \o g4
           h2 == h1 \o g5 \o g6 \o g7
           h3 == h2 \o g8 \o g9 \o g10
<1>1. RaisedBy(crawl, P) = h3
  BY DEF RaisedBy
<1> DEFINE A0 == At(P, {i \in DOMAIN P : "noindex" \in P[i].directives})
           A1 == At(P, {i \in DOMAIN P : Overloaded(P[i].status)})
           A2 == At(P, {i \in DOMAIN P : P[i].status \in {404, 410}})
           A3 == At(P, {i \in DOMAIN P : P[i].soft})
           A4 == {P[i].requested : i \in {j \in DOMAIN P : P[j].requested # P[j].at}}
           A5 == At(P, BrokenTargets(P))
           A6 == Reported("canonical-cycle")
           A7 == Reported("canonical-chain")
           A8 == At(P, OnFirst(crawl, P))
           A9 == At(P, {i \in DOMAIN P : P[i].legacy})
           A10 == (UNION {P[i].links : i \in DOMAIN P}) \cap At(P, NonCanonical(P))
           A11 == At(P, {i \in DOMAIN P : "nosnippet" \in P[i].directives})
           A12 == At(P, {i \in DOMAIN P : "max-snippet" \in P[i].directives})
           A13 == At(P, {i \in DOMAIN P : \E m \in {P[i].images[k] : k \in DOMAIN P[i].images \cap 1..2} : m.lazy})
           A14 == At(P, {i \in DOMAIN P : \E m \in {P[i].images[k] : k \in DOMAIN P[i].images \cap 1..2} : ~m.sized})
           A15 == At(P, {i \in Facets(crawl, P) : Succeeds(P[i].status) /\ P[i].soft})
           A16 == {a \in At(P, Facets(crawl, P)) : Disorder(crawl, P)}
           A17 == At(P, {i \in Indexable(P) : P[i].title = ""})
           A18 == At(P, {i \in Indexable(P) : P[i].title \in GENERIC_TITLES})
           A19 == DuplicateUrls(P, Indexable(P), "title")
           A20 == At(P, {i \in Indexable(P) : P[i].description = ""})
           A21 == DuplicateUrls(P, Indexable(P), "description")
           A22 == At(P, {i \in Html(P) : P[i].viewport = ""})
           A23 == At(P, {i \in Html(P) : P[i].charset = ""})
           A24 == At(P, {i \in Indexable(P) : P[i].canonical = NoPage})
           A25 == At(P, {i \in Html(P) : P[i].deprecated})
           A26 == At(P, {i \in Indexable(P) : P[i].title # "" /\ ~({"og:title", "og:description"} \subseteq P[i].openGraph)})
<1>2. Raising(g1) /\ \A r, u : Tells(g1, r, u) => r \in OfRobots \/ (r = "noindex-blocked-by-robots" /\ u \in A0)
  BY RobotsTell
<1>3. Raising(g2) /\ \A r, u : Tells(g2, r, u) <=>
        \/ r = "server-errors" /\ u \in A1
        \/ r = "missing-linked-pages" /\ u \in A2
        \/ r = "soft-404" /\ u \in A3
        \/ r = "internal-redirects" /\ u \in A4
  BY StatusTells
<1>4. Raising(g3) /\ \A r, u : Tells(g3, r, u) <=>
        \/ r = "canonical-broken-target" /\ u \in A5
        \/ r = "canonical-cycle" /\ u \in A6
        \/ r = "canonical-chain" /\ u \in A7
        \/ r = "pagination-canonical-page-one" /\ u \in A8
        \/ r = "pagination-legacy-rel" /\ u \in A9
        \/ r = "links-to-noncanonical" /\ u \in A10
  BY CanonicalTells
<1>5. Raising(g4) /\ \A r, u : Tells(g4, r, u) <=>
        \/ r = "nosnippet-tradeoff" /\ u \in A11
        \/ r = "maxsnippet-tradeoff" /\ u \in A12
  BY SnippetTells
<1>6. Raising(g5) /\ \A r, u : Tells(g5, r, u) <=>
        \/ r = "likely-lcp-lazy" /\ u \in A13
        \/ r = "image-dimensions" /\ u \in A14
  BY ImagesTell
<1>7. Raising(g6) /\ \A r, u : Tells(g6, r, u) <=>
        \/ r = "facet-empty-200" /\ u \in A15
        \/ r = "facet-order-inconsistent" /\ u \in A16
  BY FacetsTell
<1>8. Raising(g7) /\ \A r, u : Tells(g7, r, u) <=>
        \/ r = "head-title-missing" /\ u \in A17
        \/ r = "head-title-generic" /\ u \in A18
        \/ r = "head-title-duplicated" /\ u \in A19
  BY TitlesTell
<1>9. Raising(g8) /\ \A r, u : Tells(g8, r, u) <=>
        \/ r = "meta-description-missing" /\ u \in A20
        \/ r = "meta-description-duplicated" /\ u \in A21
  BY DescriptionsTell
<1>10. Raising(g9) /\ \A r, u : Tells(g9, r, u) <=>
        \/ r = "viewport-missing" /\ u \in A22
        \/ r = "charset-missing" /\ u \in A23
        \/ r = "canonical-missing" /\ u \in A24
        \/ r = "deprecated-head-metadata" /\ u \in A25
  BY TechnicalHeadTells
<1>11. Raising(g10) /\ \A r, u : Tells(g10, r, u) <=>
        \/ r = "social-metadata-incomplete" /\ u \in A26
  BY SocialTells
<1> HIDE DEF g1, g2, g3, g4, g5, g6, g7, g8, g9, g10, A0, A1, A2, A3, A4, A5, A6, A7, A8, A9, A10, A11, A12, A13,
  A14, A15, A16, A17, A18, A19, A20, A21, A22, A23, A24, A25, A26
<1>12. Raising(h1) /\ \A r, u : Tells(h1, r, u) <=> Tells(g1, r, u) \/ Tells(g2, r, u) \/ Tells(g3, r, u) \/ Tells(g4, r, u)
  BY <1>2, <1>3, <1>4, <1>5, TellsFour
<1> HIDE DEF h1
<1>13. Raising(h2) /\ \A r, u : Tells(h2, r, u) <=> Tells(h1, r, u) \/ Tells(g5, r, u) \/ Tells(g6, r, u) \/ Tells(g7, r, u)
  BY <1>6, <1>7, <1>8, <1>12, TellsFour
<1> HIDE DEF h2
<1>14. Raising(h3) /\ \A r, u : Tells(h3, r, u) <=> Tells(h2, r, u) \/ Tells(g8, r, u) \/ Tells(g9, r, u) \/ Tells(g10, r, u)
  BY <1>9, <1>10, <1>11, <1>13, TellsFour
<1> HIDE DEF h3
<1>15. \A r, u : Tells(h3, r, u) <=>
          \/ Tells(g1, r, u) \/ Tells(g2, r, u) \/ Tells(g3, r, u) \/ Tells(g4, r, u) \/ Tells(g5, r, u)
          \/ Tells(g6, r, u) \/ Tells(g7, r, u) \/ Tells(g8, r, u) \/ Tells(g9, r, u) \/ Tells(g10, r, u)
  BY <1>12, <1>13, <1>14
<1>16. \A u : Tells(h3, "noindex-blocked-by-robots", u) => u \in A0
  BY <1>2, <1>3, <1>4, <1>5, <1>6, <1>7, <1>8, <1>9, <1>10, <1>11, <1>15 DEF OfRobots
<1>17. /\ \A u : Tells(h3, "server-errors", u) <=> u \in A1
       /\ \A u : Tells(h3, "missing-linked-pages", u) <=> u \in A2
       /\ \A u : Tells(h3, "soft-404", u) <=> u \in A3
       /\ \A u : Tells(h3, "internal-redirects", u) <=> u \in A4
  BY <1>2, <1>3, <1>4, <1>5, <1>6, <1>7, <1>8, <1>9, <1>10, <1>11, <1>15 DEF OfRobots
<1>18. /\ \A u : Tells(h3, "canonical-broken-target", u) <=> u \in A5
       /\ \A u : Tells(h3, "canonical-cycle", u) <=> u \in A6
       /\ \A u : Tells(h3, "canonical-chain", u) <=> u \in A7
       /\ \A u : Tells(h3, "pagination-canonical-page-one", u) <=> u \in A8
       /\ \A u : Tells(h3, "links-to-noncanonical", u) <=> u \in A10
  BY <1>2, <1>3, <1>4, <1>5, <1>6, <1>7, <1>8, <1>9, <1>10, <1>11, <1>15 DEF OfRobots
<1>19. /\ \A u : Tells(h3, "facet-empty-200", u) <=> u \in A15
  BY <1>2, <1>3, <1>4, <1>5, <1>6, <1>7, <1>8, <1>9, <1>10, <1>11, <1>15 DEF OfRobots
<1>20. /\ \A u : Tells(h3, "head-title-missing", u) <=> u \in A17
       /\ \A u : Tells(h3, "head-title-generic", u) <=> u \in A18
       /\ \A u : Tells(h3, "head-title-duplicated", u) <=> u \in A19
  BY <1>2, <1>3, <1>4, <1>5, <1>6, <1>7, <1>8, <1>9, <1>10, <1>11, <1>15 DEF OfRobots
<1>21. /\ \A u : Tells(h3, "meta-description-missing", u) <=> u \in A20
       /\ \A u : Tells(h3, "meta-description-duplicated", u) <=> u \in A21
  BY <1>2, <1>3, <1>4, <1>5, <1>6, <1>7, <1>8, <1>9, <1>10, <1>11, <1>15 DEF OfRobots
<1>22. /\ \A u : Tells(h3, "viewport-missing", u) <=> u \in A22
       /\ \A u : Tells(h3, "charset-missing", u) <=> u \in A23
       /\ \A u : Tells(h3, "canonical-missing", u) <=> u \in A24
       /\ \A u : Tells(h3, "deprecated-head-metadata", u) <=> u \in A25
  BY <1>2, <1>3, <1>4, <1>5, <1>6, <1>7, <1>8, <1>9, <1>10, <1>11, <1>15 DEF OfRobots
<1>23. /\ \A u : Tells(h3, "social-metadata-incomplete", u) <=> u \in A26
  BY <1>2, <1>3, <1>4, <1>5, <1>6, <1>7, <1>8, <1>9, <1>10, <1>11, <1>15 DEF OfRobots
<1>24. /\ Raising(RaisedBy(crawl, P))
       /\ \A u : Tells(RaisedBy(crawl, P), "noindex-blocked-by-robots", u) => u \in A0
       /\ \A u : Tells(RaisedBy(crawl, P), "server-errors", u) <=> u \in A1
       /\ \A u : Tells(RaisedBy(crawl, P), "missing-linked-pages", u) <=> u \in A2
       /\ \A u : Tells(RaisedBy(crawl, P), "soft-404", u) <=> u \in A3
       /\ \A u : Tells(RaisedBy(crawl, P), "internal-redirects", u) <=> u \in A4
       /\ \A u : Tells(RaisedBy(crawl, P), "canonical-broken-target", u) <=> u \in A5
       /\ \A u : Tells(RaisedBy(crawl, P), "canonical-cycle", u) <=> u \in A6
       /\ \A u : Tells(RaisedBy(crawl, P), "canonical-chain", u) <=> u \in A7
       /\ \A u : Tells(RaisedBy(crawl, P), "pagination-canonical-page-one", u) <=> u \in A8
       /\ \A u : Tells(RaisedBy(crawl, P), "links-to-noncanonical", u) <=> u \in A10
       /\ \A u : Tells(RaisedBy(crawl, P), "facet-empty-200", u) <=> u \in A15
       /\ \A u : Tells(RaisedBy(crawl, P), "head-title-missing", u) <=> u \in A17
       /\ \A u : Tells(RaisedBy(crawl, P), "head-title-generic", u) <=> u \in A18
       /\ \A u : Tells(RaisedBy(crawl, P), "head-title-duplicated", u) <=> u \in A19
       /\ \A u : Tells(RaisedBy(crawl, P), "meta-description-missing", u) <=> u \in A20
       /\ \A u : Tells(RaisedBy(crawl, P), "meta-description-duplicated", u) <=> u \in A21
       /\ \A u : Tells(RaisedBy(crawl, P), "viewport-missing", u) <=> u \in A22
       /\ \A u : Tells(RaisedBy(crawl, P), "charset-missing", u) <=> u \in A23
       /\ \A u : Tells(RaisedBy(crawl, P), "canonical-missing", u) <=> u \in A24
       /\ \A u : Tells(RaisedBy(crawl, P), "deprecated-head-metadata", u) <=> u \in A25
       /\ \A u : Tells(RaisedBy(crawl, P), "social-metadata-incomplete", u) <=> u \in A26
  BY <1>1, <1>14, <1>16, <1>17, <1>18, <1>19, <1>20, <1>21, <1>22, <1>23
<1> QED
  BY <1>24 DEF TellsAsRuled, A0, A1, A2, A3, A4, A5, A6, A7, A8, A9, A10, A11, A12, A13, A14, A15, A16, A17, A18,
    A19, A20, A21, A22, A23, A24, A25, A26

-----------------------------------------------------------------------------
(* The audit: what its report tells of an address, when nothing is cut off.  *)

\* Where nothing is cut off, a report tells a page exactly what is raised of it.
LEMMA ShownAreAll ==
  ASSUME NEW A \in SUBSET Nat, IsFiniteSet(A), Cardinality(A) <= ShownUrls, NEW urls \in SUBSET A
  PROVE  Shown(urls) = urls
<1>1. ASSUME NEW u \in urls
      PROVE  Cardinality({v \in urls : v < u}) < ShownUrls
  <2> DEFINE B == {v \in urls : v < u}
             C == A \ {u}
  <2>1. u \in A /\ u \in Nat /\ B \subseteq C
    <3>1. u \in A /\ u \in Nat /\ ~(u < u)
      BY <1>1
    <3>2. \A v \in B : v \in A /\ v < u
      OBVIOUS
    <3>3. \A v \in B : v # u
      BY <3>1, <3>2
    <3> QED
      BY <3>1, <3>2, <3>3
  <2>2. IsFiniteSet(C) /\ Cardinality(C) = Cardinality(A) - 1
    BY <2>1, FS_RemoveElement
  <2>3. IsFiniteSet(B) /\ Cardinality(B) <= Cardinality(C)
    BY <2>1, <2>2, FS_Subset
  <2>4. Cardinality(A) \in Nat /\ Cardinality(B) \in Nat /\ ShownUrls \in Nat
    BY <2>3, FS_CardinalityType, RulesAssumption
  <2> HIDE DEF B, C
  <2>5. Cardinality(B) < ShownUrls
    BY <2>2, <2>3, <2>4
  <2> QED
    BY <2>5 DEF B
<1> QED
  BY <1>1 DEF Shown

LEMMA ToldIs ==
  ASSUME NEW s, NEW registry, Raising(s), NEW A \in SUBSET Nat, IsFiniteSet(A), Cardinality(A) <= ShownUrls,
         NEW rule, \A v : Tells(s, rule, v) => v \in A, NEW u
  PROVE  LET F == Sorted(Added(s, registry))
         IN  rule \in {F[k].id[1] : k \in {n \in DOMAIN F : u \in F[n].urls}} <=> Tells(s, rule, u)
<1> DEFINE a == Added(s, registry)
           F == Sorted(a)
           n == Len(s)
<1>1. n \in Nat /\ DOMAIN s = 1..n
  BY ListIsSequence DEF Raising
<1>2. \A k \in 1..n : a[k].id[1] = s[k].rule /\ a[k].urls = Shown(s[k].urls)
  <2> TAKE k \in 1..n
  <2>1. a[k] = [id |-> <<s[k].rule, Ordinal(s, k)>>,
                severity |-> s[k].severity, category |-> s[k].category, owner |-> s[k].owner,
                state |-> IF ApprovedForRecommendation(registry, s[k].claims) THEN s[k].state ELSE "REQUIRES_VERIFICATION",
                class |-> StrongestClass(registry, s[k].claims), claims |-> s[k].claims, urls |-> Shown(s[k].urls)]
    BY AddedFields
  <2> DEFINE q == a[k]
  <2> HIDE DEF q
  <2>2. q.id = <<s[k].rule, Ordinal(s, k)>> /\ q.urls = Shown(s[k].urls)
    BY <2>1 DEF q
  <2>3. q.id[1] = s[k].rule
    BY <2>2
  <2> QED
    BY <2>2, <2>3 DEF q
<1>3. /\ InOrder(F, n)
      /\ \A m \in 1..n : \E k \in 1..n : F[m] = a[k]
      /\ \A k \in 1..n : \E m \in 1..n : F[m] = a[k]
  <2>1. Lists(F, a, n)
    BY FindingsAre
  <2> HIDE DEF F, a, n
  <2> QED
    BY <2>1 DEF Lists
<1> HIDE DEF F, a
<1>4. \A v : Tells(s, rule, v) <=> \E k \in 1..n : s[k].rule = rule /\ v \in s[k].urls
  <2> TAKE v
  <2>1. Tells(s, rule, v) <=> \E f \in Range(s) : <<rule, v>> \in Speaks(f)
    BY DEF Tells, Said
  <2>2. \A f : <<rule, v>> \in Speaks(f) <=> f.rule = rule /\ v \in f.urls
    BY DEF Speaks
  <2>3. \A f : f \in Range(s) <=> \E k \in 1..n : f = s[k]
    BY <1>1 DEF Range
  <2> QED
    BY <2>1, <2>2, <2>3
<1>5. \A k \in 1..n : s[k].rule = rule => Shown(s[k].urls) = s[k].urls
  <2> TAKE k \in 1..n
  <2> SUFFICES ASSUME s[k].rule = rule PROVE Shown(s[k].urls) = s[k].urls
    OBVIOUS
  <2>1. \A v \in s[k].urls : Tells(s, rule, v)
    BY <1>4
  <2>2. s[k].urls \subseteq A
    BY <2>1
  <2> QED
    BY <2>2, ShownAreAll
<1>6. rule \in {F[k].id[1] : k \in {m \in DOMAIN F : u \in F[m].urls}}
        <=> \E m \in 1..n : F[m].id[1] = rule /\ u \in F[m].urls
  BY <1>3 DEF InOrder
<1>7. (\E m \in 1..n : F[m].id[1] = rule /\ u \in F[m].urls) <=> \E k \in 1..n : a[k].id[1] = rule /\ u \in a[k].urls
  <2>1. (\A m \in 1..n : \E k \in 1..n : F[m] = a[k]) /\ \A k \in 1..n : \E m \in 1..n : F[m] = a[k]
    BY <1>3
  <2>2. ASSUME NEW m \in 1..n, F[m].id[1] = rule /\ u \in F[m].urls
        PROVE  \E k \in 1..n : a[k].id[1] = rule /\ u \in a[k].urls
    <3>1. PICK k \in 1..n : F[m] = a[k]
      BY <2>1
    <3> QED
      BY <2>2, <3>1
  <2>3. ASSUME NEW k \in 1..n, a[k].id[1] = rule /\ u \in a[k].urls
        PROVE  \E m \in 1..n : F[m].id[1] = rule /\ u \in F[m].urls
    <3>1. PICK m \in 1..n : F[m] = a[k]
      BY <2>1
    <3> QED
      BY <2>3, <3>1
  <2> QED
    BY <2>2, <2>3
<1>8. (\E k \in 1..n : a[k].id[1] = rule /\ u \in a[k].urls) <=> \E k \in 1..n : s[k].rule = rule /\ u \in s[k].urls
  <2>1. \A k \in 1..n : a[k].id[1] = rule /\ u \in a[k].urls <=> s[k].rule = rule /\ u \in s[k].urls
    <3> TAKE k \in 1..n
    <3>1. a[k].id[1] = s[k].rule /\ a[k].urls = Shown(s[k].urls)
      BY <1>2
    <3>2. s[k].rule = rule => Shown(s[k].urls) = s[k].urls
      BY <1>5
    <3> QED
      BY <3>1, <3>2
  <2> QED
    BY <2>1
<1> QED
  BY <1>4, <1>6, <1>7, <1>8 DEF F, a

\* What an audit is judged on: its crawl is what the evidence may be, every walk along
\* canonicals that was reported began at a page, and no finding is cut off.
Judging(crawl) ==
  /\ siteEvidence \in SiteEvidence /\ Audit /\ crawl = siteEvidence.crawl /\ AuditedCrawl(crawl)
  /\ Reported("canonical-cycle") \cup Reported("canonical-chain") \subseteq NonSelf(CanonicalOf)
  /\ Cardinality(AddressesOf(crawl)) <= ShownUrls

LEMMA RecordsAre ==
  ASSUME NEW crawl, AuditedCrawl(crawl)
  PROVE  LET P == PageRecords(crawl) IN
         /\ DOMAIN P = DOMAIN crawl.replies /\ DOMAIN P = 1..Len(crawl.replies) /\ Len(crawl.replies) \in Nat
         /\ \A i \in DOMAIN P :
              /\ crawl.replies[i] \in Range(crawl.replies) /\ P[i] = PageRecord(crawl.replies[i])
              /\ P[i].at = crawl.replies[i].at /\ P[i].requested = crawl.replies[i].requested
         /\ \A r \in Range(crawl.replies) : \E i \in DOMAIN P : r = crawl.replies[i]
<1> DEFINE P == PageRecords(crawl)
<1>1. DOMAIN crawl.replies = 1..Len(crawl.replies) /\ Len(crawl.replies) \in Nat
  BY ListIsSequence DEF AuditedCrawl
<1>2. /\ DOMAIN P = DOMAIN crawl.replies
      /\ \A i \in DOMAIN P : crawl.replies[i] \in Range(crawl.replies) /\ P[i] = PageRecord(crawl.replies[i])
      /\ \A r \in Range(crawl.replies) : \E i \in DOMAIN P : r = crawl.replies[i]
  BY <1>1 DEF PageRecords, Range
<1>3. \A i \in DOMAIN P : P[i].at = crawl.replies[i].at /\ P[i].requested = crawl.replies[i].requested
  <2> TAKE i \in DOMAIN P
  <2> DEFINE p == P[i]
             r == crawl.replies[i]
  <2>1. p = PageRecord(r)
    BY <1>2
  <2> HIDE DEF p, P, r
  <2>2. p.at = r.at /\ p.requested = r.requested
    BY <2>1 DEF PageRecord
  <2> QED
    BY <2>2 DEF p, r
<1> QED
  BY <1>1, <1>2, <1>3

LEMMA AddressesAre ==
  ASSUME NEW crawl, AuditedCrawl(crawl)
  PROVE  /\ AddressesOf(crawl) \subseteq Nat \ {0} /\ IsFiniteSet(AddressesOf(crawl))
         /\ \A i \in DOMAIN PageRecords(crawl) :
              {PageRecords(crawl)[i].at, PageRecords(crawl)[i].requested} \subseteq AddressesOf(crawl)
<1> DEFINE P == PageRecords(crawl)
           R == Range(crawl.replies)
           n == Len(crawl.replies)
           f == [i \in 1..n |-> crawl.replies[i].at]
           g == [i \in 1..n |-> crawl.replies[i].requested]
           ats == {r.at : r \in R}
           asked == {r.requested : r \in R}
<1>1. /\ DOMAIN P = 1..Len(crawl.replies) /\ Len(crawl.replies) \in Nat
      /\ \A i \in DOMAIN P : crawl.replies[i] \in R /\ P[i] = PageRecord(crawl.replies[i])
      /\ \A r \in R : \E i \in DOMAIN P : r = crawl.replies[i]
  BY RecordsAre
<1>2. \A r \in R : {r.at, r.requested} \subseteq Nat \ {0}
  BY DEF AuditedCrawl
<1>3. \A i \in DOMAIN P : P[i].at = crawl.replies[i].at /\ P[i].requested = crawl.replies[i].requested
  BY RecordsAre
<1>4. AddressesOf(crawl) = ats \cup asked
  BY DEF AddressesOf
<1>5. IsFiniteSet(1..n)
  <2>1. n \in Nat
    BY <1>1
  <2> HIDE DEF n
  <2> QED
    BY <2>1, FS_Interval
<1>6. f \in Surjection(1..n, ats) /\ g \in Surjection(1..n, asked)
  <2>1. \A r : r \in R <=> \E i \in 1..n : r = crawl.replies[i]
    BY <1>1
  <2> HIDE DEF R, P, n
  <2>2. \A u : (u \in ats <=> \E r \in R : u = r.at) /\ (u \in asked <=> \E r \in R : u = r.requested)
    OBVIOUS
  <2>3. /\ f = [i \in 1..n |-> f[i]] /\ g = [i \in 1..n |-> g[i]]
        /\ \A i \in 1..n : f[i] = crawl.replies[i].at /\ g[i] = crawl.replies[i].requested
    OBVIOUS
  <2> HIDE DEF f, g, ats, asked
  <2>4. \A i \in 1..n : f[i] \in ats /\ g[i] \in asked
    BY <2>1, <2>2, <2>3
  <2>5. (\A u \in ats : \E i \in 1..n : f[i] = u) /\ (\A u \in asked : \E i \in 1..n : g[i] = u)
    BY <2>1, <2>2, <2>3
  <2> QED
    BY <2>3, <2>4, <2>5 DEF Surjection
<1>7. IsFiniteSet(ats) /\ IsFiniteSet(asked)
  <2> HIDE DEF f, g, ats, asked, n
  <2> QED
    BY <1>5, <1>6, FS_Surjection
<1>8. IsFiniteSet(ats \cup asked)
  BY <1>7, FS_Union
<1> QED
  BY <1>1, <1>2, <1>3, <1>4, <1>8

\* Who is told what, where no finding is cut off.
ToldAsRuled(crawl, P, told, u) ==
  /\ "noindex-blocked-by-robots" \in told => u \in At(P, {i \in DOMAIN P : "noindex" \in P[i].directives})
  /\ "server-errors" \in told <=> u \in At(P, {i \in DOMAIN P : Overloaded(P[i].status)})
  /\ "missing-linked-pages" \in told <=> u \in At(P, {i \in DOMAIN P : P[i].status \in {404, 410}})
  /\ "soft-404" \in told <=> u \in At(P, {i \in DOMAIN P : P[i].soft})
  /\ "internal-redirects" \in told <=> u \in {P[i].requested : i \in {j \in DOMAIN P : P[j].requested # P[j].at}}
  /\ "canonical-broken-target" \in told <=> u \in At(P, BrokenTargets(P))
  /\ "canonical-cycle" \in told <=> u \in Reported("canonical-cycle")
  /\ "canonical-chain" \in told <=> u \in Reported("canonical-chain")
  /\ "pagination-canonical-page-one" \in told <=> u \in At(P, OnFirst(crawl, P))
  /\ "links-to-noncanonical" \in told <=> u \in (UNION {P[i].links : i \in DOMAIN P}) \cap At(P, NonCanonical(P))
  /\ "facet-empty-200" \in told <=> u \in At(P, {i \in Facets(crawl, P) : Succeeds(P[i].status) /\ P[i].soft})
  /\ "head-title-missing" \in told <=> u \in At(P, {i \in Indexable(P) : P[i].title = ""})
  /\ "head-title-generic" \in told <=> u \in At(P, {i \in Indexable(P) : P[i].title \in GENERIC_TITLES})
  /\ "head-title-duplicated" \in told <=> u \in DuplicateUrls(P, Indexable(P), "title")
  /\ "meta-description-missing" \in told <=> u \in At(P, {i \in Indexable(P) : P[i].description = ""})
  /\ "meta-description-duplicated" \in told <=> u \in DuplicateUrls(P, Indexable(P), "description")
  /\ "viewport-missing" \in told <=> u \in At(P, {i \in Html(P) : P[i].viewport = ""})
  /\ "charset-missing" \in told <=> u \in At(P, {i \in Html(P) : P[i].charset = ""})
  /\ "canonical-missing" \in told <=> u \in At(P, {i \in Indexable(P) : P[i].canonical = NoPage})
  /\ "deprecated-head-metadata" \in told <=> u \in At(P, {i \in Html(P) : P[i].deprecated})
  /\ "social-metadata-incomplete" \in told <=>
       u \in At(P, {i \in Indexable(P) : P[i].title # "" /\ ~({"og:title", "og:description"} \subseteq P[i].openGraph)})

LEMMA AuditTells ==
  ASSUME NEW crawl, Judging(crawl), NEW registry, NEW u
  PROVE  ToldAsRuled(crawl, PageRecords(crawl), Told(AuditReportOf(crawl, registry), u), u)
<1> DEFINE P == PageRecords(crawl)
           A == AddressesOf(crawl)
           s == RaisedBy(crawl, P)
           R == Range(crawl.replies)
           report == AuditReportOf(crawl, registry)
           Judged21 == {"noindex-blocked-by-robots", "server-errors", "missing-linked-pages", "soft-404",
                         "internal-redirects", "canonical-broken-target", "canonical-cycle", "canonical-chain",
                         "pagination-canonical-page-one", "links-to-noncanonical", "facet-empty-200",
                         "head-title-missing", "head-title-generic", "head-title-duplicated",
                         "meta-description-missing", "meta-description-duplicated", "viewport-missing",
                         "charset-missing", "canonical-missing", "deprecated-head-metadata",
                         "social-metadata-incomplete"}
<1> DEFINE A0 == At(P, {i \in DOMAIN P : "noindex" \in P[i].directives})
           A1 == At(P, {i \in DOMAIN P : Overloaded(P[i].status)})
           A2 == At(P, {i \in DOMAIN P : P[i].status \in {404, 410}})
           A3 == At(P, {i \in DOMAIN P : P[i].soft})
           A4 == {P[i].requested : i \in {j \in DOMAIN P : P[j].requested # P[j].at}}
           A5 == At(P, BrokenTargets(P))
           A6 == Reported("canonical-cycle")
           A7 == Reported("canonical-chain")
           A8 == At(P, OnFirst(crawl, P))
           A9 == (UNION {P[i].links : i \in DOMAIN P}) \cap At(P, NonCanonical(P))
           A10 == At(P, {i \in Facets(crawl, P) : Succeeds(P[i].status) /\ P[i].soft})
           A11 == At(P, {i \in Indexable(P) : P[i].title = ""})
           A12 == At(P, {i \in Indexable(P) : P[i].title \in GENERIC_TITLES})
           A13 == DuplicateUrls(P, Indexable(P), "title")
           A14 == At(P, {i \in Indexable(P) : P[i].description = ""})
           A15 == DuplicateUrls(P, Indexable(P), "description")
           A16 == At(P, {i \in Html(P) : P[i].viewport = ""})
           A17 == At(P, {i \in Html(P) : P[i].charset = ""})
           A18 == At(P, {i \in Indexable(P) : P[i].canonical = NoPage})
           A19 == At(P, {i \in Html(P) : P[i].deprecated})
           A20 == At(P, {i \in Indexable(P) : P[i].title # "" /\ ~({"og:title", "og:description"} \subseteq P[i].openGraph)})
<1>1. /\ Raising(s)
      /\ \A v : Tells(s, "noindex-blocked-by-robots", v) => v \in A0
      /\ \A v : Tells(s, "server-errors", v) <=> v \in A1
      /\ \A v : Tells(s, "missing-linked-pages", v) <=> v \in A2
      /\ \A v : Tells(s, "soft-404", v) <=> v \in A3
      /\ \A v : Tells(s, "internal-redirects", v) <=> v \in A4
      /\ \A v : Tells(s, "canonical-broken-target", v) <=> v \in A5
      /\ \A v : Tells(s, "canonical-cycle", v) <=> v \in A6
      /\ \A v : Tells(s, "canonical-chain", v) <=> v \in A7
      /\ \A v : Tells(s, "pagination-canonical-page-one", v) <=> v \in A8
      /\ \A v : Tells(s, "links-to-noncanonical", v) <=> v \in A9
      /\ \A v : Tells(s, "facet-empty-200", v) <=> v \in A10
      /\ \A v : Tells(s, "head-title-missing", v) <=> v \in A11
      /\ \A v : Tells(s, "head-title-generic", v) <=> v \in A12
      /\ \A v : Tells(s, "head-title-duplicated", v) <=> v \in A13
      /\ \A v : Tells(s, "meta-description-missing", v) <=> v \in A14
      /\ \A v : Tells(s, "meta-description-duplicated", v) <=> v \in A15
      /\ \A v : Tells(s, "viewport-missing", v) <=> v \in A16
      /\ \A v : Tells(s, "charset-missing", v) <=> v \in A17
      /\ \A v : Tells(s, "canonical-missing", v) <=> v \in A18
      /\ \A v : Tells(s, "deprecated-head-metadata", v) <=> v \in A19
      /\ \A v : Tells(s, "social-metadata-incomplete", v) <=> v \in A20
  <2>1. IsSequence(crawl.robots) /\ \A r \in Range(crawl.robots) : IsSequence(r.unknown)
    BY DEF Judging, AuditedCrawl
  <2> HIDE DEF P
  <2>2. Raising(RaisedBy(crawl, P)) /\ TellsAsRuled(crawl, P)
    BY <2>1, RulesTell
  <2> QED
    BY <2>2 DEF TellsAsRuled
<1>2. /\ A \subseteq Nat /\ IsFiniteSet(A) /\ Cardinality(A) <= ShownUrls
      /\ \A i \in DOMAIN P : P[i].at \in A /\ P[i].requested \in A
  BY AddressesAre DEF Judging
<1>3. \A X \in SUBSET DOMAIN P : At(P, X) \subseteq A
  BY <1>2 DEF At
<1>4. /\ A0 \subseteq A
      /\ A1 \subseteq A
      /\ A2 \subseteq A
      /\ A3 \subseteq A
      /\ A4 \subseteq A
      /\ A5 \subseteq A
      /\ A6 \subseteq A
      /\ A7 \subseteq A
      /\ A8 \subseteq A
      /\ A9 \subseteq A
      /\ A10 \subseteq A
      /\ A11 \subseteq A
      /\ A12 \subseteq A
      /\ A13 \subseteq A
      /\ A14 \subseteq A
      /\ A15 \subseteq A
      /\ A16 \subseteq A
      /\ A17 \subseteq A
      /\ A18 \subseteq A
      /\ A19 \subseteq A
      /\ A20 \subseteq A
  <2> HIDE DEF P
  <2>1. Indexable(P) \subseteq DOMAIN P /\ Html(P) \subseteq DOMAIN P /\ Facets(crawl, P) \subseteq DOMAIN P
        /\ OnFirst(crawl, P) \subseteq DOMAIN P /\ NonCanonical(P) \subseteq DOMAIN P /\ BrokenTargets(P) \subseteq DOMAIN P
    BY DEF Indexable, Html, Facets, OnFirst, NonCanonical, BrokenTargets
  <2>2. \A f : DuplicateUrls(P, Indexable(P), f) \subseteq A
    BY <1>3, <2>1 DEF DuplicateUrls
  <2>3. A6 \subseteq A /\ A7 \subseteq A
    <3>1. Crawled = At(P, DOMAIN P)
      BY DEF Judging, Crawled, CanonicalOf, P
    <3>2. NonSelf(CanonicalOf) \subseteq Crawled
      BY DEF NonSelf, Crawled
    <3> QED
      BY <1>3, <3>1, <3>2 DEF Judging
  <2>4. A0 \subseteq A
    BY <1>3, <2>1
  <2>5. A1 \subseteq A
    BY <1>3, <2>1
  <2>6. A2 \subseteq A
    BY <1>3, <2>1
  <2>7. A3 \subseteq A
    BY <1>3, <2>1
  <2>8. A4 \subseteq A
    BY <1>2
  <2>9. A5 \subseteq A
    BY <1>3, <2>1
  <2>10. A8 \subseteq A
    BY <1>3, <2>1
  <2>11. A9 \subseteq A
    BY <1>3, <2>1
  <2>12. A10 \subseteq A
    BY <1>3, <2>1
  <2>13. A11 \subseteq A
    BY <1>3, <2>1
  <2>14. A12 \subseteq A
    BY <1>3, <2>1
  <2>15. A13 \subseteq A
    BY <2>2
  <2>16. A14 \subseteq A
    BY <1>3, <2>1
  <2>17. A15 \subseteq A
    BY <2>2
  <2>18. A16 \subseteq A
    BY <1>3, <2>1
  <2>19. A17 \subseteq A
    BY <1>3, <2>1
  <2>20. A18 \subseteq A
    BY <1>3, <2>1
  <2>21. A19 \subseteq A
    BY <1>3, <2>1
  <2>22. A20 \subseteq A
    BY <1>3, <2>1
  <2> QED
    BY <2>3, <2>4, <2>5, <2>6, <2>7, <2>8, <2>9, <2>10, <2>11, <2>12, <2>13, <2>14, <2>15, <2>16, <2>17, <2>18,
      <2>19, <2>20, <2>21, <2>22
<1> HIDE DEF A0, A1, A2, A3, A4, A5, A6, A7, A8, A9, A10, A11, A12, A13, A14, A15, A16, A17, A18, A19, A20, A, s
<1>5. \A r \in Judged21 : \A v : Tells(s, r, v) => v \in A
  BY <1>1, <1>4
<1>6. \A r \in Judged21 : r \in Told(report, u) <=> Tells(s, r, u)
  <2> TAKE r \in Judged21
  <2> DEFINE F == Sorted(Added(s, registry))
  <2>1. report.findings = F
    BY DEF AuditReportOf, s
  <2>2. r \in {F[k].id[1] : k \in {n \in DOMAIN F : u \in F[n].urls}} <=> Tells(s, r, u)
    BY <1>1, <1>2, <1>5, ToldIs
  <2> HIDE DEF F
  <2> QED
    BY <2>1, <2>2 DEF Told
<1> HIDE DEF report
<1>7. /\ "noindex-blocked-by-robots" \in Told(report, u) => u \in A0
      /\ "server-errors" \in Told(report, u) <=> u \in A1
      /\ "missing-linked-pages" \in Told(report, u) <=> u \in A2
      /\ "soft-404" \in Told(report, u) <=> u \in A3
      /\ "internal-redirects" \in Told(report, u) <=> u \in A4
      /\ "canonical-broken-target" \in Told(report, u) <=> u \in A5
      /\ "canonical-cycle" \in Told(report, u) <=> u \in A6
      /\ "canonical-chain" \in Told(report, u) <=> u \in A7
      /\ "pagination-canonical-page-one" \in Told(report, u) <=> u \in A8
      /\ "links-to-noncanonical" \in Told(report, u) <=> u \in A9
      /\ "facet-empty-200" \in Told(report, u) <=> u \in A10
      /\ "head-title-missing" \in Told(report, u) <=> u \in A11
      /\ "head-title-generic" \in Told(report, u) <=> u \in A12
      /\ "head-title-duplicated" \in Told(report, u) <=> u \in A13
      /\ "meta-description-missing" \in Told(report, u) <=> u \in A14
      /\ "meta-description-duplicated" \in Told(report, u) <=> u \in A15
      /\ "viewport-missing" \in Told(report, u) <=> u \in A16
      /\ "charset-missing" \in Told(report, u) <=> u \in A17
      /\ "canonical-missing" \in Told(report, u) <=> u \in A18
      /\ "deprecated-head-metadata" \in Told(report, u) <=> u \in A19
      /\ "social-metadata-incomplete" \in Told(report, u) <=> u \in A20
  BY <1>1, <1>6
<1> QED
  BY <1>7 DEF ToldAsRuled, report, A0, A1, A2, A3, A4, A5, A6, A7, A8, A9, A10, A11, A12, A13, A14, A15, A16,
    A17, A18, A19, A20

-----------------------------------------------------------------------------
(* The audit: what the report tells of a page is what its record says.      *)

\* A page that was reached twice is recorded alike.
LEMMA RecordsAgree ==
  ASSUME NEW crawl, AuditedCrawl(crawl), NEW i \in DOMAIN PageRecords(crawl), NEW j \in DOMAIN PageRecords(crawl),
         PageRecords(crawl)[i].at = PageRecords(crawl)[j].at
  PROVE  LET p == PageRecords(crawl)[i]
             q == PageRecords(crawl)[j]
         IN  /\ p.status = q.status /\ p.html = q.html /\ p.soft = q.soft /\ p.title = q.title
             /\ p.description = q.description /\ p.directives = q.directives /\ p.canonical = q.canonical
             /\ p.viewport = q.viewport /\ p.charset = q.charset /\ p.openGraph = q.openGraph
             /\ p.deprecated = q.deprecated
<1> DEFINE p == PageRecords(crawl)[i]
           q == PageRecords(crawl)[j]
           r == crawl.replies[i]
           s == crawl.replies[j]
<1>1. p = PageRecord(r) /\ q = PageRecord(s) /\ r \in Range(crawl.replies) /\ s \in Range(crawl.replies)
  BY RecordsAre
<1> HIDE DEF p, q, r, s
<1>2. p.at = r.at /\ q.at = s.at
  BY <1>1 DEF PageRecord
<1>3. p.at = q.at
  BY DEF p, q
<1>4. /\ r.status = s.status /\ r.type = s.type /\ r.charset = s.charset
      /\ r.header = s.header /\ r.markup = s.markup
  <2>1. r.at = s.at
    BY <1>2, <1>3
  <2>2. \A x, y \in Range(crawl.replies) : x.at = y.at =>
          x.status = y.status /\ x.type = y.type /\ x.charset = y.charset /\ x.header = y.header /\ x.markup = y.markup
    BY DEF AuditedCrawl
  <2> QED
    BY <1>1, <2>1, <2>2
<1> DEFINE m == IF r.type = "other" THEN NoMarkup ELSE r.markup
           n == IF s.type = "other" THEN NoMarkup ELSE s.markup
<1>5. m = n
  BY <1>4
<1>6. /\ p.status = r.status /\ p.html = (Succeeds(r.status) /\ r.type = "html")
      /\ p.soft = (Succeeds(r.status) /\ (m.gone \/ ~m.words))
      /\ p.title = m.title /\ p.description = FirstSaid(m.descriptions, "")
      /\ p.directives = Directives(r, m) /\ p.canonical = m.canonical
      /\ p.viewport = FirstSaid(m.viewports, "") /\ p.charset = FirstSaid(m.charsets, r.charset)
      /\ p.openGraph = m.openGraph /\ p.deprecated = m.deprecated
  <2> HIDE DEF m
  <2>1. p = [requested |-> r.requested, at |-> r.at, status |-> r.status,
             html |-> Succeeds(r.status) /\ r.type = "html",
             soft |-> Succeeds(r.status) /\ (m.gone \/ ~m.words),
             title |-> m.title,
             description |-> FirstSaid(m.descriptions, ""),
             viewport |-> FirstSaid(m.viewports, ""),
             charset |-> FirstSaid(m.charsets, r.charset),
             openGraph |-> m.openGraph, deprecated |-> m.deprecated,
             directives |-> Directives(r, m),
             canonical |-> m.canonical, links |-> m.links, assets |-> m.assets,
             images |-> m.images, legacy |-> m.legacy]
    BY <1>1 DEF PageRecord, m
  <2> QED
    BY <2>1
<1>7. /\ q.status = s.status /\ q.html = (Succeeds(s.status) /\ s.type = "html")
      /\ q.soft = (Succeeds(s.status) /\ (n.gone \/ ~n.words))
      /\ q.title = n.title /\ q.description = FirstSaid(n.descriptions, "")
      /\ q.directives = Directives(s, n) /\ q.canonical = n.canonical
      /\ q.viewport = FirstSaid(n.viewports, "") /\ q.charset = FirstSaid(n.charsets, s.charset)
      /\ q.openGraph = n.openGraph /\ q.deprecated = n.deprecated
  <2> HIDE DEF n
  <2>1. q = [requested |-> s.requested, at |-> s.at, status |-> s.status,
             html |-> Succeeds(s.status) /\ s.type = "html",
             soft |-> Succeeds(s.status) /\ (n.gone \/ ~n.words),
             title |-> n.title,
             description |-> FirstSaid(n.descriptions, ""),
             viewport |-> FirstSaid(n.viewports, ""),
             charset |-> FirstSaid(n.charsets, s.charset),
             openGraph |-> n.openGraph, deprecated |-> n.deprecated,
             directives |-> Directives(s, n),
             canonical |-> n.canonical, links |-> n.links, assets |-> n.assets,
             images |-> n.images, legacy |-> n.legacy]
    BY <1>1 DEF PageRecord, n
  <2> QED
    BY <2>1
<1> HIDE DEF m, n
<1>8. Directives(r, m) = Directives(s, n)
  BY <1>4, <1>5 DEF Directives
<1>9. p.status = q.status /\ p.title = q.title /\ p.description = q.description
  BY <1>4, <1>5, <1>6, <1>7
<1>10. p.html = q.html /\ p.soft = q.soft
  BY <1>4, <1>5, <1>6, <1>7
<1>11. p.directives = q.directives /\ p.canonical = q.canonical /\ p.viewport = q.viewport
  BY <1>5, <1>6, <1>7, <1>8
<1>12. p.charset = q.charset /\ p.openGraph = q.openGraph /\ p.deprecated = q.deprecated
  BY <1>4, <1>5, <1>6, <1>7
<1> QED
  BY <1>9, <1>10, <1>11, <1>12 DEF p, q

\* What walks along canonicals start from names another page as its canonical.
LEMMA WalksStartElsewhere ==
  ASSUME NEW crawl, Judging(crawl), NEW u \in NonSelf(CanonicalOf)
  PROVE  u \in At(PageRecords(crawl), NonCanonical(PageRecords(crawl)))
<1> DEFINE P == PageRecords(crawl)
           c == CHOOSE p \in Range(P) : p.at = u
<1>1. CanonicalOf = [v \in At(P, DOMAIN P) |-> (CHOOSE p \in Range(P) : p.at = v).canonical]
  BY DEF Judging, CanonicalOf
<1>2. u \in At(P, DOMAIN P) /\ CanonicalOf[u] \notin {NoPage, u}
  BY <1>1 DEF NonSelf
<1>3. CanonicalOf[u] = c.canonical
  <2> HIDE DEF P
  <2> QED
    BY <1>1, <1>2
<1>4. \E p \in Range(P) : p.at = u
  <2>1. PICK i \in DOMAIN P : P[i].at = u
    BY <1>2 DEF At
  <2>2. P[i] \in Range(P)
    BY <2>1 DEF Range
  <2> QED
    BY <2>1, <2>2
<1>5. c \in Range(P) /\ c.at = u
  BY <1>4
<1> HIDE DEF c
<1>6. PICK i \in DOMAIN P : c = P[i]
  BY <1>5 DEF Range
<1>7. i \in NonCanonical(P) /\ P[i].at = u
  BY <1>2, <1>3, <1>5, <1>6 DEF NonCanonical
<1> QED
  BY <1>7 DEF At

\* The address of a first page is not the address of a later one.
LEMMA FirstIsNotPaged ==
  ASSUME NEW a, NEW b, IsSequence(a.query), IsSequence(b.query), b = FirstPage(a)
  PROVE  ~Paged(b)
<1> DEFINE chosen == {i \in DOMAIN a.query : a.query[i][1] \notin PAGE}
           left == Kept(a.query, chosen)
           kept == {i \in DOMAIN b.query : b.query[i][2] # ""}
           said == Kept(b.query, kept)
<1>1. \A n \in DOMAIN left : left[n][1] \notin PAGE
  <2> TAKE n \in DOMAIN left
  <2>1. chosen \in SUBSET DOMAIN a.query /\ \A i \in chosen : a.query[i][1] \notin PAGE
    OBVIOUS
  <2> HIDE DEF chosen
  <2>2. PICK i \in chosen : left[n] = a.query[i]
    BY <2>1, KeptIsThere
  <2> QED
    BY <2>1, <2>2
<1>2. b.number = 0 /\ b.query = [i \in DOMAIN left |-> <<left[i][1], left[i][2], TRUE>>]
  BY DEF FirstPage
<1> HIDE DEF left
<1>3. \A i \in DOMAIN b.query : b.query[i][1] \notin PAGE
  <2> TAKE i \in DOMAIN b.query
  <2>1. i \in DOMAIN left
    BY <1>2
  <2>2. b.query[i] = <<left[i][1], left[i][2], TRUE>>
    BY <1>2, <2>1
  <2>3. b.query[i][1] = left[i][1]
    BY <2>2
  <2> QED
    BY <1>1, <2>1, <2>3
<1>4. \A n \in DOMAIN said : said[n][1] \notin PAGE
  <2> TAKE n \in DOMAIN said
  <2>1. kept \in SUBSET DOMAIN b.query
    OBVIOUS
  <2> HIDE DEF kept
  <2>2. PICK i \in kept : said[n] = b.query[i]
    BY <2>1, KeptIsThere
  <2> QED
    BY <1>3, <2>1, <2>2
<1> HIDE DEF said
<1>5. \A k \in Range(QueryKeys(b)) : k \notin PAGE
  <2>1. QueryKeys(b) = [i \in DOMAIN said |-> said[i][1]]
    BY DEF QueryKeys, said
  <2> QED
    BY <1>4, <2>1 DEF Range
<1>6. Range(QueryKeys(b)) \cap PAGE = {}
  BY <1>5
<1> QED
  BY <1>2, <1>6 DEF Paged

LEMMA FirstIsOther ==
  ASSUME NEW crawl, AuditedCrawl(crawl), NEW i \in OnFirst(crawl, PageRecords(crawl))
  PROVE  i \in NonCanonical(PageRecords(crawl))
<1> DEFINE P == PageRecords(crawl)
           u == P[i].at
           a == crawl.address[u]
<1>1. i \in DOMAIN P /\ Paged(a) /\ P[i].canonical # NoPage /\ crawl.address[P[i].canonical] = FirstPage(a)
  BY DEF OnFirst
<1>2. u = crawl.replies[i].at /\ crawl.replies[i] \in Range(crawl.replies)
  BY <1>1, RecordsAre
<1>3. IsSequence(a.query)
  BY <1>2 DEF AuditedCrawl
<1>4. P[i].canonical # u
  <2> SUFFICES ASSUME P[i].canonical = u PROVE FALSE
    OBVIOUS
  <2>1. a = FirstPage(a)
    BY <1>1
  <2> HIDE DEF a, P
  <2> QED
    BY <1>1, <1>3, <2>1, FirstIsNotPaged
<1> QED
  BY <1>1, <1>4 DEF NonCanonical

\* What is told of a page depends on how it was recorded.
Heads(p) == p.html /\ "noindex" \notin p.directives
ToldAsRecorded(P, p, told) ==
  /\ "noindex-blocked-by-robots" \in told => "noindex" \in p.directives
  /\ "server-errors" \in told <=> Overloaded(p.status)
  /\ "missing-linked-pages" \in told <=> p.status \in {404, 410}
  /\ "soft-404" \in told <=> p.soft
  /\ "canonical-broken-target" \in told => p.canonical \notin {NoPage, p.at}
  /\ "canonical-cycle" \in told => p.canonical \notin {NoPage, p.at}
  /\ "canonical-chain" \in told => p.canonical \notin {NoPage, p.at}
  /\ "pagination-canonical-page-one" \in told => p.canonical \notin {NoPage, p.at}
  /\ "links-to-noncanonical" \in told <=> p.canonical \notin {NoPage, p.at} /\ p.at \in UNION {P[i].links : i \in DOMAIN P}
  /\ "facet-empty-200" \in told => p.soft
  /\ "head-title-missing" \in told <=> Heads(p) /\ p.title = ""
  /\ "head-title-generic" \in told <=> Heads(p) /\ p.title \in GENERIC_TITLES
  /\ "head-title-duplicated" \in told => Heads(p) /\ p.title # ""
  /\ "meta-description-missing" \in told <=> Heads(p) /\ p.description = ""
  /\ "meta-description-duplicated" \in told => Heads(p) /\ p.description # ""
  /\ "viewport-missing" \in told <=> p.html /\ p.viewport = ""
  /\ "charset-missing" \in told <=> p.html /\ p.charset = ""
  /\ "canonical-missing" \in told <=> Heads(p) /\ p.canonical = NoPage
  /\ "deprecated-head-metadata" \in told <=> p.html /\ p.deprecated
  /\ "social-metadata-incomplete" \in told
        <=> Heads(p) /\ p.title # "" /\ ~({"og:title", "og:description"} \subseteq p.openGraph)

LEMMA RowTells ==
  ASSUME NEW crawl, Judging(crawl), NEW registry, NEW k \in DOMAIN PageRecords(crawl)
  PROVE  LET P == PageRecords(crawl)
         IN  ToldAsRecorded(P, P[k], Told(AuditReportOf(crawl, registry), P[k].at))
<1> DEFINE P == PageRecords(crawl)
           p == P[k]
           u == p.at
           told == Told(AuditReportOf(crawl, registry), u)
<1> DEFINE A0 == At(P, {i \in DOMAIN P : "noindex" \in P[i].directives})
           A1 == At(P, {i \in DOMAIN P : Overloaded(P[i].status)})
           A2 == At(P, {i \in DOMAIN P : P[i].status \in {404, 410}})
           A3 == At(P, {i \in DOMAIN P : P[i].soft})
           A4 == {P[i].requested : i \in {j \in DOMAIN P : P[j].requested # P[j].at}}
           A5 == At(P, BrokenTargets(P))
           A6 == Reported("canonical-cycle")
           A7 == Reported("canonical-chain")
           A8 == At(P, OnFirst(crawl, P))
           A9 == (UNION {P[i].links : i \in DOMAIN P}) \cap At(P, NonCanonical(P))
           A10 == At(P, {i \in Facets(crawl, P) : Succeeds(P[i].status) /\ P[i].soft})
           A11 == At(P, {i \in Indexable(P) : P[i].title = ""})
           A12 == At(P, {i \in Indexable(P) : P[i].title \in GENERIC_TITLES})
           A13 == DuplicateUrls(P, Indexable(P), "title")
           A14 == At(P, {i \in Indexable(P) : P[i].description = ""})
           A15 == DuplicateUrls(P, Indexable(P), "description")
           A16 == At(P, {i \in Html(P) : P[i].viewport = ""})
           A17 == At(P, {i \in Html(P) : P[i].charset = ""})
           A18 == At(P, {i \in Indexable(P) : P[i].canonical = NoPage})
           A19 == At(P, {i \in Html(P) : P[i].deprecated})
           A20 == At(P, {i \in Indexable(P) : P[i].title # "" /\ ~({"og:title", "og:description"} \subseteq P[i].openGraph)})
<1>1. /\ "noindex-blocked-by-robots" \in told => u \in A0
      /\ "server-errors" \in told <=> u \in A1
      /\ "missing-linked-pages" \in told <=> u \in A2
      /\ "soft-404" \in told <=> u \in A3
      /\ "internal-redirects" \in told <=> u \in A4
      /\ "canonical-broken-target" \in told <=> u \in A5
      /\ "canonical-cycle" \in told <=> u \in A6
      /\ "canonical-chain" \in told <=> u \in A7
      /\ "pagination-canonical-page-one" \in told <=> u \in A8
      /\ "links-to-noncanonical" \in told <=> u \in A9
      /\ "facet-empty-200" \in told <=> u \in A10
      /\ "head-title-missing" \in told <=> u \in A11
      /\ "head-title-generic" \in told <=> u \in A12
      /\ "head-title-duplicated" \in told <=> u \in A13
      /\ "meta-description-missing" \in told <=> u \in A14
      /\ "meta-description-duplicated" \in told <=> u \in A15
      /\ "viewport-missing" \in told <=> u \in A16
      /\ "charset-missing" \in told <=> u \in A17
      /\ "canonical-missing" \in told <=> u \in A18
      /\ "deprecated-head-metadata" \in told <=> u \in A19
      /\ "social-metadata-incomplete" \in told <=> u \in A20
  <2>1. ToldAsRuled(crawl, P, told, u)
    BY AuditTells
  <2> HIDE DEF told, u, p, P
  <2> QED
    BY <2>1 DEF ToldAsRuled
<1>2. AuditedCrawl(crawl)
  BY DEF Judging
<1>3. \A i \in DOMAIN P : P[i].at = u =>
        /\ P[i].status = p.status /\ P[i].html = p.html /\ P[i].soft = p.soft /\ P[i].title = p.title
        /\ P[i].description = p.description /\ P[i].directives = p.directives /\ P[i].canonical = p.canonical
        /\ P[i].viewport = p.viewport /\ P[i].charset = p.charset /\ P[i].openGraph = p.openGraph
        /\ P[i].deprecated = p.deprecated
  BY <1>2, RecordsAgree
<1>4. \A X : u \in At(P, X) <=> \E i \in X : P[i].at = u
  BY DEF At
<1>5. k \in DOMAIN P /\ P[k].at = u
  OBVIOUS
<1>6. u \in At(P, NonCanonical(P)) <=> p.canonical \notin {NoPage, u}
  <2>1. \A i : i \in NonCanonical(P) <=> i \in DOMAIN P /\ P[i].canonical \notin {NoPage, P[i].at}
    BY DEF NonCanonical
  <2>2. \A i \in DOMAIN P : P[i].at = u => P[i].canonical = p.canonical
    BY <1>3
  <2>3. P[k].canonical = p.canonical
    OBVIOUS
  <2> HIDE DEF P, p, u
  <2> QED
    BY <1>4, <1>5, <2>1, <2>2, <2>3
<1>7. \A i : (i \in Html(P) <=> i \in DOMAIN P /\ P[i].html) /\ (i \in Indexable(P) <=> i \in DOMAIN P /\ Heads(P[i]))
  BY DEF Indexable, Html, Heads
<1>8. NonSelf(CanonicalOf) \subseteq At(P, NonCanonical(P))
  BY WalksStartElsewhere
<1>9. OnFirst(crawl, P) \subseteq NonCanonical(P)
  BY <1>2, FirstIsOther
<1>10. \A i \in DOMAIN P : P[i].at = u => (Heads(P[i]) <=> Heads(p))
  BY <1>3 DEF Heads
<1>11. u \in A0 => "noindex" \in p.directives
  <2> DEFINE X == {i \in DOMAIN P : "noindex" \in P[i].directives}
  <2>1. u \in A0 <=> \E i \in X : P[i].at = u
    BY <1>4
  <2> HIDE DEF P, A0
  <2>2. \A i : i \in X <=> i \in DOMAIN P /\ "noindex" \in P[i].directives
    BY <1>7
  <2> HIDE DEF X, p, u
  <2>3. p = P[k]
    BY DEF p
  <2>4. \A i \in DOMAIN P : P[i].at = u => P[i].directives = p.directives
    BY <1>3
  <2> QED
    BY <1>5, <1>10, <2>1, <2>2, <2>3, <2>4
<1>12. u \in A1 <=> Overloaded(p.status)
  <2> DEFINE X == {i \in DOMAIN P : Overloaded(P[i].status)}
  <2>1. u \in A1 <=> \E i \in X : P[i].at = u
    BY <1>4
  <2> HIDE DEF P, A1
  <2>2. \A i : i \in X <=> i \in DOMAIN P /\ Overloaded(P[i].status)
    BY <1>7
  <2> HIDE DEF X, p, u
  <2>3. p = P[k]
    BY DEF p
  <2>4. \A i \in DOMAIN P : P[i].at = u => P[i].status = p.status
    BY <1>3
  <2> QED
    BY <1>5, <1>10, <2>1, <2>2, <2>3, <2>4
<1>13. u \in A2 <=> p.status \in {404, 410}
  <2> DEFINE X == {i \in DOMAIN P : P[i].status \in {404, 410}}
  <2>1. u \in A2 <=> \E i \in X : P[i].at = u
    BY <1>4
  <2> HIDE DEF P, A2
  <2>2. \A i : i \in X <=> i \in DOMAIN P /\ P[i].status \in {404, 410}
    BY <1>7
  <2> HIDE DEF X, p, u
  <2>3. p = P[k]
    BY DEF p
  <2>4. \A i \in DOMAIN P : P[i].at = u => P[i].status = p.status
    BY <1>3
  <2> QED
    BY <1>5, <1>10, <2>1, <2>2, <2>3, <2>4
<1>14. u \in A3 <=> p.soft
  <2> DEFINE X == {i \in DOMAIN P : P[i].soft}
  <2>1. u \in A3 <=> \E i \in X : P[i].at = u
    BY <1>4
  <2> HIDE DEF P, A3
  <2>2. \A i : i \in X <=> i \in DOMAIN P /\ P[i].soft
    BY <1>7
  <2> HIDE DEF X, p, u
  <2>3. p = P[k]
    BY DEF p
  <2>4. \A i \in DOMAIN P : P[i].at = u => P[i].soft = p.soft
    BY <1>3
  <2> QED
    BY <1>5, <1>10, <2>1, <2>2, <2>3, <2>4
<1>15. u \in A5 => p.canonical \notin {NoPage, u}
  BY <1>4, <1>6 DEF BrokenTargets
<1>16. u \in A6 => p.canonical \notin {NoPage, u}
  BY <1>6, <1>8 DEF Judging
<1>17. u \in A7 => p.canonical \notin {NoPage, u}
  BY <1>6, <1>8 DEF Judging
<1>18. u \in A8 => p.canonical \notin {NoPage, u}
  BY <1>4, <1>6, <1>9
<1>19. u \in A9 <=> p.canonical \notin {NoPage, u} /\ u \in UNION {P[i].links : i \in DOMAIN P}
  BY <1>6
<1>20. u \in A10 => p.soft
  BY <1>3, <1>4 DEF Facets
<1>21. u \in A11 <=> Heads(p) /\ p.title = ""
  <2> DEFINE X == {i \in Indexable(P) : P[i].title = ""}
  <2>1. u \in A11 <=> \E i \in X : P[i].at = u
    BY <1>4
  <2> HIDE DEF P, A11
  <2>2. \A i : i \in X <=> i \in DOMAIN P /\ Heads(P[i]) /\ P[i].title = ""
    BY <1>7
  <2> HIDE DEF X, p, u
  <2>3. p = P[k]
    BY DEF p
  <2>4. \A i \in DOMAIN P : P[i].at = u => P[i].title = p.title
    BY <1>3
  <2> QED
    BY <1>5, <1>10, <2>1, <2>2, <2>3, <2>4
<1>22. u \in A12 <=> Heads(p) /\ p.title \in GENERIC_TITLES
  <2> DEFINE X == {i \in Indexable(P) : P[i].title \in GENERIC_TITLES}
  <2>1. u \in A12 <=> \E i \in X : P[i].at = u
    BY <1>4
  <2> HIDE DEF P, A12
  <2>2. \A i : i \in X <=> i \in DOMAIN P /\ Heads(P[i]) /\ P[i].title \in GENERIC_TITLES
    BY <1>7
  <2> HIDE DEF X, p, u
  <2>3. p = P[k]
    BY DEF p
  <2>4. \A i \in DOMAIN P : P[i].at = u => P[i].title = p.title
    BY <1>3
  <2> QED
    BY <1>5, <1>10, <2>1, <2>2, <2>3, <2>4
<1>23. u \in A13 => Heads(p) /\ p.title # ""
  <2> DEFINE said == {i \in Indexable(P) : P[i]["title"] # ""}
             X == {i \in said : Cardinality({j \in said : P[j]["title"] = P[i]["title"]}) > 1}
  <2>1. A13 = At(P, X)
    BY DEF DuplicateUrls
  <2>2. \A i \in X : i \in Indexable(P) /\ P[i].title # ""
    OBVIOUS
  <2>3. \A i \in DOMAIN P : P[i].at = u => P[i].title = p.title
    BY <1>3
  <2> HIDE DEF P, p, u, X, A13
  <2> QED
    BY <1>4, <1>7, <1>10, <2>1, <2>2, <2>3
<1>24. u \in A14 <=> Heads(p) /\ p.description = ""
  <2> DEFINE X == {i \in Indexable(P) : P[i].description = ""}
  <2>1. u \in A14 <=> \E i \in X : P[i].at = u
    BY <1>4
  <2> HIDE DEF P, A14
  <2>2. \A i : i \in X <=> i \in DOMAIN P /\ Heads(P[i]) /\ P[i].description = ""
    BY <1>7
  <2> HIDE DEF X, p, u
  <2>3. p = P[k]
    BY DEF p
  <2>4. \A i \in DOMAIN P : P[i].at = u => P[i].description = p.description
    BY <1>3
  <2> QED
    BY <1>5, <1>10, <2>1, <2>2, <2>3, <2>4
<1>25. u \in A15 => Heads(p) /\ p.description # ""
  <2> DEFINE said == {i \in Indexable(P) : P[i]["description"] # ""}
             X == {i \in said : Cardinality({j \in said : P[j]["description"] = P[i]["description"]}) > 1}
  <2>1. A15 = At(P, X)
    BY DEF DuplicateUrls
  <2>2. \A i \in X : i \in Indexable(P) /\ P[i].description # ""
    OBVIOUS
  <2>3. \A i \in DOMAIN P : P[i].at = u => P[i].description = p.description
    BY <1>3
  <2> HIDE DEF P, p, u, X, A15
  <2> QED
    BY <1>4, <1>7, <1>10, <2>1, <2>2, <2>3
<1>26. u \in A16 <=> p.html /\ p.viewport = ""
  <2> DEFINE X == {i \in Html(P) : P[i].viewport = ""}
  <2>1. u \in A16 <=> \E i \in X : P[i].at = u
    BY <1>4
  <2> HIDE DEF P, A16
  <2>2. \A i : i \in X <=> i \in DOMAIN P /\ P[i].html /\ P[i].viewport = ""
    BY <1>7
  <2> HIDE DEF X, p, u
  <2>3. p = P[k]
    BY DEF p
  <2>4. \A i \in DOMAIN P : P[i].at = u => P[i].viewport = p.viewport /\ P[i].html = p.html
    BY <1>3
  <2> QED
    BY <1>5, <1>10, <2>1, <2>2, <2>3, <2>4
<1>27. u \in A17 <=> p.html /\ p.charset = ""
  <2> DEFINE X == {i \in Html(P) : P[i].charset = ""}
  <2>1. u \in A17 <=> \E i \in X : P[i].at = u
    BY <1>4
  <2> HIDE DEF P, A17
  <2>2. \A i : i \in X <=> i \in DOMAIN P /\ P[i].html /\ P[i].charset = ""
    BY <1>7
  <2> HIDE DEF X, p, u
  <2>3. p = P[k]
    BY DEF p
  <2>4. \A i \in DOMAIN P : P[i].at = u => P[i].charset = p.charset /\ P[i].html = p.html
    BY <1>3
  <2> QED
    BY <1>5, <1>10, <2>1, <2>2, <2>3, <2>4
<1>28. u \in A18 <=> Heads(p) /\ p.canonical = NoPage
  <2> DEFINE X == {i \in Indexable(P) : P[i].canonical = NoPage}
  <2>1. u \in A18 <=> \E i \in X : P[i].at = u
    BY <1>4
  <2> HIDE DEF P, A18
  <2>2. \A i : i \in X <=> i \in DOMAIN P /\ Heads(P[i]) /\ P[i].canonical = NoPage
    BY <1>7
  <2> HIDE DEF X, p, u
  <2>3. p = P[k]
    BY DEF p
  <2>4. \A i \in DOMAIN P : P[i].at = u => P[i].canonical = p.canonical
    BY <1>3
  <2> QED
    BY <1>5, <1>10, <2>1, <2>2, <2>3, <2>4
<1>29. u \in A19 <=> p.html /\ p.deprecated
  <2> DEFINE X == {i \in Html(P) : P[i].deprecated}
  <2>1. u \in A19 <=> \E i \in X : P[i].at = u
    BY <1>4
  <2> HIDE DEF P, A19
  <2>2. \A i : i \in X <=> i \in DOMAIN P /\ P[i].html /\ P[i].deprecated
    BY <1>7
  <2> HIDE DEF X, p, u
  <2>3. p = P[k]
    BY DEF p
  <2>4. \A i \in DOMAIN P : P[i].at = u => P[i].deprecated = p.deprecated /\ P[i].html = p.html
    BY <1>3
  <2> QED
    BY <1>5, <1>10, <2>1, <2>2, <2>3, <2>4
<1>30. u \in A20 <=> Heads(p) /\ p.title # "" /\ ~({"og:title", "og:description"} \subseteq p.openGraph)
  <2> DEFINE X == {i \in Indexable(P) : P[i].title # "" /\ ~({"og:title", "og:description"} \subseteq P[i].openGraph)}
  <2>1. u \in A20 <=> \E i \in X : P[i].at = u
    BY <1>4
  <2> HIDE DEF P, A20
  <2>2. \A i : i \in X <=> i \in DOMAIN P
        /\ Heads(P[i]) /\ P[i].title # "" /\ ~({"og:title", "og:description"} \subseteq P[i].openGraph)
    BY <1>7
  <2> HIDE DEF X, p, u
  <2>3. p = P[k]
    BY DEF p
  <2>4. \A i \in DOMAIN P : P[i].at = u => P[i].title = p.title /\ P[i].openGraph = p.openGraph
    BY <1>3
  <2> QED
    BY <1>5, <1>10, <2>1, <2>2, <2>3, <2>4
<1> HIDE DEF told, P, p, u, A0, A1, A2, A3, A4, A5, A6, A7, A8, A9, A10, A11, A12, A13, A14, A15, A16, A17, A18,
  A19, A20
<1>31. /\ "noindex-blocked-by-robots" \in told => "noindex" \in p.directives
       /\ "server-errors" \in told <=> Overloaded(p.status)
       /\ "missing-linked-pages" \in told <=> p.status \in {404, 410}
       /\ "soft-404" \in told <=> p.soft
       /\ "canonical-broken-target" \in told => p.canonical \notin {NoPage, u}
  BY <1>1, <1>11, <1>12, <1>13, <1>14, <1>15
<1>32. /\ "canonical-cycle" \in told => p.canonical \notin {NoPage, u}
       /\ "canonical-chain" \in told => p.canonical \notin {NoPage, u}
       /\ "pagination-canonical-page-one" \in told => p.canonical \notin {NoPage, u}
       /\ "links-to-noncanonical" \in told <=> p.canonical \notin {NoPage, u} /\ u \in UNION {P[i].links : i \in DOMAIN P}
       /\ "facet-empty-200" \in told => p.soft
  BY <1>1, <1>16, <1>17, <1>18, <1>19, <1>20
<1>33. /\ "head-title-missing" \in told <=> Heads(p) /\ p.title = ""
       /\ "head-title-generic" \in told <=> Heads(p) /\ p.title \in GENERIC_TITLES
       /\ "head-title-duplicated" \in told => Heads(p) /\ p.title # ""
       /\ "meta-description-missing" \in told <=> Heads(p) /\ p.description = ""
       /\ "meta-description-duplicated" \in told => Heads(p) /\ p.description # ""
  BY <1>1, <1>21, <1>22, <1>23, <1>24, <1>25
<1>34. /\ "viewport-missing" \in told <=> p.html /\ p.viewport = ""
       /\ "charset-missing" \in told <=> p.html /\ p.charset = ""
       /\ "canonical-missing" \in told <=> Heads(p) /\ p.canonical = NoPage
       /\ "deprecated-head-metadata" \in told <=> p.html /\ p.deprecated
       /\ "social-metadata-incomplete" \in told
             <=> Heads(p) /\ p.title # "" /\ ~({"og:title", "og:description"} \subseteq p.openGraph)
  BY <1>1, <1>26, <1>27, <1>28, <1>29, <1>30
<1>35. ToldAsRecorded(P, p, told)
  BY <1>31, <1>32, <1>33, <1>34 DEF ToldAsRecorded, u
<1> QED
  BY <1>35 DEF told, P, p, u

-----------------------------------------------------------------------------
(* The audit: rules do not contradict each other about a page.              *)

\* What a record says of its page: one that has a head or looks missing has succeeded.
LEMMA RecordsSucceed ==
  ASSUME NEW crawl, AuditedCrawl(crawl), NEW k \in DOMAIN PageRecords(crawl)
  PROVE  LET p == PageRecords(crawl)[k]
         IN  p.html \/ p.soft => ~Overloaded(p.status) /\ p.status \notin {404, 410}
<1> DEFINE p == PageRecords(crawl)[k]
           r == crawl.replies[k]
           m == IF r.type = "other" THEN NoMarkup ELSE r.markup
<1>1. p = PageRecord(r) /\ r.status \in Nat
  BY RecordsAre DEF AuditedCrawl
<1> HIDE DEF p, r
<1>2. p.status = r.status /\ (p.html => Succeeds(r.status)) /\ (p.soft => Succeeds(r.status))
  BY <1>1 DEF PageRecord
<1>3. Succeeds(p.status) => ~Overloaded(p.status) /\ p.status \notin {404, 410}
  BY <1>1, <1>2 DEF Succeeds, Overloaded
<1> QED
  BY <1>2, <1>3 DEF p

\* The rules agree about every page.
LEMMA AuditRulesAgree ==
  ASSUME NEW crawl, Judging(crawl), NEW registry
  PROVE  RulesAgree(crawl, AuditReportOf(crawl, registry))
<1> DEFINE P == PageRecords(crawl)
           report == AuditReportOf(crawl, registry)
<1>1. AuditedCrawl(crawl)
  BY DEF Judging
<1> SUFFICES ASSUME NEW u \in Crawled
             PROVE  LET told == Told(report, u)
                    IN  /\ told \cap {"server-errors", "missing-linked-pages"} # {}
                            
                                   => told \cap (Indexed \cup {"soft-404", "facet-empty-200", "viewport-missing", "charset-missing"}) = {}
                        /\ "noindex-blocked-by-robots" \in told => told \cap Indexed = {}
                        /\ "head-title-missing" \in told
                            
                                   => told \cap {"head-title-generic", "head-title-duplicated", "social-metadata-incomplete"} = {}
                        /\ "meta-description-missing" \in told => "meta-description-duplicated" \notin told
                        /\ "canonical-missing" \in told => told \cap (Walked \cup {"links-to-noncanonical"}) = {}
                        /\ "facet-empty-200" \in told => "soft-404" \in told
                        /\ told \cap Walked # {} /\ (\E r \in Range(crawl.replies) : r.type # "other" /\ u \in r.markup.links)
                             => "links-to-noncanonical" \in told
  BY DEF RulesAgree
<1> DEFINE told == Told(report, u)
<1>2. PICK k \in DOMAIN P : P[k].at = u
  <2>1. Crawled = At(P, DOMAIN P)
    BY DEF Judging, Crawled, CanonicalOf
  <2> QED
    BY <2>1 DEF At
<1> DEFINE p == P[k]
<1>3. ToldAsRecorded(P, p, told) /\ p.at = u
  BY <1>2, RowTells
<1>4. p.html \/ p.soft => ~Overloaded(p.status) /\ p.status \notin {404, 410}
  BY <1>1, <1>2, RecordsSucceed
<1>5. (\E r \in Range(crawl.replies) : r.type # "other" /\ u \in r.markup.links) => u \in UNION {P[i].links : i \in DOMAIN P}
  <2> SUFFICES ASSUME NEW r \in Range(crawl.replies), r.type # "other", u \in r.markup.links
               PROVE  u \in UNION {P[i].links : i \in DOMAIN P}
    OBVIOUS
  <2>1. PICK i \in DOMAIN P : r = crawl.replies[i]
    BY <1>1, RecordsAre
  <2>2. P[i] = PageRecord(r)
    BY <1>1, <2>1, RecordsAre
  <2> DEFINE q == P[i]
  <2> HIDE DEF q, P
  <2>3. q = PageRecord(r)
    BY <2>2 DEF q
  <2>4. q.links = r.markup.links
    BY <2>3 DEF PageRecord
  <2> QED
    BY <2>1, <2>4 DEF q
<1> HIDE DEF told, p, P
<1> DEFINE heads == Heads(p)
           tells(x, holds) == x \in told => holds
<1>6. /\ tells("head-title-missing", heads /\ p.title = "") /\ tells("head-title-generic", heads /\ p.title \in GENERIC_TITLES)
      /\ tells("head-title-duplicated", heads /\ p.title # "") /\ tells("meta-description-missing", heads /\ p.description = "")
      /\ tells("meta-description-duplicated", heads /\ p.description # "")
      /\ tells("canonical-missing", heads /\ p.canonical = NoPage) /\ tells("social-metadata-incomplete", heads /\ p.title # "")
  BY <1>3 DEF ToldAsRecorded
<1>7. /\ tells("canonical-broken-target", p.canonical \notin {NoPage, u})
      /\ tells("canonical-cycle", p.canonical \notin {NoPage, u})
      /\ tells("canonical-chain", p.canonical \notin {NoPage, u})
      /\ tells("pagination-canonical-page-one", p.canonical \notin {NoPage, u})
      /\ tells("links-to-noncanonical", p.canonical \notin {NoPage, u})
      /\ p.canonical \notin {NoPage, u} /\ u \in UNION {P[i].links : i \in DOMAIN P} => "links-to-noncanonical" \in told
  BY <1>3 DEF ToldAsRecorded
<1>15. /\ tells("noindex-blocked-by-robots", "noindex" \in p.directives)
       /\ tells("viewport-missing", p.html) /\ tells("charset-missing", p.html)
       /\ tells("soft-404", p.soft) /\ tells("facet-empty-200", p.soft)
       /\ p.soft => "soft-404" \in told
  BY <1>3 DEF ToldAsRecorded
<1>16. heads => p.html /\ "noindex" \notin p.directives
  BY DEF Heads
<1> HIDE DEF heads
<1>8. told \cap {"server-errors", "missing-linked-pages"} # {}
        => told \cap (Indexed \cup {"soft-404", "facet-empty-200", "viewport-missing", "charset-missing"}) = {}
  <2> SUFFICES ASSUME "server-errors" \in told \/ "missing-linked-pages" \in told,
                      NEW x \in Indexed \cup {"soft-404", "facet-empty-200", "viewport-missing", "charset-missing"}, x \in told
               PROVE  FALSE
    OBVIOUS
  <2>1. ~(p.html \/ p.soft)
    <3>1. /\ "server-errors" \in told <=> Overloaded(p.status)
          /\ "missing-linked-pages" \in told <=> p.status \in {404, 410}
      BY <1>3 DEF ToldAsRecorded
    <3> QED
      BY <1>4, <3>1
  <2>2. x \in Indexed => p.html
    BY <1>6, <1>16 DEF Indexed
  <2>3. x \in {"soft-404", "facet-empty-200", "viewport-missing", "charset-missing"} => p.soft \/ p.html
    <3> DEFINE shown == p.soft \/ p.html
    <3>1. ("soft-404" \in told => shown) /\ ("facet-empty-200" \in told => shown)
      BY <1>15
    <3>2. ("viewport-missing" \in told => shown) /\ ("charset-missing" \in told => shown)
      BY <1>15
    <3> HIDE DEF shown
    <3>3. x \in {"soft-404", "facet-empty-200", "viewport-missing", "charset-missing"} => shown
      BY <3>1, <3>2
    <3> QED
      BY <3>3 DEF shown
  <2> QED
    BY <2>1, <2>2, <2>3
<1>9. "noindex-blocked-by-robots" \in told => told \cap Indexed = {}
  BY <1>6, <1>15, <1>16 DEF Indexed
<1>10. "head-title-missing" \in told
         => told \cap {"head-title-generic", "head-title-duplicated", "social-metadata-incomplete"} = {}
  BY <1>6 DEF GENERIC_TITLES
<1>11. "meta-description-missing" \in told => "meta-description-duplicated" \notin told
  BY <1>6
<1>12. "canonical-missing" \in told => told \cap (Walked \cup {"links-to-noncanonical"}) = {}
  <2>1. "canonical-missing" \in told => p.canonical = NoPage
    BY <1>6
  <2>2. \A x \in Walked \cup {"links-to-noncanonical"} : x \in told => p.canonical # NoPage
    BY <1>7 DEF Walked
  <2> QED
    BY <2>1, <2>2
<1>13. "facet-empty-200" \in told => "soft-404" \in told
  <2> DEFINE soft == p.soft
  <2>1. ("facet-empty-200" \in told => soft) /\ (soft => "soft-404" \in told)
    BY <1>15
  <2> HIDE DEF soft
  <2> QED
    BY <2>1
<1>14. told \cap Walked # {} /\ (\E r \in Range(crawl.replies) : r.type # "other" /\ u \in r.markup.links)
         => "links-to-noncanonical" \in told
  BY <1>5, <1>7 DEF Walked
<1> QED
  BY <1>8, <1>9, <1>10, <1>11, <1>12, <1>13, <1>14 DEF told

-----------------------------------------------------------------------------
(* The audit: what a record says is what the reply said.                    *)

\* What a reply is recorded as, in terms of what it says.
RecordedAs(p, r) ==
  LET m == r.markup
  IN  /\ p.status = r.status
      /\ p.html <=> Succeeds(r.status) /\ r.type = "html"
      /\ p.soft <=> Succeeds(r.status) /\ (r.type = "other" \/ m.gone \/ ~m.words)
      /\ r.type = "html" =>
           /\ p.title = m.title /\ p.description = FirstSaid(m.descriptions, "")
           /\ p.directives = m.directives \cup r.header /\ p.canonical = m.canonical
           /\ p.viewport = FirstSaid(m.viewports, "") /\ p.charset = FirstSaid(m.charsets, r.charset)
           /\ p.openGraph = m.openGraph /\ p.deprecated = m.deprecated

LEMMA RecordIs ==
  ASSUME NEW crawl, AuditedCrawl(crawl), NEW k \in DOMAIN PageRecords(crawl)
  PROVE  RecordedAs(PageRecords(crawl)[k], crawl.replies[k])
<1> DEFINE p == PageRecords(crawl)[k]
           r == crawl.replies[k]
           m == IF r.type = "other" THEN NoMarkup ELSE r.markup
           soft == Succeeds(r.status) /\ (m.gone \/ ~m.words)
           html == Succeeds(r.status) /\ r.type = "html"
<1>1. p = PageRecord(r)
  BY RecordsAre
<1>2. p = [requested |-> r.requested, at |-> r.at, status |-> r.status, html |-> html, soft |-> soft,
           title |-> m.title, description |-> FirstSaid(m.descriptions, ""),
           viewport |-> FirstSaid(m.viewports, ""), charset |-> FirstSaid(m.charsets, r.charset),
           openGraph |-> m.openGraph, deprecated |-> m.deprecated, directives |-> Directives(r, m),
           canonical |-> m.canonical, links |-> m.links, assets |-> m.assets,
           images |-> m.images, legacy |-> m.legacy]
  <2> HIDE DEF p, r
  <2> QED
    BY <1>1 DEF PageRecord
<1> HIDE DEF p, r, m, soft, html
<1>3. /\ p.status = r.status /\ p.html = html /\ p.soft = soft
      /\ p.title = m.title /\ p.description = FirstSaid(m.descriptions, "")
      /\ p.directives = Directives(r, m) /\ p.canonical = m.canonical
      /\ p.viewport = FirstSaid(m.viewports, "") /\ p.charset = FirstSaid(m.charsets, r.charset)
      /\ p.openGraph = m.openGraph /\ p.deprecated = m.deprecated
  BY <1>2
<1>4. soft <=> Succeeds(r.status) /\ (r.type = "other" \/ r.markup.gone \/ ~r.markup.words)
  <2>1. CASE r.type = "other"
    <3>1. m = NoMarkup
      BY <2>1 DEF m
    <3>2. ~m.words
      BY <3>1 DEF NoMarkup
    <3> QED
      BY <2>1, <3>2 DEF soft
  <2>2. CASE r.type # "other"
    BY <2>2 DEF m, soft
  <2> QED
    BY <2>1, <2>2
<1>5. r.type = "html" => m = r.markup
  BY DEF m
<1>6. p.html <=> Succeeds(r.status) /\ r.type = "html"
  BY <1>3 DEF html
<1>7. p.soft <=> Succeeds(r.status) /\ (r.type = "other" \/ r.markup.gone \/ ~r.markup.words)
  BY <1>3, <1>4
<1>8. r.type = "html" =>
        /\ p.title = r.markup.title /\ p.description = FirstSaid(r.markup.descriptions, "")
        /\ p.directives = Directives(r, r.markup) /\ p.canonical = r.markup.canonical
        /\ p.viewport = FirstSaid(r.markup.viewports, "") /\ p.charset = FirstSaid(r.markup.charsets, r.charset)
        /\ p.openGraph = r.markup.openGraph /\ p.deprecated = r.markup.deprecated
  BY <1>3, <1>5
<1>9. Directives(r, r.markup) = r.markup.directives \cup r.header
  BY DEF Directives
<1> QED
  BY <1>3, <1>6, <1>7, <1>8, <1>9 DEF RecordedAs, p, r

\* The first tag that says something says nothing exactly when none does.
LEMMA FirstSaidIs ==
  ASSUME NEW texts, IsSequence(texts), NEW otherwise
  PROVE  FirstSaid(texts, otherwise) # "" <=> (\E t \in Range(texts) : t # "") \/ otherwise # ""
<1> DEFINE said == {k \in DOMAIN texts : texts[k] # ""}
<1>1. DOMAIN texts = 1..Len(texts)
  BY ListIsSequence
<1>2. said = {} <=> ~\E t \in Range(texts) : t # ""
  BY DEF Range
<1>3. FirstSaid(texts, otherwise) = IF said = {} THEN otherwise ELSE texts[Min(said)]
  BY DEF FirstSaid
<1>4. said # {} => Min(said) \in said
  <2> SUFFICES ASSUME said # {} PROVE Min(said) \in said
    OBVIOUS
  <2>1. said \in SUBSET Nat
    <3>1. \A k \in said : k \in DOMAIN texts
      OBVIOUS
    <3> HIDE DEF said
    <3>2. \A k \in DOMAIN texts : k \in Nat
      BY <1>1, ListIsSequence
    <3> QED
      BY <3>1, <3>2
  <2> HIDE DEF said
  <2>2. \E n \in said : \A m \in said : n <= m
    BY <2>1, SmallestOf
  <2> QED
    BY <2>2 DEF Min
<1>5. \A k \in said : texts[k] # ""
  OBVIOUS
<1> HIDE DEF said
<1> QED
  BY <1>2, <1>3, <1>4, <1>5

LEMMA TwoOrMore ==
  ASSUME NEW S, IsFiniteSet(S), NEW k \in S
  PROVE  Cardinality(S) > 1 <=> \E j \in S : j # k
<1>1. IsFiniteSet(S \ {k}) /\ Cardinality(S \ {k}) = Cardinality(S) - 1
  BY FS_RemoveElement
<1>2. Cardinality(S \ {k}) = 0 <=> S \ {k} = {}
  BY <1>1, FS_EmptySet
<1>3. Cardinality(S) \in Nat /\ Cardinality(S \ {k}) \in Nat
  BY <1>1, FS_CardinalityType
<1>4. Cardinality(S) > 1 <=> Cardinality(S \ {k}) # 0
  BY <1>1, <1>3
<1> QED
  BY <1>2, <1>4

\* A page that is at its address alone shares a value when another page has it.
SharesValue(P, k, field) ==
  P[k].at \in DuplicateUrls(P, Indexable(P), field)
    <=> /\ Heads(P[k]) /\ P[k][field] # ""
        /\ \E j \in DOMAIN P : P[j].at # P[k].at /\ Heads(P[j]) /\ P[j][field] = P[k][field]

LEMMA DuplicatesAre ==
  ASSUME NEW crawl, AuditedCrawl(crawl), NEW k \in DOMAIN PageRecords(crawl), NEW field,
         \A j \in DOMAIN PageRecords(crawl) : PageRecords(crawl)[j].at = PageRecords(crawl)[k].at => j = k
  PROVE  SharesValue(PageRecords(crawl), k, field)
<1> DEFINE P == PageRecords(crawl)
           said == {i \in Indexable(P) : P[i][field] # ""}
           like(i) == {j \in said : P[j][field] = P[i][field]}
           X == {i \in said : Cardinality(like(i)) > 1}
<1>1. DuplicateUrls(P, Indexable(P), field) = At(P, X)
  BY DEF DuplicateUrls
<1>2. \A i : i \in Indexable(P) <=> i \in DOMAIN P /\ Heads(P[i])
  BY DEF Indexable, Html, Heads
<1>3. IsFiniteSet(DOMAIN P)
  <2>1. DOMAIN P = 1..Len(crawl.replies) /\ Len(crawl.replies) \in Nat
    BY RecordsAre
  <2> HIDE DEF P
  <2> QED
    BY <2>1, FS_Interval
<1>4. P[k].at \in At(P, X) <=> \E i \in X : P[i].at = P[k].at
  BY DEF At
<1> HIDE DEF P
<1>5. \A i : i \in said <=> i \in DOMAIN P /\ Heads(P[i]) /\ P[i][field] # ""
  BY <1>2
<1>6. k \in DOMAIN P /\ \A j \in DOMAIN P : P[j].at = P[k].at => j = k
  BY DEF P
<1>7. \A i : i \in X <=> i \in said /\ Cardinality(like(i)) > 1
  OBVIOUS
<1>8. \A i, j : j \in like(i) <=> j \in said /\ P[j][field] = P[i][field]
  OBVIOUS
<1> HIDE DEF X, like, said
<1>9. P[k].at \in At(P, X) <=> k \in X
  BY <1>4, <1>5, <1>6, <1>7
<1>10. k \in said => (Cardinality(like(k)) > 1 <=> \E j \in like(k) : j # k)
  <2> SUFFICES ASSUME k \in said PROVE Cardinality(like(k)) > 1 <=> \E j \in like(k) : j # k
    OBVIOUS
  <2>1. k \in like(k)
    BY <1>8
  <2>2. like(k) \subseteq DOMAIN P
    BY <1>5, <1>8
  <2>3. IsFiniteSet(like(k))
    BY <1>3, <2>2, FS_Subset
  <2> QED
    BY <2>1, <2>3, TwoOrMore
<1>11. k \in said => ((\E j \in like(k) : j # k)
         <=> \E j \in DOMAIN P : P[j].at # P[k].at /\ Heads(P[j]) /\ P[j][field] = P[k][field])
  BY <1>5, <1>6, <1>8
<1> QED
  BY <1>1, <1>5, <1>6, <1>7, <1>9, <1>10, <1>11 DEF SharesValue, P

-----------------------------------------------------------------------------
(* The audit: what a page that was reached once is told.                    *)

\* The replies that rival one for its title and description, as rows.
LEMMA RivalsAre ==
  ASSUME NEW crawl, AuditedCrawl(crawl), NEW r
  PROVE  LET P == PageRecords(crawl)
             rivals == {q \in Range(crawl.replies) : /\ q.at # r.at /\ q.type = "html" /\ Succeeds(q.status)
                                                     /\ "noindex" \notin q.header \cup q.markup.directives}
         IN  /\ \A j \in DOMAIN P : P[j].at # r.at /\ Heads(P[j]) =>
                  \E q \in rivals : q.markup.title = P[j].title /\ FirstSaid(q.markup.descriptions, "") = P[j].description
             /\ \A q \in rivals : \E j \in DOMAIN P :
                  /\ P[j].at # r.at /\ Heads(P[j])
                  /\ q.markup.title = P[j].title /\ FirstSaid(q.markup.descriptions, "") = P[j].description
<1> DEFINE P == PageRecords(crawl)
           rivals == {q \in Range(crawl.replies) : /\ q.at # r.at /\ q.type = "html" /\ Succeeds(q.status)
                                                   /\ "noindex" \notin q.header \cup q.markup.directives}
           Matches(q, j) == /\ q \in rivals <=> P[j].at # r.at /\ Heads(P[j])
                            /\ q.type = "html" => q.markup.title = P[j].title
                                                  /\ FirstSaid(q.markup.descriptions, "") = P[j].description
<1>1. ASSUME NEW j \in DOMAIN P
      PROVE  Matches(crawl.replies[j], j)
  <2> DEFINE q == crawl.replies[j]
             p == P[j]
  <2>1. q \in Range(crawl.replies) /\ p.at = q.at
    BY <1>1, RecordsAre
  <2>2. /\ p.html <=> Succeeds(q.status) /\ q.type = "html"
        /\ q.type = "html" => /\ p.title = q.markup.title /\ p.description = FirstSaid(q.markup.descriptions, "")
                              /\ p.directives = q.markup.directives \cup q.header
    <3>1. RecordedAs(p, q)
      BY RecordIs
    <3> HIDE DEF p, q
    <3> QED
      BY <3>1 DEF RecordedAs
  <2>3. q \in rivals <=> /\ q.at # r.at /\ q.type = "html" /\ Succeeds(q.status)
                         /\ "noindex" \notin q.header \cup q.markup.directives
    BY <2>1
  <2> HIDE DEF p, q, rivals
  <2>4. Heads(p) <=> Succeeds(q.status) /\ q.type = "html" /\ "noindex" \notin q.header \cup q.markup.directives
    BY <2>2 DEF Heads
  <2>5. q \in rivals <=> p.at # r.at /\ Heads(p)
    BY <2>1, <2>3, <2>4
  <2>6. q.type = "html" => q.markup.title = p.title /\ FirstSaid(q.markup.descriptions, "") = p.description
    BY <2>2
  <2> QED
    BY <2>5, <2>6 DEF p, q
<1>2. \A q \in rivals : q.type = "html" /\ \E j \in DOMAIN P : q = crawl.replies[j]
  BY RecordsAre
<1> HIDE DEF P, rivals
<1>3. ASSUME NEW j \in DOMAIN P, P[j].at # r.at, Heads(P[j])
      PROVE  \E q \in rivals : q.markup.title = P[j].title /\ FirstSaid(q.markup.descriptions, "") = P[j].description
  BY <1>1, <1>2, <1>3
<1>4. ASSUME NEW q \in rivals
      PROVE  \E j \in DOMAIN P : /\ P[j].at # r.at /\ Heads(P[j])
                                 /\ q.markup.title = P[j].title /\ FirstSaid(q.markup.descriptions, "") = P[j].description
  <2>1. PICK j \in DOMAIN P : q = crawl.replies[j]
    BY <1>2, <1>4
  <2>2. Matches(q, j)
    BY <1>1, <2>1
  <2>3. P[j].at # r.at /\ Heads(P[j])
    BY <1>4, <2>2
  <2>4. q.markup.title = P[j].title /\ FirstSaid(q.markup.descriptions, "") = P[j].description
    BY <1>2, <1>4, <2>2
  <2> QED
    BY <2>3, <2>4
<1> QED
  BY <1>3, <1>4 DEF P, rivals

\* What a page that was reached once is told.
ToldOnce(crawl, r, told) ==
  LET m == r.markup
      head == Succeeds(r.status) /\ r.type = "html"
      heads == head /\ "noindex" \notin r.header \cup m.directives
      rivals == {q \in Range(crawl.replies) : /\ q.at # r.at /\ q.type = "html" /\ Succeeds(q.status)
                                              /\ "noindex" \notin q.header \cup q.markup.directives}
  IN
  /\ "server-errors" \in told <=> Overloaded(r.status)
  /\ "missing-linked-pages" \in told <=> r.status \in {404, 410}
  /\ "soft-404" \in told <=> Succeeds(r.status) /\ (r.type = "other" \/ m.gone \/ ~m.words)
  /\ "internal-redirects" \notin told
  /\ "head-title-missing" \in told <=> heads /\ m.title = ""
  /\ "head-title-generic" \in told <=> heads /\ m.title \in GENERIC_TITLES
  /\ "head-title-duplicated" \in told <=> heads /\ m.title # "" /\ \E q \in rivals : q.markup.title = m.title
  /\ "meta-description-missing" \in told <=> heads /\ ~\E t \in Range(m.descriptions) : t # ""
  /\ "meta-description-duplicated" \in told
       <=> /\ heads /\ \E t \in Range(m.descriptions) : t # ""
           /\ \E q \in rivals : FirstSaid(q.markup.descriptions, "") = FirstSaid(m.descriptions, "")
  /\ "viewport-missing" \in told <=> head /\ ~\E t \in Range(m.viewports) : t # ""
  /\ "charset-missing" \in told <=> head /\ r.charset = "" /\ ~\E t \in Range(m.charsets) : t # ""
  /\ "canonical-missing" \in told <=> heads /\ m.canonical = NoPage
  /\ "deprecated-head-metadata" \in told <=> head /\ m.deprecated
  /\ "social-metadata-incomplete" \in told
       <=> heads /\ m.title # "" /\ ~({"og:title", "og:description"} \subseteq m.openGraph)

LEMMA OnceTells ==
  ASSUME NEW crawl, Judging(crawl), NEW registry, NEW r \in Range(crawl.replies), r.requested = r.at,
         \A q \in Range(crawl.replies) : r.at \in {q.at, q.requested} => q = r
  PROVE  ToldOnce(crawl, r, Told(AuditReportOf(crawl, registry), r.at))
<1> DEFINE P == PageRecords(crawl)
           told == Told(AuditReportOf(crawl, registry), r.at)
           m == r.markup
           head == Succeeds(r.status) /\ r.type = "html"
           heads == head /\ "noindex" \notin r.header \cup m.directives
           rivals == {q \in Range(crawl.replies) : /\ q.at # r.at /\ q.type = "html" /\ Succeeds(q.status)
                                                   /\ "noindex" \notin q.header \cup q.markup.directives}
<1>1. AuditedCrawl(crawl)
  BY DEF Judging
<1>2. PICK k \in DOMAIN P : r = crawl.replies[k]
  BY <1>1, RecordsAre
<1> DEFINE p == P[k]
<1>3. p.at = r.at /\ p.requested = r.requested
  BY <1>1, <1>2, RecordsAre
<1>4. \A j \in DOMAIN P : P[j].at = r.at \/ P[j].requested = r.at => j = k
  <2> SUFFICES ASSUME NEW j \in DOMAIN P, P[j].at = r.at \/ P[j].requested = r.at PROVE j = k
    OBVIOUS
  <2>1. /\ crawl.replies[j] \in Range(crawl.replies) /\ P[j].at = crawl.replies[j].at
        /\ P[j].requested = crawl.replies[j].requested /\ j \in DOMAIN crawl.replies /\ k \in DOMAIN crawl.replies
    BY <1>1, RecordsAre
  <2>2. crawl.replies[j] = r
    BY <2>1
  <2> QED
    BY <1>1, <1>2, <2>1, <2>2 DEF AuditedCrawl
<1>5. ToldAsRecorded(P, p, told)
  BY <1>2, <1>3, RowTells
<1>6. /\ p.status = r.status
      /\ p.html <=> head
      /\ p.soft <=> Succeeds(r.status) /\ (r.type = "other" \/ m.gone \/ ~m.words)
      /\ r.type = "html" =>
           /\ p.title = m.title /\ p.description = FirstSaid(m.descriptions, "")
           /\ p.directives = m.directives \cup r.header /\ p.canonical = m.canonical
           /\ p.viewport = FirstSaid(m.viewports, "") /\ p.charset = FirstSaid(m.charsets, r.charset)
           /\ p.openGraph = m.openGraph /\ p.deprecated = m.deprecated
  <2>1. RecordedAs(p, r)
    BY <1>1, <1>2, RecordIs
  <2> HIDE DEF p
  <2> QED
    BY <2>1 DEF RecordedAs
<1>7. /\ "internal-redirects" \in told <=> r.at \in {P[i].requested : i \in {j \in DOMAIN P : P[j].requested # P[j].at}}
      /\ "head-title-duplicated" \in told <=> r.at \in DuplicateUrls(P, Indexable(P), "title")
      /\ "meta-description-duplicated" \in told <=> r.at \in DuplicateUrls(P, Indexable(P), "description")
  <2>1. ToldAsRuled(crawl, P, told, r.at)
    BY AuditTells
  <2> HIDE DEF P, told
  <2> QED
    BY <2>1 DEF ToldAsRuled
<1>8. "internal-redirects" \notin told
  <2> SUFFICES ASSUME NEW i \in DOMAIN P, P[i].requested # P[i].at, r.at = P[i].requested PROVE FALSE
    BY <1>7
  <2>1. i = k
    BY <1>4
  <2> QED
    BY <1>3, <2>1
<1>9. \A field : r.at \in DuplicateUrls(P, Indexable(P), field)
        <=> /\ Heads(p) /\ p[field] # ""
            /\ \E j \in DOMAIN P : P[j].at # r.at /\ Heads(P[j]) /\ P[j][field] = p[field]
  <2> TAKE field
  <2>1. \A j \in DOMAIN P : P[j].at = p.at => j = k
    BY <1>3, <1>4
  <2>2. SharesValue(P, k, field)
    BY <1>1, <1>2, <2>1, DuplicatesAre
  <2> HIDE DEF P
  <2> QED
    BY <1>3, <2>2 DEF SharesValue
<1>10. /\ IsSequence(m.descriptions) /\ IsSequence(m.viewports) /\ IsSequence(m.charsets)
  BY <1>1 DEF AuditedCrawl
<1>11. /\ \A j \in DOMAIN P : P[j].at # r.at /\ Heads(P[j]) =>
            \E q \in rivals : q.markup.title = P[j].title /\ FirstSaid(q.markup.descriptions, "") = P[j].description
       /\ \A q \in rivals : \E j \in DOMAIN P :
            /\ P[j].at # r.at /\ Heads(P[j])
            /\ q.markup.title = P[j].title /\ FirstSaid(q.markup.descriptions, "") = P[j].description
  BY <1>1, RivalsAre
<1>12. Heads(p) <=> heads
  BY <1>6 DEF Heads
<1>13. heads => head /\ r.type = "html"
  OBVIOUS
<1> HIDE DEF heads, rivals, told, p, P, m
<1>14. /\ FirstSaid(m.descriptions, "") # "" <=> \E t \in Range(m.descriptions) : t # ""
       /\ FirstSaid(m.viewports, "") # "" <=> \E t \in Range(m.viewports) : t # ""
       /\ FirstSaid(m.charsets, r.charset) # "" <=> r.charset # "" \/ \E t \in Range(m.charsets) : t # ""
  BY <1>10, FirstSaidIs
<1> DEFINE bad == Succeeds(r.status) /\ (r.type = "other" \/ m.gone \/ ~m.words)
<1>15. /\ "server-errors" \in told <=> Overloaded(r.status)
       /\ "missing-linked-pages" \in told <=> r.status \in {404, 410}
  <2>1. /\ "server-errors" \in told <=> Overloaded(p.status)
        /\ "missing-linked-pages" \in told <=> p.status \in {404, 410}
    BY <1>5 DEF ToldAsRecorded
  <2>2. p.status = r.status
    BY <1>6
  <2> QED
    BY <2>1, <2>2
<1>16. "soft-404" \in told <=> bad
  <2>1. "soft-404" \in told <=> p.soft
    BY <1>5 DEF ToldAsRecorded
  <2> QED
    BY <1>6, <2>1
<1> HIDE DEF bad
<1>17. /\ "head-title-missing" \in told <=> heads /\ m.title = ""
       /\ "head-title-generic" \in told <=> heads /\ m.title \in GENERIC_TITLES
  <2>1. /\ "head-title-missing" \in told <=> Heads(p) /\ p.title = ""
        /\ "head-title-generic" \in told <=> Heads(p) /\ p.title \in GENERIC_TITLES
    BY <1>5 DEF ToldAsRecorded
  <2>2. heads => p.title = m.title
    BY <1>6, <1>13
  <2> QED
    BY <1>12, <2>1, <2>2
<1>18. "head-title-duplicated" \in told <=> heads /\ m.title # "" /\ \E q \in rivals : q.markup.title = m.title
  <2>1. "head-title-duplicated" \in told
          <=> Heads(p) /\ p.title # "" /\ \E j \in DOMAIN P : P[j].at # r.at /\ Heads(P[j]) /\ P[j].title = p.title
    BY <1>7, <1>9
  <2>2. heads => p.title = m.title
    BY <1>6, <1>13
  <2>3. (\E j \in DOMAIN P : P[j].at # r.at /\ Heads(P[j]) /\ P[j].title = p.title)
          <=> \E q \in rivals : q.markup.title = p.title
    <3>1. ASSUME NEW j \in DOMAIN P, P[j].at # r.at, Heads(P[j]), P[j].title = p.title
          PROVE  \E q \in rivals : q.markup.title = p.title
      <4>1. PICK q \in rivals : q.markup.title = P[j].title
        BY <1>11, <3>1
      <4>2. q.markup.title = p.title
        BY <3>1, <4>1
      <4> QED
        BY <4>2
    <3>2. ASSUME NEW q \in rivals, q.markup.title = p.title
          PROVE  \E j \in DOMAIN P : P[j].at # r.at /\ Heads(P[j]) /\ P[j].title = p.title
      <4>1. PICK j \in DOMAIN P : P[j].at # r.at /\ Heads(P[j]) /\ q.markup.title = P[j].title
        BY <1>11, <3>2
      <4>2. P[j].title = p.title
        BY <3>2, <4>1
      <4> QED
        BY <4>1, <4>2
    <3> QED
      BY <3>1, <3>2
  <2> QED
    BY <1>12, <2>1, <2>2, <2>3
<1>19. "meta-description-missing" \in told <=> heads /\ ~\E t \in Range(m.descriptions) : t # ""
  <2>1. "meta-description-missing" \in told <=> Heads(p) /\ p.description = ""
    BY <1>5 DEF ToldAsRecorded
  <2>2. heads => p.description = FirstSaid(m.descriptions, "")
    BY <1>6, <1>13
  <2> QED
    BY <1>12, <1>14, <2>1, <2>2
<1>20. "meta-description-duplicated" \in told
         <=> /\ heads /\ \E t \in Range(m.descriptions) : t # ""
             /\ \E q \in rivals : FirstSaid(q.markup.descriptions, "") = FirstSaid(m.descriptions, "")
  <2>1. "meta-description-duplicated" \in told
          <=> /\ Heads(p) /\ p.description # ""
              /\ \E j \in DOMAIN P : P[j].at # r.at /\ Heads(P[j]) /\ P[j].description = p.description
    BY <1>7, <1>9
  <2>2. heads => p.description = FirstSaid(m.descriptions, "")
    BY <1>6, <1>13
  <2>3. (\E j \in DOMAIN P : P[j].at # r.at /\ Heads(P[j]) /\ P[j].description = p.description)
          <=> \E q \in rivals : FirstSaid(q.markup.descriptions, "") = p.description
    <3>1. ASSUME NEW j \in DOMAIN P, P[j].at # r.at, Heads(P[j]), P[j].description = p.description
          PROVE  \E q \in rivals : FirstSaid(q.markup.descriptions, "") = p.description
      <4>1. PICK q \in rivals : FirstSaid(q.markup.descriptions, "") = P[j].description
        BY <1>11, <3>1
      <4>2. FirstSaid(q.markup.descriptions, "") = p.description
        BY <3>1, <4>1
      <4> QED
        BY <4>2
    <3>2. ASSUME NEW q \in rivals, FirstSaid(q.markup.descriptions, "") = p.description
          PROVE  \E j \in DOMAIN P : P[j].at # r.at /\ Heads(P[j]) /\ P[j].description = p.description
      <4>1. PICK j \in DOMAIN P : P[j].at # r.at
            /\ Heads(P[j]) /\ FirstSaid(q.markup.descriptions, "") = P[j].description
        BY <1>11, <3>2
      <4>2. P[j].description = p.description
        BY <3>2, <4>1
      <4> QED
        BY <4>1, <4>2
    <3> QED
      BY <3>1, <3>2
  <2> QED
    BY <1>12, <1>14, <2>1, <2>2, <2>3
<1>21. "viewport-missing" \in told <=> head /\ ~\E t \in Range(m.viewports) : t # ""
  <2>1. "viewport-missing" \in told <=> p.html /\ p.viewport = ""
    BY <1>5 DEF ToldAsRecorded
  <2>2. (p.html <=> head) /\ (head => p.viewport = FirstSaid(m.viewports, ""))
    BY <1>6
  <2> QED
    BY <1>14, <2>1, <2>2
<1>22. "charset-missing" \in told <=> head /\ r.charset = "" /\ ~\E t \in Range(m.charsets) : t # ""
  <2>1. "charset-missing" \in told <=> p.html /\ p.charset = ""
    BY <1>5 DEF ToldAsRecorded
  <2>2. (p.html <=> head) /\ (head => p.charset = FirstSaid(m.charsets, r.charset))
    BY <1>6
  <2> QED
    BY <1>14, <2>1, <2>2
<1>23. "canonical-missing" \in told <=> heads /\ m.canonical = NoPage
  <2>1. "canonical-missing" \in told <=> Heads(p) /\ p.canonical = NoPage
    BY <1>5 DEF ToldAsRecorded
  <2>2. heads => p.canonical = m.canonical
    BY <1>6, <1>13
  <2> QED
    BY <1>12, <2>1, <2>2
<1>24. "deprecated-head-metadata" \in told <=> head /\ m.deprecated
  <2>1. "deprecated-head-metadata" \in told <=> p.html /\ p.deprecated
    BY <1>5 DEF ToldAsRecorded
  <2>2. (p.html <=> head) /\ (head => p.deprecated = m.deprecated)
    BY <1>6
  <2> QED
    BY <2>1, <2>2
<1>25. "social-metadata-incomplete" \in told
         <=> heads /\ m.title # "" /\ ~({"og:title", "og:description"} \subseteq m.openGraph)
  <2>1. "social-metadata-incomplete" \in told
          <=> Heads(p) /\ p.title # "" /\ ~({"og:title", "og:description"} \subseteq p.openGraph)
    BY <1>5 DEF ToldAsRecorded
  <2>2. heads => p.title = m.title /\ p.openGraph = m.openGraph
    BY <1>6, <1>13
  <2> QED
    BY <1>12, <2>1, <2>2
<1> HIDE DEF head
<1>26. /\ "server-errors" \in told <=> Overloaded(r.status)
       /\ "missing-linked-pages" \in told <=> r.status \in {404, 410}
       /\ "soft-404" \in told <=> bad
       /\ "internal-redirects" \notin told
  BY <1>8, <1>15, <1>16
<1> QED
  BY <1>17, <1>18, <1>19, <1>20, <1>21, <1>22, <1>23, <1>24, <1>25, <1>26
     DEF ToldOnce, told, bad, head, heads, rivals, m

-----------------------------------------------------------------------------
(* The audit: silence is earned.                                           *)

\* A page that was reached once is told nothing exactly when nothing is to be said.
LEMMA SilenceOfOnce ==
  ASSUME NEW crawl, NEW r, NEW told, ToldOnce(crawl, r, told), r.requested = r.at, r.status \in Nat
  PROVE  told \cap PageRules = {} <=> Reached(r) /\ Presentable(crawl, r)
<1> DEFINE m == r.markup
           head == Succeeds(r.status) /\ r.type = "html"
           noindex == "noindex" \in r.header \cup m.directives
           heads == head /\ "noindex" \notin r.header \cup m.directives
           rivals == {q \in Range(crawl.replies) : /\ q.at # r.at /\ q.type = "html" /\ Succeeds(q.status)
                                                   /\ "noindex" \notin q.header \cup q.markup.directives}
           titled == \E q \in rivals : q.markup.title = m.title
           shared == \E q \in rivals : FirstSaid(q.markup.descriptions, "") = FirstSaid(m.descriptions, "")
           described == \E t \in Range(m.descriptions) : t # ""
           viewed == \E t \in Range(m.viewports) : t # ""
           encoded == \E t \in Range(m.charsets) : t # ""
           old == m.deprecated
           social == {"og:title", "og:description"} \subseteq m.openGraph
           bad == Succeeds(r.status) /\ (r.type = "other" \/ m.gone \/ ~m.words)
<1>1. /\ "server-errors" \in told <=> Overloaded(r.status)
      /\ "missing-linked-pages" \in told <=> r.status \in {404, 410}
      /\ "soft-404" \in told <=> bad
      /\ "internal-redirects" \notin told
      /\ "head-title-missing" \in told <=> heads /\ m.title = ""
      /\ "head-title-generic" \in told <=> heads /\ m.title \in GENERIC_TITLES
      /\ "head-title-duplicated" \in told <=> heads /\ m.title # "" /\ titled
  BY DEF ToldOnce
<1>2. /\ "meta-description-missing" \in told <=> heads /\ ~described
      /\ "meta-description-duplicated" \in told <=> heads /\ described /\ shared
      /\ "viewport-missing" \in told <=> head /\ ~viewed
      /\ "charset-missing" \in told <=> head /\ r.charset = "" /\ ~encoded
      /\ "canonical-missing" \in told <=> heads /\ m.canonical = NoPage
      /\ "deprecated-head-metadata" \in told <=> head /\ old
      /\ "social-metadata-incomplete" \in told <=> heads /\ m.title # "" /\ ~social
  BY DEF ToldOnce
<1>3. Reached(r) <=> ~Overloaded(r.status) /\ r.status \notin {404, 410} /\ ~bad
  BY DEF Reached, Overloaded
<1>4. PresentsItself(crawl, r) <=> /\ m.title \notin GENERIC_TITLES \cup {""} /\ ~titled /\ described /\ ~shared
                                   /\ m.canonical # NoPage /\ social
  BY DEF PresentsItself
<1>5. Presentable(crawl, r) <=> (head => /\ viewed /\ (r.charset # "" \/ encoded) /\ ~old
                                         /\ noindex \/ PresentsItself(crawl, r))
  BY DEF Presentable
<1>6. heads <=> head /\ ~noindex
  OBVIOUS
<1> HIDE DEF heads, head, noindex, rivals, titled, shared, described, viewed, encoded, old, social, bad, m
<1>7. told \cap PageRules = {}
        <=> /\ "server-errors" \notin told /\ "missing-linked-pages" \notin told /\ "soft-404" \notin told
            /\ "internal-redirects" \notin told /\ "head-title-missing" \notin told /\ "head-title-generic" \notin told
            /\ "head-title-duplicated" \notin told /\ "meta-description-missing" \notin told
            /\ "meta-description-duplicated" \notin told /\ "viewport-missing" \notin told
            /\ "charset-missing" \notin told /\ "canonical-missing" \notin told
            /\ "deprecated-head-metadata" \notin told /\ "social-metadata-incomplete" \notin told
  BY DEF PageRules, Indexed
<1>8. Reached(r) <=> "server-errors" \notin told /\ "missing-linked-pages" \notin told /\ "soft-404" \notin told
                     /\ "internal-redirects" \notin told
  BY <1>1, <1>3
<1>9. Presentable(crawl, r)
        <=> /\ "head-title-missing" \notin told /\ "head-title-generic" \notin told
            /\ "head-title-duplicated" \notin told /\ "meta-description-missing" \notin told
            /\ "meta-description-duplicated" \notin told /\ "viewport-missing" \notin told
            /\ "charset-missing" \notin told /\ "canonical-missing" \notin told
            /\ "deprecated-head-metadata" \notin told /\ "social-metadata-incomplete" \notin told
  <2> DEFINE generic == m.title \in GENERIC_TITLES
             untitled == m.title = ""
             named == m.canonical # NoPage
             declared == r.charset # ""
  <2>1. m.title \notin GENERIC_TITLES \cup {""} <=> ~generic /\ ~untitled
    OBVIOUS
  <2> DEFINE presents == PresentsItself(crawl, r)
             fine == Presentable(crawl, r)
  <2>2. presents <=> ~generic /\ ~untitled /\ ~titled /\ described /\ ~shared /\ named /\ social
    BY <1>4, <2>1
  <2>3. fine <=> (head => viewed /\ (declared \/ encoded) /\ ~old /\ (noindex \/ presents))
    BY <1>5
  <2> DEFINE a1 == "head-title-missing" \in told
             a2 == "head-title-generic" \in told
             a3 == "head-title-duplicated" \in told
             a4 == "meta-description-missing" \in told
             a5 == "meta-description-duplicated" \in told
             a6 == "viewport-missing" \in told
             a7 == "charset-missing" \in told
             a8 == "canonical-missing" \in told
             a9 == "deprecated-head-metadata" \in told
             a0 == "social-metadata-incomplete" \in told
  <2>4. /\ a1 <=> heads /\ untitled
        /\ a2 <=> heads /\ generic
        /\ a3 <=> heads /\ ~untitled /\ titled
    BY <1>1
  <2>5. /\ a4 <=> heads /\ ~described
        /\ a5 <=> heads /\ described /\ shared
        /\ a6 <=> head /\ ~viewed
        /\ a7 <=> head /\ ~declared /\ ~encoded
        /\ a8 <=> heads /\ ~named
        /\ a9 <=> head /\ old
        /\ a0 <=> heads /\ ~untitled /\ ~social
    BY <1>2
  <2> HIDE DEF generic, untitled, named, declared, presents, fine, a1, a2, a3, a4, a5, a6, a7, a8, a9, a0
  <2>6. fine <=> ~a1 /\ ~a2 /\ ~a3 /\ ~a4 /\ ~a5 /\ ~a6 /\ ~a7 /\ ~a8 /\ ~a9 /\ ~a0
    <3>1. CASE ~head
      BY <1>6, <2>3, <2>4, <2>5, <3>1
    <3>2. CASE head /\ noindex
      BY <1>6, <2>3, <2>4, <2>5, <3>2
    <3>3. CASE head /\ ~noindex
      BY <1>6, <2>2, <2>3, <2>4, <2>5, <3>3
    <3> QED
      BY <3>1, <3>2, <3>3
  <2> QED
    BY <2>6 DEF fine, a1, a2, a3, a4, a5, a6, a7, a8, a9, a0
<1> QED
  BY <1>7, <1>8, <1>9

LEMMA AuditSilenceIsEarned ==
  ASSUME NEW crawl, Judging(crawl), NEW registry
  PROVE  SilenceIsEarned(crawl, AuditReportOf(crawl, registry))
<1> DEFINE P == PageRecords(crawl)
           report == AuditReportOf(crawl, registry)
<1> SUFFICES ASSUME NEW r \in Range(crawl.replies), \A q \in Range(crawl.replies) : r.at \in {q.at, q.requested} => q = r
             PROVE  (Told(report, r.at) \cup Told(report, r.requested)) \cap PageRules = {}
                      <=> Reached(r) /\ Presentable(crawl, r)
  BY DEF SilenceIsEarned
<1>1. AuditedCrawl(crawl)
  BY DEF Judging
<1>2. CASE r.requested = r.at
  <2>1. ToldOnce(crawl, r, Told(report, r.at))
    BY <1>2, OnceTells
  <2>2. r.status \in Nat
    BY <1>1 DEF AuditedCrawl
  <2> HIDE DEF report
  <2>3. Told(report, r.at) \cap PageRules = {} <=> Reached(r) /\ Presentable(crawl, r)
    BY <1>2, <2>1, <2>2, SilenceOfOnce
  <2>4. Told(report, r.at) \cup Told(report, r.requested) = Told(report, r.at)
    BY <1>2
  <2> QED
    BY <2>3, <2>4
<1>3. CASE r.requested # r.at
  <2>1. ToldAsRuled(crawl, P, Told(report, r.requested), r.requested)
    BY AuditTells
  <2>2. PICK k \in DOMAIN P : r = crawl.replies[k] /\ P[k].at = r.at /\ P[k].requested = r.requested
    BY <1>1, RecordsAre
  <2> HIDE DEF P, report
  <2>3. r.requested \in {P[i].requested : i \in {j \in DOMAIN P : P[j].requested # P[j].at}}
    BY <1>3, <2>2
  <2>4. "internal-redirects" \in Told(report, r.requested)
    BY <2>1, <2>3 DEF ToldAsRuled
  <2>5. "internal-redirects" \in PageRules
    BY DEF PageRules
  <2>6. ~Reached(r)
    BY <1>3 DEF Reached
  <2> QED
    BY <2>4, <2>5, <2>6
<1> QED
  BY <1>2, <1>3

-----------------------------------------------------------------------------
(* The audit: what is reported when it ends.                               *)

LEMMA ReportsAreRight ==
  ASSUME NEW crawl, Judging(crawl), NEW registry,
         ClaimsKnown(registry, UNION {r.claims : r \in Range(RaisedBy(crawl, PageRecords(crawl)))})
  PROVE  /\ AccountsAddUp(registry, AuditReportOf(crawl, registry))
         /\ RulesAgree(crawl, AuditReportOf(crawl, registry))
         /\ SilenceIsEarned(crawl, AuditReportOf(crawl, registry))
<1>1. IsSequence(crawl.robots) /\ \A r \in Range(crawl.robots) : IsSequence(r.unknown)
  BY DEF Judging, AuditedCrawl
<1>2. Raising(RaisedBy(crawl, PageRecords(crawl)))
  BY <1>1, RulesTell
<1> QED
  BY <1>2, AuditAccounts, AuditRulesAgree, AuditSilenceIsEarned

\* Who stands in a report of the walks set out from there.
WalkersAreOrigins ==
  Canonicals => Reported("canonical-cycle") \cup Reported("canonical-chain") \subseteq NonSelf(CanonicalOf)

LEMMA WalkersStay ==
  ASSUME siteEvidence' = siteEvidence, ruleFindings' = ruleFindings, WalkersAreOrigins
  PROVE  WalkersAreOrigins'
<1>1. CanonicalOf' = CanonicalOf /\ (Canonicals' <=> Canonicals)
  BY DEF CanonicalOf, Canonicals, Audit
<1>2. \A kind : Reported(kind)' = Reported(kind)
  BY DEF Reported
<1> QED
  BY <1>1, <1>2 DEF WalkersAreOrigins

LEMMA WalkerEnds ==
  ASSUME siteEvidence' = siteEvidence, WalkersAreOrigins, Canonicals, OnPath,
         NEW cyclic \in BOOLEAN, NEW hops \in Nat, EndTrail(cyclic, hops)
  PROVE  WalkersAreOrigins'
<1>1. CanonicalOf' = CanonicalOf
  BY DEF CanonicalOf, Audit
<1>2. trail.origin \in NonSelf(CanonicalOf)
  BY DEF OnPath
<1>3. /\ \A p : p \in Reported("canonical-cycle")' => p \in Reported("canonical-cycle") \/ p = trail.origin
      /\ \A p : p \in Reported("canonical-chain")' => p \in Reported("canonical-chain") \/ p = trail.origin
  BY EndReports
<1>4. Reported("canonical-cycle") \cup Reported("canonical-chain") \subseteq NonSelf(CanonicalOf)
  BY DEF WalkersAreOrigins
<1>5. (Reported("canonical-cycle") \cup Reported("canonical-chain"))' \subseteq NonSelf(CanonicalOf)
  BY <1>2, <1>3, <1>4
<1> QED
  BY <1>1, <1>5 DEF WalkersAreOrigins

LEMMA WalkersStep ==
  ASSUME WalkersAreOrigins, WalkInv, [RulesNext]_ruleVars
  PROVE  WalkersAreOrigins'
<1>1. siteEvidence' = siteEvidence
  BY DEF RulesNext, ruleVars, ReadLine, EvaluateRobots, EvaluateConsent, BeginTrail, Hop, LeaveTrail,
    EndCanonical, EvaluateAudit
<1>2. CASE ~Canonicals
  BY <1>1, <1>2 DEF WalkersAreOrigins, Canonicals
<1>3. CASE Canonicals /\ ruleFindings' = ruleFindings
  BY <1>1, <1>3, WalkersStay
<1>4. CASE Canonicals /\ ruleFindings' # ruleFindings
  <2>1. Hop \/ LeaveTrail
    BY <1>4 DEF RulesNext, ruleVars, ReadLine, EvaluateRobots, EvaluateConsent, BeginTrail,
      EndCanonical, EvaluateAudit, Canonicals, Robots
  <2>2. trail # NoTrail
    BY <2>1 DEF Hop, LeaveTrail, OnTrail
  <2>3. OnPath /\ trail.hops \in Nat
    BY <1>4, <2>2, RulesAssumption DEF WalkInv, OnPath
  <2>4. PICK cyclic \in BOOLEAN, hops \in Nat : EndTrail(cyclic, hops)
    <3>1. CASE Hop
      <4>1. EndTrail(Returns(trail), trail.hops + 1)
        BY <1>4, <3>1 DEF Hop
      <4>2. Returns(trail) \in BOOLEAN /\ trail.hops + 1 \in Nat
        BY <2>3 DEF Returns
      <4> QED
        BY <4>1, <4>2
    <3>2. CASE LeaveTrail
      BY <2>3, <3>2 DEF LeaveTrail
    <3> QED
      BY <2>1, <3>1, <3>2
  <2> QED
    BY <1>1, <1>4, <2>3, <2>4, WalkerEnds
<1> QED
  BY <1>2, <1>3, <1>4

LEMMA AuditIsJudged ==
  ASSUME siteEvidence \in SiteEvidence, WalkersAreOrigins, EvaluateAudit
  PROVE  AuditVerdict'
<1> DEFINE crawl == siteEvidence.crawl
           registry == siteEvidence.registry
           claims == UNION {r.claims : r \in Range(RaisedBy(crawl, PageRecords(crawl)))}
<1>1. /\ siteEvidence' = siteEvidence /\ Audit /\ Canonicals
      /\ auditReport' = IF ClaimsKnown(registry, claims) THEN AuditReportOf(crawl, registry) ELSE NoAudit
  BY DEF EvaluateAudit, Audit, Canonicals
<1>2. Crawled' = Crawled
  BY <1>1 DEF Crawled, CanonicalOf, Audit
<1>3. AuditedCrawl(crawl)
  BY <1>1, EvidenceAssumption DEF Audit
<1>4. ASSUME auditReport' # NoAudit, Cardinality(AddressesOf(crawl)) <= ShownUrls
      PROVE  /\ AccountsAddUp(registry, auditReport')
             /\ RulesAgree(crawl, auditReport')
             /\ SilenceIsEarned(crawl, auditReport')
  <2>1. Judging(crawl)
    BY <1>1, <1>3, <1>4 DEF Judging, WalkersAreOrigins
  <2>2. ClaimsKnown(registry, claims) /\ auditReport' = AuditReportOf(crawl, registry)
    BY <1>1, <1>4
  <2> QED
    BY <2>1, <2>2, ReportsAreRight
<1>5. \A c, report : RulesAgree(c, report)' <=> RulesAgree(c, report)
  BY <1>2 DEF RulesAgree
<1> QED
  BY <1>1, <1>4, <1>5 DEF AuditVerdict

LEMMA VerdictStays ==
  ASSUME AuditsMean, UNCHANGED ruleVars
  PROVE  AuditsMean'
<1>1. /\ siteEvidence' = siteEvidence /\ auditReport' = auditReport /\ evaluated' = evaluated
      /\ (Audit' <=> Audit)
  BY DEF ruleVars, Audit
<1>2. Crawled' = Crawled
  BY <1>1 DEF Crawled, CanonicalOf, Audit
<1>3. \A c, report : RulesAgree(c, report)' <=> RulesAgree(c, report)
  BY <1>2 DEF RulesAgree
<1> QED
  BY <1>1, <1>3 DEF AuditsMean, AuditVerdict

AuditInv == WalkInv /\ WalkersAreOrigins /\ AuditsMean /\ siteEvidence \in SiteEvidence

\* Whatever was crawled and whatever the registry says of the claims: the report of an
\* audit accounts for itself, its rules do not contradict each other about a page, and
\* the page rules are silent about exactly the pages of which nothing is to be said
\* (product_proof/rules.py, registry.py, extraction_rules.py, head_rules.py,
\* canonical_rules.py, robots_rules.py, report.py).
THEOREM AuditsSayWhatTheyMean == RulesSpec => []AuditsMean
<1>1. RulesInit => AuditInv
  <2> SUFFICES ASSUME RulesInit PROVE AuditInv
    OBVIOUS
  <2>1. siteEvidence \in SiteEvidence /\ ruleFindings = {} /\ evaluated = FALSE
    BY DEF RulesInit
  <2>2. Reported("canonical-cycle") \cup Reported("canonical-chain") = {}
    BY <2>1 DEF Reported
  <2> QED
    BY <2>1, <2>2, WalkBegins DEF AuditInv, WalkersAreOrigins, AuditsMean
<1>2. AuditInv /\ [RulesNext]_ruleVars => AuditInv'
  <2> SUFFICES ASSUME AuditInv, [RulesNext]_ruleVars PROVE AuditInv'
    OBVIOUS
  <2>1. siteEvidence' = siteEvidence
    BY DEF RulesNext, ruleVars, ReadLine, EvaluateRobots, EvaluateConsent, BeginTrail, Hop, LeaveTrail,
      EndCanonical, EvaluateAudit
  <2>2. WalkInv' /\ WalkersAreOrigins' /\ (siteEvidence \in SiteEvidence)'
    BY <2>1, WalkSteps, WalkersStep DEF AuditInv
  <2>3. AuditsMean'
    <3>1. CASE EvaluateAudit
      BY <3>1, AuditIsJudged DEF AuditInv, AuditsMean
    <3>2. CASE EvaluateRobots \/ EvaluateConsent \/ EndCanonical
      BY <2>1, <3>2 DEF EvaluateRobots, EvaluateConsent, EndCanonical, Robots, Consent, AuditsMean, Audit
    <3>3. CASE ReadLine \/ BeginTrail \/ Hop \/ LeaveTrail
      BY <3>3 DEF ReadLine, BeginTrail, Hop, LeaveTrail, AuditsMean
    <3>4. CASE UNCHANGED ruleVars
      BY <3>4, VerdictStays DEF AuditInv
    <3> QED
      BY <3>1, <3>2, <3>3, <3>4 DEF RulesNext
  <2> QED
    BY <2>2, <2>3 DEF AuditInv
<1>3. AuditInv => AuditsMean
  BY DEF AuditInv
<1> QED
  BY <1>1, <1>2, <1>3, PTL DEF RulesSpec

\* The rules report what they mean, no more and no less: the robots file, the canonical
\* annotations, the consent configuration and the whole audit, each as it is stated
\* without the code.
THEOREM RulesAreRight == RulesSpec => []RulesSayWhatTheyMean
<1>1. RobotsFilesMean /\ CanonicalsMean /\ ConsentMeans /\ AuditsMean => RulesSayWhatTheyMean
  BY DEF RulesSayWhatTheyMean
<1> QED
  BY <1>1, RobotsFilesAreObeyed, CanonicalsAreFollowed, ConsentIsDiagnosed, AuditsSayWhatTheyMean, PTL
=============================================================================
