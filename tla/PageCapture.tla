----------------------------- MODULE PageCapture -----------------------------
(***************************************************************************)
(* Reading one page through a browser: the adapter that fetches it and     *)
(* renders it when its HTML is a shell (src/adapters/rendered_page.py),    *)
(* the service that renders it or keeps a screenshot of it                 *)
(* (src/integrations/technical/browser.py), and the capture below both     *)
(* (src/security/browser_capture.py).  Callers are threads or processes    *)
(* over one directory; the proxy is BrowserEgress, of which only the       *)
(* budget is seen here.                                                    *)
(***************************************************************************)
EXTENDS Integers, Sequences, FiniteSets

CONSTANTS Capturers,    \* the callers, one call each
          CaptureCalls, \* functions from callers to calls, see below
          NoCall,       \* a caller that does nothing
          NoInode       \* a name in the directory that names no file

ASSUME CaptureAssumption == Capturers \cap {NoInode, "earlier"} = {} /\ NoInode # "earlier"

\* A call is [face, mode, safe, valid, file]: the adapter's "evidence" with its
\* mode, or the service's "page", "screenshot" and "health"; valid says of its
\* options, and of the output's name, that they are accepted.
VARIABLES captureCall,
          captureStage,
          rawRead,      \* [html, warned, shell]: the adapter's own fetch
          held,         \* what a caller has entered and must leave, in that order
          exceeded,     \* callers whose proxy has recorded a passed budget
          taken,        \* what a caller has read from the page
          takenLate,    \* callers that have read from a page past its budget
          broken,       \* callers whose rendering raised, leaving included
          captureAnswer,
          tempInode,    \* output -> the file its temporary name stands for
          imageInode,   \* output -> the file its own name stands for
          writesTo,     \* the file a caller has open or has written
          cutInodes,    \* files that are not written to their end
          contended     \* outputs that two callers were writing at once

directoryVars == <<tempInode, imageInode, writesTo, cutInodes, contended>>
renderVars == <<held, exceeded, taken, takenLate, broken>>
captureVars == <<captureCall, captureStage, rawRead, captureAnswer, renderVars, directoryVars>>

NotAnswered == [status |-> "none", claims |-> {}]
Scopes == <<"driver", "egress", "browser", "context">>
KnownCalls == UNION {{calls[c] : c \in Capturers} : calls \in CaptureCalls}
Outputs == {call.file : call \in KnownCalls \ {NoCall}}

\* What the capture is asked for; the text is read with the HTML.
Wanted(call) ==
  CASE call.face = "evidence" -> {"html", "tree"}
    [] call.face = "screenshot" -> {"html", "image"}
    [] OTHER -> {"html"}

CaptureInit ==
  /\ captureCall \in CaptureCalls
  /\ captureStage = [c \in Capturers |-> IF captureCall[c] = NoCall THEN "done" ELSE "asked"]
  /\ rawRead = [c \in Capturers |-> [html |-> FALSE, warned |-> FALSE, shell |-> FALSE]]
  /\ held = [c \in Capturers |-> <<>>]
  /\ exceeded = {} /\ takenLate = {} /\ broken = {}
  /\ taken = [c \in Capturers |-> {}]
  /\ captureAnswer = [c \in Capturers |-> NotAnswered]
  /\ tempInode = [f \in Outputs |-> NoInode]
  /\ \E before \in {NoInode, "earlier"} : imageInode = [f \in Outputs |-> before]
  /\ writesTo = [c \in Capturers |-> NoInode]
  /\ cutInodes = {} /\ contended = {}

\* The stage the caller is in, and the one it goes on with.
CaptureStep(c, from, to) ==
  /\ captureStage[c] = from
  /\ captureStage' = [captureStage EXCEPT ![c] = to]

\* Status and the evidence it is said to hold; "raised" leaves the call.
AnswerCapture(c, from, status, claims) ==
  /\ CaptureStep(c, from, "done")
  /\ captureAnswer' = [captureAnswer EXCEPT ![c] = [status |-> status, claims |-> claims]]

-----------------------------------------------------------------------------
(* Before the browser.                                                      *)

Face(c) == captureCall[c].face

\* An address that is not public, and an output that is no .png.
RefuseCall(c) ==
  /\ captureStage[c] = "asked"
  /\ \/ /\ Face(c) # "health"
        /\ ~captureCall[c].safe
     \/ /\ Face(c) = "screenshot"
        /\ ~captureCall[c].valid
  /\ AnswerCapture(c, "asked", IF Face(c) = "evidence" THEN "blocked" ELSE "raised", {})
  /\ UNCHANGED <<captureCall, rawRead, renderVars, directoryVars>>

AcceptCall(c) ==
  /\ captureStage[c] = "asked"
  /\ Face(c) # "health"
  /\ captureCall[c].safe
  /\ Face(c) = "screenshot" => captureCall[c].valid
  /\ CaptureStep(c, "asked", IF Face(c) = "evidence" THEN "fetching" ELSE "health")
  /\ UNCHANGED <<captureCall, rawRead, captureAnswer, renderVars, directoryVars>>

\* The adapter's own fetch: failed, empty, or HTML whose analysis may fail or find
\* a shell.
RawReads == {raw \in [html : BOOLEAN, warned : BOOLEAN, shell : BOOLEAN] :
               raw.shell => raw.html /\ ~raw.warned}

\* What the mode makes of it, and whether a driver is there.
ReadRaw(c) ==
  \/ /\ AnswerCapture(c, "fetching", "not_configured", {})
     /\ UNCHANGED <<captureCall, rawRead, renderVars, directoryVars>>
  \/ /\ captureStage[c] = "fetching"
     /\ \E raw \in RawReads, driver \in BOOLEAN :
          LET wants == captureCall[c].mode \in {"always"} \cup (IF raw.shell THEN {"auto"} ELSE {})
          IN  /\ rawRead' = [rawRead EXCEPT ![c] = raw]
              /\ \/ /\ ~wants
                    /\ AnswerCapture(c, "fetching", IF raw.html /\ ~raw.warned THEN "ok" ELSE "partial", {})
                 \/ /\ wants /\ ~driver
                    /\ AnswerCapture(c, "fetching", "partial", {})
                 \/ /\ wants /\ driver
                    /\ CaptureStep(c, "fetching", "entering")
                    /\ UNCHANGED captureAnswer
     /\ UNCHANGED <<captureCall, renderVars, directoryVars>>

\* The service asks for the driver and its browser, also as a question by itself.
CheckHealth(c) ==
  \E available \in BOOLEAN :
    /\ captureStage[c] \in {"asked", "health"}
    /\ \/ /\ Face(c) = "health"
          /\ AnswerCapture(c, "asked", IF available THEN "ok" ELSE "not_configured", {})
       \/ /\ ~available
          /\ AnswerCapture(c, "health", "not_configured", {})
       \/ /\ available /\ ~captureCall[c].valid
          /\ AnswerCapture(c, "health", "failed", {})
       \/ /\ available /\ captureCall[c].valid
          /\ CaptureStep(c, "health", "entering")
          /\ UNCHANGED captureAnswer
    /\ UNCHANGED <<captureCall, rawRead, renderVars, directoryVars>>

-----------------------------------------------------------------------------
(* One rendering: enter, visit, read, ask the budget, leave.                *)

Break(c, from) ==
  /\ CaptureStep(c, from, "leaving")
  /\ broken' = broken \cup {c}
  /\ UNCHANGED <<captureCall, rawRead, captureAnswer, held, exceeded, taken, takenLate, directoryVars>>

\* A scope whose entry raises is not left; those before it are.
EnterScope(c) ==
  \/ Break(c, "entering")
  \/ LET entered == Append(held[c], Scopes[Len(held[c]) + 1])
     IN  /\ CaptureStep(c, "entering", IF entered = Scopes THEN "visiting" ELSE "entering")
         /\ held' = [held EXCEPT ![c] = entered]
         /\ UNCHANGED <<captureCall, rawRead, captureAnswer, exceeded, taken, takenLate, broken,
                        directoryVars>>

\* A new page goes to the address; where it ends must be public.
VisitPage(c) ==
  \/ Break(c, "visiting")
  \/ /\ CaptureStep(c, "visiting", "reading")
     /\ UNCHANGED <<captureCall, rawRead, captureAnswer, renderVars, directoryVars>>

\* The page goes on loading while it is read; a part past its ceiling raises.
NextPart(c) ==
  IF "html" \notin taken[c] THEN "html"
  ELSE IF "image" \in Wanted(captureCall[c]) \ taken[c] THEN "image" ELSE "tree"

ReadPart(c) ==
  \/ Break(c, "reading")
  \/ LET read == taken[c] \cup {NextPart(c)}
     IN  /\ CaptureStep(c, "reading", IF read = Wanted(captureCall[c]) THEN "asking" ELSE "reading")
         /\ taken' = [taken EXCEPT ![c] = read]
         /\ takenLate' = takenLate \cup ({c} \cap exceeded)
         /\ UNCHANGED <<captureCall, rawRead, captureAnswer, held, exceeded, broken, directoryVars>>

\* Mutation: the budget is not asked again once the page is read.
TrustBudget(c) ==
  /\ CaptureStep(c, "asking", "leaving")
  /\ UNCHANGED <<captureCall, rawRead, captureAnswer, renderVars, directoryVars>>

AssertBudget(c) ==
  \/ c \in exceeded /\ Break(c, "asking")
  \/ /\ c \notin exceeded
     /\ CaptureStep(c, "asking", "leaving")
     /\ UNCHANGED <<captureCall, rawRead, captureAnswer, renderVars, directoryVars>>

\* The proxy's threads record a passed budget at any time.
PassBudget(c) ==
  /\ captureStage[c] # "done"
  /\ \E i \in DOMAIN held[c] : held[c][i] = "egress"
  /\ c \notin exceeded
  /\ exceeded' = exceeded \cup {c}
  /\ UNCHANGED <<captureCall, captureStage, rawRead, captureAnswer, held, taken, takenLate, broken,
                 directoryVars>>

\* Scopes are left from the last one; one that raises loses the result, and the
\* others are left all the same.
LeaveScope(c) ==
  /\ captureStage[c] = "leaving" /\ held[c] # <<>>
  /\ held' = [held EXCEPT ![c] = SubSeq(@, 1, Len(@) - 1)]
  /\ broken' \in {broken, broken \cup {c}}
  /\ UNCHANGED <<captureCall, captureStage, rawRead, captureAnswer, exceeded, taken, takenLate,
                 directoryVars>>

-----------------------------------------------------------------------------
(* What becomes of the rendering.                                           *)

\* merge_rendered, and the answers of the service.
SaidVerified(call) ==
  CASE call.face = "evidence" -> {"html", "tree"}
    [] call.face = "screenshot" -> {"html", "image"}
    [] OTHER -> {"html"}

ConcludeRendering(c) ==
  /\ captureStage[c] = "leaving" /\ held[c] = <<>>
  /\ Face(c) # "screenshot"
  /\ IF c \in broken
     THEN AnswerCapture(c, "leaving", IF Face(c) = "evidence" THEN "partial" ELSE "failed", {})
     ELSE AnswerCapture(c, "leaving", "ok", SaidVerified(captureCall[c]))
  /\ UNCHANGED <<captureCall, rawRead, renderVars, directoryVars>>

\* Bytes that are no PNG are not kept.
ConcludeScreenshot(c) ==
  /\ captureStage[c] = "leaving" /\ held[c] = <<>>
  /\ Face(c) = "screenshot"
  /\ \/ /\ c \in broken
        /\ AnswerCapture(c, "leaving", "failed", {})
     \/ /\ c \notin broken
        /\ AnswerCapture(c, "leaving", "invalid_response", {})
     \/ /\ c \notin broken
        /\ CaptureStep(c, "leaving", "writing")
        /\ UNCHANGED captureAnswer
  /\ UNCHANGED <<captureCall, rawRead, renderVars, directoryVars>>

\* write_bytes opens the temporary name, which empties the file it stands for.
Output(c) == captureCall[c].file
Writing(c) == captureStage[c] \in {"filling", "replacing"}

OpenTemporary(c) ==
  LET inode == IF tempInode[Output(c)] = NoInode THEN c ELSE tempInode[Output(c)]
  IN  /\ CaptureStep(c, "writing", "filling")
      /\ tempInode' = [tempInode EXCEPT ![Output(c)] = inode]
      /\ writesTo' = [writesTo EXCEPT ![c] = inode]
      /\ cutInodes' = cutInodes \cup {inode}
      /\ contended' = contended \cup
           {Output(c) : d \in {d \in Capturers \ {c} : Writing(d) /\ Output(d) = Output(c)}}
      /\ UNCHANGED <<captureCall, rawRead, captureAnswer, renderVars, imageInode>>

FillTemporary(c) ==
  /\ CaptureStep(c, "filling", "replacing")
  /\ cutInodes' = cutInodes \ {writesTo[c]}
  /\ UNCHANGED <<captureCall, rawRead, captureAnswer, renderVars, tempInode, imageInode, writesTo, contended>>

ReplaceImage(c) ==
  /\ captureStage[c] = "replacing"
  /\ tempInode[Output(c)] # NoInode
  /\ AnswerCapture(c, "replacing", "ok", SaidVerified(captureCall[c]))
  /\ imageInode' = [imageInode EXCEPT ![Output(c)] = tempInode[Output(c)]]
  /\ tempInode' = [tempInode EXCEPT ![Output(c)] = NoInode]
  /\ UNCHANGED <<captureCall, rawRead, renderVars, writesTo, cutInodes, contended>>

\* The disk refuses, or another caller has taken the temporary file away.
LoseTemporary(c) ==
  /\ \/ AnswerCapture(c, "writing", "raised", {})
     \/ AnswerCapture(c, "filling", "raised", {})
     \/ AnswerCapture(c, "replacing", "raised", {})
  /\ UNCHANGED <<captureCall, rawRead, renderVars, directoryVars>>

\* The process of the caller ends; what it has put in the directory stays.
EndCapturer(c) ==
  /\ captureStage[c] # "done"
  /\ captureStage' = [captureStage EXCEPT ![c] = "done"]
  /\ UNCHANGED <<captureCall, rawRead, captureAnswer, renderVars, directoryVars>>

CaptureNext ==
  \E c \in Capturers :
    \/ RefuseCall(c) \/ AcceptCall(c) \/ ReadRaw(c) \/ CheckHealth(c)
    \/ EnterScope(c) \/ VisitPage(c) \/ ReadPart(c) \/ AssertBudget(c) \/ PassBudget(c) \/ LeaveScope(c)
    \/ ConcludeRendering(c) \/ ConcludeScreenshot(c) \/ OpenTemporary(c) \/ FillTemporary(c) \/ ReplaceImage(c)
    \/ LoseTemporary(c) \/ EndCapturer(c)

CaptureSpec == CaptureInit /\ [][CaptureNext]_captureVars

-----------------------------------------------------------------------------
\* What a publication takes for evidence of a rendering: the HTML is verified, and
\* the image exactly where a screenshot was asked for.
RenderingConforms(c) ==
  /\ captureAnswer[c].status = "ok"
  /\ "html" \in captureAnswer[c].claims
  /\ ("image" \in captureAnswer[c].claims) = (Face(c) = "screenshot")

-----------------------------------------------------------------------------
\* What an "ok" says is verified was read from one page before its proxy had
\* passed a budget, by a rendering in which nothing raised and of which nothing
\* is left open; a screenshot it names is written to its end, whoever else
\* ended in the middle of an earlier one, unless two callers wrote that output
\* at once (they share its temporary name); and without a rendering "ok" has
\* at least the HTML of the adapter's own fetch.  A publication accepts what the
\* service calls "ok" (publication_capability_results.py:235-265).
CapturesAreWhole ==
  /\ \A c \in Capturers :
       captureAnswer[c].status = "ok" /\ Face(c) # "health" =>
         IF captureAnswer[c].claims = {}
         THEN Face(c) = "evidence" /\ rawRead[c].html
         ELSE /\ captureAnswer[c].claims \subseteq taken[c]
              /\ RenderingConforms(c)
              /\ c \notin broken \cup takenLate
              /\ held[c] = <<>>
              /\ Face(c) = "screenshot" => imageInode[Output(c)] \notin {NoInode, "earlier"}
  /\ \A f \in Outputs \ contended : imageInode[f] \notin cutInodes
=============================================================================
