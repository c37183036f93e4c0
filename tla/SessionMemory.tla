--------------------------- MODULE SessionMemory ----------------------------
(***************************************************************************)
(* JsonlMemoryStore (src/runtime/memory.py): one file of JSON lines for    *)
(* all sessions, appended to and rewritten under a lock of the process.    *)
(* The process may end at any point of an operation and start again.       *)
(***************************************************************************)
EXTENDS Integers, Sequences, FiniteSets

CONSTANTS Sessions,
          MaxEvents  \* bound on the events ever appended

ASSUME MemoryAssumption == MaxEvents \in Nat

VARIABLES lines,     \* the file
          rewrite,   \* what a deletion is about to replace the file with
          deleting,  \* the session being deleted, or "none"
          appended,  \* number of events ever given to append (history)
          kept,      \* of each session, its completed and undeleted events (history)
          cut        \* events whose append was cut short (history)

memoryVars == <<lines, rewrite, deleting, appended, kept, cut>>

\* What one append has written.  A process that ends in the middle leaves a
\* torn record, or a whole one without its newline.  splits: the text holds a
\* character that str.splitlines takes for the end of a line, which json.dumps
\* with ensure_ascii=False writes as it is (U+0085, U+2028, U+2029).
Line == [session : Sessions, event : 1..MaxEvents,
         written : {"whole", "unended", "torn"}, splits : BOOLEAN]

MemoryTypeOK ==
    /\ lines \in Seq(Line) /\ rewrite \in Seq(Line)
    /\ deleting \in Sessions \cup {"none"}
    /\ appended \in 0..MaxEvents
    /\ kept \in [Sessions -> SUBSET (1..MaxEvents)]
    /\ cut \in SUBSET (1..MaxEvents)

MemoryInit ==
    /\ lines = <<>> /\ rewrite = <<>> /\ deleting = "none"
    /\ appended = 0 /\ kept = [s \in Sessions |-> {}] /\ cut = {}

-----------------------------------------------------------------------------
\* json.loads fails on what splitlines yields for this line: it is torn or
\* split, or shares its line of the file with a neighbour.
Malformed(i) ==
    \/ lines[i].written = "torn" \/ lines[i].splits
    \/ lines[i].written = "unended" /\ i < Len(lines)
    \/ i > 1 /\ lines[i - 1].written # "whole"

\* load(s) returns Load(s) if the file is Readable and raises otherwise: every
\* malformed line, of whatever session, makes it raise.
Readable == \A i \in DOMAIN lines : ~Malformed(i)

LinesOf(s) == {i \in DOMAIN lines : lines[i].session = s}

\* Positions in the file, from the first to the last.
Forward(places) ==
    [i \in 1..Cardinality(places) |->
        CHOOSE p \in places : Cardinality({q \in places : q < p}) = i - 1]

Load(s) == [i \in DOMAIN Forward(LinesOf(s)) |-> lines[Forward(LinesOf(s))[i]].event]

\* Mutation: append does not take the lock.
AppendUnlocked(s, splits) ==
    /\ appended < MaxEvents
    /\ appended' = appended + 1
    /\ lines' = Append(lines, [session |-> s, event |-> appended + 1,
                               written |-> "whole", splits |-> splits])
    /\ kept' = [kept EXCEPT ![s] = @ \cup {appended + 1}]
    /\ UNCHANGED <<rewrite, deleting, cut>>

AppendEvent(s, splits) ==
    /\ deleting = "none"
    /\ appended < MaxEvents
    /\ appended' = appended + 1
    /\ lines' = Append(lines, [session |-> s, event |-> appended + 1,
                               written |-> "whole", splits |-> splits])
    /\ kept' = [kept EXCEPT ![s] = @ \cup {appended + 1}]
    /\ UNCHANGED <<rewrite, deleting, cut>>

\* The process ends while append writes.
AppendCutShort(s, written) ==
    /\ deleting = "none"
    /\ appended < MaxEvents
    /\ written # "whole"
    /\ appended' = appended + 1
    /\ lines' = Append(lines, [session |-> s, event |-> appended + 1,
                               written |-> written, splits |-> FALSE])
    /\ cut' = cut \cup {appended + 1}
    /\ UNCHANGED <<rewrite, deleting, kept>>

\* delete_session reads the file (and raises on a malformed line), writes the
\* lines of the others to a temporary file, each ended by a newline, ...
DeleteReads(s) ==
    /\ deleting = "none"
    /\ lines # <<>>
    /\ Readable
    /\ LET others == Forward(DOMAIN lines \ LinesOf(s))
       IN rewrite' = [i \in DOMAIN others |-> [lines[others[i]] EXCEPT !.written = "whole"]]
    /\ deleting' = s
    /\ UNCHANGED <<lines, appended, kept, cut>>

\* ... and replaces the file with it.
DeleteReplaces ==
    /\ deleting # "none"
    /\ lines' = rewrite
    /\ kept' = [kept EXCEPT ![deleting] = {}]
    /\ rewrite' = <<>> /\ deleting' = "none"
    /\ UNCHANGED <<appended, cut>>

\* The process ends before the replacement: the temporary file is left over.
DeleteCutShort ==
    /\ deleting # "none"
    /\ rewrite' = <<>> /\ deleting' = "none"
    /\ UNCHANGED <<lines, appended, kept, cut>>

MemoryNext ==
    \/ \E s \in Sessions :
         \/ \E splits \in BOOLEAN : AppendEvent(s, splits)
         \/ \E written \in {"unended", "torn"} : AppendCutShort(s, written)
         \/ DeleteReads(s)
    \/ DeleteReplaces \/ DeleteCutShort

MemorySpec == MemoryInit /\ [][MemoryNext]_memoryVars
-----------------------------------------------------------------------------
\* A completed append is never lost in silence and a deleted event never comes
\* back: whatever was cut short before or after, and whichever other session was
\* deleted, load raises or returns the completed events in their order, with at
\* most some that were cut short (the malformed-record failure of load, the
\* rewriting and the replace of delete_session).
NoSilentLoss ==
    Readable => \A s \in Sessions :
        /\ \A i, k \in DOMAIN Load(s) : i < k => Load(s)[i] < Load(s)[k]
        /\ kept[s] \subseteq {Load(s)[i] : i \in DOMAIN Load(s)}
        /\ {Load(s)[i] : i \in DOMAIN Load(s)} \subseteq kept[s] \cup cut

\* Refuted: as long as no process ended in the middle of an append, load
\* returns the stored events of a session.
CompletedAppendsLoad ==
    (\A i \in DOMAIN lines : lines[i].written = "whole")
        => Readable
=============================================================================
