--------------------------- MODULE BoundedProcess ---------------------------
(***************************************************************************)
(* One call of bounded_process (src/scripts/publication_process.py), on    *)
(* POSIX or with the job object of publication_process_windows.py, against *)
(* the tree of processes it starts: they fork, write, close their output,  *)
(* leave the group where that is possible, and exit when they like.        *)
(* Bytes are counted in blocks.  Numbers of processes are not reused.      *)
(***************************************************************************)
EXTENDS Naturals, FiniteSets

CONSTANTS
  Processes,   \* those that may come to exist
  Leader,      \* the one that Popen starts: the command, or the launcher on Windows
  Body,        \* blocks of input
  OutputLimit, \* blocks of output that are accepted
  MaxOutput,   \* bound: blocks that the tree writes
  PipeSize     \* blocks that fit the output pipe

ASSUME ProcessAssumption ==
  /\ Leader \in Processes /\ IsFiniteSet(Processes)
  /\ Body \in Nat /\ OutputLimit \in Nat \ {0} /\ MaxOutput \in Nat /\ PipeSize \in Nat \ {0}

VARIABLES
  platform,    \* os.name
  life,        \* of each process
  contained,   \* those in the process group, or in the job
  holders,     \* those that hold the output open
  outPipe,     \* blocks in the output pipe
  said,        \* blocks the tree has written
  heard,       \* len(result)
  eof,         \* ended
  fed,         \* offset into the payload
  handles,     \* WindowsJob.members
  closedJob,   \* the job admits no new process
  callPc,      \* where bounded_process is
  answer,      \* "none", "value" or "error"
  past,        \* the call's deadline has passed
  pastCleanup  \* and the cleanup's

processVars == <<platform, life, contained, holders, outPipe, said, heard, eof, fed,
                 handles, closedJob, callPc, answer, past, pastCleanup>>
treeVars == <<life, contained, holders, outPipe, said>>

Windows == platform = "nt"

\* "gate": the launcher before its byte.  "killed": it runs no more and is not
\* gone.  "leaving": no longer counted by the job, and not yet signalled.
Going == {"killed", "leaving"}
Over == {"absent", "dead"}
Payload == IF Windows THEN Body + 1 ELSE Body
Living == {p \in Processes : life[p] \in {"gate", "running"}}
CountedByJob(p) == life[p] \in {"gate", "running", "killed"}

ProcessInit ==
  /\ platform \in {"posix", "nt"}
  /\ life = [p \in Processes |-> "absent"]
  /\ contained = {} /\ holders = {} /\ handles = {}
  /\ outPipe = 0 /\ said = 0 /\ heard = 0 /\ fed = 0
  /\ eof = FALSE /\ closedJob = FALSE /\ past = FALSE /\ pastCleanup = FALSE
  /\ callPc = "start" /\ answer = "none"

-----------------------------------------------------------------------------
(* The call. *)

\* Popen; on POSIX the command leads a session of its own.
Launch ==
  /\ callPc = "start"
  /\ life' = [life EXCEPT ![Leader] = IF Windows THEN "gate" ELSE "running"]
  /\ contained' = IF Windows THEN {} ELSE {Leader}
  /\ holders' = {Leader}
  /\ callPc' = IF Windows THEN "assign" ELSE "feed"
  /\ UNCHANGED <<platform, outPipe, said, heard, eof, fed, handles, closedJob, answer, past, pastCleanup>>

\* No job, or no process: there is nothing to clean up.
LaunchFails ==
  /\ callPc = "start"
  /\ callPc' = "done" /\ answer' = "error"
  /\ UNCHANGED <<platform, treeVars, heard, eof, fed, handles, closedJob, past, pastCleanup>>

\* WindowsJob.assign.
Assign ==
  /\ callPc = "assign" /\ Leader \in Living
  /\ contained' = {Leader}
  /\ callPc' = "feed"
  /\ UNCHANGED <<platform, life, holders, outPipe, said, heard, eof, fed, handles, closedJob, answer, past, pastCleanup>>

\* What raises goes to the cleanup with an error.
Raises == answer' = "error" /\ callPc' = "cleanup"

AssignFails ==
  /\ callPc = "assign"
  /\ Raises
  /\ UNCHANGED <<platform, treeVars, heard, eof, fed, handles, closedJob, past, pastCleanup>>

TimesOut ==
  /\ callPc = "feed" /\ past
  /\ Raises
  /\ UNCHANGED <<platform, treeVars, heard, eof, fed, handles, closedJob, past, pastCleanup>>

\* WindowsJob.capture: handles of the members that the job counts.
Captured == handles \cup {p \in contained : CountedByJob(p)}

\* The first byte of the payload opens the gate.
Opened == [life EXCEPT ![Leader] = IF @ = "gate" THEN "running" ELSE @]

\* One turn of _exchange: it captures and writes, then reads, then polls.
Feed ==
  /\ callPc = "feed" /\ ~past
  /\ handles' = IF Windows THEN Captured ELSE handles
  /\ \/ fed < Payload /\ fed' = fed + 1 /\ life' = Opened
     \/ UNCHANGED <<fed, life>>      \* everything is written, or the pipe is full
  /\ callPc' = "read"
  /\ UNCHANGED <<platform, contained, holders, outPipe, said, heard, eof, closedJob, answer, past, pastCleanup>>

\* A closed input, or a member without an authenticated handle.
FeedFails ==
  /\ callPc = "feed" /\ ~past
  /\ Windows \/ (fed < Payload /\ Leader \notin Living)
  /\ Raises
  /\ UNCHANGED <<platform, treeVars, heard, eof, fed, handles, closedJob, past, pastCleanup>>

\* Every writer has closed.
AtEof == outPipe = 0 /\ holders = {}

Read ==
  /\ callPc = "read"
  /\ IF eof \/ (outPipe = 0 /\ ~AtEof)
       THEN callPc' = "poll" /\ UNCHANGED <<outPipe, heard, eof, answer>>
     ELSE IF AtEof
       THEN callPc' = "poll" /\ eof' = TRUE /\ UNCHANGED <<outPipe, heard, answer>>
     ELSE /\ outPipe' = outPipe - 1
          /\ heard' = heard + 1
          /\ IF heard' > OutputLimit THEN Raises ELSE callPc' = "poll" /\ UNCHANGED answer
          /\ UNCHANGED eof
  /\ UNCHANGED <<platform, life, contained, holders, said, fed, handles, closedJob, past, pastCleanup>>

\* An exit code of another process than the leader is nobody's business; the
\* leader's is 0 or not.
Poll ==
  /\ callPc = "poll"
  /\ IF eof /\ fed = Payload /\ life[Leader] \in Over
       THEN callPc' = "cleanup" /\ answer' \in {"value", "error"}
       ELSE callPc' = "feed" /\ UNCHANGED answer
  /\ UNCHANGED <<platform, treeVars, heard, eof, fed, handles, closedJob, past, pastCleanup>>

-----------------------------------------------------------------------------
(* _cleanup. *)

Killed(S) == [p \in Processes |-> IF p \in S /\ p \in Living THEN "killed" ELSE life[p]]

\* killpg, or job.terminate up to TerminateJobObject, or kill of a launcher
\* that no job holds.
Kill ==
  /\ callPc = "cleanup"
  /\ handles' = IF Windows THEN Captured ELSE handles
  /\ closedJob' = Windows
  /\ life' = Killed(IF contained = {} THEN {Leader} ELSE contained)
  /\ holders' = holders \ {p \in Processes : life'[p] = "killed"}
  /\ callPc' = IF Windows /\ contained # {} THEN "active" ELSE "wait"
  /\ UNCHANGED <<platform, contained, outPipe, said, heard, eof, fed, answer, past, pastCleanup>>

\* What closing the handle of the job does, whatever of its termination failed.
CloseJob ==
  /\ Windows /\ contained # {}
  /\ life' = Killed(contained)
  /\ holders' = holders \ {p \in Processes : life'[p] = "killed"}
  /\ answer' = "error" /\ callPc' = "wait"
  /\ UNCHANGED <<platform, contained, outPipe, said, heard, eof, fed, handles, closedJob, past, pastCleanup>>

TerminateFails == callPc \in {"cleanup", "active", "members"} /\ CloseJob
TerminateTimesOut == callPc \in {"active", "members"} /\ pastCleanup /\ CloseJob

\* The job counts no process: wait_members is next.
Inactive ==
  /\ callPc = "active"
  /\ \A p \in contained : ~CountedByJob(p)
  /\ callPc' = "members"
  /\ UNCHANGED <<platform, treeVars, heard, eof, fed, handles, closedJob, answer, past, pastCleanup>>

MembersSignalled ==
  /\ callPc = "members"
  /\ \A p \in handles : life[p] \in Over
  /\ callPc' = "wait"
  /\ UNCHANGED <<platform, treeVars, heard, eof, fed, handles, closedJob, answer, past, pastCleanup>>

\* process.wait.  (Mutation: with it alone the group is not asked about.)
LeaderGone == life[Leader] \in Over

\* And on POSIX _wait_group.
Quiet == LeaderGone /\ (Windows \/ \A p \in contained : life[p] \in Over)

Return ==
  /\ callPc = "wait" /\ Quiet
  /\ callPc' = "done"
  /\ UNCHANGED <<platform, treeVars, heard, eof, fed, handles, closedJob, answer, past, pastCleanup>>

\* Mutation: the wait for the group has no end of its own.
WaitEndsByLeader == callPc = "wait" /\ pastCleanup /\ ~LeaderGone

WaitEnds == callPc = "wait" /\ pastCleanup /\ ~Quiet

WaitTimesOut ==
  /\ WaitEnds
  /\ answer' = "error" /\ callPc' = "done"
  /\ UNCHANGED <<platform, treeVars, heard, eof, fed, handles, closedJob, past, pastCleanup>>

CallStep ==
  \/ Launch \/ Assign \/ AssignFails
  \/ TimesOut \/ Feed \/ Read \/ Poll
  \/ Kill \/ TerminateTimesOut \/ Inactive \/ MembersSignalled
  \/ Return \/ WaitTimesOut

\* The calls of the system that fail, which none has to.
CallFails == LaunchFails \/ FeedFails \/ TerminateFails

-----------------------------------------------------------------------------
(* The processes and the time. *)

restVars == <<platform, heard, eof, fed, handles, closedJob, callPc, answer, past, pastCleanup>>

\* A child is where its parent is, and has its output.
Fork(p, q) ==
  /\ life[p] = "running" /\ life[q] = "absent"
  /\ p \in contained => ~closedJob
  /\ life' = [life EXCEPT ![q] = "running"]
  /\ contained' = IF p \in contained THEN contained \cup {q} ELSE contained
  /\ holders' = IF p \in holders THEN holders \cup {q} ELSE holders
  /\ UNCHANGED <<outPipe, said, restVars>>

\* setsid, of any process but the leader of the group; a job has no way out.
LeaveGroup(p) ==
  /\ ~Windows /\ p # Leader /\ p \in contained /\ life[p] = "running"
  /\ contained' = contained \ {p}
  /\ UNCHANGED <<life, holders, outPipe, said, restVars>>

WriteOutput(p) ==
  /\ life[p] = "running" /\ p \in holders
  /\ outPipe < PipeSize /\ said < MaxOutput
  /\ outPipe' = outPipe + 1 /\ said' = said + 1
  /\ UNCHANGED <<life, contained, holders, restVars>>

CloseOutput(p) ==
  /\ life[p] = "running" /\ p \in holders
  /\ holders' = holders \ {p}
  /\ UNCHANGED <<life, contained, outPipe, said, restVars>>

Exit(p) ==
  /\ life[p] \in {"gate", "running"}
  /\ life' = [life EXCEPT ![p] = IF Windows THEN "leaving" ELSE "dead"]
  /\ holders' = holders \ {p}
  /\ UNCHANGED <<contained, outPipe, said, restVars>>

\* What was killed goes when the kernel lets it.
Vanish(p) ==
  /\ life[p] \in Going
  /\ life' = [life EXCEPT ![p] = IF Windows /\ @ = "killed" THEN "leaving" ELSE "dead"]
  /\ UNCHANGED <<contained, holders, outPipe, said, restVars>>

DeadlinePasses ==
  /\ ~past /\ callPc \notin {"start", "done"}
  /\ past' = TRUE
  /\ UNCHANGED <<platform, treeVars, heard, eof, fed, handles, closedJob, callPc, answer, pastCleanup>>

CleanupDeadlinePasses ==
  /\ ~pastCleanup /\ callPc \in {"active", "members", "wait"}
  /\ pastCleanup' = TRUE
  /\ UNCHANGED <<platform, treeVars, heard, eof, fed, handles, closedJob, callPc, answer, past>>

ProcessNext ==
  \/ CallStep \/ CallFails
  \/ \E p, q \in Processes : Fork(p, q)
  \/ \E p \in Processes : LeaveGroup(p) \/ WriteOutput(p) \/ CloseOutput(p) \/ Exit(p) \/ Vanish(p)
  \/ DeadlinePasses \/ CleanupDeadlinePasses

\* The interpreter goes on and time passes; the processes owe nothing.
ProcessFairness ==
  /\ WF_processVars(CallStep)
  /\ WF_processVars(DeadlinePasses)
  /\ WF_processVars(CleanupDeadlinePasses)

ProcessSpec == ProcessInit /\ [][ProcessNext]_processVars /\ ProcessFairness

-----------------------------------------------------------------------------
ProcessTypeOK ==
  /\ platform \in {"posix", "nt"}
  /\ life \in [Processes -> {"absent", "gate", "running", "killed", "leaving", "dead"}]
  /\ contained \subseteq Processes /\ holders \subseteq Processes /\ handles \subseteq contained
  /\ outPipe \in 0..PipeSize /\ said \in 0..MaxOutput /\ heard \in 0..said
  /\ fed \in 0..Payload /\ {eof, closedJob, past, pastCleanup} \subseteq BOOLEAN
  /\ callPc \in {"start", "assign", "feed", "read", "poll", "cleanup", "active", "members", "wait", "done"}
  /\ answer \in {"none", "value", "error"}

\* When the call returns, nothing that it contains runs on, whatever forked
\* or exited meanwhile; when it returns a value, all of it is gone, and the
\* value is the whole output: no process that is still somewhere, be it in a
\* session of its own, will add to it.  On Windows nothing ever runs outside
\* the job (publication_process.py:62-110, 130-200,
\* publication_process_windows.py:81-170).
ReturnIsFinal ==
  /\ callPc = "done" => \A p \in contained : p \notin Living
  /\ callPc = "done" /\ answer = "value" =>
       /\ \A p \in contained : life[p] \in Over \/ (Windows /\ p \notin handles /\ ~CountedByJob(p))
       /\ heard = said /\ said <= OutputLimit /\ outPipe = 0
  /\ Windows => \A p \in Processes : life[p] = "running" => p \in contained

\* The call ends, also when a process ignores everything or is never let go by
\* the kernel (publication_process.py:66, 93-109, 135-150).
CallEnds == <>(callPc = "done")
=============================================================================
