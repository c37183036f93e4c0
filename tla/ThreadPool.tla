----------------------------- MODULE ThreadPool -----------------------------
(***************************************************************************)
(* The default executor of the event loop, as asyncio.to_thread uses it: a *)
(* first-in first-out queue and PoolSize worker threads.  External code    *)
(* (Python's asyncio and concurrent.futures), modelled from how            *)
(* src/runtime/tools.py and src/runtime/llm.py rely on it.                 *)
(***************************************************************************)
EXTENDS Naturals, FiniteSets, Sequences

CONSTANTS Jobs,     \* what may be handed to a thread
          PoolSize  \* worker threads of the executor

ASSUME PoolAssumption == PoolSize \in Nat \ {0} /\ IsFiniteSet(Jobs)

VARIABLES queue,    \* jobs no worker has taken, or looked at since they were cancelled
          job       \* state of the future of each job

poolVars == <<queue, job>>

JobStates == {"none", "queued", "running", "returned", "cancelled"}

PoolTypeOK == queue \in Seq(Jobs) /\ job \in [Jobs -> JobStates]

PoolInit == queue = <<>> /\ job = [j \in Jobs |-> "none"]

Running == {j \in Jobs : job[j] = "running"}

Submit(j) ==
    /\ job[j] = "none"
    /\ queue' = Append(queue, j)
    /\ job' = [job EXCEPT ![j] = "queued"]

\* Cancelling the futures of a set of jobs: what no worker has taken stays in the
\* queue and never starts, a thread that runs cannot be stopped.
Cancelled(js) ==
    [j \in Jobs |-> IF j \in js /\ job[j] = "queued" THEN "cancelled" ELSE job[j]]
Cancel(js) == job' = Cancelled(js) /\ UNCHANGED queue

\* A free worker takes the oldest job, and drops it if it was cancelled
\* (set_running_or_notify_cancel).
Take ==
    /\ queue # <<>>
    /\ Cardinality(Running) < PoolSize
    /\ job' = [job EXCEPT ![Head(queue)] = IF @ = "queued" THEN "running" ELSE @]
    /\ queue' = Tail(queue)

\* The thread of a job ends; the loop has not yet seen its result.
Finish(j) ==
    /\ job[j] = "running"
    /\ job' = [job EXCEPT ![j] = "returned"]
    /\ UNCHANGED queue
=============================================================================
