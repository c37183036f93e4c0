----------------------------- MODULE LLMClient ------------------------------
(***************************************************************************)
(* complete of the OpenAI-compatible and the Anthropic client              *)
(* (src/runtime/llm.py): one thread of the shared pool per completion,     *)
(* which sends the request up to MaxAttempts times and has no deadline of  *)
(* its own beyond the transport's 120 s.                                   *)
(***************************************************************************)
EXTENDS ThreadPool

CONSTANTS Calls,        \* completions awaited by node tasks
          MaxAttempts   \* stop_after_attempt

ASSUME ClientAssumption == Calls \subseteq Jobs /\ MaxAttempts \in Nat \ {0}

VARIABLES call,      \* where the coroutine complete is
          attempts,  \* requests sent for a completion
          reply      \* what the thread ends with

clientVars == <<call, attempts, reply>>

ClientTypeOK ==
    /\ call \in [Calls -> {"idle", "waiting", "answered", "raised", "cancelled"}]
    /\ attempts \in [Calls -> 0..MaxAttempts]
    /\ reply \in [Calls -> {"none", "content", "error"}]

ClientInit ==
    /\ call = [c \in Calls |-> "idle"]
    /\ attempts = [c \in Calls |-> 0]
    /\ reply = [c \in Calls |-> "none"]

Complete(c) ==
    /\ call[c] = "idle"
    /\ Submit(c)
    /\ call' = [call EXCEPT ![c] = "waiting"]
    /\ UNCHANGED <<attempts, reply>>

Ends(c, result) == reply' = [reply EXCEPT ![c] = result] /\ Finish(c)

\* A transient failure (URLError, timeout, 408, 425, 429 or 5xx): sent again
\* until the attempts are used up, then raised as it is.
TryAgain(c) ==
    IF attempts'[c] < MaxAttempts THEN UNCHANGED <<reply, poolVars>> ELSE Ends(c, "error")

\* Mutation: retry without stop_after_attempt.
AttemptForever(c) ==
    /\ job[c] = "running"
    /\ attempts' = [attempts EXCEPT ![c] = (@ % MaxAttempts) + 1]
    /\ Ends(c, "content") \/ Ends(c, "error") \/ UNCHANGED <<reply, poolVars>>
    /\ UNCHANGED call

\* One request to the provider: it answers within the size limit, it refuses or
\* answers something unreadable, or the request or its answer is lost.
Attempt(c) ==
    /\ job[c] = "running"
    /\ attempts' = [attempts EXCEPT ![c] = @ + 1]
    /\ Ends(c, "content") \/ Ends(c, "error") \/ TryAgain(c)
    /\ UNCHANGED call

DeliverReply(c) ==
    /\ call[c] = "waiting"
    /\ job[c] = "returned"
    /\ call' = [call EXCEPT ![c] = IF reply[c] = "content" THEN "answered" ELSE "raised"]
    /\ UNCHANGED <<attempts, reply, poolVars>>
=============================================================================
