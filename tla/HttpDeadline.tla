---------------------------- MODULE HttpDeadline ----------------------------
(***************************************************************************)
(* One logical HTTP operation under request_deadline                       *)
(* (src/security/http_deadline.py): the bounded transport with its retries *)
(* (src/integrations/authority_media/transport.py) or the technical client *)
(* with its redirects (src/integrations/technical/http.py), dialling over  *)
(* pinned sockets (src/security/pinned_http.py), against the timer thread  *)
(* that shuts the registered sockets down.                                 *)
(***************************************************************************)
EXTENDS Naturals, FiniteSets

CONSTANT MaxRounds  \* attempts, or hops, of one operation

ASSUME RoundsAssumption == MaxRounds \in Nat \ {0}

VARIABLES opPc,         \* where the calling thread is
          round,        \* the attempt or hop it is in
          open,         \* sockets that can still carry bytes
          registered,   \* HttpDeadline._sockets
          late,         \* time.monotonic() >= expires
          expired,      \* _expired
          timer,        \* "new", "armed", "closing", "done" or "cancelled"
          closing,      \* sockets _expire has copied and not yet closed
          pending,      \* what the decorated function is about to end with
          outcome,      \* what the caller of the operation gets
          interrupted   \* the timer has closed a socket in use (history)

deadlineVars == <<opPc, round, open, registered, late, expired, timer, closing,
                  pending, outcome, interrupted>>

Sockets == {"raw", "tls"} \X (1..MaxRounds)
Raw == <<"raw", round>>
Tls == <<"tls", round>>

DeadlineTypeOK ==
    /\ opPc \in {"idle", "check", "created", "connecting", "connected", "reading",
                 "read", "failed", "returning", "ended"}
    /\ round \in 0..MaxRounds
    /\ open \subseteq Sockets /\ registered \subseteq Sockets /\ closing \subseteq Sockets
    /\ late \in BOOLEAN /\ expired \in BOOLEAN /\ interrupted \in BOOLEAN
    /\ timer \in {"new", "armed", "closing", "done", "cancelled"}
    /\ pending \in {"none", "result", "error"}
    /\ outcome \in {"none", "result", "error", "timeout"}

DeadlineInit ==
    /\ opPc = "idle" /\ round = 0
    /\ open = {} /\ registered = {} /\ closing = {}
    /\ late = FALSE /\ expired = FALSE /\ interrupted = FALSE
    /\ timer = "new" /\ pending = "none" /\ outcome = "none"

clockVars == <<late, expired, timer, closing, interrupted>>

\* remaining() raises.
Exceeded == late \/ expired

-----------------------------------------------------------------------------
(* The calling thread.                                                     *)

StartOperation ==
    /\ opPc = "idle"
    /\ opPc' = "check" /\ round' = 1
    /\ timer' = "armed"
    /\ UNCHANGED <<open, registered, late, expired, closing, pending, outcome, interrupted>>

\* The function is left by an exception: the response and its sockets are closed.
Raise ==
    /\ opPc' = "returning" /\ pending' = "error"
    /\ open' = {}

\* check_deadline before a round, then the socket of the next dial is created.
CheckRound ==
    /\ opPc = "check"
    /\ \/ Exceeded /\ Raise
       \/ /\ ~Exceeded
          /\ open' = open \cup {Raw} /\ opPc' = "created"
          /\ UNCHANGED pending
    /\ UNCHANGED <<round, registered, outcome, clockVars>>

\* register(sock): one critical section; an expired deadline closes the socket.
Register(s, next) ==
    IF Exceeded
    THEN /\ open' = open \ {s} /\ opPc' = "failed"
         /\ UNCHANGED registered
    ELSE /\ registered' = registered \cup {s} /\ opPc' = next
         /\ UNCHANGED open

RegisterRaw ==
    /\ opPc = "created"
    /\ Register(Raw, "connecting")
    /\ UNCHANGED <<round, pending, outcome, clockVars>>

\* The connection is made in the clear, or wrapped: the wrapped socket takes the
\* descriptor over and the raw one can no longer be shut down.
Connect ==
    /\ opPc = "connecting"
    /\ Raw \in open
    /\ open' \in {open, (open \ {Raw}) \cup {Tls}}
    /\ opPc' = "connected"
    /\ UNCHANGED <<round, registered, pending, outcome, clockVars>>

\* A refused, timed out (sock.settimeout) or shut down connection.
ConnectFails ==
    /\ opPc = "connecting"
    /\ open' = open \ {Raw} /\ opPc' = "failed"
    /\ UNCHANGED <<round, registered, pending, outcome, clockVars>>

InUse == IF Tls \in open THEN Tls ELSE Raw

\* Mutation: the wrapped socket is only known to the connection.
RegisterRawOnly ==
    /\ opPc = "connected"
    /\ opPc' = "reading"
    /\ UNCHANGED <<round, open, registered, pending, outcome, clockVars>>

\* The socket is registered (again, if in the clear) before the TLS handshake.
RegisterConnection ==
    /\ opPc = "connected"
    /\ Register(InUse, "reading")
    /\ UNCHANGED <<round, pending, outcome, clockVars>>

\* The peer may answer at any time, or feed bytes for ever: no fairness.
PeerAnswers ==
    /\ opPc = "reading"
    /\ InUse \in open
    /\ opPc' \in {"read", "failed"}
    /\ UNCHANGED <<round, open, registered, pending, outcome, clockVars>>

\* A socket that was shut down ends the handshake or the read: with an error,
\* or with an end of file that looks like a short answer.
ReadBroken ==
    /\ opPc = "reading"
    /\ InUse \notin open
    /\ opPc' \in {"read", "failed"}
    /\ UNCHANGED <<round, open, registered, pending, outcome, clockVars>>

\* check_deadline after the read; a status that is accepted ends the function, a
\* transient one or a redirect starts the next round.
Evaluate ==
    /\ opPc = "read"
    /\ \/ Exceeded /\ opPc' = "failed" /\ UNCHANGED <<open, pending, round>>
       \/ ~Exceeded /\ opPc' = "returning" /\ pending' = "result" /\ open' = {} /\ UNCHANGED round
       \/ /\ ~Exceeded /\ round < MaxRounds
          /\ round' = round + 1 /\ opPc' = "check" /\ open' = {} /\ UNCHANGED pending
    /\ UNCHANGED <<registered, outcome, clockVars>>

\* A failed attempt: raised as it is, or tried again after a sleep whose length
\* is bounded by the time that remains, which raises when none does.
AttemptFails ==
    /\ opPc = "failed"
    /\ \/ Raise /\ UNCHANGED round
       \/ /\ ~Exceeded /\ round < MaxRounds
          /\ round' = round + 1 /\ opPc' = "check" /\ open' = {}
          /\ UNCHANGED pending
    /\ UNCHANGED <<registered, outcome, clockVars>>

\* Mutation: an exception leaves bounded as it is.
FinishUnconverted ==
    /\ opPc = "returning"
    /\ outcome' = IF Exceeded /\ pending = "result" THEN "timeout" ELSE pending
    /\ opPc' = "ended"
    /\ timer' = IF timer = "armed" THEN "cancelled" ELSE timer
    /\ UNCHANGED <<round, open, registered, late, expired, closing, pending, interrupted>>

\* bounded: remaining() is asked on both ways out, then the timer is cancelled.
FinishOperation ==
    /\ opPc = "returning"
    /\ outcome' = IF Exceeded THEN "timeout" ELSE pending
    /\ opPc' = "ended"
    /\ timer' = IF timer = "armed" THEN "cancelled" ELSE timer
    /\ UNCHANGED <<round, open, registered, late, expired, closing, pending, interrupted>>

CallerStep ==
    \/ StartOperation \/ CheckRound \/ RegisterRaw \/ ConnectFails \/ RegisterConnection
    \/ ReadBroken \/ Evaluate \/ AttemptFails \/ FinishOperation
-----------------------------------------------------------------------------
(* The clock and the timer thread.                                         *)

TimePasses ==
    /\ timer = "armed" /\ ~late
    /\ late' = TRUE
    /\ UNCHANGED <<opPc, round, open, registered, expired, timer, closing, pending, outcome, interrupted>>

\* _expire, in its critical section.
TimerFires ==
    /\ timer = "armed" /\ late
    /\ expired' = TRUE
    /\ closing' = registered
    /\ timer' = "closing"
    /\ UNCHANGED <<opPc, round, open, registered, late, pending, outcome, interrupted>>

\* _expire, after it: one socket at a time.
TimerCloses ==
    /\ timer = "closing"
    /\ \/ \E s \in closing :
            /\ closing' = closing \ {s}
            /\ open' = open \ {s}
            /\ interrupted' = (interrupted \/ (s \in open /\ outcome = "none"))
            /\ UNCHANGED timer
       \/ /\ closing = {} /\ timer' = "done"
          /\ UNCHANGED <<closing, open, interrupted>>
    /\ UNCHANGED <<opPc, round, registered, late, expired, pending, outcome>>

DeadlineNext ==
    \/ CallerStep \/ Connect \/ PeerAnswers
    \/ TimePasses \/ TimerFires \/ TimerCloses

\* The thread runs on, name resolution and connects end, time passes, the timer
\* thread is scheduled; the peer promises nothing.
DeadlineFairness ==
    /\ WF_deadlineVars(CallerStep)
    /\ WF_deadlineVars(TimePasses)
    /\ WF_deadlineVars(TimerFires)
    /\ WF_deadlineVars(TimerCloses)

DeadlineSpec == DeadlineInit /\ [][DeadlineNext]_deadlineVars /\ DeadlineFairness
-----------------------------------------------------------------------------
\* What the timer has broken never shows: once it has closed a socket in use,
\* the operation ends in the deadline's TimeoutError, neither in a result read
\* from a cut connection nor in the error the closed socket caused (bounded).
InterruptedIsTimeout == interrupted /\ outcome # "none" => outcome = "timeout"

\* A peer that feeds bytes for ever cannot hold the caller: every socket it can
\* read from has been registered, so the timer ends the read (register, _expire,
\* PinnedHTTPSConnection.connect).
OperationOver == opPc \in {"idle", "ended"}
OperationEnds == <>[]OperationOver
=============================================================================
