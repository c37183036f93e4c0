--------------------------- MODULE BrowserEgress ----------------------------
(***************************************************************************)
(* The proxy of one rendered page (src/security/browser_proxy.py): handler *)
(* threads share a budget of requests, bytes, connections and time, while  *)
(* the renderer (src/security/browser_capture.py) captures the page, asks  *)
(* for the budget once and leaves the proxy.  The bytes of a page are       *)
(* numbered in the order in which they are counted.                        *)
(***************************************************************************)
EXTENDS Integers, FiniteSets

CONSTANTS Connections,  \* bound: connections the browser opens
          Slots,        \* the bounded semaphore
          MaxRequests, MaxBytes,
          ChunkSizes    \* sizes of what is forwarded at once

ASSUME EgressAssumption ==
    /\ Connections \in Nat
    /\ Slots \in Nat \ {0} /\ MaxRequests \in Nat \ {0} /\ MaxBytes \in Nat \ {0}
    /\ ChunkSizes \subseteq Nat \ {0}

\* A handler thread per connection, numbered in the order they are accepted.
Handlers == 1..Connections

VARIABLES handlerPc,    \* where the thread of each connection is
          chunk,        \* the bytes it has counted and not yet forwarded
          sent,         \* the bytes forwarded, in either direction (history)
          slots,        \* free slots of the semaphore
          connections,  \* the sockets known to __exit__
          requestsSeen, bytesSeen, failure,
          admitted,     \* the requests that went on to their targets (history)
          overdue,      \* the deadline has passed
          exitPc        \* the rendering thread

budgetVars == <<requestsSeen, bytesSeen, failure>>
egressVars == <<handlerPc, chunk, sent, slots, connections, budgetVars, admitted, overdue, exitPc>>

\* The two sockets of a connection.
Client(h) == <<"client", h>>
Upstream(h) == <<"upstream", h>>
EgressSockets == {"client", "upstream"} \X Handlers

Unborn == "new"
Ended == {"refused", "unstarted", "ended"}
Copying == {"headers", "body", "relay"}
HandlerPlaces == {Unborn, "accepted", "counted", "dial", "tunnel", "leaving"} \cup Copying \cup Ended
Alive == {h \in Handlers : handlerPc[h] \notin {Unborn} \cup Ended}
Unstarted == {h \in Handlers : handlerPc[h] = "unstarted"}

EgressTypeOK ==
    /\ handlerPc \in [Handlers -> HandlerPlaces]
    /\ chunk \in [Handlers -> SUBSET (1..bytesSeen)]
    /\ sent \subseteq 1..bytesSeen /\ slots \in 0..Slots
    /\ connections \subseteq EgressSockets
    /\ requestsSeen \in Nat /\ bytesSeen \in Nat
    /\ admitted \subseteq Handlers
    /\ failure \in BOOLEAN /\ overdue \in BOOLEAN
    /\ exitPc \in {"rendering", "verified", "failed", "stopping", "closed"}

EgressInit ==
    /\ handlerPc = [h \in Handlers |-> Unborn]
    /\ chunk = [h \in Handlers |-> {}] /\ sent = {}
    /\ slots = Slots /\ connections = {}
    /\ requestsSeen = 0 /\ bytesSeen = 0 /\ failure = FALSE
    /\ admitted = {} /\ overdue = FALSE
    /\ exitPc = "rendering"

Stopping == exitPc \in {"stopping", "closed"}
Goto(h, place) == handlerPc' = [handlerPc EXCEPT ![h] = place]

-----------------------------------------------------------------------------
\* A connection takes a slot and a thread.  Without a slot it is refused, which
\* fails the page; without a thread the slot is lost.
Accept(h) ==
    /\ handlerPc[h] = Unborn /\ \A g \in 1..(h - 1) : handlerPc[g] # Unborn
    /\ exitPc # "closed"
    /\ IF slots = 0
       THEN /\ failure' = TRUE
            /\ Goto(h, "refused")
            /\ UNCHANGED <<slots, connections>>
       ELSE /\ slots' = slots - 1
            /\ connections' = connections \cup {Client(h)}
            /\ Goto(h, "accepted") \/ Goto(h, "unstarted")
            /\ UNCHANGED failure
    /\ UNCHANGED <<chunk, sent, requestsSeen, bytesSeen, admitted, overdue, exitPc>>

-----------------------------------------------------------------------------
(* The handler of a connection.                                            *)

\* remaining(): a deadline or a stop is a failure of the whole proxy.
Remaining == failure' = (failure \/ overdue \/ Stopping)

\* An exception, a closed side or the end of the tunnel: the upstream socket is
\* forgotten and closed.
Leave(h) ==
    /\ Goto(h, "leaving")
    /\ chunk' = [chunk EXCEPT ![h] = {}]
    /\ connections' = connections \ {Upstream(h)}
    /\ UNCHANGED sent

GoOn(h, place) == Goto(h, place) /\ UNCHANGED <<chunk, sent, connections>>

\* _authorize: 407 without credentials, or no request at all before the socket
\* times out; begin_request asks remaining() ...
Authorize(h) ==
    /\ handlerPc[h] = "accepted"
    /\ \/ Leave(h) /\ UNCHANGED budgetVars
       \/ /\ Remaining
          /\ UNCHANGED bytesSeen
          /\ IF failure'
             THEN Leave(h) /\ UNCHANGED requestsSeen
             ELSE GoOn(h, "counted") /\ requestsSeen' = requestsSeen + 1
    /\ UNCHANGED <<slots, admitted, overdue, exitPc>>

\* ... and counts; the failure set for the count or by another thread ends it.
Counted(h) ==
    /\ handlerPc[h] = "counted"
    /\ failure' = (failure \/ requestsSeen > MaxRequests)
    /\ IF failure'
       THEN Leave(h) /\ UNCHANGED admitted
       ELSE GoOn(h, "dial") /\ admitted' = admitted \cup {h}
    /\ UNCHANGED <<requestsSeen, bytesSeen, slots, overdue, exitPc>>

\* The target is checked and dialled with what time is left, CONNECT for a tunnel,
\* any other method to forward one message.
Dial(h) ==
    /\ handlerPc[h] = "dial"
    /\ \/ Leave(h) /\ UNCHANGED failure
       \/ /\ Remaining
          /\ IF failure' THEN Leave(h)
             ELSE \E place \in {"tunnel", "headers"} : GoOn(h, place)
    /\ UNCHANGED <<requestsSeen, bytesSeen, slots, admitted, overdue, exitPc>>

\* relay makes the upstream socket known to __exit__, once the tunnel is confirmed
\* or the body forwarded.
RegisterUpstream(h) ==
    /\ handlerPc[h] \in {"tunnel", "body"} /\ chunk[h] = {}
    /\ \/ Leave(h)
       \/ /\ connections' = connections \cup {Upstream(h)}
          /\ Goto(h, "relay")
          /\ UNCHANGED <<chunk, sent>>
    /\ UNCHANGED <<slots, budgetVars, admitted, overdue, exitPc>>

\* Reads the next piece and counts it (consume, up to its assertion).  The relay
\* and a body of known length ask for the time first; the headers of the request
\* and the lines of a chunked body do not.
Copy(h) ==
    /\ handlerPc[h] \in Copying /\ chunk[h] = {}
    /\ \/ Leave(h) /\ UNCHANGED budgetVars
       \/ /\ handlerPc[h] # "headers"
          /\ Remaining /\ failure'
          /\ Leave(h)
          /\ UNCHANGED <<requestsSeen, bytesSeen>>
       \/ \E size \in ChunkSizes :
            /\ handlerPc[h] = "relay" => ~(failure \/ overdue \/ Stopping)
            /\ bytesSeen' = bytesSeen + size
            /\ failure' = (failure \/ bytesSeen' > MaxBytes)
            /\ chunk' = [chunk EXCEPT ![h] = (bytesSeen + 1)..bytesSeen']
            /\ UNCHANGED <<handlerPc, sent, connections, requestsSeen>>
    /\ UNCHANGED <<slots, admitted, overdue, exitPc>>

\* The assertion that ends consume, in the relay the time left, and the sending,
\* which may fail.
Send(h) ==
    /\ chunk[h] # {}
    /\ IF handlerPc[h] = "relay" THEN Remaining ELSE UNCHANGED failure
    /\ \/ Leave(h)
       \/ /\ ~failure'
          /\ sent' = sent \cup chunk[h]
          /\ chunk' = [chunk EXCEPT ![h] = {}]
          /\ Goto(h, IF handlerPc[h] = "headers" THEN "body" ELSE handlerPc[h])
          /\ UNCHANGED connections
    /\ UNCHANGED <<requestsSeen, bytesSeen, slots, admitted, overdue, exitPc>>

\* Mutation: the request is given back with the slot.
ReleaseUncounted(h) ==
    /\ handlerPc[h] = "leaving"
    /\ connections' = connections \ {Client(h)}
    /\ slots' = slots + 1
    /\ requestsSeen' = requestsSeen - 1
    /\ Goto(h, "ended")
    /\ UNCHANGED <<chunk, sent, bytesSeen, failure, admitted, overdue, exitPc>>

\* Mutation: the slot is given back by the handlers of a healthy page only.
ReleaseIfHealthy(h) ==
    /\ handlerPc[h] = "leaving"
    /\ connections' = connections \ {Client(h)}
    /\ slots' = IF failure THEN slots ELSE slots + 1
    /\ Goto(h, "ended")
    /\ UNCHANGED <<chunk, sent, budgetVars, admitted, overdue, exitPc>>

\* process_request_thread: whatever happened, the socket is forgotten and the slot
\* given back.
Release(h) ==
    /\ handlerPc[h] = "leaving"
    /\ connections' = connections \ {Client(h)}
    /\ slots' = slots + 1
    /\ Goto(h, "ended")
    /\ UNCHANGED <<chunk, sent, budgetVars, admitted, overdue, exitPc>>

HandlerStep(h) ==
    Authorize(h) \/ Counted(h) \/ Dial(h) \/ RegisterUpstream(h) \/ Copy(h) \/ Send(h) \/ Release(h)

-----------------------------------------------------------------------------
\* Time.
EgressDeadline ==
    /\ ~overdue
    /\ overdue' = TRUE
    /\ UNCHANGED <<handlerPc, chunk, sent, slots, connections, budgetVars, admitted, exitPc>>

\* The renderer asks for the budget after the page is captured ...
AskBudget ==
    /\ exitPc = "rendering"
    /\ exitPc' = IF failure THEN "failed" ELSE "verified"
    /\ UNCHANGED <<handlerPc, chunk, sent, slots, connections, budgetVars, admitted, overdue>>

\* ... or fails on its own, and leaves: __exit__ sets the stop, shuts down the
\* sockets it knows, which a handler may notice as an error wherever it is, and
\* closes the listener.  It does not wait for the handlers, they are daemons.
ExitStops ==
    /\ exitPc \in {"rendering", "verified", "failed"}
    /\ exitPc' = "stopping"
    /\ UNCHANGED <<handlerPc, chunk, sent, slots, connections, budgetVars, admitted, overdue>>

ExitCloses ==
    /\ exitPc = "stopping"
    /\ exitPc' = "closed"
    /\ UNCHANGED <<handlerPc, chunk, sent, slots, connections, budgetVars, admitted, overdue>>

EgressNext ==
    \/ \E h \in Handlers : Accept(h) \/ HandlerStep(h)
    \/ EgressDeadline \/ AskBudget \/ ExitStops \/ ExitCloses

\* The deadline passes, and every place of a handler but the relay of a healthy
\* page has a timeout.  Nothing makes the renderer leave.
DueStep(h) ==
    /\ handlerPc[h] = "relay" => chunk[h] # {} \/ failure \/ overdue \/ Stopping
    /\ HandlerStep(h)

EgressFairness ==
    /\ WF_egressVars(EgressDeadline)
    /\ WF_egressVars(\E h \in Handlers : DueStep(h))

EgressSpec == EgressInit /\ [][EgressNext]_egressVars /\ EgressFairness

-----------------------------------------------------------------------------
\* Over a page's whole life what is forwarded stays within its byte budget, and the
\* requests that ever went on to their targets, those of ended handlers included,
\* within its request budget, in any interleaving of the handlers: a check that reads
\* the counters after another handler moved them may refuse too much, never too
\* little (browser_proxy.py:337-350).
BudgetNeverPassed ==
    /\ Cardinality(sent) <= MaxBytes
    /\ Cardinality(admitted) <= MaxRequests

\* Whatever the renderer and the peers do, the deadline brings every handler to its
\* end: every slot is given back and no socket is left for __exit__ to close, but
\* for those of the threads that could not start.
EgressAtRest ==
    /\ Alive = {}
    /\ slots = Slots - Cardinality(Unstarted)
    /\ connections = {Client(h) : h \in Unstarted}
EgressComesToRest == <>[]EgressAtRest
=============================================================================
