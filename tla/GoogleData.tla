------------------------------ MODULE GoogleData -----------------------------
(***************************************************************************)
(* One read of a Google API by an adapter (src/integrations/google,        *)
(* src/adapters/google_pagespeed_live.py): the question is checked, a      *)
(* token is got, each request is sent with its retries, pages and parts    *)
(* are gathered, and a status says whether what was asked is there.        *)
(***************************************************************************)
EXTENDS Integers, Sequences, FiniteSets

CONSTANTS
  Questions,    \* what may be asked, with what the provider holds about it
  MaxRetries,   \* max_retries of the client
  NoValue       \* a missing number

\* A question is [adapter, proper, keyed, paged, rowLimit, maxPages, offset, field, holds].
\* holds is the provider's side: details and totals of a table, incomplete and loss
\* for its remarks on them, lab and record of a page, series of values by period.

\* A question that is proper has at least one row a page, one page and no negative
\* offset.
ASSUME QuestionAssumption ==
    \A q \in Questions :
        /\ q.proper => q.rowLimit \in Nat \ {0} /\ q.maxPages \in Nat \ {0} /\ q.offset \in Nat
        /\ q.holds.details \in Nat /\ q.holds.record \in {"good", "bad"}
        /\ {q.paged, q.holds.totals, q.holds.incomplete, q.holds.loss} \subseteq BOOLEAN

VARIABLES question, googleStage, \* "new", "token", "asking", "returned" or "raised"
          requestPart,           \* the request under way
          tries,                 \* the attempts of it that have begun
          gathered,              \* what the replies brought
          outcome                \* the result or the error

googleVars == <<question, googleStage, requestPart, tries, gathered, outcome>>

NoOutcome == [status |-> "none"]
NothingGathered == [rows |-> <<>>, pages |-> 0, totals |-> FALSE, truncated |-> FALSE, remarks |-> FALSE,
                    lab |-> "none", field |-> "none", series |-> <<>>]

-----------------------------------------------------------------------------
Retryable == {429, 500, 502, 503, 504}
Codes == {400, 403, 404, 429, 503}

\* _state_for_status, and the token endpoint's own reading of a refusal.
StateFor(status) ==
    CASE status \in {401, 403} -> "UNAUTHORIZED"
      [] status = 404 -> "NOT_FOUND"
      [] status = 429 -> "RATE_LIMITED"
      [] OTHER -> "FAILED"
TokenStateFor(status) == IF status = 400 THEN "UNAUTHORIZED" ELSE StateFor(status)

FirstPart(adapter) ==
    CASE adapter = "query" -> "aggregate"
      [] adapter = "pagespeed" -> "lab"
      [] OTHER -> "only"

GoogleInit ==
    /\ question \in Questions
    /\ googleStage = "new"
    /\ requestPart = FirstPart(question.adapter)
    /\ tries = 0
    /\ gathered = NothingGathered
    /\ outcome = NoOutcome

Deliver(result) ==
    /\ googleStage' = "returned" /\ outcome' = result
    /\ UNCHANGED <<question, requestPart, tries>>
Raise(state) ==
    /\ googleStage' = "raised" /\ outcome' = [status |-> "error", state |-> state]
    /\ UNCHANGED <<question, requestPart, tries, gathered>>

\* What is asked by key needs its key and a proper question, what is asked by token
\* a proper question; nothing is sent otherwise.
Begin(stage) == googleStage' = stage /\ UNCHANGED <<question, requestPart, tries, gathered, outcome>>
CheckRecord ==
    /\ googleStage = "new" /\ question.adapter \in {"crux", "history"}
    /\ IF question.keyed = "none" THEN Raise("NOT_CONFIGURED")
       ELSE IF ~question.proper THEN Raise("INVALID")
       ELSE Begin("asking")
CheckPage ==
    /\ googleStage = "new" /\ question.adapter = "pagespeed"
    /\ IF question.keyed = "none" THEN Raise("NOT_CONFIGURED")
       ELSE IF ~question.proper THEN Raise("INVALID")
       ELSE Begin("asking")
CheckReport ==
    /\ googleStage = "new" /\ question.adapter = "report"
    /\ IF question.proper THEN Begin("token") ELSE Raise("INVALID")
CheckTable ==
    /\ googleStage = "new" /\ question.adapter = "query"
    /\ IF question.proper THEN Begin("token") ELSE Raise("INVALID")
CheckSite ==
    /\ googleStage = "new" /\ question.adapter \in {"inspect", "sitemaps"}
    /\ IF question.proper THEN Begin("token") ELSE Raise("INVALID")

\* token: a configured one, or one refresh that is never tried again.
HaveToken ==
    /\ googleStage = "token" /\ question.keyed # "none"
    /\ Begin("asking")
NoToken ==
    /\ googleStage = "token"
    /\ \/ question.keyed = "none" /\ Raise("NOT_CONFIGURED")
       \/ question.keyed = "refresh" /\ \E code \in Codes : Raise(TokenStateFor(code))
       \/ question.keyed = "refresh" /\ \E state \in {"BLOCKED", "INVALID_RESPONSE"} : Raise(state)

-----------------------------------------------------------------------------
\* A request that failed for good: a missing record is an answer of its own, the
\* field data of a page may be missing, and everything else raises.
NotFound(state) == question.adapter \in {"crux", "history"} /\ state = "NOT_FOUND"
FieldMissing(status) ==
    /\ requestPart' = "end"
    /\ gathered' = [gathered EXCEPT !.field = IF status = 404 THEN "not_found" ELSE "unavailable"]
    /\ UNCHANGED <<question, googleStage, tries, outcome>>
Failed(state, status) ==
    IF NotFound(state) THEN Deliver([status |-> "not_found", state |-> state]) /\ UNCHANGED gathered
    ELSE IF requestPart = "field" THEN FieldMissing(status)
    ELSE Raise(state)

Again == tries' = tries + 1 /\ UNCHANGED <<question, googleStage, requestPart, gathered, outcome>>

Sendable == googleStage = "asking" /\ requestPart # "end"

\* The provider answers with an error: some are worth another attempt.
ProviderErrs ==
    /\ Sendable
    /\ \E code \in Codes :
          IF code \in Retryable /\ tries < MaxRetries THEN Again ELSE Failed(StateFor(code), code)
NetworkFails ==
    /\ Sendable
    /\ IF tries < MaxRetries THEN Again ELSE Failed("BLOCKED", 0)
\* Too long, not JSON, no object; or a redirect to another host.
ReplyUnusable == Sendable /\ \E state \in {"INVALID_RESPONSE", "BLOCKED"} : Failed(state, 0)

Advance(next, brought) ==
    /\ requestPart' = next /\ tries' = 0 /\ gathered' = brought
    /\ UNCHANGED <<question, googleStage, outcome>>

-----------------------------------------------------------------------------
\* query: the totals without dimensions, then pages until one is short or the last
\* allowed one is full.
PageRows(n) ==
    LET first == n * question.rowLimit
        room == question.holds.details - first
        size == IF room < 0 THEN 0 ELSE IF room < question.rowLimit THEN room ELSE question.rowLimit
    IN  [i \in 1..size |-> first + i]

TakeTotals ==
    /\ Sendable /\ requestPart = "aggregate"
    /\ Advance(IF question.paged THEN "page" ELSE "end",
               [gathered EXCEPT !.totals = question.holds.totals, !.remarks = question.holds.incomplete])

\* Mutation: the for loop without its else.
LastPageFull(pages) == FALSE
\* The for loop ran out of pages and the last one was full.
Truncates(pages) == pages = question.maxPages
TakePage ==
    /\ Sendable /\ requestPart = "page"
    /\ LET rows == PageRows(gathered.pages)
           pages == gathered.pages + 1
           short == Len(rows) < question.rowLimit
       IN  Advance(IF short \/ pages = question.maxPages THEN "end" ELSE "page",
                   [gathered EXCEPT !.rows = @ \o rows, !.pages = pages,
                                    !.truncated = ~short /\ Truncates(pages),
                                    !.remarks = @ \/ question.holds.incomplete])

\* query_result: what is empty is "ok" whatever the provider remarks.
QueryWarnings ==
    (IF gathered.truncated THEN {"ceiling"} ELSE {}) \cup (IF gathered.remarks THEN {"incomplete"} ELSE {})
    \cup (IF question.paged THEN {"not_sums"} ELSE {})
QueryResult ==
    LET state == IF ~gathered.totals /\ gathered.rows = <<>> THEN "EMPTY"
                 ELSE IF gathered.truncated \/ gathered.remarks THEN "PARTIAL" ELSE "AVAILABLE"
    IN  [status |-> IF state = "PARTIAL" THEN "partial" ELSE "ok", state |-> state,
         warnings |-> QueryWarnings]

\* fetch of a report: one window of the rows, and the count of all of them.
Window ==
    LET room == question.holds.details - question.offset
        size == IF room < 0 THEN 0 ELSE IF room < question.rowLimit THEN room ELSE question.rowLimit
    IN  [i \in 1..size |-> question.offset + i]
ReportResult(rows) ==
    LET warnings == (IF question.offset + Len(rows) < question.holds.details THEN {"more"} ELSE {})
                    \cup (IF question.holds.loss THEN {"loss"} ELSE {})
    IN  [status |-> IF warnings # {} THEN "partial" ELSE "ok", state |-> "AVAILABLE", warnings |-> warnings]

\* inspect and the sitemaps: the record, or the remark that there is none.
InspectResult(found) ==
    [status |-> IF found THEN "ok" ELSE "partial", state |-> IF found THEN "AVAILABLE" ELSE "PARTIAL",
     warned |-> ~found]
SitemapsResult(found) == [status |-> "ok", state |-> IF found THEN "AVAILABLE" ELSE "EMPTY", warned |-> FALSE]

\* A current record: the metrics that came; status "ok" if any did.
CurrentResult(metrics) ==
    [status |-> IF metrics # {} THEN "ok" ELSE "partial",
     state |-> IF metrics # {} THEN "AVAILABLE" ELSE "EMPTY",
     warned |-> metrics # question.holds.asked]

\* The latest observed value of a series, and the parts of the LCP put together
\* from the latest of each.
Latest(values) ==
    LET seen == {i \in DOMAIN values : values[i] # NoValue}
    IN  IF seen = {} THEN NoValue ELSE values[CHOOSE i \in seen : \A j \in seen : j <= i]
ObservedMetrics(series) == {m \in DOMAIN series : Latest(series[m]) # NoValue}
\* One part of the LCP stands for the four of them.
PartsComplete(series) == {"lcp", "part"} \subseteq ObservedMetrics(series)
HistoryResult(periods, series) ==
    LET available == periods > 0 /\ ObservedMetrics(series) # {}
    IN  [status |-> IF available THEN "ok" ELSE "partial",
         state |-> IF available THEN "AVAILABLE" ELSE "EMPTY",
         warned |-> periods = 0 \/ ObservedMetrics(series) # DOMAIN series,
         parts |-> IF PartsComplete(series) THEN "AVAILABLE" ELSE "INSUFFICIENT_EVIDENCE"]

\* Arrays past the provider's bounds are refused before they are crossed.
DimensionsHold(series) == question.holds.periods <= 40 /\ \A m \in DOMAIN series : Len(series[m]) <= 40

Only(adapter) == Sendable /\ question.adapter = adapter
TakeReport == Only("report") /\ Deliver(ReportResult(Window)) /\ gathered' = [gathered EXCEPT !.rows = Window]
TakeInspection == Only("inspect") /\ Deliver(InspectResult(question.holds.found)) /\ UNCHANGED gathered
TakeSitemaps == Only("sitemaps") /\ Deliver(SitemapsResult(question.holds.found)) /\ UNCHANGED gathered
TakeCurrent == Only("crux") /\ Deliver(CurrentResult(question.holds.metrics)) /\ UNCHANGED gathered
TakeHistory ==
    /\ Only("history")
    /\ IF DimensionsHold(question.holds.series)
       THEN /\ Deliver(HistoryResult(question.holds.periods, question.holds.series))
            /\ gathered' = [gathered EXCEPT !.series = question.holds.series]
       ELSE Raise("INVALID")

\* A page's lab run, then its field record if that is asked for; the key of the
\* first serves the second when it has none of its own.
TakeLab ==
    /\ Sendable /\ requestPart = "lab"
    /\ LET asked == question.field = "asked"
       IN  Advance(IF asked THEN "field" ELSE "end",
                   [gathered EXCEPT !.lab = question.holds.lab, !.field = IF asked THEN @ ELSE "skipped"])
TakeField ==
    /\ Sendable /\ requestPart = "field"
    /\ Advance("end", [gathered EXCEPT !.field = IF question.holds.record = "bad" THEN "invalid_response"
                                                 ELSE "available"])
PageResult ==
    LET whole == gathered.lab = "scored" /\ gathered.field \in {"available", "skipped"}
    IN  [status |-> IF whole THEN "ok" ELSE "partial", state |-> "AVAILABLE",
         warned |-> gathered.lab # "scored" \/ gathered.field \notin {"available", "skipped"}]

Finish ==
    /\ googleStage = "asking" /\ requestPart = "end"
    /\ Deliver(IF question.adapter = "query" THEN QueryResult ELSE PageResult)
    /\ UNCHANGED gathered

GoogleNext ==
    \/ CheckRecord \/ CheckPage \/ CheckReport \/ CheckTable \/ CheckSite \/ HaveToken \/ NoToken
    \/ ProviderErrs \/ NetworkFails \/ ReplyUnusable
    \/ TakeTotals \/ TakePage \/ TakeReport \/ TakeInspection \/ TakeSitemaps
    \/ TakeCurrent \/ TakeHistory \/ TakeLab \/ TakeField \/ Finish
GoogleSpec == GoogleInit /\ [][GoogleNext]_googleVars

-----------------------------------------------------------------------------
\* What a publication asks again of a table before it takes it as evidence: rows
\* and pages within their limits, and a state, a status and warnings that follow
\* from them; and of a report.
TableConforms(result, table) ==
    LET most == question.rowLimit * question.maxPages
        partial == table.truncated \/ table.remarks
    IN  /\ Len(table.rows) <= most
        /\ table.pages <= question.maxPages /\ (table.pages > 0) = question.paged
        /\ ~question.paged => table.rows = <<>>
        /\ table.truncated => table.pages = question.maxPages /\ Len(table.rows) = most
        /\ result.state = "EMPTY" => table.rows = <<>> /\ ~table.totals
        /\ result.state # "EMPTY" => result.state = IF partial THEN "PARTIAL" ELSE "AVAILABLE"
        /\ result.status = IF result.state = "PARTIAL" THEN "partial" ELSE "ok"
        /\ ("ceiling" \in result.warnings) = table.truncated
        /\ ("incomplete" \in result.warnings) = table.remarks
        /\ ("not_sums" \in result.warnings) = question.paged
ReportConforms(result, rows) ==
    LET more == question.offset + Len(rows) < question.holds.details
    IN  /\ Len(rows) <= question.rowLimit
        /\ rows # <<>> => question.offset + Len(rows) <= question.holds.details
        /\ result.status = IF more \/ question.holds.loss THEN "partial" ELSE "ok"
        /\ ("more" \in result.warnings) = more
        /\ ("loss" \in result.warnings) = question.holds.loss

-----------------------------------------------------------------------------
\* What the provider holds within what was asked.
AllRows == [i \in 1..question.holds.details |-> i]

\* A read that says "ok" has everything that was asked: all the rows of a table in
\* order, from the offset on, and no remark that they are not final, a scored lab
\* run and its field record, a record with a metric in it; a table that says it is
\* empty is, LCP parts are put together only when each was observed, and what a
\* connector returns of a table or report is what a publication accepts of one
\* (gsc.py:206, gsc_results.py:40, ga4.py:126, google_pagespeed_live.py:109,
\* publication_capability_results.py:91-233).
OkIsWhole ==
    googleStage = "returned" =>
      LET holds == question.holds
          ok == outcome.status = "ok"
      IN  CASE question.adapter = "query" ->
                 /\ TableConforms(outcome, gathered)
                 /\ ok /\ question.paged => gathered.rows = AllRows
                 /\ ok /\ outcome.state # "EMPTY" => ~holds.incomplete
                 /\ outcome.state = "EMPTY" => ~holds.totals /\ (question.paged => holds.details = 0)
            [] question.adapter = "report" ->
                 /\ ReportConforms(outcome, gathered.rows)
                 /\ ok => /\ ~holds.loss
                          /\ {i \in 1..holds.details : i > question.offset} \subseteq {gathered.rows[k] : k \in DOMAIN gathered.rows}
            [] question.adapter = "pagespeed" ->
                 ok => holds.lab = "scored" /\ (question.field = "asked" => holds.record = "good")
            [] question.adapter = "history" ->
                 /\ ok => holds.periods > 0
                 /\ outcome.status # "not_found" /\ outcome.parts = "AVAILABLE" =>
                      \A m \in {"lcp", "part"} : \E i \in DOMAIN holds.series[m] : holds.series[m][i] # NoValue
            [] question.adapter = "crux" -> ok => holds.metrics # {}
            [] OTHER -> ok /\ outcome.state = "AVAILABLE" => holds.found
=============================================================================
