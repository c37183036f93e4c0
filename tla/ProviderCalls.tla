---------------------------- MODULE ProviderCalls ---------------------------
(***************************************************************************)
(* What may leave for a provider that writes or is paid: the IndexNow      *)
(* submission with its confirmation and its attempts, and the preflight,   *)
(* cost gate, image plan and receipts of the optional providers            *)
(* (src/integrations/extensions, src/adapters/mcp_extensions.py,           *)
(* src/seoctl/extensions_cli.py).  Nothing but a submission is sent here.  *)
(***************************************************************************)
EXTENDS Integers, FiniteSets

CONSTANTS
  CallCommands,     \* what may be asked
  UrlLimit,     \* MAX_URLS
  RetryLimit,   \* MAX_RETRIES
  UnitLimit,    \* the most units of an estimate
  NoNumber      \* a number that is not given; a negative one stands for an improper one

\* Retries and the numbers of an approval are integers, where they are given.
ASSUME CallAssumption ==
    /\ {UrlLimit, RetryLimit} \subseteq Nat
    /\ \A c \in CallCommands :
         /\ IsFiniteSet(c.urls) /\ c.retries \in Int
         /\ {c.receipt.approval.estimated, c.receipt.approval.ceiling} \subseteq Int \cup {NoNumber}

VARIABLES providerCall, callStage,  \* "new", "sending" or "done"
          attemptsSent,                \* attempts begun
          arrivals,               \* how often the provider took the submission in
          reported               \* the status the caller is given

callVars == <<providerCall, callStage, attemptsSent, arrivals, reported>>

CallInit ==
    /\ providerCall \in CallCommands
    /\ callStage = "new" /\ attemptsSent = 0 /\ arrivals = 0 /\ reported = "none"

Answer(status) == callStage' = "done" /\ reported' = status /\ UNCHANGED providerCall

-----------------------------------------------------------------------------
\* normalize: clean URLs of one host, within the limit, under the directory of
\* the key file, which lies on the same host.
OneHost(urls) == \A u, v \in urls : u.host = v.host
Covered(urls, keyFile) ==
    \A u \in urls : u.host = keyFile.host /\ keyFile.dir \in {"/", u.dir}
Normal(c) ==
    /\ c.readable /\ c.urls # {} /\ Cardinality(c.urls) <= UrlLimit
    /\ \A u \in c.urls \cup c.keyFile : u.clean
    /\ OneHost(c.urls)
    /\ \A keyFile \in c.keyFile : Covered(c.urls, keyFile)

\* Mutation: --execute alone is enough.
ExecutedIsConfirmed(c) == c.execute
Confirmed(c) == c.execute /\ c.confirmed

StartSubmission ==
    /\ callStage = "new" /\ providerCall.kind = "submit"
    /\ IF ~Normal(providerCall) \/ ~providerCall.approvedHost THEN Answer("input_error")
       ELSE IF providerCall.key = "none" THEN Answer("not_configured")
       ELSE IF providerCall.key = "bad" THEN Answer("input_error")
       ELSE IF ~Confirmed(providerCall) THEN Answer("blocked")
       ELSE IF providerCall.retries \notin 0..RetryLimit THEN Answer("input_error")
       ELSE callStage' = "sending" /\ UNCHANGED <<providerCall, reported>>
    /\ UNCHANGED <<attemptsSent, arrivals>>

WorthRetrying == {429, 503}
RefusalCodes == {302, 400, 403, 422, 429, 503}
StatusFor(code) ==
    CASE code = 200 -> "ok"
      [] code = 202 -> "partial"
      [] code \in {400, 422} -> "invalid_response"
      [] code = 403 -> "unauthorized"
      [] code = 429 -> "rate_limited"
      [] OTHER -> "failed"

\* Whatever the code, a reply past the limit is an error of the input.
Closing(code) == Answer(StatusFor(code)) \/ Answer("input_error")

Sending == callStage = "sending" /\ attemptsSent' = attemptsSent + 1
ProviderAccepts ==
    /\ Sending /\ arrivals' = arrivals + 1
    /\ \E code \in {200, 202, 204} : Closing(code)
\* An overloaded provider may have taken the submission in before it gave up; a
\* redirect is a refusal.
ProviderRefuses ==
    /\ Sending
    /\ \E code \in RefusalCodes :
         /\ arrivals' \in IF code \in WorthRetrying THEN {arrivals, arrivals + 1} ELSE {arrivals}
         /\ IF code \in WorthRetrying /\ attemptsSent' <= providerCall.retries
            THEN UNCHANGED <<providerCall, callStage, reported>>
            ELSE Closing(code)
\* No answer: never tried again, and nobody knows what the provider has.
AnswerLost == Sending /\ arrivals' \in {arrivals, arrivals + 1} /\ Answer("failed")

ValidateUrls ==
    /\ callStage = "new" /\ providerCall.kind = "validate"
    /\ Answer(IF Normal(providerCall) THEN "ok" ELSE "input_error")
    /\ UNCHANGED <<attemptsSent, arrivals>>

-----------------------------------------------------------------------------
\* is_available: the host has connected it, or every one of its keys is set.
Available(e) == e.connected \/ (e.keys # {} /\ e.keys \subseteq e.set)
PreflightState(e) ==
    IF e.live \in {"BLOCKED_BY_CONTRACT", "HOST_CLIENT_ONLY"} THEN e.live
    ELSE IF Available(e) THEN "AVAILABLE" ELSE "NOT_CONFIGURED"
PreflightStatus(e) ==
    CASE PreflightState(e) = "AVAILABLE" -> "ok"
      [] PreflightState(e) = "NOT_CONFIGURED" -> "not_configured"
      [] PreflightState(e) = "BLOCKED_BY_CONTRACT" -> "blocked"
      [] OTHER -> "partial"
ConfigStatus(e) == IF e.live = "BLOCKED_BY_CONTRACT" THEN "blocked" ELSE "ok"

\* estimate_cost: "ERROR" where it raises.
CeilingHolds(c) == c.ceiling # NoNumber /\ c.units * c.unitCost <= c.ceiling
CostState(c) ==
    IF c.units \notin 1..UnitLimit THEN "ERROR"
    ELSE IF c.extension.tier = "free" THEN "AVAILABLE"
    ELSE IF c.unitCost = NoNumber THEN "BLOCKED"
    ELSE IF c.unitCost < 0 \/ (c.ceiling # NoNumber /\ c.ceiling < 0) THEN "ERROR"
    ELSE IF c.approve /\ CeilingHolds(c) THEN "APPROVED" ELSE "BLOCKED"
EstimateStatus(c) ==
    CASE CostState(c) = "ERROR" -> "input_error"
      [] CostState(c) = "BLOCKED" -> "blocked"
      [] OTHER -> "ok"

\* plan: the provider first, then the cost, then the request.
PlanStatus(c) ==
    IF PreflightState(c.extension) # "AVAILABLE" THEN PreflightStatus(c.extension)
    ELSE CASE CostState(c) = "ERROR" -> "input_error"
           [] CostState(c) = "APPROVED" /\ c.proper -> "ok"
           [] CostState(c) = "APPROVED" /\ ~c.proper -> "input_error"
           [] OTHER -> "blocked"

\* A receipt of entities: its provider, its rows and the approval it carries.
ReceiptHolds(c) ==
    LET r == c.receipt
    IN  /\ c.proper /\ r.provider = "entity-analysis" /\ PreflightState(c.extension) = "AVAILABLE"
        /\ \A i, j \in DOMAIN r.rows : r.rows[i].id = r.rows[j].id => i = j
        /\ \A i \in DOMAIN r.rows : r.rows[i].salience \in 0..100
        /\ r.approval.state = "APPROVED"
        /\ r.approval.estimated # NoNumber /\ r.approval.ceiling # NoNumber
        /\ 0 <= r.approval.estimated /\ r.approval.estimated <= r.approval.ceiling

\* validate_registry: every entry under its own id, with nothing destructive allowed.
Destructive == {"write", "delete", "send", "deploy", "transfer", "publish", "disavow"}
EntryHolds(key, e) ==
    /\ key = e.id
    /\ e.allowed \cap Destructive = {} /\ e.forbidden # {}
    /\ e.tier \in {"free", "metered"} /\ e.plain /\ e.secure
    /\ e.fetches => e.forbidden \cap {"crawl_private_hosts", "scan_third_party_targets"} # {}
RegistryHolds(registry) == \A key \in DOMAIN registry : EntryHolds(key, registry[key])

AnswerLocally ==
    /\ callStage = "new" /\ providerCall.kind \notin {"submit", "validate"}
    /\ Answer(CASE providerCall.kind = "preflight" -> PreflightStatus(providerCall.extension)
                [] providerCall.kind = "config" -> ConfigStatus(providerCall.extension)
                [] providerCall.kind = "estimate" -> EstimateStatus(providerCall)
                [] providerCall.kind = "plan" -> PlanStatus(providerCall)
                [] providerCall.kind = "entities" -> IF ReceiptHolds(providerCall) THEN "ok" ELSE "input_error"
                [] providerCall.kind = "registry" -> IF RegistryHolds(providerCall.registry) THEN "ok" ELSE "input_error")
    /\ UNCHANGED <<attemptsSent, arrivals>>

CallNext ==
    \/ StartSubmission \/ ProviderAccepts \/ ProviderRefuses \/ AnswerLost
    \/ ValidateUrls \/ AnswerLocally
CallSpec == CallInit /\ [][CallNext]_callVars

-----------------------------------------------------------------------------
\* What a publication takes for evidence of a submission, and of addresses that
\* may be submitted.
CallConforms(c) ==
    \/ c.kind = "submit" /\ reported \in {"ok", "partial"} /\ attemptsSent \in 1..(RetryLimit + 1)
    \/ c.kind = "validate" /\ reported = "ok" /\ Cardinality(c.urls) \in 1..UrlLimit /\ OneHost(c.urls \cup c.keyFile)

-----------------------------------------------------------------------------
\* What a provider takes in was confirmed, belongs to one host and to the holder of
\* its key, and is reported: no answer that says it went through or that it was held
\* back is untrue, whatever was lost or tried again.  And what may be paid for was
\* approved, for a provider that is there, within the ceiling of its own approval.
\* What succeeds is evidence that a publication accepts
\* (publication_capability_results.py:318, indexnow.py:138, indexnow_retry.py:37, indexnow_result.py:11,
\* mcp_extensions.py:284, image_generation.py:90, entity_analysis.py:17).
WriteIsConfirmed ==
    /\ arrivals > 0 =>
         /\ providerCall.kind = "submit" /\ providerCall.execute /\ providerCall.confirmed
         /\ \E host \in {u.host : u \in providerCall.urls} :
              \A u \in providerCall.urls \cup providerCall.keyFile : u.host = host
         /\ arrivals <= providerCall.retries + 1
    /\ providerCall.kind = "submit" =>
         /\ reported \in {"ok", "partial"} => arrivals > 0 /\ CallConforms(providerCall)
         /\ reported \in {"blocked", "not_configured"} => arrivals = 0
    /\ providerCall.kind = "validate" /\ reported = "ok" => CallConforms(providerCall)
    /\ providerCall.kind = "plan" /\ reported = "ok" =>
         /\ providerCall.approve /\ providerCall.units * providerCall.unitCost <= providerCall.ceiling
         /\ providerCall.extension.connected \/ providerCall.extension.keys \subseteq providerCall.extension.set
    /\ providerCall.kind = "entities" /\ reported = "ok" =>
         providerCall.receipt.approval.estimated \in 0..providerCall.receipt.approval.ceiling
=============================================================================
