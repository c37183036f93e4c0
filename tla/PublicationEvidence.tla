-------------------------- MODULE PublicationEvidence --------------------------
(***************************************************************************)
(* The evidence package of a publication: what its three producers seal    *)
(* (publication_evidence.execution_seal), what the authorization checks of *)
(* the records (checked_evidence with publication_evidence_records.py,     *)
(* publication_capability_checks.py and publication_prerequisites.py), and *)
(* what it compares with the provider (_authenticate_executions,           *)
(* publication_jobs.py).                                                    *)
(*                                                                          *)
(* A record is named by its digest, so here a reference is the record      *)
(* itself.  Formats, redaction, argv, the providers' results and the        *)
(* benchmark's cases are left out; identities, times, counts, costs,        *)
(* consent and references are kept.  A raise is the verdict "refused".      *)
(***************************************************************************)
EXTENDS Integers, FiniteSetsExt, Functions, Sequences

CONSTANTS
  Packages,        \* what the authors may assemble, by name
  LiveProfile,     \* live_authorization and side_effect of each command's profile
  ProducerJobs,    \* the jobs of the smoke run at the provider, by id
  Documented,      \* the command ids of COMMAND_ARGUMENTS
  Required,        \* required_command_ids of each capability with external evidence
  PreparedAt,      \* prepared_at of the subject
  CheckedAt,       \* now
  ObservationTtl,  \* EVIDENCE_TTL_SECONDS
  Skew,            \* CLOCK_SKEW_SECONDS
  MaxAmendments,   \* bound: changes of the package
  NoSeal

\* The reader refuses a record of another kind than the one it is asked for.
ASSUME PackagesAssumption ==
  \A name \in DOMAIN Packages :
    LET p == Packages[name]
    IN  /\ p.observations \in Seq({o \in Range(p.observations) : o.kind = "live_observation"})
        /\ p.prerequisites \in Seq({r \in Range(p.prerequisites) : r.kind = "capability_prerequisite"})
        /\ \A r \in Range(p.prerequisites) : r.executed \in Nat
        /\ \A o \in Range(p.observations) :
              /\ IsFiniteSet(o.normalized.requests) /\ o.normalized.cost \in Nat
              /\ \A q \in o.normalized.requests : q.at \in Nat
        /\ \A id \in DOMAIN p.closures : \A c \in p.closures[id] : c.kind = "capability_closure"

Distribution == "release-distribution"
Gate == {"live_authorized_smokes", "seven_archetype_benchmark", "external_reproduction"}
External == DOMAIN Required
Capability == External \cup {"documentation-install-success", "community-infrastructure", Distribution}

VARIABLES
  package,     \* the evidence as it stands, by name
  seals,       \* the package each producer has sealed
  amendments,
  verdict,     \* "open", the section under check, "accepted" or "refused"
  usage,       \* per authorization, the requests and the cost so far
  actual,      \* the actual request identities so far
  read         \* how many observations have been read

evidenceVars == <<package, seals, amendments, verdict, usage, actual, read>>

Evidence == Packages[package]

-----------------------------------------------------------------------------
(* Records and their seal. *)

Refs(r) ==
  CASE r.kind = "live_observation" -> {r.authorization, r.normalized} \cup r.logs
    [] r.kind = "capability_closure" -> r.observations
    [] OTHER -> {}

\* Mutation: the seal lists what its section and closures name, no further.
ReachableShallow(records) == records

\* _reachable; a closure names observations, and those their four records.
Reachable(records) ==
  LET once == records \cup UNION {Refs(r) : r \in records}
  IN  once \cup UNION {Refs(r) : r \in once}

Section(p, gate) ==
  CASE gate = "live_authorized_smokes" -> Range(p.observations) \cup Range(p.prerequisites)
    [] gate = "external_reproduction" -> {p.environment} \cup Range(p.commands)
    [] OTHER -> {p.benchmark}

Gates(p, c) == {r.execution_gate : r \in p.closures[c]}

\* _gate_capabilities, without the distribution, which has no evidence yet.
ClosuresOf(p, gate) == {c \in DOMAIN p.closures \ {Distribution} : gate \in Gates(p, c)}

SealedRecords(p, gate) ==
  Reachable(Section(p, gate) \cup UNION {p.closures[c] : c \in ClosuresOf(p, gate)})

\* What would raise: a reference to an absent record, or a capability whose
\* records do not name one gate.
Sealable(p, gate) ==
  /\ \A c \in DOMAIN p.closures \ {Distribution} :
       p.closures[c] \subseteq p.present /\ Cardinality(Gates(p, c)) = 1
  /\ SealedRecords(p, gate) \subseteq p.present

Seal(p, gate) ==
  [section |-> CASE gate = "live_authorized_smokes" -> <<p.observations, p.prerequisites>>
                 [] gate = "external_reproduction" -> <<{p.environment}, p.commands>>
                 [] OTHER -> <<{p.benchmark}>>,
   capabilities |-> [c \in ClosuresOf(p, gate) |-> p.closures[c]],
   records |-> SealedRecords(p, gate)]

EvidenceInit ==
  /\ package \in DOMAIN Packages
  /\ seals = [gate \in Gate |-> NoSeal]
  /\ amendments = 0
  /\ verdict = "open"
  /\ usage = <<>>
  /\ actual = {}
  /\ read = 0

\* A producer seals what it is given, before or after others have.
ExecuteGate(gate) ==
  /\ verdict = "open"
  /\ Sealable(Evidence, gate)
  /\ seals' = [seals EXCEPT ![gate] = package]
  /\ UNCHANGED <<package, amendments, verdict, usage, actual, read>>

\* The authors change the evidence in their pull request.
AmendPackage ==
  /\ verdict = "open"
  /\ amendments < MaxAmendments
  /\ package' \in DOMAIN Packages \ {package}
  /\ amendments' = amendments + 1
  /\ UNCHANGED <<seals, verdict, usage, actual, read>>

BeginCheck ==
  /\ verdict = "open"
  /\ verdict' = "observations"
  /\ UNCHANGED <<package, seals, amendments, usage, actual, read>>

-----------------------------------------------------------------------------
(* live_observations, one turn of its loop for each reference. *)

Current(t) == t <= CheckedAt + Skew /\ CheckedAt - t <= ObservationTtl

\* observed_time.
Observed(t) == Current(t) /\ PreparedAt <= t

Granted(grant, t) == grant.starts <= t /\ t < grant.expires

RequestIds(observation) == {q.id : q \in observation.normalized.requests}

\* _live_consent and _profile_consent.
Consented(o) ==
  LET grant == o.authorization
      result == o.normalized
  IN  /\ result.cost > 0 => grant.costApproved
      /\ \A profile \in {LiveProfile[k] : k \in o.commands} :
           /\ profile.costApproval => grant.costApproved
           /\ profile.writeApproval => grant.writeApproved
           /\ profile.sideEffect = "write" => result.wrote
           /\ profile.sideEffect = "read_only" => ~grant.writeApproved /\ ~result.wrote

\* validate_observation, _live_scope and _live_log.
ObservationValid(o) ==
  LET grant == o.authorization
      result == o.normalized
  IN  /\ result.observed = o.observed
      /\ Observed(o.observed) /\ Granted(grant, o.observed)
      /\ grant.expires - grant.starts <= ObservationTtl
      /\ \A q \in result.requests : Observed(q.at) /\ Granted(grant, q.at) /\ q.at <= o.observed
      /\ result.made = Cardinality(result.requests)
      /\ \A p, q \in result.requests : p.id = q.id => p = q
      /\ {q.command : q \in result.requests} = o.commands
      /\ o.commands \subseteq DOMAIN LiveProfile /\ Consented(o)
      /\ {log.role : log \in o.logs} = {"provider", "application"}
      /\ \A log \in o.logs : log.ids = RequestIds(o) /\ Observed(log.observed)

UsageOf(grant) == IF grant \in DOMAIN usage THEN usage[grant] ELSE [requests |-> 0, cost |-> 0]

\* _live_budget: what the authorization has paid for so far counts.
WithinBudget(o) ==
  /\ UsageOf(o.authorization).requests + o.normalized.made <= o.authorization.maxRequests
  /\ UsageOf(o.authorization).cost + o.normalized.cost <= o.authorization.maxCost

Refused == verdict' = "refused" /\ UNCHANGED <<usage, actual, read>>

Repeated(p) == Cardinality(Range(p.observations)) # Len(p.observations)

CheckObservation ==
  /\ verdict = "observations"
  /\ read < Len(Evidence.observations)
  /\ LET turn == Evidence.observations[read + 1]
         grant == turn.authorization
     IN  IF /\ {turn} \cup Refs(turn) \subseteq Evidence.present
            /\ ObservationValid(turn)
            /\ WithinBudget(turn)
            /\ RequestIds(turn) \cap actual = {}
            /\ ~Repeated(Evidence)
           THEN /\ usage' = [g \in DOMAIN usage \cup {grant} |->
                               IF g # grant THEN usage[g]
                               ELSE [requests |-> UsageOf(g).requests + turn.normalized.made,
                                     cost |-> UsageOf(g).cost + turn.normalized.cost]]
                /\ actual' = actual \cup RequestIds(turn)
                /\ read' = read + 1
                /\ UNCHANGED verdict
           ELSE Refused
  /\ UNCHANGED <<package, seals, amendments>>

-----------------------------------------------------------------------------
(* prerequisites and reproduction. *)

\* _LOCAL: what is checked on the spot, and for which capability; and _REMOTE.
Local == {"browser.install", "render.health", "bing.preflight", "indexnow.validate"}
LocalFor(command) ==
  IF command \in {"browser.install", "render.health"} THEN "render-installable" ELSE "bing-indexnow"
Remote(id) ==
  IF id = "render-installable" THEN {"render.page", "render.screenshot"} ELSE {"indexnow.submit"}

PrerequisitesValid(p) ==
  /\ Range(p.prerequisites) \subseteq p.present
  /\ Cardinality(Range(p.prerequisites)) = Len(p.prerequisites)
  /\ \A r \in Range(p.prerequisites) :
       r.command \in Local /\ r.capability = LocalFor(r.command) /\ Observed(r.executed)

ReproductionValid(p) ==
  /\ {p.environment} \cup Range(p.commands) \subseteq p.present
  /\ p.environment.independent
  /\ Observed(p.environment.created)
  /\ {r.command : r \in Range(p.commands)} = Documented
  /\ Len(p.commands) = Cardinality(Documented)
  /\ \A r \in Range(p.commands) : Observed(r.executed) /\ p.environment.created <= r.executed

\* What checked_evidence reads around the observations: the benchmark before
\* them, prerequisites and reproduction after them.
CheckSections ==
  /\ verdict = "observations"
  /\ read = Len(Evidence.observations)
  /\ verdict' = IF /\ read > 0
                   /\ Evidence.benchmark \in Evidence.present
                   /\ PrerequisitesValid(Evidence)
                   /\ ReproductionValid(Evidence)
                  THEN "closures" ELSE "refused"
  /\ UNCHANGED <<package, seals, amendments, usage, actual, read>>

-----------------------------------------------------------------------------
(* _capabilities. *)

Prerequisites(c) == {r \in c.observations : r.kind = "capability_prerequisite"}
Observations(c) == {r \in c.observations : r.kind = "live_observation"}

\* _request_start: a command of an observation counts from its first request.
RequestStart(o, command) == Min({q.at : q \in {x \in o.normalized.requests : x.command = command}})

\* _closure_rows.
Executions(c) ==
  {[command |-> r.command, platform |-> r.platform, job |-> r.job, at |-> r.executed] : r \in Prerequisites(c)}
  \cup UNION {{[command |-> k, platform |-> o.platform, job |-> o.job, at |-> RequestStart(o, k)] :
                 k \in o.commands} : o \in Observations(c)}

\* _render: on each platform one job, install, then health, then the smokes.
RenderJoint(c) ==
  LET on(platform) == {e \in Executions(c) : e.platform = platform}
      jobs(platform) == {e.job : e \in on(platform)}
      ordered(rows) ==
        \A i, h, s \in rows :
          i.command = "browser.install" /\ h.command = "render.health" /\ s.command \notin {"browser.install", "render.health"}
            => i.at <= h.at /\ h.at <= s.at
  IN  /\ \A platform \in {"ubuntu", "windows"} :
           /\ {e.command : e \in on(platform)} = {"browser.install", "render.health", "render.page", "render.screenshot"}
           /\ \A e, f \in on(platform) : e.job = f.job
           /\ ordered(on(platform))
      /\ jobs("ubuntu") # jobs("windows")

\* _bing: every check before the first submission, for the same URLs.
BingJoint(c) ==
  LET submitted == {e \in Executions(c) : e.command = "indexnow.submit"}
      targets == {o.target : o \in Observations(c)}
                 \cup {r.target : r \in {x \in Prerequisites(c) : x.command = "indexnow.validate"}}
  IN  /\ {e.command : e \in Executions(c)} = {"bing.preflight", "indexnow.validate", "indexnow.submit"}
      /\ \A e \in Executions(c) \ submitted, s \in submitted : e.at <= s.at
      /\ Cardinality(targets) = 1

\* closure_prerequisites, with _local_uniqueness.
JointlyProven(id, c) ==
  id \in {"render-installable", "bing-indexnow"} =>
    /\ \A r \in Prerequisites(c) : r.capability = id
    /\ \A o \in Observations(c) : o.commands \subseteq Remote(id)
    /\ \A q, r \in Prerequisites(c) : q.command = r.command /\ q.platform = r.platform => q = r
    /\ IF id = "render-installable" THEN RenderJoint(c) ELSE BingJoint(c)

Commands(r) == IF r.kind = "live_observation" THEN r.commands ELSE {r.command}

ObservedAt(r) ==
  IF r.kind \in {"reproduction_command", "capability_prerequisite"} THEN r.executed ELSE r.observed

\* _closure_observations and _closure_chronology.
ClosureValid(p, id, c) ==
  /\ c.id = id
  /\ c.observations \subseteq p.present
  /\ CASE id \in External ->
            /\ c.execution_gate = "live_authorized_smokes"
            /\ c.observations \subseteq Range(p.observations) \cup Range(p.prerequisites)
            /\ Required[id] \subseteq UNION {Commands(r) : r \in c.observations}
            /\ JointlyProven(id, c)
       [] id = "documentation-install-success" ->
            c.execution_gate = "external_reproduction" /\ c.observations = Range(p.commands)
       [] OTHER ->
            /\ c.execution_gate = "external_reproduction"
            /\ \A r \in c.observations : r.kind = "community_observation" /\ Observed(r.observed)
  /\ Observed(c.observed)
  /\ \A r \in c.observations : ObservedAt(r) <= c.observed

\* What the reader has used at the end: an observation with its four records,
\* a closure itself, and the observations of the community.
Used(p) ==
  LET closed == UNION {p.closures[id] : id \in DOMAIN p.closures}
      observations == Range(p.observations)
  IN  closed \cup observations \cup (UNION {Refs(o) : o \in observations})
      \cup Range(p.prerequisites) \cup Range(p.commands) \cup {p.environment, p.benchmark}
      \cup {r \in UNION {c.observations : c \in closed} : r.kind = "community_observation"}

\* Every capability once, then no record is left over (reader.finish).
CheckClosures ==
  /\ verdict = "closures"
  /\ verdict' =
       IF /\ DOMAIN Evidence.closures = Capability
          /\ Evidence.closures[Distribution] = {}
          /\ \A id \in Capability \ {Distribution} :
               /\ Evidence.closures[id] # {}
               /\ \A c \in Evidence.closures[id] : c \in Evidence.present /\ ClosureValid(Evidence, id, c)
          /\ Used(Evidence) = Evidence.present
         THEN "executions" ELSE "refused"
  /\ UNCHANGED <<package, seals, amendments, usage, actual, read>>

-----------------------------------------------------------------------------
(* job_claims, then _authenticate_executions with authenticate_jobs. *)

Claims(p) ==
  {[job |-> r.job, platform |-> r.platform, at |-> r.executed] : r \in Range(p.prerequisites)}
  \cup UNION {{[job |-> o.job, platform |-> o.platform, at |-> t] :
                 t \in {o.observed} \cup {q.at : q \in o.normalized.requests}} : o \in Range(p.observations)}

\* _job_claim.
ClaimHolds(claim) ==
  /\ claim.job \in DOMAIN ProducerJobs
  /\ LET job == ProducerJobs[claim.job]
     IN  /\ job.succeeded
         /\ job.platform = claim.platform
         /\ Current(job.end)
         /\ job.start - Skew <= claim.at /\ claim.at <= job.end + Skew

SealHolds(gate) ==
  /\ seals[gate] # NoSeal
  /\ Sealable(Evidence, gate)
  /\ Seal(Packages[seals[gate]], gate) = Seal(Evidence, gate)

\* authenticate_jobs: a job has one platform in all the claims about it.
AuthenticateJobs(claims) ==
  /\ \A claim \in claims : ClaimHolds(claim)
  /\ \A a, b \in claims : a.job = b.job => a.platform = b.platform

AuthenticateExecutions ==
  /\ verdict = "executions"
  /\ verdict' = IF /\ \A gate \in Gate : SealHolds(gate)
                   /\ AuthenticateJobs(Claims(Evidence))
                  THEN "accepted" ELSE "refused"
  /\ UNCHANGED <<package, seals, amendments, usage, actual, read>>

EvidenceNext ==
  \/ \E gate \in Gate : ExecuteGate(gate)
  \/ AmendPackage \/ BeginCheck
  \/ CheckObservation \/ CheckSections \/ CheckClosures \/ AuthenticateExecutions

EvidenceSpec == EvidenceInit /\ [][EvidenceNext]_evidenceVars

-----------------------------------------------------------------------------
EvidenceTypeOK ==
  /\ package \in DOMAIN Packages
  /\ seals \in [Gate -> DOMAIN Packages \cup {NoSeal}]
  /\ amendments \in 0..MaxAmendments
  /\ verdict \in {"open", "observations", "closures", "executions", "accepted", "refused"}
  /\ read \in 0..Len(Evidence.observations)

\* Nothing was slipped in around the producers: in an accepted package every
\* record lies under the seal of one of the three executions, whoever changed
\* the package between them (publication_evidence.py:58-74, 94-131, 308).
EveryRecordSealed ==
  \A r \in Evidence.present :
    \E gate \in Gate : seals[gate] # NoSeal /\ r \in Seal(Packages[seals[gate]], gate).records

\* No request of the observations is counted twice (publication_evidence_records.py:165-220).
RequestsOnce ==
  \A o1, o2 \in Range(Evidence.observations) : RequestIds(o1) \cap RequestIds(o2) # {} => o1 = o2

\* The sum of the first n amounts, for each n.
RunningSum(amounts) ==
  LET sum[n \in 0..Len(amounts)] == IF n = 0 THEN 0 ELSE sum[n - 1] + amounts[n]
  IN  sum

\* What each observation took of a grant.
RequestsUnder(grant) ==
  [i \in DOMAIN Evidence.observations |->
     LET o == Evidence.observations[i]
     IN  IF o.authorization = grant THEN Cardinality(RequestIds(o)) ELSE 0]
CostUnder(grant) ==
  [i \in DOMAIN Evidence.observations |->
     LET o == Evidence.observations[i]
     IN  IF o.authorization = grant THEN o.normalized.cost ELSE 0]

\* Over all of the observations together no grant is overdrawn in requests or in
\* cost (publication_evidence_records.py:165-220).
GrantsKept ==
  LET observations == Evidence.observations
  IN  \A grant \in {o.authorization : o \in Range(observations)} :
        /\ RunningSum(RequestsUnder(grant))[Len(observations)] <= grant.maxRequests
        /\ RunningSum(CostUnder(grant))[Len(observations)] <= grant.maxCost

\* The render smokes were done for real: on each platform, in one successful job
\* of that platform, no request before the health check and no health check before
\* the installation (publication_prerequisites.py:142-204, publication_jobs.py:46-67).
SmokesInOrder ==
  LET on(platform) == {o \in Range(Evidence.observations) :
                          o.platform = platform /\ o.commands \cap {"render.page", "render.screenshot"} # {}}
      setup(platform, command) == {r \in Range(Evidence.prerequisites) : r.platform = platform /\ r.command = command}
  IN  \A platform \in {"ubuntu", "windows"} :
        \E job \in DOMAIN ProducerJobs, i \in setup(platform, "browser.install"), h \in setup(platform, "render.health") :
          /\ ProducerJobs[job].succeeded /\ ProducerJobs[job].platform = platform
          /\ i.job = job /\ h.job = job /\ i.executed <= h.executed
          /\ \E o \in on(platform) : o.job = job /\ \A q \in o.normalized.requests : h.executed <= q.at

\* An accepted package is what its producers sealed, and what it shows was done was
\* permitted, paid for and done in order.
AcceptedIsSealed ==
  verdict = "accepted" =>
    /\ EveryRecordSealed
    /\ RequestsOnce
    /\ GrantsKept
    /\ "render-installable" \in External => SmokesInOrder
=============================================================================
