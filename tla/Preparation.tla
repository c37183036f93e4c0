----------------------------- MODULE Preparation ----------------------------
(***************************************************************************)
(* The preparation workflow (src/.github/workflows/prepare-publication.yml *)
(* with scripts/publication_prepare.py) and what download_candidate makes  *)
(* of its product (scripts/publication_bundle.py, publication_provider.py):*)
(* one run of two jobs, its reruns, canonical validation and main moving   *)
(* on meanwhile, and a consumer whose reads happen one after the other.    *)
(* The run is on the commit main had when it was dispatched, and so is all *)
(* validation that matters.  The attempts of the run do not overlap (lines *)
(* 14-16 of the workflow).  A clock unit is longer than the tolerated skew.*)
(***************************************************************************)
EXTENDS Naturals, Sequences, SequencesExt

CONSTANTS MaxAttempts,  \* bound: attempts of the run
          MaxCi,        \* bound: attempts of the commit's canonical validation
          LastTime,     \* bound: the clock is in 0..LastTime
          PreparedTtl, EvidenceTtl, Retention

ASSUME PreparationAssumption ==
    /\ {MaxAttempts, MaxCi, LastTime} \subseteq Nat
    /\ {PreparedTtl, EvidenceTtl, Retention} \subseteq Nat \ {0}

VARIABLES prepClock,
          moved,       \* main has moved on from the commit of the run
          validation,  \* the attempts of the commit's canonical validation
          attempts,    \* the attempts of the run, oldest first
          artifacts,   \* what the provider stores
          attested,    \* attestations: [subject, number]
          worker,      \* the process of the running job
          consumer,    \* the process that selects a candidate
          accepted     \* what download_candidate returned (history)

prepVars == <<prepClock, moved, validation, attempts, artifacts, attested, worker, consumer, accepted>>

Idle == [pc |-> "idle"]
Latest == Len(attempts)
Running == Latest > 0 /\ attempts[Latest].state = "running"

-----------------------------------------------------------------------------
\* fresh_window and require_fresh, at the time the verification was entered.
Fresh(times, now, ttl) == \A t \in times : t <= now /\ now < t + ttl

\* authenticate_ci: the source is main, and the latest attempt of its
\* validation is the one named and a success.
Validated(number, now) ==
    /\ ~moved
    /\ number = Len(validation)
    /\ validation[number].state = "success"
    /\ Fresh({validation[number].start, validation[number].end}, now, EvidenceTtl)

\* The instants before which all that was verified of a candidate is valid
\* (TemporalProof): the time proof holds while the clock is below each.
Expiries(artifact, times) ==
    LET s == artifact.subject
        ci == validation[s.ci]
    IN  {s.at + PreparedTtl, artifact.at + PreparedTtl, artifact.at + Retention,
         ci.start + EvidenceTtl, ci.end + EvidenceTtl} \cup {t + PreparedTtl : t \in times}

AssertCurrent(limits) == \A t \in limits : prepClock < t

\* build_subject.  The payload is in the digests of the subject, so bytes of
\* another build are another subject.
Subject(number, ci, now) == [number |-> number, ci |-> ci, at |-> now]

\* unpack_candidate: an archive is its subject and the bytes it names, or is
\* refused; what is left to refuse is one that is too old.
Unpacked(artifact, now) == Fresh({artifact.subject.at}, now, PreparedTtl)

\* verify_bytes and verify_attestation, for every file of the candidate: signed
\* by the attempt that the subject names.
Signed(subject) == [subject |-> subject, number |-> subject.number] \in attested

-----------------------------------------------------------------------------
PreparationInit ==
    /\ prepClock = 0 /\ moved = FALSE
    /\ validation = <<>>
    /\ attempts = <<>> /\ artifacts = {} /\ attested = {} /\ accepted = {}
    /\ worker = Idle /\ consumer = Idle

\* The owner dispatches the run on main; after an attempt has ended, he may
\* rerun all its jobs, or, if one failed, the failed ones: a build that
\* succeeded is then carried over as it was, with its outputs.
StartAttempt(onlyFailed) ==
    /\ Latest < MaxAttempts /\ ~Running
    /\ Latest = 0 => ~moved
    /\ onlyFailed => Latest > 0 /\ attempts[Latest].state = "failure"
    /\ LET build == IF onlyFailed THEN attempts[Latest].build ELSE [state |-> "queued"]
           carried == build.state = "success"
       IN  /\ attempts' = Append(attempts,
                [state |-> "running", start |-> prepClock, end |-> prepClock,
                 build |-> IF carried THEN build ELSE [state |-> "queued"]])
           /\ worker' = [pc |-> IF carried THEN "attest" ELSE "build"]
    /\ UNCHANGED <<prepClock, moved, validation, artifacts, attested, consumer, accepted>>

EndAttempt(state) ==
    /\ attempts' = [attempts EXCEPT ![Latest].state = state, ![Latest].end = prepClock]
    /\ worker' = Idle

\* Any step of a job may fail; a check that does not hold makes it fail.
JobFails ==
    /\ Running
    /\ EndAttempt("failure")
    /\ UNCHANGED <<prepClock, moved, validation, artifacts, attested, consumer, accepted>>

\* workflow_context: the run and job of the environment are the ones running.
JobBegins(from, to) ==
    /\ worker.pc = from
    /\ ~moved
    /\ worker' = [pc |-> to, now |-> prepClock]
    /\ UNCHANGED <<prepClock, moved, validation, attempts, artifacts, attested, consumer, accepted>>

\* prepare_candidate authenticates the validation and then builds.
BuildValidates ==
    /\ worker.pc = "validate"
    /\ \E number \in DOMAIN validation :
        /\ Validated(number, worker.now)
        /\ worker' = [pc |-> "upload", now |-> worker.now, ci |-> number]
    /\ UNCHANGED <<prepClock, moved, validation, attempts, artifacts, attested, consumer, accepted>>

\* The subject carries the time at which prepare_candidate was entered.
UploadBuild ==
    /\ worker.pc = "upload"
    /\ LET made == [name |-> "publication-build", at |-> prepClock,
                    subject |-> Subject(Latest, worker.ci, worker.now)]
       IN  /\ artifacts' = artifacts \cup {made}
           /\ attempts' = [attempts EXCEPT ![Latest].build =
                 [state |-> "success", start |-> worker.now, end |-> prepClock, output |-> made]]
    /\ worker' = [pc |-> "attest"]
    /\ UNCHANGED <<prepClock, moved, validation, attested, consumer, accepted>>

\* Mutation: whatever build the run has succeeded with is taken over.
OwnBuildOfRun(build) == build.output.subject.number <= Latest

\* _verified_build_files: the handed-over bytes name this attempt.
OwnBuild(build) == build.output.subject.number = Latest

\* _verified_build_files up to authenticate_ci.
AttestReadsBuild ==
    LET build == attempts[Latest].build
        made == build.output
    IN  /\ worker.pc = "handoff"
        /\ Fresh({build.start, build.end, made.at}, worker.now, PreparedTtl)
        /\ worker.now < made.at + Retention
        /\ build.start <= made.at /\ made.at <= build.end
        /\ Unpacked(made, worker.now)
        /\ OwnBuild(build)
        /\ worker' = [worker EXCEPT !.pc = "revalidate"]
        /\ UNCHANGED <<prepClock, moved, validation, attempts, artifacts, attested, consumer, accepted>>

\* The rest of verify_build: only bytes that are current by the clock are written.
AttestValidates ==
    LET build == attempts[Latest].build
        subject == build.output.subject
    IN  /\ worker.pc = "revalidate"
        /\ Validated(subject.ci, worker.now)
        /\ AssertCurrent(Expiries(build.output, {build.start, build.end}))
        /\ worker' = [pc |-> "sign", subject |-> subject]
        /\ UNCHANGED <<prepClock, moved, validation, attempts, artifacts, attested, consumer, accepted>>

\* actions/attest signs for the attempt it runs in.
Attest ==
    /\ worker.pc = "sign"
    /\ attested' = attested \cup {[subject |-> worker.subject, number |-> Latest]}
    /\ worker' = [worker EXCEPT !.pc = "preserve"]
    /\ UNCHANGED <<prepClock, moved, validation, attempts, artifacts, consumer, accepted>>

UploadCandidate ==
    /\ worker.pc = "preserve"
    /\ artifacts' = artifacts \cup {[name |-> "publication-candidate", at |-> prepClock, subject |-> worker.subject]}
    /\ \/ EndAttempt("success")
       \/ worker' = [pc |-> "uploaded"] /\ UNCHANGED attempts
    /\ UNCHANGED <<prepClock, moved, validation, attested, consumer, accepted>>

-----------------------------------------------------------------------------
\* download_candidate: the archive and its subject.  seen is how the world
\* was when the consumer began (history); the first success is the last call.
Select(artifact) ==
    /\ consumer = Idle /\ accepted = {}
    /\ prepClock < artifact.at + Retention
    /\ Unpacked(artifact, prepClock)
    /\ consumer' = [pc |-> "preparation", now |-> prepClock, artifact |-> artifact,
                    seen |-> [moved |-> moved, number |-> Latest, ci |-> Len(validation)]]
    /\ UNCHANGED <<prepClock, moved, validation, attempts, artifacts, attested, worker, accepted>>

\* Mutation: the attempt that is named is enough, whatever was run after it.
PreparedByAny(artifact, now) ==
    LET own == attempts[artifact.subject.number]
    IN  /\ ~moved
        /\ own.state = "success"
        /\ Fresh({own.start, own.end}, now, PreparedTtl)
        /\ artifact.name = "publication-candidate"
        /\ Fresh({artifact.at}, now, PreparedTtl)
        /\ own.start <= artifact.at /\ artifact.at <= own.end

\* authenticate_preparation: the artifact was made by the latest attempt of
\* its run, which is the one the subject names and succeeded.
Prepared(artifact, now) == artifact.subject.number = Latest /\ PreparedByAny(artifact, now)

AuthenticatePreparation ==
    /\ consumer.pc = "preparation"
    /\ Prepared(consumer.artifact, consumer.now)
    /\ LET own == attempts[consumer.artifact.subject.number]
       IN consumer' = [pc |-> "validation", now |-> consumer.now, artifact |-> consumer.artifact,
                       seen |-> consumer.seen, times |-> {own.start, own.end}]
    /\ UNCHANGED <<prepClock, moved, validation, attempts, artifacts, attested, worker, accepted>>

AuthenticateValidation ==
    /\ consumer.pc = "validation"
    /\ Validated(consumer.artifact.subject.ci, consumer.now)
    /\ consumer' = [consumer EXCEPT !.pc = "attestations"]
    /\ UNCHANGED <<prepClock, moved, validation, attempts, artifacts, attested, worker, accepted>>

\* verify_candidate_bytes, and the last assertion of authorize_candidate.
AcceptPrepared ==
    LET artifact == consumer.artifact
    IN  /\ consumer.pc = "attestations"
        /\ Signed(artifact.subject)
        /\ AssertCurrent(Expiries(artifact, consumer.times))
        /\ accepted' = accepted \cup {[artifact |-> artifact, seen |-> consumer.seen, at |-> prepClock]}
        /\ consumer' = Idle
        /\ UNCHANGED <<prepClock, moved, validation, attempts, artifacts, attested, worker>>

Reject ==
    /\ consumer # Idle
    /\ consumer' = Idle
    /\ UNCHANGED <<prepClock, moved, validation, attempts, artifacts, attested, worker, accepted>>

-----------------------------------------------------------------------------
ClockTicks ==
    /\ prepClock < LastTime
    /\ prepClock' = prepClock + 1
    /\ UNCHANGED <<moved, validation, attempts, artifacts, attested, worker, consumer, accepted>>

MainAdvances ==
    /\ ~moved
    /\ moved' = TRUE
    /\ UNCHANGED <<prepClock, validation, attempts, artifacts, attested, worker, consumer, accepted>>

ValidationStarts ==
    /\ ~moved /\ Len(validation) < MaxCi
    /\ \A i \in DOMAIN validation : validation[i].state # "running"
    /\ validation' = Append(validation, [state |-> "running", start |-> prepClock, end |-> prepClock])
    /\ UNCHANGED <<prepClock, moved, attempts, artifacts, attested, worker, consumer, accepted>>

ValidationEnds(state) ==
    /\ validation # <<>> /\ Last(validation).state = "running"
    /\ validation' = [validation EXCEPT ![Len(validation)] = [@ EXCEPT !.state = state, !.end = prepClock]]
    /\ UNCHANGED <<prepClock, moved, attempts, artifacts, attested, worker, consumer, accepted>>

PreparationNext ==
    \/ \E onlyFailed \in BOOLEAN : StartAttempt(onlyFailed)
    \/ JobFails
    \/ JobBegins("build", "validate") \/ BuildValidates \/ UploadBuild
    \/ JobBegins("attest", "handoff") \/ AttestReadsBuild \/ AttestValidates \/ Attest \/ UploadCandidate
    \/ \E a \in artifacts : Select(a)
    \/ AuthenticatePreparation \/ AuthenticateValidation \/ AcceptPrepared \/ Reject
    \/ ClockTicks \/ MainAdvances
    \/ ValidationStarts \/ \E s \in {"success", "failure"} : ValidationEnds(s)

PreparationSpec == PreparationInit /\ [][PreparationNext]_prepVars

-----------------------------------------------------------------------------
\* What is signed was built in the attempt that signs it.  What is accepted
\* was, when the consumer began, the product of the run's newest attempt, built
\* and signed there from the source that main had, and of the newest
\* validation, which had ended before the build; no rerun, no commit and no
\* delay between its reads can make it accept anything older, and it is within
\* its lifetime by the clock (publication_bundle.py:97-112,
\* publication_prepare.py:110-128, publication_freshness.py:33-38).
AcceptedIsCurrent ==
    /\ \A s \in attested : s.subject.number = s.number
    /\ \A a \in accepted :
        LET subject == a.artifact.subject
        IN  /\ ~a.seen.moved /\ a.seen.number = subject.number /\ a.seen.ci = subject.ci
            /\ a.artifact.name = "publication-candidate"
            /\ validation[subject.ci].state = "success"
            /\ validation[subject.ci].end <= subject.at
            /\ Signed(subject)
            /\ a.at < subject.at + PreparedTtl
=============================================================================
