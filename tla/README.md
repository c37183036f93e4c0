# A formal model of the World-Class SEO Agent System

The runtime in `src/` routes an SEO request to a lead agent, builds a small
directed graph of agent nodes, runs it level by level against a paid LLM under a
run budget, reconciles the handoffs between nodes and reports a status. Around
it are tool adapters, an evidence database, network guards, provider
integrations, and the pipeline that certifies, prepares and publishes a release.
These modules model the control of these parts; TLC checks them on small
instances and TLAPS proves the main results for all values of the constants.

`PROJECT.json` lists components, runs, mutants, the source lines behind every
definition, hazards, findings and theorems.

## 1. The system

| Component (src/) | State it keeps | What is hard | What makes it correct |
|---|---|---|---|
| Workflow runner, `runtime/workflow_runner.py` | node states, outputs, handoffs, status of one run | tasks interleave at awaits; one exception leaves `gather`; orphans go on | ceilings hold; a node runs only on completed dependencies; COMPLETE is earned; the run ends |
| Run budget, `runtime/run_budget.py` | counters of nodes, calls, corrections, cost | shared by sibling tasks; unknown quotes; the clock | no limit is passed |
| Structured output and sessions, `runtime/structured_output.py`, `executor.py`, `orchestrator.py`, `runtime/evidence_*.py` | attempts of one node, the session's outputs | corrections, legacy answers, failures that still become outputs | what is accepted rests on evidence that was given |
| Workflow graph, `runtime/workflow_graph.py`, `routing.py` | nodes and dependencies | two independent algorithms for depth; slices that cut | they agree; what is cut is named |
| Handoff governance, `runtime/handoff_*.py` | the session's handoff records | a session executed twice; changes from outside | PASS means every handoff was delivered |
| Finding registry, `runtime/finding_registry.py` | merged findings | the order of outputs | acceptance has evidence, and no conflict is dropped |
| Tool dispatcher, `runtime/tools.py`; LLM clients, `runtime/llm.py` | telemetry ring, pool threads | threads outlive deadlines; a lost answer is asked again | one answer per request, none after its deadline |
| Session memory, `runtime/memory.py` | a JSONL file | a crash in an append; two processes | nothing is lost in silence |
| Evidence store, `adapters/evidence_*.py`, `page_drift.py` | SQLite rows with digests | several processes; reads outside transactions | alterations stay visible; the newest survive |
| Browser egress and renderings, `security/browser_*.py`, `adapters/rendered_page.py`, `integrations/technical/browser.py` | request and byte budgets, entered scopes, image files | handler threads share a budget that is passed while the page is read; any scope may raise | the budget is never passed; what is called verified was captured whole |
| HTTP deadline, `security/http_deadline.py` | timer, sockets | the timer thread against the caller | no late result, no open socket |
| Child processes, `runtime/bounded_process*.py` | a tree of processes, pipes | descendants that fork while they are killed | what is returned is final |
| Google integrations, `integrations/google/` | pages, parts, attempts of one read | pages that end early; parts of several periods | "ok" means whole |
| IndexNow and extensions, `adapters/mcp_extensions.py`, `integrations/` | one submission | lost answers and retries | nothing leaves unconfirmed |
| Crawler and audit rules, `integrations/product_proof/`, `scripts/consent_*.py` | queue, pages, failures; findings of an audit; the consent signals of a region | three bounds at once; greedy matching; cycles; defaults overlaid signal by signal | truncation is reported; rules mean what they say |
| Publication preparation, evidence and release, `scripts/publication_*.py`, `.github/workflows/` | artifacts, attestations, sealed packages, the provider's release | lost answers, reruns, expiring authority, outside changes | one writer, approved bytes, current approvals |
| GitHub controls, `scripts/*github_controls*.py` | the provider's settings | a capture is many calls; rollback in steps | a receipt matches what was there |
| Programs and certification, `scripts/validate_*program*.py`, `validate.yml`, quality ratchet | git history, records of approvals, CI outcomes | squashes, edited comments, reruns, steps that run in changed sources | a green commit was approved, proven, and carries no new debt |
| Capability certification, `seoctl/capability_certification.py`, `scripts/generate_capability_evidence_registry.py` | receipts and evidence beside a git work tree, the registry of claims | edits, commits, switches and expiry go on beside the receipts, under a contract that is one of the sources | what the check lets pass ran on the sources that are there, and claims nothing live |
| Everything else | files or nothing | parsing, scoring, rendering; little control | see section 6 |

How they interact: `SEOOrchestrator` creates a session and routes; the runner
builds the graph, asks the dispatcher for tools, and awaits one executor per
node. The executor's structured-output loop reserves from the shared budget and
awaits the LLM client in a thread of the pool that the tools use. Its answer
resolves the handoffs addressed to the node and feeds the registry. At the end
the runner reconciles handoffs and stores status and snapshot. Adapters fetch
through the network guards and may record in the evidence store, whose file
other processes use. The release pipeline is independent of the runtime: CI
certifies a commit, the preparation builds and attests files, three producers
seal evidence about them, and the release workflow publishes what was authorized.

## 2. Plan

Done: the runner with its budget, graph and handoffs; sessions and answers; tools,
pool and LLM clients; memory, store and registry; crawler, audit rules, the
report of an audit and renderings; deadlines, egress and child processes; Google
and IndexNow; the pipeline from certification to publication. Every safety
property that a passing run checks is also a theorem; the liveness properties
stay with TLC (section 5).

## 3. Modules and code

Runtime:

| Module | Models | Correspondence |
|---|---|---|
| `RunBudget` | the run budget, also the abstract specification of the runner | `usage` = `BudgetUsage`, `late` = `check_runtime` would raise |
| `WorkflowRunner` | one run with its tasks | `pc[n]` = where the task of a node is, `slots` = the semaphore; an action is the code between two awaits |
| `WorkflowGraph` | builder, `validate`, `levels` | `remaining` as in `levels`, one turn of the loop per `PeelLevel`; `DepthFrom` = the recursion of `validate` |
| `HandoffGovernance` | the session's records over several runs | `ledger` = `session.handoffs`, field by field where a check compares it |
| `FindingRegistry` | merge, conflicts, acceptance | `records` = the merged findings, one action per finding; `looked` = how far the output has been read |
| `AgentOutput` | sessions, routing, one agent's exchange, binding, legacy answers, the report | `exchange` = the loop of `complete_agent_output`, `transcript` = session outputs, `endorsed` = what was let through |
| `DispatchContract`, `ToolDispatcher`, `ThreadPool`, `LLMClient`, `ToolSession` | the promise of `dispatch_many`; the dispatcher; the default executor; `complete` with its retries; their composition over one pool | `job` = a thread's work, which goes on after `wait_for` has given up; `request` = one task of the batch |
| `SessionMemory` | the JSONL store with a process that may end | `lines` = the file, `rewrite` = the temporary one of a deletion |

Evidence and network:

| Module | Models | Correspondence |
|---|---|---|
| `EvidenceStore` | store objects over one file | `table` = committed rows, `draft`, `writer` = an open transaction, `seen`, `doomed` = what was read before it; `left`, `snapshot` = a transaction that a failed write left open, and what it reads |
| `Crawler`, `SiteRules` | the crawl; the robots file, the walk along canonicals, the report of an audit, the consent diagnostic | `queue`, `enqueued`, `pages`, `failed`; one line, one hop, one report or one configuration per step, compared with what it means |
| `BrowserEgress` | the proxy's handler threads and exit | `slots`, `connections`, `bytesSeen` as in the class; `admitted` = every request let through, of ended handlers too |
| `PageCapture` | renderings and screenshots | `held` = the `with` stack, `taken` = what was read, `tempInode`, `imageInode` = the two names of an output |
| `HttpDeadline` | one logical operation and its timer thread | `registered`, `expired`, `timer` as in the class |
| `BoundedProcess` | one call and the processes it starts | `holders` = who has the pipe open, `contained` = group or job |
| `GoogleData`, `ProviderCalls` | reads of Google's services; IndexNow and extensions | `gathered` = pages so far, `arrivals` = what the provider took |

Pipeline:

| Module | Models | Correspondence |
|---|---|---|
| `Capabilities` | receipts, the contract and the generated claims over a git history | `workTree`, `stagedTree`, `treeOf` = the three places `_git` compares; `published` = the registry file |
| `Certification`, `QualityRatchet` | validate.yml; the contract of debt over pull requests | `outcomes` per job, `checkout` = the tree a step runs in; `trunk`, `pull` = revisions |
| `RemediationProgram`, `ExpansionProgram` | the two phased programs over git history | `history`, `commitLog`; records of approvals and reviews against what GitHub answers |
| `Preparation`, `PublicationEvidence` | the preparation's reruns and download; packages and their seals | `artifacts`, `attested`; `seals` of the three producers |
| `TrustedPublication` | the release workflow against the provider | `tag`, `release` = GitHub's state, `pc` = the call that comes next; a write may succeed and its answer be lost |
| `GithubControls` | capture and rollback of settings | `provider` = the settings, `captured` = read so far |

`MC*` modules are the small instances; `MCServices`, `MCGates` and `MCGovernance`
put several components that share no state into one run: a variable `active`
says which one a behaviour runs; `MCReads` holds the instances of everything that
reads, submits or carries evidence. `publication` needs no instance of its own.
`*Proofs` hold the theorems. What the release accepts of a provider's answer
(`scripts/publication_capability_results.py`) stands beside the answer itself, as
the `*Conforms` operators of `GoogleData`, `ProviderCalls` and `PageCapture`.

Choices a reader of the code should know:

- *Awaits are the scheduling points.* The semaphore is first in, first out and a
  level's tasks start in the order of their ids, so the longest waiter is the
  waiting node of lowest `Rank`. `gather` is called without `return_exceptions`:
  a raised run leaves orphans, which go on until the loop cancels them.
- *Validity of an answer* is a choice in `WorkflowRunner` and computed in
  `AgentOutput`, where a text is the set of its numbers and addresses.
- *Tools.* An adapter's own `TimeoutError` lands in the clause of the deadline. A
  hung adapter keeps its thread; a completion has no deadline while it waits for one.
- *SHA-256 is taken to be injective*: a digest is the record it was made of.
- *Evidence store.* Reads of `purge` and `repair_digests` are outside any
  transaction, as Python's sqlite3 opens none for a SELECT; a transaction left
  open by an exception stays open. An UPDATE that finds the database locked has
  opened one already: it stays open, and once the store reads, its reads are of
  that moment, until a write of the store commits or close rolls back. One payload and one more text stand for all columns.
- *Renderings.* The proxy is a budget that may be passed at any time. Leaving a
  scope may raise, which loses the result and leaves the others all the same.
- *Egress.* Bytes are numbered in the order in which they are counted, so that
  what has been forwarded is a set and not a sum over handlers. The request budget
  is over the life of the page: what was admitted is remembered when its handler ends.
- *Pool.* A job that is cancelled before it starts stays in the queue until a
  thread takes it and drops it, as in `ThreadPoolExecutor`.
- *Child processes.* Process numbers are not reused; on POSIX a descendant that
  leaves the session is outside the containment.
- *Publication.* `authorize_candidate` is one reading of one fact. Attempts do
  not overlap (one concurrency group); the provider never gives an asset id twice.
- *Preparation.* The clock's unit is longer than the allowed skew; rows that a
  rerun carries over are taken permissively. *Packages* are enumerated, the cases
  of the benchmark are one record, the skew is 0.
- *GitHub controls.* The alerts endpoint answers 404 when alerts are off; fields
  that only the owner attests are not live. The passing run uses a baseline with
  alerts on, as the repository's own can never be verified (see Findings).
- *Programs.* CI accepts only validated heads; a digest is a first commit; one
  evidence file stands for all; a review and its trigger comment are one event.
- *Capabilities.* A digest is what it was made of; a time is a day. A slip that
  rewrites a receipt's digest with it is history (`genuine`), of which nothing in
  the files tells.
- *Consent.* A row of values is one of few, valid or not; texts are left out.
- *Certification* binds commands of named steps only; steps leave no process
  running, and a cancelled job counts as failed. A wheel is known by what it was
  built from: the head, other sources, or something a step left in `dist/`, which is
  uploaded whole and of which any wheel may be the first that is found.
- *Ratchet.* Debt is that of files and functions, whose ceilings are exact. Ruff's
  counts are left out: the contract only bounds them (and asks that a fingerprint
  that is gone be dropped), so between two revisions they may fall and grow again.
- *Google.* The provider's data stands still during a read; reports give a row count.

Definitions marked "Mutation" are plausible wrong versions of the definition
that follows them; nothing refers to them.

## 4. Runs

| Run | Instance and bounds | What it shows |
|---|---|---|
| `runner_parallel` | 4 supports and the lead; 2 slots, 3 calls, 1 correction, cost ceiling 4, quotes 1, 2 or unknown | EveryCeilingHolds, SnapshotIsEarlierLevels |
| `runner_handoffs` | 2 supports, lead, Scrummaster with the risk escalation, optional report; 1 slot; fairness | DependencyOrder, ReturnedHandoffsSettled, CompleteIsEarned; refinement of `RunBudget` (BudgetSpec); RunEnds |
| `tool_session` | 3 requests and a completion, 2 threads, 3 attempts; fairness | NoHiddenWork; refinement of `DispatchContract` (DispatchKeepsContract); SessionWindsUp |
| `services` | memory: 2 sessions, 4 events; deadline: 3 rounds; egress: 4 connections, 3 slots, 2 requests, 1 byte; process: 3 processes; preparation: 2 attempts, 3 ticks; controls: 2 outside changes; fairness | NoSilentLoss, InterruptedIsTimeout, BudgetNeverPassed, ReturnIsFinal, AcceptedIsCurrent, ReceiptIsTruthful; ServicesEnd |
| `gates` | see below | one property per component that lets something through |
| `governance` | remediation: 2 phases, 6 commits, 2 edits; expansion: 3 stages, 4 commits, 4 acts, 1 slip; certification: 2 legs, 2 attempts, 2 troubles; ratchet: 1 file, 3 merges of 2 commits; capabilities: 2 texts a file, 2 commits, 1 edit, 1 issue, 1 slip, 2 days | CompleteStaysApproved, CertifiedIsApproved, CertifiedIsProven, DebtNeverGrows, CheckedIsCurrent |
| `publication` | 2 prepared files, 2 attempts, 2 outside changes; fairness | OneAttemptWrites, OneLateWrite, ApprovalsAreCurrent, PublishesWhatItRead, UndisturbedRunsEnd |
| `runner_dropped`, `repair_transaction`, `memory_lines`, `rollback_verified`, `merged_stands` | as above | *violations*, see Findings |

What `gates` asks of each component:

| Component | Instance | Property |
|---|---|---|
| graph | every route with up to 8 supports, every audit with up to 3 verticals, all 4096 relations over 3 ids and a missing one | GraphsAreRunnable |
| findings | up to 3 outputs of 2 agents over 7 items of evidence | AcceptedIsSupported |
| crawler | every site of 3 addresses, a chain with a short cut, a site with 12 links; 2 pages, depth 2 | AvailableIsComplete |
| packages | records at the borders of times, grants and references; 1 amendment | AcceptedIsSealed |
| store | 2 stores, 3 ids, 2 times, 2 spellings and a broken one, 2 legacy rows, 1 outside change | StoreIsTruthful (digests tell the truth in the table and in every view of it, the newest survive a purge) |
| handoffs | lead and Scrummaster, 2 runs, 1 outside change | PassIsDelivery, VerdictIsHonest, FailuresStay |
| answers | 2 attempts, 2 calls, offline, live, legacy and file inputs | AcceptedIsGrounded |
| Google | every kind of read, 1 retry | OkIsWhole |
| submissions | 2 addresses, 2 retries, 2 units | WriteIsConfirmed |
| rules | files of up to 4 of 8 lines, patterns of length 3, all graphs of 4 pages, 3 hops; consent configurations with a default, a country and a subdivision, each of them granted, denied, partial or invalid; audits of crawls that differ from a clean one in one or two places, under registries that support a claim, no longer do, or do not know it; 4 addresses shown, 2 actions, budget from 2 pages | RulesSayWhatTheyMean |
| renderings | every call alone; two screenshots into one output | CapturesAreWhole |

Why the bounds are enough. In the runner the interesting events need two tasks
that compete, one that waits, one that is refused and a level below them; four
supports with two slots and three calls make each limit bind while another task
is in the middle of its attempts. In governance the records of a run can collide
with those of one earlier run only. In the store an interference needs a reader,
a writer and three snapshots (one kept, one doomed, one new). In publication a
second attempt can meet everything a first one leaves behind, and a file that is
replaced takes two outside changes. The page has more slots than requests and more
connections than slots, so neither the semaphore nor the number of handlers keeps
its budget for it. Two threads are fewer than the requests, so a
hung adapter makes others wait. A group of the robots file needs two agents and
two rules; a canonical cycle with a tail needs four pages. In the pipeline one
rerun, one squash and one trouble more than a protection tolerates suffice. Each
property has a mutant of the code that violates it within these bounds.

Deadlock is checked in the runner's runs only, whose `Stopped` step marks the
ends. Everywhere else, including all that shares a run with another component,
the system may come to rest: a checked graph, a finished call, a store with no
ids left, a workflow that nobody dispatches again.

TLC caches what depends on constants alone; the `MC` modules name their
enumerations twice for that, and no variable shares the name of a parameter.

**Fairness.** `runner_handoffs`: the event loop runs every ready task, and every
provider call is answered or raises, since the transport has a timeout of 120 s
and three attempts (`runtime/llm.py:176-193`); so `WF` of the coroutine and of
each node's task. Nothing is assumed of the clock or of cancellation.
`tool_session`: deadlines pass, ready callbacks and free threads run; a hung
adapter may hang, and the session is only said to wind up where none does.
`services`: threads that can step do, a timer fires after its time, a killed
process vanishes; nobody must write, connect, dispatch or change anything.
`publication`: a job that has been started runs until it ends, so `WF` of its
steps; nobody must dispatch, call the consumer, or change anything.

### Findings

- `runner_dropped`: `docs/REMEDIATION-RUNTIME-ARCHITECTURE.md:34` says every
  dependency handoff is consumed or explicitly blocked. An exception of a
  provider leaves `run` before the reconciliation, and handoffs stay CREATED.
- `repair_transaction`: `docs/evidence-cache-contract.md:216` says one
  transaction per write. A repair that raises midway leaves its transaction
  open, and the next record commits its updates too.
- `memory_lines`: `append` writes U+2028 as it is, `load` splits lines at it
  (`runtime/memory.py:67-82`): one completed append makes every later load raise.
- `rollback_verified`: the rollback's baseline has vulnerability alerts off, and
  the capture after the restore cannot read that (`capture_github_controls.py:258`);
  the PASS of `tests/test_github_controls_rollback.py:168` cannot happen.
- `merged_stands`: an approval's candidate must be an ancestor of HEAD, and main
  takes squash merges only, so what was certified in its pull request fails on main.

Three more concern what passing runs show, each against a sentence of the repository:

- `gates`, StoreIsTruthful: `src/adapters/page_drift.py:77-79` says that opening the
  store recomputes every row's digests, so that a text altered outside is taken over
  and can no longer be detected. `_backfill_row` leaves a row that has both digests
  as it is (`evidence_migrations.py:55`): the altered row keeps failing its digest
  however often stores are opened, and only a confirmed repair takes it over.
- `gates`, WriteIsConfirmed: `docs/OPTIONAL-INTEGRATIONS.md:125` says that IndexNow
  writes are never retried automatically. `submit` retries when its caller asks for
  it (`indexnow.py:125, 172-178`; 0 unless asked), and a retried write may arrive twice.
- `governance`, CertifiedIsProven:
  `evaluation/remediation/comprehensive-remediation-2026-08-01.md:21` says that CI
  verifies the exact built wheel. A wheel that a step leaves in `dist/` passes the
  source proof as untracked data, is uploaded with the rest, and may be the first
  `*.whl` of `validate.yml:655`. The property excepts it.

ReturnedHandoffsSettled is about runs that return, as its name says; what a raise
leaves behind, before or after the status is stored, is `runner_dropped`.

Observed while modelling, and not counted as findings:

- *Sessions.* A session executed a second time may be COMPLETE while its
  governance verdict is FAIL. On the router's own table a route led by the
  Strategist has it a level above the Scrummaster, against
  `docs/REMEDIATION-RUNTIME-ARCHITECTURE.md:50`. `default_governance_decision`
  approves when nothing is synthetic and there are no decisions, even where
  optional nodes failed.
- *Answers.* Numbers are bound by containment of text ("5" in "50"); a live model
  may answer in the legacy form, whose numbers are not bound (PARTIAL). A PDF that
  an earlier run left passes where the renderer returns without writing.
- *Store.* The drift wrapper ignores an integrity check that answers "failed"
  (`docs/APIVR-COMMITTED-STATE-2026-07-14.md:15` says it closes the store). A row
  whose URL was changed outside leaves its page's series; only the integrity check
  shows it. A partially hashed row that disagrees makes the constructor raise, so
  `repair_digests` cannot be reached.
- *Renderings.* Two screenshots into one output at the same time share
  `<name>.png.tmp`: the first to replace can publish the file the second has just
  emptied, and the second then raises (`docs/TECHNICAL-EXECUTION.md:71`: atomic
  replacement). An abandoned tool thread makes such a pair. The adapter answers
  "ok" with a warning when its own fetch failed and the rendering did not.
- *Google.* `GSCLiveExampleAdapter` gives the rows of one page as totals with
  status "ok" (against `gsc.py:3-5`); LCP parts of different periods are summed;
  `last_telemetry` is shared by concurrent dispatches.
- *IndexNow.* An attempt whose answer is lost is reported "failed" and may have
  been taken; a reply past the
  size limit is an input error although the submission arrived.
- *Audit.* A canonical chain whose second target has no canonical of its own is
  not a chain (`canonical_rules.py:45, 56`), and a cycle longer than the hop limit
  appears as one. The proof service's status is "complete" with failed fetches. A
  linked PDF that answers 200 is reported as a soft 404, as is all that is not HTML;
  a page reached twice, once by a redirect, shares its title with itself and is
  "duplicated"; a page that answers 401 or 403 raises nothing; the robots file of
  the start page is applied to pages of other hosts by path alone; findings about
  the head name no claims and are VERIFIED on the class ANALYSIS.
- *Consent.* A configuration without a `mode` is diagnosed as an advanced one,
  though the text of the finding says "Unknown or missing".
- *Capabilities.* Receipts of different commands of one profile may name the same
  evidence under one receipt id, where `docs/CAPABILITY-CERTIFICATION.md` prohibits
  reuse; a squash loses the tested commit, and with it the receipt. The release
  refuses the `bing.preflight` "ok" of a connected host that has no keys.
- *Pipeline.* The ratchet compares a head with the revision before its own only:
  a pull request of two commits can pass and its squash turn main red. The phase 0
  job's `sed` (`validate.yml:761`) has no space where `json.dumps` writes one, so
  its receipt is uploaded unsealed. The workflow contract binds the commands of
  named steps; a skipped certification job counts as passing; no proof follows the
  last step of a job. In the expansion program the VERIFIED of the whole program
  is unreachable, and under INDEPENDENT_REVIEW a second phase cannot close. In
  the remediation program the closure compared is the first commit after the
  snapshot, whether or not it completes the phase.

## 5. Proofs

All from the constants' assumptions in the modules: a finite acyclic graph, at
least one slot, special values that are none of the ordinary ones, names of files
and callers that differ, issues in a sequence, limits and counts that are numbers,
records of the kind their section asks for, links and answers that are finite sets
(`CrawlAssumption`, `RegistryAssumption`, `AnswersAssumption`, `GraphsAssumption`,
`EvidenceAssumption`). The replies an audit judges answer alike where they come from
the same address, and each address was asked for once, as the crawler's set of
enqueued addresses sees to; a page that changes between two requests that lead to it
is outside. No assumption fixes a size. Each
property below is also checked by a run; the theorem holds for every instance.

- `WorkflowRunnerProofs`. `TypeInv` is `TypeOK` with *free slots plus tasks in
  the executor equal max_parallel_agents*, which makes the ceiling inductive,
  and *no task is ahead of its level*. `PlaceInv` adds where tasks, outputs and
  handoffs may be before, during and behind a level; from it follow the
  dependency order, the snapshot and the settled handoffs. Every action of the
  runner is a `RunBudget` action or leaves the budget alone, which gives the
  refinement, and the ceilings with it. For CompleteIsEarned (`EarnedInv`) the
  status is tied to what the loop has counted, and every output to the attempt
  that made it.
- `HandoffGovernanceProofs`. Types for every sealed and every altered record;
  PASS is delivery directly from the empty issue sets, for any history. Honest
  verdicts and lasting failures need more: a record's id says which edge it is
  for, a record once resolved keeps its receipt, and a FAIL leaves in the ledger
  what every later reading of it finds.
  *Answers* (AnswersAreGrounded): the induction only remembers that what was
  endorsed had passed its validator; the work is in what passing means.
  *Graphs* (`LevelsInv`): the recursion of `validate` ends because a path cannot see
  more than all nodes, so that its depth is a number; without a cycle the depths
  layer the graph, whichever path asks for them, and `levels` peels layer by layer.
- `TrustedPublicationProofs`. Four inductive invariants. *Late writes*: with one
  late write done, no attempt stands between a refresh and its write.
  *Writers*: a missing tag says that nobody has written, and whoever stands
  behind the tag's creation is the only writer. *Publication*: from the readback
  of the draft to its publication the assets are the prepared ones or have been
  changed by others. *Approvals*: asset identities are given out once, so equal
  identities at the consumer's reading mean that nothing was taken away, and an
  authority that is lost for good does not authorize the answer.
  *Evidence package* (NothingIsSlippedIn, the whole of AcceptedIsSealed): the
  package stands still while it is checked, each turn's requests are apart from
  those of the turns before, and the reader leaves no record over, so that every
  record is named by a section, by a closure or by one of theirs, which is what
  the three seals reach. The sums of the grants are functions over the turns, of
  which there is one because a least turn without one would have a predecessor
  with one; usage is then the sum of what the turns used.
- `ToolSessionProofs`. An answer that says neither timeout nor cancelled has its
  job finished; work that was abandoned before it started is cancelled in the
  queue, so no thread that takes it runs it. The dispatcher with its pool and
  sessions implements `DispatchContract` step by step; the number of attempts is
  bounded by the program point of each call.
- `ServiceProofs`. *Deadline*: the timer closes sockets only after it has expired
  the deadline, and both ways out ask for it. *Egress*: counted bytes are a prefix
  of the numbers, and what a handler forwards it counted before; every request ever
  admitted was counted in `requestsSeen`, one each, and nothing takes it back. *Child process*:
  one invariant of the containment (what is alive and contained is in the group or
  job that is killed), one of the pipe. *Preparation*: what was built stays built,
  since validations, attempts and signatures are only added; the consumer's
  candidate is at most as new as what it saw when it began, and each of its later
  reads demands the newest, so that nothing can have come between.
- `CaptureProofs`. *Renderings*: every part taken was read inside the scopes that
  are still held; a temporary name has one writer or the output is contended.
  *Controls*: what a capture holds is what is there or what others have touched
  since; the judgement compares only fields of calls that were made, because as
  many calls as there are endpoints are all of them; the plan does not change
  while it is applied, and `altered` is a prefix of it.
  *Submissions*: what may be sent was checked before the first attempt and does
  not change, and what has arrived was sent, in no more attempts than were made.
  *Google*: between two requests the rows of a table are the full pages asked for
  so far, one after the other; at the end they are all there are, or the answer
  says that they are not. *Audit rules*, the four parts of
  RulesSayWhatTheyMean. ConsentMeans: every row in force replaces what was resolved
  before it, so what is reported of a signal is what the most particular row says.
  CanonicalsMean: the trail has been at exactly the first places that the
  annotations lead to, all different, so it ends where they return, stand still or
  leave the crawl. RobotsFilesMean: the matching loop has matched all between its
  last star and where it stands, and what the pattern means then holds where the
  rest may begin there, or the last star may stand for more (of the states where
  the loop is wrong the last one would go on to another: LoopIsRight); a group that
  was read to its end holds the rules of each of its agents' lines, every agent's
  line is in the open group or in one that is kept, and so the best fitting groups
  hold the rules of the best fitting agents. Where a recursion over patterns,
  hops or sets has to be solved, the smallest number without a solution is refuted.
  AuditsMean: findings are numbered within their rule, so no two have the same key
  and their ranks fill the places of the list (`SortedIsSorted`); groups, headline and
  sums follow from that order. What each rule tells is worked out one by one and put
  together (`TellsAsRuled`), the report tells the same of an address while no more
  addresses occur than a finding shows (`ToldAsRuled`), and of a page it tells what
  one record says, the records of a page being alike (`ToldAsRecorded`). The rules
  agree, and silence is earned, by comparing conditions on that record. The walks
  only add that a reported origin names another page (`WalkersAreOrigins`).
- `GovernanceProofs`. The acceptance of a phase is traced back over the history:
  what is compared are first commits, and a record that stands unedited was written
  by who it names. *Ratchet*: a green head holds no more debt than its base, and
  main is only moved to green heads. *Capabilities*: a sealed receipt that no slip
  has rewritten has the fingerprint of the sources it ran on; all else follows
  from what the check compares on the spot. *Certification* (`CertificationIInv`):
  behind a gate the checkout is what the gate asks for, so every step that is no
  gate runs on its sources (`StepIsGenuine`); a step that a job has behind it is
  proven, emptied unseen, not for this origin, or forgiven and still to be enforced
  (`StepDone`), and at a job's end only the first three are left. A build therefore
  runs on the head, so no wheel of other sources gets into `dist/`, the artifact or
  a leg (`BuiltFromTheHead`). An edit that the
  contract sees cannot be certified: whatever one place of the workflow it changes,
  the last job still asks for a job that runs the ratchets and was not edited
  (`ChecksRemain`), and that job stops there (`RatchetsHold`). The steps of the
  eight jobs are worked out place by place.
- `RecordProofs`. *Store*: one row invariant for all tables there are, stored, in a
  transaction or read by a repair: what a row's digests were made of is what the
  store was told, unless a confirmed repair took the row over; an id is of one page
  for good; and rows of an open store stand in the series of their page. A view that
  a transaction left open is one of these tables, and may be as old as it likes: what
  was stored at its moment was true then. *Purge*:
  the rows chosen have Keep newer ones in their series and keep them: of those that
  go and stand before a row, the newest still has Keep ahead, and none of these goes
  (the least of a set of numbers, no induction). *Memory*: the file holds the events
  whose append was completed or cut short, each once and in order, and each kept
  event is in it and in the rewrite that is under way. *Registry*: records say what
  the findings looked at so far say; conflicts are sought over unordered pairs of
  places, so that a record is accepted exactly when all the findings of its root
  cause are supported, in whatever order they came. *Crawler*: every address has the
  depth at which it was enqueued, the queue is in the order of these depths, and a
  page above the bound has had all its links enqueued unless there was no room; with
  nothing left and nothing failed, the pages are all that the links reach.

Only model-checked, and why:

- liveness, and the progress of the fair refinements: the prover has no fairness.

## 6. Not modelled

Text, prompts, timestamps, redaction and report layout; the
scoring of content and authority; adapters that
are one request or one file and one parse; argument parsing and construction in
`seoctl/`; single-pass validators of repository files and batch scripts that
compute a file from files. None of these keeps state between two steps or meets
another actor, so a test reaches whatever a model would. Of the partly modelled
components the notes in PROJECT.json say what is abstracted: schemas and number
formats, git commands of the rehearsals, the policy of single settings,
endpoints and payloads. Markdown agents, skills and knowledge are data; the
tables that the router and the graph read are constants of `WorkflowGraph`.
