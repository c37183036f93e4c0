----------------------------- MODULE Capabilities -----------------------------
(***************************************************************************)
(* Which commands the repository may call verified against live providers: *)
(* seoctl/capability_certification.py, the registry of claims that         *)
(* scripts/generate_capability_evidence_registry.py writes and checks, and *)
(* the skills of runtime/capability_resolver.py.                           *)
(*                                                                         *)
(* Sources, receipts and evidence are files of a work tree over a git      *)
(* history; people edit, commit, go back, issue receipts, and make slips.  *)
(* A text is a number; a digest is what it was made of; a time is a day,   *)
(* as _time_errors compares with the last instant of one.                  *)
(***************************************************************************)
EXTENDS Integers, Sequences

CONSTANTS
  SourceFile,       \* the files that profiles name; "contract" and "commands" are among them
  SourceText,       \* what a file may hold; 0 is a file that is missing
  ContractOf,       \* the certification contract a text of "contract" spells
  CommandsOf,       \* the effective command registry a text of "commands" spells
  AgentRow,         \* the capability registry and its overlay, per agent
  Catalog,          \* the skills of the catalog
  ReceiptFile,      \* names of receipt files
  ReceiptId,        \* and of their directories of evidence
  LastDay, MaxRevisions, MaxFileEdits, MaxIssues, MaxReceiptSlips,     \* bounds
  NoReceiptFile

ASSUME ReceiptsAssumption ==
  /\ {"contract", "commands"} \subseteq SourceFile
  /\ {LastDay, MaxRevisions, MaxFileEdits, MaxIssues, MaxReceiptSlips} \subseteq Nat

VARIABLES
  workTree, stagedTree,    \* the files, and the index
  treeOf,                  \* the trees of all commits, by number
  headCommit,
  receiptAt,               \* the receipts in the work tree
  evidenceOf,              \* how often each directory of evidence was written
  certDay,
  published,               \* the generated registry of claims
  certAnswer,              \* what the last check said, until something changes
  certCounts               \* edits, issues and slips so far

certVars ==
  <<workTree, stagedTree, treeOf, headCommit, receiptAt, evidenceOf, certDay, published, certAnswer, certCounts>>

Contract == ContractOf[workTree["contract"]]
Commands == CommandsOf[workTree["commands"]]
Profiles == {Contract.profiles[i] : i \in DOMAIN Contract.profiles}
Receipts == {f \in ReceiptFile : receiptAt[f] # NoReceiptFile}

-----------------------------------------------------------------------------
(* The contract.                                                            *)

NetworkCommands == {c \in DOMAIN Commands.specs : Commands.specs[c].network # "none"}

ValidConfiguration ==
  LET rows == Contract.profiles
  IN  /\ \A i, j \in DOMAIN rows :
           i # j => rows[i].id # rows[j].id /\ rows[i].capabilities \cap rows[j].capabilities = {}
      /\ \A p \in Profiles :
           /\ p.writes => p.needsWrite
           /\ \A s \in p.relevant : workTree[s] # 0
      /\ UNION {p.capabilities : p \in Profiles} = NetworkCommands

ProfileOf(capability) == CHOOSE p \in Profiles : capability \in p.capabilities

FingerprintAt(tree, p) == [s \in p.relevant |-> tree[s]]

\* Mutation: the head's sources, whatever the files hold.
FingerprintOfHead(p) == FingerprintAt(treeOf[headCommit], p)

\* The head's sources where git sees no difference, else the files.
ImplementationFingerprint(p) ==
  LET head == FingerprintAt(treeOf[headCommit], p)
  IN  IF FingerprintAt(workTree, p) = FingerprintAt(stagedTree, p) /\ FingerprintAt(stagedTree, p) = head
      THEN head ELSE FingerprintAt(workTree, p)

-----------------------------------------------------------------------------
(* A receipt.                                                               *)

SourceBound(r, p) ==
  /\ \A s \in p.relevant : treeOf[r.tested][s] # 0
  /\ r.fingerprint = FingerprintAt(treeOf[r.tested], p)
  /\ r.fingerprint = ImplementationFingerprint(p)

ProfileBound(r, p) ==
  /\ r.profile = <<p.id, p.version>>
  /\ r.target = r.authorized
  /\ SourceBound(r, p)
  /\ p.needsCost => r.costApproved
  /\ p.needsWrite => r.writeApproved
  /\ ~p.writes => ~r.writeApproved

Timely(r) ==
  /\ r.issued <= certDay
  /\ r.issued < r.expires
  /\ r.expires - r.issued <= Contract.maxAge
  /\ certDay < r.expires

EvidenceIsBound(r) == r.evidence = evidenceOf[r.id] /\ r.evidenceTested = r.tested

IssuerFits(r) ==
  IF r.kind = "local_candidate" THEN r.status = "CANDIDATE" /\ ~r.attested
                                ELSE r.status = "PASS" /\ r.attested

ValidReceipt(r) ==
  /\ \E p \in Profiles : r.capability \in p.capabilities /\ ProfileBound(r, p)
  /\ Timely(r) /\ EvidenceIsBound(r) /\ IssuerFits(r)
  /\ r.sealed

TrustedForPromotion(r) == FALSE

CertificationHolds ==
  /\ ValidConfiguration
  /\ \A f \in Receipts : ValidReceipt(receiptAt[f])
  /\ \A f, g \in Receipts : f # g => receiptAt[f].capability # receiptAt[g].capability

CurrentCapabilities ==
  {receiptAt[f].capability : f \in {g \in Receipts : TrustedForPromotion(receiptAt[g])}}

-----------------------------------------------------------------------------
(* The registry of claims.                                                  *)

AgentSkills(a) == AgentRow[a].skills \cup AgentRow[a].overlay

Participants(c) == {a \in DOMAIN Commands.agents : c \in Commands.agents[a] \cup Commands.additions[a]}

Coherent ==
  /\ DOMAIN Commands.agents = DOMAIN AgentRow
  /\ \A a \in DOMAIN Commands.agents : Commands.agents[a] \cup Commands.additions[a] \subseteq DOMAIN Commands.specs
  /\ \A c \in DOMAIN Commands.specs :
       Commands.specs[c].owner \in Participants(c) /\ Commands.specs[c].skills \subseteq Catalog

CommandRow(c) ==
  LET spec == Commands.specs[c]
  IN  [owner |-> spec.owner,
       live |-> spec.network # "none",
       aligned |-> {a \in Participants(c) : spec.skills \subseteq AgentSkills(a)},
       provider |-> c \in CurrentCapabilities,
       ceiling |-> IF c \in CurrentCapabilities THEN "LIVE_VERIFIED"
                   ELSE IF c = "audit.technical" THEN "FIXTURE_VERIFIED"
                   ELSE IF spec.network # "none" THEN "LIVE_CAPABLE_NOT_VERIFIED" ELSE "REGISTRY_VERIFIED"]

SkillRow(s) ==
  LET backing == {c \in DOMAIN Commands.specs : s \in Commands.specs[c].skills}
      live == backing \cap NetworkCommands
      verified == live # {} /\ live \subseteq CurrentCapabilities
  IN  [backing |-> backing,
       delivery |-> IF backing # {} THEN "COMMAND_BACKED"
                    ELSE IF \E a \in DOMAIN AgentRow : s \in AgentSkills(a) THEN "RUNTIME_CONTEXT"
                    ELSE "DOCUMENTED_ONLY",
       ceiling |-> IF verified THEN "LIVE_VERIFIED"
                   ELSE IF s = "product-proof-technical-audit" THEN "FIXTURE_VERIFIED"
                   ELSE IF live # {} THEN "LIVE_CAPABLE_NOT_VERIFIED"
                   ELSE IF backing # {} THEN "REGISTRY_VERIFIED" ELSE "DOCUMENTED_ONLY"]

Claims ==
  [commands |-> [c \in DOMAIN Commands.specs |-> CommandRow(c)], skills |-> [s \in Catalog |-> SkillRow(s)]]

\* build raises where the certification has an error or the inventories disagree.
Buildable == CertificationHolds /\ Coherent

Generate ==
  /\ published' = IF Buildable THEN Claims ELSE published
  /\ certAnswer' = "none"
  /\ UNCHANGED <<workTree, stagedTree, treeOf, headCommit, receiptAt, evidenceOf, certDay, certCounts>>

Check ==
  /\ certAnswer' = IF Buildable /\ published = Claims THEN "current" ELSE "refused"
  /\ UNCHANGED <<workTree, stagedTree, treeOf, headCommit, receiptAt, evidenceOf, certDay, published, certCounts>>

-----------------------------------------------------------------------------
(* The people and git.                                                      *)

EditFile(s) ==
  /\ certCounts.edits < MaxFileEdits
  /\ \E text \in SourceText \ {workTree[s]} : workTree' = [workTree EXCEPT ![s] = text]
  /\ certCounts' = [certCounts EXCEPT !.edits = @ + 1]
  /\ certAnswer' = "none"
  /\ UNCHANGED <<stagedTree, treeOf, headCommit, receiptAt, evidenceOf, certDay, published>>

StageAll ==
  /\ stagedTree # workTree
  /\ stagedTree' = workTree
  /\ certAnswer' = "none"
  /\ UNCHANGED <<workTree, treeOf, headCommit, receiptAt, evidenceOf, certDay, published, certCounts>>

Commit ==
  /\ Len(treeOf) < MaxRevisions /\ stagedTree # treeOf[headCommit]
  /\ treeOf' = Append(treeOf, stagedTree)
  /\ headCommit' = Len(treeOf')
  /\ certAnswer' = "none"
  /\ UNCHANGED <<workTree, stagedTree, receiptAt, evidenceOf, certDay, published, certCounts>>

\* A switch to another commit, which git allows without open changes.
Switch ==
  /\ workTree = stagedTree /\ stagedTree = treeOf[headCommit]
  /\ \E c \in DOMAIN treeOf \ {headCommit} :
       headCommit' = c /\ workTree' = treeOf[c] /\ stagedTree' = treeOf[c]
  /\ certAnswer' = "none"
  /\ UNCHANGED <<treeOf, receiptAt, evidenceOf, certDay, published, certCounts>>

\* The receipt of an operator's live run on the files as they are; approvals may
\* be missing.
Candidate(c, i, cost, write, lifetime) ==
  LET p == ProfileOf(c)
  IN  [id |-> i, capability |-> c, profile |-> <<p.id, p.version>>, target |-> "site",
       authorized |-> "site", tested |-> headCommit, fingerprint |-> ImplementationFingerprint(p),
       issued |-> certDay, expires |-> certDay + lifetime, costApproved |-> cost,
       writeApproved |-> write, kind |-> "local_candidate", status |-> "CANDIDATE",
       attested |-> FALSE, evidence |-> evidenceOf[i] + 1, evidenceTested |-> headCommit,
       sealed |-> TRUE, genuine |-> TRUE, ran |-> workTree]

Issue(f) ==
  /\ receiptAt[f] = NoReceiptFile /\ ValidConfiguration /\ certCounts.issues < MaxIssues
  /\ \E c \in NetworkCommands, i \in ReceiptId, cost, write \in BOOLEAN, lifetime \in 1..2 :
       /\ evidenceOf' = [evidenceOf EXCEPT ![i] = @ + 1]
       /\ receiptAt' = [receiptAt EXCEPT ![f] = Candidate(c, i, cost, write, lifetime)]
  /\ certCounts' = [certCounts EXCEPT !.issues = @ + 1]
  /\ certAnswer' = "none"
  /\ UNCHANGED <<workTree, stagedTree, treeOf, headCommit, certDay, published>>

Withdraw(f) ==
  /\ receiptAt[f] # NoReceiptFile
  /\ receiptAt' = [receiptAt EXCEPT ![f] = NoReceiptFile]
  /\ certAnswer' = "none"
  /\ UNCHANGED <<workTree, stagedTree, treeOf, headCommit, evidenceOf, certDay, published, certCounts>>

\* What a slip makes of a receipt: a later expiry, the sources as they are now,
\* another capability or target, a claim to an external issuer.
Amended(r) ==
  {[r EXCEPT !.expires = @ + 1],
   [r EXCEPT !.tested = headCommit, !.evidenceTested = headCommit,
             !.fingerprint = FingerprintAt(workTree, ProfileOf(r.capability))],
   [r EXCEPT !.target = "other"],
   [r EXCEPT !.kind = "external_attestation", !.status = "PASS", !.attested = TRUE]}
  \cup {[r EXCEPT !.capability = c] : c \in NetworkCommands \ {r.capability}}

\* A receipt is changed, with its digest or without, or copied to another name;
\* evidence is written over.
ReceiptSlip ==
  /\ certCounts.slips < MaxReceiptSlips
  /\ \/ /\ ValidConfiguration
        /\ \E f \in Receipts, anew \in BOOLEAN :
             /\ receiptAt[f].capability \in NetworkCommands
             /\ \E r \in Amended(receiptAt[f]) :
                  receiptAt' = [receiptAt EXCEPT ![f] = [r EXCEPT !.sealed = anew, !.genuine = ~anew]]
        /\ UNCHANGED evidenceOf
     \/ /\ \E f \in Receipts, g \in ReceiptFile \ Receipts :
             receiptAt' = [receiptAt EXCEPT ![g] = receiptAt[f]]
        /\ UNCHANGED evidenceOf
     \/ /\ \E i \in ReceiptId : evidenceOf' = [evidenceOf EXCEPT ![i] = @ + 1]
        /\ UNCHANGED receiptAt
  /\ certCounts' = [certCounts EXCEPT !.slips = @ + 1]
  /\ certAnswer' = "none"
  /\ UNCHANGED <<workTree, stagedTree, treeOf, headCommit, certDay, published>>

DayPasses ==
  /\ certDay < LastDay
  /\ certDay' = certDay + 1
  /\ certAnswer' = "none"
  /\ UNCHANGED <<workTree, stagedTree, treeOf, headCommit, receiptAt, evidenceOf, published, certCounts>>

CertInit ==
  /\ workTree = [s \in SourceFile |-> 1] /\ stagedTree = workTree
  /\ treeOf = <<workTree>> /\ headCommit = 1
  /\ receiptAt = [f \in ReceiptFile |-> NoReceiptFile]
  /\ evidenceOf = [i \in ReceiptId |-> 0]
  /\ certDay = 0
  /\ published = [commands |-> <<>>, skills |-> <<>>]
  /\ certAnswer = "none"
  /\ certCounts = [edits |-> 0, issues |-> 0, slips |-> 0]

CertNext ==
  \/ Generate \/ Check \/ StageAll \/ Commit \/ Switch \/ ReceiptSlip \/ DayPasses
  \/ \E s \in SourceFile : EditFile(s)
  \/ \E f \in ReceiptFile : Issue(f) \/ Withdraw(f)

CertSpec == CertInit /\ [][CertNext]_certVars

-----------------------------------------------------------------------------
\* Where the check of the registry passes, the registry claims nothing of a live
\* provider and names the commands of the work tree with their network; and each
\* receipt beside it was issued by now and has not expired, under the age the
\* contract allows today, is the only one of its command, and has the evidence it
\* was issued with.  What was not rewritten with a new digest ran on the very
\* sources that are there now and under this contract, whatever was edited,
\* committed or gone back to since, and had the approvals its profile asks for
\* (capability_certification.py:113-137, 215-235, 359-387;
\* generate_capability_evidence_registry.py:278-352).
CheckedIsCurrent ==
  certAnswer = "current" =>
    /\ DOMAIN published.commands = DOMAIN Commands.specs
    /\ \A c \in DOMAIN published.commands :
         /\ published.commands[c].ceiling # "LIVE_VERIFIED" /\ ~published.commands[c].provider
         /\ published.commands[c].live = (c \in UNION {p.capabilities : p \in Profiles})
    /\ \A s \in DOMAIN published.skills : published.skills[s].ceiling # "LIVE_VERIFIED"
    /\ \A f \in Receipts :
         LET r == receiptAt[f]
         IN  /\ r.issued <= certDay /\ certDay < r.expires /\ r.expires - r.issued <= Contract.maxAge
             /\ \A g \in Receipts \ {f} : receiptAt[g].capability # r.capability
             /\ r.evidence = evidenceOf[r.id]
             /\ r.genuine => \E p \in Profiles :
                               /\ p.id = r.profile[1] /\ r.capability \in p.capabilities
                               /\ \A s \in p.relevant : r.ran[s] = workTree[s]
                               /\ p.needsCost => r.costApproved
                               /\ p.writes <=> r.writeApproved

=============================================================================
