---------------------------- MODULE QualityRatchet ----------------------------
(***************************************************************************)
(* The quality ratchet (scripts/validate_quality_ratchets.py): a contract  *)
(* in the tree holds a ceiling for the debt of each legacy file and a floor*)
(* for coverage, and every head is checked against the revision of the     *)
(* contract before its own.  Pull requests of several commits are checked  *)
(* at their heads and squashed onto main, where the result is checked again.*)
(* Debt stands for each of the metrics of files and functions: 0 is a file *)
(* that is not there.  The counts of Ruff are left out: the contract is a  *)
(* ceiling for them that need not be exact.  A pull request starts from    *)
(* the tip of main.                                                        *)
(***************************************************************************)
EXTENDS Naturals, Sequences

CONSTANTS
  RatchetFiles,  \* first-party files and functions
  DefaultCeiling, \* FILE_DEFAULTS, FUNCTION_DEFAULTS
  MaxDebt,
  MinimumFloor,  \* MINIMUM_REPOSITORY_COVERAGE
  MaxCoverage,
  MaxMerged,     \* bound: commits on main
  MaxPull        \* bound: commits of a pull request

ASSUME RatchetAssumption ==
  /\ {DefaultCeiling, MaxDebt, MinimumFloor, MaxCoverage, MaxMerged, MaxPull} \subseteq Nat
  /\ MinimumFloor <= MaxCoverage

\* What measuring a file or function can tell.
Debts == 0..MaxDebt
Floors == 0..MaxCoverage

VARIABLES
  trunk,    \* the commits of main: a tree, whether the contract's file differs
            \* from the parent's, and the verdict of its check
  pull      \* the commits of the open pull request

\* A tree: the debt it measures, the coverage, and the contract it holds (a
\* ceiling of 0 is no exception).

ratchetVars == <<trunk, pull>>

-----------------------------------------------------------------------------
Excepted(tree) == {f \in RatchetFiles : tree.ceiling[f] > 0}

\* Mutation: an exception may be added.
RelativeExceptionErrors(previous, tree) ==
  \E f \in Excepted(tree) \cap Excepted(previous) : tree.ceiling[f] > previous.ceiling[f]
MonotonicExceptionErrors(previous, tree) ==
  \/ ~(Excepted(tree) \subseteq Excepted(previous))
  \/ \E f \in Excepted(tree) : tree.ceiling[f] > previous.ceiling[f]
MonotonicContractErrors(previous, tree) ==
  MonotonicExceptionErrors(previous, tree) \/ tree.floor < previous.floor

\* A ceiling is exact, is dropped once the default holds, and names a file that is there.
MeasurementErrors(tree) ==
  \E f \in RatchetFiles :
    IF f \in Excepted(tree)
    THEN tree.debt[f] # tree.ceiling[f] \/ tree.debt[f] <= DefaultCeiling \/ tree.debt[f] = 0
    ELSE tree.debt[f] > DefaultCeiling

\* The floor is the contract's in the coverage step too (--cov-fail-under).
CoverageErrors(tree) == tree.floor < MinimumFloor \/ tree.covered < tree.floor

\* git log -2 -- code-quality-ratchet.json, or the tag where the file has one revision.
PreviousContract(history) ==
  LET revisions == {i \in 1..Len(history) : history[i].touched}
      newest == CHOOSE i \in revisions : \A k \in revisions : k <= i
      older == revisions \ {newest}
  IN  IF older = {} THEN history[1].tree
      ELSE history[CHOOSE i \in older : \A k \in older : k <= i].tree

RatchetHolds(history) ==
  LET tree == history[Len(history)].tree
  IN  /\ ~MonotonicContractErrors(PreviousContract(history), tree)
      /\ ~MeasurementErrors(tree) /\ ~CoverageErrors(tree)

-----------------------------------------------------------------------------
Consistent == {t \in [debt : [RatchetFiles -> Debts], covered : {MaxCoverage},
                      ceiling : [RatchetFiles -> Debts], floor : Floors] :
                 ~MeasurementErrors(t) /\ ~CoverageErrors(t)}

RatchetInit ==
  /\ \E t \in Consistent : trunk = <<[tree |-> t, touched |-> TRUE, green |-> TRUE]>>
  /\ pull = <<>>

PullTip == IF pull = <<>> THEN trunk[Len(trunk)].tree ELSE pull[Len(pull)].tree

SameContract(t, u) == t.ceiling = u.ceiling /\ t.floor = u.floor
Push(tree, touched) ==
  /\ Len(trunk) < MaxMerged /\ Len(pull) < MaxPull
  /\ pull' = Append(pull, [tree |-> tree, touched |-> touched])
  /\ UNCHANGED trunk

\* The author changes a file and what the contract allows it, or the coverage and
\* its floor, or only the wording of the contract.
ChangeDebt ==
  \E f \in RatchetFiles, debt, ceiling \in Debts :
    LET tree == [PullTip EXCEPT !.debt[f] = debt, !.ceiling[f] = ceiling]
    IN  Push(tree, ~SameContract(tree, PullTip))
ChangeCoverage ==
  \E covered, floor \in Floors :
    LET tree == [PullTip EXCEPT !.covered = covered, !.floor = floor]
    IN  Push(tree, ~SameContract(tree, PullTip))
Reword == pull # <<>> /\ Push(PullTip, TRUE)

\* --write-baseline: the ceilings of the tree become what it measures, an exception
\* that the default now covers goes, and nothing is written where an excepted file
\* is gone or has grown.
Tightenable(tree) == \A f \in Excepted(tree) : 0 < tree.debt[f] /\ tree.debt[f] <= tree.ceiling[f]
Tightened(tree) ==
  [tree EXCEPT !.ceiling = [f \in RatchetFiles |->
     IF f \in Excepted(tree) /\ tree.debt[f] > DefaultCeiling THEN tree.debt[f] ELSE 0]]
Tighten ==
  /\ Tightenable(PullTip) /\ Tightened(PullTip) # PullTip
  /\ Push(Tightened(PullTip), TRUE)

\* Squash-only, after the head's certification; the push to main is checked too.
SquashPull ==
  /\ pull # <<>> /\ RatchetHolds(trunk \o pull)
  /\ LET commit == [tree |-> PullTip, touched |-> ~SameContract(PullTip, trunk[Len(trunk)].tree), green |-> TRUE]
     IN  trunk' = Append(trunk, [commit EXCEPT !.green = RatchetHolds(Append(trunk, commit))])
  /\ pull' = <<>>

RatchetNext == ChangeDebt \/ ChangeCoverage \/ Reword \/ Tighten \/ SquashPull
RatchetSpec == RatchetInit /\ [][RatchetNext]_ratchetVars

-----------------------------------------------------------------------------
Greater(a, b) == IF a > b THEN a ELSE b

\* While main stays green, no file's debt exceeds what it was at an earlier commit,
\* or the default where it was within it or was not there, and coverage stays at
\* the highest floor that was reached; although a pull request of two revisions of
\* the contract is compared with itself only (validate_quality_ratchets.py:139-165,
\* 181-246).
DebtNeverGrows ==
  \A i, k \in 1..Len(trunk) :
    i < k /\ (\A n \in i..k : trunk[n].green) =>
      /\ \A f \in RatchetFiles : trunk[k].tree.debt[f] <= Greater(DefaultCeiling, trunk[i].tree.debt[f])
      /\ trunk[k].tree.covered >= trunk[i].tree.floor
=============================================================================
