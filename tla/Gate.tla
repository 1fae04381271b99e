--------------------------------- MODULE Gate ---------------------------------
(***************************************************************************)
(* The promotion gate of research/eval.py, as research/autoresearch.py's   *)
(* run_trial uses it: a configuration is evaluated on windows of the train *)
(* split without fail-fast and then on windows of the test split with it.  *)
(* An evaluation runs all its windows once per slippage cell, stops at the *)
(* first failing cell, and promotes if there was none.  What a window of   *)
(* the C simulator returns is any monthly return, with or without a breach *)
(* of the drawdown limit.                                                  *)
(*                                                                         *)
(* Of the windows of a cell only the number that had each return matters,  *)
(* so a list of results is a function from returns to counts.              *)
(***************************************************************************)
EXTENDS Integers, Sequences, FiniteSetsExt

CONSTANTS
  Timesteps, WindowSteps,   \* bars of the data, and of a window
  Windows, Cells,           \* n_windows, and the number of slippages
  TrainPct,                 \* train_frac, in percent
  Returns, Target,          \* monthly returns, and the median to be reached
  None                      \* no verdict; the infinite initial worst median

MaxOffset == Timesteps - WindowSteps - 1
Splits == {"train", "test"}

\* generate_offsets raises ValueError if there is no room for a window.
ASSUME GateAssumption ==
  /\ Timesteps \in Nat /\ WindowSteps \in Nat /\ MaxOffset > 0
  /\ Windows \in Nat \ {0} /\ Cells \in Nat \ {0}
  /\ TrainPct \in 0..100
  /\ Returns \subseteq Int /\ IsFiniteSet(Returns) /\ Target \in Int /\ None \notin Int

VARIABLES
  split,      \* the evaluation that runs, "idle" or "done"
  offsets,    \* offsets[x]: the starts of the windows of split x
  runs,       \* the windows run in the current cell, by monthly return
  breach,     \* one of them exceeded the drawdown limit
  bail,       \* why the current cell failed fast, "no" if it did not
  cells,      \* the cells of the current evaluation that are finished
  worst,      \* twice the smallest of their medians
  verdict     \* verdict[x]: the verdict on split x

cell == <<runs, breach, bail>>
vars == <<split, offsets, cell, cells, worst, verdict>>

Results == [Returns -> 0..Windows]
Bails == {"no", "drawdown", "unreachable"}

-----------------------------------------------------------------------------
NoRuns == [r \in Returns |-> 0]
Count(rs) == MapThenSumSet(LAMBDA r : rs[r], Returns)
CountUpTo(rs, r) == MapThenSumSet(LAMBDA x : rs[x], {x \in Returns : x <= r})
CountGe(rs) == MapThenSumSet(LAMBDA x : rs[x], {x \in Returns : x >= Target})

\* The k-th smallest monthly return.
Kth(rs, k) == Min({r \in Returns : CountUpTo(rs, r) >= k})

\* Twice statistics.median.
Median2(rs) ==
  LET n == Count(rs) IN Kth(rs, (n + 1) \div 2) + Kth(rs, n \div 2 + 1)

\* Mutant of WindowsNeeded: a strict majority of the windows.
WindowsNeededMajority(n) == n \div 2 + 1

\* _windows_needed_ge.
WindowsNeeded(n) == n - n \div 2

Unreachable(rs) == CountGe(rs) + (Windows - Count(rs)) < WindowsNeeded(Windows)

\* generate_offsets: the starts to draw from, for a range in percent.
OffsetRange(loPct, hiPct) ==
  LET lo == (MaxOffset * loPct) \div 100
      hi == (MaxOffset * hiPct) \div 100
  IN IF hi <= lo THEN 0..MaxOffset ELSE lo..hi

RangeOf(x) == IF x = "train" THEN OffsetRange(0, TrainPct) ELSE OffsetRange(TrainPct, 100)
FailFast(x) == x = "test"

\* Mutant of GeneralizationScore: doing better on the test split is rewarded.
GeneralizationBonus(train, test) == test - (train - test)

\* With overfit_penalty = 1, in the unit of worst.
GeneralizationScore(train, test) == test - Max({0, train - test})

-----------------------------------------------------------------------------
Init ==
  /\ split = "idle"
  /\ offsets = [x \in Splits |-> {}]
  /\ runs = NoRuns /\ breach = FALSE /\ bail = "no"
  /\ cells = <<>> /\ worst = None
  /\ verdict = [x \in Splits |-> None]

NewCell == runs' = NoRuns /\ breach' = FALSE /\ bail' = "no"

\* evaluate draws the starts of the windows, the same for all cells.
Evaluate(x) ==
  /\ \E drawn \in SUBSET RangeOf(x) \ {{}} :
       /\ Cardinality(drawn) <= Windows
       /\ offsets' = [offsets EXCEPT ![x] = drawn]
  /\ split' = x
  /\ NewCell /\ cells' = <<>> /\ worst' = None
  /\ UNCHANGED verdict

\* run_trial starts with the train split...
Train == split = "idle" /\ Evaluate("train")

\* ... and goes on to the test split.
Test == split = "train" /\ verdict["train"] # None /\ Evaluate("test")

\* The loop over the configurations continues, with results of its own.
NextTrial ==
  /\ split = "done"
  /\ split' = "idle"
  /\ offsets' = [x \in Splits |-> {}]
  /\ NewCell /\ cells' = <<>> /\ worst' = None
  /\ verdict' = [x \in Splits |-> None]

Running == split \in Splits /\ verdict[split] = None /\ bail = "no"

\* One window is run.  A breach of the drawdown limit is looked at by
\* fail-fast only, and before the count of the windows that are left.
RunWindow ==
  /\ Running /\ Count(runs) < Windows
  /\ \E r \in Returns : runs' = [runs EXCEPT ![r] = @ + 1]
  /\ breach' \in {FALSE, FailFast(split)}
  /\ bail' = IF ~FailFast(split) THEN "no"
             ELSE IF breach' THEN "drawdown"
             ELSE IF Unreachable(runs') THEN "unreachable"
             ELSE "no"
  /\ UNCHANGED <<split, offsets, cells, worst, verdict>>

\* The loop over the windows has ended, or was left.
CellOver ==
  /\ split \in Splits /\ verdict[split] = None
  /\ Count(runs) = Windows \/ bail # "no"

Close(promote, w) ==
  /\ verdict' = [verdict EXCEPT ![split] = [promote |-> promote, worst |-> w, bail |-> bail]]
  /\ split' = IF split = "test" THEN "done" ELSE split
  /\ UNCHANGED offsets

Finished == cells' = Append(cells, [runs |-> runs, breach |-> breach, bail |-> bail])

\* Mutant of Fails: only the median decides.
FailsByMedian == Median2(runs) < 2 * Target

\* min(worst_median, cell.median_monthly).
Worst ==
  LET m == Median2(runs) IN IF worst = None THEN m ELSE Min({worst, m})

\* The verdict on a cell.
Fails == bail # "no" \/ Median2(runs) < 2 * Target

\* A failing cell ends the evaluation with a rejection...
Reject ==
  /\ CellOver /\ Fails
  /\ Finished /\ NewCell /\ worst' = Worst
  /\ Close(FALSE, Worst)

\* ... the last cell that does not fail, with a promotion.
Promote ==
  /\ CellOver /\ ~Fails
  /\ Len(cells) + 1 = Cells
  /\ Finished /\ NewCell /\ worst' = Worst
  /\ Close(TRUE, Worst)

NextCell ==
  /\ CellOver /\ ~Fails
  /\ Len(cells) + 1 < Cells
  /\ Finished /\ NewCell /\ worst' = Worst
  /\ UNCHANGED <<split, offsets, verdict>>

Next ==
  \/ Train \/ Test \/ NextTrial
  \/ RunWindow \/ NextCell \/ Reject \/ Promote

Spec == Init /\ [][Next]_vars

-----------------------------------------------------------------------------
(* Properties.                                                             *)

\* The results a cell would have had with windows that it did not run.
Completions(rs) ==
  {[r \in Returns |-> rs[r] + more[r]] :
     more \in {m \in Results : Count(m) = Windows - Count(rs)}}

\* Giving up is only an economy: a cell that was given up because its target
\* had become unreachable would have missed it, whatever the windows that were
\* not run had returned.
BailIsSound ==
  bail = "unreachable" => \A rs \in Completions(runs) : Median2(rs) < 2 * Target

\* A promoted configuration has run every window of every cell of the test
\* split, no window broke the drawdown limit, every cell reached the target,
\* and the reported median is the worst of them.
PromotionIsEarned ==
  split = "done" /\ verdict["test"].promote =>
    /\ Len(cells) = Cells
    /\ \A i \in 1..Cells :
         /\ Count(cells[i].runs) = Windows /\ ~cells[i].breach
         /\ Median2(cells[i].runs) >= 2 * Target
    /\ verdict["test"].worst = Min({Median2(cells[i].runs) : i \in 1..Cells})

\* Trials are ranked by a score of the medians reported, which for a rejected
\* one may come from part of its windows: still, unless the drawdown limit
\* ended it, that score is below the target, so no overfit and no lucky part of
\* the windows lets it rank as if it had passed.
RejectionShows ==
  split = "done" /\ ~verdict["test"].promote /\ verdict["test"].bail # "drawdown" =>
    GeneralizationScore(verdict["train"].worst, verdict["test"].worst) < 2 * Target

(* What the repository says, and the code does not do.                     *)

Bars(o) == o..(o + WindowSteps)

\* No window of the test split has a bar in common with one of the train split.
UnseenWindows ==
  \A i \in offsets["train"], j \in offsets["test"] : Bars(i) \cap Bars(j) = {}
=============================================================================
