------------------------------ MODULE Strategy ------------------------------
(***************************************************************************)
(* The signal -> pick -> size pipeline of models/xgb/strategy.py.  Signals *)
(* are a function of the symbols; a symbol is a number, which orders the   *)
(* ties.  Exposures are whole units, volatilities divisors of Unit, and a  *)
(* weight is a fraction <<num, den>>, so that the arithmetic is exact; the *)
(* tolerance of 1e-12 for rounding has nothing left to tolerate.           *)
(***************************************************************************)
EXTENDS Integers, FiniteSetsExt, Functions

CONSTANT Unit   \* a common multiple of the volatilities

ASSUME UnitAssumption == Unit \in Nat \ {0}

Signal == [score : Int, volatility : Nat]
StrategyConfig ==
  [conviction_threshold : Int, max_positions : Nat, gross_exposure : Nat,
   max_position_weight : Nat, min_volatility : Nat \ {0}]

FilterByConviction(signals, cfg) ==
  {s \in DOMAIN signals :
     signals[s].score >= cfg.conviction_threshold /\ signals[s].score > 0}

Ahead(signals, r, s) ==
  \/ signals[r].score > signals[s].score
  \/ signals[r].score = signals[s].score /\ r < s

\* The max_positions eligible symbols with the highest scores.
SelectPicks(signals, cfg) ==
  LET eligible == FilterByConviction(signals, cfg) IN
  {s \in eligible :
     Cardinality({r \in eligible : Ahead(signals, r, s)}) < cfg.max_positions}

Volatility(signals, cfg, s) == Max({signals[s].volatility, cfg.min_volatility})
Raw(signals, cfg, s) == Unit \div Volatility(signals, cfg, s)
RawOf(signals, cfg, ss) ==
  SumFunctionOnSet([s \in DOMAIN signals |-> Raw(signals, cfg, s)], ss)

\* A round of the loop with the names `remaining`: `budget` is left for them,
\* and those whose share is above the cap are the ones that it caps.
Overflowing(signals, cfg, remaining, budget) ==
  {s \in remaining :
     budget * Raw(signals, cfg, s) >
       cfg.max_position_weight * RawOf(signals, cfg, remaining)}

\* Mutant of Uncapped: one round, whose overflow stays undeployed.
UncappedOnce(signals, cfg, picks) ==
  picks \ Overflowing(signals, cfg, picks, cfg.gross_exposure)

\* The names that the loop leaves uncapped: each round caps those that
\* overflow, until none does.
Uncapped(signals, cfg, picks) ==
  LET after[remaining \in SUBSET picks] ==
        LET budget == cfg.gross_exposure -
                        cfg.max_position_weight * Cardinality(picks \ remaining)
            over == Overflowing(signals, cfg, remaining, budget)
        IN IF remaining = {} \/ budget <= 0 \/ over = {} THEN remaining
           ELSE after[remaining \ over]
  IN after[picks]

\* The weights of the picks, those without one left out.
InverseVolWeights(signals, cfg, picks) ==
  LET rest == Uncapped(signals, cfg, picks)
      budget == cfg.gross_exposure -
                  cfg.max_position_weight * Cardinality(picks \ rest)
      weight == [s \in picks |->
                   IF s \notin rest THEN <<cfg.max_position_weight, 1>>
                   ELSE <<budget * Raw(signals, cfg, s), RawOf(signals, cfg, rest)>>]
  IN [s \in {p \in picks : weight[p][1] > 0} |-> weight[s]]

Decide(signals, cfg) ==
  InverseVolWeights(signals, cfg, SelectPicks(signals, cfg))

-----------------------------------------------------------------------------
(* What the sizes have to be, without the loop: each name gets the same    *)
(* multiple of its inverse volatility, or the cap if that is less, and     *)
(* together they deploy the exposure, or less only if all are capped.  No  *)
(* name is left out, but from a book that may deploy nothing.              *)

AtCap(cfg, w) == w[1] = cfg.max_position_weight * w[2]

WaterFilled(signals, cfg) ==
  LET w == Decide(signals, cfg)
      vol(s) == Volatility(signals, cfg, s)
      free == {s \in DOMAIN w : ~AtCap(cfg, w[s])}
      level(s) == w[s][1] * vol(s)     \* over w[s][2]
      funded == cfg.gross_exposure > 0 /\ cfg.max_position_weight > 0
  IN /\ DOMAIN w = IF funded THEN SelectPicks(signals, cfg) ELSE {}
     /\ \A s \in DOMAIN w : w[s][1] <= cfg.max_position_weight * w[s][2]
     /\ \A s \in free, r \in DOMAIN w :
          /\ r \in free => level(s) * w[r][2] = level(r) * w[s][2]
          /\ r \notin free => level(s) * w[r][2] >= level(r) * w[s][2]
     /\ LET deployed == Min({cfg.gross_exposure,
                             cfg.max_position_weight * Cardinality(DOMAIN w)})
            capped == cfg.max_position_weight * Cardinality(DOMAIN w \ free)
        IN IF free = {} THEN capped = deployed
           ELSE LET s == CHOOSE s \in free : TRUE IN
                SumFunction([r \in free |-> w[r][1]]) = (deployed - capped) * w[s][2]
=============================================================================
