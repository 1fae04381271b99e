------------------------------ MODULE Policies ------------------------------
(***************************************************************************)
(* The policies that the gate runs: what each one picks from what it is    *)
(* shown, and the number of the action it asks for.  `obs` gives a symbol  *)
(* its score and its volatility, the two features that the policies of     *)
(* research/ and models/xgb/ look at; `n` is env.num_actions.              *)
(***************************************************************************)
EXTENDS Strategy

Flatly == 0
Abs(x) == IF x < 0 THEN -x ELSE x

\* An action outside the action space becomes "go flat".
Clamped(action, n) == IF action \in 0..(n - 1) THEN action ELSE Flatly

\* long_symbol: the first long action instead of one that does not exist.
LongSymbol(sym, n) == IF 1 + sym >= n THEN 1 ELSE 1 + sym

\* Any action of the space (random_policy).
RandomActions(n) == 0..(n - 1)

\* An RLPolicy numbers its actions by its own weights, which may be more.
ActedByModel(outputs, n) == {Clamped(action, n) : action \in 0..(outputs - 1)}

\* The first of the symbols with the largest value.
FirstBest(value) ==
  Min({s \in DOMAIN value : \A r \in DOMAIN value : value[r] <= value[s]})

\* make_long_short_policy: the largest |score|, long or short by its sign.
LongShort(obs) ==
  LET best == FirstBest([s \in DOMAIN obs |-> Abs(obs[s].score)])
  IN IF obs[best].score = 0 THEN Flatly
     ELSE IF obs[best].score > 0 THEN 1 + best
     ELSE 1 + Cardinality(DOMAIN obs) + best

\* make_xsvol_policy: short the symbol whose volatility is the furthest above
\* the mean, or long the one furthest below.  The deviations are times S.
CrossVol(obs) ==
  LET S == Cardinality(DOMAIN obs)
      total == SumFunction([s \in DOMAIN obs |-> obs[s].volatility])
      hi == FirstBest([s \in DOMAIN obs |-> obs[s].volatility])
      lo == FirstBest([s \in DOMAIN obs |-> -obs[s].volatility])
      above == S * obs[hi].volatility - total
      below == total - S * obs[lo].volatility
  IN IF above <= 0 /\ below <= 0 THEN Flatly
     ELSE IF above >= below THEN 1 + S + hi
     ELSE 1 + lo

\* make_strategy_policy: the position with the largest weight, in the order in
\* which decide() lists them.
TopPick(obs, cfg) ==
  LET w == Decide(obs, cfg)
      heavier(r, s) == w[r][1] * w[s][2] > w[s][1] * w[r][2]
      tops == {s \in DOMAIN w : \A r \in DOMAIN w : ~heavier(r, s)}
  IN IF w = <<>> THEN Flatly
     ELSE 1 + CHOOSE s \in tops : \A r \in tops \ {s} : Ahead(obs, s, r)
=============================================================================
