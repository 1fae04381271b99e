------------------------------ MODULE Backtest ------------------------------
(***************************************************************************)
(* run_window of research/eval.py: one policy drives one environment       *)
(* through one window and reads its log.  The policy "caller" stands for   *)
(* any other program that drives the engine (models/rl/train.py, the       *)
(* tests): it may reset, and pass any action, at any time.                 *)
(***************************************************************************)
EXTENDS TradingEnv, Policies

CONSTANT Bookings   \* the StrategyConfigs to be considered

\* Signals and configurations are on one scale, on which inverse volatilities
\* are whole numbers.
ASSUME BookingsAssumption ==
  /\ Features \subseteq Signal /\ Bookings \subseteq StrategyConfig
  /\ \A cfg \in Bookings, f \in Features :
       Unit % Max({f.volatility, cfg.min_volatility}) = 0

VARIABLES
  policy,   \* the policy of the window, fixed
  pc,       \* where run_window is
  turns     \* the iterations of its loop so far

windowVars == <<vars, policy, pc, turns>>

\* "open" stands for random_policy and for the learned policies.
Kinds == {"always_flat", "long_symbol", "open", "longshort", "xsvol"}
StrategyPolicies == [kind : {"strategy"}, cfg : Bookings]
Policies == [kind : Kinds \cup {"caller"}] \cup StrategyPolicies

Obs == md.feature[shown]

\* The actions that the policy may ask for, given the observation.
Chosen ==
  CASE policy.kind = "always_flat" -> {Flatly}
    [] policy.kind = "long_symbol" -> {LongSymbol(sym, NumActions) : sym \in Symbols}
    [] policy.kind = "open" ->
         RandomActions(NumActions) \cup ActedByModel(NumActions + 1, NumActions)
    [] policy.kind = "longshort" -> {Clamped(LongShort(Obs), NumActions)}
    [] policy.kind = "xsvol" -> {Clamped(CrossVol(Obs), NumActions)}
    [] policy.kind = "strategy" -> {Clamped(TopPick(Obs, policy.cfg), NumActions)}

\* A window has its start forced, and leaves the bins of the actions at one.
WindowInit ==
  /\ Init
  /\ policy \in Policies
  /\ policy.kind # "caller" => env.forced_offset >= 0 /\ env.bins = 1
  /\ pc = IF policy.kind = "caller" THEN "caller" ELSE "made"
  /\ turns = 0

Begin ==
  /\ pc = "made"
  /\ Reset
  /\ pc' = "loop"
  /\ UNCHANGED <<policy, turns>>

\* Mutant of Margin: the loop makes no more than max_steps - 1 turns.
MarginShort == env.max_steps - 1

Margin == env.max_steps + env.decision_lag + 2

\* The policy chooses from the observation, and the engine steps, until the
\* episode has ended or the loop has run out of turns.
Turn ==
  /\ pc = "loop"
  /\ \E action \in Chosen : StepOn(action) \/ FinalStepOn(action)
  /\ turns' = turns + 1
  /\ pc' = IF terminal' \/ turns' = Margin THEN "read" ELSE "loop"
  /\ UNCHANGED policy

\* Whoever else drives the engine.
Caller ==
  /\ pc = "caller"
  /\ Next
  /\ UNCHANGED <<policy, pc, turns>>

WindowNext == Begin \/ Turn \/ Caller
WindowSpec == WindowInit /\ [][WindowNext]_windowVars

-----------------------------------------------------------------------------
(* Properties.                                                             *)

\* The gate compares windows of one length: an episode that its equity did not
\* stop runs max_steps steps if the data has as many, and the log from which
\* run_window takes a window's result holds exactly one episode, never none,
\* although the loop counts its own turns and the engine restarts by itself.
WindowIsWhole ==
  /\ log.n > 0 /\ ~hist.stopped /\ MaxOffset >= 0 => hist.steps = env.max_steps
  /\ pc = "read" => log.n = 1

\* What the policies mean to hold, in words of their own: the symbol with the
\* strongest signal by its sign, the outlier of the volatilities against its
\* deviation, the largest weight of the book; never anything on no signal.
Meant ==
  CASE policy.kind = "longshort" ->
         {p \in Positions : LET f == Obs[p.sym] IN
            /\ f.score # 0 /\ p.short = (f.score < 0)
            /\ \A s \in Symbols : Abs(Obs[s].score) <= Abs(f.score)}
    [] policy.kind = "xsvol" ->
         {p \in Positions : LET v == Obs[p.sym].volatility
                                w == {Obs[s].volatility : s \in Symbols} IN
            Max(w) # Min(w) /\ v = IF p.short THEN Max(w) ELSE Min(w)}
    [] policy.kind = "strategy" ->
         {p \in Positions : LET w == Decide(Obs, policy.cfg) IN
            /\ ~p.short /\ p.sym \in DOMAIN w
            /\ \A s \in DOMAIN w : w[s][1] * w[p.sym][2] <= w[p.sym][1] * w[s][2]}
    [] policy.kind = "always_flat" -> {}
    [] policy.kind = "long_symbol" -> {p \in Positions : ~p.short}
    [] OTHER -> Positions

\* A policy and the engine agree on the numbers of the actions: a position that
\* a step of a window opens is one that the policy meant on what it was shown,
\* and neither another symbol nor the other side.
PicksAreTraded ==
  [][pc = "loop" /\ agent'.opened > agent.opened /\ ~terminal' =>
       agent'.pos \in Meant]_windowVars

\* However the capped weights of the book were recycled: each name has the same
\* multiple of its inverse volatility, or the cap if that is less, and the
\* exposure is deployed in full unless every name is at its cap.
BookIsSound == policy.kind = "strategy" => WaterFilled(Obs, policy.cfg)
=============================================================================
