------------------------------ MODULE TradingEnv ------------------------------
(***************************************************************************)
(* The fill engine of sim/src/trading_env.c, as sim/src/keel_sim.c drives  *)
(* it: c_reset starts an episode on a window of the market data, c_step    *)
(* forces out a position that was held too long, carries out the action,   *)
(* advances one bar, and at the end of the episode closes what is left,    *)
(* logs it and starts the next one.                                        *)
(*                                                                         *)
(* Money is left out: whether an order fills inside its bar, and whether   *)
(* the equity stops an episode early, is chosen.  A position is a symbol   *)
(* and a side; an action is a number, which c_step decodes into a position *)
(* to hold, None (go flat), or Invalid (outside the action space).         *)
(***************************************************************************)
EXTENDS Integers, FiniteSetsExt

CONSTANTS
  NumSymbols,     \* md->num_symbols
  Features,       \* what a symbol may show on a bar
  Timesteps,      \* md->num_timesteps
  Markets,        \* the market data to be considered
  Configs,        \* the settings to be considered
  Slips,          \* fill price above or below the open, in bps, never below 0
  MaxEpisodes,    \* bound of the episodes that are run to their end
  None, Invalid

Bars == 0..(Timesteps - 1)
Symbols == 0..(NumSymbols - 1)
Market == [open : [Bars -> [Symbols -> Nat \ {0}]],
           tradable : [Bars -> [Symbols -> BOOLEAN]],
           feature : [Bars -> [Symbols -> Features]]]
\* bins is action_allocation_bins * action_level_bins.
Config == [bins : Nat \ {0}, max_steps : Nat \ {0}, decision_lag : Nat, max_hold_hours : Nat,
           forced_offset : Nat \cup {-1}, tolerance_bps : Nat,
           overnight_bps : Nat, stale_after_bars : Nat]

ASSUME EnvAssumption ==
  /\ NumSymbols \in Nat \ {0} /\ Timesteps \in Nat \ {0}
  /\ MaxEpisodes \in Nat /\ Slips \subseteq {bps \in Int : bps >= -10000}
  /\ Markets \subseteq Market /\ Configs \subseteq Config

VARIABLES
  md,         \* the market data, fixed
  env,        \* the settings, fixed
  agent,      \* env->agent
  shown,      \* the bar whose features are in env->observations
  terminal,   \* env->terminals[0]
  log,        \* env->log: episodes and trades
  hist        \* what happened, for the properties

vars == <<md, env, agent, shown, terminal, log, hist>>

Positions == [sym : Symbols, short : BOOLEAN]
ASSUME PositionsAssumption == None \notin Positions /\ Invalid \notin Positions \cup {None}

SideBlock == NumSymbols * env.bins
NumActions == 1 + 2 * SideBlock

\* An action number that a caller may pass.
Actions == -1..NumActions

\* Mutant of Decoded: the short block begins one action early.
DecodedEarly(action) ==
  IF action = 0 THEN None
  ELSE IF action \notin 1..(2 * SideBlock) THEN Invalid
  ELSE [sym |-> ((action - 1) % SideBlock) \div env.bins, short |-> action >= SideBlock]

\* The position that an action asks for: long ones first, then short ones, with
\* `bins` actions for the sizes and limit prices of each symbol.
Decoded(action) ==
  IF action = 0 THEN None
  ELSE IF action \notin 1..(2 * SideBlock) THEN Invalid
  ELSE [sym |-> ((action - 1) % SideBlock) \div env.bins, short |-> action > SideBlock]

\* opened counts the positions opened in the episode, for the properties.
Agent == [data_offset : Nat, step : Nat, pos : Positions \cup {None},
          entry_price : Nat, hold_hours : Nat, num_trades : Nat, opened : Nat]

\* The agent's account is well-formed and the observation a bar of the data.
TypeOK ==
  /\ md \in Markets /\ env \in Configs
  /\ agent \in Agent
  /\ shown \in Bars
  /\ terminal \in BOOLEAN
  /\ log \in [n : Nat, num_trades : Nat]
  /\ hist \in [age : Nat, waits : Nat, opened : Nat, kept : Nat,
               steps : Nat, stopped : BOOLEAN]

-----------------------------------------------------------------------------
(* close_position, open_long and open_short at bar t, as functions of the  *)
(* agent.                                                                  *)

Flat(ag) == ag.pos = None
Tradable(t, p) == md.tradable[t][p.sym]
Open(t, p) == md.open[t][p.sym]

\* The bar of the agent, the last one if it is beyond the data.
Bar(ag) == Min({ag.data_offset + ag.step, Timesteps - 1})

\* One more bar in the position, if there is one.
Hold(ag) == IF Flat(ag) THEN ag ELSE [ag EXCEPT !.hold_hours = @ + 1]

Tolerance(ag) ==
  IF ag.hold_hours >= env.stale_after_bars THEN env.overnight_bps ELSE env.tolerance_bps

\* death_spiral_refused.
Refused(ag, t) ==
  /\ env.tolerance_bps > 0 /\ Tolerance(ag) > 0
  /\ ~ag.pos.short
  /\ Open(t, ag.pos) * 10000 < ag.entry_price * (10000 - Tolerance(ag))

\* A refused close counts as a bar held.
ClosePosition(ag, t) ==
  IF Refused(ag, t) THEN Hold(ag)
  ELSE [ag EXCEPT !.pos = None, !.entry_price = 0, !.hold_hours = 0, !.num_trades = @ + 1]

FillPrice(t, p, bps) == (Open(t, p) * (10000 + bps)) \div 10000

OpenPosition(ag, t, p, bps) ==
  [ag EXCEPT !.pos = p, !.entry_price = FillPrice(t, p, bps), !.hold_hours = 0,
             !.opened = @ + 1]

-----------------------------------------------------------------------------
(* The parts of c_step.                                                    *)

Due(ag, t) ==
  /\ env.max_hold_hours > 0 /\ ~Flat(ag)
  /\ ag.hold_hours >= env.max_hold_hours
  /\ Tradable(t, ag.pos)

\* The close that is forced before the action is looked at.
ForceClosed(ag, t) == IF Due(ag, t) THEN ClosePosition(ag, t) ELSE ag

\* The market of the action, or that of the position, is closed.
Blocked(ag, t, a) ==
  \E p \in {a, ag.pos} \cap Positions : ~Tradable(t, p)

\* An order for position p at bar t: it may not fill.
Ordered(ag, t, p) == {ag} \cup {OpenPosition(ag, t, p, bps) : bps \in Slips}

\* Mutant of Acted: the position is opened even if the close was refused.
ActedRegardless(ag, t, a) ==
  IF a = Invalid THEN {ag}
  ELSE IF a = ag.pos \/ Blocked(ag, t, a) THEN {Hold(ag)}
  ELSE LET closed == IF Flat(ag) THEN ag ELSE ClosePosition(ag, t)
       IN IF a = None THEN {closed} ELSE Ordered(closed, t, a)

\* Mutant of Acted: a step that waits for a closed market is not counted.
ActedUncounted(ag, t, a) ==
  IF a = Invalid \/ (a \in Positions \ {ag.pos} /\ ~Tradable(t, a)) THEN {ag}
  ELSE IF a = ag.pos \/ Blocked(ag, t, a) THEN {Hold(ag)}
  ELSE LET closed == IF Flat(ag) THEN ag ELSE ClosePosition(ag, t)
       IN IF a = None \/ ~Flat(closed) THEN {closed} ELSE Ordered(closed, t, a)

\* What the action may lead to.  Asking for the position that is held, or
\* for anything while a market is closed, is to hold; a switch closes first,
\* and opens only if the close was not refused.
Acted(ag, t, a) ==
  IF a = Invalid THEN {ag}
  ELSE IF a = ag.pos \/ Blocked(ag, t, a) THEN {Hold(ag)}
  ELSE LET closed == IF Flat(ag) THEN ag ELSE ClosePosition(ag, t)
       IN IF a = None \/ ~Flat(closed) THEN {closed} ELSE Ordered(closed, t, a)

MaxOffset == Timesteps - env.max_steps - 1

\* The bars an episode may start at.
Offsets ==
  IF env.forced_offset < 0 THEN 0..Max({0, MaxOffset})
  ELSE IF MaxOffset >= 0 THEN {Min({env.forced_offset, MaxOffset})}
  ELSE {env.forced_offset}

\* reset_agent_state.
FreshAgents ==
  {[data_offset |-> o, step |-> 0, pos |-> None, entry_price |-> 0,
    hold_hours |-> 0, num_trades |-> 0, opened |-> 0] : o \in Offsets}

\* fill_observations shows the bar that lies decision_lag bars back.
Observed(ag) == Max({0, Bar(ag) - Max({1, env.decision_lag})})

\* The episode is over: its steps are used up, the data is, or the equity
\* stops it, which takes a trade.
Traded(ag) == ag.opened > 0
OutOfSteps(ag) ==
  \/ ag.step >= env.max_steps
  \/ ag.data_offset + ag.step >= Timesteps - 1

-----------------------------------------------------------------------------
NoHist == [age |-> 0, waits |-> 0, opened |-> 0, kept |-> 0, steps |-> 0, stopped |-> FALSE]

Init ==
  /\ md \in Markets /\ env \in Configs
  /\ agent \in FreshAgents
  /\ shown = Observed(agent)
  /\ terminal = FALSE
  /\ log = [n |-> 0, num_trades |-> 0]
  /\ hist = NoHist

\* c_reset: the episode is broken off without a trace in the log.
Reset ==
  /\ agent' \in FreshAgents
  /\ shown' = Observed(agent')
  /\ terminal' = FALSE
  /\ hist' = [hist EXCEPT !.age = 0, !.waits = 0]
  /\ UNCHANGED <<md, env, log>>

\* For HeldNoLonger: the age of a position, and the bars that could not end it.
Aged(next, a) ==
  LET t == Bar(agent)
      same == ~Flat(agent) /\ ~Flat(next) /\ next.opened = agent.opened
      waited == ~Flat(agent) /\
                (a = Invalid \/ ~Tradable(t, agent.pos) \/ Refused(agent, t))
  IN [hist EXCEPT !.age = IF same THEN @ + 1 ELSE 0,
                  !.waits = IF ~same THEN 0 ELSE IF waited THEN @ + 1 ELSE @]

Advanced(a) ==
  {[ag EXCEPT !.step = @ + 1] : ag \in Acted(ForceClosed(agent, Bar(agent)), Bar(agent), a)}

\* A step inside the episode, after keel_env_set_action.
StepOn(action) ==
  LET a == Decoded(action) IN
  \E next \in Advanced(a) :
    /\ ~OutOfSteps(next)
    /\ agent' = next
    /\ shown' = Observed(next)
    /\ terminal' = FALSE
    /\ hist' = Aged(next, a)
    /\ UNCHANGED <<md, env, log>>

\* Mutant of FinalStepOn: the observation is filled before the agent is reset.
FinalStepObservingFirst(action) ==
  \E next \in Advanced(Decoded(action)) :
    /\ OutOfSteps(next)
    /\ agent' \in FreshAgents
    /\ shown' = Observed(next)
    /\ terminal' = TRUE
    /\ log' = [log EXCEPT !.n = @ + 1]
    /\ UNCHANGED <<md, env, hist>>

\* The last step of an episode: what is left is closed at the open of the next
\* bar, whatever its market, unless the guard refuses; the trades are logged
\* and a new episode starts.
FinalStepOn(action) ==
  /\ \E next \in Advanced(Decoded(action)) :
       LET last == IF Flat(next) THEN next ELSE ClosePosition(next, Bar(next)) IN
       /\ OutOfSteps(next) \/ Traded(next)
       /\ log' = [n |-> log.n + 1, num_trades |-> log.num_trades + last.num_trades]
       /\ hist' = [age |-> 0, waits |-> 0, opened |-> hist.opened + last.opened,
                   kept |-> hist.kept + (IF Flat(last) THEN 0 ELSE 1),
                   steps |-> last.step, stopped |-> ~OutOfSteps(next)]
  /\ agent' \in FreshAgents
  /\ shown' = Observed(agent')
  /\ terminal' = TRUE
  /\ UNCHANGED <<md, env>>

Step == \E action \in Actions : StepOn(action)
FinalStep == log.n < MaxEpisodes /\ \E action \in Actions : FinalStepOn(action)

Next == Reset \/ Step \/ FinalStep

Spec == Init /\ [][Next]_vars

-----------------------------------------------------------------------------
(* Properties.                                                             *)

\* The next action is carried out at bar Bar(agent), its price and its fill
\* included: what the policy was shown before it is decision_lag bars older,
\* also across the end of an episode, but for the first bars of the data,
\* where bar 0 itself is shown.
NoLookAhead == shown = 0 \/ shown + env.decision_lag <= Bar(agent)

\* Whatever is forced, switched, refused or unfilled: each position that was
\* opened is open, was closed by one trade, or was kept from its final close
\* by the guard; there is never a second one.
TradesAreBooked ==
  /\ agent.opened = agent.num_trades + (IF Flat(agent) THEN 0 ELSE 1)
  /\ hist.opened = log.num_trades + hist.kept

\* No position grows older than max_hold_hours bars, but for the bars on which
\* its market was closed, the guard refused, or the action was no action.
HeldNoLonger ==
  env.max_hold_hours > 0 => hist.age <= env.max_hold_hours + hist.waits
=============================================================================
