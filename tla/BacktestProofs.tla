--------------------------- MODULE BacktestProofs ---------------------------
(***************************************************************************)
(* Proofs about the trading environment, TradingEnv, for any market data,  *)
(* settings, bars, symbols and actions; about Backtest, which drives it    *)
(* window by window: what the engine keeps for every caller it keeps for   *)
(* the windows of the gate, and a window is a whole episode, for any books *)
(* and policies; and about what the policies make of an observation: the   *)
(* book of the strategy is the one it should be, and what is traded is     *)
(* what the policy meant, for any signals, any number of symbols and any   *)
(* configuration that BookingsAssumption admits.                           *)
(***************************************************************************)
EXTENDS Backtest, FiniteSetTheorems, WellFoundedInduction, TLAPS

-----------------------------------------------------------------------------
(* The arithmetic of the bars.                                             *)

\* Min of the community modules, on two numbers.
LEMMA MinOfTwo ==
  ASSUME NEW a \in Int, NEW b \in Int
  PROVE  Min({a, b}) \in {a, b} /\ Min({a, b}) <= a /\ Min({a, b}) <= b
  <1>1. \E x \in {a, b} : \A y \in {a, b} : x <= y
    <2>1. CASE a <= b  BY <2>1
    <2>2. CASE ~(a <= b)  BY <2>2
    <2> QED  BY <2>1, <2>2
  <1> QED  BY <1>1 DEF Min

\* Max of the community modules, on two numbers.
LEMMA MaxOfTwo ==
  ASSUME NEW a \in Int, NEW b \in Int
  PROVE  Max({a, b}) \in {a, b} /\ Max({a, b}) >= a /\ Max({a, b}) >= b
  <1>1. \E x \in {a, b} : \A y \in {a, b} : x >= y
    <2>1. CASE a <= b  BY <2>1
    <2>2. CASE ~(a <= b)  BY <2>2
    <2> QED  BY <2>1, <2>2
  <1> QED  BY <1>1 DEF Max

\* The settings as the other lemmas use them.
LEMMA Settings ==
  ASSUME env \in Configs
  PROVE  /\ NumSymbols \in Nat \ {0} /\ Timesteps \in Nat \ {0}
         /\ env.bins \in Nat \ {0} /\ env.max_steps \in Nat \ {0}
         /\ env.decision_lag \in Nat /\ env.max_hold_hours \in Nat
         /\ env.forced_offset \in Nat \cup {-1}
  BY EnvAssumption DEF Config

\* The agent's bar is in the data; what it is shown is decision_lag bars older,
\* or bar 0.
LEMMA ObservedBar ==
  ASSUME env \in Configs, NEW ag \in Agent
  PROVE  /\ Bar(ag) \in Bars
         /\ Observed(ag) \in Bars
         /\ Observed(ag) = 0 \/ Observed(ag) + env.decision_lag <= Bar(ag)
  <1>1. ag.data_offset + ag.step \in Nat  BY DEF Agent
  <1>2. Timesteps \in Nat \ {0} /\ env.decision_lag \in Nat  BY Settings
  <1> DEFINE last == Timesteps - 1
             here == ag.data_offset + ag.step
             lag == Max({1, env.decision_lag})
             seen == Bar(ag) - lag
  <1>3. Bar(ag) \in Bars
    <2>1. here \in Nat /\ last \in Nat  BY <1>1, <1>2
    <2>2. here \in Int /\ last \in Int  BY <2>1
    <2>3. Min({here, last}) \in {here, last} /\ Min({here, last}) <= last
      BY <2>2, MinOfTwo, Zenon
    <2> HIDE DEF here, last
    <2>4. Min({here, last}) \in 0..last  BY <2>1, <2>3
    <2> QED  BY <2>4 DEF Bar, Bars, here, last
  <1>4. lag \in Nat /\ lag >= env.decision_lag
    <2>1. 1 \in Int /\ env.decision_lag \in Int  BY <1>2
    <2>2. lag \in {1, env.decision_lag} /\ lag >= env.decision_lag
      BY <2>1, MaxOfTwo, Zenon
    <2> QED  BY <1>2, <2>2
  <1>5. seen \in Int  BY <1>3, <1>4 DEF Bars
  <1>6. Observed(ag) \in {0, seen} /\ Observed(ag) >= 0
    <2>1. 0 \in Int  OBVIOUS
    <2> QED  BY <1>5, <2>1, MaxOfTwo, Zenon DEF Observed
  <1> HIDE DEF lag
  <1> QED  BY <1>2, <1>3, <1>4, <1>6 DEF Bars

\* A reset agent is a flat one without trades.
LEMMA FreshAgentType ==
  ASSUME env \in Configs
  PROVE  FreshAgents \subseteq {ag \in Agent : Flat(ag) /\ ag.opened = 0 /\ ag.num_trades = 0}
  <1>1. MaxOffset \in Int  BY Settings DEF MaxOffset
  <1>2. Offsets \subseteq Nat
    <2>1. CASE env.forced_offset < 0
      <3>1. 0 \in Int  OBVIOUS
      <3>2. Max({0, MaxOffset}) \in {0, MaxOffset}  BY <1>1, <3>1, MaxOfTwo, Zenon
      <3> QED  BY <1>1, <2>1, <3>2 DEF Offsets
    <2>2. CASE ~(env.forced_offset < 0)
      <3>1. env.forced_offset \in Nat  BY <2>2, Settings
      <3>2. env.forced_offset \in Int  BY <3>1
      <3>3. Min({env.forced_offset, MaxOffset}) \in {env.forced_offset, MaxOffset}
        BY <1>1, <3>2, MinOfTwo, Zenon
      <3> QED  BY <1>1, <2>2, <3>1, <3>3 DEF Offsets
    <2> QED  BY <2>1, <2>2
  <1> QED  BY <1>2 DEF FreshAgents, Agent, Flat

-----------------------------------------------------------------------------
(* The decoding of an action.                                              *)

\* Multiplication is monotonic in its first factor.
LEMMA TimesMonotonic ==
  ASSUME NEW a \in Nat, NEW b \in Nat, NEW c \in Nat, a <= b
  PROVE  a * c <= b * c
  OBVIOUS

\* A number below n * k has a quotient by k below n.
LEMMA QuotientBelow ==
  ASSUME NEW n \in Nat \ {0}, NEW k \in Nat \ {0}, NEW r \in 0..(n * k - 1)
  PROVE  r \div k \in 0..(n - 1)
  <1>1. r \in Nat /\ n * k \in Nat  OBVIOUS
  <1>2. r \div k \in Nat  BY <1>1
  <1>3. (r \div k) * k <= r  BY <1>1
  <1>4. r < n * k  BY <1>1
  <1>5. ASSUME n <= r \div k PROVE FALSE
    <2>1. n * k <= (r \div k) * k  BY <1>2, <1>5, TimesMonotonic
    <2> QED  BY <1>1, <1>2, <1>3, <1>4, <2>1
  <1> QED  BY <1>2, <1>5

\* An action number of the action space asks for a position, or to go flat.
LEMMA DecodedType ==
  ASSUME env \in Configs, NEW action \in Int
  PROVE  Decoded(action) \in Positions \cup {None, Invalid}
  <1>1. CASE action \in 1..(2 * SideBlock)
    <2>1. NumSymbols \in Nat \ {0} /\ env.bins \in Nat \ {0}  BY Settings
    <2>2. SideBlock \in Nat \ {0}  BY <2>1 DEF SideBlock
    <2>3. (action - 1) % SideBlock \in 0..(SideBlock - 1)  BY <1>1, <2>2
    <2>4. ((action - 1) % SideBlock) \div env.bins \in Symbols
      BY <2>1, <2>3, QuotientBelow DEF SideBlock, Symbols
    <2> QED  BY <1>1, <2>4 DEF Decoded, Positions
  <1>2. CASE action \notin 1..(2 * SideBlock)  BY <1>2 DEF Decoded
  <1> QED  BY <1>1, <1>2

-----------------------------------------------------------------------------
(* What a step does to the agent.                                          *)

\* Each position that was opened is open or was traded away.
Booked(ag) == ag.opened = ag.num_trades + (IF Flat(ag) THEN 0 ELSE 1)

\* ag was turned into next: the account stays in order, at most one position
\* was opened, and none out of nothing.
Follows(ag, next) ==
  /\ next \in Agent
  /\ Booked(ag) => Booked(next)
  /\ next.opened \in {ag.opened, ag.opened + 1}
  /\ Flat(ag) /\ next.opened = ag.opened => Flat(next)

\* ag and next are in the same position.
SamePosition(ag, next) == ~Flat(ag) /\ ~Flat(next) /\ next.opened = ag.opened

\* Holding changes nothing but the age of the position.
LEMMA HoldEffect ==
  ASSUME NEW ag \in Agent
  PROVE  /\ Follows(ag, Hold(ag))
         /\ Flat(Hold(ag)) <=> Flat(ag)
         /\ Hold(ag).opened = ag.opened
         /\ ~Flat(ag) => Hold(ag).hold_hours = ag.hold_hours + 1
  BY DEF Hold, Follows, Booked, Flat, Agent

\* A position is closed by one trade, or held for one more bar.
LEMMA CloseEffect ==
  ASSUME NEW ag \in Agent, ~Flat(ag), NEW t
  PROVE  /\ Follows(ag, ClosePosition(ag, t))
         /\ ClosePosition(ag, t).opened = ag.opened
         /\ ~Refused(ag, t) => Flat(ClosePosition(ag, t))
         /\ Refused(ag, t) => ClosePosition(ag, t) = Hold(ag)
  <1>1. CASE Refused(ag, t)  BY <1>1, HoldEffect DEF ClosePosition
  <1>2. CASE ~Refused(ag, t)
    <2> DEFINE closed == ClosePosition(ag, t)
    <2>1. ag.num_trades \in Nat /\ ag.opened \in Nat  BY DEF Agent
    <2>2. closed \in Agent
      <3>1. closed = [data_offset |-> ag.data_offset, step |-> ag.step, pos |-> None,
                      entry_price |-> 0, hold_hours |-> 0, num_trades |-> ag.num_trades + 1,
                      opened |-> ag.opened]
        BY <1>2 DEF ClosePosition, Agent
      <3> QED  BY <3>1 DEF Agent
    <2>3. /\ closed.pos = None /\ closed.opened = ag.opened
          /\ closed.num_trades = ag.num_trades + 1
      BY <1>2 DEF ClosePosition, Agent
    <2> HIDE DEF closed
    <2>4. Booked(ag) => Booked(closed)  BY <2>1, <2>3 DEF Booked, Flat
    <2> QED  BY <1>2, <2>1, <2>2, <2>3, <2>4 DEF Follows, Flat, closed
  <1> QED  BY <1>1, <1>2

\* A fill price is a number.
LEMMA FillPriceType ==
  ASSUME TypeOK, NEW t \in Bars, NEW p \in Positions, NEW bps \in Slips
  PROVE  FillPrice(t, p, bps) \in Nat
  <1>1. Open(t, p) \in Nat  BY EnvAssumption DEF TypeOK, Market, Open, Positions
  <1>2. 10000 + bps \in Nat  BY EnvAssumption
  <1>3. ASSUME NEW x \in Nat, NEW y \in Nat PROVE (x * y) \div 10000 \in Nat
    <2>1. x * y \in Nat  OBVIOUS
    <2> QED  BY <2>1
  <1> QED  BY <1>1, <1>2, <1>3 DEF FillPrice

\* An order opens one position or leaves the agent flat.
LEMMA OpenEffect ==
  ASSUME TypeOK, NEW ag \in Agent, Flat(ag),
         NEW t \in Bars, NEW p \in Positions, NEW next \in Ordered(ag, t, p)
  PROVE  Follows(ag, next)
  <1>1. CASE next = ag  BY <1>1 DEF Follows
  <1>2. ASSUME NEW bps \in Slips, next = OpenPosition(ag, t, p, bps)
        PROVE  Follows(ag, next)
    <2>1. ag.num_trades \in Nat /\ ag.opened \in Nat  BY DEF Agent
    <2>2. next \in Agent
      <3>1. next = [data_offset |-> ag.data_offset, step |-> ag.step, pos |-> p,
                    entry_price |-> FillPrice(t, p, bps), hold_hours |-> 0,
                    num_trades |-> ag.num_trades, opened |-> ag.opened + 1]
        BY <1>2 DEF OpenPosition, Agent
      <3>2. FillPrice(t, p, bps) \in Nat  BY FillPriceType
      <3> QED  BY <3>1, <3>2 DEF Agent
    <2>3. /\ next.pos = p /\ next.opened = ag.opened + 1
          /\ next.num_trades = ag.num_trades
      BY <1>2 DEF OpenPosition, Agent
    <2>4. ~Flat(next)  BY <2>3, PositionsAssumption DEF Flat
    <2>5. Booked(ag) => Booked(next)  BY <2>1, <2>3, <2>4 DEF Booked
    <2> QED  BY <2>1, <2>2, <2>3, <2>5 DEF Follows
  <1> QED  BY <1>1, <1>2 DEF Ordered

\* The action leaves the account in order; a position that it keeps has been
\* held for one more bar, but for an invalid action.
LEMMA ActedEffect ==
  ASSUME TypeOK, NEW ag \in Agent, NEW t \in Bars,
         NEW a \in Positions \cup {None, Invalid}, NEW next \in Acted(ag, t, a)
  PROVE  /\ Follows(ag, next)
         /\ SamePosition(ag, next) =>
              /\ next.hold_hours >= ag.hold_hours
              /\ a # Invalid => next.hold_hours = ag.hold_hours + 1
  <1>1. CASE a = Invalid
    BY <1>1 DEF Acted, Follows, Agent
  <1>2. CASE a # Invalid /\ (a = ag.pos \/ Blocked(ag, t, a))
    <2>1. next = Hold(ag)  BY <1>2 DEF Acted
    <2> QED  BY <2>1, HoldEffect DEF SamePosition, Agent
  <1>3. CASE a # Invalid /\ a # ag.pos /\ ~Blocked(ag, t, a) /\ Flat(ag)
    <2>1. next \in IF a = None THEN {ag} ELSE Ordered(ag, t, a)  BY <1>3 DEF Acted
    <2>2. a # None => a \in Positions  BY <1>3
    <2>3. next = ag => Follows(ag, next)  BY DEF Follows
    <2> QED  BY <1>3, <2>1, <2>2, <2>3, OpenEffect DEF SamePosition
  <1>4. CASE a # Invalid /\ a # ag.pos /\ ~Blocked(ag, t, a) /\ ~Flat(ag)
    <2> DEFINE closed == ClosePosition(ag, t)
    <2>1. next \in IF a = None \/ ~Flat(closed) THEN {closed} ELSE Ordered(closed, t, a)
      BY <1>4 DEF Acted
    <2>2. /\ Follows(ag, closed) /\ closed.opened = ag.opened
          /\ ~Flat(closed) => closed = Hold(ag)
      BY <1>4, CloseEffect
    <2> HIDE DEF closed
    <2>3. CASE next = closed  BY <1>4, <2>2, <2>3, HoldEffect DEF SamePosition, Agent
    <2>4. CASE next # closed
      <3>1. a \in Positions /\ Flat(closed) /\ next \in Ordered(closed, t, a)
        BY <1>4, <2>1, <2>4
      <3>2. closed \in Agent  BY <2>2 DEF Follows
      <3>3. Follows(closed, next)  BY <3>1, <3>2, OpenEffect
      <3>4. next.opened = ag.opened => Flat(next)  BY <2>2, <3>1, <3>3 DEF Follows
      <3>5. Booked(ag) => Booked(next)  BY <2>2, <3>3 DEF Follows
      <3> QED  BY <1>4, <2>2, <3>3, <3>4, <3>5 DEF Follows, SamePosition
    <2> QED  BY <2>3, <2>4
  <1> QED  BY <1>1, <1>2, <1>3, <1>4

\* What a step of c_step makes of the agent before the episode may end: the
\* account stays in order, and a position that could have been closed is one bar
\* older and was not yet due.
LEMMA AdvancedEffect ==
  ASSUME TypeOK, NEW a \in Positions \cup {None, Invalid}, NEW next \in Advanced(a)
  PROVE  /\ Follows(agent, next)
         /\ SamePosition(agent, next) =>
              /\ next.hold_hours >= agent.hold_hours
              /\ /\ a # Invalid /\ Tradable(Bar(agent), agent.pos)
                 /\ ~Refused(agent, Bar(agent))
                 => /\ next.hold_hours = agent.hold_hours + 1
                    /\ env.max_hold_hours > 0 => agent.hold_hours < env.max_hold_hours
  <1> DEFINE t == Bar(agent)
             forced == ForceClosed(agent, t)
  <1>1. agent \in Agent  BY DEF TypeOK
  <1>2. t \in Bars  BY <1>1, ObservedBar DEF TypeOK
  <1>3. PICK acted \in Acted(forced, t, a) : next = [acted EXCEPT !.step = @ + 1]
    BY DEF Advanced
  <1>4. /\ Follows(agent, forced) /\ forced.opened = agent.opened
        /\ ~Due(agent, t) => forced = agent
        /\ Due(agent, t) /\ Refused(agent, t) => forced = Hold(agent)
        /\ Due(agent, t) /\ ~Refused(agent, t) => Flat(forced)
    <2>1. CASE Due(agent, t)
      <3>1. ~Flat(agent)  BY <2>1 DEF Due
      <3> QED  BY <1>1, <2>1, <3>1, CloseEffect DEF ForceClosed
    <2>2. CASE ~Due(agent, t)  BY <1>1, <2>2 DEF ForceClosed, Follows
    <2> QED  BY <2>1, <2>2
  <1> HIDE DEF t, forced
  <1>5. forced \in Agent  BY <1>4 DEF Follows
  <1>6. /\ Follows(forced, acted)
        /\ SamePosition(forced, acted) =>
             /\ acted.hold_hours >= forced.hold_hours
             /\ a # Invalid => acted.hold_hours = forced.hold_hours + 1
    BY <1>2, <1>5, ActedEffect
  <1>7. /\ next \in Agent
        /\ next.pos = acted.pos /\ next.opened = acted.opened
        /\ next.num_trades = acted.num_trades /\ next.hold_hours = acted.hold_hours
    BY <1>3, <1>6 DEF Follows, Agent
  <1>8. Follows(agent, next)
    <2>1. Booked(agent) => Booked(next)
      BY <1>4, <1>6, <1>7 DEF Follows, Booked, Flat
    <2> QED  BY <1>4, <1>6, <1>7, <2>1 DEF Follows, Flat
  <1>9. ASSUME SamePosition(agent, next)
        PROVE  /\ next.hold_hours >= agent.hold_hours
               /\ a # Invalid /\ Tradable(t, agent.pos) /\ ~Refused(agent, t) =>
                    /\ next.hold_hours = agent.hold_hours + 1
                    /\ env.max_hold_hours > 0 => agent.hold_hours < env.max_hold_hours
    <2>1. SamePosition(forced, acted)
      BY <1>4, <1>6, <1>7, <1>9 DEF SamePosition, Follows, Flat
    <2>2. ~(Due(agent, t) /\ ~Refused(agent, t))  BY <1>4, <2>1 DEF SamePosition
    <2>3. forced = agent \/ (forced = Hold(agent) /\ Refused(agent, t))
      BY <1>4, <2>2
    <2>4. agent.hold_hours \in Nat /\ acted.hold_hours \in Nat
      BY <1>1, <1>6 DEF Agent, Follows
    <2>5. next.hold_hours >= agent.hold_hours
      BY <1>1, <1>6, <1>7, <1>9, <2>1, <2>3, <2>4, HoldEffect DEF SamePosition
    <2>6. ASSUME a # Invalid, Tradable(t, agent.pos), ~Refused(agent, t)
          PROVE  /\ next.hold_hours = agent.hold_hours + 1
                 /\ env.max_hold_hours > 0 => agent.hold_hours < env.max_hold_hours
      <3>1. next.hold_hours = agent.hold_hours + 1  BY <1>6, <1>7, <2>1, <2>3, <2>6
      <3>2. env.max_hold_hours \in Nat  BY Settings DEF TypeOK
      <3> QED  BY <1>9, <2>2, <2>4, <2>6, <3>1, <3>2 DEF Due, SamePosition
    <2> QED  BY <2>5, <2>6
  <1> QED  BY <1>8, <1>9 DEF t

-----------------------------------------------------------------------------
(* The invariant.                                                          *)

\* While the age of a position is counted in bars, hold_hours counts all of them
\* but those on which it could not be closed.
AgeIsHeld ==
  env.max_hold_hours > 0 =>
    /\ hist.age <= env.max_hold_hours + hist.waits
    /\ ~Flat(agent) => hist.age <= agent.hold_hours + hist.waits

\* The inductive invariant.
EnvInv ==
  /\ TypeOK
  /\ shown = Observed(agent)
  /\ Booked(agent)
  /\ hist.opened = log.num_trades + hist.kept
  /\ AgeIsHeld

\* The fields that the properties count with are numbers.
LEMMA Numbers ==
  ASSUME TypeOK
  PROVE  /\ hist.age \in Nat /\ hist.waits \in Nat /\ hist.opened \in Nat
         /\ hist.kept \in Nat /\ hist.steps \in Nat /\ hist.stopped \in BOOLEAN
         /\ log.n \in Nat /\ log.num_trades \in Nat
         /\ agent.hold_hours \in Nat /\ agent.opened \in Nat /\ agent.num_trades \in Nat
  BY DEF TypeOK, Agent

\* The invariant holds of a new engine.
LEMMA EnvInit == Init => EnvInv
  <1> SUFFICES ASSUME Init PROVE EnvInv
    OBVIOUS
  <1>1. /\ md \in Markets /\ env \in Configs /\ agent \in FreshAgents
        /\ shown = Observed(agent) /\ terminal = FALSE
        /\ log = [n |-> 0, num_trades |-> 0]
        /\ hist = [age |-> 0, waits |-> 0, opened |-> 0, kept |-> 0, steps |-> 0,
                   stopped |-> FALSE]
    BY DEF Init, NoHist
  <1>2. agent \in Agent /\ Flat(agent) /\ agent.opened = 0 /\ agent.num_trades = 0
    BY <1>1, FreshAgentType
  <1>3. TypeOK  BY <1>1, <1>2, ObservedBar DEF TypeOK
  <1>4. AgeIsHeld  BY <1>1, <1>2, <1>3, Settings DEF AgeIsHeld
  <1> QED  BY <1>1, <1>2, <1>3, <1>4 DEF EnvInv, Booked

\* c_reset keeps it.
LEMMA ResetInv ==
  ASSUME EnvInv, Reset
  PROVE  EnvInv'
  <1>1. /\ agent' \in FreshAgents /\ shown' = Observed(agent)' /\ terminal' = FALSE
        /\ md' = md /\ env' = env /\ log' = log
        /\ hist' = [hist EXCEPT !.age = 0, !.waits = 0]
    BY DEF Reset, Observed, Bar
  <1>2. agent' \in Agent /\ Flat(agent)' /\ agent'.opened = 0 /\ agent'.num_trades = 0
    BY <1>1, FreshAgentType DEF EnvInv, TypeOK, Flat
  <1>3. hist' = [age |-> 0, waits |-> 0, opened |-> hist.opened, kept |-> hist.kept,
                 steps |-> hist.steps, stopped |-> hist.stopped]
    BY <1>1 DEF EnvInv, TypeOK
  <1>4. TypeOK'
    <2>1. hist' \in [age : Nat, waits : Nat, opened : Nat, kept : Nat, steps : Nat,
                     stopped : BOOLEAN]
      BY <1>3, Numbers DEF EnvInv
    <2>2. shown' \in Bars  BY <1>1, <1>2, ObservedBar DEF EnvInv, TypeOK, Observed, Bar
    <2> QED  BY <1>1, <1>2, <2>1, <2>2 DEF EnvInv, TypeOK
  <1>5. AgeIsHeld'
    <2>1. env'.max_hold_hours \in Nat  BY <1>1, Settings DEF EnvInv, TypeOK
    <2> QED  BY <1>2, <1>3, <2>1 DEF AgeIsHeld
  <1>6. hist'.opened = log'.num_trades + hist'.kept  BY <1>1, <1>3 DEF EnvInv
  <1>7. Booked(agent)'  BY <1>2 DEF Booked
  <1> QED  BY <1>1, <1>4, <1>5, <1>6, <1>7 DEF EnvInv

\* An action number is an integer, so that it can be decoded.
LEMMA ActionsAreInts == ASSUME env \in Configs PROVE Actions \subseteq Int
  <1>1. SideBlock \in Nat  BY Settings DEF SideBlock
  <1> QED  BY <1>1 DEF Actions, NumActions

\* c_step keeps it as long as the episode goes on.
LEMMA StepInv ==
  ASSUME EnvInv, NEW action \in Actions, StepOn(action)
  PROVE  EnvInv'
  <1> DEFINE a == Decoded(action)
             t == Bar(agent)
             same == SamePosition(agent, agent')
             waited == ~Flat(agent) /\
                         (a = Invalid \/ ~Tradable(t, agent.pos) \/ Refused(agent, t))
  <1>1. /\ agent' \in Advanced(a) /\ shown' = Observed(agent)' /\ terminal' = FALSE
        /\ hist' = Aged(agent', a) /\ md' = md /\ env' = env /\ log' = log
    BY DEF StepOn, Observed, Bar
  <1>2. a \in Positions \cup {None, Invalid}
    BY ActionsAreInts, DecodedType DEF EnvInv, TypeOK
  <1>3. /\ Follows(agent, agent')
        /\ same => /\ agent'.hold_hours >= agent.hold_hours
                   /\ ~waited => /\ agent'.hold_hours = agent.hold_hours + 1
                                 /\ env.max_hold_hours > 0 =>
                                      agent.hold_hours < env.max_hold_hours
    BY <1>1, <1>2, AdvancedEffect DEF EnvInv, SamePosition
  <1> DEFINE age == IF same THEN hist.age + 1 ELSE 0
             waits == IF ~same THEN 0 ELSE IF waited THEN hist.waits + 1 ELSE hist.waits
  <1>4. hist' = [age |-> age, waits |-> waits, opened |-> hist.opened, kept |-> hist.kept,
                 steps |-> hist.steps, stopped |-> hist.stopped]
    <2>1. hist \in [age : Nat, waits : Nat, opened : Nat, kept : Nat, steps : Nat,
                    stopped : BOOLEAN]
      BY DEF EnvInv, TypeOK
    <2>2. hist' = [hist EXCEPT !.age = age, !.waits = waits]
      BY <1>1 DEF Aged, SamePosition
    <2> HIDE DEF age, waits
    <2> QED  BY <2>1, <2>2
  <1>5. agent' \in Agent /\ Booked(agent)'
    BY <1>3 DEF EnvInv, Follows, Booked, Flat
  <1>6. TypeOK'
    <2>1. hist' \in [age : Nat, waits : Nat, opened : Nat, kept : Nat, steps : Nat,
                     stopped : BOOLEAN]
      BY <1>4, Numbers DEF EnvInv
    <2>2. shown' \in Bars  BY <1>1, <1>5, ObservedBar DEF EnvInv, TypeOK, Observed, Bar
    <2> QED  BY <1>1, <1>5, <2>1, <2>2 DEF EnvInv, TypeOK
  <1>7. AgeIsHeld'
    <2> SUFFICES ASSUME env.max_hold_hours > 0
                 PROVE  /\ age <= env.max_hold_hours + waits
                        /\ ~Flat(agent') => age <= agent'.hold_hours + waits
      BY <1>1, <1>4 DEF AgeIsHeld, Flat
    <2>1. /\ env.max_hold_hours \in Nat /\ hist.age \in Nat /\ hist.waits \in Nat
          /\ agent.hold_hours \in Nat /\ agent'.hold_hours \in Nat
      BY <1>5, Numbers, Settings DEF EnvInv, TypeOK, Agent
    <2>2. CASE same
      <3>1. ~Flat(agent)  BY <2>2 DEF SamePosition
      <3>2. /\ hist.age <= env.max_hold_hours + hist.waits
            /\ hist.age <= agent.hold_hours + hist.waits
        BY <3>1 DEF EnvInv, AgeIsHeld
      <3> HIDE DEF same, waited
      <3> QED  BY <1>3, <2>1, <2>2, <3>2
    <2>3. CASE ~same
      <3> HIDE DEF same, waited
      <3> QED  BY <2>1, <2>3
    <2> QED  BY <2>2, <2>3
  <1>8. hist'.opened = log'.num_trades + hist'.kept  BY <1>1, <1>4 DEF EnvInv
  <1> QED  BY <1>1, <1>5, <1>6, <1>7, <1>8 DEF EnvInv

\* The step that ends an episode, with its terminal close and automatic reset, keeps it.
LEMMA FinalStepInv ==
  ASSUME EnvInv, NEW action \in Actions, FinalStepOn(action)
  PROVE  EnvInv'
  <1>1. PICK next \in Advanced(Decoded(action)) :
          LET last == IF Flat(next) THEN next ELSE ClosePosition(next, Bar(next)) IN
          /\ log' = [n |-> log.n + 1, num_trades |-> log.num_trades + last.num_trades]
          /\ hist' = [age |-> 0, waits |-> 0, opened |-> hist.opened + last.opened,
                      kept |-> hist.kept + (IF Flat(last) THEN 0 ELSE 1),
                      steps |-> last.step, stopped |-> ~OutOfSteps(next)]
    BY DEF FinalStepOn
  <1> DEFINE last == IF Flat(next) THEN next ELSE ClosePosition(next, Bar(next))
             kept == IF Flat(last) THEN 0 ELSE 1
             stopped == ~OutOfSteps(next)
  <1>2. /\ log' = [n |-> log.n + 1, num_trades |-> log.num_trades + last.num_trades]
        /\ hist' = [age |-> 0, waits |-> 0, opened |-> hist.opened + last.opened,
                    kept |-> hist.kept + kept, steps |-> last.step, stopped |-> stopped]
    BY <1>1
  <1>3. /\ agent' \in FreshAgents /\ shown' = Observed(agent)' /\ terminal' = TRUE
        /\ md' = md /\ env' = env
    BY DEF FinalStepOn, Observed, Bar
  <1>4. Decoded(action) \in Positions \cup {None, Invalid}
    BY ActionsAreInts, DecodedType DEF EnvInv, TypeOK
  <1>5. next \in Agent /\ Booked(next)
    BY <1>4, AdvancedEffect DEF EnvInv, Follows
  <1>6. last \in Agent /\ Booked(last)  BY <1>5, CloseEffect DEF Follows
  <1>7. /\ last.opened = last.num_trades + kept /\ kept \in {0, 1}
        /\ last.opened \in Nat /\ last.num_trades \in Nat /\ last.step \in Nat
    BY <1>6 DEF Booked, Agent
  <1>8. stopped \in BOOLEAN  OBVIOUS
  <1> HIDE DEF last, kept, stopped
  <1>9. agent' \in Agent /\ Flat(agent)' /\ agent'.opened = 0 /\ agent'.num_trades = 0
    BY <1>3, FreshAgentType DEF EnvInv, TypeOK, Flat
  <1>10. TypeOK'
    <2>1. /\ hist' \in [age : Nat, waits : Nat, opened : Nat, kept : Nat, steps : Nat,
                        stopped : BOOLEAN]
          /\ log' \in [n : Nat, num_trades : Nat]
      BY <1>2, <1>7, <1>8, Numbers DEF EnvInv
    <2>2. shown' \in Bars  BY <1>3, <1>9, ObservedBar DEF EnvInv, TypeOK, Observed, Bar
    <2> QED  BY <1>3, <1>9, <2>1, <2>2 DEF EnvInv, TypeOK
  <1>11. hist'.opened = log'.num_trades + hist'.kept
    <2>1. hist.opened = log.num_trades + hist.kept  BY DEF EnvInv
    <2> QED  BY <1>2, <1>7, <2>1, Numbers DEF EnvInv
  <1>12. AgeIsHeld'
    <2>1. env'.max_hold_hours \in Nat  BY <1>3, Settings DEF EnvInv, TypeOK
    <2> QED  BY <1>2, <1>9, <2>1 DEF AgeIsHeld
  <1>13. Booked(agent)'  BY <1>9 DEF Booked
  <1> QED  BY <1>3, <1>10, <1>11, <1>12, <1>13 DEF EnvInv

-----------------------------------------------------------------------------
(* The theorems.                                                           *)

\* What c_step keeps for every market, every settings and every sequence of
\* actions and resets: the parts of EnvInv together are inductive.
THEOREM EnvInvariant == Spec => []EnvInv
  <1>1. EnvInv /\ [Next]_vars => EnvInv'
    <2> SUFFICES ASSUME EnvInv, [Next]_vars PROVE EnvInv'
      OBVIOUS
    <2>1. CASE Reset  BY <2>1, ResetInv
    <2>2. CASE Step  BY <2>2, StepInv DEF Step
    <2>3. CASE FinalStep  BY <2>3, FinalStepInv DEF FinalStep
    <2>4. CASE UNCHANGED vars
      BY <2>4 DEF vars, EnvInv, TypeOK, Booked, Flat, AgeIsHeld, Observed, Bar
    <2> QED  BY <2>1, <2>2, <2>3, <2>4 DEF Next
  <1> QED  BY <1>1, EnvInit, PTL DEF Spec

\* The agent's account, the observation and the log are well-formed.
THEOREM EnvTypeCorrect == Spec => []TypeOK
  <1>1. EnvInv => TypeOK  BY DEF EnvInv
  <1> QED  BY <1>1, EnvInvariant, PTL

\* No observation (fill_observations) is less than decision_lag bars older than
\* the bar on which the next action is carried out, but for bar 0.
THEOREM LookAheadFree == Spec => []NoLookAhead
  <1>1. EnvInv => NoLookAhead
    BY ObservedBar DEF EnvInv, TypeOK, NoLookAhead
  <1> QED  BY <1>1, EnvInvariant, PTL

\* Every position that c_step opens is open, logged as one trade, or kept from
\* its final close by the guard.
THEOREM TradesBooked == Spec => []TradesAreBooked
  <1>1. EnvInv => TradesAreBooked  BY DEF EnvInv, Booked, TradesAreBooked
  <1> QED  BY <1>1, EnvInvariant, PTL

\* The forced close of c_step keeps every position within max_hold_hours, but for
\* the bars on which it could not be closed.
THEOREM HoldBounded == Spec => []HeldNoLonger
  <1>1. EnvInv => HeldNoLonger  BY DEF EnvInv, AgeIsHeld, HeldNoLonger
  <1> QED  BY <1>1, EnvInvariant, PTL
-----------------------------------------------------------------------------
(* Backtest *)

\* An episode starts early enough for max_steps steps, if the data has as many,
\* and has not used them up.
AgentFits ==
  /\ agent.step < env.max_steps
  /\ MaxOffset >= 0 => agent.data_offset <= MaxOffset

\* What the last logged episode was.
LoggedIsWhole ==
  log.n > 0 /\ ~hist.stopped /\ MaxOffset >= 0 => hist.steps = env.max_steps

\* A window is in its first and only episode, one step per turn of its loop,
\* until it has been logged.
WindowIsOnce ==
  \/ pc = "caller"
  \/ /\ policy.kind # "caller"
     /\ \/ pc = "made" /\ log.n = 0 /\ turns = 0
        \/ pc = "loop" /\ log.n = 0 /\ turns = agent.step
        \/ pc = "read" /\ log.n = 1

\* The inductive invariant of a window that drives the engine.
WindowInv ==
  /\ EnvInv
  /\ policy \in Policies
  /\ AgentFits
  /\ LoggedIsWhole
  /\ WindowIsOnce

-----------------------------------------------------------------------------
\* Every policy asks for an action number.
LEMMA ChosenActions ==
  ASSUME env \in Configs, policy \in Policies, policy.kind # "caller"
  PROVE  Chosen \subseteq Actions
<1>1. SideBlock \in Nat \ {0}
  <2>1. NumSymbols \in Nat \ {0} /\ env.bins \in Nat \ {0}
    BY Settings
  <2> QED
    BY <2>1 DEF SideBlock
<1>2. NumActions \in Nat /\ NumActions >= 3 /\ Actions = -1..NumActions
  BY <1>1 DEF NumActions, Actions
<1> DEFINE n == NumActions
<1> HIDE DEF n
<1>3. n \in Nat /\ n >= 3 /\ Actions = -1..n
  BY <1>2 DEF n
<1>4. \A action : Clamped(action, n) \in Actions
  BY <1>3 DEF Clamped, Flatly
<1>5. \A sym \in Symbols : LongSymbol(sym, n) \in Actions
  BY <1>3 DEF LongSymbol, Symbols
<1>6. RandomActions(n) \subseteq Actions
  BY <1>3 DEF RandomActions
<1>7. ActedByModel(n + 1, n) \subseteq Actions
  BY <1>4 DEF ActedByModel
<1>8. Flatly \in Actions
  BY <1>3 DEF Flatly
<1>9. policy.kind \in Kinds \cup {"strategy"}
  BY DEF Policies, StrategyPolicies, Kinds
<1> QED
  BY <1>4, <1>5, <1>6, <1>7, <1>8, <1>9 DEF Chosen, Kinds, n

\* What the parts of c_step do to a position happens within one step.
Beside(ag, next) == next.step = ag.step /\ next.data_offset = ag.data_offset

\* Holding and closing.
LEMMA CloseBeside ==
  ASSUME NEW ag \in Agent, NEW t
  PROVE  Beside(ag, Hold(ag)) /\ Beside(ag, ClosePosition(ag, t))
BY DEF Beside, Hold, ClosePosition, Agent

\* Carrying out an action.
LEMMA ActedBeside ==
  ASSUME TypeOK, NEW ag \in Agent, NEW t, NEW a, NEW next \in Acted(ag, t, a)
  PROVE  Beside(ag, next)
<1>1. Beside(ag, ag) /\ Beside(ag, Hold(ag))
  BY CloseBeside DEF Beside
<1> DEFINE closed == IF Flat(ag) THEN ag ELSE ClosePosition(ag, t)
<1>2. closed \in Agent /\ Beside(ag, closed)
  BY <1>1, CloseBeside, CloseEffect DEF Follows
<1> HIDE DEF closed
<1>3. ASSUME NEW bps PROVE Beside(closed, OpenPosition(closed, t, a, bps))
  BY <1>2 DEF Beside, OpenPosition, Agent
<1>4. next \in {ag, Hold(ag), closed} \cup {OpenPosition(closed, t, a, bps) : bps \in Slips}
  BY DEF Acted, Ordered, closed
<1> QED
  BY <1>1, <1>2, <1>3, <1>4 DEF Beside

\* Whatever an action does, it is one step of the same episode.
LEMMA OneStep ==
  ASSUME TypeOK, NEW a \in Positions \cup {None, Invalid}, NEW next \in Advanced(a)
  PROVE  /\ next \in Agent
         /\ next.step = agent.step + 1 /\ next.data_offset = agent.data_offset
<1> DEFINE t == Bar(agent)
           forced == ForceClosed(agent, t)
<1>1. agent \in Agent
  BY DEF TypeOK
<1>2. forced \in Agent /\ Beside(agent, forced)
  BY <1>1, CloseBeside, CloseEffect DEF ForceClosed, Due, Follows, Beside
<1>3. PICK acted \in Acted(forced, t, a) : next = [acted EXCEPT !.step = @ + 1]
  BY DEF Advanced
<1>4. t \in Bars
  BY <1>1, ObservedBar DEF TypeOK
<1> HIDE DEF t, forced
<1>5. acted \in Agent /\ Beside(forced, acted)
  BY <1>2, <1>4, ActedEffect, ActedBeside DEF Follows
<1> QED
  BY <1>2, <1>3, <1>5 DEF Beside, Agent

\* A new episode has all its steps before it.
LEMMA FreshFits ==
  ASSUME env \in Configs, NEW ag \in FreshAgents
  PROVE  /\ ag.step = 0 /\ ag.step < env.max_steps
         /\ MaxOffset >= 0 => ag.data_offset <= MaxOffset
<1>1. MaxOffset \in Int /\ env.forced_offset \in Int /\ env.max_steps \in Nat \ {0}
  BY Settings DEF MaxOffset
<1>2. PICK o \in Offsets : ag.step = 0 /\ ag.data_offset = o
  BY DEF FreshAgents
<1>3. ASSUME MaxOffset >= 0 PROVE o <= MaxOffset
  <2>1. CASE env.forced_offset < 0
    <3>1. Max({0, MaxOffset}) \in {0, MaxOffset} /\ 0 \in Int
      BY <1>1, MaxOfTwo
    <3> QED
      BY <1>1, <1>2, <1>3, <2>1, <3>1 DEF Offsets
  <2>2. CASE ~(env.forced_offset < 0)
    <3>1. Min({env.forced_offset, MaxOffset}) <= MaxOffset
      BY <1>1, MinOfTwo
    <3> QED
      BY <1>2, <1>3, <2>2, <3>1 DEF Offsets
  <2> QED
    BY <2>1, <2>2
<1> QED
  BY <1>1, <1>2, <1>3

-----------------------------------------------------------------------------
\* Before its reset a window has not run.
LEMMA WindowStarts == WindowInit => WindowInv
<1> SUFFICES ASSUME WindowInit PROVE WindowInv
  OBVIOUS
<1>1. EnvInv /\ env \in Configs /\ agent \in FreshAgents /\ log.n = 0
  BY EnvInit DEF WindowInit, Init
<1>2. AgentFits
  BY <1>1, FreshFits DEF AgentFits
<1> QED
  BY <1>1, <1>2 DEF WindowInit, WindowInv, LoggedIsWhole, WindowIsOnce

\* A reset.
LEMMA ResetFits ==
  ASSUME WindowInv, Reset
  PROVE  EnvInv' /\ AgentFits' /\ LoggedIsWhole' /\ agent'.step = 0 /\ log' = log
<1>1. /\ EnvInv' /\ agent' \in FreshAgents /\ env' = env /\ log' = log
      /\ env \in Configs
  BY ResetInv DEF Reset, WindowInv, EnvInv, TypeOK
<1>2. hist'.steps = hist.steps /\ hist'.stopped = hist.stopped
  BY DEF Reset, WindowInv, EnvInv, TypeOK
<1>3. MaxOffset' = MaxOffset
  BY <1>1 DEF MaxOffset
<1>4. AgentFits' /\ agent'.step = 0
  BY <1>1, <1>3, FreshFits DEF AgentFits
<1> QED
  BY <1>1, <1>2, <1>3, <1>4 DEF WindowInv, LoggedIsWhole

\* A step inside an episode: one more of its steps, and not the last.
LEMMA StepFits ==
  ASSUME WindowInv, NEW action \in Actions, StepOn(action)
  PROVE  /\ EnvInv' /\ AgentFits' /\ LoggedIsWhole'
         /\ agent'.step = agent.step + 1 /\ log' = log /\ terminal' = FALSE
<1>1. TypeOK /\ EnvInv /\ env \in Configs
  BY DEF WindowInv, EnvInv, TypeOK
<1>2. /\ agent' \in Advanced(Decoded(action)) /\ ~OutOfSteps(agent')
      /\ env' = env /\ log' = log /\ terminal' = FALSE
      /\ hist' = Aged(agent', Decoded(action))
  BY DEF StepOn
<1>3. Decoded(action) \in Positions \cup {None, Invalid}
  BY <1>1, ActionsAreInts, DecodedType
<1>4. /\ agent' \in Agent
      /\ agent'.step = agent.step + 1 /\ agent'.data_offset = agent.data_offset
  BY <1>1, <1>2, <1>3, OneStep
<1>5. hist'.steps = hist.steps /\ hist'.stopped = hist.stopped
  BY <1>1, <1>2 DEF Aged, TypeOK
<1>6. MaxOffset' = MaxOffset
  BY <1>2 DEF MaxOffset
<1>7. AgentFits'
  <2>1. env.max_steps \in Nat /\ agent'.step \in Nat
    BY <1>1, <1>4, Settings DEF Agent
  <2> QED
    BY <1>2, <1>4, <1>6, <2>1 DEF OutOfSteps, AgentFits, WindowInv
<1>8. EnvInv'
  BY <1>1, StepInv
<1>9. LoggedIsWhole'
  BY <1>2, <1>5, <1>6 DEF WindowInv, LoggedIsWhole
<1> QED
  BY <1>2, <1>4, <1>7, <1>8, <1>9

\* The last step of an episode: unless its equity stopped it, it had them all.
LEMMA FinalStepFits ==
  ASSUME WindowInv, NEW action \in Actions, FinalStepOn(action)
  PROVE  /\ EnvInv' /\ AgentFits' /\ LoggedIsWhole'
         /\ log'.n = log.n + 1 /\ terminal' = TRUE
<1>1. TypeOK /\ EnvInv /\ env \in Configs /\ AgentFits
  BY DEF WindowInv, EnvInv, TypeOK
<1>2. Decoded(action) \in Positions \cup {None, Invalid}
  BY <1>1, ActionsAreInts, DecodedType
<1>3. PICK next \in Advanced(Decoded(action)) :
        LET last == IF Flat(next) THEN next ELSE ClosePosition(next, Bar(next)) IN
        /\ log'.n = log.n + 1
        /\ hist'.steps = last.step /\ hist'.stopped = ~OutOfSteps(next)
  BY DEF FinalStepOn
<1>4. /\ next \in Agent
      /\ next.step = agent.step + 1 /\ next.data_offset = agent.data_offset
  BY <1>1, <1>2, OneStep
<1>5. hist'.steps = next.step
  BY <1>3, <1>4, CloseBeside DEF Beside
<1>6. agent' \in FreshAgents /\ env' = env /\ terminal' = TRUE
  BY DEF FinalStepOn
<1>7. MaxOffset' = MaxOffset
  BY <1>6 DEF MaxOffset
<1>8. AgentFits'
  BY <1>1, <1>6, <1>7, FreshFits DEF AgentFits
<1>9. LoggedIsWhole'
  <2> SUFFICES ASSUME OutOfSteps(next), MaxOffset >= 0
               PROVE  next.step = env.max_steps
    BY <1>3, <1>5, <1>6, <1>7 DEF LoggedIsWhole
  <2>1. /\ env.max_steps \in Nat /\ Timesteps \in Nat
        /\ next.step \in Nat /\ agent.step \in Nat /\ next.data_offset \in Nat
    BY <1>1, <1>4, Settings DEF TypeOK, Agent
  <2>2. next.step <= env.max_steps
    BY <1>1, <1>4, <2>1 DEF AgentFits
  <2>3. next.data_offset <= Timesteps - env.max_steps - 1
    BY <1>1, <1>4 DEF AgentFits, MaxOffset
  <2> QED
    BY <2>1, <2>2, <2>3 DEF OutOfSteps
<1>10. EnvInv'
  BY <1>1, FinalStepInv
<1> QED
  BY <1>3, <1>6, <1>8, <1>9, <1>10

\* A turn of the loop of run_window: the loop ends with the episode and never
\* before it.
LEMMA TurnFits ==
  ASSUME WindowInv, Turn
  PROVE  WindowInv'
<1>1. /\ pc = "loop" /\ policy.kind # "caller" /\ log.n = 0 /\ turns = agent.step
      /\ policy \in Policies /\ env \in Configs /\ policy' = policy
      /\ turns' = turns + 1
      /\ pc' = IF terminal' \/ turns' = Margin THEN "read" ELSE "loop"
  BY DEF Turn, WindowInv, WindowIsOnce, EnvInv, TypeOK
<1>2. PICK action \in Chosen : StepOn(action) \/ FinalStepOn(action)
  BY DEF Turn
<1>3. action \in Actions
  BY <1>1, ChosenActions
<1>4. CASE StepOn(action)
  <2>1. /\ EnvInv' /\ AgentFits' /\ LoggedIsWhole'
        /\ agent'.step = agent.step + 1 /\ log' = log /\ terminal' = FALSE
    BY <1>3, <1>4, StepFits
  <2>2. turns' < Margin
    <3>1. /\ env.max_steps \in Nat /\ env.decision_lag \in Nat
          /\ agent'.step \in Nat /\ env' = env
      BY <1>1, <1>4, <2>1, Settings DEF EnvInv, TypeOK, Agent, StepOn
    <3> QED
      BY <1>1, <2>1, <3>1 DEF AgentFits, Margin
  <2>3. turns' # Margin
    <3>1. Margin \in Int /\ turns' \in Int
      BY <1>1, <2>1, Settings DEF Margin, EnvInv, TypeOK, Agent
    <3> QED
      BY <2>2, <3>1
  <2> QED
    BY <1>1, <2>1, <2>3 DEF WindowInv, WindowIsOnce
<1>5. CASE FinalStepOn(action)
  <2>1. /\ EnvInv' /\ AgentFits' /\ LoggedIsWhole'
        /\ log'.n = log.n + 1 /\ terminal' = TRUE
    BY <1>3, <1>5, FinalStepFits
  <2> QED
    BY <1>1, <2>1 DEF WindowInv, WindowIsOnce
<1> QED
  BY <1>2, <1>4, <1>5

\* Any other caller of the engine.
LEMMA CallerFits ==
  ASSUME WindowInv, Caller
  PROVE  WindowInv'
<1>1. pc' = "caller" /\ policy' = policy
  BY DEF Caller
<1>2. EnvInv' /\ AgentFits' /\ LoggedIsWhole'
  <2>1. CASE Reset
    BY <2>1, ResetFits
  <2>2. CASE Step
    BY <2>2, StepFits DEF Step
  <2>3. CASE FinalStep
    BY <2>3, FinalStepFits DEF FinalStep
  <2> QED
    BY <2>1, <2>2, <2>3 DEF Caller, Next
<1> QED
  BY <1>1, <1>2 DEF WindowInv, WindowIsOnce

-----------------------------------------------------------------------------
\* The engine's invariant and the window's own are inductive for the windows.
THEOREM WindowInvariant == WindowSpec => []WindowInv
<1>1. WindowInit => WindowInv
  BY WindowStarts
<1>2. WindowInv /\ [WindowNext]_windowVars => WindowInv'
  <2> SUFFICES ASSUME WindowInv, [WindowNext]_windowVars PROVE WindowInv'
    OBVIOUS
  <2>1. CASE Begin
    <3>1. EnvInv' /\ AgentFits' /\ LoggedIsWhole' /\ agent'.step = 0 /\ log' = log
      BY <2>1, ResetFits DEF Begin
    <3> QED
      BY <2>1, <3>1 DEF Begin, WindowInv, WindowIsOnce
  <2>2. CASE Turn
    BY <2>2, TurnFits
  <2>3. CASE Caller
    BY <2>3, CallerFits
  <2>4. CASE UNCHANGED windowVars
    BY <2>4 DEF windowVars, vars, WindowInv, EnvInv, TypeOK, Booked, Flat, AgeIsHeld,
                Observed, Bar, AgentFits, MaxOffset, LoggedIsWhole, WindowIsOnce
  <2> QED
    BY <2>1, <2>2, <2>3, <2>4 DEF WindowNext
<1> QED
  BY <1>1, <1>2, PTL DEF WindowSpec

\* run_window reads a log of exactly one episode, which ran max_steps steps if
\* the data has as many and its equity did not stop it.
THEOREM WindowsAreWhole == WindowSpec => []WindowIsWhole
<1>1. WindowInv => WindowIsWhole
  BY DEF WindowInv, LoggedIsWhole, WindowIsOnce, WindowIsWhole
<1> QED
  BY <1>1, WindowInvariant, PTL

\* What c_step promises to every caller - no look-ahead, no lost position, none
\* held for too long - it keeps under the loop of run_window as well.
THEOREM WindowsKeepEngine ==
  WindowSpec => [](NoLookAhead /\ TradesAreBooked /\ HeldNoLonger)
<1>1. EnvInv => NoLookAhead /\ TradesAreBooked /\ HeldNoLonger
  BY ObservedBar DEF EnvInv, TypeOK, Booked, AgeIsHeld,
     NoLookAhead, TradesAreBooked, HeldNoLonger
<1>2. WindowInv => EnvInv
  BY DEF WindowInv
<1> QED
  BY <1>1, <1>2, WindowInvariant, PTL

-----------------------------------------------------------------------------
(* Finite sets: least and greatest elements, and sums.                     *)

\* Every non-empty set of finite sets has a member with no other below it.
LEMMA LeastSet ==
  ASSUME NEW S, IsFiniteSet(S), NEW T \in SUBSET SUBSET S, T # {}
  PROVE  \E s \in T : \A r \in T : r \subseteq s => r = s
<1>1. SUBSET S = FiniteSubsetsOf(S)
  BY FS_FiniteSubsetsOfFinite
<1>2. PICK s \in T : \A r \in T : <<r, s>> \notin StrictSubsetOrdering(S)
  BY <1>1, FS_StrictSubsetOrderingWellFounded, WFMin
<1> QED
  BY <1>2 DEF StrictSubsetOrdering

\* above is a set of pairs that orders S, perhaps not strictly between all.
Orders(above, S) ==
  /\ \A x \in S : <<x, x>> \notin above
  /\ \A x, y, z \in S : <<x, y>> \in above /\ <<y, z>> \in above => <<x, z>> \in above

\* A finite non-empty set has an element that no other is above.
LEMMA TopExists ==
  ASSUME NEW S, IsFiniteSet(S), S # {}, NEW above, Orders(above, S)
  PROVE  \E x \in S : \A y \in S : <<y, x>> \notin above
<1> DEFINE Topped(s) == \E x \in s : \A y \in s : <<y, x>> \notin above
           T == {s \in SUBSET S : s # {} /\ ~Topped(s)}
<1> SUFFICES ASSUME T # {} PROVE FALSE
  OBVIOUS
<1>1. PICK s \in T : \A r \in T : r \subseteq s => r = s
  <2>1. T \in SUBSET SUBSET S
    OBVIOUS
  <2> HIDE DEF T
  <2> QED
    BY <2>1, LeastSet
<1>2. s \in SUBSET S /\ s # {} /\ ~Topped(s)
  OBVIOUS
<1>3. PICK x : x \in s
  BY <1>2
<1>4. PICK m \in s \ {x} : \A y \in s \ {x} : <<y, m>> \notin above
  <2>1. s \ {x} # {}
    BY <1>2, <1>3 DEF Orders
  <2>2. s \ {x} \notin T
    BY <1>1, <1>3
  <2> QED
    BY <1>2, <2>1, <2>2
<1>5. CASE <<x, m>> \in above
  <2>1. \A y \in s : <<y, x>> \notin above
    BY <1>2, <1>3, <1>4, <1>5 DEF Orders
  <2> QED
    BY <1>2, <1>3, <2>1
<1>6. CASE <<x, m>> \notin above
  BY <1>2, <1>4, <1>6
<1> QED
  BY <1>5, <1>6

\* A finite non-empty set of integers has a largest element, which is Max.
LEMMA MaxExists ==
  ASSUME NEW S \in SUBSET Int, IsFiniteSet(S), S # {}
  PROVE  Max(S) \in S /\ \A x \in S : x <= Max(S)
<1> DEFINE above == {p \in S \X S : p[1] > p[2]}
<1>1. Orders(above, S)
  BY DEF Orders
<1>2. PICK x \in S : \A y \in S : <<y, x>> \notin above
  <2> HIDE DEF above
  <2> QED
    BY <1>1, TopExists
<1>3. \A y \in S : x >= y
  <2> TAKE y \in S
  <2>1. ~(y > x) /\ x \in Int /\ y \in Int
    BY <1>2
  <2> QED
    BY <2>1
<1> QED
  BY <1>3 DEF Max

\* The same for the smallest element.
LEMMA MinExists ==
  ASSUME NEW S \in SUBSET Int, IsFiniteSet(S), S # {}
  PROVE  Min(S) \in S /\ \A x \in S : Min(S) <= x
<1> DEFINE above == {p \in S \X S : p[1] < p[2]}
<1>1. Orders(above, S)
  BY DEF Orders
<1>2. PICK x \in S : \A y \in S : <<y, x>> \notin above
  <2> HIDE DEF above
  <2> QED
    BY <1>1, TopExists
<1>3. \A y \in S : x <= y
  <2> TAKE y \in S
  <2>1. ~(y < x) /\ x \in Int /\ y \in Int
    BY <1>2
  <2> QED
    BY <2>1
<1> QED
  BY <1>3 DEF Min

-----------------------------------------------------------------------------
\* The sum of a function over a set, however the fold picks from it.
Pick(S) == CHOOSE x \in S : TRUE
Folded(f, h, s) == IF s = {} THEN 0 ELSE f[Pick(s)] + h[s \ {Pick(s)}]
Unfolded(f, s) == IF s = {} THEN 0 ELSE f[Pick(s)] + SumFunctionOnSet(f, s \ {Pick(s)})

\* The sum is that of one element and of the others.
LEMMA SumUnfolds ==
  ASSUME NEW f, NEW S, IsFiniteSet(S)
  PROVE  SumFunctionOnSet(f, S) = Unfolded(f, S)
<1> DEFINE Total(s) == SumFunctionOnSet(f, s)
           T == {s \in SUBSET S : Total(s) # Unfolded(f, s)}
<1> SUFFICES ASSUME T # {} PROVE FALSE
  OBVIOUS
<1>1. PICK s \in T : \A r \in T : r \subseteq s => r = s
  <2>1. T \in SUBSET SUBSET S
    OBVIOUS
  <2> HIDE DEF T
  <2> QED
    BY <2>1, LeastSet
<1>2. s \in SUBSET S /\ Total(s) # Unfolded(f, s)
  OBVIOUS
<1>3. \A r \in SUBSET s : r # s => Total(r) = Unfolded(f, r)
  <2> SUFFICES ASSUME NEW r \in SUBSET s, r # s, Total(r) # Unfolded(f, r) PROVE FALSE
    OBVIOUS
  <2>1. r \in T
    BY <1>2
  <2> QED
    BY <1>1, <2>1
<1> HIDE DEF T
<1>4. \A r \in SUBSET s :
        r # {} => Pick(r) \in r /\ r \ {Pick(r)} \in SUBSET s /\ r \ {Pick(r)} # s
  BY DEF Pick
<1> DEFINE g == [r \in SUBSET s |-> IF r = s THEN Unfolded(f, s) ELSE Total(r)]
<1>5. ASSUME NEW r \in SUBSET s PROVE g[r] = Folded(f, g, r)
  <2>1. g[r] = Unfolded(f, r)
    BY <1>3
  <2>2. r # {} => g[r \ {Pick(r)}] = Total(r \ {Pick(r)})
    BY <1>4
  <2> HIDE DEF g
  <2> QED
    BY <2>1, <2>2 DEF Folded, Unfolded
<1>6. g = [r \in SUBSET s |-> Folded(f, g, r)]
  <2>1. g = [r \in SUBSET s |-> g[r]]
    OBVIOUS
  <2> HIDE DEF g
  <2> QED
    BY <1>5, <2>1
<1>7. g[s] = Unfolded(f, s)
  OBVIOUS
<1> HIDE DEF g
<1>8. ASSUME NEW h, h = [r \in SUBSET s |-> Folded(f, h, r)]
      PROVE  h[s] = g[s]
  <2> DEFINE D == {r \in SUBSET s : h[r] # g[r]}
  <2> SUFFICES ASSUME D # {} PROVE FALSE
    OBVIOUS
  <2>1. PICK r \in D : \A q \in D : q \subseteq r => q = r
    <3>1. D \in SUBSET SUBSET s /\ IsFiniteSet(s)
      BY <1>2, FS_Subset
    <3> HIDE DEF D
    <3> QED
      BY <3>1, LeastSet
  <2>2. r \in SUBSET s /\ h[r] # g[r]
    OBVIOUS
  <2>3. h[r] = Folded(f, h, r) /\ g[r] = Folded(f, g, r)
    BY <1>5, <1>8, <2>2
  <2>4. r # {} => h[r \ {Pick(r)}] = g[r \ {Pick(r)}]
    <3>1. r # {} => r \ {Pick(r)} \in SUBSET s /\ r \ {Pick(r)} # r /\ r \ {Pick(r)} \subseteq r
      BY <1>4, <2>2
    <3> QED
      BY <2>1, <3>1
  <2> QED
    BY <2>2, <2>3, <2>4 DEF Folded
<1>9. Total(s) = (CHOOSE h : h = [r \in SUBSET s |-> Folded(f, h, r)])[s]
  BY DEF SumFunctionOnSet, FoldFunctionOnSet, MapThenFoldSet, Folded, Pick
<1>10. (CHOOSE h : h = [r \in SUBSET s |-> Folded(f, h, r)])[s] = g[s]
  BY <1>6, <1>8
<1> QED
  BY <1>2, <1>7, <1>9, <1>10

\* The sum over s is an integer, and any element of s adds its value to it.
IsSum(f, s) ==
  /\ SumFunctionOnSet(f, s) \in Int
  /\ \A x \in s : /\ SumFunctionOnSet(f, s \ {x}) \in Int
                  /\ SumFunctionOnSet(f, s) = f[x] + SumFunctionOnSet(f, s \ {x})

\* Integers have such sums, and over no set at all the sum is zero.
LEMMA SumStep ==
  ASSUME NEW S, IsFiniteSet(S), NEW f, \A x \in S : f[x] \in Int
  PROVE  IsSum(f, S) /\ SumFunctionOnSet(f, {}) = 0
<1> DEFINE Total(s) == SumFunctionOnSet(f, s)
           T == {s \in SUBSET S : ~IsSum(f, s)}
<1>0. Total({}) = 0
  BY FS_EmptySet, SumUnfolds DEF Unfolded
<1> SUFFICES ASSUME T # {} PROVE FALSE
  BY <1>0
<1>1. PICK s \in T : \A r \in T : r \subseteq s => r = s
  <2>1. T \in SUBSET SUBSET S
    OBVIOUS
  <2> HIDE DEF T
  <2> QED
    BY <2>1, LeastSet
<1>2. s \in SUBSET S /\ ~IsSum(f, s)
  OBVIOUS
<1>3. \A r \in SUBSET s : r # s => IsSum(f, r)
  <2> SUFFICES ASSUME NEW r \in SUBSET s, r # s, ~IsSum(f, r) PROVE FALSE
    OBVIOUS
  <2>1. r \in T
    BY <1>2
  <2> QED
    BY <1>1, <2>1
<1> HIDE DEF T
<1>4. s # {}
  BY <1>0, <1>2 DEF IsSum
<1> DEFINE y == Pick(s)
<1>5. y \in s
  BY <1>4 DEF Pick
<1>6. Total(s) = f[y] + Total(s \ {y})
  BY <1>2, <1>4, FS_Subset, SumUnfolds DEF Unfolded
<1> HIDE DEF y
<1>7. \A x \in s : IsSum(f, s \ {x}) /\ f[x] \in Int
  <2>1. \A x \in s : s \ {x} \in SUBSET s /\ s \ {x} # s
    OBVIOUS
  <2> QED
    BY <1>2, <1>3, <2>1
<1>8. \A x \in s : Total(s \ {x}) \in Int
  BY <1>7 DEF IsSum
<1>9. ASSUME NEW x \in s, x # y PROVE Total(s) = f[x] + Total(s \ {x})
  <2>1. x \in s \ {y} /\ y \in s \ {x} /\ (s \ {x}) \ {y} = (s \ {y}) \ {x}
    BY <1>5, <1>9
  <2> DEFINE rest == (s \ {y}) \ {x}
  <2>2. Total(s \ {y}) = f[x] + Total(rest) /\ Total(rest) \in Int
    BY <1>5, <1>7, <2>1 DEF IsSum
  <2>3. Total(s \ {x}) = f[y] + Total(rest)
    BY <1>7, <2>1 DEF IsSum
  <2>4. f[x] \in Int /\ f[y] \in Int
    BY <1>5, <1>7
  <2> HIDE DEF rest, Total
  <2> QED
    BY <1>6, <2>2, <2>3, <2>4
<1>10. Total(s) \in Int
  <2>1. f[y] \in Int /\ Total(s \ {y}) \in Int
    BY <1>5, <1>7, <1>8
  <2> QED
    BY <1>6, <2>1
<1>11. ASSUME NEW x \in s PROVE Total(s) = f[x] + Total(s \ {x})
  <2>1. CASE x = y
    BY <1>6, <2>1
  <2>2. CASE x # y
    BY <1>9, <2>2
  <2> QED
    BY <2>1, <2>2
<1> QED
  BY <1>2, <1>8, <1>10, <1>11 DEF IsSum

\* Only the values on the set matter.
LEMMA SumOfSame ==
  ASSUME NEW S, IsFiniteSet(S), NEW f, NEW g, \A x \in S : f[x] = g[x]
  PROVE  SumFunctionOnSet(f, S) = SumFunctionOnSet(g, S)
<1> DEFINE T == {s \in SUBSET S : SumFunctionOnSet(f, s) # SumFunctionOnSet(g, s)}
<1> SUFFICES ASSUME T # {} PROVE FALSE
  OBVIOUS
<1>1. PICK s \in T : \A r \in T : r \subseteq s => r = s
  <2>1. T \in SUBSET SUBSET S
    OBVIOUS
  <2> HIDE DEF T
  <2> QED
    BY <2>1, LeastSet
<1>2. s \in SUBSET S /\ SumFunctionOnSet(f, s) # SumFunctionOnSet(g, s)
  OBVIOUS
<1>3. SumFunctionOnSet(f, s) = Unfolded(f, s) /\ SumFunctionOnSet(g, s) = Unfolded(g, s)
  BY <1>2, FS_Subset, SumUnfolds
<1>4. s # {} => Pick(s) \in s /\ s \ {Pick(s)} \in SUBSET S /\ s \ {Pick(s)} # s
  BY <1>2 DEF Pick
<1>5. s # {} => SumFunctionOnSet(f, s \ {Pick(s)}) = SumFunctionOnSet(g, s \ {Pick(s)})
  BY <1>1, <1>4
<1> QED
  BY <1>2, <1>3, <1>4, <1>5 DEF Unfolded

\* One element taken out of a finite set.
LEMMA OneLess ==
  ASSUME NEW S, IsFiniteSet(S), NEW f, \A x \in S : f[x] \in Int,
         NEW s \in SUBSET S, s # {}
  PROVE  \E x \in s : /\ s \ {x} \in SUBSET S /\ s \ {x} # s
                      /\ SumFunctionOnSet(f, s \ {x}) \in Int
                      /\ SumFunctionOnSet(f, s) = f[x] + SumFunctionOnSet(f, s \ {x})
                      /\ Cardinality(s \ {x}) \in Nat
                      /\ Cardinality(s) = Cardinality(s \ {x}) + 1
<1>1. PICK x : x \in s
  OBVIOUS
<1>2. IsFiniteSet(s) /\ IsFiniteSet(s \ {x})
  BY FS_Subset
<1>3. IsSum(f, s)
  BY <1>2, SumStep
<1>4. Cardinality(s \ {x}) = Cardinality(s) - 1
  BY <1>1, <1>2, FS_RemoveElement
<1>5. Cardinality(s) \in Nat /\ Cardinality(s \ {x}) \in Nat
  BY <1>2, FS_CardinalityType
<1>6. Cardinality(s) = Cardinality(s \ {x}) + 1
  BY <1>4, <1>5
<1> QED
  BY <1>1, <1>3, <1>5, <1>6 DEF IsSum

\* The sum of values none of which is below k.
LEMMA SumAtLeast ==
  ASSUME NEW S, IsFiniteSet(S), NEW f, NEW k \in Int, \A x \in S : f[x] \in Int /\ f[x] >= k
  PROVE  SumFunctionOnSet(f, S) >= k * Cardinality(S)
<1> DEFINE AtLeast(s) == SumFunctionOnSet(f, s) >= k * Cardinality(s)
           T == {s \in SUBSET S : ~AtLeast(s)}
<1> SUFFICES ASSUME T # {} PROVE FALSE
  OBVIOUS
<1>1. PICK s \in T : \A r \in T : r \subseteq s => r = s
  <2>1. T \in SUBSET SUBSET S
    OBVIOUS
  <2> HIDE DEF T
  <2> QED
    BY <2>1, LeastSet
<1>2. s \in SUBSET S /\ ~AtLeast(s)
  OBVIOUS
<1>3. s # {}
  <2>1. SumFunctionOnSet(f, {}) = 0 /\ Cardinality({}) = 0
    BY SumStep, FS_EmptySet
  <2>2. AtLeast({})
    BY <2>1
  <2> QED
    BY <1>2, <2>2
<1>4. PICK x \in s : /\ s \ {x} \in SUBSET S /\ s \ {x} # s
                     /\ SumFunctionOnSet(f, s \ {x}) \in Int
                     /\ SumFunctionOnSet(f, s) = f[x] + SumFunctionOnSet(f, s \ {x})
                     /\ Cardinality(s \ {x}) \in Nat
                     /\ Cardinality(s) = Cardinality(s \ {x}) + 1
  BY <1>2, <1>3, OneLess
<1>5. AtLeast(s \ {x})
  <2>1. s \ {x} \notin T
    BY <1>1, <1>4
  <2> QED
    BY <1>4, <2>1
<1>6. f[x] \in Int /\ f[x] >= k
  BY <1>2
<1> DEFINE c == Cardinality(s \ {x})
           t == SumFunctionOnSet(f, s \ {x})
<1>7. t >= k * c /\ c \in Nat /\ t \in Int
  BY <1>4, <1>5
<1> HIDE DEF c, t
<1>8. f[x] + t >= k * (c + 1)
  BY <1>6, <1>7
<1> QED
  BY <1>2, <1>4, <1>8 DEF c, t

\* The sum of a multiple of the values.
LEMMA SumScaled ==
  ASSUME NEW S, IsFiniteSet(S), NEW f, NEW g, NEW b \in Int,
         \A x \in S : f[x] \in Int /\ g[x] = b * f[x]
  PROVE  SumFunctionOnSet(g, S) = b * SumFunctionOnSet(f, S)
<1> DEFINE Scaled(s) == SumFunctionOnSet(g, s) = b * SumFunctionOnSet(f, s)
           T == {s \in SUBSET S : ~Scaled(s)}
<1> SUFFICES ASSUME T # {} PROVE FALSE
  OBVIOUS
<1>0. \A x \in S : f[x] \in Int /\ g[x] \in Int
  OBVIOUS
<1>1. PICK s \in T : \A r \in T : r \subseteq s => r = s
  <2>1. T \in SUBSET SUBSET S
    OBVIOUS
  <2> HIDE DEF T
  <2> QED
    BY <2>1, LeastSet
<1>2. s \in SUBSET S /\ ~Scaled(s) /\ IsFiniteSet(s)
  BY FS_Subset
<1>3. s # {}
  <2>1. SumFunctionOnSet(f, {}) = 0 /\ SumFunctionOnSet(g, {}) = 0
    BY <1>0, SumStep
  <2>2. Scaled({})
    BY <2>1
  <2> QED
    BY <1>2, <2>2
<1>4. PICK x : x \in s
  BY <1>3
<1>5. IsSum(f, s) /\ IsSum(g, s)
  BY <1>0, <1>2, SumStep
<1>6. Scaled(s \ {x})
  <2>1. s \ {x} \notin T /\ s \ {x} \in SUBSET S
    BY <1>1, <1>2, <1>4
  <2> QED
    BY <2>1
<1> DEFINE tf == SumFunctionOnSet(f, s \ {x})
           tg == SumFunctionOnSet(g, s \ {x})
<1>7. /\ tf \in Int /\ f[x] \in Int /\ g[x] = b * f[x] /\ tg = b * tf
      /\ SumFunctionOnSet(f, s) = f[x] + tf /\ SumFunctionOnSet(g, s) = g[x] + tg
  BY <1>2, <1>4, <1>5, <1>6 DEF IsSum
<1> HIDE DEF tf, tg
<1>8. g[x] + tg = b * (f[x] + tf)
  BY <1>7
<1> QED
  BY <1>2, <1>7, <1>8

\* The sum of values none of which is above k.
LEMMA SumAtMost ==
  ASSUME NEW S, IsFiniteSet(S), NEW f, NEW k \in Int, \A x \in S : f[x] \in Int /\ f[x] <= k
  PROVE  SumFunctionOnSet(f, S) <= k * Cardinality(S)
<1> DEFINE g == [x \in S |-> (-1) * f[x]]
           t == SumFunctionOnSet(f, S)
           c == Cardinality(S)
<1>1. \A x \in S : g[x] \in Int /\ g[x] >= -k /\ g[x] = (-1) * f[x]
  OBVIOUS
<1>2. t \in Int /\ c \in Nat
  BY SumStep, FS_CardinalityType DEF IsSum
<1>3. SumFunctionOnSet(g, S) = (-1) * t
  <2> HIDE DEF g
  <2> QED
    BY <1>1, SumScaled
<1>4. SumFunctionOnSet(g, S) >= (-k) * c
  <2>1. -k \in Int
    OBVIOUS
  <2> DEFINE m == -k
  <2> HIDE DEF g, m
  <2>2. m \in Int /\ \A x \in S : g[x] \in Int /\ g[x] >= m
    BY <1>1, <2>1 DEF m
  <2>3. SumFunctionOnSet(g, S) >= m * c
    BY <2>2, SumAtLeast
  <2> QED
    BY <2>3 DEF m
<1> HIDE DEF g, t, c
<1>5. t <= k * c
  BY <1>2, <1>3, <1>4
<1> QED
  BY <1>5 DEF t, c

\* A sum over a set is that over a part of it and that over the rest.
LEMMA SumSplits ==
  ASSUME NEW S, IsFiniteSet(S), NEW f, \A x \in S : f[x] \in Int, NEW A \in SUBSET S
  PROVE  SumFunctionOnSet(f, S) = SumFunctionOnSet(f, A) + SumFunctionOnSet(f, S \ A)
<1> DEFINE Total(s) == SumFunctionOnSet(f, s)
           T == {s \in SUBSET S : Total(S) # Total(s) + Total(S \ s)}
<1> SUFFICES ASSUME T # {} PROVE FALSE
  OBVIOUS
<1>1. PICK s \in T : \A r \in T : r \subseteq s => r = s
  <2>1. T \in SUBSET SUBSET S
    OBVIOUS
  <2> HIDE DEF T
  <2> QED
    BY <2>1, LeastSet
<1>2. s \in SUBSET S /\ Total(S) # Total(s) + Total(S \ s)
  OBVIOUS
<1>3. s # {}
  <2>1. Total(S) \in Int /\ Total({}) = 0 /\ S \ {} = S
    BY SumStep DEF IsSum
  <2> HIDE DEF Total
  <2>2. Total(S) = Total({}) + Total(S \ {})
    BY <2>1
  <2> QED
    BY <1>2, <2>2
<1>4. PICK x : x \in s
  BY <1>3
<1> DEFINE r == s \ {x}
<1>5. r \in SUBSET S /\ r # s /\ r \subseteq s /\ x \in S \ r /\ (S \ r) \ {x} = S \ s
  BY <1>2, <1>4
<1>6. Total(S) = Total(r) + Total(S \ r)
  <2>1. r \notin T
    BY <1>1, <1>5
  <2> QED
    BY <1>5, <2>1
<1>7. IsSum(f, s) /\ IsSum(f, S \ r)
  BY <1>2, <1>5, FS_Subset, SumStep
<1>8. Total(s) = f[x] + Total(r) /\ Total(r) \in Int
  BY <1>4, <1>7 DEF IsSum
<1>9. Total(S \ r) = f[x] + Total(S \ s) /\ Total(S \ s) \in Int
  BY <1>5, <1>7 DEF IsSum
<1>10. f[x] \in Int
  BY <1>2, <1>4
<1> HIDE DEF Total, r
<1> QED
  BY <1>2, <1>6, <1>8, <1>9, <1>10

-----------------------------------------------------------------------------
(* The book of the strategy.                                               *)

\* Signals on finitely many symbols, and a configuration, which fit Unit.
Priced(signals, cfg) ==
  /\ IsFiniteSet(DOMAIN signals) /\ DOMAIN signals \subseteq Int
  /\ cfg \in StrategyConfig
  /\ \A s \in DOMAIN signals :
       /\ signals[s] \in Signal
       /\ Unit % Max({signals[s].volatility, cfg.min_volatility}) = 0

\* The inverse volatilities, whose sums over sets of names RawOf is.
Raws(signals, cfg) == [s \in DOMAIN signals |-> Raw(signals, cfg, s)]

\* A volatility divides Unit, and the inverse is what it leaves.
LEMMA RawType ==
  ASSUME NEW signals, NEW cfg, Priced(signals, cfg), NEW s \in DOMAIN signals
  PROVE  /\ Volatility(signals, cfg, s) \in Nat \ {0}
         /\ Raw(signals, cfg, s) \in Nat \ {0}
         /\ Raw(signals, cfg, s) * Volatility(signals, cfg, s) = Unit
<1> DEFINE v == Volatility(signals, cfg, s)
<1>1. signals[s].volatility \in Nat /\ cfg.min_volatility \in Nat \ {0}
  BY DEF Priced, Signal, StrategyConfig
<1>2. v \in Nat \ {0}
  <2>1. /\ v \in {signals[s].volatility, cfg.min_volatility}
        /\ v >= cfg.min_volatility
    <3>1. signals[s].volatility \in Int /\ cfg.min_volatility \in Int
      BY <1>1
    <3> QED
      BY <3>1, MaxOfTwo, Zenon DEF Volatility
  <2> HIDE DEF v
  <2> QED
    BY <1>1, <2>1
<1>3. Unit % v = 0 /\ Unit \in Nat \ {0}
  BY UnitAssumption DEF Priced, Volatility
<1>4. Raw(signals, cfg, s) = Unit \div v
  BY DEF Raw
<1> HIDE DEF v
<1>5. (Unit \div v) * v = Unit /\ Unit \div v \in Nat
  BY <1>2, <1>3
<1>6. Unit \div v # 0
  BY <1>2, <1>3, <1>5
<1> QED
  BY <1>2, <1>4, <1>5, <1>6 DEF v

\* The sum of the inverse volatilities of some names.
LEMMA RawOfType ==
  ASSUME NEW signals, NEW cfg, Priced(signals, cfg), NEW ss \in SUBSET DOMAIN signals
  PROVE  /\ IsFiniteSet(ss) /\ Cardinality(ss) \in Nat
         /\ RawOf(signals, cfg, ss) = SumFunctionOnSet(Raws(signals, cfg), ss)
         /\ RawOf(signals, cfg, ss) \in Nat
         /\ ss # {} => RawOf(signals, cfg, ss) > 0
         /\ RawOf(signals, cfg, {}) = 0
<1> DEFINE f == Raws(signals, cfg)
           t == RawOf(signals, cfg, ss)
           n == Cardinality(ss)
<1>1. IsFiniteSet(ss) /\ n \in Nat
  BY FS_Subset, FS_CardinalityType DEF Priced
<1>2. t = SumFunctionOnSet(f, ss) /\ RawOf(signals, cfg, {}) = SumFunctionOnSet(f, {})
  BY DEF RawOf, Raws
<1>3. \A s \in ss : f[s] \in Int /\ f[s] >= 1
  BY RawType DEF Raws
<1> HIDE DEF f
<1>4. IsSum(f, ss) /\ SumFunctionOnSet(f, {}) = 0
  BY <1>1, <1>3, SumStep
<1>5. t >= 1 * n
  BY <1>1, <1>2, <1>3, SumAtLeast
<1>6. ss # {} => n # 0
  BY <1>1, FS_EmptySet
<1>7. t \in Int
  BY <1>2, <1>4 DEF IsSum
<1> HIDE DEF t, n
<1>8. t \in Nat /\ (ss # {} => t > 0)
  BY <1>1, <1>5, <1>6, <1>7
<1> QED
  BY <1>1, <1>2, <1>4, <1>8 DEF f, t, n

-----------------------------------------------------------------------------
(* The rounds of inverse_vol_weights.                                      *)

\* What the names capped so far leave to the others.
Left(cfg, picks, r) ==
  cfg.gross_exposure - cfg.max_position_weight * Cardinality(picks \ r)
Over(signals, cfg, picks, r) == Overflowing(signals, cfg, r, Left(cfg, picks, r))
Ends(signals, cfg, picks, r) ==
  r = {} \/ Left(cfg, picks, r) <= 0 \/ Over(signals, cfg, picks, r) = {}

\* The names left uncapped by a loop that has come to r, as `after` says it, and
\* as one round and the loop after it.
Rounds(signals, cfg, picks, h, r) ==
  IF Ends(signals, cfg, picks, r) THEN r ELSE h[r \ Over(signals, cfg, picks, r)]
Rest(signals, cfg, picks, r) ==
  (CHOOSE h : h = [q \in SUBSET r |-> Rounds(signals, cfg, picks, h, q)])[r]
RestRound(signals, cfg, picks, r) ==
  IF Ends(signals, cfg, picks, r) THEN r
  ELSE Rest(signals, cfg, picks, r \ Over(signals, cfg, picks, r))

\* The loop is one round of it and the loop on the names that are left.
LEMMA RestUnfolds ==
  ASSUME NEW signals, NEW cfg, NEW picks, NEW S, IsFiniteSet(S)
  PROVE  Rest(signals, cfg, picks, S) = RestRound(signals, cfg, picks, S)
<1> DEFINE E(r) == Ends(signals, cfg, picks, r)
           O(r) == Over(signals, cfg, picks, r)
           R(r) == Rest(signals, cfg, picks, r)
           One(r) == RestRound(signals, cfg, picks, r)
           F(h, r) == Rounds(signals, cfg, picks, h, r)
           T == {s \in SUBSET S : R(s) # One(s)}
<1> SUFFICES ASSUME T # {} PROVE FALSE
  OBVIOUS
<1>1. PICK s \in T : \A r \in T : r \subseteq s => r = s
  <2>1. T \in SUBSET SUBSET S
    OBVIOUS
  <2> HIDE DEF T
  <2> QED
    BY <2>1, LeastSet
<1>2. s \in SUBSET S /\ R(s) # One(s)
  OBVIOUS
<1>3. \A r \in SUBSET s : r # s => R(r) = One(r)
  <2> SUFFICES ASSUME NEW r \in SUBSET s, r # s, R(r) # One(r) PROVE FALSE
    OBVIOUS
  <2>1. r \in T
    BY <1>2
  <2> QED
    BY <1>1, <2>1
<1> HIDE DEF T
<1>4. \A r \in SUBSET s : ~E(r) => /\ r \ O(r) \in SUBSET s /\ r \ O(r) # s
                                   /\ r \ O(r) \subseteq r /\ r \ O(r) # r
  BY DEF Ends, Over, Overflowing
<1>5. /\ \A r : One(r) = IF E(r) THEN r ELSE R(r \ O(r))
      /\ \A h, r : F(h, r) = IF E(r) THEN r ELSE h[r \ O(r)]
      /\ \A r : R(r) = (CHOOSE h : h = [q \in SUBSET r |-> F(h, q)])[r]
  BY DEF RestRound, Rounds, Rest
<1> HIDE DEF E, O, R, One, F
<1> DEFINE g == [r \in SUBSET s |-> IF r = s THEN One(s) ELSE R(r)]
<1>6. ASSUME NEW r \in SUBSET s PROVE g[r] = F(g, r)
  <2>1. g[r] = One(r)
    BY <1>3
  <2>2. ~E(r) => g[r \ O(r)] = R(r \ O(r))
    BY <1>4
  <2> HIDE DEF g
  <2> QED
    BY <1>5, <2>1, <2>2
<1>7. g = [r \in SUBSET s |-> F(g, r)]
  <2>1. g = [r \in SUBSET s |-> g[r]]
    OBVIOUS
  <2> HIDE DEF g
  <2> QED
    BY <1>6, <2>1
<1>8. g[s] = One(s)
  OBVIOUS
<1> HIDE DEF g
<1>9. ASSUME NEW h, h = [r \in SUBSET s |-> F(h, r)]
      PROVE  h[s] = g[s]
  <2> DEFINE D == {r \in SUBSET s : h[r] # g[r]}
  <2> SUFFICES ASSUME D # {} PROVE FALSE
    OBVIOUS
  <2>1. PICK r \in D : \A q \in D : q \subseteq r => q = r
    <3>1. D \in SUBSET SUBSET s /\ IsFiniteSet(s)
      BY <1>2, FS_Subset
    <3> HIDE DEF D
    <3> QED
      BY <3>1, LeastSet
  <2>2. r \in SUBSET s /\ h[r] # g[r]
    OBVIOUS
  <2>3. h[r] = F(h, r) /\ g[r] = F(g, r)
    BY <1>6, <1>9, <2>2
  <2>4. ~E(r) => h[r \ O(r)] = g[r \ O(r)]
    <3>1. ~E(r) => r \ O(r) \in SUBSET s /\ r \ O(r) # r /\ r \ O(r) \subseteq r
      BY <1>4, <2>2
    <3> QED
      BY <2>1, <3>1
  <2> QED
    BY <1>5, <2>2, <2>3, <2>4
<1>10. R(s) = (CHOOSE h : h = [r \in SUBSET s |-> F(h, r)])[s]
  BY <1>5
<1>11. (CHOOSE h : h = [r \in SUBSET s |-> F(h, r)])[s] = g[s]
  BY <1>7, <1>9
<1> QED
  BY <1>2, <1>8, <1>10, <1>11

\* The loop of inverse_vol_weights.
LEMMA UncappedIsRest ==
  ASSUME NEW signals, NEW cfg, NEW picks
  PROVE  Uncapped(signals, cfg, picks) = Rest(signals, cfg, picks, picks)
BY DEF Uncapped, Rest, Rounds, Ends, Over, Left

\* The loop stands at r: it has not deployed everything, and the names that it
\* capped would still get the cap or more from what is left.
Justified(signals, cfg, picks, r) ==
  /\ r \in SUBSET picks
  /\ Left(cfg, picks, r) > 0
  /\ \A s \in picks \ r :
       Left(cfg, picks, r) * Raw(signals, cfg, s)
         >= cfg.max_position_weight * RawOf(signals, cfg, r)

\* It ends there.
Settled(signals, cfg, picks, r) ==
  Justified(signals, cfg, picks, r) /\ Ends(signals, cfg, picks, r)

\* What a round that caps k of the names leaves: the level of the water, which is
\* the budget over the sum of the inverse volatilities, does not fall.
LEMMA RoundArithmetic ==
  ASSUME NEW b \in Int, b > 0, NEW c \in Nat, NEW k \in Nat, k > 0,
         NEW t \in Nat, NEW t1 \in Nat, NEW t2 \in Nat, t = t1 + t2,
         b * t1 >= (c * t + 1) * k
  PROVE  b - c * k > 0 /\ (b - c * k) * t >= b * t2
<1>1. c * k \in Nat /\ b * t1 \in Nat /\ b * t2 \in Nat /\ (c * k) * t \in Nat
  OBVIOUS
<1>2. b * t = b * t1 + b * t2
  OBVIOUS
<1>3. (c * t + 1) * k = (c * k) * t + k
  OBVIOUS
<1>4. b * t1 > (c * k) * t
  BY <1>1, <1>3
<1>5. b * t > (c * k) * t
  BY <1>1, <1>2, <1>4
<1>6. (b - c * k) * t = b * t - (c * k) * t
  OBVIOUS
<1>7. (b - c * k) * t >= b * t2
  BY <1>1, <1>2, <1>4, <1>6
<1>8. ASSUME b <= c * k PROVE FALSE
  <2>1. b * t <= (c * k) * t
    BY <1>1, <1>8, TimesMonotonic
  <2> QED
    BY <1>1, <1>5, <2>1
<1> QED
  BY <1>1, <1>7, <1>8

\* A name that was justly capped stays so when the level does not fall.
LEMMA StaysJustified ==
  ASSUME NEW b \in Nat, NEW b2 \in Nat, NEW c \in Nat, NEW x \in Nat,
         NEW t \in Nat \ {0}, NEW t2 \in Nat,
         b2 * t >= b * t2, b * x >= c * t
  PROVE  b2 * x >= c * t2
<1>1. (b2 * t) * x >= (b * t2) * x
  <2>1. b2 * t \in Nat /\ b * t2 \in Nat
    OBVIOUS
  <2> QED
    BY <2>1, TimesMonotonic
<1>2. (b * x) * t2 >= (c * t) * t2
  <2>1. b * x \in Nat /\ c * t \in Nat
    OBVIOUS
  <2> QED
    BY <2>1, TimesMonotonic
<1>3. (b2 * x) * t >= (c * t2) * t
  BY <1>1, <1>2
<1>4. ASSUME c * t2 > b2 * x PROVE FALSE
  <2>1. c * t2 \in Nat /\ b2 * x \in Nat /\ b2 * x + 1 <= c * t2
    BY <1>4
  <2>2. (b2 * x + 1) * t <= (c * t2) * t
    BY <2>1, TimesMonotonic
  <2>3. (b2 * x + 1) * t = (b2 * x) * t + t
    BY <2>1
  <2>4. (b2 * x) * t \in Nat /\ (c * t2) * t \in Nat
    BY <2>1
  <2> QED
    BY <1>3, <2>2, <2>3, <2>4
<1> QED
  BY <1>4

\* The shares of some names, and the sum of them.
Shares(signals, cfg, b) == [s \in DOMAIN signals |-> b * Raw(signals, cfg, s)]

\* They add up to the budget times the sum of the inverse volatilities.
LEMMA SharesSum ==
  ASSUME NEW signals, NEW cfg, Priced(signals, cfg), NEW ss \in SUBSET DOMAIN signals,
         NEW b \in Nat
  PROVE  /\ \A s \in ss : Shares(signals, cfg, b)[s] \in Nat
         /\ SumFunctionOnSet(Shares(signals, cfg, b), ss) = b * RawOf(signals, cfg, ss)
<1>1. \A s \in DOMAIN signals : Raw(signals, cfg, s) \in Nat
  BY RawType
<1>2. \A s \in ss : /\ Raws(signals, cfg)[s] \in Int
                    /\ Shares(signals, cfg, b)[s] = b * Raws(signals, cfg)[s]
                    /\ Shares(signals, cfg, b)[s] \in Nat
  BY <1>1 DEF Raws, Shares
<1>3. IsFiniteSet(ss) /\ RawOf(signals, cfg, ss) = SumFunctionOnSet(Raws(signals, cfg), ss)
  BY RawOfType
<1>4. b \in Int
  OBVIOUS
<1> DEFINE f == Raws(signals, cfg)
           g == Shares(signals, cfg, b)
<1> HIDE DEF f, g
<1>5. \A s \in ss : f[s] \in Int /\ g[s] = b * f[s]
  BY <1>2 DEF f, g
<1>6. SumFunctionOnSet(g, ss) = b * SumFunctionOnSet(f, ss)
  BY <1>3, <1>4, <1>5, SumScaled
<1> QED
  BY <1>2, <1>3, <1>6 DEF f, g

\* A round that caps the names of o leaves the others justified.
LEMMA RoundJustifies ==
  ASSUME NEW signals, NEW cfg, Priced(signals, cfg), NEW picks \in SUBSET DOMAIN signals,
         NEW r, Justified(signals, cfg, picks, r), ~Ends(signals, cfg, picks, r)
  PROVE  Justified(signals, cfg, picks, r \ Over(signals, cfg, picks, r))
<1> DEFINE o == Over(signals, cfg, picks, r)
           r2 == r \ o
           b == Left(cfg, picks, r)
           b2 == Left(cfg, picks, r2)
           c == cfg.max_position_weight
           t == RawOf(signals, cfg, r)
           t1 == RawOf(signals, cfg, o)
           t2 == RawOf(signals, cfg, r2)
           k == Cardinality(o)
           raw(s) == Raw(signals, cfg, s)
           g == Shares(signals, cfg, b)
<1>1. /\ r \in SUBSET picks /\ r # {} /\ o # {} /\ o \in SUBSET r /\ r2 \in SUBSET r
      /\ c \in Nat
  BY DEF Justified, Ends, Over, Overflowing, Priced, StrategyConfig
<1>2. b \in Int /\ b > 0
  <2>1. Cardinality(picks \ r) \in Nat
    BY <1>1, RawOfType
  <2> QED
    BY <2>1 DEF Justified, Left, Priced, StrategyConfig
<1>3. t \in Nat \ {0} /\ t1 \in Nat /\ t2 \in Nat /\ k \in Nat /\ k > 0
  <2>1. k \in Nat /\ k # 0
    BY <1>1, RawOfType, FS_EmptySet
  <2>2. t \in Nat /\ t > 0 /\ t1 \in Nat /\ t2 \in Nat
    BY <1>1, RawOfType
  <2> HIDE DEF k, t, t1, t2
  <2> QED
    BY <2>1, <2>2
<1>4. \A s \in o : b * raw(s) > c * t
  BY DEF Over, Overflowing
<1>5. \A s \in picks : raw(s) \in Nat
  BY RawType
<1>6. b2 = b - c * k
  <2> DEFINE n == Cardinality(picks \ r)
  <2>1. picks \ r2 = (picks \ r) \cup o /\ (picks \ r) \cap o = {}
    BY <1>1
  <2>2. IsFiniteSet(picks \ r) /\ IsFiniteSet(o) /\ n \in Nat
    BY <1>1, RawOfType
  <2>3. Cardinality(picks \ r2) = n + k
    <3>1. Cardinality({}) = 0
      BY FS_EmptySet
    <3>2. Cardinality((picks \ r) \cup o) = n + k - Cardinality((picks \ r) \cap o)
      <4> HIDE DEF o
      <4> QED  BY <2>2, FS_Union
    <3> HIDE DEF o, n, r2
    <3> QED
      BY <1>3, <2>1, <2>2, <3>1, <3>2
  <2>4. cfg.gross_exposure \in Nat
    BY DEF Priced, StrategyConfig
  <2>5. b = cfg.gross_exposure - c * n /\ b2 = cfg.gross_exposure - c * Cardinality(picks \ r2)
    BY DEF Left
  <2> HIDE DEF n, k, c, o, r2, b, b2
  <2> QED
    BY <1>1, <1>3, <2>2, <2>3, <2>4, <2>5
<1>7. t = t1 + t2
  <2> DEFINE f == Raws(signals, cfg)
  <2>1. /\ t = SumFunctionOnSet(f, r) /\ t1 = SumFunctionOnSet(f, o)
        /\ t2 = SumFunctionOnSet(f, r2) /\ IsFiniteSet(r)
    BY <1>1, RawOfType
  <2>2. \A s \in r : f[s] \in Int
    BY <1>1, RawType DEF Raws
  <2> HIDE DEF f, o
  <2>3. SumFunctionOnSet(f, r) = SumFunctionOnSet(f, o) + SumFunctionOnSet(f, r \ o)
    BY <1>1, <2>1, <2>2, SumSplits
  <2> QED
    BY <2>1, <2>3
<1>8. b * t1 >= (c * t + 1) * k
  <2>1. b \in Nat
    BY <1>2
  <2>2. (\A s \in o : g[s] \in Nat) /\ SumFunctionOnSet(g, o) = b * t1
    <3> HIDE DEF b, o
    <3> QED
      BY <1>1, <2>1, SharesSum
  <2>3. \A s \in o : g[s] = b * raw(s)
    BY <1>1 DEF Shares
  <2> DEFINE m == c * t + 1
  <2>4. m \in Int
    BY <1>1, <1>3
  <2>5. IsFiniteSet(o)
    BY <1>1, RawOfType
  <2>6. \A s \in o : g[s] \in Int /\ g[s] >= m
    <3> HIDE DEF g, b, o, raw, c, t
    <3>1. c * t \in Int
      BY <1>1, <1>3
    <3> QED
      BY <1>4, <2>2, <2>3, <3>1
  <2> HIDE DEF g, m, o
  <2>7. SumFunctionOnSet(g, o) >= m * k
    BY <2>4, <2>5, <2>6, SumAtLeast
  <2> QED
    BY <2>2, <2>7 DEF m
<1> HIDE DEF o, r2, b, b2, c, t, t1, t2, k, raw, g
<1>9. b2 > 0 /\ b2 * t >= b * t2
  BY <1>1, <1>2, <1>3, <1>6, <1>7, <1>8, RoundArithmetic
<1>10. b \in Nat /\ b2 \in Nat
  BY <1>1, <1>2, <1>3, <1>6, <1>9
<1>11. ASSUME NEW s \in picks \ r2 PROVE b2 * raw(s) >= c * t2
  <2>1. b * raw(s) >= c * t
    <3>1. CASE s \in o
      BY <1>1, <1>3, <1>4, <1>5, <1>10, <3>1
    <3>2. CASE s \notin o
      BY <1>11, <3>2 DEF Justified, r2, b, raw, c, t
    <3> QED
      BY <3>1, <3>2
  <2>2. raw(s) \in Nat
    BY <1>5
  <2> QED
    BY <1>1, <1>3, <1>9, <1>10, <2>1, <2>2, StaysJustified
<1>12. r2 \in SUBSET picks
  BY <1>1
<1>13. Justified(signals, cfg, picks, r2)
  BY <1>9, <1>11, <1>12 DEF Justified, b2, raw, c, t2
<1> QED
  BY <1>13 DEF r2, o

\* The names that the loop leaves uncapped.
LEMMA UncappedSettles ==
  ASSUME NEW signals, NEW cfg, Priced(signals, cfg), NEW picks \in SUBSET DOMAIN signals,
         cfg.gross_exposure > 0
  PROVE  Settled(signals, cfg, picks, Uncapped(signals, cfg, picks))
<1> DEFINE J(r) == Justified(signals, cfg, picks, r)
           R(r) == Rest(signals, cfg, picks, r)
           T == {r \in SUBSET picks : J(r) /\ ~Settled(signals, cfg, picks, R(r))}
<1>1. J(picks)
  <2> DEFINE n == Cardinality(picks \ picks)
  <2>1. picks \ picks = {} /\ n = 0
    <3>1. picks \ picks = {} /\ Cardinality({}) = 0
      BY FS_EmptySet
    <3> QED
      BY <3>1, Zenon
  <2>2. Left(cfg, picks, picks) = cfg.gross_exposure
    <3>1. cfg.gross_exposure \in Nat /\ cfg.max_position_weight \in Nat
      BY DEF Priced, StrategyConfig
    <3>2. Left(cfg, picks, picks) = cfg.gross_exposure - cfg.max_position_weight * n
      BY DEF Left
    <3> HIDE DEF n
    <3> QED
      BY <2>1, <3>1, <3>2
  <2> QED
    BY <2>1, <2>2 DEF Justified
<1>2. ASSUME T # {} PROVE FALSE
  <2>1. IsFiniteSet(picks)
    BY RawOfType
  <2>2. PICK r \in T : \A q \in T : q \subseteq r => q = r
    <3>1. T \in SUBSET SUBSET picks
      OBVIOUS
    <3> HIDE DEF T
    <3> QED
      BY <1>2, <2>1, <3>1, LeastSet
  <2>3. r \in SUBSET picks /\ J(r) /\ ~Settled(signals, cfg, picks, R(r))
    OBVIOUS
  <2>4. R(r) = RestRound(signals, cfg, picks, r)
    BY <2>1, <2>3, FS_Subset, RestUnfolds
  <2>5. CASE Ends(signals, cfg, picks, r)
    BY <2>3, <2>4, <2>5 DEF RestRound, Settled
  <2>6. CASE ~Ends(signals, cfg, picks, r)
    <3> DEFINE q == r \ Over(signals, cfg, picks, r)
    <3>1. J(q)
      BY <2>3, <2>6, RoundJustifies
    <3>2. R(r) = R(q)
      BY <2>4, <2>6 DEF RestRound
    <3>3. q \in SUBSET picks /\ q \subseteq r /\ q # r
      BY <2>3, <2>6 DEF Ends, Over, Overflowing
    <3> QED
      BY <2>2, <2>3, <3>1, <3>2, <3>3
  <2> QED
    BY <2>5, <2>6
<1> QED
  BY <1>1, <1>2, UncappedIsRest

-----------------------------------------------------------------------------
\* The weights of the picks before those without one are left out.
Weight(signals, cfg, picks) ==
  LET rest == Uncapped(signals, cfg, picks) IN
  [s \in picks |->
     IF s \notin rest THEN <<cfg.max_position_weight, 1>>
     ELSE <<Left(cfg, picks, rest) * Raw(signals, cfg, s), RawOf(signals, cfg, rest)>>]

\* The book has those of them that are positive.
LEMMA BookIsWeights ==
  ASSUME NEW signals, NEW cfg, NEW picks
  PROVE  InverseVolWeights(signals, cfg, picks) =
           [s \in {p \in picks : Weight(signals, cfg, picks)[p][1] > 0} |->
              Weight(signals, cfg, picks)[s]]
BY DEF InverseVolWeights, Weight, Left

\* The parts of a book that deploys something: what WaterFilled says, in the
\* words of the loop that made it.
Filled(signals, cfg, picks, w, rest) ==
  /\ DOMAIN w = picks
  /\ \A s \in picks \ rest : w[s] = <<cfg.max_position_weight, 1>>
  /\ \A s \in rest :
       w[s] = <<Left(cfg, picks, rest) * Raw(signals, cfg, s), RawOf(signals, cfg, rest)>>
  /\ Left(cfg, picks, rest) \in Nat \ {0}
  /\ rest # {} => RawOf(signals, cfg, rest) \in Nat \ {0}
  /\ \A s \in rest :
       Left(cfg, picks, rest) * Raw(signals, cfg, s)
         <= cfg.max_position_weight * RawOf(signals, cfg, rest)
  /\ \A s \in picks \ rest :
       Left(cfg, picks, rest) * Raw(signals, cfg, s)
         >= cfg.max_position_weight * RawOf(signals, cfg, rest)

\* What the loop makes of an exposure and a cap above zero is such a book.
LEMMA BookIsFilled ==
  ASSUME NEW signals, NEW cfg, Priced(signals, cfg), NEW picks \in SUBSET DOMAIN signals,
         cfg.gross_exposure > 0, cfg.max_position_weight > 0
  PROVE  /\ Uncapped(signals, cfg, picks) \in SUBSET picks
         /\ Filled(signals, cfg, picks, InverseVolWeights(signals, cfg, picks),
                   Uncapped(signals, cfg, picks))
<1> DEFINE rest == Uncapped(signals, cfg, picks)
           b == Left(cfg, picks, rest)
           c == cfg.max_position_weight
           t == RawOf(signals, cfg, rest)
           raw(s) == Raw(signals, cfg, s)
           v == Weight(signals, cfg, picks)
           w == InverseVolWeights(signals, cfg, picks)
<1>1. Settled(signals, cfg, picks, rest)
  BY UncappedSettles
<1>2. v = [s \in picks |-> IF s \notin rest THEN <<c, 1>> ELSE <<b * raw(s), t>>]
  BY DEF Weight
<1>3. w = [s \in {p \in picks : v[p][1] > 0} |-> v[s]]
  BY BookIsWeights
<1> HIDE DEF rest, v, w
<1>4. rest \in SUBSET picks /\ b > 0 /\ Ends(signals, cfg, picks, rest)
  BY <1>1 DEF Settled, Justified
<1>5. b \in Nat \ {0} /\ c \in Nat /\ c > 0
  <2>1. Cardinality(picks \ rest) \in Nat
    BY <1>4, RawOfType
  <2> DEFINE n == Cardinality(picks \ rest)
  <2>2. b = cfg.gross_exposure - c * n /\ cfg.gross_exposure \in Nat /\ c \in Nat
    BY DEF Left, Priced, StrategyConfig
  <2> HIDE DEF n, b, c
  <2>3. b \in Int /\ c \in Nat
    BY <2>1, <2>2 DEF n
  <2> QED
    BY <1>4, <2>3 DEF c
<1>6. /\ \A s \in picks : raw(s) \in Nat \ {0}
      /\ t \in Nat /\ (rest # {} => t > 0)
  BY <1>4, RawType, RawOfType
<1>7. \A s \in rest : b * raw(s) <= c * t
  <2> SUFFICES ASSUME NEW s \in rest PROVE b * raw(s) <= c * t
    OBVIOUS
  <2>1. ~(b * raw(s) > c * t)
    <3>1. ~(b <= 0) /\ rest # {}
      <4> HIDE DEF b
      <4> QED
        BY <1>5
    <3>2. Over(signals, cfg, picks, rest) = {}
      BY <1>4, <3>1, Zenon DEF Ends
    <3> QED
      BY <3>2 DEF Over, Overflowing
  <2>2. raw(s) \in Nat
    BY <1>4, <1>6
  <2> HIDE DEF b, c, t, raw
  <2>3. b * raw(s) \in Int /\ c * t \in Int
    BY <1>5, <1>6, <2>2
  <2> QED
    BY <2>1, <2>3
<1>8. \A s \in picks \ rest : b * raw(s) >= c * t
  BY <1>1 DEF Settled, Justified
<1> HIDE DEF b, c, t, raw
<1>9. \A s \in picks : v[s][1] > 0
  <2> SUFFICES ASSUME NEW s \in picks PROVE v[s][1] > 0
    OBVIOUS
  <2>1. CASE s \notin rest
    BY <1>2, <1>5, <2>1
  <2>2. CASE s \in rest
    <3>1. v[s][1] = b * raw(s)
      BY <1>2, <2>2
    <3> QED
      BY <1>5, <1>6, <3>1
  <2> QED
    BY <2>1, <2>2
<1>10. w = v
  <2>1. {p \in picks : v[p][1] > 0} = picks
    BY <1>9
  <2>2. v = [s \in picks |-> v[s]]
    BY <1>2
  <2> QED
    BY <1>3, <2>1, <2>2
<1>11. /\ DOMAIN w = picks
       /\ \A s \in picks \ rest : w[s] = <<c, 1>>
       /\ \A s \in rest : w[s] = <<b * raw(s), t>>
  BY <1>2, <1>4, <1>10
<1>12. Filled(signals, cfg, picks, w, rest)
  BY <1>5, <1>6, <1>7, <1>8, <1>11 DEF Filled, b, c, t, raw
<1> QED
  BY <1>4, <1>12 DEF rest, w

-----------------------------------------------------------------------------
(* The book is filled.                                                     *)

\* The products that compare two names: b is the budget of the last round, t the
\* sum of its inverse volatilities, x * v = u for every name.
LEMMA SameLevel ==
  ASSUME NEW b \in Nat, NEW t \in Nat, NEW u \in Nat,
         NEW x \in Nat, NEW v \in Nat, x * v = u, NEW y \in Nat, NEW z \in Nat, y * z = u
  PROVE  ((b * x) * v) * t = ((b * y) * z) * t
<1>1. (b * x) * v = b * (x * v) /\ (b * y) * z = b * (y * z)
  OBVIOUS
<1> QED
  BY <1>1

\* A name below the cap has no lower level than one at it.
LEMMA LevelAboveCap ==
  ASSUME NEW b \in Nat, NEW t \in Nat, NEW c \in Nat, NEW u \in Nat,
         NEW x \in Nat, NEW v \in Nat, x * v = u, NEW y \in Nat, NEW z \in Nat, y * z = u,
         b * y >= c * t
  PROVE  ((b * x) * v) * 1 >= (c * z) * t
<1>1. (b * y) * z >= (c * t) * z
  <2>1. b * y \in Nat /\ c * t \in Nat
    OBVIOUS
  <2> QED
    BY <2>1, TimesMonotonic
<1>2. (b * x) * v = b * (x * v) /\ (b * y) * z = b * (y * z) /\ (c * t) * z = (c * z) * t
  OBVIOUS
<1>3. (b * x) * v \in Nat
  OBVIOUS
<1> QED
  BY <1>1, <1>2, <1>3

\* The names of the rest that are below the cap, and those at it.
Below(signals, cfg, picks, rest) ==
  {s \in rest : Left(cfg, picks, rest) * Raw(signals, cfg, s)
                  # cfg.max_position_weight * RawOf(signals, cfg, rest)}

\* The sums over the rest: its shares add up to the budget of the last round, and
\* those below the cap to what the others, at the cap, leave of it.
AddsUp(signals, cfg, picks, rest) ==
  LET free == Below(signals, cfg, picks, rest)
      b == Left(cfg, picks, rest)
      c == cfg.max_position_weight
      t == RawOf(signals, cfg, rest)
      k == Cardinality(rest \ free)
      m == Cardinality(free)
  IN /\ Cardinality(rest) = m + k /\ m \in Nat /\ k \in Nat
     /\ b * RawOf(signals, cfg, free) = b * t - (c * t) * k
     /\ b * t <= (c * t) * Cardinality(rest)

\* They do in every filled book.
LEMMA RestSums ==
  ASSUME NEW signals, NEW cfg, Priced(signals, cfg), NEW picks \in SUBSET DOMAIN signals,
         NEW rest \in SUBSET picks, NEW w, Filled(signals, cfg, picks, w, rest)
  PROVE  AddsUp(signals, cfg, picks, rest)
<1> DEFINE free == Below(signals, cfg, picks, rest)
           caps == rest \ free
           b == Left(cfg, picks, rest)
           c == cfg.max_position_weight
           t == RawOf(signals, cfg, rest)
           k == Cardinality(caps)
           m == Cardinality(free)
           n == Cardinality(rest)
           ct == c * t
           g == Shares(signals, cfg, b)
           S(ss) == SumFunctionOnSet(g, ss)
<1>1. /\ rest \in SUBSET DOMAIN signals /\ free \in SUBSET rest /\ caps \in SUBSET rest
      /\ free \cup caps = rest /\ free \cap caps = {} /\ rest \ free = caps
  BY DEF Below
<1>2. /\ IsFiniteSet(rest) /\ IsFiniteSet(free) /\ IsFiniteSet(caps)
      /\ n \in Nat /\ m \in Nat /\ k \in Nat
  BY <1>1, RawOfType
<1>3. b \in Nat /\ c \in Nat /\ t \in Nat
  BY <1>1, RawOfType DEF Filled, Priced, StrategyConfig
<1>4. ct \in Nat
  BY <1>3
<1>5. \A s \in rest : g[s] \in Nat /\ g[s] = b * Raw(signals, cfg, s)
  <2> HIDE DEF b
  <2> QED
    BY <1>1, <1>3, SharesSum DEF Shares
<1>6. \A s \in rest : g[s] <= ct
  BY <1>5 DEF Filled
<1>7. \A s \in caps : g[s] = ct
  BY <1>1, <1>5 DEF Below
<1>8. n = m + k
  <2> HIDE DEF free, caps
  <2> DEFINE i == Cardinality(free \cap caps)
  <2>1. i = 0
    <3>1. Cardinality({}) = 0 /\ free \cap caps = {}
      BY <1>1, FS_EmptySet
    <3> QED
      BY <3>1, Zenon
  <2>2. Cardinality(free \cup caps) = m + k - i
    BY <1>2, FS_Union
  <2>3. n = m + k - i
    BY <1>1, <2>2
  <2> HIDE DEF i, m, n, k
  <2> QED
    BY <1>2, <2>1, <2>3
<1>9. /\ S(rest) = b * t
      /\ S(free) = b * RawOf(signals, cfg, free)
  <2> HIDE DEF b, free
  <2> QED
    BY <1>1, <1>3, SharesSum DEF t
<1> HIDE DEF free, caps, b, c, t, g, ct
<1>10. S(rest) = S(free) + S(caps) /\ S(free) \in Int /\ S(caps) \in Int
  <2>1. \A s \in rest : g[s] \in Int
    BY <1>5
  <2>2. S(rest) = S(free) + S(rest \ free)
    BY <1>1, <1>2, <2>1, SumSplits
  <2>3. IsSum(g, free) /\ IsSum(g, caps)
    BY <1>1, <1>2, <2>1, SumStep
  <2> QED
    BY <1>1, <2>2, <2>3 DEF IsSum
<1>11. S(caps) = ct * k
  <2>1. ct \in Int /\ \A s \in caps : g[s] \in Int /\ g[s] <= ct /\ g[s] >= ct
    BY <1>4, <1>7
  <2>2. S(caps) <= ct * k
    BY <1>2, <2>1, SumAtMost
  <2>3. S(caps) >= ct * k
    BY <1>2, <2>1, SumAtLeast
  <2> DEFINE x == S(caps)
             y == ct * k
  <2>4. x \in Int /\ y \in Int /\ x <= y /\ x >= y
    BY <1>2, <1>4, <1>10, <2>2, <2>3
  <2> HIDE DEF x, y
  <2>5. x = y
    BY <2>4
  <2> QED
    BY <2>5 DEF x, y
<1>12. S(rest) <= ct * n
  <2>1. ct \in Int /\ \A s \in rest : g[s] \in Int /\ g[s] <= ct
    BY <1>4, <1>5, <1>6
  <2> QED
    BY <1>2, <2>1, SumAtMost
<1> HIDE DEF S, k, m, n
<1>13. b * RawOf(signals, cfg, free) = b * t - ct * k
  <2>1. ct * k \in Int
    BY <1>2, <1>4
  <2> DEFINE x == b * RawOf(signals, cfg, free)
             y == b * t
             z == ct * k
  <2>2. y = x + z /\ x \in Int /\ z \in Int
    BY <1>9, <1>10, <1>11, <2>1
  <2> HIDE DEF x, y, z
  <2>3. x = y - z
    BY <2>2
  <2> QED
    BY <2>3 DEF x, y, z
<1>14. b * t <= ct * n
  BY <1>9, <1>12
<1> QED
  BY <1>1, <1>2, <1>8, <1>13, <1>14 DEF AddsUp, free, caps, b, c, t, ct, m, k, n

\* A common positive factor may be left out.
LEMMA Cancel ==
  ASSUME NEW a \in Int, NEW b \in Int, NEW t \in Nat \ {0}, a * t <= b * t
  PROVE  a <= b
<1> SUFFICES ASSUME b + 1 <= a PROVE FALSE
  OBVIOUS
<1>1. PICK d \in Nat : a = b + 1 + d
  <2>1. a - b - 1 \in Nat /\ a = b + 1 + (a - b - 1)
    OBVIOUS
  <2> QED
    BY <2>1
<1>2. a * t = b * t + t + d * t
  BY <1>1
<1>3. d * t \in Nat /\ b * t \in Int
  OBVIOUS
<1> QED
  BY <1>2, <1>3

\* What is deployed: p names were capped by the loop, k of the n in the rest are at
\* the cap as well.
LEMMA DeployedArithmetic ==
  ASSUME NEW gross \in Nat, NEW c \in Nat, NEW p \in Nat, NEW k \in Nat, NEW n \in Nat,
         NEW t \in Nat \ {0}, NEW b \in Nat, b = gross - c * p
  PROVE  /\ b * t <= (c * t) * n => gross <= c * (p + n)
         /\ b * t - (c * t) * k = (gross - c * (p + k)) * t
         /\ b * t - (c * t) * n = 0 => gross = c * (p + n)
<1>1. c * p \in Nat /\ c * n \in Nat /\ c * k \in Nat /\ gross = b + c * p
  OBVIOUS
<1>2. c * (p + n) = c * p + c * n /\ c * (p + k) = c * p + c * k
  OBVIOUS
<1>3. (c * t) * n = (c * n) * t /\ (c * t) * k = (c * k) * t
  OBVIOUS
<1>4. ASSUME b * t <= (c * t) * n PROVE gross <= c * (p + n)
  <2>1. b <= c * n
    BY <1>1, <1>3, <1>4, Cancel
  <2> QED
    BY <1>1, <1>2, <2>1
<1>5. b * t - (c * t) * k = (gross - c * (p + k)) * t
  <2>1. gross - c * (p + k) = b - c * k
    BY <1>1, <1>2
  <2>2. (b - c * k) * t = b * t - (c * k) * t
    BY <1>1
  <2> QED
    BY <1>3, <2>1, <2>2
<1>6. ASSUME b * t - (c * t) * n = 0 PROVE gross = c * (p + n)
  <2>1. b * t \in Int /\ (c * n) * t \in Int
    BY <1>1
  <2>2. b * t <= (c * n) * t /\ (c * n) * t <= b * t
    BY <1>3, <1>6, <2>1
  <2>3. b <= c * n /\ c * n <= b
    BY <1>1, <2>2, Cancel
  <2> QED
    BY <1>1, <1>2, <2>3
<1> QED
  BY <1>4, <1>5, <1>6

\* The conjuncts of WaterFilled for a book that deploys something.
LEMMA FilledLevels ==
  ASSUME NEW signals, NEW cfg, Priced(signals, cfg), NEW picks \in SUBSET DOMAIN signals,
         NEW rest \in SUBSET picks, NEW w, Filled(signals, cfg, picks, w, rest)
  PROVE  /\ {s \in DOMAIN w : ~AtCap(cfg, w[s])} = Below(signals, cfg, picks, rest)
         /\ \A s \in DOMAIN w : w[s][1] <= cfg.max_position_weight * w[s][2]
         /\ \A s \in Below(signals, cfg, picks, rest), r \in DOMAIN w :
              LET level(q) == w[q][1] * Volatility(signals, cfg, q) IN
              /\ r \in rest => level(s) * w[r][2] = level(r) * w[s][2]
              /\ r \notin rest => level(s) * w[r][2] >= level(r) * w[s][2]
<1> DEFINE free == Below(signals, cfg, picks, rest)
           b == Left(cfg, picks, rest)
           c == cfg.max_position_weight
           t == RawOf(signals, cfg, rest)
           raw(s) == Raw(signals, cfg, s)
           vol(s) == Volatility(signals, cfg, s)
<1>1. /\ DOMAIN w = picks
      /\ \A s \in picks \ rest : w[s] = <<c, 1>> /\ b * raw(s) >= c * t
      /\ \A s \in rest : w[s] = <<b * raw(s), t>> /\ b * raw(s) <= c * t
  BY DEF Filled
<1>2. b \in Nat /\ c \in Nat /\ t \in Nat /\ Unit \in Nat
  BY RawOfType, UnitAssumption DEF Filled, Priced, StrategyConfig
<1>3. \A s \in picks : raw(s) \in Nat /\ vol(s) \in Nat /\ raw(s) * vol(s) = Unit
  BY RawType
<1>4. free = {s \in rest : b * raw(s) # c * t}
  BY DEF Below
<1>5. \A w1, w2 : AtCap(cfg, <<w1, w2>>) <=> w1 = c * w2
  BY DEF AtCap
<1> HIDE DEF b, c, t, raw, vol, free
<1>6. {s \in DOMAIN w : ~AtCap(cfg, w[s])} = free
  <2>1. \A s \in picks \ rest : AtCap(cfg, w[s])
    BY <1>1, <1>2, <1>5
  <2>2. \A s \in rest : AtCap(cfg, w[s]) <=> b * raw(s) = c * t
    BY <1>1, <1>5
  <2> QED
    BY <1>1, <1>4, <2>1, <2>2
<1>7. \A s \in DOMAIN w : w[s][1] <= c * w[s][2]
  BY <1>1, <1>2
<1>8. ASSUME NEW s \in free, NEW r \in DOMAIN w
      PROVE  /\ r \in rest => (w[s][1] * vol(s)) * w[r][2] = (w[r][1] * vol(r)) * w[s][2]
             /\ r \notin rest => (w[s][1] * vol(s)) * w[r][2] >= (w[r][1] * vol(r)) * w[s][2]
  <2>1. s \in rest /\ s \in picks /\ r \in picks
    BY <1>1, <1>4
  <2>2. w[s][1] = b * raw(s) /\ w[s][2] = t
    BY <1>1, <2>1
  <2>3. /\ raw(s) \in Nat /\ vol(s) \in Nat /\ raw(s) * vol(s) = Unit
        /\ raw(r) \in Nat /\ vol(r) \in Nat /\ raw(r) * vol(r) = Unit
    BY <1>3, <2>1
  <2>4. ASSUME r \in rest
        PROVE  (w[s][1] * vol(s)) * w[r][2] = (w[r][1] * vol(r)) * w[s][2]
    <3>1. w[r][1] = b * raw(r) /\ w[r][2] = t
      BY <1>1, <2>4
    <3>2. ((b * raw(s)) * vol(s)) * t = ((b * raw(r)) * vol(r)) * t
      <4> DEFINE x == raw(s)
                 v == vol(s)
                 y == raw(r)
                 z == vol(r)
      <4>1. /\ x \in Nat /\ v \in Nat /\ x * v = Unit
            /\ y \in Nat /\ z \in Nat /\ y * z = Unit
        BY <2>3
      <4> HIDE DEF x, v, y, z
      <4>2. ((b * x) * v) * t = ((b * y) * z) * t
        BY <1>2, <4>1, SameLevel
      <4> QED
        BY <4>2 DEF x, v, y, z
    <3> QED
      BY <2>2, <3>1, <3>2
  <2>5. ASSUME r \notin rest
        PROVE  (w[s][1] * vol(s)) * w[r][2] >= (w[r][1] * vol(r)) * w[s][2]
    <3>1. w[r][1] = c /\ w[r][2] = 1 /\ b * raw(r) >= c * t
      BY <1>1, <2>1, <2>5
    <3>2. ((b * raw(s)) * vol(s)) * 1 >= (c * vol(r)) * t
      <4> DEFINE x == raw(s)
                 v == vol(s)
                 y == raw(r)
                 z == vol(r)
      <4>1. /\ x \in Nat /\ v \in Nat /\ x * v = Unit
            /\ y \in Nat /\ z \in Nat /\ y * z = Unit /\ b * y >= c * t
        BY <2>3, <3>1
      <4> HIDE DEF x, v, y, z
      <4>2. ((b * x) * v) * 1 >= (c * z) * t
        BY <1>2, <4>1, LevelAboveCap
      <4> QED
        BY <4>2 DEF x, v, y, z
    <3> QED
      BY <2>2, <3>1, <3>2
  <2> QED
    BY <2>4, <2>5
<1> QED
  BY <1>6, <1>7, <1>8 DEF free, c, vol

\* What is deployed, for the names below the cap and for those at it.
Deploys(signals, cfg, picks, w, rest) ==
  LET free == Below(signals, cfg, picks, rest)
      deployed == Min({cfg.gross_exposure, cfg.max_position_weight * Cardinality(picks)})
      capped == cfg.max_position_weight * Cardinality(picks \ free)
  IN /\ free = {} => capped = deployed
     /\ free # {} => SumFunction([r \in free |-> w[r][1]])
                       = (deployed - capped) * RawOf(signals, cfg, rest)

\* A filled book deploys the exposure, or the caps of all its names.
LEMMA FilledDeploys ==
  ASSUME NEW signals, NEW cfg, Priced(signals, cfg), NEW picks \in SUBSET DOMAIN signals,
         NEW rest \in SUBSET picks, NEW w, Filled(signals, cfg, picks, w, rest)
  PROVE  Deploys(signals, cfg, picks, w, rest)
<1> DEFINE free == Below(signals, cfg, picks, rest)
           b == Left(cfg, picks, rest)
           c == cfg.max_position_weight
           gross == cfg.gross_exposure
           t == RawOf(signals, cfg, rest)
           k == Cardinality(rest \ free)
           m == Cardinality(free)
           n == Cardinality(rest)
           p == Cardinality(picks \ rest)
           deployed == Min({gross, c * Cardinality(picks)})
           capped == c * Cardinality(picks \ free)
           sum == SumFunction([r \in free |-> w[r][1]])
<1>1. rest \in SUBSET DOMAIN signals /\ free \in SUBSET rest
  BY DEF Below
<1>0. AddsUp(signals, cfg, picks, rest)
  BY RestSums
<1>2. n = m + k /\ m \in Nat /\ k \in Nat
  BY <1>0 DEF AddsUp
<1>3. /\ b * RawOf(signals, cfg, free) = b * t - (c * t) * k
      /\ b * t <= (c * t) * n
  BY <1>0 DEF AddsUp
<1>4. /\ p \in Nat /\ n \in Nat /\ t \in Nat /\ gross \in Nat /\ c \in Nat
      /\ b \in Nat \ {0} /\ (rest # {} => t \in Nat \ {0})
  BY <1>1, RawOfType DEF Filled, Priced, StrategyConfig
<1>5. b = gross - c * p
  BY DEF Left
<1>6. Cardinality(picks) = p + n /\ Cardinality(picks \ free) = p + k
  <2>1. /\ IsFiniteSet(picks \ rest) /\ IsFiniteSet(rest) /\ IsFiniteSet(rest \ free)
    BY <1>1, RawOfType
  <2>2. Cardinality({}) = 0
    BY FS_EmptySet
  <2> HIDE DEF free
  <2>3. ASSUME NEW A \in SUBSET rest
        PROVE  Cardinality((picks \ rest) \cup A) = p + Cardinality(A)
    <3> DEFINE i == Cardinality((picks \ rest) \cap A)
               a == Cardinality(A)
    <3>1. i = 0
      <4>1. (picks \ rest) \cap A = {}
        BY <2>3
      <4> QED
        BY <2>2, <4>1, Zenon
    <3>2. IsFiniteSet(A) /\ a \in Nat
      BY <2>1, FS_Subset, FS_CardinalityType
    <3>3. Cardinality((picks \ rest) \cup A) = p + a - i
      BY <2>1, <3>2, FS_Union
    <3> HIDE DEF i, a, p
    <3> QED
      BY <1>4, <3>1, <3>2, <3>3 DEF p, a
  <2>4. picks = (picks \ rest) \cup rest /\ picks \ free = (picks \ rest) \cup (rest \ free)
    BY <1>1
  <2>5. Cardinality((picks \ rest) \cup rest) = p + n
    BY <2>3
  <2>6. Cardinality((picks \ rest) \cup (rest \ free)) = p + k
    BY <2>3
  <2> QED
    BY <2>4, <2>5, <2>6
<1>7. sum = b * RawOf(signals, cfg, free)
  <2> DEFINE f == [r \in free |-> w[r][1]]
             g == Shares(signals, cfg, b)
  <2>1. \A r \in free : f[r] = g[r]
    BY <1>1 DEF Filled, Shares
  <2>2. IsFiniteSet(free)
    BY <1>1, RawOfType
  <2>3. sum = SumFunctionOnSet(f, free)
    <3>1. DOMAIN f = free
      OBVIOUS
    <3> QED
      BY <3>1 DEF SumFunction
  <2> HIDE DEF free, b, f, g, sum
  <2>4. SumFunctionOnSet(f, free) = SumFunctionOnSet(g, free)
    BY <2>1, <2>2, SumOfSame
  <2>5. SumFunctionOnSet(g, free) = b * RawOf(signals, cfg, free)
    <3>1. free \in SUBSET DOMAIN signals /\ b \in Nat
      BY <1>1, <1>4
    <3> QED
      BY <3>1, SharesSum DEF g
  <2> QED
    BY <2>3, <2>4, <2>5
<1>8. capped = c * (p + k)
  <2> HIDE DEF c, p, k, free
  <2> QED
    BY <1>6
<1>9. deployed = Min({gross, c * (p + n)})
  <2> HIDE DEF c, p, n, gross
  <2> QED
    BY <1>6
<1>10. free = {} => m = 0 /\ RawOf(signals, cfg, free) = 0
  <2>1. Cardinality({}) = 0
    BY FS_EmptySet
  <2>2. {} \in SUBSET DOMAIN signals
    OBVIOUS
  <2>3. RawOf(signals, cfg, {}) = 0
    BY <2>2, RawOfType
  <2> HIDE DEF free
  <2> QED
    BY <2>1, <2>3
<1>11. rest = {} => n = 0
  BY FS_EmptySet
<1> DEFINE z == RawOf(signals, cfg, free)
<1>12. z = RawOf(signals, cfg, free)
  OBVIOUS
<1> HIDE DEF b, c, gross, t, k, m, n, p, deployed, capped, sum, free, z
<1>13. c * (p + n) \in Int /\ gross \in Int
  BY <1>4
<1>14. gross <= c * (p + n) => deployed = gross
  <2> DEFINE all == c * (p + n)
  <2>1. deployed = Min({gross, all}) /\ gross \in Int /\ all \in Int
    BY <1>9, <1>13
  <2> HIDE DEF all
  <2>2. Min({gross, all}) \in {gross, all} /\ Min({gross, all}) <= gross /\ Min({gross, all}) <= all
    BY <2>1, MinOfTwo
  <2>3. gross <= all => deployed = gross
    BY <2>1, <2>2
  <2> QED
    BY <2>3 DEF all
<1>15. gross >= c * (p + n) => deployed = c * (p + n)
  <2> DEFINE all == c * (p + n)
  <2>1. deployed = Min({gross, all}) /\ gross \in Int /\ all \in Int
    BY <1>9, <1>13
  <2> HIDE DEF all
  <2>2. Min({gross, all}) \in {gross, all} /\ Min({gross, all}) <= gross /\ Min({gross, all}) <= all
    BY <2>1, MinOfTwo
  <2>3. gross >= all => deployed = all
    BY <2>1, <2>2
  <2> QED
    BY <2>3 DEF all
<1>16. ASSUME free = {} PROVE capped = deployed
  <2>1. k = n
    BY <1>2, <1>4, <1>10, <1>16
  <2>2. CASE rest = {}
    <3>1. p + n = p /\ p + k = p
      BY <1>4, <1>11, <2>1, <2>2
    <3>2. gross >= c * p
      <4>1. c * p \in Nat
        BY <1>4
      <4> QED
        BY <1>4, <1>5, <4>1
    <3> QED
      BY <1>8, <1>15, <3>1, <3>2
  <2>3. CASE rest # {}
    <3>1. b * t - (c * t) * n = 0
      <4>1. b * 0 = 0
        BY <1>4
      <4> QED
        BY <1>3, <1>10, <1>12, <1>16, <2>1, <4>1
    <3>2. gross = c * (p + n)
      BY <1>4, <1>5, <2>3, <3>1, DeployedArithmetic
    <3> QED
      BY <1>8, <1>13, <1>15, <2>1, <3>2
  <2> QED
    BY <2>2, <2>3
<1>17. ASSUME free # {} PROVE sum = (deployed - capped) * t
  <2>1. t \in Nat \ {0}
    BY <1>1, <1>4, <1>17
  <2>2. gross <= c * (p + n)
    BY <1>2, <1>3, <1>4, <1>5, <2>1, DeployedArithmetic
  <2>3. b * t - (c * t) * k = (gross - c * (p + k)) * t
    BY <1>2, <1>4, <1>5, <2>1, DeployedArithmetic
  <2> QED
    BY <1>3, <1>7, <1>8, <1>14, <2>2, <2>3
<1> QED
  BY <1>16, <1>17 DEF Deploys, free, deployed, capped, sum, c, gross, t

\* A book that may deploy nothing has no names.
LEMMA BookIsEmpty ==
  ASSUME NEW signals, NEW cfg, Priced(signals, cfg), NEW picks \in SUBSET DOMAIN signals,
         ~(cfg.gross_exposure > 0 /\ cfg.max_position_weight > 0)
  PROVE  DOMAIN InverseVolWeights(signals, cfg, picks) = {}
<1> DEFINE rest == Uncapped(signals, cfg, picks)
           b == Left(cfg, picks, rest)
           c == cfg.max_position_weight
           v == Weight(signals, cfg, picks)
<1>1. /\ cfg.gross_exposure \in Nat /\ c \in Nat
      /\ \A s \in picks : Raw(signals, cfg, s) \in Nat \ {0}
  BY RawType DEF Priced, StrategyConfig
<1>2. v = [s \in picks |-> IF s \notin rest THEN <<c, 1>>
                           ELSE <<b * Raw(signals, cfg, s), RawOf(signals, cfg, rest)>>]
  BY DEF Weight
<1>3. CASE cfg.gross_exposure > 0
  <2>1. c = 0
    BY <1>1, <1>3
  <2>2. Settled(signals, cfg, picks, rest)
    BY <1>3, UncappedSettles
  <2> HIDE DEF rest, v
  <2>3. rest \in SUBSET picks /\ b > 0 /\ Ends(signals, cfg, picks, rest)
    BY <2>2 DEF Settled, Justified
  <2>4. b \in Nat \ {0}
    <3>1. Cardinality(picks \ rest) \in Nat
      BY RawOfType
    <3> DEFINE n == Cardinality(picks \ rest)
    <3>2. b = cfg.gross_exposure - c * n
      BY DEF Left
    <3> HIDE DEF n, b, c
    <3>3. b \in Int
      BY <1>1, <3>1, <3>2 DEF n
    <3> QED
      BY <2>3, <3>3
  <2>5. ASSUME NEW s \in rest PROVE FALSE
    <3>1. ~(b <= 0) /\ rest # {}
      <4> HIDE DEF b
      <4> QED
        BY <2>4, <2>5
    <3>2. Over(signals, cfg, picks, rest) = {}
      BY <2>3, <3>1, Zenon DEF Ends
    <3>3. ~(b * Raw(signals, cfg, s) > c * RawOf(signals, cfg, rest))
      BY <3>2 DEF Over, Overflowing
    <3> DEFINE x == Raw(signals, cfg, s)
               t == RawOf(signals, cfg, rest)
    <3>4. x \in Nat \ {0} /\ t \in Nat
      BY <1>1, <2>3, RawOfType
    <3> HIDE DEF b, c, x, t
    <3>5. c * t = 0
      BY <2>1, <3>4
    <3>6. b * x > 0
      BY <2>4, <3>4
    <3> QED
      BY <3>3, <3>5, <3>6 DEF x, t
  <2>6. \A s \in picks : v[s][1] = 0
    BY <1>2, <2>1, <2>5
  <2>7. {s \in picks : v[s][1] > 0} = {}
    BY <2>6
  <2> QED
    BY <2>7, BookIsWeights DEF v
<1>4. CASE ~(cfg.gross_exposure > 0)
  <2>1. Left(cfg, picks, picks) = 0
    <3> DEFINE n == Cardinality(picks \ picks)
    <3>1. n = 0
      <4>1. picks \ picks = {} /\ Cardinality({}) = 0
        BY FS_EmptySet
      <4> QED
        BY <4>1, Zenon
    <3>2. Left(cfg, picks, picks) = cfg.gross_exposure - c * n
      BY DEF Left
    <3> HIDE DEF n, c
    <3> QED
      BY <1>1, <1>4, <3>1, <3>2
  <2>2. rest = picks
    <3>1. IsFiniteSet(picks)
      BY RawOfType
    <3>2. rest = RestRound(signals, cfg, picks, picks)
      BY <3>1, RestUnfolds, UncappedIsRest
    <3>3. Ends(signals, cfg, picks, picks)
      BY <2>1 DEF Ends
    <3> QED
      BY <3>2, <3>3 DEF RestRound
  <2>3. b = 0
    BY <2>1, <2>2
  <2> HIDE DEF rest, v, b
  <2>4. \A s \in picks : v[s][1] = b * Raw(signals, cfg, s)
    BY <1>2, <2>2
  <2>5. \A s \in picks : v[s][1] = 0
    BY <1>1, <2>3, <2>4
  <2>6. {s \in picks : v[s][1] > 0} = {}
    BY <2>5
  <2> QED
    BY <2>6, BookIsWeights DEF v
<1> QED
  BY <1>3, <1>4

\* The picks are symbols that have a signal.
LEMMA PicksHaveSignals ==
  ASSUME NEW signals, NEW cfg
  PROVE  SelectPicks(signals, cfg) \in SUBSET DOMAIN signals
BY DEF SelectPicks, FilterByConviction

\* decide() fills the book, whatever the signals and the configuration.
LEMMA DecideFills ==
  ASSUME NEW signals, NEW cfg, Priced(signals, cfg)
  PROVE  WaterFilled(signals, cfg)
<1> DEFINE picks == SelectPicks(signals, cfg)
           rest == Uncapped(signals, cfg, picks)
           w == Decide(signals, cfg)
           c == cfg.max_position_weight
           free == {s \in DOMAIN w : ~AtCap(cfg, w[s])}
           level(s) == w[s][1] * Volatility(signals, cfg, s)
           funded == cfg.gross_exposure > 0 /\ c > 0
           deployed == Min({cfg.gross_exposure, c * Cardinality(DOMAIN w)})
           capped == c * Cardinality(DOMAIN w \ free)
           Sum == SumFunction([r \in free |-> w[r][1]])
<1>1. picks \in SUBSET DOMAIN signals /\ w = InverseVolWeights(signals, cfg, picks)
  BY PicksHaveSignals DEF Decide
<1> SUFFICES
      /\ DOMAIN w = IF funded THEN picks ELSE {}
      /\ \A s \in DOMAIN w : w[s][1] <= c * w[s][2]
      /\ \A s \in free, r \in DOMAIN w :
           /\ r \in free => level(s) * w[r][2] = level(r) * w[s][2]
           /\ r \notin free => level(s) * w[r][2] >= level(r) * w[s][2]
      /\ free = {} => capped = deployed
      /\ free # {} => \A s \in free : Sum = (deployed - capped) * w[s][2]
  <2>1. free # {} => (CHOOSE s \in free : TRUE) \in free
    OBVIOUS
  <2> HIDE DEF deployed, capped, free, w, Sum, picks, funded
  <2> QED
    BY <2>1 DEF WaterFilled, deployed, capped, free, w, Sum, picks, funded
<1> HIDE DEF picks, rest, w
<1>2. CASE ~funded
  <2>1. DOMAIN w = {}
    BY <1>1, <1>2, BookIsEmpty
  <2>2. free = {}
    BY <2>1
  <2>3. capped = deployed
    <3>1. Cardinality({}) = 0
      BY FS_EmptySet
    <3>2. DOMAIN w \ free = {}
      BY <2>1
    <3> DEFINE g == cfg.gross_exposure
               x == Cardinality(DOMAIN w)
               y == Cardinality(DOMAIN w \ free)
    <3>3. x = 0 /\ y = 0
      BY <2>1, <3>1, <3>2, Zenon
    <3>4. g \in Nat /\ c \in Nat
      BY DEF Priced, StrategyConfig
    <3> HIDE DEF g, x, y, c
    <3>5. c * x = 0 /\ c * y = 0
      BY <3>3, <3>4
    <3>6. Min({g, 0}) = 0
      <4>1. g \in Int /\ 0 \in Int
        BY <3>4
      <4>2. Min({g, 0}) \in {g, 0} /\ Min({g, 0}) <= g /\ Min({g, 0}) <= 0
        BY <4>1, MinOfTwo
      <4> QED
        BY <3>4, <4>2
    <3> QED
      BY <3>5, <3>6 DEF g, x, y
  <2> QED
    BY <1>2, <2>1, <2>2, <2>3
<1>3. CASE funded
  <2>1. rest \in SUBSET picks /\ Filled(signals, cfg, picks, w, rest)
    BY <1>1, <1>3, BookIsFilled DEF rest
  <2>2. DOMAIN w = picks
    BY <2>1 DEF Filled
  <2>3. /\ free = Below(signals, cfg, picks, rest)
        /\ \A s \in DOMAIN w : w[s][1] <= c * w[s][2]
    BY <1>1, <2>1, FilledLevels
  <2>4. \A s \in free, r \in DOMAIN w :
          /\ r \in rest => level(s) * w[r][2] = level(r) * w[s][2]
          /\ r \notin rest => level(s) * w[r][2] >= level(r) * w[s][2]
    BY <1>1, <2>1, <2>3, FilledLevels
  <2>5. free \in SUBSET rest
    BY <2>3 DEF Below
  <2>6. /\ free = {} => capped = deployed
        /\ free # {} => Sum = (deployed - capped) * RawOf(signals, cfg, rest)
    <3> DEFINE F == Below(signals, cfg, picks, rest)
    <3>1. /\ F = {} => c * Cardinality(picks \ F) = Min({cfg.gross_exposure, c * Cardinality(picks)})
          /\ F # {} => SumFunction([r \in F |-> w[r][1]])
                 = (Min({cfg.gross_exposure, c * Cardinality(picks)}) - c * Cardinality(picks \ F))
                     * RawOf(signals, cfg, rest)
      <4>1. Deploys(signals, cfg, picks, w, rest)
        BY <1>1, <2>1, FilledDeploys
      <4> QED
        BY <4>1 DEF Deploys
    <3> HIDE DEF F
    <3>2. free = F
      BY <2>3 DEF F
    <3> HIDE DEF free, c
    <3> QED
      BY <2>2, <3>1, <3>2
  <2>7. \A s \in free : w[s][2] = RawOf(signals, cfg, rest)
    BY <2>1, <2>5 DEF Filled
  <2>8. ASSUME NEW s \in free, NEW r \in DOMAIN w
        PROVE  /\ r \in free => level(s) * w[r][2] = level(r) * w[s][2]
               /\ r \notin free => level(s) * w[r][2] >= level(r) * w[s][2]
    <3>1. /\ r \in rest => level(s) * w[r][2] = level(r) * w[s][2]
          /\ r \notin rest => level(s) * w[r][2] >= level(r) * w[s][2]
      BY <2>4
    <3>2. level(s) * w[r][2] \in Int
      <4>1. s \in rest /\ s \in picks /\ r \in picks
        BY <2>2, <2>5, <2>1
      <4>2. w[s][1] \in Int
        <5>1. Left(cfg, picks, rest) \in Int /\ Raw(signals, cfg, s) \in Int
          BY <1>1, <2>1, <4>1, RawType DEF Filled
        <5>2. w[s][1] = Left(cfg, picks, rest) * Raw(signals, cfg, s)
          BY <2>1, <4>1 DEF Filled
        <5> HIDE DEF w
        <5> QED
          BY <5>1, <5>2
      <4>3. w[r][2] \in Int
        <5>1. CASE r \in rest
          BY <1>1, <2>1, <5>1 DEF Filled
        <5>2. CASE r \notin rest
          BY <2>1, <4>1, <5>2 DEF Filled
        <5> QED
          BY <5>1, <5>2
      <4>4. Volatility(signals, cfg, s) \in Int
        BY <1>1, <4>1, RawType
      <4> QED
        BY <4>2, <4>3, <4>4
    <3>3. r \in free => r \in rest
      BY <2>5
    <3> DEFINE x == level(s) * w[r][2]
               y == level(r) * w[s][2]
    <3>4. (r \in rest => x = y) /\ (r \notin rest => x >= y) /\ x \in Int
      BY <3>1, <3>2
    <3> HIDE DEF x, y
    <3>5. x = y => x >= y
      BY <3>4
    <3>6. (r \in free => x = y) /\ (r \notin free => x >= y)
      BY <3>3, <3>4, <3>5
    <3> QED
      BY <3>6 DEF x, y
  <2> HIDE DEF level, free, Sum, capped, deployed, c, funded
  <2>9. \A s \in free : Sum = (deployed - capped) * w[s][2]
    BY <2>6, <2>7
  <2> QED
    BY <1>3, <2>2, <2>3, <2>6, <2>8, <2>9
<1> QED
  BY <1>2, <1>3

\* What a policy is shown: a signal for every symbol.
LEMMA ObsType ==
  ASSUME TypeOK
  PROVE  /\ IsFiniteSet(Symbols) /\ Symbols # {} /\ Symbols \subseteq Int
         /\ Cardinality(Symbols) = NumSymbols /\ NumSymbols \in Nat \ {0}
         /\ DOMAIN Obs = Symbols
         /\ \A s \in Symbols :
              Obs[s] \in Features /\ Obs[s].score \in Int /\ Obs[s].volatility \in Nat
<1>1. NumSymbols \in Nat \ {0} /\ md \in Market /\ shown \in Bars
  BY EnvAssumption DEF TypeOK
<1>2. Obs \in [Symbols -> Features]
  BY <1>1 DEF Obs, Market
<1>3. IsFiniteSet(Symbols) /\ Cardinality(Symbols) = NumSymbols
  <2>1. NumSymbols - 1 \in Int /\ 0 \in Int
    BY <1>1
  <2> DEFINE last == NumSymbols - 1
  <2> HIDE DEF last
  <2>2. last \in Int
    BY <2>1 DEF last
  <2>3. IsFiniteSet(0..last) /\ Cardinality(0..last) = IF 0 > last THEN 0 ELSE last - 0 + 1
    BY <2>2, FS_Interval
  <2>4. 0..last = Symbols
    BY DEF last, Symbols
  <2>5. (IF 0 > last THEN 0 ELSE last - 0 + 1) = NumSymbols
    BY <1>1 DEF last
  <2> QED
    BY <2>3, <2>4, <2>5
<1>4. 0 \in Symbols /\ Symbols \subseteq Int
  BY <1>1 DEF Symbols
<1> HIDE DEF Obs
<1>5. \A s \in Symbols : Obs[s] \in Features /\ Obs[s] \in Signal
  BY <1>2, BookingsAssumption
<1> QED
  BY <1>1, <1>2, <1>3, <1>4, <1>5 DEF Signal

\* What a window shows to the strategy.
LEMMA ObsIsPriced ==
  ASSUME TypeOK, policy \in Policies, policy.kind = "strategy"
  PROVE  Priced(Obs, policy.cfg) /\ DOMAIN Obs = Symbols
<1>1. policy.cfg \in Bookings
  BY DEF Policies, StrategyPolicies, Kinds
<1>2. /\ IsFiniteSet(Symbols) /\ Symbols \subseteq Int /\ DOMAIN Obs = Symbols
      /\ \A s \in Symbols : Obs[s] \in Features
  BY ObsType
<1> HIDE DEF Obs
<1> QED
  BY <1>1, <1>2, BookingsAssumption DEF Priced

\* However the overflow of the capped names is recycled, the book of every
\* strategy window is filled: the same multiple of each inverse volatility or the
\* cap, and the whole exposure unless all are capped, at every observation.
THEOREM BooksAreSound == WindowSpec => []BookIsSound
<1>1. WindowInv => BookIsSound
  BY ObsIsPriced, DecideFills DEF WindowInv, EnvInv, BookIsSound
<1> QED
  BY <1>1, WindowInvariant, PTL

-----------------------------------------------------------------------------
(* The policies and the engine agree on the actions.                       *)

\* A step that opens a position opens the one that its action asks for.
LEMMA OpensAction ==
  ASSUME TypeOK, NEW a \in Positions \cup {None, Invalid}, NEW next \in Advanced(a),
         next.opened > agent.opened
  PROVE  a \in Positions /\ next.pos = a
<1> DEFINE t == Bar(agent)
           forced == ForceClosed(agent, t)
           closed == IF Flat(forced) THEN forced ELSE ClosePosition(forced, t)
<1>1. agent \in Agent /\ t \in Bars
  BY ObservedBar DEF TypeOK
<1>2. forced \in Agent /\ forced.opened = agent.opened
  <2>1. CASE Due(agent, t)
    <3>1. ~Flat(agent)
      BY <2>1 DEF Due
    <3> QED
      BY <1>1, <2>1, <3>1, CloseEffect DEF ForceClosed, Follows
  <2>2. CASE ~Due(agent, t)
    BY <1>1, <2>2 DEF ForceClosed
  <2> QED
    BY <2>1, <2>2
<1>3. PICK acted \in Acted(forced, t, a) : next = [acted EXCEPT !.step = @ + 1]
  BY DEF Advanced
<1> HIDE DEF t, forced
<1>4. acted \in Agent
  BY <1>1, <1>2, ActedEffect DEF Follows
<1>5. next.opened = acted.opened /\ next.pos = acted.pos
  BY <1>3, <1>4 DEF Agent
<1>6. closed \in Agent /\ closed.opened = agent.opened /\ Hold(forced).opened = agent.opened
  BY <1>2, CloseEffect, HoldEffect DEF Follows
<1>7. acted.opened # agent.opened
  <2>1. agent.opened \in Nat
    BY <1>1 DEF Agent
  <2> QED
    BY <1>5, <2>1
<1> HIDE DEF closed
<1>8. a \notin {None, Invalid} /\ acted \in Ordered(closed, t, a)
  BY <1>2, <1>6, <1>7 DEF Acted, closed
<1>9. PICK bps \in Slips : acted = OpenPosition(closed, t, a, bps)
  BY <1>6, <1>7, <1>8 DEF Ordered
<1>10. acted.pos = a
  BY <1>6, <1>9 DEF OpenPosition, Agent
<1> QED
  BY <1>5, <1>8, <1>10

\* With one action to a symbol and side the engine reads the numbers as the
\* policies write them, and the action space has them all.
LEMMA DecodesLong ==
  ASSUME env \in Configs, env.bins = 1, NEW sym \in Symbols
  PROVE  /\ Clamped(1 + sym, NumActions) = 1 + sym
         /\ Decoded(1 + sym) = [sym |-> sym, short |-> FALSE]
<1>1. NumSymbols \in Nat \ {0} /\ sym \in 0..(NumSymbols - 1)
  BY Settings DEF Symbols
<1>2. SideBlock = NumSymbols /\ NumActions = 1 + 2 * NumSymbols
  BY <1>1 DEF SideBlock, NumActions
<1> DEFINE action == 1 + sym
<1>3. action \in 0..(NumActions - 1) /\ action \in 1..(2 * SideBlock) /\ action # 0
  BY <1>1, <1>2
<1>4. (action > SideBlock) = FALSE
  BY <1>1, <1>2
<1>5. ((action - 1) % SideBlock) \div env.bins = sym
  BY <1>1, <1>2
<1> HIDE DEF action
<1>6. Clamped(action, NumActions) = action /\ Decoded(action) = [sym |-> sym, short |-> FALSE]
  BY <1>3, <1>4, <1>5 DEF Clamped, Decoded
<1> QED
  BY <1>6 DEF action

\* The short actions come after the long ones.
LEMMA DecodesShort ==
  ASSUME env \in Configs, env.bins = 1, NEW sym \in Symbols
  PROVE  /\ Clamped(1 + NumSymbols + sym, NumActions) = 1 + NumSymbols + sym
         /\ Decoded(1 + NumSymbols + sym) = [sym |-> sym, short |-> TRUE]
<1>1. NumSymbols \in Nat \ {0} /\ sym \in 0..(NumSymbols - 1)
  BY Settings DEF Symbols
<1> DEFINE action == 1 + NumSymbols + sym
<1>2. SideBlock = NumSymbols /\ NumActions = 1 + 2 * NumSymbols
  BY <1>1 DEF SideBlock, NumActions
<1>3. action \in 0..(NumActions - 1) /\ action \in 1..(2 * SideBlock) /\ action # 0
  BY <1>1, <1>2
<1>4. action > SideBlock
  BY <1>1, <1>2
<1>5. ((action - 1) % SideBlock) \div env.bins = sym
  BY <1>1, <1>2
<1> QED
  BY <1>3, <1>4, <1>5 DEF Clamped, Decoded

\* Going flat is no position.
LEMMA FlatlyIsNone ==
  ASSUME env \in Configs
  PROVE  Clamped(Flatly, NumActions) = Flatly /\ Decoded(Flatly) \notin Positions
<1>1. SideBlock \in Nat
  BY Settings DEF SideBlock
<1> QED
  BY <1>1, PositionsAssumption DEF Clamped, Flatly, Decoded

\* FirstBest returns a symbol with the largest value.
LEMMA FirstBestIsBest ==
  ASSUME NEW value, IsFiniteSet(DOMAIN value), DOMAIN value # {}, DOMAIN value \subseteq Int,
         \A s \in DOMAIN value : value[s] \in Int
  PROVE  /\ FirstBest(value) \in DOMAIN value
         /\ \A r \in DOMAIN value : value[r] <= value[FirstBest(value)]
<1> DEFINE S == DOMAIN value
           above == {p \in S \X S : value[p[1]] > value[p[2]]}
           bests == {s \in S : \A r \in S : value[r] <= value[s]}
<1>1. Orders(above, S)
  BY DEF Orders
<1>2. PICK s \in S : \A r \in S : <<r, s>> \notin above
  <2> HIDE DEF above
  <2> QED
    BY <1>1, TopExists
<1>3. s \in bests
  <2> SUFFICES ASSUME NEW r \in S PROVE value[r] <= value[s]
    OBVIOUS
  <2>1. ~(value[r] > value[s]) /\ value[r] \in Int /\ value[s] \in Int
    BY <1>2
  <2> QED
    BY <2>1
<1>4. bests \in SUBSET Int /\ IsFiniteSet(bests) /\ bests # {}
  <2>1. bests \in SUBSET S
    OBVIOUS
  <2> QED
    BY <1>3, <2>1, FS_Subset
<1>5. Min(bests) \in bests
  <2> HIDE DEF bests
  <2> QED
    BY <1>4, MinExists
<1> QED
  BY <1>5 DEF FirstBest

\* The symbol of the strongest signal, by its sign.
LEMMA LongShortIsMeant ==
  ASSUME TypeOK, env.bins = 1, policy.kind = "longshort",
         NEW action \in Chosen, Decoded(action) \in Positions
  PROVE  Decoded(action) \in Meant
<1>1. action = Clamped(LongShort(Obs), NumActions) /\ env \in Configs
  BY DEF Chosen, TypeOK
<1> DEFINE value == [s \in DOMAIN Obs |-> Abs(Obs[s].score)]
           best == FirstBest(value)
           p == Decoded(action)
<1>2. DOMAIN value = Symbols /\ \A s \in Symbols : value[s] \in Int /\ value[s] = Abs(Obs[s].score)
  BY ObsType DEF Abs
<1>3. best \in Symbols /\ \A r \in Symbols : value[r] <= value[best]
  <2>1. /\ IsFiniteSet(DOMAIN value) /\ DOMAIN value # {} /\ DOMAIN value \subseteq Int
        /\ \A s \in DOMAIN value : value[s] \in Int
    BY <1>2, ObsType
  <2> HIDE DEF value
  <2> QED
    BY <1>2, <2>1, FirstBestIsBest
<1>4. LongShort(Obs) = IF Obs[best].score = 0 THEN Flatly
                       ELSE IF Obs[best].score > 0 THEN 1 + best
                       ELSE 1 + NumSymbols + best
  BY ObsType DEF LongShort
<1> HIDE DEF best, value
<1>5. Obs[best].score \in Int
  BY <1>3, ObsType
<1>6. Obs[best].score # 0
  BY <1>1, <1>4, FlatlyIsNone
<1>7. p = [sym |-> best, short |-> Obs[best].score < 0]
  <2>1. CASE Obs[best].score > 0
    <3>1. action = 1 + best
      BY <1>1, <1>3, <1>4, <1>6, <2>1, DecodesLong
    <3>2. p = [sym |-> best, short |-> FALSE]
      BY <1>1, <1>3, <3>1, DecodesLong
    <3>3. (Obs[best].score < 0) = FALSE
      BY <1>5, <2>1
    <3> QED
      BY <3>2, <3>3
  <2>2. CASE ~(Obs[best].score > 0)
    <3>1. action = 1 + NumSymbols + best
      BY <1>1, <1>3, <1>4, <1>6, <2>2, DecodesShort
    <3>2. p = [sym |-> best, short |-> TRUE]
      BY <1>1, <1>3, <3>1, DecodesShort
    <3>3. (Obs[best].score < 0) = TRUE
      BY <1>5, <1>6, <2>2
    <3> QED
      BY <3>2, <3>3
  <2> QED
    BY <2>1, <2>2
<1>8. \A s \in Symbols : Abs(Obs[s].score) <= Abs(Obs[best].score)
  BY <1>2, <1>3
<1>9. p.sym = best /\ p.short = (Obs[best].score < 0)
  BY <1>7
<1> HIDE DEF p
<1> QED
  BY <1>6, <1>8, <1>9 DEF Meant, p

\* The symbol whose volatility is the furthest from the mean, against its deviation.
LEMMA CrossVolIsMeant ==
  ASSUME TypeOK, env.bins = 1, policy.kind = "xsvol",
         NEW action \in Chosen, Decoded(action) \in Positions
  PROVE  Decoded(action) \in Meant
<1>1. action = Clamped(CrossVol(Obs), NumActions) /\ env \in Configs
  BY DEF Chosen, TypeOK
<1> DEFINE vol == [s \in DOMAIN Obs |-> Obs[s].volatility]
           minus == [s \in DOMAIN Obs |-> -Obs[s].volatility]
           hi == FirstBest(vol)
           lo == FirstBest(minus)
           total == SumFunction(vol)
           above == NumSymbols * Obs[hi].volatility - total
           below == total - NumSymbols * Obs[lo].volatility
           W == {Obs[s].volatility : s \in Symbols}
           p == Decoded(action)
<1>2. /\ DOMAIN vol = Symbols /\ DOMAIN minus = Symbols
      /\ \A s \in Symbols : /\ Obs[s].volatility \in Int
                            /\ vol[s] \in Int /\ vol[s] = Obs[s].volatility
                            /\ minus[s] \in Int /\ minus[s] = -Obs[s].volatility
  BY ObsType
<1>3. /\ IsFiniteSet(Symbols) /\ Symbols # {} /\ Symbols \subseteq Int
      /\ Cardinality(Symbols) = NumSymbols /\ NumSymbols \in Nat \ {0}
      /\ DOMAIN Obs = Symbols
  BY ObsType
<1>4. CrossVol(Obs) = IF above <= 0 /\ below <= 0 THEN Flatly
                      ELSE IF above >= below THEN 1 + NumSymbols + hi
                      ELSE 1 + lo
  BY <1>3 DEF CrossVol
<1>5. total = SumFunctionOnSet(vol, Symbols)
  BY <1>2 DEF SumFunction
<1> HIDE DEF vol, minus
<1>6. hi \in Symbols /\ \A s \in Symbols : Obs[s].volatility <= Obs[hi].volatility
  <2>1. hi \in Symbols /\ \A s \in Symbols : vol[s] <= vol[hi]
    BY <1>2, <1>3, FirstBestIsBest
  <2> HIDE DEF hi
  <2> QED
    BY <1>2, <2>1
<1>7. lo \in Symbols /\ \A s \in Symbols : Obs[lo].volatility <= Obs[s].volatility
  <2>1. lo \in Symbols /\ \A s \in Symbols : minus[s] <= minus[lo]
    BY <1>2, <1>3, FirstBestIsBest
  <2> HIDE DEF lo
  <2>2. ASSUME NEW s \in Symbols PROVE Obs[lo].volatility <= Obs[s].volatility
    <3>1. -Obs[s].volatility <= -Obs[lo].volatility
      BY <1>2, <2>1
    <3>2. Obs[s].volatility \in Int /\ Obs[lo].volatility \in Int
      BY <1>2, <2>1
    <3> QED
      BY <3>1, <3>2
  <2> QED
    BY <2>1, <2>2
<1> HIDE DEF hi, lo, total
<1>8. Max(W) = Obs[hi].volatility /\ Min(W) = Obs[lo].volatility
  <2> DEFINE val == [s \in Symbols |-> Obs[s].volatility]
  <2>1. W \in SUBSET Int /\ W # {} /\ Obs[hi].volatility \in W /\ Obs[lo].volatility \in W
    BY <1>2, <1>3, <1>6, <1>7
  <2>2. IsFiniteSet(W)
    <3>1. val \in Surjection(Symbols, W)
      BY DEF Surjection
    <3> HIDE DEF val
    <3> QED
      BY <1>3, <3>1, FS_Surjection
  <2>3. \A v \in W : v <= Obs[hi].volatility /\ Obs[lo].volatility <= v
    BY <1>6, <1>7
  <2> HIDE DEF W
  <2>4. /\ Max(W) \in W /\ \A v \in W : v <= Max(W)
        /\ Min(W) \in W /\ \A v \in W : Min(W) <= v
    BY <2>1, <2>2, MaxExists, MinExists
  <2> DEFINE top == Max(W)
             bottom == Min(W)
             x == Obs[hi].volatility
             y == Obs[lo].volatility
  <2>5. /\ top \in Int /\ bottom \in Int /\ x \in Int /\ y \in Int
        /\ top <= x /\ x <= top /\ bottom <= y /\ y <= bottom
    BY <2>1, <2>3, <2>4
  <2> HIDE DEF top, bottom, x, y
  <2>6. top = x /\ bottom = y
    BY <2>5
  <2> QED
    BY <2>6 DEF top, bottom, x, y
<1>9. total \in Int
  <2>1. IsSum(vol, Symbols)
    BY <1>2, <1>3, SumStep
  <2> QED
    BY <1>5, <2>1 DEF IsSum
<1>10. ASSUME Obs[hi].volatility = Obs[lo].volatility
       PROVE  above = 0 /\ below = 0
  <2> DEFINE v == Obs[hi].volatility
  <2>1. \A s \in Symbols : vol[s] \in Int /\ vol[s] <= v /\ vol[s] >= v
    BY <1>2, <1>6, <1>7, <1>10
  <2>2. v \in Int
    BY <1>2, <1>6
  <2> HIDE DEF v
  <2>3. total <= v * Cardinality(Symbols) /\ total >= v * Cardinality(Symbols)
    BY <1>3, <1>5, <2>1, <2>2, SumAtMost, SumAtLeast
  <2>4. total = v * NumSymbols
    BY <1>3, <1>9, <2>2, <2>3
  <2>5. above = NumSymbols * v - total /\ below = total - NumSymbols * v
    BY <1>10 DEF v
  <2> HIDE DEF above, below
  <2> QED
    BY <1>3, <2>2, <2>4, <2>5
<1>11. ~(above <= 0 /\ below <= 0)
  <2> HIDE DEF above, below, p
  <2> QED
    BY <1>1, <1>4, FlatlyIsNone DEF p
<1>12. Max(W) # Min(W)
  <2> SUFFICES ASSUME Max(W) = Min(W) PROVE FALSE
    OBVIOUS
  <2>1. above = 0 /\ below = 0
    BY <1>8, <1>10
  <2> HIDE DEF above, below, W
  <2> QED
    BY <1>11, <2>1
<1> HIDE DEF above, below
<1>13. p.sym \in Symbols /\ Obs[p.sym].volatility = IF p.short THEN Max(W) ELSE Min(W)
  <2> HIDE DEF W
  <2>1. CASE above >= below
    <3>1. action = 1 + NumSymbols + hi
      BY <1>1, <1>4, <1>6, <1>11, <2>1, DecodesShort
    <3>2. p = [sym |-> hi, short |-> TRUE]
      BY <1>1, <1>6, <3>1, DecodesShort
    <3> HIDE DEF p
    <3> QED
      BY <1>6, <1>8, <3>2
  <2>2. CASE ~(above >= below)
    <3>1. action = 1 + lo
      BY <1>1, <1>4, <1>7, <1>11, <2>2, DecodesLong
    <3>2. p = [sym |-> lo, short |-> FALSE]
      BY <1>1, <1>7, <3>1, DecodesLong
    <3> HIDE DEF p
    <3> QED
      BY <1>7, <1>8, <3>2
  <2> QED
    BY <2>1, <2>2
<1> HIDE DEF p, W
<1>14. p \in {q \in Positions : LET v == Obs[q.sym].volatility IN
                 Max(W) # Min(W) /\ v = IF q.short THEN Max(W) ELSE Min(W)}
  BY <1>12, <1>13 DEF p
<1> QED
  BY <1>14 DEF Meant, W, p

\* Of two fractions with positive denominators the larger one, and so on.
LEMMA HeavierIsTransitive ==
  ASSUME NEW x1 \in Nat, NEW x2 \in Nat \ {0}, NEW y1 \in Nat, NEW y2 \in Nat \ {0},
         NEW z1 \in Nat, NEW z2 \in Nat \ {0},
         x1 * y2 > y1 * x2, y1 * z2 > z1 * y2
  PROVE  x1 * z2 > z1 * x2
<1>1. (x1 * y2) * z2 > (y1 * x2) * z2
  <2> DEFINE a == x1 * y2
             b == y1 * x2
  <2>1. a \in Nat /\ b \in Nat /\ b + 1 <= a
    OBVIOUS
  <2> HIDE DEF a, b
  <2>2. (b + 1) * z2 <= a * z2
    BY <2>1, TimesMonotonic
  <2>3. (b + 1) * z2 = b * z2 + z2 /\ b * z2 \in Nat /\ a * z2 \in Nat
    BY <2>1
  <2>4. a * z2 > b * z2
    BY <2>2, <2>3
  <2> QED
    BY <2>4 DEF a, b
<1>2. (y1 * z2) * x2 >= (z1 * y2) * x2
  <2>1. y1 * z2 \in Nat /\ z1 * y2 \in Nat
    OBVIOUS
  <2> QED
    BY <2>1, TimesMonotonic
<1>3. /\ (x1 * y2) * z2 = (x1 * z2) * y2 /\ (y1 * x2) * z2 = (y1 * z2) * x2
      /\ (z1 * y2) * x2 = (z1 * x2) * y2
  OBVIOUS
<1> DEFINE a == x1 * z2
           b == z1 * x2
<1>4. a \in Nat /\ b \in Nat
  OBVIOUS
<1>5. a * y2 > b * y2
  <2> DEFINE d == (x1 * y2) * z2
             e == (y1 * x2) * z2
             f == (z1 * y2) * x2
  <2>1. d > e /\ e >= f /\ d \in Nat /\ e \in Nat /\ f \in Nat /\ d = a * y2 /\ f = b * y2
    BY <1>1, <1>2, <1>3
  <2> HIDE DEF d, e, f, a, b
  <2>2. d > f
    BY <2>1
  <2> QED
    BY <2>1, <2>2
<1> HIDE DEF a, b
<1>6. ~(a <= b)
  <2> SUFFICES ASSUME a <= b PROVE FALSE
    OBVIOUS
  <2>1. a * y2 <= b * y2
    BY <1>4, TimesMonotonic
  <2>2. a * y2 \in Nat /\ b * y2 \in Nat
    BY <1>4
  <2> QED
    BY <1>5, <2>1, <2>2
<1> QED
  BY <1>4, <1>6 DEF a, b

\* The weights of a book are fractions with positive denominators.
LEMMA BookWeights ==
  ASSUME NEW signals, NEW cfg, Priced(signals, cfg)
  PROVE  LET w == Decide(signals, cfg) IN
         /\ DOMAIN w \subseteq DOMAIN signals
         /\ \A s \in DOMAIN w : w[s][1] \in Nat /\ w[s][2] \in Nat \ {0}
         /\ DOMAIN w = {} => w = <<>>
<1> DEFINE picks == SelectPicks(signals, cfg)
           rest == Uncapped(signals, cfg, picks)
           w == Decide(signals, cfg)
<1>1. picks \in SUBSET DOMAIN signals /\ w = InverseVolWeights(signals, cfg, picks)
  BY PicksHaveSignals DEF Decide
<1>2. DOMAIN w = {} => w = <<>>
  <2>1. w = [s \in DOMAIN w |-> w[s]]
    BY <1>1, BookIsWeights
  <2> HIDE DEF w
  <2>2. ASSUME DOMAIN w = {} PROVE w = <<>>
    BY <2>1, <2>2
  <2> QED
    BY <2>2
<1> HIDE DEF picks, w
<1>3. CASE cfg.gross_exposure > 0 /\ cfg.max_position_weight > 0
  <2>1. rest \in SUBSET picks /\ Filled(signals, cfg, picks, w, rest)
    BY <1>1, <1>3, BookIsFilled
  <2> HIDE DEF rest
  <2>2. DOMAIN w = picks /\ cfg.max_position_weight \in Nat
    BY <2>1 DEF Filled, Priced, StrategyConfig
  <2>3. ASSUME NEW s \in picks PROVE w[s][1] \in Nat /\ w[s][2] \in Nat \ {0}
    <3>1. CASE s \notin rest
      BY <2>1, <2>2, <3>1 DEF Filled
    <3>2. CASE s \in rest
      <4> DEFINE b == Left(cfg, picks, rest)
                 x == Raw(signals, cfg, s)
                 t == RawOf(signals, cfg, rest)
      <4>1. w[s] = <<b * x, t>> /\ b \in Nat /\ x \in Nat /\ t \in Nat \ {0}
        BY <1>1, <2>1, <3>2, RawType DEF Filled
      <4> HIDE DEF b, x, t
      <4> QED
        BY <4>1
    <3> QED
      BY <3>1, <3>2
  <2> QED
    BY <1>1, <1>2, <2>2, <2>3 DEF w
<1>4. CASE ~(cfg.gross_exposure > 0 /\ cfg.max_position_weight > 0)
  BY <1>1, <1>2, <1>4, BookIsEmpty DEF w
<1> QED
  BY <1>3, <1>4

\* The position with the largest weight of the book.
LEMMA TopPickIsMeant ==
  ASSUME TypeOK, policy \in Policies, env.bins = 1, policy.kind = "strategy",
         NEW action \in Chosen, Decoded(action) \in Positions
  PROVE  Decoded(action) \in Meant
<1>1. action = Clamped(TopPick(Obs, policy.cfg), NumActions) /\ env \in Configs
  BY DEF Chosen, TypeOK
<1> DEFINE w == Decide(Obs, policy.cfg)
           heavier == {q \in (DOMAIN w) \X (DOMAIN w) : w[q[1]][1] * w[q[2]][2] > w[q[2]][1] * w[q[1]][2]}
           tops == {s \in DOMAIN w : \A r \in DOMAIN w : ~(w[r][1] * w[s][2] > w[s][1] * w[r][2])}
           ahead == {q \in tops \X tops : Ahead(Obs, q[1], q[2])}
           best == CHOOSE s \in tops : \A r \in tops \ {s} : Ahead(Obs, s, r)
           p == Decoded(action)
<1>2. Priced(Obs, policy.cfg)
  BY ObsIsPriced
<1>3. /\ IsFiniteSet(Symbols) /\ DOMAIN Obs = Symbols
      /\ \A s \in Symbols : s \in Int /\ Obs[s].score \in Int
  BY ObsType
<1>4. /\ DOMAIN w \subseteq Symbols
      /\ \A s \in DOMAIN w : w[s][1] \in Nat /\ w[s][2] \in Nat \ {0}
      /\ DOMAIN w = {} => w = <<>>
  BY <1>2, <1>3, BookWeights
<1>5. TopPick(Obs, policy.cfg) = IF w = <<>> THEN Flatly ELSE 1 + best
  BY DEF TopPick
<1> HIDE DEF w
<1>6. w # <<>>
  <2> HIDE DEF best
  <2> QED
    BY <1>1, <1>5, FlatlyIsNone
<1>7. DOMAIN w # {} /\ IsFiniteSet(DOMAIN w)
  BY <1>3, <1>4, <1>6, FS_Subset
<1>8. tops # {}
  <2>1. Orders(heavier, DOMAIN w)
    <3>1. \A x \in DOMAIN w : <<x, x>> \notin heavier
      <4> TAKE x \in DOMAIN w
      <4>1. w[x][1] * w[x][2] \in Int
        BY <1>4
      <4> QED
        BY <4>1
    <3>2. ASSUME NEW x \in DOMAIN w, NEW y \in DOMAIN w, NEW z \in DOMAIN w,
                 <<x, y>> \in heavier, <<y, z>> \in heavier
          PROVE  <<x, z>> \in heavier
      <4> DEFINE x1 == w[x][1]  x2 == w[x][2]
                 y1 == w[y][1]  y2 == w[y][2]
                 z1 == w[z][1]  z2 == w[z][2]
      <4>1. /\ x1 \in Nat /\ x2 \in Nat \ {0} /\ y1 \in Nat /\ y2 \in Nat \ {0}
            /\ z1 \in Nat /\ z2 \in Nat \ {0}
        BY <1>4
      <4>2. x1 * y2 > y1 * x2 /\ y1 * z2 > z1 * y2
        BY <3>2
      <4> HIDE DEF x1, x2, y1, y2, z1, z2
      <4>3. x1 * z2 > z1 * x2
        BY <4>1, <4>2, HeavierIsTransitive
      <4>4. <<x, z>> \in (DOMAIN w) \X (DOMAIN w)
        OBVIOUS
      <4>5. w[x][1] * w[z][2] > w[z][1] * w[x][2]
        BY <4>3, Zenon DEF x1, x2, z1, z2
      <4> QED
        BY <4>4, <4>5, Zenon
    <3> QED
      BY <3>1, <3>2 DEF Orders
  <2>2. \E s \in DOMAIN w : \A r \in DOMAIN w : <<r, s>> \notin heavier
    <3> HIDE DEF heavier
    <3> QED
      BY <1>7, <2>1, TopExists
  <2>3. PICK s \in DOMAIN w : \A r \in DOMAIN w : <<r, s>> \notin heavier
    BY <2>2
  <2>4. \A r \in DOMAIN w : ~(w[r][1] * w[s][2] > w[s][1] * w[r][2])
    <3> TAKE r \in DOMAIN w
    <3>1. <<r, s>> \in (DOMAIN w) \X (DOMAIN w) /\ <<r, s>> \notin heavier
      BY <2>3
    <3> QED
      BY <3>1, Zenon
  <2>5. s \in tops
    BY <2>3, <2>4, Zenon
  <2> QED
    BY <2>5
<1>9. tops \subseteq DOMAIN w /\ tops \subseteq Symbols /\ IsFiniteSet(tops)
  <2>1. tops \in SUBSET DOMAIN w
    OBVIOUS
  <2> QED
    BY <1>4, <1>7, <2>1, FS_Subset
<1>10. \E s \in tops : \A r \in tops \ {s} : Ahead(Obs, s, r)
  <2> HIDE DEF tops
  <2>1. Orders(ahead, tops)
    BY <1>3, <1>9 DEF Orders, Ahead
  <2>2. PICK s \in tops : \A r \in tops : <<r, s>> \notin ahead
    <3> HIDE DEF ahead
    <3> QED
      BY <1>8, <1>9, <2>1, TopExists
  <2>3. ASSUME NEW r \in tops \ {s} PROVE Ahead(Obs, s, r)
    <3>1. ~Ahead(Obs, r, s)
      BY <2>2
    <3>2. s \in Int /\ r \in Int /\ Obs[s].score \in Int /\ Obs[r].score \in Int /\ s # r
      BY <1>3, <1>9
    <3> QED
      BY <3>1, <3>2 DEF Ahead
  <2> QED
    BY <2>3
<1>11. best \in tops
  <2> HIDE DEF tops
  <2> QED
    BY <1>10
<1> HIDE DEF best
<1>12. best \in DOMAIN w /\ best \in Symbols
  BY <1>9, <1>11
<1>13. \A s \in DOMAIN w : w[s][1] * w[best][2] <= w[best][1] * w[s][2]
  <2> TAKE s \in DOMAIN w
  <2>1. ~(w[s][1] * w[best][2] > w[best][1] * w[s][2])
    BY <1>11
  <2>2. w[s][1] * w[best][2] \in Int /\ w[best][1] * w[s][2] \in Int
    BY <1>4, <1>12
  <2> QED
    BY <2>1, <2>2
<1>14. p = [sym |-> best, short |-> FALSE]
  <2>1. action = 1 + best
    BY <1>1, <1>5, <1>6, <1>12, DecodesLong
  <2> QED
    BY <1>1, <1>12, <2>1, DecodesLong
<1> HIDE DEF p
<1>15. p.sym = best /\ ~p.short /\ p \in Positions
  BY <1>14 DEF p
<1>16. p \in {q \in Positions : /\ ~q.short /\ q.sym \in DOMAIN w
              /\ \A s \in DOMAIN w : w[s][1] * w[q.sym][2] <= w[q.sym][1] * w[s][2]}
  BY <1>12, <1>13, <1>15
<1> QED
  BY <1>16 DEF Meant, w, p

-----------------------------------------------------------------------------
\* Any long position, by the number of a symbol.
LEMMA LongIsMeant ==
  ASSUME TypeOK, env.bins = 1, policy.kind = "long_symbol",
         NEW action \in Chosen, Decoded(action) \in Positions
  PROVE  Decoded(action) \in Meant
<1>1. NumSymbols \in Nat \ {0} /\ env \in Configs
  BY EnvAssumption DEF TypeOK
<1>2. PICK sym \in Symbols : action = LongSymbol(sym, NumActions)
  BY DEF Chosen
<1>3. action = 1 + sym
  <2>1. sym \in 0..(NumSymbols - 1) /\ NumActions = 1 + 2 * NumSymbols
    BY <1>1 DEF Symbols, SideBlock, NumActions
  <2> QED
    BY <1>1, <1>2, <2>1 DEF LongSymbol
<1>4. Decoded(action) = [sym |-> sym, short |-> FALSE]
  BY <1>1, <1>3, DecodesLong
<1> DEFINE p == Decoded(action)
<1>5. ~p.short
  BY <1>4
<1> HIDE DEF p
<1>6. p \in {q \in Positions : ~q.short}
  BY <1>5 DEF p
<1> QED
  BY <1>6 DEF Meant, p

\* Every policy of the gate and the engine agree on what the action is.
LEMMA ChosenIsMeant ==
  ASSUME TypeOK, policy \in Policies, policy.kind # "caller", env.bins = 1,
         NEW action \in Chosen, Decoded(action) \in Positions
  PROVE  Decoded(action) \in Meant
<1>1. env \in Configs
  BY DEF TypeOK
<1>2. policy.kind \in Kinds \cup {"strategy"}
  BY DEF Policies, StrategyPolicies, Kinds
<1>3. CASE policy.kind = "always_flat"
  <2>1. action = Flatly
    BY <1>3 DEF Chosen
  <2> QED
    BY <1>1, <2>1, FlatlyIsNone
<1>4. CASE policy.kind = "open"
  BY <1>4 DEF Meant
<1>5. CASE policy.kind = "long_symbol"
  BY <1>5, LongIsMeant
<1>6. CASE policy.kind = "longshort"
  BY <1>6, LongShortIsMeant
<1>7. CASE policy.kind = "xsvol"
  BY <1>7, CrossVolIsMeant
<1>8. CASE policy.kind = "strategy"
  BY <1>8, TopPickIsMeant
<1> QED
  BY <1>2, <1>3, <1>4, <1>5, <1>6, <1>7, <1>8 DEF Kinds

\* A window leaves its settings and its policy alone.
OneBin == policy.kind # "caller" => env.bins = 1

\* A step inside the episode of a window.
LEMMA StepIsMeant ==
  ASSUME WindowInv, OneBin, pc = "loop", NEW action \in Chosen, StepOn(action),
         agent'.opened > agent.opened
  PROVE  agent'.pos \in Meant
<1>1. TypeOK /\ env \in Configs /\ policy \in Policies /\ policy.kind # "caller" /\ env.bins = 1
  BY DEF WindowInv, EnvInv, TypeOK, WindowIsOnce, OneBin
<1>2. action \in Int
  BY <1>1, ChosenActions, ActionsAreInts
<1>3. Decoded(action) \in Positions \cup {None, Invalid}
  BY <1>1, <1>2, DecodedType
<1>4. agent' \in Advanced(Decoded(action))
  BY DEF StepOn
<1>5. Decoded(action) \in Positions /\ agent'.pos = Decoded(action)
  BY <1>1, <1>3, <1>4, OpensAction
<1> QED
  BY <1>1, <1>5, ChosenIsMeant

\* A position that a step of run_window opens is one that its policy meant on
\* what it was shown: the numbers that the policies write are the numbers that
\* keel_sim.c reads.
THEOREM PicksTraded == WindowSpec => PicksAreTraded
<1> DEFINE Bought == pc = "loop" /\ agent'.opened > agent.opened /\ ~terminal' =>
                       agent'.pos \in Meant
<1>1. WindowInit => OneBin
  BY DEF WindowInit, OneBin
<1>2. OneBin /\ [WindowNext]_windowVars => OneBin'
  <2> SUFFICES ASSUME OneBin, [WindowNext]_windowVars PROVE OneBin'
    OBVIOUS
  <2>1. policy' = policy /\ env' = env
    BY DEF WindowNext, Begin, Turn, Caller, windowVars, vars, Next, Reset, Step, FinalStep,
           StepOn, FinalStepOn
  <2> QED
    BY <2>1 DEF OneBin
<1>3. WindowInv /\ OneBin /\ [WindowNext]_windowVars => [Bought]_windowVars
  <2> SUFFICES ASSUME WindowInv, OneBin, WindowNext,
                      pc = "loop", agent'.opened > agent.opened, ~terminal'
               PROVE  agent'.pos \in Meant
    OBVIOUS
  <2>1. Turn
    BY DEF WindowNext, Begin, Caller
  <2>2. PICK action \in Chosen : StepOn(action) \/ FinalStepOn(action)
    BY <2>1 DEF Turn
  <2>3. StepOn(action)
    BY <2>2 DEF FinalStepOn
  <2> QED
    BY <2>3, StepIsMeant
<1> QED
  BY <1>1, <1>2, <1>3, WindowInvariant, PTL DEF WindowSpec, PicksAreTraded
=============================================================================
