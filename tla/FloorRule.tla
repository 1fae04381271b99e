----------------------------- MODULE FloorRule ------------------------------
(***************************************************************************)
(* The arithmetic of the death-spiral guard of core/alpaca_singleton.py:   *)
(* the records of the buy memory, their pruning by age and the verdict on  *)
(* a sell.  Prices are integers and tolerances whole basis points.         *)
(***************************************************************************)
EXTENDS Integers

CONSTANTS
  Symbols, Prices,
  AtrBps,             \* the atr_pct arguments in basis points, 0 for none
  BaseBps, AtrMult,   \* DEFAULT_DEATH_SPIRAL_TOLERANCE_BPS, .._ATR_TOLERANCE_MULT
  BuyMemorySeconds,   \* DEFAULT_BUY_MEMORY_SECONDS
  None                \* no record of the symbol

Buy == [price : Prices, ts : Nat]
Buys == [Symbols -> Buy \cup {None}]
NoBuys == [s \in Symbols |-> None]

ASSUME NumbersAssumption ==
  /\ Prices \subseteq Nat \ {0}
  /\ AtrBps \subseteq Nat
  /\ BaseBps \in Nat /\ AtrMult \in Nat /\ BuyMemorySeconds \in Nat
ASSUME NoneAssumption == None \notin Symbols \cup Buy

\* A volatile symbol gets a wider tolerance, never a tighter one.
ToleranceBps(atr) == IF AtrMult * atr > BaseBps THEN AtrMult * atr ELSE BaseBps

Below(price, buy, bps) == price * 10000 < buy * (10000 - bps)

\* The verdict on a sell, given the record of its symbol.
Refuses(rec, price, atr) ==
  rec # None /\ Below(price, rec.price, ToleranceBps(atr))

Stale(rec, t) == rec # None /\ t - rec.ts > BuyMemorySeconds

\* Mutant of Pruned: the first stale record makes the whole map stale.
PrunedAll(buys, t) ==
  IF \E s \in Symbols : Stale(buys[s], t) THEN NoBuys ELSE buys

Pruned(buys, t) ==
  [s \in Symbols |-> IF Stale(buys[s], t) THEN None ELSE buys[s]]
=============================================================================
