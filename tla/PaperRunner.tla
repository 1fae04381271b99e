---------------------------- MODULE PaperRunner -----------------------------
(***************************************************************************)
(* The paper decision loop of core/paper_runner.py.  Unlike the Kraken     *)
(* paper trader it calls the guard and the buy memory itself, hands its    *)
(* orders to an injected sink that may take its time or raise, records a   *)
(* buy before it submits it, and takes its prices apart from its signals:  *)
(* also a wanted symbol may have none.  Any exception leaves step().       *)
(***************************************************************************)
EXTENDS PaperMemory, FiniteSets

CONSTANTS
  MaxPositions,   \* StrategyConfig.max_positions
  MaxTicks        \* bound: decision cycles

VARIABLES
  stage,      \* where the runner is in a cycle
  prices,     \* the prices argument, None where it has no entry
  wanted,     \* the symbols decide() picked
  left,       \* the symbols the current loop has still to visit
  ordered,    \* the symbol whose sell is guarded or buy recorded, or None
  position    \* the symbols in _held

args == <<prices, wanted>>

RunnerTypeOK ==
  /\ stage \in {"down", "idle", "exits", "entries", "raised"}
  /\ prices \in [Symbols -> Prices \cup {None}]
  /\ wanted \subseteq Symbols /\ left \subseteq Symbols /\ position \subseteq Symbols
  /\ ordered # None => ordered \in left /\ stage \in {"exits", "entries"}

NoPrices == [s \in Symbols |-> None]

RunnerInit ==
  /\ stage = "down"
  /\ prices = NoPrices /\ wanted = {} /\ left = {} /\ position = {}
  /\ ordered = None

Construct ==
  /\ stage = "down"
  /\ stage' = "idle"
  /\ UNCHANGED <<args, left, ordered, position, memory, now>>

\* The process ends, by itself, by an exception or by a kill.
Leave ==
  /\ stage # "down"
  /\ stage' = "down"
  /\ prices' = NoPrices /\ wanted' = {} /\ left' = {} /\ position' = {}
  /\ ordered' = None
  /\ UNCHANGED <<memory, now>>

Decision ==
  /\ stage = "idle" /\ now < MaxTicks
  /\ now' = now + 1
  /\ prices' \in [Symbols -> Prices \cup {None}]
  /\ wanted' \in SUBSET Symbols /\ Cardinality(wanted') <= MaxPositions
  /\ left' = {s \in position \ wanted' : prices'[s] # None}
  /\ stage' = "exits"
  /\ UNCHANGED <<ordered, position, memory>>

RunnerRaises ==
  /\ stage' = "raised" /\ ordered' = None
  /\ UNCHANGED <<args, left, position, now>>

\* The next symbol of a loop, whose order is not yet on its way.
Visits(loop, s) == stage = loop /\ s \in left /\ ordered = None

Orders(s) ==
  /\ ordered' = s
  /\ UNCHANGED <<stage, args, left, position, now>>

\* The guard lets the sell of an unwanted symbol pass...
SellGuarded(s) == Visits("exits", s) /\ GuardPasses(s, prices[s]) /\ Orders(s)

\* ... or raises.
SellRefused(s) == Visits("exits", s) /\ GuardRefuses(s, prices[s]) /\ RunnerRaises

\* All unwanted names are visited: on to the wanted ones that have a price and
\* are not held.  Those that are held get a new weight only.
ExitsOver ==
  /\ stage = "exits" /\ left = {}
  /\ stage' = "entries"
  /\ left' = {s \in wanted \ position : prices[s] # None}
  /\ UNCHANGED <<args, ordered, position, memory, now>>

\* The buy of a wanted symbol is recorded.
BuyRecorded(s) == Visits("entries", s) /\ RecordBuy(s, prices[s]) /\ Orders(s)

\* Mutant of MemoryFails: the error is logged, and the order goes out.
MemoryFailureIgnored(s) ==
  /\ Visits("exits", s) \/ Visits("entries", s)
  /\ Orders(s) /\ UNCHANGED memory

\* The buy memory cannot be locked or saved: OSError.
MemoryFails(s) ==
  /\ Visits("exits", s) \/ Visits("entries", s)
  /\ RunnerRaises /\ UNCHANGED memory

\* The sink takes the order...
Submitted ==
  /\ ordered # None
  /\ position' = IF stage = "exits" THEN position \ {ordered}
                                    ELSE position \cup {ordered}
  /\ left' = left \ {ordered}
  /\ ordered' = None
  /\ UNCHANGED <<stage, args, memory, now>>

\* ... or raises.
SinkRaises == ordered # None /\ RunnerRaises /\ UNCHANGED memory

StepOver ==
  /\ stage = "entries" /\ left = {}
  /\ stage' = "idle"
  /\ prices' = NoPrices /\ wanted' = {}
  /\ UNCHANGED <<left, ordered, position, memory, now>>

RunnerNext ==
  \/ Construct \/ Leave \/ Decision \/ ExitsOver \/ StepOver
  \/ Submitted \/ SinkRaises
  \/ \E s \in Symbols :
       SellGuarded(s) \/ SellRefused(s) \/ BuyRecorded(s) \/ MemoryFails(s)
=============================================================================
