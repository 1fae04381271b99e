---------------------------- MODULE KrakenPaper -----------------------------
(***************************************************************************)
(* The live-data paper trader of core/kraken_paper.py, driven by run_loop: *)
(* one decision cycle (step) per snapshot of the feed.  A cycle exits the  *)
(* held symbols that are no longer wanted, enters the wanted ones that are *)
(* not held, and appends its fills to the ledger at the very end.  Each    *)
(* order is filled by the C engine first and then submitted to the guarded *)
(* broker, whose guard may refuse a sell.  An exception ends the loop and  *)
(* with it the process; what the trader holds is in memory only.           *)
(***************************************************************************)
EXTENDS PaperMemory, Sequences, FiniteSets

CONSTANTS
  MaxPositions,       \* StrategyConfig.max_positions
  MaxTicks, MaxFills  \* bounds: cycles, and orders executed in one run

ASSUME BoundsAssumption ==
  MaxPositions \in Nat /\ MaxTicks \in Nat /\ MaxFills \in Nat

VARIABLES
  phase,      \* where the trader is in a cycle
  snap,       \* snap[s]: close of the symbol's bar, None if it is missing
  targets,    \* the symbols decide() picked
  todo,       \* the symbols the current loop has still to visit
  held,       \* the symbols in _held
  events,     \* the fills of this cycle
  fills,      \* self.fills
  executed,   \* broker.executor.filled
  ledger,     \* the lines this process appended to the ledger
  unfilled    \* symbols whose order could not be filled in this cycle

books == <<events, fills, executed, ledger>>
cycle == <<snap, targets, unfilled>>
vars == <<phase, cycle, todo, held, books, memory, now>>

Phase == {"down", "idle", "exits", "entries", "persist", "raised"}
Fill == [symbol : Symbols, side : {"buy", "sell"}]

\* The trader's books hold fills of orders, and only symbols are held.
TypeOK ==
  /\ phase \in Phase
  /\ snap \in [Symbols -> Prices \cup {None}]
  /\ targets \subseteq Symbols /\ todo \subseteq Symbols /\ held \subseteq Symbols
  /\ unfilled \subseteq Symbols
  /\ \A book \in {events, fills, executed, ledger} : book \in Seq(Fill)
  /\ floors \in Buys /\ lost \subseteq Symbols
  /\ now \in Nat

Missing == [s \in Symbols |-> None]
Quoted == {s \in Symbols : snap[s] # None}
Sell(s) == [symbol |-> s, side |-> "sell"]
BuyOf(s) == [symbol |-> s, side |-> "buy"]

-----------------------------------------------------------------------------
Init ==
  /\ phase = "down"
  /\ snap = Missing /\ targets = {} /\ unfilled = {}
  /\ todo = {} /\ held = {}
  /\ events = <<>> /\ fills = <<>> /\ executed = <<>> /\ ledger = <<>>
  /\ floors = NoBuys /\ lost = {}
  /\ now = 0

\* A new trader: nothing is read back from the ledger.
Start ==
  /\ phase = "down"
  /\ phase' = "idle"
  /\ UNCHANGED <<cycle, todo, held, books, memory, now>>

\* The process is gone, and what it held in memory.
Gone ==
  /\ phase' = "down"
  /\ snap' = Missing /\ targets' = {} /\ unfilled' = {}
  /\ todo' = {} /\ held' = {}
  /\ events' = <<>> /\ fills' = <<>> /\ executed' = <<>> /\ ledger' = <<>>
  /\ UNCHANGED <<memory, now>>

Kill == phase # "down" /\ Gone

\* The loop has run its ticks, or the exception reaches the top level.
End == phase \in {"idle", "raised"} /\ Gone

\* The exception leaves step(); its local list of events goes with it.
Raise ==
  /\ phase' = "raised"
  /\ events' = <<>>

-----------------------------------------------------------------------------
(* KrakenPaperTrader.step.                                                 *)

\* The feed returns a snapshot, some symbols of which may be missing; decide
\* picks at most MaxPositions of the others (Strategy, SelectPicks).
Snapshot ==
  /\ phase = "idle"
  /\ now < MaxTicks /\ Len(executed) < MaxFills
  /\ now' = now + 1
  /\ snap' \in [Symbols -> Prices \cup {None}]
  /\ targets' \in SUBSET {s \in Symbols : snap'[s] # None}
  /\ Cardinality(targets') <= MaxPositions
  /\ unfilled' = {}
  /\ phase' = "exits"
  /\ todo' = {s \in held \ targets' : snap'[s] # None}
  /\ UNCHANGED <<held, books, memory>>

Visited(s) == todo' = todo \ {s}

\* Mutant of NoFill: the order goes out at the fill price of 0.
NoFillBooksZero(s) ==
  /\ phase \in {"exits", "entries"} /\ s \in todo
  /\ Visited(s)
  /\ floors' = [floors EXCEPT ![s] = [price |-> 0, ts |-> now]]
  /\ UNCHANGED <<phase, cycle, held, books, lost, now>>

\* fill_price returns 0: the order slipped out of the bar, and is skipped.
NoFill(s) ==
  /\ phase \in {"exits", "entries"} /\ s \in todo
  /\ Visited(s)
  /\ unfilled' = unfilled \cup {s}
  /\ UNCHANGED <<phase, snap, targets, held, books, memory, now>>

\* Mutant of Exit: the fill is booked, the position stays in _held.
ExitKeepsHeld(s) ==
  /\ phase = "exits" /\ s \in todo
  /\ GuardPasses(s, snap[s])
  /\ Visited(s)
  /\ events' = Append(events, Sell(s))
  /\ executed' = Append(executed, Sell(s))
  /\ UNCHANGED <<phase, cycle, held, fills, ledger, now>>

\* The broker guards and executes the sell, and the position is closed.
Exit(s) ==
  /\ phase = "exits" /\ s \in todo
  /\ GuardPasses(s, snap[s])
  /\ Visited(s)
  /\ held' = held \ {s}
  /\ events' = Append(events, Sell(s))
  /\ executed' = Append(executed, Sell(s))
  /\ UNCHANGED <<phase, cycle, fills, ledger, now>>

\* The guard refuses the sell: RuntimeError.
ExitRefused(s) ==
  /\ phase = "exits" /\ s \in todo
  /\ GuardRefuses(s, snap[s])
  /\ Raise
  /\ UNCHANGED <<cycle, todo, held, fills, executed, ledger, now>>

\* The guard cannot lock or save the buy memory: OSError.
ExitFails(s) ==
  /\ phase = "exits" /\ s \in todo
  /\ Raise
  /\ UNCHANGED <<cycle, todo, held, fills, executed, ledger, memory, now>>

\* Mutant of ExitsDone: the loop breaks off at the first exit.
ExitsDoneEarly ==
  /\ phase = "exits"
  /\ phase' = "entries"
  /\ todo' = targets \ held
  /\ UNCHANGED <<cycle, held, books, memory, now>>

\* All held symbols are visited: on to the wanted ones that are not held.
ExitsDone ==
  /\ phase = "exits" /\ todo = {}
  /\ phase' = "entries"
  /\ todo' = targets \ held
  /\ UNCHANGED <<cycle, held, books, memory, now>>

\* The broker executes and records the buy, and the position is opened.
Enter(s) ==
  /\ phase = "entries" /\ s \in todo
  /\ RecordBuy(s, snap[s])
  /\ Visited(s)
  /\ held' = held \cup {s}
  /\ events' = Append(events, BuyOf(s))
  /\ executed' = Append(executed, BuyOf(s))
  /\ UNCHANGED <<phase, cycle, fills, ledger, now>>

\* The buy is executed but cannot be recorded: OSError.
EnterFails(s) ==
  /\ phase = "entries" /\ s \in todo
  /\ executed' = Append(executed, BuyOf(s))
  /\ Raise
  /\ UNCHANGED <<cycle, todo, held, fills, ledger, memory, now>>

EntriesDone ==
  /\ phase = "entries" /\ todo = {}
  /\ phase' = "persist"
  /\ UNCHANGED <<cycle, todo, held, books, memory, now>>

\* The events are appended to the ledger and to self.fills.
Persist ==
  /\ phase = "persist"
  /\ ledger' = ledger \o events
  /\ fills' = fills \o events
  /\ events' = <<>>
  /\ phase' = "idle"
  /\ snap' = Missing /\ targets' = {} /\ unfilled' = {}
  /\ UNCHANGED <<todo, held, executed, memory, now>>

\* Mutant of PersistFails: all lines are written again.
PersistRetried ==
  /\ phase = "persist" /\ events # <<>> /\ Len(ledger) < MaxFills
  /\ \E n \in 0..Len(events) : ledger' = ledger \o SubSeq(events, 1, n)
  /\ UNCHANGED <<phase, events, cycle, todo, held, fills, executed, memory, now>>

\* OSError after some of the lines were written.
PersistFails ==
  /\ phase = "persist" /\ events # <<>>
  /\ \E n \in 0..Len(events) : ledger' = ledger \o SubSeq(events, 1, n)
  /\ Raise
  /\ UNCHANGED <<cycle, todo, held, fills, executed, memory, now>>

Cycle ==
  \/ \E s \in Symbols :
       \/ NoFill(s) \/ Exit(s) \/ ExitRefused(s) \/ ExitFails(s)
       \/ Enter(s) \/ EnterFails(s)
  \/ ExitsDone \/ EntriesDone \/ Persist \/ PersistFails

Next == Start \/ Kill \/ End \/ Snapshot \/ Cycle

Spec == Init /\ [][Next]_vars

\* step() runs to its end, and an exception ends the process.
FairSpec == Spec /\ WF_vars(Cycle) /\ WF_vars(End /\ phase = "raised")

-----------------------------------------------------------------------------
(* Properties.                                                             *)

\* The symbols whose last order in a book is a buy.
Open(book) ==
  {s \in Symbols : \E i \in 1..Len(book) :
     /\ book[i] = BuyOf(s)
     /\ \A j \in i+1..Len(book) : book[j].symbol # s}

\* Whatever fails inside a cycle, the trader's books agree whenever it asks
\* for the next snapshot: what the broker executed, what it appended to the
\* ledger and what it remembers as fills is one history, and _held is the
\* position that this history leaves.
BooksAgree ==
  phase = "idle" =>
    /\ executed = ledger /\ executed = fills
    /\ held = Open(ledger)

\* The ledger never shows what the broker did not execute, nor in another
\* order, also after an exception half-way through the cycle.
LedgerIsExecuted ==
  \E n \in 0..Len(executed) : ledger = SubSeq(executed, 1, n)

\* A cycle that comes to its end has moved the portfolio to the targets, but
\* for the symbols that were not quoted or could not be filled.
CycleReachesTargets ==
  phase = "persist" =>
    \A s \in Symbols : (s \in held) # (s \in targets) =>
      s \notin Quoted \/ s \in unfilled

(* What the repository says, and the code does not do.                     *)

\* "Fills are [...] appended to a JSONL ledger": also those of the cycle that
\* the guard ends when it refuses a sell.
FillsReachLedger ==
  [][(\E s \in Symbols : ExitRefused(s)) => ledger' = ledger \o events]_vars
=============================================================================
