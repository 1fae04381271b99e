-------------------------- MODULE PaperHostProofs ---------------------------
(***************************************************************************)
(* The two paper programs on one buy memory, for any symbols, prices and   *)
(* tolerances, any number of cycles and of restarts: the books of the      *)
(* Kraken trader agree between its cycles, its ledger shows what was       *)
(* executed, and every recent position of either program has a floor.      *)
(***************************************************************************)
EXTENDS PaperHost, SequenceTheorems, TLAPS

\* Pruning keeps the form of a buy memory, and a record unless it is stale.
LEMMA PrunedType ==
  ASSUME NEW buys \in Buys, NEW t
  PROVE  /\ Pruned(buys, t) \in Buys
         /\ \A s \in Symbols :
              Pruned(buys, t)[s] = IF Stale(buys[s], t) THEN None ELSE buys[s]
  BY DEF Pruned, Buys

-----------------------------------------------------------------------------

\* Unless an exception is on its way, the ledger and the events of the cycle
\* make up what the broker executed, and _held is the position this leaves.
BooksFollow ==
  /\ phase # "raised" =>
       fills = ledger /\ executed = ledger \o events /\ held = Open(executed)
  /\ phase \in {"down", "idle"} => events = <<>>
  /\ phase = "down" => executed = <<>>

\* What the loops of a cycle have still to visit, and what they passed over.
TargetsFollow ==
  /\ targets \subseteq Quoted
  /\ phase = "exits" =>
       /\ todo \subseteq Quoted \cap (held \ targets)
       /\ \A s \in held \ targets : s \in todo \/ s \notin Quoted \/ s \in unfilled
  /\ phase = "entries" =>
       /\ todo \subseteq targets \ held
       /\ \A s \in held \ targets : s \notin Quoted \/ s \in unfilled
       /\ \A s \in targets \ held : s \in todo \/ s \in unfilled
  /\ CycleReachesTargets

\* The runner goes through symbols with a price.
LeftArePriced ==
  stage \in {"exits", "entries"} => \A s \in left : prices[s] # None

\* A position was opened at some time.
HeldAreDated ==
  \A program \in DOMAIN HeldBy : \A s \in HeldBy[program] :
    since[program][s] \in Nat /\ since[program][s] <= now

\* The inductive invariant.
HostInv ==
  /\ HostTypeOK
  /\ BooksFollow /\ LedgerIsExecuted
  /\ TargetsFollow /\ LeftArePriced
  /\ HeldAreDated /\ HeldIsGuarded

-----------------------------------------------------------------------------
(* Books.                                                                  *)

\* A fill appended to a book.
LEMMA Appended ==
  ASSUME NEW book \in Seq(Fill), NEW fill \in Fill
  PROVE  /\ Append(book, fill) \in Seq(Fill)
         /\ Len(Append(book, fill)) = Len(book) + 1
         /\ \A i \in 1..Len(book) : Append(book, fill)[i] = book[i]
         /\ Append(book, fill)[Len(book) + 1] = fill
  OBVIOUS

\* A buy opens its symbol.
LEMMA OpenOfBuy ==
  ASSUME NEW book \in Seq(Fill), NEW s \in Symbols
  PROVE  Open(Append(book, BuyOf(s))) = Open(book) \cup {s}
<1> DEFINE more == Append(book, BuyOf(s))
<1>1. /\ BuyOf(s) \in Fill /\ BuyOf(s).symbol = s
      /\ \A r \in Symbols : BuyOf(r) = BuyOf(s) => r = s
  BY DEF BuyOf, Fill
<1>2. /\ Len(more) = Len(book) + 1 /\ Len(book) \in Nat
      /\ \A i \in 1..Len(book) : more[i] = book[i]
      /\ more[Len(book) + 1] = BuyOf(s)
  BY <1>1, Appended
<1> HIDE DEF more
<1>3. s \in Open(more)
  BY <1>2 DEF Open
<1>4. ASSUME NEW r \in Symbols, r # s PROVE r \in Open(more) <=> r \in Open(book)
  BY <1>1, <1>2, <1>4 DEF Open
<1> QED
  BY <1>3, <1>4 DEF more, Open

\* A sell closes it.
LEMMA OpenOfSell ==
  ASSUME NEW book \in Seq(Fill), NEW s \in Symbols
  PROVE  Open(Append(book, Sell(s))) = Open(book) \ {s}
<1> DEFINE more == Append(book, Sell(s))
<1>1. /\ Sell(s) \in Fill /\ Sell(s).symbol = s
      /\ \A r \in Symbols : BuyOf(r) # Sell(s)
      /\ \A r \in Symbols : BuyOf(r).symbol = r
  BY DEF BuyOf, Sell, Fill
<1>2. /\ Len(more) = Len(book) + 1 /\ Len(book) \in Nat
      /\ \A i \in 1..Len(book) : more[i] = book[i]
      /\ more[Len(book) + 1] = Sell(s)
  BY <1>1, Appended
<1> HIDE DEF more
<1>3. s \notin Open(more)
  <2>1. ASSUME NEW i \in 1..Len(more), more[i] = BuyOf(s)
        PROVE  \E j \in i+1..Len(more) : more[j].symbol = s
    BY <1>1, <1>2, <2>1
  <2> QED
    BY <2>1 DEF Open
<1>4. ASSUME NEW r \in Symbols, r # s PROVE r \in Open(more) <=> r \in Open(book)
  BY <1>1, <1>2, <1>4 DEF Open
<1> QED
  BY <1>3, <1>4 DEF more, Open

\* An empty book has no position.
LEMMA OpenOfNothing == Open(<<>>) = {}
  BY DEF Open

\* A ledger that goes on to be written is a prefix of what it is written from.
LEMMA PartlyWritten ==
  ASSUME NEW book \in Seq(Fill), NEW more \in Seq(Fill), NEW n \in 0..Len(more)
  PROVE  /\ book \o SubSeq(more, 1, n) \in Seq(Fill)
         /\ Len(book) + n \in 0..Len(book \o more)
         /\ book \o SubSeq(more, 1, n) = SubSeq(book \o more, 1, Len(book) + n)
<1> DEFINE part == SubSeq(more, 1, n)
           whole == book \o more
<1>1. /\ part \in Seq(Fill) /\ Len(part) = n
      /\ \A i \in 1..n : part[i] = more[i]
  OBVIOUS
<1>2. /\ whole \in Seq(Fill) /\ Len(whole) = Len(book) + Len(more)
      /\ \A i \in 1..Len(book) + Len(more) :
           whole[i] = IF i <= Len(book) THEN book[i] ELSE more[i - Len(book)]
  BY ConcatProperties
<1>3. /\ book \o part \in Seq(Fill) /\ Len(book \o part) = Len(book) + n
      /\ \A i \in 1..Len(book) + n :
           (book \o part)[i] = IF i <= Len(book) THEN book[i] ELSE part[i - Len(book)]
  BY <1>1, ConcatProperties
<1> DEFINE cut == SubSeq(whole, 1, Len(book) + n)
<1>4. /\ cut \in Seq(Fill) /\ Len(cut) = Len(book) + n
      /\ \A i \in 1..Len(book) + n : cut[i] = whole[i]
  <2> DEFINE m == Len(book) + n
  <2>1. m \in 0..Len(whole) /\ whole \in Seq(Fill)
    BY <1>2
  <2> HIDE DEF m, whole
  <2>2. /\ SubSeq(whole, 1, m) \in Seq(Fill) /\ Len(SubSeq(whole, 1, m)) = m
        /\ \A i \in 1..m : SubSeq(whole, 1, m)[i] = whole[i]
    BY <2>1
  <2> QED
    BY <2>2 DEF m
<1>5. \A i \in 1..Len(book) + n : (book \o part)[i] = cut[i]
  BY <1>1, <1>2, <1>3, <1>4
<1> HIDE DEF part, whole, cut
<1>6. book \o part = cut
  BY <1>3, <1>4, <1>5, SeqEqual
<1> QED
  BY <1>2, <1>3, <1>6 DEF part, whole, cut

\* What is a prefix of a history is one of a longer history.
LEMMA PrefixStays ==
  ASSUME NEW book \in Seq(Fill), NEW fill \in Fill, NEW n \in 0..Len(book)
  PROVE  /\ n \in 0..Len(Append(book, fill))
         /\ SubSeq(Append(book, fill), 1, n) = SubSeq(book, 1, n)
<1> DEFINE more == Append(book, fill)
<1>1. /\ more \in Seq(Fill) /\ Len(more) = Len(book) + 1
      /\ \A i \in 1..Len(book) : more[i] = book[i]
  BY Appended
<1> HIDE DEF more
<1>2. /\ SubSeq(more, 1, n) \in Seq(Fill) /\ Len(SubSeq(more, 1, n)) = n
      /\ SubSeq(book, 1, n) \in Seq(Fill) /\ Len(SubSeq(book, 1, n)) = n
      /\ \A i \in 1..n : SubSeq(more, 1, n)[i] = SubSeq(book, 1, n)[i]
  BY <1>1
<1>3. SubSeq(more, 1, n) = SubSeq(book, 1, n)
  BY <1>2, SeqEqual
<1> QED
  BY <1>1, <1>3 DEF more

-----------------------------------------------------------------------------
(* Types, and what a step of either program does to the buy memory.        *)

\* The buy memory is well-formed, and time is.
MemoryTypeOK == floors \in Buys /\ lost \subseteq Symbols /\ now \in Nat

\* A record is lost, or it stays, or is pruned because it is stale, or is one of
\* this moment.
FloorsAge ==
  \A s \in Symbols :
    \/ s \in lost'
    \/ s \notin lost /\ floors'[s] = floors[s]
    \/ s \notin lost /\ floors'[s] = None /\ Stale(floors[s], now)
    \/ floors'[s] # None /\ floors'[s].ts = now

\* What is held from now on has a record of this moment, or was held before.
Opened(new, old) ==
  \A s \in new \ old : floors'[s] # None /\ floors'[s].ts = now

\* The runner's calls of the buy memory are the Kraken trader's.
LEMMA RunnerMemory ==
  ASSUME NEW s, NEW price
  PROVE  /\ Runner!RecordBuy(s, price) => RecordBuy(s, price)
         /\ Runner!GuardPasses(s, price) => GuardPasses(s, price)
         /\ Runner!GuardRefuses(s, price) => GuardRefuses(s, price)
BY DEF Runner!RecordBuy, RecordBuy, Runner!GuardPasses, GuardPasses,
       Runner!GuardRefuses, GuardRefuses, Runner!Found, Found, Runner!Pruned, Pruned,
       Runner!Stale, Stale, Runner!Refuses, Refuses, Runner!Below, Below,
       Runner!ToleranceBps, ToleranceBps, Runner!NoBuys, NoBuys

\* A record replaces the symbol's, prunes the stale ones, and loses the others
\* only if it could not read them.
LEMMA RecordedBuy ==
  ASSUME MemoryTypeOK, NEW s \in Symbols, NEW price \in Prices, RecordBuy(s, price)
  PROVE  /\ floors' \in Buys /\ lost' \subseteq Symbols /\ FloorsAge
         /\ floors'[s] # None /\ floors'[s].ts = now
<1> DEFINE rec == [price |-> price, ts |-> now]
<1>1. rec \in Buy /\ rec.ts = now
  BY DEF Buy, MemoryTypeOK
<1>2. rec # None
  BY <1>1, NoneAssumption
<1> HIDE DEF rec
<1>3. PICK blind \in BOOLEAN :
        /\ floors' = [Found(blind) EXCEPT ![s] = rec]
        /\ lost' = (IF blind THEN Symbols ELSE lost) \ {s}
  BY DEF RecordBuy, rec
<1>4. CASE blind
  <2>1. floors' = [r \in Symbols |-> IF r = s THEN rec ELSE None] /\ lost' = Symbols \ {s}
    BY <1>3, <1>4 DEF Found, NoBuys
  <2> QED
    BY <1>1, <1>2, <2>1 DEF Buys, FloorsAge
<1>5. CASE ~blind
  <2>1. /\ Pruned(floors, now) \in Buys
        /\ \A r \in Symbols :
             Pruned(floors, now)[r] = IF Stale(floors[r], now) THEN None ELSE floors[r]
    BY PrunedType DEF MemoryTypeOK
  <2>2. floors' = [Pruned(floors, now) EXCEPT ![s] = rec] /\ lost' = lost \ {s}
    BY <1>3, <1>5 DEF Found
  <2>3. floors' \in Buys /\ floors'[s] = rec
    BY <1>1, <2>1, <2>2 DEF Buys
  <2>4. \A r \in Symbols \ {s} :
          floors'[r] = IF Stale(floors[r], now) THEN None ELSE floors[r]
    BY <2>1, <2>2 DEF Buys
  <2> QED
    BY <1>1, <1>2, <2>2, <2>3, <2>4 DEF FloorsAge, MemoryTypeOK
<1> QED
  BY <1>4, <1>5

\* The guard prunes, if it does anything.
LEMMA GuardedSell ==
  ASSUME MemoryTypeOK, NEW s, NEW price, GuardPasses(s, price) \/ GuardRefuses(s, price)
  PROVE  floors' \in Buys /\ lost' = lost /\ FloorsAge
<1>1. lost' = lost /\ (floors' = floors \/ floors' = Pruned(floors, now))
  BY DEF GuardPasses, GuardRefuses, Found
<1> QED
  BY <1>1, PrunedType DEF MemoryTypeOK, FloorsAge

\* A snapshot, an order and the end of a cycle keep the trader's types.
LEMMA KrakenTypes ==
  ASSUME TypeOK, TargetsFollow, Next
  PROVE  TypeOK'
<1> USE DEF Phase, Missing, memory
<1> MemoryTypeOK
  BY DEF TypeOK, MemoryTypeOK
<1>1. CASE Start \/ Kill \/ End
  <2>1. CASE Start
    BY <2>1 DEF Start, TypeOK, cycle, books
  <2>2. CASE Gone
    BY <2>2 DEF Gone, TypeOK
  <2> QED
    BY <1>1, <2>1, <2>2 DEF Kill, End
<1>2. CASE Snapshot
  BY <1>2 DEF Snapshot, TypeOK, books
<1>3. ASSUME NEW s \in Symbols, NoFill(s)
      PROVE  TypeOK'
  BY <1>3 DEF NoFill, Visited, TypeOK, books
<1>4. ASSUME NEW s \in Symbols, Exit(s)
      PROVE  TypeOK'
  <2>1. Sell(s) \in Fill
    BY DEF Sell, Fill
  <2>2. floors' \in Buys /\ lost' = lost
    BY <1>4, GuardedSell DEF Exit
  <2> QED
    BY <1>4, <2>1, <2>2 DEF Exit, Visited, TypeOK, cycle
<1>5. ASSUME NEW s \in Symbols, ExitRefused(s) \/ ExitFails(s)
      PROVE  TypeOK'
  <2>1. floors' \in Buys /\ lost' = lost
    BY <1>5, GuardedSell DEF ExitRefused, ExitFails, TypeOK
  <2>2. CASE ExitRefused(s)
    BY <2>1, <2>2 DEF ExitRefused, Raise, TypeOK, cycle
  <2>3. CASE ExitFails(s)
    BY <2>1, <2>3 DEF ExitFails, Raise, TypeOK, cycle
  <2> QED
    BY <1>5, <2>2, <2>3
<1>6. ASSUME NEW s \in Symbols, Enter(s)
      PROVE  TypeOK'
  <2>1. BuyOf(s) \in Fill
    BY DEF BuyOf, Fill
  <2>2. snap[s] \in Prices
    BY <1>6 DEF Enter, TargetsFollow, Quoted, TypeOK
  <2>3. floors' \in Buys /\ lost' \subseteq Symbols
    BY <1>6, <2>2, RecordedBuy DEF Enter
  <2> QED
    BY <1>6, <2>1, <2>3 DEF Enter, Visited, TypeOK, cycle
<1>7. ASSUME NEW s \in Symbols, EnterFails(s)
      PROVE  TypeOK'
  <2>1. BuyOf(s) \in Fill
    BY DEF BuyOf, Fill
  <2> QED
    BY <1>7, <2>1 DEF EnterFails, Raise, TypeOK, cycle
<1>8. CASE ExitsDone \/ EntriesDone
  BY <1>8 DEF ExitsDone, EntriesDone, TypeOK, cycle, books
<1>9. CASE Persist
  <2>1. ledger' \in Seq(Fill) /\ fills' \in Seq(Fill)
    BY <1>9, ConcatProperties DEF Persist, TypeOK
  <2> QED
    BY <1>9, <2>1 DEF Persist, TypeOK
<1>10. CASE PersistFails
  <2>1. ledger' \in Seq(Fill)
    BY <1>10, PartlyWritten DEF PersistFails, TypeOK
  <2> QED
    BY <1>10, <2>1 DEF PersistFails, Raise, TypeOK, cycle
<1> QED
  BY <1>1, <1>2, <1>3, <1>4, <1>5, <1>6, <1>7, <1>8, <1>9, <1>10 DEF Next, Cycle

\* A decision of the runner keeps its types, and those of the buy memory.
LEMMA RunnerTypes ==
  ASSUME HostTypeOK, LeftArePriced, Runner!RunnerNext
  PROVE  /\ Runner!RunnerTypeOK'
         /\ floors' \in Buys /\ lost' \subseteq Symbols /\ now' \in Nat
<1> DEFINE Typed == /\ Runner!RunnerTypeOK
                    /\ floors \in Buys /\ lost \subseteq Symbols /\ now \in Nat
<1> MemoryTypeOK
  BY DEF HostTypeOK, TypeOK, MemoryTypeOK
<1> None \notin Symbols
  BY NoneAssumption
<1> USE DEF HostTypeOK, TypeOK, Runner!RunnerTypeOK, Runner!NoPrices, Runner!args,
            Runner!memory, Runner!RunnerRaises, Runner!Orders, Runner!Visits
<1>1. CASE Runner!Construct \/ Runner!Leave
  BY <1>1 DEF Runner!Construct, Runner!Leave
<1>2. CASE Runner!Decision
  BY <1>2 DEF Runner!Decision
<1>3. CASE Runner!ExitsOver \/ Runner!StepOver
  BY <1>3 DEF Runner!ExitsOver, Runner!StepOver
<1>4. ASSUME NEW s \in Symbols, Runner!SellGuarded(s) \/ Runner!SellRefused(s)
      PROVE  Typed'
  <2>1. floors' \in Buys /\ lost' = lost
    BY <1>4, GuardedSell, RunnerMemory DEF Runner!SellGuarded, Runner!SellRefused
  <2>2. CASE Runner!SellGuarded(s)
    BY <2>1, <2>2 DEF Runner!SellGuarded
  <2>3. CASE Runner!SellRefused(s)
    BY <2>1, <2>3 DEF Runner!SellRefused
  <2> QED
    BY <1>4, <2>2, <2>3
<1>5. ASSUME NEW s \in Symbols, Runner!BuyRecorded(s)
      PROVE  Typed'
  <2>1. prices[s] \in Prices
    BY <1>5 DEF Runner!BuyRecorded, LeftArePriced
  <2>2. floors' \in Buys /\ lost' \subseteq Symbols
    BY <1>5, <2>1, RecordedBuy, RunnerMemory DEF Runner!BuyRecorded
  <2> QED
    BY <1>5, <2>2 DEF Runner!BuyRecorded
<1>6. ASSUME NEW s \in Symbols, Runner!MemoryFails(s)
      PROVE  Typed'
  BY <1>6 DEF Runner!MemoryFails
<1>7. CASE Runner!Submitted \/ Runner!SinkRaises
  BY <1>7 DEF Runner!Submitted, Runner!SinkRaises
<1> QED
  BY <1>1, <1>2, <1>3, <1>4, <1>5, <1>6, <1>7 DEF Runner!RunnerNext

\* A step of the Kraken trader.
LEMMA KrakenFloors ==
  ASSUME TypeOK, TargetsFollow, Next
  PROVE  FloorsAge /\ Opened(held', held) /\ now' \in {now, now + 1}
<1> MemoryTypeOK
  BY DEF TypeOK, MemoryTypeOK
<1> USE DEF memory
<1>0. UNCHANGED memory => FloorsAge
  BY DEF FloorsAge
<1>1. CASE Start \/ Kill \/ End
  BY <1>0, <1>1 DEF Start, Kill, End, Gone, Opened
<1>2. CASE Snapshot
  BY <1>0, <1>2 DEF Snapshot, Opened
<1>3. ASSUME NEW s \in Symbols, NoFill(s) \/ ExitFails(s) \/ EnterFails(s)
      PROVE  FloorsAge /\ Opened(held', held) /\ now' = now
  BY <1>0, <1>3 DEF NoFill, ExitFails, EnterFails, Opened
<1>4. ASSUME NEW s \in Symbols, Exit(s) \/ ExitRefused(s)
      PROVE  FloorsAge /\ Opened(held', held) /\ now' = now
  <2>1. FloorsAge
    BY <1>4, GuardedSell DEF Exit, ExitRefused
  <2>2. held' \subseteq held /\ now' = now
    BY <1>4 DEF Exit, ExitRefused
  <2> QED
    BY <2>1, <2>2 DEF Opened
<1>5. ASSUME NEW s \in Symbols, Enter(s)
      PROVE  FloorsAge /\ Opened(held', held) /\ now' = now
  <2>1. snap[s] \in Prices
    BY <1>5 DEF Enter, TargetsFollow, Quoted, TypeOK
  <2>2. FloorsAge /\ floors'[s] # None /\ floors'[s].ts = now
    BY <1>5, <2>1, RecordedBuy DEF Enter
  <2>3. held' = held \cup {s} /\ now' = now
    BY <1>5 DEF Enter
  <2> QED
    BY <2>2, <2>3 DEF Opened
<1>6. CASE ExitsDone \/ EntriesDone \/ Persist \/ PersistFails
  BY <1>0, <1>6 DEF ExitsDone, EntriesDone, Persist, PersistFails, Opened
<1> QED
  BY <1>1, <1>2, <1>3, <1>4, <1>5, <1>6 DEF Next, Cycle

\* What the runner holds, or has recorded and not yet submitted.
Bought == position \cup Buying

\* A step of the runner.
LEMMA RunnerFloors ==
  ASSUME HostTypeOK, LeftArePriced, Runner!RunnerNext
  PROVE  /\ FloorsAge /\ Opened(Bought', Bought) /\ now' \in {now, now + 1}
         /\ LeftArePriced'
<1> MemoryTypeOK
  BY DEF HostTypeOK, TypeOK, MemoryTypeOK
<1> USE DEF LeftArePriced, Runner!memory, Runner!args, Runner!RunnerRaises, Runner!Orders,
            Runner!Visits
<1>0. UNCHANGED <<floors, lost>> => FloorsAge
  BY DEF FloorsAge
<1>1. CASE Runner!Construct \/ Runner!Leave \/ Runner!StepOver
  BY <1>0, <1>1 DEF Runner!Construct, Runner!Leave, Runner!StepOver, Opened, Bought, Buying
<1>2. CASE Runner!Decision \/ Runner!ExitsOver
  <2>1. stage # "entries" /\ position' = position
    BY <1>2 DEF Runner!Decision, Runner!ExitsOver
  <2>2. stage' = "entries" => ordered' = None
    BY <1>2 DEF Runner!Decision, Runner!ExitsOver, HostTypeOK, Runner!RunnerTypeOK
  <2>3. Bought' \subseteq Bought
    BY <2>1, <2>2 DEF Bought, Buying
  <2> QED
    BY <1>0, <1>2, <2>3 DEF Runner!Decision, Runner!ExitsOver, Opened
<1>3. ASSUME NEW s \in Symbols, Runner!SellGuarded(s) \/ Runner!SellRefused(s)
      PROVE  /\ FloorsAge /\ Opened(Bought', Bought) /\ now' = now
             /\ LeftArePriced'
  <2>1. FloorsAge
    BY <1>3, GuardedSell, RunnerMemory DEF Runner!SellGuarded, Runner!SellRefused
  <2>2. Bought' \subseteq Bought /\ now' = now /\ LeftArePriced'
    BY <1>3 DEF Runner!SellGuarded, Runner!SellRefused, Bought, Buying
  <2> QED
    BY <2>1, <2>2 DEF Opened
<1>4. ASSUME NEW s \in Symbols, Runner!BuyRecorded(s)
      PROVE  /\ FloorsAge /\ Opened(Bought', Bought) /\ now' = now
             /\ LeftArePriced'
  <2>1. prices[s] \in Prices
    BY <1>4 DEF Runner!BuyRecorded, HostTypeOK, Runner!RunnerTypeOK
  <2>2. FloorsAge /\ floors'[s] # None /\ floors'[s].ts = now
    BY <1>4, <2>1, RecordedBuy, RunnerMemory DEF Runner!BuyRecorded
  <2>3. Bought' \subseteq Bought \cup {s} /\ now' = now /\ LeftArePriced'
    BY <1>4 DEF Runner!BuyRecorded, Bought, Buying
  <2> QED
    BY <2>2, <2>3 DEF Opened
<1>5. ASSUME NEW s \in Symbols, Runner!MemoryFails(s)
      PROVE  /\ FloorsAge /\ Opened(Bought', Bought) /\ now' = now
             /\ LeftArePriced'
  <2>1. Bought' \subseteq Bought
    BY <1>5 DEF Runner!MemoryFails, Bought, Buying
  <2> QED
    BY <1>0, <1>5, <2>1 DEF Runner!MemoryFails, Opened
<1>6. CASE Runner!Submitted \/ Runner!SinkRaises
  <2>1. Bought' \subseteq Bought
    BY <1>6 DEF Runner!Submitted, Runner!SinkRaises, Bought, Buying, HostTypeOK,
                Runner!RunnerTypeOK
  <2> QED
    BY <1>0, <1>6, <2>1 DEF Runner!Submitted, Runner!SinkRaises, Opened
<1> QED
  BY <1>1, <1>2, <1>3, <1>4, <1>5, <1>6 DEF Runner!RunnerNext

\* Whichever program moves, recent positions stay guarded: the argument that
\* makes HeldIsGuarded inductive.
LEMMA GuardStays ==
  ASSUME HostTypeOK, HeldAreDated, HeldIsGuarded, Dated, FloorsAge,
         Opened(held', held), Opened(Bought', Bought), now' \in {now, now + 1},
         held' \subseteq Symbols, Bought' \subseteq Symbols
  PROVE  /\ HeldAreDated'
         /\ HeldIsGuarded'
         /\ since' \in [DOMAIN HeldBy -> [Symbols -> Nat \cup {None}]]
<1>1. /\ DOMAIN HeldBy = {"kraken", "runner"} /\ DOMAIN HeldBy' = {"kraken", "runner"}
      /\ \A program \in DOMAIN HeldBy : HeldBy'[program] \subseteq Symbols
      /\ \A program \in DOMAIN HeldBy : Opened(HeldBy'[program], HeldBy[program])
  BY DEF HeldBy, Bought
<1>2. now \in Nat /\ now' \in Nat /\ now <= now' /\ BuyMemorySeconds \in Nat
  BY NumbersAssumption DEF HostTypeOK, TypeOK
<1>3. \A program \in DOMAIN HeldBy, s \in Symbols :
        since'[program][s] = IF s \notin HeldBy'[program] THEN None
                             ELSE IF s \in HeldBy[program] THEN since[program][s]
                             ELSE now
  BY <1>1 DEF Dated
<1>4. since' \in [DOMAIN HeldBy -> [Symbols -> Nat \cup {None}]]
  BY <1>1, <1>2 DEF Dated, HostTypeOK
<1>5. ASSUME NEW program \in DOMAIN HeldBy, NEW s \in HeldBy'[program]
      PROVE  /\ since'[program][s] \in Nat /\ since'[program][s] <= now'
             /\ s \notin lost' /\ now' - since'[program][s] <= BuyMemorySeconds =>
                  floors'[s] # None /\ floors'[s].ts >= since'[program][s]
  <2>1. s \in Symbols
    BY <1>1
  <2>2. CASE s \notin HeldBy[program]
    <3>1. since'[program][s] = now /\ floors'[s] # None /\ floors'[s].ts = now
      BY <1>1, <1>3, <2>1, <2>2 DEF Opened
    <3> QED
      BY <1>2, <3>1
  <2>3. CASE s \in HeldBy[program]
    <3> DEFINE d == since[program][s]
    <3>1. since'[program][s] = d
      BY <1>3, <2>1, <2>3
    <3>2. d \in Nat /\ d <= now
      BY <2>3 DEF HeldAreDated
    <3>3. s \notin lost /\ now - d <= BuyMemorySeconds
             => floors[s] # None /\ floors[s].ts >= d
      BY <2>3 DEF HeldIsGuarded
    <3>4. floors[s] # None => floors[s].ts \in Nat
      BY <2>1 DEF HostTypeOK, TypeOK, Buys, Buy
    <3>5. CASE s \notin lost' /\ now' - d <= BuyMemorySeconds
      <4>1. now - d <= BuyMemorySeconds
        BY <1>2, <3>2, <3>5
      <4>2. s \notin lost =>
              floors[s] # None /\ floors[s].ts >= d /\ ~Stale(floors[s], now)
        BY <1>2, <3>2, <3>3, <3>4, <4>1 DEF Stale
      <4>3. \/ s \notin lost /\ floors'[s] = floors[s]
            \/ s \notin lost /\ Stale(floors[s], now)
            \/ floors'[s] # None /\ floors'[s].ts = now
        BY <2>1, <3>5 DEF FloorsAge
      <4>4. floors'[s] # None /\ floors'[s].ts >= d
        BY <1>2, <3>2, <4>2, <4>3
      <4> QED
        BY <1>2, <3>1, <3>2, <4>4
    <3> QED
      BY <1>2, <3>1, <3>2, <3>5
  <2> QED
    BY <2>2, <2>3
<1> QED
  BY <1>1, <1>4, <1>5 DEF HeldAreDated, HeldIsGuarded

-----------------------------------------------------------------------------
(* The books and the targets of the Kraken trader.                         *)

\* An order of the trader, one more fill in its books.
LEMMA FillBooked ==
  ASSUME TypeOK, BooksFollow, LedgerIsExecuted, NEW fill \in Fill,
         executed' = Append(executed, fill), ledger' = ledger
  PROVE  /\ LedgerIsExecuted'
         /\ executed = ledger \o events /\ events' = Append(events, fill)
              => executed' = ledger' \o events'
<1>1. LedgerIsExecuted'
  <2>1. PICK n \in 0..Len(executed) : ledger = SubSeq(executed, 1, n)
    BY DEF LedgerIsExecuted
  <2>2. /\ n \in 0..Len(executed')
        /\ SubSeq(executed', 1, n) = SubSeq(executed, 1, n)
    BY PrefixStays DEF TypeOK
  <2> QED
    BY <2>1, <2>2 DEF LedgerIsExecuted
<1>2. ASSUME executed = ledger \o events
      PROVE  Append(executed, fill) = ledger \o Append(events, fill)
  <2>1. ledger \in Seq(Fill) /\ events \in Seq(Fill)
    BY DEF TypeOK
  <2>2. Append(executed, fill) = executed \o <<fill>> /\ Append(events, fill) = events \o <<fill>>
    BY <1>2, <2>1, ConcatProperties, AppendProperties, AppendIsConcat
  <2>3. <<fill>> \in Seq(Fill)
    OBVIOUS
  <2> QED
    BY <1>2, <2>1, <2>2, <2>3, ConcatAssociative
<1> QED
  BY <1>1, <1>2

\* The books after a step of the trader.
LEMMA KrakenBooks ==
  ASSUME TypeOK, BooksFollow, LedgerIsExecuted, TargetsFollow, Next
  PROVE  BooksFollow' /\ LedgerIsExecuted'
<1>1. CASE Start \/ Snapshot \/ ExitsDone \/ EntriesDone
  <2>1. /\ events' = events /\ fills' = fills /\ executed' = executed
        /\ ledger' = ledger /\ held' = held
    BY <1>1 DEF Start, Snapshot, ExitsDone, EntriesDone, books
  <2>2. /\ phase # "raised" /\ phase' \notin {"raised", "down"}
        /\ phase' = "idle" => phase = "down"
    BY <1>1 DEF Start, Snapshot, ExitsDone, EntriesDone
  <2> QED
    BY <2>1, <2>2 DEF BooksFollow, LedgerIsExecuted
<1>2. CASE Kill \/ End
  <2>1. /\ phase' = "down" /\ events' = <<>> /\ fills' = <<>> /\ executed' = <<>>
        /\ ledger' = <<>> /\ held' = {}
    BY <1>2 DEF Kill, End, Gone
  <2>2. <<>> = SubSeq(<<>>, 1, 0) /\ <<>> \o <<>> = <<>>
    OBVIOUS
  <2>3. Open(executed)' = {}
    BY <2>1, OpenOfNothing DEF Open
  <2>4. LedgerIsExecuted'
    BY <2>1, <2>2 DEF LedgerIsExecuted
  <2> QED
    BY <2>1, <2>2, <2>3, <2>4 DEF BooksFollow
<1>3. ASSUME NEW s \in Symbols, NoFill(s)
      PROVE  BooksFollow' /\ LedgerIsExecuted'
  BY <1>3 DEF NoFill, books, BooksFollow, LedgerIsExecuted, Open
<1>4. ASSUME NEW s \in Symbols, Exit(s)
      PROVE  BooksFollow' /\ LedgerIsExecuted'
  <2>1. Sell(s) \in Fill
    BY DEF Sell, Fill
  <2>2. /\ executed' = Append(executed, Sell(s)) /\ events' = Append(events, Sell(s))
        /\ ledger' = ledger /\ fills' = fills /\ held' = held \ {s}
        /\ phase = "exits" /\ phase' = "exits"
    BY <1>4 DEF Exit
  <2>3. LedgerIsExecuted' /\ executed' = ledger' \o events'
    BY <2>1, <2>2, FillBooked DEF BooksFollow
  <2>4. Open(executed') = held'
    BY <2>2, OpenOfSell DEF BooksFollow, TypeOK
  <2> QED
    BY <2>2, <2>3, <2>4 DEF BooksFollow, Open
<1>5. ASSUME NEW s \in Symbols, Enter(s)
      PROVE  BooksFollow' /\ LedgerIsExecuted'
  <2>1. BuyOf(s) \in Fill
    BY DEF BuyOf, Fill
  <2>2. /\ executed' = Append(executed, BuyOf(s)) /\ events' = Append(events, BuyOf(s))
        /\ ledger' = ledger /\ fills' = fills /\ held' = held \cup {s}
        /\ phase = "entries" /\ phase' = "entries"
    BY <1>5 DEF Enter
  <2>3. LedgerIsExecuted' /\ executed' = ledger' \o events'
    BY <2>1, <2>2, FillBooked DEF BooksFollow
  <2>4. Open(executed') = held'
    BY <2>2, OpenOfBuy DEF BooksFollow, TypeOK
  <2> QED
    BY <2>2, <2>3, <2>4 DEF BooksFollow, Open
<1>6. ASSUME NEW s \in Symbols, ExitRefused(s) \/ ExitFails(s)
      PROVE  BooksFollow' /\ LedgerIsExecuted'
  BY <1>6 DEF ExitRefused, ExitFails, Raise, BooksFollow, LedgerIsExecuted
<1>7. ASSUME NEW s \in Symbols, EnterFails(s)
      PROVE  BooksFollow' /\ LedgerIsExecuted'
  <2>1. BuyOf(s) \in Fill
    BY DEF BuyOf, Fill
  <2>2. /\ executed' = Append(executed, BuyOf(s)) /\ ledger' = ledger
        /\ phase' = "raised"
    BY <1>7 DEF EnterFails, Raise
  <2>3. LedgerIsExecuted'
    BY <2>1, <2>2, FillBooked
  <2> QED
    BY <2>2, <2>3 DEF BooksFollow
<1>8. CASE Persist
  <2>1. /\ phase = "persist" /\ phase' = "idle" /\ executed' = executed /\ held' = held
        /\ ledger' = ledger \o events /\ fills' = fills \o events /\ events' = <<>>
    BY <1>8 DEF Persist
  <2>2. ledger' = executed /\ fills' = executed /\ held = Open(executed)
    BY <2>1 DEF BooksFollow
  <2>3. executed \in Seq(Fill)
    BY DEF TypeOK
  <2>4. executed \o <<>> = executed /\ executed = SubSeq(executed, 1, Len(executed))
    BY <2>3, ConcatEmptySeq, SubSeqFull
  <2>5. LedgerIsExecuted'
    BY <2>1, <2>2, <2>3, <2>4 DEF LedgerIsExecuted
  <2>6. executed' = ledger' \o events' /\ fills' = ledger' /\ phase' = "idle"
    BY <2>1, <2>2, <2>4
  <2>7. Open(executed') = Open(executed)
    BY <2>1
  <2>8. BooksFollow'
    BY <2>1, <2>2, <2>6, <2>7 DEF BooksFollow
  <2> QED
    BY <2>5, <2>8
<1>9. CASE PersistFails
  <2>1. PICK n \in 0..Len(events) : ledger' = ledger \o SubSeq(events, 1, n)
    BY <1>9 DEF PersistFails
  <2>2. phase = "persist" /\ phase' = "raised" /\ executed' = executed
    BY <1>9 DEF PersistFails, Raise
  <2>3. executed = ledger \o events
    BY <2>2 DEF BooksFollow
  <2>4. LedgerIsExecuted'
    BY <2>1, <2>2, <2>3, PartlyWritten DEF LedgerIsExecuted, TypeOK
  <2> QED
    BY <2>2, <2>4 DEF BooksFollow
<1> QED
  BY <1>1, <1>2, <1>3, <1>4, <1>5, <1>6, <1>7, <1>8, <1>9 DEF Next, Cycle

\* The targets of a cycle, action by action.
LEMMA KrakenTargets ==
  ASSUME TypeOK, BooksFollow, TargetsFollow, Next
  PROVE  TargetsFollow'
<1> USE DEF TargetsFollow, CycleReachesTargets, Quoted
<1>1. CASE Start \/ Kill \/ End
  BY <1>1 DEF Start, Kill, End, Gone, Missing, cycle
<1>2. CASE Snapshot
  BY <1>2 DEF Snapshot
<1>3. ASSUME NEW s \in Symbols, NoFill(s)
      PROVE  TargetsFollow'
  BY <1>3 DEF NoFill, Visited
<1>4. ASSUME NEW s \in Symbols, Exit(s)
      PROVE  TargetsFollow'
  BY <1>4 DEF Exit, Visited, cycle
<1>5. ASSUME NEW s \in Symbols, Enter(s)
      PROVE  TargetsFollow'
  BY <1>5 DEF Enter, Visited, cycle
<1>6. ASSUME NEW s \in Symbols, ExitRefused(s) \/ ExitFails(s) \/ EnterFails(s)
      PROVE  TargetsFollow'
  BY <1>6 DEF ExitRefused, ExitFails, EnterFails, Raise, cycle
<1>7. CASE ExitsDone
  BY <1>7 DEF ExitsDone, cycle
<1>8. CASE EntriesDone
  BY <1>8 DEF EntriesDone, cycle, TypeOK
<1>9. CASE Persist
  BY <1>9 DEF Persist, Missing
<1>10. CASE PersistFails
  BY <1>10 DEF PersistFails, Raise, cycle
<1> QED
  BY <1>1, <1>2, <1>3, <1>4, <1>5, <1>6, <1>7, <1>8, <1>9, <1>10 DEF Next, Cycle

-----------------------------------------------------------------------------
(* The theorems.                                                           *)

\* What the runner holds or buys are symbols.
LEMMA BoughtType ==
  ASSUME Runner!RunnerTypeOK
  PROVE  Bought \subseteq Symbols
BY DEF Bought, Buying, Runner!RunnerTypeOK

\* A step of the Kraken trader leaves the runner alone, and keeps the rest.
LEMMA KrakenHostStep ==
  ASSUME HostInv, KrakenStep
  PROVE  HostInv'
<1>1. TypeOK /\ TargetsFollow /\ BooksFollow /\ LedgerIsExecuted /\ Next
  BY DEF HostInv, HostTypeOK, KrakenStep
<1>2. TypeOK' /\ TargetsFollow' /\ BooksFollow' /\ LedgerIsExecuted'
  BY <1>1, KrakenTypes, KrakenTargets, KrakenBooks
<1>3. Runner!RunnerTypeOK' /\ LeftArePriced' /\ Bought' = Bought
  BY DEF HostInv, HostTypeOK, KrakenStep, runnerVars, Runner!RunnerTypeOK, LeftArePriced,
         Bought, Buying
<1>4. held' \subseteq Symbols /\ Bought' \subseteq Symbols
  BY <1>2, <1>3 DEF TypeOK, Bought, Buying, Runner!RunnerTypeOK
<1>5. FloorsAge /\ Opened(held', held) /\ now' \in {now, now + 1} /\ Opened(Bought', Bought)
  BY <1>1, <1>3, KrakenFloors DEF Opened
<1>6. /\ HeldAreDated' /\ HeldIsGuarded'
      /\ since' \in [DOMAIN HeldBy -> [Symbols -> Nat \cup {None}]]
  BY <1>4, <1>5, GuardStays DEF HostInv, KrakenStep
<1> QED
  BY <1>2, <1>3, <1>6 DEF HostInv, HostTypeOK, HeldBy

\* A step of the runner leaves the trader's books alone, and keeps the rest.
LEMMA RunnerHostStep ==
  ASSUME HostInv, RunnerStep
  PROVE  HostInv'
<1>1. /\ HostTypeOK /\ LeftArePriced /\ Runner!RunnerNext
      /\ UNCHANGED <<phase, cycle, todo, held, books>>
  BY DEF HostInv, RunnerStep
<1>2. Runner!RunnerTypeOK' /\ TypeOK'
  BY <1>1, RunnerTypes DEF HostTypeOK, TypeOK, cycle, books
<1>3. TargetsFollow' /\ BooksFollow' /\ LedgerIsExecuted'
  BY <1>1 DEF HostInv, TargetsFollow, CycleReachesTargets, Quoted, BooksFollow,
              LedgerIsExecuted, Open, cycle, books
<1>4. held' \subseteq Symbols /\ Bought' \subseteq Symbols
  BY <1>2 DEF TypeOK, Bought, Buying, Runner!RunnerTypeOK
<1>5. /\ FloorsAge /\ Opened(held', held) /\ now' \in {now, now + 1}
      /\ Opened(Bought', Bought) /\ LeftArePriced'
  BY <1>1, RunnerFloors DEF Opened
<1>6. /\ HeldAreDated' /\ HeldIsGuarded'
      /\ since' \in [DOMAIN HeldBy -> [Symbols -> Nat \cup {None}]]
  BY <1>4, <1>5, GuardStays DEF HostInv, RunnerStep
<1> QED
  BY <1>2, <1>3, <1>5, <1>6 DEF HostInv, HostTypeOK, HeldBy

\* A damaged file: every record is lost, the programs go on.
LEMMA DamagedHostStep ==
  ASSUME HostInv, MemoryDamaged
  PROVE  HostInv'
<1>1. /\ floors' = NoBuys /\ lost' = Symbols /\ now' = now /\ since' = since
      /\ UNCHANGED <<phase, cycle, todo, held, books>> /\ UNCHANGED runnerVars
  BY DEF MemoryDamaged, Damage
<1>2. HostTypeOK'
  BY <1>1 DEF HostInv, HostTypeOK, TypeOK, Runner!RunnerTypeOK, HeldBy, cycle, books,
              runnerVars, NoBuys, Buys
<1>3. BooksFollow' /\ LedgerIsExecuted' /\ TargetsFollow' /\ LeftArePriced'
  BY <1>1 DEF HostInv, TargetsFollow, CycleReachesTargets, Quoted, BooksFollow,
              LedgerIsExecuted, Open, LeftArePriced, cycle, books, runnerVars
<1>4. HeldBy' = HeldBy
  BY <1>1 DEF HeldBy, Buying, runnerVars
<1>5. HeldAreDated'
  BY <1>1, <1>4 DEF HostInv, HeldAreDated
<1>6. \A program \in DOMAIN HeldBy : HeldBy[program] \ lost' = {}
  <2>1. held \subseteq Symbols /\ Bought \subseteq Symbols
    BY BoughtType DEF HostInv, HostTypeOK, TypeOK
  <2> QED
    BY <1>1, <2>1 DEF HeldBy, Bought
<1>7. HeldIsGuarded'
  BY <1>4, <1>6 DEF HeldIsGuarded
<1> QED
  BY <1>2, <1>3, <1>5, <1>7 DEF HostInv

\* Books, targets, dates and floors of both programs are inductive together.
THEOREM HostInvariant == HostSpec => []HostInv
<1>1. HostInit => HostInv
  <2> SUFFICES ASSUME HostInit PROVE HostInv
    OBVIOUS
  <2>1. HostTypeOK
    BY DEF HostInit, Init, HostTypeOK, TypeOK, Runner!RunnerInit, Runner!RunnerTypeOK,
           Runner!NoPrices, Undated, HeldBy, Buying, Phase, Missing, NoBuys, Buys
  <2>2. BooksFollow /\ LedgerIsExecuted
    <3>1. <<>> = SubSeq(<<>>, 1, 0) /\ <<>> \o <<>> = <<>> /\ Len(<<>>) = 0
      OBVIOUS
    <3> QED
      BY <3>1, OpenOfNothing DEF HostInit, Init, BooksFollow, LedgerIsExecuted
  <2>3. TargetsFollow /\ LeftArePriced
    BY DEF HostInit, Init, TargetsFollow, CycleReachesTargets, LeftArePriced,
           Runner!RunnerInit
  <2>4. HeldAreDated /\ HeldIsGuarded
    BY DEF HostInit, Init, Runner!RunnerInit, HeldBy, Buying, HeldAreDated, HeldIsGuarded
  <2> QED
    BY <2>1, <2>2, <2>3, <2>4 DEF HostInv
<1>2. HostInv /\ [HostNext]_hostVars => HostInv'
  <2>1. HostInv /\ UNCHANGED hostVars => HostInv'
    BY DEF HostInv, HostTypeOK, TypeOK, Runner!RunnerTypeOK, HeldBy, BooksFollow,
           LedgerIsExecuted, Open, TargetsFollow, CycleReachesTargets, Quoted,
           LeftArePriced, HeldAreDated, HeldIsGuarded, Buying, hostVars, vars,
           runnerVars, cycle, books, memory
  <2> QED
    BY <2>1, KrakenHostStep, RunnerHostStep, DamagedHostStep DEF HostNext
<1> QED
  BY <1>1, <1>2, PTL DEF HostSpec

\* Both programs and their buy memory are well-formed in every state.
THEOREM HostTypeCorrect == HostSpec => []HostTypeOK
BY HostInvariant, PTL DEF HostInv

\* Between two cycles what the broker executed, the ledger and self.fills are
\* one history, and _held is what it leaves open (KrakenPaperTrader.step).
THEOREM BooksAgreeAlways == HostSpec => []BooksAgree
<1>1. HostInv => BooksAgree
  <2> SUFFICES ASSUME HostInv, phase = "idle"
               PROVE  executed = ledger /\ executed = fills /\ held = Open(ledger)
    BY DEF BooksAgree
  <2>1. ledger \in Seq(Fill)
    BY DEF HostInv, HostTypeOK, TypeOK
  <2>2. ledger \o <<>> = ledger
    BY <2>1, ConcatEmptySeq
  <2> QED
    BY <2>2 DEF HostInv, BooksFollow
<1> QED
  BY <1>1, HostInvariant, PTL

\* The ledger is a beginning of what was executed, whatever write failed.
THEOREM LedgerIsTrue == HostSpec => []LedgerIsExecuted
BY HostInvariant, PTL DEF HostInv

\* A finished cycle has reached its targets as far as the market let it.
THEOREM TargetsReached == HostSpec => []CycleReachesTargets
BY HostInvariant, PTL DEF HostInv, TargetsFollow

\* Every recent position of either program has a record of the buy memory, also
\* when the other program prunes and records in between, unless a blind record
\* of another symbol or a damaged file has lost it.
THEOREM PositionsGuarded == HostSpec => []HeldIsGuarded
BY HostInvariant, PTL DEF HostInv
=============================================================================
