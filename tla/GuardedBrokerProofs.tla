------------------------ MODULE GuardedBrokerProofs -------------------------
(***************************************************************************)
(* Proofs about GuardedBroker for any processes, accounts, symbols, prices *)
(* and tolerances.                                                         *)
(***************************************************************************)
EXTENDS GuardedBroker, TLAPS

\* Pruning keeps the form of a buy memory, and a record unless it is stale.
LEMMA PrunedType ==
  ASSUME NEW buys \in Buys, NEW t
  PROVE  /\ Pruned(buys, t) \in Buys
         /\ \A s \in Symbols :
              Pruned(buys, t)[s] = IF Stale(buys[s], t) THEN None ELSE buys[s]
  BY DEF Pruned, Buys

\* A record that is stale stays stale.
LEMMA StaleStays ==
  ASSUME NEW rec \in Buy \cup {None}, NEW t \in Nat, Stale(rec, t)
  PROVE  Stale(rec, t + 1)
  BY NumbersAssumption DEF Stale, Buy

\* Without a volatility the guard has the base tolerance, and never less.
LEMMA BaseTolerance == ToleranceBps(0) = BaseBps
  BY NumbersAssumption DEF ToleranceBps

-----------------------------------------------------------------------------

\* Only a running process has an order; only a buy is executed by steps, and
\* it is the last one that the process bought.
OrdersAreReal ==
  \A p \in Procs : order[p] # None =>
    /\ p \in up
    /\ order[p].step = "executed" =>
         order[p].side = "buy" /\ lastBuy[p][order[p].symbol] = order[p].price

\* What a client bought last is recorded, or it is the order that it is about
\* to record.
BuysAreRecorded ==
  \A p \in Clients \cap up, s \in Symbols : lastBuy[p][s] # None =>
    \/ own[p][s] # None /\ own[p][s].price = lastBuy[p][s]
    \/ order[p] # None /\ order[p].step = "executed" /\ order[p].symbol = s

\* An order was sent if it is executed, and not before.
SentIsExecuted ==
  \A p \in Procs : order[p] # None => (sent[p] <=> order[p].step = "executed")

\* The last record of an account is its floor, as long as it is fresh and has
\* not been lost to damage or to a record made blind.
LastRecordIsFloor ==
  \A p \in Procs, s \in Symbols :
    author[AccountOf[p]][s] = p /\ own[p][s] # None /\ ~Stale(own[p][s], now) =>
      floors[AccountOf[p]][s] = own[p][s]

\* A sell that has passed a guard that could read is not below the process's
\* own record, as long as that is the last one of the account.
GuardedIsAbove ==
  \A p \in Procs :
    /\ order[p] # None /\ order[p].step = "guarded" /\ order[p].side = "sell"
    /\ author[AccountOf[p]][order[p].symbol] = p
    /\ ~blind[p]
    => ~BelowFloorOf(p, own[p][order[p].symbol])

\* The inductive invariant.
BrokerInv ==
  /\ TypeOK
  /\ OrdersAreReal
  /\ BuysAreRecorded
  /\ SentIsExecuted
  /\ StatusTellsExecution
  /\ LastRecordIsFloor
  /\ GuardedIsAbove

-----------------------------------------------------------------------------
(* The pruned floors.                                                      *)

\* Pruning the floors of an account touches no other account.
LEMMA PrunedFloorsType ==
  ASSUME TypeOK, NEW p \in Procs
  PROVE  /\ PrunedFloors(p) \in [Accounts -> Buys]
         /\ \A a \in Accounts, s \in Symbols :
              PrunedFloors(p)[a][s] =
                IF a = AccountOf[p] /\ Stale(floors[a][s], now) THEN None ELSE floors[a][s]
  <1>1. AccountOf[p] \in Accounts /\ floors \in [Accounts -> Buys]
    BY AccountsAssumption DEF TypeOK
  <1>2. floors[AccountOf[p]] \in Buys  BY <1>1
  <1>3. PrunedFloors(p) =
          [floors EXCEPT ![AccountOf[p]] = Pruned(floors[AccountOf[p]], now)]
    BY DEF PrunedFloors
  <1> QED  BY <1>1, <1>2, <1>3, PrunedType

-----------------------------------------------------------------------------
(* Type correctness.                                                       *)

\* An order in progress, and what the next step makes of it.
LEMMA OrderTypes ==
  ASSUME TypeOK, NEW p \in Procs, order[p] # None
  PROVE  /\ order[p] \in Order
         /\ order[p].symbol \in Symbols /\ order[p].price \in Prices
         /\ \A step \in {"guarded", "executed"} : Go(p, step) =>
              /\ order' \in [Procs -> Order \cup {None}]
              /\ order'[p] # None
              /\ order'[p].step = step /\ order'[p].side = order[p].side
              /\ order'[p].symbol = order[p].symbol /\ order'[p].price = order[p].price
              /\ \A q \in Procs \ {p} : order'[q] = order[q]
  <1>1. order[p] \in Order  BY DEF TypeOK
  <1>2. ASSUME NEW step \in {"guarded", "executed"}, Go(p, step)
        PROVE  /\ order' \in [Procs -> Order \cup {None}]
               /\ order'[p] = [order[p] EXCEPT !.step = step]
               /\ order'[p] \in Order
               /\ \A q \in Procs \ {p} : order'[q] = order[q]
    <2>1. [order[p] EXCEPT !.step = step] \in Order  BY <1>1 DEF Order
    <2>2. order' = [order EXCEPT ![p] = [order[p] EXCEPT !.step = step]]
      BY <1>2 DEF Go
    <2> QED  BY <2>1, <2>2 DEF TypeOK
  <1> QED  BY <1>1, <1>2, OrderAssumption DEF Order

\* Type correctness is inductive on its own.
LEMMA BrokerTypeStep == TypeOK /\ [Next]_vars => TypeOK'
  <1> SUFFICES ASSUME TypeOK, [Next]_vars PROVE TypeOK'
    OBVIOUS
  <1> USE DEF TypeOK, history, vars
  <1>1. ASSUME NEW p \in Procs, Start(p) \/ Kill(p) PROVE TypeOK'
    <2>1. CASE Start(p)  BY <2>1 DEF Start
    <2>2. CASE Kill(p)  BY <2>2 DEF Kill
    <2> QED  BY <1>1, <2>1, <2>2
  <1>2. ASSUME NEW p \in Procs, Submit(p) PROVE TypeOK'
    BY <1>2 DEF Submit, Order
  <1>3. ASSUME NEW p \in Procs, SubmitOrder(p) PROVE TypeOK'
    <2>1. CASE Reject(p)  BY <2>1 DEF Reject, Raise
    <2>2. CASE PassBuy(p)  BY <2>2, OrderTypes DEF PassBuy, At
    <2>3. CASE Approve(p)  BY <2>3, OrderTypes, PrunedFloorsType DEF Approve, At
    <2>4. CASE Refuse(p)  BY <2>4, PrunedFloorsType DEF Refuse, Raise
    <2>5. CASE GuardFails(p)  BY <2>5 DEF GuardFails, Raise
    <2>6. CASE ExecuteSell(p)  BY <2>6 DEF ExecuteSell, Return
    <2>7. CASE ExecuteBuy(p)  BY <2>7, OrderTypes DEF ExecuteBuy, At
    <2>8. CASE ExecuteForbidden(p)  BY <2>8 DEF ExecuteForbidden, Raise
    <2>9. CASE ExecuteFails(p)  BY <2>9 DEF ExecuteFails, Raise
    <2>10. CASE Record(p)
      <3>1. NewRecord(p) \in Buy
        BY <2>10, OrderTypes DEF Record, At, Buy, NewRecord
      <3>2. order[p].symbol \in Symbols /\ AccountOf[p] \in Accounts
        BY <2>10, OrderTypes, AccountsAssumption DEF Record, At
      <3>3. floors' \in [Accounts -> Buys]
        BY <2>10, <3>1, <3>2, PrunedFloorsType DEF Record, Buys
      <3>4. own' \in [Procs -> Buys]  BY <2>10, <3>1, <3>2 DEF Record, Buys
      <3>5. author' \in [Accounts -> [Symbols -> Procs \cup {None}]]
        BY <2>10, <3>2 DEF Record
      <3> QED  BY <2>10, <3>3, <3>4, <3>5 DEF Record, Return
    <2>11. CASE RecordFails(p)  BY <2>11 DEF RecordFails, Raise
    <2>12. CASE ApproveBlind(p)  BY <2>12, OrderTypes DEF ApproveBlind, At
    <2>13. CASE RecordBlind(p)
      <3>1. NewRecord(p) \in Buy
        BY <2>13, OrderTypes DEF RecordBlind, At, Buy, NewRecord
      <3>2. order[p].symbol \in Symbols /\ AccountOf[p] \in Accounts
        BY <2>13, OrderTypes, AccountsAssumption DEF RecordBlind, At
      <3>3. [NoBuys EXCEPT ![order[p].symbol] = NewRecord(p)] \in Buys
        BY <3>1, <3>2 DEF NoBuys, Buys
      <3>4. floors' \in [Accounts -> Buys]  BY <2>13, <3>2, <3>3 DEF RecordBlind
      <3>5. own' \in [Procs -> Buys]  BY <2>13, <3>1, <3>2 DEF RecordBlind, Buys
      <3>6. author' \in [Accounts -> [Symbols -> Procs \cup {None}]]
        BY <2>13, <3>2 DEF RecordBlind
      <3> QED  BY <2>13, <3>4, <3>5, <3>6 DEF RecordBlind, Return
    <2> QED  BY <1>3, <2>1, <2>2, <2>3, <2>4, <2>5, <2>6, <2>7, <2>8, <2>9, <2>10,
                <2>11, <2>12, <2>13 DEF SubmitOrder
  <1>4. CASE Tick  BY <1>4 DEF Tick
  <1>5. CASE UNCHANGED vars  BY <1>5
  <1>6. ASSUME NEW a \in Accounts, Damage(a) PROVE TypeOK'
    BY <1>6 DEF Damage, NoBuys, Buys
  <1> QED  BY <1>1, <1>2, <1>3, <1>4, <1>5, <1>6 DEF Next

-----------------------------------------------------------------------------
(* The inductive step, one lemma for each part of the invariant.           *)

\* Every step keeps the orders under way real.
LEMMA RealStep ==
  ASSUME BrokerInv, TypeOK', [Next]_vars
  PROVE  OrdersAreReal'
  <1> SUFFICES ASSUME NEW q \in Procs, order'[q] # None
               PROVE  /\ q \in up'
                      /\ order'[q].step = "executed" =>
                           /\ order'[q].side = "buy"
                           /\ lastBuy'[q][order'[q].symbol] = order'[q].price
    BY DEF OrdersAreReal
  <1> DEFINE Goal == /\ q \in up'
                     /\ order'[q].step = "executed" =>
                          /\ order'[q].side = "buy"
                          /\ lastBuy'[q][order'[q].symbol] = order'[q].price
  <1> USE AuthorsAssumption DEF BrokerInv, OrdersAreReal, TypeOK, vars, history
  <1>1. ASSUME NEW p \in Procs, Start(p) \/ Kill(p) \/ Submit(p) \/ SubmitOrder(p)
        PROVE  Goal
    <2>1. CASE Start(p)  BY <2>1 DEF Start
    <2>2. CASE Kill(p)  BY <2>2 DEF Kill
    <2>3. CASE Submit(p)  BY <2>3 DEF Submit
    <2>4. CASE Reject(p)  BY <2>4 DEF Reject, Raise, At
    <2>5. CASE PassBuy(p)  BY <2>5, OrderTypes DEF PassBuy, At
    <2>6. CASE Approve(p)  BY <2>6, OrderTypes DEF Approve, At
    <2>7. CASE Refuse(p)  BY <2>7 DEF Refuse, Raise, At
    <2>8. CASE GuardFails(p)  BY <2>8 DEF GuardFails, Raise, At
    <2>9. CASE ExecuteSell(p)  BY <2>9 DEF ExecuteSell, Return, At
    <2>10. CASE ExecuteBuy(p)  BY <2>10, OrderTypes DEF ExecuteBuy, At
    <2>11. CASE ExecuteForbidden(p)  BY <2>11 DEF ExecuteForbidden, Raise, At
    <2>12. CASE ExecuteFails(p)  BY <2>12 DEF ExecuteFails, Raise, At
    <2>13. CASE Record(p)  BY <2>13 DEF Record, Return, At
    <2>14. CASE RecordFails(p)  BY <2>14 DEF RecordFails, Raise, At
    <2>15. CASE ApproveBlind(p)  BY <2>15, OrderTypes DEF ApproveBlind, At
    <2>16. CASE RecordBlind(p)  BY <2>16 DEF RecordBlind, Return, At
    <2> QED  BY <1>1, <2>1, <2>2, <2>3, <2>4, <2>5, <2>6, <2>7, <2>8, <2>9, <2>10,
                <2>11, <2>12, <2>13, <2>14, <2>15, <2>16 DEF SubmitOrder
  <1>2. CASE Tick  BY <1>2 DEF Tick
  <1>3. CASE UNCHANGED vars  BY <1>3
  <1>4. ASSUME NEW a \in Accounts, Damage(a) PROVE Goal
    BY <1>4 DEF Damage
  <1> QED  BY <1>1, <1>2, <1>3, <1>4 DEF Next

\* Every step keeps the buys of a running process recorded.
LEMMA RecordedStep ==
  ASSUME BrokerInv, TypeOK', [Next]_vars
  PROVE  BuysAreRecorded'
  <1> SUFFICES ASSUME NEW q \in (Clients \cap up)', NEW s \in Symbols,
                      lastBuy'[q][s] # None
               PROVE  (own'[q][s] # None /\ own'[q][s].price = lastBuy'[q][s])
                    \/ (order'[q] # None /\ order'[q].step = "executed"
                        /\ order'[q].symbol = s)
    BY DEF BuysAreRecorded
  <1> DEFINE Goal == (own'[q][s] # None /\ own'[q][s].price = lastBuy'[q][s])
                    \/ (order'[q] # None /\ order'[q].step = "executed"
                        /\ order'[q].symbol = s)
  <1> USE AuthorsAssumption DEF BrokerInv, TypeOK, vars, history, OrdersAreReal,
          BuysAreRecorded, Procs
  <1>1. ASSUME NEW p \in Procs, Start(p) \/ Kill(p) \/ Submit(p) \/ SubmitOrder(p)
        PROVE  Goal
    <2>1. CASE Start(p)  BY <2>1 DEF Start
    <2>2. CASE Kill(p)  BY <2>2 DEF Kill
    <2>3. CASE Submit(p)  BY <2>3 DEF Submit
    <2>4. CASE Reject(p)  BY <2>4 DEF Reject, Raise, At
    <2>5. CASE PassBuy(p)  BY <2>5, OrderTypes DEF PassBuy, At
    <2>6. CASE Approve(p)
      <3>1. UNCHANGED <<up, lastBuy, own>>  BY <2>6 DEF Approve
      <3>2. /\ order[p].step = "new" /\ order[p] # None
            /\ \A r \in Procs \ {p} : order'[r] = order[r]
        BY <2>6, OrderTypes DEF Approve, At
      <3> QED  BY <3>1, <3>2
    <2>7. CASE Refuse(p)  BY <2>7 DEF Refuse, Raise, At
    <2>8. CASE GuardFails(p)  BY <2>8 DEF GuardFails, Raise, At
    <2>9. CASE ExecuteSell(p)  BY <2>9 DEF ExecuteSell, Return, At
    <2>10. CASE ExecuteBuy(p)  BY <2>10, OrderTypes DEF ExecuteBuy, At
    <2>11. CASE ExecuteForbidden(p)  BY <2>11 DEF ExecuteForbidden, Raise, At
    <2>12. CASE ExecuteFails(p)  BY <2>12 DEF ExecuteFails, Raise, At
    <2>13. CASE Record(p)
      <3>1. order[p] \in Order /\ order[p].symbol \in Symbols
            /\ order[p].price \in Prices
        BY <2>13, OrderTypes DEF Record, At
      <3>2. own'[p][order[p].symbol] = [price |-> order[p].price, ts |-> now]
        BY <2>13, <3>1 DEF Record, Buys, NewRecord
      <3>3. \A r \in Procs, x \in Symbols :
              <<r, x>> # <<p, order[p].symbol>> => own'[r][x] = own[r][x]
        BY <2>13, <3>1 DEF Record, Buys
      <3>4. own'[p][order[p].symbol] # None
            /\ own'[p][order[p].symbol].price = order[p].price
        BY <3>1, <3>2, NoneAssumption DEF Buy
      <3>5. /\ order[p] # None /\ order[p].step = "executed"
            /\ lastBuy' = lastBuy /\ up' = up
            /\ order'[p] = None /\ \A r \in Procs \ {p} : order'[r] = order[r]
        BY <2>13 DEF Record, Return, At
      <3>6. lastBuy[p][order[p].symbol] = order[p].price  BY <3>5
      <3>7. CASE q = p /\ s = order[p].symbol  BY <3>4, <3>5, <3>6, <3>7
      <3>8. CASE ~(q = p /\ s = order[p].symbol)
        <4>1. own'[q][s] = own[q][s]  BY <3>3, <3>8
        <4>2. \/ own[q][s] # None /\ own[q][s].price = lastBuy[q][s]
              \/ order[q] # None /\ order[q].step = "executed" /\ order[q].symbol = s
          BY <3>5
        <4> QED  BY <3>5, <3>8, <4>1, <4>2
      <3> QED  BY <3>7, <3>8
    <2>14. CASE RecordFails(p)  BY <2>14 DEF RecordFails, Raise, At
    <2>15. CASE ApproveBlind(p)  BY <2>15, OrderTypes DEF ApproveBlind, At
    <2>16. CASE RecordBlind(p)
      <3>1. order[p] \in Order /\ order[p].symbol \in Symbols
            /\ order[p].price \in Prices
        BY <2>16, OrderTypes DEF RecordBlind, At
      <3>2. own'[p][order[p].symbol] = NewRecord(p)
        BY <2>16, <3>1 DEF RecordBlind, Buys
      <3>3. \A r \in Procs, x \in Symbols :
              <<r, x>> # <<p, order[p].symbol>> => own'[r][x] = own[r][x]
        BY <2>16, <3>1 DEF RecordBlind, Buys
      <3>4. own'[p][order[p].symbol] # None
            /\ own'[p][order[p].symbol].price = order[p].price
        BY <3>1, <3>2, NoneAssumption DEF Buy, NewRecord
      <3>5. /\ order[p] # None /\ order[p].step = "executed"
            /\ lastBuy' = lastBuy /\ up' = up
            /\ order'[p] = None /\ \A r \in Procs \ {p} : order'[r] = order[r]
        BY <2>16 DEF RecordBlind, Return, At
      <3>6. lastBuy[p][order[p].symbol] = order[p].price  BY <3>5
      <3>7. CASE q = p /\ s = order[p].symbol  BY <3>4, <3>5, <3>6, <3>7
      <3>8. CASE ~(q = p /\ s = order[p].symbol)
        <4>1. own'[q][s] = own[q][s]  BY <3>3, <3>8
        <4>2. \/ own[q][s] # None /\ own[q][s].price = lastBuy[q][s]
              \/ order[q] # None /\ order[q].step = "executed" /\ order[q].symbol = s
          BY <3>5
        <4> QED  BY <3>5, <3>8, <4>1, <4>2
      <3> QED  BY <3>7, <3>8
    <2> QED  BY <1>1, <2>1, <2>2, <2>3, <2>4, <2>5, <2>6, <2>7, <2>8, <2>9, <2>10,
                <2>11, <2>12, <2>13, <2>14, <2>15, <2>16 DEF SubmitOrder
  <1>2. CASE Tick  BY <1>2 DEF Tick
  <1>3. CASE UNCHANGED vars  BY <1>3
  <1>4. ASSUME NEW a \in Accounts, Damage(a) PROVE Goal
    BY <1>4 DEF Damage
  <1> QED  BY <1>1, <1>2, <1>3, <1>4 DEF Next

\* Every step keeps what was sent and what was executed in agreement.
LEMMA SentStep ==
  ASSUME BrokerInv, TypeOK', [Next]_vars
  PROVE  SentIsExecuted'
  <1> SUFFICES ASSUME NEW q \in Procs,
                      order'[q] # None
               PROVE  sent'[q] <=> order'[q].step = "executed"
    BY DEF SentIsExecuted
  <1> DEFINE Goal == sent'[q] <=> order'[q].step = "executed"
  <1> USE AuthorsAssumption DEF BrokerInv, TypeOK, vars, history, OrdersAreReal,
          SentIsExecuted
  <1>1. ASSUME NEW p \in Procs, Start(p) \/ Kill(p) \/ Submit(p) \/ SubmitOrder(p)
        PROVE  Goal
    <2>1. CASE Start(p)  BY <2>1 DEF Start
    <2>2. CASE Kill(p)  BY <2>2 DEF Kill
    <2>3. CASE Submit(p)  BY <2>3 DEF Submit
    <2>4. CASE Reject(p)  BY <2>4 DEF Reject, Raise, At
    <2>5. CASE PassBuy(p)  BY <2>5, OrderTypes DEF PassBuy, At
    <2>6. CASE Approve(p)  BY <2>6, OrderTypes DEF Approve, At
    <2>7. CASE Refuse(p)  BY <2>7 DEF Refuse, Raise, At
    <2>8. CASE GuardFails(p)  BY <2>8 DEF GuardFails, Raise, At
    <2>9. CASE ExecuteSell(p)  BY <2>9 DEF ExecuteSell, Return, At
    <2>10. CASE ExecuteBuy(p)  BY <2>10, OrderTypes DEF ExecuteBuy, At
    <2>11. CASE ExecuteForbidden(p)  BY <2>11 DEF ExecuteForbidden, Raise, At
    <2>12. CASE ExecuteFails(p)  BY <2>12 DEF ExecuteFails, Raise, At
    <2>13. CASE Record(p)  BY <2>13 DEF Record, Return, At
    <2>14. CASE RecordFails(p)  BY <2>14 DEF RecordFails, Raise, At
    <2>15. CASE ApproveBlind(p)  BY <2>15, OrderTypes DEF ApproveBlind, At
    <2>16. CASE RecordBlind(p)  BY <2>16 DEF RecordBlind, Return, At
    <2> QED  BY <1>1, <2>1, <2>2, <2>3, <2>4, <2>5, <2>6, <2>7, <2>8, <2>9, <2>10,
                <2>11, <2>12, <2>13, <2>14, <2>15, <2>16 DEF SubmitOrder
  <1>2. CASE Tick  BY <1>2 DEF Tick
  <1>3. CASE UNCHANGED vars  BY <1>3
  <1>4. ASSUME NEW a \in Accounts, Damage(a) PROVE Goal
    BY <1>4 DEF Damage
  <1> QED  BY <1>1, <1>2, <1>3, <1>4 DEF Next

\* Every step keeps the answered status true.
LEMMA StatusStep ==
  ASSUME BrokerInv, TypeOK', [Next]_vars
  PROVE  StatusTellsExecution'
  <1> SUFFICES ASSUME NEW q \in Servers,
                      order'[q] = None
               PROVE  (reply'[q] = 200 => sent'[q]) /\ (reply'[q] \in {400, 409} => ~sent'[q])
    BY DEF StatusTellsExecution
  <1> DEFINE Goal == (reply'[q] = 200 => sent'[q]) /\ (reply'[q] \in {400, 409} => ~sent'[q])
  <1> USE AuthorsAssumption DEF BrokerInv, TypeOK, vars, history, OrdersAreReal,
          SentIsExecuted, StatusTellsExecution, Procs
  <1>1. ASSUME NEW p \in Procs, Start(p) \/ Kill(p) \/ Submit(p) \/ SubmitOrder(p)
        PROVE  Goal
    <2>1. CASE Start(p)  BY <2>1 DEF Start
    <2>2. CASE Kill(p)  BY <2>2 DEF Kill
    <2>3. CASE Submit(p)  BY <2>3 DEF Submit
    <2>4. CASE Reject(p)  BY <2>4 DEF Reject, Raise, At
    <2>5. CASE PassBuy(p)  BY <2>5, OrderTypes DEF PassBuy, At
    <2>6. CASE Approve(p)  BY <2>6, OrderTypes DEF Approve, At
    <2>7. CASE Refuse(p)  BY <2>7 DEF Refuse, Raise, At
    <2>8. CASE GuardFails(p)  BY <2>8 DEF GuardFails, Raise, At
    <2>9. CASE ExecuteSell(p)  BY <2>9 DEF ExecuteSell, Return, At
    <2>10. CASE ExecuteBuy(p)  BY <2>10, OrderTypes DEF ExecuteBuy, At
    <2>11. CASE ExecuteForbidden(p)  BY <2>11 DEF ExecuteForbidden, Raise, At
    <2>12. CASE ExecuteFails(p)  BY <2>12 DEF ExecuteFails, Raise, At
    <2>13. CASE Record(p)  BY <2>13 DEF Record, Return, At
    <2>14. CASE RecordFails(p)  BY <2>14 DEF RecordFails, Raise, At
    <2>15. CASE ApproveBlind(p)  BY <2>15, OrderTypes DEF ApproveBlind, At
    <2>16. CASE RecordBlind(p)  BY <2>16 DEF RecordBlind, Return, At
    <2> QED  BY <1>1, <2>1, <2>2, <2>3, <2>4, <2>5, <2>6, <2>7, <2>8, <2>9, <2>10,
                <2>11, <2>12, <2>13, <2>14, <2>15, <2>16 DEF SubmitOrder
  <1>2. CASE Tick  BY <1>2 DEF Tick
  <1>3. CASE UNCHANGED vars  BY <1>3
  <1>4. ASSUME NEW a \in Accounts, Damage(a) PROVE Goal
    BY <1>4 DEF Damage
  <1> QED  BY <1>1, <1>2, <1>3, <1>4 DEF Next

\* Every step keeps the floor of a process's last record.
LEMMA FloorStep ==
  ASSUME BrokerInv, TypeOK', [Next]_vars
  PROVE  LastRecordIsFloor'
  <1> SUFFICES ASSUME NEW q \in Procs, NEW s \in Symbols,
                      author'[AccountOf[q]][s] = q,
                      own'[q][s] # None, ~Stale(own'[q][s], now')
               PROVE  floors'[AccountOf[q]][s] = own'[q][s]
    BY DEF LastRecordIsFloor
  <1> DEFINE Goal == floors'[AccountOf[q]][s] = own'[q][s]
  <1> USE AccountsAssumption, AuthorsAssumption DEF BrokerInv, TypeOK, vars, history,
          LastRecordIsFloor
  <1>1. ASSUME NEW p \in Procs, Start(p) \/ Kill(p) \/ Submit(p) \/ SubmitOrder(p)
        PROVE  Goal
    <2>1. CASE Start(p)  BY <2>1 DEF Start
    <2>2. CASE Kill(p)  BY <2>2 DEF Kill
    <2>3. CASE Submit(p)  BY <2>3 DEF Submit
    <2>4. CASE Reject(p)  BY <2>4 DEF Reject, Raise, At
    <2>5. CASE PassBuy(p)  BY <2>5, OrderTypes DEF PassBuy, At
    <2>6. CASE Approve(p)
      <3>1. floors[AccountOf[q]][s] = own[q][s]  BY <2>6 DEF Approve
      <3> QED  BY <2>6, <3>1, PrunedFloorsType DEF Approve
    <2>7. CASE Refuse(p)
      <3>1. floors[AccountOf[q]][s] = own[q][s]  BY <2>7 DEF Refuse
      <3> QED  BY <2>7, <3>1, PrunedFloorsType DEF Refuse
    <2>8. CASE GuardFails(p)  BY <2>8 DEF GuardFails, Raise, At
    <2>9. CASE ExecuteSell(p)  BY <2>9 DEF ExecuteSell, Return, At
    <2>10. CASE ExecuteBuy(p)  BY <2>10, OrderTypes DEF ExecuteBuy, At
    <2>11. CASE ExecuteForbidden(p)  BY <2>11 DEF ExecuteForbidden, Raise, At
    <2>12. CASE ExecuteFails(p)  BY <2>12 DEF ExecuteFails, Raise, At
    <2>13. CASE Record(p)
      <3>1. /\ order[p] \in Order /\ order[p].symbol \in Symbols
            /\ order[p].price \in Prices /\ AccountOf[p] \in Accounts
        BY <2>13, OrderTypes DEF Record, At
      <3>2. DEFINE rec == [price |-> order[p].price, ts |-> now]
      <3>3. rec \in Buy  BY <3>1 DEF Buy
      <3>4. own' = [own EXCEPT ![p][order[p].symbol] = rec]
        BY <2>13 DEF Record, NewRecord
      <3>5. author' = [author EXCEPT ![AccountOf[p]][order[p].symbol] = p]
        BY <2>13 DEF Record
      <3>6. floors' = [PrunedFloors(p) EXCEPT ![AccountOf[p]][order[p].symbol] = rec]
        BY <2>13 DEF Record, NewRecord
      <3>7. now' = now  BY <2>13 DEF Record
      <3> HIDE DEF rec
      <3>8. CASE AccountOf[q] = AccountOf[p] /\ s = order[p].symbol
        <4>1. q = p  BY <3>1, <3>5, <3>8
        <4> QED  BY <4>1, <3>1, <3>4, <3>6, <3>8, PrunedFloorsType DEF Buys
      <3>9. CASE ~(AccountOf[q] = AccountOf[p] /\ s = order[p].symbol)
        <4>1. author[AccountOf[q]][s] = q  BY <3>1, <3>5, <3>9
        <4>2. own'[q][s] = own[q][s]  BY <3>1, <3>4, <3>9 DEF Buys
        <4>3. floors[AccountOf[q]][s] = own[q][s]  BY <3>7, <4>1, <4>2
        <4>4. floors'[AccountOf[q]][s] = PrunedFloors(p)[AccountOf[q]][s]
          BY <3>1, <3>6, <3>9, PrunedFloorsType DEF Buys
        <4> QED  BY <3>7, <4>2, <4>3, <4>4, PrunedFloorsType
      <3> QED  BY <3>8, <3>9
    <2>14. CASE RecordFails(p)  BY <2>14 DEF RecordFails, Raise, At
    <2>15. CASE ApproveBlind(p)  BY <2>15, OrderTypes DEF ApproveBlind, At
    <2>16. CASE RecordBlind(p)
      <3>1. /\ order[p].symbol \in Symbols /\ AccountOf[p] \in Accounts
            /\ AccountOf[q] \in Accounts
        BY <2>16, OrderTypes DEF RecordBlind, At
      <3>2. /\ own' = [own EXCEPT ![p][order[p].symbol] = NewRecord(p)]
            /\ author' = [author EXCEPT ![AccountOf[p]] =
                            [x \in Symbols |-> IF x = order[p].symbol THEN p ELSE None]]
            /\ floors' = [floors EXCEPT ![AccountOf[p]] =
                            [NoBuys EXCEPT ![order[p].symbol] = NewRecord(p)]]
            /\ now' = now
        BY <2>16 DEF RecordBlind
      <3>3. CASE AccountOf[q] = AccountOf[p]
        <4>1. q = p /\ s = order[p].symbol  BY <3>1, <3>2, <3>3
        <4>2. own'[q][s] = NewRecord(p)  BY <3>1, <3>2, <4>1 DEF Buys
        <4>3. floors'[AccountOf[q]][s] = NewRecord(p)
          BY <3>1, <3>2, <3>3, <4>1 DEF NoBuys
        <4> QED  BY <4>2, <4>3
      <3>4. CASE AccountOf[q] # AccountOf[p]
        <4>1. floors'[AccountOf[q]] = floors[AccountOf[q]] /\ q # p
              /\ author[AccountOf[q]][s] = q
          BY <3>1, <3>2, <3>4
        <4>2. own'[q] = own[q]  BY <3>2, <4>1
        <4> QED  BY <3>2, <4>1, <4>2
      <3> QED  BY <3>3, <3>4
    <2> QED  BY <1>1, <2>1, <2>2, <2>3, <2>4, <2>5, <2>6, <2>7, <2>8, <2>9, <2>10,
                <2>11, <2>12, <2>13, <2>14, <2>15, <2>16 DEF SubmitOrder
  <1>2. CASE Tick
    <2>1. own[q][s] \in Buy \cup {None} /\ own' = own /\ now' = now + 1
      BY <1>2 DEF Tick, Buys
    <2>2. ~Stale(own[q][s], now)  BY <2>1, StaleStays
    <2>3. floors' = floors /\ author' = author  BY <1>2 DEF Tick
    <2>4. author[AccountOf[q]][s] = q /\ own[q][s] # None  BY <2>1, <2>3
    <2>5. floors[AccountOf[q]][s] = own[q][s]  BY <2>2, <2>4
    <2> QED  BY <2>1, <2>3, <2>5
  <1>3. CASE UNCHANGED vars  BY <1>3
  <1>4. ASSUME NEW a \in Accounts, Damage(a) PROVE Goal
    BY <1>4 DEF Damage
  <1> QED  BY <1>1, <1>2, <1>3, <1>4 DEF Next

\* Every step keeps a guarded sell above the floor it was compared with.
LEMMA GuardedStep ==
  ASSUME BrokerInv, TypeOK', [Next]_vars
  PROVE  GuardedIsAbove'
  <1> SUFFICES ASSUME NEW q \in Procs, order'[q] # None,
                      order'[q].step = "guarded", order'[q].side = "sell",
                      author'[AccountOf[q]][order'[q].symbol] = q, ~blind'[q]
               PROVE  ~BelowFloorOf(q, own[q][order[q].symbol])'
    BY DEF GuardedIsAbove
  <1> DEFINE Goal == ~BelowFloorOf(q, own[q][order[q].symbol])'
  <1> USE DEF BrokerInv, vars, history
  <1>1. ASSUME order'[q] = order[q], own'[q] = own[q], now' \in {now, now + 1},
               author[AccountOf[q]][order[q].symbol] = q, blind'[q] = blind[q]
        PROVE  Goal
    <2>1. ~BelowFloorOf(q, own[q][order[q].symbol])  BY <1>1 DEF GuardedIsAbove
    <2>2. order[q].symbol \in Symbols  BY <1>1, OrderTypes
    <2>3. own[q][order[q].symbol] \in Buy \cup {None} /\ now \in Nat
      BY <2>2 DEF TypeOK, Buys
    <2>4. Stale(own[q][order[q].symbol], now) => Stale(own[q][order[q].symbol], now')
      BY <1>1, <2>3, StaleStays
    <2> QED  BY <1>1, <2>1, <2>4 DEF BelowFloorOf
  <1>2. ASSUME NEW p \in Procs, Start(p) \/ Kill(p) \/ Submit(p) \/ SubmitOrder(p), p # q
        PROVE  Goal
    <2>1. order'[q] = order[q] /\ now' = now /\ blind'[q] = blind[q]
      <3>1. CASE Start(p) \/ Kill(p) \/ Submit(p)
        BY <1>2, <3>1 DEF Start, Kill, Submit, TypeOK
      <3>2. CASE SubmitOrder(p)
        BY <1>2, <3>2 DEF SubmitOrder, Reject, PassBuy, Approve, ApproveBlind, Refuse,
           GuardFails, ExecuteSell, ExecuteBuy, ExecuteForbidden, ExecuteFails, Record,
           RecordBlind, RecordFails, Raise, Return, Go, TypeOK
      <3> QED  BY <1>2, <3>1, <3>2
    <2>2. order[q].symbol \in Symbols  BY <2>1, OrderTypes
    <2>3. CASE Record(p)
      <3>1. order[p].symbol \in Symbols /\ {AccountOf[p], AccountOf[q]} \subseteq Accounts
        BY <2>3, OrderTypes, AccountsAssumption DEF Record, At
      <3>2. own'[q] = own[q]  BY <1>2, <2>3 DEF Record, TypeOK
      <3>3. author' = [author EXCEPT ![AccountOf[p]][order[p].symbol] = p]
        BY <2>3 DEF Record
      <3>4. author[AccountOf[q]][order[q].symbol] = q
        BY <1>2, <2>1, <2>2, <3>1, <3>3 DEF TypeOK
      <3> QED  BY <1>1, <2>1, <3>2, <3>4
    <2>5. CASE RecordBlind(p)
      <3>1. order[p].symbol \in Symbols /\ {AccountOf[p], AccountOf[q]} \subseteq Accounts
        BY <2>5, OrderTypes, AccountsAssumption DEF RecordBlind, At
      <3>2. own'[q] = own[q]  BY <1>2, <2>5 DEF RecordBlind, TypeOK
      <3>3. author' = [author EXCEPT ![AccountOf[p]] =
                         [x \in Symbols |-> IF x = order[p].symbol THEN p ELSE None]]
        BY <2>5 DEF RecordBlind
      <3>4. author[AccountOf[q]][order[q].symbol] = q
        BY <1>2, <2>1, <2>2, <3>1, <3>3, AuthorsAssumption DEF TypeOK
      <3> QED  BY <1>1, <2>1, <3>2, <3>4
    <2>4. CASE ~Record(p) /\ ~RecordBlind(p)
      <3>1. own' = own /\ author' = author
        BY <1>2, <2>4 DEF Start, Kill, Submit, SubmitOrder, Reject, PassBuy, Approve,
           ApproveBlind, Refuse, GuardFails, ExecuteSell, ExecuteBuy, ExecuteForbidden, ExecuteFails,
           RecordFails
      <3> QED  BY <1>1, <2>1, <3>1
    <2> QED  BY <2>3, <2>4, <2>5
  <1>3. CASE Start(q)  BY <1>1, <1>3 DEF Start, TypeOK
  <1>4. CASE Submit(q)
    <2>1. order'[q].step = "new"  BY <1>4 DEF Submit, TypeOK
    <2> QED  BY <2>1
  <1>5. CASE SubmitOrder(q)
    <2>1. CASE Approve(q)
      <3> DEFINE s == order[q].symbol
                 rec == own[q][s]
      <3>1. /\ order'[q].symbol = s /\ order'[q].price = order[q].price
            /\ s \in Symbols /\ own' = own /\ now' = now /\ author' = author
        BY <2>1, OrderTypes DEF Approve, At
      <3>2. AccountOf[q] \in Accounts  BY AccountsAssumption
      <3>3. SUFFICES ASSUME rec # None, ~Stale(rec, now)
                     PROVE  ~Below(order[q].price, rec.price, BaseBps)
        BY <3>1 DEF BelowFloorOf
      <3>4. floors[AccountOf[q]][s] = rec  BY <3>1, <3>3 DEF LastRecordIsFloor
      <3>5. PrunedFloors(q)[AccountOf[q]][s] = rec
        BY <3>1, <3>2, <3>3, <3>4, PrunedFloorsType
      <3>6. ~Refuses(rec, order[q].price, 0)  BY <2>1, <3>5 DEF Approve, Verdict
      <3> QED  BY <3>3, <3>6, BaseTolerance DEF Refuses
    <2>2. CASE PassBuy(q)  BY <2>2, OrderTypes DEF PassBuy, At
    <2>3. CASE ExecuteBuy(q)  BY <2>3, OrderTypes DEF ExecuteBuy, At
    <2>5. CASE ApproveBlind(q)  BY <2>5 DEF ApproveBlind, TypeOK
    <2>4. CASE ~Approve(q) /\ ~ApproveBlind(q) /\ ~PassBuy(q) /\ ~ExecuteBuy(q)
      <3>1. order'[q] = None
        BY <1>5, <2>4 DEF SubmitOrder, Reject, Refuse, GuardFails, ExecuteSell,
           ExecuteForbidden, ExecuteFails, Record, RecordBlind, RecordFails, Raise, Return, TypeOK
      <3> QED  BY <3>1
    <2> QED  BY <2>1, <2>2, <2>3, <2>4, <2>5
  <1>6. CASE Kill(q)  BY <1>6 DEF Kill, TypeOK
  <1>7. CASE Tick  BY <1>1, <1>7 DEF Tick
  <1>8. CASE UNCHANGED vars  BY <1>1, <1>8
  <1>9. ASSUME NEW a \in Accounts, Damage(a) PROVE Goal
    <2>1. /\ UNCHANGED <<order, own, now, blind>> /\ AccountOf[q] \in Accounts
          /\ author' = [author EXCEPT ![a] = [s \in Symbols |-> None]]
      BY <1>9, AccountsAssumption DEF Damage
    <2>2. order[q].symbol \in Symbols  BY <2>1, OrderTypes
    <2>3. author[AccountOf[q]][order[q].symbol] = q
      BY <2>1, <2>2, AuthorsAssumption DEF TypeOK
    <2> QED  BY <1>1, <2>1, <2>3
  <1> QED  BY <1>2, <1>3, <1>4, <1>5, <1>6, <1>7, <1>8, <1>9 DEF Next

-----------------------------------------------------------------------------
(* The theorems.                                                           *)

\* Orders, replies, floors and their histories are well-formed in every state.
THEOREM BrokerTypeCorrect == Spec => []TypeOK
  <1>1. Init => TypeOK
    BY DEF Init, TypeOK, Buys, NoBuys
  <1> QED  BY <1>1, BrokerTypeStep, PTL DEF Spec

\* The parts of BrokerInv together are inductive.
THEOREM BrokerInvariant == Spec => []BrokerInv
  <1>1. Init => TypeOK
    BY DEF Init, TypeOK, Buys, NoBuys
  <1>2. Init => BrokerInv
    <2> SUFFICES ASSUME Init PROVE BrokerInv
      OBVIOUS
    <2>1. OrdersAreReal /\ SentIsExecuted /\ GuardedIsAbove
      BY DEF Init, OrdersAreReal, SentIsExecuted, GuardedIsAbove
    <2>2. BuysAreRecorded /\ LastRecordIsFloor
      BY DEF Init, BuysAreRecorded, LastRecordIsFloor, NoBuys
    <2>3. StatusTellsExecution  BY DEF Init, StatusTellsExecution, Procs
    <2> QED  BY <1>1, <2>1, <2>2, <2>3 DEF BrokerInv
  <1>3. BrokerInv /\ [Next]_vars => BrokerInv'
    <2> SUFFICES ASSUME BrokerInv, [Next]_vars PROVE BrokerInv'
      OBVIOUS
    <2>1. TypeOK'  BY BrokerTypeStep DEF BrokerInv
    <2> QED  BY <2>1, RealStep, RecordedStep, SentStep, StatusStep, FloorStep, GuardedStep
             DEF BrokerInv
  <1> QED  BY <1>2, <1>3, PTL DEF Spec

\* A running client has recorded what it bought last (Broker.submit_order records
\* after it executes, and a failure in between ends the client).
THEOREM ClientRecords == Spec => []ClientRecordsItsBuys
  <1>1. BrokerInv => ClientRecordsItsBuys
    BY DEF BrokerInv, BuysAreRecorded, ClientRecordsItsBuys
  <1> QED  BY <1>1, BrokerInvariant, PTL

\* The statuses of do_POST tell whether the order was sent.
THEOREM StatusTells == Spec => []StatusTellsExecution
  <1>1. BrokerInv => StatusTellsExecution  BY DEF BrokerInv
  <1> QED  BY <1>1, BrokerInvariant, PTL

\* The guard of a process holds against its own records: a sell far below the
\* last of them is executed only if the guard could not read the buy memory, or
\* if that record has been replaced by another process or lost.
THEOREM FloorHolds == Spec => StandingFloorHolds
  <1> DEFINE A == \A p \in Procs :
                    Executes(p) /\ BelowFloorOf(p, own[p][order[p].symbol]) =>
                      blind[p] \/ author[AccountOf[p]][order[p].symbol] # p
  <1>1. BrokerInv /\ [Next]_vars => [A]_vars
    <2> SUFFICES ASSUME BrokerInv, Next, NEW q \in Procs, Executes(q),
                        BelowFloorOf(q, own[q][order[q].symbol])
                 PROVE  blind[q] \/ author[AccountOf[q]][order[q].symbol] # q
      OBVIOUS
    <2>1. PICK p \in Procs : sent' = sent \/ Submit(p) \/ ExecuteSell(p) \/ ExecuteBuy(p)
                                \/ ExecuteFails(p)
      BY DEF Next, Start, Kill, Tick, Damage, SubmitOrder, Reject, PassBuy, Approve,
         ApproveBlind, Refuse, GuardFails, ExecuteForbidden, Record, RecordBlind,
         RecordFails, history
    <2>2. sent \in [Procs -> BOOLEAN]  BY DEF BrokerInv, TypeOK
    <2>3. ~Submit(p) /\ sent' # sent  BY <2>2 DEF Executes, Submit
    <2>4. p = q  BY <2>1, <2>2, <2>3 DEF Executes, ExecuteSell, ExecuteBuy, ExecuteFails
    <2>5. At(q, "guarded", "buy") \/ At(q, "guarded", "sell")
      BY <2>1, <2>3, <2>4 DEF ExecuteSell, ExecuteBuy, ExecuteFails
    <2> QED  BY <2>5 DEF BrokerInv, GuardedIsAbove, At, BelowFloorOf
  <1> QED  BY <1>1, BrokerInvariant, PTL DEF Spec, StandingFloorHolds
=============================================================================
