--------------------------- MODULE GuardedBroker ----------------------------
(***************************************************************************)
(* core/broker.py (Broker.submit_order) and core/trading_server.py on top  *)
(* of it.  A process submits one order after the other: as the program     *)
(* that owns the broker (a client), or for HTTP requests, which the server *)
(* answers one at a time.  An order is validated, guarded, executed and, a *)
(* buy, recorded; the process may be killed between any two of these, the  *)
(* executor and the buy memory may fail.  Each call of the buy memory is   *)
(* one step here, which FloorMap justifies; it may find the file damaged   *)
(* or be unable to read it, and goes on with an empty map.  Processes      *)
(* whose accounts have the same name share its file, in paper mode too.    *)
(***************************************************************************)
EXTENDS FloorRule

CONSTANTS
  Clients, Servers,   \* the processes with a broker, by what drives it
  Paper,              \* those that run in paper mode
  Accounts, AccountOf,
  MaxTime             \* bound of the clock

Procs == Clients \cup Servers

ASSUME AccountsAssumption == AccountOf \in [Procs -> Accounts]
ASSUME AuthorsAssumption == None \notin Procs /\ MaxTime \in Nat
ASSUME PaperAssumption == Paper \subseteq Procs

VARIABLES
  up,         \* the running processes
  order,      \* order[p]: the order in submit_order, or None
  reply,      \* reply[p]: status of the last HTTP response, 0 for none
  floors,     \* floors[a]: the buy memory of the account
  now,        \* time.time()
  \* What happened, for the properties:
  sent,       \* sent[p]: the current or last order reached the venue
  lastBuy,    \* lastBuy[p][s]: price of the last buy executed since the start
  own,        \* own[p][s]: the last record made by p itself
  author,     \* author[a][s]: the process that made the account's last record,
              \* None if that one is lost
  blind       \* blind[p]: the guard of the current order could not read

history == <<sent, lastBuy, own, author, blind>>
vars == <<up, order, reply, floors, now, history>>

\* "bad" stands for everything that submit_order or the server rejects.
Order == [symbol : Symbols, side : {"buy", "sell", "bad"}, price : Prices,
          step : {"new", "guarded", "executed"}]

ASSUME OrderAssumption == None \notin Order

\* Every record of the buy memory has its price and time, every order its
\* step, every response one of the statuses of do_POST.
TypeOK ==
  /\ up \subseteq Procs
  /\ order \in [Procs -> Order \cup {None}]
  /\ reply \in [Procs -> {0, 200, 400, 409}]
  /\ floors \in [Accounts -> Buys]
  /\ now \in Nat
  /\ sent \in [Procs -> BOOLEAN]
  /\ lastBuy \in [Procs -> [Symbols -> Prices \cup {None}]]
  /\ own \in [Procs -> Buys]
  /\ author \in [Accounts -> [Symbols -> Procs \cup {None}]]
  /\ blind \in [Procs -> BOOLEAN]

At(p, step, side) ==
  order[p] # None /\ order[p].step = step /\ order[p].side = side

Go(p, step) == order' = [order EXCEPT ![p].step = step]

\* submit_order raises: a client ends with the exception, the server answers
\* with the status (0: the connection is closed without an answer) and goes on.
Raise(p, status) ==
  /\ order' = [order EXCEPT ![p] = None]
  /\ up' = up \ ({p} \cap Clients)
  /\ reply' = [reply EXCEPT ![p] = IF p \in Servers THEN status ELSE 0]

\* submit_order returns; the server answers with 200.
Return(p) ==
  /\ order' = [order EXCEPT ![p] = None]
  /\ reply' = [reply EXCEPT ![p] = IF p \in Servers THEN 200 ELSE 0]
  /\ UNCHANGED up

PrunedFloors(p) ==
  [floors EXCEPT ![AccountOf[p]] = Pruned(@, now)]

Verdict(p) ==
  LET o == order[p] IN
  Refuses(PrunedFloors(p)[AccountOf[p]][o.symbol], o.price, 0)

-----------------------------------------------------------------------------
Init ==
  /\ up = {}
  /\ order = [p \in Procs |-> None]
  /\ reply = [p \in Procs |-> 0]
  /\ floors = [a \in Accounts |-> NoBuys]
  /\ now = 0
  /\ sent = [p \in Procs |-> FALSE]
  /\ lastBuy = [p \in Procs |-> [s \in Symbols |-> None]]
  /\ own = [p \in Procs |-> NoBuys]
  /\ author = [a \in Accounts |-> [s \in Symbols |-> None]]
  /\ blind = [p \in Procs |-> FALSE]

\* The broker is constructed in a fresh process.
Start(p) ==
  /\ p \notin up
  /\ up' = up \cup {p}
  /\ lastBuy' = [lastBuy EXCEPT ![p] = [s \in Symbols |-> None]]
  /\ UNCHANGED <<order, reply, floors, now, sent, own, author, blind>>

Kill(p) ==
  /\ p \in up
  /\ up' = up \ {p}
  /\ order' = [order EXCEPT ![p] = None]
  /\ reply' = [reply EXCEPT ![p] = 0]
  /\ UNCHANGED <<floors, now, history>>

Tick ==
  /\ now < MaxTime
  /\ now' = now + 1
  /\ UNCHANGED <<up, order, reply, floors, history>>

\* Somebody else damages or removes the file; the next call takes it for empty,
\* and tries to move a damaged one aside.
Damage(a) ==
  /\ floors' = [floors EXCEPT ![a] = NoBuys]
  /\ author' = [author EXCEPT ![a] = [s \in Symbols |-> None]]
  /\ UNCHANGED <<up, order, reply, now, sent, lastBuy, own, blind>>

-----------------------------------------------------------------------------
(* Broker.submit_order.                                                    *)

Submit(p) ==
  /\ p \in up
  /\ order[p] = None
  /\ \E s \in Symbols, d \in {"buy", "sell", "bad"}, x \in Prices :
       order' = [order EXCEPT ![p] =
                   [symbol |-> s, side |-> d, price |-> x, step |-> "new"]]
  /\ reply' = [reply EXCEPT ![p] = 0]
  /\ sent' = [sent EXCEPT ![p] = FALSE]
  /\ blind' = [blind EXCEPT ![p] = FALSE]
  /\ UNCHANGED <<up, floors, now, lastBuy, own, author>>

\* OrderRequestError or OrderRejectedError.
Reject(p) ==
  /\ At(p, "new", "bad")
  /\ Raise(p, 400)
  /\ UNCHANGED <<floors, now, history>>

\* The guard ignores a buy.
PassBuy(p) ==
  /\ At(p, "new", "buy")
  /\ Go(p, "guarded")
  /\ UNCHANGED <<up, reply, floors, now, history>>

\* Mutant of Approve: the verdict is not looked at.
ApproveAll(p) ==
  /\ At(p, "new", "sell")
  /\ Go(p, "guarded")
  /\ UNCHANGED <<up, reply, floors, now, history>>

\* The guard prunes the buy memory and lets the sell through...
Approve(p) ==
  /\ At(p, "new", "sell")
  /\ ~Verdict(p)
  /\ floors' = PrunedFloors(p)
  /\ Go(p, "guarded")
  /\ UNCHANGED <<up, reply, now, history>>

\* ... also when the file cannot be read: there is nothing to compare with...
ApproveBlind(p) ==
  /\ At(p, "new", "sell")
  /\ Go(p, "guarded")
  /\ blind' = [blind EXCEPT ![p] = TRUE]
  /\ UNCHANGED <<up, reply, floors, now, sent, lastBuy, own, author>>

\* ... or raises RuntimeError.
Refuse(p) ==
  /\ At(p, "new", "sell")
  /\ Verdict(p)
  /\ floors' = PrunedFloors(p)
  /\ Raise(p, 409)
  /\ UNCHANGED <<now, sent, lastBuy, own, author, blind>>

\* The guard raises OSError: the buy memory cannot be locked or saved.
GuardFails(p) ==
  /\ At(p, "new", "sell")
  /\ Raise(p, 0)
  /\ UNCHANGED <<floors, now, history>>

\* executor.execute returns; a sell is done.
ExecuteSell(p) ==
  /\ At(p, "guarded", "sell")
  /\ sent' = [sent EXCEPT ![p] = TRUE]
  /\ Return(p)
  /\ UNCHANGED <<floors, now, lastBuy, own, author, blind>>

ExecuteBuy(p) ==
  /\ At(p, "guarded", "buy")
  /\ sent' = [sent EXCEPT ![p] = TRUE]
  /\ lastBuy' = [lastBuy EXCEPT ![p][order[p].symbol] = order[p].price]
  /\ Go(p, "executed")
  /\ UNCHANGED <<up, reply, floors, now, own, author, blind>>

\* LiveExecutorForbiddenError, a RuntimeError, before anything is sent.
ExecuteForbidden(p) ==
  /\ At(p, "guarded", "buy") \/ At(p, "guarded", "sell")
  /\ Raise(p, 409)
  /\ UNCHANGED <<floors, now, history>>

\* Mutant of ExecuteFails: every exception becomes a RuntimeError.
ExecuteFailsAsRefusal(p) ==
  /\ At(p, "guarded", "buy") \/ At(p, "guarded", "sell")
  /\ \E b \in BOOLEAN : sent' = [sent EXCEPT ![p] = b]
  /\ Raise(p, 409)
  /\ UNCHANGED <<floors, now, lastBuy, own, author, blind>>

\* The venue's client raises another exception: the order may have got through.
\* (Neither executor of the repository raises a RuntimeError for that; one that
\* did would be answered with 409.)
ExecuteFails(p) ==
  /\ At(p, "guarded", "buy") \/ At(p, "guarded", "sell")
  /\ \E b \in BOOLEAN : sent' = [sent EXCEPT ![p] = b]
  /\ Raise(p, 0)
  /\ UNCHANGED <<floors, now, lastBuy, own, author, blind>>

\* The record that record_buy_price makes of the order.
NewRecord(p) == [price |-> order[p].price, ts |-> now]

\* record_buy_price.
Record(p) ==
  LET a == AccountOf[p]
      s == order[p].symbol
  IN /\ At(p, "executed", "buy")
     /\ floors' = [PrunedFloors(p) EXCEPT ![a][s] = NewRecord(p)]
     /\ own' = [own EXCEPT ![p][s] = NewRecord(p)]
     /\ author' = [author EXCEPT ![a][s] = p]
     /\ Return(p)
     /\ UNCHANGED <<now, sent, lastBuy, blind>>

\* The same, but the file cannot be read: it is replaced by one that holds
\* the new record only.
RecordBlind(p) ==
  LET a == AccountOf[p]
      s == order[p].symbol
  IN /\ At(p, "executed", "buy")
     /\ floors' = [floors EXCEPT ![a] = [NoBuys EXCEPT ![s] = NewRecord(p)]]
     /\ own' = [own EXCEPT ![p][s] = NewRecord(p)]
     /\ author' = [author EXCEPT ![a] = [x \in Symbols |-> IF x = s THEN p ELSE None]]
     /\ Return(p)
     /\ UNCHANGED <<now, sent, lastBuy, blind>>

\* Mutant of RecordFails: the error is logged and the order counts as done.
RecordFailureIgnored(p) ==
  /\ At(p, "executed", "buy")
  /\ Return(p)
  /\ UNCHANGED <<floors, now, history>>

\* record_buy_price raises OSError.
RecordFails(p) ==
  /\ At(p, "executed", "buy")
  /\ Raise(p, 0)
  /\ UNCHANGED <<floors, now, history>>

\* What submit_order does with the order it was given.
SubmitOrder(p) ==
  \/ Reject(p) \/ PassBuy(p)
  \/ Approve(p) \/ ApproveBlind(p) \/ Refuse(p) \/ GuardFails(p)
  \/ ExecuteSell(p) \/ ExecuteBuy(p) \/ ExecuteForbidden(p) \/ ExecuteFails(p)
  \/ Record(p) \/ RecordBlind(p) \/ RecordFails(p)

Next ==
  \/ \E p \in Procs : Start(p) \/ Kill(p) \/ Submit(p) \/ SubmitOrder(p)
  \/ \E a \in Accounts : Damage(a)
  \/ Tick

Spec == Init /\ [][Next]_vars

\* A running process goes on with its order.
FairSpec == Spec /\ \A p \in Procs : WF_vars(SubmitOrder(p))

-----------------------------------------------------------------------------
(* Properties.                                                             *)

\* Execution at the venue, by the step of an order of p.
Executes(p) == sent'[p] /\ ~sent[p]

\* The order of p is a sell below the base tolerance of a recorded buy.
BelowFloorOf(p, rec) ==
  /\ order[p].side = "sell"
  /\ rec # None
  /\ ~Stale(rec, now)
  /\ Below(order[p].price, rec.price, BaseBps)

\* The guard and the execution are two steps, the buy memory is shared and a
\* call that cannot read it goes on: a sell far below the process's own last
\* recorded buy reaches the venue only if its guard could not read, or if that
\* record is not the account's last any more, because another process has
\* recorded the symbol, the file was damaged, or a record of another symbol
\* was made by a process that could not read it.
StandingFloorHolds ==
  [][\A p \in Procs :
       Executes(p) /\ BelowFloorOf(p, own[p][order[p].symbol]) =>
         blind[p] \/ author[AccountOf[p]][order[p].symbol] # p]_vars

\* As long as a client runs, what it bought last is what it recorded last: a
\* failure between the two ends it, so that it never trades on regardless.
ClientRecordsItsBuys ==
  \A p \in Clients \cap up : order[p] = None =>
    \A s \in Symbols : lastBuy[p][s] # None =>
      own[p][s] # None /\ own[p][s].price = lastBuy[p][s]

\* A status tells what became of the request: 400 and 409 that nothing was
\* sent, 200 that it was.  Only an absent answer leaves it open.
StatusTellsExecution ==
  \A p \in Servers : order[p] = None =>
    /\ reply[p] = 200 => sent[p]
    /\ reply[p] \in {400, 409} => ~sent[p]

(* What the repository says, and the code does not do.                     *)

\* "Safe to call from paper mode": a live process's sell below its own last
\* buy, whose guard has read the buy memory, is not let through because a
\* paper process has recorded a buy of its own since.
PaperRecordsAreSafe ==
  [][\A p \in Procs \ Paper :
       Executes(p) /\ BelowFloorOf(p, own[p][order[p].symbol]) /\ ~blind[p] =>
         author[AccountOf[p]][order[p].symbol] \notin Paper]_vars
=============================================================================
