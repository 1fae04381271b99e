---------------------------- MODULE PaperMemory -----------------------------
(***************************************************************************)
(* The buy memory as the two paper programs use it: the two calls of       *)
(* core/alpaca_singleton.py, each of them one step under the lock of the   *)
(* file, on the file of the default account.  A call that cannot read the  *)
(* file goes on with an empty map: the guard lets every sell pass, and the *)
(* record replaces the file by one that holds nothing else.                *)
(***************************************************************************)
EXTENDS FloorRule

VARIABLES
  floors,     \* the buy memory
  now,        \* time.time(), in cycles
  lost        \* the symbols whose last record was lost, not pruned (a history)

memory == <<floors, lost>>

\* What _load_buys and _prune_buys make of the file.
Found(blind) == IF blind THEN NoBuys ELSE Pruned(floors, now)

\* record_buy_price.
RecordBuy(s, price) ==
  \E blind \in BOOLEAN :
    /\ floors' = [Found(blind) EXCEPT ![s] = [price |-> price, ts |-> now]]
    /\ lost' = (IF blind THEN Symbols ELSE lost) \ {s}

\* guard_sell_against_death_spiral returns; what it could not read it keeps...
GuardPasses(s, price) ==
  \E blind \in BOOLEAN :
    /\ ~Refuses(Found(blind)[s], price, 0)
    /\ floors' = IF blind THEN floors ELSE Found(blind)
    /\ UNCHANGED lost

\* ... or raises RuntimeError.
GuardRefuses(s, price) ==
  /\ Refuses(Found(FALSE)[s], price, 0)
  /\ floors' = Found(FALSE)
  /\ UNCHANGED lost

\* Somebody else damages or removes the file, which counts as empty then.
Damage ==
  /\ floors' = NoBuys
  /\ lost' = Symbols
=============================================================================
