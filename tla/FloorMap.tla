------------------------------ MODULE FloorMap ------------------------------
(***************************************************************************)
(* What the buy memory of core/alpaca_singleton.py promises: one map from  *)
(* symbols to their last recorded buy, on which every call takes effect in *)
(* one step, whoever else is calling, crashing or being refused.  The      *)
(* calls, the clock and the damage done to the file by others are inputs.  *)
(***************************************************************************)
EXTENDS Integers

CONSTANTS Symbols, None, BuyMemorySeconds

VARIABLES
  floors,     \* floors[s]: [price, ts] of the last buy, or None
  now,        \* the clock
  calls,      \* the calls in progress: [call, blind]
  damaged     \* somebody else left the file unreadable as JSON

NoBuys == [s \in Symbols |-> None]

Expired(s) == floors[s] # None /\ now - floors[s].ts > BuyMemorySeconds

\* A call leaves symbol s alone, but may drop an expired buy; one that could
\* not read the file (blind) takes it for empty.
Kept(c, s) ==
  \/ floors'[s] = floors[s]
  \/ floors'[s] = None /\ (Expired(s) \/ c.blind)

OthersKept(c) == \A s \in Symbols \ {c.call.symbol} : Kept(c, s)

Record(c) ==
  /\ c.call.op = "record"
  /\ LET buy == floors'[c.call.symbol] IN
       buy # None /\ buy.price = c.call.price /\ buy.ts <= now
  /\ OthersKept(c)

Guard(c) == c.call.op = "guard" /\ \A s \in Symbols : Kept(c, s)

Forget(c) ==
  c.call.op = "forget" /\ floors'[c.call.symbol] = None /\ OthersKept(c)

ForgetAll(c) == c.call.op = "forget_all" /\ floors' = NoBuys

Damage == damaged' /\ floors' = NoBuys

FMInit == floors = NoBuys

FMNext ==
  \/ \E c \in calls : Record(c) \/ Guard(c) \/ Forget(c) \/ ForgetAll(c)
  \/ Damage

FMSpec == FMInit /\ [][FMNext]_floors
=============================================================================
