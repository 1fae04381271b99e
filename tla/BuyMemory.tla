----------------------------- MODULE BuyMemory ------------------------------
(***************************************************************************)
(* The buy memory of core/alpaca_singleton.py: the JSON file of one        *)
(* account, rewritten by record_buy_price, forget_buy, forget_all_buys and *)
(* guard_sell_against_death_spiral of any number of threads and processes. *)
(* _buy_memory_guard serialises them with an RLock in the process and an   *)
(* flock between processes; a call loads the file, prunes it, writes a     *)
(* temporary file and moves it over the old one.  A process may be killed  *)
(* between any two steps, a read or a write may fail, and the file may be  *)
(* damaged by somebody who does not take the guard.                        *)
(*                                                                         *)
(* A missing file and an empty map behave alike and are one value.         *)
(***************************************************************************)
EXTENDS FloorRule

CONSTANTS
  Procs, Workers,     \* processes and their threads
  ProcOf,             \* the process of a thread
  MaxTime, MaxDamage, \* bounds of the clock and of the damage
  Corrupt             \* a file that is not a JSON object

ASSUME ProcsAssumption == ProcOf \in [Workers -> Procs]
ASSUME BoundsAssumption == MaxTime \in Nat /\ MaxDamage \in Nat
ASSUME SentinelAssumption == None \notin Workers /\ Corrupt \notin Buys

VARIABLES
  file,       \* <account>_buys.json
  rlock,      \* rlock[p]: the thread holding the RLock of the process
  flock,      \* the thread whose handle holds the flock of <account>_buys.lock
  job,        \* job[w]: the call of thread w and how far it is
  now,        \* time.time()
  damages     \* how often the file was damaged from outside

vars == <<file, rlock, flock, job, now, damages>>

\* The calls and their arguments.
Calls ==
  [op : {"record"}, symbol : Symbols, price : Prices, atr : {None}]
    \cup [op : {"guard"}, symbol : Symbols, price : Prices, atr : AtrBps]
    \cup [op : {"forget"}, symbol : Symbols, price : {None}, atr : {None}]
    \cup [op : {"forget_all"}, symbol : {None}, price : {None}, atr : {None}]

Inside == {"guarded", "loaded", "written", "saved",
           "approved", "refused", "done", "failed"}

\* base is what the file held, data what the call makes of it; blind, that the
\* read failed.
Job == [step : Inside, call : Calls, base : Buys, data : Buys, blind : BOOLEAN]
Idle == [step |-> "idle"]
Waiting == [step |-> "waiting"]     \* holds the RLock, wants the flock

\* The file holds records with a price and a time, or is damaged, whatever
\* the calls load, prune and write back.
TypeOK ==
  /\ file \in Buys \cup {Corrupt}
  /\ rlock \in [Procs -> Workers \cup {None}]
  /\ flock \in Workers \cup {None}
  /\ job \in [Workers -> Job \cup {Idle, Waiting}]
  /\ now \in Nat
  /\ damages \in Nat

At(w, steps) == job[w].step \in steps
Op(w) == job[w].call.op

\* The thread moves on to another step of its call.
Go(w, step) == job' = [job EXCEPT ![w].step = step]

-----------------------------------------------------------------------------
Init ==
  /\ file = NoBuys
  /\ rlock = [p \in Procs |-> None]
  /\ flock = None
  /\ job = [w \in Workers |-> Idle]
  /\ now = 0
  /\ damages = 0

-----------------------------------------------------------------------------
(* _buy_memory_guard.                                                      *)

\* A call starts: the RLock of the account is taken.
Enter(w) ==
  /\ At(w, {"idle"})
  /\ rlock[ProcOf[w]] = None
  /\ rlock' = [rlock EXCEPT ![ProcOf[w]] = w]
  /\ job' = [job EXCEPT ![w] = Waiting]
  /\ UNCHANGED <<file, flock, now, damages>>

Begin(w) == \E c \in Calls :
  job' = [job EXCEPT ![w] = [step |-> "guarded", call |-> c,
                             base |-> NoBuys, data |-> NoBuys, blind |-> FALSE]]

\* Mutant of TakeFlock: LOCK_SH instead of LOCK_EX.
TakeFlockShared(w) ==
  /\ At(w, {"waiting"})
  /\ flock' = w
  /\ Begin(w)
  /\ UNCHANGED <<file, rlock, now, damages>>

\* flock(LOCK_EX) is granted.  What the call is for is chosen here, where it
\* first matters.  A guard gets this far for a sell only, without the override.
TakeFlock(w) ==
  /\ At(w, {"waiting"})
  /\ flock = None
  /\ flock' = w
  /\ Begin(w)
  /\ UNCHANGED <<file, rlock, now, damages>>

\* The lock file cannot be opened: the call ends with OSError.
OpenFails(w) ==
  /\ At(w, {"waiting"})
  /\ rlock' = [rlock EXCEPT ![ProcOf[w]] = None]
  /\ job' = [job EXCEPT ![w] = Idle]
  /\ UNCHANGED <<file, flock, now, damages>>

\* Mutant of Leave: no finally around the yield.
LeaveUnlessFailed(w) ==
  /\ At(w, {"done", "approved", "refused", "failed"})
  /\ flock' = IF At(w, {"failed"}) THEN flock ELSE None
  /\ rlock' = [rlock EXCEPT ![ProcOf[w]] = None]
  /\ job' = [job EXCEPT ![w] = Idle]
  /\ UNCHANGED <<file, now, damages>>

\* The call returns or raises: the finally clause and the two with statements.
Leave(w) ==
  /\ At(w, {"done", "approved", "refused", "failed"})
  /\ flock' = None
  /\ rlock' = [rlock EXCEPT ![ProcOf[w]] = None]
  /\ job' = [job EXCEPT ![w] = Idle]
  /\ UNCHANGED <<file, now, damages>>

-----------------------------------------------------------------------------
(* _load_buys and _save_buys.                                              *)

\* The entries a call works on.  record and guard prune what they loaded.
Entries(op, buys) == IF op \in {"record", "guard"} THEN Pruned(buys, now) ELSE buys

Loaded(w, buys, blind) ==
  job' = [job EXCEPT ![w].step = "loaded",
                     ![w].base = buys,
                     ![w].data = Entries(job[w].call.op, buys),
                     ![w].blind = blind]

\* The file is read and is a JSON object, or is not there.
Load(w) ==
  /\ At(w, {"guarded"}) /\ Op(w) # "forget_all"
  /\ file # Corrupt
  /\ Loaded(w, file, FALSE)
  /\ UNCHANGED <<file, rlock, flock, now, damages>>

\* read_text raises: the error is logged and the map taken for empty.
LoadFails(w) ==
  /\ At(w, {"guarded"}) /\ Op(w) # "forget_all"
  /\ Loaded(w, NoBuys, TRUE)
  /\ UNCHANGED <<file, rlock, flock, now, damages>>

\* Not a JSON object: it is moved aside, if that succeeds, and taken for empty.
Quarantine(w) ==
  /\ At(w, {"guarded"}) /\ Op(w) # "forget_all"
  /\ file = Corrupt
  /\ file' \in {NoBuys, Corrupt}
  /\ Loaded(w, NoBuys, FALSE)
  /\ UNCHANGED <<rlock, flock, now, damages>>

\* A guard saves only if pruning dropped something.
NeedsSave(w) ==
  \/ At(w, {"guarded"}) /\ Op(w) = "forget_all"
  \/ At(w, {"loaded"}) /\ (Op(w) = "guard" => job[w].data # job[w].base)

\* Mutant of Edited: the price is stored without the time.
EditedTimeless(w) ==
  LET c == job[w].call IN
  IF c.op = "record" THEN [job[w].data EXCEPT ![c.symbol] = [price |-> c.price]] ELSE NoBuys

\* Mutant of Edited: data.setdefault, which keeps an older buy.
EditedSetdefault(w) ==
  LET c == job[w].call
      data == job[w].data
  IN CASE c.op = "record" ->
            IF data[c.symbol] # None THEN data
            ELSE [data EXCEPT ![c.symbol] = [price |-> c.price, ts |-> now]]
       [] c.op = "forget" -> [data EXCEPT ![c.symbol] = None]
       [] c.op = "forget_all" -> NoBuys
       [] c.op = "guard" -> data

\* The map a call writes.
Edited(w) ==
  LET c == job[w].call
      data == job[w].data
  IN CASE c.op = "record" -> [data EXCEPT ![c.symbol] = [price |-> c.price, ts |-> now]]
       [] c.op = "forget" -> [data EXCEPT ![c.symbol] = None]
       [] c.op = "forget_all" -> NoBuys
       [] c.op = "guard" -> data

\* The edited map is written to a temporary file and synced.
WriteTmp(w) ==
  /\ NeedsSave(w)
  /\ job' = [job EXCEPT ![w].step = "written", ![w].data = Edited(w)]
  /\ UNCHANGED <<file, rlock, flock, now, damages>>

\* os.replace; the call is done unless it is a guard.
Replace(w) ==
  /\ At(w, {"written"})
  /\ file' = job[w].data
  /\ Go(w, IF Op(w) = "guard" THEN "saved" ELSE "done")
  /\ UNCHANGED <<rlock, flock, now, damages>>

\* mkstemp, the write, the sync or the replacement raises OSError: the
\* temporary file is unlinked and the call fails.
SaveFails(w) ==
  /\ NeedsSave(w) \/ At(w, {"written"})
  /\ Go(w, "failed")
  /\ UNCHANGED <<file, rlock, flock, now, damages>>

\* The guard compares the sell with the record of its symbol.
Answer(w) ==
  /\ At(w, {"loaded", "saved"})
  /\ Op(w) = "guard"
  /\ ~NeedsSave(w)
  /\ LET c == job[w].call IN
       Go(w, IF Refuses(job[w].data[c.symbol], c.price, c.atr)
               THEN "refused" ELSE "approved")
  /\ UNCHANGED <<file, rlock, flock, now, damages>>

-----------------------------------------------------------------------------
(* The environment.                                                        *)

\* A process is killed: the kernel and the dead interpreter drop its locks.
Kill(p) ==
  /\ \E w \in Workers : ProcOf[w] = p /\ ~At(w, {"idle"})
  /\ job' = [w \in Workers |-> IF ProcOf[w] = p THEN Idle ELSE job[w]]
  /\ rlock' = [rlock EXCEPT ![p] = None]
  /\ flock' = IF flock # None /\ ProcOf[flock] = p THEN None ELSE flock
  /\ UNCHANGED <<file, now, damages>>

Tick ==
  /\ now < MaxTime
  /\ now' = now + 1
  /\ UNCHANGED <<file, rlock, flock, job, damages>>

\* Somebody who is not a caller of this module leaves a file that is not JSON.
Damage ==
  /\ damages < MaxDamage
  /\ damages' = damages + 1
  /\ file' = Corrupt
  /\ UNCHANGED <<rlock, flock, job, now>>

\* What a call does once it has the flock.
Inner(w) ==
  \/ Load(w) \/ LoadFails(w) \/ Quarantine(w)
  \/ WriteTmp(w) \/ Replace(w) \/ SaveFails(w)
  \/ Answer(w) \/ Leave(w)

Next ==
  \/ \E w \in Workers : Enter(w) \/ TakeFlock(w) \/ OpenFails(w) \/ Inner(w)
  \/ \E p \in Procs : Kill(p)
  \/ Tick
  \/ Damage

Spec == Init /\ [][Next]_vars

\* A thread inside the guard is scheduled, and the kernel grants a contended
\* flock to its waiters in turn.
Fairness == \A w \in Workers : WF_vars(Inner(w)) /\ SF_vars(TakeFlock(w))

FairSpec == Spec /\ Fairness

-----------------------------------------------------------------------------
(* Properties.                                                             *)

\* Only the holder of the guard is between loading and replacing the file, so
\* what a guard answers is what the file says at that moment: no sell passes
\* below a buy that another thread recorded meanwhile, none is refused for a
\* buy that was pruned or forgotten, and a refused one is below the base
\* tolerance whatever the volatility.  A failed read is the exception.
VerdictMatchesFile ==
  \A w \in Workers :
    At(w, {"approved", "refused"}) /\ ~job[w].blind /\ file # Corrupt =>
      LET c == job[w].call IN
      /\ At(w, {"refused"}) <=> Refuses(file[c.symbol], c.price, c.atr)
      /\ At(w, {"refused"}) => Below(c.price, file[c.symbol].price, BaseBps)

\* A buy whose record_buy_price has written is on disk when the call returns.
RecordedBuyIsOnDisk ==
  \A w \in Workers :
    At(w, {"done"}) /\ Op(w) = "record" /\ file # Corrupt =>
      LET c == job[w].call IN
      file[c.symbol] # None /\ file[c.symbol].price = c.price

\* Every call comes to its end, whichever call fails or process dies first.
CallReturns == \A w \in Workers : ~At(w, {"idle"}) ~> At(w, {"idle"})

\* A damaged file has lost its records, unless a call has already read them
\* and is about to write them back.
Surviving ==
  IF file # Corrupt THEN file
  ELSE IF flock # None /\ At(flock, {"loaded", "written"}) THEN job[flock].base
  ELSE NoBuys

FM == INSTANCE FloorMap WITH
  floors <- Surviving,
  calls <- {[call |-> job[w].call, blind |-> job[w].blind] :
              w \in {v \in Workers : At(v, Inside)}},
  damaged <- file = Corrupt

\* The calls behave like the atomic calls of FloorMap: none loses a record
\* that another call made, or drops one that is neither stale nor named.
ImplementsFloorMap == FM!FMSpec
=============================================================================
