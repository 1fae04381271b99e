-------------------------- MODULE BuyMemoryProofs ---------------------------
(***************************************************************************)
(* The buy memory, for any number of processes and threads, any symbols,   *)
(* prices and tolerances: only the holder of the flock works on the file,  *)
(* its answers and writes are those of the file, and the calls implement   *)
(* the atomic calls of FloorMap.                                           *)
(***************************************************************************)
EXTENDS BuyMemory, TLAPS

\* Pruning keeps the form of a buy memory, and a record unless it is stale.
LEMMA PrunedType ==
  ASSUME NEW buys \in Buys, NEW t
  PROVE  /\ Pruned(buys, t) \in Buys
         /\ \A s \in Symbols :
              Pruned(buys, t)[s] = IF Stale(buys[s], t) THEN None ELSE buys[s]
  BY DEF Pruned, Buys

\* A record that is stale stays stale.
LEMMA StaleStays ==
  ASSUME NEW rec \in Buy \cup {None}, NEW t \in Nat, Stale(rec, t)
  PROVE  Stale(rec, t + 1)
  BY NumbersAssumption DEF Stale, Buy

\* The volatility only ever widens the tolerance.
LEMMA WiderTolerance ==
  ASSUME NEW atr \in AtrBps
  PROVE  ToleranceBps(atr) \in Nat /\ ToleranceBps(atr) >= BaseBps
  <1>1. AtrMult * atr \in Nat  BY NumbersAssumption
  <1> QED  BY <1>1, NumbersAssumption DEF ToleranceBps

\* What is below a floor by the wider tolerance is below it by the narrower one.
LEMMA WiderIsLower ==
  ASSUME NEW price \in Nat, NEW buy \in Nat, NEW wide \in Nat, NEW narrow \in Nat,
         narrow <= wide, Below(price, buy, wide)
  PROVE  Below(price, buy, narrow)
  <1>1. PICK d \in Nat : wide = narrow + d  BY wide - narrow \in Nat
  <1>2. buy * d \in Nat  OBVIOUS
  <1>3. buy * (10000 - narrow) = buy * (10000 - wide) + buy * d  BY <1>1
  <1> QED  BY <1>2, <1>3 DEF Below

\* A sell that is refused is below the floor of the base tolerance.
LEMMA RefusedIsBelow ==
  ASSUME NEW rec \in Buy \cup {None}, NEW price \in Prices, NEW atr \in AtrBps,
         Refuses(rec, price, atr)
  PROVE  Below(price, rec.price, BaseBps)
  <1>1. rec.price \in Nat /\ price \in Nat /\ BaseBps \in Nat
    BY NumbersAssumption DEF Refuses, Buy
  <1> QED  BY <1>1, WiderTolerance, WiderIsLower DEF Refuses

-----------------------------------------------------------------------------

\* Whoever is inside the guard has the flock, and whoever has it is inside.
FlockIsInside ==
  /\ \A w \in Workers : At(w, Inside) => flock = w
  /\ flock # None => At(flock, Inside)

\* A call has kept the entry of s, or dropped it because it is stale.
Keeps(j, s) ==
  \/ j.data[s] = j.base[s]
  \/ j.data[s] = None /\ Stale(j.base[s], now)

\* What a call is about to write.
EditsItsOwn(j) ==
  LET c == j.call IN
  /\ c.op = "record" =>
       /\ j.data[c.symbol] # None
       /\ j.data[c.symbol].price = c.price /\ j.data[c.symbol].ts <= now
  /\ c.op = "forget" => j.data[c.symbol] = None
  /\ c.op = "forget_all" => j.data = NoBuys /\ j.base = NoBuys
  /\ c.op = "guard" => \A s \in Symbols : Keeps(j, s)
  /\ c.op \in {"record", "forget"} => \A s \in Symbols \ {c.symbol} : Keeps(j, s)

\* The call worked on what the file holds, unless its read failed or the file
\* was damaged since.
Knows(j, buys) == ~j.blind /\ file # Corrupt => file = buys

\* A call that is inside the guard, step by step.
JobIsSound(j) ==
  LET c == j.call IN
  /\ j.blind => j.base = NoBuys
  /\ j.step = "guarded" => j.base = NoBuys /\ ~j.blind
  /\ j.step = "loaded" =>
       /\ c.op # "forget_all" /\ Knows(j, j.base)
       /\ \A s \in Symbols : Keeps(j, s)
  /\ j.step = "written" =>
       /\ c.op # "forget_all" => Knows(j, j.base)
       /\ EditsItsOwn(j)
  /\ j.step = "saved" => c.op = "guard" /\ Knows(j, j.data)
  /\ j.step \in {"approved", "refused"} =>
       /\ c.op = "guard" /\ Knows(j, j.data)
       /\ j.step = "refused" <=> Refuses(j.data[c.symbol], c.price, c.atr)
  /\ j.step = "done" /\ c.op = "record" /\ file # Corrupt =>
       file[c.symbol] # None /\ file[c.symbol].price = c.price

\* Every call inside the guard is sound.
JobsAreSound == \A w \in Workers : At(w, Inside) => JobIsSound(job[w])

\* The inductive invariant.
BuyInv == TypeOK /\ FlockIsInside /\ JobsAreSound

-----------------------------------------------------------------------------
\* The fields of a call that is inside the guard.
LEMMA InsideJob ==
  ASSUME TypeOK, NEW w \in Workers, At(w, Inside)
  PROVE  /\ job[w] \in Job
         /\ job[w].call \in Calls /\ job[w].base \in Buys /\ job[w].data \in Buys
         /\ job[w].call.op # "forget_all" => job[w].call.symbol \in Symbols
         /\ job[w].call.op \in {"record", "guard"} => job[w].call.price \in Prices
         /\ job[w].call.op = "guard" => job[w].call.atr \in AtrBps
         /\ job[w].call.op \in {"record", "guard", "forget", "forget_all"}
<1>1. job[w] \in Job
  BY DEF TypeOK, At, Inside, Idle, Waiting
<1>2. job[w].call \in Calls /\ job[w].base \in Buys /\ job[w].data \in Buys
  BY <1>1 DEF Job
<1> QED
  BY <1>1, <1>2 DEF Calls

\* No two threads are inside.
LEMMA Alone ==
  ASSUME FlockIsInside, NEW w \in Workers, At(w, Inside)
  PROVE  flock = w /\ \A v \in Workers \ {w} : ~At(v, Inside)
BY DEF FlockIsInside

\* A thread that is inside goes on with its own call.
LEMMA InsideStep ==
  ASSUME BuyInv, NEW w \in Workers, At(w, Inside),
         job'[w] \in Job, job' = [job EXCEPT ![w] = job'[w]], JobIsSound(job[w])',
         file' \in Buys \cup {Corrupt},
         UNCHANGED <<rlock, flock, now, damages>>
  PROVE  BuyInv'
<1>1. job'[w].step \in Inside
  BY DEF Job
<1>2. \A v \in Workers \ {w} : job'[v] = job[v]
  BY DEF BuyInv, TypeOK
<1>3. TypeOK'
  BY DEF BuyInv, TypeOK
<1>4. flock = w /\ \A v \in Workers \ {w} : ~At(v, Inside)
  BY Alone DEF BuyInv
<1>5. FlockIsInside'
  BY <1>1, <1>2, <1>4 DEF FlockIsInside, At
<1>6. JobsAreSound'
  BY <1>2, <1>4 DEF JobsAreSound, At
<1> QED
  BY <1>3, <1>5, <1>6 DEF BuyInv

\* A step that makes nobody an insider, and leaves insiders and file alone.
LEMMA OutsideStep ==
  ASSUME BuyInv, TypeOK', UNCHANGED <<file, now>>,
         flock' \in {flock, None},
         \A w \in Workers : At(w, Inside)' => job'[w] = job[w] /\ flock' = flock,
         flock' # None => job'[flock'] = job[flock']
  PROVE  BuyInv'
<1>1. FlockIsInside'
  BY DEF BuyInv, FlockIsInside, At
<1>2. JobsAreSound'
  BY DEF BuyInv, JobsAreSound, At, JobIsSound, Keeps, EditsItsOwn, Knows
<1> QED
  BY <1>1, <1>2 DEF BuyInv

-----------------------------------------------------------------------------
(* Into the guard and out of it.                                           *)

\* A thread that takes the RLock, the flock, or leaves.
LEMMA EnterStep ==
  ASSUME BuyInv, NEW w \in Workers, Enter(w) \/ OpenFails(w)
  PROVE  BuyInv'
<1>1. TypeOK'
  BY ProcsAssumption DEF BuyInv, TypeOK, Enter, OpenFails
<1>2. ~At(w, Inside) /\ ~At(w, Inside)' /\ flock # w
  <2>1. ~At(w, Inside) /\ ~At(w, Inside)'
    BY DEF BuyInv, TypeOK, Enter, OpenFails, At, Inside, Idle, Waiting
  <2> QED
    BY <2>1, SentinelAssumption DEF BuyInv, FlockIsInside
<1>3. \A v \in Workers \ {w} : job'[v] = job[v]
  BY DEF BuyInv, TypeOK, Enter, OpenFails
<1>4. UNCHANGED <<file, now, flock>> /\ flock \in Workers \cup {None}
  BY DEF Enter, OpenFails, BuyInv, TypeOK
<1> QED
  BY <1>1, <1>2, <1>3, <1>4, OutsideStep

\* A call that is granted the flock is alone inside the guard.
LEMMA TakeFlockStep ==
  ASSUME BuyInv, NEW w \in Workers, TakeFlock(w)
  PROVE  BuyInv'
<1>1. PICK c \in Calls :
        job' = [job EXCEPT ![w] = [step |-> "guarded", call |-> c,
                                   base |-> NoBuys, data |-> NoBuys, blind |-> FALSE]]
  BY DEF TakeFlock, Begin
<1> DEFINE j == [step |-> "guarded", call |-> c,
                 base |-> NoBuys, data |-> NoBuys, blind |-> FALSE]
<1>2. j \in Job /\ NoBuys \in Buys
  BY DEF Job, Inside, NoBuys, Buys
<1>3. job'[w] = j /\ \A v \in Workers \ {w} : job'[v] = job[v]
  BY <1>1 DEF BuyInv, TypeOK
<1>4. TypeOK'
  BY <1>1, <1>2 DEF BuyInv, TypeOK, TakeFlock
<1>5. \A v \in Workers : ~At(v, Inside)
  BY SentinelAssumption DEF TakeFlock, BuyInv, FlockIsInside
<1>6. FlockIsInside'
  BY <1>3, <1>5 DEF FlockIsInside, TakeFlock, At, Inside
<1>7. JobIsSound(job[w])'
  BY <1>3 DEF JobIsSound
<1> QED
  BY <1>3, <1>4, <1>5, <1>6, <1>7 DEF BuyInv, JobsAreSound, At

\* A call that leaves gives the flock back.
LEMMA LeaveStep ==
  ASSUME BuyInv, NEW w \in Workers, Leave(w)
  PROVE  BuyInv'
<1>1. TypeOK'
  BY ProcsAssumption DEF BuyInv, TypeOK, Leave
<1>2. At(w, Inside)
  BY DEF Leave, At, Inside
<1>3. \A v \in Workers \ {w} : ~At(v, Inside) /\ job'[v] = job[v]
  BY <1>2, Alone DEF BuyInv, TypeOK, Leave
<1>4. ~At(w, Inside)'
  BY DEF Leave, BuyInv, TypeOK, At, Inside, Idle
<1>5. UNCHANGED <<file, now>> /\ flock' = None
  BY DEF Leave
<1> QED
  BY <1>1, <1>3, <1>4, <1>5, OutsideStep DEF At

\* A killed process: its threads are out, and so is its flock.
LEMMA KillStep ==
  ASSUME BuyInv, NEW p \in Procs, Kill(p)
  PROVE  BuyInv'
<1>1. TypeOK'
  BY DEF BuyInv, TypeOK, Kill
<1>2. \A w \in Workers : job'[w] = IF ProcOf[w] = p THEN Idle ELSE job[w]
  BY DEF Kill
<1>3. ASSUME NEW w \in Workers, At(w, Inside)'
      PROVE  job'[w] = job[w] /\ flock' = flock
  <2>1. ProcOf[w] # p /\ job'[w] = job[w]
    BY <1>2, <1>3 DEF At, Inside, Idle
  <2>2. flock = w
    BY <1>3, <2>1 DEF BuyInv, FlockIsInside, At
  <2> QED
    BY <2>1, <2>2 DEF Kill
<1>4. flock' # None => job'[flock'] = job[flock']
  BY <1>2 DEF Kill, BuyInv, TypeOK
<1>5. UNCHANGED <<file, now>> /\ flock' \in {flock, None}
  BY DEF Kill
<1> QED
  BY <1>1, <1>3, <1>4, <1>5, OutsideStep

-----------------------------------------------------------------------------
(* What a call does inside.                                                *)

\* The file is read, or taken for empty.
LEMMA LoadStep ==
  ASSUME BuyInv, NEW w \in Workers, Load(w) \/ LoadFails(w) \/ Quarantine(w)
  PROVE  BuyInv'
<1>1. At(w, Inside) /\ At(w, {"guarded"}) /\ Op(w) # "forget_all" /\ TypeOK
  BY DEF Load, LoadFails, Quarantine, At, Inside, BuyInv
<1>2. PICK buys \in Buys, blind \in BOOLEAN :
        /\ Loaded(w, buys, blind) /\ (blind => buys = NoBuys)
        /\ file' \in Buys \cup {Corrupt} /\ (~blind /\ file' # Corrupt => file' = buys)
        /\ UNCHANGED <<rlock, flock, now, damages>>
  <2>1. NoBuys \in Buys /\ file \in Buys \cup {Corrupt}
    BY <1>1 DEF NoBuys, Buys, TypeOK
  <2>2. CASE Load(w)
    BY <2>1, <2>2 DEF Load
  <2>3. CASE LoadFails(w)
    BY <2>1, <2>3 DEF LoadFails
  <2>4. CASE Quarantine(w)
    BY <2>1, <2>4 DEF Quarantine
  <2> QED
    BY <2>2, <2>3, <2>4
<1> DEFINE data == Entries(Op(w), buys)
           j == [job[w] EXCEPT !.step = "loaded", !.base = buys, !.data = data,
                               !.blind = blind]
<1>3. job[w] \in Job
  BY <1>1, InsideJob
<1>4. data \in Buys /\ \A s \in Symbols : data[s] = buys[s] \/ (data[s] = None /\ Stale(buys[s], now))
  BY PrunedType DEF Entries
<1>5. job' = [job EXCEPT ![w] = j] /\ job'[w] = j
  BY <1>1, <1>2 DEF Loaded, Op, TypeOK
<1>6. /\ job'[w].step = "loaded" /\ job'[w].call = job[w].call
      /\ job'[w].base = buys /\ job'[w].data = data /\ job'[w].blind = blind
      /\ job'[w] \in Job
  <2>1. buys \in Buys /\ blind \in BOOLEAN
    BY <1>2
  <2> HIDE DEF data
  <2>2. "loaded" \in Inside
    BY DEF Inside
  <2>3. j \in Job
    BY <1>3, <1>4, <2>1, <2>2 DEF Job
  <2>4. /\ j.step = "loaded" /\ j.call = job[w].call
        /\ j.base = buys /\ j.data = data
    BY <1>3 DEF Job
  <2>5. j.blind = blind
    BY <1>3 DEF Job
  <2> HIDE DEF j
  <2> QED
    BY <1>5, <2>3, <2>4, <2>5
<1> HIDE DEF j, data
<1>7. JobIsSound(job[w])'
  BY <1>1, <1>2, <1>4, <1>6 DEF JobIsSound, Knows, Keeps, Op
<1> QED
  BY <1>1, <1>2, <1>5, <1>6, <1>7, InsideStep

\* The temporary file holds the call's own edit.
LEMMA WriteTmpStep ==
  ASSUME BuyInv, NEW w \in Workers, WriteTmp(w)
  PROVE  BuyInv'
<1>1. At(w, Inside) /\ At(w, {"guarded", "loaded"}) /\ TypeOK
  BY DEF WriteTmp, NeedsSave, At, Inside, BuyInv
<1> DEFINE c == job[w].call
           data == job[w].data
           edited == Edited(w)
           j == [job[w] EXCEPT !.step = "written", !.data = edited]
<1>2. /\ job[w] \in Job /\ c \in Calls /\ data \in Buys
      /\ c.op # "forget_all" => c.symbol \in Symbols
      /\ c.op \in {"record", "guard"} => c.price \in Prices
      /\ c.op \in {"record", "guard", "forget", "forget_all"}
      /\ now \in Nat
  BY <1>1, InsideJob DEF TypeOK
<1>3. JobIsSound(job[w])
  BY <1>1 DEF BuyInv, JobsAreSound
<1>4. /\ c.op = "forget_all" => edited = NoBuys /\ job[w].base = NoBuys
      /\ c.op = "guard" => edited = data
      /\ c.op = "forget" => edited = [data EXCEPT ![c.symbol] = None]
      /\ c.op = "record" => edited = [data EXCEPT ![c.symbol] = [price |-> c.price, ts |-> now]]
  BY <1>1, <1>3 DEF Edited, JobIsSound, At, WriteTmp, NeedsSave, Op
<1> HIDE DEF edited
<1>5. c.op = "record" => [price |-> c.price, ts |-> now] \in Buy
  BY <1>2 DEF Buy
<1>6. edited \in Buys
  BY <1>2, <1>4, <1>5 DEF Buys, NoBuys
<1>7. c.op # "forget_all" =>
        Knows(job[w], job[w].base) /\ \A s \in Symbols : Keeps(job[w], s)
  BY <1>1, <1>3 DEF WriteTmp, NeedsSave, JobIsSound, At, Op
<1>8. /\ job' = [job EXCEPT ![w] = j] /\ job'[w] = j
      /\ UNCHANGED <<file, rlock, flock, now, damages>>
  BY <1>1 DEF WriteTmp, edited, TypeOK
<1>9. j \in Job
  BY <1>2, <1>6 DEF Job, Inside
<1>10. j.step = "written" /\ j.call = c /\ j.base = job[w].base /\ j.data = edited
       /\ j.blind = job[w].blind
  BY <1>2 DEF Job
<1>11. EditsItsOwn(j)
  <2>1. CASE c.op = "forget_all"
    BY <1>4, <1>10, <2>1 DEF EditsItsOwn
  <2>2. CASE c.op = "guard"
    BY <1>4, <1>7, <1>10, <2>2 DEF EditsItsOwn, Keeps
  <2>3. CASE c.op = "forget"
    BY <1>2, <1>4, <1>7, <1>10, <2>3 DEF EditsItsOwn, Keeps, Buys
  <2>4. CASE c.op = "record"
    <3> DEFINE rec == [price |-> c.price, ts |-> now]
    <3>1. rec # None /\ rec.price = c.price /\ rec.ts <= now
      BY <1>2, <1>5, <2>4, NoneAssumption
    <3> HIDE DEF rec
    <3>2. edited[c.symbol] = rec /\ \A s \in Symbols \ {c.symbol} : edited[s] = data[s]
      BY <1>2, <1>4, <2>4 DEF Buys, rec
    <3> QED
      BY <1>7, <1>10, <2>4, <3>1, <3>2 DEF EditsItsOwn, Keeps
  <2> QED
    BY <1>2, <2>1, <2>2, <2>3, <2>4
<1>12. EditsItsOwn(job[w])'
  <2> HIDE DEF j
  <2> QED
    BY <1>8, <1>11 DEF EditsItsOwn, Keeps
<1>13. JobIsSound(job[w])'
  <2> HIDE DEF j
  <2> QED
    BY <1>3, <1>7, <1>8, <1>10, <1>12 DEF JobIsSound, Knows
<1> QED
  BY <1>1, <1>8, <1>9, <1>13, InsideStep DEF BuyInv, TypeOK

\* The file becomes what the call has written.
LEMMA ReplaceStep ==
  ASSUME BuyInv, NEW w \in Workers, Replace(w)
  PROVE  BuyInv'
<1>1. At(w, Inside) /\ At(w, {"written"}) /\ TypeOK
  BY DEF Replace, At, Inside, BuyInv
<1>2. job[w] \in Job /\ job[w].data \in Buys
  BY <1>1, InsideJob
<1> DEFINE step == IF Op(w) = "guard" THEN "saved" ELSE "done"
           j == [job[w] EXCEPT !.step = step]
<1>3. /\ job' = [job EXCEPT ![w] = j] /\ job'[w] = j /\ file' = job[w].data
      /\ UNCHANGED <<rlock, flock, now, damages>>
  BY <1>1 DEF Replace, Go, TypeOK
<1>4. j \in Job
  BY <1>2 DEF Job, Inside
<1>5. JobIsSound(job[w]) /\ EditsItsOwn(job[w])
  BY <1>1 DEF BuyInv, JobsAreSound, JobIsSound, At
<1>6. JobIsSound(job[w])'
  <2>1. /\ job'[w].step = step /\ job'[w].call = job[w].call
        /\ job'[w].base = job[w].base /\ job'[w].data = job[w].data
        /\ job'[w].blind = job[w].blind
    BY <1>2, <1>3 DEF Job
  <2> HIDE DEF j
  <2> QED
    BY <1>3, <1>5, <2>1 DEF JobIsSound, EditsItsOwn, Knows, Op
<1> QED
  BY <1>1, <1>2, <1>3, <1>4, <1>6, InsideStep

\* A failed save leaves the file alone.
LEMMA SaveFailsStep ==
  ASSUME BuyInv, NEW w \in Workers, SaveFails(w)
  PROVE  BuyInv'
<1>1. At(w, Inside) /\ TypeOK
  BY DEF SaveFails, NeedsSave, At, Inside, BuyInv
<1>2. job[w] \in Job /\ JobIsSound(job[w])
  BY <1>1, InsideJob DEF BuyInv, JobsAreSound
<1> DEFINE j == [job[w] EXCEPT !.step = "failed"]
<1>3. /\ job' = [job EXCEPT ![w] = j] /\ job'[w] = j
      /\ UNCHANGED <<file, rlock, flock, now, damages>>
  BY <1>1 DEF SaveFails, Go, TypeOK
<1>4. j \in Job
  BY <1>2 DEF Job, Inside
<1>5. JobIsSound(job[w])'
  BY <1>2, <1>3 DEF JobIsSound, Job
<1> QED
  BY <1>1, <1>3, <1>4, <1>5, InsideStep DEF TypeOK

\* The verdict is that of the entries, which are what the file holds.
LEMMA AnswerStep ==
  ASSUME BuyInv, NEW w \in Workers, Answer(w)
  PROVE  BuyInv'
<1>1. At(w, Inside) /\ At(w, {"loaded", "saved"}) /\ Op(w) = "guard" /\ TypeOK
  BY DEF Answer, At, Inside, BuyInv
<1>2. job[w] \in Job /\ JobIsSound(job[w])
  BY <1>1, InsideJob DEF BuyInv, JobsAreSound
<1> DEFINE c == job[w].call
           refuses == Refuses(job[w].data[c.symbol], c.price, c.atr)
           j == [job[w] EXCEPT !.step = IF refuses THEN "refused" ELSE "approved"]
<1>3. /\ job' = [job EXCEPT ![w] = j] /\ job'[w] = j
      /\ UNCHANGED <<file, rlock, flock, now, damages>>
  BY <1>1 DEF Answer, Go, TypeOK
<1>4. j \in Job
  BY <1>2 DEF Job, Inside
<1>5. Knows(job[w], job[w].data)
  BY <1>1, <1>2 DEF Answer, NeedsSave, JobIsSound, Knows, At, Op
<1>6. /\ j.call = c /\ j.data = job[w].data /\ j.base = job[w].base
      /\ j.blind = job[w].blind /\ c.op = "guard"
      /\ j.step \in {"refused", "approved"} /\ (j.step = "refused" <=> refuses)
  BY <1>1, <1>2 DEF Job, Op
<1> HIDE DEF j
<1>7. JobIsSound(job[w])'
  BY <1>2, <1>3, <1>5, <1>6 DEF JobIsSound, Knows
<1> QED
  BY <1>1, <1>3, <1>4, <1>7, InsideStep DEF TypeOK

-----------------------------------------------------------------------------
(* The environment.                                                        *)

\* What is stale stays stale while the clock runs.
LEMMA TickStep ==
  ASSUME BuyInv, Tick
  PROVE  BuyInv'
<1>1. TypeOK' /\ FlockIsInside' /\ now \in Nat
  BY DEF BuyInv, TypeOK, FlockIsInside, At, Tick
<1>2. ASSUME NEW w \in Workers, At(w, Inside) PROVE JobIsSound(job[w])'
  <2>1. /\ JobIsSound(job[w]) /\ job[w].base \in Buys /\ job[w].data \in Buys
        /\ job[w].call.op # "forget_all" => job[w].call.symbol \in Symbols
        /\ job[w].call.op \in {"record", "guard", "forget", "forget_all"}
    BY <1>2, InsideJob DEF BuyInv, JobsAreSound
  <2>2. ASSUME NEW s \in Symbols, Keeps(job[w], s) PROVE Keeps(job[w], s)'
    BY <1>1, <2>1, <2>2, StaleStays DEF Keeps, Tick, Buys
  <2>3. EditsItsOwn(job[w]) => EditsItsOwn(job[w])'
    <3>1. job[w].call.op = "record" /\ job[w].data[job[w].call.symbol] # None =>
            job[w].data[job[w].call.symbol].ts \in Nat
      BY <2>1 DEF Buys, Buy
    <3> QED
      BY <1>1, <2>1, <2>2, <3>1 DEF EditsItsOwn, Tick
  <2> QED
    BY <2>1, <2>2, <2>3 DEF JobIsSound, Knows, Tick
<1> QED
  BY <1>1, <1>2 DEF BuyInv, JobsAreSound, Tick, At

\* A damaged file refutes nothing that a call knows of it.
LEMMA DamageStep ==
  ASSUME BuyInv, Damage
  PROVE  BuyInv'
<1>1. TypeOK' /\ FlockIsInside'
  BY DEF BuyInv, TypeOK, FlockIsInside, At, Damage
<1>2. JobsAreSound'
  BY DEF BuyInv, JobsAreSound, JobIsSound, Knows, Keeps, EditsItsOwn, At, Damage
<1> QED
  BY <1>1, <1>2 DEF BuyInv

-----------------------------------------------------------------------------
\* One thread at a time is inside the guard, and knows what the file holds.
THEOREM BuyMemoryInvariant == Spec => []BuyInv
<1>1. Init => BuyInv
  BY DEF Init, BuyInv, TypeOK, FlockIsInside, JobsAreSound, At, Inside, Idle, NoBuys, Buys
<1>2. BuyInv /\ [Next]_vars => BuyInv'
  <2> SUFFICES ASSUME BuyInv, [Next]_vars PROVE BuyInv'
    OBVIOUS
  <2>1. ASSUME NEW w \in Workers, Enter(w) \/ TakeFlock(w) \/ OpenFails(w) \/ Inner(w)
        PROVE  BuyInv'
    BY <2>1, EnterStep, TakeFlockStep, LoadStep, WriteTmpStep, ReplaceStep,
       SaveFailsStep, AnswerStep, LeaveStep DEF Inner
  <2>2. CASE UNCHANGED vars
    BY <2>2 DEF vars, BuyInv, TypeOK, FlockIsInside, JobsAreSound, JobIsSound, Knows,
                Keeps, EditsItsOwn, At
  <2> QED
    BY <2>1, <2>2, KillStep, TickStep, DamageStep DEF Next
<1> QED
  BY <1>1, <1>2, PTL DEF Spec

\* The file, its locks and the calls have their types.
THEOREM BuyMemoryTypeCorrect == Spec => []TypeOK
BY BuyMemoryInvariant, PTL DEF BuyInv

\* A verdict of the guard is that of the file at that moment, and no sell is
\* refused that is not below the base tolerance.
THEOREM VerdictsMatch == Spec => []VerdictMatchesFile
<1>1. ASSUME BuyInv, NEW w \in Workers, At(w, {"approved", "refused"}),
             ~job[w].blind, file # Corrupt
      PROVE  LET c == job[w].call IN
             /\ At(w, {"refused"}) <=> Refuses(file[c.symbol], c.price, c.atr)
             /\ At(w, {"refused"}) => Below(c.price, file[c.symbol].price, BaseBps)
  <2> DEFINE c == job[w].call
  <2>1. At(w, Inside) /\ TypeOK
    BY <1>1 DEF At, Inside, BuyInv
  <2>2. /\ file = job[w].data /\ c.op = "guard"
        /\ At(w, {"refused"}) <=> Refuses(job[w].data[c.symbol], c.price, c.atr)
    BY <1>1, <2>1 DEF BuyInv, JobsAreSound, JobIsSound, Knows, At
  <2>3. /\ job[w].data[c.symbol] \in Buy \cup {None}
        /\ c.price \in Prices /\ c.atr \in AtrBps
    BY <2>1, <2>2, InsideJob DEF Buys
  <2> QED
    BY <2>2, <2>3, RefusedIsBelow
<1>2. BuyInv => VerdictMatchesFile
  BY <1>1 DEF VerdictMatchesFile
<1> QED
  BY <1>2, BuyMemoryInvariant, PTL

\* When record_buy_price returns its buy is on disk.
THEOREM RecordsAreOnDisk == Spec => []RecordedBuyIsOnDisk
<1>1. BuyInv => RecordedBuyIsOnDisk
  BY DEF BuyInv, JobsAreSound, JobIsSound, RecordedBuyIsOnDisk, At, Inside, Op
<1> QED
  BY <1>1, BuyMemoryInvariant, PTL

-----------------------------------------------------------------------------
(* The refinement of FloorMap.                                             *)

\* What the abstract map is while a call is inside, by the call's step.
LEMMA SurvivingBase ==
  ASSUME BuyInv, NEW w \in Workers, At(w, {"loaded", "written"}),
         Op(w) # "forget_all", ~job[w].blind
  PROVE  Surviving = job[w].base
<1>1. At(w, Inside)
  BY DEF At, Inside
<1>2. flock = w /\ flock # None
  BY <1>1, Alone, SentinelAssumption DEF BuyInv
<1>3. Knows(job[w], job[w].base)
  BY <1>1 DEF BuyInv, JobsAreSound, JobIsSound, At, Op
<1> QED
  BY <1>2, <1>3 DEF Surviving, Knows

\* Damage and lost copies of a damaged file are the Damage of FloorMap.
LEMMA LostIsDamage ==
  ASSUME file' = Corrupt, Surviving' = NoBuys
  PROVE  FM!FMNext
BY DEF FM!FMNext, FM!Damage, FM!NoBuys, NoBuys

\* A step that leaves the file alone, and an insider's base as long as it may
\* still write it back, is a stutter, or loses what was left of a damaged file.
LEMMA FileStays ==
  ASSUME file' = file,
         \/ flock' = None \/ job'[flock'].step \notin {"loaded", "written"}
         \/ Surviving' = Surviving
  PROVE  [FM!FMNext]_Surviving
<1>1. CASE Surviving' = Surviving
  BY <1>1
<1>2. CASE file # Corrupt
  BY <1>2 DEF Surviving
<1>3. CASE /\ file = Corrupt
           /\ flock' = None \/ job'[flock'].step \notin {"loaded", "written"}
  <2>1. Surviving' = NoBuys
    BY <1>3 DEF Surviving, At
  <2> QED
    BY <1>3, <2>1, LostIsDamage
<1> QED
  BY <1>1, <1>2, <1>3

\* A call that has loaded works on the map that was there when it loaded.
LEMMA LoadRefines ==
  ASSUME BuyInv, BuyInv', NEW w \in Workers, Load(w) \/ LoadFails(w) \/ Quarantine(w)
  PROVE  Surviving' = Surviving
<1>1. At(w, {"guarded"}) /\ At(w, Inside) /\ TypeOK
  BY DEF Load, LoadFails, Quarantine, At, Inside, BuyInv
<1>2. flock = w /\ flock' = w /\ flock # None
  BY <1>1, Alone, SentinelAssumption DEF BuyInv, Load, LoadFails, Quarantine
<1>3. Surviving = IF file # Corrupt THEN file ELSE NoBuys
  BY <1>1, <1>2 DEF Surviving, At
<1>4. job[w] \in Job
  BY <1>1, InsideJob
<1>5. CASE Load(w)
  BY <1>3, <1>5 DEF Load, Surviving
<1>6. CASE LoadFails(w) \/ Quarantine(w)
  <2>1. Loaded(w, NoBuys, TRUE) \/ Loaded(w, NoBuys, FALSE)
    BY <1>6 DEF LoadFails, Quarantine
  <2>2. job'[w].step = "loaded" /\ job'[w].base = NoBuys
    BY <1>1, <1>4, <2>1 DEF Loaded, TypeOK, Job
  <2>3. Surviving' = IF file' # Corrupt THEN file' ELSE NoBuys
    BY <1>2, <2>2 DEF Surviving, At
  <2>4. file' = file \/ (file = Corrupt /\ file' \in {NoBuys, Corrupt})
    BY <1>6 DEF LoadFails, Quarantine
  <2> QED
    BY <1>3, <2>3, <2>4
<1> QED
  BY <1>5, <1>6

\* Writing the temporary file changes no base.
LEMMA WriteTmpRefines ==
  ASSUME BuyInv, NEW w \in Workers, WriteTmp(w)
  PROVE  Surviving' = Surviving
<1>1. At(w, {"guarded", "loaded"}) /\ At(w, Inside) /\ TypeOK
  BY DEF WriteTmp, NeedsSave, At, Inside, BuyInv
<1>2. flock = w /\ flock' = w /\ flock # None /\ file' = file
  BY <1>1, Alone, SentinelAssumption DEF BuyInv, WriteTmp
<1>3. job[w] \in Job /\ JobIsSound(job[w])
  BY <1>1, InsideJob DEF BuyInv, JobsAreSound
<1>4. job'[w].step = "written" /\ job'[w].base = job[w].base
  BY <1>1, <1>3 DEF WriteTmp, TypeOK, Job
<1>5. Surviving' = IF file # Corrupt THEN file ELSE job[w].base
  BY <1>2, <1>4 DEF Surviving, At
<1>6. Surviving = IF file # Corrupt THEN file ELSE job[w].base
  BY <1>1, <1>2, <1>3 DEF Surviving, JobIsSound, At
<1> QED
  BY <1>5, <1>6

\* Replacing the file is the one step of the call of FloorMap.
LEMMA ReplaceRefines ==
  ASSUME BuyInv, NEW w \in Workers, Replace(w)
  PROVE  FM!FMNext
<1> DEFINE j == job[w]
           c == [call |-> j.call, blind |-> j.blind]
           cs == {[call |-> job[v].call, blind |-> job[v].blind] :
                    v \in {u \in Workers : At(u, Inside)}}
<1>1. At(w, {"written"}) /\ At(w, Inside) /\ TypeOK
  BY DEF Replace, At, Inside, BuyInv
<1>2. /\ j \in Job /\ j.base \in Buys /\ j.data \in Buys
      /\ j.call.op # "forget_all" => j.call.symbol \in Symbols
      /\ j.call.op \in {"record", "guard", "forget", "forget_all"}
  BY <1>1, InsideJob
<1>3. EditsItsOwn(j) /\ (j.blind => j.base = NoBuys)
  BY <1>1 DEF BuyInv, JobsAreSound, JobIsSound, At
<1>4. c \in cs
  BY <1>1
<1>5. Surviving' = j.data
  BY <1>2, SentinelAssumption DEF Replace, Surviving
<1>6. Op(w) # "forget_all" /\ ~j.blind => Surviving = j.base
  BY <1>1, SurvivingBase DEF At
<1>7. ASSUME NEW s \in Symbols, Keeps(j, s), j.call.op # "forget_all"
      PROVE  FM!Kept(c, s)
  <2>1. CASE j.blind
    BY <1>3, <1>5, <1>7, <2>1 DEF FM!Kept, Keeps, NoBuys
  <2>2. CASE ~j.blind
    BY <1>5, <1>6, <1>7, <2>2 DEF FM!Kept, FM!Expired, Keeps, Stale, Op
  <2> QED
    BY <2>1, <2>2
<1>8. c.call = j.call
  OBVIOUS
<1> HIDE DEF c, cs
<1>9. FM!Record(c) \/ FM!Guard(c) \/ FM!Forget(c) \/ FM!ForgetAll(c)
  <2>1. CASE j.call.op = "record"
    BY <1>2, <1>3, <1>5, <1>7, <1>8, <2>1 DEF FM!Record, FM!OthersKept, EditsItsOwn
  <2>2. CASE j.call.op = "guard"
    BY <1>3, <1>7, <1>8, <2>2 DEF FM!Guard, EditsItsOwn
  <2>3. CASE j.call.op = "forget"
    BY <1>2, <1>3, <1>5, <1>7, <1>8, <2>3 DEF FM!Forget, FM!OthersKept, EditsItsOwn
  <2>4. CASE j.call.op = "forget_all"
    BY <1>3, <1>5, <1>8, <2>4 DEF FM!ForgetAll, FM!NoBuys, NoBuys, EditsItsOwn
  <2> QED
    BY <1>2, <2>1, <2>2, <2>3, <2>4
<1> QED
  BY <1>4, <1>9 DEF FM!FMNext, cs

\* Steps into the guard, to its verdict and out of it, and kills.
LEMMA OthersRefine ==
  ASSUME BuyInv,
         \/ \E w \in Workers : \/ Enter(w) \/ OpenFails(w) \/ TakeFlock(w)
                               \/ SaveFails(w) \/ Answer(w) \/ Leave(w)
         \/ \E p \in Procs : Kill(p)
  PROVE  [FM!FMNext]_Surviving
<1>1. ASSUME NEW w \in Workers, Enter(w) \/ OpenFails(w)
      PROVE  [FM!FMNext]_Surviving
  <2>1. flock # None => job'[flock] = job[flock]
    BY <1>1 DEF BuyInv, TypeOK, FlockIsInside, Enter, OpenFails, At, Inside, Idle, Waiting
  <2>2. flock' = flock /\ file' = file
    BY <1>1 DEF Enter, OpenFails
  <2>3. Surviving' = Surviving
    BY <2>1, <2>2 DEF Surviving, At
  <2> QED
    BY <2>3
<1>2. ASSUME NEW w \in Workers, TakeFlock(w) \/ SaveFails(w) \/ Answer(w)
      PROVE  [FM!FMNext]_Surviving
  <2>1. TypeOK /\ flock' = w /\ file' = file
    BY <1>2, Alone DEF TakeFlock, SaveFails, NeedsSave, Answer, BuyInv, At, Inside
  <2>2. job'[w].step \in {"guarded", "failed", "refused", "approved"}
    <3>1. CASE TakeFlock(w)
      BY <2>1, <3>1 DEF TakeFlock, Begin, TypeOK
    <3>2. CASE SaveFails(w) \/ Answer(w)
      <4>1. job[w] \in Job
        BY <2>1, <3>2, InsideJob DEF SaveFails, NeedsSave, Answer, At, Inside
      <4> QED
        BY <2>1, <3>2, <4>1 DEF SaveFails, Answer, Go, TypeOK, Job
    <3> QED
      BY <1>2, <3>1, <3>2
  <2> QED
    BY <2>1, <2>2, FileStays DEF At
<1>3. ASSUME NEW w \in Workers, Leave(w)
      PROVE  [FM!FMNext]_Surviving
  BY <1>3, FileStays DEF Leave
<1>4. ASSUME NEW p \in Procs, Kill(p)
      PROVE  [FM!FMNext]_Surviving
  <2>1. file' = file /\ flock' \in {flock, None}
    BY <1>4 DEF Kill
  <2>2. CASE flock' = None
    BY <2>1, <2>2, FileStays
  <2>3. CASE flock' # None
    <3>1. flock' = flock /\ job'[flock] = job[flock]
      BY <1>4, <2>3 DEF Kill, BuyInv, TypeOK
    <3>2. Surviving' = Surviving
      BY <2>1, <3>1 DEF Surviving, At
    <3> QED
      BY <3>2
  <2> QED
    BY <2>2, <2>3
<1> QED
  BY <1>1, <1>2, <1>3, <1>4

\* A damaged file is lost, or still in the hands of the call inside.
LEMMA DamageRefines ==
  ASSUME BuyInv, Damage
  PROVE  [FM!FMNext]_Surviving
<1>1. /\ file' = Corrupt /\ flock' = flock /\ job' = job
      /\ Surviving' = IF flock # None /\ At(flock, {"loaded", "written"})
                        THEN job[flock].base ELSE NoBuys
  BY DEF Damage, Surviving, At
<1>2. CASE Surviving' = NoBuys
  BY <1>1, <1>2, LostIsDamage
<1>3. CASE Surviving' # NoBuys
  <2>1. /\ flock \in Workers /\ At(flock, {"loaded", "written"})
        /\ job[flock].base # NoBuys
    BY <1>1, <1>3 DEF BuyInv, TypeOK
  <2>2. JobIsSound(job[flock])
    BY <2>1 DEF BuyInv, JobsAreSound, At, Inside
  <2>3. Op(flock) # "forget_all" /\ ~job[flock].blind
    BY <2>1, <2>2 DEF JobIsSound, EditsItsOwn, At, Op
  <2>4. Surviving = job[flock].base
    BY <2>1, <2>3, SurvivingBase
  <2> QED
    BY <1>1, <1>3, <2>4
<1> QED
  BY <1>2, <1>3

\* The calls behave like the atomic calls of FloorMap: each step of the file,
\* its locks and its callers is one call, a loss by damage, or a stutter.
THEOREM BuyMemoryImplements == Spec => ImplementsFloorMap
<1>1. Init => FM!FMInit
  BY SentinelAssumption DEF Init, FM!FMInit, FM!NoBuys, Surviving, NoBuys, Buys
<1>2. BuyInv /\ BuyInv' /\ [Next]_vars => [FM!FMNext]_Surviving
  <2> SUFFICES ASSUME BuyInv, BuyInv', [Next]_vars PROVE [FM!FMNext]_Surviving
    OBVIOUS
  <2>1. ASSUME NEW w \in Workers, Enter(w) \/ TakeFlock(w) \/ OpenFails(w) \/ Inner(w)
        PROVE  [FM!FMNext]_Surviving
    BY <2>1, LoadRefines, WriteTmpRefines, ReplaceRefines, OthersRefine DEF Inner
  <2>2. CASE Tick \/ UNCHANGED vars
    <3>1. Surviving' = Surviving
      BY <2>2 DEF Tick, vars, Surviving, At
    <3> QED
      BY <3>1
  <2> QED
    BY <2>1, <2>2, OthersRefine, DamageRefines DEF Next
<1> QED
  BY <1>1, <1>2, BuyMemoryInvariant, PTL DEF Spec, ImplementsFloorMap, FM!FMSpec
=============================================================================
