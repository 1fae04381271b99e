------------------------------ MODULE Pipeline ------------------------------
(***************************************************************************)
(* From an exchange to a training set.  Three offline programs share the   *)
(* file system without any lock: "cache" (forecast/build_kraken_cache.py)  *)
(* fetches bars and writes a forecast file per symbol and horizon; "data"  *)
(* (sim/kraken_data.py, or sim/export_data.py on price dumps) builds the   *)
(* market data file and joins the forecasts into it; "train"               *)
(* (models/xgb/train.py) reads that file and writes a model.  Any of them  *)
(* may be killed after any step, while the market goes on.                 *)
(*                                                                         *)
(* tape[s][h] is the last price of hour h, 0 if nobody traded.  The bar of *)
(* the hour that is running is offered too, at the price of the moment.    *)
(***************************************************************************)
EXTENDS Bars, MarketFile, Technical

CONSTANTS
  LastHour, FirstHour,     \* bounds: the clock runs from the first to the last
  Since,                   \* --since: the first hour asked for
  Tapes,                   \* the markets to choose from
  Forming,                 \* the price of a bar that is still forming
  KrakenWindow, PageLimit, \* bars that Kraken offers at all; bars in a page
  BinanceSymbols, Dumped,  \* symbols with a USDT pair; with a price dump
  DumpEnd,                 \* the dumps hold the hours below
  MinRows,                 \* export's min_rows
  Horizon, SplitPct,       \* the label's horizon in bars; train_frac in percent
  OldFiles,                \* the words of an earlier market data file, <<>> for none
  None, Failed             \* no value; a file that cannot be read

ASSUME PipelineAssumption ==
  /\ LastHour \in Nat /\ FirstHour \in 1..LastHour /\ DumpEnd \in 0..FirstHour
  /\ Since \in Nat /\ MinRows \in Nat \ {0} /\ None \notin Nat
  /\ Tapes \subseteq [ToSet(Symbols) -> [0..LastHour -> Nat]]
  /\ PriceFeatures = Len(Price(ZeroBar))
  /\ KrakenWindow \in Nat \ {0} /\ PageLimit \in Nat /\ PageLimit > 1
  /\ Forming \in Nat \ {0} /\ Horizon \in Nat \ {0} /\ SplitPct \in 1..100

\* An earlier file is a sequence of words whose header has numbers.
ASSUME OldFilesAssumption ==
  \A w \in OldFiles :
    /\ Len(w) \in Nat /\ w = [i \in 1..Len(w) |-> w[i]]
    /\ \A h \in ReadHeader(w) : h.ns \in Nat /\ h.nt \in Nat /\ h.fps \in Nat \ {0}

Sym == ToSet(Symbols)
Hours == 0..LastHour
Jobs == {"cache", "data"}
Sources == {"dump", "binance", "kraken"}

VARIABLES
  tape, clock,
  cache,      \* cache[s][h]: rows of the forecast file, None if absent, Failed if torn
  file,       \* the words of the market data file
  whole,      \* history: the words it has, or would have, when complete
  job,        \* job[j]: the program j, see Idle
  train,      \* the training run: what it has read, and its samples
  artifact    \* the files of the model that are written

vars == <<tape, clock, cache, file, whole, job, train, artifact>>

Ended == {"done", "dead"}

Idle ==
  [pc |-> "idle", plan |-> "none",
   forecasts |-> FALSE,       \* --forecast-cache was given
   todo |-> <<>>,             \* what is left of the loop that runs
   cursor |-> None, until |-> 0,
   got |-> [src \in Sources |-> [s \in Sym |-> <<>>]],
   joined |-> [s \in Sym |-> None],
   chunks |-> <<>>]           \* writes of the market data file still to do

-----------------------------------------------------------------------------
(* The exchanges *)

Traded(s) == {h \in Hours : tape[s][h] > 0}
Offered(src, s) ==
  LET all == {h \in Traded(s) : h <= clock}
  IN  IF src = "kraken" THEN {h \in all : Cardinality({x \in all : x > h}) < KrakenWindow} ELSE all

\* Binance answers from since on; Kraken ignores since.
Batch(src, s, since) ==
  IF src = "kraken" THEN Offered(src, s)
  ELSE {h \in Offered(src, s) :
          h >= since /\ Cardinality({x \in Offered(src, s) : since <= x /\ x < h}) < PageLimit}

\* The two exchanges differ by a basis of 1; odd hours have a wick.
Quote(src, s, h) ==
  LET c == (IF h = clock THEN Forming ELSE tape[s][h])
             + (IF src = "binance" THEN 1 ELSE 0)
  IN  [high |-> c + (h % 2), low |-> c, close |-> c]

\* The OHLCV dump on disk: complete bars up to its end, none for some symbols.
Dump(s) ==
  IF s \notin Dumped THEN <<>>
  ELSE [h \in {x \in Traded(s) : x < DumpEnd} |->
          [high |-> tape[s][h] + (h % 2), low |-> tape[s][h], close |-> tape[s][h]]]

-----------------------------------------------------------------------------
(* Fetching *)

FetchBinance == At(Symbols, {i \in DOMAIN Symbols : Symbols[i] \in BinanceSymbols})

\* The fetches of a run: the backfill first, then Kraken.
FetchPlan(plan) ==
  LET items(src, syms) == [i \in DOMAIN syms |-> <<src, syms[i]>>]
  IN  (CASE plan = "binance" -> items("binance", FetchBinance)
         [] plan = "dump"    -> items("dump", Symbols)
         [] OTHER            -> <<>>) \o items("kraken", Symbols)

\* Bound: two fetches do not overlap; they share nothing but the clock.
Start(j, plan, forecasts) ==
  /\ job[j].pc = "idle" /\ \A k \in Jobs : job[k].pc # "fetch"
  /\ j = "cache" => plan \in {"none", "binance"} /\ ~forecasts
  /\ plan = "export" => forecasts
  /\ job' = [job EXCEPT ![j] = [Idle EXCEPT
               !.pc = IF plan = "export" THEN "export" ELSE "fetch",
               !.plan = plan, !.forecasts = forecasts,
               !.todo = IF plan = "export" THEN Symbols ELSE FetchPlan(plan)]]
  /\ UNCHANGED <<tape, clock, cache, file, whole, train, artifact>>

\* Mutant of OpenFetch: the end of the fetch is the end of the running hour.
OpenFetchToHourEnd(j) ==
  /\ job[j].pc = "fetch" /\ job[j].todo # <<>> /\ job[j].cursor = None
  /\ Head(job[j].todo)[1] # "dump"
  /\ job' = [job EXCEPT ![j].cursor = Since, ![j].until = clock + 1]
  /\ UNCHANGED <<tape, clock, cache, file, whole, train, artifact>>

\* A dump is loaded in one go; a paged fetch fixes its end when it starts.
OpenFetch(j) ==
  /\ job[j].pc = "fetch" /\ job[j].todo # <<>> /\ job[j].cursor = None
  /\ LET src == Head(job[j].todo)[1]
         s == Head(job[j].todo)[2]
     IN  job' = IF src = "dump"
                THEN [job EXCEPT ![j].got["dump"][s] = Dump(s), ![j].todo = Tail(@)]
                ELSE [job EXCEPT ![j].cursor = Since, ![j].until = clock]
  /\ UNCHANGED <<tape, clock, cache, file, whole, train, artifact>>

\* Mutant of NextCursor: a page that moves the cursor by one bar is the last.
NextCursorOneBar(batch, cursor, until) ==
  IF batch = {} \/ Max(batch) <= cursor + 1 \/ Max(batch) + 1 > until THEN None
  ELSE Max(batch) + 1

\* Mutant of NextCursor: the loop does not look whether the cursor moves.
NextCursorBlind(batch, cursor, until) ==
  IF batch = {} \/ Max(batch) + 1 > until THEN None ELSE Max(batch) + 1

\* Where the next page starts, or None: no bar, no progress, or the end.
NextCursor(batch, cursor, until) ==
  IF batch = {} \/ Max(batch) < cursor + 1 \/ Max(batch) + 1 > until THEN None
  ELSE Max(batch) + 1

FetchPage(j) ==
  /\ job[j].pc = "fetch" /\ job[j].cursor # None
  /\ \E item \in {Head(job[j].todo)} : \E batch \in {Batch(item[1], item[2], job[j].cursor)} :
     \E page \in {[h \in {x \in batch : x <= job[j].until} |-> Quote(item[1], item[2], h)]},
        next \in {NextCursor(batch, job[j].cursor, job[j].until)} :
       job' = [job EXCEPT ![j].got[item[1]][item[2]] = Update(@, page),
                          ![j].cursor = next,
                          ![j].todo = IF next = None THEN Tail(@) ELSE @]
  /\ UNCHANGED <<tape, clock, cache, file, whole, train, artifact>>

\* A program that raises, exits or is killed loses what it holds in memory.
Die(j) == job' = [job EXCEPT ![j] = [Idle EXCEPT !.pc = "dead"]]

Series(j) == MergeSeries(<<job[j].got["dump"], job[j].got["binance"], job[j].got["kraken"]>>)

-----------------------------------------------------------------------------
(* forecast/build_kraken_cache.py, after the fetch *)

\* A file per symbol with bars and horizon with rows, in this order.
CachePlan(series) ==
  LET pairs == [k \in 1..(Len(Present(series)) * Len(Horizons)) |->
                  <<Present(series)[1 + (k - 1) \div Len(Horizons)],
                    Horizons[1 + ((k - 1) % Len(Horizons))]>>]
      rows(x) == ForecastRows(x[1], series[x[1]], x[2])
  IN  At(pairs, {k \in DOMAIN pairs : rows(pairs[k]) # <<>>})

BeginCache ==
  /\ job["cache"].pc = "fetch" /\ job["cache"].todo = <<>>
  /\ job' = [job EXCEPT !["cache"].pc = "write", !["cache"].todo = CachePlan(Series("cache"))]
  /\ UNCHANGED <<tape, clock, cache, file, whole, train, artifact>>

\* write_cache raises before it touches the file, truncates it, completes it.
WriteCache ==
  /\ job["cache"].pc = "write" /\ job["cache"].todo # <<>>
  /\ \E s \in {Head(job["cache"].todo)[1]}, h \in {Head(job["cache"].todo)[2]} :
     \E rows \in {ForecastRows(s, Series("cache")[s], h)} :
       IF ~AssertNoLeakage(rows)
       THEN Die("cache") /\ UNCHANGED cache
       ELSE IF job["cache"].cursor = None
       THEN /\ cache' = [cache EXCEPT ![s][h] = Failed]
            /\ job' = [job EXCEPT !["cache"].cursor = 0]
       ELSE /\ cache' = [cache EXCEPT ![s][h] = rows]
            /\ job' = [job EXCEPT !["cache"].cursor = None, !["cache"].todo = Tail(@)]
  /\ UNCHANGED <<tape, clock, file, whole, train, artifact>>

EndCache ==
  /\ job["cache"].pc = "write" /\ job["cache"].todo = <<>>
  /\ job' = [job EXCEPT !["cache"] = [Idle EXCEPT !.pc = "done"]]
  /\ UNCHANGED <<tape, clock, cache, file, whole, train, artifact>>

-----------------------------------------------------------------------------
(* sim/kraken_data.py and sim/export_data.py, after the fetch *)

\* load_forecast for the horizons in their order: the first file that is
\* missing (None) or unreadable (Failed) decides.
LoadForecasts(s) ==
  LET bad == {k \in DOMAIN Horizons : cache[s][Horizons[k]] \in {None, Failed}}
  IN  IF bad = {} THEN cache[s] ELSE cache[s][Horizons[Min(bad)]]

Align ==
  /\ job["data"].pc = "fetch" /\ job["data"].todo = <<>>
  /\ IF Alignable(Series("data"))
     THEN job' = [job EXCEPT !["data"].pc = "join",
                    !["data"].todo = IF job["data"].forecasts THEN Present(Series("data")) ELSE <<>>]
     ELSE Die("data")
  /\ UNCHANGED <<tape, clock, cache, file, whole, train, artifact>>

JoinForecasts ==
  /\ job["data"].pc = "join" /\ job["data"].todo # <<>>
  /\ LET s == Head(job["data"].todo)
         fc == LoadForecasts(s)
     IN  IF fc = Failed THEN Die("data")
         ELSE job' = [job EXCEPT !["data"].joined[s] = fc, !["data"].todo = Tail(@)]
  /\ UNCHANGED <<tape, clock, cache, file, whole, train, artifact>>

FeaturesPerSym == Len(Horizons) + 8

\* The forecast words of symbol s in the row of hour h; zeros are NoForecast.
ForecastWords(s, h) ==
  [k \in DOMAIN Horizons |->
     IF job["data"].joined[s] = None THEN NoForecast
     ELSE Reindex(job["data"].joined[s][Horizons[k]], h)]

\* open("wb") truncates; what is still to be written follows in three writes.
Write(names, features, prices) ==
  job' = [job EXCEPT !["data"].pc = "write",
            !["data"].chunks = <<<<>>>> \o MarketBin(names, features, prices, FeaturesPerSym)]

BuildBin ==
  /\ job["data"].pc = "join" /\ job["data"].todo = <<>>
  /\ \E series \in {Series("data")} :
     \E kept \in {Present(series)}, hours \in {GridFirst(series)..GridLast(series)} :
     \E column \in {[i \in DOMAIN kept |-> Column(series[kept[i]], Min(hours), Max(hours))]} :
     \E tech \in {[i \in DOMAIN kept |-> TechnicalFeatures(column[i])]} :
       Write(kept,
             [t \in DOMAIN column[1] |-> [i \in DOMAIN kept |->
                ForecastWords(kept[i], Min(hours) + t - 1) \o tech[i][t]]],
             [t \in DOMAIN column[1] |-> [i \in DOMAIN kept |-> Price(column[i][t])]])
  /\ UNCHANGED <<tape, clock, cache, file, whole, train, artifact>>

\* export_binary's loop: a symbol without a file or with too few rows is skipped.
ExportSymbol ==
  /\ job["data"].pc = "export" /\ job["data"].todo # <<>>
  /\ LET s == Head(job["data"].todo)
         fc == IF s \in Dumped THEN LoadForecasts(s) ELSE None
         valid == {h \in DOMAIN Dump(s) :
                     \A k \in DOMAIN Horizons : Reindex(fc[Horizons[k]], h) # NoForecast}
     IN  IF fc = Failed THEN Die("data")
         ELSE IF fc # None /\ Cardinality(valid) >= MinRows
         THEN job' = [job EXCEPT !["data"].todo = Tail(@), !["data"].joined[s] = fc,
                                 !["data"].got["dump"][s] = Restrict(Dump(s), valid)]
         ELSE job' = [job EXCEPT !["data"].todo = Tail(@)]
  /\ UNCHANGED <<tape, clock, cache, file, whole, train, artifact>>

\* reindex(hours).ffill().bfill()
Refill(bars, h) ==
  LET before == {x \in DOMAIN bars : x <= h}
  IN  IF before # {} THEN bars[Max(before)] ELSE bars[Min(DOMAIN bars)]

CommonIndex(series) ==
  {h \in Hours : \A s \in ToSet(Present(series)) : h \in DOMAIN series[s]}

\* The features of a symbol are computed on all rows of its dump.
DumpFeatures(s, h) ==
  LET rows == Ascending(DOMAIN Dump(s))
  IN  PandasFeatures([i \in DOMAIN rows |-> Dump(s)[rows[i]]])[CHOOSE i \in DOMAIN rows : rows[i] = h]

EndExport ==
  /\ job["data"].pc = "export" /\ job["data"].todo = <<>>
  /\ \E series \in {job["data"].got["dump"]} :
     \E kept \in {Present(series)}, common \in {CommonIndex(series)} :
     \E hours \in {Ascending({h \in common : h >= Since})} :
       IF kept = <<>> \/ Cardinality(common) < MinRows \/ Len(hours) < MinRows
       THEN Die("data")
       ELSE Write(kept,
                  [t \in DOMAIN hours |-> [i \in DOMAIN kept |->
                     ForecastWords(kept[i], hours[t]) \o DumpFeatures(kept[i], hours[t])]],
                  [t \in DOMAIN hours |-> [i \in DOMAIN kept |->
                     Price(Refill(series[kept[i]], hours[t]))]])
  /\ UNCHANGED <<tape, clock, cache, file, whole, train, artifact>>

\* Opening empties the file that was there, whoever reads it.
WriteChunk ==
  /\ job["data"].pc = "write" /\ job["data"].chunks # <<>>
  /\ LET next == Head(job["data"].chunks)
         left == Tail(job["data"].chunks)
     IN  /\ file' = IF next = <<>> THEN <<>> ELSE file \o next
         /\ whole' = IF next = <<>> THEN (left[1] \o left[2]) \o left[3] ELSE whole
         /\ job' = [job EXCEPT !["data"].chunks = left]
  /\ UNCHANGED <<tape, clock, cache, train, artifact>>

\* kraken_data reads the header of what it wrote.
EndData ==
  /\ job["data"].pc = "write" /\ job["data"].chunks = <<>>
  /\ IF job["data"].plan # "export" /\ ReadHeader(file) = {}
     THEN Die("data") ELSE job' = [job EXCEPT !["data"].pc = "done"]
  /\ UNCHANGED <<tape, clock, cache, file, whole, train, artifact>>

-----------------------------------------------------------------------------
(* models/xgb/train.py: the file is opened anew for every block, so that   *)
(* what is read may be of two files; train.read (history) is the files.    *)
(* Bound: binpack opens the file for its header and again for the block;   *)
(* both are one step here.                                                 *)

NotTrained ==
  [pc |-> "features", read |-> {}, features |-> None, prices |-> None, samples |-> <<>>]
TrainFails == train' = [NotTrained EXCEPT !.pc = "dead"]

TrainReads(pc, next, block, read) ==
  /\ train.pc = pc
  /\ IF read = {} THEN TrainFails
     ELSE \E rows \in read :
            train' = [train EXCEPT !.pc = next, ![block] = rows, !.read = @ \cup {whole}]
  /\ UNCHANGED <<tape, clock, cache, file, whole, job, artifact>>

\* Bound: training does not start before there is a file, nor while the cache
\* program runs, which it has nothing to do with.
TrainReadsFeatures ==
  /\ job["data"].pc \in {"write"} \cup Ended /\ job["cache"].pc \in {"idle"} \cup Ended
  /\ TrainReads("features", "prices", "features", ReadFeatures(file))
TrainReadsPrices == TrainReads("prices", "dataset", "prices", ReadPrices(file))

\* Mutant of TMax: train_frac is forgotten.
TMaxAll(nt) == nt

TMax(nt) == (nt * SplitPct) \div 100
CloseAt(prices, t, i) == prices[t][i][PriceFeatures]

\* What build_dataset looks at for row p[1] and symbol p[2]; the blocks that
\* were read before need not have it.
HasRow(p) ==
  /\ p[1] + Horizon \in DOMAIN train.prices /\ p[2] \in DOMAIN train.prices[1]
  /\ p[1] \in DOMAIN train.features /\ p[2] \in DOMAIN train.features[1]
Now(p) == CloseAt(train.prices, p[1], p[2])
Samples(rows) ==
  [p \in {q \in rows : Now(q) > 0} |->
     [x |-> train.features[p[1]][p[2]],
      y |-> CloseAt(train.prices, p[1] + Horizon, p[2]) > Now(p)]]

\* build_dataset: rows whose label lies below the split; a row that is not
\* there raises IndexError.
BuildDataset ==
  /\ train.pc = "dataset"
  /\ IF ReadHeader(file) = {} THEN TrainFails
     ELSE \E h \in ReadHeader(file) : \E rows \in {(1..(TMax(h.nt) - Horizon)) \X (1..h.ns)} :
       IF (\E p \in rows : ~HasRow(p)) \/ (\A p \in rows : Now(p) = 0) THEN TrainFails
       ELSE train' = [train EXCEPT !.pc = "model", !.samples = Samples(rows),
                                   !.read = @ \cup {whole}]
  /\ UNCHANGED <<tape, clock, cache, file, whole, job, artifact>>

\* The model is on disk before the names are read for its metadata.
SaveModel ==
  /\ train.pc = "model"
  /\ train' = [train EXCEPT !.pc = "metadata"]
  /\ artifact' = artifact \cup {"model"}
  /\ UNCHANGED <<tape, clock, cache, file, whole, job>>

SaveMetadata ==
  /\ train.pc = "metadata"
  /\ IF ReadSymbols(file) = {}
     THEN TrainFails /\ UNCHANGED artifact
     ELSE train' = [train EXCEPT !.pc = "done"] /\ artifact' = artifact \cup {"metadata"}
  /\ UNCHANGED <<tape, clock, cache, file, whole, job>>

-----------------------------------------------------------------------------
\* Bound: time stands still once no program looks at the clock any more.
Tick == /\ clock < LastHour /\ \E j \in Jobs : job[j].pc \in {"idle", "fetch"}
        /\ clock' = clock + 1
        /\ UNCHANGED <<tape, cache, file, whole, job, train, artifact>>

Kill(j) ==
  /\ job[j].pc \notin Ended \cup {"idle"}
  /\ Die(j)
  /\ UNCHANGED <<tape, clock, cache, file, whole, train, artifact>>

KillTrain ==
  /\ train.pc \notin Ended \cup {"features"}
  /\ TrainFails
  /\ UNCHANGED <<tape, clock, cache, file, whole, job, artifact>>

Init ==
  /\ tape \in Tapes /\ clock = FirstHour
  /\ cache = [s \in Sym |-> [h \in ToSet(Horizons) |-> None]]
  /\ file \in OldFiles /\ whole = file
  /\ job = [j \in Jobs |-> Idle]
  /\ train = NotTrained /\ artifact = {}

CacheStep == OpenFetch("cache") \/ FetchPage("cache") \/ BeginCache \/ WriteCache \/ EndCache
DataStep == \/ OpenFetch("data") \/ FetchPage("data") \/ Align \/ JoinForecasts \/ BuildBin
            \/ ExportSymbol \/ EndExport \/ WriteChunk \/ EndData
TrainStep == TrainReadsPrices \/ BuildDataset \/ SaveModel \/ SaveMetadata

Next ==
  \/ Tick
  \/ \E j \in Jobs, plan \in {"none", "binance", "dump", "export"}, f \in BOOLEAN :
       Start(j, plan, f)
  \/ CacheStep \/ DataStep
  \/ TrainReadsFeatures \/ TrainStep
  \/ \E j \in Jobs : Kill(j)
  \/ KillTrain

\* A program is one sequential process: a fetch that was started goes on until
\* it ends or is killed.  Nothing else is promised.
FetchStep(j) == OpenFetch(j) \/ FetchPage(j)
Spec == Init /\ [][Next]_vars /\ \A j \in Jobs : WF_vars(FetchStep(j))

-----------------------------------------------------------------------------
(* Properties *)

\* Types of the control state; what the files hold is the other properties' matter.
TypeOK ==
  /\ tape \in Tapes /\ clock \in FirstHour..LastHour
  /\ \A j \in Jobs :
       /\ job[j].pc \in {"idle", "fetch", "join", "export", "write"} \cup Ended
       /\ job[j].plan \in {"none", "binance", "dump", "export"}
       /\ job[j].cursor \in Nat \cup {None} /\ job[j].until \in 0..clock
       /\ \A src \in Sources, s \in Sym : DOMAIN job[j].got[src][s] \subseteq 0..clock
  /\ \A s \in Sym, h \in ToSet(Horizons) :
       cache[s][h] \notin {None, Failed} => AssertNoLeakage(cache[s][h])
  /\ train.pc \in {"features", "prices", "dataset", "model", "metadata"} \cup Ended
  /\ artifact \subseteq {"model", "metadata"}

\* When a paged fetch ends (fetch_ohlcv_paged), it holds every bar since the
\* requested hour that the exchange still offers up to the hour in which the
\* fetch began, and none that began after it: neither the page limit nor hours
\* without a trade nor the moving window make it stop early.
FetchIsComplete ==
  [][\A j \in Jobs :
       (job[j].pc = "fetch" /\ job'[j].pc = "fetch" /\ job[j].cursor # None
                            /\ job'[j].cursor = None) =>
         LET src == Head(job[j].todo)[1]
             s == Head(job[j].todo)[2]
             held == DOMAIN job'[j].got[src][s]
         IN  /\ Offered(src, s) \cap (Since..job[j].until) \subseteq held
             /\ held \subseteq 0..job[j].until]_vars

\* A fetch comes to an end: paging stops even where Kraken answers every page
\* with the same bars.
PagingEnds ==
  \A j \in Jobs :
    (job[j].pc = "fetch" /\ job[j].todo # <<>>) ~> (job[j].pc # "fetch" \/ job[j].todo = <<>>)

Written == job["data"].pc = "done"
Exported == job["data"].plan = "export"

\* The hour of row t of the file that the data program has written, and the
\* last of its rows.
HourOf(t) ==
  LET series == IF Exported THEN job["data"].got["dump"] ELSE Series("data")
  IN  IF Exported THEN Ascending({h \in CommonIndex(series) : h >= Since})[t]
      ELSE GridFirst(series) + t - 1

\* The price that row t should have for symbol s: Kraken's own bar of that
\* hour, else the backfill's, else the last earlier one since the grid began
\* carried flat, else zeros; a dump's own bar when it was exported.
RightPrice(s, t) ==
  LET got(src) == job["data"].got[src][s]
      h == HourOf(t)
      own(x) == {src \in Sources : x \in DOMAIN got(src)}
      bar(x) == IF "kraken" \in own(x) THEN got("kraken")[x] ELSE got(CHOOSE src \in own(x) : TRUE)[x]
      earlier == {x \in HourOf(1)..h : own(x) # {}}
  IN  IF Exported THEN Price(Dump(s)[h])
      ELSE IF own(h) # {} THEN Price(bar(h))
      ELSE IF earlier = {} THEN Price(ZeroBar)
      ELSE Price(FlatBar(bar(Max(earlier)).close))

\* What a reader finds in the price block of a finished file (build_bin,
\* export_binary, read back by binpack) is, in every row, what each symbol's
\* bars say of that hour: no neighbour's bar, no bar of another symbol, no
\* source that should have been overruled, and no row that the filling of
\* export_binary made up.
RowsAreOwnBars ==
  Written =>
    /\ ReadPrices(file) # {} /\ ReadSymbols(file) # {}
    /\ \A prices \in ReadPrices(file), names \in ReadSymbols(file) :
         \A t \in DOMAIN prices, i \in DOMAIN names :
           prices[t][i] = RightPrice(names[i], t)

BarsOfFile(prices, i) ==
  [t \in DOMAIN prices |-> [high |-> prices[t][i][1], low |-> prices[t][i][2],
                            close |-> prices[t][i][3]]]

\* No row of a finished file knows a later hour: a forecast in it is of the
\* same symbol and hour, every bar it was made from is that hour's or older (the
\* context_end that assert_no_leakage trusts is the real one), and, in a file
\* that kraken_data built, the technical features are those of the series cut
\* off after the row.  Of an exported file only the forecasts are looked at.
NoFutureInRow ==
  Written =>
    \A features \in ReadFeatures(file), prices \in ReadPrices(file), names \in ReadSymbols(file) :
        \A t \in DOMAIN features, i \in DOMAIN names :
          /\ \A k \in DOMAIN Horizons :
               LET f == features[t][i][k]
               IN  f # NoForecast =>
                     /\ f.symbol = names[i] /\ f.timestamp = HourOf(t) /\ f.target > HourOf(t)
                     /\ Max(f.context) = f.context_end /\ f.context_end <= HourOf(t)
          /\ ~Exported =>
               LET seen == TechnicalFeatures(SubSeq(BarsOfFile(prices, i), 1, t))[t]
               IN  \A k \in 1..8 : Same(features[t][i][Len(Horizons) + k], seen[k])

\* The two definitions of the technical features agree on every series with
\* positive prices that a program built (technical.py: "mirrors the pandas
\* formulas in sim/export_data.compute_features").
TechnicalParity ==
  (Written /\ ~Exported) =>
    \A features \in ReadFeatures(file), prices \in ReadPrices(file), names \in ReadSymbols(file) :
        \A i \in DOMAIN names :
          LET bars == BarsOfFile(prices, i)
              pandas == PandasFeatures(bars)
          IN  (\A t \in DOMAIN bars : bars[t].close > 0) =>
                \A t \in DOMAIN bars, k \in 1..8 :
                  Same(features[t][i][Len(Horizons) + k], pandas[t][k])

\* A training set (build_dataset) that is read of one file is made of all of
\* it, whether that file is still being written, was cut off by a crash, or is
\* an earlier one that is replaced meanwhile: each sample is a row of both
\* blocks that this file has when it is complete, labelled by that symbol's
\* prices, and no label looks past the split.  It takes that all opens met one
\* file: of one that is replaced between two of them, build_dataset combines the
\* features of the old with the prices of the new (train.py:48-49).
DatasetIsSound ==
  \A w \in train.read :
    (train.samples # <<>> /\ train.read = {w}) =>
      \E features \in ReadFeatures(w), prices \in ReadPrices(w) :
        \A p \in DOMAIN train.samples :
          /\ 100 * (p[1] + Horizon) <= Len(prices) * SplitPct
          /\ train.samples[p].x = features[p[1]][p[2]] /\ CloseAt(prices, p[1], p[2]) > 0
          /\ train.samples[p].y =
               (CloseAt(prices, p[1] + Horizon, p[2]) > CloseAt(prices, p[1], p[2]))
=============================================================================
