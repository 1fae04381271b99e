-------------------------------- MODULE Bars --------------------------------
(***************************************************************************)
(* Bar series and their alignment (sim/kraken_data.py), forecasts and      *)
(* their cache rows (forecast/chronos.py, forecast/build_cache.py).  Time  *)
(* counts hours.  A series is a function from the hours that have a bar to *)
(* the bars; the empty function is a series without bars.                  *)
(***************************************************************************)
EXTENDS Integers, Sequences, SequencesExt, FiniteSetsExt

CONSTANTS
  Symbols,        \* the symbols in the order they were asked for
  ContextLength,  \* bars that a forecast sees
  Horizons        \* the two horizons, in the order they are read

ASSUME BarsAssumption ==
  /\ Symbols \in Seq(ToSet(Symbols)) /\ IsInjective(Symbols)
  /\ ContextLength \in Nat \ {0} /\ Horizons \in Seq(Nat \ {0})

Price(bar) == <<bar.high, bar.low, bar.close>>
ZeroBar == [high |-> 0, low |-> 0, close |-> 0]
FlatBar(c) == [high |-> c, low |-> c, close |-> c]

Ascending(hours) ==
  [i \in 1..Cardinality(hours) |->
     CHOOSE h \in hours : Cardinality({x \in hours : x < h}) = i - 1]

\* What stands at some of the places of a sequence.
At(seq, places) == [k \in 1..Cardinality(places) |-> seq[Ascending(places)[k]]]

\* dict.update.
Update(old, new) ==
  [h \in DOMAIN old \cup DOMAIN new |-> IF h \in DOMAIN new THEN new[h] ELSE old[h]]

\* Mutant of MergeSeries: the first source wins.
MergeSeriesFirst(sources) ==
  [s \in ToSet(Symbols) |->
     [h \in UNION {DOMAIN sources[k][s] : k \in DOMAIN sources} |->
        sources[Min({k \in DOMAIN sources : h \in DOMAIN sources[k][s]})][s][h]]]

\* The sources are [symbol -> series], the most authoritative last: a source
\* overwrites the hours that it has.
MergeSeries(sources) ==
  [s \in ToSet(Symbols) |->
     [h \in UNION {DOMAIN sources[k][s] : k \in DOMAIN sources} |->
        sources[Max({k \in DOMAIN sources : h \in DOMAIN sources[k][s]})][s][h]]]

Present(series) == At(Symbols, {i \in DOMAIN Symbols : series[Symbols[i]] # <<>>})

GridFirst(series) == Max({Min(DOMAIN series[s]) : s \in ToSet(Present(series))})
GridLast(series)  == Min({Max(DOMAIN series[s]) : s \in ToSet(Present(series))})
Alignable(series) == Present(series) # <<>> /\ GridFirst(series) <= GridLast(series)

\* One symbol on the grid: its bar, or the last row carried flat, or zeros.
Column(bars, first, last) ==
  LET row[h \in first..last] ==
        IF h \in DOMAIN bars THEN bars[h]
        ELSE IF h > first /\ row[h - 1] # ZeroBar THEN FlatBar(row[h - 1].close)
        ELSE ZeroBar
  IN  [t \in 1..(last - first + 1) |-> row[first + t - 1]]

-----------------------------------------------------------------------------
\* A forecast is kept as what went into it: the hours of its context.
NoForecast == [symbol |-> "", context_end |-> 0, timestamp |-> 0, target |-> 0, context |-> {}]

\* Mutant of ForecastRows: the slice ends one bar after its anchor.
ForecastRowsLate(s, bars, horizon) ==
  LET ts == Ascending(DOMAIN bars)
  IN  [k \in 1..Max({0, Len(ts) - ContextLength + 1}) |->
         LET i == k + ContextLength - 1
         IN  [symbol |-> s, timestamp |-> ts[i], context_end |-> ts[i],
              target |-> ts[i] + horizon,
              context |-> ToSet(SubSeq(ts, i - ContextLength + 1, Min({i + 1, Len(ts)})))]]

\* The anchors with enough history, in the order of the hours; the context of
\* anchor i is the slice of bars that ends at i.
ForecastRows(s, bars, horizon) ==
  LET ts == Ascending(DOMAIN bars)
  IN  [k \in 1..Max({0, Len(ts) - ContextLength + 1}) |->
         LET i == k + ContextLength - 1
         IN  [symbol |-> s, timestamp |-> ts[i], context_end |-> ts[i],
              target |-> ts[i] + horizon,
              context |-> ToSet(SubSeq(ts, i - ContextLength + 1, i))]]

AssertNoLeakage(rows) ==
  \A k \in DOMAIN rows : rows[k].context_end <= rows[k].timestamp /\ rows[k].timestamp < rows[k].target

\* reindex(): the row of exactly that hour, or nothing.
Reindex(rows, h) ==
  IF \E k \in DOMAIN rows : rows[k].timestamp = h
  THEN CHOOSE r \in ToSet(rows) : r.timestamp = h ELSE NoForecast
=============================================================================
