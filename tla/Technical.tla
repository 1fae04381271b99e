----------------------------- MODULE Technical -----------------------------
(***************************************************************************)
(* The eight technical features of a bar series: the stdlib definition     *)
(* (forecast/technical.py) and the pandas one that it mirrors              *)
(* (sim/export_data.py).  A number is a ratio <<n, d>>, so that rounding   *)
(* hides no difference; d = 0 is pandas' infinity, <<0, 0>> its NaN.  The  *)
(* volatility is kept as the variance.  Short and Long stand for the       *)
(* windows of 24 and 72 bars.                                              *)
(***************************************************************************)
EXTENDS Integers, Sequences, FiniteSetsExt, Functions

CONSTANTS Short, Long

ASSUME WindowsAssumption == Short \in Nat /\ Long \in Nat /\ 1 < Short /\ Short < Long

Zero == <<0, 1>>
Half == <<1, 2>>
One  == <<1, 1>>
Minus(x) == <<-x[1], x[2]>>
Less(x, y) == x[1] * y[2] < y[1] * x[2]
Same(x, y) == x[1] * y[2] = y[1] * x[2]

Clip(x, lo, hi) == IF Less(x, lo) THEN lo ELSE IF Less(hi, x) THEN hi ELSE x

Distance(a, b) == IF a < b THEN b - a ELSE a - b

\* x / max(y, 1e-8); the quotients by the floor are far beyond every clip.
Over(x, y) == IF y[1] > 0 THEN <<x[1] * y[2], x[2] * y[1]>> ELSE <<1000 * x[1], x[2]>>
Delta(v, m) == Over(<<v * m[2] - m[1], m[2]>>, m)

\* The sample variance (ddof = 1) of the ratios vals, on their common scale.
Variance(vals) ==
  LET n == Cardinality(DOMAIN vals)
      scale == FoldFunction(LAMBDA x, acc : x[2] * acc, 1, vals)
      v(k) == vals[k][1] * (scale \div vals[k][2])
      sum == MapThenSumSet(v, DOMAIN vals)
      square(k) == (n * v(k) - sum) * (n * v(k) - sum)
  IN  <<MapThenSumSet(square, DOMAIN vals), n * n * (n - 1) * scale * scale>>
Fallback == <<1, 10000>>

-----------------------------------------------------------------------------
(* forecast/technical.py *)

PctChange(s, n) ==
  [i \in DOMAIN s |-> IF i > n /\ s[i - n] # 0 THEN <<s[i] - s[i - n], s[i - n]>> ELSE Zero]

\* Mutant of RollingMean: the deque is one bar too long.
RollingMeanLong(s, w) ==
  LET acc[i \in 0..Len(s)] ==
        IF i = 0 THEN 0 ELSE acc[i - 1] + s[i] - (IF i > w + 1 THEN s[i - w - 1] ELSE 0)
  IN  [i \in DOMAIN s |-> <<acc[i], Min({i, w})>>]

\* The deque: what enters at i, and what leaves once the window is over-full.
RollingMean(s, w) ==
  LET acc[i \in 0..Len(s)] ==
        IF i = 0 THEN 0 ELSE acc[i - 1] + s[i] - (IF i > w THEN s[i - w] ELSE 0)
  IN  [i \in DOMAIN s |-> <<acc[i], Min({i, w})>>]

RollingMax(s, w) == [i \in DOMAIN s |-> Max({s[k] : k \in Max({1, i - w + 1})..i})]

RollingStdOfReturns(s, w) ==
  [i \in DOMAIN s |->
     LET first == Max({2, i - w + 1})
     IN  IF i - first + 1 < 2 THEN Fallback
         ELSE Variance([k \in first..i |-> PctChange(s, 1)[k]])]

TrueRange(bars) ==
  [i \in DOMAIN bars |->
     LET range == bars[i].high - bars[i].low
     IN  IF i = 1 THEN range
         ELSE LET last == bars[i - 1].close
              IN  Max({range, Distance(bars[i].high, last), Distance(bars[i].low, last)})]

\* return_1h, return_24h, volatility_24h, ma_delta_24h, ma_delta_72h,
\* atr_pct_24h, trend_72h, drawdown_72h.
TechnicalFeatures(bars) ==
  LET c == [i \in DOMAIN bars |-> bars[i].close]
      atr == RollingMean(TrueRange(bars), Short)
  IN  [i \in DOMAIN bars |->
         << Clip(PctChange(c, 1)[i], Minus(Half), Half),
            Clip(PctChange(c, Short)[i], Minus(One), One),
            RollingStdOfReturns(c, Short)[i],
            Clip(Delta(c[i], RollingMean(c, Short)[i]), Minus(Half), Half),
            Clip(Delta(c[i], RollingMean(c, Long)[i]), Minus(Half), Half),
            Clip(Over(atr[i], <<c[i], 1>>), Zero, Half),
            Clip(PctChange(c, Long)[i], Minus(One), One),
            Clip(Delta(c[i], <<RollingMax(c, Long)[i], 1>>), Minus(One), Zero) >>]

-----------------------------------------------------------------------------
(* sim/export_data.py: the same features by pandas' rules *)

NaN == <<0, 0>>
FillNa(x, v) == IF x = NaN THEN v ELSE x

\* shift(n) has no value in the first n rows; a division by 0 is +-inf or NaN.
PctChangePandas(s, n) ==
  [i \in DOMAIN s |-> IF i <= n THEN NaN ELSE <<s[i] - s[i - n], s[i - n]>>]

\* rolling(w, min_periods=1) at row i: the values in its window but for NaN.
Rolling(s, w, i) ==
  Restrict(s, {k \in DOMAIN s : k > i - w /\ k <= i /\ s[k] # NaN})

Std(vals) ==
  IF Cardinality(DOMAIN vals) < 2 \/ \E k \in DOMAIN vals : vals[k][2] = 0
  THEN NaN ELSE Variance(vals)
Mean(vals) ==
  LET v(k) == vals[k][1] IN <<MapThenSumSet(v, DOMAIN vals), Cardinality(DOMAIN vals)>>
Highest(vals) == <<Max({vals[k][1] : k \in DOMAIN vals}), 1>>

PandasFeatures(bars) ==
  LET c == [i \in DOMAIN bars |-> <<bars[i].close, 1>>]
      close == [i \in DOMAIN bars |-> bars[i].close]
      tr == [i \in DOMAIN bars |->
               <<Max({bars[i].high - bars[i].low} \cup
                     {Distance(x, bars[k].close) :
                        x \in {bars[i].high, bars[i].low}, k \in {i - 1} \cap DOMAIN bars}), 1>>]
  IN  [i \in DOMAIN bars |->
         << Clip(FillNa(PctChangePandas(close, 1)[i], Zero), Minus(Half), Half),
            Clip(FillNa(PctChangePandas(close, Short)[i], Zero), Minus(One), One),
            FillNa(Std(Rolling(PctChangePandas(close, 1), Short, i)), Fallback),
            Clip(Delta(close[i], Mean(Rolling(c, Short, i))), Minus(Half), Half),
            Clip(Delta(close[i], Mean(Rolling(c, Long, i))), Minus(Half), Half),
            Clip(Over(Mean(Rolling(tr, Short, i)), c[i]), Zero, Half),
            Clip(FillNa(PctChangePandas(close, Long)[i], Zero), Minus(One), One),
            Clip(Delta(close[i], Highest(Rolling(c, Long, i))), Minus(One), Zero) >>]
=============================================================================
