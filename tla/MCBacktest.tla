----------------------------- MODULE MCBacktest -----------------------------
(***************************************************************************)
(* Three symbols over six bars: 0 falls below one or both tolerances of    *)
(* the guard, 1 and 2 do not move.  The markets of 0 and 1 may be closed   *)
(* on some bars.  The settings have the guard on and off, the episode      *)
(* longer and shorter than the data, the start forced, forced beyond the   *)
(* data, or drawn, and once two actions to a symbol and side.  The         *)
(* features go through ties, no signal, and books in which the cap binds   *)
(* for none, one after the other, or all of the names.                     *)
(***************************************************************************)
EXTENDS Backtest, Sequences

MCFalls ==
  <<[t \in Bars |-> 100],
    [t \in Bars |-> IF t = 0 THEN 100 ELSE 96],
    [t \in Bars |-> IF t < 2 THEN 100 ELSE 90],
    [t \in Bars |-> IF t \in {1, 2} THEN 90 ELSE 100]>>
MCClosed ==
  <<{}, {<<2, 0>>, <<3, 0>>}, {<<1, 1>>, <<2, 1>>}>>

MCFeature(i, j, t, s) ==
  [score |-> ((i + 2 * j + t + s * t) % 4) - 1,
   volatility |-> <<0, 2, 4, 12>>[((t + s * (i + 1) + j) % 4) + 1]]

MCFeatures == [score : -1..2, volatility : {0, 2, 4, 12}]

MCMarkets ==
  {[open |-> [t \in Bars |-> [s \in Symbols |-> IF s = 0 THEN MCFalls[i][t] ELSE 100]],
    tradable |-> [t \in Bars |-> [s \in Symbols |-> <<t, s>> \notin MCClosed[j]]],
    feature |-> [t \in Bars |-> [s \in Symbols |-> MCFeature(i, j, t, s)]]] :
     i \in 1..Len(MCFalls), j \in 1..Len(MCClosed)}

Setting(bins, steps, lag, hold, offset, guard) ==
  [bins |-> bins, max_steps |-> steps, decision_lag |-> lag, max_hold_hours |-> hold,
   forced_offset |-> offset, tolerance_bps |-> IF guard THEN 300 ELSE 0,
   overnight_bps |-> 500, stale_after_bars |-> 2]

MCConfigs ==
  {Setting(1, 4, 2, 1, -1, TRUE), Setting(2, 4, 1, 2, -1, FALSE), Setting(1, 5, 2, 0, 0, TRUE),
   Setting(1, 3, 2, 2, 5, TRUE), Setting(1, 7, 2, 1, 1, TRUE)}

\* top1, top2, top3 and top2_half of research/feature_search.py, and a book whose
\* second name overflows only after the first one was capped; and two that may
\* deploy nothing.
MCBookings ==
  {[conviction_threshold |-> 0, max_positions |-> b[1], gross_exposure |-> b[2],
    max_position_weight |-> b[3], min_volatility |-> 1] :
     b \in {<<1, 100, 100>>, <<2, 100, 60>>, <<3, 100, 40>>, <<2, 50, 40>>, <<3, 100, 60>>,
            <<2, 0, 60>>, <<2, 100, 0>>}}
=============================================================================
