----------------------------- MODULE MCPipeline -----------------------------
(***************************************************************************)
(* Two symbols over a few hours.  The first skips an hour; the second      *)
(* starts two hours late, so that the grid's first hour is a hole, and     *)
(* does not trade in the hour that is running when the programs start.     *)
(* Only the first has a USDT pair; both have a dump.                       *)
(***************************************************************************)
EXTENDS Pipeline

SymbolList == <<"a", "b">>
HorizonList == <<1, 2>>
FirstSymbol == {"a"}
BothSymbols == {"a", "b"}

Tape(a, b) == [s \in BothSymbols |-> [h \in 0..LastHour |-> IF s = "a" THEN a[h + 1] ELSE b[h + 1]]]
MCTapes == {Tape(<<1, 2, 3, 0, 1, 2>>, <<0, 0, 2, 3, 0, 1>>)}

\* The file of an earlier run: both symbols over three falling hours.
OldBars == <<FlatBar(3), FlatBar(2), FlatBar(1)>>
OldFile ==
  LET row(t) == <<NoForecast, NoForecast>> \o TechnicalFeatures(OldBars)[t]
  IN  FlattenSeq(MarketBin(SymbolList, [t \in 1..3 |-> <<row(t), row(t)>>],
                           [t \in 1..3 |-> <<Price(OldBars[t]), Price(OldBars[t])>>],
                           FeaturesPerSym))
MCOldFiles == {<<>>, OldFile}
=============================================================================
