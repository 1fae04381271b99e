----------------------------- MODULE MarketFile -----------------------------
(***************************************************************************)
(* The market data file (sim/binpack.py): a header, the symbol names, the  *)
(* feature block [T][S][F] and the price block [T][S][P], one after the    *)
(* other.  A file is the sequence of its words; a header field, a name or  *)
(* a float32 is one word.  The writer appends; a reader goes to the offset *)
(* that it computes from the header and fails if the words end too early:  *)
(* what a reader returns is a set, empty if it raised struct.error or      *)
(* ValueError.                                                             *)
(***************************************************************************)
EXTENDS Integers, Sequences, SequencesExt

CONSTANT PriceFeatures  \* words of a price row

ASSUME PriceFeaturesAssumption == PriceFeatures \in Nat

HeaderSize == 3

\* A block of rows, flattened: time first, then symbol.
Flatten(rows) == FlattenSeq([t \in DOMAIN rows |-> FlattenSeq(rows[t])])

\* What each of the writes appends: the header and the names, the features,
\* the prices.
MarketBin(names, features, prices, featuresPerSym) ==
  << <<Len(names), Len(prices), featuresPerSym>> \o names,
     Flatten(features), Flatten(prices) >>

ReadHeader(file) ==
  IF Len(file) < HeaderSize THEN {}
  ELSE {[ns |-> file[1], nt |-> file[2], fps |-> file[3]]}

ReadBlock(file, offset, nt, ns, per) ==
  IF Len(file) < offset + nt * ns * per THEN {}
  ELSE {[t \in 1..nt |-> [s \in 1..ns |->
           LET i == offset + ((t - 1) * ns + s - 1) * per
           IN  SubSeq(file, i + 1, i + per)]]}

ReadFeatures(file) ==
  UNION {ReadBlock(file, HeaderSize + h.ns, h.nt, h.ns, h.fps) : h \in ReadHeader(file)}

ReadPrices(file) ==
  UNION {ReadBlock(file, HeaderSize + h.ns + h.nt * h.ns * h.fps, h.nt, h.ns, PriceFeatures) :
           h \in ReadHeader(file)}

ReadSymbols(file) ==
  {SubSeq(file, HeaderSize + 1, HeaderSize + h.ns) : h \in ReadHeader(file)}
=============================================================================
