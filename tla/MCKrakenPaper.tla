--------------------------- MODULE MCKrakenPaper ----------------------------
(***************************************************************************)
(* Two symbols make a cycle that fails half-way: one exit or entry done,   *)
(* the other refused.  A record is fresh for one cycle after its own, so   *)
(* five cycles show a buy, a refusal and, after a pause, a sell that the   *)
(* stale record does not hold up.                                          *)
(***************************************************************************)
EXTENDS KrakenPaper
=============================================================================
