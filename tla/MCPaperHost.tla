---------------------------- MODULE MCPaperHost -----------------------------
(***************************************************************************)
(* Two symbols make a cycle that fails half-way: one exit or entry done,   *)
(* the other refused.  A record is fresh for one cycle after its own, so   *)
(* three cycles of the two programs show a buy, a cheaper one of the other *)
(* program or a refusal, and a sell that a stale record does not hold up.  *)
(***************************************************************************)
EXTENDS PaperHost, TLC

MCSymmetry == Permutations(Symbols)
=============================================================================
