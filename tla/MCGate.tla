-------------------------------- MODULE MCGate --------------------------------
(***************************************************************************)
(* A trial with two slippage cells of four windows, and three returns: one *)
(* that misses the target of 2, one that reaches it, and one that makes up *)
(* for a miss.  The data has room for three starts of a window.            *)
(***************************************************************************)
EXTENDS Gate
=============================================================================
