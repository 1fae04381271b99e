----------------------------- MODULE MCResearch -----------------------------
(***************************************************************************)
(* A search of two configurations, each a trial with two slippage cells of *)
(* four windows and three returns: one that misses the target of 2, one    *)
(* that reaches it, and one that makes up for a miss.  The data has room   *)
(* for three starts of a window.                                           *)
(***************************************************************************)
EXTENDS Research

Baseline == <<[name |-> "baseline", threshold |-> 0, gross |-> 10]>>
Mutations == << <<"threshold", <<0, 1>>>>, <<"gross", <<8>>>> >>
OneFeature == <<"return_1h">>
OneShape == <<"top1">>
OneRow == <<"other">>
=============================================================================
