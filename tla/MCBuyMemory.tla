---------------------------- MODULE MCBuyMemory -----------------------------
(***************************************************************************)
(* Three threads in two processes, so that the RLock and the flock both    *)
(* contend; two symbols, the least at which a lost update can drop a       *)
(* record that the call does not name.  A sell at 90 is 1000 bps below a   *)
(* buy at 100: the base tolerance of 300 refuses it and the ATR of 400     *)
(* widens the tolerance to 1200, which does not.                           *)
(***************************************************************************)
EXTENDS BuyMemory, TLC

MCProcOf == ("t1" :> "p1") @@ ("t2" :> "p1") @@ ("t3" :> "p2")
=============================================================================
