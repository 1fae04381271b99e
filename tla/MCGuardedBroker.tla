-------------------------- MODULE MCGuardedBroker ---------------------------
(***************************************************************************)
(* A client and a server, or two clients, on one account, which is what    *)
(* the default account name amounts to, with one symbol: that a call about *)
(* one symbol may lose the floor of another is left to the paper programs. *)
(* Buys are remembered for the current tick only.  A sell at 90 is below   *)
(* the floor of a buy at 100, and above that of one at 90.                 *)
(***************************************************************************)
EXTENDS GuardedBroker

MCAccountOf == [p \in Procs |-> "alpaca_live_writer"]
=============================================================================
