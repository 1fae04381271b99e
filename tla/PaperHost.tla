----------------------------- MODULE PaperHost ------------------------------
(***************************************************************************)
(* The two paper programs on one host, at the same time: neither takes the *)
(* writer lock, and both use the buy memory of the default account, so     *)
(* that each is guarded by what the other one has recorded last.           *)
(***************************************************************************)
EXTENDS KrakenPaper

VARIABLES
  stage, prices, wanted, left, ordered, position,   \* of the PaperRunner
  since    \* since[program][s]: when its buy was recorded, or None (a history)

Runner == INSTANCE PaperRunner

runnerVars == <<stage, prices, wanted, left, ordered, position>>
hostVars == <<vars, runnerVars, since>>

\* The runner's buy is recorded, and on its way to the sink.
Buying == IF stage = "entries" THEN {ordered} \ {None} ELSE {}

HeldBy == [kraken |-> held, runner |-> position \cup Buying]

Undated == [program \in DOMAIN HeldBy |-> [s \in Symbols |-> None]]

HostInit == Init /\ Runner!RunnerInit /\ since = Undated

HostTypeOK ==
  /\ TypeOK /\ Runner!RunnerTypeOK
  /\ since \in [DOMAIN HeldBy -> [Symbols -> Nat \cup {None}]]

Dated ==
  since' = [program \in DOMAIN HeldBy |-> [s \in Symbols |->
    IF s \notin HeldBy'[program] THEN None
    ELSE IF s \in HeldBy[program] THEN since[program][s]
    ELSE now]]

KrakenStep == Next /\ UNCHANGED runnerVars /\ Dated

RunnerStep ==
  Runner!RunnerNext /\ UNCHANGED <<phase, cycle, todo, held, books>> /\ Dated

\* The file is anybody's.
MemoryDamaged ==
  Damage /\ UNCHANGED <<phase, cycle, todo, held, books, now, runnerVars, since>>

HostNext == KrakenStep \/ RunnerStep \/ MemoryDamaged
HostSpec == HostInit /\ [][HostNext]_hostVars

-----------------------------------------------------------------------------
(* Properties.                                                             *)

\* Whatever the two programs record, prune, are refused or fail half-way: a
\* position that is not older than the buy memory has a floor that is at least
\* as new, so that the guard looks at its sell, unless its last record is gone:
\* the file was damaged, or either program, blind, recorded another symbol.
HeldIsGuarded ==
  \A program \in DOMAIN HeldBy : \A s \in HeldBy[program] \ lost :
    now - since[program][s] <= BuyMemorySeconds =>
      floors[s] # None /\ floors[s].ts >= since[program][s]
=============================================================================
