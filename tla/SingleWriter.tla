---------------------------- MODULE SingleWriter ----------------------------
(***************************************************************************)
(* HARD RULE 2 of the repository, "exactly one live writer per Alpaca      *)
(* account", as an abstract lock service: for each account the set of      *)
(* processes that may write to it, never more than one of them.  How a     *)
(* process comes by the lock, how it gives it up and what a refused        *)
(* process is told are left to LiveWriterLock, which implements this.      *)
(***************************************************************************)
CONSTANTS Procs, Accounts

VARIABLE writers        \* account -> the processes that hold its writer lock

SWInit == writers = [a \in Accounts |-> {}]

Take(p, a) ==           \* a process becomes the writer of a free account
  /\ writers[a] = {}
  /\ writers' = [writers EXCEPT ![a] = {p}]

Drop(p, a) ==           \* the writer releases one account
  /\ p \in writers[a]
  /\ writers' = [writers EXCEPT ![a] = @ \ {p}]

Vanish(p) ==            \* a process ends, releasing all it holds
  writers' = [a \in Accounts |-> writers[a] \ {p}]

SWNext == \E p \in Procs :
  \/ \E a \in Accounts : Take(p, a) \/ Drop(p, a)
  \/ Vanish(p)

SWSpec == SWInit /\ [][SWNext]_writers
=============================================================================
