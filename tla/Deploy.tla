------------------------------- MODULE Deploy -------------------------------
(***************************************************************************)
(* The live cutover of ops/deploy_live_trader.sh: a dry run verifies that  *)
(* the lock file of the live-writer account names the main process of a    *)
(* unit; a live run checks the gates, stops the other registered units,    *)
(* restarts the unit and verifies the same.  Several operators may run the *)
(* script, while the units' processes start, take and drop the writer lock *)
(* (LiveWriterLock) and die at any time.                                   *)
(***************************************************************************)
EXTENDS Integers, Sequences

CONSTANTS
  Units,        \* systemd units that run a live writer
  Registries,   \* the LIVE_WRITER_UNITS to be considered, sequences of units
  Runs,         \* runs of the script
  Gates,        \* the environment variables the checklist asks for
  Attempts,     \* handshake attempts before the final one (5)
  MaxPid,       \* bound: processes ever started
  None          \* no unit given

ASSUME DeployAssumption ==
  /\ Registries \subseteq Seq(Units)
  /\ Attempts \in Nat /\ MaxPid \in Nat
  /\ None \notin Units

VARIABLES
  registry,     \* LIVE_WRITER_UNITS, fixed by the commit
  main,         \* main[u]: MainPID of the unit, 0 for none
  pids,         \* the PIDs used so far are 1..pids
  writer,       \* the PID that holds the writer lock, 0 for none
  payload,      \* the PID in the lock file, 0 for an empty file
  owned,        \* the PIDs that ever had their lock on file
  run           \* run[d]: the state of a run of the script

system == <<registry, main, pids, writer, payload, owned>>
vars == <<system, run>>

Results == {"handshake-ok", "handshake-incomplete", "refused-empty-registry",
            "refused-checklist", "cutover-ok", "cutover-FAILED"}
ASSUME NoneAssumption == None \notin Results

Steps == {"idle", "gates", "stopping", "restarting",
          "verify", "supervisor", "judged", "ended"}

\* todo: the registered units stop_other_units has still to visit; touched:
\* units it stopped; tries: handshake attempts left after this one; line: what
\* append_history wrote; code: the exit status.  For the properties: first is the
\* PID its restart started.
RunState ==
  [step : Steps, live : BOOLEAN, unit : Units \cup {None}, gates : SUBSET Gates,
   todo : Seq(Units), did : BOOLEAN, touched : SUBSET Units, restarted : BOOLEAN,
   tries : 0..Attempts, holder : 0..MaxPid, pid : 0..MaxPid, ok : BOOLEAN,
   line : Results \cup {None}, code : {0, 1}, died : BOOLEAN,
   first : 0..MaxPid]

Fresh ==
  [step |-> "idle", live |-> FALSE, unit |-> None, gates |-> {}, todo |-> <<>>,
   did |-> FALSE, touched |-> {}, restarted |-> FALSE, tries |-> 0, holder |-> 0,
   pid |-> 0, ok |-> FALSE, line |-> None, code |-> 0, died |-> FALSE,
   first |-> 0]

\* The PIDs, the lock file and the stages of a run of the script.
TypeOK ==
  /\ registry \in Registries
  /\ main \in [Units -> 0..MaxPid]
  /\ pids \in 0..MaxPid
  /\ writer \in 0..pids /\ payload \in 0..pids /\ owned \subseteq 1..pids
  /\ run \in [Runs -> RunState]

Registered(u) == \E i \in 1..Len(registry) : registry[i] = u
At(d, step) == run[d].step = step
Set(d, r) == run' = [run EXCEPT ![d] = r]

-----------------------------------------------------------------------------
Init ==
  /\ registry \in Registries
  /\ main = [u \in Units |-> 0]
  /\ pids = 0 /\ writer = 0 /\ payload = 0 /\ owned = {}
  /\ run = [d \in Runs |-> Fresh]

-----------------------------------------------------------------------------
(* The units' processes.                                                   *)

\* A new main process; the old one, if any, is stopped.
Launched(u) ==
  /\ pids < MaxPid
  /\ pids' = pids + 1
  /\ main' = [main EXCEPT ![u] = pids + 1]
  /\ writer' = IF writer = main[u] THEN 0 ELSE writer

Stopped(u) ==
  /\ main' = [main EXCEPT ![u] = 0]
  /\ writer' = IF writer = main[u] THEN 0 ELSE writer
  /\ UNCHANGED pids

\* Somebody starts the unit by hand.
Boot(u) ==
  /\ main[u] = 0
  /\ Launched(u)
  /\ UNCHANGED <<registry, payload, owned, run>>

\* enforce_live_singleton gets the flock...
Lock(u) ==
  /\ main[u] # 0 /\ writer = 0
  /\ writer' = main[u]
  /\ UNCHANGED <<registry, main, pids, payload, owned, run>>

\* ... and writes the payload.
WritePid(u) ==
  /\ main[u] # 0 /\ writer = main[u] /\ payload # main[u]
  /\ payload' = main[u]
  /\ owned' = owned \cup {main[u]}
  /\ UNCHANGED <<registry, main, pids, writer, run>>

\* release(); the file keeps the PID.
Unlock(u) ==
  /\ main[u] # 0 /\ writer = main[u]
  /\ writer' = 0
  /\ UNCHANGED <<registry, main, pids, payload, owned, run>>

\* The process ends: a crash, or SystemExit(42) because the lock is held.
Die(u) ==
  /\ main[u] # 0
  /\ Stopped(u)
  /\ UNCHANGED <<registry, payload, owned, run>>

Process(u) == Boot(u) \/ Lock(u) \/ WritePid(u) \/ Unlock(u) \/ Die(u)

-----------------------------------------------------------------------------
(* The script.                                                             *)

\* The run ends with an exit status, through die() or not.
Exits(r, code, died) == [r EXCEPT !.step = "ended", !.code = code, !.died = died]

\* UNIT defaults to the first registered unit.
Default == IF registry = <<>> THEN None ELSE Head(registry)

DryRun(d) ==
  /\ At(d, "idle")
  /\ \E u \in Units \cup {Default} :
       Set(d, [Fresh EXCEPT !.step = "verify", !.unit = u])
  /\ UNCHANGED system

LiveRun(d) ==
  /\ At(d, "idle")
  /\ \E u \in Units \cup {Default}, g \in SUBSET Gates :
       Set(d, [Fresh EXCEPT !.step = "gates", !.live = TRUE, !.unit = u,
                            !.gates = g])
  /\ UNCHANGED system

\* The registry is empty: refused.
EmptyRegistry(d) ==
  /\ At(d, "gates") /\ registry = <<>>
  /\ Set(d, Exits([run[d] EXCEPT !.line = "refused-empty-registry"], 1, TRUE))
  /\ UNCHANGED system

\* enforce_checklist: the unit is registered and every variable is set.
Cleared(d) == Registered(run[d].unit) /\ run[d].gates = Gates

Checklist(d) ==
  /\ At(d, "gates") /\ registry # <<>> /\ ~Cleared(d)
  /\ Set(d, Exits([run[d] EXCEPT !.line = "refused-checklist"], 1, TRUE))
  /\ UNCHANGED system

GatesPass(d) ==
  /\ At(d, "gates") /\ registry # <<>> /\ Cleared(d)
  /\ Set(d, [run[d] EXCEPT !.step = "stopping", !.todo = registry])
  /\ UNCHANGED system

\* stop_other_units visits the next unit and skips the one to keep.
SkipKept(d) ==
  /\ At(d, "stopping") /\ run[d].todo # <<>> /\ Head(run[d].todo) = run[d].unit
  /\ Set(d, [run[d] EXCEPT !.todo = Tail(@)])
  /\ UNCHANGED system

StopOther(d) ==
  /\ At(d, "stopping") /\ run[d].todo # <<>> /\ Head(run[d].todo) # run[d].unit
  /\ LET u == Head(run[d].todo) IN
       /\ Set(d, [run[d] EXCEPT !.todo = Tail(@), !.did = TRUE,
                                !.touched = @ \cup {u}])
       /\ Stopped(u)
  /\ UNCHANGED <<registry, payload, owned>>

StopFails(d) ==
  /\ At(d, "stopping") /\ run[d].todo # <<>> /\ Head(run[d].todo) # run[d].unit
  /\ Set(d, Exits(run[d], 1, TRUE))
  /\ UNCHANGED system

\* The last command of stop_other_units, [[ $did == 0 ]] && log, is the status
\* of the function: 1 if a unit was stopped, and set -e ends the script.
StopsDone(d) ==
  /\ At(d, "stopping") /\ run[d].todo = <<>>
  /\ Set(d, IF run[d].did THEN Exits(run[d], 1, FALSE)
            ELSE [run[d] EXCEPT !.step = "restarting"])
  /\ UNCHANGED system

\* systemctl restart succeeds, or the script dies.
Restart(d) ==
  /\ At(d, "restarting")
  /\ Set(d, [run[d] EXCEPT !.step = "verify", !.restarted = TRUE,
                           !.tries = Attempts, !.first = pids + 1])
  /\ Launched(run[d].unit)
  /\ UNCHANGED <<registry, payload, owned>>

RestartFails(d) ==
  /\ At(d, "restarting")
  /\ Set(d, Exits(run[d], 1, TRUE))
  /\ UNCHANGED system

\* verify_lock_handshake reads the lock file, which a process that has just
\* been granted the lock truncates before it writes its PID...
ReadHolder(d) ==
  /\ At(d, "verify")
  /\ \E h \in {payload} \cup (IF payload # writer /\ writer # 0 THEN {0} ELSE {}) :
       Set(d, [run[d] EXCEPT !.step = IF h = 0 THEN "judged" ELSE "supervisor",
                             !.holder = h,
                             !.pid = 0, !.ok = FALSE])
  /\ UNCHANGED system

\* Mutant of ReadSupervisor: it is enough that the unit has a main process.
ReadAnySupervisor(d) ==
  LET pid == IF run[d].unit = None THEN 0 ELSE main[run[d].unit] IN
  /\ At(d, "supervisor")
  /\ Set(d, [run[d] EXCEPT !.step = "judged", !.pid = pid, !.ok = pid # 0])
  /\ UNCHANGED system

\* ... and asks systemd for the main process afterwards.
ReadSupervisor(d) ==
  LET pid == IF run[d].unit = None THEN 0 ELSE main[run[d].unit] IN
  /\ At(d, "supervisor")
  /\ Set(d, [run[d] EXCEPT !.step = "judged", !.pid = pid,
                           !.ok = pid # 0 /\ pid = run[d].holder])
  /\ UNCHANGED system

\* A dry run appends the verdict and exits with 0 either way.
JudgeDry(d) ==
  /\ At(d, "judged") /\ ~run[d].live
  /\ Set(d, Exits([run[d] EXCEPT
       !.line = IF run[d].ok THEN "handshake-ok" ELSE "handshake-incomplete"], 0, FALSE))
  /\ UNCHANGED system

\* A live run waits for the handshake in a loop of Attempts, left at the first
\* success, and verifies once more after it.
TryAgain(d) ==
  /\ At(d, "judged") /\ run[d].live /\ run[d].tries > 0
  /\ Set(d, [run[d] EXCEPT !.step = "verify",
                           !.tries = IF run[d].ok THEN 0 ELSE @ - 1])
  /\ UNCHANGED system

\* Mutant of JudgeLive: a failed handshake is not written to the history.
JudgeLiveUnlogged(d) ==
  /\ At(d, "judged") /\ run[d].live /\ run[d].tries = 0
  /\ Set(d, IF run[d].ok THEN Exits([run[d] EXCEPT !.line = "cutover-ok"], 0, FALSE)
            ELSE Exits(run[d], 1, TRUE))
  /\ UNCHANGED system

JudgeLive(d) ==
  /\ At(d, "judged") /\ run[d].live /\ run[d].tries = 0
  /\ Set(d, IF run[d].ok THEN Exits([run[d] EXCEPT !.line = "cutover-ok"], 0, FALSE)
            ELSE Exits([run[d] EXCEPT !.line = "cutover-FAILED"], 1, TRUE))
  /\ UNCHANGED system

\* append_history cannot write to its log, wherever it is called: set -e ends
\* the script, without a word in the history or from die().
HistoryFails(d) ==
  /\ \/ At(d, "gates") /\ (registry = <<>> \/ ~Cleared(d))
     \/ At(d, "judged") /\ (run[d].live => run[d].tries = 0)
  /\ Set(d, Exits(run[d], 1, FALSE))
  /\ UNCHANGED system

Script(d) ==
  \/ EmptyRegistry(d) \/ Checklist(d) \/ GatesPass(d)
  \/ SkipKept(d) \/ StopOther(d) \/ StopFails(d) \/ StopsDone(d)
  \/ Restart(d) \/ RestartFails(d)
  \/ ReadHolder(d) \/ ReadSupervisor(d)
  \/ JudgeDry(d) \/ TryAgain(d) \/ JudgeLive(d) \/ HistoryFails(d)

Next ==
  \/ \E u \in Units : Process(u)
  \/ \E d \in Runs : DryRun(d) \/ LiveRun(d) \/ Script(d)

Spec == Init /\ [][Next]_vars

\* A script that was started goes on.
FairSpec == Spec /\ \A d \in Runs : WF_vars(Script(d))

-----------------------------------------------------------------------------
(* Properties.                                                             *)

\* The handshake is not fooled by a PID that an older process left in the lock
\* file, by a process that has not got the lock yet, nor by units that restart
\* between its two reads: a run reports OK only for a process that has had the
\* lock and put its own PID on file, and a live run only for one that is not
\* older than its own restart.  (PIDs are not used again here.)
OkMeansOwned ==
  \A d \in Runs : run[d].line \in {"cutover-ok", "handshake-ok"} =>
    run[d].pid \in owned /\ run[d].pid >= run[d].first

\* A run that restarted the unit exits with 0 only if the history says that the
\* handshake succeeded; it dies with its message only if the history says that
\* it failed; and in the one case that the history says nothing, because it
\* could not be written, the exit status is not 0.
RestartIsJudged ==
  \A d \in Runs : At(d, "ended") /\ run[d].restarted =>
    \/ run[d].line = "cutover-ok" /\ run[d].code = 0
    \/ run[d].line = "cutover-FAILED" /\ run[d].code = 1 /\ run[d].died
    \/ run[d].line = None /\ run[d].code = 1 /\ ~run[d].died

(* What the repository says, and the code does not do.                     *)

\* A run that stopped the other units goes on to restart its own, unless it
\* dies with a message.
StopLeadsToRestart ==
  \A d \in Runs : At(d, "ended") /\ run[d].touched # {} /\ ~run[d].died =>
    run[d].restarted
=============================================================================
