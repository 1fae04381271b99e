--------------------------- MODULE LiveWriterLock ---------------------------
(***************************************************************************)
(* The live-writer lock of core/alpaca_account_lock.py and the start-up    *)
(* gate of core/alpaca_singleton.py (enforce_live_singleton).              *)
(*                                                                         *)
(* A process holds the lock of an account through an AlpacaAccountLock     *)
(* object: an open lock file on which the kernel granted flock(LOCK_EX).   *)
(* The process remembers its locks in the registry _HELD_LOCKS, guarded by *)
(* the mutex _HELD_LOCKS_LOCK.  An acquisition runs under the mutex from   *)
(* the registry check to the registration; a release takes the mutex for   *)
(* its first and its last step only and drops the flock between the two.   *)
(* The threads of a process are not named: any thread may start an         *)
(* acquisition or a release whenever the mutex is free.  An acquisition    *)
(* made by enforce_live_singleton ends twice: acquire returns the lock and *)
(* leaves the mutex, and a step later enforce writes _STATE; a release by  *)
(* another thread of the process may come between the two.                 *)
(***************************************************************************)
EXTENDS FiniteSets, Naturals

CONSTANTS
  Procs,      \* operating-system processes (a restart reuses the name)
  Accounts,   \* normalised account names, one lock file each
  Services,   \* service names passed to enforce_live_singleton
  ServicesOf, \* ServicesOf[p]: those that the program of the process passes
  Objs,       \* AlpacaAccountLock objects (and the handles they keep open)
  MaxCalls,   \* bound: calls of enforce between the lock and _STATE at once
  None        \* Python's None, an empty lock file, a free flock

ASSUME NoneAssumption ==
  None \notin Procs \cup Accounts \cup Services \cup Objs

ASSUME ServicesOfAssumption == ServicesOf \in [Procs -> SUBSET Services]

ASSUME MaxCallsAssumption == MaxCalls \in Nat \ {0}

VARIABLES
  phase,      \* phase[p]: what the process is doing
  obj,        \* obj[o]: the lock object o and the steps made with it
  registry,   \* registry[p][a]: _HELD_LOCKS of the process
  flock,      \* flock[a]: the object whose handle the kernel granted the lock
  payload,    \* payload[a]: the process whose PID the lock file records
  entering,   \* entering[p][a]: calls of enforce that have the lock in their
              \* hands and have not yet written _STATE
  state       \* state[p]: account of _STATE, None before the first call

vars == <<phase, obj, registry, flock, payload, entering, state>>

\* "unlocked" is a paper process, or a live one under the override flag.
Phase == {"down", "unlocked", "live", "exiting"}

Acquiring == {"opened", "locked"}           \* inside the mutex
Releasing == {"releasing", "unlocking"}     \* released = True
Owning == {"locked", "held", "leaked", "releasing"}

FreeObj == [status |-> "free", proc |-> None, account |-> None, service |-> None]
LiveObj == [status : Acquiring \cup Releasing \cup {"held", "leaked"},
            proc : Procs, account : Accounts, service : Services]

\* The shape of the lock objects, the registries, the kernel's flocks and the
\* lock files, in every interleaving and after every kill.
TypeOK ==
  /\ phase \in [Procs -> Phase]
  /\ obj \in [Objs -> LiveObj \cup {FreeObj}]
  /\ registry \in [Procs -> [Accounts -> Objs \cup {None}]]
  /\ flock \in [Accounts -> Objs \cup {None}]
  /\ payload \in [Accounts -> Procs \cup {None}]
  /\ entering \in [Procs -> [Accounts -> 0..MaxCalls]]
  /\ state \in [Procs -> Accounts \cup {None}]

-----------------------------------------------------------------------------
In(o, statuses) == obj[o].status \in statuses
Of(o, p) == obj[o].proc = p

\* No thread of the process holds _HELD_LOCKS_LOCK.
MutexFree(p) == \A o \in Objs : Of(o, p) => ~In(o, Acquiring)

\* Mutant of Active: an entry counts although its release has begun.
ActiveIgnoringReleased(p, a) == registry[p][a] # None

\* _active_held_lock finds a lock object that nobody began to release.
Active(p, a) == registry[p][a] # None /\ In(registry[p][a], {"held"})

Move(o, status) == obj' = [obj EXCEPT ![o].status = status]

-----------------------------------------------------------------------------
(* Mutants: wrong versions of the steps below, each breaking one property. *)

\* The file is opened with "w+", which empties it.
OpenTruncating(p, s, a, o) ==
  /\ phase[p] = "live" /\ MutexFree(p) /\ ~Active(p, a) /\ obj[o] = FreeObj
  /\ obj' = [obj EXCEPT ![o] =
               [status |-> "opened", proc |-> p, account |-> a, service |-> s]]
  /\ registry' = [registry EXCEPT ![p][a] = None]
  /\ payload' = [payload EXCEPT ![a] = None]
  /\ UNCHANGED <<phase, flock, entering, state>>

\* LOCK_SH instead of LOCK_EX.
FlockShared(o) ==
  /\ In(o, {"opened"})
  /\ flock' = [flock EXCEPT ![obj[o].account] = o]
  /\ Move(o, "locked")
  /\ UNCHANGED <<phase, registry, payload, entering, state>>

\* LOCK_NB is missing: the thread waits inside the mutex.
FlockWaits(o) == FALSE /\ In(o, {"opened"}) /\ UNCHANGED vars

\* The flock is dropped before the object is marked released.
BeginReleaseByUnlocking(o) ==
  /\ In(o, {"held"})
  /\ flock' = [flock EXCEPT ![obj[o].account] = None]
  /\ UNCHANGED <<phase, obj, registry, payload, entering, state>>

\* The entry is popped whatever object it is.
FinishReleasePopping(o) ==
  /\ In(o, {"unlocking"})
  /\ MutexFree(obj[o].proc)
  /\ registry' = [registry EXCEPT ![obj[o].proc][obj[o].account] = None]
  /\ obj' = [obj EXCEPT ![o] = FreeObj]
  /\ UNCHANGED <<phase, flock, payload, entering, state>>

\* A released object stays registered and keeps its fields.
FinishReleaseKeeping(o) ==
  /\ In(o, {"unlocking"})
  /\ MutexFree(obj[o].proc)
  /\ Move(o, "free")
  /\ UNCHANGED <<phase, registry, flock, payload, entering, state>>

-----------------------------------------------------------------------------
Init ==
  /\ phase = [p \in Procs |-> "down"]
  /\ obj = [o \in Objs |-> FreeObj]
  /\ registry = [p \in Procs |-> [a \in Accounts |-> None]]
  /\ flock = [a \in Accounts |-> None]
  /\ payload = [a \in Accounts |-> None]
  /\ entering = [p \in Procs |-> [a \in Accounts |-> 0]]
  /\ state = [p \in Procs |-> None]

-----------------------------------------------------------------------------
(* The life of a process.                                                  *)

\* PAPER and the override flag are fixed by the environment at start.
Start(p) ==
  /\ phase[p] = "down"
  /\ \E m \in {"unlocked", "live"} : phase' = [phase EXCEPT ![p] = m]
  /\ UNCHANGED <<obj, registry, flock, payload, entering, state>>

\* The main thread ends (or unwinds with SystemExit): atexit hooks will run.
Exit(p) ==
  /\ phase[p] \in {"unlocked", "live"}
  /\ phase' = [phase EXCEPT ![p] = "exiting"]
  /\ UNCHANGED <<obj, registry, flock, payload, entering, state>>

\* The process is gone: the kernel closes its handles, the file stays.
Vanished(p) ==
  /\ phase' = [phase EXCEPT ![p] = "down"]
  /\ obj' = [o \in Objs |-> IF Of(o, p) THEN FreeObj ELSE obj[o]]
  /\ flock' = [a \in Accounts |->
                 IF flock[a] # None /\ Of(flock[a], p) THEN None ELSE flock[a]]
  /\ registry' = [registry EXCEPT ![p] = [a \in Accounts |-> None]]
  /\ entering' = [entering EXCEPT ![p] = [a \in Accounts |-> 0]]
  /\ state' = [state EXCEPT ![p] = None]
  /\ UNCHANGED payload

\* A crash or SIGKILL, at any point of any step.
Kill(p) == phase[p] # "down" /\ Vanished(p)

\* The ordinary end: every atexit release() has run.
Terminate(p) ==
  /\ phase[p] = "exiting"
  /\ \A o \in Objs : Of(o, p) => ~In(o, Releasing \cup {"held"})
  /\ Vanished(p)

-----------------------------------------------------------------------------
(* enforce_live_singleton and acquire_alpaca_account_lock.                 *)

\* Paper mode and the override: no lock, and _STATE only if it is unset.
EnforceUnlocked(p, a) ==
  /\ phase[p] = "unlocked"
  /\ state[p] = None
  /\ state' = [state EXCEPT ![p] = a]
  /\ UNCHANGED <<phase, obj, registry, flock, payload, entering>>

\* The lock is returned, to a direct caller of acquire or to
\* enforce_live_singleton, which still has to write _STATE.
Granted(p, a) ==
  \/ UNCHANGED entering
  \/ /\ entering[p][a] < MaxCalls
     /\ entering' = [entering EXCEPT ![p][a] = @ + 1]

\* _STATE = SingletonState(...), outside the mutex and without another look
\* at the lock.
SetState(p, a) ==
  /\ entering[p][a] > 0
  /\ entering' = [entering EXCEPT ![p][a] = @ - 1]
  /\ state' = [state EXCEPT ![p] = a]
  /\ UNCHANGED <<phase, obj, registry, flock, payload>>

\* The lock is registered and active: same service, the object is returned.
AcquireHeld(p, s, a) ==
  /\ phase[p] = "live"
  /\ MutexFree(p)
  /\ Active(p, a)
  /\ obj[registry[p][a]].service = s
  /\ Granted(p, a)
  /\ UNCHANGED <<phase, obj, registry, flock, payload, state>>

\* RuntimeError; enforce_live_singleton turns it into SystemExit(42), which
\* ends the process in its main thread and only the thread elsewhere.
Refuse(p) == phase' \in {phase, [phase EXCEPT ![p] = "exiting"]}

\* Another service of the process holds the lock.
RefuseInProcess(p, s, a) ==
  /\ phase[p] = "live"
  /\ MutexFree(p)
  /\ Active(p, a)
  /\ obj[registry[p][a]].service # s
  /\ Refuse(p)
  /\ UNCHANGED <<obj, registry, flock, payload, entering, state>>

\* Nothing active: a released entry is popped, the file opened with "a+".
Open(p, s, a, o) ==
  /\ phase[p] = "live"
  /\ MutexFree(p)
  /\ ~Active(p, a)
  /\ obj[o] = FreeObj
  /\ obj' = [obj EXCEPT ![o] =
               [status |-> "opened", proc |-> p, account |-> a, service |-> s]]
  /\ registry' = [registry EXCEPT ![p][a] = None]
  /\ UNCHANGED <<phase, flock, payload, entering, state>>

\* flock(LOCK_EX | LOCK_NB) succeeds.
Flock(o) ==
  /\ In(o, {"opened"})
  /\ flock[obj[o].account] = None
  /\ flock' = [flock EXCEPT ![obj[o].account] = o]
  /\ Move(o, "locked")
  /\ UNCHANGED <<phase, registry, payload, entering, state>>

\* flock raises BlockingIOError: the handle is closed, the caller refused.
FlockBusy(o) ==
  /\ In(o, {"opened"})
  /\ flock[obj[o].account] # None
  /\ obj' = [obj EXCEPT ![o] = FreeObj]
  /\ Refuse(obj[o].proc)
  /\ UNCHANGED <<registry, flock, payload, entering, state>>

\* The file is rewritten and synced, the object registered, the mutex left.
Register(o) ==
  /\ In(o, {"locked"})
  /\ LET p == obj[o].proc
         a == obj[o].account
     IN /\ payload' = [payload EXCEPT ![a] = p]
        /\ registry' = [registry EXCEPT ![p][a] = o]
        /\ Granted(p, a)
  /\ Move(o, "held")
  /\ UNCHANGED <<phase, flock, state>>

\* OSError while rewriting the file, which is left truncated: the flock stays
\* with a handle that only the exception's traceback still refers to...
WriteFails(o) ==
  /\ In(o, {"locked"})
  /\ payload' = [payload EXCEPT ![obj[o].account] = None]
  /\ Move(o, "leaked")
  /\ UNCHANGED <<phase, registry, flock, entering, state>>

\* ... until the traceback is dropped and the handle is closed.
Collect(o) ==
  /\ In(o, {"leaked"})
  /\ flock' = [flock EXCEPT ![obj[o].account] = None]
  /\ obj' = [obj EXCEPT ![o] = FreeObj]
  /\ UNCHANGED <<phase, registry, payload, entering, state>>

-----------------------------------------------------------------------------
(* AlpacaAccountLock.release, called by the program or by atexit.          *)

BeginRelease(o) ==
  /\ In(o, {"held"})
  /\ MutexFree(obj[o].proc)
  /\ Move(o, "releasing")
  /\ UNCHANGED <<phase, registry, flock, payload, entering, state>>

\* Outside the mutex: flock(LOCK_UN) and close.
Unlock(o) ==
  /\ In(o, {"releasing"})
  /\ flock' = [flock EXCEPT ![obj[o].account] = None]
  /\ Move(o, "unlocking")
  /\ UNCHANGED <<phase, registry, payload, entering, state>>

\* The registry entry is popped only if it still is this object.
FinishRelease(o) ==
  /\ In(o, {"unlocking"})
  /\ MutexFree(obj[o].proc)
  /\ LET p == obj[o].proc
         a == obj[o].account
     IN registry' = [registry EXCEPT ![p][a] = IF @ = o THEN None ELSE @]
  /\ obj' = [obj EXCEPT ![o] = FreeObj]
  /\ UNCHANGED <<phase, flock, payload, entering, state>>

-----------------------------------------------------------------------------
Life(p) == Start(p) \/ Exit(p) \/ Kill(p) \/ Terminate(p)

Enforce(p) == \E a \in Accounts :
  \/ EnforceUnlocked(p, a)
  \/ SetState(p, a)
  \/ \E s \in ServicesOf[p] :
       \/ AcquireHeld(p, s, a)
       \/ RefuseInProcess(p, s, a)
       \/ \E o \in Objs : Open(p, s, a, o)

AcquireStep(o) ==
  Flock(o) \/ FlockBusy(o) \/ Register(o) \/ WriteFails(o) \/ Collect(o)

ReleaseStep(o) == BeginRelease(o) \/ Unlock(o) \/ FinishRelease(o)

Next ==
  \/ \E p \in Procs : Life(p) \/ Enforce(p)
  \/ \E o \in Objs : AcquireStep(o) \/ ReleaseStep(o)

Spec == Init /\ [][Next]_vars

\* The operating system runs the threads that are inside the lock code, and
\* the interpreter runs the atexit hooks of a process that is ending.
Fairness ==
  /\ \A o \in Objs :
       /\ WF_vars(AcquireStep(o))
       /\ WF_vars(Unlock(o) \/ FinishRelease(o))
       /\ WF_vars(BeginRelease(o) /\ phase[obj[o].proc] = "exiting")
  /\ \A p \in Procs : WF_vars(Terminate(p))

FairSpec == Spec /\ Fairness

-----------------------------------------------------------------------------
(* Properties.                                                             *)

Writes(p, a, o) == Of(o, p) /\ In(o, {"held"}) /\ obj[o].account = a

\* HARD RULE 2: whatever two processes do concurrently, crash or release
\* half-way, at most one of them holds an unreleased lock of an account.
ExclusiveWriter ==
  \A a \in Accounts, p, q \in Procs, o, r \in Objs :
    Writes(p, a, o) /\ Writes(q, a, r) => p = q /\ o = r

\* A granted flock is never orphaned: the object that owns it is still being
\* acquired or released, is about to be collected, or is the one the registry
\* of its process returns to a later call (the "held is self" test of release
\* must not pop the entry of a newer lock).
NoOrphanLock ==
  \A a \in Accounts, o \in Objs : flock[a] = o =>
    /\ In(o, Owning)
    /\ obj[o].account = a
    /\ In(o, {"held"}) => registry[obj[o].proc][a] = o

\* While a lock is held its file names the holder: no refused process, which
\* opens the same file, damages what the deploy script and the refusal
\* message read from it.
HolderIsNamed ==
  \A o \in Objs : In(o, {"held"}) =>
    payload[obj[o].account] = obj[o].proc

\* The lock that acquire_alpaca_account_lock hands to enforce_live_singleton
\* is owned by the process when acquire leaves the mutex: an entry of the
\* registry whose release another thread has begun is never handed out again.
\* Nothing is said of the later moment when _STATE is written: by then another
\* thread of the same process may have released the lock.
GrantMeansHeld ==
  [][\A p \in Procs, a \in Accounts :
       entering'[p][a] > entering[p][a] =>
         \E o \in Objs : Writes(p, a, o)' /\ flock'[a] = o]_vars

\* A process that is ending comes to its end: no thread waits for a lock of
\* another process while it keeps the mutex that release() needs.
ExitCompletes ==
  \A p \in Procs : phase[p] = "exiting" ~> phase[p] = "down"

\* The lock protocol implements the abstract single-writer rule.
SW == INSTANCE SingleWriter WITH
  writers <- [a \in Accounts |-> {p \in Procs : \E o \in Objs : Writes(p, a, o)}]
ImplementsSingleWriter == SW!SWSpec
=============================================================================
