------------------------ MODULE LiveWriterLockProofs ------------------------
(***************************************************************************)
(* Proofs about LiveWriterLock for every set of processes, accounts,       *)
(* services and lock objects.                                              *)
(***************************************************************************)
EXTENDS LiveWriterLock, TLAPS

\* An object that owns an flock by its status is the one the kernel granted.
OwnersHaveFlock ==
  \A o \in Objs : In(o, Owning) => flock[obj[o].account] = o

\* The mutex admits one acquisition at a time in each process.
OneAcquirer ==
  \A o, r \in Objs :
    In(o, Acquiring) /\ In(r, Acquiring) /\ obj[o].proc = obj[r].proc => o = r

\* A registry entry is a registered object of that process and account.
EntriesAreReal ==
  \A p \in Procs, a \in Accounts, o \in Objs : registry[p][a] = o =>
    /\ In(o, Releasing \cup {"held"})
    /\ obj[o].proc = p
    /\ obj[o].account = a

\* While a process acquires an account its registry has no entry for it.
AcquirersUnregistered ==
  \A o \in Objs : In(o, Acquiring) => registry[obj[o].proc][obj[o].account] = None

\* An unreleased lock is the registered one.
HeldAreRegistered ==
  \A o \in Objs : In(o, {"held"}) => registry[obj[o].proc][obj[o].account] = o

\* The inductive invariant.
LockInv ==
  /\ TypeOK
  /\ OwnersHaveFlock
  /\ NoOrphanLock
  /\ OneAcquirer
  /\ EntriesAreReal
  /\ AcquirersUnregistered
  /\ HeldAreRegistered
  /\ HolderIsNamed

-----------------------------------------------------------------------------
USE NoneAssumption, MaxCallsAssumption DEF Acquiring, Releasing, Owning, FreeObj, Phase,
                       In, Of, Move, MutexFree, Active, Granted, Refuse

\* Before the first acquisition nothing is held.
LEMMA InitInv == Init => LockInv
  BY DEF Init, LockInv, TypeOK, OwnersHaveFlock, NoOrphanLock, OneAcquirer,
         EntriesAreReal, AcquirersUnregistered, HeldAreRegistered, HolderIsNamed

\* The fields of an object in use are set.
LEMMA InUse ==
  ASSUME TypeOK, NEW o \in Objs, obj[o].status # "free"
  PROVE  obj[o] \in LiveObj
  BY DEF TypeOK, LiveObj

\* A change of status keeps the object well-formed.
LEMMA MoveType ==
  ASSUME TypeOK, NEW o \in Objs, obj[o].status # "free",
         NEW s \in Acquiring \cup Releasing \cup {"held", "leaked"}, Move(o, s)
  PROVE  /\ obj' \in [Objs -> LiveObj \cup {FreeObj}]
         /\ obj'[o] \in LiveObj
         /\ obj'[o].status = s
         /\ obj'[o].proc = obj[o].proc /\ obj'[o].account = obj[o].account
  <1>1. obj[o] \in LiveObj  BY InUse
  <1>2. [obj[o] EXCEPT !.status = s] \in LiveObj  BY <1>1 DEF LiveObj
  <1>3. obj' = [obj EXCEPT ![o] = [obj[o] EXCEPT !.status = s]]
    BY DEF TypeOK
  <1>4. /\ [obj[o] EXCEPT !.status = s].status = s
        /\ [obj[o] EXCEPT !.status = s].proc = obj[o].proc
        /\ [obj[o] EXCEPT !.status = s].account = obj[o].account
    BY <1>1 DEF LiveObj
  <1>5. obj'[o] = [obj[o] EXCEPT !.status = s]  BY <1>3 DEF TypeOK
  <1> QED  BY <1>2, <1>3, <1>4, <1>5 DEF TypeOK

\* The owner and the account of an object that is in use.
LEMMA FieldTypes ==
  ASSUME TypeOK
  PROVE  \A o \in Objs : obj[o].status # "free" =>
                           obj[o].proc \in Procs /\ obj[o].account \in Accounts
  BY InUse DEF LiveObj

\* The tables of the registry and of the kernel, for the steps that update them.
LEMMA FunTypes ==
  ASSUME TypeOK
  PROVE  /\ registry \in [Procs -> [Accounts -> Objs \cup {None}]]
         /\ flock \in [Accounts -> Objs \cup {None}]
         /\ payload \in [Accounts -> Procs \cup {None}]
  BY DEF TypeOK

\* The counts of calls between the lock and _STATE stay within their bound.
LEMMA EnteringType ==
  ASSUME TypeOK, NEW p \in Procs, NEW a \in Accounts,
         \/ Granted(p, a)
         \/ /\ entering[p][a] > 0
            /\ entering' = [entering EXCEPT ![p][a] = @ - 1]
  PROVE  entering' \in [Procs -> [Accounts -> 0..MaxCalls]]
  <1>1. /\ entering \in [Procs -> [Accounts -> 0..MaxCalls]]
        /\ entering[p] \in [Accounts -> 0..MaxCalls]
        /\ entering[p][a] \in 0..MaxCalls
    BY DEF TypeOK
  <1>2. \A n \in 0..MaxCalls :
          [entering EXCEPT ![p][a] = n] \in [Procs -> [Accounts -> 0..MaxCalls]]
    BY <1>1
  <1>3. CASE UNCHANGED entering  BY <1>1, <1>3
  <1>4. CASE /\ entering[p][a] < MaxCalls
             /\ entering' = [entering EXCEPT ![p][a] = @ + 1]
    <2>1. entering[p][a] + 1 \in 0..MaxCalls  BY <1>1, <1>4
    <2> QED  BY <1>2, <1>4, <2>1
  <1>5. CASE /\ entering[p][a] > 0
             /\ entering' = [entering EXCEPT ![p][a] = @ - 1]
    <2>1. entering[p][a] - 1 \in 0..MaxCalls  BY <1>1, <1>5
    <2> QED  BY <1>2, <1>5, <2>1
  <1> QED  BY <1>3, <1>4, <1>5

\* Type correctness is inductive on its own.
LEMMA TypeStep == TypeOK /\ [Next]_vars => TypeOK'
  <1> SUFFICES ASSUME TypeOK, [Next]_vars PROVE TypeOK'
    OBVIOUS
  <1> USE DEF TypeOK, LiveObj
  <1>1. ASSUME NEW p \in Procs, Life(p) PROVE TypeOK'
    <2>1. CASE Start(p)  BY <2>1 DEF Start
    <2>2. CASE Exit(p)  BY <2>2 DEF Exit
    <2>3. CASE Vanished(p)  BY <2>3 DEF Vanished
    <2> QED  BY <1>1, <2>1, <2>2, <2>3 DEF Life, Kill, Terminate
  <1>2. ASSUME NEW p \in Procs, Enforce(p) PROVE TypeOK'
    <2> PICK a \in Accounts :
          \/ EnforceUnlocked(p, a)
          \/ SetState(p, a)
          \/ \E s \in Services : \/ AcquireHeld(p, s, a)
                                \/ RefuseInProcess(p, s, a)
                                \/ \E o \in Objs : Open(p, s, a, o)
      BY <1>2, ServicesOfAssumption DEF Enforce
    <2>1. CASE EnforceUnlocked(p, a)  BY <2>1 DEF EnforceUnlocked
    <2>2. ASSUME NEW s \in Services, AcquireHeld(p, s, a) PROVE TypeOK'
      BY <2>2, EnteringType DEF AcquireHeld
    <2>3. ASSUME NEW s \in Services, RefuseInProcess(p, s, a) PROVE TypeOK'
      BY <2>3 DEF RefuseInProcess
    <2>4. ASSUME NEW s \in Services, NEW o \in Objs, Open(p, s, a, o) PROVE TypeOK'
      BY <2>4 DEF Open
    <2>5. CASE SetState(p, a)  BY <2>5, EnteringType DEF SetState
    <2> QED  BY <2>1, <2>2, <2>3, <2>4, <2>5
  <1>3. ASSUME NEW o \in Objs, AcquireStep(o) PROVE TypeOK'
    <2>1. CASE Flock(o)  BY <2>1, InUse, MoveType DEF Flock
    <2>2. CASE FlockBusy(o)  BY <2>2, InUse DEF FlockBusy
    <2>3. CASE Register(o)
      <3>1. obj[o].proc \in Procs /\ obj[o].account \in Accounts
        BY <2>3, InUse DEF Register, In, LiveObj
      <3>2. obj' \in [Objs -> LiveObj \cup {FreeObj}]
        BY <2>3, MoveType DEF Register, In
      <3>3. /\ registry' \in [Procs -> [Accounts -> Objs \cup {None}]]
            /\ payload' \in [Accounts -> Procs \cup {None}]
        BY <2>3, <3>1, FunTypes DEF Register
      <3>4. entering' \in [Procs -> [Accounts -> 0..MaxCalls]]
        BY <2>3, <3>1, EnteringType DEF Register
      <3> QED  BY <2>3, <3>2, <3>3, <3>4 DEF Register, TypeOK
    <2>4. CASE WriteFails(o)  BY <2>4, InUse, MoveType DEF WriteFails
    <2>5. CASE Collect(o)  BY <2>5, InUse DEF Collect
    <2> QED  BY <1>3, <2>1, <2>2, <2>3, <2>4, <2>5 DEF AcquireStep
  <1>4. ASSUME NEW o \in Objs, ReleaseStep(o) PROVE TypeOK'
    <2>1. CASE BeginRelease(o)  BY <2>1, InUse, MoveType DEF BeginRelease
    <2>2. CASE Unlock(o)  BY <2>2, InUse, MoveType DEF Unlock
    <2>3. CASE FinishRelease(o)  BY <2>3, InUse DEF FinishRelease
    <2> QED  BY <1>4, <2>1, <2>2, <2>3 DEF ReleaseStep
  <1>5. CASE UNCHANGED vars  BY <1>5 DEF vars
  <1> QED  BY <1>1, <1>2, <1>3, <1>4, <1>5 DEF Next

\* Every state of the lock protocol is well-formed: objects, registries,
\* kernel locks and lock files, for any processes, accounts and services.
THEOREM TypeCorrect == Spec => []TypeOK
  <1>1. Init => TypeOK  BY InitInv DEF LockInv
  <1> QED  BY <1>1, TypeStep, PTL DEF Spec

-----------------------------------------------------------------------------
(* The inductive step, one lemma for each group of actions.                *)

\* Starts, exits and kills of processes.
LEMMA LifeStep ==
  ASSUME LockInv, NEW p \in Procs, Life(p), TypeOK'
  PROVE  LockInv'
  <1> USE DEF LockInv
  <1>1. CASE Start(p)
      BY <1>1 DEF Start, OwnersHaveFlock, NoOrphanLock, OneAcquirer,
          EntriesAreReal, AcquirersUnregistered, HeldAreRegistered, HolderIsNamed
  <1>2. CASE Exit(p)
      BY <1>2 DEF Exit, OwnersHaveFlock, NoOrphanLock, OneAcquirer,
          EntriesAreReal, AcquirersUnregistered, HeldAreRegistered, HolderIsNamed
  <1>3. CASE Vanished(p)
    <2>1. \A o \in Objs : obj'[o].status # "free" => obj'[o] = obj[o] /\ obj[o].proc # p
      BY <1>3 DEF Vanished, TypeOK
    <2>2. \A o \in Objs : obj[o].proc # p => obj'[o] = obj[o]
      BY <1>3 DEF Vanished, TypeOK
    <2>3. /\ \A a \in Accounts, o \in Objs :
               flock'[a] = o <=> flock[a] = o /\ obj[o].proc # p
          /\ \A a \in Accounts : registry'[p][a] = None
          /\ \A q \in Procs : q # p => registry'[q] = registry[q]
          /\ UNCHANGED payload
      BY <1>3, FunTypes DEF Vanished
    <2>4. OwnersHaveFlock'
      BY <2>1, <2>3, FieldTypes DEF OwnersHaveFlock
    <2>5. NoOrphanLock'
      BY <2>2, <2>3, FieldTypes DEF NoOrphanLock
    <2>6. OneAcquirer'  BY <2>1 DEF OneAcquirer
    <2>7. EntriesAreReal'  BY <2>2, <2>3 DEF EntriesAreReal
    <2>8. AcquirersUnregistered'
      BY <2>1, <2>3, FieldTypes DEF AcquirersUnregistered
    <2>9. HeldAreRegistered'
      BY <2>1, <2>3, FieldTypes DEF HeldAreRegistered
    <2>10. HolderIsNamed'  BY <2>1, <2>3 DEF HolderIsNamed
    <2> QED  BY TypeOK', <2>4, <2>5, <2>6, <2>7, <2>8, <2>9, <2>10
  <1> QED  BY <1>1, <1>2, <1>3 DEF Life, Kill, Terminate

\* The branches of enforce_live_singleton.
LEMMA EnforceStep ==
  ASSUME LockInv, NEW p \in Procs, Enforce(p), TypeOK'
  PROVE  LockInv'
  <1> USE DEF LockInv
  <1> PICK a \in Accounts :
        \/ EnforceUnlocked(p, a)
        \/ SetState(p, a)
        \/ \E s \in Services : \/ AcquireHeld(p, s, a)
                              \/ RefuseInProcess(p, s, a)
                              \/ \E o \in Objs : Open(p, s, a, o)
    BY ServicesOfAssumption DEF Enforce
  <1>1. CASE EnforceUnlocked(p, a)
      BY <1>1 DEF EnforceUnlocked, OwnersHaveFlock, NoOrphanLock, OneAcquirer,
          EntriesAreReal, AcquirersUnregistered, HeldAreRegistered, HolderIsNamed
  <1>2. ASSUME NEW s \in Services, AcquireHeld(p, s, a) PROVE LockInv'
      BY <1>2 DEF AcquireHeld, OwnersHaveFlock, NoOrphanLock, OneAcquirer,
          EntriesAreReal, AcquirersUnregistered, HeldAreRegistered, HolderIsNamed
  <1>3. ASSUME NEW s \in Services, RefuseInProcess(p, s, a) PROVE LockInv'
      BY <1>3 DEF RefuseInProcess, OwnersHaveFlock, NoOrphanLock, OneAcquirer,
          EntriesAreReal, AcquirersUnregistered, HeldAreRegistered, HolderIsNamed
  <1>4. ASSUME NEW s \in Services, NEW o \in Objs, Open(p, s, a, o) PROVE LockInv'
    <2>1. obj[o].status = "free" /\ MutexFree(p) /\ ~Active(p, a)
      BY <1>4 DEF Open
    <2>2. \A r \in Objs : r # o => obj'[r] = obj[r]
      BY <1>4 DEF Open, TypeOK
    <2>3. obj'[o].status = "opened" /\ obj'[o].proc = p /\ obj'[o].account = a
      BY <1>4 DEF Open, TypeOK
    <2>4. /\ registry' = [registry EXCEPT ![p][a] = None]
          /\ UNCHANGED <<flock, payload>>
      BY <1>4 DEF Open
    <2>5. OwnersHaveFlock'  BY <2>2, <2>3, <2>4 DEF OwnersHaveFlock
    <2>6. NoOrphanLock'
      BY <2>1, <2>2, <2>3, <2>4, FieldTypes, FunTypes DEF NoOrphanLock
    <2>7. OneAcquirer'  BY <2>1, <2>2, <2>3 DEF OneAcquirer
    <2>8. EntriesAreReal'
      BY <2>1, <2>2, <2>3, <2>4, FunTypes DEF EntriesAreReal
    <2>9. AcquirersUnregistered'
      BY <2>2, <2>3, <2>4, FieldTypes, FunTypes DEF AcquirersUnregistered
    <2>10. HeldAreRegistered'
      BY <2>1, <2>2, <2>3, <2>4, FieldTypes, FunTypes DEF HeldAreRegistered
    <2>11. HolderIsNamed'  BY <2>2, <2>3, <2>4 DEF HolderIsNamed
    <2> QED  BY TypeOK', <2>5, <2>6, <2>7, <2>8, <2>9, <2>10, <2>11
  <1>5. CASE SetState(p, a)
      BY <1>5 DEF SetState, OwnersHaveFlock, NoOrphanLock, OneAcquirer,
          EntriesAreReal, AcquirersUnregistered, HeldAreRegistered, HolderIsNamed
  <1> QED  BY <1>1, <1>2, <1>3, <1>4, <1>5

\* The steps of acquire_alpaca_account_lock.
LEMMA AcquireInv ==
  ASSUME LockInv, NEW o \in Objs, AcquireStep(o), TypeOK'
  PROVE  LockInv'
  <1> USE DEF LockInv
  <1>1. CASE Flock(o)
    <2>1. obj[o].status = "opened"  BY <1>1 DEF Flock
    <2>2. obj[o].proc \in Procs /\ obj[o].account \in Accounts
      BY <2>1, InUse DEF LiveObj
    <2>3. \A r \in Objs : r # o => obj'[r] = obj[r]
      BY <1>1 DEF Flock, TypeOK
    <2>4. /\ obj'[o].status = "locked"
          /\ obj'[o].proc = obj[o].proc /\ obj'[o].account = obj[o].account
      BY <1>1, <2>1, MoveType DEF Flock
    <2>5. /\ flock[obj[o].account] = None
          /\ flock' = [flock EXCEPT ![obj[o].account] = o]
          /\ UNCHANGED <<registry, payload>>
      BY <1>1 DEF Flock, TypeOK
    <2>6. OwnersHaveFlock'
      BY <2>1, <2>2, <2>3, <2>4, <2>5, FieldTypes, FunTypes DEF OwnersHaveFlock,
         NoOrphanLock
    <2>7. NoOrphanLock'
      BY <2>1, <2>2, <2>3, <2>4, <2>5, FieldTypes, FunTypes DEF NoOrphanLock,
         OwnersHaveFlock, HeldAreRegistered, EntriesAreReal
    <2>8. OneAcquirer'
      BY <2>1, <2>3, <2>4 DEF OneAcquirer
    <2>9. EntriesAreReal'
      BY <2>1, <2>2, <2>3, <2>4, <2>5, FieldTypes, FunTypes DEF EntriesAreReal,
         AcquirersUnregistered, HeldAreRegistered
    <2>10. AcquirersUnregistered'
      BY <2>1, <2>2, <2>3, <2>4, <2>5, FieldTypes, FunTypes DEF AcquirersUnregistered,
         OneAcquirer
    <2>11. HeldAreRegistered'
      BY <2>1, <2>2, <2>3, <2>4, <2>5, FieldTypes, FunTypes DEF HeldAreRegistered,
         OneAcquirer, AcquirersUnregistered
    <2>12. HolderIsNamed'
      BY <2>1, <2>2, <2>3, <2>4, <2>5, FieldTypes, FunTypes DEF HolderIsNamed,
         OwnersHaveFlock
    <2> QED  BY TypeOK', <2>6, <2>7, <2>8, <2>9, <2>10, <2>11, <2>12 DEF LockInv
  <1>2. CASE FlockBusy(o)
    <2>1. obj[o].status = "opened"  BY <1>2 DEF FlockBusy
    <2>2. obj[o].proc \in Procs /\ obj[o].account \in Accounts
      BY <2>1, InUse DEF LiveObj
    <2>3. \A r \in Objs : r # o => obj'[r] = obj[r]
      BY <1>2 DEF FlockBusy, TypeOK
    <2>4. obj'[o].status = "free"  BY <1>2 DEF FlockBusy, TypeOK
    <2>5. UNCHANGED <<registry, payload, flock>>
      BY <1>2 DEF FlockBusy, TypeOK
    <2>6. OwnersHaveFlock'
      BY <2>1, <2>2, <2>3, <2>4, <2>5, FieldTypes, FunTypes DEF OwnersHaveFlock,
         NoOrphanLock
    <2>7. NoOrphanLock'
      BY <2>1, <2>2, <2>3, <2>4, <2>5, FieldTypes, FunTypes DEF NoOrphanLock,
         OwnersHaveFlock, HeldAreRegistered, EntriesAreReal
    <2>8. OneAcquirer'
      BY <2>1, <2>3, <2>4 DEF OneAcquirer
    <2>9. EntriesAreReal'
      BY <2>1, <2>2, <2>3, <2>4, <2>5, FieldTypes, FunTypes DEF EntriesAreReal,
         AcquirersUnregistered, HeldAreRegistered
    <2>10. AcquirersUnregistered'
      BY <2>1, <2>2, <2>3, <2>4, <2>5, FieldTypes, FunTypes DEF AcquirersUnregistered,
         OneAcquirer
    <2>11. HeldAreRegistered'
      BY <2>1, <2>2, <2>3, <2>4, <2>5, FieldTypes, FunTypes DEF HeldAreRegistered,
         OneAcquirer, AcquirersUnregistered
    <2>12. HolderIsNamed'
      BY <2>1, <2>2, <2>3, <2>4, <2>5, FieldTypes, FunTypes DEF HolderIsNamed,
         OwnersHaveFlock
    <2> QED  BY TypeOK', <2>6, <2>7, <2>8, <2>9, <2>10, <2>11, <2>12 DEF LockInv
  <1>3. CASE Register(o)
    <2>1. obj[o].status = "locked"  BY <1>3 DEF Register
    <2>2. obj[o].proc \in Procs /\ obj[o].account \in Accounts
      BY <2>1, InUse DEF LiveObj
    <2>3. \A r \in Objs : r # o => obj'[r] = obj[r]
      BY <1>3 DEF Register, TypeOK
    <2>4. /\ obj'[o].status = "held"
          /\ obj'[o].proc = obj[o].proc /\ obj'[o].account = obj[o].account
      BY <1>3, <2>1, MoveType DEF Register
    <2>5. /\ registry' = [registry EXCEPT ![obj[o].proc][obj[o].account] = o]
          /\ payload' = [payload EXCEPT ![obj[o].account] = obj[o].proc]
          /\ UNCHANGED flock
      BY <1>3 DEF Register, TypeOK
    <2>6. OwnersHaveFlock'
      BY <2>1, <2>2, <2>3, <2>4, <2>5, FieldTypes, FunTypes DEF OwnersHaveFlock,
         NoOrphanLock
    <2>7. NoOrphanLock'
      BY <2>1, <2>2, <2>3, <2>4, <2>5, FieldTypes, FunTypes DEF NoOrphanLock,
         OwnersHaveFlock, HeldAreRegistered, EntriesAreReal
    <2>8. OneAcquirer'
      BY <2>1, <2>3, <2>4 DEF OneAcquirer
    <2>9. EntriesAreReal'
      BY <2>1, <2>2, <2>3, <2>4, <2>5, FieldTypes, FunTypes DEF EntriesAreReal,
         AcquirersUnregistered, HeldAreRegistered
    <2>10. AcquirersUnregistered'
      BY <2>1, <2>2, <2>3, <2>4, <2>5, FieldTypes, FunTypes DEF AcquirersUnregistered,
         OneAcquirer
    <2>11. HeldAreRegistered'
      BY <2>1, <2>2, <2>3, <2>4, <2>5, FieldTypes, FunTypes DEF HeldAreRegistered,
         OneAcquirer, AcquirersUnregistered
    <2>12. HolderIsNamed'
      BY <2>1, <2>2, <2>3, <2>4, <2>5, FieldTypes, FunTypes DEF HolderIsNamed,
         OwnersHaveFlock
    <2> QED  BY TypeOK', <2>6, <2>7, <2>8, <2>9, <2>10, <2>11, <2>12 DEF LockInv
  <1>4. CASE WriteFails(o)
    <2>1. obj[o].status = "locked"  BY <1>4 DEF WriteFails
    <2>2. obj[o].proc \in Procs /\ obj[o].account \in Accounts
      BY <2>1, InUse DEF LiveObj
    <2>3. \A r \in Objs : r # o => obj'[r] = obj[r]
      BY <1>4 DEF WriteFails, TypeOK
    <2>4. /\ obj'[o].status = "leaked"
          /\ obj'[o].proc = obj[o].proc /\ obj'[o].account = obj[o].account
      BY <1>4, <2>1, MoveType DEF WriteFails
    <2>5. /\ payload' = [payload EXCEPT ![obj[o].account] = None]
          /\ UNCHANGED <<flock, registry>>
      BY <1>4 DEF WriteFails, TypeOK
    <2>6. OwnersHaveFlock'
      BY <2>1, <2>2, <2>3, <2>4, <2>5, FieldTypes, FunTypes DEF OwnersHaveFlock,
         NoOrphanLock
    <2>7. NoOrphanLock'
      BY <2>1, <2>2, <2>3, <2>4, <2>5, FieldTypes, FunTypes DEF NoOrphanLock,
         OwnersHaveFlock, HeldAreRegistered, EntriesAreReal
    <2>8. OneAcquirer'
      BY <2>1, <2>3, <2>4 DEF OneAcquirer
    <2>9. EntriesAreReal'
      BY <2>1, <2>2, <2>3, <2>4, <2>5, FieldTypes, FunTypes DEF EntriesAreReal,
         AcquirersUnregistered, HeldAreRegistered
    <2>10. AcquirersUnregistered'
      BY <2>1, <2>2, <2>3, <2>4, <2>5, FieldTypes, FunTypes DEF AcquirersUnregistered,
         OneAcquirer
    <2>11. HeldAreRegistered'
      BY <2>1, <2>2, <2>3, <2>4, <2>5, FieldTypes, FunTypes DEF HeldAreRegistered,
         OneAcquirer, AcquirersUnregistered
    <2>12. HolderIsNamed'
      BY <2>1, <2>2, <2>3, <2>4, <2>5, FieldTypes, FunTypes DEF HolderIsNamed,
         OwnersHaveFlock
    <2> QED  BY TypeOK', <2>6, <2>7, <2>8, <2>9, <2>10, <2>11, <2>12 DEF LockInv
  <1>5. CASE Collect(o)
    <2>1. obj[o].status = "leaked"  BY <1>5 DEF Collect
    <2>2. obj[o].proc \in Procs /\ obj[o].account \in Accounts
      BY <2>1, InUse DEF LiveObj
    <2>3. \A r \in Objs : r # o => obj'[r] = obj[r]
      BY <1>5 DEF Collect, TypeOK
    <2>4. obj'[o].status = "free"  BY <1>5 DEF Collect, TypeOK
    <2>5. /\ flock' = [flock EXCEPT ![obj[o].account] = None]
          /\ UNCHANGED <<payload, registry>>
      BY <1>5 DEF Collect, TypeOK
    <2>6. OwnersHaveFlock'
      BY <2>1, <2>2, <2>3, <2>4, <2>5, FieldTypes, FunTypes DEF OwnersHaveFlock,
         NoOrphanLock
    <2>7. NoOrphanLock'
      BY <2>1, <2>2, <2>3, <2>4, <2>5, FieldTypes, FunTypes DEF NoOrphanLock,
         OwnersHaveFlock, HeldAreRegistered, EntriesAreReal
    <2>8. OneAcquirer'
      BY <2>1, <2>3, <2>4 DEF OneAcquirer
    <2>9. EntriesAreReal'
      BY <2>1, <2>2, <2>3, <2>4, <2>5, FieldTypes, FunTypes DEF EntriesAreReal,
         AcquirersUnregistered, HeldAreRegistered
    <2>10. AcquirersUnregistered'
      BY <2>1, <2>2, <2>3, <2>4, <2>5, FieldTypes, FunTypes DEF AcquirersUnregistered,
         OneAcquirer
    <2>11. HeldAreRegistered'
      BY <2>1, <2>2, <2>3, <2>4, <2>5, FieldTypes, FunTypes DEF HeldAreRegistered,
         OneAcquirer, AcquirersUnregistered
    <2>12. HolderIsNamed'
      BY <2>1, <2>2, <2>3, <2>4, <2>5, FieldTypes, FunTypes DEF HolderIsNamed,
         OwnersHaveFlock
    <2> QED  BY TypeOK', <2>6, <2>7, <2>8, <2>9, <2>10, <2>11, <2>12 DEF LockInv
  <1> QED  BY <1>1, <1>2, <1>3, <1>4, <1>5 DEF AcquireStep

\* The steps of release and of the atexit handler.
LEMMA ReleaseInv ==
  ASSUME LockInv, NEW o \in Objs, ReleaseStep(o), TypeOK'
  PROVE  LockInv'
  <1> USE DEF LockInv
  <1>1. CASE BeginRelease(o)
    <2>1. obj[o].status = "held"  BY <1>1 DEF BeginRelease
    <2>2. obj[o].proc \in Procs /\ obj[o].account \in Accounts
      BY <2>1, InUse DEF LiveObj
    <2>3. \A r \in Objs : r # o => obj'[r] = obj[r]
      BY <1>1 DEF BeginRelease, TypeOK
    <2>4. /\ obj'[o].status = "releasing"
          /\ obj'[o].proc = obj[o].proc /\ obj'[o].account = obj[o].account
      BY <1>1, <2>1, MoveType DEF BeginRelease
    <2>5. /\ MutexFree(obj[o].proc)
          /\ UNCHANGED <<flock, registry, payload>>
      BY <1>1 DEF BeginRelease, TypeOK
    <2>6. OwnersHaveFlock'
      BY <2>1, <2>2, <2>3, <2>4, <2>5, FieldTypes, FunTypes DEF OwnersHaveFlock,
         NoOrphanLock
    <2>7. NoOrphanLock'
      BY <2>1, <2>2, <2>3, <2>4, <2>5, FieldTypes, FunTypes DEF NoOrphanLock,
         OwnersHaveFlock, HeldAreRegistered, EntriesAreReal
    <2>8. OneAcquirer'
      BY <2>1, <2>3, <2>4 DEF OneAcquirer
    <2>9. EntriesAreReal'
      BY <2>1, <2>2, <2>3, <2>4, <2>5, FieldTypes, FunTypes DEF EntriesAreReal,
         AcquirersUnregistered, HeldAreRegistered
    <2>10. AcquirersUnregistered'
      BY <2>1, <2>2, <2>3, <2>4, <2>5, FieldTypes, FunTypes DEF AcquirersUnregistered,
         OneAcquirer
    <2>11. HeldAreRegistered'
      BY <2>1, <2>2, <2>3, <2>4, <2>5, FieldTypes, FunTypes DEF HeldAreRegistered,
         OneAcquirer, AcquirersUnregistered
    <2>12. HolderIsNamed'
      BY <2>1, <2>2, <2>3, <2>4, <2>5, FieldTypes, FunTypes DEF HolderIsNamed,
         OwnersHaveFlock
    <2> QED  BY TypeOK', <2>6, <2>7, <2>8, <2>9, <2>10, <2>11, <2>12 DEF LockInv
  <1>2. CASE Unlock(o)
    <2>1. obj[o].status = "releasing"  BY <1>2 DEF Unlock
    <2>2. obj[o].proc \in Procs /\ obj[o].account \in Accounts
      BY <2>1, InUse DEF LiveObj
    <2>3. \A r \in Objs : r # o => obj'[r] = obj[r]
      BY <1>2 DEF Unlock, TypeOK
    <2>4. /\ obj'[o].status = "unlocking"
          /\ obj'[o].proc = obj[o].proc /\ obj'[o].account = obj[o].account
      BY <1>2, <2>1, MoveType DEF Unlock
    <2>5. /\ flock' = [flock EXCEPT ![obj[o].account] = None]
          /\ UNCHANGED <<registry, payload>>
      BY <1>2 DEF Unlock, TypeOK
    <2>6. OwnersHaveFlock'
      BY <2>1, <2>2, <2>3, <2>4, <2>5, FieldTypes, FunTypes DEF OwnersHaveFlock,
         NoOrphanLock
    <2>7. NoOrphanLock'
      BY <2>1, <2>2, <2>3, <2>4, <2>5, FieldTypes, FunTypes DEF NoOrphanLock,
         OwnersHaveFlock, HeldAreRegistered, EntriesAreReal
    <2>8. OneAcquirer'
      BY <2>1, <2>3, <2>4 DEF OneAcquirer
    <2>9. EntriesAreReal'
      BY <2>1, <2>2, <2>3, <2>4, <2>5, FieldTypes, FunTypes DEF EntriesAreReal,
         AcquirersUnregistered, HeldAreRegistered
    <2>10. AcquirersUnregistered'
      BY <2>1, <2>2, <2>3, <2>4, <2>5, FieldTypes, FunTypes DEF AcquirersUnregistered,
         OneAcquirer
    <2>11. HeldAreRegistered'
      BY <2>1, <2>2, <2>3, <2>4, <2>5, FieldTypes, FunTypes DEF HeldAreRegistered,
         OneAcquirer, AcquirersUnregistered
    <2>12. HolderIsNamed'
      BY <2>1, <2>2, <2>3, <2>4, <2>5, FieldTypes, FunTypes DEF HolderIsNamed,
         OwnersHaveFlock
    <2> QED  BY TypeOK', <2>6, <2>7, <2>8, <2>9, <2>10, <2>11, <2>12 DEF LockInv
  <1>3. CASE FinishRelease(o)
    <2>1. obj[o].status = "unlocking"  BY <1>3 DEF FinishRelease
    <2>2. obj[o].proc \in Procs /\ obj[o].account \in Accounts
      BY <2>1, InUse DEF LiveObj
    <2>3. \A r \in Objs : r # o => obj'[r] = obj[r]
      BY <1>3 DEF FinishRelease, TypeOK
    <2>4. obj'[o].status = "free"  BY <1>3 DEF FinishRelease, TypeOK
    <2>5. /\ MutexFree(obj[o].proc)
          /\ registry' = [registry EXCEPT ![obj[o].proc][obj[o].account] =
                                          IF @ = o THEN None ELSE @]
          /\ UNCHANGED <<payload, flock>>
      BY <1>3 DEF FinishRelease, TypeOK
    <2>6. OwnersHaveFlock'
      BY <2>1, <2>2, <2>3, <2>4, <2>5, FieldTypes, FunTypes DEF OwnersHaveFlock,
         NoOrphanLock
    <2>7. NoOrphanLock'
      BY <2>1, <2>2, <2>3, <2>4, <2>5, FieldTypes, FunTypes DEF NoOrphanLock,
         OwnersHaveFlock, HeldAreRegistered, EntriesAreReal
    <2>8. OneAcquirer'
      BY <2>1, <2>3, <2>4 DEF OneAcquirer
    <2>9. EntriesAreReal'
      BY <2>1, <2>2, <2>3, <2>4, <2>5, FieldTypes, FunTypes DEF EntriesAreReal,
         AcquirersUnregistered, HeldAreRegistered
    <2>10. AcquirersUnregistered'
      BY <2>1, <2>2, <2>3, <2>4, <2>5, FieldTypes, FunTypes DEF AcquirersUnregistered,
         OneAcquirer
    <2>11. HeldAreRegistered'
      BY <2>1, <2>2, <2>3, <2>4, <2>5, FieldTypes, FunTypes DEF HeldAreRegistered,
         OneAcquirer, AcquirersUnregistered
    <2>12. HolderIsNamed'
      BY <2>1, <2>2, <2>3, <2>4, <2>5, FieldTypes, FunTypes DEF HolderIsNamed,
         OwnersHaveFlock
    <2> QED  BY TypeOK', <2>6, <2>7, <2>8, <2>9, <2>10, <2>11, <2>12 DEF LockInv
  <1> QED  BY <1>1, <1>2, <1>3 DEF ReleaseStep

\* The inductive invariant: every object that owns a flock is known to the
\* kernel and to its registry, and one thread of a process acquires at a time.
THEOREM LockInvariant == Spec => []LockInv
  <1>1. LockInv /\ [Next]_vars => LockInv'
    <2> SUFFICES ASSUME LockInv, [Next]_vars PROVE LockInv'
      OBVIOUS
    <2>1. TypeOK'  BY TypeStep DEF LockInv
    <2>2. CASE UNCHANGED vars
      BY <2>2 DEF vars, LockInv, TypeOK, OwnersHaveFlock, NoOrphanLock, OneAcquirer,
              EntriesAreReal, AcquirersUnregistered, HeldAreRegistered, HolderIsNamed
    <2> QED  BY <2>1, <2>2, LifeStep, EnforceStep, AcquireInv, ReleaseInv DEF Next
  <1> QED  BY <1>1, InitInv, PTL DEF Spec

-----------------------------------------------------------------------------
(* What follows from the invariant.                                        *)

\* HARD RULE 2 for any number of processes: two lock objects of one account
\* cannot both be unreleased, because each would be the one the kernel granted.
THEOREM MutualExclusion == Spec => []ExclusiveWriter
  <1>1. LockInv => ExclusiveWriter
    BY FieldTypes DEF LockInv, ExclusiveWriter, Writes, OwnersHaveFlock
  <1> QED  BY <1>1, LockInvariant, PTL

\* No interleaving of acquisitions, releases and crashes leaves a granted flock
\* that the owner's registry does not know.
THEOREM NoOrphan == Spec => []NoOrphanLock
  <1>1. LockInv => NoOrphanLock  BY DEF LockInv
  <1> QED  BY <1>1, LockInvariant, PTL

\* The lock file of a held lock records its holder.
THEOREM HolderNamed == Spec => []HolderIsNamed
  <1>1. LockInv => HolderIsNamed  BY DEF LockInv
  <1> QED  BY <1>1, LockInvariant, PTL

\* acquire_alpaca_account_lock hands enforce_live_singleton only a lock that
\* the process owns when acquire leaves the mutex.
THEOREM GrantHolds == Spec => GrantMeansHeld
  <1> DEFINE Step ==
        \A p \in Procs, a \in Accounts :
          entering'[p][a] > entering[p][a] =>
            \E o \in Objs : Writes(p, a, o)' /\ flock'[a] = o
  <1>1. LockInv /\ [Next]_vars => [Step]_vars
    <2> SUFFICES ASSUME LockInv, Next,
                        NEW p \in Procs, NEW a \in Accounts,
                        entering'[p][a] > entering[p][a]
                 PROVE  \E o \in Objs : Writes(p, a, o)' /\ flock'[a] = o
      OBVIOUS
    <2> USE DEF LockInv
    <2>0. entering \in [Procs -> [Accounts -> 0..MaxCalls]]  BY DEF TypeOK
    <2>1. ASSUME NEW q \in Procs, Life(q) PROVE FALSE
      BY <2>0, <2>1 DEF Life, Start, Exit, Kill, Terminate, Vanished
    <2>2. ASSUME NEW q \in Procs, Enforce(q)
          PROVE  \E o \in Objs : Writes(p, a, o)' /\ flock'[a] = o
      <3>1. PICK b \in Accounts, s \in Services : AcquireHeld(q, s, b)
        BY <2>0, <2>2, ServicesOfAssumption
           DEF Enforce, EnforceUnlocked, SetState, RefuseInProcess, Open
      <3>2. q = p /\ b = a  BY <2>0, <3>1 DEF AcquireHeld
      <3>3. registry[p][a] \in Objs /\ In(registry[p][a], {"held"})
        BY <3>1, <3>2, FunTypes DEF AcquireHeld
      <3>4. UNCHANGED <<obj, flock>>  BY <3>1 DEF AcquireHeld
      <3> QED  BY <3>3, <3>4 DEF Writes, EntriesAreReal, OwnersHaveFlock
    <2>3. ASSUME NEW o \in Objs, AcquireStep(o)
          PROVE  \E r \in Objs : Writes(p, a, r)' /\ flock'[a] = r
      <3>1. Register(o)
        BY <2>0, <2>3 DEF AcquireStep, Flock, FlockBusy, WriteFails, Collect
      <3>2. obj[o].proc = p /\ obj[o].account = a
        BY <2>0, <3>1, FieldTypes DEF Register
      <3>3. obj[o].status = "locked" /\ UNCHANGED flock  BY <3>1 DEF Register
      <3>4. obj'[o].status = "held" /\ obj'[o].proc = p /\ obj'[o].account = a
        BY <3>1, <3>2, <3>3, MoveType DEF Register
      <3>5. flock[a] = o  BY <3>2, <3>3 DEF OwnersHaveFlock
      <3> QED  BY <3>3, <3>4, <3>5 DEF Writes
    <2>4. ASSUME NEW o \in Objs, ReleaseStep(o) PROVE FALSE
      BY <2>0, <2>4 DEF ReleaseStep, BeginRelease, Unlock, FinishRelease
    <2> QED  BY <2>1, <2>2, <2>3, <2>4 DEF Next
  <1> QED  BY <1>1, LockInvariant, PTL DEF Spec, GrantMeansHeld

-----------------------------------------------------------------------------
(* Refinement of the abstract single-writer rule.                          *)

\* The writers of each account, as SingleWriter sees them.
Writers == [a \in Accounts |-> {p \in Procs : \E o \in Objs : Writes(p, a, o)}]

\* Writes in the next state, as a formula without a primed operator.
WillWrite(p, a, o) ==
  obj'[o].proc = p /\ obj'[o].status = "held" /\ obj'[o].account = a

\* The writers of the next state, in terms of WillWrite.
LEMMA WritersNext ==
  Writers' = [a \in Accounts |->
                {p \in Procs : \E o \in Objs : WillWrite(p, a, o)}]
  BY DEF Writers, Writes, WillWrite

\* A step that leaves the held objects as they are does not change the writers.
LEMMA SameWriters ==
  ASSUME \A o \in Objs : In(o, {"held"}) => obj'[o] = obj[o],
         \A o \in Objs : In(o, {"held"})' => obj'[o] = obj[o]
  PROVE  Writers' = Writers
  BY DEF Writers, Writes

\* A step takes the account for a process, drops it, vanishes, or changes no writer.
LEMMA WritersStep ==
  ASSUME LockInv, Next
  PROVE  \/ Writers' = Writers
         \/ \E p \in Procs : \/ \E a \in Accounts :
                                  \/ /\ Writers[a] = {}
                                     /\ Writers' = [Writers EXCEPT ![a] = {p}]
                                  \/ /\ p \in Writers[a]
                                     /\ Writers' = [Writers EXCEPT ![a] = @ \ {p}]
                             \/ Writers' = [a \in Accounts |-> Writers[a] \ {p}]
  <1> USE DEF LockInv
  <1>1. ASSUME NEW p \in Procs, Vanished(p)
        PROVE  Writers' = [a \in Accounts |-> Writers[a] \ {p}]
    <2>1. \A q \in Procs, a \in Accounts, o \in Objs :
            Writes(q, a, o)' <=> Writes(q, a, o) /\ q # p
      BY <1>1 DEF Vanished, Writes, TypeOK
    <2> QED  BY <2>1 DEF Writers
  <1>2. ASSUME NEW p \in Procs, Start(p) \/ Exit(p) PROVE Writers' = Writers
    BY <1>2, SameWriters DEF Start, Exit
  <1>3. ASSUME NEW p \in Procs, Enforce(p) PROVE Writers' = Writers
    <2>1. ASSUME NEW s \in Services, NEW a \in Accounts, NEW o \in Objs,
                 Open(p, s, a, o)
          PROVE  Writers' = Writers
      BY <2>1, SameWriters DEF Open, TypeOK
    <2>2. UNCHANGED obj => Writers' = Writers
      BY SameWriters
    <2> QED
      BY <1>3, <2>1, <2>2, ServicesOfAssumption
         DEF Enforce, EnforceUnlocked, SetState, AcquireHeld, RefuseInProcess
  <1>4. ASSUME NEW o \in Objs,
               Flock(o) \/ FlockBusy(o) \/ WriteFails(o) \/ Collect(o)
        PROVE  Writers' = Writers
    <2>1. obj[o].status \in {"opened", "locked", "leaked"}
      BY <1>4 DEF Flock, FlockBusy, WriteFails, Collect
    <2>2. obj'[o].status \in {"locked", "leaked", "free"}
      <3>1. CASE Flock(o)  BY <2>1, <3>1, MoveType DEF Flock
      <3>2. CASE WriteFails(o)  BY <2>1, <3>2, MoveType DEF WriteFails
      <3>3. CASE FlockBusy(o) \/ Collect(o)
        BY <3>3 DEF FlockBusy, Collect, TypeOK
      <3> QED  BY <1>4, <3>1, <3>2, <3>3
    <2>3. \A r \in Objs : r # o => obj'[r] = obj[r]
      BY <1>4 DEF Flock, FlockBusy, WriteFails, Collect, TypeOK
    <2> QED  BY <2>1, <2>2, <2>3, SameWriters
  <1>5. ASSUME NEW o \in Objs, Unlock(o) \/ FinishRelease(o)
        PROVE  Writers' = Writers
    <2>1. obj[o].status \in {"releasing", "unlocking"}
      BY <1>5 DEF Unlock, FinishRelease
    <2>2. obj'[o].status \in {"unlocking", "free"}
      <3>1. CASE Unlock(o)  BY <2>1, <3>1, MoveType DEF Unlock
      <3>2. CASE FinishRelease(o)  BY <3>2 DEF FinishRelease, TypeOK
      <3> QED  BY <1>5, <3>1, <3>2
    <2>3. \A r \in Objs : r # o => obj'[r] = obj[r]
      BY <1>5 DEF Unlock, FinishRelease, TypeOK
    <2> QED  BY <2>1, <2>2, <2>3, SameWriters
  <1>6. ASSUME NEW o \in Objs, Register(o)
        PROVE  \E p \in Procs, a \in Accounts :
                 Writers[a] = {} /\ Writers' = [Writers EXCEPT ![a] = {p}]
    <2> DEFINE p == obj[o].proc
               a == obj[o].account
    <2>1. obj[o].status = "locked" /\ p \in Procs /\ a \in Accounts
      BY <1>6, FieldTypes DEF Register
    <2>2. obj'[o].status = "held" /\ obj'[o].proc = p /\ obj'[o].account = a
      BY <1>6, <2>1, MoveType DEF Register
    <2>3. \A r \in Objs : r # o => obj'[r] = obj[r]
      BY <1>6 DEF Register, TypeOK
    <2> HIDE DEF p, a
    <2>4. \A q \in Procs, r \in Objs : ~Writes(q, a, r)
      BY <2>1 DEF Writes, OwnersHaveFlock, p, a
    <2>5. \A q \in Procs, b \in Accounts, r \in Objs :
            WillWrite(q, b, r) <=> Writes(q, b, r) \/ (r = o /\ q = p /\ b = a)
      <3> SUFFICES ASSUME NEW q \in Procs, NEW b \in Accounts, NEW r \in Objs
                   PROVE  WillWrite(q, b, r) <=> Writes(q, b, r) \/ (r = o /\ q = p /\ b = a)
        OBVIOUS
      <3>1. ~Writes(q, b, o)  BY <2>1 DEF Writes
      <3>2. WillWrite(q, b, o) <=> q = p /\ b = a  BY <2>2 DEF WillWrite
      <3>3. r # o => (WillWrite(q, b, r) <=> Writes(q, b, r))
        BY <2>3 DEF Writes, WillWrite
      <3>4. CASE r = o  BY <3>1, <3>2, <3>4
      <3>5. CASE r # o  BY <3>3, <3>5
      <3> QED  BY <3>4, <3>5
    <2>6. Writers[a] = {}  BY <2>1, <2>4 DEF Writers
    <2>7. Writers' = [Writers EXCEPT ![a] = {p}]
      <3>1. \A b \in Accounts :
              {q \in Procs : \E r \in Objs : WillWrite(q, b, r)} =
                IF b = a THEN {p} ELSE {q \in Procs : \E r \in Objs : Writes(q, b, r)}
        <4> SUFFICES ASSUME NEW b \in Accounts, NEW q \in Procs
                     PROVE  (\E r \in Objs : WillWrite(q, b, r)) <=>
                              IF b = a THEN q = p ELSE \E r \in Objs : Writes(q, b, r)
          BY <2>1
        <4>1. CASE b = a
          <5>1. \A r \in Objs : WillWrite(q, b, r) <=> r = o /\ q = p
            BY <2>4, <2>5, <4>1
          <5> QED  BY <4>1, <5>1
        <4>2. CASE b # a
          <5>1. \A r \in Objs : WillWrite(q, b, r) <=> Writes(q, b, r)
            BY <2>5, <4>2
          <5> QED  BY <4>2, <5>1
        <4> QED  BY <4>1, <4>2
      <3> QED  BY <3>1, WritersNext DEF Writers
    <2> QED  BY <2>1, <2>6, <2>7
  <1>7. ASSUME NEW o \in Objs, BeginRelease(o)
        PROVE  \E p \in Procs, a \in Accounts :
                 p \in Writers[a] /\ Writers' = [Writers EXCEPT ![a] = @ \ {p}]
    <2> DEFINE p == obj[o].proc
               a == obj[o].account
    <2>1. obj[o].status = "held" /\ p \in Procs /\ a \in Accounts
      BY <1>7, FieldTypes DEF BeginRelease
    <2>2. obj'[o].status = "releasing"
      BY <1>7, <2>1, MoveType DEF BeginRelease
    <2>3. \A r \in Objs : r # o => obj'[r] = obj[r]
      BY <1>7 DEF BeginRelease, TypeOK
    <2>4. Writes(p, a, o)  BY <2>1 DEF Writes
    <2>5. \A q \in Procs, r \in Objs : Writes(q, a, r) => r = o /\ q = p
      BY <2>1 DEF Writes, OwnersHaveFlock
    <2> HIDE DEF p, a
    <2>6. \A q \in Procs, b \in Accounts, r \in Objs :
            WillWrite(q, b, r) <=> Writes(q, b, r) /\ r # o
      BY <2>1, <2>2, <2>3 DEF Writes, WillWrite
    <2>7. \A q \in Procs, b \in Accounts : Writes(q, b, o) => q = p /\ b = a
      BY DEF Writes, p, a
    <2>8. p \in Writers[a]  BY <2>1, <2>4 DEF Writers
    <2>9. Writers' = [Writers EXCEPT ![a] = @ \ {p}]
      <3>1. \A b \in Accounts :
              {q \in Procs : \E r \in Objs : WillWrite(q, b, r)} =
                {q \in Procs : \E r \in Objs : Writes(q, b, r)}
                  \ (IF b = a THEN {p} ELSE {})
        <4> SUFFICES ASSUME NEW b \in Accounts, NEW q \in Procs
                     PROVE  (\E r \in Objs : WillWrite(q, b, r)) <=>
                              /\ \E r \in Objs : Writes(q, b, r)
                              /\ ~(b = a /\ q = p)
          OBVIOUS
        <4>1. CASE b = a /\ q = p
          <5>1. \A r \in Objs : ~WillWrite(q, b, r)
            BY <2>5, <2>6, <4>1
          <5> QED  BY <4>1, <5>1
        <4>2. CASE ~(b = a /\ q = p)
          <5>1. \A r \in Objs : WillWrite(q, b, r) <=> Writes(q, b, r)
            BY <2>6, <2>7, <4>2
          <5> QED  BY <4>2, <5>1
        <4> QED  BY <4>1, <4>2
      <3> QED  BY <3>1, WritersNext DEF Writers
    <2> QED  BY <2>1, <2>8, <2>9
  <1> QED
    BY <1>1, <1>2, <1>3, <1>4, <1>5, <1>6, <1>7
       DEF Next, Life, Kill, Terminate, AcquireStep, ReleaseStep

\* Every behaviour of the lock protocol is one of the abstract single writer.
THEOREM Refinement == Spec => ImplementsSingleWriter
  <1>1. Init => SW!SWInit
    BY DEF Init, SW!SWInit, Writes
  <1>2. LockInv /\ [Next]_vars => [SW!SWNext]_Writers
    <2> SUFFICES ASSUME LockInv, [Next]_vars PROVE [SW!SWNext]_Writers
      OBVIOUS
    <2>1. CASE UNCHANGED vars  BY <2>1, SameWriters DEF vars
    <2>2. CASE Next
      BY <2>2, WritersStep DEF SW!SWNext, SW!Take, SW!Drop, SW!Vanish, Writers
    <2> QED  BY <2>1, <2>2
  <1> QED
    BY <1>1, <1>2, LockInvariant, PTL DEF Spec, ImplementsSingleWriter, SW!SWSpec, Writers
=============================================================================
