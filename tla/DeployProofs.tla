---------------------------- MODULE DeployProofs ----------------------------
(***************************************************************************)
(* The cutover script reports what it saw, proved for every registry of    *)
(* units, any number of runs of the script at the same time, and units     *)
(* that start, lock, restart and die as they like.                         *)
(***************************************************************************)
EXTENDS Deploy, SequenceTheorems, TLAPS

\* What a run of the script knows of the handshake is true, and it judges
\* only after it has restarted.
RunIsSound(r) ==
  /\ r.ok => r.pid # 0 /\ r.pid = r.holder /\ r.pid >= r.first
  /\ r.holder # 0 => r.holder \in owned
  /\ r.line # None => r.step = "ended"
  /\ r.step \in {"gates", "stopping", "restarting"} => r.live /\ ~r.ok
  /\ r.step \in {"stopping", "restarting"} => r.unit \in Units
  /\ ~r.restarted => r.first = 0
  /\ r.line \in {"cutover-ok", "handshake-ok"} => r.ok
  /\ r.restarted => r.live /\ r.step \in {"verify", "supervisor", "judged", "ended"}
  /\ r.step = "ended" /\ r.restarted =>
       \/ r.line = "cutover-ok" /\ r.code = 0
       \/ r.line = "cutover-FAILED" /\ r.code = 1 /\ r.died
       \/ r.line = None /\ r.code = 1 /\ ~r.died

\* With these main processes and PIDs, the unit that the run has restarted has
\* no process that is older than the restart.
IsFresh(r, mains, last) ==
  r.restarted =>
    /\ r.unit \in Units /\ r.first <= last
    /\ mains[r.unit] = 0 \/ mains[r.unit] >= r.first

\* The PIDs in use were handed out, and the lock file names one that got there.
PidsAreReal ==
  /\ \A u \in Units : main[u] \in 0..pids
  /\ payload # 0 => payload \in owned

\* Every run of the script is sound.
RunsAreSound == \A d \in Runs : RunIsSound(run[d])

\* No unit goes back behind a restart.
RestartsAreFresh == \A d \in Runs : IsFresh(run[d], main, pids)

\* The inductive invariant.
DeployInv == TypeOK /\ PidsAreReal /\ RunsAreSound /\ RestartsAreFresh

\* A main process stays, is gone, or is new.
MainsFollow ==
  /\ pids <= pids'
  /\ \A v \in Units : main'[v] \in {main[v], 0} \/ main'[v] > pids

-----------------------------------------------------------------------------
\* Before the first run nothing has been reported.
LEMMA InitSound == Init => DeployInv
<1> SUFFICES ASSUME Init PROVE DeployInv
  OBVIOUS
<1> USE DeployAssumption, NoneAssumption DEF Init
<1>1. Fresh \in RunState
  BY EmptySeq DEF Fresh, RunState, Steps
<1>2. TypeOK
  BY <1>1 DEF TypeOK
<1>3. PidsAreReal
  BY DEF PidsAreReal
<1>4. RunIsSound(Fresh) /\ IsFresh(Fresh, main, pids)
  BY DEF RunIsSound, IsFresh, Fresh, Results
<1> QED
  BY <1>2, <1>3, <1>4 DEF DeployInv, RunsAreSound, RestartsAreFresh

\* A launched or stopped unit leaves real PIDs behind.
LEMMA LaunchedReal ==
  ASSUME DeployInv, NEW u, Launched(u)
  PROVE /\ pids' \in 0..MaxPid /\ pids <= pids'
        /\ main' \in [Units -> 0..MaxPid]
        /\ \A v \in Units : main'[v] \in 0..pids'
        /\ writer' \in 0..pids'
        /\ MainsFollow
<1> USE DeployAssumption
<1>1. /\ main \in [Units -> 0..MaxPid] /\ \A v \in Units : main[v] \in 0..pids
      /\ pids \in 0..MaxPid /\ writer \in 0..pids
  BY DEF DeployInv, TypeOK, PidsAreReal
<1>2. pids' \in 0..MaxPid /\ pids' = pids + 1
  BY <1>1 DEF Launched
<1>3. writer' \in 0..pids'
  BY <1>1, <1>2 DEF Launched
<1>4. main' = [main EXCEPT ![u] = pids']
  BY <1>2 DEF Launched
<1>5. main' \in [Units -> 0..MaxPid]
  BY <1>1, <1>2, <1>4
<1>6. ASSUME NEW v \in Units PROVE main'[v] \in 0..pids'
  BY <1>1, <1>2, <1>4
<1>7. MainsFollow
  BY <1>1, <1>2, <1>4 DEF MainsFollow
<1> QED
  BY <1>1, <1>2, <1>3, <1>5, <1>6, <1>7

\* A unit that stops leaves its supervisor no PID but old ones.
LEMMA StoppedReal ==
  ASSUME DeployInv, NEW u, Stopped(u)
  PROVE /\ pids' \in 0..MaxPid /\ pids <= pids'
        /\ main' \in [Units -> 0..MaxPid]
        /\ \A v \in Units : main'[v] \in 0..pids'
        /\ writer' \in 0..pids'
        /\ MainsFollow
<1> USE DeployAssumption
<1>1. /\ main \in [Units -> 0..MaxPid] /\ \A v \in Units : main[v] \in 0..pids
      /\ pids \in 0..MaxPid /\ writer \in 0..pids
  BY DEF DeployInv, TypeOK, PidsAreReal
<1>2. pids' = pids /\ main' = [main EXCEPT ![u] = 0]
  BY DEF Stopped
<1>3. writer' \in 0..pids'
  BY <1>1, <1>2 DEF Stopped
<1>4. main' \in [Units -> 0..MaxPid]
  BY <1>1, <1>2, 0 \in 0..MaxPid
<1>5. ASSUME NEW v \in Units PROVE main'[v] \in 0..pids'
  BY <1>1, <1>2
<1>6. MainsFollow
  BY <1>1, <1>2 DEF MainsFollow
<1> QED
  BY <1>1, <1>2, <1>3, <1>4, <1>5, <1>6

\* Whatever moves, a restart stays fresh.
LEMMA FreshStays ==
  ASSUME DeployInv, MainsFollow, NEW d \in Runs,
         pids' \in 0..MaxPid, main' \in [Units -> 0..MaxPid]
  PROVE  IsFresh(run[d], main', pids')
<1>1. /\ IsFresh(run[d], main, pids) /\ run[d].first \in 0..MaxPid
      /\ pids \in 0..MaxPid
  BY DEF DeployInv, RestartsAreFresh, TypeOK, RunState
<1>2. pids' >= pids
  BY DEF MainsFollow
<1>3. SUFFICES ASSUME run[d].restarted
               PROVE  /\ run[d].unit \in Units /\ run[d].first <= pids'
                      /\ main'[run[d].unit] = 0 \/ main'[run[d].unit] >= run[d].first
  BY DEF IsFresh
<1>4. /\ run[d].unit \in Units /\ run[d].first <= pids
      /\ main[run[d].unit] = 0 \/ main[run[d].unit] >= run[d].first
  BY <1>1, <1>3 DEF IsFresh
<1>5. main'[run[d].unit] \in {main[run[d].unit], 0} \/ main'[run[d].unit] > pids
  BY <1>4 DEF MainsFollow
<1>6. /\ pids' \in Int /\ main'[run[d].unit] \in Int /\ main[run[d].unit] \in Int
      /\ pids \in Int /\ run[d].first \in Int
  BY <1>1, <1>4, DeployAssumption DEF DeployInv, TypeOK
<1> QED
  BY <1>1, <1>2, <1>4, <1>5, <1>6

\* A step of the units is one that keeps the PIDs real and forgets no owner.
LEMMA ProcessStep ==
  ASSUME DeployInv, NEW u \in Units, Process(u)
  PROVE DeployInv'
<1> USE DeployAssumption
<1>1. UNCHANGED <<registry, run>> /\ owned \subseteq owned'
  BY DEF Process, Boot, Lock, WritePid, Unlock, Die
<1>2. /\ TypeOK' /\ PidsAreReal'
  <2>1. CASE Boot(u)
    BY <2>1, LaunchedReal DEF Boot, DeployInv, TypeOK, PidsAreReal
  <2>2. CASE Lock(u)
    BY <2>2 DEF Lock, DeployInv, TypeOK, PidsAreReal
  <2>3. CASE WritePid(u)
    <3>1. main[u] \in 1..pids
      BY <2>3 DEF WritePid, DeployInv, TypeOK, PidsAreReal
    <3> QED
      BY <2>3, <3>1 DEF WritePid, DeployInv, TypeOK, PidsAreReal
  <2>4. CASE Unlock(u)
    BY <2>4 DEF Unlock, DeployInv, TypeOK, PidsAreReal
  <2>5. CASE Die(u)
    BY <2>5, StoppedReal DEF Die, DeployInv, TypeOK, PidsAreReal
  <2> QED
    BY <2>1, <2>2, <2>3, <2>4, <2>5 DEF Process
<1>3. RunsAreSound'
  BY <1>1 DEF DeployInv, RunsAreSound, RunIsSound
<1>4. MainsFollow
  <2>1. CASE Boot(u)
    BY <2>1, LaunchedReal DEF Boot
  <2>2. CASE Lock(u) \/ WritePid(u) \/ Unlock(u)
    BY <2>2 DEF Lock, WritePid, Unlock, MainsFollow, DeployInv, TypeOK
  <2>3. CASE Die(u)
    BY <2>3, StoppedReal DEF Die
  <2> QED
    BY <2>1, <2>2, <2>3 DEF Process
<1>5. RestartsAreFresh'
  BY <1>1, <1>2, <1>4, FreshStays DEF RestartsAreFresh, TypeOK
<1> QED
  BY <1>2, <1>3, <1>5 DEF DeployInv

-----------------------------------------------------------------------------
\* What a step of the script writes to its own run is all that matters.
LEMMA SetSound ==
  ASSUME DeployInv, NEW d \in Runs, NEW r \in RunState, RunIsSound(r),
         Set(d, r), UNCHANGED <<registry, owned, payload>>,
         pids' \in 0..MaxPid, pids <= pids',
         main' \in [Units -> 0..MaxPid],
         \A v \in Units : main'[v] \in 0..pids', writer' \in 0..pids',
         MainsFollow, IsFresh(r, main', pids')
  PROVE DeployInv'
<1> USE DeployAssumption
<1>1. TypeOK'
  BY DEF DeployInv, TypeOK, Set
<1>2. PidsAreReal'
  BY DEF DeployInv, PidsAreReal
<1>3. RunsAreSound'
  BY DEF DeployInv, TypeOK, RunsAreSound, RunIsSound, Set
<1>4. RestartsAreFresh'
  <2>1. \A e \in Runs : IsFresh(run[e], main', pids')
    BY FreshStays
  <2>2. \A e \in Runs : run'[e] = IF e = d THEN r ELSE run[e]
    BY DEF DeployInv, TypeOK, Set
  <2> QED
    BY <2>1, <2>2 DEF RestartsAreFresh
<1> QED
  BY <1>1, <1>2, <1>3, <1>4 DEF DeployInv

\* Most steps of the script change nothing but their run.
LEMMA OwnStep ==
  ASSUME DeployInv, NEW d \in Runs, NEW r \in RunState, RunIsSound(r),
         IsFresh(r, main, pids), Set(d, r), UNCHANGED system
  PROVE DeployInv'
<1>1. /\ pids' \in 0..MaxPid /\ pids <= pids'
      /\ main' \in [Units -> 0..MaxPid]
      /\ \A v \in Units : main'[v] \in 0..pids'
      /\ writer' \in 0..pids'
      /\ MainsFollow /\ IsFresh(r, main', pids')
  BY DeployAssumption DEF DeployInv, TypeOK, PidsAreReal, system, MainsFollow
<1> QED
  BY <1>1, SetSound DEF system

\* A run starts with a clean slate.
LEMMA StartStep ==
  ASSUME DeployInv, NEW d \in Runs, DryRun(d) \/ LiveRun(d)
  PROVE DeployInv'
<1> USE DeployAssumption, NoneAssumption
<1>1. Default \in Units \cup {None}
  BY DEF Default, DeployInv, TypeOK
<1>2. /\ Fresh \in RunState
      /\ \A r \in RunState : ~r.ok /\ r.holder = 0 /\ r.line = None /\ ~r.restarted
                             /\ r.first = 0 /\ (r.step = "gates" => r.live)
                             /\ r.step \in {"gates", "verify"} =>
                                RunIsSound(r) /\ IsFresh(r, main, pids)
  BY EmptySeq DEF Fresh, RunState, Steps, RunIsSound, IsFresh, Results
<1>3. CASE DryRun(d)
  <2>1. PICK u \in Units \cup {Default} :
          Set(d, [Fresh EXCEPT !.step = "verify", !.unit = u]) /\ UNCHANGED system
    BY <1>3 DEF DryRun
  <2> DEFINE r == [Fresh EXCEPT !.step = "verify", !.unit = u]
  <2>2. r \in RunState
    BY <1>1, <1>2, EmptySeq DEF Fresh, RunState, Steps
  <2>3. RunIsSound(r) /\ IsFresh(r, main, pids)
    BY <1>2, <2>2 DEF Fresh
  <2> QED
    BY <2>1, <2>2, <2>3, OwnStep
<1>4. CASE LiveRun(d)
  <2>1. PICK u \in Units \cup {Default}, g \in SUBSET Gates :
          /\ Set(d, [Fresh EXCEPT !.step = "gates", !.live = TRUE, !.unit = u,
                                  !.gates = g])
          /\ UNCHANGED system
    BY <1>4 DEF LiveRun
  <2> DEFINE r == [Fresh EXCEPT !.step = "gates", !.live = TRUE, !.unit = u,
                                !.gates = g]
  <2>2. r \in RunState
    BY <1>1, <1>2, EmptySeq DEF Fresh, RunState, Steps
  <2>3. RunIsSound(r) /\ IsFresh(r, main, pids)
    BY <1>2, <2>2 DEF Fresh
  <2> QED
    BY <2>1, <2>2, <2>3, OwnStep
<1> QED
  BY <1>3, <1>4

\* The gates: refused, or the list of units to visit is set.
LEMMA GateStep ==
  ASSUME DeployInv, NEW d \in Runs,
         EmptyRegistry(d) \/ Checklist(d) \/ GatesPass(d)
  PROVE DeployInv'
<1> USE DeployAssumption, NoneAssumption
<1>1. /\ run[d] \in RunState /\ RunIsSound(run[d]) /\ IsFresh(run[d], main, pids)
      /\ registry \in Seq(Units)
  BY DEF DeployInv, TypeOK, RunsAreSound, RestartsAreFresh
<1>2. CASE EmptyRegistry(d)
  <2> DEFINE r == Exits([run[d] EXCEPT !.line = "refused-empty-registry"], 1, TRUE)
  <2>1. r \in RunState /\ RunIsSound(r)
    BY <1>1, <1>2 DEF EmptyRegistry, At, Exits, RunState, Steps, Results, RunIsSound
  <2>0. IsFresh(r, main, pids)
    BY <1>1 DEF IsFresh, Exits, RunState
  <2> QED
    BY <1>2, <2>0, <2>1, OwnStep DEF EmptyRegistry
<1>3. CASE Checklist(d)
  <2> DEFINE r == Exits([run[d] EXCEPT !.line = "refused-checklist"], 1, TRUE)
  <2>1. r \in RunState /\ RunIsSound(r)
    BY <1>1, <1>3 DEF Checklist, At, Exits, RunState, Steps, Results, RunIsSound
  <2>0. IsFresh(r, main, pids)
    BY <1>1 DEF IsFresh, Exits, RunState
  <2> QED
    BY <1>3, <2>0, <2>1, OwnStep DEF Checklist
<1>4. CASE GatesPass(d)
  <2> DEFINE r == [run[d] EXCEPT !.step = "stopping", !.todo = registry]
  <2>1. run[d].unit \in Units
    BY <1>1, <1>4 DEF GatesPass, Cleared, Registered
  <2>2. r \in RunState /\ RunIsSound(r)
    BY <1>1, <1>4, <2>1 DEF GatesPass, At, RunState, Steps, RunIsSound
  <2>3. IsFresh(r, main, pids)
    BY <1>1 DEF IsFresh, RunState
  <2> QED
    BY <1>4, <2>2, <2>3, OwnStep DEF GatesPass
<1> QED
  BY <1>2, <1>3, <1>4

\* stop_other_units: nothing has been restarted or reported yet.
LEMMA StoppingStep ==
  ASSUME DeployInv, NEW d \in Runs,
         SkipKept(d) \/ StopOther(d) \/ StopFails(d) \/ StopsDone(d)
  PROVE DeployInv'
<1> USE DeployAssumption, NoneAssumption
<1>1. run[d] \in RunState /\ RunIsSound(run[d]) /\ IsFresh(run[d], main, pids)
  BY DEF DeployInv, TypeOK, RunsAreSound, RestartsAreFresh
<1>2. run[d].todo # <<>> =>
        Head(run[d].todo) \in Units /\ Tail(run[d].todo) \in Seq(Units)
  BY <1>1 DEF RunState
<1>3. CASE SkipKept(d)
  <2> DEFINE r == [run[d] EXCEPT !.todo = Tail(@)]
  <2>1. r \in RunState /\ RunIsSound(r)
    BY <1>1, <1>2, <1>3 DEF SkipKept, At, RunState, RunIsSound
  <2>0. IsFresh(r, main, pids)
    BY <1>1 DEF IsFresh, Exits, RunState
  <2> QED
    BY <1>3, <2>0, <2>1, OwnStep DEF SkipKept
<1>4. CASE StopOther(d)
  <2> DEFINE u == Head(run[d].todo)
             r == [run[d] EXCEPT !.todo = Tail(@), !.did = TRUE,
                                 !.touched = @ \cup {u}]
  <2>1. r \in RunState /\ RunIsSound(r)
    BY <1>1, <1>2, <1>4 DEF StopOther, At, RunState, RunIsSound
  <2>2. Stopped(u) /\ Set(d, r) /\ UNCHANGED <<registry, payload, owned>>
    BY <1>4 DEF StopOther
  <2>3. ~r.restarted
    BY <1>1, <1>4 DEF StopOther, At, RunState, RunIsSound
  <2>4. IsFresh(r, main', pids')
    BY <2>3 DEF IsFresh
  <2> HIDE DEF u, r
  <2> QED
    BY <2>1, <2>2, <2>4, StoppedReal, SetSound
<1>5. CASE StopFails(d)
  <2> DEFINE r == Exits(run[d], 1, TRUE)
  <2>1. r \in RunState /\ RunIsSound(r)
    BY <1>1, <1>5 DEF StopFails, At, Exits, RunState, Steps, RunIsSound
  <2>0. IsFresh(r, main, pids)
    BY <1>1 DEF IsFresh, Exits, RunState
  <2> QED
    BY <1>5, <2>0, <2>1, OwnStep DEF StopFails
<1>6. CASE StopsDone(d)
  <2> DEFINE r == IF run[d].did THEN Exits(run[d], 1, FALSE)
                  ELSE [run[d] EXCEPT !.step = "restarting"]
  <2>1. r \in RunState /\ RunIsSound(r)
    BY <1>1, <1>6 DEF StopsDone, At, Exits, RunState, Steps, RunIsSound
  <2>0. IsFresh(r, main, pids)
    BY <1>1 DEF IsFresh, Exits, RunState
  <2> QED
    BY <1>6, <2>0, <2>1, OwnStep DEF StopsDone
<1> QED
  BY <1>3, <1>4, <1>5, <1>6

\* The restart, after which a run owes a verdict.
LEMMA RestartStep ==
  ASSUME DeployInv, NEW d \in Runs, Restart(d) \/ RestartFails(d)
  PROVE DeployInv'
<1> USE DeployAssumption, NoneAssumption
<1>1. run[d] \in RunState /\ RunIsSound(run[d]) /\ IsFresh(run[d], main, pids)
  BY DEF DeployInv, TypeOK, RunsAreSound, RestartsAreFresh
<1>2. CASE Restart(d)
  <2> DEFINE r == [run[d] EXCEPT !.step = "verify", !.restarted = TRUE,
                                 !.tries = Attempts, !.first = pids + 1]
  <2>1. run[d].live /\ run[d].unit \in Units
    BY <1>1, <1>2 DEF Restart, At, RunIsSound
  <2>2. r \in RunState /\ RunIsSound(r)
    <3>1. r \in RunState
      <4>1. Attempts \in 0..Attempts /\ "verify" \in Steps /\ pids + 1 \in 0..MaxPid
        BY <1>2 DEF Steps, Restart, Launched, DeployInv, TypeOK
      <4> QED
        BY <1>1, <4>1 DEF RunState
    <3>2. RunIsSound(r)
      BY <1>1, <1>2, <2>1 DEF Restart, At, RunState, RunIsSound
    <3> QED
      BY <3>1, <3>2
  <2>3. /\ Launched(run[d].unit) /\ Set(d, r)
        /\ UNCHANGED <<registry, payload, owned>>
    BY <1>2 DEF Restart
  <2>4. IsFresh(r, main', pids')
    <3>1. main \in [Units -> 0..MaxPid] /\ pids \in 0..MaxPid
      BY DEF DeployInv, TypeOK
    <3>2. main'[run[d].unit] = pids + 1 /\ pids' = pids + 1
      BY <2>1, <2>3, <3>1 DEF Launched
    <3>3. r.unit = run[d].unit /\ r.first = pids + 1
      BY <1>1 DEF RunState
    <3> HIDE DEF r
    <3> QED
      BY <2>1, <3>1, <3>2, <3>3 DEF IsFresh
  <2> HIDE DEF r
  <2> QED
    BY <2>2, <2>3, <2>4, LaunchedReal, SetSound
<1>3. CASE RestartFails(d)
  <2> DEFINE r == Exits(run[d], 1, TRUE)
  <2>1. r \in RunState /\ RunIsSound(r)
    BY <1>1, <1>3 DEF RestartFails, At, Exits, RunState, Steps, RunIsSound
  <2>0. IsFresh(r, main, pids)
    BY <1>1 DEF IsFresh, Exits, RunState
  <2> QED
    BY <1>3, <2>0, <2>1, OwnStep DEF RestartFails
<1> QED
  BY <1>2, <1>3

\* The handshake: a PID read from the lock file is that of an owner, and it is
\* believed only if systemd names the same.
LEMMA HandshakeStep ==
  ASSUME DeployInv, NEW d \in Runs, ReadHolder(d) \/ ReadSupervisor(d)
  PROVE DeployInv'
<1> USE DeployAssumption, NoneAssumption
<1>1. /\ run[d] \in RunState /\ RunIsSound(run[d]) /\ IsFresh(run[d], main, pids)
      /\ payload \in 0..MaxPid /\ (payload # 0 => payload \in owned)
      /\ \A u \in Units : main[u] \in 0..MaxPid
  BY DEF DeployInv, TypeOK, PidsAreReal, RunsAreSound, RestartsAreFresh
<1>2. CASE ReadHolder(d)
  <2>1. PICK h \in {payload, 0} :
          Set(d, [run[d] EXCEPT !.step = IF h = 0 THEN "judged" ELSE "supervisor",
                                !.holder = h,
                                !.pid = 0, !.ok = FALSE])
    BY <1>2 DEF ReadHolder
  <2> DEFINE r == [run[d] EXCEPT !.step = IF h = 0 THEN "judged" ELSE "supervisor",
                                 !.holder = h,
                                 !.pid = 0, !.ok = FALSE]
  <2>2. r \in RunState /\ RunIsSound(r)
    <3>1. r \in RunState
      <4> DEFINE step == IF h = 0 THEN "judged" ELSE "supervisor"
                 pidRange == 0..MaxPid
      <4>1. h \in pidRange /\ 0 \in pidRange /\ step \in Steps
        BY <1>1 DEF Steps
      <4>2. run[d] \in RunState
            /\ RunState = [step : Steps, live : BOOLEAN, unit : Units \cup {None}, gates : SUBSET Gates,
                          todo : Seq(Units), did : BOOLEAN, touched : SUBSET Units, restarted : BOOLEAN,
                          tries : 0..Attempts, holder : pidRange, pid : pidRange, ok : BOOLEAN,
                          line : Results \cup {None}, code : {0, 1}, died : BOOLEAN,
                          first : pidRange]
        BY <1>1 DEF RunState
      <4> HIDE DEF step, pidRange
      <4>3. [run[d] EXCEPT !.step = step, !.holder = h, !.pid = 0, !.ok = FALSE] \in RunState
        BY <4>1, <4>2
      <4> QED
        BY <4>3 DEF step
    <3>2. RunIsSound(r)
      BY <1>1, <1>2 DEF ReadHolder, At, RunState, Results, RunIsSound
    <3> QED
      BY <3>1, <3>2
  <2>3. IsFresh(r, main, pids)
    BY <1>1 DEF IsFresh, RunState
  <2> QED
    BY <1>2, <2>1, <2>2, <2>3, OwnStep DEF ReadHolder
<1>3. CASE ReadSupervisor(d)
  <2> DEFINE pid == IF run[d].unit = None THEN 0 ELSE main[run[d].unit]
             r == [run[d] EXCEPT !.step = "judged", !.pid = pid,
                                 !.ok = pid # 0 /\ pid = run[d].holder]
  <2>1. pid \in 0..MaxPid
    BY <1>1 DEF RunState
  <2>4. pid # 0 => pid >= run[d].first
    <3>1. run[d].first \in 0..MaxPid
      BY <1>1 DEF RunState
    <3>2. CASE run[d].restarted
      BY <1>1, <2>1, <3>1, <3>2, NoneAssumption DEF IsFresh
    <3>3. CASE ~run[d].restarted
      <4>1. run[d].first = 0
        BY <1>1, <3>3 DEF RunIsSound
      <4> HIDE DEF pid
      <4> QED
        BY <2>1, <4>1
    <3> QED
      BY <3>2, <3>3 DEF RunState
  <2>2. r \in RunState /\ RunIsSound(r)
    <3> HIDE DEF pid
    <3>1. r \in RunState
      <4> DEFINE ok == pid # 0 /\ pid = run[d].holder
                 pidRange == 0..MaxPid
      <4>1. pid \in pidRange /\ "judged" \in Steps /\ ok \in BOOLEAN
        BY <2>1 DEF Steps
      <4>2. run[d] \in RunState
            /\ RunState = [step : Steps, live : BOOLEAN, unit : Units \cup {None}, gates : SUBSET Gates,
                          todo : Seq(Units), did : BOOLEAN, touched : SUBSET Units, restarted : BOOLEAN,
                          tries : 0..Attempts, holder : pidRange, pid : pidRange, ok : BOOLEAN,
                          line : Results \cup {None}, code : {0, 1}, died : BOOLEAN,
                          first : pidRange]
        BY <1>1 DEF RunState
      <4> HIDE DEF ok, pidRange
      <4>3. [run[d] EXCEPT !.step = "judged", !.pid = pid, !.ok = ok] \in RunState
        BY <4>1, <4>2
      <4> QED
        BY <4>3 DEF ok
    <3>2. RunIsSound(r)
      BY <1>1, <1>3, <2>1, <2>4 DEF ReadSupervisor, At, RunState, Results, RunIsSound
    <3> QED
      BY <3>1, <3>2
  <2>3. Set(d, r) /\ UNCHANGED system
    BY <1>3 DEF ReadSupervisor
  <2>5. IsFresh(r, main, pids)
    BY <1>1 DEF IsFresh, RunState
  <2> HIDE DEF r
  <2> QED
    BY <2>2, <2>3, <2>5, OwnStep
<1> QED
  BY <1>2, <1>3

\* The verdict is written as it was found.
LEMMA VerdictStep ==
  ASSUME DeployInv, NEW d \in Runs,
         JudgeDry(d) \/ TryAgain(d) \/ JudgeLive(d) \/ HistoryFails(d)
  PROVE DeployInv'
<1> USE DeployAssumption, NoneAssumption
<1>1. run[d] \in RunState /\ RunIsSound(run[d]) /\ IsFresh(run[d], main, pids)
  BY DEF DeployInv, TypeOK, RunsAreSound, RestartsAreFresh
<1>2. CASE JudgeDry(d)
  <2> DEFINE line == IF run[d].ok THEN "handshake-ok" ELSE "handshake-incomplete"
             r == Exits([run[d] EXCEPT !.line = line], 0, FALSE)
  <2>0. /\ line \in Results /\ line \in {"handshake-ok", "handshake-incomplete"}
        /\ line = "handshake-ok" => run[d].ok
    BY DEF Results
  <2> HIDE DEF line
  <2>1. r \in RunState
    BY <1>1, <2>0 DEF Exits, RunState, Steps
  <2>2. /\ r.step = "ended" /\ r.line = line
        /\ r.ok = run[d].ok /\ r.pid = run[d].pid /\ r.holder = run[d].holder
        /\ r.restarted = run[d].restarted /\ r.live = run[d].live
        /\ r.first = run[d].first /\ r.unit = run[d].unit
    BY <1>1 DEF Exits, RunState
  <2>3. ~run[d].live
    BY <1>2 DEF JudgeDry
  <2> HIDE DEF r
  <2>4. RunIsSound(r) /\ IsFresh(r, main, pids)
    BY <1>1, <2>0, <2>2, <2>3 DEF RunIsSound, IsFresh
  <2>5. Set(d, r) /\ UNCHANGED system
    BY <1>2 DEF JudgeDry, r, line
  <2> QED
    BY <2>1, <2>4, <2>5, OwnStep
<1>3. CASE TryAgain(d)
  <2> DEFINE r == [run[d] EXCEPT !.step = "verify",
                                 !.tries = IF run[d].ok THEN 0 ELSE @ - 1]
  <2>1. r \in RunState
    <3>1. run[d].tries \in 0..Attempts /\ run[d].tries > 0
      BY <1>1, <1>3 DEF TryAgain, RunState
    <3>2. (IF run[d].ok THEN 0 ELSE run[d].tries - 1) \in 0..Attempts
      BY <3>1
    <3> QED
      BY <1>1, <3>2 DEF RunState, Steps
  <2>2. RunIsSound(r)
    BY <1>1, <1>3 DEF TryAgain, At, RunState, RunIsSound
  <2>0. IsFresh(r, main, pids)
    BY <1>1 DEF IsFresh, Exits, RunState
  <2> QED
    BY <1>3, <2>0, <2>1, <2>2, OwnStep DEF TryAgain
<1>4. CASE JudgeLive(d)
  <2> DEFINE r == IF run[d].ok
                  THEN Exits([run[d] EXCEPT !.line = "cutover-ok"], 0, FALSE)
                  ELSE Exits([run[d] EXCEPT !.line = "cutover-FAILED"], 1, TRUE)
  <2>1. ASSUME run[d].ok
        PROVE  r \in RunState /\ RunIsSound(r) /\ IsFresh(r, main, pids)
    <3>1. r = Exits([run[d] EXCEPT !.line = "cutover-ok"], 0, FALSE)
      BY <2>1
    <3>2. r \in RunState
      BY <1>1, <3>1 DEF Exits, RunState, Steps, Results
    <3>3. /\ r.step = "ended" /\ r.line = "cutover-ok" /\ r.code = 0
          /\ r.ok = run[d].ok /\ r.pid = run[d].pid /\ r.holder = run[d].holder
          /\ r.restarted = run[d].restarted /\ r.live = run[d].live
          /\ r.first = run[d].first /\ r.unit = run[d].unit /\ r.died = ~run[d].ok
      BY <1>1, <3>1, <2>1 DEF Exits, RunState
    <3>4. run[d].live
      BY <1>4 DEF JudgeLive
    <3> HIDE DEF r
    <3>5. RunIsSound(r) /\ IsFresh(r, main, pids)
      BY <1>1, <2>1, <3>3, <3>4 DEF RunIsSound, IsFresh
    <3> QED
      BY <3>2, <3>5
  <2>2. ASSUME ~run[d].ok
        PROVE  r \in RunState /\ RunIsSound(r) /\ IsFresh(r, main, pids)
    <3>1. r = Exits([run[d] EXCEPT !.line = "cutover-FAILED"], 1, TRUE)
      BY <2>2
    <3>2. r \in RunState
      BY <1>1, <3>1 DEF Exits, RunState, Steps, Results
    <3>3. /\ r.step = "ended" /\ r.line = "cutover-FAILED" /\ r.code = 1
          /\ r.ok = run[d].ok /\ r.pid = run[d].pid /\ r.holder = run[d].holder
          /\ r.restarted = run[d].restarted /\ r.live = run[d].live
          /\ r.first = run[d].first /\ r.unit = run[d].unit /\ r.died = ~run[d].ok
      BY <1>1, <3>1, <2>2 DEF Exits, RunState
    <3>4. run[d].live
      BY <1>4 DEF JudgeLive
    <3> HIDE DEF r
    <3>5. RunIsSound(r) /\ IsFresh(r, main, pids)
      BY <1>1, <2>2, <3>3, <3>4 DEF RunIsSound, IsFresh
    <3> QED
      BY <3>2, <3>5
  <2>3. Set(d, r) /\ UNCHANGED system
    BY <1>4 DEF JudgeLive
  <2> HIDE DEF r
  <2> QED
    BY <2>1, <2>2, <2>3, OwnStep
<1>5. CASE HistoryFails(d)
  <2> DEFINE r == Exits(run[d], 1, FALSE)
  <2>1. /\ r \in RunState /\ r.step = "ended" /\ r.code = 1 /\ ~r.died
        /\ r.line = run[d].line /\ r.ok = run[d].ok /\ r.pid = run[d].pid
        /\ r.holder = run[d].holder /\ r.restarted = run[d].restarted
        /\ r.live = run[d].live /\ r.first = run[d].first /\ r.unit = run[d].unit
    BY <1>1 DEF Exits, RunState, Steps
  <2>2. run[d].step \in {"gates", "judged"} /\ Set(d, r) /\ UNCHANGED system
    BY <1>5 DEF HistoryFails, At
  <2>3. run[d].line = None
    BY <1>1, <2>2 DEF RunIsSound
  <2> HIDE DEF r
  <2>4. RunIsSound(r) /\ IsFresh(r, main, pids)
    BY <1>1, <2>1, <2>2, <2>3 DEF RunIsSound, IsFresh, Results
  <2> QED
    BY <2>1, <2>2, <2>4, OwnStep
<1> QED
  BY <1>2, <1>3, <1>4, <1>5

-----------------------------------------------------------------------------
\* The inductive invariant: the lock file names an owner, and every run of the
\* script is as far as its record says.
THEOREM DeployInvariant == Spec => []DeployInv
<1>1. Init => DeployInv
  BY InitSound
<1>2. DeployInv /\ [Next]_vars => DeployInv'
  <2> SUFFICES ASSUME DeployInv, [Next]_vars PROVE DeployInv'
    OBVIOUS
  <2>1. CASE UNCHANGED vars
    BY <2>1 DEF vars, system, DeployInv, TypeOK, PidsAreReal, RunsAreSound, RunIsSound,
                RestartsAreFresh, IsFresh
  <2>2. CASE \E u \in Units : Process(u)
    BY <2>2, ProcessStep
  <2>3. ASSUME NEW d \in Runs, DryRun(d) \/ LiveRun(d) \/ Script(d)
        PROVE DeployInv'
    BY <2>3, StartStep, GateStep, StoppingStep, RestartStep, HandshakeStep,
       VerdictStep DEF Script
  <2> QED
    BY <2>1, <2>2, <2>3 DEF Next
<1> QED
  BY <1>1, <1>2, PTL DEF Spec

\* The units, their lock file and the runs of the script have their types.
THEOREM DeployTypeCorrect == Spec => []TypeOK
BY DeployInvariant, PTL DEF DeployInv

\* The script reports OK only for a process that has had the lock on file, and
\* after a restart only for a process of that restart or a later one, however
\* units restart, die or lock between its reads.
THEOREM HandshakeOwned == Spec => []OkMeansOwned
<1>1. DeployInv => OkMeansOwned
  BY NoneAssumption DEF DeployInv, TypeOK, RunState, RunsAreSound, RunIsSound, OkMeansOwned
<1> QED
  BY <1>1, DeployInvariant, PTL

\* Whoever restarted the unit has logged the verdict and exits with it, or could
\* not log it and exits with 1.
THEOREM RestartJudged == Spec => []RestartIsJudged
<1>1. DeployInv => RestartIsJudged
  BY DEF DeployInv, RunsAreSound, RunIsSound, RestartIsJudged, At
<1> QED
  BY <1>1, DeployInvariant, PTL
=============================================================================
