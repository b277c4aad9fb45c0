---------------------------- MODULE RunStoreProofs ----------------------------
(***************************************************************************)
(* Theorems about WriteLock and RunStore for any number of processes,      *)
(* threads, runs and versions, and every bound.                            *)
(***************************************************************************)
EXTENDS RunStore, TLAPS

-----------------------------------------------------------------------------
(* The write lock                                                            *)

\* A counted entry means that the process holds the flock.
LockInv ==
  /\ LockTypeOK
  /\ \A p \in Processes : depth[p] > 0 => flock = p

LEMMA LockInitially == LockInit => LockInv
  BY LockAssumption DEF LockInit, LockInv, LockTypeOK

LEMMA LockKept ==
  ASSUME NEW t \in Threads, LockInv,
         TakeGate(t) \/ TakeFlock(t) \/ Reenter(t) \/ Exit(t) \/ UNCHANGED lockVars
  PROVE  LockInv'
  <1> USE LockAssumption DEF LockInv, LockTypeOK, Inside
  <1>1. CASE TakeGate(t) BY <1>1 DEF TakeGate
  <1>2. CASE TakeFlock(t) BY <1>2 DEF TakeFlock
  <1>3. CASE Reenter(t) BY <1>3 DEF Reenter
  <1>4. CASE Exit(t) BY <1>4 DEF Exit
  <1>5. CASE UNCHANGED lockVars BY <1>5 DEF lockVars
  <1> QED BY <1>1, <1>2, <1>3, <1>4, <1>5

LEMMA FreedKept ==
  ASSUME NEW p \in Processes, LockInv, Freed(p)
  PROVE  LockInv'
  BY LockAssumption DEF LockInv, LockTypeOK, Freed

\* The bodies of the lock exclude each other.
LEMMA LockExcludes ==
  ASSUME LockInv
  PROVE  MutualExclusion
  BY LockAssumption DEF LockInv, LockTypeOK, MutualExclusion, Inside

-----------------------------------------------------------------------------
(* The inductive invariant of the store                                      *)

Caches ==
  [loaded : BOOLEAN, results : [Runs -> Versions \cup {Absent}], events : [Runs -> Streams],
   staged : [Runs -> Versions \cup {Absent}], current : Runs \cup {Absent}]

BusyCalls ==
  [op : WriterOps \cup ReaderOps, run : Runs \cup {Absent}, version : Versions \cup {Absent},
   at : Steps, recovering : BOOLEAN]

Busy(t) == call[t] # Idle

\* Where the files of a put are written.
Putting == {"bundle", "result", "events", "current", "unlink"}
\* Where a writer has recovered whatever was pending, and writes no put.
Recovered == {"reload", "intent", "stage", "stream", "point", "finish", "unstage"}
Locked == Putting \cup Recovered \cup {"release"}
Reading ==
  {"look", "single", "pending", "read_events",
   "load_events", "load_bundles", "load_results", "load_current"}

\* Which operation is at which step, and with which arguments.
Sensible(k) ==
  /\ k.op \in WriterOps => k.run \in Runs
  /\ k.op \in {"get_result", "get_events"} => k.run \in Runs
  /\ k.op \in {"put", "stage"} => k.version \in Versions
  /\ k.recovering => k.at \in Putting
  /\ ~ k.recovering /\ k.at \in Putting \cup {"intent"} =>
       k.op \in {"put", "publish"} /\ k.version \in Versions
  /\ k.at \in Recovered => k.op \in WriterOps
  /\ k.at = "finish" /\ k.op = "publish" => k.version \in Versions
  /\ k.at = "stage" => k.op = "stage"
  /\ k.at \in {"stream", "point"} => k.op \in {"put_events", "append"}
  /\ k.at = "unstage" => k.op = "publish"
  /\ k.at \in Reading \cup {"release"} => k.op \in ReaderOps
  /\ k.at \in {"pending", "read_events"} => k.op \in {"get_result", "get_events"}
  /\ k.at = "single" => k.run \in Runs /\ k.op # "list"

\* The locks a call holds; a publish has entered the write lock twice.
Holds(t) ==
  /\ call[t].at \in Locked => Inside(t)
  /\ call[t].at = "instance" /\ call[t].op \in WriterOps => Inside(t)
  /\ call[t].at \in Locked \cup Reading => instance[ProcessOf[t]] = t
  /\ call[t].op = "publish" /\ ~ call[t].recovering
       /\ call[t].at \in Putting \cup {"intent", "finish"} => depth[ProcessOf[t]] > 1

\* What the files are while t writes them.
Files(t) ==
  LET k == call[t]
  IN  /\ k.at \in Putting =>
           /\ intent # Absent
           /\ ~ k.recovering => intent = [run |-> k.run, version |-> k.version]
      /\ k.at \in Putting \ {"bundle"} => bundle[intent.run] = intent.version
      /\ k.at = "unlink" => current = intent.run
      /\ k.at \in Recovered => intent = Absent
      /\ k.at \in {"stream", "point"} => bundle[k.run] = Absent
      /\ k.at = "stream" /\ k.op = "append" =>
           /\ Cache(t).events[k.run] = events[k.run]
           /\ events[k.run] \notin Versions /\ ~ Full(events[k.run])
      /\ k.at = "point" => IsPartial(events[k.run])
      /\ k.at = "finish" /\ k.op \in {"put", "publish"} => bundle[k.run] # Absent

\* What the instance knows while t goes on with what it read.
Knows(t) ==
  LET k == call[t]
  IN  /\ k.at \in {"stream", "point"} => Cache(t).results[k.run] = Absent
      /\ k.at = "finish" /\ k.op \in {"put_events", "append"} => Cache(t).results[k.run] = Absent
      /\ k.at \in {"pending", "read_events"} => Cache(t).results[k.run] = Absent
      /\ k.at = "load_results" =>
           \A r \in Runs : Cache(t).events[r] \in Versions => Cache(t).results[r] # Absent

Thread(t) == Busy(t) => Sensible(call[t]) /\ Holds(t) /\ Files(t) /\ Knows(t)

\* The bundle is the first file of a put.
BundleFirst ==
  \A r \in Runs : result[r] # Absent \/ events[r] \in Versions => bundle[r] # Absent

\* A cached publication is whole, and has a bundle.
SoundCache(c) ==
  \A r \in Runs :
    /\ c.results[r] # Absent => c.events[r] = c.results[r]
    /\ c.events[r] \in Versions => bundle[r] # Absent

StoreInv ==
  /\ TypeOK
  /\ LockInv
  /\ BundleFirst
  /\ \A p \in Processes : SoundCache(cache[p])
  /\ \A t \in Threads : Thread(t)

LEMMA CallTypes ==
  ASSUME NEW k \in Calls, k # Idle
  PROVE  k \in BusyCalls
  BY DEF Calls, BusyCalls

LEMMA Fields ==
  ASSUME NEW k \in BusyCalls
  PROVE  /\ k # Idle
         /\ k.op \in WriterOps \cup ReaderOps /\ k.run \in Runs \cup {Absent}
         /\ k.version \in Versions \cup {Absent} /\ k.at \in Steps /\ k.recovering \in BOOLEAN
  BY DEF BusyCalls, Idle, WriterOps, ReaderOps

LEMMA CacheTypes ==
  ASSUME TypeOK, NEW p \in Processes
  PROVE  cache[p] \in Caches
  BY DEF TypeOK, Caches

LEMMA EmptySound ==
  /\ EmptyCache \in Caches
  /\ SoundCache(EmptyCache)
  BY StoreAssumption DEF EmptyCache, Caches, SoundCache, Streams

LEMMA StoreInitially == Init => StoreInv
  <1> SUFFICES ASSUME Init PROVE StoreInv
    OBVIOUS
  <1>1. TypeOK
    BY StoreAssumption, LockInitially, EmptySound
    DEF Init, TypeOK, LockInv, Caches, Calls, Streams
  <1>2. LockInv
    BY LockInitially DEF Init
  <1>3. BundleFirst
    BY StoreAssumption DEF Init, BundleFirst
  <1>4. \A p \in Processes : SoundCache(cache[p])
    BY EmptySound DEF Init
  <1>5. \A t \in Threads : Thread(t)
    BY DEF Init, Thread, Busy
  <1> QED BY <1>1, <1>2, <1>3, <1>4, <1>5 DEF StoreInv

-----------------------------------------------------------------------------
(* A step of one thread leaves the others what they hold                     *)

Only(t) ==
  /\ \A u \in Threads \ {t} :
       /\ call'[u] = call[u]
       /\ gate[ProcessOf[u]] = u =>
            gate'[ProcessOf[u]] = u /\ depth'[ProcessOf[u]] = depth[ProcessOf[u]]
       /\ instance[ProcessOf[u]] = u =>
            instance'[ProcessOf[u]] = u /\ cache'[ProcessOf[u]] = cache[ProcessOf[u]]
  /\ UNCHANGED disk \/ Inside(t)

LEMMA Others ==
  ASSUME StoreInv, NEW t \in Threads, NEW u \in Threads \ {t}, Only(t)
  PROVE  Thread(u)'
  <1> SUFFICES ASSUME Busy(u)' PROVE (Sensible(call[u]) /\ Holds(u) /\ Files(u) /\ Knows(u))'
    BY DEF Thread
  <1>1. call'[u] = call[u] /\ Busy(u) /\ Thread(u)
    BY DEF Only, Busy, StoreInv
  <1>2. Sensible(call[u])'
    BY <1>1 DEF Thread
  <1>3. Inside(u) => Inside(u)' /\ depth'[ProcessOf[u]] = depth[ProcessOf[u]]
    BY DEF Only, Inside
  <1>4. call[u].at \in Locked \cup Reading =>
          instance'[ProcessOf[u]] = u /\ cache'[ProcessOf[u]] = cache[ProcessOf[u]]
    BY <1>1 DEF Thread, Holds, Only
  <1>5. call[u].at \in Locked => UNCHANGED disk
    BY <1>1, LockExcludes DEF Thread, Holds, Only, MutualExclusion, StoreInv
  <1>6. Holds(u)'
    BY <1>1, <1>3, <1>4 DEF Thread, Holds, Locked, Recovered, Putting
  <1>7. Files(u)'
    BY <1>1, <1>4, <1>5 DEF Thread, Files, Locked, Recovered, Putting, Cache, disk
  <1>8. Knows(u)'
    BY <1>1, <1>4 DEF Thread, Knows, Locked, Recovered, Putting, Reading, Cache
  <1> QED BY <1>2, <1>6, <1>7, <1>8

LEMMA OnlyKeeps ==
  ASSUME StoreInv, NEW t \in Threads, Only(t),
         TypeOK', LockInv', BundleFirst', \A p \in Processes : SoundCache(cache[p])', Thread(t)'
  PROVE  StoreInv'
  BY Others DEF StoreInv

\* Where t changes its own call, and nothing that others hold.
LEMMA OnlyItsCall ==
  ASSUME TypeOK, NEW t \in Threads, NEW k, call' = [call EXCEPT ![t] = k]
  PROVE  call'[t] = k /\ \A u \in Threads \ {t} : call'[u] = call[u]
  BY DEF TypeOK

\* Leaving the write lock, or all of it, concerns the owner of the gate only.
LEMMA OnlyItsLock ==
  ASSUME StoreInv, NEW t \in Threads,
         TakeGate(t) \/ TakeFlock(t) \/ Reenter(t) \/ Exit(t) \/ UNCHANGED lockVars
         \/ (gate[ProcessOf[t]] = t /\ Freed(ProcessOf[t]))
  PROVE  /\ LockInv'
         /\ \A u \in Threads \ {t} : gate[ProcessOf[u]] = u =>
              gate'[ProcessOf[u]] = u /\ depth'[ProcessOf[u]] = depth[ProcessOf[u]]
  <1>1. LockInv'
    BY LockKept, FreedKept, LockAssumption DEF StoreInv
  <1>2. \A u \in Threads \ {t} : gate[ProcessOf[u]] = u =>
              gate'[ProcessOf[u]] = u /\ depth'[ProcessOf[u]] = depth[ProcessOf[u]]
    <2> USE LockAssumption DEF StoreInv, LockInv, LockTypeOK
    <2>1. CASE TakeGate(t) BY <2>1 DEF TakeGate
    <2>2. CASE TakeFlock(t) BY <2>2 DEF TakeFlock
    <2>3. CASE Reenter(t) BY <2>3 DEF Reenter, Inside
    <2>4. CASE Exit(t) BY <2>4 DEF Exit, Inside
    <2>5. CASE UNCHANGED lockVars BY <2>5 DEF lockVars
    <2>6. CASE gate[ProcessOf[t]] = t /\ Freed(ProcessOf[t]) BY <2>6 DEF Freed
    <2> QED BY <2>1, <2>2, <2>3, <2>4, <2>5, <2>6
  <1> QED BY <1>1, <1>2

\* A return or an exception gives up every lock, and leaves the thread idle.
LEMMA ReturnKeeps ==
  ASSUME StoreInv, NEW t \in Threads, Return(t)
  PROVE  /\ call' = [call EXCEPT ![t] = Idle] /\ call'[t] = Idle /\ Thread(t)'
         /\ \A u \in Threads \ {t} : call'[u] = call[u]
         /\ instance' \in [Processes -> Threads \cup {NoThread}]
         /\ LockInv'
         /\ \A u \in Threads \ {t} :
              /\ gate[ProcessOf[u]] = u =>
                   gate'[ProcessOf[u]] = u /\ depth'[ProcessOf[u]] = depth[ProcessOf[u]]
              /\ instance[ProcessOf[u]] = u => instance'[ProcessOf[u]] = u
  <1>1. call'[t] = Idle /\ \A u \in Threads \ {t} : call'[u] = call[u]
    BY DEF Return, StoreInv, TypeOK
  <1>2. instance' \in [Processes -> Threads \cup {NoThread}]
        /\ \A u \in Threads \ {t} : instance[ProcessOf[u]] = u => instance'[ProcessOf[u]] = u
    BY LockAssumption DEF Return, StoreInv, TypeOK
  <1>3. LockInv'
        /\ \A u \in Threads \ {t} : gate[ProcessOf[u]] = u =>
             gate'[ProcessOf[u]] = u /\ depth'[ProcessOf[u]] = depth[ProcessOf[u]]
    BY OnlyItsLock DEF Return
  <1>4. Thread(t)'
    BY <1>1 DEF Thread, Busy
  <1> QED BY <1>1, <1>2, <1>3, <1>4 DEF Return

-----------------------------------------------------------------------------
(* Calls and locks                                                           *)

\* The instance is free for t, or its own.
TakesInstance(t) ==
  /\ instance[ProcessOf[t]] \in {NoThread, t}
  /\ \E u \in {NoThread, t} : instance' = [instance EXCEPT ![ProcessOf[t]] = u]

StepsLock(t) ==
  TakeGate(t) \/ TakeFlock(t) \/ Reenter(t) \/ Exit(t) \/ UNCHANGED lockVars

\* A step that changes neither a file nor a cache.
LEMMA QuietKeeps ==
  ASSUME StoreInv, NEW t \in Threads, NEW k \in BusyCalls, call' = [call EXCEPT ![t] = k],
         UNCHANGED <<disk, cache, faults>>, StepsLock(t),
         UNCHANGED instance \/ TakesInstance(t), Thread(t)'
  PROVE  StoreInv'
  <1>1. call'[t] = k /\ \A u \in Threads \ {t} : call'[u] = call[u]
    BY OnlyItsCall DEF StoreInv
  <1>2. instance' \in [Processes -> Threads \cup {NoThread}]
        /\ \A u \in Threads \ {t} : instance[ProcessOf[u]] = u => instance'[ProcessOf[u]] = u
    <2>1. CASE UNCHANGED instance BY <2>1 DEF StoreInv, TypeOK
    <2>2. CASE TakesInstance(t)
      <3>1. PICK u \in {NoThread, t} : instance' = [instance EXCEPT ![ProcessOf[t]] = u]
        BY <2>2 DEF TakesInstance
      <3>2. instance[ProcessOf[t]] \in {NoThread, t}
        BY <2>2 DEF TakesInstance
      <3> QED BY <3>1, <3>2, LockAssumption DEF StoreInv, TypeOK
    <2> QED BY <2>1, <2>2
  <1>3. LockInv'
        /\ \A u \in Threads \ {t} : gate[ProcessOf[u]] = u =>
             gate'[ProcessOf[u]] = u /\ depth'[ProcessOf[u]] = depth[ProcessOf[u]]
    BY OnlyItsLock DEF StepsLock
  <1>4. Only(t)
    BY <1>1, <1>2, <1>3 DEF Only, disk
  <1>5. TypeOK'
    BY <1>2, <1>3 DEF StoreInv, TypeOK, LockInv, disk, Calls, BusyCalls
  <1>6. BundleFirst' /\ \A p \in Processes : SoundCache(cache[p])'
    BY DEF StoreInv, BundleFirst, SoundCache, disk
  <1> QED BY <1>3, <1>4, <1>5, <1>6, OnlyKeeps

LEMMA BeginKeeps ==
  ASSUME StoreInv, NEW t \in Threads, Begin(t), UNCHANGED faults
  PROVE  StoreInv'
  <1>1. PICK op \in Operations[t], r \in Runs \cup {Absent}, v \in Versions \cup {Absent} :
          \/ op \in WriterOps /\ r # Absent /\ BeginWrite(t, op, r, v)
          \/ op \in ReaderOps /\ v = Absent /\ BeginRead(t, op, r)
    BY DEF Begin
  <1>2. CASE op \in WriterOps /\ r # Absent /\ BeginWrite(t, op, r, v)
    <2> DEFINE k == NewCall(op, r, v, "gate")
    <2>1. k \in BusyCalls /\ call' = [call EXCEPT ![t] = k]
      BY <1>2 DEF BeginWrite, NewCall, BusyCalls, Steps
    <2>2. Thread(t)'
      <3>1. call'[t] = k
        BY <2>1, OnlyItsCall DEF StoreInv
      <3>2. Sensible(k)
        BY <1>2 DEF Sensible, NewCall, BeginWrite, Putting, Recovered, Reading, WriterOps, ReaderOps
      <3> QED BY <3>1, <3>2 DEF Thread, Holds, Files, Knows, NewCall, Locked, Putting, Recovered, Reading
    <2> QED BY <1>2, <2>1, <2>2, QuietKeeps DEF BeginWrite, StepsLock
  <1>3. CASE op \in ReaderOps /\ v = Absent /\ BeginRead(t, op, r)
    <2> DEFINE at == IF ~ Cache(t).loaded /\ intent # Absent THEN "gate" ELSE "instance"
               k == NewCall(op, r, Absent, at)
    <2>1. k \in BusyCalls /\ call' = [call EXCEPT ![t] = k]
      BY <1>3 DEF BeginRead, NewCall, BusyCalls, Steps
    <2>2. Thread(t)'
      <3>1. call'[t] = k
        BY <2>1, OnlyItsCall DEF StoreInv
      <3>2. Sensible(k)
        BY <1>3 DEF Sensible, NewCall, BeginRead, Putting, Recovered, Reading, WriterOps, ReaderOps
      <3> QED BY <1>3, <3>1, <3>2
              DEF Thread, Holds, Files, Knows, NewCall, Locked, Putting, Recovered, Reading, WriterOps, ReaderOps
    <2> QED BY <1>3, <2>1, <2>2, QuietKeeps DEF BeginRead, StepsLock
  <1> QED BY <1>1, <1>2, <1>3

\* A call in flight, and what it is after a change of its step.
LEMMA Goes ==
  ASSUME StoreInv, NEW t \in Threads, Busy(t), NEW step \in Steps
  PROVE  /\ call[t] \in BusyCalls
         /\ [call[t] EXCEPT !.at = step] \in BusyCalls
         /\ Goto(t, step) => call' = [call EXCEPT ![t] = [call[t] EXCEPT !.at = step]]
                             /\ call'[t] = [call[t] EXCEPT !.at = step]
         /\ Sensible(call[t]) /\ Holds(t) /\ Files(t) /\ Knows(t)
  <1>1. call[t] \in BusyCalls
    BY CallTypes DEF StoreInv, TypeOK, Busy
  <1>2. [call[t] EXCEPT !.at = step] \in BusyCalls
    BY <1>1 DEF BusyCalls
  <1>3. ASSUME Goto(t, step)
        PROVE  call' = [call EXCEPT ![t] = [call[t] EXCEPT !.at = step]]
    BY <1>3 DEF Goto, StoreInv, TypeOK
  <1>4. Goto(t, step) => call'[t] = [call[t] EXCEPT !.at = step]
    BY <1>3 DEF StoreInv, TypeOK
  <1> QED BY <1>1, <1>2, <1>3, <1>4 DEF StoreInv, Thread

LEMMA GateKeeps ==
  ASSUME StoreInv, NEW t \in Threads, Gate(t), UNCHANGED faults
  PROVE  StoreInv'
  <1> DEFINE k == [call[t] EXCEPT !.at = "flock"]
  <1>1. Busy(t) /\ call[t].at = "gate" /\ "flock" \in Steps
    BY DEF Gate, At, Busy, Steps
  <1>2. k \in BusyCalls /\ call' = [call EXCEPT ![t] = k] /\ call'[t] = k /\ Sensible(call[t])
    BY <1>1, Goes DEF Gate
  <1>3. Sensible(k) /\ k.at = "flock"
    BY <1>1, <1>2 DEF Sensible, BusyCalls, Putting, Recovered, Reading
  <1>4. Thread(t)'
    BY <1>2, <1>3 DEF Thread, Holds, Files, Knows, Locked, Putting, Recovered, Reading
  <1> QED BY <1>2, <1>4, QuietKeeps DEF Gate, StepsLock

LEMMA FlockKeeps ==
  ASSUME StoreInv, NEW t \in Threads, Flock(t), UNCHANGED faults
  PROVE  StoreInv'
  <1> DEFINE k == [call[t] EXCEPT !.at = "instance"]
  <1>1. Busy(t) /\ call[t].at = "flock" /\ "instance" \in Steps
    BY DEF Flock, At, Busy, Steps
  <1>2. k \in BusyCalls /\ call' = [call EXCEPT ![t] = k] /\ call'[t] = k /\ Sensible(call[t])
        /\ call[t] \in BusyCalls
    BY <1>1, Goes DEF Flock
  <1>3. Sensible(k) /\ k.at = "instance"
    BY <1>1, <1>2 DEF Sensible, BusyCalls, Putting, Recovered, Reading
  <1>4. Inside(t)'
    BY LockAssumption DEF Flock, TakeFlock, Inside, StoreInv, LockInv, LockTypeOK
  <1>5. Thread(t)'
    BY <1>2, <1>3, <1>4 DEF Thread, Holds, Files, Knows, Locked, Putting, Recovered, Reading
  <1> QED BY <1>2, <1>5, QuietKeeps DEF Flock, StepsLock

LEMMA InstanceKeeps ==
  ASSUME StoreInv, NEW t \in Threads, Instance(t), UNCHANGED faults
  PROVE  StoreInv'
  <1> DEFINE writes == call[t].op \in WriterOps
             recover == Inside(t) /\ intent # Absent /\ (writes \/ ~ Cache(t).loaded)
             at == CASE recover -> "bundle"
                     [] ~ recover /\ writes -> "reload"
                     [] ~ recover /\ ~ writes -> IF Inside(t) THEN "release" ELSE "look"
             k == [call[t] EXCEPT !.recovering = recover, !.at = at]
  <1>1. Busy(t) /\ call[t].at = "instance" /\ "look" \in Steps
    BY DEF Instance, At, Busy, Steps
  <1>2. call[t] \in BusyCalls /\ Sensible(call[t]) /\ Holds(t) /\ call[t].op \in WriterOps \cup ReaderOps
    BY <1>1, Goes, Fields
  <1>3. /\ recover \in BOOLEAN /\ at \in {"bundle", "reload", "release", "look"}
        /\ recover => Inside(t) /\ intent # Absent
        /\ at = "bundle" <=> recover
        /\ at = "reload" => writes /\ (Inside(t) => intent = Absent)
        /\ at \in {"release", "look"} => call[t].op \in ReaderOps
        /\ at = "release" => Inside(t)
    BY <1>2 DEF WriterOps, ReaderOps
  <1>4. call' = [call EXCEPT ![t] = k] /\ call'[t] = k
    BY DEF Instance, StoreInv, TypeOK
  <1> HIDE DEF recover, at
  <1>5. k \in BusyCalls /\ k.op = call[t].op /\ k.run = call[t].run /\ k.version = call[t].version
        /\ k.recovering = recover /\ k.at = at
    BY <1>2, <1>3 DEF BusyCalls, Steps
  <1> HIDE DEF k
  <1>6. Sensible(k)
    BY <1>1, <1>2, <1>3, <1>5 DEF Sensible, Putting, Recovered, Reading
  <1>7. Inside(t)' <=> Inside(t)
    BY DEF Instance, Inside, lockVars
  <1>8. instance'[ProcessOf[t]] = t /\ TakesInstance(t)
    BY LockAssumption DEF Instance, StoreInv, TypeOK, TakesInstance
  <1>9. Holds(t)'
    <2>1. writes => Inside(t)
      BY <1>1, <1>2 DEF Holds
    <2> QED BY <1>3, <1>4, <1>5, <1>7, <1>8, <2>1 DEF Holds, Locked, Putting, Recovered, Reading
  <1>10. Files(t)'
    <2>1. UNCHANGED <<intent, bundle, current, events>>
      BY DEF Instance, disk
    <2>2. at = "reload" => intent = Absent
      BY <1>1, <1>2, <1>3 DEF Holds
    <2> QED BY <1>3, <1>4, <1>5, <2>1, <2>2 DEF Files, Putting, Recovered
  <1>11. Knows(t)'
    BY <1>3, <1>4, <1>5 DEF Knows
  <1>12. Thread(t)'
    BY <1>4, <1>6, <1>9, <1>10, <1>11 DEF Thread
  <1> QED BY <1>4, <1>5, <1>8, <1>12, QuietKeeps DEF Instance, StepsLock

LEMMA ReleaseKeeps ==
  ASSUME StoreInv, NEW t \in Threads, Release(t), UNCHANGED faults
  PROVE  StoreInv'
  <1> DEFINE k == [call[t] EXCEPT !.at = "instance"]
  <1>1. Busy(t) /\ call[t].at = "release" /\ "instance" \in Steps
    BY DEF Release, At, Busy, Steps
  <1>2. k \in BusyCalls /\ call' = [call EXCEPT ![t] = k] /\ call'[t] = k /\ Sensible(call[t])
        /\ call[t] \in BusyCalls /\ Holds(t)
    BY <1>1, Goes DEF Release
  <1>3. Sensible(k) /\ k.at = "instance" /\ k.op \in ReaderOps
    BY <1>1, <1>2 DEF Sensible, BusyCalls, Putting, Recovered, Reading
  <1>4. Thread(t)'
    BY <1>2, <1>3
    DEF Thread, Holds, Files, Knows, Locked, Putting, Recovered, Reading, WriterOps, ReaderOps
  <1>5. TakesInstance(t)
    BY <1>1, <1>2 DEF Release, TakesInstance, Holds, Locked
  <1> QED BY <1>2, <1>4, <1>5, QuietKeeps DEF Release, StepsLock

-----------------------------------------------------------------------------
(* Files                                                                     *)

DiskTypeOK ==
  /\ bundle \in [Runs -> Versions \cup {Absent}]
  /\ result \in [Runs -> Versions \cup {Absent}]
  /\ events \in [Runs -> Streams]
  /\ staged \in [Runs -> Versions \cup {Absent}]
  /\ current \in Runs \cup {Absent}
  /\ intent \in Puts \cup {Absent}

BundlesStay == \A r \in Runs : bundle[r] # Absent => bundle'[r] # Absent

\* A step that writes a file, by a thread inside the write lock.
LEMMA FileKeeps ==
  ASSUME StoreInv, NEW t \in Threads, NEW k \in BusyCalls, call' = [call EXCEPT ![t] = k],
         UNCHANGED <<cache, instance, lockVars, faults>>, Inside(t),
         DiskTypeOK', BundleFirst', BundlesStay, Thread(t)'
  PROVE  StoreInv'
  <1>1. call'[t] = k /\ \A u \in Threads \ {t} : call'[u] = call[u]
    BY OnlyItsCall DEF StoreInv
  <1>2. LockInv'
        /\ \A u \in Threads \ {t} : gate[ProcessOf[u]] = u =>
             gate'[ProcessOf[u]] = u /\ depth'[ProcessOf[u]] = depth[ProcessOf[u]]
    BY OnlyItsLock
  <1>3. Only(t)
    BY <1>1, <1>2 DEF Only
  <1>4. TypeOK'
    BY <1>2 DEF StoreInv, TypeOK, LockInv, DiskTypeOK, Calls, BusyCalls
  <1>5. \A p \in Processes : SoundCache(cache[p])'
    BY DEF StoreInv, SoundCache, BundlesStay
  <1> QED BY <1>2, <1>3, <1>4, <1>5, OnlyKeeps

\* What t writes is a publication, while it puts.
LEMMA PublicationType ==
  ASSUME StoreInv, NEW t \in Threads, Busy(t), call[t].at \in Putting \cup {"intent"}
  PROVE  /\ Publication(t) \in Puts
         /\ Publication(t).run \in Runs /\ Publication(t).version \in Versions
         /\ Publication(t).version # Absent
         /\ call[t].at \in Putting => Publication(t) = intent /\ intent # Absent
         /\ call[t].at = "intent" =>
              ~ call[t].recovering /\ Publication(t) = [run |-> call[t].run, version |-> call[t].version]
  <1>1. call[t] \in BusyCalls /\ Sensible(call[t]) /\ Files(t)
    BY Goes, CallTypes DEF StoreInv, TypeOK, Busy, Thread
  <1>2. intent # Absent => intent \in Puts
    BY DEF StoreInv, TypeOK
  <1>3. Publication(t) \in Puts
        /\ (call[t].at \in Putting => Publication(t) = intent /\ intent # Absent)
        /\ (call[t].at = "intent" =>
              ~ call[t].recovering /\ Publication(t) = [run |-> call[t].run, version |-> call[t].version])
    <2>1. CASE call[t].recovering
      BY <1>1, <1>2, <2>1 DEF Publication, Sensible, Files, Putting
    <2>2. CASE ~ call[t].recovering
      BY <1>1, <2>2 DEF Publication, Sensible, Files, Puts, WriterOps
    <2> QED BY <2>1, <2>2
  <1> QED BY <1>3, StoreAssumption DEF Puts

LEMMA IntentKeeps ==
  ASSUME StoreInv, NEW t \in Threads, Intent(t), UNCHANGED <<cache, instance, lockVars, faults>>
  PROVE  StoreInv'
  <1> DEFINE k == [call[t] EXCEPT !.at = "bundle"]
  <1>1. Busy(t) /\ call[t].at = "intent" /\ "bundle" \in Steps
    BY DEF Intent, At, Busy, Steps
  <1>2. k \in BusyCalls /\ call' = [call EXCEPT ![t] = k] /\ call'[t] = k
        /\ call[t] \in BusyCalls /\ Sensible(call[t]) /\ Holds(t) /\ Files(t)
    BY <1>1, Goes DEF Intent
  <1>3. Sensible(k) /\ k.at = "bundle"
    BY <1>1, <1>2 DEF Sensible, BusyCalls, Putting, Recovered, Reading
  <1>4. Publication(t) \in Puts
        /\ Publication(t) = [run |-> call[t].run, version |-> call[t].version]
    BY <1>1, PublicationType
  <1>5. Inside(t) /\ Inside(t)'
    BY <1>1, <1>2 DEF Holds, Locked, Recovered, Inside, lockVars
  <1>6. Holds(t)'
    BY <1>1, <1>2, <1>5 DEF BusyCalls, Holds, Locked, Recovered, Putting, lockVars
  <1>7. Files(t)'
    BY <1>1, <1>2, <1>4, StoreAssumption DEF BusyCalls, Files, Putting, Recovered, Intent, Puts
  <1>8. Knows(t)'
    BY <1>2, <1>3 DEF Knows
  <1>9. Thread(t)'
    BY <1>2, <1>3, <1>6, <1>7, <1>8 DEF Thread
  <1>10. DiskTypeOK' /\ BundleFirst' /\ BundlesStay
    BY <1>4 DEF StoreInv, TypeOK, DiskTypeOK, BundleFirst, BundlesStay, Intent
  <1> QED BY <1>2, <1>5, <1>9, <1>10, FileKeeps

LEMMA BundleKeeps ==
  ASSUME StoreInv, NEW t \in Threads, Bundle(t), UNCHANGED <<cache, instance, lockVars, faults>>
  PROVE  StoreInv'
  <1> DEFINE k == [call[t] EXCEPT !.at = "result"]
  <1>1. Busy(t) /\ call[t].at = "bundle" /\ "result" \in Steps
    BY DEF Bundle, At, Busy, Steps
  <1>2. k \in BusyCalls /\ call' = [call EXCEPT ![t] = k] /\ call'[t] = k
        /\ call[t] \in BusyCalls /\ Sensible(call[t]) /\ Holds(t) /\ Files(t)
    BY <1>1, Goes DEF Bundle
  <1>3. Sensible(k) /\ k.at = "result"
    BY <1>1, <1>2 DEF Sensible, BusyCalls, Putting, Recovered, Reading
  <1>4. Publication(t) = intent /\ intent.run \in Runs /\ intent.version \in Versions
        /\ intent.version # Absent /\ intent # Absent
    BY <1>1, PublicationType DEF Putting
  <1>5. Inside(t) /\ Inside(t)'
    BY <1>1, <1>2 DEF Holds, Locked, Putting, Inside, lockVars
  <1>6. Holds(t)'
    BY <1>1, <1>2, <1>5 DEF BusyCalls, Holds, Locked, Recovered, Putting, lockVars
  <1>7. Files(t)'
    BY <1>1, <1>2, <1>4 DEF BusyCalls, Files, Putting, Recovered, Bundle, StoreInv, TypeOK
  <1>8. Knows(t)'
    BY <1>2, <1>3 DEF Knows
  <1>9. Thread(t)'
    BY <1>2, <1>3, <1>6, <1>7, <1>8 DEF Thread
  <1>10. DiskTypeOK' /\ BundleFirst' /\ BundlesStay
    BY <1>4 DEF StoreInv, TypeOK, DiskTypeOK, BundleFirst, BundlesStay, Bundle
  <1> QED BY <1>2, <1>5, <1>9, <1>10, FileKeeps

LEMMA ResultKeeps ==
  ASSUME StoreInv, NEW t \in Threads, Result(t), UNCHANGED <<cache, instance, lockVars, faults>>
  PROVE  StoreInv'
  <1> DEFINE k == [call[t] EXCEPT !.at = "events"]
  <1>1. Busy(t) /\ call[t].at = "result" /\ "events" \in Steps
    BY DEF Result, At, Busy, Steps
  <1>2. k \in BusyCalls /\ call' = [call EXCEPT ![t] = k] /\ call'[t] = k
        /\ call[t] \in BusyCalls /\ Sensible(call[t]) /\ Holds(t) /\ Files(t)
    BY <1>1, Goes DEF Result
  <1>3. Sensible(k) /\ k.at = "events"
    BY <1>1, <1>2 DEF Sensible, BusyCalls, Putting, Recovered, Reading
  <1>4. Publication(t) = intent /\ intent.run \in Runs /\ intent.version \in Versions
        /\ intent.version # Absent /\ intent # Absent
    BY <1>1, PublicationType DEF Putting
  <1>5. Inside(t) /\ Inside(t)'
    BY <1>1, <1>2 DEF Holds, Locked, Putting, Inside, lockVars
  <1>6. Holds(t)'
    BY <1>1, <1>2, <1>5 DEF BusyCalls, Holds, Locked, Recovered, Putting, lockVars
  <1>7. Files(t)' /\ bundle[intent.run] = intent.version
    BY <1>1, <1>2, <1>4 DEF BusyCalls, Files, Putting, Recovered, Result, StoreInv, TypeOK
  <1>8. Knows(t)'
    BY <1>2, <1>3 DEF Knows
  <1>9. Thread(t)'
    BY <1>2, <1>3, <1>6, <1>7, <1>8 DEF Thread
  <1>10. DiskTypeOK' /\ BundleFirst' /\ BundlesStay
    BY <1>4, <1>7 DEF StoreInv, TypeOK, DiskTypeOK, BundleFirst, BundlesStay, Result
  <1> QED BY <1>2, <1>5, <1>9, <1>10, FileKeeps

LEMMA EventsKeeps ==
  ASSUME StoreInv, NEW t \in Threads, Events(t), UNCHANGED <<cache, instance, lockVars, faults>>
  PROVE  StoreInv'
  <1> DEFINE k == [call[t] EXCEPT !.at = "current"]
  <1>1. Busy(t) /\ call[t].at = "events" /\ "current" \in Steps
    BY DEF Events, At, Busy, Steps
  <1>2. k \in BusyCalls /\ call' = [call EXCEPT ![t] = k] /\ call'[t] = k
        /\ call[t] \in BusyCalls /\ Sensible(call[t]) /\ Holds(t) /\ Files(t)
    BY <1>1, Goes DEF Events
  <1>3. Sensible(k) /\ k.at = "current"
    BY <1>1, <1>2 DEF Sensible, BusyCalls, Putting, Recovered, Reading
  <1>4. Publication(t) = intent /\ intent.run \in Runs /\ intent.version \in Versions
        /\ intent.version # Absent /\ intent # Absent
    BY <1>1, PublicationType DEF Putting
  <1>5. Inside(t) /\ Inside(t)'
    BY <1>1, <1>2 DEF Holds, Locked, Putting, Inside, lockVars
  <1>6. Holds(t)'
    BY <1>1, <1>2, <1>5 DEF BusyCalls, Holds, Locked, Recovered, Putting, lockVars
  <1>7. Files(t)' /\ bundle[intent.run] = intent.version
    BY <1>1, <1>2, <1>4 DEF BusyCalls, Files, Putting, Recovered, Events, StoreInv, TypeOK
  <1>8. Knows(t)'
    BY <1>2, <1>3 DEF Knows
  <1>9. Thread(t)'
    BY <1>2, <1>3, <1>6, <1>7, <1>8 DEF Thread
  <1>10. DiskTypeOK' /\ BundlesStay
    BY <1>4 DEF StoreInv, TypeOK, DiskTypeOK, BundlesStay, Events, Streams
  <1>11. BundleFirst'
    BY <1>4, <1>7 DEF StoreInv, TypeOK, BundleFirst, Events
  <1> QED BY <1>2, <1>5, <1>9, <1>10, <1>11, FileKeeps

LEMMA CurrentKeeps ==
  ASSUME StoreInv, NEW t \in Threads, Current(t), UNCHANGED <<cache, instance, lockVars, faults>>
  PROVE  StoreInv'
  <1> DEFINE k == [call[t] EXCEPT !.at = "unlink"]
  <1>1. Busy(t) /\ call[t].at = "current" /\ "unlink" \in Steps
    BY DEF Current, At, Busy, Steps
  <1>2. k \in BusyCalls /\ call' = [call EXCEPT ![t] = k] /\ call'[t] = k
        /\ call[t] \in BusyCalls /\ Sensible(call[t]) /\ Holds(t) /\ Files(t)
    BY <1>1, Goes DEF Current
  <1>3. Sensible(k) /\ k.at = "unlink"
    BY <1>1, <1>2 DEF Sensible, BusyCalls, Putting, Recovered, Reading
  <1>4. Publication(t) = intent /\ intent.run \in Runs /\ intent # Absent
    BY <1>1, PublicationType DEF Putting
  <1>5. Inside(t) /\ Inside(t)'
    BY <1>1, <1>2 DEF Holds, Locked, Putting, Inside, lockVars
  <1>6. Holds(t)'
    BY <1>1, <1>2, <1>5 DEF BusyCalls, Holds, Locked, Recovered, Putting, lockVars
  <1>7. Files(t)'
    BY <1>1, <1>2, <1>4 DEF BusyCalls, Files, Putting, Recovered, Current
  <1>8. Knows(t)'
    BY <1>2, <1>3 DEF Knows
  <1>9. Thread(t)'
    BY <1>2, <1>3, <1>6, <1>7, <1>8 DEF Thread
  <1>10. DiskTypeOK' /\ BundleFirst' /\ BundlesStay
    BY <1>4 DEF StoreInv, TypeOK, DiskTypeOK, BundleFirst, BundlesStay, Current
  <1> QED BY <1>2, <1>5, <1>9, <1>10, FileKeeps

LEMMA UnlinkKeeps ==
  ASSUME StoreInv, NEW t \in Threads, Unlink(t), UNCHANGED <<cache, instance, lockVars, faults>>
  PROVE  StoreInv'
  <1> DEFINE at == IF ~ call[t].recovering THEN "finish"
                   ELSE IF call[t].op \in WriterOps THEN "reload" ELSE "release"
             k == [call[t] EXCEPT !.recovering = FALSE, !.at = at]
  <1>1. Busy(t) /\ call[t].at = "unlink" /\ "unlink" \in Steps
    BY DEF Unlink, At, Busy, Steps
  <1>2. call[t] \in BusyCalls /\ Sensible(call[t]) /\ Holds(t) /\ Files(t)
        /\ call[t].op \in WriterOps \cup ReaderOps
    BY <1>1, Goes, Fields
  <1>3. call' = [call EXCEPT ![t] = k] /\ call'[t] = k
    BY DEF Unlink, StoreInv, TypeOK
  <1>4. at \in {"finish", "reload", "release"}
        /\ (at = "finish" => ~ call[t].recovering)
        /\ (at = "reload" => call[t].op \in WriterOps)
        /\ (at = "release" => call[t].op \in ReaderOps)
    BY <1>2
  <1> HIDE DEF at
  <1>5. k \in BusyCalls /\ k.op = call[t].op /\ k.run = call[t].run /\ k.version = call[t].version
        /\ ~ k.recovering /\ k.at = at
    BY <1>2, <1>4 DEF BusyCalls, Steps
  <1> HIDE DEF k
  <1>6. at = "finish" => call[t].op \in {"put", "publish"} /\ call[t].version \in Versions
    BY <1>1, <1>2, <1>4 DEF Sensible, Putting
  <1>7. Sensible(k)
    BY <1>2, <1>4, <1>5, <1>6 DEF Sensible, Putting, Recovered, Reading, WriterOps
  <1>8. Inside(t) /\ Inside(t)'
    BY <1>1, <1>2 DEF Holds, Locked, Putting, Inside, lockVars
  <1>9. Holds(t)'
    BY <1>1, <1>2, <1>3, <1>4, <1>5, <1>8 DEF Holds, Locked, Recovered, Putting, Reading, lockVars
  <1>10. Files(t)'
    <2>1. at = "finish" => bundle[call[t].run] = call[t].version /\ call[t].version # Absent
      BY <1>1, <1>2, <1>4, <1>6, StoreAssumption DEF Files, Putting
    <2> QED BY <1>3, <1>4, <1>5, <2>1 DEF Files, Putting, Recovered, Unlink
  <1>11. Knows(t)'
    BY <1>3, <1>4, <1>5, <1>6 DEF Knows
  <1>12. Thread(t)'
    BY <1>3, <1>7, <1>9, <1>10, <1>11 DEF Thread
  <1>13. DiskTypeOK' /\ BundleFirst' /\ BundlesStay
    BY DEF StoreInv, TypeOK, DiskTypeOK, BundleFirst, BundlesStay, Unlink
  <1> QED BY <1>3, <1>5, <1>8, <1>12, <1>13, FileKeeps

LEMMA StageKeeps ==
  ASSUME StoreInv, NEW t \in Threads, Stage(t), UNCHANGED <<cache, instance, lockVars, faults>>
  PROVE  StoreInv'
  <1> DEFINE k == [call[t] EXCEPT !.at = "finish"]
  <1>1. Busy(t) /\ call[t].at = "stage" /\ "finish" \in Steps
    BY DEF Stage, At, Busy, Steps
  <1>2. k \in BusyCalls /\ call' = [call EXCEPT ![t] = k] /\ call'[t] = k
        /\ call[t] \in BusyCalls /\ Sensible(call[t]) /\ Holds(t) /\ Files(t)
    BY <1>1, Goes DEF Stage
  <1>3. call[t].op = "stage" /\ call[t].run \in Runs /\ call[t].version \in Versions
        /\ ~ call[t].recovering
    BY <1>1, <1>2 DEF Sensible, Recovered, Putting, WriterOps
  <1>4. Sensible(k) /\ k.at = "finish" /\ k.op = "stage"
    BY <1>2, <1>3 DEF Sensible, BusyCalls, Putting, Recovered, Reading, WriterOps
  <1>5. Inside(t) /\ Inside(t)'
    BY <1>1, <1>2 DEF Holds, Locked, Recovered, Inside, lockVars
  <1>6. Holds(t)'
    BY <1>1, <1>2, <1>4, <1>5 DEF BusyCalls, Holds, Locked, Recovered, Putting, lockVars
  <1>7. Files(t)'
    BY <1>1, <1>2, <1>4 DEF Files, Putting, Recovered, Stage
  <1>8. Knows(t)'
    BY <1>2, <1>4 DEF Knows
  <1>9. Thread(t)'
    BY <1>2, <1>4, <1>6, <1>7, <1>8 DEF Thread
  <1>10. DiskTypeOK' /\ BundleFirst' /\ BundlesStay
    BY <1>3 DEF StoreInv, TypeOK, DiskTypeOK, BundleFirst, BundlesStay, Stage
  <1> QED BY <1>2, <1>5, <1>9, <1>10, FileKeeps

\* What is appended to has no publication and room for an event.
LEMMA StreamValue ==
  ASSUME StoreInv, NEW t \in Threads, Stream(t)
  PROVE  /\ Busy(t) /\ call[t].at = "stream" /\ call[t].run \in Runs
         /\ call[t].op \in {"put_events", "append"}
         /\ bundle[call[t].run] = Absent /\ Cache(t).results[call[t].run] = Absent
         /\ intent = Absent
         /\ call[t].op = "append" => events[call[t].run] \notin Versions
         /\ \E n \in 1 .. MaxPartial :
              /\ events' = [events EXCEPT ![call[t].run] = n]
              /\ call[t].op = "append" =>
                   n = IF events[call[t].run] = Absent THEN 1 ELSE events[call[t].run] + 1
  <1> DEFINE r == call[t].run
             n == IF call[t].op = "put_events" \/ Cache(t).events[r] = Absent THEN 1
                  ELSE Cache(t).events[r] + 1
  <1>1. Busy(t) /\ call[t].at = "stream" /\ "point" \in Steps /\ events' = [events EXCEPT ![r] = n]
    BY DEF Stream, At, Busy, Steps
  <1>2. call[t] \in BusyCalls /\ Sensible(call[t]) /\ Files(t) /\ Knows(t)
    BY <1>1, Goes
  <1>3. call[t].op \in {"put_events", "append"} /\ r \in Runs /\ bundle[r] = Absent
        /\ Cache(t).results[r] = Absent /\ intent = Absent
    BY <1>1, <1>2 DEF Sensible, Files, Knows, Recovered, WriterOps
  <1>4. call[t].op = "append" =>
          Cache(t).events[r] = events[r] /\ events[r] \notin Versions /\ ~ Full(events[r])
    BY <1>1, <1>2 DEF Files
  <1>5. events[r] \in Streams
    BY <1>3 DEF StoreInv, TypeOK
  <1>6. CASE call[t].op = "put_events"
    <2>1. n = 1 /\ n \in 1 .. MaxPartial
      BY <1>6, StoreAssumption
    <2> HIDE DEF n
    <2> QED BY <1>1, <1>3, <1>6, <2>1
  <1>7. CASE call[t].op = "append" /\ events[r] = Absent
    <2>1. n = 1 /\ n \in 1 .. MaxPartial
      BY <1>4, <1>7, StoreAssumption
    <2> HIDE DEF n
    <2> QED BY <1>1, <1>3, <1>4, <1>7, <2>1
  <1>8. CASE call[t].op = "append" /\ events[r] # Absent
    <2>1. events[r] \in 1 .. MaxPartial /\ events[r] < MaxPartial
      BY <1>4, <1>5, <1>8, StoreAssumption DEF Streams, Full, IsPartial
    <2>2. n = events[r] + 1 /\ n \in 1 .. MaxPartial
      BY <1>4, <1>8, <2>1, StoreAssumption
    <2> HIDE DEF n
    <2> QED BY <1>1, <1>3, <1>4, <1>8, <2>2
  <1> QED BY <1>3, <1>6, <1>7, <1>8

LEMMA StreamKeeps ==
  ASSUME StoreInv, NEW t \in Threads, Stream(t), UNCHANGED <<cache, instance, lockVars, faults>>
  PROVE  StoreInv'
  <1> DEFINE k == [call[t] EXCEPT !.at = "point"]
  <1>1. Busy(t) /\ call[t].at = "stream" /\ "point" \in Steps /\ call[t].run \in Runs
        /\ bundle[call[t].run] = Absent /\ Cache(t).results[call[t].run] = Absent /\ intent = Absent
    BY StreamValue DEF Steps
  <1>2. k \in BusyCalls /\ call' = [call EXCEPT ![t] = k] /\ call'[t] = k
        /\ call[t] \in BusyCalls /\ Sensible(call[t]) /\ Holds(t)
    BY <1>1, Goes DEF Stream
  <1>3. Sensible(k) /\ k.at = "point" /\ k.run = call[t].run
    BY <1>1, <1>2 DEF Sensible, BusyCalls, Putting, Recovered, Reading
  <1>4. PICK n \in 1 .. MaxPartial : events' = [events EXCEPT ![call[t].run] = n]
    BY StreamValue
  <1>5. IsPartial(n) /\ n \in Streams /\ n \notin Versions
    BY StoreAssumption DEF IsPartial, Streams
  <1>6. Inside(t) /\ Inside(t)'
    BY <1>1, <1>2 DEF Holds, Locked, Recovered, Inside, lockVars
  <1>7. Holds(t)'
    BY <1>1, <1>2, <1>6 DEF BusyCalls, Holds, Locked, Recovered, Putting, lockVars
  <1>8. events'[call[t].run] = n /\ UNCHANGED <<bundle, intent>>
    BY <1>1, <1>4 DEF StoreInv, TypeOK, Stream
  <1>9. Files(t)'
    BY <1>1, <1>2, <1>3, <1>5, <1>8 DEF Files, Putting, Recovered, IsPartial
  <1>10. Knows(t)'
    BY <1>1, <1>2, <1>3 DEF Knows, Cache
  <1>11. Thread(t)'
    BY <1>2, <1>3, <1>7, <1>9, <1>10 DEF Thread
  <1>12. DiskTypeOK' /\ BundleFirst' /\ BundlesStay
    BY <1>1, <1>4, <1>5 DEF StoreInv, TypeOK, DiskTypeOK, BundleFirst, BundlesStay, Stream
  <1> QED BY <1>2, <1>6, <1>11, <1>12, FileKeeps

LEMMA PointKeeps ==
  ASSUME StoreInv, NEW t \in Threads, Point(t), UNCHANGED <<cache, instance, lockVars, faults>>
  PROVE  StoreInv'
  <1> DEFINE k == [call[t] EXCEPT !.at = "finish"]
  <1>1. Busy(t) /\ call[t].at = "point" /\ "finish" \in Steps
    BY DEF Point, At, Busy, Steps
  <1>2. k \in BusyCalls /\ call' = [call EXCEPT ![t] = k] /\ call'[t] = k
        /\ call[t] \in BusyCalls /\ Sensible(call[t]) /\ Holds(t) /\ Files(t) /\ Knows(t)
    BY <1>1, Goes DEF Point
  <1>3. call[t].op \in {"put_events", "append"} /\ call[t].run \in Runs /\ ~ call[t].recovering
    BY <1>1, <1>2 DEF Sensible, Recovered, Putting, WriterOps
  <1>4. Sensible(k) /\ k.at = "finish" /\ k.op = call[t].op /\ k.run = call[t].run
    BY <1>2, <1>3 DEF Sensible, BusyCalls, Putting, Recovered, Reading, WriterOps
  <1>5. Inside(t) /\ Inside(t)'
    BY <1>1, <1>2 DEF Holds, Locked, Recovered, Inside, lockVars
  <1>6. Holds(t)'
    BY <1>1, <1>2, <1>3, <1>4, <1>5 DEF BusyCalls, Holds, Locked, Recovered, Putting, lockVars
  <1>7. Files(t)'
    BY <1>1, <1>2, <1>3, <1>4 DEF Files, Putting, Recovered, Point
  <1>8. Knows(t)'
    BY <1>1, <1>2, <1>4 DEF Knows, Cache
  <1>9. Thread(t)'
    BY <1>2, <1>4, <1>6, <1>7, <1>8 DEF Thread
  <1>10. DiskTypeOK' /\ BundleFirst' /\ BundlesStay
    BY <1>3 DEF StoreInv, TypeOK, DiskTypeOK, BundleFirst, BundlesStay, Point
  <1> QED BY <1>2, <1>5, <1>9, <1>10, FileKeeps

LEMMA WriteFileKeeps ==
  ASSUME StoreInv, NEW t \in Threads, WriteFile(t), UNCHANGED faults
  PROVE  StoreInv'
  BY IntentKeeps, BundleKeeps, ResultKeeps, EventsKeeps, CurrentKeeps, UnlinkKeeps,
     StageKeeps, StreamKeeps, PointKeeps
  DEF WriteFile

-----------------------------------------------------------------------------
(* Caches                                                                    *)

\* A step of t that holds the lock of its instance and changes its cache.
LEMMA CacheKeeps ==
  ASSUME StoreInv, NEW t \in Threads, NEW c, call'[t] \in Calls,
         \A u \in Threads \ {t} : call'[u] = call[u], call' \in [Threads -> Calls],
         SetCache(t, c), c \in Caches, SoundCache(c)', UNCHANGED faults,
         instance[ProcessOf[t]] = t,
         \/ UNCHANGED instance
         \/ instance' = [p \in Processes |-> IF instance[p] = t THEN NoThread ELSE instance[p]],
         LockInv',
         \A u \in Threads \ {t} : gate[ProcessOf[u]] = u =>
              gate'[ProcessOf[u]] = u /\ depth'[ProcessOf[u]] = depth[ProcessOf[u]],
         UNCHANGED disk \/ (Inside(t) /\ DiskTypeOK' /\ BundleFirst' /\ BundlesStay),
         Thread(t)'
  PROVE  StoreInv'
  <1>1. DiskTypeOK' /\ BundleFirst' /\ BundlesStay
    BY DEF StoreInv, TypeOK, DiskTypeOK, BundleFirst, BundlesStay, disk
  <1>2. ProcessOf[t] \in Processes
    BY LockAssumption
  <1>3. cache' \in [Processes -> Caches]
        /\ cache'[ProcessOf[t]] = c
        /\ \A p \in Processes : p # ProcessOf[t] => cache'[p] = cache[p]
    BY <1>2, CacheTypes DEF SetCache, StoreInv, TypeOK, Caches
  <1>4. \A p \in Processes : SoundCache(cache[p])'
    <2> SUFFICES ASSUME NEW p \in Processes PROVE SoundCache(cache[p])'
      OBVIOUS
    <2>1. CASE p = ProcessOf[t]
      BY <1>3, <2>1 DEF SoundCache
    <2>2. CASE p # ProcessOf[t]
      BY <1>1, <1>3, <2>2 DEF StoreInv, SoundCache, BundlesStay
    <2> QED BY <2>1, <2>2
  <1>5. instance' \in [Processes -> Threads \cup {NoThread}]
        /\ \A u \in Threads \ {t} : instance[ProcessOf[u]] = u => instance'[ProcessOf[u]] = u
    BY LockAssumption DEF StoreInv, TypeOK
  <1>6. \A u \in Threads \ {t} : instance[ProcessOf[u]] = u => cache'[ProcessOf[u]] = cache[ProcessOf[u]]
    BY <1>3, LockAssumption
  <1>7. Only(t)
    BY <1>5, <1>6 DEF Only
  <1>8. TypeOK'
    BY <1>1, <1>3, <1>5 DEF StoreInv, TypeOK, LockInv, DiskTypeOK, Caches
  <1> QED BY <1>1, <1>4, <1>7, <1>8, OnlyKeeps

LEMMA LoadTypes ==
  ASSUME StoreInv, NEW c \in Caches
  PROVE  /\ LoadedEvents(c) \in Caches /\ LoadedBundles(c) \in Caches
         /\ LoadedResults(c) \in Caches /\ LoadedCurrent(c) \in Caches
  BY DEF StoreInv, TypeOK, Caches, Streams, LoadedEvents, LoadedBundles, LoadedResults, LoadedCurrent

\* Loading keeps a cache sound; after the bundles a cached stream that ends in
\* completion has its result.
Whole(c) == \A r \in Runs : c.events[r] \in Versions => c.results[r] # Absent

LEMMA LoadSound ==
  ASSUME StoreInv, NEW c \in Caches, SoundCache(c)
  PROVE  /\ SoundCache(LoadedEvents(c)) /\ SoundCache(LoadedCurrent(c))
         /\ SoundCache(LoadedBundles(c)) /\ Whole(LoadedBundles(c))
         /\ Whole(c) /\ ~ ResultsRefused(c) => SoundCache(LoadedResults(c))
  <1> USE DEF Caches
  <1>1. SoundCache(LoadedEvents(c))
    BY StoreAssumption DEF StoreInv, SoundCache, LoadedEvents, BundleFirst
  <1>2. SoundCache(LoadedCurrent(c))
    BY DEF SoundCache, LoadedCurrent
  <1>3. SoundCache(LoadedBundles(c)) /\ Whole(LoadedBundles(c))
    BY StoreAssumption DEF SoundCache, LoadedBundles, Whole
  <1>4. ASSUME Whole(c), ~ ResultsRefused(c)
        PROVE  SoundCache(LoadedResults(c))
    BY <1>4, StoreAssumption DEF SoundCache, LoadedResults, Whole, ResultsRefused, IsPartial
  <1> QED BY <1>1, <1>2, <1>3, <1>4

\* A reloaded instance knows each publication, and otherwise the stream.
LEMMA Reloaded ==
  ASSUME StoreInv, NEW t \in Threads
  PROVE  /\ Refreshed(t) \in Caches /\ SoundCache(Refreshed(t))
         /\ \A r \in Runs : Refreshed(t).results[r] = Absent =>
              /\ bundle[r] = Absent
              /\ Refreshed(t).events[r] = events[r]
              /\ events[r] \notin Versions
  <1> DEFINE a == LoadedEvents(EmptyCache)
             b == LoadedBundles(a)
             c == LoadedResults(b)
  <1>1. a \in Caches /\ b \in Caches /\ c \in Caches /\ Refreshed(t) \in Caches
    BY EmptySound, LoadTypes DEF Refreshed, Loaded
  <1>2. \A r \in Runs : a.results[r] = Absent /\ a.events[r] = events[r]
    BY DEF LoadedEvents, EmptyCache, StoreInv, TypeOK
  <1>3. \A r \in Runs : b.results[r] = bundle[r]
                        /\ b.events[r] = IF bundle[r] # Absent THEN bundle[r] ELSE events[r]
    <2> HIDE DEF a
    <2> QED BY <1>1, <1>2 DEF LoadedBundles, Caches, StoreInv, TypeOK
  <1>4. \A r \in Runs : c.results[r] = bundle[r] /\ c.events[r] = b.events[r]
    <2> HIDE DEF a, b
    <2> QED BY <1>1, <1>3, StoreAssumption DEF LoadedResults, Caches, StoreInv, TypeOK, BundleFirst
  <1>5. Refreshed(t).results = c.results /\ Refreshed(t).events = c.events
    <2>1. Refreshed(t) = LoadedCurrent(c)
      BY DEF Refreshed, Loaded
    <2> HIDE DEF a, b, c
    <2> QED BY <1>1, <2>1 DEF LoadedCurrent, Caches
  <1>6. \A r \in Runs : bundle[r] \in Versions \cup {Absent}
    BY DEF StoreInv, TypeOK
  <1> HIDE DEF a, b, c
  <1>7. SoundCache(Refreshed(t))
    BY <1>3, <1>4, <1>5, <1>6 DEF SoundCache, StoreInv, BundleFirst
  <1>8. \A r \in Runs : Refreshed(t).results[r] = Absent =>
          bundle[r] = Absent /\ Refreshed(t).events[r] = events[r] /\ events[r] \notin Versions
    BY <1>3, <1>4, <1>5 DEF StoreInv, BundleFirst
  <1> QED BY <1>1, <1>7, <1>8

\* A step that changes the call and the cache of t, and no file.
LEMMA CacheCallKeeps ==
  ASSUME StoreInv, NEW t \in Threads, NEW c \in Caches, SetCache(t, c), SoundCache(c),
         NEW k \in BusyCalls, call' = [call EXCEPT ![t] = k],
         UNCHANGED <<disk, instance, faults>>, StepsLock(t),
         instance[ProcessOf[t]] = t, Thread(t)'
  PROVE  StoreInv'
  <1>1. call'[t] = k /\ \A u \in Threads \ {t} : call'[u] = call[u]
    BY OnlyItsCall DEF StoreInv
  <1>2. call' \in [Threads -> Calls] /\ call'[t] \in Calls
    BY <1>1 DEF StoreInv, TypeOK, Calls, BusyCalls
  <1>3. LockInv'
        /\ \A u \in Threads \ {t} : gate[ProcessOf[u]] = u =>
             gate'[ProcessOf[u]] = u /\ depth'[ProcessOf[u]] = depth[ProcessOf[u]]
    BY OnlyItsLock DEF StepsLock
  <1>4. SoundCache(c)'
    BY DEF SoundCache, disk
  <1> QED BY <1>1, <1>2, <1>3, <1>4, CacheKeeps

\* The same where the call ends.
LEMMA CacheReturnKeeps ==
  ASSUME StoreInv, NEW t \in Threads, NEW c \in Caches, SetCache(t, c), SoundCache(c),
         Return(t), UNCHANGED <<disk, faults>>, instance[ProcessOf[t]] = t
  PROVE  StoreInv'
  <1>1. call' \in [Threads -> Calls] /\ call'[t] \in Calls
    BY ReturnKeeps DEF StoreInv, TypeOK, Calls
  <1>2. SoundCache(c)'
    BY DEF SoundCache, disk
  <1>3. instance' = [p \in Processes |-> IF instance[p] = t THEN NoThread ELSE instance[p]]
    BY DEF Return
  <1> QED BY <1>1, <1>2, <1>3, ReturnKeeps, CacheKeeps

\* The same where nothing else changes.
LEMMA ReturnOnlyKeeps ==
  ASSUME StoreInv, NEW t \in Threads, Return(t), UNCHANGED <<disk, cache>>,
         faults' \in 0 .. MaxFaults
  PROVE  StoreInv'
  <1>1. Only(t)
    BY ReturnKeeps DEF Only
  <1>2. TypeOK'
    BY ReturnKeeps DEF StoreInv, TypeOK, Calls, disk, LockInv
  <1>3. BundleFirst' /\ \A p \in Processes : SoundCache(cache[p])'
    BY DEF StoreInv, BundleFirst, SoundCache, disk
  <1> QED BY <1>1, <1>2, <1>3, ReturnKeeps, OnlyKeeps

LEMMA ReloadKeeps ==
  ASSUME StoreInv, NEW t \in Threads, Reload(t), UNCHANGED faults
  PROVE  StoreInv'
  <1> DEFINE c == Refreshed(t)
             r == call[t].run
             op == call[t].op
             refused == \/ c.results[r] # Absent \/ staged[r] # Absent
                        \/ op = "append" /\ Full(c.events[r])
  <1>1. Busy(t) /\ call[t].at = "reload" /\ SetCache(t, c) /\ UNCHANGED disk
        /\ {"intent", "stage", "stream"} \subseteq Steps
    BY DEF Reload, At, Busy, Steps
  <1>2. call[t] \in BusyCalls /\ Sensible(call[t]) /\ Holds(t) /\ Files(t)
    BY <1>1, Goes
  <1>3. op \in WriterOps /\ r \in Runs /\ intent = Absent /\ ~ call[t].recovering
    BY <1>1, <1>2 DEF Sensible, Files, Recovered, Putting
  <1>4. instance[ProcessOf[t]] = t /\ Inside(t)
    BY <1>1, <1>2 DEF Holds, Locked, Recovered
  <1>5. c \in Caches /\ SoundCache(c)
    BY Reloaded
  <1>6. Cache(t)' = c
    BY <1>1, LockAssumption DEF Cache, SetCache, StoreInv, TypeOK
  <1>7. UNCHANGED <<bundle, events, staged, intent, current>>
    BY <1>1 DEF disk
  <1>8. ASSUME Goto(t, "intent"), op = "put", UNCHANGED <<instance, lockVars>>
        PROVE  StoreInv'
    <2> DEFINE k == [call[t] EXCEPT !.at = "intent"]
    <2>1. k \in BusyCalls /\ call' = [call EXCEPT ![t] = k] /\ call'[t] = k
          /\ k.at = "intent" /\ k.op = "put" /\ k.run = r /\ k.version = call[t].version
          /\ k.recovering = call[t].recovering
      BY <1>1, <1>2, <1>8, Goes DEF BusyCalls
    <2> HIDE DEF k
    <2>2. Sensible(k)
      BY <1>2, <1>3, <1>8, <2>1 DEF Sensible, Putting, Recovered, Reading
    <2>3. Thread(t)'
      BY <1>3, <1>4, <1>7, <1>8, <2>1, <2>2
      DEF Thread, Holds, Files, Knows, Locked, Putting, Recovered, Reading, Inside, lockVars
    <2> QED BY <1>1, <1>4, <1>5, <1>8, <2>1, <2>3, CacheCallKeeps DEF StepsLock
  <1>9. ASSUME Goto(t, "stage"), op = "stage", UNCHANGED <<instance, lockVars>>
        PROVE  StoreInv'
    <2> DEFINE k == [call[t] EXCEPT !.at = "stage"]
    <2>1. k \in BusyCalls /\ call' = [call EXCEPT ![t] = k] /\ call'[t] = k
          /\ k.at = "stage" /\ k.op = "stage" /\ k.run = r /\ k.version = call[t].version
          /\ k.recovering = call[t].recovering
      BY <1>1, <1>2, <1>9, Goes DEF BusyCalls
    <2> HIDE DEF k
    <2>2. Sensible(k)
      BY <1>2, <1>3, <1>9, <2>1 DEF Sensible, Putting, Recovered, Reading
    <2>3. Thread(t)'
      BY <1>3, <1>4, <1>7, <1>9, <2>1, <2>2
      DEF Thread, Holds, Files, Knows, Locked, Putting, Recovered, Reading, Inside, lockVars
    <2> QED BY <1>1, <1>4, <1>5, <1>9, <2>1, <2>3, CacheCallKeeps DEF StepsLock
  <1>10. ASSUME op = "publish", staged[r] # Absent, Reenter(t), UNCHANGED instance,
                call' = [call EXCEPT ![t].version = staged[r], ![t].at = "intent"]
         PROVE  StoreInv'
    <2> DEFINE k == [call[t] EXCEPT !.version = staged[r], !.at = "intent"]
    <2>1. staged[r] \in Versions
      BY <1>3, <1>10 DEF StoreInv, TypeOK
    <2>2. k \in BusyCalls /\ call' = [call EXCEPT ![t] = k] /\ call'[t] = k
          /\ k.at = "intent" /\ k.op = "publish" /\ k.run = r /\ k.version = staged[r]
          /\ k.recovering = call[t].recovering
      BY <1>1, <1>2, <1>10, <2>1 DEF BusyCalls, StoreInv, TypeOK
    <2> HIDE DEF k
    <2>3. Sensible(k)
      BY <1>2, <1>3, <1>10, <2>1, <2>2 DEF Sensible, Putting, Recovered, Reading
    <2>4. Inside(t)' /\ depth'[ProcessOf[t]] > 1
      BY <1>4, <1>10, LockAssumption DEF Reenter, Inside, StoreInv, LockInv, LockTypeOK
    <2>5. Thread(t)'
      BY <1>3, <1>4, <1>7, <1>10, <2>2, <2>3, <2>4
      DEF Thread, Holds, Files, Knows, Locked, Putting, Recovered, Reading
    <2> QED BY <1>1, <1>4, <1>5, <1>10, <2>2, <2>5, CacheCallKeeps DEF StepsLock
  <1>11. ASSUME Goto(t, "stream"), op \in {"put_events", "append"}, ~ refused,
                UNCHANGED <<instance, lockVars>>
         PROVE  StoreInv'
    <2> DEFINE k == [call[t] EXCEPT !.at = "stream"]
    <2>1. k \in BusyCalls /\ call' = [call EXCEPT ![t] = k] /\ call'[t] = k
          /\ k.at = "stream" /\ k.op = op /\ k.run = r /\ k.version = call[t].version
          /\ k.recovering = call[t].recovering
      BY <1>1, <1>2, <1>11, Goes DEF BusyCalls
    <2>2. c.results[r] = Absent /\ bundle[r] = Absent /\ c.events[r] = events[r]
          /\ events[r] \notin Versions /\ (op = "append" => ~ Full(events[r]))
      BY <1>3, <1>11, Reloaded
    <2> HIDE DEF k, c
    <2>3. Sensible(k)
      BY <1>2, <1>3, <1>11, <2>1 DEF Sensible, Putting, Recovered, Reading
    <2>4. Holds(t)'
      BY <1>4, <1>11, <2>1 DEF Holds, Locked, Putting, Recovered, Reading, Inside, lockVars
    <2>5. Files(t)'
      BY <1>3, <1>6, <1>7, <2>1, <2>2 DEF Files, Putting, Recovered, Full
    <2>6. Knows(t)'
      BY <1>6, <2>1, <2>2 DEF Knows
    <2>7. Thread(t)'
      BY <2>1, <2>3, <2>4, <2>5, <2>6 DEF Thread
    <2> QED BY <1>1, <1>4, <1>5, <1>11, <2>1, <2>7, CacheCallKeeps DEF StepsLock
  <1>12. ASSUME Return(t) PROVE StoreInv'
    BY <1>1, <1>4, <1>5, <1>12, CacheReturnKeeps
  <1>13. \/ Goto(t, "intent") /\ op = "put" /\ UNCHANGED <<instance, lockVars>>
         \/ Goto(t, "stage") /\ op = "stage" /\ UNCHANGED <<instance, lockVars>>
         \/ /\ op = "publish" /\ staged[r] # Absent /\ Reenter(t) /\ UNCHANGED instance
            /\ call' = [call EXCEPT ![t].version = staged[r], ![t].at = "intent"]
         \/ /\ Goto(t, "stream") /\ op \in {"put_events", "append"} /\ ~ refused
            /\ UNCHANGED <<instance, lockVars>>
         \/ Return(t)
    BY DEF Reload
  <1> QED BY <1>8, <1>9, <1>10, <1>11, <1>12, <1>13

\* A cache with one run's publication, or its stream, replaced.
PutIn(d, r, v) == [d EXCEPT !.results[r] = v, !.events[r] = v, !.current = r]
StreamIn(d, r, v) == [d EXCEPT !.events[r] = v, !.current = r]

LEMMA CachePut ==
  ASSUME NEW d \in Caches, NEW r \in Runs, NEW v \in Versions
  PROVE  /\ PutIn(d, r, v) \in Caches /\ PutIn(d, r, v).results = [d.results EXCEPT ![r] = v]
         /\ PutIn(d, r, v).events = [d.events EXCEPT ![r] = v]
  <1> DEFINE V == Versions \cup {Absent}
             Q == Runs \cup {Absent}
  <1>1. r \in Q /\ Caches =
          [loaded : BOOLEAN, results : [Runs -> V], events : [Runs -> Streams],
           staged : [Runs -> V], current : Q]
    BY DEF Caches
  <1>2. v \in V /\ v \in Streams
    BY DEF Streams
  <1> HIDE DEF V, Q
  <1>3. PutIn(d, r, v) \in Caches
    BY <1>1, <1>2 DEF PutIn
  <1>4. PutIn(d, r, v).results = [d.results EXCEPT ![r] = v]
    BY <1>1, <1>2 DEF PutIn
  <1>5. PutIn(d, r, v).events = [d.events EXCEPT ![r] = v]
    BY <1>1, <1>2 DEF PutIn
  <1> QED BY <1>3, <1>4, <1>5

LEMMA CacheStream ==
  ASSUME NEW d \in Caches, NEW r \in Runs, NEW v \in Streams
  PROVE  /\ StreamIn(d, r, v) \in Caches /\ StreamIn(d, r, v).results = d.results
         /\ StreamIn(d, r, v).events = [d.events EXCEPT ![r] = v]
  <1> DEFINE V == Versions \cup {Absent}
             Q == Runs \cup {Absent}
  <1>1. r \in Q /\ Caches =
          [loaded : BOOLEAN, results : [Runs -> V], events : [Runs -> Streams],
           staged : [Runs -> V], current : Q]
    BY DEF Caches
  <1> HIDE DEF V, Q
  <1>3. StreamIn(d, r, v) \in Caches
    BY <1>1 DEF StreamIn
  <1>4. StreamIn(d, r, v).results = d.results
    BY <1>1 DEF StreamIn
  <1>5. StreamIn(d, r, v).events = [d.events EXCEPT ![r] = v]
    BY <1>1 DEF StreamIn
  <1> QED BY <1>3, <1>4, <1>5

LEMMA FinishKeeps ==
  ASSUME StoreInv, NEW t \in Threads, Finish(t), UNCHANGED faults
  PROVE  StoreInv'
  <1> DEFINE r == call[t].run
             op == call[t].op
             v == call[t].version
             d == Cache(t)
  <1>1. Busy(t) /\ call[t].at = "finish" /\ UNCHANGED disk /\ "unstage" \in Steps
    BY DEF Finish, At, Busy, Steps
  <1>2. call[t] \in BusyCalls /\ Sensible(call[t]) /\ Holds(t) /\ Files(t) /\ Knows(t)
    BY <1>1, Goes
  <1>3. op \in WriterOps /\ r \in Runs /\ intent = Absent /\ ~ call[t].recovering
    BY <1>1, <1>2 DEF Sensible, Files, Recovered, Putting
  <1>4. instance[ProcessOf[t]] = t /\ Inside(t)
    BY <1>1, <1>2 DEF Holds, Locked, Recovered
  <1>5. d \in Caches /\ SoundCache(d) /\ events[r] \in Streams
    BY <1>3, LockAssumption, CacheTypes DEF Cache, StoreInv, TypeOK
  <1>6. PICK c :
          /\ SetCache(t, c)
          /\ op \in {"put", "publish"} =>
               c = [d EXCEPT !.results[r] = v, !.events[r] = v, !.current = r]
          /\ op = "stage" => c = [d EXCEPT !.staged[r] = v]
          /\ op \in {"put_events", "append"} => c = [d EXCEPT !.events[r] = events[r], !.current = r]
    BY DEF Finish
  <1> HIDE DEF d
  <1>7. c \in Caches /\ SoundCache(c)
    <2>1. CASE op \in {"put", "publish"}
      <3>1. v \in Versions /\ bundle[r] # Absent
        BY <1>1, <1>2, <2>1 DEF Sensible, Files
      <3>2. c \in Caches /\ c.results = [d.results EXCEPT ![r] = v]
            /\ c.events = [d.events EXCEPT ![r] = v]
        <4>1. c = PutIn(d, r, v)
          BY <1>6, <2>1 DEF PutIn
        <4> HIDE DEF r, v, op
        <4> QED BY <1>3, <1>5, <3>1, <4>1, CachePut
      <3> QED BY <1>3, <1>5, <3>1, <3>2 DEF Caches, SoundCache
    <2>2. CASE op = "stage"
      <3>1. v \in Versions
        BY <1>2, <2>2 DEF Sensible
      <3> QED BY <1>3, <1>5, <1>6, <2>2, <3>1 DEF Caches, SoundCache
    <2>3. CASE op \in {"put_events", "append"}
      <3>1. d.results[r] = Absent
        BY <1>1, <1>2, <2>3 DEF Knows, d
      <3>2. events[r] \in Versions => bundle[r] # Absent
        BY <1>3 DEF StoreInv, BundleFirst
      <3>3. c \in Caches /\ c.results = d.results /\ c.events = [d.events EXCEPT ![r] = events[r]]
        <4>1. c = StreamIn(d, r, events[r])
          BY <1>6, <2>3 DEF StreamIn
        <4> HIDE DEF r, v, op
        <4> QED BY <1>3, <1>5, <4>1, CacheStream
      <3> QED BY <1>3, <1>5, <3>1, <3>2, <3>3 DEF Caches, SoundCache
    <2> QED BY <1>3, <2>1, <2>2, <2>3 DEF WriterOps
  <1>8. CASE op = "publish"
    <2> DEFINE k == [call[t] EXCEPT !.at = "unstage"]
    <2>1. Exit(t) /\ UNCHANGED instance
          /\ k \in BusyCalls /\ call' = [call EXCEPT ![t] = k] /\ call'[t] = k
          /\ k.at = "unstage" /\ k.op = "publish" /\ k.run = r /\ ~ k.recovering
      BY <1>1, <1>2, <1>3, <1>8, Goes DEF Finish, BusyCalls
    <2> HIDE DEF k
    <2>2. Sensible(k)
      BY <1>3, <2>1 DEF Sensible, Putting, Recovered, Reading, WriterOps
    <2>3. Inside(t)'
      <3>1. depth[ProcessOf[t]] > 1
        BY <1>1, <1>2, <1>3, <1>8 DEF Holds
      <3> QED BY <2>1, <3>1, LockAssumption DEF Exit, Inside, StoreInv, LockInv, LockTypeOK
    <2>4. Thread(t)'
      BY <1>1, <1>3, <1>4, <2>1, <2>2, <2>3
      DEF Thread, Holds, Files, Knows, Locked, Putting, Recovered, Reading, disk
    <2> QED BY <1>1, <1>4, <1>6, <1>7, <2>1, <2>4, CacheCallKeeps DEF StepsLock
  <1>9. CASE op # "publish"
    <2>1. Return(t)
      BY <1>9 DEF Finish
    <2> QED BY <1>1, <1>4, <1>6, <1>7, <2>1, CacheReturnKeeps
  <1> QED BY <1>8, <1>9

LEMMA UnstageKeeps ==
  ASSUME StoreInv, NEW t \in Threads, Unstage(t), UNCHANGED faults
  PROVE  StoreInv'
  <1> DEFINE r == call[t].run
  <1>1. Busy(t) /\ call[t].at = "unstage" /\ Return(t) /\ "unstage" \in Steps
    BY DEF Unstage, At, Busy, Steps
  <1>2. call[t] \in BusyCalls /\ Sensible(call[t]) /\ Holds(t)
    BY <1>1, Goes
  <1>3. instance[ProcessOf[t]] = t /\ Inside(t) /\ r \in Runs
    BY <1>1, <1>2 DEF Holds, Locked, Recovered, Sensible
  <1>4. PICK c : c = [Cache(t) EXCEPT !.staged[r] = Absent] /\ SetCache(t, c)
    BY DEF Unstage
  <1>5. c \in Caches /\ SoundCache(c)'
    <2>1. PICK d : d = Cache(t) /\ d \in Caches /\ SoundCache(d)
      BY LockAssumption, CacheTypes DEF Cache, StoreInv
    <2>2. UNCHANGED bundle
      BY DEF Unstage
    <2>3. c \in Caches /\ c.results = d.results /\ c.events = d.events
      BY <1>3, <1>4, <2>1 DEF Caches
    <2> QED BY <2>1, <2>2, <2>3 DEF SoundCache
  <1>6. DiskTypeOK' /\ BundleFirst' /\ BundlesStay
    BY <1>3 DEF Unstage, StoreInv, TypeOK, DiskTypeOK, BundleFirst, BundlesStay
  <1>7. call' \in [Threads -> Calls] /\ call'[t] \in Calls
    BY <1>1, ReturnKeeps DEF StoreInv, TypeOK, Calls
  <1>8. instance' = [p \in Processes |-> IF instance[p] = t THEN NoThread ELSE instance[p]]
    BY <1>1 DEF Return
  <1> QED BY <1>1, <1>3, <1>4, <1>5, <1>6, <1>7, <1>8, ReturnKeeps, CacheKeeps

-----------------------------------------------------------------------------
(* Reading                                                                   *)

\* A thread that reads goes on to another step of reading.
LEMMA ReadingGoes ==
  ASSUME StoreInv, NEW t \in Threads, NEW k \in BusyCalls, call' = [call EXCEPT ![t] = k],
         Busy(t), call[t].at \in Reading, k.at \in Reading,
         k.op = call[t].op, k.recovering = call[t].recovering,
         k.op \in {"get_result", "get_events"} => k.run = call[t].run,
         k.at = "single" => k.run \in Runs /\ k.op # "list",
         k.at \in {"pending", "read_events"} =>
           k.op \in {"get_result", "get_events"} /\ Cache(t)'.results[k.run] = Absent,
         k.at = "load_results" => Whole(Cache(t))',
         instance'[ProcessOf[t]] = instance[ProcessOf[t]]
  PROVE  Thread(t)' /\ instance[ProcessOf[t]] = t
  <1>1. call[t] \in BusyCalls /\ Sensible(call[t]) /\ Holds(t) /\ "look" \in Steps
    BY Goes DEF Steps
  <1>2. call[t].op \in ReaderOps /\ ~ call[t].recovering
    BY <1>1 DEF Sensible, Reading, Putting
  <1>3. call'[t] = k
    BY OnlyItsCall DEF StoreInv
  <1>4. Sensible(k)
    BY <1>1, <1>2 DEF Sensible, Putting, Recovered, Reading, WriterOps, ReaderOps
  <1>5. Holds(t)' /\ instance[ProcessOf[t]] = t
    BY <1>1, <1>2, <1>3 DEF Holds, Locked, Putting, Recovered, Reading, WriterOps, ReaderOps
  <1>6. Files(t)'
    BY <1>3 DEF Files, Putting, Recovered, Reading
  <1>7. Knows(t)'
    BY <1>3 DEF Knows, Reading, Whole
  <1> QED BY <1>3, <1>4, <1>5, <1>6, <1>7 DEF Thread

\* What a step of reading starts from.
LEMMA Reads ==
  ASSUME StoreInv, NEW t \in Threads, Busy(t), call[t].at \in Reading
  PROVE  /\ call[t] \in BusyCalls /\ Sensible(call[t]) /\ Knows(t)
         /\ call[t].op \in ReaderOps /\ ~ call[t].recovering
         /\ instance[ProcessOf[t]] = t
         /\ Cache(t) \in Caches /\ SoundCache(Cache(t))
         /\ \A c : SetCache(t, c) => Cache(t)' = c
  <1>1. call[t] \in BusyCalls /\ Sensible(call[t]) /\ Holds(t) /\ Knows(t) /\ "look" \in Steps
    BY Goes DEF Steps
  <1>2. Cache(t) \in Caches /\ SoundCache(Cache(t))
    BY LockAssumption, CacheTypes DEF Cache, StoreInv
  <1>3. \A c : SetCache(t, c) => Cache(t)' = c
    BY LockAssumption DEF Cache, SetCache, StoreInv, TypeOK
  <1> QED BY <1>1, <1>2, <1>3 DEF Sensible, Holds, Reading, Putting

LEMMA LookKeeps ==
  ASSUME StoreInv, NEW t \in Threads, Look(t), UNCHANGED faults
  PROVE  StoreInv'
  <1> DEFINE d == Cache(t)
             op == call[t].op
             asked == IF op = "current" THEN current ELSE call[t].run
             known == KnownTo(d, call[t])
  <1>1. Busy(t) /\ call[t].at = "look" /\ UNCHANGED disk
    BY DEF Look, At, Busy
  <1>2. call[t] \in BusyCalls /\ Sensible(call[t]) /\ op \in ReaderOps /\ ~ call[t].recovering
        /\ instance[ProcessOf[t]] = t /\ d \in Caches /\ SoundCache(d)
    BY <1>1, Reads DEF Reading
  <1>3. ASSUME d.loaded, known, Return(t),
               SetCache(t, CASE op = "list" -> LoadedBundles(d)
                             [] op = "current" /\ intent = Absent -> [d EXCEPT !.current = Absent]
                             [] OTHER -> d)
        PROVE  StoreInv'
    <2>1. PICK c :
            /\ SetCache(t, c)
            /\ c \in {LoadedBundles(d), [d EXCEPT !.current = Absent], d}
      BY <1>3
    <2>2. c \in Caches /\ SoundCache(c)
      <3>1. CASE c = LoadedBundles(d) BY <1>2, <3>1, LoadTypes, LoadSound
      <3>2. CASE c = [d EXCEPT !.current = Absent]
        <4> HIDE DEF d
        <4> QED BY <1>2, <3>2 DEF Caches, SoundCache
      <3>3. CASE c = d BY <1>2, <3>3
      <3> QED BY <2>1, <3>1, <3>2, <3>3
    <2> QED BY <1>1, <1>2, <1>3, <2>1, <2>2, CacheReturnKeeps
  <1>4. ASSUME ~ d.loaded \/ ~ known,
               NEW at \in Reading \ {"load_results", "read_events"},
               call' = [call EXCEPT ![t].run = asked, ![t].at = at],
               at = "pending" => op \in {"get_result", "get_events"} /\ ~ known,
               at = "single" => asked \in Runs /\ op # "list",
               UNCHANGED <<cache, instance, lockVars>>
        PROVE  StoreInv'
    <2> DEFINE k == [call[t] EXCEPT !.run = asked, !.at = at]
    <2>1. asked \in Runs \cup {Absent}
      BY <1>2 DEF BusyCalls, StoreInv, TypeOK
    <2>2. call' = [call EXCEPT ![t] = k]
      BY <1>4 DEF StoreInv, TypeOK
    <2>3. at \in Steps
      BY DEF Steps, Reading
    <2>4. op \in {"get_result", "get_events"} => asked = call[t].run
      OBVIOUS
    <2>5. at = "pending" => d.results[asked] = Absent
      BY <1>4, <2>4 DEF KnownTo
    <2> HIDE DEF asked
    <2>6. k \in BusyCalls /\ k.at = at /\ k.op = op /\ k.run = asked /\ k.recovering = call[t].recovering
      BY <1>2, <2>1, <2>3 DEF BusyCalls
    <2> HIDE DEF k
    <2>7. Cache(t)' = d
      BY <1>4 DEF Cache
    <2> HIDE DEF d
    <2>8. Thread(t)'
      BY <1>1, <1>4, <2>2, <2>4, <2>5, <2>6, <2>7, ReadingGoes DEF Reading
    <2> QED BY <1>1, <1>4, <2>2, <2>6, <2>8, QuietKeeps DEF StepsLock
  <1>5. CASE d.loaded /\ known
    BY <1>3, <1>5 DEF Look
  <1>6. CASE d.loaded /\ ~ known
    <2> DEFINE at == IF op \in {"get_result", "get_events"} THEN "pending" ELSE "single"
    <2>1. call' = [call EXCEPT ![t].run = asked, ![t].at = at] /\ UNCHANGED <<cache, instance, lockVars>>
      BY <1>6 DEF Look
    <2>2. op \in {"get_result", "get_events", "current"} /\ (op = "current" => current # Absent)
      BY <1>6 DEF KnownTo
    <2>3. at = "single" => asked \in Runs /\ op # "list"
      BY <2>2 DEF StoreInv, TypeOK
    <2>4. at \in Reading \ {"load_results", "read_events"}
      BY DEF Reading
    <2> QED BY <1>4, <1>6, <2>1, <2>2, <2>3, <2>4
  <1>7. CASE ~ d.loaded
    <2> DEFINE at == IF op = "list" \/ asked = Absent THEN "load_events" ELSE "single"
    <2>1. call' = [call EXCEPT ![t].run = asked, ![t].at = at] /\ UNCHANGED <<cache, instance, lockVars>>
      BY <1>7 DEF Look
    <2>2. at = "single" => asked \in Runs /\ op # "list"
      BY <1>2 DEF BusyCalls, StoreInv, TypeOK
    <2>3. at \in Reading \ {"load_results", "read_events"} /\ at # "pending"
      BY DEF Reading
    <2> QED BY <1>4, <1>7, <2>1, <2>2, <2>3
  <1> QED BY <1>5, <1>6, <1>7

\* A step of reading that keeps or ends the call.
LEMMA ReadingKeeps ==
  ASSUME StoreInv, NEW t \in Threads, Busy(t), call[t].at \in Reading,
         NEW at \in Reading, Goto(t, at), UNCHANGED <<disk, instance, lockVars, faults>>,
         NEW c \in Caches, SetCache(t, c), SoundCache(c),
         at \in {"pending", "read_events"} => call[t].at = "pending" /\ c = Cache(t),
         at = "single" => call[t].run \in Runs /\ call[t].op # "list",
         at = "load_results" => Whole(c)
  PROVE  StoreInv'
  <1> DEFINE k == [call[t] EXCEPT !.at = at]
  <1>1. at \in Steps
    BY DEF Reading, Steps
  <1>2. k \in BusyCalls /\ call' = [call EXCEPT ![t] = k]
    BY <1>1, Goes
  <1>3. call[t] \in BusyCalls /\ Sensible(call[t]) /\ Knows(t) /\ instance[ProcessOf[t]] = t
        /\ Cache(t)' = c
    BY Reads
  <1>4. k.at = at /\ k.op = call[t].op /\ k.run = call[t].run /\ k.recovering = call[t].recovering
    BY <1>3 DEF BusyCalls
  <1> HIDE DEF k
  <1>5. at \in {"pending", "read_events"} =>
          k.op \in {"get_result", "get_events"} /\ Cache(t)'.results[k.run] = Absent
    BY <1>3, <1>4 DEF Sensible, Knows
  <1>6. Whole(c) => Whole(Cache(t))'
    BY <1>3 DEF Whole
  <1>7. Thread(t)'
    BY <1>2, <1>4, <1>5, <1>6, ReadingGoes
  <1> QED BY <1>2, <1>3, <1>7, CacheCallKeeps DEF StepsLock

LEMMA SameCache ==
  ASSUME StoreInv, NEW t \in Threads, UNCHANGED cache
  PROVE  SetCache(t, Cache(t))
  BY LockAssumption DEF SetCache, Cache, StoreInv, TypeOK

LEMMA PendingKeeps ==
  ASSUME StoreInv, NEW t \in Threads, Pending(t), UNCHANGED faults
  PROVE  StoreInv'
  <1> DEFINE at == IF call[t].op = "get_events" THEN "read_events" ELSE "single"
  <1>1. Busy(t) /\ call[t].at = "pending" /\ UNCHANGED <<disk, cache>>
    BY DEF Pending, At, Busy
  <1>2. Sensible(call[t]) /\ Cache(t) \in Caches /\ SoundCache(Cache(t)) /\ SetCache(t, Cache(t))
    BY <1>1, Reads, SameCache DEF Reading
  <1>3. call[t].op \in {"get_result", "get_events"} /\ call[t].run \in Runs
    BY <1>1, <1>2 DEF Sensible
  <1>4. CASE Return(t)
    BY <1>1, <1>4, ReturnOnlyKeeps DEF StoreInv, TypeOK
  <1>5. CASE Goto(t, at) /\ UNCHANGED <<instance, lockVars>>
    <2>1. at \in Reading /\ at # "pending" /\ at # "load_results"
      BY DEF Reading
    <2>2. PICK c \in Caches : c = Cache(t)
      BY <1>2
    <2> QED BY <1>1, <1>2, <1>3, <1>5, <2>1, <2>2, ReadingKeeps DEF Reading
  <1> QED BY <1>4, <1>5 DEF Pending

LEMMA ReadEventsKeeps ==
  ASSUME StoreInv, NEW t \in Threads, ReadEvents(t), UNCHANGED faults
  PROVE  StoreInv'
  <1> DEFINE r == call[t].run
             d == Cache(t)
  <1>1. Busy(t) /\ call[t].at = "read_events" /\ UNCHANGED disk
    BY DEF ReadEvents, At, Busy
  <1>2. Sensible(call[t]) /\ Knows(t) /\ d \in Caches /\ SoundCache(d) /\ instance[ProcessOf[t]] = t
    BY <1>1, Reads DEF Reading
  <1>3. call[t].op \in {"get_result", "get_events"} /\ r \in Runs /\ d.results[r] = Absent
    BY <1>1, <1>2 DEF Sensible, Knows
  <1>4. events[r] \in Streams /\ (events[r] \in Versions => bundle[r] # Absent)
    BY <1>3 DEF StoreInv, TypeOK, BundleFirst
  <1>5. CASE events[r] # Absent
    <2>1. PICK c : c = [d EXCEPT !.events[r] = events[r]] /\ SetCache(t, c) /\ Return(t)
      BY <1>5 DEF ReadEvents
    <2> HIDE DEF d, r
    <2>2. c \in Caches /\ c.results = d.results /\ c.events = [d.events EXCEPT ![r] = events[r]]
      BY <1>2, <1>3, <1>4, <2>1 DEF Caches
    <2>3. SoundCache(c)
      BY <1>2, <1>3, <1>4, <2>2 DEF Caches, SoundCache
    <2> QED BY <1>1, <1>2, <2>1, <2>2, <2>3, CacheReturnKeeps
  <1>6. CASE events[r] = Absent
    <2>1. Goto(t, "single") /\ UNCHANGED <<cache, instance, lockVars>>
      BY <1>6 DEF ReadEvents
    <2>2. SetCache(t, d) /\ "single" \in Reading
      BY <2>1, SameCache DEF Reading
    <2>3. PICK c \in Caches : c = d
      BY <1>2
    <2> QED BY <1>1, <1>2, <1>3, <2>1, <2>2, <2>3, ReadingKeeps DEF Reading
  <1> QED BY <1>5, <1>6

LEMMA SingleKeeps ==
  ASSUME StoreInv, NEW t \in Threads, Single(t), UNCHANGED faults
  PROVE  StoreInv'
  <1> DEFINE r == call[t].run
             d == Cache(t)
             cached == d.results[r] # Absent /\ d.events[r] # Absent
             v == IF cached THEN d.results[r] ELSE bundle[r]
  <1>1. Busy(t) /\ call[t].at = "single" /\ UNCHANGED disk
    BY DEF Single, At, Busy
  <1>2. Sensible(call[t]) /\ d \in Caches /\ SoundCache(d) /\ instance[ProcessOf[t]] = t
    BY <1>1, Reads DEF Reading
  <1>3. r \in Runs /\ call[t].op # "list" /\ bundle[r] \in Versions \cup {Absent}
    BY <1>1, <1>2 DEF Sensible, StoreInv, TypeOK
  \* The instance knows the publication from now on.
  <1>4. ASSUME v # Absent, Return(t),
               SetCache(t, LET e == IF cached THEN d ELSE Both(d, r, v)
                           IN  IF call[t].op = "current" THEN [e EXCEPT !.current = r] ELSE e)
        PROVE  StoreInv'
    <2>1. PICK e : e = IF cached THEN d ELSE Both(d, r, v)
      OBVIOUS
    <2>2. e \in Caches /\ SoundCache(e)
      <3>1. CASE cached BY <1>2, <2>1, <3>1
      <3>2. CASE ~ cached
        <4>1. bundle[r] \in Versions /\ bundle[r] # Absent /\ e = Both(d, r, bundle[r])
          BY <1>3, <1>4, <2>1, <3>2
        <4> HIDE DEF d, r, cached
        <4>2. e \in Caches /\ e.results = [d.results EXCEPT ![r] = bundle[r]]
              /\ e.events = [d.events EXCEPT ![r] = bundle[r]]
          BY <1>2, <1>3, <4>1 DEF Caches, Both, Streams
        <4> QED BY <1>2, <1>3, <4>1, <4>2 DEF Caches, SoundCache
      <3> QED BY <3>1, <3>2
    <2>3. PICK c : SetCache(t, c) /\ c \in {e, [e EXCEPT !.current = r]}
      BY <1>4, <2>1
    <2> HIDE DEF d, r, cached, v
    <2>4. c \in Caches /\ SoundCache(c)
      BY <1>3, <2>2, <2>3 DEF Caches, SoundCache
    <2> QED BY <1>1, <1>2, <1>4, <2>3, <2>4, CacheReturnKeeps
  <1>5. ASSUME Return(t),
               SetCache(t, IF call[t].op = "current" /\ events[r] # Absent
                             THEN [d EXCEPT !.current = r] ELSE d)
        PROVE  StoreInv'
    <2>1. PICK c : SetCache(t, c) /\ c \in {d, [d EXCEPT !.current = r]}
      BY <1>5
    <2> HIDE DEF d, r
    <2>2. c \in Caches /\ SoundCache(c)
      BY <1>2, <1>3, <2>1 DEF Caches, SoundCache
    <2> QED BY <1>1, <1>2, <1>5, <2>1, <2>2, CacheReturnKeeps
  <1>6. ASSUME Goto(t, "load_events"), UNCHANGED <<cache, instance, lockVars>>
        PROVE  StoreInv'
    <2>1. SetCache(t, d) /\ "load_events" \in Reading
      BY <1>6, SameCache DEF Reading
    <2>2. PICK c \in Caches : c = d
      BY <1>2
    <2> QED BY <1>1, <1>2, <1>6, <2>1, <2>2, ReadingKeeps DEF Reading
  <1> QED BY <1>4, <1>5, <1>6 DEF Single

LEMMA LoadStepKeeps ==
  ASSUME StoreInv, NEW t \in Threads, LoadStep(t), UNCHANGED faults
  PROVE  StoreInv'
  <1> DEFINE d == Cache(t)
  <1>1. ASSUME NEW step \in Reading, At(t, step)
        PROVE  Busy(t) /\ call[t].at = step /\ Knows(t) /\ d \in Caches /\ SoundCache(d)
    BY <1>1, Reads DEF At, Busy
  <1>2. ASSUME Load(t, "load_events", "load_bundles", LoadedEvents(d))
        PROVE  StoreInv'
    <2>1. Busy(t) /\ call[t].at = "load_events" /\ d \in Caches /\ SoundCache(d)
      BY <1>1, <1>2 DEF Load, Reading
    <2>2. PICK c \in Caches : c = LoadedEvents(d) /\ SoundCache(c)
      BY <2>1, LoadTypes, LoadSound
    <2> QED BY <1>2, <2>1, <2>2, ReadingKeeps DEF Load, Reading
  <1>3. ASSUME Load(t, "load_bundles", "load_results", LoadedBundles(d))
        PROVE  StoreInv'
    <2>1. Busy(t) /\ call[t].at = "load_bundles" /\ d \in Caches /\ SoundCache(d)
      BY <1>1, <1>3 DEF Load, Reading
    <2>2. PICK c \in Caches : c = LoadedBundles(d) /\ SoundCache(c) /\ Whole(c)
      BY <2>1, LoadTypes, LoadSound
    <2> QED BY <1>3, <2>1, <2>2, ReadingKeeps DEF Load, Reading
  <1>4. ASSUME ~ ResultsRefused(d), Load(t, "load_results", "load_current", LoadedResults(d))
        PROVE  StoreInv'
    <2>1. Busy(t) /\ call[t].at = "load_results" /\ d \in Caches /\ SoundCache(d) /\ Whole(d)
      BY <1>1, <1>4 DEF Load, Reading, Knows, Whole
    <2>2. PICK c \in Caches : c = LoadedResults(d) /\ SoundCache(c)
      BY <1>4, <2>1, LoadTypes, LoadSound
    <2> QED BY <1>4, <2>1, <2>2, ReadingKeeps DEF Load, Reading
  <1>5. ASSUME Load(t, "load_current", "look", LoadedCurrent(d))
        PROVE  StoreInv'
    <2>1. Busy(t) /\ call[t].at = "load_current" /\ d \in Caches /\ SoundCache(d)
      BY <1>1, <1>5 DEF Load, Reading
    <2>2. PICK c \in Caches : c = LoadedCurrent(d) /\ SoundCache(c)
      BY <2>1, LoadTypes, LoadSound
    <2> QED BY <1>5, <2>1, <2>2, ReadingKeeps DEF Load, Reading
  <1>6. ASSUME NEW step, NEW refused, Refuse(t, step, refused) PROVE StoreInv'
    BY <1>6, ReturnOnlyKeeps DEF Refuse, StoreInv, TypeOK
  <1> QED BY <1>2, <1>3, <1>4, <1>5, <1>6 DEF LoadStep

-----------------------------------------------------------------------------
(* Failures and deaths                                                       *)

LEMMA RaiseKeeps ==
  ASSUME StoreInv, NEW t \in Threads, Raise(t)
  PROVE  StoreInv'
  <1>1. faults' \in 0 .. MaxFaults
    BY StoreAssumption DEF Raise, StoreInv, TypeOK
  <1> QED BY <1>1, ReturnOnlyKeeps DEF Raise

LEMMA DieKeeps ==
  ASSUME StoreInv, NEW p \in Processes, Die(p)
  PROVE  StoreInv'
  <1>1. faults' \in 0 .. MaxFaults /\ UNCHANGED disk
    BY StoreAssumption DEF Die, StoreInv, TypeOK
  <1>2. LockInv'
    BY FreedKept DEF Die, StoreInv
  <1>3. cache' = [cache EXCEPT ![p] = EmptyCache] /\ instance' = [instance EXCEPT ![p] = NoThread]
        /\ call' = [t \in Threads |-> IF ProcessOf[t] = p THEN Idle ELSE call[t]]
    BY DEF Die
  <1>4. cache' \in [Processes -> Caches] /\ \A q \in Processes : SoundCache(cache[q])'
    <2>1. cache \in [Processes -> Caches]
      BY DEF StoreInv, TypeOK, Caches
    <2>2. cache' \in [Processes -> Caches]
      BY <1>3, <2>1, EmptySound
    <2>3. \A q \in Processes : cache'[q] = IF q = p THEN EmptyCache ELSE cache[q]
      BY <1>3, <2>1
    <2> QED BY <1>1, <2>2, <2>3, EmptySound DEF StoreInv, SoundCache, disk
  <1>5. TypeOK'
    BY <1>1, <1>2, <1>3, <1>4 DEF StoreInv, TypeOK, LockInv, Calls, Caches, disk
  <1>6. BundleFirst'
    BY <1>1 DEF StoreInv, BundleFirst, disk
  <1>7. ASSUME NEW t \in Threads PROVE Thread(t)'
    <2>1. CASE ProcessOf[t] = p
      BY <1>3, <2>1 DEF Thread, Busy
    <2>2. CASE ProcessOf[t] # p
      <3>1. call'[t] = call[t] /\ instance'[ProcessOf[t]] = instance[ProcessOf[t]]
            /\ cache'[ProcessOf[t]] = cache[ProcessOf[t]]
        BY <1>3, <2>2, LockAssumption DEF StoreInv, TypeOK
      <3>2. depth'[ProcessOf[t]] = depth[ProcessOf[t]] /\ (Inside(t)' <=> Inside(t))
        BY <2>2, LockAssumption DEF Die, Freed, Inside, StoreInv, LockInv, LockTypeOK
      <3>3. Thread(t)
        BY DEF StoreInv
      <3> QED BY <1>1, <3>1, <3>2, <3>3 DEF Thread, Busy, Holds, Files, Knows, Cache, disk
    <2> QED BY <2>1, <2>2
  <1> QED BY <1>2, <1>4, <1>5, <1>6, <1>7 DEF StoreInv

-----------------------------------------------------------------------------
(* Theorems                                                                  *)

LEMMA StoreNext == StoreInv /\ [Next]_vars => StoreInv'
  <1> SUFFICES ASSUME StoreInv, [Next]_vars PROVE StoreInv'
    OBVIOUS
  <1>1. ASSUME NEW t \in Threads, Step(t), UNCHANGED faults
        PROVE  StoreInv'
    BY <1>1, GateKeeps, FlockKeeps, InstanceKeeps, ReleaseKeeps, WriteFileKeeps, ReloadKeeps,
       FinishKeeps, UnstageKeeps, LookKeeps, PendingKeeps, ReadEventsKeeps, SingleKeeps,
       LoadStepKeeps DEF Step
  <1>2. CASE UNCHANGED vars
    <2>1. UNCHANGED <<bundle, result, events, staged, current, intent, cache, instance, call,
                      faults, gate, depth, flock>>
      BY <1>2 DEF vars, disk, lockVars
    <2> QED BY <2>1 DEF StoreInv, TypeOK, LockInv, LockTypeOK, BundleFirst, SoundCache, Thread, Busy,
               Holds, Files, Knows, Cache, Inside
  <1> QED BY <1>1, <1>2, BeginKeeps, RaiseKeeps, DieKeeps DEF Next

\* The invariant of every execution: what each call holds, which files a put
\* has written, and what the instances know.
THEOREM StoreInvariant == Spec => []StoreInv
  BY StoreInitially, StoreNext, PTL DEF Spec

\* Files, caches, locks and calls keep their types.
THEOREM StoreTypes == Spec => []TypeOK
  <1>1. StoreInv => TypeOK
    BY DEF StoreInv
  <1> QED BY <1>1, StoreInvariant, PTL

\* However threads nest the lock, raise and die, one body runs at a time.
THEOREM WritersExcludeEachOther == Spec => []MutualExclusion
  <1>1. StoreInv => MutualExclusion
    BY LockExcludes DEF StoreInv
  <1> QED BY <1>1, StoreInvariant, PTL

\* No instance pairs a result with the events of another publication, though
\* readers read the files one by one and without the write lock.
THEOREM CachesAreWhole == Spec => []CachedPairIsOnePublication
  <1>1. StoreInv => CachedPairIsOnePublication
    BY DEF StoreInv, SoundCache, CachedPairIsOnePublication
  <1> QED BY <1>1, StoreInvariant, PTL

\* Only a writer changes files.
LEMMA DiskSteps ==
  ASSUME Next
  PROVE  UNCHANGED disk \/ \E t \in Threads : WriteFile(t) \/ Unstage(t)
  <1>1. ASSUME NEW t \in Threads, Begin(t) PROVE UNCHANGED disk
    BY <1>1 DEF Begin, BeginWrite, BeginRead
  <1>2. ASSUME NEW t \in Threads, Step(t) PROVE UNCHANGED disk \/ WriteFile(t) \/ Unstage(t)
    <2>1. LoadStep(t) => UNCHANGED disk
      BY DEF LoadStep, Load, Refuse
    <2>2. Gate(t) \/ Flock(t) \/ Instance(t) \/ Release(t) => UNCHANGED disk
      BY DEF Gate, Flock, Instance, Release
    <2>3. Reload(t) \/ Finish(t) => UNCHANGED disk
      BY DEF Reload, Finish
    <2>4. Look(t) => UNCHANGED disk
      BY DEF Look
    <2>5. Pending(t) \/ ReadEvents(t) \/ Single(t) => UNCHANGED disk
      BY DEF Pending, ReadEvents, Single
    <2> QED BY <1>2, <2>1, <2>2, <2>3, <2>4, <2>5 DEF Step
  <1> QED BY <1>1, <1>2 DEF Next, Raise, Die

\* An append extends the stream on disk: nobody else writes while it is on its way.
THEOREM AppendsExtend == Spec => AppendExtendsDurableStream
  <1> DEFINE A(t) == At(t, "stream") /\ call[t].op = "append" =>
               \A r \in Runs : events'[r] # events[r] =>
                 /\ events[r] \notin Versions
                 /\ events'[r] = IF events[r] = Absent THEN 1 ELSE events[r] + 1
  <1>1. ASSUME StoreInv, [Next]_vars, NEW t \in Threads PROVE A(t)
    <2> SUFFICES ASSUME At(t, "stream"), call[t].op = "append", events' # events
                 PROVE  \A r \in Runs : events'[r] # events[r] =>
                          /\ events[r] \notin Versions
                          /\ events'[r] = IF events[r] = Absent THEN 1 ELSE events[r] + 1
      OBVIOUS
    <2>1. PICK u \in Threads : Events(u) \/ Stream(u)
      <3>1. Next
        BY <1>1 DEF vars, disk
      <3>2. PICK u \in Threads : WriteFile(u) \/ Unstage(u)
        BY <3>1, DiskSteps DEF disk
      <3> QED BY <3>2 DEF WriteFile, Unstage, Intent, Bundle, Result, Current, Unlink, Stage, Point
    <2>2. call[u].at \in {"events", "stream"} /\ Busy(u)
      BY <2>1 DEF Events, Stream, At, Busy
    <2>3. Inside(u) /\ Inside(t)
      BY <1>1, <2>2 DEF StoreInv, Thread, Holds, Locked, Putting, Recovered, Busy, At
    <2>4. u = t
      BY <1>1, <2>3, LockExcludes DEF StoreInv, MutualExclusion
    <2>5. Stream(t)
      BY <2>1, <2>4 DEF Events, At
    <2>6. PICK n \in 1 .. MaxPartial :
            /\ events' = [events EXCEPT ![call[t].run] = n]
            /\ n = IF events[call[t].run] = Absent THEN 1 ELSE events[call[t].run] + 1
      BY <1>1, <2>5, StreamValue
    <2>7. events[call[t].run] \notin Versions /\ call[t].run \in Runs
      BY <1>1, <2>5, StreamValue
    <2> QED BY <1>1, <2>6, <2>7 DEF StoreInv, TypeOK
  <1>2. StoreInv /\ [Next]_vars => [\A t \in Threads : A(t)]_vars
    BY <1>1
  <1>3. Spec => [][\A t \in Threads : A(t)]_vars
    BY <1>2, StoreInvariant, PTL DEF Spec
  <1> QED BY <1>3 DEF AppendExtendsDurableStream

-----------------------------------------------------------------------------
(* The files implement the atomic store                                      *)

Published == [r \in Runs |-> Completed(r)]
PartialOf == [r \in Runs |->
  IF Completed(r) = Absent /\ IsPartial(events[r]) THEN events[r] ELSE 0]
CurrentOf == IF intent # Absent THEN intent.run ELSE current

StoreStep == [Store!Next]_<<Published, PartialOf, CurrentOf>>

LEMMA PartialEvents ==
  ASSUME StoreInv, NEW r \in Runs
  PROVE  IsPartial(events[r]) => events[r] \in 1 .. MaxPartial
  BY DEF StoreInv, TypeOK, Streams, IsPartial

\* What files have to do with it, while no put is announced and while one is.
LEMMA Unannounces ==
  ASSUME intent = Absent
  PROVE  /\ \A r \in Runs : Completed(r) = bundle[r]
         /\ CurrentOf = current
  BY DEF Completed, CurrentOf

LEMMA Announces ==
  ASSUME intent # Absent
  PROVE  /\ \A r \in Runs : Completed(r) = IF r = intent.run THEN intent.version ELSE bundle[r]
         /\ CurrentOf = intent.run
  BY DEF Completed, CurrentOf

\* A file of an announced put makes no difference.
LEMMA PutFiles ==
  ASSUME StoreInv, NEW t \in Threads, Bundle(t) \/ Result(t) \/ Events(t) \/ Current(t)
  PROVE  UNCHANGED <<Published, PartialOf, CurrentOf>>
  <1>1. Busy(t) /\ call[t].at \in Putting
    BY DEF Bundle, Result, Events, Current, At, Busy, Putting
  <1>2. Publication(t) = intent /\ intent # Absent /\ intent.version # Absent /\ intent.run \in Runs
    BY <1>1, PublicationType
  <1>3. UNCHANGED intent
        /\ \A r \in Runs : r # intent.run => bundle'[r] = bundle[r] /\ events'[r] = events[r]
    BY <1>2 DEF Bundle, Result, Events, Current, StoreInv, TypeOK
  <1>4. \A r \in Runs : Completed(r)' = Completed(r)
    BY <1>2, <1>3, Announces DEF Completed
  <1>5. \A r \in Runs : r = intent.run => Completed(r) # Absent
    BY <1>2, Announces
  <1>6. UNCHANGED Published
    BY <1>4 DEF Published
  <1>7. UNCHANGED CurrentOf
    BY <1>2, <1>3 DEF CurrentOf
  <1>8. \A r \in Runs :
          (IF Completed(r) = Absent /\ IsPartial(events[r]) THEN events[r] ELSE 0)'
          = IF Completed(r) = Absent /\ IsPartial(events[r]) THEN events[r] ELSE 0
    BY <1>3, <1>4, <1>5 DEF IsPartial
  <1>9. UNCHANGED PartialOf
    BY <1>8 DEF PartialOf
  <1> QED BY <1>6, <1>7, <1>9

LEMMA UnlinkFile ==
  ASSUME StoreInv, NEW t \in Threads, Unlink(t)
  PROVE  UNCHANGED <<Published, PartialOf, CurrentOf>>
  <1>1. Busy(t) /\ call[t].at = "unlink" /\ "unlink" \in Steps
    BY DEF Unlink, At, Busy, Steps
  <1>2. intent # Absent /\ bundle[intent.run] = intent.version /\ current = intent.run
    BY <1>1, Goes DEF Files, Putting
  <1>3. intent' = Absent /\ UNCHANGED <<bundle, events, current>>
    BY DEF Unlink
  <1>4. \A r \in Runs : Completed(r)' = Completed(r)
    BY <1>2, <1>3, Announces DEF Completed
  <1> QED BY <1>2, <1>3, <1>4 DEF Published, PartialOf, CurrentOf, IsPartial

LEMMA SameFiles ==
  ASSUME UNCHANGED <<bundle, events, current, intent>>
  PROVE  UNCHANGED <<Published, PartialOf, CurrentOf>>
  BY DEF Published, PartialOf, CurrentOf, Completed, IsPartial

\* The announcement is the publication.
LEMMA IntentPublishes ==
  ASSUME StoreInv, NEW t \in Threads, Intent(t)
  PROVE  Store!Next
  <1> DEFINE p == Publication(t)
  <1>1. Busy(t) /\ call[t].at = "intent" /\ "intent" \in Steps
    BY DEF Intent, At, Busy, Steps
  <1>2. p \in Puts /\ p.run \in Runs /\ p.version \in Versions /\ p # Absent /\ p.version # Absent
    BY <1>1, PublicationType, StoreAssumption DEF Puts
  <1>3. intent = Absent /\ intent' = p /\ UNCHANGED <<bundle, events, current>>
    BY <1>1, Goes DEF Files, Recovered, Intent
  <1> HIDE DEF p
  <1>4. \A r \in Runs : Completed(r) = bundle[r]
                        /\ Completed(r)' = IF r = p.run THEN p.version ELSE bundle[r]
    BY <1>2, <1>3 DEF Completed
  <1>5. Published' = [Published EXCEPT ![p.run] = p.version]
    BY <1>2, <1>4 DEF Published
  <1>6. PartialOf' = [PartialOf EXCEPT ![p.run] = 0]
    BY <1>2, <1>3, <1>4 DEF PartialOf, IsPartial
  <1>7. CurrentOf' = p.run
    BY <1>2, <1>3 DEF CurrentOf
  <1>8. PICK r \in Runs, v \in Versions : r = p.run /\ v = p.version
    BY <1>2
  <1>9. Store!Publish(r, v)
    BY <1>5, <1>6, <1>7, <1>8 DEF Store!Publish, Published, PartialOf, CurrentOf
  <1> QED BY <1>9 DEF Store!Next

LEMMA StreamReplaces ==
  ASSUME StoreInv, NEW t \in Threads, Stream(t)
  PROVE  Store!Next
  <1> DEFINE r == call[t].run
  <1>1. r \in Runs /\ bundle[r] = Absent /\ intent = Absent
    BY StreamValue
  <1>2. PICK n \in 1 .. MaxPartial : events' = [events EXCEPT ![r] = n]
    BY StreamValue
  <1>3. UNCHANGED <<bundle, current, intent>>
    BY DEF Stream
  <1> HIDE DEF r
  <1>4. IsPartial(n) /\ n > 0
    BY StoreAssumption DEF IsPartial
  <1>5. \A s \in Runs : Completed(s) = bundle[s] /\ Completed(s)' = bundle[s]
    BY <1>1, <1>3 DEF Completed
  <1>6. events'[r] = n /\ \A s \in Runs : s # r => events'[s] = events[s]
    BY <1>1, <1>2 DEF StoreInv, TypeOK
  <1>7. PartialOf' = [PartialOf EXCEPT ![r] = n]
    <2>1. \A s \in Runs : PartialOf'[s] = IF s = r THEN n ELSE PartialOf[s]
      BY <1>1, <1>3, <1>4, <1>5, <1>6 DEF PartialOf, IsPartial
    <2> QED BY <1>1, <2>1 DEF PartialOf
  <1>8. PartialOf'[r] = n
    BY <1>1, <1>7 DEF PartialOf
  <1>9. UNCHANGED <<Published, CurrentOf>> /\ Published[r] = Absent
    BY <1>1, <1>3, <1>5 DEF Published, CurrentOf
  <1>10. PICK s \in Runs : s = r
    BY <1>1
  <1>11. Store!ReplaceEvents(s)
    BY <1>4, <1>7, <1>8, <1>9, <1>10 DEF Store!ReplaceEvents, Published, PartialOf, CurrentOf
  <1> QED BY <1>11 DEF Store!Next

LEMMA PointPoints ==
  ASSUME StoreInv, NEW t \in Threads, Point(t)
  PROVE  Store!Next
  <1> DEFINE r == call[t].run
  <1>1. Busy(t) /\ call[t].at = "point" /\ "point" \in Steps
    BY DEF Point, At, Busy, Steps
  <1>2. Sensible(call[t]) /\ Files(t)
    BY <1>1, Goes
  <1>3. r \in Runs /\ bundle[r] = Absent /\ intent = Absent /\ IsPartial(events[r])
    BY <1>1, <1>2 DEF Sensible, Files, Recovered
  <1>4. current' = r /\ UNCHANGED <<bundle, events, intent>>
    BY DEF Point
  <1> HIDE DEF r
  <1>5. \A s \in Runs : Completed(s) = bundle[s] /\ Completed(s)' = bundle[s]
    BY <1>3, <1>4 DEF Completed
  <1>6. UNCHANGED <<Published, PartialOf>> /\ Published[r] = Absent
    BY <1>3, <1>4, <1>5 DEF Published, PartialOf, IsPartial
  <1>7. PartialOf[r] > 0
    <2>1. PartialOf[r] = events[r] /\ events[r] \in 1 .. MaxPartial
      BY <1>3, <1>5, PartialEvents DEF PartialOf
    <2> QED BY <2>1, StoreAssumption
  <1>8. CurrentOf' = r
    BY <1>3, <1>4 DEF CurrentOf
  <1>9. PICK s \in Runs : s = r
    BY <1>3
  <1>10. Store!PointAt(s)
    BY <1>6, <1>7, <1>8, <1>9 DEF Store!PointAt, Published, PartialOf, CurrentOf
  <1> QED BY <1>10 DEF Store!Next

\* A put takes effect at its announcement and for good; the deaths that cut it
\* short and the recoveries that complete it do not show.
THEOREM ImplementsStore == Spec => ImplementsAtomicStore
  <1>1. Init => Store!Init
    BY DEF Init, Store!Init, Completed, IsPartial
  <1>2. StoreInv /\ [Next]_vars => StoreStep
    <2> SUFFICES ASSUME StoreInv, [Next]_vars PROVE StoreStep
      OBVIOUS
    <2>1. CASE UNCHANGED disk
      BY <2>1, SameFiles DEF StoreStep, disk
    <2>2. ASSUME NEW t \in Threads, WriteFile(t) \/ Unstage(t) PROVE StoreStep
      <3>1. Stage(t) \/ Unstage(t) => UNCHANGED <<Published, PartialOf, CurrentOf>>
        BY SameFiles DEF Stage, Unstage
      <3> QED BY <2>2, <3>1, PutFiles, UnlinkFile, IntentPublishes, StreamReplaces, PointPoints
              DEF WriteFile, StoreStep
    <2> QED BY <2>1, <2>2, DiskSteps DEF vars, disk
  <1>3. StoreStep => [Store!Next]_<<[r \in Runs |-> Completed(r)],
                        [r \in Runs |-> IF Completed(r) = Absent /\ IsPartial(events[r])
                                          THEN events[r] ELSE 0],
                        IF intent # Absent THEN intent.run ELSE current>>
    BY DEF StoreStep, Published, PartialOf, CurrentOf
  <1> QED BY <1>1, <1>2, <1>3, StoreInvariant, PTL DEF Spec, ImplementsAtomicStore, Store!Spec

=============================================================================
