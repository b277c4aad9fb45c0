------------------------------- MODULE RunStore -------------------------------
(***************************************************************************)
(* The result store: the files of a state root, the instances that cache   *)
(* them in each process, and the readers and writers that interleave.      *)
(*                                                                         *)
(* A writer holds the state write lock and the lock of its instance,       *)
(* completes the put that an intent file announces, reloads its cache and  *)
(* then writes file by file; each file is replaced atomically.  Readers    *)
(* hold the lock of their instance only.  A write may raise, and a         *)
(* process may die, between any two files.                                 *)
(*                                                                         *)
(* A publication of a run is its version: a result with the event stream   *)
(* that ends in completion.  A partial stream is its length.  Reading the  *)
(* files of a directory is one step: what is loaded of a run depends on    *)
(* that run's files alone.                                                 *)
(***************************************************************************)
EXTENDS WriteLock

WriterOps == {"put", "stage", "publish", "put_events", "append"}
ReaderOps == {"get_result", "get_events", "current", "list"}

CONSTANTS
  Runs,
  Versions,     \* publications of a run
  Absent,       \* no file, no cached value
  Operations,   \* bound on the operations each thread calls
  MaxPartial,   \* bound on the length of partial streams
  MaxFaults     \* bound on writes that raise and processes that die

ASSUME StoreAssumption ==
  /\ Operations \in [Threads -> SUBSET (WriterOps \cup ReaderOps)]
  /\ Absent \notin Runs \cup Versions \cup [run : Runs, version : Versions]
  /\ Versions \cap Nat = {} /\ Absent \notin Nat
  /\ MaxPartial \in Nat \ {0} /\ MaxFaults \in Nat

VARIABLES
  bundle,       \* bundles/<run>.json
  result,       \* results/<run>.json
  events,       \* events/<run>.json
  staged,       \* staged/<run>.json
  current,      \* current.json
  intent,       \* direct-put.json
  cache,        \* the RunStore instance of each process
  instance,     \* the thread that holds the lock of each instance
  call,         \* the operation each thread is in
  faults

disk == <<bundle, result, events, staged, current, intent>>
vars == <<disk, cache, instance, call, faults, lockVars>>

Streams == Versions \cup 1 .. MaxPartial \cup {Absent}
Puts == [run : Runs, version : Versions]
IsPartial(stream) == stream \notin Versions \cup {Absent}

EmptyCache ==
  [loaded |-> FALSE, results |-> [r \in Runs |-> Absent], events |-> [r \in Runs |-> Absent],
   staged |-> [r \in Runs |-> Absent], current |-> Absent]

Idle == [op |-> "idle"]

Steps ==
  {"gate", "flock", "instance", "intent", "bundle", "result", "events", "current", "unlink",
   "release", "reload", "stage", "stream", "point", "finish", "unstage",
   "look", "single", "pending", "read_events",
   "load_events", "load_bundles", "load_results", "load_current"}

Calls ==
  {Idle} \cup
  [op : WriterOps \cup ReaderOps, run : Runs \cup {Absent}, version : Versions \cup {Absent},
   at : Steps, recovering : BOOLEAN]

\* The lock, the files, the intent and what every process holds in memory keep their
\* types.
TypeOK ==
  /\ LockTypeOK
  /\ bundle \in [Runs -> Versions \cup {Absent}]
  /\ result \in [Runs -> Versions \cup {Absent}]
  /\ events \in [Runs -> Streams]
  /\ staged \in [Runs -> Versions \cup {Absent}]
  /\ current \in Runs \cup {Absent}
  /\ intent \in Puts \cup {Absent}
  /\ cache \in [Processes ->
       [loaded : BOOLEAN, results : [Runs -> Versions \cup {Absent}], events : [Runs -> Streams],
        staged : [Runs -> Versions \cup {Absent}], current : Runs \cup {Absent}]]
  /\ instance \in [Processes -> Threads \cup {NoThread}]
  /\ call \in [Threads -> Calls]
  /\ faults \in 0 .. MaxFaults

Init ==
  /\ LockInit
  /\ bundle = [r \in Runs |-> Absent] /\ result = [r \in Runs |-> Absent]
  /\ events = [r \in Runs |-> Absent] /\ staged = [r \in Runs |-> Absent]
  /\ current = Absent /\ intent = Absent
  /\ cache = [p \in Processes |-> EmptyCache]
  /\ instance = [p \in Processes |-> NoThread]
  /\ call = [t \in Threads |-> Idle]
  /\ faults = 0

-----------------------------------------------------------------------------
(* Calls                                                                     *)

Cache(t) == cache[ProcessOf[t]]
At(t, step) == call[t] # Idle /\ call[t].at = step
Goto(t, step) == call' = [call EXCEPT ![t].at = step]
SetCache(t, c) == cache' = [cache EXCEPT ![ProcessOf[t]] = c]

\* The call of t returns or raises, and the locks it holds are released.
Return(t) ==
  /\ call' = [call EXCEPT ![t] = Idle]
  /\ instance' = [p \in Processes |-> IF instance[p] = t THEN NoThread ELSE instance[p]]
  /\ IF gate[ProcessOf[t]] = t THEN Freed(ProcessOf[t]) ELSE UNCHANGED lockVars

\* The publication that t writes: its own, or the one it recovers.
Publication(t) ==
  IF call[t].recovering THEN intent ELSE [run |-> call[t].run, version |-> call[t].version]

NewCall(op, r, v, at) ==
  [op |-> op, run |-> r, version |-> v, at |-> at, recovering |-> FALSE]

BeginWrite(t, op, r, v) ==
  /\ call[t] = Idle
  /\ (v = Absent) <=> (op \notin {"put", "stage"})
  /\ call' = [call EXCEPT ![t] = NewCall(op, r, v, "gate")]
  /\ UNCHANGED <<disk, cache, instance, lockVars>>

\* _recover_before_initial_read: the locks are taken when a put is pending.
BeginRead(t, op, r) ==
  /\ call[t] = Idle
  /\ (r = Absent) <=> (op \in {"current", "list"})
  /\ call' = [call EXCEPT ![t] =
       NewCall(op, r, Absent,
               IF ~ Cache(t).loaded /\ intent # Absent THEN "gate" ELSE "instance")]
  /\ UNCHANGED <<disk, cache, instance, lockVars>>

Gate(t) ==
  /\ At(t, "gate")
  /\ TakeGate(t)
  /\ Goto(t, "flock")
  /\ UNCHANGED <<disk, cache, instance>>

Flock(t) ==
  /\ At(t, "flock")
  /\ TakeFlock(t)
  /\ Goto(t, "instance")
  /\ UNCHANGED <<disk, cache, instance>>

\* With the instance's lock, a writer recovers before it reloads; a reader
\* that came for the recovery looks again whether it is needed.
Instance(t) ==
  LET writes == call[t].op \in WriterOps
      recover == Inside(t) /\ intent # Absent /\ (writes \/ ~ Cache(t).loaded)
  IN  /\ At(t, "instance")
      /\ instance[ProcessOf[t]] = NoThread
      /\ instance' = [instance EXCEPT ![ProcessOf[t]] = t]
      /\ call' = [call EXCEPT
           ![t].recovering = recover,
           ![t].at = CASE recover -> "bundle"
                       [] ~ recover /\ writes -> "reload"
                       [] ~ recover /\ ~ writes -> IF Inside(t) THEN "release" ELSE "look"]
      /\ UNCHANGED <<disk, cache, lockVars>>

\* A reader leaves the locks of the recovery and starts to read.
Release(t) ==
  /\ At(t, "release")
  /\ Exit(t)
  /\ instance' = [instance EXCEPT ![ProcessOf[t]] = NoThread]
  /\ Goto(t, "instance")
  /\ UNCHANGED <<disk, cache>>

-----------------------------------------------------------------------------
(* Files                                                                     *)

\* Variant with a fault: the put is not announced.
Unannounced(t) ==
  /\ At(t, "intent")
  /\ Goto(t, "bundle")
  /\ UNCHANGED disk

Intent(t) ==
  /\ At(t, "intent")
  /\ intent' = Publication(t)
  /\ Goto(t, "bundle")
  /\ UNCHANGED <<bundle, result, events, staged, current>>

Bundle(t) ==
  /\ At(t, "bundle")
  /\ bundle' = [bundle EXCEPT ![Publication(t).run] = Publication(t).version]
  /\ Goto(t, "result")
  /\ UNCHANGED <<result, events, staged, current, intent>>

Result(t) ==
  /\ At(t, "result")
  /\ result' = [result EXCEPT ![Publication(t).run] = Publication(t).version]
  /\ Goto(t, "events")
  /\ UNCHANGED <<bundle, events, staged, current, intent>>

Events(t) ==
  /\ At(t, "events")
  /\ events' = [events EXCEPT ![Publication(t).run] = Publication(t).version]
  /\ Goto(t, "current")
  /\ UNCHANGED <<bundle, result, staged, current, intent>>

Current(t) ==
  /\ At(t, "current")
  /\ current' = Publication(t).run
  /\ Goto(t, "unlink")
  /\ UNCHANGED <<bundle, result, events, staged, intent>>

Unlink(t) ==
  /\ At(t, "unlink")
  /\ intent' = Absent
  /\ call' = [call EXCEPT
       ![t].recovering = FALSE,
       ![t].at = IF ~ call[t].recovering THEN "finish"
                 ELSE IF call[t].op \in WriterOps THEN "reload" ELSE "release"]
  /\ UNCHANGED <<bundle, result, events, staged, current>>

Stage(t) ==
  /\ At(t, "stage")
  /\ staged' = [staged EXCEPT ![call[t].run] = call[t].version]
  /\ Goto(t, "finish")
  /\ UNCHANGED <<bundle, result, events, current, intent>>

\* put_events replaces the stream by any other; one event stands for them.
Stream(t) ==
  LET r == call[t].run
      known == Cache(t).events[r]
  IN  /\ At(t, "stream")
      /\ events' = [events EXCEPT ![r] =
           IF call[t].op = "put_events" \/ known = Absent THEN 1 ELSE known + 1]
      /\ Goto(t, "point")
      /\ UNCHANGED <<bundle, result, staged, current, intent>>

Point(t) ==
  /\ At(t, "point")
  /\ current' = call[t].run
  /\ Goto(t, "finish")
  /\ UNCHANGED <<bundle, result, events, staged, intent>>

WriteFile(t) ==
  /\ \/ Intent(t) \/ Bundle(t) \/ Result(t) \/ Events(t) \/ Current(t) \/ Unlink(t)
     \/ Stage(t) \/ Stream(t) \/ Point(t)
  /\ UNCHANGED <<cache, instance, lockVars>>

-----------------------------------------------------------------------------
(* Loading: each function is the cache after the files of one directory      *)

LoadedEvents(c) ==
  [c EXCEPT !.events = [r \in Runs |-> IF @[r] # Absent THEN @[r] ELSE events[r]]]

LoadedBundles(c) ==
  [c EXCEPT !.results = [r \in Runs |-> IF bundle[r] # Absent THEN bundle[r] ELSE @[r]],
            !.events = [r \in Runs |-> IF bundle[r] # Absent THEN bundle[r] ELSE @[r]]]

\* A result counts only with its events, which must be those of a completion.
ResultsRefused(c) ==
  \E r \in Runs : result[r] # Absent /\ IsPartial(c.events[r])

LoadedResults(c) ==
  [c EXCEPT !.results = [r \in Runs |->
     IF @[r] = Absent /\ c.events[r] # Absent THEN result[r] ELSE @[r]]]

CurrentRefused(c) ==
  current # Absent /\ c.results[current] = Absent /\ c.events[current] = Absent

LoadedCurrent(c) == [c EXCEPT !.current = current, !.loaded = TRUE]

Loaded(c) == LoadedCurrent(LoadedResults(LoadedBundles(LoadedEvents(c))))

\* Bound: nothing is appended to a stream of MaxPartial events.
Full(stream) == IsPartial(stream) /\ stream >= MaxPartial

\* Variant with a fault: a loaded instance is not refreshed.
RefreshedOnce(t) == IF Cache(t).loaded THEN Cache(t) ELSE Loaded(Cache(t))
Refreshed(t) == Loaded(EmptyCache)

\* _refresh_before_mutation.  No file changes meanwhile, and a recovered
\* store holds nothing that a load refuses.
Reload(t) ==
  LET c == Refreshed(t)
      k == call[t]
      refused == \/ c.results[k.run] # Absent \/ staged[k.run] # Absent
                 \/ k.op = "append" /\ Full(c.events[k.run])
  IN  /\ At(t, "reload")
      /\ SetCache(t, c)
      /\ CASE k.op = "put" -> Goto(t, "intent") /\ UNCHANGED <<instance, lockVars>>
           [] k.op = "stage" -> Goto(t, "stage") /\ UNCHANGED <<instance, lockVars>>
           [] k.op = "publish" /\ staged[k.run] # Absent ->
                /\ call' = [call EXCEPT ![t].version = staged[k.run], ![t].at = "intent"]
                /\ Reenter(t)
                /\ UNCHANGED instance
           [] k.op \in {"put_events", "append"} /\ ~ refused ->
                Goto(t, "stream") /\ UNCHANGED <<instance, lockVars>>
           [] OTHER -> Return(t)
      /\ UNCHANGED disk

\* The cache is updated after the files; publish_staged is back from put.
Finish(t) ==
  LET k == call[t]
      c == Cache(t)
  IN  /\ At(t, "finish")
      /\ SetCache(t,
           CASE k.op \in {"put", "publish"} ->
                  [c EXCEPT !.results[k.run] = k.version, !.events[k.run] = k.version,
                            !.current = k.run]
             [] k.op = "stage" -> [c EXCEPT !.staged[k.run] = k.version]
             [] k.op \in {"put_events", "append"} ->
                  [c EXCEPT !.events[k.run] = events[k.run], !.current = k.run])
      /\ IF k.op = "publish"
           THEN Exit(t) /\ Goto(t, "unstage") /\ UNCHANGED instance
           ELSE Return(t)
      /\ UNCHANGED disk

\* The staged file may fail to go away; that is not an error.
Unstage(t) ==
  /\ At(t, "unstage")
  /\ staged' \in {staged, [staged EXCEPT ![call[t].run] = Absent]}
  /\ SetCache(t, [Cache(t) EXCEPT !.staged[call[t].run] = Absent])
  /\ Return(t)
  /\ UNCHANGED <<bundle, result, events, current, intent>>

-----------------------------------------------------------------------------
(* Reading                                                                   *)

Both(c, r, v) == [c EXCEPT !.results[r] = v, !.events[r] = v]

\* Variant with a fault: the stream is read though the result is known.
KnownToResults(c, k) ==
  CASE k.op = "get_result" -> c.results[k.run] # Absent
    [] k.op = "get_events" -> FALSE
    [] k.op = "current" -> intent # Absent \/ current = Absent
    [] OTHER -> TRUE

KnownTo(c, k) ==
  CASE k.op \in {"get_result", "get_events"} -> c.results[k.run] # Absent
    [] k.op = "current" -> intent # Absent \/ current = Absent
    [] OTHER -> TRUE

\* What the instance knows is answered; otherwise files are read.
Look(t) ==
  LET c == Cache(t)
      k == call[t]
      asked == IF k.op = "current" THEN current ELSE k.run
      known == KnownTo(c, k)
  IN  /\ At(t, "look")
      /\ \/ /\ c.loaded /\ known
            /\ SetCache(t, CASE k.op = "list" -> LoadedBundles(c)
                             [] k.op = "current" /\ intent = Absent -> [c EXCEPT !.current = Absent]
                             [] OTHER -> c)
            /\ Return(t)
         \/ /\ c.loaded /\ ~ known
            /\ call' = [call EXCEPT ![t].run = asked,
                 ![t].at = IF k.op \in {"get_result", "get_events"} THEN "pending" ELSE "single"]
            /\ UNCHANGED <<cache, instance, lockVars>>
         \/ /\ ~ c.loaded
            /\ call' = [call EXCEPT ![t].run = asked,
                 ![t].at = IF k.op = "list" \/ asked = Absent THEN "load_events" ELSE "single"]
            /\ UNCHANGED <<cache, instance, lockVars>>
      /\ UNCHANGED disk

\* While a put is pending only the cache answers.
Pending(t) ==
  /\ At(t, "pending")
  /\ IF intent # Absent THEN Return(t)
     ELSE /\ Goto(t, IF call[t].op = "get_events" THEN "read_events" ELSE "single")
          /\ UNCHANGED <<instance, lockVars>>
  /\ UNCHANGED <<disk, cache>>

ReadEvents(t) ==
  LET r == call[t].run
  IN  /\ At(t, "read_events")
      /\ IF events[r] # Absent
           THEN SetCache(t, [Cache(t) EXCEPT !.events[r] = events[r]]) /\ Return(t)
           ELSE Goto(t, "single") /\ UNCHANGED <<cache, instance, lockVars>>
      /\ UNCHANGED disk

\* _load_single_durable_bundle and what its callers do without a bundle.
Single(t) ==
  LET c == Cache(t)
      k == call[t]
      cached == c.results[k.run] # Absent /\ c.events[k.run] # Absent
      v == IF cached THEN c.results[k.run] ELSE bundle[k.run]
  IN  /\ At(t, "single")
      /\ \/ /\ v # Absent
            /\ LET d == IF cached THEN c ELSE Both(c, k.run, v)
               IN  SetCache(t, IF k.op = "current" THEN [d EXCEPT !.current = k.run] ELSE d)
            /\ Return(t)
         \/ /\ v = Absent /\ c.loaded
            /\ SetCache(t, IF k.op = "current" /\ events[k.run] # Absent
                             THEN [c EXCEPT !.current = k.run] ELSE c)
            /\ Return(t)
         \/ /\ v = Absent /\ ~ c.loaded
            /\ Goto(t, "load_events")
            /\ UNCHANGED <<cache, instance, lockVars>>
      /\ UNCHANGED disk

\* _ensure_loaded, without the writer lock: a refusal raises, and leaves what
\* was loaded so far.
Load(t, step, next, c) ==
  /\ At(t, step)
  /\ SetCache(t, c)
  /\ Goto(t, next)
  /\ UNCHANGED <<disk, instance, lockVars>>

Refuse(t, step, refused) ==
  /\ At(t, step)
  /\ refused
  /\ Return(t)
  /\ UNCHANGED <<disk, cache>>

LoadStep(t) ==
  LET c == Cache(t)
  IN  \/ Load(t, "load_events", "load_bundles", LoadedEvents(c))
      \/ Load(t, "load_bundles", "load_results", LoadedBundles(c))
      \/ Refuse(t, "load_results", ResultsRefused(c))
      \/ ~ ResultsRefused(c) /\ Load(t, "load_results", "load_current", LoadedResults(c))
      \/ Refuse(t, "load_current", CurrentRefused(c))
      \/ ~ CurrentRefused(c) /\ Load(t, "load_current", "look", LoadedCurrent(c))

-----------------------------------------------------------------------------
Step(t) ==
  \/ Gate(t) \/ Flock(t) \/ Instance(t) \/ Release(t) \/ WriteFile(t) \/ Reload(t)
  \/ Finish(t) \/ Unstage(t)
  \/ Look(t) \/ Pending(t) \/ ReadEvents(t) \/ Single(t) \/ LoadStep(t)

\* A write, or the synchronisation after it, raises.
Raise(t) ==
  /\ faults < MaxFaults
  /\ \E step \in {"intent", "bundle", "result", "events", "current", "unlink",
                  "stage", "stream", "point", "finish"} : At(t, step)
  /\ Return(t)
  /\ faults' = faults + 1
  /\ UNCHANGED <<disk, cache>>

Die(p) ==
  /\ faults < MaxFaults
  /\ call' = [t \in Threads |-> IF ProcessOf[t] = p THEN Idle ELSE call[t]]
  /\ cache' = [cache EXCEPT ![p] = EmptyCache]
  /\ instance' = [instance EXCEPT ![p] = NoThread]
  /\ Freed(p)
  /\ faults' = faults + 1
  /\ UNCHANGED disk

Begin(t) ==
  \E op \in Operations[t], r \in Runs \cup {Absent}, v \in Versions \cup {Absent} :
    \/ op \in WriterOps /\ r # Absent /\ BeginWrite(t, op, r, v)
    \/ op \in ReaderOps /\ v = Absent /\ BeginRead(t, op, r)

Next ==
  \/ \E t \in Threads : (Begin(t) \/ Step(t)) /\ UNCHANGED faults
  \/ \E t \in Threads : Raise(t)
  \/ \E p \in Processes : Die(p)

Spec == Init /\ [][Next]_vars

-----------------------------------------------------------------------------
(* Startup: ensure_runtime_state validates the files before a store exists    *)

Completed(r) ==
  IF intent # Absent /\ intent.run = r THEN intent.version ELSE bundle[r]

AcceptedRun(r) ==
  /\ result[r] # Absent =>
       IF events[r] # Absent THEN ~ IsPartial(events[r]) ELSE Completed(r) # Absent
  /\ events[r] \in Versions => result[r] # Absent \/ Completed(r) # Absent
  /\ Completed(r) # Absent =>
       /\ result[r] \in {Absent, Completed(r)}
       /\ events[r] \in {Absent, Completed(r)}
       /\ bundle[r] \in {Absent, Completed(r)}

AcceptedAtStartup ==
  /\ \A r \in Runs : AcceptedRun(r)
  /\ current # Absent => events[current] # Absent \/ Completed(current) # Absent

-----------------------------------------------------------------------------
(* Properties                                                                *)

\* Whatever threads and processes nest, raise or die, no two threads are in
\* the body of state_write_lock at once.
MutualExclusion ==
  \A t, u \in Threads : Inside(t) /\ Inside(u) => t = u

\* What a writer left when it died is accepted at startup.
InterruptedStateIsAccepted == flock = NoProcess => AcceptedAtStartup

\* An instance never pairs the result of one publication with the events of
\* another, whichever file it read when.
CachedPairIsOnePublication ==
  \A p \in Processes, r \in Runs :
    cache[p].results[r] # Absent => cache[p].events[r] = cache[p].results[r]

\* append_event extends the stream on disk, not the one its instance cached
\* before another process appended: no event is lost.
AppendExtendsDurableStream ==
  [][\A t \in Threads :
       At(t, "stream") /\ call[t].op = "append" =>
         \A r \in Runs : events'[r] # events[r] =>
           /\ events[r] \notin Versions
           /\ events'[r] = IF events[r] = Absent THEN 1 ELSE events[r] + 1]_vars

\* A put takes effect when its intent is written: a death afterwards neither
\* undoes nor repeats it, and the recovery is invisible.
Store == INSTANCE AtomicStore WITH
  published <- [r \in Runs |-> Completed(r)],
  partial <- [r \in Runs |->
                IF Completed(r) = Absent /\ IsPartial(events[r]) THEN events[r] ELSE 0],
  current <- IF intent # Absent THEN intent.run ELSE current

ImplementsAtomicStore == Store!Spec

=============================================================================
