-------------------------- MODULE ViewerDaemonProofs --------------------------
(***************************************************************************)
(* Proofs about ViewerDaemon: the lock of the registry and the lease       *)
(* exclude, links name the daemon that serves, and while no presenter is   *)
(* killed and no stop misses its daemon there is one viewer, which can be  *)
(* found.                                                                  *)
(***************************************************************************)
EXTENDS ViewerDaemon, TLAPS

Calls == [at : PresenterSteps, seen : Instances \cup {None}]

\* The part of the type invariant that the others rest on.
Shapes ==
  /\ lock \in Presenters \cup Instances \cup {None}
  /\ lease \in Instances \cup {None}
  /\ registry \in Instances \cup {None}
  /\ daemon \in [Instances -> DaemonSteps]
  /\ call \in [Presenters -> Calls]

\* The steps of a presenter outside the lock of the registry, those that look
\* at a certain daemon, and those of a daemon that has the lease.
Outside == {"idle", "lock", "stop_lock"}
Looking ==
  {"reuse", "shutdown", "await_lease", "await", "terminate", "stop_shutdown", "stop_await"}
Leasing == {"leased", "serving", "leaving"}

\* The lock and the lease are with those whose step says so.
LocksInv ==
  /\ \A p \in Presenters : lock = p <=> call[p].at \notin Outside
  /\ \A i \in Instances : lock = i <=> daemon[i] = "unlinking"
  /\ \A i \in Instances : lease = i <=> daemon[i] \in Leasing
  /\ \A p \in Presenters : call[p].at \in Looking => call[p].seen \in Instances

\* Whoever holds the lock knows what lives: nothing before a daemon is
\* spawned, and afterwards, or when a viewer is being retired, only that one.
KnowsLive(p) ==
  /\ call[p].at \in {"unlink", "spawn"} => \A i \in Instances : ~ Live(i)
  /\ call[p].at \in {"shutdown", "await", "terminate"} =>
       \A i \in Instances : Live(i) => i = call[p].seen

\* A daemon that does not serve yet is waited for.
Awaited(i) ==
  /\ daemon[i] = "starting" =>
       \E p \in Presenters : call[p].at = "await" /\ call[p].seen = i
  /\ daemon[i] = "leased" =>
       \E p \in Presenters : call[p].at \in {"await", "terminate"} /\ call[p].seen = i

\* One that serves, or removes its entry, is registered.
Registered(i) == daemon[i] \in {"serving", "unlinking"} => registry = i

Quiet == ~ disturbed

OrderlyInv ==
  Quiet =>
    /\ \A p \in Presenters : KnowsLive(p)
    /\ \A i \in Instances : Awaited(i) /\ Registered(i)

ViewerInv == Shapes /\ LocksInv /\ OrderlyInv

-----------------------------------------------------------------------------
(* How the variables change                                                  *)

LEMMA Apart ==
  /\ \A i \in Instances : i \in Nat /\ i # None /\ i \notin Presenters
  /\ None \notin Presenters
  BY ViewerAssumption DEF Instances

LEMMA GoesTo ==
  ASSUME Shapes, NEW p \in Presenters, NEW s, NEW x, Goto(p, s, x),
         s \in PresenterSteps, x \in Instances \cup {None}
  PROVE  /\ call' \in [Presenters -> Calls]
         /\ call'[p].at = s /\ call'[p].seen = x
         /\ \A q \in Presenters : q # p => call'[q] = call[q]
  BY DEF Shapes, Goto, Calls

LEMMA Moves ==
  ASSUME Shapes, NEW i \in Instances, NEW s \in DaemonSteps,
         daemon' = [daemon EXCEPT ![i] = s]
  PROVE  /\ daemon' \in [Instances -> DaemonSteps]
         /\ daemon'[i] = s
         /\ \A j \in Instances : j # i => daemon'[j] = daemon[j]
  BY DEF Shapes

LEMMA Fields ==
  ASSUME Shapes, NEW p \in Presenters
  PROVE  call[p].at \in PresenterSteps /\ call[p].seen \in Instances \cup {None}
  BY DEF Shapes, Calls

-----------------------------------------------------------------------------
(* Every step keeps the invariant                                            *)

LEMMA AskKeeps ==
  ASSUME ViewerInv, NEW p \in Presenters, Ask(p), Undisturbed
  PROVE  ViewerInv'
  <1> USE Apart DEF ViewerInv, Shapes, Ask, At, PresenterSteps
  <1>1. Quiet' = Quiet
    BY DEF Undisturbed, Quiet
  <1>2. Shapes'
    BY GoesTo, Fields
  <1>3. LocksInv'
    BY GoesTo, Fields DEF LocksInv, Looking, Outside, Leasing
  <1>4. OrderlyInv'
    BY <1>1, GoesTo, Fields
       DEF LocksInv, OrderlyInv, KnowsLive, Awaited, Registered, Live, Looking, Outside,
           Leasing
  <1> QED BY <1>2, <1>3, <1>4

LEMMA TakeLockKeeps ==
  ASSUME ViewerInv, NEW p \in Presenters, TakeLock(p), Undisturbed
  PROVE  ViewerInv'
  <1> USE Apart DEF ViewerInv, Shapes, TakeLock, At, PresenterSteps
  <1>1. Quiet' = Quiet
    BY DEF Undisturbed, Quiet
  <1>2. Shapes'
    BY GoesTo, Fields
  <1>3. LocksInv'
    BY GoesTo, Fields DEF LocksInv, Looking, Outside, Leasing
  <1>4. OrderlyInv'
    BY <1>1, GoesTo, Fields
       DEF LocksInv, OrderlyInv, KnowsLive, Awaited, Registered, Live, Looking, Outside,
           Leasing
  <1> QED BY <1>2, <1>3, <1>4

LEMMA ValidateKeeps ==
  ASSUME ViewerInv, NEW p \in Presenters, Validate(p), Undisturbed
  PROVE  ViewerInv'
  <1> USE Apart DEF ViewerInv, Shapes, Validate, At, Healthy, PresenterSteps
  <1>1. Quiet' = Quiet
    BY DEF Undisturbed, Quiet
  <1>2. Shapes'
    BY GoesTo, Fields
  <1>3. LocksInv'
    BY GoesTo, Fields DEF LocksInv, Looking, Outside, Leasing
  <1>4. OrderlyInv'
    BY <1>1, GoesTo, Fields
       DEF LocksInv, OrderlyInv, KnowsLive, Awaited, Registered, Live, Looking, Outside,
           Leasing
  <1> QED BY <1>2, <1>3, <1>4

LEMMA ReuseKeeps ==
  ASSUME ViewerInv, NEW p \in Presenters, Reuse(p), Undisturbed
  PROVE  ViewerInv'
  <1> USE Apart DEF ViewerInv, Shapes, Reuse, At, Answer, Return, PresenterSteps
  <1>1. Quiet' = Quiet
    BY DEF Undisturbed, Quiet
  <1>2. Shapes'
    BY GoesTo, Fields
  <1>3. LocksInv'
    BY GoesTo, Fields DEF LocksInv, Looking, Outside, Leasing
  <1>4. OrderlyInv'
    BY <1>1, GoesTo, Fields
       DEF LocksInv, OrderlyInv, KnowsLive, Awaited, Registered, Live, Looking, Outside,
           Leasing
  <1> QED BY <1>2, <1>3, <1>4

\* With the lock held nobody else waits for a daemon, so none is starting;
\* and without a lease none serves.
LEMMA CheckLeaseKeeps ==
  ASSUME ViewerInv, NEW p \in Presenters, CheckLease(p), Undisturbed
  PROVE  ViewerInv'
  <1> USE Apart DEF ViewerInv, Shapes, CheckLease, At, Answer, Return, PresenterSteps
  <1>1. Quiet' = Quiet
    BY DEF Undisturbed, Quiet
  <1>2. Shapes'
    BY GoesTo, Fields
  <1>3. LocksInv'
    BY GoesTo, Fields DEF LocksInv, Looking, Outside, Leasing
  <1>4. OrderlyInv'
    BY <1>1, GoesTo, Fields
       DEF LocksInv, OrderlyInv, KnowsLive, Awaited, Registered, Live, Looking, Outside,
           Leasing
  <1> QED BY <1>2, <1>3, <1>4

LEMMA ProbeKeeps ==
  ASSUME ViewerInv, NEW p \in Presenters, Probe(p), Undisturbed
  PROVE  ViewerInv'
  <1> USE Apart DEF ViewerInv, Shapes, Probe, At, Answer, Return, Healthy, PresenterSteps
  <1>1. Quiet' = Quiet
    BY DEF Undisturbed, Quiet
  <1>2. Shapes'
    BY GoesTo, Fields
  <1>3. LocksInv'
    BY GoesTo, Fields DEF LocksInv, Looking, Outside, Leasing
  <1>4. OrderlyInv'
    BY <1>1, GoesTo, Fields
       DEF LocksInv, OrderlyInv, KnowsLive, Awaited, Registered, Live, Looking, Outside,
           Leasing
  <1> QED BY <1>2, <1>3, <1>4

LEMMA ShutdownKeeps ==
  ASSUME ViewerInv, NEW p \in Presenters, Shutdown(p), Undisturbed
  PROVE  ViewerInv'
  <1> USE Apart DEF ViewerInv, Shapes, Shutdown, At, Return, PresenterSteps
  <1>1. Quiet' = Quiet
    BY DEF Undisturbed, Quiet
  <1>2. Shapes'
    BY GoesTo, Fields
  <1>3. LocksInv'
    BY GoesTo, Fields DEF LocksInv, Looking, Outside, Leasing
  <1>4. OrderlyInv'
    BY <1>1, GoesTo, Fields
       DEF LocksInv, OrderlyInv, KnowsLive, Awaited, Registered, Live, Looking, Outside,
           Leasing
  <1> QED BY <1>2, <1>3, <1>4

LEMMA AwaitLeaseKeeps ==
  ASSUME ViewerInv, NEW p \in Presenters, AwaitLease(p), Undisturbed
  PROVE  ViewerInv'
  <1> USE Apart DEF ViewerInv, Shapes, AwaitLease, At, Return, PresenterSteps
  <1>1. Quiet' = Quiet
    BY DEF Undisturbed, Quiet
  <1>2. Shapes'
    BY GoesTo, Fields
  <1>3. LocksInv'
    BY GoesTo, Fields DEF LocksInv, Looking, Outside, Leasing
  <1>4. OrderlyInv'
    BY <1>1, GoesTo, Fields
       DEF LocksInv, OrderlyInv, KnowsLive, Awaited, Registered, Live, Looking, Outside,
           Leasing
  <1> QED BY <1>2, <1>3, <1>4

LEMMA UnlinkKeeps ==
  ASSUME ViewerInv, NEW p \in Presenters, Unlink(p), Undisturbed
  PROVE  ViewerInv'
  <1> USE Apart DEF ViewerInv, Shapes, Unlink, At, PresenterSteps
  <1>1. Quiet' = Quiet
    BY DEF Undisturbed, Quiet
  <1>2. Shapes'
    BY GoesTo, Fields
  <1>3. LocksInv'
    BY GoesTo, Fields DEF LocksInv, Looking, Outside, Leasing
  <1>4. OrderlyInv'
    BY <1>1, GoesTo, Fields
       DEF LocksInv, OrderlyInv, KnowsLive, Awaited, Registered, Live, Looking, Outside,
           Leasing
  <1> QED BY <1>2, <1>3, <1>4

LEMMA SpawnKeeps ==
  ASSUME ViewerInv, NEW p \in Presenters, Spawn(p), Undisturbed
  PROVE  ViewerInv'
  <1>1. Quiet' = Quiet
    BY DEF Undisturbed, Quiet
  <1>2. PICK i \in Instances :
          /\ daemon[i] \in {"none", "exited"}
          /\ daemon' = [daemon EXCEPT ![i] = "starting"]
          /\ Goto(p, "await", i)
    BY DEF Spawn, Unused
  <1>3. At(p, "spawn") /\ UNCHANGED <<lock, lease, registry>>
    BY DEF Spawn
  <1>4. /\ daemon' \in [Instances -> DaemonSteps] /\ daemon'[i] = "starting"
        /\ \A j \in Instances : j # i => daemon'[j] = daemon[j]
    BY <1>2, Moves DEF ViewerInv, DaemonSteps
  <1>5. /\ call' \in [Presenters -> Calls] /\ call'[p].at = "await" /\ call'[p].seen = i
        /\ \A q \in Presenters : q # p => call'[q] = call[q]
    BY <1>2, GoesTo DEF ViewerInv, PresenterSteps
  <1>6. Shapes'
    BY <1>3, <1>4, <1>5 DEF ViewerInv, Shapes
  <1>7. LocksInv'
    BY <1>2, <1>3, <1>4, <1>5, Apart DEF ViewerInv, Shapes, LocksInv, At, Looking, Outside, Leasing
  <1>8. OrderlyInv'
    BY <1>1, <1>2, <1>3, <1>4, <1>5, Apart
       DEF ViewerInv, Shapes, LocksInv, OrderlyInv, KnowsLive, Awaited, Registered, Live, At,
           Outside
  <1> QED BY <1>6, <1>7, <1>8 DEF ViewerInv

LEMMA LaunchedKeeps ==
  ASSUME ViewerInv, NEW p \in Presenters, Launched(p), Undisturbed
  PROVE  ViewerInv'
  <1> USE Apart DEF ViewerInv, Shapes, Launched, At, Answer, Return, Healthy, PresenterSteps
  <1>1. Quiet' = Quiet
    BY DEF Undisturbed, Quiet
  <1>2. Shapes'
    BY GoesTo, Fields
  <1>3. LocksInv'
    BY GoesTo, Fields DEF LocksInv, Looking, Outside, Leasing
  <1>4. OrderlyInv'
    BY <1>1, GoesTo, Fields
       DEF LocksInv, OrderlyInv, KnowsLive, Awaited, Registered, Live, Looking, Outside,
           Leasing
  <1> QED BY <1>2, <1>3, <1>4

LEMMA ExitedKeeps ==
  ASSUME ViewerInv, NEW p \in Presenters, Exited(p), Undisturbed
  PROVE  ViewerInv'
  <1> USE Apart DEF ViewerInv, Shapes, Exited, At, Answer, Return, PresenterSteps
  <1>1. Quiet' = Quiet
    BY DEF Undisturbed, Quiet
  <1>2. Shapes'
    BY GoesTo, Fields
  <1>3. LocksInv'
    BY GoesTo, Fields DEF LocksInv, Looking, Outside, Leasing
  <1>4. OrderlyInv'
    BY <1>1, GoesTo, Fields
       DEF LocksInv, OrderlyInv, KnowsLive, Awaited, Registered, Live, Looking, Outside,
           Leasing
  <1> QED BY <1>2, <1>3, <1>4

LEMMA StopProbeKeeps ==
  ASSUME ViewerInv, NEW p \in Presenters, StopProbe(p), Undisturbed
  PROVE  ViewerInv'
  <1> USE Apart DEF ViewerInv, Shapes, StopProbe, At, Return, Healthy, PresenterSteps
  <1>1. Quiet' = Quiet
    BY DEF Undisturbed, Quiet
  <1>2. Shapes'
    BY GoesTo, Fields
  <1>3. LocksInv'
    BY GoesTo, Fields DEF LocksInv, Looking, Outside, Leasing
  <1>4. OrderlyInv'
    BY <1>1, GoesTo, Fields
       DEF LocksInv, OrderlyInv, KnowsLive, Awaited, Registered, Live, Looking, Outside,
           Leasing
  <1> QED BY <1>2, <1>3, <1>4

LEMMA KillKeeps ==
  ASSUME ViewerInv, NEW p \in Presenters, Kill(p), Undisturbed
  PROVE  ViewerInv'
  <1> USE Apart DEF ViewerInv, Shapes, Kill, Exits, At, Answer, Return, PresenterSteps, DaemonSteps
  <1>1. Quiet' = Quiet
    BY DEF Undisturbed, Quiet
  <1>2. Shapes'
    BY GoesTo, Moves, Fields
  <1>3. LocksInv'
    BY GoesTo, Moves, Fields DEF LocksInv, Looking, Outside, Leasing
  <1>4. OrderlyInv'
    BY <1>1, GoesTo, Moves, Fields
       DEF LocksInv, OrderlyInv, KnowsLive, Awaited, Registered, Live, Looking, Outside,
           Leasing
  <1> QED BY <1>2, <1>3, <1>4

\* A presenter that gives up leaves nothing behind that starts: what it told
\* to terminate either ended or is still watched.
LEMMA ExpireKeeps ==
  ASSUME ViewerInv, NEW p \in Presenters, Expire(p), UNCHANGED disturbed
  PROVE  ViewerInv'
  <1> USE Apart DEF ViewerInv, Shapes, Expire, Terminated, Exits, Healthy, At, Answer, Return,
              PresenterSteps, DaemonSteps
  <1>1. Quiet' = Quiet
    BY DEF Quiet
  <1>2. Shapes'
    BY GoesTo, Moves, Fields
  <1>3. LocksInv'
    BY GoesTo, Moves, Fields DEF LocksInv, Looking, Outside, Leasing
  <1>4. OrderlyInv'
    BY <1>1, GoesTo, Moves, Fields
       DEF LocksInv, OrderlyInv, KnowsLive, Awaited, Registered, Live, Looking, Outside,
           Leasing
  <1> QED BY <1>2, <1>3, <1>4

LEMMA StopKeeps ==
  ASSUME ViewerInv, NEW p \in Presenters, Stop(p), UNCHANGED disturbed
  PROVE  ViewerInv'
  <1> USE Apart DEF ViewerInv, Shapes, Stop, At, PresenterSteps
  <1>1. Quiet' = Quiet
    BY DEF Quiet
  <1>2. Shapes'
    BY GoesTo, Fields
  <1>3. LocksInv'
    BY GoesTo, Fields DEF LocksInv, Looking, Outside, Leasing
  <1>4. OrderlyInv'
    BY <1>1, GoesTo, Fields
       DEF LocksInv, OrderlyInv, KnowsLive, Awaited, Registered, Live, Looking, Outside,
           Leasing
  <1> QED BY <1>2, <1>3, <1>4

LEMMA TakeLeaseKeeps ==
  ASSUME ViewerInv, NEW i \in Instances, TakeLease(i),
         UNCHANGED <<build, call, link>>, Undisturbed
  PROVE  ViewerInv'
  <1> USE Apart DEF ViewerInv, Shapes, TakeLease, Move, DaemonSteps
  <1>1. Quiet' = Quiet
    BY DEF Undisturbed, Quiet
  <1>2. Shapes'
    BY Moves
  <1>3. LocksInv'
    BY Moves DEF LocksInv, Looking, Outside, Leasing
  <1>4. OrderlyInv'
    BY <1>1, Moves
       DEF LocksInv, OrderlyInv, KnowsLive, Awaited, Registered, Live, Looking, Outside,
           Leasing
  <1> QED BY <1>2, <1>3, <1>4

LEMMA LoseLeaseKeeps ==
  ASSUME ViewerInv, NEW i \in Instances, LoseLease(i),
         UNCHANGED <<build, call, link>>, Undisturbed
  PROVE  ViewerInv'
  <1> USE Apart DEF ViewerInv, Shapes, LoseLease, Move, DaemonSteps
  <1>1. Quiet' = Quiet
    BY DEF Undisturbed, Quiet
  <1>2. Shapes'
    BY Moves
  <1>3. LocksInv'
    BY Moves DEF LocksInv, Looking, Outside, Leasing
  <1>4. OrderlyInv'
    BY <1>1, Moves
       DEF LocksInv, OrderlyInv, KnowsLive, Awaited, Registered, Live, Looking, Outside,
           Leasing
  <1> QED BY <1>2, <1>3, <1>4

LEMMA RegisterKeeps ==
  ASSUME ViewerInv, NEW i \in Instances, Register(i),
         UNCHANGED <<build, call, link>>, Undisturbed
  PROVE  ViewerInv'
  <1> USE Apart DEF ViewerInv, Shapes, Register, Move, DaemonSteps
  <1>1. Quiet' = Quiet
    BY DEF Undisturbed, Quiet
  <1>2. Shapes'
    BY Moves
  <1>3. LocksInv'
    BY Moves DEF LocksInv, Looking, Outside, Leasing
  <1>4. OrderlyInv'
    BY <1>1, Moves
       DEF LocksInv, OrderlyInv, KnowsLive, Awaited, Registered, Live, Looking, Outside,
           Leasing
  <1> QED BY <1>2, <1>3, <1>4

LEMMA ObeyKeeps ==
  ASSUME ViewerInv, NEW i \in Instances, Obey(i),
         UNCHANGED <<build, call, link>>, Undisturbed
  PROVE  ViewerInv'
  <1> USE Apart DEF ViewerInv, Shapes, Obey, Move, DaemonSteps
  <1>1. Quiet' = Quiet
    BY DEF Undisturbed, Quiet
  <1>2. Shapes'
    BY Moves
  <1>3. LocksInv'
    BY Moves DEF LocksInv, Looking, Outside, Leasing
  <1>4. OrderlyInv'
    BY <1>1, Moves
       DEF LocksInv, OrderlyInv, KnowsLive, Awaited, Registered, Live, Looking, Outside,
           Leasing
  <1> QED BY <1>2, <1>3, <1>4

LEMMA ReleaseLeaseKeeps ==
  ASSUME ViewerInv, NEW i \in Instances, ReleaseLease(i),
         UNCHANGED <<build, call, link>>, Undisturbed
  PROVE  ViewerInv'
  <1> USE Apart DEF ViewerInv, Shapes, ReleaseLease, Move, DaemonSteps
  <1>1. Quiet' = Quiet
    BY DEF Undisturbed, Quiet
  <1>2. Shapes'
    BY Moves
  <1>3. LocksInv'
    BY Moves DEF LocksInv, Looking, Outside, Leasing
  <1>4. OrderlyInv'
    BY <1>1, Moves
       DEF LocksInv, OrderlyInv, KnowsLive, Awaited, Registered, Live, Looking, Outside,
           Leasing
  <1> QED BY <1>2, <1>3, <1>4

\* Nothing registers between the comparison and the removal, for whoever
\* launches a daemon holds the lock.
LEMMA CleanUpKeeps ==
  ASSUME ViewerInv, NEW i \in Instances, CleanUp(i),
         UNCHANGED <<build, call, link>>, Undisturbed
  PROVE  ViewerInv'
  <1> USE Apart DEF ViewerInv, Shapes, CleanUp, Move, DaemonSteps
  <1>1. Quiet' = Quiet
    BY DEF Undisturbed, Quiet
  <1>2. Shapes'
    BY Moves
  <1>3. LocksInv'
    BY Moves DEF LocksInv, Looking, Outside, Leasing
  <1>4. OrderlyInv'
    BY <1>1, Moves
       DEF LocksInv, OrderlyInv, KnowsLive, Awaited, Registered, Live, Looking, Outside,
           Leasing
  <1> QED BY <1>2, <1>3, <1>4

LEMMA RemoveEntryKeeps ==
  ASSUME ViewerInv, NEW i \in Instances, RemoveEntry(i),
         UNCHANGED <<build, call, link>>, Undisturbed
  PROVE  ViewerInv'
  <1> USE Apart DEF ViewerInv, Shapes, RemoveEntry, Move, DaemonSteps
  <1>1. Quiet' = Quiet
    BY DEF Undisturbed, Quiet
  <1>2. Shapes'
    BY Moves
  <1>3. LocksInv'
    BY Moves DEF LocksInv, Looking, Outside, Leasing
  <1>4. OrderlyInv'
    BY <1>1, Moves
       DEF LocksInv, OrderlyInv, KnowsLive, Awaited, Registered, Live, Looking, Outside,
           Leasing
  <1> QED BY <1>2, <1>3, <1>4

LEMMA IdleKeeps ==
  ASSUME ViewerInv, NEW i \in Instances, Idle(i), UNCHANGED disturbed
  PROVE  ViewerInv'
  <1> USE Apart DEF ViewerInv, Shapes, Idle, Move, DaemonSteps
  <1>1. Quiet' = Quiet
    BY DEF Quiet
  <1>2. Shapes'
    BY Moves
  <1>3. LocksInv'
    BY Moves DEF LocksInv, Looking, Outside, Leasing
  <1>4. OrderlyInv'
    BY <1>1, Moves
       DEF LocksInv, OrderlyInv, KnowsLive, Awaited, Registered, Live, Looking, Outside,
           Leasing
  <1> QED BY <1>2, <1>3, <1>4

LEMMA DaemonDiesKeeps ==
  ASSUME ViewerInv, NEW i \in Instances, DaemonDies(i)
  PROVE  ViewerInv'
  <1> USE Apart DEF ViewerInv, Shapes, DaemonDies, Exits, DaemonSteps
  <1>1. Quiet' = Quiet
    BY DEF DaemonDies, Quiet
  <1>2. Shapes'
    BY Moves
  <1>3. LocksInv'
    BY Moves DEF LocksInv, Looking, Outside, Leasing
  <1>4. OrderlyInv'
    BY <1>1, Moves
       DEF LocksInv, OrderlyInv, KnowsLive, Awaited, Registered, Live, Looking, Outside,
           Leasing
  <1> QED BY <1>2, <1>3, <1>4

LEMMA PresenterDiesKeeps ==
  ASSUME ViewerInv, NEW p \in Presenters, PresenterDies(p)
  PROVE  ViewerInv'
  <1>1. ~ Quiet'
    BY DEF PresenterDies, Quiet
  <1>2. Shapes'
    BY GoesTo, Apart DEF ViewerInv, Shapes, PresenterDies, Return, At, PresenterSteps
  <1>3. LocksInv'
    BY GoesTo, Apart
       DEF ViewerInv, Shapes, LocksInv, PresenterDies, Return, At, PresenterSteps,
           Looking, Outside, Leasing
  <1> QED BY <1>1, <1>2, <1>3 DEF ViewerInv, OrderlyInv

\* A slow answer to a stop removes an entry that is good, and disturbs.
LEMMA SlowHealthKeeps ==
  ASSUME ViewerInv, NEW p \in Presenters, SlowHealth(p)
  PROVE  ViewerInv'
  <1>1. Quiet' => Quiet /\ registry' = registry
    BY DEF SlowHealth, Quiet
  <1>2. Shapes'
    BY GoesTo, Fields, Apart
       DEF ViewerInv, Shapes, SlowHealth, Answer, Return, At, PresenterSteps
  <1>3. LocksInv'
    BY GoesTo, Fields, Apart
       DEF ViewerInv, Shapes, LocksInv, SlowHealth, Answer, Return, At, PresenterSteps,
           Looking, Outside, Leasing
  <1>4. OrderlyInv'
    BY <1>1, GoesTo, Fields, Apart
       DEF ViewerInv, Shapes, LocksInv, OrderlyInv, KnowsLive, Awaited, Registered, Live,
           SlowHealth, Answer, Return, At, PresenterSteps, Outside
  <1> QED BY <1>2, <1>3, <1>4 DEF ViewerInv

-----------------------------------------------------------------------------
(* The invariant                                                             *)

LEMMA InitHolds == Init => ViewerInv
  <1> SUFFICES ASSUME Init PROVE ViewerInv
    OBVIOUS
  <1>1. Shapes
    BY DEF Init, Shapes, Calls, PresenterSteps, DaemonSteps
  <1>2. LocksInv
    BY Apart DEF Init, LocksInv, Outside, Looking, Leasing
  <1>3. OrderlyInv
    BY DEF Init, OrderlyInv, KnowsLive, Awaited, Registered
  <1> QED BY <1>1, <1>2, <1>3 DEF ViewerInv

LEMMA PresenterKeeps ==
  ASSUME ViewerInv, NEW p \in Presenters, PresenterStep(p), Undisturbed
  PROVE  ViewerInv'
  <1>1. CASE InVain(p) /\ Expire(p)
    BY <1>1, ExpireKeeps DEF Undisturbed
  <1>2. CASE Validate(p) \/ Reuse(p) \/ CheckLease(p) \/ Probe(p) \/ Shutdown(p)
    BY <1>2, ValidateKeeps, ReuseKeeps, CheckLeaseKeeps, ProbeKeeps, ShutdownKeeps
  <1>3. CASE AwaitLease(p) \/ Unlink(p) \/ Spawn(p) \/ Launched(p)
    BY <1>3, AwaitLeaseKeeps, UnlinkKeeps, SpawnKeeps, LaunchedKeeps
  <1>4. CASE Exited(p) \/ Kill(p) \/ StopProbe(p)
    BY <1>4, ExitedKeeps, KillKeeps, StopProbeKeeps
  <1> QED BY <1>1, <1>2, <1>3, <1>4 DEF PresenterStep

LEMMA DaemonKeeps ==
  ASSUME ViewerInv, NEW i \in Instances, DaemonStep(i), Undisturbed
  PROVE  ViewerInv'
  BY TakeLeaseKeeps, LoseLeaseKeeps, RegisterKeeps, ObeyKeeps, ReleaseLeaseKeeps,
     CleanUpKeeps, RemoveEntryKeeps DEF DaemonStep

LEMMA FaultKeeps == ViewerInv /\ Fault => ViewerInv'
  BY DaemonDiesKeeps, IdleKeeps, PresenterDiesKeeps, SlowHealthKeeps, ExpireKeeps, StopKeeps
     DEF Fault

LEMMA SameKeeps == ViewerInv /\ UNCHANGED vars => ViewerInv'
  <1> SUFFICES ASSUME ViewerInv, UNCHANGED vars PROVE ViewerInv'
    OBVIOUS
  <1>1. Quiet' = Quiet
    BY DEF vars, Quiet
  <1>2. Shapes' /\ LocksInv'
    BY DEF vars, ViewerInv, Shapes, LocksInv
  <1>3. OrderlyInv'
    BY <1>1 DEF vars, ViewerInv, OrderlyInv, KnowsLive, Awaited, Registered, Live
  <1> QED BY <1>2, <1>3 DEF ViewerInv

LEMMA NextKeeps == ViewerInv /\ [Next]_vars => ViewerInv'
  <1> SUFFICES ASSUME ViewerInv, [Next]_vars PROVE ViewerInv'
    OBVIOUS
  <1>1. CASE UNCHANGED vars
    BY <1>1, SameKeeps
  <1>2. ASSUME NEW p \in Presenters, Ask(p) \/ TakeLock(p) \/ PresenterStep(p), Undisturbed
        PROVE  ViewerInv'
    BY <1>2, AskKeeps, TakeLockKeeps, PresenterKeeps
  <1>3. ASSUME NEW i \in Instances, DaemonStep(i) \/ Idle(i), Undisturbed
        PROVE  ViewerInv'
    BY <1>3, DaemonKeeps, IdleKeeps DEF Undisturbed
  <1>4. CASE Fault
    BY <1>4, FaultKeeps
  <1> QED BY <1>1, <1>2, <1>3, <1>4 DEF Next

\* The locks, the lease and, undisturbed, the order of the calls under the
\* lock of the registry.
THEOREM ViewerInvariant == Spec => []ViewerInv
  BY InitHolds, NextKeeps, PTL DEF Spec

\* Two presenters that run ensure_completed_run_presentation at the same time
\* converge on one daemon, for any number of presenters and daemons.
THEOREM OneDaemonLives == Spec => []OneLiveDaemon
  <1>1. ViewerInv => OneLiveDaemon
    <2> SUFFICES ASSUME ViewerInv, Quiet, NEW i \in Instances, NEW j \in Instances,
                        Live(i), Live(j)
                 PROVE  i = j
      BY DEF OneLiveDaemon, Quiet
    <2>1. CASE daemon[i] = "serving" /\ daemon[j] = "serving"
      BY <2>1 DEF ViewerInv, LocksInv, Leasing
    <2>2. CASE daemon[i] \in {"starting", "leased"} \/ daemon[j] \in {"starting", "leased"}
      BY <2>2 DEF ViewerInv, OrderlyInv, Awaited, KnowsLive
    <2> QED BY <2>1, <2>2 DEF Live
  <1> QED BY <1>1, ViewerInvariant, PTL

\* The entry of a daemon that serves is not removed by the cleanup of an
\* earlier one (_remove_registry_if_instance) nor by a presenter.
THEOREM ServersCanBeFound == Spec => []ServingIsRegistered
  <1>1. ViewerInv => ServingIsRegistered
    BY DEF ViewerInv, OrderlyInv, Quiet, Registered, ServingIsRegistered
  <1> QED BY <1>1, ViewerInvariant, PTL

-----------------------------------------------------------------------------
(* Types                                                                     *)

Receipts == {"none", "asked", "ready", "refused"}

\* The rest of the type invariant; no other proof needs it but for the links.
OtherTypes ==
  /\ build \in [Instances -> {BuildOf[p] : p \in Presenters}]
  /\ stopping \subseteq Instances
  /\ link \in [Presenters -> Receipts]
  /\ faults \in 0 .. MaxFaults

LEMMA LinkTypes ==
  ASSUME OtherTypes, NEW p \in Presenters, NEW r \in Receipts,
         link' = [link EXCEPT ![p] = r]
  PROVE  link' \in [Presenters -> Receipts]
  BY DEF OtherTypes

LEMMA PresenterTypes ==
  ASSUME ViewerInv, OtherTypes, NEW p \in Presenters, PresenterStep(p) \/ Expire(p)
  PROVE  /\ build' \in [Instances -> {BuildOf[q] : q \in Presenters}]
         /\ stopping' \subseteq Instances
         /\ link' \in [Presenters -> Receipts]
  <1>1. call[p].at \in Looking => call[p].seen \in Instances
    BY DEF ViewerInv, LocksInv
  <1>2. CASE Spawn(p)
    BY <1>2 DEF Spawn, OtherTypes
  <1>3. CASE Shutdown(p)
    BY <1>1, <1>3 DEF Shutdown, At, Looking, OtherTypes
  <1>4. CASE Expire(p)
    <2>1. UNCHANGED build
      BY <1>4 DEF Expire
    <2>2. stopping' \subseteq Instances
      BY <1>1, <1>4 DEF Expire, Terminated, At, Looking, OtherTypes
    <2>3. UNCHANGED link \/ \E r \in Receipts : link' = [link EXCEPT ![p] = r]
      BY <1>4 DEF Expire, Answer, Receipts
    <2> QED BY <2>1, <2>2, <2>3, LinkTypes DEF OtherTypes
  <1>5. ASSUME ~ Spawn(p), ~ Shutdown(p), ~ Expire(p)
        PROVE  /\ UNCHANGED <<build, stopping>>
               /\ UNCHANGED link \/ \E r \in Receipts : link' = [link EXCEPT ![p] = r]
    BY <1>5 DEF PresenterStep, Validate, Reuse, CheckLease, Probe, AwaitLease, Unlink, Launched,
         Exited, Kill, StopProbe, Answer, Receipts
  <1> QED BY <1>2, <1>3, <1>4, <1>5, LinkTypes DEF OtherTypes

LEMMA FaultTypes ==
  ASSUME ViewerInv, OtherTypes, Fault
  PROVE  OtherTypes'
  <1>1. faults' \in 0 .. MaxFaults
    BY ViewerAssumption DEF Fault, OtherTypes
  <1>2. ASSUME NEW p \in Presenters, Expire(p)
        PROVE  OtherTypes'
    BY <1>1, <1>2, PresenterTypes DEF OtherTypes
  <1>3. ASSUME NEW p \in Presenters, PresenterDies(p) \/ SlowHealth(p) \/ Stop(p)
        PROVE  OtherTypes'
    <2>1. UNCHANGED <<build, stopping>>
      BY <1>3 DEF PresenterDies, SlowHealth, Stop
    <2>2. UNCHANGED link \/ \E r \in Receipts : link' = [link EXCEPT ![p] = r]
      BY <1>3 DEF PresenterDies, SlowHealth, Stop, Answer, Receipts
    <2> QED BY <1>1, <2>1, <2>2, LinkTypes DEF OtherTypes
  <1>4. ASSUME NEW i \in Instances, DaemonDies(i) \/ Idle(i)
        PROVE  OtherTypes'
    BY <1>1, <1>4 DEF DaemonDies, Idle, OtherTypes
  <1> QED BY <1>2, <1>3, <1>4 DEF Fault

LEMMA NextTypes == ViewerInv /\ OtherTypes /\ [Next]_vars => OtherTypes'
  <1> SUFFICES ASSUME ViewerInv, OtherTypes, [Next]_vars PROVE OtherTypes'
    OBVIOUS
  <1>1. CASE UNCHANGED vars
    BY <1>1 DEF vars, OtherTypes
  <1>2. ASSUME NEW p \in Presenters, PresenterStep(p), Undisturbed
        PROVE  OtherTypes'
    BY <1>2, PresenterTypes DEF OtherTypes, Undisturbed
  <1>3. ASSUME NEW p \in Presenters, Ask(p) \/ TakeLock(p), Undisturbed
        PROVE  OtherTypes'
    BY <1>3, LinkTypes DEF Ask, TakeLock, OtherTypes, Undisturbed, Receipts
  <1>4. ASSUME NEW i \in Instances, DaemonStep(i) \/ Idle(i), Undisturbed
        PROVE  OtherTypes'
    BY <1>4 DEF DaemonStep, TakeLease, LoseLease, Register, Obey, ReleaseLease, CleanUp,
         RemoveEntry, Idle, OtherTypes, Undisturbed
  <1> QED BY <1>1, <1>2, <1>3, <1>4, FaultTypes DEF Next

LEMMA InitTypes == Init => OtherTypes
  <1>1. (CHOOSE p \in Presenters : TRUE) \in Presenters
    BY ViewerAssumption
  <1> QED BY <1>1, ViewerAssumption DEF Init, OtherTypes, Receipts

Flag == disturbed \in BOOLEAN

LEMMA FlagKeeps == Flag /\ [Next]_vars => Flag'
  BY DEF Flag, Next, Undisturbed, Fault, DaemonDies, PresenterDies, SlowHealth, vars

\* Locks, registry, daemons and presenters keep their types.
THEOREM ViewerTypes == Spec => []TypeOK
  <1>1. Init => Flag
    BY DEF Init, Flag
  <1>2. Spec => []Flag
    BY <1>1, FlagKeeps, PTL DEF Spec
  <1>3. Spec => []OtherTypes
    BY InitTypes, NextTypes, ViewerInvariant, PTL DEF Spec
  <1>4. Shapes /\ OtherTypes /\ Flag => TypeOK
    BY DEF Shapes, Flag, Calls, OtherTypes, Receipts, TypeOK
  <1>5. ViewerInv => Shapes
    BY DEF ViewerInv
  <1> QED BY <1>2, <1>3, <1>4, <1>5, ViewerInvariant, PTL

-----------------------------------------------------------------------------
(* Links                                                                     *)

\* A presenter is handed a link when it reuses a viewer or launched one.
LEMMA LinkSteps ==
  ASSUME Shapes, Next, NEW p \in Presenters, link[p] # "ready", link'[p] = "ready",
         link \in [Presenters -> Receipts]
  PROVE  call[p].seen # None /\ daemon[call[p].seen] = "serving"
  <1>1. ASSUME NEW q \in Presenters, PresenterStep(q) \/ Expire(q)
        PROVE  \/ UNCHANGED link
               \/ link' = [link EXCEPT ![q] = "refused"]
               \/ Reuse(q) \/ Launched(q)
    BY <1>1 DEF PresenterStep, Validate, CheckLease, Probe, Shutdown, AwaitLease, Unlink, Spawn,
         Exited, Kill, StopProbe, Expire, Answer
  <1>2. PICK q \in Presenters : Reuse(q) \/ Launched(q)
    <2>1. ASSUME NEW q \in Presenters
          PROVE  /\ link' # [link EXCEPT ![q] = "refused"]
                 /\ link' # [link EXCEPT ![q] = "asked"]
                 /\ link' # [link EXCEPT ![q] = "none"]
      OBVIOUS
    <2>2. ~ UNCHANGED link
      OBVIOUS
    <2>3. CASE Fault
      BY <2>1, <2>2, <2>3, <1>1
         DEF Fault, DaemonDies, Idle, PresenterDies, SlowHealth, Answer, Stop
    <2>4. CASE \E i \in Instances : DaemonStep(i) \/ Idle(i)
      BY <2>2, <2>4 DEF DaemonStep, Idle
    <2>5. ASSUME NEW q \in Presenters, Ask(q) \/ TakeLock(q) \/ PresenterStep(q)
          PROVE  \E r \in Presenters : Reuse(r) \/ Launched(r)
      BY <2>1, <2>2, <2>5, <1>1 DEF Ask, TakeLock
    <2> QED BY <2>3, <2>4, <2>5 DEF Next
  <1>3. /\ Healthy(call[q].seen)
        /\ link' = [link EXCEPT ![q] = "ready"]
    BY <1>2 DEF Reuse, Launched, Answer
  <1>4. q = p
    BY <1>3
  <1> QED BY <1>3, <1>4 DEF Healthy

\* ReadyNamesTheServer, whatever dies, idles out or is replaced meanwhile: the
\* daemon whose link is handed out has the lease, for it serves.
THEOREM LinksNameTheServer == Spec => ReadyNamesTheServer
  <1> DEFINE Named == \A p \in Presenters : link[p] # "ready" /\ link'[p] = "ready" =>
                        lease = call[p].seen /\ daemon[lease] = "serving"
  <1>1. ViewerInv /\ OtherTypes /\ [Next]_vars => [Named]_vars
    <2> SUFFICES ASSUME ViewerInv, OtherTypes, Next,
                        NEW p \in Presenters, link[p] # "ready", link'[p] = "ready"
                 PROVE  lease = call[p].seen /\ daemon[lease] = "serving"
      OBVIOUS
    <2>1. call[p].seen # None /\ daemon[call[p].seen] = "serving"
      BY LinkSteps DEF ViewerInv, OtherTypes
    <2>2. call[p].seen \in Instances
      BY <2>1, Fields DEF ViewerInv
    <2> QED BY <2>1, <2>2 DEF ViewerInv, LocksInv, Leasing
  <1>2. Spec => []OtherTypes
    BY InitTypes, NextTypes, ViewerInvariant, PTL DEF Spec
  <1> QED BY <1>1, <1>2, ViewerInvariant, PTL DEF Spec, ReadyNamesTheServer

===============================================================================
