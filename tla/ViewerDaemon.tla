----------------------------- MODULE ViewerDaemon -----------------------------
(***************************************************************************)
(* One shared viewer for a state directory: presenters that find or start  *)
(* it (ensure_completed_run_presentation), callers that stop it            *)
(* (stop_presentation_daemon), and the detached daemons themselves.        *)
(*                                                                         *)
(* Presenters hold the lock of the registry while they look, retire, spawn *)
(* and wait.  A daemon serves while it holds the lease; it writes the      *)
(* registry under the lease only, and takes the lock of the registry only  *)
(* to remove its entry at the end.  Waiting is bounded by timeouts.        *)
(* An instance identifier is used again once nothing names it any more.    *)
(***************************************************************************)
EXTENDS Naturals, FiniteSets

CONSTANTS
  Presenters,   \* processes that present completed runs and stop the viewer
  MaxInstances, \* bound on the daemon processes at one time
  BuildOf,      \* the build of the package that each presenter runs
  None,         \* no instance, nobody
  MaxFaults     \* bound on deaths, stops, slow daemons and slow probes

ASSUME ViewerAssumption ==
  /\ Presenters # {}
  /\ MaxInstances \in Nat
  /\ None \notin Presenters \cup Nat
  /\ Presenters \cap Nat = {}
  /\ DOMAIN BuildOf = Presenters
  /\ MaxFaults \in Nat

VARIABLES
  lock,         \* who holds viewer.lock
  lease,        \* the daemon that holds viewer.lease
  registry,     \* the instance in viewer.json
  daemon,       \* where each daemon is
  build,        \* the build of each daemon
  stopping,     \* daemons that were asked to stop
  call,         \* the step each presenter is at, and the instance it looks at
  link,         \* what each presenter has got for its run
  faults,
  disturbed     \* a presenter died, or a stop could not reach a live daemon

vars == <<lock, lease, registry, daemon, build, stopping, call, link, faults, disturbed>>

Instances == 1 .. MaxInstances

DaemonSteps ==
  {"none", "starting", "leased", "serving", "leaving", "cleaning", "unlinking", "exited"}

PresenterSteps ==
  {"idle", "lock", "validate", "reuse", "lease", "probe", "shutdown", "await_lease",
   "unlink", "spawn", "await", "terminate",
   "stop_lock", "stop_probe", "stop_shutdown", "stop_await"}

\* The locks, the registry, every daemon and every presenter keep their types.
TypeOK ==
  /\ lock \in Presenters \cup Instances \cup {None}
  /\ lease \in Instances \cup {None}
  /\ registry \in Instances \cup {None}
  /\ daemon \in [Instances -> DaemonSteps]
  /\ build \in [Instances -> {BuildOf[p] : p \in Presenters}]
  /\ stopping \subseteq Instances
  /\ call \in [Presenters -> [at : PresenterSteps, seen : Instances \cup {None}]]
  /\ link \in [Presenters -> {"none", "asked", "ready", "refused"}]
  /\ faults \in 0 .. MaxFaults
  /\ disturbed \in BOOLEAN

Init ==
  /\ lock = None /\ lease = None /\ registry = None
  /\ daemon = [i \in Instances |-> "none"]
  /\ build = [i \in Instances |-> BuildOf[CHOOSE p \in Presenters : TRUE]]
  /\ stopping = {}
  /\ call = [p \in Presenters |-> [at |-> "idle", seen |-> None]]
  /\ link = [p \in Presenters |-> "none"]
  /\ faults = 0
  /\ disturbed = FALSE

-----------------------------------------------------------------------------
At(p, step) == call[p].at = step
Goto(p, step, seen) == call' = [call EXCEPT ![p] = [at |-> step, seen |-> seen]]

\* The call returns and leaves the lock of the registry.
Return(p) ==
  /\ Goto(p, "idle", None)
  /\ lock' = IF lock = p THEN None ELSE lock

Answer(p, receipt) ==
  /\ Return(p)
  /\ link' = [link EXCEPT ![p] = receipt]

\* The health endpoint answers, and names the instance.
Healthy(i) == i # None /\ daemon[i] = "serving"

IsCurrent(p, i) == i # None /\ build[i] = BuildOf[p]

\* A process ends at once; the operating system drops its lease.
Exits(i) ==
  /\ daemon' = [daemon EXCEPT ![i] = "exited"]
  /\ lease' = IF lease = i THEN None ELSE lease

-----------------------------------------------------------------------------
(* ensure_completed_run_presentation                                         *)

\* A completed run is presented, or presented again after an unavailable link.
Ask(p) ==
  /\ At(p, "idle")
  /\ Goto(p, "lock", None)
  /\ link' = [link EXCEPT ![p] = "asked"]
  /\ UNCHANGED <<lock, lease, registry, daemon, build, stopping>>

\* No process runs, and nothing names it.
Unused(i) ==
  /\ daemon[i] \in {"none", "exited"}
  /\ registry # i
  /\ \A p \in Presenters : call[p].seen # i

\* Bound: no presenter goes on while MaxInstances daemons are still around.
TakeLock(p) ==
  /\ At(p, "lock") \/ At(p, "stop_lock")
  /\ \E i \in Instances : Unused(i)
  /\ lock = None
  /\ lock' = p
  /\ Goto(p, IF At(p, "lock") THEN "validate" ELSE "stop_probe", None)
  /\ UNCHANGED <<lease, registry, daemon, build, stopping, link>>

Validate(p) ==
  /\ At(p, "validate")
  /\ Goto(p, IF Healthy(registry) /\ IsCurrent(p, registry) THEN "reuse" ELSE "lease", registry)
  /\ UNCHANGED <<lock, lease, registry, daemon, build, stopping, link>>

\* Variant with a fault: the link is handed out without asking for the run.
ReuseUnasked(p) ==
  /\ At(p, "reuse")
  /\ Answer(p, "ready")
  /\ UNCHANGED <<lease, registry, daemon, build, stopping>>

\* The registered daemon may leave before the run is asked for.
Reuse(p) ==
  /\ At(p, "reuse")
  /\ Answer(p, IF Healthy(call[p].seen) THEN "ready" ELSE "refused")
  /\ UNCHANGED <<lease, registry, daemon, build, stopping>>

\* Variant with a fault: a daemon is spawned next to one that does not answer.
CheckLeaseOfOthers(p) ==
  /\ At(p, "lease")
  /\ IF lease = None \/ IsCurrent(p, call[p].seen)
       THEN Goto(p, "unlink", None) /\ UNCHANGED <<lock, link>>
       ELSE Goto(p, "probe", call[p].seen) /\ UNCHANGED <<lock, link>>
  /\ UNCHANGED <<lease, registry, daemon, build, stopping>>

\* A current daemon that holds the lease and is not healthy is left alone.
CheckLease(p) ==
  /\ At(p, "lease")
  /\ IF lease = None
       THEN Goto(p, "unlink", None) /\ UNCHANGED <<lock, link>>
       ELSE IF IsCurrent(p, call[p].seen)
              THEN Answer(p, "refused")
              ELSE Goto(p, "probe", call[p].seen) /\ UNCHANGED <<lock, link>>
  /\ UNCHANGED <<lease, registry, daemon, build, stopping>>

\* Only a registered daemon that proves who it is is told to stop.
Probe(p) ==
  /\ At(p, "probe")
  /\ IF Healthy(call[p].seen)
       THEN Goto(p, "shutdown", call[p].seen) /\ UNCHANGED <<lock, link>>
       ELSE Answer(p, "refused")
  /\ UNCHANGED <<lease, registry, daemon, build, stopping>>

\* A process that is gone counts as retired, without a look at the lease.
Shutdown(p) ==
  /\ At(p, "shutdown") \/ At(p, "stop_shutdown")
  /\ LET i == call[p].seen
         stop == At(p, "stop_shutdown")
     IN  IF daemon[i] = "exited"
           THEN /\ IF stop THEN Return(p) ELSE Goto(p, "unlink", None) /\ UNCHANGED lock
                /\ UNCHANGED stopping
           ELSE /\ stopping' = stopping \cup {i}
                /\ Goto(p, IF stop THEN "stop_await" ELSE "await_lease", i)
                /\ UNCHANGED lock
  /\ UNCHANGED <<lease, registry, daemon, build, link>>

AwaitLease(p) ==
  /\ At(p, "await_lease") \/ At(p, "stop_await")
  /\ lease = None
  /\ IF At(p, "stop_await") THEN Return(p) ELSE Goto(p, "unlink", None) /\ UNCHANGED lock
  /\ UNCHANGED <<lease, registry, daemon, build, stopping, link>>

Unlink(p) ==
  /\ At(p, "unlink")
  /\ registry' = None
  /\ Goto(p, "spawn", None)
  /\ UNCHANGED <<lock, lease, daemon, build, stopping, link>>

Spawn(p) ==
  /\ At(p, "spawn")
  /\ \E i \in Instances :
       /\ Unused(i) /\ \A j \in 1 .. (i - 1) : ~ Unused(j)
       /\ daemon' = [daemon EXCEPT ![i] = "starting"]
       /\ build' = [build EXCEPT ![i] = BuildOf[p]]
       /\ stopping' = stopping \ {i}
       /\ Goto(p, "await", i)
  /\ UNCHANGED <<lock, lease, registry, link>>

Launched(p) ==
  /\ At(p, "await")
  /\ registry = call[p].seen
  /\ Healthy(registry)
  /\ Answer(p, "ready")
  /\ UNCHANGED <<lease, registry, daemon, build, stopping>>

Exited(p) ==
  /\ At(p, "await") \/ At(p, "terminate")
  /\ daemon[call[p].seen] = "exited"
  /\ Answer(p, "refused")
  /\ UNCHANGED <<lease, registry, daemon, build, stopping>>

\* Variant with a fault: the wait for a lost daemon has no end.
WaitsForEver(p) == FALSE

\* Whether waiting is in vain: the daemon waits for the lock that p holds, or
\* another daemon took the lease that p waits for.
InVain(p) ==
  LET i == call[p].seen
  IN  \/ At(p, "await") /\ daemon[i] \in {"leaving", "cleaning"}
      \/ (At(p, "await_lease") \/ At(p, "stop_await")) /\ lease \notin {i, None}

\* The daemon that does not get ready in time is told to terminate.  Before
\* it has its signal handlers, and after it lost the lease, that ends it.
Terminated(p) ==
  LET i == call[p].seen
  IN  \/ daemon[i] \in {"starting", "leased", "cleaning"} /\ Exits(i) /\ UNCHANGED stopping
      \/ /\ daemon[i] \in {"leased", "serving", "leaving", "cleaning"}
         /\ stopping' = stopping \cup {i}
         /\ UNCHANGED <<daemon, lease>>

\* A daemon that is healthy, though its run is not, stays.
Expire(p) ==
  /\ \/ /\ At(p, "await") /\ daemon[call[p].seen] # "exited"
        /\ IF registry = call[p].seen /\ Healthy(registry)
             THEN Answer(p, "refused") /\ UNCHANGED <<daemon, lease, stopping>>
             ELSE /\ Terminated(p)
                  /\ Goto(p, "terminate", call[p].seen)
                  /\ UNCHANGED <<lock, link>>
     \/ At(p, "await_lease") /\ Answer(p, "refused") /\ UNCHANGED <<daemon, lease, stopping>>
     \/ At(p, "stop_await") /\ Return(p) /\ UNCHANGED <<daemon, lease, stopping, link>>
  /\ UNCHANGED <<registry, build>>

\* Two seconds later it is killed.
Kill(p) ==
  /\ At(p, "terminate")
  /\ daemon[call[p].seen] # "exited"
  /\ Exits(call[p].seen)
  /\ Answer(p, "refused")
  /\ UNCHANGED <<registry, build, stopping>>

-----------------------------------------------------------------------------
(* stop_presentation_daemon                                                  *)

Stop(p) ==
  /\ At(p, "idle")
  /\ Goto(p, "stop_lock", None)
  /\ UNCHANGED <<lock, lease, registry, daemon, build, stopping, link>>

\* The entry of a daemon that does not answer is removed.
StopProbe(p) ==
  /\ At(p, "stop_probe")
  /\ IF Healthy(registry)
       THEN Goto(p, "stop_shutdown", registry) /\ UNCHANGED <<lock, registry>>
       ELSE Return(p) /\ registry' = None
  /\ UNCHANGED <<lease, daemon, build, stopping, link>>

-----------------------------------------------------------------------------
(* The daemon                                                                *)

Move(i, step) == daemon' = [daemon EXCEPT ![i] = step]

TakeLease(i) ==
  /\ daemon[i] = "starting"
  /\ lease = None
  /\ lease' = i
  /\ Move(i, "leased")
  /\ UNCHANGED <<lock, registry, stopping>>

\* Looking whether the lease is available takes it for a moment.
LoseLease(i) ==
  /\ daemon[i] = "starting"
  /\ \/ lease # None
     \/ \E p \in Presenters : At(p, "lease") \/ At(p, "await_lease") \/ At(p, "stop_await")
  /\ Move(i, "cleaning")
  /\ UNCHANGED <<lock, lease, registry, stopping>>

Register(i) ==
  /\ daemon[i] = "leased"
  /\ registry' = i
  /\ Move(i, "serving")
  /\ UNCHANGED <<lock, lease, stopping>>

Obey(i) ==
  /\ daemon[i] = "serving"
  /\ i \in stopping
  /\ Move(i, "leaving")
  /\ UNCHANGED <<lock, lease, registry, stopping>>

\* Nobody asked for anything during the idle time, which is much longer than
\* a presenter waits: a daemon that presenters can find leaves seldom (Fault).
Idle(i) ==
  /\ daemon[i] = "serving"
  /\ \A p \in Presenters : call[p].at \in {"reuse", "await"} => call[p].seen # i
  /\ Move(i, "leaving")
  /\ UNCHANGED <<lock, lease, registry, build, stopping, call, link>>

ReleaseLease(i) ==
  /\ daemon[i] = "leaving"
  /\ lease' = None
  /\ Move(i, "cleaning")
  /\ UNCHANGED <<lock, registry, stopping>>

\* Variant with a fault: the entry is not compared.
CleanUpAny(i) ==
  /\ daemon[i] = "cleaning"
  /\ lock = None
  /\ lock' = i
  /\ Move(i, "unlinking")
  /\ UNCHANGED <<lease, registry, stopping>>

CleanUp(i) ==
  /\ daemon[i] = "cleaning"
  /\ lock = None
  /\ IF registry = i
       THEN lock' = i /\ Move(i, "unlinking")
       ELSE Move(i, "exited") /\ UNCHANGED lock
  /\ UNCHANGED <<lease, registry, stopping>>

RemoveEntry(i) ==
  /\ daemon[i] = "unlinking"
  /\ registry' = None
  /\ lock' = None
  /\ Move(i, "exited")
  /\ UNCHANGED <<lease, stopping>>

DaemonStep(i) ==
  /\ \/ TakeLease(i) \/ LoseLease(i) \/ Register(i) \/ Obey(i)
     \/ ReleaseLease(i) \/ CleanUp(i) \/ RemoveEntry(i)
  /\ UNCHANGED <<build, call, link>>

-----------------------------------------------------------------------------
(* Faults                                                                    *)

DaemonDies(i) ==
  /\ daemon[i] \notin {"none", "exited"}
  /\ Exits(i)
  /\ lock' = IF lock = i THEN None ELSE lock
  /\ UNCHANGED <<registry, build, stopping, call, link, disturbed>>

PresenterDies(p) ==
  /\ ~ At(p, "idle")
  /\ Return(p)
  /\ link' = [link EXCEPT ![p] = "none"]
  /\ disturbed' = TRUE
  /\ UNCHANGED <<lease, registry, daemon, build, stopping>>

\* A healthy daemon does not answer in time.
SlowHealth(p) ==
  /\ Healthy(registry)
  /\ \/ /\ At(p, "validate")
        /\ Goto(p, "lease", registry)
        /\ UNCHANGED <<lock, registry, link, disturbed>>
     \/ /\ At(p, "probe")
        /\ Answer(p, "refused")
        /\ UNCHANGED <<registry, disturbed>>
     \/ /\ At(p, "stop_probe")
        /\ Return(p)
        /\ registry' = None
        /\ disturbed' = TRUE
        /\ UNCHANGED link
  /\ UNCHANGED <<lease, daemon, build, stopping>>

Fault ==
  /\ faults < MaxFaults
  /\ faults' = faults + 1
  /\ \/ \E i \in Instances : DaemonDies(i)
     \/ \E i \in Instances : registry = i /\ Idle(i) /\ UNCHANGED disturbed
     \/ \E p \in Presenters : PresenterDies(p) \/ SlowHealth(p)
     \/ \E p \in Presenters : (Expire(p) \/ Stop(p)) /\ UNCHANGED disturbed

-----------------------------------------------------------------------------
PresenterStep(p) ==
  \/ Validate(p) \/ Reuse(p) \/ CheckLease(p) \/ Probe(p) \/ Shutdown(p) \/ AwaitLease(p)
  \/ Unlink(p) \/ Spawn(p) \/ Launched(p) \/ Exited(p) \/ Kill(p) \/ StopProbe(p)
  \/ InVain(p) /\ Expire(p)

Undisturbed == UNCHANGED <<faults, disturbed>>

Next ==
  \/ \E p \in Presenters : (Ask(p) \/ TakeLock(p) \/ PresenterStep(p)) /\ Undisturbed
  \/ \E i \in Instances :
       \/ DaemonStep(i) /\ Undisturbed
       \/ registry # i /\ Idle(i) /\ Undisturbed
  \/ Fault

\* Processes run, a file lock is not withheld for ever from one that waits, a
\* daemon that nobody finds stops, and a caller repeats a presentation that was refused.
Fairness ==
  /\ \A p \in Presenters :
       /\ WF_vars(PresenterStep(p) /\ Undisturbed)
       /\ SF_vars(TakeLock(p) /\ Undisturbed)
       /\ WF_vars(link[p] = "refused" /\ Ask(p) /\ Undisturbed)
  /\ \A i \in Instances :
       /\ SF_vars(DaemonStep(i) /\ Undisturbed)
       /\ WF_vars(registry # i /\ Idle(i) /\ Undisturbed)

Spec == Init /\ [][Next]_vars /\ Fairness

-----------------------------------------------------------------------------
(* Properties                                                                *)

Live(i) == daemon[i] \in {"starting", "leased", "serving"}

\* Presenters converge on one viewer: while no presenter is killed in its
\* call and every stop reaches the daemon it stops, no second daemon is
\* started next to one that starts or serves, whatever daemons die, start
\* slowly or fail to answer.
OneLiveDaemon ==
  ~ disturbed => \A i, j \in Instances : Live(i) /\ Live(j) => i = j

\* Under the same condition a daemon that serves can be found: no cleanup of
\* an earlier daemon and no presenter removes its entry.
ServingIsRegistered ==
  ~ disturbed => \A i \in Instances : daemon[i] = "serving" => registry = i

\* Whatever dies in between, a presenter is handed a link only to the daemon
\* that holds the lease and serves.
ReadyNamesTheServer ==
  [][\A p \in Presenters :
       link[p] # "ready" /\ link'[p] = "ready" =>
         lease = call[p].seen /\ daemon[lease] = "serving"]_vars

\* A presentation that is asked for, and repeated while it is refused, gets
\* its link: neither a presenter that waits for a daemon that waits for it,
\* nor a daemon that lost its entry, stands in the way for ever.
Presented ==
  \A p \in Presenters :
    link[p] \in {"asked", "refused"} ~> link[p] \in {"ready", "none"}

=============================================================================
