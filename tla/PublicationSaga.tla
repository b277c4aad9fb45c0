---------------------------- MODULE PublicationSaga ----------------------------
(***************************************************************************)
(* finalize as a saga over four durable stores: the lifecycle record, the  *)
(* result store (RunStore), the research quality index (QualityStore) and  *)
(* the decision memory, with the direct import of a completed submission   *)
(* next to it (AnalyticsPublicationService and PublicationService).        *)
(*                                                                         *)
(* Each operation of a store holds a lock or a transaction and is one      *)
(* step; a process may fail or die between any two of them, and finalize   *)
(* is called again until the publication is no longer pending.             *)
(*                                                                         *)
(* The run identifier of a result is derived from the content of the       *)
(* submission, commitments included, so a result is named by its           *)
(* commitments.  The terminal event of a result that a lifecycle produced  *)
(* names the lifecycle run; this origin is all that a stored bundle adds   *)
(* to its name.                                                            *)
(***************************************************************************)
EXTENDS LifecycleRecord

CONSTANTS
  Runs,         \* lifecycle runs, every stage of which is committed
  Finalizers,   \* processes that call finalize
  Importers,    \* processes that import the content of a run directly
  Import,       \* the origin of a directly imported bundle
  Nothing,      \* no bundle
  MaxFailures   \* bound on the failures and deaths of processes

ASSUME SagaAssumption ==
  /\ Import \notin Runs /\ Nothing \notin Runs /\ Import # Nothing
  /\ MaxFailures \in Nat

VARIABLES
  records,      \* lifecycle_runs
  staged,       \* staged/: hidden finalization bundles
  published,    \* bundles/: readable bundles
  quality,      \* research quality registrations
  decision,     \* decision memory rows
  saga,         \* the finalize call each finalizer is in
  import,       \* the import each importer is in
  failures      \* failures so far

stores == <<staged, published, quality, decision>>
vars == <<records, stores, saga, import, failures>>

\* A run of which RunControl committed every stage at its first attempt.
ReadyRecord(outputs, memory) ==
  LET commitments == [i \in Stages |-> [stage |-> i, attempt |-> 1, digest |-> outputs[i]]]
  IN  [AbsentRecord EXCEPT
        !.status = "running", !.revision = NStages + 1, !.events = NStages + 2,
        !.completed = [i \in Stages |-> i], !.outputs = outputs,
        !.commitments = commitments, !.final = commitments,
        !.attempts = [s \in Stages |-> 1], !.memory = memory]

Results == {ReadyRecord(outputs, {}).final : outputs \in [Stages -> Digests]}
Bundles == Runs \cup {Import, Nothing}
Visibility == {"none", "staged", "published"}

FinalizeSteps ==
  {"begin", "stage", "stage_sidecars", "stage_memory", "retain_stage", "complete",
   "restage", "publish_sidecars", "publish", "publish_memory", "retain_write"}

Idle == [at |-> "idle"]
SagaCalls == {Idle} \cup [at : FinalizeSteps, run : Runs, local : Records]

ImportSteps ==
  {"start", "look", "look_staged", "stage", "publish", "publish_sidecars", "done", "refused"}

\* The records, the bundles, the sidecars and the calls of finalizers and importers
\* keep their types.
TypeOK ==
  /\ records \in [Runs -> Records]
  /\ staged \in [Results -> Bundles]
  /\ published \in [Results -> Bundles]
  /\ quality \in [Results -> Visibility]
  /\ decision \in [Results -> Visibility]
  /\ saga \in [Finalizers -> SagaCalls]
  /\ import \in [Importers -> [at : ImportSteps, result : Results]]
  /\ failures \in 0 .. MaxFailures

Init ==
  /\ \E outputs \in [Runs -> [Stages -> Digests]], memory \in [Runs -> {{}, {"enabled"}}] :
       records = [r \in Runs |-> ReadyRecord(outputs[r], memory[r])]
  /\ staged = [x \in Results |-> Nothing]
  /\ published = [x \in Results |-> Nothing]
  /\ quality = [x \in Results |-> "none"]
  /\ decision = [x \in Results |-> "none"]
  /\ saga = [f \in Finalizers |-> Idle]
  /\ \E result \in [Importers -> Results] :
       import = [i \in Importers |-> [at |-> "start", result |-> result[i]]]
  /\ failures = 0

-----------------------------------------------------------------------------
(* The stores                                                                *)

\* RunStore.stage overwrites a staged bundle of the same result.
StageBundle(result, origin) == staged' = [staged EXCEPT ![result] = origin]

\* RunStore.publish_staged: the staged bundle replaces a published one, and a
\* staged file that cannot be unlinked stays.
PublishBundle(result) ==
  \/ /\ staged[result] = Nothing
     /\ published[result] # Nothing
     /\ UNCHANGED <<staged, published>>
  \/ /\ staged[result] # Nothing
     /\ published' = [published EXCEPT ![result] = staged[result]]
     /\ \E left \in {Nothing, staged[result]} : staged' = [staged EXCEPT ![result] = left]

\* Variant with a fault: the row or registration is not written.
StagedUnwritten(index, name) == index

\* Variant with a fault: staging again hides what was published.
StagedAnew(index, name) == [index EXCEPT ![name] = "staged"]

\* stage_registration, stage_final_decision: a known entry stays as it is.
Staged(index, name) == IF index[name] = "none" THEN [index EXCEPT ![name] = "staged"] ELSE index

\* publish_registration, publish_decision.
Published(index, name) == [index EXCEPT ![name] = "published"]

\* Variant with a fault: the decision memory is not waited for.
ReadyWithoutMemory(run) ==
  LET r == records[run]
  IN  /\ r.status = "completed"
      /\ published[r.result] # Nothing
      /\ quality[r.final] = "published"

\* CompanyAnalyticsCoordinator.control: the stores that decide whether a
\* publication is still pending.
PublicationReady(run) ==
  LET r == records[run]
  IN  /\ r.status = "completed"
      /\ published[r.result] # Nothing
      /\ "enabled" \in r.memory => decision[r.result] = "published"
      /\ quality[r.final] = "published"

-----------------------------------------------------------------------------
(* finalize                                                                  *)

At(f, step) == saga[f].at = step
Goto(f, step) == saga' = [saga EXCEPT ![f].at = step]
Return(f) == saga' = [saga EXCEPT ![f] = Idle]

\* The result that the call publishes.
Result(f) == saga[f].local.final

\* LifecycleStore.update against the revision of the record the call holds.
Update(f, new, next) ==
  LET run == saga[f].run
  IN  /\ records[run].revision = saga[f].local.revision
      /\ ValidRecord(new)
      /\ records' = [records EXCEPT ![run] = Revised(new, records[run].revision)]
      /\ saga' = [saga EXCEPT ![f].local = records'[run], ![f].at = next]

\* finalize is refused unless its caller names the current revision.
ReadRecord(f, run) ==
  /\ saga[f] = Idle
  /\ CanFinalize(records[run])
  /\ saga' = [saga EXCEPT ![f] =
       [at |-> IF records[run].status = "running" THEN "begin" ELSE "stage",
        run |-> run, local |-> records[run]]]
  /\ UNCHANGED <<records, stores>>

Begin(f) ==
  /\ At(f, "begin")
  /\ Update(f, FinalizingRecord(records[saga[f].run]), "stage")
  /\ UNCHANGED stores

Stage(f) ==
  /\ At(f, "stage")
  /\ StageBundle(Result(f), saga[f].run)
  /\ Goto(f, "stage_sidecars")
  /\ UNCHANGED <<records, published, quality, decision>>

AfterStaging(r) == IF r.status = "finalizing" THEN "complete" ELSE "restage"

StageSidecars(f) ==
  /\ At(f, "stage_sidecars")
  /\ quality' = Staged(quality, Result(f))
  /\ LET r == saga[f].local
     IN  Goto(f, IF "enabled" \in r.memory /\ "staged" \notin r.memory
                   THEN "stage_memory" ELSE AfterStaging(r))
  /\ UNCHANGED <<records, staged, published, decision>>

StageMemory(f) ==
  /\ At(f, "stage_memory")
  /\ decision' = Staged(decision, Result(f))
  /\ Goto(f, "retain_stage")
  /\ UNCHANGED <<records, staged, published, quality>>

RetainMemoryStage(f) ==
  /\ At(f, "retain_stage")
  /\ Update(f, MemoryStagedRecord(records[saga[f].run]), AfterStaging(saga[f].local))
  /\ UNCHANGED stores

Complete(f) ==
  /\ At(f, "complete")
  /\ Update(f, CompletedRecord(records[saga[f].run]), "restage")
  /\ UNCHANGED stores

\* Variant with a fault: the sidecars are not published before the result.
RestageBeforeResult(f) ==
  /\ At(f, "restage")
  /\ StageBundle(Result(f), saga[f].run)
  /\ Goto(f, "publish")
  /\ UNCHANGED <<records, published, quality, decision>>

Restage(f) ==
  /\ At(f, "restage")
  /\ StageBundle(Result(f), saga[f].run)
  /\ Goto(f, "publish_sidecars")
  /\ UNCHANGED <<records, published, quality, decision>>

PublishSidecars(f) ==
  /\ At(f, "publish_sidecars")
  /\ quality[Result(f)] # "none"
  /\ quality' = Published(quality, Result(f))
  /\ Goto(f, "publish")
  /\ UNCHANGED <<records, staged, published, decision>>

PublishResult(f) ==
  /\ At(f, "publish")
  /\ PublishBundle(Result(f))
  /\ IF "enabled" \in saga[f].local.memory THEN Goto(f, "publish_memory") ELSE Return(f)
  /\ UNCHANGED <<records, quality, decision>>

PublishMemory(f) ==
  /\ At(f, "publish_memory")
  /\ decision[Result(f)] # "none"
  /\ decision' = Published(decision, Result(f))
  /\ IF "written" \in saga[f].local.memory THEN Return(f) ELSE Goto(f, "retain_write")
  /\ UNCHANGED <<records, staged, published, quality>>

RetainMemoryWrite(f) ==
  /\ At(f, "retain_write")
  /\ records[saga[f].run].revision = saga[f].local.revision
  /\ records' = [records EXCEPT ![saga[f].run] =
       Revised(MemoryWrittenRecord(@), saga[f].local.revision)]
  /\ Return(f)
  /\ UNCHANGED stores

\* RevisionConflict: another call moved the record since this one read it.
Conflict(f) ==
  /\ saga[f] # Idle
  /\ saga[f].at \in {"begin", "retain_stage", "complete", "retain_write"}
  /\ records[saga[f].run].revision # saga[f].local.revision
  /\ Return(f)
  /\ UNCHANGED <<records, stores>>

SagaStep(f) ==
  \/ Begin(f) \/ Stage(f) \/ StageSidecars(f) \/ StageMemory(f) \/ RetainMemoryStage(f)
  \/ Complete(f) \/ Restage(f) \/ PublishSidecars(f) \/ PublishResult(f)
  \/ PublishMemory(f) \/ RetainMemoryWrite(f) \/ Conflict(f)

\* Variant with a fault: a run that is being published can be cancelled.
RequestCancelLate(run) ==
  /\ records[run].status \in {"running", "finalizing"}
  /\ records' = [records EXCEPT ![run] = Revised(CancelRequestedRecord(@), @.revision)]
  /\ UNCHANGED <<stores, saga>>

\* request_cancel; the caller names the current revision.
RequestCancel(run) ==
  /\ records[run].status = "running"
  /\ records' = [records EXCEPT ![run] = Revised(CancelRequestedRecord(@), @.revision)]
  /\ UNCHANGED <<stores, saga>>

-----------------------------------------------------------------------------
(* Direct import: the result store is looked at, then written                *)

ImportAt(i, step) == import[i].at = step
ImportGoto(i, step) == import' = [import EXCEPT ![i].at = step]

StageImportSidecars(i) ==
  /\ ImportAt(i, "start")
  /\ quality' = Staged(quality, import[i].result)
  /\ ImportGoto(i, "look")
  /\ UNCHANGED <<staged, published, decision>>

\* A bundle of the same name that is not the draft is a conflict.
LookForPublished(i) ==
  /\ ImportAt(i, "look")
  /\ LET known == published[import[i].result]
     IN  ImportGoto(i, IF known = Nothing THEN "look_staged"
                       ELSE IF known = Import THEN "publish_sidecars" ELSE "refused")
  /\ UNCHANGED stores

LookForStaged(i) ==
  /\ ImportAt(i, "look_staged")
  /\ LET known == staged[import[i].result]
     IN  ImportGoto(i, IF known = Nothing THEN "stage"
                       ELSE IF known = Import THEN "publish" ELSE "refused")
  /\ UNCHANGED stores

StageImport(i) ==
  /\ ImportAt(i, "stage")
  /\ StageBundle(import[i].result, Import)
  /\ ImportGoto(i, "publish")
  /\ UNCHANGED <<published, quality, decision>>

PublishImport(i) ==
  /\ ImportAt(i, "publish")
  /\ PublishBundle(import[i].result)
  /\ ImportGoto(i, "publish_sidecars")
  /\ UNCHANGED <<quality, decision>>

PublishImportSidecars(i) ==
  /\ ImportAt(i, "publish_sidecars")
  /\ quality[import[i].result] # "none"
  /\ quality' = Published(quality, import[i].result)
  /\ ImportGoto(i, "done")
  /\ UNCHANGED <<staged, published, decision>>

ImportStep(i) ==
  \/ StageImportSidecars(i) \/ LookForPublished(i) \/ LookForStaged(i)
  \/ StageImport(i) \/ PublishImport(i) \/ PublishImportSidecars(i)

-----------------------------------------------------------------------------
\* A store operation raises, or the process dies: the call is gone.
FailFinalize(f) ==
  /\ failures < MaxFailures
  /\ saga[f] # Idle
  /\ Return(f)
  /\ failures' = failures + 1
  /\ UNCHANGED <<records, stores, import>>

FailImport(i) ==
  /\ failures < MaxFailures
  /\ import[i].at \notin {"start", "done"}
  /\ ImportGoto(i, "start")
  /\ failures' = failures + 1
  /\ UNCHANGED <<records, stores, saga>>

Next ==
  \/ \E f \in Finalizers :
       \/ \E run \in Runs : ReadRecord(f, run) /\ UNCHANGED <<import, failures>>
       \/ SagaStep(f) /\ UNCHANGED <<import, failures>>
       \/ FailFinalize(f)
  \/ \E i \in Importers : ImportStep(i) /\ UNCHANGED <<records, saga, failures>>
  \/ \E i \in Importers : FailImport(i)
  \/ \E run \in Runs : RequestCancel(run) /\ UNCHANGED <<import, failures>>

\* finalize is called again while the publication is pending: for every such
\* run, however often a process is busy with another one.
Retry(f, run) ==
  /\ ~ PublicationReady(run)
  /\ ReadRecord(f, run)
  /\ UNCHANGED <<import, failures>>

Fairness ==
  \A f \in Finalizers :
    /\ WF_vars(SagaStep(f) /\ UNCHANGED <<import, failures>>)
    /\ \A run \in Runs : SF_vars(Retry(f, run))

Spec == Init /\ [][Next]_vars

-----------------------------------------------------------------------------
(* Properties                                                                *)

\* No operation of the saga finds missing what an earlier one wrote, whoever
\* published, unlinked or died in between: publish_registration,
\* publish_staged and publish_decision never raise KeyError.
NothingIsMissing ==
  /\ \A f \in Finalizers :
       /\ At(f, "publish_sidecars") => quality[Result(f)] # "none"
       /\ At(f, "publish") => {staged[Result(f)], published[Result(f)]} # {Nothing}
       /\ At(f, "publish_memory") => decision[Result(f)] # "none"
  /\ \A i \in Importers :
       ImportAt(i, "publish") =>
         {staged[import[i].result], published[import[i].result]} # {Nothing}

\* A bundle of a lifecycle is readable only once its run is completed and its
\* sidecars are published ("so a sidecar failure cannot expose a partial run").
ResultFollowsSidecars ==
  \A x \in Results :
    published[x] \in Runs =>
      /\ quality[x] = "published"
      /\ records[published[x]].status = "completed"

\* require_completed_publication and get, asked for a result at one moment.
Served(x) ==
  /\ published[x] # Nothing
  /\ published[x] \in Runs => PublicationReady(published[x])

\* A run whose control called it completed is never pending again, though
\* other runs and imports of the same content stage and publish anew.
ReadyStaysReady == [][\A run \in Runs : PublicationReady(run) => PublicationReady(run)']_vars

\* The publication of every run becomes visible in one step and for good, and
\* in the end it does, if finalize is retried.
Atomic == INSTANCE AtomicPublication WITH
  phase <- [run \in Runs |->
              CASE records[run].status = "running" -> "open"
                [] records[run].status \in {"finalizing", "completed"} -> "sealed"
                [] OTHER -> "stopped"],
  visible <- {run \in Runs : Served(records[run].final)}

ImplementsAtomicPublication == Atomic!Spec

=============================================================================
