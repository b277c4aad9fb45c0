--------------------------- MODULE PublicationProofs ---------------------------
(***************************************************************************)
(* Proofs about PublicationSaga and PublicationReaders: what finalize has  *)
(* written when it is retried or interrupted anywhere, that a publication  *)
(* becomes visible in one step and for good, and what readers and pollers  *)
(* observe of it meanwhile.                                                *)
(***************************************************************************)
EXTENDS PublicationReaders, LifecycleRecordProofs, FiniteSetTheorems

-----------------------------------------------------------------------------
(* The invariant of the saga                                                 *)

\* A record of which every stage is committed.
SagaRecord(r) ==
  /\ r \in Records
  /\ r.final \in Results
  /\ r.status \in {"running", "cancel_requested", "finalizing", "completed"}
  /\ r.status = "completed" => r.result = r.final
  /\ r.status = "completed" /\ "enabled" \in r.memory => "staged" \in r.memory

\* What a record can have become: its content stays, nothing is taken back.
Later(old, new) ==
  /\ new.final = old.final
  /\ old.revision <= new.revision
  /\ old.revision = new.revision => old = new
  /\ "enabled" \in new.memory <=> "enabled" \in old.memory
  /\ "staged" \in old.memory => "staged" \in new.memory
  /\ old.status = "finalizing" => new.status \in {"finalizing", "completed"}
  /\ old.status = "cancel_requested" => new.status = "cancel_requested"
  /\ old.events <= new.events
  /\ old.status = "completed" => new.status = "completed" /\ new.events = old.events
  /\ old.status # "completed" /\ new.status = "completed" => old.events < new.events

HasBundle(x) == staged[x] # Nothing \/ published[x] # Nothing

\* What a finalizer knows of its record at each step, and which stores have
\* what the steps before it wrote.
Staging == {"stage", "stage_sidecars", "stage_memory", "retain_stage"}
Publishing == {"restage", "publish_sidecars", "publish", "publish_memory", "retain_write"}

KnowsRecord(k) ==
  /\ SagaRecord(k.local)
  /\ Later(k.local, records[k.run])
  /\ k.at = "begin" => k.local.status = "running"
  /\ k.at \in Staging => k.local.status \in {"finalizing", "completed"}
  /\ k.at \in {"stage_memory", "retain_stage"} =>
       "enabled" \in k.local.memory /\ "staged" \notin k.local.memory
  /\ k.at = "complete" =>
       /\ k.local.status = "finalizing"
       /\ "enabled" \in k.local.memory => "staged" \in k.local.memory
  /\ k.at \in Publishing => k.local.status = "completed"
  /\ k.at = "publish_memory" => "enabled" \in k.local.memory

KnowsStores(k) ==
  LET x == k.local.final
  IN  /\ k.at \in {"stage_memory", "retain_stage", "complete"} \cup Publishing =>
           quality[x] # "none"
      /\ k.at = "retain_stage" => decision[x] # "none"
      /\ k.at \in Publishing \ {"restage"} => HasBundle(x)
      /\ k.at \in {"publish", "publish_memory", "retain_write"} => quality[x] = "published"

Knows(f) == saga[f] # Idle => KnowsRecord(saga[f]) /\ KnowsStores(saga[f])

\* A record that has the receipt of a staged decision has the decision.
Receipted(run) == "staged" \in records[run].memory => decision[records[run].final] # "none"

\* The origin of a bundle is a run of its content, sealed before it staged it.
Origin(x, bundle) ==
  bundle \in Runs =>
    /\ records[bundle].final = x
    /\ records[bundle].status \in {"finalizing", "completed"}

SagaInv ==
  /\ TypeOK
  /\ \A run \in Runs : SagaRecord(records[run]) /\ Receipted(run)
  /\ \A f \in Finalizers : Knows(f)
  /\ \A x \in Results : Origin(x, staged[x]) /\ Origin(x, published[x])
  /\ \A i \in Importers : ImportAt(i, "publish") => HasBundle(import[i].result)

-----------------------------------------------------------------------------
(* Records                                                                   *)

LEMMA ReadyContent ==
  ASSUME NEW outputs \in [Stages -> Digests], NEW memory \in {{}, {"enabled"}}
  PROVE  /\ ReadyRecord(outputs, memory) \in Records
         /\ ReadyRecord(outputs, memory).final \in Results
         /\ ReadyRecord(outputs, memory).status = "running"
         /\ ReadyRecord(outputs, memory).memory = memory
  <1> DEFINE commitments == [i \in Stages |-> [stage |-> i, attempt |-> 1, digest |-> outputs[i]]]
             completed == [i \in Stages |-> i]
             attempts == [s \in Stages |-> 1]
             r1 == [AbsentRecord EXCEPT !.status = "running", !.revision = NStages + 1,
                                        !.events = NStages + 2]
             r2 == [r1 EXCEPT !.completed = completed, !.outputs = outputs,
                              !.commitments = commitments]
             r3 == [r2 EXCEPT !.final = commitments, !.attempts = attempts, !.memory = memory]
  <1>1. Stages = 1 .. NStages /\ NStages \in Nat
    BY RecordAssumption DEF Stages
  <1>2. completed \in StageSeqs /\ outputs \in DigestSeqs
    BY <1>1 DEF StageSeqs, DigestSeqs
  <1>3. commitments \in CommitmentSeqs
    <2>1. \A i \in Stages : commitments[i] \in Commitments
      BY DEF Commitments, Attempts
    <2> QED BY <1>1, <2>1 DEF CommitmentSeqs
  <1>4. attempts \in AttemptCounts /\ memory \in MemoryFlags
    BY DEF AttemptCounts, MemoryFlags
  <1> HIDE DEF completed, commitments, attempts
  <1>5. r1 \in Records
    <2>1. NStages + 1 \in Nat /\ NStages + 2 \in Nat
      BY <1>1
    <2> QED BY <2>1, AbsentType, StatusNames DEF Records
  <1>6. r2 \in Records
    BY <1>2, <1>3, <1>5 DEF Records
  <1>7. r3 \in Records /\ r3.final = commitments /\ r3.status = "running" /\ r3.memory = memory
    BY <1>3, <1>4, <1>6, AbsentType DEF Records
  <1>8. ReadyRecord(outputs, memory) = r3
    BY AbsentType DEF ReadyRecord, commitments, completed, attempts, Records
  <1>9. commitments = ReadyRecord(outputs, {}).final
    BY AbsentType DEF ReadyRecord, commitments, Records
  <1>10. commitments \in Results
    BY <1>9 DEF Results
  <1> QED BY <1>7, <1>8, <1>10

LEMMA LaterSame == ASSUME NEW r \in Records PROVE Later(r, r)
  BY DEF Later, Records

LEMMA LaterChain ==
  ASSUME NEW r \in Records, NEW s \in Records, NEW t \in Records, Later(r, s), Later(s, t)
  PROVE  Later(r, t)
  <1>1. r.revision \in Nat /\ s.revision \in Nat /\ t.revision \in Nat
    BY DEF Records
  <1>2. r.revision = t.revision => r = t
    BY <1>1 DEF Later
  <1>3. r.events \in Nat /\ s.events \in Nat /\ t.events \in Nat
    BY DEF Records
  <1> QED BY <1>1, <1>2, <1>3 DEF Later

LEMMA FinalizingMoves ==
  ASSUME NEW r, SagaRecord(r), r.status = "running"
  PROVE  LET s == Revised(FinalizingRecord(r), r.revision)
         IN  /\ SagaRecord(s) /\ Later(r, s) /\ s.revision = r.revision + 1
             /\ s.status = "finalizing" /\ s.memory = r.memory
  <1> DEFINE s == Revised(FinalizingRecord(r), r.revision)
  <1>1. r \in Records /\ r.revision \in Nat /\ r.events \in Nat
    BY DEF SagaRecord, Records
  <1>2. s \in Records
    BY <1>1, FinalizingType, RevisedType
  <1>3. /\ s.revision = r.revision + 1 /\ s.final = r.final /\ s.memory = r.memory
        /\ s.status = "finalizing" /\ s.events = r.events + 1
    BY <1>1 DEF FinalizingRecord, Emit, Revised, Records
  <1> HIDE DEF s
  <1>4. SagaRecord(s) /\ Later(r, s)
    BY <1>1, <1>2, <1>3 DEF SagaRecord, Later
  <1> QED BY <1>3, <1>4 DEF s

LEMMA CancelMoves ==
  ASSUME NEW r, SagaRecord(r), r.status = "running"
  PROVE  LET s == Revised(CancelRequestedRecord(r), r.revision)
         IN  /\ SagaRecord(s) /\ Later(r, s) /\ s.revision = r.revision + 1
             /\ s.status = "cancel_requested" /\ s.memory = r.memory
  <1> DEFINE s == Revised(CancelRequestedRecord(r), r.revision)
  <1>1. r \in Records /\ r.revision \in Nat /\ r.events \in Nat
    BY DEF SagaRecord, Records
  <1>2. s \in Records
    BY <1>1, CancelRequestedType, RevisedType
  <1>3. /\ s.revision = r.revision + 1 /\ s.final = r.final /\ s.memory = r.memory
        /\ s.status = "cancel_requested" /\ s.events = r.events + 1
    BY <1>1 DEF CancelRequestedRecord, Emit, Revised, Records
  <1> HIDE DEF s
  <1>4. SagaRecord(s) /\ Later(r, s)
    BY <1>1, <1>2, <1>3 DEF SagaRecord, Later
  <1> QED BY <1>3, <1>4 DEF s

LEMMA MemoryStagedMoves ==
  ASSUME NEW r, SagaRecord(r), r.status = "finalizing"
  PROVE  LET s == Revised(MemoryStagedRecord(r), r.revision)
         IN  /\ SagaRecord(s) /\ Later(r, s) /\ s.revision = r.revision + 1
             /\ s.status = r.status /\ "staged" \in s.memory
  <1> DEFINE s == Revised(MemoryStagedRecord(r), r.revision)
  <1>1. r \in Records /\ r.revision \in Nat /\ r.events \in Nat
    BY DEF SagaRecord, Records
  <1>2. s \in Records
    BY <1>1, MemoryType, RevisedType
  <1>3. /\ s.revision = r.revision + 1 /\ s.final = r.final /\ s.memory = r.memory \cup {"staged"}
        /\ s.status = r.status /\ s.result = r.result /\ s.events = r.events + 1
    BY <1>1 DEF MemoryStagedRecord, Emit, Revised, Records
  <1> HIDE DEF s
  <1>4. SagaRecord(s) /\ Later(r, s)
    BY <1>1, <1>2, <1>3 DEF SagaRecord, Later
  <1> QED BY <1>3, <1>4 DEF s

LEMMA MemoryWrittenMoves ==
  ASSUME NEW r, SagaRecord(r)
  PROVE  LET s == Revised(MemoryWrittenRecord(r), r.revision)
         IN  /\ SagaRecord(s) /\ Later(r, s)
             /\ s.revision = r.revision + 1 /\ s.status = r.status /\ s.events = r.events
             /\ "staged" \in s.memory <=> "staged" \in r.memory
  <1> DEFINE s == Revised(MemoryWrittenRecord(r), r.revision)
  <1>1. r \in Records /\ r.revision \in Nat /\ r.events \in Nat
    BY DEF SagaRecord, Records
  <1>2. s \in Records
    BY <1>1, MemoryType, RevisedType
  <1>3. /\ s.revision = r.revision + 1 /\ s.final = r.final /\ s.memory = r.memory \cup {"written"}
        /\ s.status = r.status /\ s.result = r.result /\ s.events = r.events
    BY <1>1 DEF MemoryWrittenRecord, Revised, Records
  <1> HIDE DEF s
  <1>4. SagaRecord(s) /\ Later(r, s)
    BY <1>1, <1>2, <1>3 DEF SagaRecord, Later
  <1> QED BY <1>3, <1>4 DEF s

LEMMA CompletedMoves ==
  ASSUME NEW r, SagaRecord(r), r.status = "finalizing",
         "enabled" \in r.memory => "staged" \in r.memory
  PROVE  LET s == Revised(CompletedRecord(r), r.revision)
         IN  /\ SagaRecord(s) /\ Later(r, s) /\ s.revision = r.revision + 1
             /\ s.status = "completed" /\ s.memory = r.memory
  <1> DEFINE s == Revised(CompletedRecord(r), r.revision)
  <1>1. r \in Records /\ r.revision \in Nat /\ r.events \in Nat
    BY DEF SagaRecord, Records
  <1>2. s \in Records
    BY <1>1, CompletedType, RevisedType
  <1>3. /\ s.revision = r.revision + 1 /\ s.final = r.final /\ s.memory = r.memory
        /\ s.status = "completed" /\ s.result = r.final /\ s.events = r.events + 1
    BY <1>1 DEF CompletedRecord, Emit, Revised, Records
  <1> HIDE DEF s
  <1>4. SagaRecord(s) /\ Later(r, s)
    BY <1>1, <1>2, <1>3 DEF SagaRecord, Later
  <1> QED BY <1>3, <1>4 DEF s

-----------------------------------------------------------------------------
(* Nothing that finalize wrote is taken back                                 *)

RecordsGrow == \A run \in Runs : Later(records[run], records'[run])

StoresGrow ==
  \A x \in Results :
    /\ HasBundle(x) => HasBundle(x)'
    /\ published[x] # Nothing => published'[x] # Nothing
    /\ quality[x] # "none" => quality'[x] # "none"
    /\ quality[x] = "published" => quality'[x] = "published"
    /\ decision[x] # "none" => decision'[x] # "none"
    /\ decision[x] = "published" => decision'[x] = "published"

Kept == SagaInv' /\ RecordsGrow /\ StoresGrow

\* There is a bundle after the step.
Stored(x) == staged'[x] # Nothing \/ published'[x] # Nothing

StoreTypes ==
  /\ staged \in [Results -> Bundles]
  /\ published \in [Results -> Bundles]
  /\ quality \in [Results -> Visibility]
  /\ decision \in [Results -> Visibility]

Origins == \A x \in Results : Origin(x, staged[x]) /\ Origin(x, published[x])

LEMMA CallFields ==
  ASSUME NEW k \in SagaCalls
  PROVE  /\ k # Idle <=> k \in [at : FinalizeSteps, run : Runs, local : Records]
         /\ k.at \in FinalizeSteps <=> k # Idle
  <1>1. Idle.at \notin FinalizeSteps
    BY DEF Idle, FinalizeSteps
  <1> QED BY <1>1 DEF SagaCalls

LEMMA KnowsStill ==
  ASSUME SagaInv, RecordsGrow, StoresGrow, records' \in [Runs -> Records],
         NEW f \in Finalizers, saga'[f] = saga[f]
  PROVE  Knows(f)'
  <1> SUFFICES ASSUME saga[f] # Idle PROVE KnowsRecord(saga[f])' /\ KnowsStores(saga[f])'
    BY DEF Knows
  <1> DEFINE k == saga[f]
  <1>1. KnowsRecord(k) /\ KnowsStores(k)
    BY DEF SagaInv, Knows
  <1>2. k.run \in Runs /\ k.local \in Records
    BY CallFields DEF SagaInv, TypeOK
  <1>3. k.local.final \in Results
    BY <1>1 DEF KnowsRecord, SagaRecord
  <1>4. Later(k.local, records'[k.run])
    BY <1>1, <1>2, LaterChain DEF KnowsRecord, RecordsGrow, SagaInv, TypeOK
  <1>5. k' = k
    OBVIOUS
  <1> HIDE DEF k
  <1>6. KnowsRecord(k)'
    BY <1>1, <1>4, <1>5 DEF KnowsRecord
  <1>7. KnowsStores(k)'
    BY <1>1, <1>3, <1>5 DEF KnowsStores, StoresGrow
  <1> QED BY <1>6, <1>7 DEF k

LEMMA StepKeeps ==
  ASSUME SagaInv, NEW f \in Finalizers,
         records' \in [Runs -> Records], RecordsGrow, StoreTypes', StoresGrow, Origins',
         \A run \in Runs : SagaRecord(records'[run]) /\ Receipted(run)',
         saga' \in [Finalizers -> SagaCalls], Knows(f)',
         \A g \in Finalizers : g # f => saga'[g] = saga[g],
         import' = import, failures' \in 0 .. MaxFailures
  PROVE  Kept
  <1>1. TypeOK'
    BY DEF SagaInv, TypeOK, StoreTypes
  <1>2. \A g \in Finalizers : Knows(g)'
    BY KnowsStill
  <1>3. \A i \in Importers : ImportAt(i, "publish")' => HasBundle(import[i].result)'
    BY DEF SagaInv, TypeOK, ImportAt, StoresGrow
  <1> QED BY <1>1, <1>2, <1>3 DEF SagaInv, Origins, Kept

\* Steps of finalize that write to a store only.
LEMMA StoreStepKeeps ==
  ASSUME SagaInv, NEW f \in Finalizers, records' = records, StoreTypes', StoresGrow, Origins',
         saga' \in [Finalizers -> SagaCalls], Knows(f)',
         \A g \in Finalizers : g # f => saga'[g] = saga[g],
         UNCHANGED <<import, failures>>
  PROVE  Kept
  <1>1. RecordsGrow /\ records' \in [Runs -> Records]
    BY LaterSame DEF RecordsGrow, SagaInv, TypeOK
  <1>2. \A run \in Runs : SagaRecord(records'[run]) /\ Receipted(run)'
    BY DEF SagaInv, SagaRecord, Receipted, StoresGrow
  <1>3. failures' \in 0 .. MaxFailures
    BY DEF SagaInv, TypeOK
  <1> QED BY <1>1, <1>2, <1>3, StepKeeps

LEMMA StagedIndex ==
  ASSUME NEW index \in [Results -> Visibility], NEW x \in Results
  PROVE  /\ Staged(index, x) \in [Results -> Visibility]
         /\ Staged(index, x)[x] # "none"
         /\ \A y \in Results : index[y] # "none" => Staged(index, x)[y] = index[y]
  BY DEF Staged, Visibility

LEMMA PublishedIndex ==
  ASSUME NEW index \in [Results -> Visibility], NEW x \in Results
  PROVE  /\ Published(index, x) \in [Results -> Visibility]
         /\ Published(index, x)[x] = "published"
         /\ \A y \in Results : y # x => Published(index, x)[y] = index[y]
  BY DEF Published, Visibility

LEMMA StageGrows ==
  ASSUME SagaInv, NEW x \in Results, NEW o \in Runs \cup {Import}, StageBundle(x, o),
         UNCHANGED <<published, quality, decision, records>>, Origin(x, o)
  PROVE  StoreTypes' /\ StoresGrow /\ Origins' /\ Stored(x)
  <1> USE DEF SagaInv, TypeOK, StoreTypes, StageBundle, Bundles
  <1>1. /\ staged' \in [Results -> Bundles] /\ staged'[x] = o
        /\ \A y \in Results : y # x => staged'[y] = staged[y]
    OBVIOUS
  <1>2. StoreTypes'
    BY <1>1
  <1>3. StoresGrow /\ Stored(x)
    BY <1>1, SagaAssumption DEF StoresGrow, HasBundle, Stored
  <1>4. Origins'
    BY <1>1 DEF Origins, Origin
  <1> QED BY <1>2, <1>3, <1>4

LEMMA PublishGrows ==
  ASSUME SagaInv, NEW x \in Results, PublishBundle(x),
         UNCHANGED <<quality, decision, records>>
  PROVE  StoreTypes' /\ StoresGrow /\ Origins' /\ Stored(x)
  <1> USE DEF SagaInv, TypeOK, StoreTypes, PublishBundle, Bundles
  <1>1. /\ staged' \in [Results -> Bundles] /\ published' \in [Results -> Bundles]
        /\ published'[x] # Nothing
        /\ staged'[x] \in {Nothing, staged[x]} /\ published'[x] \in {published[x], staged[x]}
        /\ \A y \in Results : y # x => staged'[y] = staged[y] /\ published'[y] = published[y]
    OBVIOUS
  <1>2. StoreTypes'
    BY <1>1
  <1>3. StoresGrow /\ Stored(x)
    BY <1>1 DEF StoresGrow, HasBundle, Stored
  <1>4. Origins'
    BY <1>1, SagaAssumption DEF Origins, Origin
  <1> QED BY <1>2, <1>3, <1>4

-----------------------------------------------------------------------------
(* The steps of finalize                                                     *)

LEMMA Goes ==
  ASSUME SagaInv, NEW f \in Finalizers, NEW step \in FinalizeSteps, saga[f] # Idle, Goto(f, step)
  PROVE  /\ saga' \in [Finalizers -> SagaCalls]
         /\ saga'[f] # Idle /\ saga'[f].at = step
         /\ saga'[f].run = saga[f].run /\ saga'[f].local = saga[f].local
         /\ \A g \in Finalizers : g # f => saga'[g] = saga[g]
  <1>1. saga \in [Finalizers -> SagaCalls]
    BY DEF SagaInv, TypeOK
  <1>2. saga[f] \in [at : FinalizeSteps, run : Runs, local : Records]
    BY <1>1, CallFields
  <1> DEFINE k == [saga[f] EXCEPT !.at = step]
  <1>3. /\ k \in [at : FinalizeSteps, run : Runs, local : Records]
        /\ k.at = step /\ k.run = saga[f].run /\ k.local = saga[f].local
    BY <1>2
  <1>4. k \in SagaCalls
    BY <1>3 DEF SagaCalls
  <1>5. saga'[f] = k /\ \A g \in Finalizers : g # f => saga'[g] = saga[g]
    BY <1>1 DEF Goto
  <1>6. saga' \in [Finalizers -> SagaCalls]
    BY <1>1, <1>4 DEF Goto
  <1> QED BY <1>3, <1>4, <1>5, <1>6, CallFields

LEMMA Returns ==
  ASSUME SagaInv, NEW f \in Finalizers, Return(f)
  PROVE  /\ saga' \in [Finalizers -> SagaCalls]
         /\ Knows(f)'
         /\ \A g \in Finalizers : g # f => saga'[g] = saga[g]
  BY DEF SagaInv, TypeOK, Return, SagaCalls, Knows

\* A finalizer that is not idle knows its record and what the stores have.
LEMMA Here ==
  ASSUME SagaInv, NEW f \in Finalizers, saga[f] # Idle
  PROVE  /\ saga[f].run \in Runs /\ saga[f].local \in Records
         /\ saga[f].at \in FinalizeSteps
         /\ Result(f) \in Results /\ Result(f) = records[saga[f].run].final
         /\ KnowsRecord(saga[f]) /\ KnowsStores(saga[f])
         /\ SagaRecord(records[saga[f].run])
         /\ saga[f].local.revision = records[saga[f].run].revision =>
              saga[f].local = records[saga[f].run]
  <1>1. saga[f] \in [at : FinalizeSteps, run : Runs, local : Records]
    BY CallFields DEF SagaInv, TypeOK
  <1>2. KnowsRecord(saga[f]) /\ KnowsStores(saga[f])
    BY DEF SagaInv, Knows
  <1> QED BY <1>1, <1>2 DEF SagaInv, KnowsRecord, SagaRecord, Later, Result

LEMMA NotIdle ==
  ASSUME SagaInv, NEW f \in Finalizers, saga[f].at \in FinalizeSteps
  PROVE  saga[f] # Idle
  BY CallFields DEF SagaInv, TypeOK

\* A step to another place keeps what the call knows of its record, if that
\* is what the place requires.
LEMMA KnowsOn ==
  ASSUME SagaInv, NEW f \in Finalizers, NEW step \in FinalizeSteps, saga[f] # Idle,
         Goto(f, step), records' = records,
         step \in Staging => saga[f].local.status \in {"finalizing", "completed"},
         step \in {"stage_memory", "retain_stage"} =>
           "enabled" \in saga[f].local.memory /\ "staged" \notin saga[f].local.memory,
         step = "complete" =>
           /\ saga[f].local.status = "finalizing"
           /\ "enabled" \in saga[f].local.memory => "staged" \in saga[f].local.memory,
         step \in Publishing => saga[f].local.status = "completed",
         step = "publish_memory" => "enabled" \in saga[f].local.memory,
         step # "begin"
  PROVE  KnowsRecord(saga[f])'
  <1>1. KnowsRecord(saga[f])
    BY Here
  <1>2. /\ saga'[f].at = step
        /\ saga'[f].run = saga[f].run /\ saga'[f].local = saga[f].local
    BY Goes
  <1> QED BY <1>1, <1>2 DEF KnowsRecord

LEMMA StageKeeps ==
  ASSUME SagaInv, NEW f \in Finalizers, Stage(f), UNCHANGED <<import, failures>>
  PROVE  Kept
  <1>1. saga[f] # Idle /\ saga[f].at = "stage"
    BY NotIdle DEF Stage, At, FinalizeSteps
  <1>2. /\ Result(f) \in Results /\ saga[f].run \in Runs
        /\ Origin(Result(f), saga[f].run)
        /\ saga[f].local.status \in {"finalizing", "completed"}
    BY <1>1, Here DEF KnowsRecord, Later, Origin, Staging
  <1>3. StoreTypes' /\ StoresGrow /\ Origins'
    BY <1>2, StageGrows DEF Stage
  <1>4. Goto(f, "stage_sidecars") /\ "stage_sidecars" \in FinalizeSteps /\ records' = records
    BY DEF Stage, FinalizeSteps
  <1>5. KnowsRecord(saga[f])'
    BY <1>1, <1>2, <1>4, KnowsOn DEF Staging, Publishing
  <1>6. KnowsStores(saga[f])'
    BY <1>1, <1>4, Goes DEF KnowsStores, Publishing
  <1> QED BY <1>1, <1>3, <1>4, <1>5, <1>6, Goes, StoreStepKeeps DEF Knows

LEMMA StageSidecarsKeeps ==
  ASSUME SagaInv, NEW f \in Finalizers, StageSidecars(f), UNCHANGED <<import, failures>>
  PROVE  Kept
  <1> DEFINE r == saga[f].local
             next == IF "enabled" \in r.memory /\ "staged" \notin r.memory
                       THEN "stage_memory" ELSE AfterStaging(r)
  <1>1. saga[f] # Idle /\ saga[f].at = "stage_sidecars"
    BY NotIdle DEF StageSidecars, At, FinalizeSteps
  <1>2. Result(f) \in Results /\ r.status \in {"finalizing", "completed"}
    BY <1>1, Here DEF KnowsRecord, Staging
  <1>3. /\ Goto(f, next) /\ next \in FinalizeSteps /\ records' = records
        /\ quality' = Staged(quality, Result(f))
    BY DEF StageSidecars, FinalizeSteps, AfterStaging
  <1>4. UNCHANGED <<staged, published, decision>>
    BY DEF StageSidecars
  <1>5. /\ quality' \in [Results -> Visibility] /\ quality'[Result(f)] # "none"
        /\ \A x \in Results : quality[x] # "none" => quality'[x] = quality[x]
    BY <1>2, <1>3, StagedIndex DEF SagaInv, TypeOK
  <1>6. StoreTypes' /\ StoresGrow /\ Origins'
    BY <1>3, <1>4, <1>5 DEF SagaInv, TypeOK, StoreTypes, StoresGrow, HasBundle, Origins, Origin
  <1>7. next \in {"stage_memory", "complete", "restage"}
    BY DEF AfterStaging
  <1>8. KnowsRecord(saga[f])'
    BY <1>1, <1>2, <1>3, KnowsOn DEF Staging, Publishing, AfterStaging
  <1> HIDE DEF next
  <1>9. KnowsStores(saga[f])'
    BY <1>1, <1>3, <1>5, <1>7, Goes DEF KnowsStores, Publishing, Result
  <1> QED BY <1>1, <1>3, <1>6, <1>8, <1>9, Goes, StoreStepKeeps DEF Knows, StageSidecars

LEMMA StageMemoryKeeps ==
  ASSUME SagaInv, NEW f \in Finalizers, StageMemory(f), UNCHANGED <<import, failures>>
  PROVE  Kept
  <1>1. saga[f] # Idle /\ saga[f].at = "stage_memory"
    BY NotIdle DEF StageMemory, At, FinalizeSteps
  <1>2. /\ Result(f) \in Results /\ KnowsRecord(saga[f]) /\ KnowsStores(saga[f])
        /\ saga[f].local.status \in {"finalizing", "completed"}
    BY <1>1, Here DEF KnowsRecord, Staging
  <1>3. /\ Goto(f, "retain_stage") /\ "retain_stage" \in FinalizeSteps /\ records' = records
        /\ decision' = Staged(decision, Result(f)) /\ UNCHANGED <<staged, published, quality>>
    BY DEF StageMemory, FinalizeSteps
  <1>4. /\ decision' \in [Results -> Visibility] /\ decision'[Result(f)] # "none"
        /\ \A x \in Results : decision[x] # "none" => decision'[x] = decision[x]
    BY <1>2, <1>3, StagedIndex DEF SagaInv, TypeOK
  <1>5. StoreTypes' /\ StoresGrow /\ Origins'
    BY <1>3, <1>4 DEF SagaInv, TypeOK, StoreTypes, StoresGrow, HasBundle, Origins, Origin
  <1>6. KnowsRecord(saga[f])'
    BY <1>1, <1>2, <1>3, KnowsOn DEF KnowsRecord, Staging, Publishing
  <1>7. KnowsStores(saga[f])'
    BY <1>1, <1>2, <1>3, <1>4, Goes DEF KnowsStores, Publishing, Result
  <1> QED BY <1>1, <1>3, <1>5, <1>6, <1>7, Goes, StoreStepKeeps DEF Knows

LEMMA RestageKeeps ==
  ASSUME SagaInv, NEW f \in Finalizers, Restage(f), UNCHANGED <<import, failures>>
  PROVE  Kept
  <1>1. saga[f] # Idle /\ saga[f].at = "restage"
    BY NotIdle DEF Restage, At, FinalizeSteps
  <1>2. /\ Result(f) \in Results /\ saga[f].run \in Runs
        /\ Origin(Result(f), saga[f].run)
        /\ KnowsStores(saga[f]) /\ saga[f].local.status = "completed"
    BY <1>1, Here DEF KnowsRecord, Later, Origin, Publishing
  <1>3. /\ StageBundle(Result(f), saga[f].run)
        /\ UNCHANGED <<records, published, quality, decision>>
        /\ Goto(f, "publish_sidecars") /\ "publish_sidecars" \in FinalizeSteps
    BY DEF Restage, FinalizeSteps
  <1>4. StoreTypes' /\ StoresGrow /\ Origins' /\ Stored(Result(f))
    BY <1>2, <1>3, StageGrows
  <1>5. KnowsRecord(saga[f])'
    BY <1>1, <1>2, <1>3, KnowsOn DEF Staging, Publishing
  <1>6. saga'[f].at = "publish_sidecars" /\ saga'[f].local = saga[f].local
    BY <1>1, <1>3, Goes
  <1>7. KnowsStores(saga[f])'
    BY <1>1, <1>2, <1>3, <1>4, <1>6 DEF KnowsStores, Publishing, Result, Stored, HasBundle
  <1> QED BY <1>1, <1>3, <1>4, <1>5, <1>7, Goes, StoreStepKeeps DEF Knows

LEMMA PublishSidecarsKeeps ==
  ASSUME SagaInv, NEW f \in Finalizers, PublishSidecars(f), UNCHANGED <<import, failures>>
  PROVE  Kept
  <1>1. saga[f] # Idle /\ saga[f].at = "publish_sidecars"
    BY NotIdle DEF PublishSidecars, At, FinalizeSteps
  <1>2. /\ Result(f) \in Results
        /\ KnowsStores(saga[f]) /\ saga[f].local.status = "completed"
    BY <1>1, Here DEF KnowsRecord, Publishing
  <1>3. /\ UNCHANGED <<records, staged, published, decision>>
        /\ quality' = Published(quality, Result(f))
        /\ Goto(f, "publish") /\ "publish" \in FinalizeSteps
    BY DEF PublishSidecars, FinalizeSteps
  <1>4. /\ quality' \in [Results -> Visibility] /\ quality'[Result(f)] = "published"
        /\ \A x \in Results : x # Result(f) => quality'[x] = quality[x]
    BY <1>2, <1>3, PublishedIndex DEF SagaInv, TypeOK
  <1>5. StoreTypes' /\ StoresGrow /\ Origins'
    BY <1>3, <1>4 DEF SagaInv, TypeOK, StoreTypes, StoresGrow, HasBundle, Origins, Origin
  <1>6. KnowsRecord(saga[f])'
    BY <1>1, <1>2, <1>3, KnowsOn DEF Staging, Publishing
  <1>7. HasBundle(Result(f))
    BY <1>1, <1>2 DEF KnowsStores, Publishing, Result
  <1>8. saga'[f].at = "publish" /\ saga'[f].local = saga[f].local
    BY <1>1, <1>3, Goes
  <1>9. KnowsStores(saga[f])'
    BY <1>3, <1>4, <1>7, <1>8 DEF KnowsStores, Publishing, Result, HasBundle
  <1> QED BY <1>1, <1>3, <1>5, <1>6, <1>9, Goes, StoreStepKeeps DEF Knows

LEMMA PublishResultKeeps ==
  ASSUME SagaInv, NEW f \in Finalizers, PublishResult(f), UNCHANGED <<import, failures>>
  PROVE  Kept
  <1>1. saga[f] # Idle /\ saga[f].at = "publish"
    BY NotIdle DEF PublishResult, At, FinalizeSteps
  <1>2. /\ Result(f) \in Results
        /\ KnowsStores(saga[f]) /\ saga[f].local.status = "completed"
    BY <1>1, Here DEF KnowsRecord, Publishing
  <1>3. PublishBundle(Result(f)) /\ UNCHANGED <<records, quality, decision>>
    BY DEF PublishResult
  <1>4. StoreTypes' /\ StoresGrow /\ Origins' /\ Stored(Result(f))
    BY <1>2, <1>3, PublishGrows
  <1>5. CASE Return(f)
    BY <1>3, <1>4, <1>5, Returns, StoreStepKeeps
  <1>6. CASE Goto(f, "publish_memory") /\ "enabled" \in saga[f].local.memory
    <2>1. "publish_memory" \in FinalizeSteps
      BY DEF FinalizeSteps
    <2>2. KnowsRecord(saga[f])'
      BY <1>1, <1>2, <1>3, <1>6, <2>1, KnowsOn DEF Staging, Publishing
    <2>3. saga'[f].at = "publish_memory" /\ saga'[f].local = saga[f].local
      BY <1>1, <1>6, <2>1, Goes
    <2>4. quality[Result(f)] = "published"
      BY <1>1, <1>2 DEF KnowsStores, Result
    <2>5. KnowsStores(saga[f])'
      BY <1>3, <1>4, <2>3, <2>4 DEF KnowsStores, Publishing, Result, HasBundle, Stored
    <2> QED BY <1>1, <1>3, <1>4, <1>6, <2>1, <2>2, <2>5, Goes, StoreStepKeeps DEF Knows
  <1> QED BY <1>5, <1>6 DEF PublishResult

LEMMA PublishMemoryKeeps ==
  ASSUME SagaInv, NEW f \in Finalizers, PublishMemory(f), UNCHANGED <<import, failures>>
  PROVE  Kept
  <1>1. saga[f] # Idle /\ saga[f].at = "publish_memory"
    BY NotIdle DEF PublishMemory, At, FinalizeSteps
  <1>2. /\ Result(f) \in Results
        /\ KnowsStores(saga[f]) /\ saga[f].local.status = "completed"
    BY <1>1, Here DEF KnowsRecord, Publishing
  <1>3. /\ UNCHANGED <<records, staged, published, quality>>
        /\ decision' = Published(decision, Result(f))
    BY DEF PublishMemory
  <1>4. /\ decision' \in [Results -> Visibility] /\ decision'[Result(f)] = "published"
        /\ \A x \in Results : x # Result(f) => decision'[x] = decision[x]
    BY <1>2, <1>3, PublishedIndex DEF SagaInv, TypeOK
  <1>5. StoreTypes' /\ StoresGrow /\ Origins'
    BY <1>3, <1>4 DEF SagaInv, TypeOK, StoreTypes, StoresGrow, HasBundle, Origins, Origin
  <1>6. CASE Return(f)
    BY <1>3, <1>5, <1>6, Returns, StoreStepKeeps
  <1>7. CASE Goto(f, "retain_write")
    <2>1. "retain_write" \in FinalizeSteps
      BY DEF FinalizeSteps
    <2>2. KnowsRecord(saga[f])'
      BY <1>1, <1>2, <1>3, <1>7, <2>1, KnowsOn DEF Staging, Publishing
    <2>3. saga'[f].at = "retain_write" /\ saga'[f].local = saga[f].local
      BY <1>1, <1>7, <2>1, Goes
    <2>4. KnowsStores(saga[f])'
      BY <1>1, <1>2, <1>3, <2>3 DEF KnowsStores, Publishing, HasBundle
    <2> QED BY <1>1, <1>3, <1>5, <1>7, <2>1, <2>2, <2>4, Goes, StoreStepKeeps DEF Knows
  <1> QED BY <1>6, <1>7 DEF PublishMemory

\* An update of the record: the call goes on with what it wrote.
GoesOn(f, s, next) ==
  /\ records' = [records EXCEPT ![saga[f].run] = s]
  /\ saga' = [saga EXCEPT ![f].local = s, ![f].at = next]

LEMMA UpdateKeeps ==
  ASSUME SagaInv, NEW f \in Finalizers, saga[f] # Idle, NEW next \in FinalizeSteps, NEW s,
         GoesOn(f, s, next),
         SagaRecord(s), Later(records[saga[f].run], s),
         "staged" \in s.memory => decision[s.final] # "none",
         next # "begin",
         next \in Staging => next = "stage" /\ s.status = "finalizing",
         next = "complete" =>
           s.status = "finalizing" /\ ("enabled" \in s.memory => "staged" \in s.memory),
         next \in Publishing => next = "restage" /\ s.status = "completed",
         next # "stage" => quality[Result(f)] # "none",
         UNCHANGED <<stores, import, failures>>
  PROVE  Kept
  <1> DEFINE run == saga[f].run
             k == [saga[f] EXCEPT !.local = s, !.at = next]
  <1>1. /\ run \in Runs /\ s \in Records /\ s.final \in Results
        /\ s.final = Result(f)
    BY Here DEF SagaRecord, Later
  <1>2. /\ records' \in [Runs -> Records] /\ records'[run] = s
        /\ \A other \in Runs : other # run => records'[other] = records[other]
    BY <1>1 DEF GoesOn, SagaInv, TypeOK
  <1>3. RecordsGrow
    BY <1>2, LaterSame DEF RecordsGrow, SagaInv, TypeOK
  <1>4. StoreTypes' /\ StoresGrow
    BY DEF stores, SagaInv, TypeOK, StoreTypes, StoresGrow, HasBundle
  <1>5. Origins'
    BY <1>3 DEF stores, SagaInv, Origins, Origin, RecordsGrow, Later
  <1>6. \A other \in Runs : SagaRecord(records'[other]) /\ Receipted(other)'
    BY <1>2 DEF stores, SagaInv, Receipted
  <1>7. saga[f] \in [at : FinalizeSteps, run : Runs, local : Records]
    BY CallFields DEF SagaInv, TypeOK
  <1>8. /\ k \in [at : FinalizeSteps, run : Runs, local : Records]
        /\ k.at = next /\ k.run = run /\ k.local = s
    BY <1>1, <1>7
  <1>9. k \in SagaCalls
    BY <1>8 DEF SagaCalls
  <1>10. saga'[f] = k /\ \A g \in Finalizers : g # f => saga'[g] = saga[g]
    BY DEF GoesOn, SagaInv, TypeOK
  <1>11. saga' \in [Finalizers -> SagaCalls]
    BY <1>9 DEF GoesOn, SagaInv, TypeOK
  <1> HIDE DEF k
  <1>12. saga'[f].at = next /\ saga'[f].run = run /\ saga'[f].local = s /\ records'[run] = s
    BY <1>2, <1>8, <1>10
  <1>13. next \in {"stage", "complete", "restage"}
    BY DEF FinalizeSteps, Staging, Publishing
  <1>14. Later(s, s)
    BY <1>1, LaterSame
  <1>15. KnowsRecord(saga[f])'
    BY <1>12, <1>13, <1>14 DEF KnowsRecord, Staging, Publishing
  <1>16. quality'[s.final] # "none" \/ next = "stage"
    BY <1>1 DEF stores
  <1>17. KnowsStores(saga[f])'
    BY <1>12, <1>13, <1>16 DEF KnowsStores, Publishing
  <1>18. failures' \in 0 .. MaxFailures
    BY DEF SagaInv, TypeOK
  <1> QED BY <1>2, <1>3, <1>4, <1>5, <1>6, <1>10, <1>11, <1>15, <1>17, <1>18, StepKeeps
          DEF Knows

LEMMA Updates ==
  ASSUME SagaInv, NEW f \in Finalizers, saga[f] # Idle, NEW new, NEW next \in FinalizeSteps,
         Update(f, new, next),
         NEW s, s = Revised(new, records[saga[f].run].revision)
  PROVE  saga[f].local = records[saga[f].run] /\ GoesOn(f, s, next)
  <1>1. saga[f].run \in Runs /\ records \in [Runs -> Records]
    BY Here DEF SagaInv, TypeOK
  <1>2. records'[saga[f].run] = s
    BY <1>1 DEF Update
  <1>3. saga[f].local = records[saga[f].run]
    BY Here DEF Update
  <1> QED BY <1>2, <1>3 DEF Update, GoesOn

LEMMA BeginKeeps ==
  ASSUME SagaInv, NEW f \in Finalizers, Begin(f), UNCHANGED <<import, failures>>
  PROVE  Kept
  <1> DEFINE r == records[saga[f].run]
             s == Revised(FinalizingRecord(r), r.revision)
  <1>1. saga[f] # Idle /\ saga[f].at = "begin" /\ "stage" \in FinalizeSteps
    BY NotIdle DEF Begin, At, FinalizeSteps
  <1>2. GoesOn(f, s, "stage") /\ saga[f].local = r
    <2> DEFINE new == FinalizingRecord(r)
    <2>1. Update(f, new, "stage") /\ s = Revised(new, records[saga[f].run].revision)
      BY DEF Begin
    <2> HIDE DEF new, s
    <2> QED BY <1>1, <2>1, Updates
  <1>3. SagaRecord(r) /\ r.status = "running" /\ saga[f].run \in Runs
    BY <1>1, <1>2, Here DEF KnowsRecord
  <1>4. SagaRecord(s) /\ Later(r, s) /\ s.status = "finalizing" /\ s.memory = r.memory
    BY <1>3, FinalizingMoves
  <1>5. "staged" \in s.memory => decision[s.final] # "none"
    BY <1>3, <1>4 DEF SagaInv, Receipted, Later
  <1>6. UNCHANGED stores
    BY DEF Begin
  <1> HIDE DEF s
  <1> QED BY <1>1, <1>2, <1>4, <1>5, <1>6, UpdateKeeps DEF Staging, Publishing

LEMMA RetainMemoryStageKeeps ==
  ASSUME SagaInv, NEW f \in Finalizers, RetainMemoryStage(f), UNCHANGED <<import, failures>>
  PROVE  Kept
  <1> DEFINE r == records[saga[f].run]
             s == Revised(MemoryStagedRecord(r), r.revision)
             next == AfterStaging(saga[f].local)
  <1>1. saga[f] # Idle /\ saga[f].at = "retain_stage" /\ next \in FinalizeSteps
    BY NotIdle DEF RetainMemoryStage, At, FinalizeSteps, AfterStaging
  <1>2. GoesOn(f, s, next) /\ saga[f].local = r
    <2> DEFINE new == MemoryStagedRecord(r)
    <2>1. Update(f, new, next) /\ s = Revised(new, records[saga[f].run].revision)
      BY DEF RetainMemoryStage
    <2> HIDE DEF new, s, next
    <2> QED BY <1>1, <2>1, Updates
  <1>3. /\ SagaRecord(r) /\ r.status = "finalizing"
        /\ Result(f) = r.final
        /\ decision[r.final] # "none" /\ quality[r.final] # "none"
    BY <1>1, <1>2, Here DEF KnowsRecord, KnowsStores, SagaRecord, Staging, Result
  <1>4. SagaRecord(s) /\ Later(r, s) /\ s.status = r.status /\ "staged" \in s.memory
    BY <1>3, MemoryStagedMoves
  <1>5. decision[s.final] # "none"
    BY <1>3, <1>4 DEF Later
  <1>6. UNCHANGED stores
    BY DEF RetainMemoryStage
  <1>7. next = "complete"
    BY <1>2, <1>3 DEF AfterStaging
  <1> HIDE DEF s, next
  <1> QED BY <1>1, <1>2, <1>3, <1>4, <1>5, <1>6, <1>7, UpdateKeeps DEF Staging, Publishing

LEMMA CompleteKeeps ==
  ASSUME SagaInv, NEW f \in Finalizers, Complete(f), UNCHANGED <<import, failures>>
  PROVE  Kept
  <1> DEFINE r == records[saga[f].run]
             s == Revised(CompletedRecord(r), r.revision)
  <1>1. saga[f] # Idle /\ saga[f].at = "complete" /\ "restage" \in FinalizeSteps
    BY NotIdle DEF Complete, At, FinalizeSteps
  <1>2. GoesOn(f, s, "restage") /\ saga[f].local = r
    <2> DEFINE new == CompletedRecord(r)
    <2>1. Update(f, new, "restage") /\ s = Revised(new, records[saga[f].run].revision)
      BY DEF Complete
    <2> HIDE DEF new, s
    <2> QED BY <1>1, <2>1, Updates
  <1>3. /\ SagaRecord(r) /\ r.status = "finalizing" /\ saga[f].run \in Runs
        /\ "enabled" \in r.memory => "staged" \in r.memory
        /\ Result(f) = r.final /\ quality[r.final] # "none"
    BY <1>1, <1>2, Here DEF KnowsRecord, KnowsStores, Result
  <1>4. SagaRecord(s) /\ Later(r, s) /\ s.status = "completed" /\ s.memory = r.memory
    BY <1>3, CompletedMoves
  <1>5. "staged" \in s.memory => decision[s.final] # "none"
    BY <1>3, <1>4 DEF SagaInv, Receipted, Later
  <1>6. UNCHANGED stores
    BY DEF Complete
  <1> HIDE DEF s
  <1> QED BY <1>1, <1>2, <1>3, <1>4, <1>5, <1>6, UpdateKeeps DEF Staging, Publishing

\* The record moves on by a mutation that no call in flight goes on with.
LEMMA MoveKeeps ==
  ASSUME SagaInv, NEW f \in Finalizers, NEW run \in Runs, NEW s,
         records' = [records EXCEPT ![run] = s],
         SagaRecord(s), Later(records[run], s),
         "staged" \in s.memory <=> "staged" \in records[run].memory,
         saga' \in [Finalizers -> SagaCalls], Knows(f)',
         \A g \in Finalizers : g # f => saga'[g] = saga[g],
         UNCHANGED <<stores, import, failures>>
  PROVE  Kept
  <1>1. /\ records' \in [Runs -> Records] /\ records'[run] = s
        /\ \A other \in Runs : other # run => records'[other] = records[other]
    BY DEF SagaInv, TypeOK, SagaRecord
  <1>2. RecordsGrow
    BY <1>1, LaterSame DEF RecordsGrow, SagaInv, TypeOK
  <1>3. StoreTypes' /\ StoresGrow
    BY DEF stores, SagaInv, TypeOK, StoreTypes, StoresGrow, HasBundle
  <1>4. Origins'
    BY <1>2 DEF stores, SagaInv, Origins, Origin, RecordsGrow, Later
  <1>5. \A other \in Runs : SagaRecord(records'[other]) /\ Receipted(other)'
    BY <1>1 DEF stores, SagaInv, Receipted, Later
  <1>6. failures' \in 0 .. MaxFailures
    BY DEF SagaInv, TypeOK
  <1> QED BY <1>1, <1>2, <1>3, <1>4, <1>5, <1>6, StepKeeps

LEMMA RetainMemoryWriteKeeps ==
  ASSUME SagaInv, NEW f \in Finalizers, RetainMemoryWrite(f), UNCHANGED <<import, failures>>
  PROVE  Kept
  <1> DEFINE run == saga[f].run
             r == records[run]
             s == Revised(MemoryWrittenRecord(r), r.revision)
  <1>1. saga[f] # Idle
    BY NotIdle DEF RetainMemoryWrite, At, FinalizeSteps
  <1>2. SagaRecord(r) /\ run \in Runs
    BY <1>1, Here
  <1>3. records' = [records EXCEPT ![run] = s] /\ UNCHANGED stores
    BY DEF RetainMemoryWrite
  <1>4. SagaRecord(s) /\ Later(r, s) /\ ("staged" \in s.memory <=> "staged" \in r.memory)
    BY <1>2, MemoryWrittenMoves
  <1>5. /\ saga' \in [Finalizers -> SagaCalls] /\ Knows(f)'
        /\ \A g \in Finalizers : g # f => saga'[g] = saga[g]
    BY Returns DEF RetainMemoryWrite
  <1> HIDE DEF s
  <1> QED BY <1>2, <1>3, <1>4, <1>5, MoveKeeps

LEMMA RequestCancelKeeps ==
  ASSUME SagaInv, NEW run \in Runs, RequestCancel(run), UNCHANGED <<import, failures>>
  PROVE  Kept
  <1> DEFINE r == records[run]
             s == Revised(CancelRequestedRecord(r), r.revision)
  <1>1. SagaRecord(r) /\ r.status = "running" /\ UNCHANGED stores /\ saga' = saga
    BY DEF RequestCancel, SagaInv
  <1>2. SagaRecord(s) /\ Later(r, s) /\ s.memory = r.memory
    BY <1>1, CancelMoves
  <1>3. records' = [records EXCEPT ![run] = s]
    BY DEF RequestCancel
  <1> HIDE DEF s
  <1>4. /\ records' \in [Runs -> Records] /\ records'[run] = s
        /\ \A other \in Runs : other # run => records'[other] = records[other]
    BY <1>2, <1>3 DEF SagaInv, TypeOK, SagaRecord
  <1>5. RecordsGrow
    BY <1>2, <1>4, LaterSame DEF RecordsGrow, SagaInv, TypeOK
  <1>6. StoreTypes' /\ StoresGrow
    BY <1>1 DEF stores, SagaInv, TypeOK, StoreTypes, StoresGrow, HasBundle
  <1>7. Origins'
    BY <1>1, <1>5 DEF stores, SagaInv, Origins, Origin, RecordsGrow, Later
  <1>8. \A other \in Runs : SagaRecord(records'[other]) /\ Receipted(other)'
    BY <1>1, <1>2, <1>4 DEF stores, SagaInv, Receipted, Later
  <1>9. TypeOK'
    BY <1>1, <1>4, <1>6 DEF SagaInv, TypeOK, StoreTypes
  <1>10. \A g \in Finalizers : Knows(g)'
    BY <1>1, <1>4, <1>5, <1>6, KnowsStill
  <1>11. \A i \in Importers : ImportAt(i, "publish")' => HasBundle(import[i].result)'
    BY <1>1 DEF stores, SagaInv, ImportAt, HasBundle
  <1> QED BY <1>5, <1>6, <1>7, <1>8, <1>9, <1>10, <1>11 DEF SagaInv, Origins, Kept

LEMMA ReadRecordKeeps ==
  ASSUME SagaInv, NEW f \in Finalizers, NEW run \in Runs, ReadRecord(f, run),
         UNCHANGED <<import, failures>>
  PROVE  Kept
  <1> DEFINE r == records[run]
             k == [at |-> IF r.status = "running" THEN "begin" ELSE "stage",
                   run |-> run, local |-> r]
  <1>1. SagaRecord(r) /\ r \in Records /\ r.status \in {"running", "finalizing", "completed"}
    BY DEF ReadRecord, CanFinalize, SagaInv, SagaRecord
  <1>2. /\ k \in [at : FinalizeSteps, run : Runs, local : Records]
        /\ k.at \in {"begin", "stage"} /\ k.run = run /\ k.local = r
        /\ k.at = "begin" => r.status = "running"
        /\ k.at = "stage" => r.status \in {"finalizing", "completed"}
    BY <1>1 DEF FinalizeSteps
  <1>3. saga' = [saga EXCEPT ![f] = k] /\ UNCHANGED <<records, stores>>
    BY DEF ReadRecord
  <1> HIDE DEF k
  <1>4. /\ saga' \in [Finalizers -> SagaCalls] /\ saga'[f] = k
        /\ \A g \in Finalizers : g # f => saga'[g] = saga[g]
    BY <1>2, <1>3 DEF SagaInv, TypeOK, SagaCalls
  <1>5. Knows(f)'
    <2>1. KnowsRecord(saga[f])'
      BY <1>1, <1>2, <1>3, <1>4, LaterSame DEF KnowsRecord, Staging, Publishing
    <2>2. KnowsStores(saga[f])'
      BY <1>2, <1>4 DEF KnowsStores, Publishing
    <2> QED BY <2>1, <2>2 DEF Knows
  <1>6. StoreTypes' /\ StoresGrow /\ Origins'
    BY <1>3 DEF stores, SagaInv, TypeOK, StoreTypes, StoresGrow, HasBundle, Origins, Origin
  <1> QED BY <1>3, <1>4, <1>5, <1>6, StoreStepKeeps

\* Every call that ends is one nobody has to know anything about.
LEMMA EndKeeps ==
  ASSUME SagaInv, NEW f \in Finalizers, Return(f), UNCHANGED <<records, stores, import>>,
         failures' \in 0 .. MaxFailures
  PROVE  Kept
  <1>1. StoreTypes' /\ StoresGrow /\ Origins'
    BY DEF stores, SagaInv, TypeOK, StoreTypes, StoresGrow, HasBundle, Origins, Origin
  <1>2. RecordsGrow /\ records' \in [Runs -> Records]
    BY LaterSame DEF RecordsGrow, SagaInv, TypeOK
  <1>3. \A run \in Runs : SagaRecord(records'[run]) /\ Receipted(run)'
    BY DEF stores, SagaInv, Receipted
  <1> QED BY <1>1, <1>2, <1>3, Returns, StepKeeps

LEMMA ConflictKeeps ==
  ASSUME SagaInv, NEW f \in Finalizers, Conflict(f), UNCHANGED <<import, failures>>
  PROVE  Kept
  BY EndKeeps DEF Conflict, SagaInv, TypeOK

LEMMA FailFinalizeKeeps ==
  ASSUME SagaInv, NEW f \in Finalizers, FailFinalize(f)
  PROVE  Kept
  <1>1. failures' \in 0 .. MaxFailures
    BY SagaAssumption DEF FailFinalize, SagaInv, TypeOK
  <1> QED BY <1>1, EndKeeps DEF FailFinalize

-----------------------------------------------------------------------------
(* The steps of an import                                                    *)

\* An import that goes to publishing has a bundle to publish.
LEMMA ImportKeeps ==
  ASSUME SagaInv, NEW i \in Importers, NEW step \in ImportSteps, ImportGoto(i, step),
         step = "publish" => HasBundle(import[i].result)',
         StoreTypes', StoresGrow, Origins', UNCHANGED <<records, saga>>,
         failures' \in 0 .. MaxFailures
  PROVE  Kept
  <1>1. /\ import' \in [Importers -> [at : ImportSteps, result : Results]]
        /\ import'[i].at = step /\ import'[i].result = import[i].result
        /\ \A j \in Importers : j # i => import'[j] = import[j]
        /\ \A j \in Importers : import[j].result \in Results
    BY DEF SagaInv, TypeOK, ImportGoto
  <1>2. RecordsGrow /\ records' \in [Runs -> Records]
    BY LaterSame DEF RecordsGrow, SagaInv, TypeOK
  <1>3. \A run \in Runs : SagaRecord(records'[run]) /\ Receipted(run)'
    BY DEF SagaInv, SagaRecord, Receipted, StoresGrow
  <1>4. TypeOK'
    BY <1>1, <1>2 DEF SagaInv, TypeOK, StoreTypes
  <1>5. \A f \in Finalizers : Knows(f)'
    BY <1>2, KnowsStill
  <1>6. \A j \in Importers : ImportAt(j, "publish")' => HasBundle(import[j].result)'
    <2> SUFFICES ASSUME NEW j \in Importers, ImportAt(j, "publish")'
                 PROVE  HasBundle(import[j].result)'
      OBVIOUS
    <2>1. CASE j = i
      BY <1>1, <2>1 DEF ImportAt
    <2>2. CASE j # i
      <3>1. import'[j] = import[j] /\ import[j].result \in Results
        BY <1>1, <2>2
      <3>2. HasBundle(import[j].result)
        BY <3>1 DEF ImportAt, SagaInv
      <3> QED BY <3>1, <3>2 DEF StoresGrow
    <2> QED BY <2>1, <2>2
  <1> QED BY <1>2, <1>3, <1>4, <1>5, <1>6 DEF SagaInv, Origins, Kept

LEMMA StoresSame ==
  ASSUME SagaInv, UNCHANGED <<records, stores>>
  PROVE  StoreTypes' /\ StoresGrow /\ Origins'
  BY DEF stores, SagaInv, TypeOK, StoreTypes, StoresGrow, HasBundle, Origins, Origin

LEMMA IndexGrows ==
  ASSUME SagaInv, UNCHANGED <<records, staged, published, decision>>,
         quality' \in [Results -> Visibility],
         \A x \in Results : quality[x] # "none" => quality'[x] \in {quality[x], "published"}
  PROVE  StoreTypes' /\ StoresGrow /\ Origins'
  BY DEF SagaInv, TypeOK, StoreTypes, StoresGrow, HasBundle, Origins, Origin, Visibility

LEMMA ImportResult ==
  ASSUME SagaInv, NEW i \in Importers
  PROVE  /\ import[i].result \in Results
         /\ import[i].at = "publish" => HasBundle(import[i].result)
  BY DEF SagaInv, TypeOK, ImportAt

LEMMA ImportStepKeeps ==
  ASSUME SagaInv, NEW i \in Importers, ImportStep(i), UNCHANGED <<records, saga, failures>>
  PROVE  Kept
  <1> DEFINE x == import[i].result
  <1> USE DEF ImportSteps
  <1>1. x \in Results /\ failures' \in 0 .. MaxFailures
    BY DEF SagaInv, TypeOK
  <1>2. CASE StageImportSidecars(i)
    <2>1. /\ quality' = Staged(quality, x) /\ UNCHANGED <<staged, published, decision>>
          /\ ImportGoto(i, "look")
      BY <1>2 DEF StageImportSidecars
    <2>2. /\ quality' \in [Results -> Visibility]
          /\ \A y \in Results : quality[y] # "none" => quality'[y] = quality[y]
      BY <1>1, <2>1, StagedIndex DEF SagaInv, TypeOK
    <2> QED BY <1>1, <2>1, <2>2, IndexGrows, ImportKeeps
  <1>3. CASE LookForPublished(i)
    <2> DEFINE next == IF published[x] = Nothing THEN "look_staged"
                       ELSE IF published[x] = Import THEN "publish_sidecars" ELSE "refused"
    <2>1. ImportGoto(i, next) /\ next \in ImportSteps \ {"publish"} /\ UNCHANGED stores
      BY <1>3 DEF LookForPublished
    <2> HIDE DEF next
    <2> QED BY <1>1, <2>1, StoresSame, ImportKeeps
  <1>4. CASE LookForStaged(i)
    <2> DEFINE next == IF staged[x] = Nothing THEN "stage"
                       ELSE IF staged[x] = Import THEN "publish" ELSE "refused"
    <2>1. ImportGoto(i, next) /\ next \in ImportSteps /\ UNCHANGED stores
      BY <1>4 DEF LookForStaged
    <2>2. next = "publish" => HasBundle(import[i].result)
      BY SagaAssumption DEF HasBundle
    <2> HIDE DEF next
    <2>3. StoreTypes' /\ StoresGrow /\ Origins'
      BY <2>1, StoresSame
    <2>4. next = "publish" => HasBundle(import[i].result)'
      BY <1>1, <2>1, <2>2, <2>3 DEF StoresGrow, ImportGoto, SagaInv, TypeOK
    <2> QED BY <1>1, <2>1, <2>3, <2>4, ImportKeeps
  <1>5. CASE StageImport(i)
    <2>1. /\ StageBundle(x, Import) /\ UNCHANGED <<published, quality, decision>>
          /\ ImportGoto(i, "publish") /\ Origin(x, Import)
      BY <1>5, SagaAssumption DEF StageImport, Origin
    <2>2. StoreTypes' /\ StoresGrow /\ Origins' /\ Stored(x)
      BY <1>1, <2>1, StageGrows
    <2>3. HasBundle(import[i].result)'
      BY <2>1, <2>2 DEF Stored, HasBundle, ImportGoto, SagaInv, TypeOK
    <2> QED BY <1>1, <2>1, <2>2, <2>3, ImportKeeps
  <1>6. CASE PublishImport(i)
    <2>1. /\ PublishBundle(x) /\ UNCHANGED <<quality, decision>>
          /\ ImportGoto(i, "publish_sidecars")
      BY <1>6 DEF PublishImport
    <2> QED BY <1>1, <2>1, PublishGrows, ImportKeeps
  <1>7. CASE PublishImportSidecars(i)
    <2>1. /\ quality' = Published(quality, x) /\ UNCHANGED <<staged, published, decision>>
          /\ ImportGoto(i, "done")
      BY <1>7 DEF PublishImportSidecars
    <2>2. /\ quality' \in [Results -> Visibility] /\ quality'[x] = "published"
          /\ \A y \in Results : y # x => quality'[y] = quality[y]
      <3>1. quality \in [Results -> Visibility]
        BY DEF SagaInv, TypeOK
      <3> HIDE DEF x
      <3> QED BY <1>1, <2>1, <3>1, PublishedIndex
    <2>3. \A y \in Results : quality[y] # "none" => quality'[y] \in {quality[y], "published"}
      BY <2>2
    <2> QED BY <1>1, <2>1, <2>2, <2>3, IndexGrows, ImportKeeps
  <1> QED BY <1>2, <1>3, <1>4, <1>5, <1>6, <1>7 DEF ImportStep

LEMMA FailImportKeeps ==
  ASSUME SagaInv, NEW i \in Importers, FailImport(i)
  PROVE  Kept
  <1>1. failures' \in 0 .. MaxFailures
    BY SagaAssumption DEF FailImport, SagaInv, TypeOK
  <1>2. ImportGoto(i, "start") /\ "start" \in ImportSteps /\ UNCHANGED <<records, stores, saga>>
    BY DEF FailImport, ImportSteps
  <1> QED BY <1>1, <1>2, StoresSame, ImportKeeps

-----------------------------------------------------------------------------
(* The invariant holds                                                       *)

LEMMA SagaInit == ASSUME Init PROVE SagaInv
  <1>1. PICK outputs \in [Runs -> [Stages -> Digests]], memory \in [Runs -> {{}, {"enabled"}}] :
          records = [r \in Runs |-> ReadyRecord(outputs[r], memory[r])]
    BY DEF Init
  <1>2. PICK result \in [Importers -> Results] :
          import = [i \in Importers |-> [at |-> "start", result |-> result[i]]]
    BY DEF Init
  <1>3. /\ staged = [x \in Results |-> Nothing]
        /\ published = [x \in Results |-> Nothing]
        /\ quality = [x \in Results |-> "none"]
        /\ decision = [x \in Results |-> "none"]
        /\ saga = [f \in Finalizers |-> Idle]
        /\ failures = 0
    BY DEF Init
  <1>4. \A run \in Runs :
          /\ records[run] \in Records /\ records[run].final \in Results
          /\ records[run].status = "running" /\ "staged" \notin records[run].memory
    <2> TAKE run \in Runs
    <2>1. outputs[run] \in [Stages -> Digests] /\ memory[run] \in {{}, {"enabled"}}
      OBVIOUS
    <2>2. records[run] = ReadyRecord(outputs[run], memory[run])
      BY <1>1
    <2>3. /\ records[run] \in Records /\ records[run].final \in Results
          /\ records[run].status = "running" /\ records[run].memory = memory[run]
      BY <2>1, <2>2, ReadyContent, Zenon
    <2> QED BY <2>1, <2>3
  <1>5. records \in [Runs -> Records]
    <2>1. records = [r \in Runs |-> records[r]]
      BY <1>1
    <2> QED BY <1>4, <2>1
  <1>6. import \in [Importers -> [at : ImportSteps, result : Results]]
    BY <1>2 DEF ImportSteps
  <1>7. TypeOK
    BY <1>3, <1>5, <1>6, SagaAssumption DEF TypeOK, Bundles, Visibility, SagaCalls
  <1>8. \A run \in Runs : SagaRecord(records[run]) /\ Receipted(run)
    BY <1>4 DEF SagaRecord, Receipted
  <1>9. \A x \in Results : Origin(x, staged[x]) /\ Origin(x, published[x])
    BY <1>3, SagaAssumption DEF Origin
  <1> QED BY <1>2, <1>3, <1>7, <1>8, <1>9 DEF SagaInv, Knows, ImportAt

LEMMA SagaStepKeeps ==
  ASSUME SagaInv, NEW f \in Finalizers, SagaStep(f), UNCHANGED <<import, failures>>
  PROVE  Kept
  BY BeginKeeps, StageKeeps, StageSidecarsKeeps, StageMemoryKeeps, RetainMemoryStageKeeps,
     CompleteKeeps, RestageKeeps, PublishSidecarsKeeps, PublishResultKeeps, PublishMemoryKeeps,
     RetainMemoryWriteKeeps, ConflictKeeps, Zenon
     DEF SagaStep

LEMMA SagaNext == ASSUME SagaInv, [Next]_vars PROVE Kept
  <1>1. ASSUME NEW f \in Finalizers, NEW run \in Runs, ReadRecord(f, run),
               UNCHANGED <<import, failures>>
        PROVE  Kept
    BY <1>1, ReadRecordKeeps
  <1>2. ASSUME NEW f \in Finalizers, SagaStep(f), UNCHANGED <<import, failures>>
        PROVE  Kept
    BY <1>2, SagaStepKeeps
  <1>3. ASSUME NEW f \in Finalizers, FailFinalize(f) PROVE Kept
    BY <1>3, FailFinalizeKeeps
  <1>4. ASSUME NEW i \in Importers, ImportStep(i), UNCHANGED <<records, saga, failures>>
        PROVE  Kept
    BY <1>4, ImportStepKeeps
  <1>5. ASSUME NEW i \in Importers, FailImport(i) PROVE Kept
    BY <1>5, FailImportKeeps
  <1>6. ASSUME NEW run \in Runs, RequestCancel(run), UNCHANGED <<import, failures>>
        PROVE  Kept
    BY <1>6, RequestCancelKeeps
  <1>7. CASE UNCHANGED vars
    <2>1. StoreTypes' /\ StoresGrow /\ Origins' /\ records' = records /\ saga' = saga
      BY <1>7, StoresSame DEF vars
    <2>2. RecordsGrow /\ records' \in [Runs -> Records]
      BY <2>1, LaterSame DEF RecordsGrow, SagaInv, TypeOK
    <2>3. \A f \in Finalizers : Knows(f)'
      BY <2>1, <2>2, KnowsStill
    <2>4. \A run \in Runs : SagaRecord(records'[run]) /\ Receipted(run)'
      BY <1>7 DEF vars, stores, SagaInv, Receipted
    <2>5. TypeOK'
      BY <1>7 DEF vars, stores, SagaInv, TypeOK
    <2>6. \A i \in Importers : ImportAt(i, "publish")' => HasBundle(import[i].result)'
      BY <1>7 DEF vars, stores, SagaInv, ImportAt, HasBundle
    <2> QED BY <2>1, <2>2, <2>3, <2>4, <2>5, <2>6 DEF SagaInv, Origins, Kept
  <1> QED BY <1>1, <1>2, <1>3, <1>4, <1>5, <1>6, <1>7, Zenon DEF Next

\* Wherever finalize and imports are interrupted, what every call in flight
\* relies on is in the stores, and every bundle of a run is of its content
\* and of a run that was sealed.
THEOREM SagaInvariant == Spec => []SagaInv
  <1>1. SagaInv /\ [Next]_vars => SagaInv'
    BY SagaNext DEF Kept
  <1> QED BY <1>1, SagaInit, PTL DEF Spec

\* The records, the stores and the calls keep their types.
THEOREM SagaTypes == Spec => []TypeOK
  <1>1. SagaInv => TypeOK
    BY DEF SagaInv
  <1> QED BY <1>1, SagaInvariant, PTL

\* No step of finalize or of an import raises KeyError for something that an
\* earlier step wrote (NothingIsMissing), with any number of finalizers,
\* imports, failures and runs, of the same content or not.
THEOREM WhatWasWrittenIsFound == Spec => []NothingIsMissing
  <1>1. ASSUME SagaInv PROVE NothingIsMissing
    <2>1. ASSUME NEW f \in Finalizers
          PROVE  /\ At(f, "publish_sidecars") => quality[Result(f)] # "none"
                 /\ At(f, "publish") => {staged[Result(f)], published[Result(f)]} # {Nothing}
                 /\ At(f, "publish_memory") => decision[Result(f)] # "none"
      <3>1. ASSUME saga[f].at \in {"publish_sidecars", "publish", "publish_memory"}
            PROVE  /\ KnowsStores(saga[f]) /\ Result(f) = saga[f].local.final
                   /\ saga[f].at = "publish_memory" => decision[Result(f)] # "none"
        <4>1. saga[f] # Idle
          BY <1>1, <3>1, NotIdle DEF FinalizeSteps
        <4>2. KnowsRecord(saga[f]) /\ KnowsStores(saga[f]) /\ saga[f].run \in Runs
          BY <1>1, <4>1, Here
        <4>3. saga[f].at = "publish_memory" => decision[Result(f)] # "none"
          BY <1>1, <3>1, <4>2
             DEF KnowsRecord, SagaRecord, Later, Publishing, SagaInv, Receipted, Result
        <4> QED BY <4>2, <4>3 DEF Result
      <3> QED BY <3>1 DEF KnowsStores, Publishing, HasBundle, At
    <2>2. ASSUME NEW i \in Importers, ImportAt(i, "publish")
          PROVE  {staged[import[i].result], published[import[i].result]} # {Nothing}
      BY <1>1, <2>2 DEF SagaInv, HasBundle
    <2> QED BY <2>1, <2>2 DEF NothingIsMissing
  <1> QED BY <1>1, SagaInvariant, PTL

LEMMA ReadyStays ==
  ASSUME SagaInv, Kept, NEW run \in Runs, PublicationReady(run)
  PROVE  PublicationReady(run)'
  <1>1. /\ SagaRecord(records[run]) /\ SagaRecord(records'[run])
        /\ Later(records[run], records'[run]) /\ StoresGrow
    BY DEF SagaInv, Kept, RecordsGrow
  <1> QED BY <1>1 DEF PublicationReady, SagaRecord, Later, StoresGrow

\* A run that control called completed is never pending again, whatever other
\* runs and imports of the same content stage and publish (ReadyStaysReady).
THEOREM PublicationIsPermanent == Spec => ReadyStaysReady
  <1>1. ASSUME SagaInv, [Next]_vars
        PROVE  [\A run \in Runs : PublicationReady(run) => PublicationReady(run)']_vars
    BY <1>1, SagaNext, ReadyStays
  <1> QED BY <1>1, SagaInvariant, PTL DEF Spec, ReadyStaysReady

-----------------------------------------------------------------------------
(* Runs whose content nobody else publishes                                  *)

\* Every run has a content of its own, and nobody imports it directly: the
\* bundle of one call is never published by another's.
Separate ==
  /\ \A a, b \in Runs : records[a].final = records[b].final => a = b
  /\ \A i \in Importers, run \in Runs : import[i].result # records[run].final

\* A bundle of such a run is its own, and readable only when its sidecars are.
OwnBundles ==
  \A run \in Runs :
    LET x == records[run].final
    IN  /\ staged[x] # Import
        /\ published[x] # Nothing =>
             published[x] = run /\ quality[x] = "published" /\ records[run].status = "completed"

SeparateInv == SagaInv /\ Separate /\ OwnBundles

\* What a step of one run leaves alone.
LeavesAlone(run) ==
  LET x == records[run].final
  IN  /\ records'[run] = records[run]
      /\ staged'[x] = staged[x] /\ published'[x] = published[x]
      /\ quality'[x] = quality[x] /\ decision'[x] = decision[x]

LEMMA SeparateStays ==
  ASSUME SeparateInv, [Next]_vars
  PROVE  Separate' /\ \A run \in Runs : records'[run].final = records[run].final
  <1>1. \A run \in Runs : records'[run].final = records[run].final
    BY SagaNext DEF SeparateInv, Kept, RecordsGrow, Later
  <1>2. \A i \in Importers : import'[i].result = import[i].result
    <2>1. import \in [Importers -> [at : ImportSteps, result : Results]]
      BY DEF SeparateInv, SagaInv, TypeOK
    <2>2. \/ import' = import
          \/ \E i \in Importers, step \in ImportSteps : ImportGoto(i, step)
      <3>1. ASSUME NEW i \in Importers, ImportStep(i)
            PROVE  \E step \in ImportSteps : ImportGoto(i, step)
        BY <3>1 DEF ImportStep, ImportSteps, StageImportSidecars, LookForPublished,
                    LookForStaged, StageImport, PublishImport, PublishImportSidecars
      <3>2. ASSUME NEW i \in Importers, FailImport(i)
            PROVE  \E step \in ImportSteps : ImportGoto(i, step)
        BY <3>2 DEF FailImport, ImportSteps
      <3> QED BY <3>1, <3>2 DEF Next, vars, FailFinalize
    <2> QED BY <2>1, <2>2 DEF ImportGoto
  <1> QED BY <1>1, <1>2 DEF SeparateInv, Separate

\* A step of finalize is about one run; the record and the stores do not move
\* together.
LEMMA FinalizeTouches ==
  ASSUME SeparateInv, NEW f \in Finalizers, SagaStep(f)
  PROVE  /\ saga[f].run \in Runs
         /\ \A run \in Runs : run # saga[f].run => LeavesAlone(run)
         /\ records' # records => UNCHANGED stores
  <1>1. saga[f] # Idle
    <2>1. CASE Conflict(f)
      BY <2>1 DEF Conflict
    <2>2. CASE ~ Conflict(f)
      <3>1. saga[f].at \in FinalizeSteps
        BY <2>2 DEF SagaStep, Begin, Stage, StageSidecars, StageMemory, RetainMemoryStage, Complete,
              Restage, PublishSidecars, PublishResult, PublishMemory, RetainMemoryWrite, At,
              FinalizeSteps
      <3> QED BY <3>1, NotIdle DEF SeparateInv
    <2> QED BY <2>1, <2>2
  <1>2. /\ saga[f].run \in Runs /\ Result(f) = records[saga[f].run].final
    BY <1>1, Here DEF SeparateInv
  <1> DEFINE own == saga[f].run
             x == Result(f)
  <1>3. \A run \in Runs : run # own => records[run].final # x
    BY <1>2 DEF SeparateInv, Separate
  <1>4. TypeOK /\ \A run \in Runs : records[run].final \in Results
    BY DEF SeparateInv, SagaInv, SagaRecord
  <1>5. CASE Begin(f) \/ RetainMemoryStage(f) \/ Complete(f)
    <2>1. /\ \A run \in Runs : run # own => records'[run] = records[run]
          /\ UNCHANGED stores
      BY <1>4, <1>5 DEF Begin, RetainMemoryStage, Complete, Update, TypeOK
    <2> QED BY <1>2, <2>1 DEF LeavesAlone, stores
  <1>6. CASE RetainMemoryWrite(f)
    <2>1. /\ \A run \in Runs : run # own => records'[run] = records[run]
          /\ UNCHANGED stores
      BY <1>4, <1>6 DEF RetainMemoryWrite, TypeOK
    <2> QED BY <1>2, <2>1 DEF LeavesAlone, stores
  <1>7. CASE Conflict(f)
    BY <1>2, <1>7 DEF Conflict, LeavesAlone, stores
  <1>8. ASSUME records' = records,
               \A y \in Results : y # x =>
                 /\ staged'[y] = staged[y] /\ published'[y] = published[y]
                 /\ quality'[y] = quality[y] /\ decision'[y] = decision[y]
        PROVE  /\ \A run \in Runs : run # own => LeavesAlone(run)
               /\ records' # records => UNCHANGED stores
    <2>1. ASSUME NEW run \in Runs, run # own PROVE LeavesAlone(run)
      <3>1. records[run].final # x /\ records[run].final \in Results
        BY <1>3, <1>4, <2>1
      <3> HIDE DEF x
      <3> QED BY <1>8, <3>1 DEF LeavesAlone
    <2> QED BY <1>8, <2>1
  <1>9. CASE Stage(f) \/ Restage(f)
    <2>1. /\ records' = records /\ UNCHANGED <<published, quality, decision>>
          /\ staged' = [staged EXCEPT ![x] = saga[f].run]
      BY <1>9 DEF Stage, Restage, StageBundle
    <2> HIDE DEF x
    <2> QED BY <1>2, <1>4, <1>8, <2>1 DEF TypeOK
  <1>10. CASE StageSidecars(f) \/ PublishSidecars(f)
    <2>1. /\ records' = records /\ UNCHANGED <<staged, published, decision>>
          /\ quality' \in {Staged(quality, x), Published(quality, x)}
      BY <1>10 DEF StageSidecars, PublishSidecars
    <2> HIDE DEF x
    <2> QED BY <1>2, <1>4, <1>8, <2>1 DEF TypeOK, Staged, Published
  <1>11. CASE StageMemory(f) \/ PublishMemory(f)
    <2>1. /\ records' = records /\ UNCHANGED <<staged, published, quality>>
          /\ decision' \in {Staged(decision, x), Published(decision, x)}
      BY <1>11 DEF StageMemory, PublishMemory
    <2> HIDE DEF x
    <2> QED BY <1>2, <1>4, <1>8, <2>1 DEF TypeOK, Staged, Published
  <1>12. CASE PublishResult(f)
    <2>1. records' = records /\ UNCHANGED <<quality, decision>> /\ PublishBundle(x)
      BY <1>12 DEF PublishResult
    <2> HIDE DEF x
    <2>2. \A y \in Results : y # x => staged'[y] = staged[y] /\ published'[y] = published[y]
      BY <1>4, <2>1 DEF TypeOK, PublishBundle
    <2> QED BY <1>2, <1>8, <2>1, <2>2
  <1> QED BY <1>5, <1>6, <1>7, <1>9, <1>10, <1>11, <1>12 DEF SagaStep

LEMMA ImportTouches ==
  ASSUME SeparateInv, NEW i \in Importers, ImportStep(i), UNCHANGED records
  PROVE  \A run \in Runs : LeavesAlone(run)
  <1> DEFINE x == import[i].result
  <1>1. \A run \in Runs : records[run].final # x /\ records[run].final \in Results
    BY DEF SeparateInv, SagaInv, SagaRecord, Separate
  <1>2. TypeOK
    BY DEF SeparateInv, SagaInv
  <1>3. \A y \in Results : y # x =>
          /\ staged'[y] = staged[y] /\ published'[y] = published[y]
          /\ quality'[y] = quality[y] /\ decision'[y] = decision[y]
    <2>1. CASE StageImportSidecars(i) \/ PublishImportSidecars(i)
      <3>1. /\ UNCHANGED <<staged, published, decision>>
            /\ quality' \in {Staged(quality, x), Published(quality, x)}
        BY <2>1 DEF StageImportSidecars, PublishImportSidecars
      <3> HIDE DEF x
      <3> QED BY <1>2, <3>1 DEF TypeOK, Staged, Published
    <2>2. CASE LookForPublished(i) \/ LookForStaged(i)
      BY <2>2 DEF LookForPublished, LookForStaged, stores
    <2>3. CASE StageImport(i)
      <3>1. UNCHANGED <<published, quality, decision>> /\ StageBundle(x, Import)
        BY <2>3 DEF StageImport
      <3> HIDE DEF x
      <3> QED BY <1>2, <3>1 DEF TypeOK, StageBundle
    <2>4. CASE PublishImport(i)
      <3>1. UNCHANGED <<quality, decision>> /\ PublishBundle(x)
        BY <2>4 DEF PublishImport
      <3> HIDE DEF x
      <3> QED BY <1>2, <3>1 DEF TypeOK, PublishBundle
    <2> QED BY <2>1, <2>2, <2>3, <2>4 DEF ImportStep
  <1> HIDE DEF x
  <1> QED BY <1>1, <1>3 DEF LeavesAlone

\* Every step is about at most one run, and moves its record or the stores.
LEMMA StepTouches ==
  ASSUME SeparateInv, [Next]_vars
  PROVE  /\ \/ \A run \in Runs : LeavesAlone(run)
            \/ \E own \in Runs : \A run \in Runs : run # own => LeavesAlone(run)
         /\ records' # records => UNCHANGED stores
  <1>1. ASSUME NEW f \in Finalizers, NEW run \in Runs, ReadRecord(f, run)
        PROVE  UNCHANGED <<records, stores>>
    BY <1>1 DEF ReadRecord
  <1>2. ASSUME NEW run \in Runs, RequestCancel(run)
        PROVE  /\ \A other \in Runs : other # run => LeavesAlone(other)
               /\ UNCHANGED stores
    <2>1. \A other \in Runs : other # run => records'[other] = records[other]
      BY <1>2 DEF RequestCancel, SeparateInv, SagaInv, TypeOK
    <2> QED BY <1>2, <2>1 DEF RequestCancel, LeavesAlone, stores
  <1>3. ASSUME UNCHANGED <<records, stores>> PROVE \A run \in Runs : LeavesAlone(run)
    BY <1>3 DEF LeavesAlone, stores
  <1>4. ASSUME NEW f \in Finalizers, FailFinalize(f) PROVE UNCHANGED <<records, stores>>
    BY <1>4 DEF FailFinalize
  <1>5. ASSUME NEW i \in Importers, FailImport(i) PROVE UNCHANGED <<records, stores>>
    BY <1>5 DEF FailImport
  <1>6. CASE UNCHANGED vars
    BY <1>3, <1>6 DEF vars
  <1>7. ASSUME NEW f \in Finalizers, SagaStep(f)
        PROVE  /\ \E own \in Runs : \A run \in Runs : run # own => LeavesAlone(run)
               /\ records' # records => UNCHANGED stores
    BY <1>7, FinalizeTouches
  <1>8. ASSUME NEW i \in Importers, ImportStep(i), UNCHANGED records
        PROVE  \A run \in Runs : LeavesAlone(run)
    BY <1>8, ImportTouches
  <1> QED BY <1>1, <1>2, <1>3, <1>4, <1>5, <1>6, <1>7, <1>8 DEF Next

\* finalize publishes the bundle of its own run, after its sidecars.
LEMMA FinalizePublishes ==
  ASSUME SeparateInv, NEW f \in Finalizers, SagaStep(f), saga[f].run \in Runs,
         Kept, NEW x, x = records[saga[f].run].final
  PROVE  /\ staged'[x] # Import
         /\ \/ published'[x] = published[x]
            \/ /\ published'[x] \in {Nothing, saga[f].run}
               /\ quality'[x] = "published" /\ records'[saga[f].run].status = "completed"
  <1> DEFINE run == saga[f].run
  <1>1. /\ x \in Results /\ TypeOK /\ staged[x] # Import
        /\ \A y \in Runs : records[y].final = x => y = run
    BY DEF SeparateInv, SagaInv, SagaRecord, OwnBundles, Separate
  <1>2. CASE UNCHANGED <<staged, published>>
    BY <1>1, <1>2
  <1>3. CASE Stage(f) \/ Restage(f)
    <2>1. saga[f] # Idle
      BY <1>3, NotIdle DEF SeparateInv, Stage, Restage, At, FinalizeSteps
    <2>2. Result(f) = x
      BY <2>1, Here DEF SeparateInv
    <2>3. staged' = [staged EXCEPT ![x] = run] /\ published' = published
      BY <1>3, <2>2 DEF Stage, Restage, StageBundle
    <2> HIDE DEF run
    <2> QED BY <1>1, <2>3, SagaAssumption DEF TypeOK, run
  <1>4. CASE PublishResult(f)
    <2>1. saga[f] # Idle /\ saga[f].at = "publish" /\ records' = records /\ quality' = quality
      BY <1>4, NotIdle DEF SeparateInv, PublishResult, At, FinalizeSteps
    <2>2. /\ Result(f) = x /\ KnowsRecord(saga[f]) /\ KnowsStores(saga[f])
          /\ Result(f) = saga[f].local.final
      BY <2>1, Here DEF SeparateInv, Result
    <2>3. quality'[x] = "published" /\ records'[run].status = "completed"
      BY <2>1, <2>2 DEF KnowsRecord, KnowsStores, Publishing, Later
    <2>4. PublishBundle(x)
      BY <1>4, <2>2 DEF PublishResult
    <2>5. /\ staged'[x] \in {Nothing, staged[x]}
          /\ published'[x] = published[x] \/ published'[x] = staged[x]
      BY <1>1, <2>4 DEF PublishBundle, TypeOK
    <2>6. staged[x] \in {Nothing, run}
      BY <1>1 DEF SeparateInv, SagaInv, Origin, TypeOK, Bundles
    <2> HIDE DEF run
    <2> QED BY <1>1, <2>3, <2>5, <2>6, SagaAssumption DEF run
  <1> QED BY <1>2, <1>3, <1>4
          DEF SagaStep, Begin, StageSidecars, StageMemory, RetainMemoryStage, Complete,
              PublishSidecars, PublishMemory, RetainMemoryWrite, Conflict, stores

LEMMA OwnStays == ASSUME SeparateInv, [Next]_vars PROVE OwnBundles'
  <1>1. Kept /\ \A run \in Runs : records'[run].final = records[run].final
    BY SagaNext, SeparateStays DEF SeparateInv
  <1>2. ASSUME NEW run \in Runs, LeavesAlone(run)
        PROVE  LET x == records'[run].final
               IN  /\ staged'[x] # Import
                   /\ published'[x] # Nothing =>
                        /\ published'[x] = run /\ quality'[x] = "published"
                        /\ records'[run].status = "completed"
    BY <1>2 DEF LeavesAlone, SeparateInv, OwnBundles
  <1>3. ASSUME NEW run \in Runs, UNCHANGED stores
        PROVE  LET x == records'[run].final
               IN  /\ staged'[x] # Import
                   /\ published'[x] # Nothing =>
                        /\ published'[x] = run /\ quality'[x] = "published"
                        /\ records'[run].status = "completed"
    <2>1. records'[run].status = "completed" \/ records[run].status # "completed"
      BY <1>1 DEF Kept, RecordsGrow, Later
    <2> QED BY <1>1, <1>3, <2>1 DEF stores, SeparateInv, OwnBundles
  <1>4. ASSUME NEW f \in Finalizers, SagaStep(f) PROVE OwnBundles'
    <2> DEFINE own == saga[f].run
               x == records[own].final
    <2>1. own \in Runs /\ \A run \in Runs : run # own => LeavesAlone(run)
      BY <1>4, FinalizeTouches
    <2>2. /\ staged'[x] # Import
          /\ \/ published'[x] = published[x]
             \/ /\ published'[x] \in {Nothing, own}
                /\ quality'[x] = "published" /\ records'[own].status = "completed"
      BY <1>1, <1>4, <2>1, FinalizePublishes
    <2>3. /\ quality[x] = "published" => quality'[x] = "published"
          /\ records[own].status = "completed" => records'[own].status = "completed"
      BY <1>1, <2>1 DEF Kept, StoresGrow, RecordsGrow, Later, SeparateInv, SagaInv, SagaRecord
    <2>4. /\ staged'[x] # Import
          /\ published'[x] # Nothing =>
               /\ published'[x] = own /\ quality'[x] = "published"
               /\ records'[own].status = "completed"
      BY <2>1, <2>2, <2>3 DEF SeparateInv, OwnBundles
    <2>5. records'[own].final = x
      BY <1>1, <2>1
    <2> HIDE DEF x, own
    <2> QED BY <1>2, <2>1, <2>4, <2>5 DEF OwnBundles
  <1>5. CASE \A run \in Runs : LeavesAlone(run)
    BY <1>2, <1>5 DEF OwnBundles
  <1>6. CASE UNCHANGED stores
    BY <1>3, <1>6 DEF OwnBundles
  <1>7. ASSUME NEW i \in Importers, ImportStep(i), UNCHANGED records
        PROVE  \A run \in Runs : LeavesAlone(run)
    BY <1>7, ImportTouches
  <1> QED BY <1>4, <1>5, <1>6, <1>7
          DEF Next, vars, ReadRecord, FailFinalize, FailImport, RequestCancel

LEMMA SeparateNext == ASSUME SeparateInv, [Next]_vars PROVE SeparateInv'
  BY SagaNext, SeparateStays, OwnStays DEF SeparateInv, Kept

LEMMA SeparateInvariant == Spec /\ Separate => []SeparateInv
  <1>1. ASSUME Init, Separate PROVE SeparateInv
    <2>1. OwnBundles
      BY <1>1, SagaInit, SagaAssumption DEF Init, OwnBundles, SagaInv, SagaRecord
    <2> QED BY <1>1, <2>1, SagaInit DEF SeparateInv
  <1> QED BY <1>1, SeparateNext, PTL DEF Spec

\* The bundle of a run whose content nobody else publishes is readable only
\* once the run is completed and its sidecars are published
\* (ResultFollowsSidecars), wherever finalizers fail and are called again.
THEOREM SidecarsComeFirst == Spec /\ Separate => []ResultFollowsSidecars
  <1>1. ASSUME SeparateInv PROVE ResultFollowsSidecars
    <2> SUFFICES ASSUME NEW x \in Results, published[x] \in Runs
                 PROVE  quality[x] = "published" /\ records[published[x]].status = "completed"
      BY DEF ResultFollowsSidecars
    <2>1. records[published[x]].final = x
      BY <1>1 DEF SeparateInv, SagaInv, Origin
    <2> QED BY <1>1, <2>1, SagaAssumption DEF SeparateInv, OwnBundles
  <1> QED BY <1>1, SeparateInvariant, PTL

-----------------------------------------------------------------------------
(* A publication becomes visible in one step and for good                    *)

Phase(run) ==
  CASE records[run].status = "running" -> "open"
    [] records[run].status \in {"finalizing", "completed"} -> "sealed"
    [] OTHER -> "stopped"

Phases == [run \in Runs |-> Phase(run)]
Visible == {run \in Runs : Served(records[run].final)}

LEMMA VisibleIsReady ==
  SeparateInv => Visible = {run \in Runs : PublicationReady(run)}
  <1>1. ASSUME SeparateInv, NEW run \in Runs
        PROVE  Served(records[run].final) <=> PublicationReady(run)
    BY <1>1, SagaAssumption
       DEF Served, PublicationReady, SeparateInv, SagaInv, SagaRecord, OwnBundles
  <1> QED BY <1>1 DEF Visible

LEMMA PhaseMoves ==
  ASSUME SeparateInv, Kept, NEW run \in Runs
  PROVE  \/ Phase(run)' = Phase(run)
         \/ Phase(run) = "open" /\ Phase(run)' \in {"sealed", "stopped"}
  <1>1. /\ SagaRecord(records[run]) /\ Later(records[run], records'[run])
        /\ SagaRecord(records'[run])
    BY DEF SeparateInv, Kept, SagaInv, RecordsGrow
  <1> QED BY <1>1 DEF SagaRecord, Later, Phase

LEMMA AloneIsAsBefore ==
  ASSUME SeparateInv, SeparateInv', NEW run \in Runs, LeavesAlone(run)
  PROVE  Phase(run)' = Phase(run) /\ (PublicationReady(run)' <=> PublicationReady(run))
  BY DEF LeavesAlone, Phase, PublicationReady, SeparateInv, SagaInv, SagaRecord

\* A run that becomes visible was sealed by an earlier step.
LEMMA BecomesVisible ==
  ASSUME SeparateInv, SeparateInv', [Next]_vars, NEW run \in Runs, PublicationReady(run)'
  PROVE  Phase(run) = "sealed" /\ Phase(run)' = "sealed"
  <1>1. records'[run].status = "completed" /\ published'[records'[run].final] # Nothing
    BY DEF PublicationReady, SeparateInv, SagaInv, SagaRecord
  <1>2. records[run].status = "completed"
    <2>1. CASE records' = records
      BY <1>1, <2>1
    <2>2. CASE records' # records
      <3>1. published' = published /\ records'[run].final = records[run].final
        BY <2>2, StepTouches, SeparateStays DEF stores
      <3> QED BY <1>1, <3>1 DEF SeparateInv, OwnBundles
    <2> QED BY <2>1, <2>2
  <1> QED BY <1>1, <1>2 DEF Phase

LEMMA AtomicStep ==
  ASSUME SeparateInv, [Next]_vars
  PROVE  \/ Phases' = Phases /\ Visible' = Visible
         \/ \E run \in Runs, target \in {"sealed", "stopped"} :
              /\ Phases[run] = "open" /\ Phases' = [Phases EXCEPT ![run] = target]
              /\ Visible' = Visible
         \/ \E run \in Runs :
              /\ Phases[run] = "sealed" /\ run \notin Visible
              /\ Visible' = Visible \cup {run} /\ Phases' = Phases
  <1> DEFINE ready == {run \in Runs : PublicationReady(run)}
  <1>1. SeparateInv' /\ Kept
    BY SeparateNext, SagaNext DEF SeparateInv
  <1>2. Visible = ready /\ Visible' = ready'
    <2>1. Visible = ready
      BY VisibleIsReady
    <2>2. (Visible = ready)'
      BY <1>1, VisibleIsReady, PTL
    <2> QED BY <2>1, <2>2
  <1>3. ready \subseteq ready'
    BY <1>1, ReadyStays DEF SeparateInv
  <1>4. /\ \A run \in Runs : Phases[run] = Phase(run) /\ Phases'[run] = Phase(run)'
        /\ Phases = [run \in Runs |-> Phases[run]] /\ Phases' = [run \in Runs |-> Phases'[run]]
    BY DEF Phases
  <1>5. \A run \in Runs : LeavesAlone(run) =>
          Phases'[run] = Phases[run] /\ (run \in ready' <=> run \in ready)
    BY <1>1, <1>4, AloneIsAsBefore
  <1>6. CASE \A run \in Runs : LeavesAlone(run)
    BY <1>2, <1>4, <1>5, <1>6
  <1>7. ASSUME NEW own \in Runs, \A run \in Runs : run # own => LeavesAlone(run)
        PROVE  \/ Phases' = Phases /\ Visible' = Visible
               \/ \E run \in Runs, target \in {"sealed", "stopped"} :
                    /\ Phases[run] = "open" /\ Phases' = [Phases EXCEPT ![run] = target]
                    /\ Visible' = Visible
               \/ \E run \in Runs :
                    /\ Phases[run] = "sealed" /\ run \notin Visible
                    /\ Visible' = Visible \cup {run} /\ Phases' = Phases
    <2>1. \A run \in Runs : run # own =>
            Phases'[run] = Phases[run] /\ (run \in ready' <=> run \in ready)
      BY <1>5, <1>7
    <2>2. \/ Phases'[own] = Phases[own]
          \/ Phases[own] = "open" /\ Phases'[own] \in {"sealed", "stopped"}
      BY <1>1, <1>4, PhaseMoves
    <2>3. own \in ready' => Phases[own] = "sealed" /\ Phases'[own] = "sealed"
      BY <1>1, <1>4, BecomesVisible
    <2>4. ready \subseteq Runs /\ ready' \subseteq Runs
      OBVIOUS
    <2> HIDE DEF ready
    <2>5. CASE own \in ready' /\ own \notin ready
      <3>1. ready' = ready \cup {own}
        BY <1>3, <2>1, <2>4, <2>5
      <3>2. Phases' = Phases
        BY <1>4, <2>1, <2>3, <2>5
      <3> QED BY <1>2, <2>3, <2>5, <3>1, <3>2
    <2>6. CASE ~ (own \in ready' /\ own \notin ready)
      <3>1. ready' = ready
        BY <1>3, <2>1, <2>4, <2>6
      <3>2. CASE Phases'[own] = Phases[own]
        <4>1. Phases' = Phases
          BY <1>4, <2>1, <3>2
        <4> QED BY <1>2, <3>1, <4>1
      <3>3. CASE Phases'[own] # Phases[own]
        <4> DEFINE target == Phases'[own]
        <4>1. Phases[own] = "open" /\ target \in {"sealed", "stopped"}
          BY <2>2, <3>3
        <4>2. Phases' = [Phases EXCEPT ![own] = target]
          BY <1>4, <2>1
        <4> QED BY <1>2, <3>1, <4>1, <4>2
      <3> QED BY <3>2, <3>3
    <2> QED BY <2>5, <2>6
  <1> QED BY <1>6, <1>7, StepTouches

\* finalize implements the safety of AtomicPublication: of a run whose content
\* nobody else publishes nothing is readable until, in one step, all of it is,
\* and it stays so; a run that was cancelled never becomes readable.
THEOREM PublicationIsAtomic ==
  Spec /\ Separate => Atomic!Init /\ [][Atomic!Next]_(Atomic!vars)
  <1>1. ASSUME Init PROVE Atomic!Init
    <2>1. \A run \in Runs : records[run].status = "running" /\ records[run].final \in Results
      <3>1. PICK outputs \in [Runs -> [Stages -> Digests]], memory \in [Runs -> {{}, {"enabled"}}] :
              records = [r \in Runs |-> ReadyRecord(outputs[r], memory[r])]
        BY <1>1 DEF Init
      <3> SUFFICES ASSUME NEW run \in Runs
                   PROVE  records[run].status = "running" /\ records[run].final \in Results
        OBVIOUS
      <3>2. outputs[run] \in [Stages -> Digests] /\ memory[run] \in {{}, {"enabled"}}
        OBVIOUS
      <3>3. records[run] = ReadyRecord(outputs[run], memory[run])
        BY <3>1
      <3> QED BY <3>2, <3>3, ReadyContent, Zenon
    <2>2. Phases = [run \in Runs |-> "open"]
      BY <2>1 DEF Phases, Phase
    <2>3. Visible = {}
      BY <1>1, <2>1 DEF Init, Visible, Served
    <2> QED BY <2>2, <2>3 DEF Atomic!Init, Phases, Phase, Visible
  <1>2. ASSUME SeparateInv, [Next]_vars PROVE [Atomic!Next]_(Atomic!vars)
    BY <1>2, AtomicStep
       DEF Atomic!Next, Atomic!vars, Atomic!Seal, Atomic!Stop, Atomic!Leave, Atomic!Show,
           Phases, Phase, Visible
  <1> QED BY <1>1, <1>2, SeparateInvariant, PTL DEF Spec

-----------------------------------------------------------------------------
(* Readers and pollers                                                       *)

ReaderTypes ==
  /\ reader \in [Readers -> Queries]
  /\ poller \in [Pollers -> Polls]
  /\ completedAt \in [Runs -> Nat]

\* A query by lifecycle run got past the alias because the publication was
\* ready, and a bundle it is handed has the content of that run.
QueryKnows(q) ==
  /\ reader[q].at \in {"resolve", "gate", "fetch", "served"} /\ reader[q].id \in Runs =>
       PublicationReady(reader[q].id)
  /\ reader[q].at = "served" /\ reader[q].id \in Runs /\ reader[q].origin \in Runs =>
       records[reader[q].origin].final = records[reader[q].id].final

\* The completed event is the last one of its run.
CompletedIsLast ==
  \A run \in Runs :
    completedAt[run] = IF records[run].status = "completed" THEN records[run].events ELSE 0

\* A poller has every event up to its cursor, and the completed one only of a
\* publication that is ready.
PollKnows(p) ==
  LET k == poller[p]
  IN  /\ k.delivered = 1 .. k.cursor
      /\ k.cursor <= records[k.run].events
      /\ k.seen <= records[k.run].events
      /\ completedAt[k.run] \in k.delivered => PublicationReady(k.run)

ReaderInv ==
  /\ SagaInv
  /\ ReaderTypes
  /\ \A q \in Readers : QueryKnows(q)
  /\ CompletedIsLast
  /\ \A p \in Pollers : PollKnows(p)

LEMMA ReaderStart == ASSUME ReaderInit PROVE ReaderInv
  <1>1. SagaInv
    BY SagaInit DEF ReaderInit
  <1>2. \A run \in Runs :
          /\ records[run].status # "completed" /\ records[run].events \in Nat
    <2>1. PICK outputs \in [Runs -> [Stages -> Digests]], memory \in [Runs -> {{}, {"enabled"}}] :
            records = [r \in Runs |-> ReadyRecord(outputs[r], memory[r])]
      BY DEF ReaderInit, Init
    <2> SUFFICES ASSUME NEW run \in Runs
                 PROVE  records[run].status # "completed" /\ records[run].events \in Nat
      OBVIOUS
    <2>2. outputs[run] \in [Stages -> Digests] /\ memory[run] \in {{}, {"enabled"}}
      OBVIOUS
    <2>3. records[run] = ReadyRecord(outputs[run], memory[run])
      BY <2>1
    <2>4. records[run].status = "running"
      BY <2>2, <2>3, ReadyContent, Zenon
    <2> QED BY <1>1, <2>4 DEF SagaInv, SagaRecord, Records
  <1>3. PICK run \in [Pollers -> Runs] :
          poller = [p \in Pollers |-> [at |-> "idle", run |-> run[p], seen |-> 0, cursor |-> 0,
                                       delivered |-> {}]]
    BY DEF ReaderInit
  <1>4. reader = [q \in Readers |-> NoQuery] /\ completedAt = [r \in Runs |-> 0]
    BY DEF ReaderInit
  <1>5. ReaderTypes
    BY <1>3, <1>4 DEF ReaderTypes, Queries, Polls
  <1>6. \A q \in Readers : QueryKnows(q)
    BY <1>4 DEF QueryKnows, NoQuery
  <1>7. CompletedIsLast
    BY <1>2, <1>4 DEF CompletedIsLast
  <1>8. ASSUME NEW p \in Pollers PROVE PollKnows(p)
    <2>1. /\ poller[p].run \in Runs /\ poller[p].seen = 0 /\ poller[p].cursor = 0
          /\ poller[p].delivered = {}
      BY <1>3
    <2>2. 1 .. 0 = {}
      OBVIOUS
    <2> QED BY <1>2, <2>1, <2>2 DEF PollKnows
  <1> QED BY <1>1, <1>5, <1>6, <1>7, <1>8 DEF ReaderInv

LEMMA SagaMovesKeeps == ASSUME ReaderInv, SagaMoves PROVE ReaderInv'
  <1>1. Kept
    BY SagaNext DEF ReaderInv, SagaMoves
  <1>2. \A run \in Runs :
          /\ Later(records[run], records'[run])
          /\ records[run].events \in Nat /\ records'[run].events \in Nat
          /\ PublicationReady(run) => PublicationReady(run)'
    BY <1>1, ReadyStays DEF ReaderInv, Kept, RecordsGrow, SagaInv, SagaRecord, Records
  <1>3. /\ UNCHANGED <<reader, poller>>
        /\ completedAt' = [run \in Runs |->
             IF records[run].status # "completed" /\ records'[run].status = "completed"
               THEN records'[run].events ELSE completedAt[run]]
    BY DEF SagaMoves
  <1>4. ReaderTypes'
    BY <1>2, <1>3 DEF ReaderInv, ReaderTypes
  <1>5. CompletedIsLast'
    BY <1>2, <1>3 DEF ReaderInv, CompletedIsLast, Later
  <1>6. ASSUME NEW q \in Readers PROVE QueryKnows(q)'
    <2>1. reader[q] = NoQuery \/ reader[q].origin \in Bundles
      BY DEF ReaderInv, ReaderTypes, Queries
    <2>2. \A run \in Runs : records'[run].final = records[run].final
      BY <1>2 DEF Later
    <2> QED BY <1>2, <1>3, <2>2 DEF ReaderInv, QueryKnows
  <1>7. ASSUME NEW p \in Pollers PROVE PollKnows(p)'
    <2> DEFINE k == poller[p]
    <2>1. k.run \in Runs /\ k.cursor \in Nat /\ k.seen \in Nat /\ PollKnows(p)
      BY DEF ReaderInv, ReaderTypes, Polls
    <2>2. k' = k /\ records[k.run].events <= records'[k.run].events
      BY <1>2, <1>3, <2>1 DEF Later
    <2>3. ASSUME completedAt'[k.run] \in k.delivered PROVE PublicationReady(k.run)'
      <3>1. completedAt'[k.run] <= records[k.run].events
        BY <1>2, <2>1, <2>3 DEF PollKnows
      <3>2. completedAt'[k.run] = completedAt[k.run]
        BY <1>2, <1>3, <2>1, <3>1 DEF Later
      <3> QED BY <1>2, <1>3, <2>1, <2>3, <3>2 DEF PollKnows
    <2>4. k.cursor <= records'[k.run].events /\ k.seen <= records'[k.run].events
      BY <1>2, <2>1, <2>2 DEF PollKnows
    <2>5. poller' = poller
      BY <1>3
    <2> QED BY <2>1, <2>3, <2>4, <2>5 DEF PollKnows
  <1> QED BY <1>1, <1>4, <1>5, <1>6, <1>7 DEF ReaderInv, Kept

LEMMA PublicationSame ==
  ASSUME UNCHANGED vars, NEW run \in Runs
  PROVE  PublicationReady(run)' <=> PublicationReady(run)
  BY DEF vars, stores, PublicationReady

LEMMA ReaderKeeps ==
  ASSUME ReaderInv, UNCHANGED <<vars, poller, completedAt>>,
         reader' \in [Readers -> Queries], \A q \in Readers : QueryKnows(q)'
  PROVE  ReaderInv'
  <1>1. SagaInv'
    BY SagaNext DEF ReaderInv, Kept
  <1>2. ReaderTypes' /\ CompletedIsLast'
    BY DEF ReaderInv, ReaderTypes, CompletedIsLast, vars
  <1>3. ASSUME NEW p \in Pollers PROVE PollKnows(p)'
    <2>1. poller[p].run \in Runs /\ PollKnows(p)
      BY DEF ReaderInv, ReaderTypes, Polls
    <2>2. /\ records' = records /\ poller' = poller /\ completedAt' = completedAt
          /\ PublicationReady(poller[p].run) => PublicationReady(poller[p].run)'
      BY <2>1, PublicationSame DEF vars
    <2> QED BY <2>1, <2>2 DEF PollKnows
  <1> QED BY <1>1, <1>2, <1>3 DEF ReaderInv

LEMMA OtherQueries ==
  ASSUME ReaderInv, UNCHANGED vars, NEW r \in Readers, reader'[r] = reader[r]
  PROVE  QueryKnows(r)'
  <1>1. QueryKnows(r) /\ records' = records
    BY DEF ReaderInv, vars
  <1>2. reader[r].id \in Runs => (PublicationReady(reader[r].id) => PublicationReady(reader[r].id)')
    BY PublicationSame DEF vars, stores, PublicationReady
  <1> QED BY <1>1, <1>2 DEF QueryKnows

\* A query that goes on, with what it has to know where it goes.
LEMMA QueryKeeps ==
  ASSUME ReaderInv, UNCHANGED <<vars, poller, completedAt>>,
         NEW q \in Readers, reader[q] # NoQuery,
         NEW step \in {"origin", "alias", "resolve", "gate", "fetch", "served"},
         NEW origin \in Bundles, Query(q, step, origin),
         step \in {"resolve", "gate", "fetch", "served"} /\ reader[q].id \in Runs =>
           PublicationReady(reader[q].id),
         step = "served" /\ reader[q].id \in Runs /\ origin \in Runs =>
           records[origin].final = records[reader[q].id].final
  PROVE  ReaderInv'
  <1> DEFINE k == [reader[q] EXCEPT !.at = step, !.origin = origin]
             kinds == [at : {"origin", "alias", "resolve", "gate", "fetch", "served"},
                       id : Runs \cup Results, origin : Bundles]
  <1>1. reader \in [Readers -> Queries] /\ reader[q] \in kinds
    BY DEF ReaderInv, ReaderTypes, Queries
  <1>2. k \in kinds /\ k.at = step /\ k.id = reader[q].id /\ k.origin = origin
    BY <1>1
  <1>3. reader' = [reader EXCEPT ![q] = k]
    BY <1>1 DEF Query
  <1>4. k \in Queries
    BY <1>2 DEF Queries
  <1> HIDE DEF k
  <1>5. /\ reader' \in [Readers -> Queries] /\ reader'[q] = k
        /\ \A r \in Readers : r # q => reader'[r] = reader[r]
    BY <1>1, <1>3, <1>4
  <1>6. QueryKnows(q)'
    <2>1. records' = records
      BY DEF vars
    <2>2. reader'[q].at = step /\ reader'[q].id = reader[q].id /\ reader'[q].origin = origin
      BY <1>2, <1>5
    <2>3. reader[q].id \in Runs =>
            (PublicationReady(reader[q].id) => PublicationReady(reader[q].id)')
      BY <2>2, PublicationSame
    <2> QED BY <2>1, <2>2, <2>3 DEF QueryKnows
  <1> QED BY <1>5, <1>6, OtherQueries, ReaderKeeps

\* A query that is refused, has ended or has only just been asked.
LEMMA FreshQueryKeeps ==
  ASSUME ReaderInv, UNCHANGED <<vars, poller, completedAt>>,
         NEW q \in Readers, NEW k \in Queries, k.at \in {"idle", "origin"},
         reader' = [reader EXCEPT ![q] = k]
  PROVE  ReaderInv'
  <1>1. /\ reader' \in [Readers -> Queries] /\ reader'[q] = k
        /\ \A r \in Readers : r # q => reader'[r] = reader[r]
    BY DEF ReaderInv, ReaderTypes
  <1>2. QueryKnows(q)'
    BY <1>1 DEF QueryKnows
  <1> QED BY <1>1, <1>2, OtherQueries, ReaderKeeps

LEMMA RefuseKeeps ==
  ASSUME ReaderInv, UNCHANGED <<vars, poller, completedAt>>, NEW q \in Readers, Refuse(q)
  PROVE  ReaderInv'
  <1>1. NoQuery \in Queries /\ NoQuery.at = "idle"
    BY DEF NoQuery, Queries
  <1> QED BY <1>1, FreshQueryKeeps DEF Refuse

\* The identifier a query resolved to is a result, and of a lifecycle run it is
\* the content of that run.
LEMMA ResolvesToContent ==
  ASSUME ReaderInv, NEW q \in Readers,
         reader[q].at \in {"resolve", "gate", "fetch", "served"}
  PROVE  /\ reader[q] # NoQuery
         /\ Resolved(q) \in Results /\ published[Resolved(q)] \in Bundles
         /\ reader[q].id \in Runs =>
              PublicationReady(reader[q].id) /\ Resolved(q) = records[reader[q].id].final
  <1>1. reader[q] \in Queries /\ QueryKnows(q) /\ reader[q] # NoQuery
    BY DEF ReaderInv, ReaderTypes, NoQuery
  <1>2. reader[q].id \in Runs \cup Results
    BY <1>1 DEF Queries
  <1>3. CASE reader[q].id \in Runs
    BY <1>1, <1>3 DEF ReaderInv, SagaInv, SagaRecord, TypeOK, QueryKnows, PublicationReady, Resolved
  <1>4. CASE reader[q].id \notin Runs
    BY <1>1, <1>2, <1>4 DEF ReaderInv, SagaInv, TypeOK, Resolved
  <1> QED BY <1>1, <1>3, <1>4

LEMMA ReaderStepKeeps ==
  ASSUME ReaderInv, NEW q \in Readers, ReaderStep(q), UNCHANGED <<vars, poller, completedAt>>
  PROVE  ReaderInv'
  <1>1. reader[q] \in Queries /\ Nothing \in Bundles
    BY DEF ReaderInv, ReaderTypes, Bundles
  <1>2. ASSUME NEW id \in Runs \cup Results, Ask(q, id) PROVE ReaderInv'
    <2> DEFINE k == [at |-> "origin", id |-> id, origin |-> Nothing]
    <2>1. k \in Queries /\ k.at = "origin" /\ reader' = [reader EXCEPT ![q] = k]
      BY <1>1, <1>2 DEF Ask, Queries
    <2> HIDE DEF k
    <2> QED BY <2>1, FreshQueryKeeps
  <1>3. CASE LookForOrigin(q)
    <2>1. reader[q] # NoQuery
      BY <1>3 DEF LookForOrigin, NoQuery
    <2>2. CASE reader[q].id \in Runs
      <3>1. Query(q, "alias", Nothing)
        BY <1>3, <2>2 DEF LookForOrigin
      <3> QED BY <1>1, <2>1, <3>1, QueryKeeps
    <2>3. CASE reader[q].id \notin Runs
      <3> DEFINE origin == published[reader[q].id]
                 step == IF origin \in Runs THEN "gate" ELSE "fetch"
      <3>1. Query(q, step, origin) /\ step \in {"gate", "fetch"}
        BY <1>3, <2>3 DEF LookForOrigin
      <3>2. origin \in Bundles
        BY <1>1, <2>1, <2>3 DEF ReaderInv, SagaInv, TypeOK, Queries
      <3> HIDE DEF origin, step
      <3> QED BY <2>1, <2>3, <3>1, <3>2, QueryKeeps
    <2> QED BY <2>2, <2>3
  <1>4. CASE CheckAlias(q)
    <2>1. reader[q] # NoQuery
      BY <1>4 DEF CheckAlias, NoQuery
    <2>2. CASE PublicationReady(reader[q].id) /\ Query(q, "resolve", Nothing)
      BY <1>1, <2>1, <2>2, QueryKeeps
    <2> QED BY <1>4, <2>2, RefuseKeeps DEF CheckAlias
  <1>5. CASE ResolveAlias(q)
    <2> DEFINE origin == published[Resolved(q)]
               step == IF origin \in Runs THEN "gate" ELSE "fetch"
    <2>1. Query(q, step, origin) /\ step \in {"gate", "fetch"} /\ reader[q].at = "resolve"
      BY <1>5 DEF ResolveAlias
    <2>2. /\ origin \in Bundles /\ reader[q] # NoQuery
          /\ reader[q].id \in Runs => PublicationReady(reader[q].id)
      BY <2>1, ResolvesToContent
    <2> HIDE DEF origin, step
    <2> QED BY <2>1, <2>2, QueryKeeps
  <1>6. CASE Gate(q)
    <2> DEFINE origin == reader[q].origin
    <2>1. /\ Query(q, "fetch", origin) \/ Refuse(q)
          /\ reader[q].at = "gate"
      BY <1>6 DEF Gate
    <2>2. /\ reader[q] # NoQuery
          /\ reader[q].id \in Runs => PublicationReady(reader[q].id)
      BY <2>1, ResolvesToContent
    <2>3. origin \in Bundles
      BY <1>1, <2>2 DEF Queries
    <2> HIDE DEF origin
    <2> QED BY <2>1, <2>2, <2>3, QueryKeeps, RefuseKeeps
  <1>7. CASE Fetch(q)
    <2> DEFINE bundle == published[Resolved(q)]
    <2>1. /\ Query(q, "served", bundle) \/ Refuse(q)
          /\ reader[q].at = "fetch"
      BY <1>7 DEF Fetch
    <2>2. /\ bundle \in Bundles /\ reader[q] # NoQuery
          /\ reader[q].id \in Runs =>
               PublicationReady(reader[q].id) /\ Resolved(q) = records[reader[q].id].final
          /\ Resolved(q) \in Results
      BY <2>1, ResolvesToContent
    <2>3. bundle \in Runs => records[bundle].final = Resolved(q)
      BY <2>2 DEF ReaderInv, SagaInv, Origin
    <2> HIDE DEF bundle
    <2> QED BY <2>1, <2>2, <2>3, QueryKeeps, RefuseKeeps
  <1>8. CASE Finish(q)
    BY <1>8, RefuseKeeps DEF Finish
  <1> QED BY <1>2, <1>3, <1>4, <1>5, <1>6, <1>7, <1>8 DEF ReaderStep

\* A page is the events that come next, as many as fit.
Fresh(events, cursor) == {s \in events : s > cursor}
Page(fresh) == {s \in fresh : Cardinality({t \in fresh : t <= s}) <= PageLimit}

LEMMA PageIsInterval ==
  ASSUME NEW m \in Nat, NEW c \in Nat, NEW seen
  PROVE  \E n \in Nat :
           /\ Page(Fresh(1 .. m, c)) = (c + 1) .. n /\ c <= n /\ (n <= m \/ n = c)
           /\ Advanced(c, Page(Fresh(1 .. m, c)), seen) = n
  <1> DEFINE fresh == Fresh(1 .. m, c)
             page == Page(fresh)
  <1>1. fresh = (c + 1) .. m
    BY DEF Fresh
  <1> HIDE DEF fresh
  <1>2. ASSUME NEW s \in fresh PROVE Cardinality({t \in fresh : t <= s}) = s - c
    <2>1. {t \in fresh : t <= s} = (c + 1) .. s /\ s \in Int /\ c + 1 \in Int /\ c + 1 <= s
      BY <1>1
    <2>2. Cardinality((c + 1) .. s) = s - c
      BY <2>1, FS_Interval
    <2> QED BY <2>1, <2>2
  <1>3. page = {s \in (c + 1) .. m : s - c <= PageLimit}
    BY <1>1, <1>2 DEF Page
  <1> HIDE DEF page
  <1> DEFINE n == IF m <= c THEN c ELSE IF c + PageLimit <= m THEN c + PageLimit ELSE m
  <1>4. PageLimit \in Nat \ {0}
    BY ReadersAssumption
  <1>5. n \in Nat /\ c <= n /\ (n <= m \/ n = c)
    BY <1>4
  <1>6. page = (c + 1) .. n
    BY <1>3, <1>4
  <1> HIDE DEF n
  <1>7. Advanced(c, page, seen) = n
    <2>1. CASE page = {}
      <3>1. n = c
        BY <1>5, <1>6, <2>1
      <3> QED BY <2>1, <3>1 DEF Advanced
    <2>2. CASE page # {}
      <3>1. n \in page /\ \A t \in page : t <= n
        <4>1. PICK t \in (c + 1) .. n : TRUE
          BY <1>6, <2>2
        <4>2. n \in (c + 1) .. n
          BY <1>5, <4>1
        <4>3. \A s \in (c + 1) .. n : s <= n
          OBVIOUS
        <4> QED BY <1>6, <4>2, <4>3
      <3>2. \A s \in page : (\A t \in page : t <= s) => s = n
        BY <1>5, <1>6, <3>1
      <3> QED BY <2>2, <3>1, <3>2 DEF Advanced
    <2> QED BY <2>1, <2>2
  <1> QED BY <1>5, <1>6, <1>7 DEF page, fresh

\* What can be held back is the last event.
LEMMA VisibleIsInterval ==
  ASSUME ReaderInv, NEW run \in Runs, NEW seen \in Nat, seen <= records[run].events
  PROVE  \E m \in Nat :
           /\ VisibleEvents(run, seen) = 1 .. m /\ m <= seen
           /\ completedAt[run] \in 1 .. m => PublicationReady(run)
  <1>1. /\ records[run].events \in Nat
        /\ completedAt[run] =
             IF records[run].status = "completed" THEN records[run].events ELSE 0
    BY DEF ReaderInv, SagaInv, SagaRecord, Records, CompletedIsLast
  <1>2. CASE Pending(run) /\ completedAt[run] = seen /\ seen # 0
    <2>1. VisibleEvents(run, seen) = 1 .. (seen - 1) /\ seen - 1 \in Nat
      BY <1>2 DEF VisibleEvents
    <2>2. completedAt[run] \notin 1 .. (seen - 1)
      BY <1>2
    <2> QED BY <2>1, <2>2
  <1>3. CASE ~ (Pending(run) /\ completedAt[run] = seen /\ seen # 0)
    <2>1. VisibleEvents(run, seen) = 1 .. seen
      BY <1>1, <1>3 DEF VisibleEvents
    <2>2. completedAt[run] \in 1 .. seen => PublicationReady(run)
      BY <1>1, <1>3 DEF Pending
    <2> QED BY <2>1, <2>2
  <1> QED BY <1>2, <1>3

\* A poll that keeps what its poller knows keeps the invariant.
LEMMA PollerKeeps ==
  ASSUME ReaderInv, UNCHANGED <<vars, reader, completedAt>>,
         NEW p \in Pollers, NEW k \in Polls, poller' = [poller EXCEPT ![p] = k],
         k.run = poller[p].run,
         /\ k.delivered = 1 .. k.cursor
         /\ k.cursor <= records[k.run].events
         /\ k.seen <= records[k.run].events
         /\ completedAt[k.run] \in k.delivered => PublicationReady(k.run)
  PROVE  ReaderInv'
  <1>1. SagaInv'
    BY SagaNext DEF ReaderInv, Kept
  <1>2. poller' \in [Pollers -> Polls] /\ poller'[p] = k
    BY DEF ReaderInv, ReaderTypes
  <1>3. ReaderTypes' /\ CompletedIsLast' /\ records' = records /\ completedAt' = completedAt
    BY <1>2 DEF ReaderInv, ReaderTypes, CompletedIsLast, vars
  <1>4. \A q \in Readers : QueryKnows(q)'
    BY OtherQueries DEF ReaderInv
  <1>5. \A run \in Runs : PublicationReady(run)' <=> PublicationReady(run)
    BY PublicationSame
  <1>6. PollKnows(p)'
    <2>1. k.run \in Runs
      BY DEF Polls
    <2>2. poller'[p].run = k.run /\ (PublicationReady(k.run) => PublicationReady(poller[p].run)')
      BY <1>2, <1>3, <2>1 DEF PublicationReady, vars, stores
    <2> QED BY <1>2, <1>3, <2>1, <2>2 DEF PollKnows
  <1>7. ASSUME NEW o \in Pollers, o # p PROVE PollKnows(o)'
    <2>1. poller'[o] = poller[o] /\ PollKnows(o)
      BY <1>7 DEF ReaderInv, ReaderTypes
    <2>2. PublicationReady(poller[o].run) => PublicationReady(poller[o].run)'
      BY <1>3, <2>1 DEF PublicationReady, vars, stores
    <2> QED BY <1>3, <2>1, <2>2 DEF PollKnows
  <1> QED BY <1>1, <1>3, <1>4, <1>6, <1>7 DEF ReaderInv

LEMMA ReadEventsKeeps ==
  ASSUME ReaderInv, NEW p \in Pollers, ReadEvents(p), UNCHANGED <<vars, reader, completedAt>>
  PROVE  ReaderInv'
  <1> DEFINE run == poller[p].run
             k == [poller[p] EXCEPT !.at = "control", !.seen = records[run].events]
  <1>1. poller \in [Pollers -> Polls] /\ poller[p] \in Polls /\ run \in Runs /\ PollKnows(p)
    BY DEF ReaderInv, ReaderTypes, Polls
  <1>2. records[run].events \in Nat
    BY <1>1 DEF ReaderInv, SagaInv, SagaRecord, Records
  <1>3. /\ k \in Polls /\ k.run = run /\ k.cursor = poller[p].cursor
        /\ k.delivered = poller[p].delivered /\ k.seen = records[run].events
    BY <1>1, <1>2 DEF Polls
  <1>4. poller' = [poller EXCEPT ![p] = k]
    BY <1>1 DEF ReadEvents
  <1> HIDE DEF k
  <1>5. /\ k.delivered = 1 .. k.cursor
        /\ k.cursor <= records[k.run].events
        /\ k.seen <= records[k.run].events
        /\ completedAt[k.run] \in k.delivered => PublicationReady(k.run)
    BY <1>1, <1>2, <1>3 DEF PollKnows
  <1> QED BY <1>3, <1>4, <1>5, PollerKeeps

LEMMA AnswerKeeps ==
  ASSUME ReaderInv, NEW p \in Pollers, Answer(p), UNCHANGED <<vars, reader, completedAt>>
  PROVE  ReaderInv'
  <1> DEFINE o == poller[p]
             run == o.run
             fresh == {s \in VisibleEvents(run, o.seen) : s > o.cursor}
             page == {s \in fresh : Cardinality({t \in fresh : t <= s}) <= PageLimit}
             cursor == Advanced(o.cursor, page, o.seen)
             k == [o EXCEPT !.at = "idle", !.seen = 0, !.cursor = cursor, !.delivered = @ \cup page]
  <1>1. /\ o \in Polls /\ run \in Runs /\ o.cursor \in Nat /\ o.seen \in Nat
        /\ o.delivered \in SUBSET Nat /\ PollKnows(p)
    BY DEF ReaderInv, ReaderTypes, Polls
  <1>2. poller' = [poller EXCEPT ![p] = k]
    BY DEF Answer
  <1>3. records[run].events \in Nat /\ o.seen <= records[run].events
    BY <1>1 DEF ReaderInv, SagaInv, SagaRecord, Records, PollKnows
  <1>4. PICK m \in Nat :
          /\ VisibleEvents(run, o.seen) = 1 .. m /\ m <= o.seen
          /\ completedAt[run] \in 1 .. m => PublicationReady(run)
    BY <1>1, <1>3, VisibleIsInterval
  <1>5. \E n \in Nat :
          page = (o.cursor + 1) .. n /\ o.cursor <= n /\ (n <= m \/ n = o.cursor) /\ cursor = n
    <2>1. page = Page(Fresh(1 .. m, o.cursor))
      BY <1>4 DEF Page, Fresh
    <2>2. cursor = Advanced(o.cursor, page, o.seen)
      OBVIOUS
    <2> HIDE DEF page, cursor
    <2> QED BY <1>1, <2>1, <2>2, PageIsInterval
  <1> HIDE DEF page, cursor
  <1>6. /\ cursor \in Nat /\ o.cursor <= cursor /\ (cursor <= m \/ cursor = o.cursor)
        /\ page = (o.cursor + 1) .. cursor
    BY <1>5
  <1>7. o.delivered \cup page = 1 .. cursor /\ page \in SUBSET Nat
    BY <1>1, <1>6 DEF PollKnows
  <1>8. /\ k \in Polls /\ k.run = run /\ k.seen = 0 /\ k.cursor = cursor
        /\ k.delivered = o.delivered \cup page
    BY <1>1, <1>6, <1>7 DEF Polls
  <1>9. cursor <= records[run].events
    BY <1>1, <1>3, <1>4, <1>6 DEF PollKnows
  <1>10. completedAt[run] \in 1 .. cursor => PublicationReady(run)
    BY <1>1, <1>4, <1>6 DEF PollKnows
  <1> HIDE DEF k
  <1>11. /\ k.delivered = 1 .. k.cursor
         /\ k.cursor <= records[k.run].events
         /\ k.seen <= records[k.run].events
         /\ completedAt[k.run] \in k.delivered => PublicationReady(k.run)
    BY <1>3, <1>7, <1>8, <1>9, <1>10
  <1> QED BY <1>2, <1>8, <1>11, PollerKeeps

LEMMA ReaderNextKeeps == ASSUME ReaderInv, [ReaderNext]_readerVars PROVE ReaderInv'
  <1>1. CASE UNCHANGED readerVars
    <2>1. UNCHANGED <<vars, poller, completedAt>> /\ reader' = reader
      BY <1>1 DEF readerVars
    <2> QED BY <2>1, OtherQueries, ReaderKeeps DEF ReaderInv, ReaderTypes
  <1> QED BY <1>1, SagaMovesKeeps, ReaderStepKeeps, ReadEventsKeeps, AnswerKeeps DEF ReaderNext

\* While finalize runs, every query knows what its gate let through, and every
\* poller has the events up to its cursor.
THEOREM ReaderInvariant == ReaderSpec => []ReaderInv
  BY ReaderStart, ReaderNextKeeps, PTL DEF ReaderSpec

\* A poller that follows its cursor was given every event up to it
\* (NoEventSkipped), however the pages fall and whatever was held back.
THEOREM EveryEventIsDelivered == ReaderSpec => []NoEventSkipped
  <1>1. ReaderInv => NoEventSkipped
    BY DEF ReaderInv, PollKnows, NoEventSkipped
  <1> QED BY <1>1, ReaderInvariant, PTL

\* Whoever is given the completed event finds every side effect of the
\* publication durable (CompletedEventMeansDone).
THEOREM CompletedEventIsHonest == ReaderSpec => []CompletedEventMeansDone
  <1>1. ASSUME ReaderInv, NEW p \in Pollers, completedAt[poller[p].run] \in poller[p].delivered
        PROVE  SideEffectsDone(poller[p].run)
    <2>1. poller[p].run \in Runs /\ PublicationReady(poller[p].run)
      BY <1>1 DEF ReaderInv, ReaderTypes, Polls, PollKnows
    <2> QED BY <1>1, <2>1
            DEF ReaderInv, SagaInv, SagaRecord, PublicationReady, SideEffectsDone
  <1>2. ReaderInv => CompletedEventMeansDone
    BY <1>1 DEF CompletedEventMeansDone
  <1> QED BY <1>2, ReaderInvariant, PTL

DistinctContents == \A a, b \in Runs : records[a].final = records[b].final => a = b

\* As long as no two runs have the same content, a reader that asks by
\* lifecycle run is handed a bundle of a run only when every side effect of
\* its publication is durable (LifecycleReadersSeeComplete).
THEOREM GateIsEnough == ReaderSpec => [](DistinctContents => LifecycleReadersSeeComplete)
  <1>1. ASSUME ReaderInv, DistinctContents, NEW q \in Readers, reader[q].at = "served",
               reader[q].id \in Runs, reader[q].origin \in Runs
        PROVE  SideEffectsDone(reader[q].origin)
    <2>1. PublicationReady(reader[q].id) /\ reader[q].origin = reader[q].id
      BY <1>1 DEF ReaderInv, QueryKnows, DistinctContents
    <2> QED BY <1>1, <2>1
            DEF ReaderInv, SagaInv, SagaRecord, PublicationReady, SideEffectsDone
  <1>2. ReaderInv => (DistinctContents => LifecycleReadersSeeComplete)
    BY <1>1 DEF LifecycleReadersSeeComplete
  <1> QED BY <1>2, ReaderInvariant, PTL

===============================================================================
