--------------------------- MODULE RunControlProofs ---------------------------
(***************************************************************************)
(* Theorems about RunControl for every topology, every set of callers and  *)
(* every bound.  The inductive invariant says that the record is sound     *)
(* (LifecycleRecordProofs) and what the calls in flight know: a commit     *)
(* carries the attempt it was asked for, and a finalizer holds the record  *)
(* as it was at the revision it holds.                                     *)
(*                                                                         *)
(* Theorems about SequentialHarness follow, for any number of harnesses,   *)
(* stages and interruptions.  Each step of a harness is one of the         *)
(* coordinator's, so the record keeps the invariant of RunControl; what a  *)
(* harness holds between its reads and its commit is a prefix of the       *)
(* committed outputs.                                                      *)
(***************************************************************************)
EXTENDS SequentialHarness, LifecycleRecordProofs

HeldCommit(c) ==
  call[c].op = "commit" /\ call[c].requested # NoAttempt =>
    /\ Len(call[c].commitments) > 0
    /\ call[c].commitments[Len(call[c].commitments)].attempt = call[c].requested

HeldRecord(c) ==
  call[c].op = "finalize" =>
    /\ record.status # "absent"
    /\ call[c].local.revision <= record.revision
    /\ call[c].local.revision = record.revision => call[c].local = record

RunInv ==
  /\ TypeOK
  /\ SoundRecord(record)
  /\ record.status = "absent" => record = AbsentRecord
  /\ \A c \in Callers : HeldCommit(c) /\ HeldRecord(c)

-----------------------------------------------------------------------------
LEMMA CallTypes ==
  ASSUME NEW k \in Calls
  PROVE  /\ k.op = "idle" => k = Idle
         /\ k.op = "commit" => k \in CommitCalls
         /\ k.op = "finalize" => k \in FinalizeCalls
  BY DEF Calls, CommitCalls, FinalizeCalls, Idle

\* An update leaves a sound record of the next revision, which differs from
\* the mutated one in the revision only.
LEMMA UpdateSound ==
  ASSUME NEW expected, NEW new \in Records, record \in Records,
         ValidRecord(new) => SoundRecord(new),
         Update(expected, new)
  PROVE  /\ record' \in Records /\ SoundRecord(record')
         /\ record' = Revised(new, record.revision)
         /\ record'.revision = record.revision + 1
         /\ record.revision \in Nat
         /\ record'.status = new.status
         /\ ValidRecord(new)
         /\ expected = record.revision
         /\ record.status # "absent"
  <1>1. expected = record.revision /\ record.revision \in Nat /\ ValidRecord(new)
        /\ record' = Revised(new, record.revision) /\ record.status # "absent"
    BY DEF Update, Records
  <1>2. record' \in Records /\ SoundRecord(record')
    BY <1>1, RevisedType, RevisedSound
  <1>3. record'.revision = record.revision + 1 /\ record'.status = new.status
    BY <1>1 DEF Revised, Records
  <1> QED BY <1>1, <1>2, <1>3

\* An update by one caller makes what the other calls hold a past revision.
LEMMA OthersHold ==
  ASSUME NEW c \in Callers, HeldCommit(c), HeldRecord(c), call[c] \in Calls,
         call'[c] = call[c],
         record.revision \in Nat, record'.revision = record.revision + 1,
         record'.status # "absent"
  PROVE  HeldCommit(c)' /\ HeldRecord(c)'
  <1>1. HeldCommit(c)'
    BY DEF HeldCommit
  <1>2. call[c].op = "finalize" => call[c].local.revision \in Nat
    BY CallTypes DEF FinalizeCalls, Records
  <1>3. HeldRecord(c)'
    BY <1>2 DEF HeldRecord
  <1> QED BY <1>1, <1>3

LEMMA PresentStatus ==
  ASSUME NEW r \in Records, r.status # "absent"
  PROVE  /\ MemoryStagedRecord(r).status = r.status
         /\ MemoryWrittenRecord(r).status = r.status
         /\ \A target : MovedTo(r, target).status = target
         /\ StartedRecord(r).status = "running"
         /\ CancelRequestedRecord(r).status = "cancel_requested"
         /\ FinalizingRecord(r).status = "finalizing"
         /\ CompletedRecord(r).status = "completed"
  BY DEF MemoryStagedRecord, MemoryWrittenRecord, MovedTo, NoActive, StartedRecord,
         CancelRequestedRecord, FinalizingRecord, CompletedRecord, Emit, Records

-----------------------------------------------------------------------------
(* Steps of one update that leave the calls alone.                           *)

LEMMA UpdateNowStep ==
  ASSUME RunInv, NEW new \in Records, ValidRecord(new) => SoundRecord(new),
         new.status # "absent", UpdateNow(new)
  PROVE  RunInv'
  <1>1. /\ record \in Records /\ Update(record.revision, new)
        /\ call \in [Callers -> Calls] /\ call' = call
    BY DEF RunInv, TypeOK, UpdateNow
  <1>2. /\ record' \in Records /\ SoundRecord(record')
        /\ record.revision \in Nat /\ record'.revision = record.revision + 1
        /\ record'.status # "absent"
    BY <1>1, UpdateSound
  <1>3. ASSUME NEW c \in Callers PROVE HeldCommit(c)' /\ HeldRecord(c)'
    BY <1>1, <1>2, OthersHold DEF RunInv
  <1> QED BY <1>1, <1>2, <1>3 DEF RunInv, TypeOK

LEMMA InputTypes == InputReceipts \subseteq Receipts
  <1>1. 1 .. MaxAttempt \subseteq Nat /\ NoAttempt \in Nat
    BY ControlAssumption DEF NoAttempt
  <1> QED BY <1>1 DEF InputReceipts, Receipts

LEMMA CreateStep == RunInv /\ Create => RunInv'
  <1> SUFFICES ASSUME RunInv, Create PROVE RunInv'
    OBVIOUS
  <1>1. PICK memory \in {{}, {"enabled"}} : Insert(PreparedRecord(memory)) /\ UNCHANGED call
    BY DEF Create
  <1>2. memory \in MemoryFlags
    BY DEF MemoryFlags
  <1>3. record' \in Records /\ SoundRecord(record')
    BY <1>1, <1>2, PreparedType, PreparedSound DEF Insert
  <1>4. record.status = "absent" /\ call' = call /\ record'.status = "prepared"
    BY <1>1 DEF Insert, PreparedRecord, Emit, AbsentRecord
  <1>5. ASSUME NEW c \in Callers PROVE HeldCommit(c)' /\ HeldRecord(c)'
    <2>1. HeldCommit(c) /\ call[c].op # "finalize"
      BY <1>4 DEF RunInv, HeldRecord
    <2> QED BY <1>4, <2>1 DEF HeldCommit, HeldRecord
  <1> QED BY <1>3, <1>4, <1>5 DEF RunInv, TypeOK

LEMMA MoveStep ==
  ASSUME RunInv, Start \/ Pause \/ Resume \/ Fail \/ RequestCancel \/ AcknowledgeCancel
  PROVE  RunInv'
  <1>1. record \in Records /\ SoundRecord(record)
    BY DEF RunInv, TypeOK
  <1>2. record.status # "absent"
    BY DEF Start, Pause, Resume, CanResume, Fail, RequestCancel, AcknowledgeCancel
  <1>3. CASE Start
    <2>1. StartedRecord(record) \in Records /\ SoundRecord(StartedRecord(record))
      BY <1>1, StartedType, StartedSound
    <2> QED BY <1>1, <1>2, <1>3, <2>1, PresentStatus, UpdateNowStep DEF Start
  <1>4. CASE RequestCancel
    <2>1. CancelRequestedRecord(record) \in Records /\ SoundRecord(CancelRequestedRecord(record))
      BY <1>1, CancelRequestedType, StartedSound
    <2> QED BY <1>1, <1>2, <1>4, <2>1, PresentStatus, UpdateNowStep DEF RequestCancel
  <1>5. CASE Pause \/ Resume \/ Fail \/ AcknowledgeCancel
    <2>1. PICK target \in {"paused", "running", "failed", "cancelled"} :
            UpdateNow(MovedTo(record, target))
      BY <1>5 DEF Pause, Resume, ResumedRecord, Fail, AcknowledgeCancel
    <2>2. target \in Statuses /\ target # "absent"
      BY StatusNames
    <2>3. MovedTo(record, target) \in Records /\ SoundRecord(MovedTo(record, target))
      BY <1>1, <2>2, MovedToType, MovedToSound
    <2> QED BY <1>1, <1>2, <2>1, <2>2, <2>3, PresentStatus, UpdateNowStep
  <1> QED BY <1>3, <1>4, <1>5

LEMMA AppendStep ==
  ASSUME RunInv, NEW rc \in InputReceipts, AppendReceipt(rc)
  PROVE  RunInv'
  <1>1. record \in Records /\ SoundRecord(record) /\ rc \in Receipts
    BY InputTypes DEF RunInv, TypeOK
  <1>2. /\ record.status \in {"running", "cancel_requested"}
        /\ AcceptsReceipt(record, rc) /\ UpdateNow(LoggedReceipt(record, rc))
    BY DEF AppendReceipt, CanAppendReceipts
  <1>3. /\ LoggedReceipt(record, rc) \in Records
        /\ SoundRecord(LoggedReceipt(record, rc))
        /\ LoggedReceipt(record, rc).status = record.status
    BY <1>1, <1>2, LoggedType, LoggedSound, LoggedFields
  <1> QED BY <1>2, <1>3, UpdateNowStep

LEMMA AppendTwoStep ==
  ASSUME RunInv, NEW first \in InputReceipts, NEW second \in InputReceipts,
         AppendTwoReceipts(first, second)
  PROVE  RunInv'
  <1> DEFINE middle == LoggedReceipt(record, first)
             new == LoggedReceipt(middle, second)
  <1>1. record \in Records /\ SoundRecord(record)
        /\ first \in Receipts /\ second \in Receipts
    BY InputTypes DEF RunInv, TypeOK
  <1>2. /\ record.status \in {"running", "cancel_requested"}
        /\ AcceptsReceipt(record, first) /\ AcceptsReceipt(middle, second)
        /\ UpdateNow(new)
    BY DEF AppendTwoReceipts, CanAppendReceipts
  <1>3. middle \in Records /\ SoundRecord(middle) /\ middle.status = record.status
    BY <1>1, <1>2, LoggedType, LoggedSound, LoggedFields
  <1> HIDE DEF middle
  <1>4. new \in Records /\ SoundRecord(new) /\ new.status = record.status
    BY <1>1, <1>2, <1>3, LoggedType, LoggedSound, LoggedFields
  <1> HIDE DEF new
  <1> QED BY <1>2, <1>4, UpdateNowStep

-----------------------------------------------------------------------------
(* Steps of the calls in flight.                                             *)

LEMMA ReadForCommitStep ==
  ASSUME RunInv, NEW c \in Callers, NEW expected \in Nat, NEW stage \in Stages,
         NEW digest \in Digests, NEW requested \in Nat,
         ReadForCommit(c, expected, stage, digest, requested)
  PROVE  RunInv'
  <1> DEFINE bound == BoundCommitments(record, stage, digest, requested)
             k == [op |-> "commit", expected |-> expected, stage |-> stage,
                   digest |-> digest, requested |-> requested, commitments |-> bound]
  <1>1. /\ record \in Records /\ call \in [Callers -> Calls]
        /\ call' = [call EXCEPT ![c] = k] /\ record' = record
    BY DEF RunInv, TypeOK, ReadForCommit
  <1>2. bound \in CommitmentSeqs
    BY <1>1, BoundType
  <1>3. requested # NoAttempt =>
          Len(bound) > 0 /\ bound[Len(bound)].attempt = requested
    <2> DEFINE new == [stage |-> stage, attempt |-> CommittedAttempt(record, stage, requested),
                       digest |-> digest]
    <2>1. requested # NoAttempt => new.attempt = requested
      BY DEF CommittedAttempt
    <2>2. record.commitments \in Seq(Commitments)
      BY <1>1 DEF Records, CommitmentSeqs
    <2>3. bound = Append(record.commitments, new)
      BY DEF BoundCommitments
    <2> HIDE DEF new, bound
    <2>4. Len(bound) = Len(record.commitments) + 1 /\ bound[Len(bound)] = new
          /\ Len(record.commitments) \in Nat
      BY <2>2, <2>3
    <2> QED BY <2>1, <2>4
  <1> HIDE DEF bound
  <1>4. k \in CommitCalls
    BY <1>2 DEF CommitCalls
  <1>5. call' \in [Callers -> Calls]
    BY <1>1, <1>4 DEF Calls
  <1>6. ASSUME NEW d \in Callers PROVE HeldCommit(d)' /\ HeldRecord(d)'
    <2>1. CASE d = c
      <3>1. call'[d] = k
        BY <1>1, <2>1
      <3> QED BY <1>3, <3>1 DEF HeldCommit, HeldRecord
    <2>2. CASE d # c
      <3>1. call'[d] = call[d]
        BY <1>1, <2>2
      <3> QED BY <1>1, <3>1 DEF RunInv, HeldCommit, HeldRecord
    <2> QED BY <2>1, <2>2
  <1> QED BY <1>1, <1>5, <1>6 DEF RunInv, TypeOK

LEMMA CommitStep ==
  ASSUME RunInv, NEW c \in Callers, CommitStage(c)
  PROVE  RunInv'
  <1> DEFINE k == call[c]
             new == CommittedRecord(record, k.stage, k.digest, k.requested, k.commitments)
  <1>1. /\ record \in Records /\ SoundRecord(record) /\ call \in [Callers -> Calls]
        /\ HeldCommit(c) /\ k \in Calls
    BY DEF RunInv, TypeOK
  <1>2. /\ k.op = "commit" /\ CanCommit(record, k.stage, k.digest, k.requested)
        /\ Update(k.expected, new) /\ call' = [call EXCEPT ![c] = Idle]
    BY DEF CommitStage
  <1>3. /\ k.stage \in Stages /\ k.digest \in Digests /\ k.requested \in Nat
        /\ k.commitments \in CommitmentSeqs
    BY <1>1, <1>2, CallTypes DEF CommitCalls
  <1>4. k.requested # NoAttempt =>
          Len(k.commitments) > 0 /\ k.commitments[Len(k.commitments)].attempt = k.requested
    BY <1>1, <1>2 DEF HeldCommit
  <1> HIDE DEF k
  <1>5. new \in Records /\ new.status = record.status /\ (ValidRecord(new) => SoundRecord(new))
    BY <1>1, <1>2, <1>3, <1>4, CommittedType, CommittedFields, CommittedSound
  <1> HIDE DEF new
  <1>6. /\ record' \in Records /\ SoundRecord(record')
        /\ record.revision \in Nat /\ record'.revision = record.revision + 1
        /\ record'.status # "absent"
    BY <1>1, <1>2, <1>5, UpdateSound
  <1>7. call' \in [Callers -> Calls]
    BY <1>1, <1>2 DEF Calls
  <1>8. ASSUME NEW d \in Callers PROVE HeldCommit(d)' /\ HeldRecord(d)'
    <2>1. CASE d = c
      <3>1. call'[d] = Idle
        BY <1>1, <1>2, <2>1
      <3> QED BY <3>1 DEF HeldCommit, HeldRecord, Idle
    <2>2. CASE d # c
      <3>1. call'[d] = call[d] /\ HeldCommit(d) /\ HeldRecord(d) /\ call[d] \in Calls
        BY <1>1, <1>2, <2>2 DEF RunInv
      <3> QED BY <1>6, <3>1, OthersHold
    <2> QED BY <2>1, <2>2
  <1> QED BY <1>6, <1>7, <1>8 DEF RunInv, TypeOK

LEMMA ReadForFinalizeStep ==
  ASSUME RunInv, NEW c \in Callers, ReadForFinalize(c) \/ Leave(c)
  PROVE  RunInv'
  <1>1. /\ record \in Records /\ call \in [Callers -> Calls] /\ record' = record
    BY DEF RunInv, TypeOK, ReadForFinalize, Leave
  <1>2. PICK k \in {Idle, [op |-> "finalize", local |-> record]} :
          /\ call' = [call EXCEPT ![c] = k]
          /\ k # Idle => record.status # "absent"
    BY DEF ReadForFinalize, Leave, CanFinalize
  <1>3. k \in Calls
    BY <1>1, <1>2 DEF Calls, FinalizeCalls
  <1>4. call' \in [Callers -> Calls]
    BY <1>1, <1>2, <1>3
  <1>5. ASSUME NEW d \in Callers PROVE HeldCommit(d)' /\ HeldRecord(d)'
    <2>1. CASE d = c
      <3>1. call'[d] = k
        BY <1>1, <1>2, <2>1
      <3>2. HeldCommit(d)'
        BY <1>2, <3>1 DEF HeldCommit, Idle
      <3>3. HeldRecord(d)'
        <4>1. CASE k = Idle
          BY <3>1, <4>1 DEF HeldRecord, Idle
        <4>2. CASE k # Idle
          <5>1. call'[d].local = record /\ record.status # "absent" /\ record.revision \in Nat
            BY <1>1, <1>2, <3>1, <4>2 DEF Records
          <5> QED BY <1>1, <5>1 DEF HeldRecord
        <4> QED BY <4>1, <4>2
      <3> QED BY <3>2, <3>3
    <2>2. CASE d # c
      <3>1. call'[d] = call[d]
        BY <1>1, <1>2, <2>2
      <3> QED BY <1>1, <3>1 DEF RunInv, HeldCommit, HeldRecord
    <2> QED BY <2>1, <2>2
  <1> QED BY <1>1, <1>4, <1>5 DEF RunInv, TypeOK

LEMMA FinalizerStep ==
  ASSUME RunInv, NEW c \in Callers, call[c].op = "finalize",
         NEW new \in Records, new.status # "absent",
         ValidRecord(new) => SoundRecord(new),
         FinalizerUpdate(c, new)
  PROVE  RunInv'
  <1>1. /\ record \in Records /\ call \in [Callers -> Calls] /\ call[c] \in FinalizeCalls
    BY CallTypes DEF RunInv, TypeOK
  <1>2. Update(call[c].local.revision, new) /\ call' = [call EXCEPT ![c].local = record']
    BY DEF FinalizerUpdate
  <1>3. /\ record' \in Records /\ SoundRecord(record')
        /\ record.revision \in Nat /\ record'.revision = record.revision + 1
        /\ record'.status # "absent"
    BY <1>1, <1>2, UpdateSound
  <1>4. call'[c] = [call[c] EXCEPT !.local = record'] /\ call' \in [Callers -> Calls]
    <2>1. [call[c] EXCEPT !.local = record'] \in FinalizeCalls
      BY <1>1, <1>3 DEF FinalizeCalls
    <2> QED BY <1>1, <1>2, <2>1 DEF Calls
  <1>5. ASSUME NEW d \in Callers PROVE HeldCommit(d)' /\ HeldRecord(d)'
    <2>1. CASE d = c
      <3>1. call'[d].op = "finalize" /\ call'[d].local = record'
        BY <1>1, <1>4, <2>1 DEF FinalizeCalls
      <3> QED BY <1>3, <3>1 DEF HeldCommit, HeldRecord
    <2>2. CASE d # c
      <3>1. call'[d] = call[d] /\ HeldCommit(d) /\ HeldRecord(d) /\ call[d] \in Calls
        BY <1>1, <1>2, <2>2 DEF RunInv
      <3> QED BY <1>3, <3>1, OthersHold
    <2> QED BY <2>1, <2>2
  <1> QED BY <1>3, <1>4, <1>5 DEF RunInv, TypeOK

\* The update succeeds only on the record the finalizer holds.
LEMMA FinalizerHoldsRecord ==
  ASSUME RunInv, NEW c \in Callers, call[c].op = "finalize", NEW new,
         FinalizerUpdate(c, new)
  PROVE  call[c].local = record
  BY DEF RunInv, HeldRecord, FinalizerUpdate, Update

LEMMA SagaStep ==
  ASSUME RunInv, NEW c \in Callers,
         BeginFinalizing(c) \/ RetainMemoryStage(c) \/ Complete(c) \/ RetainMemoryWrite(c)
  PROVE  RunInv'
  <1>1. /\ record \in Records /\ SoundRecord(record) /\ call[c].op = "finalize"
        /\ record.status # "absent"
    BY DEF RunInv, TypeOK, BeginFinalizing, RetainMemoryStage, Complete, RetainMemoryWrite,
           HeldRecord
  <1>2. CASE BeginFinalizing(c)
    BY <1>1, <1>2, FinalizingType, SealedSound, PresentStatus, FinalizerStep
       DEF BeginFinalizing
  <1>3. CASE RetainMemoryStage(c)
    BY <1>1, <1>3, MemoryType, MemorySound, PresentStatus, FinalizerStep
       DEF RetainMemoryStage
  <1>4. CASE Complete(c)
    BY <1>1, <1>4, CompletedType, SealedSound, PresentStatus, FinalizerStep DEF Complete
  <1>5. CASE RetainMemoryWrite(c)
    BY <1>1, <1>5, MemoryType, MemorySound, PresentStatus, FinalizerStep
       DEF RetainMemoryWrite
  <1> QED BY <1>2, <1>3, <1>4, <1>5

-----------------------------------------------------------------------------
LEMMA InitInv == Init => RunInv
  <1> SUFFICES ASSUME Init PROVE RunInv
    OBVIOUS
  <1>1. record = AbsentRecord /\ call = [c \in Callers |-> Idle]
    BY DEF Init
  <1>2. record \in Records /\ SoundRecord(record)
    BY <1>1, AbsentType, AbsentSound
  <1>3. call \in [Callers -> Calls]
    BY <1>1 DEF Calls
  <1>4. \A c \in Callers : HeldCommit(c) /\ HeldRecord(c)
    BY <1>1 DEF HeldCommit, HeldRecord, Idle
  <1> QED BY <1>1, <1>2, <1>3, <1>4 DEF RunInv, TypeOK

LEMMA NextInv == RunInv /\ [Next]_vars => RunInv'
  <1> SUFFICES ASSUME RunInv, [Next]_vars PROVE RunInv'
    OBVIOUS
  <1>1. CASE OneStepOperation
    <2>1. CASE Create
      BY <2>1, CreateStep
    <2>2. CASE Start \/ Pause \/ Resume \/ Fail \/ RequestCancel \/ AcknowledgeCancel
      BY <2>2, MoveStep
    <2>3. CASE \E rc \in InputReceipts : AppendReceipt(rc)
      BY <2>3, AppendStep
    <2>4. CASE \E first, second \in InputReceipts : AppendTwoReceipts(first, second)
      BY <2>4, AppendTwoStep
    <2> QED BY <1>1, <2>1, <2>2, <2>3, <2>4 DEF OneStepOperation
  <1>2. ASSUME NEW c \in Callers, CallStep(c) PROVE RunInv'
    <2>1. CASE \E expected \in record.revision .. record.revision + MaxAhead,
                 stage \in Stages, digest \in Digests, requested \in Requested :
                ReadForCommit(c, expected, stage, digest, requested)
      <3>1. /\ record.revision .. record.revision + MaxAhead \subseteq Nat
            /\ Requested \subseteq Nat
        <4>1. record.revision \in Nat
          BY DEF RunInv, TypeOK, Records
        <4> QED BY <4>1, ControlAssumption DEF Requested, NoAttempt
      <3>2. PICK expected \in Nat, stage \in Stages, digest \in Digests, requested \in Nat :
              ReadForCommit(c, expected, stage, digest, requested)
        BY <2>1, <3>1
      <3> QED BY <3>2, ReadForCommitStep
    <2>2. CASE CommitStage(c)
      BY <2>2, CommitStep
    <2>3. CASE ReadForFinalize(c) \/ Leave(c)
      BY <2>3, ReadForFinalizeStep
    <2>4. CASE BeginFinalizing(c) \/ RetainMemoryStage(c) \/ Complete(c) \/ RetainMemoryWrite(c)
      BY <2>4, SagaStep
    <2> QED BY <1>2, <2>1, <2>2, <2>3, <2>4 DEF CallStep
  <1>3. CASE UNCHANGED vars
    BY <1>3 DEF vars, RunInv, TypeOK, HeldCommit, HeldRecord
  <1> QED BY <1>1, <1>2, <1>3 DEF Next

\* The record is sound and every call in flight holds what it should, always.
THEOREM RunInvariant == Spec => []RunInv
  BY InitInv, NextInv, PTL DEF Spec

-----------------------------------------------------------------------------
(* What follows from the invariant.                                          *)

\* The record and the calls in flight keep their types, whatever the callers
\* send to the operations of the coordinator.
THEOREM TypeCorrectness == Spec => []TypeOK
  <1>1. RunInv => TypeOK
    BY DEF RunInv
  <1> QED BY <1>1, RunInvariant, PTL

\* append_receipts never accepts two starts of one attempt of a stage.
THEOREM StartsAreUnique == Spec => []EachAttemptStartsOnce
  <1>1. RunInv => EachAttemptStartsOnce
    BY DEF RunInv, SoundRecord, StartsOnce, EachAttemptStartsOnce
  <1> QED BY <1>1, RunInvariant, PTL

\* The active stage is the next stage at its latest attempt, in a run that
\* executes or is being cancelled.
THEOREM ActiveStageIsCurrent == Spec => []ActiveIsLatestAttemptOfNextStage
  <1>1. RunInv => ActiveIsLatestAttemptOfNextStage
    BY DEF RunInv, SoundRecord, ActiveIsLatest, ActiveIsLatestAttemptOfNextStage
  <1> QED BY <1>1, RunInvariant, PTL

\* What commit_stage compared at the commit stays true: no receipt attests a
\* committed attempt with another digest than its output.
THEOREM CommittedOutputsAreAttested == Spec => []CompletionReceiptsMatchOutputs
  <1>1. RunInv => CompletionReceiptsMatchOutputs
    BY DEF RunInv, SoundRecord, CompletionsMatch, CompletionReceiptsMatchOutputs
  <1> QED BY <1>1, RunInvariant, PTL

\* A finalizer whose revision is current holds the current record.
THEOREM RevisionsIdentifyRecords == Spec => []RevisionIdentifiesRecord
  <1>1. RunInv => RevisionIdentifiesRecord
    BY DEF RunInv, HeldRecord, RevisionIdentifiesRecord
  <1> QED BY <1>1, RunInvariant, PTL

-----------------------------------------------------------------------------
(* Every step, seen on the record: what each operation writes.               *)

Advanced(new) == record' = Revised(new, record.revision)

\* Cases of a step that changes the record, for the proofs about actions.
LEMMA RecordSteps ==
  ASSUME RunInv, [Next]_vars
  PROVE  \/ record' = record
         \/ Create
         \/ record.status = "prepared" /\ Advanced(StartedRecord(record))
         \/ \E target \in {"paused", "failed", "running"} :
              record.status = "running" /\ Advanced(MovedTo(record, target))
         \/ record.status = "paused" /\ Advanced(MovedTo(record, "running"))
         \/ /\ record.status \in {"prepared", "running", "paused"}
            /\ Advanced(CancelRequestedRecord(record))
         \/ record.status = "cancel_requested" /\ Advanced(MovedTo(record, "cancelled"))
         \/ \E rc \in InputReceipts : AppendReceipt(rc)
         \/ \E first, second \in InputReceipts : AppendTwoReceipts(first, second)
         \/ \E c \in Callers : CommitStage(c)
         \/ /\ record.status = "running" /\ Advanced(FinalizingRecord(record))
            /\ ValidRecord(FinalizingRecord(record))
         \/ /\ record.status \in {"finalizing", "completed"}
            /\ "enabled" \in record.memory /\ "staged" \notin record.memory
            /\ Advanced(MemoryStagedRecord(record))
         \/ /\ record.status = "finalizing"
            /\ "enabled" \in record.memory => "staged" \in record.memory
            /\ Advanced(CompletedRecord(record))
         \/ record.status = "completed" /\ Advanced(MemoryWrittenRecord(record))
  <1>1. ASSUME NEW expected, NEW new, Update(expected, new)
        PROVE  Advanced(new) /\ ValidRecord(new)
    BY <1>1 DEF Update, Advanced
  <1>2. CASE Start \/ Pause \/ Resume \/ Fail \/ RequestCancel \/ AcknowledgeCancel
    <2>1. CASE Start \/ RequestCancel
      BY <1>1, <2>1 DEF Start, RequestCancel, UpdateNow
    <2>2. CASE Pause \/ Fail \/ AcknowledgeCancel
      BY <1>1, <2>2 DEF Pause, Fail, AcknowledgeCancel, UpdateNow
    <2>3. CASE Resume
      BY <1>1, <2>3 DEF Resume, CanResume, ResumedRecord, UpdateNow
    <2> QED BY <1>2, <2>1, <2>2, <2>3
  <1>3. CASE OneStepOperation
    BY <1>2, <1>3 DEF OneStepOperation
  <1>4. ASSUME NEW c \in Callers,
               BeginFinalizing(c) \/ RetainMemoryStage(c) \/ Complete(c) \/ RetainMemoryWrite(c)
        PROVE  \/ /\ record.status = "running" /\ Advanced(FinalizingRecord(record))
                  /\ ValidRecord(FinalizingRecord(record))
               \/ /\ record.status \in {"finalizing", "completed"}
                  /\ "enabled" \in record.memory /\ "staged" \notin record.memory
                  /\ Advanced(MemoryStagedRecord(record))
               \/ /\ record.status = "finalizing"
                  /\ "enabled" \in record.memory => "staged" \in record.memory
                  /\ Advanced(CompletedRecord(record))
               \/ record.status = "completed" /\ Advanced(MemoryWrittenRecord(record))
    <2>1. CASE BeginFinalizing(c)
      BY <1>1, <2>1, FinalizerHoldsRecord DEF BeginFinalizing, FinalizerUpdate
    <2>2. CASE RetainMemoryStage(c)
      BY <1>1, <2>2, FinalizerHoldsRecord DEF RetainMemoryStage, FinalizerUpdate
    <2>3. CASE Complete(c)
      BY <1>1, <2>3, FinalizerHoldsRecord DEF Complete, FinalizerUpdate
    <2>4. CASE RetainMemoryWrite(c)
      BY <1>1, <2>4, FinalizerHoldsRecord DEF RetainMemoryWrite, FinalizerUpdate
    <2> QED BY <1>4, <2>1, <2>2, <2>3, <2>4
  <1>5. CASE \E c \in Callers : CallStep(c)
    <2>1. PICK c \in Callers : CallStep(c)
      BY <1>5
    <2> QED BY <1>4, <2>1 DEF CallStep, ReadForCommit, ReadForFinalize, Leave
  <1>6. CASE UNCHANGED vars
    BY <1>6 DEF vars
  <1> QED BY <1>3, <1>5, <1>6 DEF Next

-----------------------------------------------------------------------------
(* Properties of steps.                                                      *)

Progress(r) == <<r.completed, r.commitments, r.attempts, r.final>>

LEMMA AdvancedFields ==
  ASSUME NEW new \in Records, Advanced(new)
  PROVE  /\ Progress(record') = Progress(new) /\ record'.status = new.status
         /\ record'.events = new.events /\ record'.memory = new.memory
         /\ record'.commitments = new.commitments
  BY DEF Advanced, Revised, Progress, Records

LEMMA ReceiptInStop ==
  ASSUME NEW r \in Records, NEW rc \in Receipts,
         r.status = "cancel_requested", AcceptsReceipt(r, rc)
  PROVE  /\ LoggedReceipt(r, rc) \in Records
         /\ LoggedReceipt(r, rc).status = r.status
         /\ Progress(LoggedReceipt(r, rc)) = Progress(r)
  <1>1. rc.kind # "stage_started"
    BY DEF AcceptsReceipt, AcceptsStart
  <1> QED BY <1>1, LoggedFields, LoggedType DEF Progress

LEMMA StopStep ==
  ASSUME RunInv, [Next]_vars, record.status \in {"cancel_requested", "cancelled", "failed"}
  PROVE  Progress(record') = Progress(record)
  <1>1. record \in Records
    BY DEF RunInv, TypeOK
  <1>2. CASE record.status = "cancel_requested" /\ Advanced(MovedTo(record, "cancelled"))
    <2>1. Progress(MovedTo(record, "cancelled")) = Progress(record)
      BY <1>1 DEF MovedTo, NoActive, Emit, Progress, Records
    <2> QED BY <1>1, <1>2, <2>1, MovedToType, StatusNames, AdvancedFields
  <1>3. ASSUME NEW rc \in InputReceipts, AppendReceipt(rc)
        PROVE  Progress(record') = Progress(record)
    <2>1. /\ record.status = "cancel_requested" /\ AcceptsReceipt(record, rc)
          /\ Advanced(LoggedReceipt(record, rc)) /\ rc \in Receipts
      BY <1>3, InputTypes DEF AppendReceipt, CanAppendReceipts, UpdateNow, Update, Advanced
    <2> QED BY <1>1, <2>1, ReceiptInStop, AdvancedFields
  <1>4. ASSUME NEW first \in InputReceipts, NEW second \in InputReceipts,
               AppendTwoReceipts(first, second)
        PROVE  Progress(record') = Progress(record)
    <2> DEFINE middle == LoggedReceipt(record, first)
    <2>1. /\ record.status = "cancel_requested" /\ AcceptsReceipt(record, first)
          /\ AcceptsReceipt(middle, second) /\ first \in Receipts /\ second \in Receipts
          /\ Advanced(LoggedReceipt(middle, second))
      BY <1>4, InputTypes DEF AppendTwoReceipts, CanAppendReceipts, UpdateNow, Update, Advanced
    <2>2. middle \in Records /\ middle.status = "cancel_requested"
          /\ Progress(middle) = Progress(record)
      BY <1>1, <2>1, ReceiptInStop
    <2> HIDE DEF middle
    <2> QED BY <2>1, <2>2, ReceiptInStop, AdvancedFields
  <1>5. ~ \E c \in Callers : CommitStage(c)
    BY DEF CommitStage, CanCommit
  <1>6. ~ Create
    BY DEF Create, Insert
  <1> QED BY <1>2, <1>3, <1>4, <1>5, <1>6, RecordSteps

\* Once a cancellation was requested or the run failed, no operation moves the
\* ledger, the attempts or the submission.
THEOREM StoppedRunsStayPut == Spec => NoProgressAfterStop
  <1>1. RunInv /\ [Next]_vars =>
          [record.status \in {"cancel_requested", "cancelled", "failed"} =>
             /\ record'.completed = record.completed
             /\ record'.commitments = record.commitments
             /\ record'.attempts = record.attempts
             /\ record'.final = record.final]_vars
    BY StopStep DEF Progress
  <1> QED BY <1>1, RunInvariant, PTL DEF Spec, NoProgressAfterStop

\* complete never runs while the staged decision still awaits its receipt, so
\* no event can follow the completed one.
StagedBeforeCompletion ==
  record.status = "completed" /\ "enabled" \in record.memory => "staged" \in record.memory

LEMMA CompletedSteps ==
  ASSUME RunInv, [Next]_vars, StagedBeforeCompletion
  PROVE  /\ StagedBeforeCompletion'
         /\ record.status = "completed" => record'.events = record.events
  <1>1. record \in Records
    BY DEF RunInv, TypeOK
  <1>2. ASSUME NEW new \in Records, new.status # "completed", Advanced(new),
               record.status # "completed"
        PROVE  StagedBeforeCompletion'
    BY <1>2, AdvancedFields DEF StagedBeforeCompletion
  <1>3. CASE record' = record
    BY <1>3 DEF StagedBeforeCompletion
  <1>4. CASE Create
    <2>1. PICK memory \in {{}, {"enabled"}} : Insert(PreparedRecord(memory))
      BY <1>4 DEF Create
    <2>2. record'.status = "prepared" /\ record.status = "absent"
      BY <2>1 DEF Insert, PreparedRecord, Emit, AbsentRecord
    <2> QED BY <2>2 DEF StagedBeforeCompletion
  <1>5. CASE record.status = "prepared" /\ Advanced(StartedRecord(record))
    BY <1>1, <1>2, <1>5, StartedType, PresentStatus
  <1>6. ASSUME NEW target \in {"paused", "failed", "running", "cancelled"},
               record.status \in {"running", "paused", "cancel_requested"},
               Advanced(MovedTo(record, target))
        PROVE  StagedBeforeCompletion'
    <2>1. target \in Statuses /\ target # "completed"
      BY <1>6, StatusNames
    <2>2. MovedTo(record, target).status = target
      BY <1>1 DEF MovedTo, NoActive, Emit, Records
    <2>3. MovedTo(record, target) \in Records
      BY <1>1, <2>1, MovedToType
    <2> QED BY <1>2, <1>6, <2>1, <2>2, <2>3
  <1>7. CASE /\ record.status \in {"prepared", "running", "paused"}
             /\ Advanced(CancelRequestedRecord(record))
    BY <1>1, <1>2, <1>7, CancelRequestedType, PresentStatus
  <1>8. ASSUME NEW rc \in InputReceipts, AppendReceipt(rc)
        PROVE  StagedBeforeCompletion' /\ record.status # "completed"
    <2>1. /\ record.status \in {"running", "cancel_requested"} /\ rc \in Receipts
          /\ AcceptsReceipt(record, rc) /\ Advanced(LoggedReceipt(record, rc))
      BY <1>8, InputTypes DEF AppendReceipt, CanAppendReceipts, UpdateNow, Update, Advanced
    <2> QED BY <1>1, <1>2, <2>1, LoggedType, LoggedFields
  <1>9. ASSUME NEW first \in InputReceipts, NEW second \in InputReceipts,
               AppendTwoReceipts(first, second)
        PROVE  StagedBeforeCompletion' /\ record.status # "completed"
    <2> DEFINE middle == LoggedReceipt(record, first)
    <2>1. /\ record.status \in {"running", "cancel_requested"}
          /\ AcceptsReceipt(record, first) /\ AcceptsReceipt(middle, second)
          /\ first \in Receipts /\ second \in Receipts
          /\ Advanced(LoggedReceipt(middle, second))
      BY <1>9, InputTypes DEF AppendTwoReceipts, CanAppendReceipts, UpdateNow, Update, Advanced
    <2>2. middle \in Records /\ middle.status = record.status
      BY <1>1, <2>1, LoggedType, LoggedFields
    <2> HIDE DEF middle
    <2> QED BY <1>2, <2>1, <2>2, LoggedType, LoggedFields
  <1>10. ASSUME NEW c \in Callers, CommitStage(c)
         PROVE  StagedBeforeCompletion' /\ record.status # "completed"
    <2> DEFINE k == call[c]
    <2>1. /\ k \in CommitCalls /\ record.status = "running"
          /\ Advanced(CommittedRecord(record, k.stage, k.digest, k.requested, k.commitments))
      BY <1>10, CallTypes DEF RunInv, TypeOK, CommitStage, CanCommit, Update, Advanced
    <2> HIDE DEF k
    <2> QED BY <1>1, <1>2, <2>1, CommittedType, CommittedFields DEF CommitCalls
  <1>11. CASE record.status = "running" /\ Advanced(FinalizingRecord(record))
    BY <1>1, <1>2, <1>11, FinalizingType, PresentStatus
  <1>12. CASE /\ record.status \in {"finalizing", "completed"}
              /\ "enabled" \in record.memory /\ "staged" \notin record.memory
              /\ Advanced(MemoryStagedRecord(record))
    BY <1>1, <1>2, <1>12, MemoryType, PresentStatus DEF StagedBeforeCompletion
  <1>13. CASE /\ record.status = "finalizing"
              /\ "enabled" \in record.memory => "staged" \in record.memory
              /\ Advanced(CompletedRecord(record))
    <2>1. record'.memory = record.memory
      <3>1. CompletedRecord(record).memory = record.memory
        BY <1>1 DEF CompletedRecord, Emit, Records
      <3> QED BY <1>1, <1>13, <3>1, CompletedType, AdvancedFields
    <2> QED BY <1>13, <2>1 DEF StagedBeforeCompletion
  <1>14. CASE record.status = "completed" /\ Advanced(MemoryWrittenRecord(record))
    <2>1. /\ MemoryWrittenRecord(record).memory = record.memory \cup {"written"}
          /\ MemoryWrittenRecord(record).events = record.events
      BY <1>1 DEF MemoryWrittenRecord, Records
    <2>2. record'.memory = record.memory \cup {"written"} /\ record'.events = record.events
      BY <1>1, <1>14, <2>1, MemoryType, AdvancedFields
    <2> QED BY <1>14, <2>2 DEF StagedBeforeCompletion
  <1> QED
    BY <1>3, <1>4, <1>5, <1>6, <1>7, <1>8, <1>9, <1>10, <1>11, <1>12, <1>13, <1>14,
       RecordSteps DEF StagedBeforeCompletion, Create, Insert

\* The completed event is the last of the run, for pollers.
THEOREM NothingFollowsCompletion == Spec => CompletedEventIsLast
  <1>1. Init => StagedBeforeCompletion
    BY DEF Init, AbsentRecord, StagedBeforeCompletion
  <1>2. RunInv /\ StagedBeforeCompletion /\ [Next]_vars =>
          StagedBeforeCompletion' /\ [record.status = "completed" => record'.events = record.events]_vars
    BY CompletedSteps
  <1> QED BY <1>1, <1>2, RunInvariant, PTL DEF Spec, CompletedEventIsLast

-----------------------------------------------------------------------------
(* RunControl implements the append-only ledger.                             *)

LEMMA LedgerInit == Init => Ledger!Init
  BY DEF Init, AbsentRecord, Ledger!Init

LEMMA SameLedger ==
  ASSUME NEW new \in Records, Advanced(new), new.commitments = record.commitments
  PROVE  record'.commitments = record.commitments /\ record'.status = new.status
  BY AdvancedFields

LEMMA CommitImplementsLedger ==
  ASSUME RunInv, NEW c \in Callers, CommitStage(c)
  PROVE  Ledger!Commit
  <1> DEFINE k == call[c]
             new == CommittedRecord(record, k.stage, k.digest, k.requested, k.commitments)
             n == Len(record.completed)
  <1>1. /\ record \in Records /\ SoundRecord(record) /\ k \in CommitCalls
        /\ CanCommit(record, k.stage, k.digest, k.requested)
        /\ Advanced(new) /\ ValidRecord(new)
    BY CallTypes DEF RunInv, TypeOK, CommitStage, Update, Advanced
  <1>2. /\ k.stage \in Stages /\ k.digest \in Digests /\ k.requested \in Nat
        /\ k.commitments \in CommitmentSeqs
    BY <1>1 DEF CommitCalls
  <1> HIDE DEF k
  <1>3. /\ new \in Records /\ new.status = record.status
        /\ new.commitments = k.commitments
    BY <1>1, <1>2, CommittedType, CommittedFields
  <1>4. CommitmentsMatch(new) /\ k.stage = NextStage(record) /\ record.status = "running"
    BY <1>1 DEF ValidRecord, CanCommit
  <1>5. /\ n \in Nat /\ k.stage = n + 1
        /\ Len(record.commitments) = n /\ Len(k.commitments) = n + 1
        /\ \A i \in 1 .. n : k.commitments[i] = record.commitments[i]
        /\ k.commitments[n + 1] = [stage |-> k.stage, attempt |-> new.attempts[k.stage],
                                   digest |-> k.digest]
    BY <1>1, <1>2, <1>4, CommittedLedger
  <1> HIDE DEF new, n
  <1>6. record'.commitments = k.commitments /\ record'.status = record.status
    BY <1>1, <1>3, AdvancedFields
  <1>7. k.commitments[n + 1] \in Commitments
    <2>1. k.commitments \in Seq(Commitments) /\ n + 1 \in 1 .. Len(k.commitments)
      BY <1>2, <1>5 DEF CommitmentSeqs
    <2> QED BY <2>1
  <1>8. k.commitments[n + 1] \in Ledger!Entries /\ k.commitments[n + 1].stage = n + 1
    BY <1>5, <1>7 DEF Commitments, Ledger!Entries, Stages, Attempts
  <1>9. DOMAIN record.commitments = 1 .. n
    BY <1>1, <1>5 DEF Records, CommitmentSeqs
  <1> QED BY <1>4, <1>5, <1>6, <1>8, <1>9 DEF Ledger!Commit

\* Validation lets a run be sealed only with its whole ledger.
LEMMA SealImplementsLedger ==
  ASSUME RunInv, record.status = "running", Advanced(FinalizingRecord(record)),
         ValidRecord(FinalizingRecord(record))
  PROVE  Ledger!Seal
  <1> DEFINE new == FinalizingRecord(record)
  <1>1. record \in Records /\ SoundRecord(record) /\ new \in Records
    BY FinalizingType DEF RunInv, TypeOK
  <1>2. /\ new.completed = record.completed /\ new.commitments = record.commitments
        /\ new.status = "finalizing"
    BY <1>1 DEF FinalizingRecord, Emit, Records
  <1>3. ValidRecord(new) /\ Advanced(new)
    OBVIOUS
  <1> HIDE DEF new
  <1>4. CompletedStages(record) = Stages
    BY <1>2, <1>3 DEF ValidRecord, StatusSupported, CompletedStages
  <1>5. Len(record.completed) = NStages
    <2>1. CompletedStages(record) = 1 .. Len(record.completed)
          /\ Len(record.completed) \in 0 .. NStages
      BY <1>1, CompletedRange DEF SoundRecord
    <2>2. NStages \in 1 .. Len(record.completed)
      BY <1>4, <2>1, RecordAssumption DEF Stages
    <2> QED BY <2>1, <2>2, RecordAssumption
  <1>6. Len(record.commitments) = NStages
    BY <1>1, <1>5 DEF SoundRecord, CommitmentsMatch
  <1> QED BY <1>1, <1>2, <1>3, <1>6, SameLedger DEF Ledger!Seal, Ledger!Move

LEMMA MoveImplementsLedger ==
  ASSUME RunInv, NEW target, Advanced(MovedTo(record, target)), target \in Statuses
  PROVE  record'.commitments = record.commitments /\ record'.status = target
  <1>1. record \in Records /\ MovedTo(record, target) \in Records
    BY MovedToType DEF RunInv, TypeOK
  <1>2. /\ MovedTo(record, target).commitments = record.commitments
        /\ MovedTo(record, target).status = target
    BY <1>1 DEF MovedTo, NoActive, Emit, Records
  <1> QED BY <1>1, <1>2, SameLedger

LEMMA LedgerStep == RunInv /\ [Next]_vars => [Ledger!Next]_(Ledger!vars)
  <1> SUFFICES ASSUME RunInv, [Next]_vars PROVE [Ledger!Next]_(Ledger!vars)
    OBVIOUS
  <1> USE DEF Ledger!Next, Ledger!Move
  <1>1. record \in Records
    BY DEF RunInv, TypeOK
  <1>2. ASSUME NEW new \in Records, Advanced(new),
               new.commitments = record.commitments, new.status = record.status
        PROVE  UNCHANGED Ledger!vars
    BY <1>2, SameLedger DEF Ledger!vars
  <1>3. CASE Create
    <2>1. PICK memory \in {{}, {"enabled"}} : Insert(PreparedRecord(memory))
      BY <1>3 DEF Create
    <2>2. record'.status = "prepared" /\ record.status = "absent" /\ record'.commitments = <<>>
      BY <2>1 DEF Insert, PreparedRecord, Emit, AbsentRecord
    <2>3. record.commitments = <<>>
      BY <2>2 DEF RunInv, AbsentRecord
    <2> QED BY <2>2, <2>3 DEF Ledger!Open
  <1>4. CASE record.status = "prepared" /\ Advanced(StartedRecord(record))
    <2>1. /\ StartedRecord(record) \in Records /\ StartedRecord(record).status = "running"
          /\ StartedRecord(record).commitments = record.commitments
      BY <1>1, StartedType DEF StartedRecord, Emit, Records
    <2> QED BY <1>4, <2>1, SameLedger DEF Ledger!Run
  <1>5. ASSUME NEW target \in {"paused", "failed", "running"},
               record.status = "running", Advanced(MovedTo(record, target))
        PROVE  [Ledger!Next]_(Ledger!vars)
    <2>1. record'.commitments = record.commitments /\ record'.status = target
      BY <1>5, StatusNames, MoveImplementsLedger
    <2> QED BY <1>5, <2>1 DEF Ledger!Hold, Ledger!Abort, Ledger!vars
  <1>6. CASE record.status = "paused" /\ Advanced(MovedTo(record, "running"))
    BY <1>6, StatusNames, MoveImplementsLedger DEF Ledger!Run
  <1>7. CASE /\ record.status \in {"prepared", "running", "paused"}
             /\ Advanced(CancelRequestedRecord(record))
    <2>1. /\ CancelRequestedRecord(record) \in Records
          /\ CancelRequestedRecord(record).status = "cancel_requested"
          /\ CancelRequestedRecord(record).commitments = record.commitments
      BY <1>1, CancelRequestedType DEF CancelRequestedRecord, Emit, Records
    <2> QED BY <1>7, <2>1, SameLedger DEF Ledger!AskToStop
  <1>8. CASE record.status = "cancel_requested" /\ Advanced(MovedTo(record, "cancelled"))
    BY <1>8, StatusNames, MoveImplementsLedger DEF Ledger!Stop
  <1>9. ASSUME NEW rc \in InputReceipts, AppendReceipt(rc)
        PROVE  UNCHANGED Ledger!vars
    <2>1. AcceptsReceipt(record, rc) /\ Advanced(LoggedReceipt(record, rc)) /\ rc \in Receipts
      BY <1>9, InputTypes DEF AppendReceipt, UpdateNow, Update, Advanced
    <2>2. /\ LoggedReceipt(record, rc) \in Records
          /\ LoggedReceipt(record, rc).status = record.status
          /\ LoggedReceipt(record, rc).commitments = record.commitments
      BY <1>1, <2>1, LoggedType, LoggedFields
    <2> QED BY <1>2, <2>1, <2>2
  <1>10. ASSUME NEW first \in InputReceipts, NEW second \in InputReceipts,
                AppendTwoReceipts(first, second)
         PROVE  UNCHANGED Ledger!vars
    <2> DEFINE middle == LoggedReceipt(record, first)
               new == LoggedReceipt(middle, second)
    <2>1. /\ AcceptsReceipt(record, first) /\ AcceptsReceipt(middle, second)
          /\ first \in Receipts /\ second \in Receipts /\ Advanced(new)
      BY <1>10, InputTypes DEF AppendTwoReceipts, UpdateNow, Update, Advanced
    <2>2. /\ middle \in Records /\ middle.status = record.status
          /\ middle.commitments = record.commitments
      BY <1>1, <2>1, LoggedType, LoggedFields
    <2> HIDE DEF middle
    <2>3. new \in Records /\ new.status = record.status /\ new.commitments = record.commitments
      BY <2>1, <2>2, LoggedType, LoggedFields
    <2> HIDE DEF new
    <2> QED BY <1>2, <2>1, <2>3
  <1>11. ASSUME NEW c \in Callers, CommitStage(c) PROVE Ledger!Commit
    BY <1>11, CommitImplementsLedger
  <1>12. CASE /\ record.status = "running" /\ Advanced(FinalizingRecord(record))
              /\ ValidRecord(FinalizingRecord(record))
    BY <1>12, SealImplementsLedger
  <1>13. CASE Advanced(MemoryStagedRecord(record)) \/ Advanced(MemoryWrittenRecord(record))
    <2>1. PICK new \in {MemoryStagedRecord(record), MemoryWrittenRecord(record)} : Advanced(new)
      BY <1>13
    <2>2. new \in Records /\ new.status = record.status /\ new.commitments = record.commitments
      BY <1>1, <2>1, MemoryType DEF MemoryStagedRecord, MemoryWrittenRecord, Emit, Records
    <2> QED BY <1>2, <2>1, <2>2
  <1>14. CASE record.status = "finalizing" /\ Advanced(CompletedRecord(record))
    <2>1. /\ CompletedRecord(record) \in Records /\ CompletedRecord(record).status = "completed"
          /\ CompletedRecord(record).commitments = record.commitments
      BY <1>1, CompletedType DEF CompletedRecord, Emit, Records
    <2> QED BY <1>14, <2>1, SameLedger DEF Ledger!Publish
  <1>15. CASE record' = record
    BY <1>15 DEF Ledger!vars
  <1> QED
    BY <1>3, <1>4, <1>5, <1>6, <1>7, <1>8, <1>9, <1>10, <1>11, <1>12, <1>13, <1>14, <1>15,
       RecordSteps

\* Though commit_stage writes a whole list of commitments that it computed from
\* an earlier read, the list only grows, by the next stage, while the run runs.
THEOREM ImplementsLedger == Spec => LedgerSpec
  BY LedgerInit, LedgerStep, RunInvariant, PTL DEF Spec, LedgerSpec, Ledger!Spec

-----------------------------------------------------------------------------
(* After a resume every output can be committed.  The witness is the attempt *)
(* after the last one a caller names: no receipt is about it, and no start   *)
(* of an incomplete stage counted beyond it.                                 *)

FreshAttempt == MaxAttempt + 1

AttemptsBounded(r) ==
  /\ \A rc \in r.receipts : rc.attempt <= MaxAttempt
  /\ \A s \in IncompleteStages(r) : r.attempts[s] <= MaxAttempt

OpenInv ==
  /\ record.status # "absent" => ValidRecord(record)
  /\ AttemptsBounded(record)

\* Whatever a step writes was validated as a whole.
LEMMA WrittenIsValid ==
  ASSUME NEW new \in Records, NEW expected \in Nat, ValidRecord(new)
  PROVE  ValidRecord(Revised(new, expected))
  <1> DEFINE s == Revised(new, expected)
  <1>1. /\ s.status = new.status /\ s.completed = new.completed
        /\ s.outputs = new.outputs /\ s.commitments = new.commitments
        /\ s.attempts = new.attempts /\ s.activeStage = new.activeStage
        /\ s.activeAttempt = new.activeAttempt /\ s.receipts = new.receipts
        /\ s.final = new.final /\ s.result = new.result
    BY DEF Revised, Records
  <1> HIDE DEF s
  <1>2. CompletedStages(s) = CompletedStages(new)
    BY <1>1 DEF CompletedStages
  <1>3. CompletedIsPrefix(s) /\ ActiveIsIncomplete(s) /\ AttemptsCoverCompleted(s)
    BY <1>1, <1>2 DEF ValidRecord, CompletedIsPrefix, ActiveIsIncomplete,
                      AttemptsCoverCompleted
  <1>4. CommitmentsMatch(s) /\ ReceiptsIndexed(s)
    BY <1>1 DEF ValidRecord, CommitmentsMatch, ReceiptsIndexed
  <1>5. SubmissionBound(s) /\ StatusSupported(s)
    BY <1>1, <1>2 DEF ValidRecord, SubmissionBound, StatusSupported
  <1>6. ValidRecord(s)
    BY <1>3, <1>4, <1>5 DEF ValidRecord
  <1> QED BY <1>6 DEF s

LEMMA UpdateValid ==
  ASSUME NEW expected, NEW new \in Records, record \in Records, Update(expected, new)
  PROVE  ValidRecord(record')
  <1>1. /\ expected \in Nat /\ ValidRecord(new) /\ record' = Revised(new, expected)
    BY DEF Update, Records
  <1> QED BY <1>1, WrittenIsValid

LEMMA WritesAreValid ==
  ASSUME RunInv, [Next]_vars
  PROVE  record' = record \/ ValidRecord(record')
  <1>1. record \in Records
    BY DEF RunInv, TypeOK
  <1>2. CASE Create
    BY <1>2 DEF Create, Insert
  <1>3. CASE Start
    BY <1>1, <1>3, StartedType, UpdateValid DEF Start, UpdateNow
  <1>4. CASE RequestCancel
    BY <1>1, <1>4, CancelRequestedType, UpdateValid DEF RequestCancel, UpdateNow
  <1>5. CASE Pause \/ Resume \/ Fail \/ AcknowledgeCancel
    <2>1. PICK target \in {"paused", "running", "failed", "cancelled"} :
            Update(record.revision, MovedTo(record, target))
      BY <1>5 DEF Pause, Resume, ResumedRecord, Fail, AcknowledgeCancel, UpdateNow
    <2>2. MovedTo(record, target) \in Records
      BY <1>1, StatusNames, MovedToType
    <2> QED BY <1>1, <2>1, <2>2, UpdateValid
  <1>6. ASSUME NEW rc \in InputReceipts, AppendReceipt(rc)
        PROVE  ValidRecord(record')
    BY <1>1, <1>6, InputTypes, LoggedType, UpdateValid DEF AppendReceipt, UpdateNow
  <1>7. ASSUME NEW first \in InputReceipts, NEW second \in InputReceipts,
               AppendTwoReceipts(first, second)
        PROVE  ValidRecord(record')
    <2> DEFINE middle == LoggedReceipt(record, first)
               new == LoggedReceipt(middle, second)
    <2>1. first \in Receipts /\ second \in Receipts
      BY InputTypes
    <2>2. /\ AcceptsReceipt(record, first) /\ AcceptsReceipt(middle, second)
          /\ Update(record.revision, new)
      BY <1>7 DEF AppendTwoReceipts, UpdateNow
    <2>3. middle \in Records
      BY <1>1, <2>1, <2>2, LoggedType
    <2> HIDE DEF middle
    <2>4. new \in Records
      BY <2>1, <2>2, <2>3, LoggedType
    <2> HIDE DEF new
    <2> QED BY <1>1, <2>2, <2>4, UpdateValid
  <1>8. ASSUME NEW c \in Callers, CommitStage(c)
        PROVE  ValidRecord(record')
    <2> DEFINE k == call[c]
               new == CommittedRecord(record, k.stage, k.digest, k.requested, k.commitments)
    <2>1. k \in CommitCalls /\ Update(k.expected, new)
      BY <1>8, CallTypes DEF RunInv, TypeOK, CommitStage
    <2>2. /\ k.stage \in Stages /\ k.digest \in Digests /\ k.requested \in Nat
          /\ k.commitments \in CommitmentSeqs
      BY <2>1 DEF CommitCalls
    <2> HIDE DEF k
    <2>3. new \in Records
      BY <1>1, <2>2, CommittedType
    <2> HIDE DEF new
    <2> QED BY <1>1, <2>1, <2>3, UpdateValid
  <1>9. ASSUME NEW c \in Callers,
               BeginFinalizing(c) \/ RetainMemoryStage(c) \/ Complete(c) \/ RetainMemoryWrite(c)
        PROVE  ValidRecord(record')
    <2>1. PICK new \in {FinalizingRecord(record), MemoryStagedRecord(record),
                        CompletedRecord(record), MemoryWrittenRecord(record)} :
            FinalizerUpdate(c, new)
      BY <1>9 DEF BeginFinalizing, RetainMemoryStage, Complete, RetainMemoryWrite
    <2>2. new \in Records
      BY <1>1, FinalizingType, MemoryType, CompletedType
    <2> QED BY <1>1, <2>1, <2>2, UpdateValid DEF FinalizerUpdate
  <1>10. CASE OneStepOperation
    BY <1>2, <1>3, <1>4, <1>5, <1>6, <1>7, <1>10 DEF OneStepOperation
  <1>11. CASE \E c \in Callers : CallStep(c)
    <2>1. PICK c \in Callers : CallStep(c)
      BY <1>11
    <2> QED BY <1>8, <1>9, <2>1 DEF CallStep, ReadForCommit, ReadForFinalize, Leave
  <1>12. CASE UNCHANGED vars
    BY <1>12 DEF vars
  <1> QED BY <1>10, <1>11, <1>12 DEF Next

-----------------------------------------------------------------------------
\* Attempts of a stage that is not completed come from start receipts.

LEMMA FramedBounded ==
  ASSUME NEW r, NEW s, AttemptsBounded(r),
         s.completed = r.completed, s.attempts = r.attempts, s.receipts = r.receipts
  PROVE  AttemptsBounded(s)
  BY DEF AttemptsBounded, IncompleteStages, CompletedStages

LEMMA RevisedBounded ==
  ASSUME NEW r \in Records, NEW expected, AttemptsBounded(r)
  PROVE  AttemptsBounded(Revised(r, expected))
  <1>1. /\ Revised(r, expected).completed = r.completed
        /\ Revised(r, expected).attempts = r.attempts
        /\ Revised(r, expected).receipts = r.receipts
    BY DEF Revised, Records
  <1> QED BY <1>1, FramedBounded

LEMMA LoggedBounded ==
  ASSUME NEW r \in Records, NEW rc \in InputReceipts, AcceptsReceipt(r, rc),
         AttemptsBounded(r)
  PROVE  AttemptsBounded(LoggedReceipt(r, rc))
  <1> DEFINE s == LoggedReceipt(r, rc)
  <1>1. rc \in Receipts /\ rc.attempt <= MaxAttempt
    BY InputTypes, ControlAssumption DEF InputReceipts, NoAttempt
  <1>2. r.attempts \in [Stages -> Nat]
    BY DEF Records, AttemptCounts
  <1>3. /\ s.completed = r.completed /\ s.receipts = r.receipts \cup {rc}
        /\ s.attempts \in {r.attempts, [r.attempts EXCEPT ![rc.stage] = rc.attempt]}
    BY <1>1, LoggedFields
  <1> HIDE DEF s
  <1>4. IncompleteStages(s) = IncompleteStages(r) /\ IncompleteStages(r) \subseteq Stages
    BY <1>3 DEF IncompleteStages, CompletedStages
  <1>5. \A t \in IncompleteStages(s) : s.attempts[t] <= MaxAttempt
    BY <1>1, <1>2, <1>3, <1>4 DEF AttemptsBounded
  <1>6. AttemptsBounded(s)
    BY <1>1, <1>3, <1>5 DEF AttemptsBounded
  <1> QED BY <1>6 DEF s

LEMMA CommittedBounded ==
  ASSUME NEW r \in Records, NEW stage \in Stages, NEW digest \in Digests,
         NEW requested \in Nat, NEW commitments \in CommitmentSeqs,
         AttemptsBounded(r)
  PROVE  AttemptsBounded(CommittedRecord(r, stage, digest, requested, commitments))
  <1> DEFINE s == CommittedRecord(r, stage, digest, requested, commitments)
             a == CommittedAttempt(r, stage, requested)
  <1>1. /\ s.completed = Append(r.completed, stage) /\ s.receipts = r.receipts
        /\ s.attempts = [r.attempts EXCEPT ![stage] =
                           IF a > r.attempts[stage] THEN a ELSE r.attempts[stage]]
    BY CommittedFields, CommittedAttempts
  <1>2. r.attempts \in [Stages -> Nat] /\ r.completed \in Seq(Stages)
    BY DEF Records, AttemptCounts, StageSeqs
  <1> HIDE DEF s, a
  <1>3. /\ \A i \in DOMAIN r.completed : i \in DOMAIN s.completed
                                         /\ s.completed[i] = r.completed[i]
        /\ \E i \in DOMAIN s.completed : s.completed[i] = stage
    <2>1. /\ Len(s.completed) = Len(r.completed) + 1 /\ Len(r.completed) \in Nat
          /\ \A i \in 1 .. Len(r.completed) : s.completed[i] = r.completed[i]
          /\ s.completed[Len(r.completed) + 1] = stage
          /\ DOMAIN s.completed = 1 .. Len(r.completed) + 1
          /\ DOMAIN r.completed = 1 .. Len(r.completed)
      BY <1>1, <1>2
    <2> QED BY <2>1
  <1>4. \A t \in IncompleteStages(s) : t \in IncompleteStages(r) /\ t # stage /\ t \in Stages
    BY <1>3 DEF IncompleteStages, CompletedStages
  <1>5. \A t \in IncompleteStages(s) : s.attempts[t] = r.attempts[t]
    BY <1>1, <1>2, <1>4
  <1>6. AttemptsBounded(s)
    BY <1>1, <1>4, <1>5 DEF AttemptsBounded
  <1> QED BY <1>6 DEF s

LEMMA StepBounded ==
  ASSUME RunInv, [Next]_vars, AttemptsBounded(record)
  PROVE  AttemptsBounded(record')
  <1>1. record \in Records
    BY DEF RunInv, TypeOK
  <1>2. ASSUME NEW new \in Records, AttemptsBounded(new), Advanced(new)
        PROVE  AttemptsBounded(record')
    BY <1>2, RevisedBounded DEF Advanced
  <1>3. CASE Create
    <2>1. /\ \A s \in Stages : record'.attempts[s] = 0
          /\ record'.receipts = {}
      BY <1>3 DEF Create, Insert, PreparedRecord, Emit, AbsentRecord
    <2> QED BY <2>1, ControlAssumption DEF AttemptsBounded, IncompleteStages
  <1>4. ASSUME NEW new \in {StartedRecord(record), CancelRequestedRecord(record),
                            FinalizingRecord(record), MemoryStagedRecord(record),
                            CompletedRecord(record), MemoryWrittenRecord(record)}
                           \cup {MovedTo(record, target) :
                                  target \in {"paused", "failed", "running", "cancelled"}},
               Advanced(new)
        PROVE  AttemptsBounded(record')
    <2>1. new \in Records
      BY <1>1, <1>4, StatusNames, StartedType, CancelRequestedType, FinalizingType,
         MemoryType, CompletedType, MovedToType
    <2>2. /\ new.completed = record.completed /\ new.attempts = record.attempts
          /\ new.receipts = record.receipts
      BY <1>1, <1>4 DEF StartedRecord, CancelRequestedRecord, FinalizingRecord,
         MemoryStagedRecord, CompletedRecord, MemoryWrittenRecord, MovedTo, NoActive,
         Emit, Records
    <2> QED BY <1>2, <1>4, <2>1, <2>2, FramedBounded
  <1>5. ASSUME NEW rc \in InputReceipts, AppendReceipt(rc)
        PROVE  AttemptsBounded(record')
    <2>1. /\ AcceptsReceipt(record, rc) /\ rc \in Receipts
          /\ Advanced(LoggedReceipt(record, rc))
      BY <1>5, InputTypes DEF AppendReceipt, UpdateNow, Update, Advanced
    <2> QED BY <1>1, <1>2, <2>1, LoggedType, LoggedBounded
  <1>6. ASSUME NEW first \in InputReceipts, NEW second \in InputReceipts,
               AppendTwoReceipts(first, second)
        PROVE  AttemptsBounded(record')
    <2> DEFINE middle == LoggedReceipt(record, first)
               new == LoggedReceipt(middle, second)
    <2>1. /\ first \in Receipts /\ second \in Receipts
          /\ AcceptsReceipt(record, first) /\ AcceptsReceipt(middle, second)
          /\ Advanced(new)
      BY <1>6, InputTypes DEF AppendTwoReceipts, UpdateNow, Update, Advanced
    <2>2. middle \in Records /\ AttemptsBounded(middle)
      BY <1>1, <2>1, LoggedType, LoggedBounded
    <2> HIDE DEF middle
    <2>3. new \in Records /\ AttemptsBounded(new)
      BY <2>1, <2>2, LoggedType, LoggedBounded
    <2> HIDE DEF new
    <2> QED BY <1>2, <2>1, <2>3
  <1>7. ASSUME NEW c \in Callers, CommitStage(c)
        PROVE  AttemptsBounded(record')
    <2> DEFINE k == call[c]
               new == CommittedRecord(record, k.stage, k.digest, k.requested, k.commitments)
    <2>1. k \in CommitCalls /\ Advanced(new)
      BY <1>7, CallTypes DEF RunInv, TypeOK, CommitStage, Update, Advanced
    <2>2. /\ k.stage \in Stages /\ k.digest \in Digests /\ k.requested \in Nat
          /\ k.commitments \in CommitmentSeqs
      BY <2>1 DEF CommitCalls
    <2> HIDE DEF k
    <2>3. new \in Records /\ AttemptsBounded(new)
      BY <1>1, <2>2, CommittedType, CommittedBounded
    <2> HIDE DEF new
    <2> QED BY <1>2, <2>1, <2>3
  <1> QED BY <1>3, <1>4, <1>5, <1>6, <1>7, RecordSteps

LEMMA OpenInit == Init => OpenInv
  <1> SUFFICES ASSUME Init PROVE OpenInv
    OBVIOUS
  <1>1. record = AbsentRecord
    BY DEF Init
  <1>2. /\ record.status = "absent" /\ record.receipts = {}
        /\ \A s \in Stages : record.attempts[s] = 0
    BY <1>1 DEF AbsentRecord
  <1> QED BY <1>2, ControlAssumption DEF OpenInv, AttemptsBounded, IncompleteStages

LEMMA OpenNext == RunInv /\ OpenInv /\ [Next]_vars => OpenInv'
  BY WritesAreValid, StepBounded DEF OpenInv

\* The record that a commit under the fresh attempt would write is valid.
LEMMA FreshCommitPasses ==
  ASSUME NEW r \in Records, r.status = "running", ValidRecord(r),
         AttemptsBounded(r), NextStage(r) # NoStage, NEW digest \in Digests
  PROVE  LET s == ResumedRecord(r)
             stage == NextStage(r)
         IN  /\ CanCommit(s, stage, digest, FreshAttempt)
             /\ ValidRecord(CommittedRecord(s, stage, digest, FreshAttempt,
                              BoundCommitments(s, stage, digest, FreshAttempt)))
  <1> DEFINE s == ResumedRecord(r)
             stage == NextStage(r)
             n == Len(r.completed)
             new == [stage |-> stage, attempt |-> FreshAttempt, digest |-> digest]
             bound == Append(r.commitments, new)
             t == CommittedRecord(s, stage, digest, FreshAttempt, bound)
  <1>1. FreshAttempt \in Nat /\ FreshAttempt # NoAttempt /\ FreshAttempt > MaxAttempt
        /\ FreshAttempt \in Attempts
    BY ControlAssumption DEF FreshAttempt, NoAttempt, Attempts
  <1>2. /\ n \in 0 .. NStages /\ n < NStages /\ stage = n + 1 /\ stage \in Stages
        /\ DOMAIN r.completed = 1 .. n /\ CompletedStages(r) = 1 .. n
        /\ IncompleteStages(r) = n + 1 .. NStages
    BY CompletedRange, NextStageIs, RecordAssumption DEF ValidRecord, Stages, NoStage
  <1> HIDE DEF n, stage
  <1>3. /\ r.completed \in Seq(Stages) /\ r.outputs \in Seq(Digests)
        /\ r.commitments \in Seq(Commitments) /\ r.attempts \in [Stages -> Nat]
        /\ r.receipts \subseteq Receipts
    BY DEF Records, StageSeqs, DigestSeqs, CommitmentSeqs, AttemptCounts, ReceiptSets
  <1>4. /\ s \in Records /\ s.status = "running" /\ s.activeStage = NoStage
        /\ s.activeAttempt = NoAttempt
        /\ s.completed = r.completed /\ s.outputs = r.outputs
        /\ s.commitments = r.commitments /\ s.attempts = r.attempts
        /\ s.receipts = r.receipts /\ s.final = r.final /\ s.result = r.result
    BY StatusNames, MovedToType DEF ResumedRecord, MovedTo, NoActive, Emit, Records
  <1> HIDE DEF s
  <1>5. NextStage(s) = stage
    BY <1>4 DEF NextStage, IncompleteStages, CompletedStages, stage
  <1>6. CommittedAttempt(s, stage, FreshAttempt) = FreshAttempt
    BY <1>1 DEF CommittedAttempt
  <1>7. CompletionReceipts(s, stage, FreshAttempt) = {}
    <2>1. ASSUME NEW rc \in r.receipts PROVE rc.attempt # FreshAttempt
      <3>1. rc.attempt \in Nat /\ rc.attempt <= MaxAttempt
        BY <1>3, <2>1 DEF AttemptsBounded, Receipts
      <3> QED BY <1>1, <3>1, ControlAssumption
    <2> QED BY <1>4, <2>1 DEF CompletionReceipts
  <1>8. CanCommit(s, stage, digest, FreshAttempt)
    BY <1>4, <1>5, <1>6, <1>7 DEF CanCommit
  <1>9. new \in Commitments /\ bound \in CommitmentSeqs
    <2>1. new \in Commitments
      BY <1>1, <1>2 DEF Commitments
    <2> HIDE DEF new
    <2> QED BY <1>3, <2>1 DEF CommitmentSeqs
  <1>10. BoundCommitments(s, stage, digest, FreshAttempt) = bound
    BY <1>4, <1>6 DEF BoundCommitments
  <1> HIDE DEF bound
  <1>11. /\ t \in Records /\ t.status = "running"
         /\ t.completed = Append(r.completed, stage)
         /\ t.outputs = Append(r.outputs, digest) /\ t.commitments = bound
         /\ t.receipts = r.receipts
         /\ t.activeStage = NoStage /\ t.activeAttempt = NoAttempt
    <2>1. t \in Records
      BY <1>1, <1>2, <1>4, <1>9, CommittedType
    <2>2. /\ t.status = s.status
          /\ t.completed = Append(s.completed, stage)
          /\ t.outputs = Append(s.outputs, digest) /\ t.commitments = bound
          /\ t.receipts = s.receipts
          /\ t.activeStage = NoStage /\ t.activeAttempt = NoAttempt
      BY <1>4 DEF CommittedRecord, NoActive, Emit, Records
    <2> HIDE DEF t
    <2> QED BY <1>4, <2>1, <2>2
  <1>12. t.attempts = [r.attempts EXCEPT ![stage] = FreshAttempt]
    <2>1. r.attempts[stage] \in Nat /\ r.attempts[stage] <= MaxAttempt
      <3>1. stage \in IncompleteStages(r)
        BY <1>2, RecordAssumption
      <3> QED BY <1>2, <1>3, <3>1 DEF AttemptsBounded
    <2>2. FreshAttempt > r.attempts[stage]
      BY <1>1, <2>1, ControlAssumption
    <2> QED BY <1>1, <1>2, <1>4, <1>6, <1>9, <2>2, CommittedAttempts
  <1>13. /\ t.final = IF stage = NStages THEN bound ELSE r.final
         /\ t.result = r.result
    BY <1>4 DEF CommittedRecord, NoActive, Emit, Records
  <1> HIDE DEF t
  <1>14. /\ Len(t.completed) = n + 1 /\ DOMAIN t.completed = 1 .. n + 1
         /\ \A i \in 1 .. n : t.completed[i] = i
         /\ t.completed[n + 1] = stage
    <2>1. \A i \in 1 .. n : r.completed[i] = i
      BY <1>2 DEF ValidRecord, CompletedIsPrefix
    <2> QED BY <1>2, <1>3, <1>11, <2>1
  <1>15. CompletedIsPrefix(t)
    BY <1>2, <1>14, RecordAssumption DEF CompletedIsPrefix
  <1>16. CompletedStages(t) = 1 .. n + 1
    BY <1>11, <1>15, <1>14, CompletedRange
  <1>17. ActiveIsIncomplete(t)
    BY <1>2, <1>11, <1>16 DEF ActiveIsIncomplete, NoStage
  <1>18. \A i \in 1 .. n : t.attempts[i] = r.attempts[i]
    <2>1. \A i \in 1 .. n : i \in Stages /\ i # stage
      BY <1>2, RecordAssumption DEF Stages
    <2> QED BY <1>3, <1>12, <2>1
  <1>19. t.attempts[stage] = FreshAttempt
    BY <1>2, <1>3, <1>12
  <1>20. AttemptsCoverCompleted(t)
    <2>1. \A i \in 1 .. n : r.attempts[i] \in Attempts
      BY <1>2 DEF ValidRecord, AttemptsCoverCompleted
    <2>2. \A i \in 1 .. n + 1 : i \in 1 .. n \/ i = stage
      BY <1>2
    <2> QED BY <1>1, <1>16, <1>18, <1>19, <2>1, <2>2 DEF AttemptsCoverCompleted
  <1>21. CommitmentsMatch(t)
    <2>1. /\ Len(r.outputs) = n /\ Len(r.commitments) = n
          /\ \A i \in 1 .. n :
               r.commitments[i] = [stage |-> r.completed[i],
                                   attempt |-> r.attempts[r.completed[i]],
                                   digest |-> r.outputs[i]]
      BY <1>2 DEF ValidRecord, CommitmentsMatch
    <2>2. /\ Len(t.outputs) = n + 1 /\ t.outputs[n + 1] = digest
          /\ \A i \in 1 .. n : t.outputs[i] = r.outputs[i]
      BY <1>2, <1>3, <1>11, <2>1
    <2>3. /\ Len(t.commitments) = n + 1 /\ t.commitments[n + 1] = new
          /\ \A i \in 1 .. n : t.commitments[i] = r.commitments[i]
      <3> HIDE DEF new
      <3> QED BY <1>2, <1>3, <1>9, <1>11, <2>1 DEF bound
    <2>4. ASSUME NEW i \in 1 .. n
          PROVE  t.commitments[i] = [stage |-> t.completed[i],
                                     attempt |-> t.attempts[t.completed[i]],
                                     digest |-> t.outputs[i]]
      <3>1. r.completed[i] = i
        BY <1>2 DEF ValidRecord, CompletedIsPrefix
      <3>2. t.completed[i] = i /\ t.attempts[i] = r.attempts[i]
            /\ t.outputs[i] = r.outputs[i] /\ t.commitments[i] = r.commitments[i]
        BY <1>14, <1>18, <2>2, <2>3
      <3>3. r.commitments[i] = [stage |-> i, attempt |-> r.attempts[i],
                                digest |-> r.outputs[i]]
        BY <2>1, <3>1
      <3> QED BY <3>2, <3>3
    <2>5. t.commitments[n + 1] = [stage |-> t.completed[n + 1],
                                  attempt |-> t.attempts[t.completed[n + 1]],
                                  digest |-> t.outputs[n + 1]]
      BY <1>14, <1>19, <2>2, <2>3
    <2>6. \A i \in 1 .. n + 1 : i \in 1 .. n \/ i = n + 1
      BY <1>2
    <2> QED BY <1>14, <2>2, <2>3, <2>4, <2>5, <2>6 DEF CommitmentsMatch
  <1>22. ReceiptsIndexed(t)
    BY <1>11 DEF ValidRecord, ReceiptsIndexed
  <1>23. r.final = <<>> /\ r.result = <<>>
    <2>1. NStages \notin CompletedStages(r)
      BY <1>2, RecordAssumption
    <2> QED BY <2>1 DEF ValidRecord, SubmissionBound, StatusSupported
  <1>24. SubmissionBound(t)
    BY <1>2, <1>11, <1>13, <1>16, <1>23 DEF SubmissionBound
  <1>25. StatusSupported(t)
    BY <1>11, <1>13, <1>23 DEF StatusSupported
  <1>26. ValidRecord(t)
    BY <1>15, <1>17, <1>20, <1>21, <1>22, <1>24, <1>25 DEF ValidRecord
  <1> QED BY <1>8, <1>10, <1>26 DEF s, t, stage

\* Receipts cannot wedge a run: whatever completions were reported for which
\* attempts, after a resume commit_stage accepts every output of the next
\* stage under the attempt that follows those callers name.
THEOREM RunsStayOpen == Spec => []AnyOutputCommitsAfterResume
  <1>1. RunInv /\ OpenInv => AnyOutputCommitsAfterResume
    <2> SUFFICES ASSUME RunInv, OpenInv, record.status = "running",
                        NextStage(record) # NoStage, NEW digest \in Digests
                 PROVE  \E requested \in 1 .. MaxAttempt + 1 :
                          LET r == ResumedRecord(record)
                              stage == NextStage(record)
                          IN  /\ CanCommit(r, stage, digest, requested)
                              /\ ValidRecord(CommittedRecord(r, stage, digest, requested,
                                   BoundCommitments(r, stage, digest, requested)))
      BY DEF AnyOutputCommitsAfterResume
    <2>1. record \in Records /\ ValidRecord(record) /\ AttemptsBounded(record)
      BY DEF RunInv, TypeOK, OpenInv
    <2>2. FreshAttempt \in 1 .. MaxAttempt + 1
      BY ControlAssumption DEF FreshAttempt
    <2> WITNESS FreshAttempt \in 1 .. MaxAttempt + 1
    <2> QED BY <2>1, FreshCommitPasses
  <1> QED BY <1>1, OpenInit, OpenNext, RunInvariant, PTL DEF Spec

-----------------------------------------------------------------------------
(* The sequential harness                                                    *)

HarnessSteps ==
  {"idle", "start", "resume", "finalize", "look", "control", "execute", "commit", "publish",
   "returned"}

Harnesses ==
  [at : HarnessSteps, revision : Nat, stage : OptionalStages, attempt : Nat,
   context : DigestSeqs]

CommittedBefore(context) ==
  /\ Len(context) <= Len(record.outputs)
  /\ \A i \in 1 .. Len(context) : context[i] = record.outputs[i]

\* A harness that read its stage holds the outputs before that stage, and
\* commits no other stage.
HoldsContext(h) ==
  /\ harness[h].at \in {"execute", "commit"} => harness[h].stage # NoStage
  /\ At(h, "commit") => call[h].op = "commit" /\ call[h].stage = harness[h].stage
  /\ harness[h].at \in {"control", "execute", "commit"} /\ harness[h].stage # NoStage =>
       /\ Len(harness[h].context) = harness[h].stage - 1
       /\ CommittedBefore(harness[h].context)

HarnessInv ==
  /\ RunInv
  /\ harness \in [Callers -> Harnesses]
  /\ contexts \in Seq(DigestSeqs)
  /\ CommittedInContext
  /\ \A h \in Callers : HoldsContext(h)

-----------------------------------------------------------------------------
LEMMA HarnessFields ==
  ASSUME HarnessInv, NEW h \in Callers
  PROVE  /\ harness[h] \in Harnesses
         /\ harness[h].at \in HarnessSteps /\ harness[h].revision \in Nat
         /\ harness[h].stage \in OptionalStages /\ harness[h].attempt \in Nat
         /\ harness[h].context \in Seq(Digests)
         /\ HoldsContext(h) /\ RunInv
         /\ record \in Records /\ call \in [Callers -> Calls]
         /\ record.outputs \in Seq(Digests)
  BY DEF HarnessInv, Harnesses, RunInv, TypeOK, Records, DigestSeqs

LEMMA OutsideType == Outside \in Harnesses /\ Outside.at = "idle"
  <1>1. <<>> \in DigestSeqs
    BY DEF DigestSeqs
  <1> QED BY <1>1 DEF Outside, Harnesses, HarnessSteps, OptionalStages, NoStage, NoAttempt

\* A step of one harness that commits nothing.
LEMMA HarnessMoves ==
  ASSUME HarnessInv, RunInv', NEW h \in Callers, NEW k \in Harnesses,
         harness' = [harness EXCEPT ![h] = k],
         record'.outputs = record.outputs, contexts' = contexts,
         \A o \in Callers \ {h} : call'[o] = call[o],
         HoldsContext(h)'
  PROVE  HarnessInv'
  <1>1. /\ harness' \in [Callers -> Harnesses]
        /\ \A o \in Callers \ {h} : harness'[o] = harness[o]
    BY DEF HarnessInv
  <1>2. ASSUME NEW o \in Callers \ {h} PROVE HoldsContext(o)'
    <2>1. HoldsContext(o) /\ harness'[o] = harness[o] /\ call'[o] = call[o]
      BY <1>1 DEF HarnessInv
    <2> QED BY <2>1 DEF HoldsContext, CommittedBefore, At
  <1>3. CommittedInContext'
    BY DEF HarnessInv, CommittedInContext
  <1>4. contexts' \in Seq(DigestSeqs)
    BY DEF HarnessInv
  <1> QED BY <1>1, <1>2, <1>3, <1>4 DEF HarnessInv

\* The harness holds no context that its next step would commit.
LEMMA ElsewhereHolds ==
  ASSUME NEW h \in Callers,
         harness'[h].at \in {"idle", "start", "resume", "finalize", "look", "publish", "returned"}
  PROVE  HoldsContext(h)'
  BY DEF HoldsContext, At

LEMMA UpdateKeepsOutputs ==
  ASSUME record \in Records, NEW expected, NEW new \in Records, Update(expected, new),
         new.outputs = record.outputs
  PROVE  record'.outputs = record.outputs
  <1>1. record' = Revised(new, expected)
    BY DEF Update
  <1> QED BY <1>1 DEF Revised, Records

\* The mutations that commit no stage.
LEMMA MutationKeepsOutputs ==
  ASSUME NEW r \in Records
  PROVE  /\ StartedRecord(r).outputs = r.outputs
         /\ CancelRequestedRecord(r).outputs = r.outputs
         /\ \A target : MovedTo(r, target).outputs = r.outputs
         /\ FinalizingRecord(r).outputs = r.outputs
         /\ MemoryStagedRecord(r).outputs = r.outputs
         /\ CompletedRecord(r).outputs = r.outputs
         /\ MemoryWrittenRecord(r).outputs = r.outputs
  BY DEF StartedRecord, CancelRequestedRecord, MovedTo, NoActive, FinalizingRecord,
         MemoryStagedRecord, CompletedRecord, MemoryWrittenRecord, Emit, Records

-----------------------------------------------------------------------------
(* Leaving, creating, picking up and entering a run                          *)

LEMMA OutsideStep ==
  ASSUME HarnessInv, NEW h \in Callers, UNCHANGED <<record, contexts>>,
         harness' = [harness EXCEPT ![h] = Outside], call' = [call EXCEPT ![h] = Idle]
  PROVE  HarnessInv'
  <1>1. RunInv /\ call \in [Callers -> Calls] /\ record' = record
    BY HarnessFields
  <1>2. RunInv'
    <2>1. CASE call[h] # Idle
      BY <1>1, <2>1, ReadForFinalizeStep DEF Leave
    <2>2. CASE call[h] = Idle
      <3>1. call' = call
        BY <1>1, <2>2
      <3> QED BY <1>1, <3>1 DEF RunInv, TypeOK, HeldCommit, HeldRecord
    <2> QED BY <2>1, <2>2
  <1>3. harness'[h].at = "idle"
    BY OutsideType DEF HarnessInv
  <1>4. HoldsContext(h)'
    BY <1>3, ElsewhereHolds
  <1>5. \A o \in Callers \ {h} : call'[o] = call[o]
    BY <1>1
  <1> QED BY <1>1, <1>2, <1>4, <1>5, OutsideType, HarnessMoves

LEMMA RaiseLeaves ==
  ASSUME HarnessInv, NEW h \in Callers, Raise(h) \/ Interrupt(h)
  PROVE  HarnessInv'
  BY OutsideStep DEF Raise, Interrupt

\* A step after which the harness is somewhere else and holds no context.
LEMMA Elsewhere ==
  ASSUME HarnessInv, RunInv', NEW h \in Callers, NEW step, NEW revision \in Nat,
         step \in {"start", "resume", "finalize", "look", "publish", "returned"},
         harness' = [harness EXCEPT ![h] = [harness[h] EXCEPT !.at = step, !.revision = revision]],
         record'.outputs = record.outputs, contexts' = contexts,
         \A o \in Callers \ {h} : call'[o] = call[o]
  PROVE  HarnessInv'
  <1> DEFINE k == [harness[h] EXCEPT !.at = step, !.revision = revision]
  <1>1. k \in Harnesses /\ k.at = step
    BY HarnessFields DEF Harnesses, HarnessSteps
  <1>2. harness' = [harness EXCEPT ![h] = k]
    OBVIOUS
  <1> HIDE DEF k
  <1>3. harness'[h] = k
    BY <1>2 DEF HarnessInv
  <1>4. HoldsContext(h)'
    BY <1>1, <1>3, ElsewhereHolds
  <1> QED BY <1>1, <1>2, <1>4, HarnessMoves

\* Goto leaves the revision alone.
LEMMA GotoIs ==
  ASSUME HarnessInv, NEW h \in Callers, NEW step, Goto(h, step)
  PROVE  harness' = [harness EXCEPT ![h] =
           [harness[h] EXCEPT !.at = step, !.revision = harness[h].revision]]
  <1>1. harness[h] \in Harnesses
    BY HarnessFields
  <1>2. [harness[h] EXCEPT !.at = step, !.revision = harness[h].revision]
          = [harness[h] EXCEPT !.at = step]
    BY <1>1 DEF Harnesses
  <1> QED BY <1>2 DEF Goto

LEMMA CreateRunStep ==
  ASSUME HarnessInv, Keeper \in Callers, CreateRun(Keeper)
  PROVE  HarnessInv'
  <1>1. Create
    BY DEF CreateRun, Create
  <1>2. RunInv'
    BY <1>1, CreateStep DEF HarnessInv
  <1>3. record.outputs = <<>> /\ record'.outputs = <<>>
    BY <1>1 DEF HarnessInv, RunInv, Create, Insert, PreparedRecord, AbsentRecord, Emit
  <1>4. record'.revision \in Nat
    BY <1>2 DEF RunInv, TypeOK, Records
  <1>5. harness' = [harness EXCEPT ![Keeper] =
          [harness[Keeper] EXCEPT !.at = "start", !.revision = record'.revision]]
    BY DEF CreateRun, HarnessInv
  <1> QED BY <1>2, <1>3, <1>4, <1>5, Elsewhere DEF CreateRun

LEMMA PickUpStep ==
  ASSUME HarnessInv, NEW h \in Callers, PickUp(h)
  PROVE  HarnessInv'
  <1>1. UNCHANGED <<record, call, contexts>>
    BY DEF PickUp
  <1>2. RunInv'
    BY <1>1 DEF HarnessInv, RunInv, TypeOK, HeldCommit, HeldRecord
  <1>3. PicksUp(record.status) \in {"start", "resume", "finalize"}
    BY DEF PickUp, PicksUp
  <1>4. harness' = [harness EXCEPT ![h] =
          [harness[h] EXCEPT !.at = PicksUp(record.status), !.revision = record.revision]]
    BY DEF PickUp, HarnessInv
  <1>5. record.revision \in Nat
    BY HarnessFields DEF Records
  <1> QED BY <1>1, <1>2, <1>3, <1>4, <1>5, Elsewhere

LEMMA EnterStep ==
  ASSUME HarnessInv, NEW h \in Callers, StartRun(h) \/ ResumeRun(h)
  PROVE  HarnessInv'
  <1>1. CASE Raise(h)
    BY <1>1, RaiseLeaves
  <1>2. CASE ~ Raise(h)
    <2>1. /\ (Start \/ Resume) /\ Goto(h, "look") /\ UNCHANGED <<call, contexts>>
          /\ \/ Update(record.revision, StartedRecord(record))
             \/ Update(record.revision, MovedTo(record, "running"))
      BY <1>2 DEF StartRun, ResumeRun, Enter, Current, Start, Resume, UpdateNow, ResumedRecord
    <2>2. RunInv'
      BY <2>1, MoveStep DEF HarnessInv
    <2>3. record'.outputs = record.outputs
      <3>1. StartedRecord(record) \in Records /\ MovedTo(record, "running") \in Records
        BY HarnessFields, StartedType, StatusNames, MovedToType
      <3> QED BY <2>1, <3>1, HarnessFields, UpdateKeepsOutputs, MutationKeepsOutputs
    <2>4. /\ harness' = [harness EXCEPT ![h] =
                [harness[h] EXCEPT !.at = "look", !.revision = harness[h].revision]]
          /\ harness[h].revision \in Nat
      BY <2>1, GotoIs, HarnessFields
    <2>5. contexts' = contexts /\ \A o \in Callers \ {h} : call'[o] = call[o]
      BY <2>1
    <2> QED BY <2>2, <2>3, <2>4, <2>5, Elsewhere
  <1> QED BY <1>1, <1>2

-----------------------------------------------------------------------------
(* next_stage                                                                *)

LEMMA ReadStageStep ==
  ASSUME HarnessInv, NEW h \in Callers, ReadStage(h)
  PROVE  HarnessInv'
  <1>1. CASE Raise(h)
    BY <1>1, RaiseLeaves
  <1>2. CASE ~ Raise(h)
    <2> DEFINE stage == NextStage(record)
               attempt == IF stage = NoStage THEN NoAttempt ELSE record.attempts[stage] + 1
               k == [harness[h] EXCEPT !.at = "control", !.stage = stage, !.attempt = attempt,
                                       !.context = record.outputs]
    <2>1. /\ harness' = [harness EXCEPT ![h] = k]
          /\ UNCHANGED <<record, call, contexts>>
      BY <1>2 DEF ReadStage, Context, HarnessInv
    <2>2. /\ stage \in OptionalStages /\ attempt \in Nat
          /\ stage # NoStage => Len(record.outputs) = stage - 1
      <3>1. CompletedIsPrefix(record) /\ CommitmentsMatch(record) /\ record \in Records
        BY DEF HarnessInv, RunInv, SoundRecord, TypeOK
      <3>2. Len(record.outputs) = Len(record.completed) /\ Len(record.completed) \in 0 .. NStages
        BY <3>1, CompletedRange DEF CommitmentsMatch
      <3>3. stage = IF Len(record.completed) < NStages THEN Len(record.completed) + 1 ELSE NoStage
        BY <3>1, NextStageIs
      <3> HIDE DEF stage
      <3>4. stage \in OptionalStages /\ (stage # NoStage => stage \in Stages)
        BY <3>2, <3>3, RecordAssumption DEF OptionalStages, Stages, NoStage
      <3>5. record.attempts \in [Stages -> Nat]
        BY <3>1 DEF Records, AttemptCounts
      <3> QED BY <3>2, <3>3, <3>4, <3>5 DEF NoAttempt, NoStage
    <2> HIDE DEF stage, attempt
    <2>3. /\ k \in Harnesses /\ k.at = "control" /\ k.stage = stage
          /\ k.context = record.outputs
      BY <2>2, HarnessFields DEF Harnesses, HarnessSteps, DigestSeqs
    <2> HIDE DEF k
    <2>4. harness'[h] = k
      BY <2>1 DEF HarnessInv
    <2>5. Len(record.outputs) \in Nat
      BY HarnessFields
    <2>6. HoldsContext(h)'
      BY <2>1, <2>2, <2>3, <2>4, <2>5 DEF HoldsContext, CommittedBefore, At
    <2>7. RunInv'
      BY <2>1 DEF HarnessInv, RunInv, TypeOK, HeldCommit, HeldRecord
    <2> QED BY <2>1, <2>3, <2>6, <2>7, HarnessMoves
  <1> QED BY <1>1, <1>2

LEMMA ReadControlStep ==
  ASSUME HarnessInv, NEW h \in Callers, ReadControl(h)
  PROVE  HarnessInv'
  <1> DEFINE step == IF harness[h].stage = NoStage THEN "finalize" ELSE "execute"
             k == [harness[h] EXCEPT !.at = step, !.revision = record.revision]
  <1>1. /\ At(h, "control") /\ UNCHANGED <<record, call, contexts>>
        /\ harness' = [harness EXCEPT ![h] = k]
    BY DEF ReadControl, HarnessInv
  <1>2. /\ k \in Harnesses /\ k.at = step /\ k.stage = harness[h].stage
        /\ k.context = harness[h].context
    BY HarnessFields DEF Harnesses, HarnessSteps, Records
  <1>3. /\ step \in {"finalize", "execute"}
        /\ step = "execute" => harness[h].stage # NoStage
    OBVIOUS
  <1> HIDE DEF step, k
  <1>4. harness'[h] = k
    BY <1>1 DEF HarnessInv
  <1>5. HoldsContext(h)
    BY HarnessFields
  <1>6. HoldsContext(h)'
    BY <1>1, <1>2, <1>3, <1>4, <1>5 DEF HoldsContext, CommittedBefore, At
  <1>7. RunInv'
    BY <1>1 DEF HarnessInv, RunInv, TypeOK, HeldCommit, HeldRecord
  <1> QED BY <1>1, <1>2, <1>6, <1>7, HarnessMoves

-----------------------------------------------------------------------------
(* Executing and committing                                                  *)

LEMMA ExecuteStep ==
  ASSUME HarnessInv, NEW h \in Callers, Execute(h)
  PROVE  HarnessInv'
  <1> DEFINE k == [harness[h] EXCEPT !.at = "commit", !.revision = harness[h].revision]
  <1>1. PICK digest \in Digests :
          ReadForCommit(h, harness[h].revision, harness[h].stage, digest, harness[h].attempt)
    BY DEF Execute
  <1>2. At(h, "execute") /\ contexts' = contexts /\ harness' = [harness EXCEPT ![h] = k]
    BY GotoIs DEF Execute
  <1>3. harness[h].stage \in Stages
    BY <1>2, HarnessFields DEF HoldsContext, At, OptionalStages
  <1>4. RunInv'
    BY <1>1, <1>3, HarnessFields, ReadForCommitStep
  <1>5. /\ k \in Harnesses /\ k.at = "commit" /\ k.stage = harness[h].stage
        /\ k.context = harness[h].context
    BY HarnessFields DEF Harnesses, HarnessSteps
  <1> HIDE DEF k
  <1>6. harness'[h] = k
    BY <1>2 DEF HarnessInv
  <1>7. /\ record' = record /\ call'[h].op = "commit" /\ call'[h].stage = harness[h].stage
        /\ \A o \in Callers \ {h} : call'[o] = call[o]
    BY <1>1, HarnessFields DEF ReadForCommit
  <1>8. HoldsContext(h)
    BY HarnessFields
  <1>9. HoldsContext(h)'
    BY <1>2, <1>5, <1>6, <1>7, <1>8 DEF HoldsContext, CommittedBefore, At
  <1> QED BY <1>2, <1>4, <1>5, <1>7, <1>9, HarnessMoves

\* The commit: the stage is the next one, so nothing was committed since the
\* harness read its context.
LEMMA CommittedOnContext ==
  ASSUME HarnessInv, NEW h \in Callers, At(h, "commit"), CommitStage(h)
  PROVE  /\ harness[h].context = record.outputs
         /\ \E digest \in Digests : record'.outputs = Append(record.outputs, digest)
  <1> DEFINE k == call[h]
             new == CommittedRecord(record, k.stage, k.digest, k.requested, k.commitments)
  <1>1. /\ k.op = "commit" /\ k.stage = harness[h].stage /\ harness[h].stage # NoStage
        /\ Len(harness[h].context) = harness[h].stage - 1
        /\ CommittedBefore(harness[h].context)
    BY HarnessFields DEF HoldsContext, At
  <1>2. /\ CanCommit(record, k.stage, k.digest, k.requested) /\ Update(k.expected, new)
    BY DEF CommitStage
  <1>3. /\ k.stage \in Stages /\ k.digest \in Digests /\ k.requested \in Nat
        /\ k.commitments \in CommitmentSeqs
    BY <1>1, HarnessFields, CallTypes DEF CommitCalls
  <1>4. /\ CompletedIsPrefix(record) /\ CommitmentsMatch(record) /\ record \in Records
    BY DEF HarnessInv, RunInv, SoundRecord, TypeOK
  <1> HIDE DEF k
  <1>5. Len(record.outputs) = harness[h].stage - 1
    <2>1. k.stage = NextStage(record)
      BY <1>2 DEF CanCommit
    <2>2. Len(record.completed) \in 0 .. NStages
      BY <1>4, CompletedRange
    <2>3. NextStage(record)
            = IF Len(record.completed) < NStages THEN Len(record.completed) + 1 ELSE NoStage
      BY <1>4, NextStageIs
    <2>4. Len(record.outputs) = Len(record.completed)
      BY <1>4 DEF CommitmentsMatch
    <2> QED BY <1>1, <2>1, <2>2, <2>3, <2>4
  <1>6. harness[h].context = record.outputs
    <2>1. harness[h].context \in Seq(Digests) /\ record.outputs \in Seq(Digests)
      BY HarnessFields
    <2>2. Len(harness[h].context) = Len(record.outputs)
      BY <1>1, <1>5
    <2>3. \A i \in 1 .. Len(record.outputs) : harness[h].context[i] = record.outputs[i]
      BY <1>1, <2>2 DEF CommittedBefore
    <2> QED BY <2>1, <2>2, <2>3
  <1>7. new \in Records /\ new.outputs = Append(record.outputs, k.digest)
    BY <1>3, <1>4, CommittedType, CommittedFields
  <1> HIDE DEF new
  <1>8. record'.outputs = new.outputs
    BY <1>2, <1>7 DEF Update, Revised, Records
  <1> QED BY <1>3, <1>6, <1>7, <1>8

LEMMA AppendedOutputs ==
  ASSUME HarnessInv, NEW digest \in Digests, record'.outputs = Append(record.outputs, digest)
  PROVE  /\ Len(record'.outputs) = Len(record.outputs) + 1
         /\ \A i \in 1 .. Len(record.outputs) : record'.outputs[i] = record.outputs[i]
         /\ \A i \in 1 .. Len(record.outputs) + 1 :
              SubSeq(record'.outputs, 1, i - 1) = SubSeq(record.outputs, 1, i - 1)
         /\ SubSeq(record.outputs, 1, Len(record.outputs)) = record.outputs
         /\ \A context \in Seq(Digests) : CommittedBefore(context) =>
              /\ Len(context) <= Len(record'.outputs)
              /\ \A i \in 1 .. Len(context) : context[i] = record'.outputs[i]
  <1> DEFINE s == record.outputs
             t == record'.outputs
  <1>1. s \in Seq(Digests) /\ t = Append(s, digest)
    BY DEF HarnessInv, RunInv, TypeOK, Records, DigestSeqs
  <1> HIDE DEF s, t
  <1>2. Len(s) \in Nat /\ Len(t) = Len(s) + 1 /\ \A i \in 1 .. Len(s) : t[i] = s[i]
    BY <1>1
  <1>3. ASSUME NEW i \in 1 .. Len(s) + 1
        PROVE  SubSeq(t, 1, i - 1) = SubSeq(s, 1, i - 1)
    <2>1. t \in Seq(Digests)
      BY <1>1
    <2> QED BY <1>1, <1>2, <2>1
  <1>4. SubSeq(s, 1, Len(s)) = s
    BY <1>1
  <1>5. ASSUME NEW context \in Seq(Digests), CommittedBefore(context)
        PROVE  Len(context) <= Len(t) /\ \A i \in 1 .. Len(context) : context[i] = t[i]
    <2>1. Len(context) \in Nat /\ Len(context) <= Len(s)
          /\ \A i \in 1 .. Len(context) : context[i] = s[i]
      BY <1>5 DEF CommittedBefore, s
    <2> QED BY <1>2, <2>1
  <1> QED BY <1>2, <1>3, <1>4, <1>5 DEF s, t

LEMMA CommitStageStep ==
  ASSUME HarnessInv, NEW h \in Callers, Commit(h)
  PROVE  HarnessInv'
  <1>1. CASE Raise(h)
    BY <1>1, RaiseLeaves
  <1>2. CASE ~ Raise(h)
    <2>1. /\ At(h, "commit") /\ CommitStage(h) /\ Goto(h, "look")
          /\ contexts' = Append(contexts, harness[h].context)
      BY <1>2 DEF Commit
    <2>2. harness[h].context = record.outputs
      BY <2>1, CommittedOnContext
    <2>3. PICK digest \in Digests : record'.outputs = Append(record.outputs, digest)
      BY <2>1, CommittedOnContext
    <2>4. RunInv' /\ \A o \in Callers \ {h} : call'[o] = call[o]
      BY <2>1, HarnessFields, CommitStep DEF CommitStage
    <2> DEFINE k == [harness[h] EXCEPT !.at = "look", !.revision = harness[h].revision]
    <2>5. harness' = [harness EXCEPT ![h] = k]
      BY <2>1, GotoIs
    <2>6. k \in Harnesses /\ k.at = "look"
      BY HarnessFields DEF Harnesses, HarnessSteps
    <2> HIDE DEF k
    <2>7. /\ harness' \in [Callers -> Harnesses] /\ harness'[h] = k
          /\ \A o \in Callers \ {h} : harness'[o] = harness[o]
      BY <2>5, <2>6 DEF HarnessInv
    <2>8. \A o \in Callers : HoldsContext(o)'
      <3>1. HoldsContext(h)'
        BY <2>6, <2>7, ElsewhereHolds
      <3>2. ASSUME NEW o \in Callers \ {h} PROVE HoldsContext(o)'
        <4> DEFINE context == harness[o].context
        <4>1. /\ HoldsContext(o) /\ context \in Seq(Digests)
              /\ harness'[o] = harness[o] /\ call'[o] = call[o]
          BY <2>4, <2>7, HarnessFields
        <4>2. CommittedBefore(context) =>
                /\ Len(context) <= Len(record'.outputs)
                /\ \A i \in 1 .. Len(context) : context[i] = record'.outputs[i]
          BY <2>3, <4>1, AppendedOutputs
        <4> QED BY <4>1, <4>2 DEF HoldsContext, At, CommittedBefore
      <3> QED BY <3>1, <3>2
    <2>9. /\ contexts \in Seq(DigestSeqs) /\ record.outputs \in DigestSeqs
          /\ contexts' = Append(contexts, record.outputs)
          /\ Len(contexts) = Len(record.outputs)
          /\ \A i \in DOMAIN contexts : contexts[i] = SubSeq(record.outputs, 1, i - 1)
      BY <2>1, <2>2, HarnessFields DEF HarnessInv, CommittedInContext, DigestSeqs
    <2>10. contexts' \in Seq(DigestSeqs)
      BY <2>9
    <2>11. CommittedInContext'
      <3> DEFINE n == Len(record.outputs)
      <3>1. n \in Nat /\ Len(contexts) = n /\ DOMAIN contexts = 1 .. n
        BY <2>9
      <3> HIDE DEF n
      <3>2. /\ Len(contexts') = n + 1 /\ DOMAIN contexts' = 1 .. n + 1
            /\ contexts'[n + 1] = record.outputs
            /\ \A i \in 1 .. n : contexts'[i] = contexts[i]
        BY <2>9, <3>1
      <3>3. /\ Len(record'.outputs) = n + 1
            /\ \A i \in 1 .. n + 1 : SubSeq(record'.outputs, 1, i - 1) = SubSeq(record.outputs, 1, i - 1)
            /\ SubSeq(record.outputs, 1, n) = record.outputs
        BY <2>3, AppendedOutputs DEF n
      <3>4. ASSUME NEW i \in 1 .. n + 1 PROVE contexts'[i] = SubSeq(record'.outputs, 1, i - 1)
        <4>1. CASE i \in 1 .. n
          BY <2>9, <3>1, <3>2, <3>3, <4>1
        <4>2. CASE i = n + 1
          <5>1. i - 1 = n
            BY <3>1, <4>2
          <5> QED BY <3>2, <3>3, <4>2, <5>1
        <4> QED BY <3>1, <4>1, <4>2
      <3> QED BY <3>2, <3>3, <3>4 DEF CommittedInContext
    <2> QED BY <2>4, <2>7, <2>8, <2>10, <2>11 DEF HarnessInv
  <1> QED BY <1>1, <1>2

-----------------------------------------------------------------------------
(* Finalizing, and what others do                                            *)

LEMMA FinalizeRunStep ==
  ASSUME HarnessInv, NEW h \in Callers, FinalizeRun(h)
  PROVE  HarnessInv'
  <1>1. CASE Raise(h)
    BY <1>1, RaiseLeaves
  <1>2. CASE ~ Raise(h)
    <2>1. ReadForFinalize(h) /\ Goto(h, "publish") /\ contexts' = contexts
      BY <1>2 DEF FinalizeRun
    <2>2. /\ RunInv' /\ record' = record
          /\ \A o \in Callers \ {h} : call'[o] = call[o]
      BY <2>1, HarnessFields, ReadForFinalizeStep DEF ReadForFinalize
    <2> QED BY <2>1, <2>2, GotoIs, HarnessFields, Elsewhere
  <1> QED BY <1>1, <1>2

LEMMA PublishStep ==
  ASSUME HarnessInv, NEW h \in Callers, Publish(h)
  PROVE  HarnessInv'
  <1>1. /\ At(h, "publish") /\ UNCHANGED <<harness, contexts>>
        /\ BeginFinalizing(h) \/ RetainMemoryStage(h) \/ Complete(h) \/ RetainMemoryWrite(h)
    BY DEF Publish
  <1>2. RunInv'
    BY <1>1, HarnessFields, SagaStep
  <1>3. PICK new \in {FinalizingRecord(record), MemoryStagedRecord(record),
                      CompletedRecord(record), MemoryWrittenRecord(record)} :
          FinalizerUpdate(h, new)
    BY <1>1 DEF BeginFinalizing, RetainMemoryStage, Complete, RetainMemoryWrite
  <1>4. new \in Records /\ new.outputs = record.outputs
    BY <1>3, HarnessFields, FinalizingType, MemoryType, CompletedType, MutationKeepsOutputs
  <1>5. /\ record'.outputs = record.outputs
        /\ \A o \in Callers \ {h} : call'[o] = call[o]
    BY <1>3, <1>4, HarnessFields, UpdateKeepsOutputs DEF FinalizerUpdate
  <1>6. HoldsContext(h)'
    BY <1>1, ElsewhereHolds DEF At
  <1>7. harness[h] \in Harnesses /\ harness' = [harness EXCEPT ![h] = harness[h]]
    BY <1>1 DEF HarnessInv
  <1> QED BY <1>1, <1>2, <1>5, <1>6, <1>7, HarnessMoves

LEMMA ReturnStep ==
  ASSUME HarnessInv, NEW h \in Callers, Return(h)
  PROVE  HarnessInv'
  <1>1. /\ Goto(h, "returned") /\ call' = [call EXCEPT ![h] = Idle]
        /\ UNCHANGED <<record, contexts>>
    BY DEF Return
  <1>2. RunInv'
    <2>1. CASE call[h] # Idle
      BY <1>1, <2>1, HarnessFields, ReadForFinalizeStep DEF Leave
    <2>2. CASE call[h] = Idle
      <3>1. call' = call
        BY <1>1, <2>2, HarnessFields
      <3> QED BY <1>1, <3>1 DEF HarnessInv, RunInv, TypeOK, HeldCommit, HeldRecord
    <2> QED BY <2>1, <2>2
  <1>3. \A o \in Callers \ {h} : call'[o] = call[o]
    BY <1>1, HarnessFields
  <1>4. /\ harness' = [harness EXCEPT ![h] =
              [harness[h] EXCEPT !.at = "returned", !.revision = harness[h].revision]]
        /\ harness[h].revision \in Nat
    BY <1>1, GotoIs, HarnessFields
  <1>5. record'.outputs = record.outputs /\ contexts' = contexts
    BY <1>1
  <1> QED BY <1>2, <1>3, <1>4, <1>5, Elsewhere

LEMMA InterfereStep ==
  ASSUME HarnessInv, Interfere
  PROVE  HarnessInv'
  <1>1. UNCHANGED <<harness, contexts>>
    BY DEF Interfere
  <1>2. /\ record'.outputs = record.outputs /\ call' = call /\ RunInv'
    <2>1. CASE Start \/ Pause \/ Resume \/ Fail \/ RequestCancel
      <3>1. RunInv'
        BY <2>1, MoveStep DEF HarnessInv
      <3>2. PICK new \in {StartedRecord(record), CancelRequestedRecord(record)}
                           \cup {MovedTo(record, target) : target \in {"paused", "running", "failed"}} :
              UpdateNow(new)
        BY <2>1 DEF Start, Pause, Resume, ResumedRecord, Fail, RequestCancel
      <3>3. new \in Records /\ new.outputs = record.outputs
        <4>1. record \in Records
          BY DEF HarnessInv, RunInv, TypeOK
        <4>2. CASE new \in {StartedRecord(record), CancelRequestedRecord(record)}
          BY <4>1, <4>2, StartedType, CancelRequestedType, MutationKeepsOutputs
        <4>3. CASE \E target \in {"paused", "running", "failed"} : new = MovedTo(record, target)
          <5>1. PICK target \in {"paused", "running", "failed"} : new = MovedTo(record, target)
            BY <4>3
          <5>2. target \in Statuses
            BY StatusNames
          <5> QED BY <4>1, <5>1, <5>2, MovedToType, MutationKeepsOutputs
        <4> QED BY <3>2, <4>2, <4>3
      <3> QED BY <3>1, <3>2, <3>3, UpdateKeepsOutputs DEF UpdateNow, HarnessInv, RunInv, TypeOK
    <2>2. ASSUME NEW rc \in InputReceipts, AppendReceipt(rc)
          PROVE  record'.outputs = record.outputs /\ call' = call /\ RunInv'
      <3>1. record \in Records /\ rc \in Receipts
        BY InputTypes DEF HarnessInv, RunInv, TypeOK
      <3>2. /\ AcceptsReceipt(record, rc) /\ call' = call
            /\ Update(record.revision, LoggedReceipt(record, rc))
        BY <2>2 DEF AppendReceipt, UpdateNow
      <3>3. /\ LoggedReceipt(record, rc) \in Records
            /\ LoggedReceipt(record, rc).outputs = record.outputs
        BY <3>1, <3>2, LoggedType, LoggedFields
      <3>4. RunInv'
        BY <2>2, AppendStep DEF HarnessInv
      <3> QED BY <3>1, <3>2, <3>3, <3>4, UpdateKeepsOutputs
    <2> QED BY <2>1, <2>2 DEF Interfere
  <1>3. ASSUME NEW o \in Callers PROVE HoldsContext(o)'
    BY <1>1, <1>2 DEF HarnessInv, HoldsContext, CommittedBefore, At
  <1>4. CommittedInContext'
    BY <1>1, <1>2 DEF HarnessInv, CommittedInContext
  <1> QED BY <1>1, <1>2, <1>3, <1>4 DEF HarnessInv

-----------------------------------------------------------------------------
LEMMA HarnessInitInv == HarnessInit => HarnessInv
  <1> SUFFICES ASSUME HarnessInit PROVE HarnessInv
    OBVIOUS
  <1>1. RunInv /\ record.outputs = <<>>
    BY InitInv DEF HarnessInit, Init, AbsentRecord
  <1>2. harness = [h \in Callers |-> Outside] /\ contexts = <<>>
    BY DEF HarnessInit
  <1>3. harness \in [Callers -> Harnesses] /\ \A h \in Callers : harness[h].at = "idle"
    BY <1>2, OutsideType
  <1>4. \A h \in Callers : HoldsContext(h)
    BY <1>3 DEF HoldsContext, At
  <1>5. contexts \in Seq(DigestSeqs) /\ CommittedInContext
    BY <1>1, <1>2 DEF CommittedInContext
  <1> QED BY <1>1, <1>3, <1>4, <1>5 DEF HarnessInv

LEMMA HarnessNextInv == HarnessInv /\ [HarnessNext]_harnessVars => HarnessInv'
  <1> SUFFICES ASSUME HarnessInv, [HarnessNext]_harnessVars PROVE HarnessInv'
    OBVIOUS
  <1>1. CASE CreateRun(Keeper)
    BY <1>1, HarnessAssumption, CreateRunStep
  <1>2. ASSUME NEW h \in Callers, PickUp(h) \/ HarnessStep(h) \/ Interrupt(h)
        PROVE  HarnessInv'
    <2>1. CASE Conflict(h)
      BY <2>1, RaiseLeaves DEF Conflict
    <2> QED BY <1>2, <2>1, PickUpStep, RaiseLeaves, EnterStep, ReadStageStep, ReadControlStep,
               ExecuteStep, CommitStageStep, FinalizeRunStep, PublishStep, ReturnStep
            DEF HarnessStep
  <1>3. CASE Interfere
    BY <1>3, InterfereStep
  <1>4. CASE UNCHANGED harnessVars
    BY <1>4 DEF harnessVars, HarnessInv, RunInv, TypeOK, HeldCommit, HeldRecord,
                CommittedInContext, HoldsContext, CommittedBefore, At
  <1> QED BY <1>1, <1>2, <1>3, <1>4 DEF HarnessNext

\* What harnesses hold and have committed, whoever else changes the run.
THEOREM HarnessInvariant == HarnessSpec => []HarnessInv
  BY HarnessInitInv, HarnessNextInv, PTL DEF HarnessSpec

\* Every committed output was executed on the outputs committed before it.
THEOREM OutputsSeeTheirContext == HarnessSpec => []CommittedInContext
  <1>1. HarnessInv => CommittedInContext
    BY DEF HarnessInv
  <1> QED BY <1>1, HarnessInvariant, PTL

================================================================================
