--------------------------- MODULE LifecycleRecord ---------------------------
(***************************************************************************)
(* The durable record of one analytics run (LifecycleRecordV1) and the     *)
(* mutations that CompanyAnalyticsCoordinator hands to                     *)
(* LifecycleStore.update.  A mutation comes as a pair of operators: the    *)
(* guard with which the code refuses, and the record the code would write. *)
(*                                                                         *)
(* A stage is its ordinal in the topology.  A digest is the content of a   *)
(* stage envelope.  A result identifier is derived from the content of     *)
(* the submission it names, so it is modelled by that content.  Fields     *)
(* that every mutation sets together with the status (cancel_reason,       *)
(* cancel_ack_receipt_id, finalization_completed_at) are left out, and so  *)
(* are the texts, timestamps and request contents that nothing here tells  *)
(* apart.  The event log is contiguous, so its length stands for it.       *)
(***************************************************************************)
EXTENDS Integers, Sequences, FiniteSets

CONSTANTS
  NStages,      \* stages of the topology; the last one is the terminal stage
  Digests,      \* contents a stage envelope can have
  NoDigest,     \* an absent output_digest
  ReceiptIds,   \* identifiers that callers give to their receipts
  MaxReceipts   \* receipts one run may retain (_MAX_TOTAL_RECEIPTS)

ASSUME RecordAssumption ==
  /\ NStages \in Nat \ {0}
  /\ MaxReceipts \in Nat
  /\ NoDigest \notin Digests

Stages == 1 .. NStages
NoStage == 0
NoAttempt == 0
Attempts == Nat \ {0}

Statuses ==
  {"absent", "prepared", "running", "paused", "cancel_requested", "cancelled",
   "finalizing", "completed", "failed"}

Commitments == [stage : Stages, attempt : Attempts, digest : Digests]

\* A tool, progress or warning receipt is of kind "other": the code treats
\* them alike.
Receipts ==
  [id : ReceiptIds,
   kind : {"stage_started", "stage_completed", "other"},
   stage : Stages \cup {NoStage},
   attempt : Nat,
   digest : Digests \cup {NoDigest}]

StageSeqs == Seq(Stages)
DigestSeqs == Seq(Digests)
CommitmentSeqs == Seq(Commitments)
AttemptCounts == [Stages -> Nat]
OptionalStages == Stages \cup {NoStage}
ReceiptSets == SUBSET Receipts

\* decision_memory_enabled, and whether memory_stage_receipt and
\* memory_write_receipt are there.
MemoryFlags == SUBSET {"enabled", "staged", "written"}

\* final_submission carries the commitments it was bound to; <<>> is its
\* absence, and the absence of result_run_id.
Records ==
  [status : Statuses,
   revision : Nat,
   completed : StageSeqs,
   outputs : DigestSeqs,
   commitments : CommitmentSeqs,
   attempts : AttemptCounts,
   activeStage : OptionalStages,
   activeAttempt : Nat,
   receipts : ReceiptSets,
   final : CommitmentSeqs,
   result : CommitmentSeqs,
   memory : MemoryFlags,
   events : Nat]

CompletedStages(r) == {r.completed[i] : i \in DOMAIN r.completed}
IncompleteStages(r) == Stages \ CompletedStages(r)

\* The first stage of the topology that is not completed.
NextStage(r) ==
  IF IncompleteStages(r) = {}
    THEN NoStage
    ELSE CHOOSE s \in IncompleteStages(r) : \A t \in IncompleteStages(r) : s <= t

Emit(r) == [r EXCEPT !.events = @ + 1]
NoActive(r) == [r EXCEPT !.activeStage = NoStage, !.activeAttempt = NoAttempt]

-----------------------------------------------------------------------------
(* LifecycleRecordV1.from_mapping: what every record must satisfy before it  *)
(* is written, and again when it is read.                                    *)

CompletedIsPrefix(r) ==
  /\ Len(r.completed) <= NStages
  /\ \A i \in DOMAIN r.completed : r.completed[i] = i

ActiveIsIncomplete(r) ==
  /\ r.activeStage = NoStage => r.activeAttempt = NoAttempt
  /\ r.activeStage \notin CompletedStages(r)

AttemptsCoverCompleted(r) == \A s \in CompletedStages(r) : r.attempts[s] \in Attempts

\* The receipt digest of a commitment covers the stage, its attempt and the
\* envelope, and is recomputed from attempts and stage_outputs.
CommitmentsMatch(r) ==
  /\ Len(r.outputs) = Len(r.completed)
  /\ Len(r.commitments) = Len(r.completed)
  /\ \A i \in DOMAIN r.completed :
       r.commitments[i] = [stage |-> r.completed[i],
                           attempt |-> r.attempts[r.completed[i]],
                           digest |-> r.outputs[i]]

WellFormedReceipt(rc) ==
  /\ rc.kind \in {"stage_started", "stage_completed"} =>
       rc.stage # NoStage /\ rc.attempt # NoAttempt
  /\ rc.kind = "stage_completed" => rc.digest # NoDigest

ReceiptsIndexed(r) ==
  /\ Cardinality(r.receipts) <= MaxReceipts
  /\ \A rc \in r.receipts : WellFormedReceipt(rc)
  /\ \A a, b \in r.receipts : a.id = b.id => a = b

SubmissionBound(r) ==
  r.final # <<>> => NStages \in CompletedStages(r) /\ r.final = r.commitments

StatusSupported(r) ==
  /\ r.status \in {"finalizing", "completed"} =>
       /\ r.final # <<>>
       /\ CompletedStages(r) = Stages
       /\ r.activeStage = NoStage
  /\ r.result = IF r.status = "completed" THEN r.final ELSE <<>>
  /\ r.status = "prepared" =>
       /\ r.completed = <<>>
       /\ r.attempts = [s \in Stages |-> 0]
       /\ r.activeStage = NoStage
       /\ r.receipts = {}

ValidRecord(r) ==
  /\ CompletedIsPrefix(r)
  /\ ActiveIsIncomplete(r)
  /\ AttemptsCoverCompleted(r)
  /\ CommitmentsMatch(r)
  /\ ReceiptsIndexed(r)
  /\ SubmissionBound(r)
  /\ StatusSupported(r)

-----------------------------------------------------------------------------
(* Mutations.                                                                *)

\* Variant with a fault: the revision does not move.
Unrevised(new, expected) == [new EXCEPT !.revision = expected]

\* LifecycleStore.update stamps the mutated record with the next revision.
Revised(new, expected) == [new EXCEPT !.revision = expected + 1]

AbsentRecord ==
  [status |-> "absent", revision |-> 0, completed |-> <<>>, outputs |-> <<>>,
   commitments |-> <<>>, attempts |-> [s \in Stages |-> 0],
   activeStage |-> NoStage, activeAttempt |-> NoAttempt, receipts |-> {},
   final |-> <<>>, result |-> <<>>, memory |-> {}, events |-> 0]

PreparedRecord(memory) ==
  Emit([AbsentRecord EXCEPT !.status = "prepared", !.memory = memory])

\* Variant with a fault: the active stage survives a pause.
MovedKeepingActive(r, target) == Emit([r EXCEPT !.status = target])

\* pause, fail and acknowledge_cancel: one source status, one target.
MovedTo(r, target) == Emit(NoActive([r EXCEPT !.status = target]))

StartedRecord(r) == Emit([r EXCEPT !.status = "running"])

\* The active stage survives the request: its last receipts may still arrive.
CancelRequestedRecord(r) == Emit([r EXCEPT !.status = "cancel_requested"])

CanResume(r) == r.status \in {"paused", "running"}

\* Variant with a fault: a resumed run stays bound to the interrupted attempt.
ResumedInPlace(r) == Emit([r EXCEPT !.status = "running"])

ResumedRecord(r) == MovedTo(r, "running")

-----------------------------------------------------------------------------
(* append_receipts                                                           *)

CanAppendReceipts(r, n) ==
  /\ r.status \in {"running", "cancel_requested"}
  /\ Cardinality(r.receipts) + n <= MaxReceipts

AcceptsStart(r, rc) ==
  /\ r.status # "cancel_requested"
  /\ rc.stage # NoStage
  /\ rc.stage = NextStage(r)
  /\ rc.attempt = r.attempts[rc.stage] + 1

AcceptsReceipt(r, rc) ==
  /\ WellFormedReceipt(rc)
  /\ \A known \in r.receipts : known.id # rc.id
  /\ \/ rc.kind = "stage_started" /\ AcceptsStart(r, rc)
     \/ rc.kind # "stage_started" /\ rc.stage \in {NoStage, r.activeStage}

\* Variant with a fault: a started attempt is not counted.
LoggedUncounted(r, rc) ==
  Emit([r EXCEPT
    !.receipts = @ \cup {rc},
    !.activeStage = IF rc.kind = "stage_started" THEN rc.stage ELSE @,
    !.activeAttempt = IF rc.kind = "stage_started" THEN rc.attempt ELSE @])

LoggedReceipt(r, rc) ==
  Emit([r EXCEPT
    !.receipts = @ \cup {rc},
    !.attempts = IF rc.kind = "stage_started"
                   THEN [@ EXCEPT ![rc.stage] = rc.attempt] ELSE @,
    !.activeStage = IF rc.kind = "stage_started" THEN rc.stage ELSE @,
    !.activeAttempt = IF rc.kind = "stage_started" THEN rc.attempt ELSE @])

-----------------------------------------------------------------------------
(* commit_stage.  It computes the commitment of the attempt, the list of     *)
(* commitments and the bound submission from a record it reads before the    *)
(* update, and everything else from the record it updates.                   *)

\* requested is the attempt argument, NoAttempt when the caller gives none.
CommittedAttempt(r, stage, requested) ==
  IF requested # NoAttempt THEN requested
  ELSE IF r.activeAttempt # NoAttempt THEN r.activeAttempt
  ELSE r.attempts[stage] + 1

BoundCommitments(r, stage, digest, requested) ==
  Append(r.commitments, [stage |-> stage,
                         attempt |-> CommittedAttempt(r, stage, requested),
                         digest |-> digest])

CompletionReceipts(r, stage, attempt) ==
  {rc \in r.receipts : /\ rc.kind = "stage_completed"
                       /\ rc.stage = stage
                       /\ rc.attempt = attempt}

\* Variant with a fault: completion receipts are not compared.
CanCommitUnattested(r, stage, digest, requested) ==
  /\ r.status = "running"
  /\ stage = NextStage(r)
  /\ r.activeStage \in {NoStage, stage}
  /\ NoAttempt \in {requested, r.activeAttempt} \/ requested = r.activeAttempt

\* Variant with a fault: the status is not checked under the lock.
CanCommitInAnyStatus(r, stage, digest, requested) ==
  /\ stage = NextStage(r)
  /\ r.activeStage \in {NoStage, stage}
  /\ NoAttempt \in {requested, r.activeAttempt} \/ requested = r.activeAttempt

CanCommit(r, stage, digest, requested) ==
  /\ r.status = "running"
  /\ stage = NextStage(r)
  /\ r.activeStage \in {NoStage, stage}
  /\ NoAttempt \in {requested, r.activeAttempt} \/ requested = r.activeAttempt
  /\ \A rc \in CompletionReceipts(r, stage, CommittedAttempt(r, stage, requested)) :
       rc.digest = digest

CommittedRecord(r, stage, digest, requested, commitments) ==
  LET attempt == CommittedAttempt(r, stage, requested)
  IN  Emit(NoActive([r EXCEPT
        !.attempts[stage] = IF attempt > @ THEN attempt ELSE @,
        !.outputs = Append(@, digest),
        !.commitments = commitments,
        !.completed = Append(@, stage),
        !.final = IF stage = NStages THEN commitments ELSE @]))

-----------------------------------------------------------------------------
(* finalize and CompletedPublicationSaga.publish                             *)

\* Variant with a fault: a completed run is taken for published.
CanFinalizeUncompleted(r) ==
  /\ r.status \in {"running", "finalizing"}
  /\ NextStage(r) = NoStage

CanFinalize(r) ==
  /\ r.status \in {"running", "finalizing", "completed"}
  /\ NextStage(r) = NoStage

FinalizingRecord(r) == Emit([r EXCEPT !.status = "finalizing"])
MemoryStagedRecord(r) == Emit([r EXCEPT !.memory = @ \cup {"staged"}])
CompletedRecord(r) == Emit([r EXCEPT !.status = "completed", !.result = r.final])

\* Variant with a fault: keeping the receipt is announced to pollers.
MemoryWrittenAnnounced(r) == Emit([r EXCEPT !.memory = @ \cup {"written"}])

MemoryWrittenRecord(r) == [r EXCEPT !.memory = @ \cup {"written"}]

=============================================================================
