------------------------------ MODULE RunControl ------------------------------
(***************************************************************************)
(* One analytics run under concurrent callers: LifecycleStore.create and   *)
(* update with their optimistic revisions, and every operation of          *)
(* CompanyAnalyticsCoordinator that changes the record.                    *)
(*                                                                         *)
(* An operation whose mutation reads only the record it updates is one     *)
(* step: update holds the writer lock and a SQLite transaction from the    *)
(* revision check to the commit, so a failed one changes nothing.          *)
(* commit_stage and finalize first read the record outside the lock; the   *)
(* calls in flight hold what they read.  A caller may name any revision,   *)
(* a later one than it has seen included.  The stores that finalize writes *)
(* between its updates are the subject of PublicationSaga.                 *)
(***************************************************************************)
EXTENDS LifecycleRecord

CONSTANTS
  Callers,      \* threads and processes of the MCP server, the CLI, a harness
  MaxAttempt,   \* bound on the attempt numbers callers name
  MaxRevision,  \* bound on the number of updates
  MaxAhead      \* bound on how far ahead of the record callers guess revisions

ASSUME ControlAssumption ==
  /\ MaxAttempt \in Nat
  /\ MaxRevision \in Nat
  /\ MaxAhead \in Nat

VARIABLES
  record,       \* the lifecycle_runs row
  call          \* what each caller has in flight

vars == <<record, call>>

Idle == [op |-> "idle"]

CommitCalls ==
  [op : {"commit"}, expected : Nat, stage : Stages, digest : Digests,
   requested : Nat, commitments : CommitmentSeqs]

\* finalize keeps the record as its last read or update returned it.
FinalizeCalls == [op : {"finalize"}, local : Records]

Calls == {Idle} \cup CommitCalls \cup FinalizeCalls

Requested == {NoAttempt} \cup 1 .. MaxAttempt

\* The receipts callers send: a start names no digest, and what the other
\* kinds say of attempts and digests is never compared.
InputReceipts ==
       [id : ReceiptIds, kind : {"stage_started"}, stage : Stages,
        attempt : 1 .. MaxAttempt, digest : {NoDigest}]
  \cup [id : ReceiptIds, kind : {"stage_completed"}, stage : Stages,
        attempt : 1 .. MaxAttempt, digest : Digests]
  \cup [id : ReceiptIds, kind : {"other"}, stage : Stages \cup {NoStage},
        attempt : {NoAttempt}, digest : {NoDigest}]

\* The lifecycle record of the run and the call of every caller keep their types.
TypeOK ==
  /\ record \in Records
  /\ call \in [Callers -> Calls]

Init ==
  /\ record = AbsentRecord
  /\ call = [c \in Callers |-> Idle]

-----------------------------------------------------------------------------
(* LifecycleStore                                                            *)

\* The row is inserted at revision 0, or not at all when the run exists.
Insert(new) ==
  /\ record.status = "absent"
  /\ ValidRecord(new)
  /\ record' = new

\* update: the revision is compared, the mutated record validated as a whole
\* and written with the next revision, in one transaction.
Update(expected, new) ==
  /\ record.status # "absent"
  /\ record.revision = expected
  /\ expected < MaxRevision
  /\ ValidRecord(new)
  /\ record' = Revised(new, expected)

\* An update by an operation that reads nothing beforehand succeeds exactly
\* when its caller names the current revision.
UpdateNow(new) == Update(record.revision, new) /\ UNCHANGED call

-----------------------------------------------------------------------------
(* Operations of one step                                                    *)

Create == \E memory \in {{}, {"enabled"}} : Insert(PreparedRecord(memory)) /\ UNCHANGED call

Start == record.status = "prepared" /\ UpdateNow(StartedRecord(record))

Pause == record.status = "running" /\ UpdateNow(MovedTo(record, "paused"))

Resume == CanResume(record) /\ UpdateNow(ResumedRecord(record))

Fail == record.status = "running" /\ UpdateNow(MovedTo(record, "failed"))

RequestCancel ==
  /\ record.status \in {"prepared", "running", "paused"}
  /\ UpdateNow(CancelRequestedRecord(record))

AcknowledgeCancel ==
  /\ record.status = "cancel_requested"
  /\ UpdateNow(MovedTo(record, "cancelled"))

\* A batch is accepted as a whole: the second receipt is checked against the
\* record the first one left.  Batches are bounded to two receipts.
AppendReceipt(rc) ==
  /\ CanAppendReceipts(record, 1)
  /\ AcceptsReceipt(record, rc)
  /\ UpdateNow(LoggedReceipt(record, rc))

AppendTwoReceipts(first, second) ==
  /\ CanAppendReceipts(record, 2)
  /\ AcceptsReceipt(record, first)
  /\ AcceptsReceipt(LoggedReceipt(record, first), second)
  /\ UpdateNow(LoggedReceipt(LoggedReceipt(record, first), second))

-----------------------------------------------------------------------------
(* commit_stage: a read, then an update.  A call that names a revision       *)
(* already passed can only raise, and is left out.                           *)

ReadForCommit(c, expected, stage, digest, requested) ==
  /\ call[c] = Idle
  /\ record.status # "absent"
  /\ call' = [call EXCEPT ![c] =
       [op |-> "commit", expected |-> expected, stage |-> stage, digest |-> digest,
        requested |-> requested,
        commitments |-> BoundCommitments(record, stage, digest, requested)]]
  /\ UNCHANGED record

CommitStage(c) ==
  LET k == call[c]
  IN  /\ k.op = "commit"
      /\ CanCommit(record, k.stage, k.digest, k.requested)
      /\ Update(k.expected,
                CommittedRecord(record, k.stage, k.digest, k.requested, k.commitments))
      /\ call' = [call EXCEPT ![c] = Idle]

-----------------------------------------------------------------------------
(* finalize: a read, then up to four updates, each against the revision the  *)
(* previous one returned                                                     *)

ReadForFinalize(c) ==
  /\ call[c] = Idle
  /\ CanFinalize(record)
  /\ call' = [call EXCEPT ![c] = [op |-> "finalize", local |-> record]]
  /\ UNCHANGED record

FinalizerUpdate(c, new) ==
  /\ Update(call[c].local.revision, new)
  /\ call' = [call EXCEPT ![c].local = record']

BeginFinalizing(c) ==
  /\ call[c].op = "finalize"
  /\ call[c].local.status = "running"
  /\ FinalizerUpdate(c, FinalizingRecord(record))

RetainMemoryStage(c) ==
  /\ call[c].op = "finalize"
  /\ call[c].local.status \in {"finalizing", "completed"}
  /\ "enabled" \in call[c].local.memory
  /\ "staged" \notin call[c].local.memory
  /\ FinalizerUpdate(c, MemoryStagedRecord(record))

Complete(c) ==
  /\ call[c].op = "finalize"
  /\ call[c].local.status = "finalizing"
  /\ "enabled" \in call[c].local.memory => "staged" \in call[c].local.memory
  /\ FinalizerUpdate(c, CompletedRecord(record))

RetainMemoryWrite(c) ==
  /\ call[c].op = "finalize"
  /\ call[c].local.status = "completed"
  /\ {"enabled", "staged"} \subseteq call[c].local.memory
  /\ "written" \notin call[c].local.memory
  /\ FinalizerUpdate(c, MemoryWrittenRecord(record))

\* A call in flight returns, raises or dies with its process.
Leave(c) ==
  /\ call[c] # Idle
  /\ call' = [call EXCEPT ![c] = Idle]
  /\ UNCHANGED record

-----------------------------------------------------------------------------
OneStepOperation ==
  \/ Create \/ Start \/ Pause \/ Resume \/ Fail \/ RequestCancel \/ AcknowledgeCancel
  \/ \E rc \in InputReceipts : AppendReceipt(rc)
  \/ \E first \in {rc \in InputReceipts : AcceptsReceipt(record, rc)},
        second \in InputReceipts : AppendTwoReceipts(first, second)

CallStep(c) ==
  \/ \E expected \in record.revision .. record.revision + MaxAhead,
        stage \in Stages, digest \in Digests, requested \in Requested :
       ReadForCommit(c, expected, stage, digest, requested)
  \/ CommitStage(c)
  \/ ReadForFinalize(c)
  \/ BeginFinalizing(c)
  \/ RetainMemoryStage(c)
  \/ Complete(c)
  \/ RetainMemoryWrite(c)
  \/ Leave(c)

Next == OneStepOperation \/ \E c \in Callers : CallStep(c)

Spec == Init /\ [][Next]_vars

-----------------------------------------------------------------------------
(* Properties                                                                *)

\* commit_stage compares the completion receipts it finds at the commit; no
\* receipt that arrives before or after, for any attempt, may leave a
\* completed stage whose committed attempt is attested with another digest.
CompletionReceiptsMatchOutputs ==
  \A i \in DOMAIN record.completed :
    \A rc \in CompletionReceipts(record, record.completed[i],
                                  record.commitments[i].attempt) :
      rc.digest = record.outputs[i]

\* Whatever pauses, resumes and restarts lie between, two stage_started
\* receipts never announce the same attempt of a stage: no two executors
\* believe they own it.
EachAttemptStartsOnce ==
  \A a, b \in record.receipts :
    /\ a.kind = "stage_started"
    /\ b.kind = "stage_started"
    /\ a.stage = b.stage
    /\ a.attempt = b.attempt
    => a = b

\* An active stage is the next one, at its latest attempt, and only a run
\* that executes or is being cancelled has one.
ActiveIsLatestAttemptOfNextStage ==
  record.activeStage # NoStage =>
    /\ record.status \in {"running", "cancel_requested"}
    /\ record.activeStage = NextStage(record)
    /\ record.activeAttempt = record.attempts[record.activeStage]

\* Receipts cannot wedge a run: whatever completions were reported for which
\* attempts, after a resume every output can be committed under some attempt.
AnyOutputCommitsAfterResume ==
  record.status = "running" /\ NextStage(record) # NoStage =>
    LET r == ResumedRecord(record)
        stage == NextStage(record)
    IN  \A digest \in Digests : \E requested \in 1 .. MaxAttempt + 1 :
          /\ CanCommit(r, stage, digest, requested)
          /\ ValidRecord(CommittedRecord(r, stage, digest, requested,
                           BoundCommitments(r, stage, digest, requested)))

\* A revision names one content of the record: a finalizer whose last read
\* has the current revision holds the current record, so an update that
\* passes the revision check loses nobody's write.
RevisionIdentifiesRecord ==
  \A c \in Callers :
    call[c].op = "finalize" /\ call[c].local.revision = record.revision =>
      call[c].local = record

\* Once a caller asked to cancel, or the run failed, no commit already in
\* flight and no receipt advances the run.
NoProgressAfterStop ==
  [][record.status \in {"cancel_requested", "cancelled", "failed"} =>
       /\ record'.completed = record.completed
       /\ record'.commitments = record.commitments
       /\ record'.attempts = record.attempts
       /\ record'.final = record.final]_vars

\* The completed event is the last of the run.  Pollers rely on it: while the
\* publication is pending they are not shown that event, and a later one
\* would move their cursor past it.
CompletedEventIsLast ==
  [][record.status = "completed" => record'.events = record.events]_vars

\* RunControl implements the append-only ledger of stage commitments, though
\* commit_stage rewrites the whole list from an earlier read.
Ledger == INSTANCE StageLedger WITH phase <- record.status, ledger <- record.commitments

LedgerSpec == Ledger!Spec

=============================================================================
