------------------------- MODULE LifecycleRecordProofs -------------------------
(***************************************************************************)
(* Lemmas about the mutations of a lifecycle record: they keep its type,   *)
(* and they keep SoundRecord, which says more than the validators do.      *)
(***************************************************************************)
EXTENDS LifecycleRecord, TLAPS

-----------------------------------------------------------------------------
(* Every mutation maps records to records.                                   *)

LEMMA EmitType ==
  ASSUME NEW r \in Records
  PROVE  Emit(r) \in Records
  BY DEF Emit, Records

LEMMA NoActiveType ==
  ASSUME NEW r \in Records
  PROVE  NoActive(r) \in Records
  <1>1. NoStage \in OptionalStages /\ NoAttempt \in Nat
    BY DEF NoStage, NoAttempt, OptionalStages
  <1> QED BY <1>1 DEF NoActive, Records

LEMMA RevisedType ==
  ASSUME NEW r \in Records, NEW n \in Nat
  PROVE  Revised(r, n) \in Records
  BY DEF Revised, Records

LEMMA StatusType ==
  ASSUME NEW r \in Records, NEW s \in Statuses
  PROVE  [r EXCEPT !.status = s] \in Records
  BY DEF Records

LEMMA MovedToType ==
  ASSUME NEW r \in Records, NEW s \in Statuses
  PROVE  MovedTo(r, s) \in Records
  <1>1. [r EXCEPT !.status = s] \in Records
    BY StatusType
  <1>2. NoActive([r EXCEPT !.status = s]) \in Records
    BY <1>1, NoActiveType
  <1> QED BY <1>2, EmitType DEF MovedTo

LEMMA StatusNames ==
  /\ "running" \in Statuses /\ "paused" \in Statuses /\ "failed" \in Statuses
  /\ "cancel_requested" \in Statuses /\ "cancelled" \in Statuses
  /\ "finalizing" \in Statuses /\ "completed" \in Statuses
  /\ "prepared" \in Statuses /\ "absent" \in Statuses
  BY DEF Statuses

LEMMA AbsentType == AbsentRecord \in Records
  <1>1. <<>> \in StageSeqs /\ <<>> \in DigestSeqs /\ <<>> \in CommitmentSeqs
    BY DEF StageSeqs, DigestSeqs, CommitmentSeqs
  <1>2. [s \in Stages |-> 0] \in AttemptCounts
    BY DEF AttemptCounts
  <1>3. NoStage \in OptionalStages /\ NoAttempt \in Nat
    BY DEF NoStage, NoAttempt, OptionalStages
  <1>4. {} \in ReceiptSets /\ {} \in MemoryFlags
    BY DEF ReceiptSets, MemoryFlags
  <1> QED BY <1>1, <1>2, <1>3, <1>4, StatusNames DEF AbsentRecord, Records

LEMMA PreparedType ==
  ASSUME NEW memory \in MemoryFlags
  PROVE  PreparedRecord(memory) \in Records
  <1>1. [AbsentRecord EXCEPT !.status = "prepared", !.memory = memory] \in Records
    BY AbsentType, StatusNames DEF Records
  <1> QED BY <1>1, EmitType DEF PreparedRecord

LEMMA StartedType ==
  ASSUME NEW r \in Records
  PROVE  StartedRecord(r) \in Records
  BY StatusType, StatusNames, EmitType DEF StartedRecord

LEMMA CancelRequestedType ==
  ASSUME NEW r \in Records
  PROVE  CancelRequestedRecord(r) \in Records
  BY StatusType, StatusNames, EmitType DEF CancelRequestedRecord

LEMMA FinalizingType ==
  ASSUME NEW r \in Records
  PROVE  FinalizingRecord(r) \in Records
  BY StatusType, StatusNames, EmitType DEF FinalizingRecord

LEMMA MemoryType ==
  ASSUME NEW r \in Records
  PROVE  /\ MemoryStagedRecord(r) \in Records
         /\ MemoryWrittenRecord(r) \in Records
  <1>1. r.memory \cup {"staged"} \in MemoryFlags /\ r.memory \cup {"written"} \in MemoryFlags
    <2>1. r.memory \in MemoryFlags
      BY DEF Records
    <2> QED BY <2>1 DEF MemoryFlags
  <1>2. [r EXCEPT !.memory = @ \cup {"staged"}] \in Records
    BY <1>1 DEF Records
  <1>3. [r EXCEPT !.memory = @ \cup {"written"}] \in Records
    BY <1>1 DEF Records
  <1> QED BY <1>2, <1>3, EmitType DEF MemoryStagedRecord, MemoryWrittenRecord

LEMMA CompletedType ==
  ASSUME NEW r \in Records
  PROVE  CompletedRecord(r) \in Records
  <1>1. [r EXCEPT !.status = "completed", !.result = r.final] \in Records
    BY StatusNames DEF Records
  <1> QED BY <1>1, EmitType DEF CompletedRecord

LEMMA AttemptType ==
  ASSUME NEW r \in Records, NEW stage \in Stages, NEW requested \in Nat
  PROVE  CommittedAttempt(r, stage, requested) \in Attempts
  <1>1. r.activeAttempt \in Nat /\ r.attempts[stage] \in Nat
    BY DEF Records, AttemptCounts
  <1> QED BY <1>1 DEF CommittedAttempt, Attempts, NoAttempt

LEMMA BoundType ==
  ASSUME NEW r \in Records, NEW stage \in Stages, NEW digest \in Digests,
         NEW requested \in Nat
  PROVE  BoundCommitments(r, stage, digest, requested) \in CommitmentSeqs
  <1> DEFINE new == [stage |-> stage, attempt |-> CommittedAttempt(r, stage, requested),
                     digest |-> digest]
  <1>1. new \in Commitments
    BY AttemptType DEF Commitments
  <1>2. r.commitments \in Seq(Commitments)
    BY DEF Records, CommitmentSeqs
  <1>3. Append(r.commitments, new) \in Seq(Commitments)
    BY <1>1, <1>2
  <1> QED BY <1>3 DEF BoundCommitments, CommitmentSeqs

LEMMA CommittedType ==
  ASSUME NEW r \in Records, NEW stage \in Stages, NEW digest \in Digests,
         NEW requested \in Nat, NEW commitments \in CommitmentSeqs
  PROVE  CommittedRecord(r, stage, digest, requested, commitments) \in Records
  <1> DEFINE attempt == CommittedAttempt(r, stage, requested)
             counts == [r.attempts EXCEPT ![stage] = IF attempt > @ THEN attempt ELSE @]
             final == IF stage = NStages THEN commitments ELSE r.final
             r1 == [r EXCEPT !.attempts = counts, !.outputs = Append(@, digest)]
             r2 == [r1 EXCEPT !.commitments = commitments, !.completed = Append(@, stage)]
             r3 == [r2 EXCEPT !.final = final]
  <1>1. counts \in AttemptCounts
    BY AttemptType DEF Records, AttemptCounts, Attempts
  <1>2. Append(r.outputs, digest) \in DigestSeqs /\ Append(r.completed, stage) \in StageSeqs
    <2>1. r.outputs \in Seq(Digests) /\ r.completed \in Seq(Stages)
      BY DEF Records, DigestSeqs, StageSeqs
    <2> QED BY <2>1 DEF DigestSeqs, StageSeqs
  <1>3. final \in CommitmentSeqs
    BY DEF Records
  <1> HIDE DEF counts, final
  <1>4. r1 \in Records /\ r1.completed = r.completed
    BY <1>1, <1>2 DEF Records
  <1>5. r2 \in Records
    BY <1>2, <1>4 DEF Records
  <1>6. r3 \in Records
    BY <1>3, <1>5 DEF Records
  <1>7. CommittedRecord(r, stage, digest, requested, commitments) = Emit(NoActive(r3))
    BY DEF CommittedRecord, Records, counts, final
  <1> QED BY <1>6, <1>7, NoActiveType, EmitType

LEMMA LoggedType ==
  ASSUME NEW r \in Records, NEW rc \in Receipts, AcceptsReceipt(r, rc)
  PROVE  LoggedReceipt(r, rc) \in Records
  <1> DEFINE started == rc.kind = "stage_started"
             counts == IF started THEN [r.attempts EXCEPT ![rc.stage] = rc.attempt]
                                  ELSE r.attempts
             stage == IF started THEN rc.stage ELSE r.activeStage
             attempt == IF started THEN rc.attempt ELSE r.activeAttempt
             r1 == [r EXCEPT !.receipts = @ \cup {rc}, !.attempts = counts]
             r2 == [r1 EXCEPT !.activeStage = stage, !.activeAttempt = attempt]
  <1>1. counts \in AttemptCounts
    BY DEF Records, AttemptCounts, Receipts
  <1>2. stage \in OptionalStages /\ attempt \in Nat
    BY DEF Records, OptionalStages, Receipts
  <1>3. r.receipts \cup {rc} \in ReceiptSets
    BY DEF Records, ReceiptSets
  <1> HIDE DEF counts, stage, attempt, started
  <1>4. r1 \in Records
    BY <1>1, <1>3 DEF Records
  <1>5. r2 \in Records
    BY <1>2, <1>4 DEF Records
  <1>6. LoggedReceipt(r, rc) = Emit(r2)
    BY DEF LoggedReceipt, counts, stage, attempt, started, Records
  <1> QED BY <1>5, <1>6, EmitType

-----------------------------------------------------------------------------
(* What the coordinator keeps true of a record beyond its validation.        *)

StartsCounted(r) ==
  \A rc \in r.receipts : rc.kind = "stage_started" => rc.attempt <= r.attempts[rc.stage]

StartsOnce(r) ==
  \A a, b \in r.receipts :
    /\ a.kind = "stage_started"
    /\ b.kind = "stage_started"
    /\ a.stage = b.stage
    /\ a.attempt = b.attempt
    => a = b

ActiveIsLatest(r) ==
  r.activeStage # NoStage =>
    /\ r.status \in {"running", "cancel_requested"}
    /\ r.activeStage = NextStage(r)
    /\ r.activeAttempt = r.attempts[r.activeStage]

CompletionsMatch(r) ==
  \A i \in DOMAIN r.completed :
    \A rc \in CompletionReceipts(r, r.completed[i], r.commitments[i].attempt) :
      rc.digest = r.outputs[i]

SoundRecord(r) ==
  /\ CompletedIsPrefix(r)
  /\ ActiveIsIncomplete(r)
  /\ CommitmentsMatch(r)
  /\ \A rc \in r.receipts : WellFormedReceipt(rc)
  /\ StartsCounted(r)
  /\ StartsOnce(r)
  /\ ActiveIsLatest(r)
  /\ CompletionsMatch(r)

LEMMA CompletedRange ==
  ASSUME NEW r \in Records, CompletedIsPrefix(r)
  PROVE  /\ Len(r.completed) \in 0 .. NStages
         /\ DOMAIN r.completed = 1 .. Len(r.completed)
         /\ CompletedStages(r) = 1 .. Len(r.completed)
         /\ IncompleteStages(r) = Len(r.completed) + 1 .. NStages
  <1>1. r.completed \in Seq(Stages)
    BY DEF Records, StageSeqs
  <1>2. Len(r.completed) \in Nat /\ DOMAIN r.completed = 1 .. Len(r.completed)
    BY <1>1
  <1>3. Len(r.completed) <= NStages /\ \A i \in DOMAIN r.completed : r.completed[i] = i
    BY DEF CompletedIsPrefix
  <1>4. CompletedStages(r) = 1 .. Len(r.completed)
    BY <1>2, <1>3 DEF CompletedStages
  <1>5. IncompleteStages(r) = Len(r.completed) + 1 .. NStages
    BY <1>2, <1>3, <1>4, RecordAssumption DEF IncompleteStages, Stages
  <1> QED BY <1>2, <1>3, <1>4, <1>5, RecordAssumption

LEMMA NextStageIs ==
  ASSUME NEW r \in Records, CompletedIsPrefix(r)
  PROVE  NextStage(r) = IF Len(r.completed) < NStages THEN Len(r.completed) + 1 ELSE NoStage
  <1> DEFINE n == Len(r.completed)
  <1>1. n \in 0 .. NStages /\ IncompleteStages(r) = n + 1 .. NStages
    BY CompletedRange
  <1> HIDE DEF n
  <1>2. CASE n < NStages
    <2>1. /\ n + 1 \in IncompleteStages(r)
          /\ \A t \in IncompleteStages(r) : n + 1 <= t
      BY <1>1, <1>2, RecordAssumption
    <2>2. \A s \in IncompleteStages(r) :
            (\A t \in IncompleteStages(r) : s <= t) => s = n + 1
      BY <1>1, <2>1, RecordAssumption
    <2>3. (CHOOSE s \in IncompleteStages(r) : \A t \in IncompleteStages(r) : s <= t) = n + 1
      BY <2>1, <2>2
    <2> QED BY <1>2, <2>1, <2>3 DEF NextStage, n
  <1>3. CASE ~ (n < NStages)
    <2>1. IncompleteStages(r) = {}
      BY <1>1, <1>3, RecordAssumption
    <2> QED BY <1>3, <2>1 DEF NextStage, n
  <1> QED BY <1>2, <1>3

\* A mutation that leaves the ledger, the attempts and the receipts alone.
LEMMA FramedSound ==
  ASSUME NEW r \in Records, NEW s \in Records, SoundRecord(r),
         s.completed = r.completed, s.outputs = r.outputs,
         s.commitments = r.commitments, s.attempts = r.attempts,
         s.receipts = r.receipts,
         \/ s.activeStage = NoStage /\ s.activeAttempt = NoAttempt
         \/ /\ s.activeStage = r.activeStage /\ s.activeAttempt = r.activeAttempt
            /\ \/ s.activeStage = NoStage
               \/ s.status \in {"running", "cancel_requested"}
  PROVE  SoundRecord(s)
  <1>1. CompletedStages(s) = CompletedStages(r) /\ NextStage(s) = NextStage(r)
    BY DEF CompletedStages, IncompleteStages, NextStage
  <1>2. CompletedIsPrefix(s) /\ CommitmentsMatch(s)
    BY DEF SoundRecord, CompletedIsPrefix, CommitmentsMatch
  <1>3. NoStage \notin CompletedStages(s)
    BY <1>2, CompletedRange DEF NoStage
  <1>4. ActiveIsIncomplete(s)
    BY <1>1, <1>3 DEF SoundRecord, ActiveIsIncomplete
  <1>5. StartsCounted(s) /\ StartsOnce(s) /\ \A rc \in s.receipts : WellFormedReceipt(rc)
    BY DEF SoundRecord, StartsCounted, StartsOnce
  <1>6. ActiveIsLatest(s)
    BY <1>1 DEF SoundRecord, ActiveIsLatest
  <1>7. CompletionsMatch(s)
    BY DEF SoundRecord, CompletionsMatch, CompletionReceipts
  <1> QED BY <1>2, <1>4, <1>5, <1>6, <1>7 DEF SoundRecord

LEMMA LoggedFields ==
  ASSUME NEW r \in Records, NEW rc \in Receipts
  PROVE  LET s == LoggedReceipt(r, rc)
             started == rc.kind = "stage_started"
         IN  /\ s.completed = r.completed /\ s.outputs = r.outputs
             /\ s.commitments = r.commitments /\ s.status = r.status
             /\ s.final = r.final
             /\ s.receipts = r.receipts \cup {rc}
             /\ started => /\ s.attempts = [r.attempts EXCEPT ![rc.stage] = rc.attempt]
                           /\ s.activeStage = rc.stage
                           /\ s.activeAttempt = rc.attempt
             /\ ~ started => /\ s.attempts = r.attempts
                             /\ s.activeStage = r.activeStage
                             /\ s.activeAttempt = r.activeAttempt
  BY DEF LoggedReceipt, Emit, Records

\* A started attempt is a new one, and a completion receipt is about a stage
\* that is not completed yet.
LEMMA LoggedSound ==
  ASSUME NEW r \in Records, NEW rc \in Receipts, SoundRecord(r),
         r.status \in {"running", "cancel_requested"},
         AcceptsReceipt(r, rc)
  PROVE  SoundRecord(LoggedReceipt(r, rc))
  <1> DEFINE s == LoggedReceipt(r, rc)
             started == rc.kind = "stage_started"
  <1>1. /\ s.completed = r.completed /\ s.outputs = r.outputs
        /\ s.commitments = r.commitments /\ s.status = r.status
        /\ s.receipts = r.receipts \cup {rc}
        /\ started => /\ s.attempts = [r.attempts EXCEPT ![rc.stage] = rc.attempt]
                      /\ s.activeStage = rc.stage
                      /\ s.activeAttempt = rc.attempt
        /\ ~ started => /\ s.attempts = r.attempts
                        /\ s.activeStage = r.activeStage
                        /\ s.activeAttempt = r.activeAttempt
    BY LoggedFields
  <1>2. s \in Records
    BY LoggedType
  <1> HIDE DEF s
  <1>3. CompletedStages(s) = CompletedStages(r) /\ NextStage(s) = NextStage(r)
    BY <1>1 DEF CompletedStages, IncompleteStages, NextStage
  <1>4. CompletedIsPrefix(s)
    BY <1>1 DEF SoundRecord, CompletedIsPrefix
  <1>5. /\ r.attempts \in [Stages -> Nat] /\ s.attempts \in [Stages -> Nat]
        /\ r.receipts \subseteq Receipts
        /\ r.completed \in Seq(Stages)
    BY <1>2 DEF Records, AttemptCounts, ReceiptSets, StageSeqs
  <1>6. ASSUME started
        PROVE  /\ rc.stage \in Stages /\ rc.stage = NextStage(r)
               /\ rc.attempt = r.attempts[rc.stage] + 1 /\ rc.attempt \in Nat
               /\ rc.stage \notin CompletedStages(r)
    <2>1. rc.stage # NoStage /\ rc.stage = NextStage(r) /\ rc.attempt = r.attempts[rc.stage] + 1
      BY <1>6 DEF AcceptsReceipt, AcceptsStart
    <2>2. rc.stage \in Stages /\ rc.attempt \in Nat
      BY <2>1 DEF Receipts
    <2>3. NextStage(r) = IF Len(r.completed) < NStages THEN Len(r.completed) + 1 ELSE NoStage
      BY NextStageIs DEF SoundRecord
    <2>4. CompletedStages(r) = 1 .. Len(r.completed) /\ Len(r.completed) \in 0 .. NStages
      BY CompletedRange DEF SoundRecord
    <2> QED BY <2>1, <2>2, <2>3, <2>4
  <1>7. WellFormedReceipt(rc)
    BY DEF AcceptsReceipt
  <1>8. ActiveIsIncomplete(s)
    <2>1. CASE started
      BY <1>1, <1>3, <1>6, <2>1 DEF ActiveIsIncomplete, Stages, NoStage
    <2>2. CASE ~ started
      BY <1>1, <1>3, <2>2 DEF ActiveIsIncomplete, SoundRecord
    <2> QED BY <2>1, <2>2
  <1>9. CommitmentsMatch(s)
    <2>1. \A i \in DOMAIN r.completed : s.attempts[r.completed[i]] = r.attempts[r.completed[i]]
      <3>1. CASE started
        BY <1>1, <1>5, <1>6, <3>1 DEF CompletedStages
      <3>2. CASE ~ started
        BY <1>1, <3>2
      <3> QED BY <3>1, <3>2
    <2>2. /\ Len(r.outputs) = Len(r.completed)
          /\ Len(r.commitments) = Len(r.completed)
          /\ \A i \in DOMAIN r.completed :
               r.commitments[i] = [stage |-> r.completed[i],
                                   attempt |-> r.attempts[r.completed[i]],
                                   digest |-> r.outputs[i]]
      BY DEF SoundRecord, CommitmentsMatch
    <2>3. \A i \in DOMAIN r.completed :
            r.commitments[i] = [stage |-> r.completed[i],
                                attempt |-> s.attempts[r.completed[i]],
                                digest |-> r.outputs[i]]
      BY <2>1, <2>2
    <2> QED BY <1>1, <2>2, <2>3, Zenon DEF CommitmentsMatch
  <1>10. \A x \in s.receipts : WellFormedReceipt(x)
    BY <1>1, <1>7 DEF SoundRecord
  <1>11. \A x \in r.receipts : x.kind = "stage_started" =>
           /\ x.stage \in Stages /\ x.attempt \in Nat /\ x.attempt <= r.attempts[x.stage]
    BY <1>5 DEF SoundRecord, StartsCounted, WellFormedReceipt, Receipts
  <1>12. StartsCounted(s)
    <2>1. CASE started
      BY <1>1, <1>5, <1>6, <1>11, <2>1 DEF StartsCounted
    <2>2. CASE ~ started
      BY <1>1, <1>11, <2>2 DEF StartsCounted
    <2> QED BY <2>1, <2>2
  <1>13. StartsOnce(s)
    <2>1. ASSUME NEW x \in r.receipts, x.kind = "stage_started", started
          PROVE  ~ (x.stage = rc.stage /\ x.attempt = rc.attempt)
      BY <1>5, <1>6, <1>11, <2>1
    <2> QED BY <1>1, <2>1 DEF SoundRecord, StartsOnce
  <1>14. ActiveIsLatest(s)
    <2>1. CASE started
      BY <1>1, <1>3, <1>5, <1>6, <2>1 DEF ActiveIsLatest
    <2>2. CASE ~ started
      BY <1>1, <1>3, <2>2 DEF ActiveIsLatest, SoundRecord
    <2> QED BY <2>1, <2>2
  <1>15. CompletionsMatch(s)
    <2> SUFFICES ASSUME NEW i \in DOMAIN s.completed,
                        NEW x \in CompletionReceipts(s, s.completed[i], s.commitments[i].attempt)
                 PROVE  x.digest = s.outputs[i]
      BY DEF CompletionsMatch
    <2>1. x \in s.receipts /\ x.kind = "stage_completed" /\ x.stage = s.completed[i]
      BY DEF CompletionReceipts
    <2>2. CASE x \in r.receipts
      BY <1>1, <2>2 DEF SoundRecord, CompletionsMatch, CompletionReceipts
    <2>3. CASE x = rc
      <3>1. rc.stage \in {NoStage, r.activeStage} /\ rc.stage # NoStage
        BY <1>7, <2>1, <2>3 DEF AcceptsReceipt, WellFormedReceipt
      <3>2. rc.stage \notin CompletedStages(r)
        BY <3>1 DEF SoundRecord, ActiveIsIncomplete
      <3>3. rc.stage \in CompletedStages(r)
        BY <1>1, <2>1, <2>3 DEF CompletedStages
      <3> QED BY <3>2, <3>3
    <2> QED BY <1>1, <2>1, <2>2, <2>3
  <1>16. SoundRecord(s)
    BY <1>4, <1>8, <1>9, <1>10, <1>12, <1>13, <1>14, <1>15 DEF SoundRecord
  <1> QED BY <1>16 DEF s

LEMMA CommittedFields ==
  ASSUME NEW r \in Records, NEW stage \in Stages, NEW digest \in Digests,
         NEW requested \in Nat, NEW commitments \in CommitmentSeqs
  PROVE  LET s == CommittedRecord(r, stage, digest, requested, commitments)
         IN  /\ s.completed = Append(r.completed, stage)
             /\ s.outputs = Append(r.outputs, digest)
             /\ s.commitments = commitments
             /\ s.receipts = r.receipts
             /\ s.status = r.status
             /\ s.activeStage = NoStage /\ s.activeAttempt = NoAttempt
  BY DEF CommittedRecord, NoActive, Emit, Records

LEMMA CommittedAttempts ==
  ASSUME NEW r \in Records, NEW stage \in Stages, NEW digest \in Digests,
         NEW requested \in Nat, NEW commitments \in CommitmentSeqs
  PROVE  LET a == CommittedAttempt(r, stage, requested)
         IN  CommittedRecord(r, stage, digest, requested, commitments).attempts
               = [r.attempts EXCEPT ![stage] =
                   IF a > r.attempts[stage] THEN a ELSE r.attempts[stage]]
  BY DEF CommittedRecord, NoActive, Emit, Records

\* The list of commitments comes from an earlier read, yet validation lets it
\* through only if it extends the ledger by the stage that is next.
LEMMA CommittedLedger ==
  ASSUME NEW r \in Records, NEW stage \in Stages, NEW digest \in Digests,
         NEW requested \in Nat, NEW commitments \in CommitmentSeqs,
         SoundRecord(r), stage = NextStage(r),
         CommitmentsMatch(CommittedRecord(r, stage, digest, requested, commitments))
  PROVE  LET s == CommittedRecord(r, stage, digest, requested, commitments)
             n == Len(r.completed)
         IN  /\ n \in Nat /\ stage = n + 1 /\ n < NStages
             /\ s.completed \in Seq(Stages) /\ Len(s.completed) = n + 1
             /\ \A i \in 1 .. n : s.completed[i] = r.completed[i] /\ r.completed[i] = i
             /\ s.completed[n + 1] = stage
             /\ \A i \in 1 .. n : s.attempts[i] = r.attempts[i]
             /\ \A i \in 1 .. n : s.outputs[i] = r.outputs[i]
             /\ s.outputs[n + 1] = digest
             /\ Len(r.commitments) = n /\ Len(commitments) = n + 1
             /\ \A i \in 1 .. n : commitments[i] = r.commitments[i]
             /\ commitments[n + 1] = [stage |-> stage, attempt |-> s.attempts[stage],
                                      digest |-> digest]
  <1> DEFINE s == CommittedRecord(r, stage, digest, requested, commitments)
             n == Len(r.completed)
  <1>1. /\ s.completed = Append(r.completed, stage)
        /\ s.outputs = Append(r.outputs, digest)
        /\ s.commitments = commitments
        /\ \A t \in Stages : t # stage => s.attempts[t] = r.attempts[t]
    <2> DEFINE a == CommittedAttempt(r, stage, requested)
    <2>1. /\ s.completed = Append(r.completed, stage)
          /\ s.outputs = Append(r.outputs, digest)
          /\ s.commitments = commitments
          /\ s.attempts = [r.attempts EXCEPT ![stage] =
                             IF a > r.attempts[stage] THEN a ELSE r.attempts[stage]]
      BY CommittedFields, CommittedAttempts
    <2>2. r.attempts \in [Stages -> Nat]
      BY DEF Records, AttemptCounts
    <2> HIDE DEF s, a
    <2> QED BY <2>1, <2>2
  <1>2. CommitmentsMatch(s)
    OBVIOUS
  <1> HIDE DEF s
  <1>3. r.completed \in Seq(Stages) /\ r.outputs \in Seq(Digests)
    BY DEF Records, StageSeqs, DigestSeqs
  <1>4. n \in Nat /\ stage = n + 1 /\ n < NStages
    BY CompletedRange, NextStageIs, RecordAssumption DEF SoundRecord, Stages, NoStage
  <1>5. /\ Len(r.outputs) = n /\ Len(r.commitments) = n
        /\ \A i \in 1 .. n : r.completed[i] = i
        /\ \A i \in 1 .. n :
             r.commitments[i] = [stage |-> r.completed[i],
                                 attempt |-> r.attempts[r.completed[i]],
                                 digest |-> r.outputs[i]]
    BY CompletedRange DEF SoundRecord, CommitmentsMatch, CompletedIsPrefix
  <1> HIDE DEF n
  <1>6. /\ s.completed \in Seq(Stages) /\ Len(s.completed) = n + 1
        /\ \A i \in 1 .. n : s.completed[i] = r.completed[i]
        /\ s.completed[n + 1] = stage
    BY <1>1, <1>3, <1>4 DEF n
  <1>7. /\ \A i \in 1 .. n : s.outputs[i] = r.outputs[i]
        /\ s.outputs[n + 1] = digest
    BY <1>1, <1>3, <1>4, <1>5
  <1>8. \A i \in 1 .. n : i \in Stages /\ i # stage
    BY <1>4, RecordAssumption DEF Stages
  <1>9. \A i \in 1 .. n : s.attempts[i] = r.attempts[i]
    BY <1>1, <1>8
  <1>10. /\ Len(commitments) = n + 1
         /\ \A i \in 1 .. n + 1 :
              commitments[i] = [stage |-> s.completed[i],
                                attempt |-> s.attempts[s.completed[i]],
                                digest |-> s.outputs[i]]
    <2>1. DOMAIN s.completed = 1 .. n + 1
      BY <1>6, <1>4
    <2>2. /\ Len(s.commitments) = Len(s.completed)
          /\ \A i \in DOMAIN s.completed :
               s.commitments[i] = [stage |-> s.completed[i],
                                   attempt |-> s.attempts[s.completed[i]],
                                   digest |-> s.outputs[i]]
      BY <1>2 DEF CommitmentsMatch
    <2> QED BY <1>1, <1>6, <2>1, <2>2
  <1>11. \A i \in 1 .. n : commitments[i] = r.commitments[i]
    <2> SUFFICES ASSUME NEW i \in 1 .. n PROVE commitments[i] = r.commitments[i]
      OBVIOUS
    <2>1. s.completed[i] = i /\ r.completed[i] = i /\ i \in 1 .. n + 1
      BY <1>4, <1>5, <1>6
    <2> QED BY <1>5, <1>7, <1>9, <1>10, <2>1
  <1>12. commitments[n + 1] = [stage |-> stage, attempt |-> s.attempts[stage],
                              digest |-> digest]
    BY <1>4, <1>6, <1>7, <1>10
  <1> QED BY <1>4, <1>5, <1>6, <1>7, <1>9, <1>10, <1>11, <1>12 DEF s, n

\* A commit for an attempt older than the latest one cannot pass: its
\* commitment would have to name the latest.  So the attempt whose completion
\* receipts were compared is the one the commitment names.
LEMMA CommittedAttemptIsBound ==
  ASSUME NEW r \in Records, NEW stage \in Stages, NEW digest \in Digests,
         NEW requested \in Nat, NEW commitments \in CommitmentSeqs,
         SoundRecord(r), CanCommit(r, stage, digest, requested),
         CommitmentsMatch(CommittedRecord(r, stage, digest, requested, commitments)),
         requested # NoAttempt =>
           Len(commitments) > 0 /\ commitments[Len(commitments)].attempt = requested
  PROVE  CommittedRecord(r, stage, digest, requested, commitments).attempts[stage]
           = CommittedAttempt(r, stage, requested)
  <1> DEFINE s == CommittedRecord(r, stage, digest, requested, commitments)
             a == CommittedAttempt(r, stage, requested)
             n == Len(r.completed)
  <1>1. r.attempts \in [Stages -> Nat] /\ a \in Nat
    BY AttemptType DEF Records, AttemptCounts, Attempts
  <1>2. s.attempts[stage] = IF a > r.attempts[stage] THEN a ELSE r.attempts[stage]
    <2>1. s.attempts = [r.attempts EXCEPT ![stage] =
                         IF a > r.attempts[stage] THEN a ELSE r.attempts[stage]]
      BY CommittedAttempts
    <2> HIDE DEF s, a
    <2> QED BY <1>1, <2>1
  <1>3. /\ n \in Nat /\ Len(commitments) = n + 1
        /\ commitments[n + 1].attempt = s.attempts[stage]
    <2>1. /\ n \in Nat /\ Len(commitments) = n + 1
          /\ commitments[n + 1] = [stage |-> stage, attempt |-> s.attempts[stage],
                                   digest |-> digest]
      BY CommittedLedger DEF CanCommit
    <2> HIDE DEF s, n
    <2> QED BY <2>1
  <1>4. CASE requested # NoAttempt
    <2>1. a = requested
      BY <1>4 DEF CommittedAttempt
    <2>2. commitments[n + 1].attempt = requested
      BY <1>3, <1>4
    <2> QED BY <1>3, <2>1, <2>2
  <1>5. CASE requested = NoAttempt /\ r.activeAttempt # NoAttempt
    <2>1. a = r.activeAttempt
      BY <1>5 DEF CommittedAttempt
    <2>2. r.activeStage = stage
      BY <1>5 DEF CanCommit, SoundRecord, ActiveIsIncomplete
    <2>3. r.activeAttempt = r.attempts[stage]
      BY <2>2 DEF SoundRecord, ActiveIsLatest, Stages, NoStage
    <2> QED BY <1>1, <1>2, <2>1, <2>3
  <1>6. CASE requested = NoAttempt /\ r.activeAttempt = NoAttempt
    <2>1. a = r.attempts[stage] + 1
      BY <1>6 DEF CommittedAttempt
    <2> QED BY <1>1, <1>2, <2>1
  <1> QED BY <1>4, <1>5, <1>6

LEMMA CommittedSound ==
  ASSUME NEW r \in Records, NEW stage \in Stages, NEW digest \in Digests,
         NEW requested \in Nat, NEW commitments \in CommitmentSeqs,
         SoundRecord(r), CanCommit(r, stage, digest, requested),
         ValidRecord(CommittedRecord(r, stage, digest, requested, commitments)),
         requested # NoAttempt =>
           Len(commitments) > 0 /\ commitments[Len(commitments)].attempt = requested
  PROVE  SoundRecord(CommittedRecord(r, stage, digest, requested, commitments))
  <1> DEFINE s == CommittedRecord(r, stage, digest, requested, commitments)
             a == CommittedAttempt(r, stage, requested)
             n == Len(r.completed)
  <1>1. CompletedIsPrefix(s) /\ ActiveIsIncomplete(s) /\ CommitmentsMatch(s)
    BY DEF ValidRecord
  <1>2. /\ s.receipts = r.receipts
        /\ s.activeStage = NoStage /\ s.commitments = commitments
    BY DEF CommittedRecord, NoActive, Emit, Records
  <1>3. r.attempts \in [Stages -> Nat] /\ a \in Nat /\ r.receipts \subseteq Receipts
    BY AttemptType DEF Records, AttemptCounts, Attempts, ReceiptSets
  <1>4. \A t \in Stages : s.attempts[t] \in Nat /\ r.attempts[t] <= s.attempts[t]
    <2>1. s.attempts = [r.attempts EXCEPT ![stage] =
                         IF a > r.attempts[stage] THEN a ELSE r.attempts[stage]]
      BY CommittedAttempts
    <2> HIDE DEF s, a
    <2> QED BY <1>3, <2>1
  <1>5. s.attempts[stage] = a
    BY <1>1, CommittedAttemptIsBound
  <1>6. /\ n \in Nat /\ stage = n + 1
        /\ s.completed \in Seq(Stages) /\ Len(s.completed) = n + 1
        /\ \A i \in 1 .. n : s.completed[i] = r.completed[i]
        /\ s.completed[n + 1] = stage
        /\ \A i \in 1 .. n : s.outputs[i] = r.outputs[i]
        /\ s.outputs[n + 1] = digest
        /\ \A i \in 1 .. n : commitments[i] = r.commitments[i]
        /\ commitments[n + 1] = [stage |-> stage, attempt |-> s.attempts[stage],
                                 digest |-> digest]
    <2>1. stage = NextStage(r)
      BY DEF CanCommit
    <2>2. CommitmentsMatch(CommittedRecord(r, stage, digest, requested, commitments))
      BY <1>1
    <2> QED BY <2>1, <2>2, CommittedLedger
  <1>7. DOMAIN r.completed = 1 .. n
    BY CompletedRange DEF SoundRecord
  <1>8. \A rc \in CompletionReceipts(r, stage, a) : rc.digest = digest
    BY DEF CanCommit
  <1> HIDE DEF s, a, n
  <1>9. \A rc \in s.receipts : WellFormedReceipt(rc)
    BY <1>2 DEF SoundRecord
  <1>10. StartsCounted(s)
    <2> SUFFICES ASSUME NEW rc \in r.receipts, rc.kind = "stage_started"
                 PROVE  rc.attempt <= s.attempts[rc.stage]
      BY <1>2 DEF StartsCounted
    <2>1. rc.stage \in Stages /\ rc.attempt \in Nat
      BY <1>3 DEF SoundRecord, WellFormedReceipt, Receipts
    <2>2. rc.attempt <= r.attempts[rc.stage]
      BY DEF SoundRecord, StartsCounted
    <2> QED BY <1>3, <1>4, <2>1, <2>2
  <1>11. StartsOnce(s)
    BY <1>2 DEF SoundRecord, StartsOnce
  <1>12. ActiveIsLatest(s)
    BY <1>2 DEF ActiveIsLatest
  <1>13. CompletionsMatch(s)
    <2> SUFFICES ASSUME NEW i \in 1 .. n + 1,
                        NEW rc \in CompletionReceipts(r, s.completed[i], commitments[i].attempt)
                 PROVE  rc.digest = s.outputs[i]
      BY <1>2, <1>6 DEF CompletionsMatch, CompletionReceipts
    <2>1. CASE i \in 1 .. n
      <3>1. /\ s.completed[i] = r.completed[i] /\ s.outputs[i] = r.outputs[i]
            /\ commitments[i] = r.commitments[i] /\ i \in DOMAIN r.completed
        BY <1>6, <1>7, <2>1
      <3> QED BY <3>1 DEF SoundRecord, CompletionsMatch
    <2>2. CASE i = n + 1
      <3>1. commitments[i].attempt = a /\ s.completed[i] = stage /\ s.outputs[i] = digest
        BY <1>5, <1>6, <2>2
      <3> QED BY <1>8, <3>1
    <2> QED BY <1>6, <2>1, <2>2
  <1>14. SoundRecord(s)
    BY <1>1, <1>9, <1>10, <1>11, <1>12, <1>13 DEF SoundRecord
  <1> QED BY <1>14 DEF s

-----------------------------------------------------------------------------
(* The mutations that only move the status, and the empty record.            *)

LEMMA AbsentSound == SoundRecord(AbsentRecord)
  <1>1. /\ AbsentRecord.completed = <<>> /\ AbsentRecord.outputs = <<>>
        /\ AbsentRecord.commitments = <<>> /\ AbsentRecord.receipts = {}
        /\ AbsentRecord.activeStage = NoStage /\ AbsentRecord.activeAttempt = NoAttempt
    BY DEF AbsentRecord
  <1>2. Len(<<>>) = 0 /\ DOMAIN <<>> = {}
    OBVIOUS
  <1>3. CompletedIsPrefix(AbsentRecord) /\ CommitmentsMatch(AbsentRecord)
    BY <1>1, <1>2, RecordAssumption DEF CompletedIsPrefix, CommitmentsMatch
  <1>4. ActiveIsIncomplete(AbsentRecord)
    BY <1>1, <1>2 DEF ActiveIsIncomplete, CompletedStages
  <1>5. StartsCounted(AbsentRecord) /\ StartsOnce(AbsentRecord) /\ ActiveIsLatest(AbsentRecord)
    BY <1>1 DEF StartsCounted, StartsOnce, ActiveIsLatest
  <1>6. CompletionsMatch(AbsentRecord)
    BY <1>1, <1>2 DEF CompletionsMatch
  <1>7. \A rc \in AbsentRecord.receipts : WellFormedReceipt(rc)
    BY <1>1
  <1> QED BY <1>3, <1>4, <1>5, <1>6, <1>7 DEF SoundRecord

LEMMA PreparedSound ==
  ASSUME NEW memory \in MemoryFlags
  PROVE  SoundRecord(PreparedRecord(memory))
  <1> DEFINE s == PreparedRecord(memory)
  <1>1. AbsentRecord \in Records /\ s \in Records /\ SoundRecord(AbsentRecord)
    BY AbsentType, PreparedType, AbsentSound
  <1>2. /\ s.completed = AbsentRecord.completed /\ s.outputs = AbsentRecord.outputs
        /\ s.commitments = AbsentRecord.commitments /\ s.attempts = AbsentRecord.attempts
        /\ s.receipts = AbsentRecord.receipts
        /\ s.activeStage = NoStage /\ s.activeAttempt = NoAttempt
    BY DEF PreparedRecord, Emit, AbsentRecord
  <1> HIDE DEF s
  <1>3. SoundRecord(s)
    BY <1>1, <1>2, FramedSound
  <1> QED BY <1>3 DEF s

LEMMA MovedToSound ==
  ASSUME NEW r \in Records, NEW target \in Statuses, SoundRecord(r)
  PROVE  SoundRecord(MovedTo(r, target))
  <1> DEFINE s == MovedTo(r, target)
  <1>1. s \in Records
    BY MovedToType
  <1>2. /\ s.completed = r.completed /\ s.outputs = r.outputs
        /\ s.commitments = r.commitments /\ s.attempts = r.attempts
        /\ s.receipts = r.receipts
        /\ s.activeStage = NoStage /\ s.activeAttempt = NoAttempt
    BY DEF MovedTo, NoActive, Emit, Records
  <1> HIDE DEF s
  <1>3. SoundRecord(s)
    BY <1>1, <1>2, FramedSound
  <1> QED BY <1>3 DEF s

\* A mutation that keeps the active stage too, in a status that may have one.
LEMMA KeptSound ==
  ASSUME NEW r \in Records, NEW s \in Records, SoundRecord(r),
         s.completed = r.completed, s.outputs = r.outputs,
         s.commitments = r.commitments, s.attempts = r.attempts,
         s.receipts = r.receipts,
         s.activeStage = r.activeStage, s.activeAttempt = r.activeAttempt,
         \/ s.status = r.status
         \/ s.status \in {"running", "cancel_requested"}
         \/ s.activeStage = NoStage
  PROVE  SoundRecord(s)
  <1>1. s.activeStage = NoStage \/ s.status \in {"running", "cancel_requested"}
    BY DEF SoundRecord, ActiveIsLatest
  <1> QED BY <1>1, FramedSound

LEMMA StartedSound ==
  ASSUME NEW r \in Records, SoundRecord(r)
  PROVE  SoundRecord(StartedRecord(r)) /\ SoundRecord(CancelRequestedRecord(r))
  <1> DEFINE s == StartedRecord(r)
             t == CancelRequestedRecord(r)
  <1>1. s \in Records /\ t \in Records
    BY StartedType, CancelRequestedType
  <1>2. /\ s.completed = r.completed /\ s.outputs = r.outputs
        /\ s.commitments = r.commitments /\ s.attempts = r.attempts
        /\ s.receipts = r.receipts /\ s.status = "running"
        /\ s.activeStage = r.activeStage /\ s.activeAttempt = r.activeAttempt
    BY DEF StartedRecord, Emit, Records
  <1>3. /\ t.completed = r.completed /\ t.outputs = r.outputs
        /\ t.commitments = r.commitments /\ t.attempts = r.attempts
        /\ t.receipts = r.receipts /\ t.status = "cancel_requested"
        /\ t.activeStage = r.activeStage /\ t.activeAttempt = r.activeAttempt
    BY DEF CancelRequestedRecord, Emit, Records
  <1> HIDE DEF s, t
  <1>4. SoundRecord(s) /\ SoundRecord(t)
    BY <1>1, <1>2, <1>3, KeptSound
  <1> QED BY <1>4 DEF s, t

LEMMA MemorySound ==
  ASSUME NEW r \in Records, SoundRecord(r)
  PROVE  SoundRecord(MemoryStagedRecord(r)) /\ SoundRecord(MemoryWrittenRecord(r))
  <1> DEFINE s == MemoryStagedRecord(r)
             t == MemoryWrittenRecord(r)
  <1>1. s \in Records /\ t \in Records
    BY MemoryType
  <1>2. /\ s.completed = r.completed /\ s.outputs = r.outputs
        /\ s.commitments = r.commitments /\ s.attempts = r.attempts
        /\ s.receipts = r.receipts /\ s.status = r.status
        /\ s.activeStage = r.activeStage /\ s.activeAttempt = r.activeAttempt
    BY DEF MemoryStagedRecord, Emit, Records
  <1>3. /\ t.completed = r.completed /\ t.outputs = r.outputs
        /\ t.commitments = r.commitments /\ t.attempts = r.attempts
        /\ t.receipts = r.receipts /\ t.status = r.status
        /\ t.activeStage = r.activeStage /\ t.activeAttempt = r.activeAttempt
    BY DEF MemoryWrittenRecord, Records
  <1> HIDE DEF s, t
  <1>4. SoundRecord(s) /\ SoundRecord(t)
    BY <1>1, <1>2, <1>3, KeptSound
  <1> QED BY <1>4 DEF s, t

\* Validation lets a sealed record have no active stage.
LEMMA SealedSound ==
  ASSUME NEW r \in Records, SoundRecord(r)
  PROVE  /\ ValidRecord(FinalizingRecord(r)) => SoundRecord(FinalizingRecord(r))
         /\ ValidRecord(CompletedRecord(r)) => SoundRecord(CompletedRecord(r))
  <1> DEFINE s == FinalizingRecord(r)
             t == CompletedRecord(r)
  <1>1. s \in Records /\ t \in Records
    BY FinalizingType, CompletedType
  <1>2. /\ s.completed = r.completed /\ s.outputs = r.outputs
        /\ s.commitments = r.commitments /\ s.attempts = r.attempts
        /\ s.receipts = r.receipts /\ s.status = "finalizing"
        /\ s.activeStage = r.activeStage /\ s.activeAttempt = r.activeAttempt
    BY DEF FinalizingRecord, Emit, Records
  <1>3. /\ t.completed = r.completed /\ t.outputs = r.outputs
        /\ t.commitments = r.commitments /\ t.attempts = r.attempts
        /\ t.receipts = r.receipts /\ t.status = "completed"
        /\ t.activeStage = r.activeStage /\ t.activeAttempt = r.activeAttempt
    BY DEF CompletedRecord, Emit, Records
  <1> HIDE DEF s, t
  <1>4. ValidRecord(s) => s.activeStage = NoStage
    BY <1>2 DEF ValidRecord, StatusSupported
  <1>5. ValidRecord(t) => t.activeStage = NoStage
    BY <1>3 DEF ValidRecord, StatusSupported
  <1>6. ValidRecord(s) => SoundRecord(s)
    BY <1>1, <1>2, <1>4, KeptSound
  <1>7. ValidRecord(t) => SoundRecord(t)
    BY <1>1, <1>3, <1>5, KeptSound
  <1> QED BY <1>6, <1>7 DEF s, t

LEMMA RevisedSound ==
  ASSUME NEW r \in Records, NEW n \in Nat, SoundRecord(r)
  PROVE  SoundRecord(Revised(r, n))
  <1> DEFINE s == Revised(r, n)
  <1>1. s \in Records
    BY RevisedType
  <1>2. /\ s.completed = r.completed /\ s.outputs = r.outputs
        /\ s.commitments = r.commitments /\ s.attempts = r.attempts
        /\ s.receipts = r.receipts /\ s.status = r.status
        /\ s.activeStage = r.activeStage /\ s.activeAttempt = r.activeAttempt
    BY DEF Revised, Records
  <1> HIDE DEF s
  <1>3. SoundRecord(s)
    BY <1>1, <1>2, KeptSound
  <1> QED BY <1>3 DEF s

===============================================================================
