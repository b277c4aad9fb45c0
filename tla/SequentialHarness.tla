--------------------------- MODULE SequentialHarness ---------------------------
(***************************************************************************)
(* run_sequential_company_lifecycle (harness.py): create or pick up a run, *)
(* execute and commit stage after stage, finalize.  Every call of the      *)
(* coordinator is that of RunControl.  next_stage reads the record twice:  *)
(* once for the stage, the attempt and the context, and again for the      *)
(* revision that the harness will name in its commit.                      *)
(*                                                                         *)
(* An executor is silent while it executes; its receipts are those of the  *)
(* other callers.  What it returns is any envelope that validates.         *)
(***************************************************************************)
EXTENDS RunControl

CONSTANTS
  Keeper,            \* the harness that is run again whenever it raised
  MaxInterruptions   \* bound: deaths, other callers and other harnesses

ASSUME HarnessAssumption == Keeper \in Callers /\ MaxInterruptions \in Nat

VARIABLES
  harness,         \* what each harness is doing, and what it holds
  contexts,        \* history: the outputs each committed stage was executed on
  interruptions

harnessVars == <<record, call, harness, contexts, interruptions>>

Outside == [at |-> "idle", revision |-> 0, stage |-> NoStage, attempt |-> NoAttempt,
            context |-> <<>>]

At(h, step) == harness[h].at = step
Goto(h, step) == harness' = [harness EXCEPT ![h].at = step]

HarnessInit ==
  /\ Init
  /\ harness = [h \in Callers |-> Outside]
  /\ contexts = <<>>
  /\ interruptions = 0

Raise(h) ==
  /\ harness' = [harness EXCEPT ![h] = Outside]
  /\ call' = [call EXCEPT ![h] = Idle]
  /\ UNCHANGED <<record, contexts, interruptions>>

\* A completion receipt for an attempt nobody started yet: the harness will
\* name just that attempt, and its output may differ.
Contradicted ==
  LET stage == NextStage(record)
  IN  /\ stage # NoStage
      /\ CompletionReceipts(record, stage, record.attempts[stage] + 1) # {}

-----------------------------------------------------------------------------
(* Creating or picking up a run                                              *)

\* A harness without a run identifier; nobody else knows the run before.
CreateRun(h) ==
  /\ At(h, "idle")
  /\ \E memory \in {{}, {"enabled"}} : Insert(PreparedRecord(memory))
  /\ harness' = [harness EXCEPT ![h].at = "start", ![h].revision = record'.revision]
  /\ UNCHANGED <<call, contexts, interruptions>>

\* Variant with a fault: a run that is being finalized is not picked up.
FinalizableCompleted == {"completed"}

Finalizable == {"finalizing", "completed"}

PicksUp(status) ==
  CASE status = "prepared" -> "start"
    [] status \in {"running", "paused"} -> "resume"
    [] status \in Finalizable -> "finalize"
    [] OTHER -> "refused"

\* A status that is refused makes the harness raise, which changes nothing.
\* The harness of another process is run a bounded number of times, and so is
\* the keeper while a receipt contradicts it, for every try revises the record.
PickUp(h) ==
  /\ At(h, "idle") /\ record.status # "absent"
  /\ PicksUp(record.status) # "refused"
  /\ harness' = [harness EXCEPT ![h].at = PicksUp(record.status), ![h].revision = record.revision]
  /\ LET counts == h # Keeper \/ Contradicted
     IN  /\ counts => interruptions < MaxInterruptions
         /\ interruptions' = IF counts THEN interruptions + 1 ELSE interruptions
  /\ UNCHANGED <<record, call, contexts>>

Current(h) == harness[h].revision = record.revision

Enter(h, step, accepted, new) ==
  /\ At(h, step)
  /\ IF Current(h) /\ accepted
       THEN /\ Update(harness[h].revision, new)
            /\ Goto(h, "look")
            /\ UNCHANGED <<call, contexts, interruptions>>
       ELSE Raise(h)

StartRun(h) == Enter(h, "start", record.status = "prepared", StartedRecord(record))
ResumeRun(h) == Enter(h, "resume", CanResume(record), ResumedRecord(record))

-----------------------------------------------------------------------------
(* next_stage: the two reads                                                 *)

\* Variant with a fault: the context is that of the first stage executed.
FirstContext(h) == IF harness[h].stage = NoStage THEN record.outputs ELSE harness[h].context

Context(h) == record.outputs

ReadStage(h) ==
  /\ At(h, "look")
  /\ IF record.status \in {"running", "paused"}
       THEN /\ harness' = [harness EXCEPT
                 ![h].at = "control",
                 ![h].stage = NextStage(record),
                 ![h].attempt = IF NextStage(record) = NoStage THEN NoAttempt
                                ELSE record.attempts[NextStage(record)] + 1,
                 ![h].context = Context(h)]
            /\ UNCHANGED <<record, call, contexts, interruptions>>
       ELSE Raise(h)

ReadControl(h) ==
  /\ At(h, "control")
  /\ harness' = [harness EXCEPT
       ![h].at = IF harness[h].stage = NoStage THEN "finalize" ELSE "execute",
       ![h].revision = record.revision]
  /\ UNCHANGED <<record, call, contexts, interruptions>>

-----------------------------------------------------------------------------
(* Executing and committing a stage, and finalizing                          *)

Execute(h) ==
  /\ At(h, "execute")
  /\ \E digest \in Digests :
       ReadForCommit(h, harness[h].revision, harness[h].stage, digest, harness[h].attempt)
  /\ Goto(h, "commit")
  /\ UNCHANGED <<contexts, interruptions>>

Commit(h) ==
  /\ At(h, "commit")
  /\ IF ENABLED CommitStage(h)
       THEN /\ CommitStage(h)
            /\ contexts' = Append(contexts, harness[h].context)
            /\ Goto(h, "look")
            /\ UNCHANGED interruptions
       ELSE Raise(h)

FinalizeRun(h) ==
  /\ At(h, "finalize")
  /\ IF Current(h) /\ CanFinalize(record)
       THEN /\ ReadForFinalize(h)
            /\ Goto(h, "publish")
            /\ UNCHANGED <<contexts, interruptions>>
       ELSE Raise(h)

\* The updates of the saga; what it does to the other stores is the subject
\* of PublicationSaga.
Publish(h) ==
  /\ At(h, "publish")
  /\ BeginFinalizing(h) \/ RetainMemoryStage(h) \/ Complete(h) \/ RetainMemoryWrite(h)
  /\ UNCHANGED <<harness, contexts, interruptions>>

Published(r) == r.status = "completed" /\ ("enabled" \in r.memory => "written" \in r.memory)

Return(h) ==
  /\ At(h, "publish") /\ Published(call[h].local)
  /\ Goto(h, "returned")
  /\ call' = [call EXCEPT ![h] = Idle]
  /\ UNCHANGED <<record, contexts, interruptions>>

\* Another caller moved the record: the next update of the saga raises.
Conflict(h) ==
  /\ At(h, "publish") /\ ~ Published(call[h].local)
  /\ call[h].local.revision # record.revision
  /\ Raise(h)

-----------------------------------------------------------------------------
\* The executor or the harness raises, or its process dies.
Interrupt(h) ==
  /\ ~ At(h, "idle") /\ ~ At(h, "returned")
  /\ interruptions < MaxInterruptions
  /\ interruptions' = interruptions + 1
  /\ harness' = [harness EXCEPT ![h] = Outside]
  /\ call' = [call EXCEPT ![h] = Idle]
  /\ UNCHANGED <<record, contexts>>

\* Receipts, pauses, cancellations and the like, by anybody else.  A batch is
\* two of them, and what the receipts of other kinds say is never read.
Interfere ==
  /\ record.status # "absent"
  /\ interruptions < MaxInterruptions
  /\ interruptions' = interruptions + 1
  /\ \/ Start \/ Pause \/ Resume \/ Fail \/ RequestCancel
     \/ \E rc \in {x \in InputReceipts : x.kind # "other"} : AppendReceipt(rc)
  /\ UNCHANGED <<harness, contexts>>

HarnessStep(h) ==
  \/ StartRun(h) \/ ResumeRun(h) \/ ReadStage(h) \/ ReadControl(h) \/ Execute(h) \/ Commit(h)
  \/ FinalizeRun(h) \/ Publish(h) \/ Return(h) \/ Conflict(h)

HarnessNext ==
  \/ CreateRun(Keeper)
  \/ \E h \in Callers : PickUp(h) \/ HarnessStep(h) \/ Interrupt(h)
  \/ Interfere

\* A harness that runs goes on, and the keeper is run again as long as its
\* run can be picked up.
HarnessSpec ==
  /\ HarnessInit /\ [][HarnessNext]_harnessVars
  /\ WF_harnessVars(CreateRun(Keeper) \/ PickUp(Keeper))
  /\ \A h \in Callers : WF_harnessVars(HarnessStep(h))

-----------------------------------------------------------------------------
(* Properties                                                                *)

\* The stage, the attempt and the context of a commit come from one read and
\* its revision from a later one; commit_stage reads a third time.  Whoever
\* commits, resumes or interferes between them, a committed output was
\* executed on exactly the outputs that are committed before it.
CommittedInContext ==
  /\ Len(contexts) = Len(record.outputs)
  /\ \A i \in DOMAIN contexts : contexts[i] = SubSeq(record.outputs, 1, i - 1)

Stopped == record.status \in {"cancel_requested", "cancelled", "failed"}

\* Wherever a harness is interrupted, and whoever else pauses, resumes, sends
\* receipts or runs a harness of the same run: as long as it is run again it
\* brings the run to its published end, unless the run was stopped or a
\* receipt contradicts the attempt it has to name.
HarnessCompletes == <>[](At(Keeper, "returned") \/ Stopped \/ Contradicted)

=============================================================================
