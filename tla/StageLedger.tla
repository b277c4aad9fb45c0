----------------------------- MODULE StageLedger -----------------------------
(***************************************************************************)
(* What a lifecycle run promises whoever reads it: an append-only ledger   *)
(* of stage commitments in topology order, which grows only while the run  *)
(* is running, is sealed only when it is full, and never changes after the *)
(* run was asked to stop or was sealed.                                    *)
(***************************************************************************)
EXTENDS Integers, Sequences

CONSTANTS NStages, Digests

VARIABLES
  phase,   \* the status of the run
  ledger   \* its stage commitments

vars == <<phase, ledger>>

Entries == [stage : 1 .. NStages, attempt : Nat \ {0}, digest : Digests]

Init == phase = "absent" /\ ledger = <<>>

Commit ==
  /\ phase = "running"
  /\ Len(ledger') = Len(ledger) + 1
  /\ \A i \in DOMAIN ledger : ledger'[i] = ledger[i]
  /\ ledger'[Len(ledger')] \in Entries
  /\ ledger'[Len(ledger')].stage = Len(ledger')
  /\ UNCHANGED phase

Move(source, target) == phase \in source /\ phase' = target /\ UNCHANGED ledger

Open == Move({"absent"}, "prepared")
Run == Move({"prepared", "paused"}, "running")
Hold == Move({"running"}, "paused")
Abort == Move({"running"}, "failed")
AskToStop == Move({"prepared", "running", "paused"}, "cancel_requested")
Stop == Move({"cancel_requested"}, "cancelled")
Seal == Len(ledger) = NStages /\ Move({"running"}, "finalizing")
Publish == Move({"finalizing"}, "completed")

Next ==
  \/ Commit
  \/ Open \/ Run \/ Hold \/ Abort \/ AskToStop \/ Stop \/ Seal \/ Publish

Spec == Init /\ [][Next]_vars

=============================================================================
