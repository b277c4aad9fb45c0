--------------------------- MODULE AtomicPublication ---------------------------
(***************************************************************************)
(* What finalize promises the readers of each run: once the run is sealed  *)
(* its publication becomes visible, in one step and for good; until then,  *)
(* or when the run was stopped instead, readers see nothing of it.         *)
(***************************************************************************)
CONSTANT Runs

VARIABLES
  phase,     \* of each run: "open", "sealed" or "stopped"
  visible    \* the runs whose publication readers are served

vars == <<phase, visible>>

Init == phase = [run \in Runs |-> "open"] /\ visible = {}

Leave(run, target) ==
  /\ phase[run] = "open"
  /\ phase' = [phase EXCEPT ![run] = target]
  /\ UNCHANGED visible

Seal(run) == Leave(run, "sealed")
Stop(run) == Leave(run, "stopped")

Show(run) ==
  /\ phase[run] = "sealed"
  /\ run \notin visible
  /\ visible' = visible \cup {run}
  /\ UNCHANGED phase

Next == \E run \in Runs : Seal(run) \/ Stop(run) \/ Show(run)

Spec == Init /\ [][Next]_vars /\ \A run \in Runs : WF_vars(Show(run))

=============================================================================
