----------------------------- MODULE StateSchema -----------------------------
(***************************************************************************)
(* The gate every program passes before it serves a state root             *)
(* (state_migrations.py): a plan that validates what the root holds, the   *)
(* manifest a new root gets, and the migration that adopts an unversioned  *)
(* root after a backup.  Starters run ensure_runtime_state, migrators run  *)
(* migrate_state with a backup directory of their own; no lock orders      *)
(* them.  A starter that was let in is a program that writes the root.     *)
(*                                                                         *)
(* A file is "whole", "broken" (it does not validate), "begun" (a database *)
(* that exists before its tables), "gone" (it was there and was removed)   *)
(* or "absent".  Links, sizes and the semantic checks of RunStore's files  *)
(* (AcceptedAtStartup there) are left out.                                 *)
(***************************************************************************)
EXTENDS Integers, FiniteSets

CONSTANTS
  Starters, Migrators,    \* processes
  Artifacts,              \* JSON artifacts
  Transient,              \* those a run removes again: staged bundles, direct-put.json
  Database,               \* lifecycle.sqlite3, decision-memory.sqlite3
  MaxFaults,              \* bound: failures in a behaviour
  None

Actors == Starters \cup Migrators
Files == Artifacts \cup {Database}
Contents == {"absent", "whole", "broken", "begun", "gone"}

ASSUME SchemaAssumption ==
  /\ Starters \cap Migrators = {}
  /\ Transient \subseteq Artifacts /\ Database \notin Artifacts
  /\ MaxFaults \in Nat
  /\ None \notin [Files -> Contents]

VARIABLES
  root,        \* the directory exists
  disk,        \* its files
  manifest,    \* state-schema.json is there
  temps,       \* the actors whose temporary manifest is there
  left,        \* a temporary manifest of a dead process is there
  backup,      \* each migrator's backup directory
  call,        \* what each actor is doing
  faults

vars == <<root, disk, manifest, temps, left, backup, call, faults>>

Steps == {"idle", "list", "read", "decide", "save", "copy", "make", "replace",
          "failed", "running", "creating", "done"}

\* seen: the manifest was there; todo: what is still to be read or copied;
\* missed: an entry was not there when it was to be copied.
Calls == [at : Steps, seen : BOOLEAN, todo : SUBSET (Files \cup Actors), missed : BOOLEAN]

Idle == [at |-> "idle", seen |-> FALSE, todo |-> {}, missed |-> FALSE]

At(a, step) == call[a].at = step
Goto(a, step) == call' = [call EXCEPT ![a].at = step]

Present == {f \in Files : disk[f] \notin {"absent", "gone"}}
Invalid == {f \in Files : disk[f] \in {"broken", "begun"}}

\* root.iterdir().
HasArtifacts == Present # {} \/ temps # {} \/ left \/ manifest

Init ==
  /\ disk \in [Files -> {"absent", "whole", "broken"}]
  /\ manifest \in BOOLEAN
  /\ root \in {r \in BOOLEAN : Present # {} \/ manifest => r}
  /\ temps = {} /\ left = FALSE
  /\ backup = [m \in Migrators |-> None]
  /\ call = [a \in Actors |-> Idle]
  /\ faults = 0

-----------------------------------------------------------------------------
(* plan_state_migration                                                      *)

Look(a) ==
  /\ At(a, "idle")
  /\ IF root THEN call' = [call EXCEPT ![a].seen = manifest, ![a].at = "list"]
             ELSE Goto(a, "make")
  /\ UNCHANGED <<root, disk, manifest, temps, left, backup, faults>>

List(a) ==
  /\ At(a, "list")
  /\ call' = [call EXCEPT ![a].todo = Present, ![a].at = "read"]
  /\ UNCHANGED <<root, disk, manifest, temps, left, backup, faults>>

\* Variant with a fault: what is invalid is passed over.
ReadLeniently(a) ==
  /\ At(a, "read")
  /\ \/ /\ call[a].todo = {}
        /\ Goto(a, "decide")
     \/ \E f \in call[a].todo \cap Present : call' = [call EXCEPT ![a].todo = @ \ {f}]
     \/ /\ call[a].todo \ Present # {}
        /\ call' = [call EXCEPT ![a] = [Idle EXCEPT !.at = "failed"]]
  /\ UNCHANGED <<root, disk, manifest, temps, left, backup, faults>>

\* A file that is invalid, or no longer there, raises.
Read(a) ==
  /\ At(a, "read")
  /\ \/ /\ call[a].todo = {}
        /\ Goto(a, "decide")
     \/ \E f \in call[a].todo \cap (Present \ Invalid) :
          call' = [call EXCEPT ![a].todo = @ \ {f}]
     \/ /\ call[a].todo \ (Present \ Invalid) # {}
        /\ call' = [call EXCEPT ![a] = [Idle EXCEPT !.at = "failed"]]
  /\ UNCHANGED <<root, disk, manifest, temps, left, backup, faults>>

-----------------------------------------------------------------------------
\* Variant with a fault: what the root holds is asked before its manifest.
EnsureEmpty(p) ==
  /\ At(p, "decide")
  /\ Goto(p, IF HasArtifacts THEN "failed" ELSE IF call[p].seen THEN "running" ELSE "make")
  /\ UNCHANGED <<root, disk, manifest, temps, left, backup, faults>>

\* ensure_runtime_state: unversioned state is refused.
Ensure(p) ==
  /\ At(p, "decide")
  /\ Goto(p, IF call[p].seen THEN "running" ELSE IF HasArtifacts THEN "failed" ELSE "make")
  /\ UNCHANGED <<root, disk, manifest, temps, left, backup, faults>>

\* Variant with a fault: the manifest is written first.
MigrateFirst(m) ==
  /\ At(m, "decide")
  /\ Goto(m, IF call[m].seen THEN "done" ELSE "make")
  /\ UNCHANGED <<root, disk, manifest, temps, left, backup, faults>>

\* migrate_state: what holds anything needs a backup directory.
Migrate(m) ==
  /\ At(m, "decide")
  /\ \/ call[m].seen /\ Goto(m, "done")
     \/ ~ call[m].seen /\ ~ HasArtifacts /\ Goto(m, "make")
     \/ ~ call[m].seen /\ HasArtifacts /\ Goto(m, "failed")
     \/ ~ call[m].seen /\ Goto(m, "save")
  /\ UNCHANGED <<root, disk, manifest, temps, left, backup, faults>>

\* The directory must not exist.
Save(m) ==
  /\ At(m, "save")
  /\ IF backup[m] = None
       THEN /\ backup' = [backup EXCEPT ![m] = [f \in Files |-> "absent"]]
            /\ call' = [call EXCEPT ![m].todo = Present \cup temps, ![m].at = "copy"]
       ELSE Goto(m, "failed") /\ UNCHANGED backup
  /\ UNCHANGED <<root, disk, manifest, temps, left, faults>>

\* shutil.copytree goes on after an entry it cannot copy, and raises at the end.
Copy(m) ==
  /\ At(m, "copy")
  /\ \/ /\ call[m].todo = {}
        /\ Goto(m, IF call[m].missed THEN "failed" ELSE "make")
        /\ UNCHANGED backup
     \/ \E f \in call[m].todo \cap Present :
          /\ call' = [call EXCEPT ![m].todo = @ \ {f}]
          /\ backup' = [backup EXCEPT ![m][f] = disk[f]]
     \/ \E e \in call[m].todo \ Present :
          /\ call' = [call EXCEPT ![m].todo = @ \ {e},
                                  ![m].missed = IF e \in temps THEN @ ELSE TRUE]
          /\ UNCHANGED backup
  /\ UNCHANGED <<root, disk, manifest, temps, left, faults>>

-----------------------------------------------------------------------------
(* _atomic_manifest                                                          *)

Make(a) ==
  /\ At(a, "make")
  /\ root' = TRUE /\ temps' = temps \cup {a}
  /\ Goto(a, "replace")
  /\ UNCHANGED <<disk, manifest, left, backup, faults>>

Replace(a) ==
  /\ At(a, "replace")
  /\ manifest' = TRUE /\ temps' = temps \ {a}
  /\ Goto(a, IF a \in Starters THEN "running" ELSE "done")
  /\ UNCHANGED <<root, disk, left, backup, faults>>

\* The program, or the operator, tries once more.
Again(a) ==
  /\ At(a, "failed")
  /\ call' = [call EXCEPT ![a] = Idle]
  /\ UNCHANGED <<root, disk, manifest, temps, left, backup, faults>>

-----------------------------------------------------------------------------
(* A program that was let in                                                 *)

WriteArtifact(p) ==
  /\ At(p, "running")
  /\ \E f \in Artifacts : disk[f] = "absent" /\ disk' = [disk EXCEPT ![f] = "whole"]
  /\ UNCHANGED <<root, manifest, temps, left, backup, call, faults>>

RemoveArtifact(p) ==
  /\ At(p, "running")
  /\ \E f \in Transient : disk[f] = "whole" /\ disk' = [disk EXCEPT ![f] = "gone"]
  /\ UNCHANGED <<root, manifest, temps, left, backup, call, faults>>

\* The file is there before CREATE TABLE IF NOT EXISTS is committed.
OpenDatabase(p) ==
  /\ At(p, "running") /\ disk[Database] \in {"absent", "begun"}
  /\ disk' = [disk EXCEPT ![Database] = "begun"]
  /\ Goto(p, "creating")
  /\ UNCHANGED <<root, manifest, temps, left, backup, faults>>

CreateTables(p) ==
  /\ At(p, "creating")
  /\ disk' = [disk EXCEPT ![Database] = "whole"]
  /\ Goto(p, "running")
  /\ UNCHANGED <<root, manifest, temps, left, backup, faults>>

-----------------------------------------------------------------------------
\* Writing the manifest raises: the temporary file is removed.
Raise(a) ==
  /\ faults < MaxFaults /\ At(a, "replace")
  /\ temps' = temps \ {a}
  /\ call' = [call EXCEPT ![a] = [Idle EXCEPT !.at = "failed"]]
  /\ faults' = faults + 1
  /\ UNCHANGED <<root, disk, manifest, left, backup>>

Die(a) ==
  /\ faults < MaxFaults /\ ~ At(a, "idle")
  /\ left' = (left \/ a \in temps)
  /\ temps' = temps \ {a}
  /\ call' = [call EXCEPT ![a] = Idle]
  /\ faults' = faults + 1
  /\ UNCHANGED <<root, disk, manifest, backup>>

Start(p) ==
  Look(p) \/ List(p) \/ Read(p) \/ Ensure(p) \/ Make(p) \/ Replace(p) \/ Again(p)
Continue(m) ==
  List(m) \/ Read(m) \/ Migrate(m) \/ Save(m) \/ Copy(m) \/ Make(m) \/ Replace(m)
Serve(p) ==
  WriteArtifact(p) \/ RemoveArtifact(p) \/ OpenDatabase(p) \/ CreateTables(p)

Next ==
  \/ \E p \in Starters : Start(p) \/ Serve(p)
  \/ \E m \in Migrators : Look(m) \/ Continue(m) \/ Again(m)
  \/ \E a \in Actors : Raise(a) \/ Die(a)

Spec == Init /\ [][Next]_vars

\* A program that is refused tries again; an operator need not.
Fairness ==
  /\ \A p \in Starters : WF_vars(Start(p)) /\ WF_vars(CreateTables(p))
  /\ \A m \in Migrators : WF_vars(Continue(m))

FairSpec == Spec /\ Fairness

-----------------------------------------------------------------------------
(* Properties                                                                *)

\* The root, its files and temporaries, the backups and every call keep their types.
TypeOK ==
  /\ root \in BOOLEAN /\ manifest \in BOOLEAN /\ left \in BOOLEAN
  /\ disk \in [Files -> Contents]
  /\ temps \subseteq Actors
  /\ backup \in [Migrators -> [Files -> Contents] \cup {None}]
  /\ call \in [Actors -> Calls]
  /\ faults \in 0 .. MaxFaults

\* A root becomes a versioned one only when it holds nothing, or when a backup
\* holds all of it, whoever else starts or migrates at that time and whichever
\* of them dies or is refused on the way (migrate_state's "mandatory rollback
\* backup").
AdoptedWithBackup ==
  [][manifest' /\ ~ manifest =>
       Present = {} \/ \E m \in Migrators :
                         backup[m] # None /\ \A f \in Present : backup[m][f] = disk[f]]_vars

\* Nothing that does not validate is ever adopted: what the plan validated is
\* still what the root holds when the manifest is written.
OnlyValidStateIsAdopted == [][manifest' /\ ~ manifest => Invalid = {}]_vars

Running(p) == At(p, "running") \/ At(p, "creating")

\* What no retry gets past: unversioned state, which may be nothing but the
\* temporary manifest of a first start that died; a file that does not
\* validate, which may be a database whose creator died.
Wedged == (~ manifest /\ (Present # {} \/ left)) \/ Invalid # {}

\* A program that keeps trying is let in and stays, or the root is wedged.
\* That another start is writing its manifest, that a bundle is removed while
\* it is being validated or that a database is being created only delays it.
EveryStartSucceeds == \A p \in Starters : <>[]Running(p) \/ <>[]Wedged

\* No program is refused for unversioned state where there is none.
FreshRootAccepts ==
  [][\A p \in Starters :
       At(p, "decide") /\ (At(p, "failed"))' => Present # {} \/ left]_vars
=============================================================================
