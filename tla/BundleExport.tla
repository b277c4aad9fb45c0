------------------------------ MODULE BundleExport ------------------------------
(***************************************************************************)
(* Exporting a completed run to a directory: a new bundle is moved into    *)
(* place in one rename; an existing one is replaced by two renames behind  *)
(* a journal, from which the next export recovers.                         *)
(*                                                                         *)
(* A directory is worth the bundle that validates in it (its manifest      *)
(* digest), or is Partial while it is written or removed, or Edited when   *)
(* it holds something else.  Every change of the file system is a step of  *)
(* its own; the reads that decide a recovery are one step.  Directories    *)
(* and files are synchronised after each change, so that a power failure   *)
(* leaves what the death of the process leaves.                            *)
(***************************************************************************)
EXTENDS Integers, FiniteSets, Sequences, TLC

CONSTANTS
  Exporters,   \* the calls of export_run_bundle for one target, one each
  Bundles,     \* the bundles to export, by manifest digest
  None,        \* nothing is there
  Partial,     \* a directory that is being written or removed
  Edited,      \* a directory that is no bundle: somebody else's data
  MaxLive,     \* bound on the calls that run at the same time
  MaxFaults,   \* bound on failed operations and deaths
  MaxOverlapFaults   \* the same once calls have overlapped

ASSUME ExportAssumption ==
  /\ MaxLive \in Nat /\ MaxFaults \in Nat /\ MaxOverlapFaults \in 0 .. MaxFaults
  /\ None \notin Bundles /\ Partial \notin Bundles /\ Edited \notin Bundles
  /\ None # Partial /\ None # Edited /\ Partial # Edited
  /\ None \notin [owner : Exporters, old : Bundles, new : Bundles]

VARIABLES
  dirs,        \* the target, and the staging and backup directory of each call
  journal,     \* the overwrite journal beside the target
  export,      \* how far each call is
  delivered,   \* the bundle that was last moved into place (history)
  overlapped,  \* two calls ran at the same time (history)
  faults       \* failed operations and deaths so far

vars == <<dirs, journal, export, delivered, overlapped, faults>>

Target == <<"target">>
Staging(e) == <<"staging", e>>
Backup(e) == <<"backup", e>>
Directories == {Target} \cup {Staging(e) : e \in Exporters} \cup {Backup(e) : e \in Exporters}

Present(d) == dirs[d] # None

Journals == [owner : Exporters, old : Bundles, new : Bundles]
Removals == [dir : Directories, digest : Bundles]

Idle == [at |-> "idle"]

Init ==
  /\ \E d \in Bundles \cup {None, Edited} :
       /\ dirs = [x \in Directories |-> IF x = Target THEN d ELSE None]
       /\ delivered = d
  /\ journal = None
  /\ export = [e \in Exporters |-> Idle]
  /\ overlapped = FALSE
  /\ faults = 0

At(e, step) == export[e].at = step

Ends == {"done", "failed", "dead"}

Live(e) == export[e].at \notin {"idle"} \cup Ends

\* A call that has ended keeps nothing.
Goes(e, step) ==
  export' = [export EXCEPT ![e] = IF step \in Ends THEN [at |-> step] ELSE [@ EXCEPT !.at = step]]

\* A rename: os.replace fails when the source is missing, and when the
\* destination is a directory that is not empty.
CanMove(from, to) == Present(from) /\ ~ Present(to)
Move(from, to) == dirs' = [dirs EXCEPT ![from] = None, ![to] = dirs[from]]

\* Where an exception leads: out of the call, to the removal of the staging
\* directory, or first to the recovery of the overwrite that was begun.
Handler(e) ==
  CASE export[e].at \in {"check", "make"} \/ export[e].next = "check" -> "failed"
    [] export[e].at \in {"retire", "verify_backup", "install", "verify", "finish"}
       \/ export[e].next = "done" -> "load"
    [] OTHER -> "cleanup"

Raise(e) ==
  /\ export' = [export EXCEPT ![e] =
       IF Handler(e) = "failed" THEN [at |-> "failed"]
       ELSE [@ EXCEPT !.at = Handler(e), !.next = "cleanup", !.doomed = <<>>, !.found = None]]
  /\ UNCHANGED <<dirs, journal, delivered>>

-----------------------------------------------------------------------------
(* Recovery of an interrupted overwrite                                      *)

\* What recovery does about a journal: the directories to remove afterwards,
\* and whether the backup is moved back first; or it refuses.
Refusal == [kind |-> "refused"]

\* Variant with a fault: whatever is there goes.
Validates_as_present(r) == Present(r.dir)

\* _validate_prior_export_bundle, against the digest of the journal.
Validates(r) == dirs[r.dir] = r.digest

Doomed(r) == IF Validates(r) THEN <<r>> ELSE <<>>

Recovery(j) ==
  LET old == [dir |-> Backup(j.owner), digest |-> j.old]
      new == [dir |-> Staging(j.owner), digest |-> j.new]
  IN  IF Present(Target)
      THEN IF dirs[Target] = j.new
             THEN [kind |-> "keep", doomed |-> Doomed(old) \o Doomed(new)]
           ELSE IF dirs[Target] = j.old /\ ~ Present(old.dir) /\ Present(new.dir)
             THEN [kind |-> "keep", doomed |-> Doomed(new)]
           ELSE Refusal
      ELSE IF dirs[old.dir] = j.old
             THEN [kind |-> "restore", doomed |-> Doomed(new)]
           ELSE Refusal

\* _load_overwrite_journal; the call goes on where it was when there is none.
Load(e) ==
  /\ At(e, "load")
  /\ IF journal = None
       THEN Goes(e, export[e].next)
       ELSE export' = [export EXCEPT ![e].at = "look", ![e].found = journal]
  /\ UNCHANGED <<dirs, journal, delivered>>

Look(e) ==
  /\ At(e, "look")
  /\ LET recovery == Recovery(export[e].found)
     IN  IF recovery = Refusal
           THEN Raise(e)
           ELSE /\ export' = [export EXCEPT
                     ![e].at = IF recovery.kind = "restore" THEN "restore" ELSE "unjournal",
                     ![e].doomed = recovery.doomed]
                /\ UNCHANGED <<dirs, journal, delivered>>

Restore(e) ==
  /\ At(e, "restore")
  /\ LET backup == Backup(export[e].found.owner)
     IN  IF CanMove(backup, Target)
           THEN /\ Move(backup, Target)
                /\ Goes(e, "unjournal")
                /\ UNCHANGED <<journal, delivered>>
           ELSE Raise(e)

\* The journal is unlinked by its name, whoever wrote it.
Unjournal(e) ==
  /\ export[e].at \in {"unjournal", "finish"}
  /\ IF journal = None
       THEN Raise(e)
       ELSE /\ journal' = None
            /\ export' = [export EXCEPT
                 ![e].next = IF At(e, "finish") THEN "done" ELSE @,
                 ![e].at = "remove"]
            /\ UNCHANGED <<dirs, delivered>>

\* _remove_validated_bundle: a directory that validates is removed afterwards.
Remove(e) ==
  /\ At(e, "remove")
  /\ export[e].doomed # <<>>
  /\ IF Validates(Head(export[e].doomed))
       THEN Goes(e, "erase") /\ UNCHANGED <<dirs, journal, delivered>>
       ELSE Raise(e)

\* Its removal takes what is there by then, and fails when nothing is.
Erase(e) ==
  /\ At(e, "erase")
  /\ LET d == Head(export[e].doomed).dir
     IN  IF Present(d)
           THEN /\ dirs' = [dirs EXCEPT ![d] = Partial]
                /\ Goes(e, "removing")
                /\ UNCHANGED <<journal, delivered>>
           ELSE Raise(e)

Removed(e) ==
  /\ At(e, "removing")
  /\ dirs' = [dirs EXCEPT ![Head(export[e].doomed).dir] = None]
  /\ export' = [export EXCEPT ![e].at = "remove", ![e].doomed = Tail(@)]
  /\ UNCHANGED <<journal, delivered>>

Recovered(e) ==
  /\ At(e, "remove")
  /\ export[e].doomed = <<>>
  /\ Goes(e, export[e].next)
  /\ UNCHANGED <<dirs, journal, delivered>>

-----------------------------------------------------------------------------
(* export_run_bundle                                                         *)

Begin(e) ==
  /\ At(e, "idle")
  /\ Cardinality({o \in Exporters : Live(o)}) < MaxLive
  /\ \E b \in Bundles, overwrite \in BOOLEAN :
       export' = [export EXCEPT ![e] =
         [at |-> "load", next |-> "check", bundle |-> b, overwrite |-> overwrite,
          found |-> None, old |-> None, doomed |-> <<>>]]
  /\ overlapped' = (overlapped \/ \E o \in Exporters : Live(o))
  /\ UNCHANGED <<dirs, journal, delivered, faults>>

\* _validate_prior_export_bundle: the files are those of the manifest, with its
\* digests, and the result, the events and the semantics fit together.
IsBundle(d) == dirs[d] \in Bundles

\* A target may be replaced only if that is asked for and it is a bundle.
MayReplace(e) == export[e].overwrite /\ IsBundle(Target)

Check(e) ==
  /\ At(e, "check")
  /\ IF Present(Target) /\ ~ MayReplace(e)
       THEN Raise(e)
       ELSE /\ export' = [export EXCEPT ![e].at = "make", ![e].next = "cleanup"]
            /\ UNCHANGED <<dirs, journal, delivered>>

Make(e) ==
  /\ At(e, "make")
  /\ dirs' = [dirs EXCEPT ![Staging(e)] = Partial]
  /\ Goes(e, "write")
  /\ UNCHANGED <<journal, delivered>>

Write(e) ==
  /\ At(e, "write")
  /\ dirs' = [dirs EXCEPT ![Staging(e)] = export[e].bundle]
  /\ Goes(e, "place")
  /\ UNCHANGED <<journal, delivered>>

Place(e) ==
  /\ At(e, "place")
  /\ IF ~ Present(Target)
       THEN Goes(e, "publish") /\ UNCHANGED <<dirs, journal, delivered>>
     ELSE IF MayReplace(e)
       THEN /\ export' = [export EXCEPT ![e].at = "announce", ![e].old = dirs[Target]]
            /\ UNCHANGED <<dirs, journal, delivered>>
     ELSE Raise(e)

Publish(e) ==
  /\ At(e, "publish")
  /\ IF CanMove(Staging(e), Target)
       THEN /\ Move(Staging(e), Target)
            /\ delivered' = dirs[Staging(e)]
            /\ Goes(e, "done")
            /\ UNCHANGED journal
       ELSE Raise(e)

\* _write_overwrite_journal links the journal into place, or fails.
Announce(e) ==
  /\ At(e, "announce")
  /\ IF journal = None
       THEN /\ journal' = [owner |-> e, old |-> export[e].old, new |-> export[e].bundle]
            /\ Goes(e, "retire")
            /\ UNCHANGED <<dirs, delivered>>
       ELSE Raise(e)

Retire(e) ==
  /\ At(e, "retire")
  /\ IF CanMove(Target, Backup(e))
       THEN Move(Target, Backup(e)) /\ Goes(e, "verify_backup") /\ UNCHANGED <<journal, delivered>>
       ELSE Raise(e)

VerifyBackup(e) ==
  /\ At(e, "verify_backup")
  /\ IF dirs[Backup(e)] = export[e].old
       THEN Goes(e, "install") /\ UNCHANGED <<dirs, journal, delivered>>
       ELSE Raise(e)

Install(e) ==
  /\ At(e, "install")
  /\ IF CanMove(Staging(e), Target)
       THEN /\ Move(Staging(e), Target)
            /\ delivered' = dirs[Staging(e)]
            /\ Goes(e, "verify")
            /\ UNCHANGED journal
       ELSE Raise(e)

Verify(e) ==
  /\ At(e, "verify")
  /\ IF dirs[Target] = export[e].bundle
       THEN /\ export' = [export EXCEPT ![e].at = "finish",
                 ![e].doomed = <<[dir |-> Backup(e), digest |-> export[e].old]>>]
            /\ UNCHANGED <<dirs, journal, delivered>>
       ELSE Raise(e)

\* Variant with a fault: the staging directory goes whatever the journal says.
Discards_as_always(e) == Present(Staging(e))

\* A staging directory that a journal may name is left to recovery.
Discards(e) == journal = None /\ Present(Staging(e))

CleanUp(e) ==
  /\ At(e, "cleanup")
  /\ IF Discards(e)
       THEN dirs' = [dirs EXCEPT ![Staging(e)] = Partial] /\ Goes(e, "cleaning")
       ELSE Goes(e, "failed") /\ UNCHANGED dirs
  /\ UNCHANGED <<journal, delivered>>

Cleaned(e) ==
  /\ At(e, "cleaning")
  /\ dirs' = [dirs EXCEPT ![Staging(e)] = None]
  /\ Goes(e, "failed")
  /\ UNCHANGED <<journal, delivered>>

-----------------------------------------------------------------------------
(* Faults, and other hands                                                   *)

MayFault ==
  /\ faults < IF overlapped THEN MaxOverlapFaults ELSE MaxFaults
  /\ faults' = faults + 1

\* An operation of the file system raises before it changed anything.
Fail(e) ==
  /\ Live(e) /\ export[e].at \notin {"cleanup", "cleaning"}
  /\ MayFault
  /\ Raise(e)
  /\ UNCHANGED overlapped

Die(e) ==
  /\ Live(e)
  /\ MayFault
  /\ Goes(e, "dead")
  /\ UNCHANGED <<dirs, journal, delivered, overlapped>>

\* Somebody puts something into a directory while no export runs.
Edit ==
  /\ \A e \in Exporters : ~ Live(e)
  /\ \A d \in Directories : dirs[d] # Edited
  /\ \E d \in {x \in Directories : Present(x)} : dirs' = [dirs EXCEPT ![d] = Edited]
  /\ UNCHANGED <<journal, export, delivered, overlapped, faults>>

Step(e) ==
  \/ Load(e) \/ Look(e) \/ Restore(e) \/ Unjournal(e) \/ Remove(e) \/ Erase(e) \/ Removed(e) \/ Recovered(e)
  \/ Check(e) \/ Make(e) \/ Write(e) \/ Place(e) \/ Publish(e) \/ Announce(e) \/ Retire(e)
  \/ VerifyBackup(e) \/ Install(e) \/ Verify(e) \/ CleanUp(e) \/ Cleaned(e)

Next ==
  \/ \E e \in Exporters :
       \/ Begin(e)
       \/ Step(e) /\ UNCHANGED <<overlapped, faults>>
       \/ Fail(e)
       \/ Die(e)
  \/ Edit

Spec == Init /\ [][Next]_vars

-----------------------------------------------------------------------------
(* Properties                                                                *)

Calls ==
  {Idle} \cup [at : Ends] \cup
  [at : {"load", "look", "restore", "unjournal", "remove", "erase", "removing", "check", "make",
         "write", "place", "publish", "announce", "retire", "verify_backup", "install", "verify",
         "finish", "cleanup", "cleaning"},
   next : {"check", "cleanup", "done"}, bundle : Bundles, overwrite : BOOLEAN,
   found : Journals \cup {None}, old : Bundles \cup {None}, doomed : Seq(Removals)]

\* The directories, the journal and the calls keep their types.
TypeOK ==
  /\ dirs \in [Directories -> Bundles \cup {None, Partial, Edited}]
  /\ journal \in Journals \cup {None}
  /\ export \in [Exporters -> Calls]
  /\ delivered \in Bundles \cup {None, Partial, Edited}
  /\ overlapped \in BOOLEAN
  /\ faults \in 0 .. MaxFaults

Untouched == \A d \in Directories : dirs[d] = Edited => d = Target /\ delivered = Edited

\* What the recovery of the next export leaves at the target.
AfterRecovery ==
  IF journal = None THEN dirs[Target]
  ELSE LET recovery == Recovery(journal)
       IN  CASE recovery = Refusal -> None
             [] recovery.kind = "restore" -> dirs[Backup(journal.owner)]
             [] OTHER -> dirs[Target]

\* "make validated overwrites crash-recoverable": at whatever step a call
\* dies or fails, the next one finds at the target what was last moved there,
\* never nothing, never an earlier bundle, and never a journal it refuses -
\* as long as calls do not overlap and nobody edits the directories.
Recoverable == ~ overlapped /\ Untouched => AfterRecovery = delivered

\* Data that is not a bundle is never removed, and the last bundle that was
\* delivered is not removed before another one is in place, even when calls
\* overlap and recover from each other's journals.
Places == {Target} \cup {Backup(e) : e \in Exporters}
NothingIsDestroyed ==
  [][/\ (\E d \in Directories : dirs[d] = Edited) => \E d \in Directories : dirs'[d] = Edited
     /\ (\E d \in Places : dirs[d] \in Bundles) => \E d \in Places : dirs'[d] \in Bundles \cup {Edited}]_vars

=============================================================================
