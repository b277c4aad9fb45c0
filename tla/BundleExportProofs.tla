-------------------------- MODULE BundleExportProofs --------------------------
(***************************************************************************)
(* Theorems about BundleExport for any number of exports, bundles and      *)
(* faults.                                                                 *)
(***************************************************************************)
EXTENDS BundleExport, TLAPS

Contents == Bundles \cup {None, Partial, Edited}
Sides == Directories \ {Target}
SideRemovals == [dir : Sides, digest : Bundles]

BusySteps ==
  {"load", "look", "restore", "unjournal", "remove", "erase", "removing", "check", "make",
   "write", "place", "publish", "announce", "retire", "verify_backup", "install", "verify",
   "finish", "cleanup", "cleaning"}
BusyCalls ==
  [at : BusySteps, next : {"check", "cleanup", "done"}, bundle : Bundles, overwrite : BOOLEAN,
   found : Journals \cup {None}, old : Bundles \cup {None}, doomed : Seq(SideRemovals)]
EndedCalls == {Idle} \cup [at : Ends]

\* What a call knows at its step.
Sensible(k) ==
  /\ k.at \in {"look", "restore"} => k.found \in Journals
  /\ k.at \in {"announce", "retire", "verify_backup", "install", "verify", "finish"} => k.old \in Bundles
  /\ k.at \in {"erase", "removing"} => k.doomed # <<>>
  /\ k.at \in {"check"} => k.next = "check"
  /\ k.at \in {"make", "write", "place", "publish", "announce", "retire", "verify_backup",
               "install", "verify", "finish", "cleanup", "cleaning"} => k.next = "cleanup"

Typed ==
  /\ dirs \in [Directories -> Contents]
  /\ journal \in Journals \cup {None}
  /\ export \in [Exporters -> EndedCalls \cup BusyCalls]
  /\ \A e \in Exporters : Live(e) => Sensible(export[e])
  /\ delivered \in Contents
  /\ overlapped \in BOOLEAN
  /\ faults \in 0 .. MaxFaults

-----------------------------------------------------------------------------
(* Directories and calls                                                     *)

LEMMA Distinct ==
  ASSUME NEW e \in Exporters, NEW f \in Exporters
  PROVE  /\ Target \in Directories /\ Staging(e) \in Sides /\ Backup(e) \in Sides
         /\ Staging(e) # Target /\ Backup(e) # Target /\ Staging(e) # Backup(f)
         /\ Staging(e) = Staging(f) => e = f
         /\ Backup(e) = Backup(f) => e = f
  <1>1. Staging(e) # Target /\ Backup(e) # Target
    BY DEF Staging, Backup, Target
  <1>2. Staging(e) # Backup(f)
    BY DEF Staging, Backup
  <1>3. Staging(e) = Staging(f) => e = f
    BY DEF Staging
  <1>4. Backup(e) = Backup(f) => e = f
    BY DEF Backup
  <1>5. Target \in Directories /\ Staging(e) \in Directories /\ Backup(e) \in Directories
    BY DEF Directories
  <1> QED BY <1>1, <1>2, <1>3, <1>4, <1>5 DEF Sides

LEMMA BusyFields ==
  ASSUME NEW k \in BusyCalls
  PROVE  /\ k.at \in BusySteps /\ k.next \in {"check", "cleanup", "done"} /\ k.bundle \in Bundles
         /\ k.overwrite \in BOOLEAN /\ k.found \in Journals \cup {None}
         /\ k.old \in Bundles \cup {None} /\ k.doomed \in Seq(SideRemovals)
  BY DEF BusyCalls

LEMMA LiveCalls ==
  ASSUME Typed, NEW e \in Exporters
  PROVE  /\ Live(e) <=> export[e] \in BusyCalls
         /\ Live(e) <=> export[e].at \in BusySteps
         /\ Live(e) => Sensible(export[e])
  <1>1. export[e] \in EndedCalls \cup BusyCalls
    BY DEF Typed
  <1>2. CASE export[e] \in EndedCalls
    <2>1. export[e].at \in {"idle", "done", "failed", "dead"}
      BY <1>2 DEF EndedCalls, Ends, Idle
    <2> QED BY <2>1, BusyFields DEF Live, Ends, BusySteps
  <1>3. CASE export[e] \in BusyCalls
    <2>1. export[e].at \in BusySteps
      BY <1>3 DEF BusyCalls
    <2> QED BY <1>3, <2>1 DEF Live, Ends, BusySteps, Typed
  <1> QED BY <1>1, <1>2, <1>3

\* The type invariant of BundleExport follows.
LEMMA TypedTypes == Typed => TypeOK
  <1> SUFFICES ASSUME Typed PROVE TypeOK
    OBVIOUS
  <1>1. SideRemovals \subseteq Removals
    BY DEF SideRemovals, Removals, Sides
  <1>2. Seq(SideRemovals) \subseteq Seq(Removals)
    BY <1>1
  <1>3. BusyCalls \subseteq Calls
    BY <1>2 DEF BusyCalls, BusySteps, Calls
  <1>4. EndedCalls \subseteq Calls
    BY DEF EndedCalls, Calls
  <1> QED BY <1>3, <1>4 DEF Typed, TypeOK, Contents

\* Where a call goes.
LEMMA GoesTo ==
  ASSUME Typed, NEW e \in Exporters, Live(e), NEW step \in BusySteps \cup Ends, Goes(e, step)
  PROVE  /\ step \in Ends => export' = [export EXCEPT ![e] = [at |-> step]]
         /\ step \notin Ends => export' = [export EXCEPT ![e] = [export[e] EXCEPT !.at = step]]
  BY DEF Goes, Typed

LEMMA StepCalls ==
  ASSUME Typed, NEW e \in Exporters, Live(e), NEW k, export' = [export EXCEPT ![e] = k],
         k \in EndedCalls \/ (k \in BusyCalls /\ Sensible(k))
  PROVE  /\ export' \in [Exporters -> EndedCalls \cup BusyCalls]
         /\ \A f \in Exporters : Live(f)' => Sensible(export[f])'
         /\ export'[e] = k /\ \A f \in Exporters \ {e} : export'[f] = export[f]
  <1>1. /\ export' \in [Exporters -> EndedCalls \cup BusyCalls]
        /\ export'[e] = k /\ \A f \in Exporters \ {e} : export'[f] = export[f]
    BY DEF Typed
  <1>2. ASSUME NEW f \in Exporters, Live(f)' PROVE Sensible(export[f])'
    <2>1. CASE f = e
      <3>1. k \notin EndedCalls
        BY <1>1, <1>2, <2>1 DEF Live, EndedCalls, Idle
      <3> QED BY <1>1, <2>1, <3>1
    <2>2. CASE f # e
      BY <1>1, <1>2, <2>2 DEF Live, Typed
    <2> QED BY <2>1, <2>2
  <1> QED BY <1>1, <1>2

-----------------------------------------------------------------------------
(* What calls hold whether they overlap or not                               *)

\* A call finds its staging and its backup directory absent, and has no
\* backup before it retires the target.
Fresh(e) ==
  /\ \/ At(e, "idle")
     \/ Live(e) /\ (export[e].next = "check" \/ At(e, "make"))
     => dirs[Staging(e)] = None /\ dirs[Backup(e)] = None
  /\ export[e].at \in {"write", "place", "publish", "announce", "retire"} =>
       dirs[Backup(e)] = None

\* What a call is about to move or remove is no other data.
Own(e) ==
  /\ Live(e) => dirs[Staging(e)] # Edited
  /\ export[e].at \in {"announce", "retire"} => dirs[Target] # Edited
  /\ At(e, "restore") => dirs[Backup(export[e].found.owner)] # Edited
  /\ export[e].at \in {"erase", "removing"} => dirs[Head(export[e].doomed).dir] # Edited

ExportInv ==
  /\ Typed
  /\ \A e \in Exporters : Fresh(e) /\ Own(e)

EditedStays == \A d \in Directories : dirs'[d] = Edited <=> dirs[d] = Edited
NothingAppears(e) ==
  \A f \in Exporters \ {e} :
    /\ dirs[Staging(f)] = None => dirs'[Staging(f)] = None
    /\ dirs[Backup(f)] = None => dirs'[Backup(f)] = None

LEMMA OwnDirectories ==
  ASSUME Typed, NEW e \in Exporters, Live(e)
  PROVE  /\ At(e, "restore") => Backup(export[e].found.owner) \in Sides
         /\ export[e].at \in {"erase", "removing"} =>
              Head(export[e].doomed) \in SideRemovals /\ Head(export[e].doomed).dir \in Sides
  <1>1. export[e] \in BusyCalls /\ Sensible(export[e])
    BY LiveCalls
  <1>2. At(e, "restore") => Backup(export[e].found.owner) \in Sides
    BY <1>1, Distinct DEF At, Sensible, Journals
  <1>3. export[e].at \in {"erase", "removing"} => Head(export[e].doomed) \in SideRemovals
    <2>1. export[e].doomed \in Seq(SideRemovals)
      BY <1>1, BusyFields
    <2> QED BY <1>1, <2>1 DEF At, Sensible
  <1> QED BY <1>2, <1>3 DEF SideRemovals

\* A step of one call, in terms of what it must keep.
LEMMA OneCall ==
  ASSUME ExportInv, NEW e \in Exporters, Live(e), NEW k, export' = [export EXCEPT ![e] = k],
         k \in EndedCalls \ {Idle} \/ (k \in BusyCalls /\ Sensible(k)),
         dirs' \in [Directories -> Contents], journal' \in Journals \cup {None},
         delivered' \in Contents, overlapped' \in BOOLEAN, faults' \in 0 .. MaxFaults,
         EditedStays, NothingAppears(e), Fresh(e)', Own(e)'
  PROVE  ExportInv'
  <1>1. /\ export' \in [Exporters -> EndedCalls \cup BusyCalls]
        /\ \A f \in Exporters : Live(f)' => Sensible(export[f])'
        /\ \A f \in Exporters \ {e} : export'[f] = export[f]
    BY StepCalls DEF ExportInv
  <1>2. Typed'
    BY <1>1 DEF Typed
  <1>3. ASSUME NEW f \in Exporters \ {e} PROVE Fresh(f)' /\ Own(f)'
    <2>1. export'[f] = export[f] /\ (Live(f)' <=> Live(f)) /\ Fresh(f) /\ Own(f)
      BY <1>1 DEF Live, ExportInv
    <2>2. Fresh(f)'
      BY <2>1 DEF Fresh, NothingAppears, At
    <2>3. Own(f)'
      <3>1. CASE Live(f)
        <4>1. Staging(f) \in Directories /\ Target \in Directories
          BY Distinct DEF Sides
        <4>2. At(f, "restore") => Backup(export[f].found.owner) \in Directories
          BY <3>1, OwnDirectories DEF ExportInv, Sides
        <4>3. export[f].at \in {"erase", "removing"} => Head(export[f].doomed).dir \in Directories
          BY <3>1, OwnDirectories DEF ExportInv, Sides
        <4> QED BY <2>1, <4>1, <4>2, <4>3 DEF Own, EditedStays, At
      <3>2. CASE ~ Live(f)
        BY <2>1, <3>2 DEF Own, Live, At, Ends
      <3> QED BY <3>1, <3>2
    <2> QED BY <2>2, <2>3
  <1> QED BY <1>2, <1>3 DEF ExportInv

\* The same where no directory changes.
LEMMA OneCallOnly ==
  ASSUME ExportInv, NEW e \in Exporters, Live(e), NEW k, export' = [export EXCEPT ![e] = k],
         k \in EndedCalls \ {Idle} \/ (k \in BusyCalls /\ Sensible(k)),
         UNCHANGED dirs, journal' \in Journals \cup {None},
         UNCHANGED delivered, overlapped' \in BOOLEAN, faults' \in 0 .. MaxFaults,
         Fresh(e)', Own(e)'
  PROVE  ExportInv'
  <1>1. dirs' \in [Directories -> Contents] /\ delivered' \in Contents
    BY DEF ExportInv, Typed
  <1>2. EditedStays /\ NothingAppears(e)
    BY DEF EditedStays, NothingAppears
  <1> QED BY <1>1, <1>2, OneCall

\* A call that ends without touching a directory.
LEMMA EndKeeps ==
  ASSUME ExportInv, NEW e \in Exporters, Live(e), NEW step \in Ends,
         export' = [export EXCEPT ![e] = [at |-> step]],
         UNCHANGED <<dirs, journal, delivered>>, overlapped' \in BOOLEAN, faults' \in 0 .. MaxFaults
  PROVE  ExportInv'
  <1> DEFINE k == [at |-> step]
  <1>1. k \in EndedCalls \ {Idle} /\ k.at = step
    BY DEF EndedCalls, Idle, Ends
  <1>2. export'[e] = k
    BY DEF ExportInv, Typed
  <1>3. Fresh(e)' /\ Own(e)'
    BY <1>1, <1>2 DEF Fresh, Own, Live, At, Ends
  <1>4. journal' \in Journals \cup {None}
    BY DEF ExportInv, Typed
  <1> HIDE DEF k
  <1> QED BY <1>1, <1>3, <1>4, OneCallOnly DEF k

\* An exception leads out of the call, to its cleanup or to the recovery.
LEMMA RaiseKeeps ==
  ASSUME ExportInv, NEW e \in Exporters, Live(e), Raise(e),
         overlapped' \in BOOLEAN, faults' \in 0 .. MaxFaults
  PROVE  ExportInv'
  <1>1. CASE Handler(e) = "failed"
    <2>1. export' = [export EXCEPT ![e] = [at |-> "failed"]]
      BY <1>1 DEF Raise
    <2> QED BY <2>1, EndKeeps DEF Raise, Ends
  <1>2. CASE Handler(e) # "failed"
    <2> DEFINE h == Handler(e)
               k == [export[e] EXCEPT !.at = h, !.next = "cleanup", !.doomed = <<>>, !.found = None]
    <2>1. h \in {"load", "cleanup"}
      BY <1>2 DEF Handler
    <2>2. export' = [export EXCEPT ![e] = k]
      BY <1>2 DEF Raise, ExportInv, Typed
    <2>3. export[e] \in BusyCalls
      BY LiveCalls DEF ExportInv
    <2> HIDE DEF h
    <2>4. <<>> \in Seq(SideRemovals)
      OBVIOUS
    <2>5. k \in BusyCalls /\ k.at = h /\ k.next = "cleanup"
      BY <2>1, <2>3, <2>4 DEF BusyCalls, BusySteps
    <2> HIDE DEF k
    <2>6. Sensible(k)
      BY <2>1, <2>5 DEF Sensible
    <2>7. export'[e] = k /\ UNCHANGED dirs
      BY <2>2 DEF ExportInv, Typed, Raise
    <2>8. Fresh(e)' /\ Own(e)'
      BY <2>1, <2>5, <2>7 DEF Fresh, Own, ExportInv, Live, At, Ends
    <2> QED BY <2>2, <2>5, <2>6, <2>7, <2>8, OneCallOnly DEF Raise, ExportInv, Typed
  <1> QED BY <1>1, <1>2

\* What a call that goes on to a step has become.
LEMMA GoneOn ==
  ASSUME ExportInv, NEW e \in Exporters, Live(e), NEW step \in BusySteps, Goes(e, step)
  PROVE  \E k \in BusyCalls :
           /\ export' = [export EXCEPT ![e] = k] /\ export'[e] = k
           /\ k.at = step /\ k.next = export[e].next /\ k.bundle = export[e].bundle
           /\ k.overwrite = export[e].overwrite /\ k.found = export[e].found
           /\ k.old = export[e].old /\ k.doomed = export[e].doomed
  <1> DEFINE k == [export[e] EXCEPT !.at = step]
  <1>1. export[e] \in BusyCalls
    BY LiveCalls DEF ExportInv
  <1>2. step \notin Ends
    BY DEF Ends, BusySteps
  <1>3. export' = [export EXCEPT ![e] = k]
    BY <1>2, GoesTo DEF ExportInv
  <1>4. export'[e] = k
    BY <1>3 DEF ExportInv, Typed
  <1>5. /\ k \in BusyCalls
        /\ k.at = step /\ k.next = export[e].next /\ k.bundle = export[e].bundle
        /\ k.overwrite = export[e].overwrite /\ k.found = export[e].found
        /\ k.old = export[e].old /\ k.doomed = export[e].doomed
    BY <1>1 DEF BusyCalls
  <1> HIDE DEF k
  <1> QED BY <1>3, <1>4, <1>5

\* A rename keeps other people's data where it is when it moves none.
LEMMA MoveKeeps ==
  ASSUME ExportInv, NEW e \in Exporters, NEW from \in Directories, NEW to \in Directories,
         from # to, CanMove(from, to), Move(from, to), dirs[from] # Edited,
         to = Target \/ to = Backup(e)
  PROVE  /\ dirs' \in [Directories -> Contents] /\ EditedStays /\ NothingAppears(e)
         /\ dirs'[from] = None /\ dirs'[to] = dirs[from]
         /\ \A d \in Directories \ {from, to} : dirs'[d] = dirs[d]
  <1>1. /\ dirs \in [Directories -> Contents]
        /\ dirs' = [dirs EXCEPT ![from] = None, ![to] = dirs[from]]
        /\ dirs[from] # None /\ dirs[to] = None
    BY DEF ExportInv, Typed, Move, CanMove, Present
  <1>2. /\ dirs' \in [Directories -> Contents]
        /\ dirs'[from] = None /\ dirs'[to] = dirs[from]
        /\ \A d \in Directories \ {from, to} : dirs'[d] = dirs[d]
    BY <1>1 DEF Contents
  <1>3. EditedStays
    BY <1>1, <1>2, ExportAssumption DEF EditedStays
  <1>4. NothingAppears(e)
    <2> SUFFICES ASSUME NEW f \in Exporters \ {e}
                 PROVE  /\ dirs[Staging(f)] = None => dirs'[Staging(f)] = None
                        /\ dirs[Backup(f)] = None => dirs'[Backup(f)] = None
      BY DEF NothingAppears
    <2>1. to # Staging(f) /\ to # Backup(f)
      BY Distinct
    <2>2. Staging(f) \in Directories /\ Backup(f) \in Directories
      BY Distinct DEF Sides
    <2> QED BY <1>2, <2>1, <2>2
  <1> QED BY <1>2, <1>3, <1>4

\* What one directory becomes keeps other people's data.
LEMMA BecomesKeeps ==
  ASSUME ExportInv, NEW e \in Exporters, NEW d \in Directories, NEW c \in Contents \ {Edited},
         dirs' = [dirs EXCEPT ![d] = c], dirs[d] # Edited,
         d = Staging(e) \/ dirs[d] # None \/ c = None
  PROVE  /\ dirs' \in [Directories -> Contents] /\ EditedStays /\ NothingAppears(e)
         /\ dirs'[d] = c /\ \A x \in Directories \ {d} : dirs'[x] = dirs[x]
  <1>1. /\ dirs' \in [Directories -> Contents]
        /\ dirs'[d] = c /\ \A x \in Directories \ {d} : dirs'[x] = dirs[x]
    BY DEF ExportInv, Typed
  <1>2. EditedStays
    BY <1>1 DEF EditedStays
  <1>3. NothingAppears(e)
    <2> SUFFICES ASSUME NEW f \in Exporters \ {e}
                 PROVE  /\ dirs[Staging(f)] = None => dirs'[Staging(f)] = None
                        /\ dirs[Backup(f)] = None => dirs'[Backup(f)] = None
      BY DEF NothingAppears
    <2>1. Staging(f) # Staging(e) /\ Backup(f) # Staging(e)
      BY Distinct
    <2>2. Staging(f) \in Directories /\ Backup(f) \in Directories
      BY Distinct DEF Sides
    <2> QED BY <1>1, <2>1, <2>2
  <1> QED BY <1>1, <1>2, <1>3

-----------------------------------------------------------------------------
(* One lemma per step                                                        *)

\* The frame of a step.
Framed == UNCHANGED <<overlapped, faults>>

LEMMA Frame ==
  ASSUME ExportInv, Framed
  PROVE  overlapped' \in BOOLEAN /\ faults' \in 0 .. MaxFaults
  BY DEF ExportInv, Typed, Framed

\* A call that goes on and touches neither a directory nor the journal.
LEMMA GoOnKeeps ==
  ASSUME ExportInv, NEW e \in Exporters, Live(e), NEW step \in BusySteps, Goes(e, step),
         UNCHANGED <<dirs, delivered>>, journal' \in Journals \cup {None}, Framed,
         step \in {"look", "restore"} => export[e].found \in Journals,
         step \in {"announce", "retire", "verify_backup", "install", "verify", "finish"} =>
           export[e].old \in Bundles,
         step # "removing", step = "check" => export[e].next = "check",
         step = "erase" => export[e].doomed # <<>> /\ dirs[Head(export[e].doomed).dir] # Edited,
         step \in {"make", "write", "place", "publish", "announce", "retire", "verify_backup",
                   "install", "verify", "finish", "cleanup", "cleaning"} => export[e].next = "cleanup",
         (export[e].next = "check" \/ step = "make") =>
            dirs[Staging(e)] = None /\ dirs[Backup(e)] = None,
         step \in {"write", "place", "publish", "announce", "retire"} => dirs[Backup(e)] = None,
         step \in {"announce", "retire"} => dirs[Target] # Edited,
         step = "restore" => dirs[Backup(export[e].found.owner)] # Edited
  PROVE  ExportInv'
  <1>1. PICK k \in BusyCalls :
          /\ export' = [export EXCEPT ![e] = k] /\ export'[e] = k
          /\ k.at = step /\ k.next = export[e].next /\ k.bundle = export[e].bundle
          /\ k.overwrite = export[e].overwrite /\ k.found = export[e].found
          /\ k.old = export[e].old /\ k.doomed = export[e].doomed
    BY GoneOn
  <1>2. Sensible(k)
    BY <1>1 DEF Sensible
  <1>3. Own(e)
    BY DEF ExportInv
  <1>4. Own(e)'
    BY <1>1, <1>3 DEF Own, At
  <1>5. step # "idle"
    BY DEF BusySteps
  <1>6. Fresh(e)'
    BY <1>1, <1>5 DEF Fresh, At
  <1> QED BY <1>1, <1>2, <1>4, <1>6, Frame, OneCallOnly

LEMMA RaiseStep ==
  ASSUME ExportInv, NEW e \in Exporters, Live(e), Raise(e), Framed
  PROVE  ExportInv' /\ EditedStays
  BY RaiseKeeps, Frame DEF Raise, EditedStays

LEMMA EndStep ==
  ASSUME ExportInv, NEW e \in Exporters, Live(e), NEW step \in Ends, Goes(e, step),
         UNCHANGED <<dirs, journal, delivered>>, Framed
  PROVE  ExportInv' /\ EditedStays
  <1>1. export' = [export EXCEPT ![e] = [at |-> step]]
    BY GoesTo DEF ExportInv
  <1> QED BY <1>1, EndKeeps, Frame DEF EditedStays

\* What holds at a step.
LEMMA Here ==
  ASSUME ExportInv, NEW e \in Exporters, Live(e)
  PROVE  /\ export[e] \in BusyCalls /\ Sensible(export[e]) /\ Fresh(e) /\ Own(e)
         /\ export[e].at \in BusySteps /\ export[e].next \in {"check", "cleanup", "done"}
         /\ journal \in Journals \cup {None}
  BY LiveCalls, BusyFields DEF ExportInv, Typed

LEMMA LoadStep ==
  ASSUME ExportInv, NEW e \in Exporters, Load(e), Framed
  PROVE  ExportInv' /\ EditedStays
  <1>1. At(e, "load") /\ Live(e) /\ UNCHANGED <<dirs, journal, delivered>>
    BY DEF Load, At, Live, Ends
  <1>2. EditedStays
    BY <1>1 DEF EditedStays
  <1>3. CASE journal = None
    <2>1. Goes(e, export[e].next)
      BY <1>3 DEF Load
    <2>2. CASE export[e].next = "done"
      BY <1>1, <2>1, <2>2, EndStep DEF Ends
    <2>3. CASE export[e].next # "done"
      <3>1. export[e].next \in {"check", "cleanup"}
        BY <1>1, <2>3, Here
      <3>2. export[e].next \in BusySteps
        BY <3>1 DEF BusySteps
      <3>3. export[e].next = "check" => dirs[Staging(e)] = None /\ dirs[Backup(e)] = None
        BY <1>1, Here DEF Fresh
      <3> QED BY <1>1, <2>1, <3>1, <3>2, <3>3, GoOnKeeps, <1>2, Here
    <2> QED BY <2>2, <2>3
  <1>4. CASE journal # None
    <2> DEFINE k == [export[e] EXCEPT !.at = "look", !.found = journal]
    <2>1. journal \in Journals
      BY <1>4, <1>1, Here
    <2>2. export' = [export EXCEPT ![e] = k]
      BY <1>4, <1>1 DEF Load, ExportInv, Typed
    <2>3. k \in BusyCalls /\ k.at = "look" /\ k.found = journal /\ k.next = export[e].next
      BY <1>1, <2>1, Here DEF BusyCalls, BusySteps
    <2> HIDE DEF k
    <2>4. Sensible(k)
      BY <2>1, <2>3 DEF Sensible
    <2>5. export'[e] = k
      BY <2>2 DEF ExportInv, Typed
    <2>6. Fresh(e)' /\ Own(e)'
      BY <1>1, <2>3, <2>5, Here DEF Fresh, Own, At
    <2> QED BY <1>1, <1>2, <2>1, <2>2, <2>3, <2>4, <2>6, OneCallOnly, Frame, Here
  <1> QED BY <1>3, <1>4

LEMMA DoomedTyped ==
  ASSUME NEW r, r \in SideRemovals
  PROVE  Doomed(r) \in Seq(SideRemovals)
  BY DEF Doomed

\* What a recovery that is not refused dooms, and what it puts back.
LEMMA RecoveryTyped ==
  ASSUME ExportInv, NEW j \in Journals, Recovery(j) # Refusal
  PROVE  /\ Recovery(j).kind \in {"keep", "restore"}
         /\ Recovery(j).doomed \in Seq(SideRemovals)
         /\ Recovery(j).kind = "restore" => dirs[Backup(j.owner)] = j.old
  <1> DEFINE old == [dir |-> Backup(j.owner), digest |-> j.old]
             new == [dir |-> Staging(j.owner), digest |-> j.new]
  <1>1. j.owner \in Exporters /\ j.old \in Bundles /\ j.new \in Bundles
    BY DEF Journals
  <1>2. old \in SideRemovals /\ new \in SideRemovals
    BY <1>1, Distinct DEF SideRemovals
  <1>3. Doomed(old) \in Seq(SideRemovals) /\ Doomed(new) \in Seq(SideRemovals)
    BY <1>2, DoomedTyped
  <1>4. Doomed(old) \o Doomed(new) \in Seq(SideRemovals)
    BY <1>3
  <1>5. \/ Recovery(j) = [kind |-> "keep", doomed |-> Doomed(old) \o Doomed(new)]
        \/ Recovery(j) = [kind |-> "keep", doomed |-> Doomed(new)]
        \/ Recovery(j) = [kind |-> "restore", doomed |-> Doomed(new)] /\ dirs[Backup(j.owner)] = j.old
    BY DEF Recovery
  <1> DEFINE a == Doomed(old) \o Doomed(new)
             b == Doomed(new)
  <1> HIDE DEF old, new
  <1>6. a \in Seq(SideRemovals) /\ b \in Seq(SideRemovals)
    BY <1>3, <1>4
  <1>7. \/ Recovery(j) = [kind |-> "keep", doomed |-> a]
        \/ Recovery(j) = [kind |-> "keep", doomed |-> b]
        \/ Recovery(j) = [kind |-> "restore", doomed |-> b] /\ dirs[Backup(j.owner)] = j.old
    BY <1>5
  <1> HIDE DEF a, b
  <1>8. CASE Recovery(j) = [kind |-> "keep", doomed |-> a]
    BY <1>6, <1>8
  <1>9. CASE Recovery(j) = [kind |-> "keep", doomed |-> b]
    BY <1>6, <1>9
  <1>10. CASE Recovery(j) = [kind |-> "restore", doomed |-> b] /\ dirs[Backup(j.owner)] = j.old
    BY <1>6, <1>10
  <1> QED BY <1>7, <1>8, <1>9, <1>10

LEMMA LookStep ==
  ASSUME ExportInv, NEW e \in Exporters, Look(e), Framed
  PROVE  ExportInv' /\ EditedStays
  <1>1. At(e, "look") /\ Live(e) /\ export[e].found \in Journals
    <2>1. At(e, "look") /\ Live(e)
      BY DEF Look, At, Live, Ends
    <2> QED BY <2>1, Here DEF Sensible, At
  <1>2. CASE Recovery(export[e].found) = Refusal
    BY <1>1, <1>2, RaiseStep DEF Look
  <1>3. CASE Recovery(export[e].found) # Refusal
    <2> DEFINE step == IF Recovery(export[e].found).kind = "restore" THEN "restore" ELSE "unjournal"
               k == [export[e] EXCEPT !.at = step, !.doomed = Recovery(export[e].found).doomed]
    <2>1. UNCHANGED <<dirs, journal, delivered>> /\ export' = [export EXCEPT ![e] = k]
      BY <1>3, <1>1 DEF Look, ExportInv, Typed
    <2>2. Recovery(export[e].found).doomed \in Seq(SideRemovals)
      BY <1>1, <1>3, RecoveryTyped
    <2>3. step = "restore" => dirs[Backup(export[e].found.owner)] \in Bundles
      BY <1>1, <1>3, RecoveryTyped DEF Journals
    <2>4. step \in {"restore", "unjournal"}
      OBVIOUS
    <2> HIDE DEF step
    <2>5. k \in BusyCalls /\ k.at = step /\ k.found = export[e].found /\ k.next = export[e].next
      BY <1>1, <2>2, <2>4, Here DEF BusyCalls, BusySteps
    <2> HIDE DEF k
    <2>6. Sensible(k)
      BY <1>1, <2>4, <2>5 DEF Sensible
    <2>7. export'[e] = k
      BY <2>1 DEF ExportInv, Typed
    <2>8. Own(e)'
      BY <2>1, <2>3, <2>4, <2>5, <2>7, <1>1, Here, ExportAssumption DEF Own, At
    <2>9. Fresh(e)'
      BY <2>1, <2>4, <2>5, <2>7, <1>1, Here DEF Fresh, At
    <2> QED BY <1>1, <2>1, <2>5, <2>6, <2>8, <2>9, OneCallOnly, Frame, Here DEF EditedStays
  <1> QED BY <1>2, <1>3

LEMMA UnjournalStep ==
  ASSUME ExportInv, NEW e \in Exporters, Unjournal(e), Framed
  PROVE  ExportInv' /\ EditedStays
  <1>1. export[e].at \in {"unjournal", "finish"} /\ Live(e)
    BY DEF Unjournal, Live, Ends
  <1>2. CASE journal = None
    BY <1>1, <1>2, RaiseStep DEF Unjournal
  <1>3. CASE journal # None
    <2> DEFINE next == IF At(e, "finish") THEN "done" ELSE export[e].next
               k == [export[e] EXCEPT !.next = next, !.at = "remove"]
    <2>1. journal' = None /\ UNCHANGED <<dirs, delivered>>
      BY <1>3 DEF Unjournal
    <2>2. export' = [export EXCEPT ![e] = k]
      BY <1>3, <1>1 DEF Unjournal, ExportInv, Typed, At
    <2>3. next \in {export[e].next, "done"}
      OBVIOUS
    <2> HIDE DEF next
    <2>4. k \in BusyCalls /\ k.at = "remove" /\ k.next = next
      BY <1>1, <2>3, Here DEF BusyCalls, BusySteps
    <2> HIDE DEF k
    <2>5. Sensible(k)
      BY <2>4 DEF Sensible
    <2>6. export'[e] = k
      BY <2>2 DEF ExportInv, Typed
    <2>7. Fresh(e)' /\ Own(e)'
      BY <1>1, <2>1, <2>3, <2>4, <2>6, Here DEF Fresh, Own, At
    <2> QED BY <1>1, <2>1, <2>2, <2>4, <2>5, <2>7, OneCallOnly, Frame, Here DEF EditedStays
  <1> QED BY <1>2, <1>3

LEMMA RecoveredStep ==
  ASSUME ExportInv, NEW e \in Exporters, Recovered(e), Framed
  PROVE  ExportInv' /\ EditedStays
  <1>1. At(e, "remove") /\ Live(e) /\ UNCHANGED <<dirs, journal, delivered>> /\ Goes(e, export[e].next)
    BY DEF Recovered, At, Live, Ends
  <1>2. CASE export[e].next = "done"
    BY <1>1, <1>2, EndStep DEF Ends
  <1>3. CASE export[e].next # "done"
    <2>1. export[e].next \in {"check", "cleanup"} /\ export[e].next \in BusySteps
      BY <1>1, <1>3, Here DEF BusySteps
    <2>2. export[e].next = "check" => dirs[Staging(e)] = None /\ dirs[Backup(e)] = None
      BY <1>1, Here DEF Fresh
    <2> QED BY <1>1, <2>1, <2>2, GoOnKeeps, Here DEF EditedStays
  <1> QED BY <1>2, <1>3

\* A call that goes on and changes directories.
LEMMA GoOnChanging ==
  ASSUME ExportInv, NEW e \in Exporters, Live(e), NEW step \in BusySteps, Goes(e, step),
         dirs' \in [Directories -> Contents], EditedStays, NothingAppears(e),
         delivered' \in Contents, UNCHANGED journal, Framed,
         step \notin {"look", "restore", "announce", "retire", "make", "check", "erase"},
         step \in {"verify_backup", "install", "verify", "finish"} => export[e].old \in Bundles,
         step = "removing" =>
           export[e].doomed # <<>> /\ dirs'[Head(export[e].doomed).dir] # Edited,
         step \in {"write", "place", "publish", "verify_backup", "install", "verify", "finish",
                   "cleanup", "cleaning"} => export[e].next = "cleanup",
         export[e].next = "check" => dirs'[Staging(e)] = None /\ dirs'[Backup(e)] = None,
         step \in {"write", "place", "publish"} => dirs'[Backup(e)] = None
  PROVE  ExportInv'
  <1>1. PICK k \in BusyCalls :
          /\ export' = [export EXCEPT ![e] = k] /\ export'[e] = k
          /\ k.at = step /\ k.next = export[e].next /\ k.bundle = export[e].bundle
          /\ k.overwrite = export[e].overwrite /\ k.found = export[e].found
          /\ k.old = export[e].old /\ k.doomed = export[e].doomed
    BY GoneOn
  <1>2. Sensible(k)
    BY <1>1 DEF Sensible
  <1>3. dirs[Staging(e)] # Edited /\ Staging(e) \in Directories
    BY Distinct DEF ExportInv, Own, Sides
  <1>4. dirs'[Staging(e)] # Edited
    BY <1>3 DEF EditedStays
  <1>5. Own(e)'
    BY <1>1, <1>4 DEF Own, At
  <1>6. step # "idle"
    BY DEF BusySteps
  <1>7. Fresh(e)'
    BY <1>1, <1>6 DEF Fresh, At
  <1>8. journal' \in Journals \cup {None}
    BY DEF ExportInv, Typed
  <1> QED BY <1>1, <1>2, <1>5, <1>7, <1>8, Frame, OneCall

\* A call that ends as it changes directories.
LEMMA EndChanging ==
  ASSUME ExportInv, NEW e \in Exporters, Live(e), NEW step \in Ends, Goes(e, step),
         dirs' \in [Directories -> Contents], EditedStays, NothingAppears(e),
         delivered' \in Contents, UNCHANGED journal, Framed
  PROVE  ExportInv'
  <1> DEFINE k == [at |-> step]
  <1>1. export' = [export EXCEPT ![e] = k]
    BY GoesTo DEF ExportInv
  <1>2. k \in EndedCalls \ {Idle} /\ k.at = step
    BY DEF EndedCalls, Idle, Ends
  <1>3. export'[e] = k
    BY <1>1 DEF ExportInv, Typed
  <1>4. Fresh(e)' /\ Own(e)'
    BY <1>2, <1>3 DEF Fresh, Own, Live, At, Ends
  <1>5. journal' \in Journals \cup {None}
    BY DEF ExportInv, Typed
  <1> HIDE DEF k
  <1> QED BY <1>1, <1>2, <1>4, <1>5, Frame, OneCall

LEMMA RestoreStep ==
  ASSUME ExportInv, NEW e \in Exporters, Restore(e), Framed
  PROVE  ExportInv' /\ EditedStays
  <1> DEFINE backup == Backup(export[e].found.owner)
  <1>1. At(e, "restore") /\ Live(e)
    BY DEF Restore, At, Live, Ends
  <1>2. CASE ~ CanMove(backup, Target)
    BY <1>1, <1>2, RaiseStep DEF Restore
  <1>3. CASE CanMove(backup, Target)
    <2>1. Move(backup, Target) /\ Goes(e, "unjournal") /\ UNCHANGED <<journal, delivered>>
      BY <1>3 DEF Restore
    <2>2. backup \in Directories /\ backup # Target /\ Target \in Directories /\ dirs[backup] # Edited
      BY <1>1, OwnDirectories, Here, Distinct DEF ExportInv, Sides, Own
    <2> HIDE DEF backup
    <2>3. /\ dirs' \in [Directories -> Contents] /\ EditedStays /\ NothingAppears(e)
          /\ dirs'[backup] = None
          /\ \A d \in Directories \ {backup, Target} : dirs'[d] = dirs[d]
      BY <1>3, <2>1, <2>2, MoveKeeps
    <2>4. export[e].next = "check" => dirs'[Staging(e)] = None /\ dirs'[Backup(e)] = None
      BY <1>1, <2>3, Here, Distinct DEF Fresh, Sides
    <2>5. "unjournal" \in BusySteps /\ delivered' \in Contents
      BY <2>1 DEF BusySteps, ExportInv, Typed
    <2> QED BY <1>1, <2>1, <2>3, <2>4, <2>5, GoOnChanging
  <1> QED BY <1>2, <1>3

LEMMA RemoveStep ==
  ASSUME ExportInv, NEW e \in Exporters, Remove(e), Framed
  PROVE  ExportInv' /\ EditedStays
  <1> DEFINE r == Head(export[e].doomed)
  <1>1. At(e, "remove") /\ Live(e) /\ export[e].doomed # <<>>
    BY DEF Remove, At, Live, Ends
  <1>2. CASE ~ Validates(r)
    BY <1>1, <1>2, RaiseStep DEF Remove
  <1>3. CASE Validates(r)
    <2>1. Goes(e, "erase") /\ UNCHANGED <<dirs, journal, delivered>>
      BY <1>3 DEF Remove
    <2>2. export[e].doomed \in Seq(SideRemovals)
      BY <1>1, Here, BusyFields
    <2>3. r \in SideRemovals
      BY <1>1, <2>2
    <2>4. dirs[r.dir] # Edited
      BY <1>3, <2>3, ExportAssumption DEF SideRemovals, Validates
    <2>5. "erase" \in BusySteps /\ EditedStays
      BY <2>1 DEF BusySteps, EditedStays
    <2>6. export[e].next = "check" => dirs[Staging(e)] = None /\ dirs[Backup(e)] = None
      BY <1>1, Here DEF Fresh
    <2> HIDE DEF r
    <2> QED BY <1>1, <2>1, <2>4, <2>5, <2>6, GoOnKeeps, Here DEF r
  <1> QED BY <1>2, <1>3

LEMMA EraseStep ==
  ASSUME ExportInv, NEW e \in Exporters, Erase(e), Framed
  PROVE  ExportInv' /\ EditedStays
  <1> DEFINE d == Head(export[e].doomed).dir
  <1>1. At(e, "erase") /\ Live(e)
    BY DEF Erase, At, Live, Ends
  <1>2. CASE ~ Present(d)
    BY <1>1, <1>2, RaiseStep DEF Erase
  <1>3. CASE Present(d)
    <2>1. dirs' = [dirs EXCEPT ![d] = Partial] /\ Goes(e, "removing") /\ UNCHANGED <<journal, delivered>>
      BY <1>3 DEF Erase
    <2>2. d \in Directories /\ dirs[d] # Edited /\ dirs[d] # None /\ export[e].doomed # <<>>
      BY <1>1, <1>3, OwnDirectories, Here DEF ExportInv, Sides, Own, At, Present, Sensible
    <2>3. Partial \in Contents \ {Edited}
      BY ExportAssumption DEF Contents
    <2>4. d = Head(export[e].doomed).dir
      OBVIOUS
    <2> HIDE DEF d
    <2>5. /\ dirs' \in [Directories -> Contents] /\ EditedStays /\ NothingAppears(e)
          /\ dirs'[d] = Partial /\ \A x \in Directories \ {d} : dirs'[x] = dirs[x]
      BY <2>1, <2>2, <2>3, BecomesKeeps
    <2>6. export[e].next = "check" => dirs'[Staging(e)] = None /\ dirs'[Backup(e)] = None
      BY <1>1, <2>2, <2>5, Here, Distinct DEF Fresh, Sides
    <2>7. "removing" \in BusySteps /\ delivered' \in Contents
      BY <2>1 DEF BusySteps, ExportInv, Typed
    <2>8. dirs'[Head(export[e].doomed).dir] # Edited
      BY <2>4, <2>5, ExportAssumption
    <2> QED BY <1>1, <2>1, <2>2, <2>5, <2>6, <2>7, <2>8, GoOnChanging
  <1> QED BY <1>2, <1>3

LEMMA RemovedStep ==
  ASSUME ExportInv, NEW e \in Exporters, Removed(e), Framed
  PROVE  ExportInv' /\ EditedStays
  <1> DEFINE d == Head(export[e].doomed).dir
             k == [export[e] EXCEPT !.at = "remove", !.doomed = Tail(export[e].doomed)]
  <1>1. /\ At(e, "removing") /\ Live(e) /\ UNCHANGED <<journal, delivered>>
        /\ dirs' = [dirs EXCEPT ![d] = None]
    BY DEF Removed, At, Live, Ends
  <1>2. export' = [export EXCEPT ![e] = k]
    BY DEF Removed, ExportInv, Typed
  <1>3. d \in Directories /\ dirs[d] # Edited
    BY <1>1, OwnDirectories, Here DEF ExportInv, Sides, Own, At
  <1>4. export[e].doomed \in Seq(SideRemovals) /\ export[e].doomed # <<>>
    BY <1>1, Here, BusyFields DEF Sensible, At
  <1>5. Tail(export[e].doomed) \in Seq(SideRemovals)
    BY <1>4
  <1>6. k \in BusyCalls /\ k.at = "remove" /\ k.next = export[e].next
    BY <1>1, <1>5, Here DEF BusyCalls, BusySteps
  <1> HIDE DEF d, k
  <1>7. Sensible(k)
    BY <1>6 DEF Sensible
  <1>8. export'[e] = k
    BY <1>2 DEF ExportInv, Typed
  <1>9. None \in Contents \ {Edited}
    BY ExportAssumption DEF Contents
  <1>10. /\ dirs' \in [Directories -> Contents] /\ EditedStays /\ NothingAppears(e)
         /\ dirs'[d] = None /\ \A x \in Directories \ {d} : dirs'[x] = dirs[x]
    BY <1>1, <1>3, <1>9, BecomesKeeps
  <1>11. Fresh(e)'
    BY <1>1, <1>6, <1>8, <1>10, Here, Distinct DEF Fresh, Sides, At
  <1>12. Own(e)'
    BY <1>1, <1>6, <1>8, <1>10, Here, Distinct DEF Own, Sides, At, EditedStays
  <1>13. delivered' \in Contents /\ journal' \in Journals \cup {None}
    BY <1>1 DEF ExportInv, Typed
  <1> QED BY <1>1, <1>2, <1>6, <1>7, <1>10, <1>11, <1>12, <1>13, Frame, OneCall

LEMMA CheckStep ==
  ASSUME ExportInv, NEW e \in Exporters, Check(e), Framed
  PROVE  ExportInv' /\ EditedStays
  <1>1. At(e, "check") /\ Live(e)
    BY DEF Check, At, Live, Ends
  <1>2. CASE Present(Target) /\ ~ MayReplace(e)
    BY <1>1, <1>2, RaiseStep DEF Check
  <1>3. CASE ~ (Present(Target) /\ ~ MayReplace(e))
    <2> DEFINE k == [export[e] EXCEPT !.at = "make", !.next = "cleanup"]
    <2>1. UNCHANGED <<dirs, journal, delivered>> /\ export' = [export EXCEPT ![e] = k]
      BY <1>3 DEF Check, ExportInv, Typed
    <2>2. k \in BusyCalls /\ k.at = "make" /\ k.next = "cleanup"
      BY <1>1, Here DEF BusyCalls, BusySteps
    <2> HIDE DEF k
    <2>3. Sensible(k)
      BY <2>2 DEF Sensible
    <2>4. export'[e] = k
      BY <2>1 DEF ExportInv, Typed
    <2>5. dirs[Staging(e)] = None /\ dirs[Backup(e)] = None
      BY <1>1, Here DEF Fresh, Sensible, At
    <2>6. Fresh(e)' /\ Own(e)'
      BY <1>1, <2>1, <2>2, <2>4, <2>5, Here DEF Fresh, Own, At
    <2> QED BY <1>1, <2>1, <2>2, <2>3, <2>6, OneCallOnly, Frame, Here DEF EditedStays
  <1> QED BY <1>2, <1>3

LEMMA MakeStep ==
  ASSUME ExportInv, NEW e \in Exporters, Make(e), Framed
  PROVE  ExportInv' /\ EditedStays
  <1>1. /\ At(e, "make") /\ Live(e) /\ UNCHANGED <<journal, delivered>>
        /\ dirs' = [dirs EXCEPT ![Staging(e)] = Partial] /\ Goes(e, "write")
    BY DEF Make, At, Live, Ends
  <1>2. dirs[Staging(e)] # Edited /\ dirs[Backup(e)] = None /\ export[e].next = "cleanup"
    BY <1>1, Here DEF Fresh, Own, Sensible, At
  <1>3. Partial \in Contents \ {Edited} /\ Staging(e) \in Directories
    BY ExportAssumption, Distinct DEF Contents, Sides
  <1>4. /\ dirs' \in [Directories -> Contents] /\ EditedStays /\ NothingAppears(e)
        /\ \A x \in Directories \ {Staging(e)} : dirs'[x] = dirs[x]
    BY <1>1, <1>2, <1>3, BecomesKeeps
  <1>5. dirs'[Backup(e)] = None
    BY <1>2, <1>4, Distinct DEF Sides
  <1>6. "write" \in BusySteps /\ delivered' \in Contents
    BY <1>1 DEF BusySteps, ExportInv, Typed
  <1> QED BY <1>1, <1>2, <1>4, <1>5, <1>6, GoOnChanging

LEMMA WriteStep ==
  ASSUME ExportInv, NEW e \in Exporters, Write(e), Framed
  PROVE  ExportInv' /\ EditedStays
  <1>1. /\ At(e, "write") /\ Live(e) /\ UNCHANGED <<journal, delivered>>
        /\ dirs' = [dirs EXCEPT ![Staging(e)] = export[e].bundle] /\ Goes(e, "place")
    BY DEF Write, At, Live, Ends
  <1>2. dirs[Staging(e)] # Edited /\ dirs[Backup(e)] = None /\ export[e].next = "cleanup"
    BY <1>1, Here DEF Fresh, Own, Sensible, At
  <1>3. export[e].bundle \in Contents \ {Edited} /\ Staging(e) \in Directories
    BY <1>1, ExportAssumption, Distinct, Here, BusyFields DEF Contents, Sides
  <1>4. /\ dirs' \in [Directories -> Contents] /\ EditedStays /\ NothingAppears(e)
        /\ \A x \in Directories \ {Staging(e)} : dirs'[x] = dirs[x]
    BY <1>1, <1>2, <1>3, BecomesKeeps
  <1>5. dirs'[Backup(e)] = None
    BY <1>2, <1>4, Distinct DEF Sides
  <1>6. "place" \in BusySteps /\ delivered' \in Contents
    BY <1>1 DEF BusySteps, ExportInv, Typed
  <1> QED BY <1>1, <1>2, <1>4, <1>5, <1>6, GoOnChanging

LEMMA PlaceStep ==
  ASSUME ExportInv, NEW e \in Exporters, Place(e), Framed
  PROVE  ExportInv' /\ EditedStays
  <1>1. At(e, "place") /\ Live(e) /\ dirs[Backup(e)] = None /\ export[e].next = "cleanup"
    <2>1. At(e, "place") /\ Live(e)
      BY DEF Place, At, Live, Ends
    <2> QED BY <2>1, Here DEF Fresh, Sensible, At
  <1>2. CASE ~ Present(Target)
    <2>1. Goes(e, "publish") /\ UNCHANGED <<dirs, journal, delivered>> /\ "publish" \in BusySteps
      BY <1>2 DEF Place, BusySteps
    <2> QED BY <1>1, <2>1, GoOnKeeps, Here DEF EditedStays
  <1>3. CASE Present(Target) /\ MayReplace(e)
    <2> DEFINE k == [export[e] EXCEPT !.at = "announce", !.old = dirs[Target]]
    <2>1. UNCHANGED <<dirs, journal, delivered>> /\ export' = [export EXCEPT ![e] = k]
      BY <1>3 DEF Place, ExportInv, Typed
    <2>2. dirs[Target] \in Bundles
      BY <1>3 DEF MayReplace, IsBundle
    <2>3. k \in BusyCalls /\ k.at = "announce" /\ k.next = "cleanup" /\ k.old \in Bundles
      BY <1>1, <2>2, Here DEF BusyCalls, BusySteps
    <2> HIDE DEF k
    <2>4. Sensible(k)
      BY <2>3 DEF Sensible
    <2>5. export'[e] = k
      BY <2>1 DEF ExportInv, Typed
    <2>6. dirs[Target] # Edited
      BY <2>2, ExportAssumption
    <2>7. Fresh(e)' /\ Own(e)'
      BY <1>1, <2>1, <2>3, <2>5, <2>6, Here DEF Fresh, Own, At
    <2> QED BY <1>1, <2>1, <2>3, <2>4, <2>7, OneCallOnly, Frame, Here DEF EditedStays
  <1>4. CASE Present(Target) /\ ~ MayReplace(e)
    BY <1>1, <1>4, RaiseStep DEF Place
  <1> QED BY <1>2, <1>3, <1>4

LEMMA PublishStep ==
  ASSUME ExportInv, NEW e \in Exporters, Publish(e), Framed
  PROVE  ExportInv' /\ EditedStays
  <1>1. At(e, "publish") /\ Live(e)
    BY DEF Publish, At, Live, Ends
  <1>2. CASE ~ CanMove(Staging(e), Target)
    BY <1>1, <1>2, RaiseStep DEF Publish
  <1>3. CASE CanMove(Staging(e), Target)
    <2>1. /\ Move(Staging(e), Target) /\ Goes(e, "done") /\ UNCHANGED journal
          /\ delivered' = dirs[Staging(e)]
      BY <1>3 DEF Publish
    <2>2. /\ Staging(e) \in Directories /\ Staging(e) # Target /\ Target \in Directories
          /\ dirs[Staging(e)] # Edited
      BY <1>1, Here, Distinct DEF Sides, Own
    <2>3. dirs' \in [Directories -> Contents] /\ EditedStays /\ NothingAppears(e)
      BY <1>3, <2>1, <2>2, MoveKeeps
    <2>4. delivered' \in Contents
      BY <2>1, <2>2 DEF ExportInv, Typed
    <2> QED BY <1>1, <2>1, <2>3, <2>4, EndChanging DEF Ends
  <1> QED BY <1>2, <1>3

LEMMA AnnounceStep ==
  ASSUME ExportInv, NEW e \in Exporters, Announce(e), Framed
  PROVE  ExportInv' /\ EditedStays
  <1>1. /\ At(e, "announce") /\ Live(e) /\ dirs[Backup(e)] = None /\ export[e].next = "cleanup"
        /\ export[e].old \in Bundles /\ dirs[Target] # Edited
    <2>1. At(e, "announce") /\ Live(e)
      BY DEF Announce, At, Live, Ends
    <2> QED BY <2>1, Here DEF Fresh, Own, Sensible, At
  <1>2. CASE journal # None
    BY <1>1, <1>2, RaiseStep DEF Announce
  <1>3. CASE journal = None
    <2>1. /\ Goes(e, "retire") /\ UNCHANGED <<dirs, delivered>> /\ "retire" \in BusySteps
          /\ journal' = [owner |-> e, old |-> export[e].old, new |-> export[e].bundle]
      BY <1>3 DEF Announce, BusySteps
    <2>2. journal' \in Journals
      BY <1>1, <2>1, Here, BusyFields DEF Journals
    <2> QED BY <1>1, <2>1, <2>2, GoOnKeeps DEF EditedStays
  <1> QED BY <1>2, <1>3

LEMMA RetireStep ==
  ASSUME ExportInv, NEW e \in Exporters, Retire(e), Framed
  PROVE  ExportInv' /\ EditedStays
  <1>1. /\ At(e, "retire") /\ Live(e) /\ export[e].next = "cleanup"
        /\ export[e].old \in Bundles /\ dirs[Target] # Edited
    <2>1. At(e, "retire") /\ Live(e)
      BY DEF Retire, At, Live, Ends
    <2> QED BY <2>1, Here DEF Own, Sensible, At
  <1>2. CASE ~ CanMove(Target, Backup(e))
    BY <1>1, <1>2, RaiseStep DEF Retire
  <1>3. CASE CanMove(Target, Backup(e))
    <2>1. Move(Target, Backup(e)) /\ Goes(e, "verify_backup") /\ UNCHANGED <<journal, delivered>>
      BY <1>3 DEF Retire
    <2>2. Backup(e) \in Directories /\ Backup(e) # Target /\ Target \in Directories
      BY Distinct DEF Sides
    <2>3. dirs' \in [Directories -> Contents] /\ EditedStays /\ NothingAppears(e)
      BY <1>1, <1>3, <2>1, <2>2, MoveKeeps
    <2>4. "verify_backup" \in BusySteps /\ delivered' \in Contents
      BY <2>1 DEF BusySteps, ExportInv, Typed
    <2> QED BY <1>1, <2>1, <2>3, <2>4, GoOnChanging
  <1> QED BY <1>2, <1>3

LEMMA VerifyBackupStep ==
  ASSUME ExportInv, NEW e \in Exporters, VerifyBackup(e), Framed
  PROVE  ExportInv' /\ EditedStays
  <1>1. At(e, "verify_backup") /\ Live(e) /\ export[e].next = "cleanup" /\ export[e].old \in Bundles
    <2>1. At(e, "verify_backup") /\ Live(e)
      BY DEF VerifyBackup, At, Live, Ends
    <2> QED BY <2>1, Here DEF Sensible, At
  <1>2. CASE dirs[Backup(e)] # export[e].old
    BY <1>1, <1>2, RaiseStep DEF VerifyBackup
  <1>3. CASE dirs[Backup(e)] = export[e].old
    <2>1. Goes(e, "install") /\ UNCHANGED <<dirs, journal, delivered>> /\ "install" \in BusySteps
      BY <1>3 DEF VerifyBackup, BusySteps
    <2> QED BY <1>1, <2>1, GoOnKeeps, Here DEF EditedStays
  <1> QED BY <1>2, <1>3

LEMMA InstallStep ==
  ASSUME ExportInv, NEW e \in Exporters, Install(e), Framed
  PROVE  ExportInv' /\ EditedStays
  <1>1. At(e, "install") /\ Live(e) /\ export[e].next = "cleanup" /\ export[e].old \in Bundles
    <2>1. At(e, "install") /\ Live(e)
      BY DEF Install, At, Live, Ends
    <2> QED BY <2>1, Here DEF Sensible, At
  <1>2. CASE ~ CanMove(Staging(e), Target)
    BY <1>1, <1>2, RaiseStep DEF Install
  <1>3. CASE CanMove(Staging(e), Target)
    <2>1. /\ Move(Staging(e), Target) /\ Goes(e, "verify") /\ UNCHANGED journal
          /\ delivered' = dirs[Staging(e)]
      BY <1>3 DEF Install
    <2>2. /\ Staging(e) \in Directories /\ Staging(e) # Target /\ Target \in Directories
          /\ dirs[Staging(e)] # Edited
      BY <1>1, Here, Distinct DEF Sides, Own
    <2>3. dirs' \in [Directories -> Contents] /\ EditedStays /\ NothingAppears(e)
      BY <1>3, <2>1, <2>2, MoveKeeps
    <2>4. delivered' \in Contents /\ "verify" \in BusySteps
      BY <2>1, <2>2 DEF ExportInv, Typed, BusySteps
    <2> QED BY <1>1, <2>1, <2>3, <2>4, GoOnChanging
  <1> QED BY <1>2, <1>3

LEMMA VerifyStep ==
  ASSUME ExportInv, NEW e \in Exporters, Verify(e), Framed
  PROVE  ExportInv' /\ EditedStays
  <1>1. At(e, "verify") /\ Live(e) /\ export[e].next = "cleanup" /\ export[e].old \in Bundles
    <2>1. At(e, "verify") /\ Live(e)
      BY DEF Verify, At, Live, Ends
    <2> QED BY <2>1, Here DEF Sensible, At
  <1>2. CASE dirs[Target] # export[e].bundle
    BY <1>1, <1>2, RaiseStep DEF Verify
  <1>3. CASE dirs[Target] = export[e].bundle
    <2> DEFINE r == [dir |-> Backup(e), digest |-> export[e].old]
               k == [export[e] EXCEPT !.at = "finish", !.doomed = <<r>>]
    <2>1. UNCHANGED <<dirs, journal, delivered>> /\ export' = [export EXCEPT ![e] = k]
      BY <1>3 DEF Verify, ExportInv, Typed
    <2>2. r \in SideRemovals
      BY <1>1, Distinct DEF SideRemovals
    <2> HIDE DEF r
    <2>3. <<r>> \in Seq(SideRemovals)
      BY <2>2
    <2>4. k \in BusyCalls /\ k.at = "finish" /\ k.next = "cleanup" /\ k.old = export[e].old
      BY <1>1, <2>3, Here DEF BusyCalls, BusySteps
    <2> HIDE DEF k
    <2>5. Sensible(k)
      BY <1>1, <2>4 DEF Sensible
    <2>6. export'[e] = k
      BY <2>1 DEF ExportInv, Typed
    <2>7. Fresh(e)' /\ Own(e)'
      BY <1>1, <2>1, <2>4, <2>6, Here DEF Fresh, Own, At
    <2> QED BY <1>1, <2>1, <2>4, <2>5, <2>7, OneCallOnly, Frame, Here DEF EditedStays
  <1> QED BY <1>2, <1>3

LEMMA CleanUpStep ==
  ASSUME ExportInv, NEW e \in Exporters, CleanUp(e), Framed
  PROVE  ExportInv' /\ EditedStays
  <1>1. At(e, "cleanup") /\ Live(e) /\ export[e].next = "cleanup" /\ UNCHANGED <<journal, delivered>>
    <2>1. At(e, "cleanup") /\ Live(e)
      BY DEF CleanUp, At, Live, Ends
    <2> QED BY <2>1, Here DEF CleanUp, Sensible, At
  <1>2. CASE ~ Discards(e)
    <2>1. Goes(e, "failed") /\ UNCHANGED dirs
      BY <1>2 DEF CleanUp
    <2> QED BY <1>1, <2>1, EndStep DEF Ends
  <1>3. CASE Discards(e)
    <2>1. dirs' = [dirs EXCEPT ![Staging(e)] = Partial] /\ Goes(e, "cleaning")
      BY <1>3 DEF CleanUp
    <2>2. dirs[Staging(e)] # Edited /\ Staging(e) \in Directories /\ Partial \in Contents \ {Edited}
      BY <1>1, Here, Distinct, ExportAssumption DEF Own, Sides, Contents
    <2>3. dirs' \in [Directories -> Contents] /\ EditedStays /\ NothingAppears(e)
      BY <2>1, <2>2, BecomesKeeps
    <2>4. delivered' \in Contents /\ "cleaning" \in BusySteps
      BY <1>1 DEF ExportInv, Typed, BusySteps
    <2> QED BY <1>1, <2>1, <2>3, <2>4, GoOnChanging
  <1> QED BY <1>2, <1>3

LEMMA CleanedStep ==
  ASSUME ExportInv, NEW e \in Exporters, Cleaned(e), Framed
  PROVE  ExportInv' /\ EditedStays
  <1>1. /\ At(e, "cleaning") /\ Live(e) /\ UNCHANGED <<journal, delivered>>
        /\ dirs' = [dirs EXCEPT ![Staging(e)] = None] /\ Goes(e, "failed")
    BY DEF Cleaned, At, Live, Ends
  <1>2. dirs[Staging(e)] # Edited /\ Staging(e) \in Directories /\ None \in Contents \ {Edited}
    BY <1>1, Here, Distinct, ExportAssumption DEF Own, Sides, Contents
  <1>3. dirs' \in [Directories -> Contents] /\ EditedStays /\ NothingAppears(e)
    BY <1>1, <1>2, BecomesKeeps
  <1>4. delivered' \in Contents
    BY <1>1 DEF ExportInv, Typed
  <1> QED BY <1>1, <1>3, <1>4, EndChanging DEF Ends

LEMMA StepKeeps ==
  ASSUME ExportInv, NEW e \in Exporters, Step(e), Framed
  PROVE  ExportInv' /\ EditedStays
  BY LoadStep, LookStep, RestoreStep, UnjournalStep, RemoveStep, EraseStep, RemovedStep,
     RecoveredStep, CheckStep, MakeStep, WriteStep, PlaceStep, PublishStep, AnnounceStep, RetireStep,
     VerifyBackupStep, InstallStep, VerifyStep, CleanUpStep, CleanedStep DEF Step

LEMMA Counted ==
  ASSUME ExportInv, MayFault
  PROVE  faults' \in 0 .. MaxFaults
  BY ExportAssumption DEF ExportInv, Typed, MayFault

LEMMA FailKeeps ==
  ASSUME ExportInv, NEW e \in Exporters, Fail(e)
  PROVE  ExportInv' /\ EditedStays
  <1>1. overlapped' \in BOOLEAN /\ faults' \in 0 .. MaxFaults
    BY Counted DEF Fail, ExportInv, Typed
  <1> QED BY <1>1, RaiseKeeps DEF Fail, Raise, EditedStays

LEMMA DieKeeps ==
  ASSUME ExportInv, NEW e \in Exporters, Die(e)
  PROVE  ExportInv' /\ EditedStays
  <1>1. overlapped' \in BOOLEAN /\ faults' \in 0 .. MaxFaults
    BY Counted DEF Die, ExportInv, Typed
  <1>2. Goes(e, "dead") /\ Live(e) /\ UNCHANGED <<dirs, journal, delivered>> /\ "dead" \in Ends
    BY DEF Die, Ends
  <1>3. export' = [export EXCEPT ![e] = [at |-> "dead"]]
    BY <1>2, GoesTo DEF ExportInv
  <1> QED BY <1>1, <1>2, <1>3, EndKeeps DEF EditedStays

LEMMA BeginKeeps ==
  ASSUME ExportInv, NEW e \in Exporters, Begin(e)
  PROVE  ExportInv' /\ EditedStays
  <1>1. At(e, "idle") /\ UNCHANGED <<dirs, journal, delivered, faults>>
    BY DEF Begin
  <1>2. PICK b \in Bundles, overwrite \in BOOLEAN :
          export' = [export EXCEPT ![e] =
            [at |-> "load", next |-> "check", bundle |-> b, overwrite |-> overwrite,
             found |-> None, old |-> None, doomed |-> <<>>]]
    BY DEF Begin
  <1> DEFINE k == [at |-> "load", next |-> "check", bundle |-> b, overwrite |-> overwrite,
                   found |-> None, old |-> None, doomed |-> <<>>]
  <1>3. k \in BusyCalls /\ k.at = "load" /\ k.next = "check"
    BY DEF BusyCalls, BusySteps
  <1>4. export' = [export EXCEPT ![e] = k]
    BY <1>2
  <1> HIDE DEF k
  <1>5. Sensible(k)
    BY <1>3 DEF Sensible
  <1>6. /\ export' \in [Exporters -> EndedCalls \cup BusyCalls]
        /\ export'[e] = k /\ \A f \in Exporters \ {e} : export'[f] = export[f]
    BY <1>3, <1>4 DEF ExportInv, Typed
  <1>7. overlapped' \in BOOLEAN
    BY DEF Begin, ExportInv, Typed
  <1>8. Typed'
    <2>1. ASSUME NEW f \in Exporters, Live(f)' PROVE Sensible(export[f])'
      <3>1. CASE f = e
        BY <1>5, <1>6, <3>1
      <3>2. CASE f # e
        BY <1>6, <2>1, <3>2 DEF Live, ExportInv, Typed
      <3> QED BY <3>1, <3>2
    <2> QED BY <1>1, <1>6, <1>7, <2>1 DEF ExportInv, Typed
  <1>9. ASSUME NEW f \in Exporters PROVE Fresh(f)' /\ Own(f)'
    <2>1. CASE f = e
      <3>1. dirs[Staging(e)] = None /\ dirs[Backup(e)] = None
        BY <1>1 DEF ExportInv, Fresh
      <3>2. Fresh(e)'
        BY <1>1, <1>3, <1>6, <3>1 DEF Fresh, At
      <3>3. Own(e)'
        BY <1>1, <1>3, <1>6, <3>1, ExportAssumption DEF Own, At
      <3> QED BY <2>1, <3>2, <3>3
    <2>2. CASE f # e
      <3>1. export'[f] = export[f] /\ Fresh(f) /\ Own(f)
        BY <1>6, <2>2 DEF ExportInv
      <3> QED BY <1>1, <3>1 DEF Fresh, Own, At, Live
    <2> QED BY <2>1, <2>2
  <1> QED BY <1>1, <1>8, <1>9 DEF ExportInv, EditedStays

LEMMA EditKeeps ==
  ASSUME ExportInv, Edit
  PROVE  ExportInv' /\ \A d \in Directories : dirs[d] = Edited => dirs'[d] = Edited
  <1>1. /\ UNCHANGED <<journal, export, delivered, overlapped, faults>>
        /\ \A e \in Exporters : ~ Live(e)
    BY DEF Edit
  <1>2. PICK d \in Directories : Present(d) /\ dirs' = [dirs EXCEPT ![d] = Edited]
    BY DEF Edit
  <1>3. /\ dirs' \in [Directories -> Contents]
        /\ dirs'[d] = Edited /\ \A x \in Directories \ {d} : dirs'[x] = dirs[x]
    BY <1>2 DEF ExportInv, Typed, Contents
  <1>4. Typed'
    BY <1>1, <1>3 DEF ExportInv, Typed, Live
  <1>5. ASSUME NEW e \in Exporters PROVE Fresh(e)' /\ Own(e)'
    <2>1. ~ Live(e)' /\ export'[e] = export[e] /\ ~ Live(e)
      BY <1>1 DEF Live
    <2>2. Own(e)'
      BY <2>1 DEF Own, Live, At, Ends
    <2>3. Fresh(e)'
      <3>1. Staging(e) \in Directories /\ Backup(e) \in Directories
        BY Distinct DEF Sides
      <3> QED BY <1>2, <1>3, <2>1, <3>1 DEF ExportInv, Fresh, Live, At, Ends, Present
    <2> QED BY <2>2, <2>3
  <1> QED BY <1>3, <1>4, <1>5 DEF ExportInv

LEMMA InitKeeps == Init => ExportInv
  <1> SUFFICES ASSUME Init PROVE ExportInv
    OBVIOUS
  <1>1. PICK c \in Bundles \cup {None, Edited} :
          dirs = [x \in Directories |-> IF x = Target THEN c ELSE None] /\ delivered = c
    BY DEF Init
  <1>2. /\ journal = None /\ export = [e \in Exporters |-> Idle] /\ overlapped = FALSE /\ faults = 0
    BY DEF Init
  <1>3. Typed
    <2>1. Idle.at = "idle" /\ Idle \in EndedCalls
      BY DEF Idle, EndedCalls
    <2>2. dirs \in [Directories -> Contents] /\ delivered \in Contents
      BY <1>1 DEF Contents
    <2>3. export \in [Exporters -> EndedCalls \cup BusyCalls] /\ \A e \in Exporters : ~ Live(e)
      BY <1>2, <2>1 DEF Live
    <2>4. MaxFaults \in Nat
      BY ExportAssumption
    <2>5. faults \in 0 .. MaxFaults
      BY <1>2, <2>4
    <2>6. overlapped \in BOOLEAN /\ journal \in Journals \cup {None}
      BY <1>2
    <2> QED BY <2>2, <2>3, <2>5, <2>6 DEF Typed
  <1>4. ASSUME NEW e \in Exporters PROVE Fresh(e) /\ Own(e)
    <2>1. dirs[Staging(e)] = None /\ dirs[Backup(e)] = None /\ export[e].at = "idle"
      BY <1>1, <1>2, Distinct DEF Sides, Idle
    <2> QED BY <2>1 DEF Fresh, Own, Live, At
  <1> QED BY <1>3, <1>4 DEF ExportInv

LEMMA NextKeeps ==
  ASSUME ExportInv, [Next]_vars
  PROVE  ExportInv' /\ \A d \in Directories : dirs[d] = Edited => dirs'[d] = Edited
  <1>1. CASE UNCHANGED vars
    BY <1>1 DEF vars, ExportInv, Typed, Fresh, Own, Live, At
  <1>2. CASE Edit
    BY <1>2, EditKeeps
  <1>3. ASSUME NEW e \in Exporters, Begin(e) \/ (Step(e) /\ Framed) \/ Fail(e) \/ Die(e)
        PROVE  ExportInv' /\ EditedStays
    BY <1>3, BeginKeeps, StepKeeps, FailKeeps, DieKeeps
  <1> QED BY <1>1, <1>2, <1>3 DEF Next, Framed, EditedStays

\* The inductive invariant of the export: types, what a call knows at each of
\* its steps, and that the directories of a call are its own.
THEOREM ExportInvariant == Spec => []ExportInv
  <1>1. ExportInv /\ [Next]_vars => ExportInv'
    BY NextKeeps
  <1> QED BY <1>1, InitKeeps, PTL DEF Spec

\* The directories, the journal and the calls of an export keep their types.
THEOREM ExportTypes == Spec => []TypeOK
  BY ExportInvariant, TypedTypes, PTL DEF ExportInv

-----------------------------------------------------------------------------
(* Nothing is destroyed, even when calls overlap                             *)

\* A call is about to remove this directory; or none is.
Dooms(e, d) == Live(e) /\ \E i \in DOMAIN export[e].doomed : export[e].doomed[i].dir = d
Spared(d) == \A o \in Exporters : ~ Dooms(o, d)

\* A call that has not retired a target yet has never had a backup.
Unused(f) ==
  \/ At(f, "idle")
  \/ Live(f) /\ (export[f].next = "check"
                 \/ export[f].at \in {"make", "write", "place", "publish", "announce", "retire"})

\* Of the places of delivered bundles, one that holds something is spared.
Kept(p) == p \in Places /\ dirs[p] \in Bundles \cup {Edited} /\ Spared(p)
KeepInv ==
  /\ \A f \in Exporters : Unused(f) => Spared(Backup(f))
  /\ (\E p \in Places : dirs[p] \in Bundles) => \E p \in Places : Kept(p)

\* A step of a call that dooms nothing more, nor makes a backup unused again.
Quiet(e) ==
  /\ \A f \in Exporters \ {e} : export'[f] = export[f]
  /\ \A d \in Places : Dooms(e, d)' => Dooms(e, d)
  /\ Unused(e)' => Unused(e)

LEMMA QuietSpares ==
  ASSUME ExportInv, KeepInv, NEW e \in Exporters, Quiet(e)
  PROVE  /\ \A d \in Places : Spared(d) => Spared(d)'
         /\ \A f \in Exporters : Unused(f)' => Spared(Backup(f))'
  <1>1. ASSUME NEW d \in Places, Spared(d) PROVE Spared(d)'
    <2> SUFFICES ASSUME NEW o \in Exporters, Dooms(o, d)' PROVE FALSE
      BY DEF Spared
    <2>1. CASE o = e
      BY <1>1, <2>1 DEF Quiet, Spared
    <2>2. CASE o # e
      <3>1. export'[o] = export[o]
        BY <2>2 DEF Quiet
      <3>2. Dooms(o, d)
        BY <3>1 DEF Dooms, Live
      <3> QED BY <3>2, <1>1 DEF Spared
    <2> QED BY <2>1, <2>2
  <1>2. ASSUME NEW f \in Exporters, Unused(f)' PROVE Spared(Backup(f))'
    <2>1. Unused(f)
      <3>1. CASE f = e
        BY <1>2, <3>1 DEF Quiet
      <3>2. CASE f # e
        BY <1>2, <3>2 DEF Quiet, Unused, At, Live
      <3> QED BY <3>1, <3>2
    <2> QED BY <2>1, <1>1 DEF KeepInv, Places
  <1> QED BY <1>1, <1>2

LEMMA GoesQuiet ==
  ASSUME ExportInv, NEW e \in Exporters, Live(e), NEW step \in BusySteps, Goes(e, step),
         step \in {"make", "write", "place", "publish", "announce", "retire"} => Unused(e)
  PROVE  Quiet(e)
  <1>1. PICK k \in BusyCalls :
          /\ export' = [export EXCEPT ![e] = k] /\ export'[e] = k
          /\ k.at = step /\ k.next = export[e].next /\ k.doomed = export[e].doomed
    BY GoneOn
  <1>2. \A f \in Exporters \ {e} : export'[f] = export[f]
    BY <1>1 DEF ExportInv, Typed
  <1>3. \A d \in Places : Dooms(e, d)' => Dooms(e, d)
    BY <1>1 DEF Dooms
  <1>4. step # "idle"
    BY DEF BusySteps
  <1>5. Unused(e)' => Unused(e)
    BY <1>1, <1>4 DEF Unused, At
  <1> QED BY <1>2, <1>3, <1>5 DEF Quiet

LEMMA EndQuiet ==
  ASSUME ExportInv, NEW e \in Exporters, NEW step \in Ends, export' = [export EXCEPT ![e] = [at |-> step]]
  PROVE  Quiet(e)
  <1>1. export'[e].at = step /\ \A f \in Exporters \ {e} : export'[f] = export[f]
    BY DEF ExportInv, Typed
  <1> QED BY <1>1 DEF Quiet, Dooms, Unused, At, Live, Ends

LEMMA GoesEndQuiet ==
  ASSUME ExportInv, NEW e \in Exporters, Live(e), NEW step \in Ends, Goes(e, step)
  PROVE  Quiet(e)
  BY GoesTo, EndQuiet DEF ExportInv

\* A call that becomes another one, with no more to remove.
LEMMA BecomesQuiet ==
  ASSUME ExportInv, NEW e \in Exporters, Live(e), NEW k \in BusyCalls, export' = [export EXCEPT ![e] = k],
         \/ k.doomed = export[e].doomed \/ k.doomed = <<>>
         \/ export[e].doomed # <<>> /\ k.doomed = Tail(export[e].doomed),
         \/ Unused(e)
         \/ k.next # "check" /\ k.at \notin {"make", "write", "place", "publish", "announce", "retire"}
  PROVE  Quiet(e)
  <1>1. export'[e] = k /\ \A f \in Exporters \ {e} : export'[f] = export[f]
    BY DEF ExportInv, Typed
  <1>2. export[e].doomed \in Seq(SideRemovals)
    BY Here, BusyFields
  <1>3. ASSUME NEW d \in Places, Dooms(e, d)' PROVE Dooms(e, d)
    <2>1. PICK i \in DOMAIN k.doomed : k.doomed[i].dir = d
      BY <1>1, <1>3 DEF Dooms
    <2>2. CASE k.doomed = export[e].doomed
      BY <2>1, <2>2 DEF Dooms
    <2>3. CASE k.doomed = <<>>
      BY <2>1, <2>3
    <2>4. CASE export[e].doomed # <<>> /\ k.doomed = Tail(export[e].doomed)
      <3>1. i + 1 \in DOMAIN export[e].doomed /\ export[e].doomed[i + 1] = k.doomed[i]
        BY <1>2, <2>1, <2>4
      <3> QED BY <2>1, <3>1 DEF Dooms
    <2> QED BY <2>2, <2>3, <2>4
  <1>4. k.at # "idle"
    BY BusyFields DEF BusySteps
  <1>5. Unused(e)' => Unused(e)
    BY <1>1, <1>4 DEF Unused, At
  <1> QED BY <1>1, <1>3, <1>5 DEF Quiet

LEMMA RaiseQuiet ==
  ASSUME ExportInv, NEW e \in Exporters, Live(e), Raise(e)
  PROVE  Quiet(e)
  <1>1. CASE Handler(e) = "failed"
    <2>1. export' = [export EXCEPT ![e] = [at |-> "failed"]]
      BY <1>1 DEF Raise
    <2> QED BY <2>1, EndQuiet DEF Ends
  <1>2. CASE Handler(e) # "failed"
    <2> DEFINE h == Handler(e)
               k == [export[e] EXCEPT !.at = h, !.next = "cleanup", !.doomed = <<>>, !.found = None]
    <2>1. h \in {"load", "cleanup"}
      BY <1>2 DEF Handler
    <2>2. export' = [export EXCEPT ![e] = k]
      BY <1>2 DEF Raise, ExportInv, Typed
    <2>3. export[e] \in BusyCalls
      BY Here
    <2> HIDE DEF h
    <2>4. <<>> \in Seq(SideRemovals)
      OBVIOUS
    <2>5. k \in BusyCalls /\ k.at = h /\ k.next = "cleanup" /\ k.doomed = <<>>
      BY <2>1, <2>3, <2>4 DEF BusyCalls, BusySteps
    <2> HIDE DEF k
    <2>6. export'[e] = k /\ \A f \in Exporters \ {e} : export'[f] = export[f]
      BY <2>2 DEF ExportInv, Typed
    <2> QED BY <2>1, <2>5, <2>6 DEF Quiet, Dooms, Unused, At
  <1> QED BY <1>1, <1>2

\* What is delivered is not lost by a step.
Delivered == \E p \in Places : dirs[p] \in Bundles
StillThere == Delivered => \E p \in Places : dirs'[p] \in Bundles \cup {Edited}

LEMMA KeptThere ==
  ASSUME KeepInv, (\E p \in Places : Kept(p)) => \E p \in Places : Kept(p)',
         Delivered' => Delivered \/ \E p \in Places : Kept(p)',
         \A f \in Exporters : Unused(f)' => Spared(Backup(f))'
  PROVE  KeepInv' /\ StillThere
  <1>1. Delivered => \E p \in Places : Kept(p)'
    BY DEF KeepInv, Delivered
  <1>2. StillThere
    BY <1>1 DEF StillThere, Kept
  <1> QED BY <1>1, <1>2 DEF KeepInv, Delivered

\* A step that changes no place but one that the call was to remove.
LEMMA SamePlaces ==
  ASSUME ExportInv, KeepInv, NEW e \in Exporters, Quiet(e),
         \A p \in Places : dirs'[p] = dirs[p] \/ (Dooms(e, p) /\ dirs'[p] \in {None, Partial})
  PROVE  KeepInv' /\ StillThere
  <1>1. ASSUME NEW p \in Places, Kept(p) PROVE Kept(p)'
    <2>1. Spared(p) /\ ~ Dooms(e, p)
      BY <1>1 DEF Kept, Spared
    <2>2. dirs'[p] = dirs[p] /\ Spared(p)'
      BY <2>1, QuietSpares
    <2> QED BY <1>1, <2>2 DEF Kept, Places
  <1>2. Delivered' => Delivered
    BY ExportAssumption DEF Delivered, Places
  <1> QED BY <1>1, <1>2, QuietSpares, KeptThere

\* A rename into a place that no call is about to remove.
LEMMA MovedPlaces ==
  ASSUME ExportInv, KeepInv, NEW e \in Exporters, Quiet(e), NEW from, NEW to \in Places,
         dirs[to] = None, dirs'[to] = dirs[from], dirs'[from] = None, Spared(to),
         \A p \in Places \ {from, to} : dirs'[p] = dirs[p]
  PROVE  KeepInv' /\ StillThere
  <1>1. Spared(to)'
    BY QuietSpares
  <1>2. ASSUME NEW p \in Places, Kept(p) PROVE \E q \in Places : Kept(q)'
    <2>1. p # to
      BY <1>2, ExportAssumption DEF Kept
    <2>2. CASE p = from
      BY <1>1, <1>2, <2>2 DEF Kept, Places
    <2>3. CASE p # from
      <3>1. dirs'[p] = dirs[p] /\ Spared(p)'
        BY <1>2, <2>1, <2>3, QuietSpares DEF Kept
      <3> QED BY <1>2, <3>1 DEF Kept, Places
    <2> QED BY <2>2, <2>3
  <1>3. ASSUME NEW p \in Places, dirs'[p] \in Bundles
        PROVE  Delivered \/ \E q \in Places : Kept(q)'
    <2>1. CASE p = to
      BY <1>1, <1>3, <2>1 DEF Kept, Places
    <2>2. CASE p # to /\ p # from
      BY <1>3, <2>2 DEF Delivered
    <2>3. CASE p = from
      BY <1>3, <2>3, ExportAssumption
    <2> QED BY <2>1, <2>2, <2>3
  <1>4. (\E p \in Places : Kept(p)) => \E p \in Places : Kept(p)'
    BY <1>2
  <1>5. Delivered' => Delivered \/ \E p \in Places : Kept(p)'
    BY <1>3 DEF Delivered, Places
  <1> QED BY <1>4, <1>5, QuietSpares, KeptThere

LEMMA TargetSpared ==
  ASSUME ExportInv
  PROVE  Target \in Places /\ Spared(Target)
  <1>1. ASSUME NEW o \in Exporters, Dooms(o, Target) PROVE FALSE
    <2>1. Live(o)
      BY <1>1 DEF Dooms
    <2>2. export[o].doomed \in Seq(SideRemovals)
      BY <2>1, Here, BusyFields
    <2>3. PICK i \in DOMAIN export[o].doomed : export[o].doomed[i].dir = Target
      BY <1>1 DEF Dooms
    <2>4. export[o].doomed[i] \in SideRemovals
      BY <2>2, <2>3
    <2> QED BY <2>3, <2>4 DEF SideRemovals, Sides
  <1> QED BY <1>1 DEF Spared, Places

LEMMA StagingNoPlace ==
  ASSUME NEW e \in Exporters
  PROVE  /\ Staging(e) \notin Places /\ Staging(e) \in Directories
         /\ Backup(e) \in Places /\ Backup(e) # Target /\ Places \subseteq Directories
  BY Distinct DEF Places, Sides

\* A step that changes no directory, or only the staging directory of its call.
LEMMA AsidePlaces ==
  ASSUME ExportInv, KeepInv, NEW e \in Exporters, Quiet(e),
         UNCHANGED dirs \/ \E c : dirs' = [dirs EXCEPT ![Staging(e)] = c]
  PROVE  KeepInv' /\ StillThere
  <1>1. \A p \in Places : dirs'[p] = dirs[p]
    BY StagingNoPlace DEF ExportInv, Typed
  <1> QED BY <1>1, SamePlaces

LEMMA RaisePlaces ==
  ASSUME ExportInv, KeepInv, NEW e \in Exporters, Live(e), Raise(e)
  PROVE  KeepInv' /\ StillThere
  BY RaiseQuiet, AsidePlaces DEF Raise

\* The call of a step is live, and what it doomed is a sequence.
LEMMA StepLive ==
  ASSUME ExportInv, NEW e \in Exporters, Step(e)
  PROVE  Live(e) /\ export[e] \in BusyCalls /\ export[e].doomed \in Seq(SideRemovals)
  <1>1. Live(e)
    BY DEF Step, Load, Look, Restore, Unjournal, Remove, Erase, Removed, Recovered, Check, Make,
           Write, Place, Publish, Announce, Retire, VerifyBackup, Install, Verify, CleanUp, Cleaned,
           At, Live, Ends
  <1> QED BY <1>1, Here, BusyFields

LEMMA GoesAnyQuiet ==
  ASSUME ExportInv, NEW e \in Exporters, Live(e), Goes(e, export[e].next)
  PROVE  Quiet(e)
  <1>1. export[e].next \in {"check", "cleanup", "done"}
    BY Here
  <1>2. CASE export[e].next = "done"
    BY <1>2, GoesEndQuiet DEF Ends
  <1>3. CASE export[e].next # "done"
    <2>1. export[e].next \in BusySteps
      BY <1>1, <1>3 DEF BusySteps
    <2> QED BY <1>1, <1>3, <2>1, GoesQuiet
  <1> QED BY <1>2, <1>3

\* Steps that change no place.
LEMMA LoadPlaces ==
  ASSUME ExportInv, KeepInv, NEW e \in Exporters, Load(e)
  PROVE  KeepInv' /\ StillThere
  <1>1. Live(e) /\ UNCHANGED dirs /\ At(e, "load")
    BY StepLive DEF Step, Load
  <1>2. CASE journal = None
    BY <1>1, <1>2, GoesAnyQuiet, AsidePlaces DEF Load
  <1>3. CASE journal # None
    <2> DEFINE k == [export[e] EXCEPT !.at = "look", !.found = journal]
    <2>1. journal \in Journals
      BY <1>3, <1>1, Here
    <2>2. export' = [export EXCEPT ![e] = k]
      BY <1>3, <1>1 DEF Load, ExportInv, Typed
    <2>3. k \in BusyCalls /\ k.at = "look" /\ k.next = export[e].next /\ k.doomed = export[e].doomed
      BY <1>1, <2>1, Here DEF BusyCalls, BusySteps
    <2> HIDE DEF k
    <2>4. Unused(e) \/ k.next # "check"
      BY <1>1, <2>3 DEF Unused
    <2> QED BY <1>1, <2>2, <2>3, <2>4, BecomesQuiet, AsidePlaces
  <1> QED BY <1>2, <1>3

LEMMA UnjournalPlaces ==
  ASSUME ExportInv, KeepInv, NEW e \in Exporters, Unjournal(e)
  PROVE  KeepInv' /\ StillThere
  <1>1. Live(e)
    BY StepLive DEF Step
  <1>2. CASE journal = None
    BY <1>1, <1>2, RaisePlaces DEF Unjournal
  <1>3. CASE journal # None
    <2> DEFINE next == IF At(e, "finish") THEN "done" ELSE export[e].next
               k == [export[e] EXCEPT !.next = next, !.at = "remove"]
    <2>1. UNCHANGED dirs
      BY <1>3 DEF Unjournal
    <2>2. export' = [export EXCEPT ![e] = k]
      BY <1>3, <1>1 DEF Unjournal, ExportInv, Typed, At
    <2>3. next \in {export[e].next, "done"}
      OBVIOUS
    <2> HIDE DEF next
    <2>4. k \in BusyCalls /\ k.at = "remove" /\ k.next = next /\ k.doomed = export[e].doomed
      BY <1>1, <2>3, Here DEF BusyCalls, BusySteps
    <2> HIDE DEF k
    <2>5. Unused(e) \/ k.next # "check"
      BY <1>1, <2>3, <2>4 DEF Unused
    <2> QED BY <1>1, <2>1, <2>2, <2>4, <2>5, BecomesQuiet, AsidePlaces
  <1> QED BY <1>2, <1>3

LEMMA RecoveredPlaces ==
  ASSUME ExportInv, KeepInv, NEW e \in Exporters, Recovered(e)
  PROVE  KeepInv' /\ StillThere
  BY StepLive, GoesAnyQuiet, AsidePlaces DEF Step, Recovered

LEMMA CheckPlaces ==
  ASSUME ExportInv, KeepInv, NEW e \in Exporters, Check(e)
  PROVE  KeepInv' /\ StillThere
  <1>1. Live(e) /\ At(e, "check")
    BY StepLive DEF Step, Check
  <1>2. CASE Present(Target) /\ ~ MayReplace(e)
    BY <1>1, <1>2, RaisePlaces DEF Check
  <1>3. CASE ~ (Present(Target) /\ ~ MayReplace(e))
    <2> DEFINE k == [export[e] EXCEPT !.at = "make", !.next = "cleanup"]
    <2>1. UNCHANGED dirs /\ export' = [export EXCEPT ![e] = k]
      BY <1>3 DEF Check, ExportInv, Typed
    <2>2. k \in BusyCalls /\ k.doomed = export[e].doomed
      BY <1>1, Here DEF BusyCalls, BusySteps
    <2> HIDE DEF k
    <2>3. Unused(e)
      BY <1>1, Here DEF Unused, Sensible, At
    <2> QED BY <1>1, <2>1, <2>2, <2>3, BecomesQuiet, AsidePlaces
  <1> QED BY <1>2, <1>3

LEMMA PlacePlaces ==
  ASSUME ExportInv, KeepInv, NEW e \in Exporters, Place(e)
  PROVE  KeepInv' /\ StillThere
  <1>1. Live(e) /\ Unused(e)
    BY StepLive DEF Step, Place, Unused, At
  <1>2. CASE ~ Present(Target)
    <2>1. Goes(e, "publish") /\ UNCHANGED dirs /\ "publish" \in BusySteps
      BY <1>2 DEF Place, BusySteps
    <2> QED BY <1>1, <2>1, GoesQuiet, AsidePlaces
  <1>3. CASE Present(Target) /\ MayReplace(e)
    <2> DEFINE k == [export[e] EXCEPT !.at = "announce", !.old = dirs[Target]]
    <2>1. UNCHANGED dirs /\ export' = [export EXCEPT ![e] = k]
      BY <1>3 DEF Place, ExportInv, Typed
    <2>2. k \in BusyCalls /\ k.doomed = export[e].doomed
      BY <1>1, <1>3, Here DEF BusyCalls, BusySteps, MayReplace, IsBundle
    <2> HIDE DEF k
    <2> QED BY <1>1, <2>1, <2>2, BecomesQuiet, AsidePlaces
  <1>4. CASE Present(Target) /\ ~ MayReplace(e)
    BY <1>1, <1>4, RaisePlaces DEF Place
  <1> QED BY <1>2, <1>3, <1>4

LEMMA AnnouncePlaces ==
  ASSUME ExportInv, KeepInv, NEW e \in Exporters, Announce(e)
  PROVE  KeepInv' /\ StillThere
  <1>1. Live(e) /\ Unused(e)
    BY StepLive DEF Step, Announce, Unused, At
  <1>2. CASE journal # None
    BY <1>1, <1>2, RaisePlaces DEF Announce
  <1>3. CASE journal = None
    <2>1. Goes(e, "retire") /\ UNCHANGED dirs /\ "retire" \in BusySteps
      BY <1>3 DEF Announce, BusySteps
    <2> QED BY <1>1, <2>1, GoesQuiet, AsidePlaces
  <1> QED BY <1>2, <1>3

LEMMA VerifyBackupPlaces ==
  ASSUME ExportInv, KeepInv, NEW e \in Exporters, VerifyBackup(e)
  PROVE  KeepInv' /\ StillThere
  <1>1. Live(e)
    BY StepLive DEF Step
  <1>2. CASE dirs[Backup(e)] # export[e].old
    BY <1>1, <1>2, RaisePlaces DEF VerifyBackup
  <1>3. CASE dirs[Backup(e)] = export[e].old
    <2>1. Goes(e, "install") /\ UNCHANGED dirs /\ "install" \in BusySteps
      BY <1>3 DEF VerifyBackup, BusySteps
    <2> QED BY <1>1, <2>1, GoesQuiet, AsidePlaces
  <1> QED BY <1>2, <1>3

\* Steps that change the staging directory of their call.
LEMMA StagingPlaces ==
  ASSUME ExportInv, KeepInv, NEW e \in Exporters, Make(e) \/ Write(e) \/ CleanUp(e) \/ Cleaned(e)
  PROVE  KeepInv' /\ StillThere
  <1>1. Live(e)
    BY StepLive DEF Step
  <1>2. CASE Make(e)
    <2>1. Goes(e, "write") /\ "write" \in BusySteps /\ Unused(e)
      BY <1>1, <1>2 DEF Make, BusySteps, Unused, At
    <2> QED BY <1>1, <1>2, <2>1, GoesQuiet, AsidePlaces DEF Make
  <1>3. CASE Write(e)
    <2>1. Goes(e, "place") /\ "place" \in BusySteps /\ Unused(e)
      BY <1>1, <1>3 DEF Write, BusySteps, Unused, At
    <2> QED BY <1>1, <1>3, <2>1, GoesQuiet, AsidePlaces DEF Write
  <1>4. CASE CleanUp(e)
    <2>1. "cleaning" \in BusySteps /\ "failed" \in Ends
      BY DEF BusySteps, Ends
    <2>2. CASE Discards(e)
      BY <1>1, <1>4, <2>1, <2>2, GoesQuiet, AsidePlaces DEF CleanUp
    <2>3. CASE ~ Discards(e)
      BY <1>1, <1>4, <2>1, <2>3, GoesEndQuiet, AsidePlaces DEF CleanUp
    <2> QED BY <2>2, <2>3
  <1>5. CASE Cleaned(e)
    <2>1. Goes(e, "failed") /\ "failed" \in Ends
      BY <1>5 DEF Cleaned, Ends
    <2> QED BY <1>1, <1>5, <2>1, GoesEndQuiet, AsidePlaces DEF Cleaned
  <1> QED BY <1>2, <1>3, <1>4, <1>5

\* Steps that remove a directory their call was to remove.
LEMMA HeadDoomed ==
  ASSUME ExportInv, NEW e \in Exporters, Live(e), export[e].doomed # <<>>,
         export[e].doomed \in Seq(SideRemovals)
  PROVE  Dooms(e, Head(export[e].doomed).dir)
  <1>1. 1 \in DOMAIN export[e].doomed /\ Head(export[e].doomed) = export[e].doomed[1]
    OBVIOUS
  <1> QED BY <1>1 DEF Dooms

LEMMA RemovePlaces ==
  ASSUME ExportInv, KeepInv, NEW e \in Exporters, Remove(e)
  PROVE  KeepInv' /\ StillThere
  <1> DEFINE r == Head(export[e].doomed)
  <1>1. Live(e)
    BY StepLive DEF Step
  <1>2. CASE ~ Validates(r)
    BY <1>1, <1>2, RaisePlaces DEF Remove
  <1>3. CASE Validates(r)
    <2>1. Goes(e, "erase") /\ UNCHANGED dirs /\ "erase" \in BusySteps
      BY <1>3 DEF Remove, BusySteps
    <2> QED BY <1>1, <2>1, GoesQuiet, AsidePlaces
  <1> QED BY <1>2, <1>3

LEMMA ErasePlaces ==
  ASSUME ExportInv, KeepInv, NEW e \in Exporters, Erase(e)
  PROVE  KeepInv' /\ StillThere
  <1> DEFINE d == Head(export[e].doomed).dir
  <1>1. Live(e) /\ At(e, "erase") /\ export[e].doomed \in Seq(SideRemovals)
    BY StepLive DEF Step, Erase
  <1>2. CASE ~ Present(d)
    BY <1>1, <1>2, RaisePlaces DEF Erase
  <1>3. CASE Present(d)
    <2>1. dirs' = [dirs EXCEPT ![d] = Partial] /\ Goes(e, "removing") /\ "removing" \in BusySteps
      BY <1>3 DEF Erase, BusySteps
    <2>2. Dooms(e, d)
      BY <1>1, HeadDoomed, Here DEF Sensible, At
    <2>3. Quiet(e)
      BY <1>1, <2>1, GoesQuiet
    <2>4. \A p \in Places : dirs'[p] = dirs[p] \/ (Dooms(e, p) /\ dirs'[p] \in {None, Partial})
      BY <2>1, <2>2, StagingNoPlace DEF ExportInv, Typed, Places, Directories
    <2> QED BY <2>3, <2>4, SamePlaces
  <1> QED BY <1>2, <1>3

LEMMA RemovedPlaces ==
  ASSUME ExportInv, KeepInv, NEW e \in Exporters, Removed(e)
  PROVE  KeepInv' /\ StillThere
  <1> DEFINE d == Head(export[e].doomed).dir
             k == [export[e] EXCEPT !.at = "remove", !.doomed = Tail(export[e].doomed)]
  <1>1. Live(e) /\ At(e, "removing") /\ export[e].doomed \in Seq(SideRemovals)
    BY StepLive DEF Step, Removed
  <1>2. export[e].doomed # <<>>
    BY <1>1, Here DEF Sensible, At
  <1>3. dirs' = [dirs EXCEPT ![d] = None] /\ export' = [export EXCEPT ![e] = k]
    BY DEF Removed, ExportInv, Typed
  <1>4. Dooms(e, d)
    BY <1>1, <1>2, HeadDoomed
  <1>5. Tail(export[e].doomed) \in Seq(SideRemovals)
    BY <1>1, <1>2
  <1>6. /\ k \in BusyCalls /\ k.at = "remove" /\ k.next = export[e].next
        /\ k.doomed = Tail(export[e].doomed)
    BY <1>1, <1>5, Here DEF BusyCalls, BusySteps
  <1> HIDE DEF d, k
  <1>7. Unused(e) \/ k.next # "check"
    BY <1>1, <1>6 DEF Unused
  <1>8. Quiet(e)
    BY <1>1, <1>2, <1>3, <1>6, <1>7, BecomesQuiet
  <1>9. \A p \in Places : dirs'[p] = dirs[p] \/ (Dooms(e, p) /\ dirs'[p] \in {None, Partial})
    BY <1>3, <1>4 DEF ExportInv, Typed, Places, Directories
  <1> QED BY <1>8, <1>9, SamePlaces

\* Steps that rename a directory.
LEMMA MovePlaces ==
  ASSUME ExportInv, KeepInv, NEW e \in Exporters, Quiet(e), NEW from \in Directories, NEW to \in Places,
         from # to, CanMove(from, to), Move(from, to), Spared(to)
  PROVE  KeepInv' /\ StillThere
  <1>1. to \in Directories
    BY DEF Places, Directories
  <1>2. /\ dirs[to] = None /\ dirs'[to] = dirs[from] /\ dirs'[from] = None
        /\ \A p \in Places \ {from, to} : dirs'[p] = dirs[p]
    BY <1>1 DEF ExportInv, Typed, CanMove, Move, Present, Places, Directories
  <1> QED BY <1>2, MovedPlaces

LEMMA RestorePlaces ==
  ASSUME ExportInv, KeepInv, NEW e \in Exporters, Restore(e)
  PROVE  KeepInv' /\ StillThere
  <1> DEFINE backup == Backup(export[e].found.owner)
  <1>1. Live(e) /\ At(e, "restore")
    BY StepLive DEF Step, Restore
  <1>2. CASE ~ CanMove(backup, Target)
    BY <1>1, <1>2, RaisePlaces DEF Restore
  <1>3. CASE CanMove(backup, Target)
    <2>1. Move(backup, Target) /\ Goes(e, "unjournal") /\ "unjournal" \in BusySteps
      BY <1>3 DEF Restore, BusySteps
    <2>2. backup \in Sides
      BY <1>1, OwnDirectories DEF ExportInv
    <2>3. backup \in Directories /\ backup # Target
      BY <2>2 DEF Sides
    <2> HIDE DEF backup
    <2>4. Quiet(e)
      BY <1>1, <2>1, GoesQuiet
    <2> QED BY <1>3, <2>1, <2>3, <2>4, TargetSpared, MovePlaces
  <1> QED BY <1>2, <1>3

LEMMA PublishPlaces ==
  ASSUME ExportInv, KeepInv, NEW e \in Exporters, Publish(e) \/ Install(e)
  PROVE  KeepInv' /\ StillThere
  <1>1. Live(e) /\ Staging(e) \in Directories /\ Staging(e) # Target
    BY StepLive, StagingNoPlace, Distinct DEF Step
  <1>2. CASE ~ CanMove(Staging(e), Target)
    BY <1>1, <1>2, RaisePlaces DEF Publish, Install
  <1>3. CASE CanMove(Staging(e), Target)
    <2>1. Move(Staging(e), Target)
      BY <1>3 DEF Publish, Install
    <2>2. CASE Publish(e)
      <3>1. Goes(e, "done") /\ "done" \in Ends
        BY <1>3, <2>2 DEF Publish, Ends
      <3>2. Quiet(e)
        BY <1>1, <3>1, GoesEndQuiet
      <3> QED BY <1>1, <1>3, <2>1, <3>2, TargetSpared, MovePlaces
    <2>3. CASE Install(e)
      <3>1. Goes(e, "verify") /\ "verify" \in BusySteps
        BY <1>3, <2>3 DEF Install, BusySteps
      <3>2. Quiet(e)
        BY <1>1, <3>1, GoesQuiet
      <3> QED BY <1>1, <1>3, <2>1, <3>2, TargetSpared, MovePlaces
    <2> QED BY <2>2, <2>3
  <1> QED BY <1>2, <1>3

LEMMA RetirePlaces ==
  ASSUME ExportInv, KeepInv, NEW e \in Exporters, Retire(e)
  PROVE  KeepInv' /\ StillThere
  <1>1. Live(e) /\ Unused(e)
    BY StepLive DEF Step, Retire, Unused, At
  <1>2. CASE ~ CanMove(Target, Backup(e))
    BY <1>1, <1>2, RaisePlaces DEF Retire
  <1>3. CASE CanMove(Target, Backup(e))
    <2>1. Move(Target, Backup(e)) /\ Goes(e, "verify_backup") /\ "verify_backup" \in BusySteps
      BY <1>3 DEF Retire, BusySteps
    <2>2. Spared(Backup(e))
      BY <1>1 DEF KeepInv
    <2>3. Quiet(e)
      BY <1>1, <2>1, GoesQuiet
    <2>4. Target \in Directories
      BY DEF Directories
    <2> QED BY <1>3, <2>1, <2>2, <2>3, <2>4, StagingNoPlace, MovePlaces
  <1> QED BY <1>2, <1>3

\* Steps that doom a backup: a bundle is at the target.
LEMMA DoomingPlaces ==
  ASSUME ExportInv, KeepInv, NEW e \in Exporters, UNCHANGED dirs,
         dirs[Target] \in Bundles, ~ Dooms(e, Target)',
         \A f \in Exporters \ {e} : export'[f] = export[f],
         Unused(e)' => Unused(e),
         \A f \in Exporters : Dooms(e, Backup(f))' => ~ Unused(f)'
  PROVE  KeepInv' /\ StillThere
  <1>1. Kept(Target)'
    <2>1. ASSUME NEW o \in Exporters \ {e}, Dooms(o, Target)' PROVE FALSE
      BY <2>1, TargetSpared DEF Spared, Dooms, Live
    <2>2. Spared(Target)'
      BY <2>1 DEF Spared
    <2>3. Target' = Target /\ Target \in Places'
      BY TargetSpared DEF Target, Places
    <2> QED BY <2>2, <2>3 DEF Kept, Target
  <1>2. ASSUME NEW f \in Exporters, Unused(f)' PROVE Spared(Backup(f))'
    <2>1. Unused(f)
      BY <1>2 DEF Unused, At, Live
    <2>2. Spared(Backup(f))
      BY <2>1 DEF KeepInv
    <2>3. ASSUME NEW o \in Exporters \ {e}, Dooms(o, Backup(f))' PROVE FALSE
      BY <2>2, <2>3 DEF Spared, Dooms, Live
    <2> QED BY <1>2, <2>3 DEF Spared
  <1>3. (\E p \in Places : Kept(p))'
    BY <1>1 DEF Kept
  <1> QED BY <1>2, <1>3, KeptThere

LEMMA VerifyPlaces ==
  ASSUME ExportInv, KeepInv, NEW e \in Exporters, Verify(e)
  PROVE  KeepInv' /\ StillThere
  <1>1. Live(e) /\ At(e, "verify") /\ export[e].next = "cleanup"
    <2>1. Live(e) /\ At(e, "verify")
      BY StepLive DEF Step, Verify
    <2> QED BY <2>1, Here DEF Sensible, At
  <1>2. CASE dirs[Target] # export[e].bundle
    BY <1>1, <1>2, RaisePlaces DEF Verify
  <1>3. CASE dirs[Target] = export[e].bundle
    <2> DEFINE r == [dir |-> Backup(e), digest |-> export[e].old]
               k == [export[e] EXCEPT !.at = "finish", !.doomed = <<r>>]
    <2>1. UNCHANGED dirs /\ export' = [export EXCEPT ![e] = k]
      BY <1>3 DEF Verify, ExportInv, Typed
    <2>2. dirs[Target] \in Bundles
      BY <1>1, <1>3, Here, BusyFields
    <2>3. k.at = "finish" /\ k.next = "cleanup" /\ k.doomed = <<r>>
      BY <1>1, Here DEF BusyCalls
    <2>4. r.dir = Backup(e)
      OBVIOUS
    <2> HIDE DEF r, k
    <2>5. export'[e] = k /\ \A f \in Exporters \ {e} : export'[f] = export[f]
      BY <2>1 DEF ExportInv, Typed
    <2>6. ~ Unused(e)'
      BY <2>3, <2>5 DEF Unused, At
    <2>7. ASSUME NEW f \in Exporters, Dooms(e, Backup(f))' PROVE f = e
      <3>1. PICK i \in DOMAIN k.doomed : k.doomed[i].dir = Backup(f)
        BY <2>5, <2>7 DEF Dooms
      <3>2. k.doomed[i] = r
        BY <2>3, <3>1
      <3> QED BY <2>4, <3>1, <3>2, Distinct
    <2>8. ~ Dooms(e, Target)'
      BY <2>3, <2>4, <2>5, Distinct DEF Dooms
    <2> QED BY <2>1, <2>2, <2>5, <2>6, <2>7, <2>8, DoomingPlaces
  <1> QED BY <1>2, <1>3

LEMMA UnusedAbsent ==
  ASSUME ExportInv, NEW f \in Exporters, Unused(f)
  PROVE  dirs[Backup(f)] = None
  BY DEF ExportInv, Fresh, Unused, At

LEMMA DoomedValid ==
  ASSUME NEW r, NEW i \in DOMAIN Doomed(r)
  PROVE  Doomed(r)[i] = r /\ dirs[r.dir] = r.digest
  BY DEF Doomed, Validates

\* What a recovery dooms is there; a backup only while a bundle is at the target.
LEMMA RecoveryDooms ==
  ASSUME ExportInv, NEW j \in Journals, Recovery(j) # Refusal
  PROVE  /\ \A i \in DOMAIN Recovery(j).doomed : dirs[Recovery(j).doomed[i].dir] \in Bundles
         /\ \/ Recovery(j).kind = "keep" /\ dirs[Target] \in Bundles
            \/ \A i \in DOMAIN Recovery(j).doomed : Recovery(j).doomed[i].dir = Staging(j.owner)
  <1> DEFINE old == [dir |-> Backup(j.owner), digest |-> j.old]
             new == [dir |-> Staging(j.owner), digest |-> j.new]
             a == Doomed(old) \o Doomed(new)
             b == Doomed(new)
  <1>1. j.owner \in Exporters /\ j.old \in Bundles /\ j.new \in Bundles
    BY DEF Journals
  <1>2. /\ old.digest \in Bundles /\ new.digest \in Bundles /\ new.dir = Staging(j.owner)
        /\ old \in SideRemovals /\ new \in SideRemovals
    BY <1>1, Distinct DEF SideRemovals
  <1>3. \/ Recovery(j) = [kind |-> "keep", doomed |-> a] /\ dirs[Target] \in Bundles
        \/ Recovery(j) = [kind |-> "keep", doomed |-> b] /\ dirs[Target] \in Bundles
        \/ Recovery(j) = [kind |-> "restore", doomed |-> b]
    BY <1>1 DEF Recovery
  <1> HIDE DEF old, new
  <1>4. \A i \in DOMAIN b : dirs[b[i].dir] \in Bundles /\ b[i].dir = Staging(j.owner)
    <2> SUFFICES ASSUME NEW i \in DOMAIN b PROVE dirs[b[i].dir] \in Bundles /\ b[i].dir = Staging(j.owner)
      OBVIOUS
    <2>1. b[i] = new /\ dirs[new.dir] = new.digest
      BY DoomedValid
    <2> QED BY <1>2, <2>1
  <1>5. \A i \in DOMAIN a : dirs[a[i].dir] \in Bundles
    <2> SUFFICES ASSUME NEW i \in DOMAIN a PROVE dirs[a[i].dir] \in Bundles
      OBVIOUS
    <2>1. Doomed(old) \in Seq(SideRemovals) /\ Doomed(new) \in Seq(SideRemovals)
      BY <1>2, DoomedTyped
    <2>2. CASE i \in DOMAIN Doomed(old)
      <3>1. a[i] = Doomed(old)[i]
        BY <2>1, <2>2
      <3>2. Doomed(old)[i] = old /\ dirs[old.dir] = old.digest
        BY <2>2, DoomedValid
      <3> QED BY <1>2, <3>1, <3>2
    <2>3. CASE i \notin DOMAIN Doomed(old)
      <3>1. i - Len(Doomed(old)) \in DOMAIN b /\ a[i] = b[i - Len(Doomed(old))]
        BY <2>1, <2>3
      <3> QED BY <3>1, <1>4
    <2> QED BY <2>2, <2>3
  <1> HIDE DEF a, b
  <1>6. CASE Recovery(j) = [kind |-> "keep", doomed |-> a] /\ dirs[Target] \in Bundles
    BY <1>5, <1>6
  <1>7. CASE Recovery(j) = [kind |-> "keep", doomed |-> b] /\ dirs[Target] \in Bundles
    BY <1>4, <1>7
  <1>8. CASE Recovery(j) = [kind |-> "restore", doomed |-> b]
    BY <1>4, <1>8
  <1> QED BY <1>3, <1>6, <1>7, <1>8

LEMMA LookPlaces ==
  ASSUME ExportInv, KeepInv, NEW e \in Exporters, Look(e)
  PROVE  KeepInv' /\ StillThere
  <1>1. At(e, "look") /\ Live(e) /\ export[e].found \in Journals
    <2>1. At(e, "look") /\ Live(e)
      BY DEF Look, At, Live, Ends
    <2> QED BY <2>1, Here DEF Sensible, At
  <1> DEFINE j == export[e].found
  <1>2. CASE Recovery(j) = Refusal
    BY <1>1, <1>2, RaisePlaces DEF Look
  <1>3. CASE Recovery(j) # Refusal
    <2> DEFINE step == IF Recovery(j).kind = "restore" THEN "restore" ELSE "unjournal"
               q == Recovery(j).doomed
               k == [export[e] EXCEPT !.at = step, !.doomed = q]
    <2>1. UNCHANGED dirs /\ export' = [export EXCEPT ![e] = k]
      BY <1>3, <1>1 DEF Look, ExportInv, Typed
    <2>2. q \in Seq(SideRemovals)
      BY <1>1, <1>3, RecoveryTyped
    <2>3. /\ \A i \in DOMAIN q : dirs[q[i].dir] \in Bundles
          /\ \/ dirs[Target] \in Bundles
             \/ \A i \in DOMAIN q : q[i].dir = Staging(j.owner)
      BY <1>1, <1>3, RecoveryDooms
    <2>4. j.owner \in Exporters
      BY <1>1 DEF Journals
    <2>5. step \in {"restore", "unjournal"}
      OBVIOUS
    <2> HIDE DEF step, q, j
    <2>6. k.at = step /\ k.doomed = q /\ k.next = export[e].next
      BY <1>1, Here DEF BusyCalls
    <2> HIDE DEF k
    <2>7. export'[e] = k /\ \A f \in Exporters \ {e} : export'[f] = export[f]
      BY <2>1 DEF ExportInv, Typed
    <2>8. Unused(e)' => Unused(e)
      BY <1>1, <2>5, <2>6, <2>7 DEF Unused, At
    <2>9. CASE dirs[Target] \in Bundles
      <3>1. ASSUME Dooms(e, Target)' PROVE FALSE
        <4>1. PICK i \in DOMAIN q : q[i].dir = Target
          BY <2>6, <2>7, <3>1 DEF Dooms, Target
        <4>2. q[i] \in SideRemovals
          BY <2>2, <4>1
        <4> QED BY <4>1, <4>2 DEF SideRemovals, Sides
      <3>2. ASSUME NEW f \in Exporters, Dooms(e, Backup(f))', Unused(f)' PROVE FALSE
        <4>1. PICK i \in DOMAIN q : q[i].dir = Backup(f)
          BY <2>6, <2>7, <3>2 DEF Dooms, Backup
        <4>2. dirs[Backup(f)] \in Bundles
          BY <2>3, <4>1
        <4>3. Unused(f)
          <5>1. CASE f = e
            BY <2>8, <3>2, <5>1
          <5>2. CASE f # e
            BY <2>7, <3>2, <5>2 DEF Unused, At, Live
          <5> QED BY <5>1, <5>2
        <4> QED BY <4>2, <4>3, UnusedAbsent, ExportAssumption
      <3> QED BY <2>1, <2>7, <2>8, <2>9, <3>1, <3>2, DoomingPlaces
    <2>10. CASE \A i \in DOMAIN q : q[i].dir = Staging(j.owner)
      <3>1. \A d \in Places : ~ Dooms(e, d)'
        BY <2>4, <2>6, <2>7, <2>10, StagingNoPlace DEF Dooms
      <3>2. Quiet(e)
        BY <2>7, <2>8, <3>1 DEF Quiet
      <3> QED BY <2>1, <3>2, AsidePlaces
    <2> QED BY <2>3, <2>9, <2>10
  <1> QED BY <1>2, <1>3

LEMMA StepPlaces ==
  ASSUME ExportInv, KeepInv, NEW e \in Exporters, Step(e)
  PROVE  KeepInv' /\ StillThere
  BY LoadPlaces, LookPlaces, RestorePlaces, UnjournalPlaces, RemovePlaces, ErasePlaces,
     RemovedPlaces, RecoveredPlaces, CheckPlaces, StagingPlaces, PlacePlaces, PublishPlaces, AnnouncePlaces,
     RetirePlaces, VerifyBackupPlaces, VerifyPlaces DEF Step

LEMMA BeginPlaces ==
  ASSUME ExportInv, KeepInv, NEW e \in Exporters, Begin(e)
  PROVE  KeepInv' /\ StillThere
  <1>1. At(e, "idle") /\ UNCHANGED dirs
    BY DEF Begin
  <1>2. PICK b \in Bundles, overwrite \in BOOLEAN :
          export' = [export EXCEPT ![e] =
            [at |-> "load", next |-> "check", bundle |-> b, overwrite |-> overwrite,
             found |-> None, old |-> None, doomed |-> <<>>]]
    BY DEF Begin
  <1>3. export'[e].doomed = <<>> /\ \A f \in Exporters \ {e} : export'[f] = export[f]
    BY <1>2 DEF ExportInv, Typed
  <1>4. Quiet(e)
    BY <1>1, <1>3 DEF Quiet, Dooms, Unused
  <1> QED BY <1>1, <1>4, AsidePlaces

LEMMA EditPlaces ==
  ASSUME ExportInv, KeepInv, Edit
  PROVE  KeepInv' /\ StillThere
  <1>1. UNCHANGED export
    BY DEF Edit
  <1>2. PICK d \in Directories : dirs' = [dirs EXCEPT ![d] = Edited]
    BY DEF Edit
  <1>3. \A p \in Places : dirs'[p] = dirs[p] \/ dirs'[p] = Edited
    BY <1>2 DEF ExportInv, Typed, Places, Directories
  <1>4. \A p \in Directories : (Spared(p)' <=> Spared(p))
    BY <1>1 DEF Spared, Dooms, Live
  <1>5. ASSUME NEW p \in Places, Kept(p) PROVE Kept(p)'
    <2>1. Spared(p)'
      BY <1>4, <1>5 DEF Kept, Places, Directories
    <2> QED BY <1>3, <1>5, <2>1 DEF Kept, Places
  <1>6. Delivered' => Delivered
    BY <1>3, ExportAssumption DEF Delivered, Places
  <1>7. \A f \in Exporters : Unused(f)' => Spared(Backup(f))'
    BY <1>1, <1>4 DEF KeepInv, Unused, At, Live, Directories
  <1> QED BY <1>5, <1>6, <1>7, KeptThere DEF Kept

LEMMA NextPlaces ==
  ASSUME ExportInv, KeepInv, [Next]_vars
  PROVE  KeepInv' /\ StillThere
  <1>1. CASE UNCHANGED vars
    <2>1. \A p \in Directories : (Spared(p)' <=> Spared(p))
      BY <1>1 DEF vars, Spared, Dooms, Live
    <2> QED BY <1>1, <2>1 DEF vars, KeepInv, StillThere, Kept, Unused, At, Live, Delivered,
                                Places, Directories, Spared, Dooms
  <1>2. CASE Edit
    BY <1>2, EditPlaces
  <1>3. ASSUME NEW e \in Exporters, Fail(e) PROVE KeepInv' /\ StillThere
    BY <1>3, RaisePlaces DEF Fail
  <1>4. ASSUME NEW e \in Exporters, Die(e) PROVE KeepInv' /\ StillThere
    <2>1. Goes(e, "dead") /\ "dead" \in Ends /\ Live(e) /\ UNCHANGED dirs
      BY <1>4 DEF Die, Ends
    <2> QED BY <2>1, GoesEndQuiet, AsidePlaces
  <1>5. ASSUME NEW e \in Exporters, Begin(e) \/ Step(e) PROVE KeepInv' /\ StillThere
    BY <1>5, BeginPlaces, StepPlaces
  <1> QED BY <1>1, <1>2, <1>3, <1>4, <1>5 DEF Next

LEMMA InitPlaces == Init => KeepInv
  <1> SUFFICES ASSUME Init PROVE KeepInv
    OBVIOUS
  <1>1. \A e \in Exporters : export[e].at = "idle"
    BY DEF Init, Idle
  <1>2. \A p \in Places : Spared(p)
    BY <1>1 DEF Spared, Dooms, Live
  <1> QED BY <1>2 DEF KeepInv, Kept, Places

\* However exports overlap, fail and recover from each other's journals, data
\* that is no bundle is never removed, and what was delivered is not lost.
THEOREM ExportsDestroyNothing == Spec => NothingIsDestroyed
  <1>1. Spec => []KeepInv
    <2>1. ExportInv /\ KeepInv /\ [Next]_vars => KeepInv'
      BY NextPlaces
    <2> QED BY <2>1, InitPlaces, ExportInvariant, PTL DEF Spec
  <1>2. ExportInv /\ KeepInv /\ [Next]_vars =>
          [/\ (\E d \in Directories : dirs[d] = Edited) => \E d \in Directories : dirs'[d] = Edited
           /\ (\E d \in Places : dirs[d] \in Bundles) =>
                \E d \in Places : dirs'[d] \in Bundles \cup {Edited}]_vars
    BY NextKeeps, NextPlaces DEF StillThere, Delivered
  <1> QED BY <1>1, <1>2, ExportInvariant, PTL DEF Spec, NothingIsDestroyed

-----------------------------------------------------------------------------
(* An interrupted overwrite can be recovered from, while calls do not overlap *)

\* What an announced overwrite has done: nothing yet, or its recovery undid
\* it; the old bundle is set aside; or the new one is in place.
Untried(j) ==
  /\ dirs[Target] = j.old /\ delivered = j.old
  /\ dirs[Backup(j.owner)] = None /\ dirs[Staging(j.owner)] = j.new
Retired(j) ==
  /\ dirs[Target] = None /\ delivered = j.old
  /\ dirs[Backup(j.owner)] = j.old /\ dirs[Staging(j.owner)] = j.new
Installed(j) ==
  /\ dirs[Target] = j.new /\ delivered = j.new
  /\ dirs[Backup(j.owner)] = j.old /\ dirs[Staging(j.owner)] = None

Files ==
  /\ journal = None => dirs[Target] = delivered
  /\ journal # None => Untried(journal) \/ Retired(journal) \/ Installed(journal)

\* Where a call is in its own overwrite, or in the recovery of another one.
Mine(e) == journal = [owner |-> e, old |-> export[e].old, new |-> export[e].bundle]
Placed(e) ==
  /\ export[e].at \in {"check", "make", "write", "place", "publish", "announce", "remove",
                       "erase", "removing", "cleaning"} => journal = None
  /\ export[e].at \in {"place", "publish", "announce"} => dirs[Staging(e)] = export[e].bundle
  /\ At(e, "announce") => dirs[Target] = export[e].old
  /\ At(e, "retire") => Mine(e) /\ Untried(journal)
  /\ export[e].at \in {"verify_backup", "install"} => Mine(e) /\ Retired(journal)
  /\ export[e].at \in {"verify", "finish"} => Mine(e) /\ Installed(journal)
  /\ export[e].at \in {"look", "restore", "unjournal"} =>
       journal # None /\ export[e].found = journal
  /\ At(e, "restore") => Retired(journal)
  /\ At(e, "unjournal") => Untried(journal) \/ Installed(journal)

Alone == \A e, f \in Exporters : Live(e) /\ Live(f) => e = f
Whole == Files /\ \A e \in Exporters : Placed(e)
WholeInv ==
  /\ ~ overlapped => Alone
  /\ ~ overlapped /\ Untouched => Whole

LEMMA Sound ==
  ASSUME ExportInv, Whole, NEW e \in Exporters
  PROVE  Files /\ Placed(e) /\ Fresh(e) /\ Own(e) /\ journal \in Journals \cup {None}
         /\ export \in [Exporters -> EndedCalls \cup BusyCalls]
         /\ dirs \in [Directories -> Contents]
         /\ Target \in Directories /\ Staging(e) \in Directories /\ Backup(e) \in Directories
  BY Distinct DEF ExportInv, Typed, Whole, Sides

\* A call that ends, or is about to look for a journal or to clean up, knows
\* nothing of one.
LEMMA AsidePlaced ==
  ASSUME NEW e \in Exporters,
         export'[e].at \in Ends \cup {"idle", "load", "cleanup"}
  PROVE  Placed(e)'
  BY DEF Placed, At, Ends

LEMMA SameFiles ==
  ASSUME Files, UNCHANGED <<dirs, journal, delivered>>
  PROVE  Files'
  BY DEF Files, Untried, Retired, Installed

LEMMA RaiseWhole ==
  ASSUME ExportInv, Whole, NEW e \in Exporters, Live(e), Raise(e)
  PROVE  Files' /\ Placed(e)'
  <1>1. UNCHANGED <<dirs, journal, delivered>>
    BY DEF Raise
  <1>2. export \in [Exporters -> EndedCalls \cup BusyCalls]
    BY Sound
  <1>3. Handler(e) \in {"failed", "load", "cleanup"}
    BY DEF Handler
  <1>4. CASE Handler(e) = "failed"
    <2>1. export'[e] = [at |-> "failed"]
      BY <1>2, <1>4 DEF Raise
    <2> QED BY <1>1, <2>1, Sound, SameFiles, AsidePlaced DEF Ends
  <1>5. CASE Handler(e) # "failed"
    <2> DEFINE h == Handler(e)
               k == [export[e] EXCEPT !.at = h, !.next = "cleanup", !.doomed = <<>>, !.found = None]
    <2>1. export'[e] = k
      BY <1>2, <1>5 DEF Raise
    <2>2. export[e] \in BusyCalls
      BY <1>5, Here
    <2> HIDE DEF h
    <2>3. k.at = h
      BY <2>2 DEF BusyCalls
    <2> QED BY <1>1, <1>3, <1>5, <2>1, <2>3, Sound, SameFiles, AsidePlaced DEF h
  <1> QED BY <1>4, <1>5

LEMMA EndWhole ==
  ASSUME ExportInv, Whole, NEW e \in Exporters, Live(e), NEW step \in Ends, Goes(e, step),
         UNCHANGED <<dirs, journal, delivered>>
  PROVE  Files' /\ Placed(e)'
  <1>1. export'[e] = [at |-> step]
    BY Sound, GoesTo DEF ExportInv
  <1> QED BY <1>1, Sound, SameFiles, AsidePlaced

\* A call that goes on and changes nothing outside itself.
LEMMA GoOnWhole ==
  ASSUME ExportInv, Whole, NEW e \in Exporters, Live(e), NEW step \in BusySteps, Goes(e, step),
         UNCHANGED <<dirs, journal, delivered>>,
         step \in {"check", "make", "write", "place", "publish", "announce", "remove",
                   "erase", "removing", "cleaning"} => journal = None,
         step \in {"place", "publish", "announce"} => dirs[Staging(e)] = export[e].bundle,
         step # "announce", step \notin {"retire", "look", "restore", "unjournal"},
         step \in {"verify_backup", "install"} => Mine(e) /\ Retired(journal),
         step \in {"verify", "finish"} => Mine(e) /\ Installed(journal)
  PROVE  Files' /\ Placed(e)'
  <1>1. PICK k \in BusyCalls :
          /\ export'[e] = k /\ k.at = step /\ k.bundle = export[e].bundle
          /\ k.old = export[e].old
    BY GoneOn
  <1>2. Files'
    BY Sound, SameFiles
  <1>3. /\ Mine(e) => Mine(e)' 
        /\ Retired(journal) => Retired(journal)'
        /\ Installed(journal) => Installed(journal)'
    BY <1>1 DEF Mine, Retired, Installed
  <1>4. Placed(e)'
    BY <1>1, <1>3 DEF Placed, At
  <1> QED BY <1>2, <1>4

-----------------------------------------------------------------------------
(* The recovery                                                              *)

LEMMA RecoveryIs ==
  ASSUME NEW j \in Journals
  PROVE  /\ Untried(j) \/ Installed(j) =>
              Recovery(j) # Refusal /\ Recovery(j).kind = "keep" /\ dirs[Target] = delivered
         /\ Retired(j) =>
              /\ Recovery(j) # Refusal /\ Recovery(j).kind = "restore"
              /\ dirs[Backup(j.owner)] = delivered
  <1> DEFINE old == [dir |-> Backup(j.owner), digest |-> j.old]
             new == [dir |-> Staging(j.owner), digest |-> j.new]
  <1>1. j.old \in Bundles /\ j.new \in Bundles /\ None \notin Bundles
    BY ExportAssumption DEF Journals
  <1>2. ASSUME NEW kind \in {"keep", "restore"}, NEW doomed,
               Recovery(j) = [kind |-> kind, doomed |-> doomed]
        PROVE  Recovery(j) # Refusal /\ Recovery(j).kind = kind
    BY <1>2 DEF Refusal
  <1>3. CASE Untried(j) \/ Installed(j)
    <2>1. Present(Target) /\ dirs[Target] = delivered
      BY <1>1, <1>3 DEF Untried, Installed, Present
    <2>2. \/ dirs[Target] = j.new
          \/ dirs[Target] = j.old /\ ~ Present(old.dir) /\ Present(new.dir)
      BY <1>1, <1>3 DEF Untried, Installed, Present
    <2>3. \/ Recovery(j) = [kind |-> "keep", doomed |-> Doomed(old) \o Doomed(new)]
          \/ Recovery(j) = [kind |-> "keep", doomed |-> Doomed(new)]
      BY <2>1, <2>2 DEF Recovery
    <2>4. ~ Retired(j)
      BY <1>1, <2>1 DEF Retired, Present
    <2> HIDE DEF old, new
    <2> QED BY <1>2, <2>1, <2>3, <2>4
  <1>4. CASE Retired(j)
    <2>1. ~ Present(Target) /\ dirs[old.dir] = j.old /\ dirs[Backup(j.owner)] = delivered
      BY <1>4 DEF Retired, Present
    <2>2. Recovery(j) = [kind |-> "restore", doomed |-> Doomed(new)]
      BY <2>1 DEF Recovery
    <2>3. ~ (Untried(j) \/ Installed(j))
      BY <1>1, <2>1 DEF Untried, Installed, Present
    <2> HIDE DEF old, new
    <2> QED BY <1>2, <2>1, <2>2, <2>3
  <1> QED BY <1>3, <1>4

LEMMA LoadWhole ==
  ASSUME ExportInv, Whole, NEW e \in Exporters, Load(e)
  PROVE  Files' /\ Placed(e)'
  <1>1. At(e, "load") /\ Live(e) /\ UNCHANGED <<dirs, journal, delivered>>
    BY DEF Load, At, Live, Ends
  <1>2. CASE journal = None
    <2>1. Goes(e, export[e].next) /\ export[e].next \in {"check", "cleanup", "done"}
      BY <1>1, <1>2, Here DEF Load
    <2>2. CASE export[e].next = "done"
      BY <1>1, <2>1, <2>2, EndWhole DEF Ends
    <2>3. CASE export[e].next \in {"check", "cleanup"}
      BY <1>1, <1>2, <2>1, <2>3, GoOnWhole DEF BusySteps
    <2> QED BY <2>1, <2>2, <2>3
  <1>3. CASE journal # None
    <2> DEFINE k == [export[e] EXCEPT !.at = "look", !.found = journal]
    <2>1. export'[e] = k
      BY <1>3, Sound DEF Load
    <2>2. k.at = "look" /\ k.found = journal
      BY <1>1, Here DEF BusyCalls
    <2> HIDE DEF k
    <2>3. Placed(e)'
      BY <1>1, <1>3, <2>1, <2>2 DEF Placed, At
    <2> QED BY <1>1, <2>3, Sound, SameFiles
  <1> QED BY <1>2, <1>3

LEMMA LookWhole ==
  ASSUME ExportInv, Whole, NEW e \in Exporters, Look(e)
  PROVE  Files' /\ Placed(e)'
  <1>1. At(e, "look") /\ Live(e)
    BY DEF Look, At, Live, Ends
  <1>2. journal \in Journals /\ export[e].found = journal /\ Placed(e) /\ Files
    BY <1>1, Sound DEF Placed, At
  <1>3. CASE Recovery(journal) = Refusal
    BY <1>1, <1>2, <1>3, RaiseWhole DEF Look
  <1>4. CASE Recovery(journal) # Refusal
    <2> DEFINE step == IF Recovery(journal).kind = "restore" THEN "restore" ELSE "unjournal"
               k == [export[e] EXCEPT !.at = step, !.doomed = Recovery(journal).doomed]
    <2>1. UNCHANGED <<dirs, journal, delivered>> /\ export'[e] = k
      BY <1>2, <1>4, Sound DEF Look
    <2>2. /\ step \in {"restore", "unjournal"}
          /\ step = "restore" => Retired(journal)
          /\ step = "unjournal" => Untried(journal) \/ Installed(journal)
      <3>1. Untried(journal) \/ Retired(journal) \/ Installed(journal)
        BY <1>2, ExportAssumption DEF Files, Journals
      <3>2. /\ Untried(journal) \/ Installed(journal) => Recovery(journal).kind = "keep"
            /\ Retired(journal) => Recovery(journal).kind = "restore"
        BY <1>2, RecoveryIs
      <3> QED BY <3>1, <3>2
    <2> HIDE DEF step
    <2>3. k.at = step /\ k.found = journal
      BY <1>1, <1>2, Here DEF BusyCalls
    <2> HIDE DEF k
    <2>4. /\ Retired(journal) => Retired(journal)'
          /\ Untried(journal) => Untried(journal)'
          /\ Installed(journal) => Installed(journal)'
      BY <2>1 DEF Retired, Untried, Installed
    <2>5. journal' # None /\ export'[e].found = journal'
      BY <1>2, <2>1, <2>3, ExportAssumption DEF Journals
    <2>6. Placed(e)'
      BY <2>1, <2>2, <2>3, <2>4, <2>5 DEF Placed, At
    <2> QED BY <2>1, <2>6, Sound, SameFiles
  <1> QED BY <1>3, <1>4

LEMMA RestoreWhole ==
  ASSUME ExportInv, Whole, NEW e \in Exporters, Restore(e)
  PROVE  Files' /\ Placed(e)'
  <1>1. At(e, "restore") /\ Live(e)
    BY DEF Restore, At, Live, Ends
  <1>2. /\ journal \in Journals /\ journal # None /\ export[e].found = journal
        /\ Retired(journal)
    BY <1>1, Sound DEF Placed, At
  <1> DEFINE backup == Backup(journal.owner)
             staging == Staging(journal.owner)
  <1>3. /\ journal.owner \in Exporters /\ journal.old \in Bundles
        /\ backup \in Directories /\ staging \in Directories /\ Target \in Directories
        /\ backup # Target /\ staging # Target /\ staging # backup
    BY <1>2, Distinct DEF Journals, Sides
  <1> HIDE DEF backup, staging
  <1>4. CanMove(backup, Target)
    BY <1>2, <1>3, ExportAssumption DEF CanMove, Present, Retired, backup
  <1>5. Move(backup, Target) /\ Goes(e, "unjournal") /\ UNCHANGED <<journal, delivered>>
    BY <1>1, <1>2, <1>4 DEF Restore, backup
  <1>6. /\ dirs'[backup] = None /\ dirs'[Target] = dirs[backup]
        /\ dirs'[staging] = dirs[staging]
    BY <1>3, <1>5, Sound DEF Move
  <1>7. Untried(journal)'
    BY <1>2, <1>5, <1>6 DEF Untried, Retired, backup, staging
  <1>8. PICK k \in BusyCalls :
          export'[e] = k /\ k.at = "unjournal" /\ k.found = export[e].found
    BY <1>1, <1>5, GoneOn DEF BusySteps
  <1>9. Placed(e)'
    BY <1>2, <1>5, <1>7, <1>8 DEF Placed, At
  <1> QED BY <1>2, <1>5, <1>7, <1>9 DEF Files

LEMMA UnjournalWhole ==
  ASSUME ExportInv, Whole, NEW e \in Exporters, Unjournal(e)
  PROVE  Files' /\ Placed(e)'
  <1>1. export[e].at \in {"unjournal", "finish"} /\ Live(e)
    BY DEF Unjournal, Live, Ends
  <1>2. CASE journal = None
    BY <1>1, <1>2, RaiseWhole DEF Unjournal
  <1>3. CASE journal # None
    <2>1. Untried(journal) \/ Installed(journal)
      BY <1>1, Sound DEF Placed, At
    <2>2. dirs[Target] = delivered
      BY <2>1 DEF Untried, Installed
    <2>3. /\ journal' = None /\ UNCHANGED <<dirs, delivered>>
          /\ export'[e].at = "remove"
      <3> DEFINE next == IF At(e, "finish") THEN "done" ELSE export[e].next
                 k == [export[e] EXCEPT !.next = next, !.at = "remove"]
      <3>1. export'[e] = k
        BY <1>3, Sound DEF Unjournal
      <3> HIDE DEF next
      <3>2. k.at = "remove"
        BY <1>1, Here DEF BusyCalls
      <3> HIDE DEF k
      <3> QED BY <1>3, <3>1, <3>2 DEF Unjournal
    <2>4. Placed(e)'
      BY <2>3 DEF Placed, At
    <2> QED BY <2>2, <2>3, <2>4 DEF Files
  <1> QED BY <1>2, <1>3

\* While there is no journal, what happens beside the target does not matter.
LEMMA AsideWhole ==
  ASSUME ExportInv, Whole, NEW e \in Exporters, NEW d \in Sides, NEW c,
         journal = None, dirs' = [dirs EXCEPT ![d] = c], UNCHANGED <<journal, delivered>>
  PROVE  Files' /\ dirs'[Target] = dirs[Target] /\ dirs'[d] = c
  <1>1. dirs'[Target] = dirs[Target] /\ dirs'[d] = c
    BY Sound DEF Sides
  <1> QED BY <1>1, Sound DEF Files

LEMMA RemoveWhole ==
  ASSUME ExportInv, Whole, NEW e \in Exporters, Remove(e)
  PROVE  Files' /\ Placed(e)'
  <1>1. At(e, "remove") /\ Live(e)
    BY DEF Remove, At, Live, Ends
  <1>2. journal = None
    BY <1>1, Sound DEF Placed, At
  <1>3. CASE Validates(Head(export[e].doomed))
    <2>1. Goes(e, "erase") /\ UNCHANGED <<dirs, journal, delivered>> /\ "erase" \in BusySteps
      BY <1>3 DEF Remove, BusySteps
    <2> QED BY <1>1, <1>2, <2>1, GoOnWhole
  <1>4. CASE ~ Validates(Head(export[e].doomed))
    BY <1>1, <1>4, RaiseWhole DEF Remove
  <1> QED BY <1>3, <1>4

LEMMA EraseWhole ==
  ASSUME ExportInv, Whole, NEW e \in Exporters, Erase(e)
  PROVE  Files' /\ Placed(e)'
  <1> DEFINE d == Head(export[e].doomed).dir
  <1>1. At(e, "erase") /\ Live(e)
    BY DEF Erase, At, Live, Ends
  <1>2. d \in Sides
    BY <1>1, OwnDirectories DEF ExportInv, At
  <1>3. journal = None
    BY <1>1, Sound DEF Placed, At
  <1> HIDE DEF d
  <1>4. CASE Present(d)
    <2>1. /\ dirs' = [dirs EXCEPT ![d] = Partial] /\ Goes(e, "removing")
          /\ UNCHANGED <<journal, delivered>>
      BY <1>4 DEF Erase, d
    <2>2. Files'
      BY <1>2, <1>3, <2>1, AsideWhole
    <2>3. export'[e].at = "removing"
      BY <1>1, <2>1, GoneOn DEF BusySteps
    <2>4. Placed(e)'
      BY <1>3, <2>1, <2>3 DEF Placed, At
    <2> QED BY <2>2, <2>4
  <1>5. CASE ~ Present(d)
    BY <1>1, <1>5, RaiseWhole DEF Erase, d
  <1> QED BY <1>4, <1>5

LEMMA RemovedWhole ==
  ASSUME ExportInv, Whole, NEW e \in Exporters, Removed(e)
  PROVE  Files' /\ Placed(e)'
  <1>1. At(e, "removing") /\ Live(e)
    BY DEF Removed, At, Live, Ends
  <1>2. Head(export[e].doomed).dir \in Sides
    BY <1>1, OwnDirectories DEF ExportInv, At
  <1>3. journal = None
    BY <1>1, Sound DEF Placed, At
  <1>4. Files'
    BY <1>2, <1>3, AsideWhole DEF Removed
  <1>5. journal' = None /\ export'[e].at = "remove"
    <2> DEFINE tail == Tail(export[e].doomed)
               k == [export[e] EXCEPT !.at = "remove", !.doomed = tail]
    <2>1. export'[e] = k
      BY Sound DEF Removed
    <2> HIDE DEF tail
    <2>2. k.at = "remove"
      BY <1>1, Here DEF BusyCalls
    <2> HIDE DEF k
    <2> QED BY <1>3, <2>1, <2>2 DEF Removed
  <1>6. Placed(e)'
    BY <1>5 DEF Placed, At
  <1> QED BY <1>4, <1>6

LEMMA RecoveredWhole ==
  ASSUME ExportInv, Whole, NEW e \in Exporters, Recovered(e)
  PROVE  Files' /\ Placed(e)'
  <1>1. At(e, "remove") /\ Live(e) /\ UNCHANGED <<dirs, journal, delivered>>
        /\ Goes(e, export[e].next)
    BY DEF Recovered, At, Live, Ends
  <1>2. export[e].next \in {"check", "cleanup", "done"}
    BY <1>1, Here
  <1>3. journal = None
    BY <1>1, Sound DEF Placed, At
  <1>4. CASE export[e].next = "done"
    BY <1>1, <1>4, EndWhole DEF Ends
  <1>5. CASE export[e].next \in {"check", "cleanup"}
    BY <1>1, <1>3, <1>5, GoOnWhole DEF BusySteps
  <1> QED BY <1>2, <1>4, <1>5

-----------------------------------------------------------------------------
(* The export                                                                *)

LEMMA CheckWhole ==
  ASSUME ExportInv, Whole, NEW e \in Exporters, Check(e)
  PROVE  Files' /\ Placed(e)'
  <1>1. At(e, "check") /\ Live(e)
    BY DEF Check, At, Live, Ends
  <1>2. CASE Present(Target) /\ ~ MayReplace(e)
    BY <1>1, <1>2, RaiseWhole DEF Check
  <1>3. CASE ~ (Present(Target) /\ ~ MayReplace(e))
    <2> DEFINE k == [export[e] EXCEPT !.at = "make", !.next = "cleanup"]
    <2>1. export'[e] = k /\ UNCHANGED <<dirs, journal, delivered>>
      BY <1>3, Sound DEF Check
    <2>2. k.at = "make"
      BY <1>1, Here DEF BusyCalls
    <2> HIDE DEF k
    <2>3. Placed(e)'
      BY <1>1, <2>1, <2>2, Sound DEF Placed, At
    <2> QED BY <2>1, <2>3, Sound, SameFiles
  <1> QED BY <1>2, <1>3

LEMMA StagingWhole ==
  ASSUME ExportInv, Whole, NEW e \in Exporters,
         Make(e) \/ Write(e) \/ Cleaned(e) \/ (CleanUp(e) /\ Discards(e))
  PROVE  Files' /\ Placed(e)'
  <1>1. Live(e) /\ journal = None /\ Staging(e) \in Sides
    BY Sound, Distinct DEF Make, Write, Cleaned, CleanUp, Discards, Live, At, Ends, Placed
  <1>2. \E c : dirs' = [dirs EXCEPT ![Staging(e)] = c]
    BY DEF Make, Write, Cleaned, CleanUp
  <1>3. UNCHANGED <<journal, delivered>>
    BY DEF Make, Write, Cleaned, CleanUp
  <1>4. Files'
    BY <1>1, <1>2, <1>3, AsideWhole
  <1>5. CASE Write(e)
    <2>1. PICK k \in BusyCalls : export'[e] = k /\ k.at = "place" /\ k.bundle = export[e].bundle
      BY <1>1, <1>5, GoneOn DEF Write, BusySteps
    <2>2. dirs'[Staging(e)] = export[e].bundle
      BY <1>5, Sound DEF Write
    <2>3. Placed(e)'
      BY <1>1, <1>3, <2>1, <2>2 DEF Placed, At
    <2> QED BY <1>4, <2>3
  <1>6. CASE Make(e) \/ (CleanUp(e) /\ Discards(e))
    <2>1. export'[e].at \in {"write", "cleaning"}
      BY <1>1, <1>6, GoneOn DEF Make, CleanUp, BusySteps
    <2>2. Placed(e)'
      BY <1>1, <1>3, <2>1 DEF Placed, At
    <2> QED BY <1>4, <2>2
  <1>7. CASE Cleaned(e)
    <2>1. export'[e] = [at |-> "failed"]
      BY <1>1, <1>7, GoesTo, Sound DEF Cleaned, Ends, ExportInv
    <2> QED BY <1>4, <2>1, AsidePlaced DEF Ends
  <1> QED BY <1>5, <1>6, <1>7

LEMMA PlaceWhole ==
  ASSUME ExportInv, Whole, NEW e \in Exporters, Place(e)
  PROVE  Files' /\ Placed(e)'
  <1>1. At(e, "place") /\ Live(e)
    BY DEF Place, At, Live, Ends
  <1>2. journal = None /\ dirs[Staging(e)] = export[e].bundle
    BY <1>1, Sound DEF Placed, At
  <1>3. CASE ~ Present(Target)
    BY <1>1, <1>2, <1>3, GoOnWhole DEF Place, BusySteps
  <1>4. CASE Present(Target) /\ MayReplace(e)
    <2> DEFINE k == [export[e] EXCEPT !.at = "announce", !.old = dirs[Target]]
    <2>1. export'[e] = k /\ UNCHANGED <<dirs, journal, delivered>>
      BY <1>4, Sound DEF Place
    <2>2. k.at = "announce" /\ k.old = dirs[Target] /\ k.bundle = export[e].bundle
      BY <1>1, Here DEF BusyCalls
    <2> HIDE DEF k
    <2>3. Placed(e)'
      BY <1>2, <2>1, <2>2 DEF Placed, At
    <2> QED BY <2>1, <2>3, Sound, SameFiles
  <1>5. CASE Present(Target) /\ ~ MayReplace(e)
    BY <1>1, <1>5, RaiseWhole DEF Place
  <1> QED BY <1>3, <1>4, <1>5

LEMMA PublishWhole ==
  ASSUME ExportInv, Whole, NEW e \in Exporters, Publish(e)
  PROVE  Files' /\ Placed(e)'
  <1>1. At(e, "publish") /\ Live(e)
    BY DEF Publish, At, Live, Ends
  <1>2. CASE CanMove(Staging(e), Target)
    <2>1. /\ Move(Staging(e), Target) /\ delivered' = dirs[Staging(e)]
          /\ Goes(e, "done") /\ journal' = journal
      BY <1>2 DEF Publish
    <2>2. journal = None /\ dirs'[Target] = dirs[Staging(e)]
      BY <1>1, <2>1, Sound, Distinct DEF Placed, At, Move
    <2>3. export'[e] = [at |-> "done"]
      BY <1>1, <2>1, GoesTo, Sound DEF Ends, ExportInv
    <2> QED BY <2>1, <2>2, <2>3, AsidePlaced DEF Files, Ends
  <1>3. CASE ~ CanMove(Staging(e), Target)
    BY <1>1, <1>3, RaiseWhole DEF Publish
  <1> QED BY <1>2, <1>3

LEMMA AnnounceWhole ==
  ASSUME ExportInv, Whole, NEW e \in Exporters, Announce(e)
  PROVE  Files' /\ Placed(e)'
  <1>1. At(e, "announce") /\ Live(e)
    BY DEF Announce, At, Live, Ends
  <1>2. /\ journal = None /\ dirs[Staging(e)] = export[e].bundle
        /\ dirs[Target] = export[e].old /\ dirs[Target] = delivered
        /\ dirs[Backup(e)] = None
    BY <1>1, Sound DEF Placed, At, Files, Fresh
  <1>3. /\ journal' = [owner |-> e, old |-> export[e].old, new |-> export[e].bundle]
        /\ Goes(e, "retire") /\ UNCHANGED <<dirs, delivered>>
    BY <1>2 DEF Announce
  <1>4. PICK k \in BusyCalls :
          /\ export'[e] = k /\ k.at = "retire"
          /\ k.bundle = export[e].bundle /\ k.old = export[e].old
    BY <1>1, <1>3, GoneOn DEF BusySteps
  <1>5. Mine(e)'
    BY <1>3, <1>4 DEF Mine
  <1>6. Untried(journal)'
    <2>1. /\ journal'.owner = e /\ journal'.old = export[e].old
          /\ journal'.new = export[e].bundle
      BY <1>3
    <2> QED BY <1>2, <1>3, <2>1 DEF Untried
  <1>7. Placed(e)'
    BY <1>4, <1>5, <1>6 DEF Placed, At
  <1>8. journal' # None
    <2>1. export[e].old \in Bundles /\ export[e].bundle \in Bundles
      BY <1>1, Here, BusyFields DEF Sensible, At
    <2> QED BY <1>3, <2>1, ExportAssumption
  <1> QED BY <1>6, <1>7, <1>8 DEF Files

\* The journal of the call, and its directories.
LEMMA OwnOverwrite ==
  ASSUME ExportInv, Whole, NEW e \in Exporters, Live(e),
         export[e].at \in {"retire", "verify_backup", "install", "verify", "finish"}
  PROVE  /\ Mine(e) /\ journal.owner = e /\ journal.old = export[e].old
         /\ journal.new = export[e].bundle /\ journal # None
         /\ journal.old \in Bundles /\ journal.new \in Bundles
         /\ Staging(e) # Target /\ Backup(e) # Target /\ Staging(e) # Backup(e)
  <1>1. Mine(e)
    BY Sound DEF Placed, At
  <1>2. journal.owner = e /\ journal.old = export[e].old /\ journal.new = export[e].bundle
    BY <1>1 DEF Mine
  <1>3. export[e].old \in Bundles /\ export[e].bundle \in Bundles
    BY Here, BusyFields DEF Sensible
  <1>4. journal # None
    BY <1>1, <1>3, ExportAssumption DEF Mine
  <1> QED BY <1>1, <1>2, <1>3, <1>4, Distinct

LEMMA RetireWhole ==
  ASSUME ExportInv, Whole, NEW e \in Exporters, Retire(e)
  PROVE  Files' /\ Placed(e)'
  <1>1. At(e, "retire") /\ Live(e)
    BY DEF Retire, At, Live, Ends
  <1>2. /\ Mine(e) /\ journal.owner = e /\ journal # None /\ journal.old \in Bundles
        /\ Staging(e) # Target /\ Backup(e) # Target /\ Staging(e) # Backup(e)
        /\ Untried(journal)
    BY <1>1, OwnOverwrite, Sound DEF Placed, At
  <1>3. CanMove(Target, Backup(e))
    BY <1>2, ExportAssumption DEF CanMove, Present, Untried
  <1>4. Move(Target, Backup(e)) /\ Goes(e, "verify_backup") /\ UNCHANGED <<journal, delivered>>
    BY <1>3 DEF Retire
  <1>5. /\ dirs'[Target] = None /\ dirs'[Backup(e)] = dirs[Target]
        /\ dirs'[Staging(e)] = dirs[Staging(e)]
    BY <1>2, <1>4, Sound DEF Move
  <1>6. Retired(journal)'
    BY <1>2, <1>4, <1>5 DEF Retired, Untried
  <1>7. PICK k \in BusyCalls :
          /\ export'[e] = k /\ k.at = "verify_backup"
          /\ k.bundle = export[e].bundle /\ k.old = export[e].old
    BY <1>1, <1>4, GoneOn DEF BusySteps
  <1>8. Mine(e)'
    BY <1>2, <1>4, <1>7 DEF Mine
  <1>9. Placed(e)'
    BY <1>6, <1>7, <1>8 DEF Placed, At
  <1> QED BY <1>2, <1>4, <1>6, <1>9 DEF Files

LEMMA VerifyBackupWhole ==
  ASSUME ExportInv, Whole, NEW e \in Exporters, VerifyBackup(e)
  PROVE  Files' /\ Placed(e)'
  <1>1. At(e, "verify_backup") /\ Live(e)
    BY DEF VerifyBackup, At, Live, Ends
  <1>2. Mine(e) /\ Retired(journal)
    BY <1>1, Sound DEF Placed, At
  <1>3. CASE dirs[Backup(e)] = export[e].old
    BY <1>1, <1>2, <1>3, GoOnWhole DEF VerifyBackup, BusySteps
  <1>4. CASE dirs[Backup(e)] # export[e].old
    BY <1>1, <1>4, RaiseWhole DEF VerifyBackup
  <1> QED BY <1>3, <1>4

LEMMA InstallWhole ==
  ASSUME ExportInv, Whole, NEW e \in Exporters, Install(e)
  PROVE  Files' /\ Placed(e)'
  <1>1. At(e, "install") /\ Live(e)
    BY DEF Install, At, Live, Ends
  <1>2. /\ Mine(e) /\ journal.owner = e /\ journal # None /\ journal.new \in Bundles
        /\ Staging(e) # Target /\ Backup(e) # Target /\ Staging(e) # Backup(e)
        /\ Retired(journal)
    BY <1>1, OwnOverwrite, Sound DEF Placed, At
  <1>3. CanMove(Staging(e), Target)
    BY <1>2, ExportAssumption DEF CanMove, Present, Retired
  <1>4. /\ Move(Staging(e), Target) /\ delivered' = dirs[Staging(e)]
        /\ Goes(e, "verify") /\ UNCHANGED journal
    BY <1>3 DEF Install
  <1>5. /\ dirs'[Staging(e)] = None /\ dirs'[Target] = dirs[Staging(e)]
        /\ dirs'[Backup(e)] = dirs[Backup(e)]
    BY <1>2, <1>4, Sound DEF Move
  <1>6. Installed(journal)'
    BY <1>2, <1>4, <1>5 DEF Retired, Installed
  <1>7. PICK k \in BusyCalls :
          /\ export'[e] = k /\ k.at = "verify"
          /\ k.bundle = export[e].bundle /\ k.old = export[e].old
    BY <1>1, <1>4, GoneOn DEF BusySteps
  <1>8. Mine(e)'
    BY <1>2, <1>4, <1>7 DEF Mine
  <1>9. Placed(e)'
    BY <1>6, <1>7, <1>8 DEF Placed, At
  <1> QED BY <1>2, <1>4, <1>6, <1>9 DEF Files

LEMMA VerifyWhole ==
  ASSUME ExportInv, Whole, NEW e \in Exporters, Verify(e)
  PROVE  Files' /\ Placed(e)'
  <1>1. At(e, "verify") /\ Live(e)
    BY DEF Verify, At, Live, Ends
  <1>2. Mine(e) /\ Installed(journal)
    BY <1>1, Sound DEF Placed, At
  <1>3. CASE dirs[Target] = export[e].bundle
    <2> DEFINE last == <<[dir |-> Backup(e), digest |-> export[e].old]>>
               k == [export[e] EXCEPT !.at = "finish", !.doomed = last]
    <2>1. export'[e] = k /\ UNCHANGED <<dirs, journal, delivered>>
      BY <1>3, Sound DEF Verify
    <2> HIDE DEF last
    <2>2. k.at = "finish" /\ k.old = export[e].old /\ k.bundle = export[e].bundle
      BY <1>1, Here DEF BusyCalls
    <2> HIDE DEF k
    <2>3. Mine(e)' /\ Installed(journal)'
      BY <1>2, <2>1, <2>2 DEF Mine, Installed
    <2>4. Placed(e)'
      BY <2>1, <2>2, <2>3 DEF Placed, At
    <2> QED BY <2>1, <2>4, Sound, SameFiles
  <1>4. CASE dirs[Target] # export[e].bundle
    BY <1>1, <1>4, RaiseWhole DEF Verify
  <1> QED BY <1>3, <1>4

LEMMA CleanUpWhole ==
  ASSUME ExportInv, Whole, NEW e \in Exporters, CleanUp(e)
  PROVE  Files' /\ Placed(e)'
  <1>1. Live(e)
    BY DEF CleanUp, At, Live, Ends
  <1>2. CASE Discards(e)
    BY <1>2, StagingWhole
  <1>3. CASE ~ Discards(e)
    BY <1>1, <1>3, EndWhole DEF CleanUp, Ends
  <1> QED BY <1>2, <1>3

LEMMA StepWhole ==
  ASSUME ExportInv, Whole, NEW e \in Exporters, Step(e)
  PROVE  Files' /\ Placed(e)'
  BY LoadWhole, LookWhole, RestoreWhole, UnjournalWhole, RemoveWhole, EraseWhole,
     RemovedWhole, RecoveredWhole, CheckWhole, StagingWhole, PlaceWhole, PublishWhole, AnnounceWhole,
     RetireWhole, VerifyBackupWhole, InstallWhole, VerifyWhole, CleanUpWhole DEF Step

\* Where data of others is, and what was delivered last, changes only when
\* somebody edits a directory.
LEMMA DeliveredStays ==
  ASSUME ExportInv, NEW e \in Exporters, Step(e)
  PROVE  delivered' = delivered \/ (delivered' # Edited /\ Live(e))
  <1>1. CASE Publish(e) \/ Install(e)
    <2>1. Live(e)
      BY <1>1 DEF Publish, Install, At, Live, Ends
    <2>2. dirs[Staging(e)] # Edited
      BY <2>1, Here DEF Own
    <2> QED BY <1>1, <2>1, <2>2 DEF Publish, Install, Raise
  <1>2. CASE ~ (Publish(e) \/ Install(e))
    BY <1>2 DEF Step, Load, Look, Restore, Unjournal, Remove, Erase, Removed, Recovered, Check, Make,
       Write, Place, Announce, Retire, VerifyBackup, Verify, CleanUp, Cleaned, Raise
  <1> QED BY <1>1, <1>2

LEMMA OthersStay ==
  ASSUME ExportInv, NEW e \in Exporters, Step(e) \/ Fail(e) \/ Die(e)
  PROVE  Live(e) /\ \A f \in Exporters \ {e} : export'[f] = export[f]
  <1>1. Live(e)
    BY StepLive DEF Fail, Die
  <1>2. \E k : export' = [export EXCEPT ![e] = k]
    <2>1. ASSUME Raise(e) PROVE \E k : export' = [export EXCEPT ![e] = k]
      BY <2>1 DEF Raise
    <2>2. ASSUME NEW step, Goes(e, step) PROVE \E k : export' = [export EXCEPT ![e] = k]
      BY <2>2 DEF Goes
    <2>3. CASE Load(e) \/ Look(e) \/ Restore(e) \/ Unjournal(e) \/ Remove(e) \/ Erase(e)
               \/ Removed(e) \/ Recovered(e)
      BY <2>1, <2>2, <2>3 DEF Load, Look, Restore, Unjournal, Remove, Erase, Removed, Recovered
    <2>4. CASE Check(e) \/ Make(e) \/ Write(e) \/ Place(e) \/ Publish(e) \/ Announce(e)
      BY <2>1, <2>2, <2>4 DEF Check, Make, Write, Place, Publish, Announce
    <2>5. CASE Retire(e) \/ VerifyBackup(e) \/ Install(e) \/ Verify(e) \/ CleanUp(e)
               \/ Cleaned(e) \/ Fail(e) \/ Die(e)
      BY <2>1, <2>2, <2>5 DEF Retire, VerifyBackup, Install, Verify, CleanUp, Cleaned, Fail, Die
    <2> QED BY <2>3, <2>4, <2>5 DEF Step
  <1> QED BY <1>1, <1>2 DEF ExportInv, Typed

\* A call that is not live has no place in an overwrite.
LEMMA NotLivePlaced ==
  ASSUME NEW e \in Exporters, ~ Live(e)'
  PROVE  Placed(e)'
  <1>1. export'[e].at \in Ends \cup {"idle"}
    BY DEF Live
  <1> QED BY <1>1, AsidePlaced

LEMMA CallAlone ==
  ASSUME ExportInv, WholeInv, NEW e \in Exporters, EditedStays,
         (Step(e) /\ Framed) \/ Fail(e) \/ Die(e)
  PROVE  WholeInv'
  <1>1. Live(e) /\ \A f \in Exporters \ {e} : export'[f] = export[f]
    BY OthersStay
  <1>2. overlapped' = overlapped
    BY DEF Framed, Fail, Die
  <1>3. CASE overlapped
    BY <1>2, <1>3 DEF WholeInv
  <1>4. CASE ~ overlapped
    <2>1. \A f \in Exporters \ {e} : ~ Live(f) /\ ~ Live(f)'
      BY <1>1, <1>4 DEF WholeInv, Alone, Live
    <2>2. Alone'
      BY <2>1 DEF Alone
    <2>3. ASSUME Untouched' PROVE Untouched
      <3>1. delivered' = Edited => delivered = Edited
        BY DeliveredStays DEF Fail, Die, Raise
      <3> QED BY <2>3, <3>1 DEF Untouched, EditedStays
    <2>4. ASSUME Untouched' PROVE Whole'
      <3>1. Whole
        BY <1>4, <2>3, <2>4 DEF WholeInv
      <3>2. Files' /\ Placed(e)'
        <4>1. CASE Step(e)
          BY <3>1, <4>1, StepWhole
        <4>2. CASE Fail(e)
          BY <1>1, <3>1, <4>2, RaiseWhole DEF Fail
        <4>3. CASE Die(e)
          BY <1>1, <3>1, <4>3, EndWhole DEF Die, Ends
        <4> QED BY <4>1, <4>2, <4>3
      <3>3. ASSUME NEW f \in Exporters \ {e} PROVE Placed(f)'
        BY <2>1, NotLivePlaced
      <3> QED BY <3>2, <3>3 DEF Whole
    <2> QED BY <2>2, <2>4 DEF WholeInv
  <1> QED BY <1>3, <1>4

LEMMA BeginAlone ==
  ASSUME ExportInv, WholeInv, NEW e \in Exporters, Begin(e)
  PROVE  WholeInv'
  <1>1. UNCHANGED <<dirs, journal, delivered>>
        /\ overlapped' = (overlapped \/ \E o \in Exporters : Live(o))
    BY DEF Begin
  <1>2. CASE overlapped'
    BY <1>2 DEF WholeInv
  <1>3. CASE ~ overlapped'
    <2>1. ~ overlapped /\ \A f \in Exporters : ~ Live(f)
      BY <1>1, <1>3
    <2>2. export'[e].at = "load" /\ \A f \in Exporters \ {e} : export'[f] = export[f]
      BY DEF Begin, ExportInv, Typed
    <2>3. \A f \in Exporters \ {e} : ~ Live(f)'
      BY <2>1, <2>2 DEF Live
    <2>4. Alone'
      BY <2>3 DEF Alone
    <2>5. ASSUME Untouched' PROVE Whole'
      <3>1. Files
        BY <1>1, <2>1, <2>5 DEF WholeInv, Whole, Untouched
      <3>2. Placed(e)'
        BY <2>2, AsidePlaced
      <3>3. ASSUME NEW f \in Exporters \ {e} PROVE Placed(f)'
        BY <2>3, NotLivePlaced
      <3> QED BY <1>1, <3>1, <3>2, <3>3, SameFiles DEF Whole
    <2> QED BY <2>4, <2>5 DEF WholeInv
  <1> QED BY <1>2, <1>3

\* Data of others beside the target, or in the place of a bundle, is an edit.
LEMMA EditAlone ==
  ASSUME ExportInv, WholeInv, Edit
  PROVE  WholeInv'
  <1>1. /\ \A e \in Exporters : ~ Live(e)
        /\ \A d \in Directories : dirs[d] # Edited
        /\ UNCHANGED <<journal, export, delivered, overlapped, faults>>
    BY DEF Edit
  <1>2. Alone'
    BY <1>1 DEF Alone, Live
  <1>3. ASSUME ~ overlapped, Untouched' PROVE FALSE
    <2>1. Whole
      BY <1>1, <1>3 DEF WholeInv, Untouched
    <2>2. PICK d \in Directories : dirs' = [dirs EXCEPT ![d] = Edited]
      BY DEF Edit
    <2>3. dirs'[d] = Edited
      BY <2>2 DEF ExportInv, Typed
    <2>4. delivered = Edited /\ Target \in Directories
      BY <1>1, <1>3, <2>3 DEF Untouched, Directories
    <2>5. CASE journal = None
      BY <1>1, <2>1, <2>4, <2>5 DEF Whole, Files
    <2>6. CASE journal # None
      <3>1. journal.old \in Bundles /\ journal.new \in Bundles
        BY <2>6 DEF ExportInv, Typed, Journals
      <3> QED BY <2>1, <2>4, <2>6, <3>1, ExportAssumption
              DEF Whole, Files, Untried, Retired, Installed
    <2> QED BY <2>5, <2>6
  <1> QED BY <1>1, <1>2, <1>3 DEF WholeInv

LEMMA InitAlone == Init => WholeInv
  <1> SUFFICES ASSUME Init PROVE WholeInv
    OBVIOUS
  <1>1. \A e \in Exporters : export[e].at = "idle"
    BY DEF Init, Idle
  <1>2. Alone
    BY <1>1 DEF Alone, Live
  <1>3. Files
    BY DEF Init, Files, Directories
  <1>4. \A e \in Exporters : Placed(e)
    BY <1>1 DEF Placed, At
  <1> QED BY <1>2, <1>3, <1>4 DEF WholeInv, Whole

LEMMA NextAlone ==
  ASSUME ExportInv, WholeInv, [Next]_vars
  PROVE  WholeInv'
  <1>1. CASE UNCHANGED vars
    BY <1>1 DEF vars, WholeInv, Whole, Alone, Files, Placed, Mine, Untried, Retired, Installed,
                Untouched, Live, At
  <1>2. CASE Edit
    BY <1>2, EditAlone
  <1>3. ASSUME NEW e \in Exporters, (Step(e) /\ Framed) \/ Fail(e) \/ Die(e)
        PROVE  WholeInv'
    <2>1. EditedStays
      BY <1>3, StepKeeps, FailKeeps, DieKeeps
    <2> QED BY <1>3, <2>1, CallAlone
  <1> QED BY <1>1, <1>2, <1>3, BeginAlone DEF Next, Framed

\* At whatever step an export dies or fails, the journal and the directories
\* allow the next one to put back, or to keep, what was delivered last.
THEOREM OverwritesRecover == Spec => []Recoverable
  <1>1. Spec => []WholeInv
    <2>1. ExportInv /\ WholeInv /\ [Next]_vars => WholeInv'
      BY NextAlone
    <2> QED BY <2>1, InitAlone, ExportInvariant, PTL DEF Spec
  <1>2. ExportInv /\ WholeInv => Recoverable
    <2> SUFFICES ASSUME ExportInv, WholeInv, ~ overlapped, Untouched
                 PROVE  AfterRecovery = delivered
      BY DEF Recoverable
    <2>1. Files /\ journal \in Journals \cup {None}
      BY DEF WholeInv, Whole, ExportInv, Typed
    <2>2. CASE journal = None
      BY <2>1, <2>2 DEF AfterRecovery, Files
    <2>3. CASE journal # None
      <3>1. journal \in Journals
        BY <2>1, <2>3
      <3>2. CASE Untried(journal) \/ Installed(journal)
        BY <2>3, <3>1, <3>2, RecoveryIs DEF AfterRecovery
      <3>3. CASE Retired(journal)
        BY <2>3, <3>1, <3>3, RecoveryIs DEF AfterRecovery
      <3> QED BY <2>1, <2>3, <3>2, <3>3 DEF Files
    <2> QED BY <2>2, <2>3
  <1> QED BY <1>1, <1>2, ExportInvariant, PTL

===============================================================================
