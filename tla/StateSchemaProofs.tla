-------------------------- MODULE StateSchemaProofs --------------------------
(***************************************************************************)
(* Theorems about StateSchema for any number of programs, migrators and    *)
(* files.  While there is no manifest no program has been let in, so the   *)
(* files are those of the beginning, and what a plan or a backup found     *)
(* still holds when the manifest is written.                               *)
(***************************************************************************)
EXTENDS StateSchema, TLAPS

Saved(m) == backup[m] # None /\ \A f \in Present : backup[m][f] = disk[f]

\* What an actor has found out of a root without a manifest.
Found(a) ==
  /\ ~ call[a].seen
  /\ call[a].at \notin {"running", "creating", "done"}
  /\ At(a, "read") => Invalid \subseteq call[a].todo
  /\ call[a].at \in {"decide", "save", "copy", "make", "replace"} => Invalid = {}
  /\ At(a, "copy") =>
       /\ a \in Migrators /\ backup[a] # None
       /\ \A f \in Present \ call[a].todo : backup[a][f] = disk[f]
  /\ call[a].at \in {"make", "replace"} => Present = {} \/ (a \in Migrators /\ Saved(a))

CopyHasTarget == \A m \in Migrators : At(m, "copy") => backup[m] # None

\* The root of a manifest that is being written exists.
Held == \A a \in Actors : At(a, "replace") => root

SchemaInv ==
  /\ TypeOK
  /\ CopyHasTarget
  /\ Held
  /\ ~ root => ~ manifest /\ Present = {}
  /\ ~ manifest => \A a \in Actors : Found(a)

LEMMA InitSchema == Init => SchemaInv
  <1> SUFFICES ASSUME Init PROVE SchemaInv
    OBVIOUS
  <1>1. TypeOK
    <2>1. root \in BOOLEAN /\ disk \in [Files -> Contents]
      BY DEF Init, Contents
    <2>2. call \in [Actors -> Calls]
      BY DEF Init, Calls, Steps, Idle
    <2>3. manifest \in BOOLEAN /\ left \in BOOLEAN /\ temps \subseteq Actors
      BY DEF Init
    <2>4. backup \in [Migrators -> [Files -> Contents] \cup {None}]
      BY DEF Init
    <2>5. faults \in 0 .. MaxFaults
      BY SchemaAssumption DEF Init
    <2> QED BY <2>1, <2>2, <2>3, <2>4, <2>5 DEF TypeOK
  <1>2. ~ root => ~ manifest /\ Present = {}
    BY DEF Init
  <1>3. \A a \in Actors : Found(a)
    BY DEF Init, Found, Idle, At
  <1>4. CopyHasTarget
    BY DEF Init, CopyHasTarget, Idle, At, Actors
  <1>5. Held
    BY DEF Init, Held, Idle, At
  <1> QED BY <1>1, <1>2, <1>3, <1>4, <1>5 DEF SchemaInv

LEMMA GotoTypes ==
  ASSUME call \in [Actors -> Calls], NEW a \in Actors, NEW s \in Steps, Goto(a, s)
  PROVE  call' \in [Actors -> Calls]
  BY DEF Goto, Calls

LEMMA TodoTypes ==
  ASSUME call \in [Actors -> Calls], NEW a \in Actors, NEW s \in Steps,
         NEW t \in SUBSET (Files \cup Actors),
         call' = [call EXCEPT ![a] = [call[a] EXCEPT !.todo = t, !.at = s]]
  PROVE  call' \in [Actors -> Calls]
  <1>1. call[a] \in Calls
    OBVIOUS
  <1>2. [call[a] EXCEPT !.todo = t, !.at = s] \in Calls
    BY <1>1 DEF Calls
  <1> QED BY <1>2

LEMMA TypeStep == TypeOK /\ CopyHasTarget /\ [Next]_vars => TypeOK'
  <1> SUFFICES ASSUME TypeOK, CopyHasTarget, [Next]_vars PROVE TypeOK'
    OBVIOUS
  <1> USE SchemaAssumption DEF TypeOK
  <1>1. ASSUME NEW a \in Actors, Look(a) PROVE TypeOK'
    BY <1>1 DEF Look, At, Goto, Calls, Steps
  <1>2. ASSUME NEW a \in Actors, List(a) PROVE TypeOK'
    <2>1. Present \subseteq Files
      BY DEF Present
    <2>2. Present \in SUBSET (Files \cup Actors) /\ call[a] \in Calls
      BY <2>1
    <2>3. call' = [call EXCEPT ![a] = [call[a] EXCEPT !.todo = Present, !.at = "read"]]
      BY <1>2 DEF List
    <2>4. call' \in [Actors -> Calls]
      BY <2>2, <2>3, TodoTypes DEF Steps
    <2> QED BY <1>2, <2>4 DEF List
  <1>3. ASSUME NEW a \in Actors, Read(a) PROVE TypeOK'
    <2>1. CASE Goto(a, "decide")
      BY <1>3, <2>1 DEF Read, Goto, Calls, Steps
    <2>2. ASSUME NEW f, call' = [call EXCEPT ![a].todo = @ \ {f}] PROVE call' \in [Actors -> Calls]
      BY <2>2 DEF Calls
    <2>3. ASSUME call' = [call EXCEPT ![a] = [Idle EXCEPT !.at = "failed"]]
          PROVE  call' \in [Actors -> Calls]
      <3>1. [Idle EXCEPT !.at = "failed"] \in Calls
        BY DEF Calls, Idle, Steps
      <3> QED BY <2>3, <3>1
    <2> QED BY <1>3, <2>1, <2>2, <2>3 DEF Read
  <1>4. ASSUME NEW a \in Actors, Ensure(a) PROVE TypeOK'
    <2>1. ASSUME NEW s \in {"running", "failed", "make"}, Goto(a, s) PROVE call' \in [Actors -> Calls]
      BY <2>1, GotoTypes DEF Steps
    <2> QED BY <1>4, <2>1 DEF Ensure
  <1>5. ASSUME NEW m \in Migrators, Migrate(m) \/ Save(m) PROVE TypeOK'
    <2>1. m \in Actors
      BY DEF Actors
    <2>2. Present \cup temps \in SUBSET (Files \cup Actors)
      BY DEF Present
    <2>3. call' \in [Actors -> Calls]
      <3>2. CASE call' = [call EXCEPT ![m] = [call[m] EXCEPT !.todo = Present \cup temps, !.at = "copy"]]
        BY <2>1, <2>2, <3>2, TodoTypes DEF Steps
      <3>3. ASSUME NEW s \in Steps, Goto(m, s) PROVE call' \in [Actors -> Calls]
        BY <2>1, <3>3, GotoTypes
      <3> QED BY <1>5, <3>2, <3>3 DEF Migrate, Save, Steps
    <2>4. backup' \in [Migrators -> [Files -> Contents] \cup {None}]
      BY <1>5 DEF Migrate, Save, Contents
    <2> QED BY <1>5, <2>3, <2>4 DEF Migrate, Save
  <1>6. ASSUME NEW m \in Migrators, Copy(m) PROVE TypeOK'
    <2>1. m \in Actors
      BY DEF Actors
    <2>2. call' \in [Actors -> Calls]
      <3>1. CASE Goto(m, IF call[m].missed THEN "failed" ELSE "make")
        BY <2>1, <3>1 DEF Goto, Calls, Steps
      <3>2. ASSUME NEW f, call' = [call EXCEPT ![m].todo = @ \ {f}] PROVE call' \in [Actors -> Calls]
        BY <2>1, <3>2 DEF Calls
      <3>3. ASSUME NEW e,
                   call' = [call EXCEPT ![m].todo = @ \ {e},
                                        ![m].missed = IF e \in temps THEN @ ELSE TRUE]
            PROVE  call' \in [Actors -> Calls]
        BY <2>1, <3>3 DEF Calls
      <3> QED BY <1>6, <3>1, <3>2, <3>3 DEF Copy
    <2>3. backup' \in [Migrators -> [Files -> Contents] \cup {None}]
      <3>1. CASE UNCHANGED backup
        BY <3>1
      <3>2. ASSUME NEW f \in Present, backup' = [backup EXCEPT ![m][f] = disk[f]]
            PROVE  backup' \in [Migrators -> [Files -> Contents] \cup {None}]
        <4>1. backup[m] \in [Files -> Contents] /\ f \in Files
          BY <1>6 DEF Copy, CopyHasTarget, Present
        <4> QED BY <3>2, <4>1
      <3> QED BY <1>6, <3>1, <3>2 DEF Copy
    <2> QED BY <1>6, <2>2, <2>3 DEF Copy
  <1>7. ASSUME NEW a \in Actors, Make(a) PROVE TypeOK'
    <2>1. call' \in [Actors -> Calls]
      BY <1>7, GotoTypes DEF Make, Steps
    <2> QED BY <1>7, <2>1 DEF Make
  <1>8. ASSUME NEW a \in Actors, Replace(a) PROVE TypeOK'
    <2>1. ASSUME NEW s \in {"running", "done"}, Goto(a, s) PROVE call' \in [Actors -> Calls]
      BY <2>1, GotoTypes DEF Steps
    <2> QED BY <1>8, <2>1 DEF Replace
  <1>9. ASSUME NEW a \in Actors, Again(a) PROVE TypeOK'
    BY <1>9 DEF Again, At, Idle, Calls, Steps
  <1>10. ASSUME NEW p \in Actors, Serve(p) PROVE TypeOK'
    <2>1. disk' \in [Files -> Contents]
      BY <1>10 DEF Serve, WriteArtifact, RemoveArtifact, OpenDatabase, CreateTables, Contents, Files
    <2>2. call' \in [Actors -> Calls]
      <3>1. ASSUME NEW s \in {"creating", "running"}, Goto(p, s) PROVE call' \in [Actors -> Calls]
        BY <3>1, GotoTypes DEF Steps
      <3> QED BY <1>10, <3>1 DEF Serve, WriteArtifact, RemoveArtifact, OpenDatabase, CreateTables
    <2> QED
      BY <1>10, <2>1, <2>2 DEF Serve, WriteArtifact, RemoveArtifact, OpenDatabase, CreateTables
  <1>11. ASSUME NEW a \in Actors, Raise(a) PROVE TypeOK'
    <2>1. [Idle EXCEPT !.at = "failed"] \in Calls
      BY DEF Idle, Calls, Steps
    <2> QED BY <1>11, <2>1 DEF Raise
  <1>12. ASSUME NEW a \in Actors, Die(a) PROVE TypeOK'
    BY <1>12 DEF Die, At, Idle, Calls, Steps
  <1>13. ASSUME UNCHANGED vars PROVE TypeOK'
    BY <1>13 DEF vars
  <1> QED
    BY <1>1, <1>2, <1>3, <1>4, <1>5, <1>6, <1>7, <1>8, <1>9, <1>10, <1>11, <1>12, <1>13
    DEF Next, Start, Continue, Actors

-----------------------------------------------------------------------------
\* An actor that does nothing keeps what it found.
LEMMA Frame ==
  ASSUME NEW a \in Actors, Found(a), UNCHANGED disk, call'[a] = call[a],
         a \in Migrators => backup'[a] = backup[a]
  PROVE  Found(a)'
  BY DEF Found, Saved, At, Present, Invalid

\* What a step with the files as they are does for the actor that takes it.
LEMMA FoundStep ==
  ASSUME SchemaInv, ~ manifest, NEW a \in Actors,
         \/ Look(a) \/ List(a) \/ Read(a) \/ Make(a) \/ Again(a) \/ Raise(a) \/ Die(a)
         \/ a \in Starters /\ Ensure(a)
         \/ a \in Migrators /\ (Migrate(a) \/ Save(a) \/ Copy(a))
  PROVE  ~ manifest' => \A b \in Actors : Found(b)'
  <1> SUFFICES ASSUME NEW b \in Actors PROVE Found(b)'
    OBVIOUS
  <1>1. Found(a) /\ Found(b) /\ TypeOK
    BY DEF SchemaInv
  <1>2. UNCHANGED disk /\ UNCHANGED Present /\ UNCHANGED Invalid
    BY DEF Look, List, Read, Make, Again, Raise, Die, Ensure, Migrate, Save, Copy, Present, Invalid
  <1>3. CASE b # a
    <2>1. call'[b] = call[b]
      BY <1>1, <1>3 DEF TypeOK, Look, List, Read, Make, Again, Raise, Die, Ensure, Migrate, Save, Copy, Goto
    <2>2. b \in Migrators => backup'[b] = backup[b]
      BY <1>1, <1>3 DEF TypeOK, Look, List, Read, Make, Again, Raise, Die, Ensure, Migrate, Save, Copy
    <2> QED BY <1>1, <1>2, <2>1, <2>2, Frame
  <1>4. CASE b = a
    <2>0. call[a] \in Calls /\ Invalid \subseteq Present
      BY <1>1 DEF TypeOK, Invalid, Present
    <2>1. CASE Look(a)
      <3>1. root => Found(a)'
        BY <2>1, <1>1, <1>2 DEF Look, Found, At, TypeOK, Calls
      <3>2. ~ root => Found(a)'
        <4> SUFFICES ASSUME ~ root PROVE Found(a)'
          OBVIOUS
        <4>1. Present = {} /\ Invalid = {}
          BY <2>0 DEF SchemaInv
        <4>2. call'[a] = [call[a] EXCEPT !.at = "make"]
          BY <2>1, <1>1 DEF Look, Goto, TypeOK
        <4> QED BY <4>1, <4>2, <1>1, <1>2, <2>0 DEF Found, At, Calls
      <3> QED BY <1>4, <3>1, <3>2
    <2>2. CASE List(a)
      BY <1>4, <2>0, <2>2, <1>1, <1>2 DEF List, Found, At, TypeOK, Calls
    <2>3. CASE Read(a)
      <3>1. CASE call[a].todo = {} /\ Goto(a, "decide")
        <4>1. call'[a] = [call[a] EXCEPT !.at = "decide"]
          BY <3>1, <1>1 DEF Goto, TypeOK
        <4>2. Invalid = {}
          BY <2>3, <3>1, <1>1 DEF Read, Found
        <4> QED BY <1>4, <4>1, <4>2, <1>1, <1>2, <2>0 DEF Found, At, Calls
      <3>2. ASSUME NEW f \in Present \ Invalid, call' = [call EXCEPT ![a].todo = @ \ {f}]
            PROVE  Found(a)'
        <4>1. call'[a] = [call[a] EXCEPT !.todo = @ \ {f}]
          BY <3>2, <1>1 DEF TypeOK
        <4>2. At(a, "read") /\ Invalid \subseteq call[a].todo
          BY <2>3, <1>1 DEF Read, Found
        <4> QED BY <4>1, <4>2, <3>2, <1>1, <1>2, <2>0 DEF Found, At, Calls
      <3>3. CASE call' = [call EXCEPT ![a] = [Idle EXCEPT !.at = "failed"]]
        <4>1. call'[a] = [Idle EXCEPT !.at = "failed"]
          BY <3>3, <1>1 DEF TypeOK
        <4>2. call'[a].at = "failed" /\ ~ call'[a].seen
          BY <4>1 DEF Idle
        <4> QED BY <1>4, <4>2 DEF Found, At
      <3> QED BY <1>4, <2>3, <3>1, <3>2, <3>3 DEF Read
    <2>4. CASE Make(a)
      BY <1>4, <2>4, <2>0, <1>1, <1>2 DEF Make, Goto, Found, Saved, At, TypeOK, Calls
    <2>5. CASE Again(a) \/ Raise(a) \/ Die(a)
      <3>1. call'[a] \in {Idle, [Idle EXCEPT !.at = "failed"]}
        BY <2>5, <1>1 DEF Again, Raise, Die, TypeOK
      <3> QED BY <1>4, <3>1 DEF Found, At, Idle
    <2>6. CASE a \in Starters /\ Ensure(a)
      <3>1. Invalid = {} /\ ~ call[a].seen
        BY <2>6, <1>1 DEF Ensure, Found, At
      <3>2. HasArtifacts \/ Present = {}
        BY DEF HasArtifacts
      <3>3. call'[a] = [call[a] EXCEPT !.at = IF HasArtifacts THEN "failed" ELSE "make"]
        BY <2>6, <3>1, <1>1 DEF Ensure, Goto, TypeOK
      <3> QED BY <1>4, <3>1, <3>2, <3>3, <1>1, <1>2, <2>0 DEF Found, At, Calls
    <2>7. CASE a \in Migrators /\ Migrate(a)
      <3>1. Invalid = {} /\ ~ call[a].seen
        BY <2>7, <1>1 DEF Migrate, Found, At
      <3>2. CASE ~ HasArtifacts /\ Goto(a, "make")
        <4>1. Present = {} /\ call'[a] = [call[a] EXCEPT !.at = "make"]
          BY <3>2, <1>1 DEF HasArtifacts, Goto, TypeOK
        <4> QED BY <1>4, <4>1, <3>1, <1>1, <1>2, <2>0 DEF Found, At, Calls
      <3>3. ASSUME NEW s \in {"failed", "save"}, Goto(a, s) PROVE Found(b)'
        BY <1>4, <3>1, <3>3, <1>1, <1>2, <2>0 DEF Found, At, Calls, Goto, TypeOK
      <3> QED BY <2>7, <3>1, <3>2, <3>3 DEF Migrate
    <2>9. CASE a \in Migrators /\ Save(a)
      <3>1. Invalid = {} /\ ~ call[a].seen
        BY <2>9, <1>1 DEF Save, Found, At
      <3>2. CASE Goto(a, "failed")
        BY <1>4, <3>1, <3>2, <1>1, <1>2, <2>0 DEF Found, At, Calls, Goto, TypeOK
      <3>3. CASE /\ backup' = [backup EXCEPT ![a] = [f \in Files |-> "absent"]]
                 /\ call' = [call EXCEPT ![a].todo = Present \cup temps, ![a].at = "copy"]
        <4>1. call'[a] = [call[a] EXCEPT !.todo = Present \cup temps, !.at = "copy"]
          BY <3>3, <1>1 DEF TypeOK
        <4>2. backup'[a] = [f \in Files |-> "absent"]
          BY <3>3, <2>9, <1>1 DEF TypeOK
        <4>3. backup'[a] # None
          BY <4>2, SchemaAssumption DEF Contents
        <4> QED BY <1>4, <4>1, <4>2, <4>3, <2>9, <3>1, <1>1, <1>2, <2>0 DEF Found, At, Calls
      <3> QED BY <2>9, <3>2, <3>3 DEF Save
    <2>8. CASE a \in Migrators /\ Copy(a)
      <3>1. /\ At(a, "copy") /\ Invalid = {} /\ ~ call[a].seen /\ backup[a] # None
            /\ \A f \in Present \ call[a].todo : backup[a][f] = disk[f]
        BY <2>8, <1>1 DEF Copy, Found, At
      <3>2. CASE /\ call[a].todo = {} /\ UNCHANGED backup
                 /\ Goto(a, IF call[a].missed THEN "failed" ELSE "make")
        <4>1. call'[a] = [call[a] EXCEPT !.at = IF call[a].missed THEN "failed" ELSE "make"]
          BY <3>2, <1>1 DEF Goto, TypeOK
        <4>2. Saved(a)'
          BY <3>1, <3>2, <1>2 DEF Saved
        <4> QED BY <1>4, <2>8, <4>1, <4>2, <3>1, <1>1, <1>2, <2>0 DEF Found, At, Calls
      <3>3. ASSUME NEW f \in Present, call' = [call EXCEPT ![a].todo = @ \ {f}],
                   backup' = [backup EXCEPT ![a][f] = disk[f]]
            PROVE  Found(a)'
        <4>1. call'[a] = [call[a] EXCEPT !.todo = @ \ {f}]
          BY <3>3, <1>1 DEF TypeOK
        <4>2. backup[a] \in [Files -> Contents] /\ Present \subseteq Files
          BY <2>8, <3>1, <1>1 DEF TypeOK, Present
        <4>3. backup'[a] = [backup[a] EXCEPT ![f] = disk[f]]
          BY <2>8, <3>3, <1>1 DEF TypeOK
        <4>4. backup'[a] # None
          BY <4>2, <4>3, <1>1, SchemaAssumption DEF TypeOK
        <4>5. ASSUME NEW g \in Present, g \notin call[a].todo \ {f}
              PROVE  backup'[a][g] = disk[g]
          BY <3>1, <4>2, <4>3, <4>5
        <4> QED BY <2>8, <4>1, <4>4, <4>5, <3>1, <1>1, <1>2, <2>0 DEF Found, At, Calls
      <3>4. ASSUME NEW e \in call[a].todo \ Present, UNCHANGED backup,
                   call' = [call EXCEPT ![a].todo = @ \ {e},
                                        ![a].missed = IF e \in temps THEN @ ELSE TRUE]
            PROVE  Found(a)'
        <4>1. /\ call'[a].at = "copy" /\ ~ call'[a].seen
              /\ call'[a].todo = call[a].todo \ {e}
          BY <3>1, <3>4, <1>1 DEF TypeOK, Calls, At
        <4> QED BY <2>8, <3>4, <4>1, <3>1, <1>2 DEF Found, At
      <3> QED BY <1>4, <2>8, <3>2, <3>3, <3>4 DEF Copy
    <2> QED BY <2>1, <2>2, <2>3, <2>4, <2>5, <2>6, <2>7, <2>8, <2>9
  <1> QED BY <1>3, <1>4

-----------------------------------------------------------------------------
LEMMA CopyHasTargetStep == TypeOK /\ CopyHasTarget /\ [Next]_vars => CopyHasTarget'
  <1> SUFFICES ASSUME TypeOK, CopyHasTarget, [Next]_vars,
                      NEW m \in Migrators, At(m, "copy")'
               PROVE  backup'[m] # None
    BY DEF CopyHasTarget
  <1> USE SchemaAssumption DEF TypeOK
  <1>1. m \in Actors
    BY DEF Actors
  <1>2. ASSUME NEW a \in Actors,
               Look(a) \/ List(a) \/ Read(a) \/ Make(a) \/ Replace(a) \/ Again(a) \/ Ensure(a)
                 \/ Serve(a) \/ Raise(a) \/ Die(a)
        PROVE  backup'[m] # None
    <2>1. UNCHANGED backup
      BY <1>2 DEF Look, List, Read, Make, Replace, Again, Ensure, Serve, WriteArtifact,
                  RemoveArtifact, OpenDatabase, CreateTables, Raise, Die
    <2>2. At(m, "copy")
      <3>1. CASE m # a
        BY <1>1, <1>2, <3>1 DEF At, Goto, Look, List, Read, Make, Replace, Again, Ensure, Serve,
             WriteArtifact, RemoveArtifact, OpenDatabase, CreateTables, Raise, Die
      <3>2. CASE m = a
        <4>1. call'[m].at = "copy" /\ call[m] \in Calls
          BY <1>1 DEF At
        <4> QED BY <1>1, <1>2, <3>2, <4>1 DEF At, Goto, Idle, Calls, Look, List, Read, Make, Replace,
                     Again, Ensure, Serve, WriteArtifact, RemoveArtifact, OpenDatabase,
                     CreateTables, Raise, Die
      <3> QED BY <3>1, <3>2
    <2> QED BY <2>1, <2>2 DEF CopyHasTarget
  <1>3. ASSUME NEW n \in Migrators, Migrate(n) \/ Save(n) PROVE backup'[m] # None
    <2>0. n \in Actors
      BY DEF Actors
    <2>1. CASE m # n
      BY <1>1, <1>3, <2>0, <2>1 DEF Migrate, Save, Goto, At, CopyHasTarget
    <2>2. CASE m = n
      <3>1. CASE backup' = [backup EXCEPT ![n] = [f \in Files |-> "absent"]]
        BY <2>2, <3>1 DEF Contents
      <3>2. ASSUME NEW s \in {"done", "make", "failed", "save"}, Goto(n, s) PROVE FALSE
        BY <1>1, <2>2, <3>2 DEF Goto, At, Calls
      <3> QED BY <1>3, <3>1, <3>2 DEF Migrate, Save
    <2> QED BY <2>1, <2>2
  <1>4. ASSUME NEW n \in Migrators, Copy(n) PROVE backup'[m] # None
    <2>0. n \in Actors
      BY DEF Actors
    <2>1. CASE m # n
      BY <1>1, <1>4, <2>0, <2>1 DEF Copy, Goto, At, CopyHasTarget
    <2>2. CASE m = n
      <3>1. backup[m] \in [Files -> Contents]
        BY <1>4, <2>2 DEF Copy, CopyHasTarget
      <3>2. CASE UNCHANGED backup
        BY <3>1, <3>2
      <3>3. ASSUME NEW f \in Present, backup' = [backup EXCEPT ![n][f] = disk[f]]
            PROVE  backup'[m] # None
        BY <2>2, <3>1, <3>3 DEF Present
      <3> QED BY <1>4, <3>2, <3>3 DEF Copy
    <2> QED BY <2>1, <2>2
  <1>5. ASSUME UNCHANGED vars PROVE backup'[m] # None
    BY <1>5 DEF vars, At, CopyHasTarget
  <1> QED BY <1>2, <1>3, <1>4, <1>5 DEF Next, Start, Continue, Actors

LEMMA HeldStep == TypeOK /\ Held /\ [Next]_vars => Held'
  <1> SUFFICES ASSUME TypeOK, Held, [Next]_vars, NEW a \in Actors, At(a, "replace")', ~ root'
               PROVE  FALSE
    BY DEF Held
  <1>1. ~ root
    BY DEF Next, vars, Start, Continue, Serve, Look, List, Read, Ensure, Migrate, Save, Copy, Make,
           Replace, Again, WriteArtifact, RemoveArtifact, OpenDatabase, CreateTables, Raise, Die
  <1>2. ~ At(a, "replace") /\ call[a] \in Calls
    BY <1>1 DEF Held, TypeOK
  <1>3. ASSUME NEW b \in Actors, Make(b) PROVE FALSE
    BY <1>3 DEF Make
  <1>4. ASSUME NEW b \in Actors,
               Look(b) \/ List(b) \/ Read(b) \/ Ensure(b) \/ Replace(b) \/ Again(b) \/ Serve(b)
                 \/ Raise(b) \/ Die(b)
        PROVE  FALSE
    BY <1>2, <1>4 DEF TypeOK, Calls, At, Goto, Idle, Look, List, Read, Ensure, Replace, Again,
         Serve, WriteArtifact, RemoveArtifact, OpenDatabase, CreateTables, Raise, Die
  <1>5. ASSUME NEW m \in Migrators, Migrate(m) \/ Save(m) \/ Copy(m) PROVE FALSE
    <2>1. m \in Actors
      BY DEF Actors
    <2>2. CASE Migrate(m) \/ Save(m)
      BY <1>2, <2>1, <2>2 DEF TypeOK, Calls, At, Goto, Migrate, Save
    <2>3. CASE Copy(m)
      <3>1. CASE m # a
        BY <1>2, <2>1, <2>3, <3>1 DEF TypeOK, At, Goto, Copy
      <3>2. CASE m = a
        <4>1. call[m] \in Calls
          BY <2>1 DEF TypeOK
        <4>2. ASSUME NEW s \in {"failed", "make"}, Goto(m, s) PROVE call'[m].at = s
          BY <2>1, <4>2 DEF TypeOK, Goto
        <4>3. CASE Goto(m, IF call[m].missed THEN "failed" ELSE "make")
          BY <3>2, <4>2, <4>3 DEF At
        <4>4. ASSUME NEW f, call' = [call EXCEPT ![m].todo = @ \ {f}] PROVE call'[m].at = "copy"
          BY <2>1, <2>3, <4>1, <4>4 DEF TypeOK, Copy, At, Calls
        <4>5. ASSUME NEW e, call' = [call EXCEPT ![m].todo = @ \ {e},
                                                 ![m].missed = IF e \in temps THEN @ ELSE TRUE]
              PROVE  call'[m].at = "copy"
          BY <2>1, <2>3, <4>1, <4>5 DEF TypeOK, Copy, At, Calls
        <4> QED BY <2>3, <3>2, <4>3, <4>4, <4>5 DEF Copy, At
      <3> QED BY <3>1, <3>2
    <2> QED BY <1>5, <2>2, <2>3
  <1>6. ASSUME UNCHANGED vars PROVE FALSE
    BY <1>2, <1>6 DEF vars, At
  <1> QED BY <1>3, <1>4, <1>5, <1>6 DEF Next, Start, Continue, Actors

LEMMA SchemaStep == SchemaInv /\ [Next]_vars => SchemaInv'
  <1> SUFFICES ASSUME SchemaInv, [Next]_vars PROVE SchemaInv'
    OBVIOUS
  <1>1. TypeOK' /\ CopyHasTarget' /\ Held'
    BY TypeStep, CopyHasTargetStep, HeldStep DEF SchemaInv
  <1>2. ASSUME NEW p \in Actors, Serve(p) PROVE manifest
    BY <1>2 DEF SchemaInv, Found, Serve, WriteArtifact, RemoveArtifact, OpenDatabase,
                CreateTables, At
  <1>3. (~ root => ~ manifest /\ Present = {})'
    <2>1. CASE manifest
      <3>1. root /\ root'
        BY <2>1 DEF SchemaInv, Next, vars, Start, Continue, Serve, Look, List, Read, Ensure, Migrate, Save,
             Copy, Make, Replace, Again, WriteArtifact, RemoveArtifact, OpenDatabase,
             CreateTables, Raise, Die
      <3> QED BY <3>1
    <2>2. CASE ~ manifest
      <3>1. UNCHANGED disk
        BY <1>2, <2>2 DEF Next, vars, Start, Continue, Look, List, Read, Ensure, Migrate, Save, Copy,
             Make, Replace, Again, Raise, Die, Actors
      <3>2. UNCHANGED <<root, manifest>> \/ root'
        <4>1. ASSUME NEW a \in Actors, Replace(a) PROVE root'
          BY <4>1, SchemaAssumption DEF SchemaInv, TypeOK, Replace, Held
        <4> QED BY <1>2, <2>2, <4>1 DEF Next, vars, Start, Continue, Look, List, Read, Ensure,
                     Migrate, Save, Copy, Make, Again, Raise, Die, Actors
      <3> QED BY <3>1, <3>2 DEF SchemaInv, Present
    <2> QED BY <2>1, <2>2
  <1>4. (~ manifest => \A a \in Actors : Found(a))'
    <2>1. CASE manifest
      BY <2>1 DEF Next, vars, Start, Continue, Serve, Look, List, Read, Ensure, Migrate, Save, Copy,
           Make, Replace, Again, WriteArtifact, RemoveArtifact, OpenDatabase, CreateTables,
           Raise, Die
    <2>2. CASE ~ manifest
      <3>1. ASSUME NEW a \in Actors, Replace(a) PROVE manifest'
        BY <3>1 DEF Replace
      <3>2. ASSUME UNCHANGED vars PROVE \A a \in Actors : Found(a)'
        BY <2>2, <3>2, Frame DEF vars, SchemaInv
      <3> QED BY <1>2, <2>2, <3>1, <3>2, FoundStep DEF Next, Start, Continue, Actors
    <2> QED BY <2>1, <2>2
  <1> QED BY <1>1, <1>3, <1>4 DEF SchemaInv

THEOREM SchemaInvariant == Spec => []SchemaInv
  BY InitSchema, SchemaStep, PTL DEF Spec

\* The state of the root, of the backups and of every call keeps its type.
THEOREM TypeCorrect == Spec => []TypeOK
  <1>1. SchemaInv => TypeOK
    BY DEF SchemaInv
  <1> QED BY <1>1, SchemaInvariant, PTL

\* Whoever writes the first manifest knows what the root holds.
LEMMA AdoptionKnows ==
  ASSUME SchemaInv, [Next]_vars, manifest', ~ manifest
  PROVE  /\ Invalid = {}
         /\ Present = {} \/ \E m \in Migrators : Saved(m)
  <1>1. PICK a \in Actors : Replace(a)
    <2>1. ASSUME NEW p \in Actors, Serve(p) PROVE FALSE
      BY <2>1 DEF SchemaInv, Found, Serve, WriteArtifact, RemoveArtifact, OpenDatabase,
                  CreateTables, At
    <2> QED BY <2>1 DEF Next, vars, Start, Continue, Look, List, Read, Ensure, Migrate, Save, Copy, Make,
                 Again, Raise, Die, Actors
  <1>2. Found(a) /\ At(a, "replace")
    BY <1>1 DEF SchemaInv, Replace
  <1> QED BY <1>2 DEF Found, At

\* A root becomes versioned only when it is empty or saved by a backup.
THEOREM BackupBeforeAdoption == Spec => AdoptedWithBackup
  <1>1. SchemaInv /\ [Next]_vars =>
          [manifest' /\ ~ manifest =>
             Present = {} \/ \E m \in Migrators :
                               backup[m] # None /\ \A f \in Present : backup[m][f] = disk[f]]_vars
    BY AdoptionKnows DEF Saved
  <1> QED BY <1>1, SchemaInvariant, PTL DEF Spec, AdoptedWithBackup

\* Nothing that does not validate is adopted.
THEOREM ValidAdoption == Spec => OnlyValidStateIsAdopted
  <1>1. SchemaInv /\ [Next]_vars => [manifest' /\ ~ manifest => Invalid = {}]_vars
    BY AdoptionKnows
  <1> QED BY <1>1, SchemaInvariant, PTL DEF Spec, OnlyValidStateIsAdopted
=============================================================================
