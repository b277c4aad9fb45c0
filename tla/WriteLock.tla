------------------------------- MODULE WriteLock -------------------------------
(***************************************************************************)
(* state_write_lock: one writer for a state root, over processes and their *)
(* threads.  A thread takes the gate of its process (an RLock), then, at   *)
(* depth zero, an exclusive flock on the lock file; nested entries of the  *)
(* same thread only count.  The operating system drops the flock of a      *)
(* process that dies.                                                      *)
(***************************************************************************)
EXTENDS Naturals

CONSTANTS
  Processes,
  Threads,
  ProcessOf,    \* the process of each thread
  NoThread,
  NoProcess

ASSUME LockAssumption ==
  /\ ProcessOf \in [Threads -> Processes]
  /\ NoThread \notin Threads
  /\ NoProcess \notin Processes

VARIABLES
  gate,         \* the thread that owns the RLock of each process
  depth,        \* entries of that thread
  flock         \* the process whose descriptor holds the flock

lockVars == <<gate, depth, flock>>

LockTypeOK ==
  /\ gate \in [Processes -> Threads \cup {NoThread}]
  /\ depth \in [Processes -> Nat]
  /\ flock \in Processes \cup {NoProcess}

LockInit ==
  /\ gate = [p \in Processes |-> NoThread]
  /\ depth = [p \in Processes |-> 0]
  /\ flock = NoProcess

\* The body of state_write_lock runs.
Inside(t) == gate[ProcessOf[t]] = t /\ depth[ProcessOf[t]] > 0

TakeGate(t) ==
  /\ gate[ProcessOf[t]] = NoThread
  /\ gate' = [gate EXCEPT ![ProcessOf[t]] = t]
  /\ UNCHANGED <<depth, flock>>

TakeFlock(t) ==
  /\ gate[ProcessOf[t]] = t
  /\ depth[ProcessOf[t]] = 0
  /\ flock = NoProcess
  /\ flock' = ProcessOf[t]
  /\ depth' = [depth EXCEPT ![ProcessOf[t]] = 1]
  /\ UNCHANGED gate

Reenter(t) ==
  /\ Inside(t)
  /\ depth' = [depth EXCEPT ![ProcessOf[t]] = @ + 1]
  /\ UNCHANGED <<gate, flock>>

\* Variant with a fault: a nested entry releases the flock.
ExitReleasing(t) ==
  /\ Inside(t)
  /\ depth' = [depth EXCEPT ![ProcessOf[t]] = @ - 1]
  /\ flock' = NoProcess
  /\ gate' = IF depth[ProcessOf[t]] = 1 THEN [gate EXCEPT ![ProcessOf[t]] = NoThread] ELSE gate

\* Leaving the outermost entry releases the flock, then the gate.
Exit(t) ==
  LET p == ProcessOf[t]
      outermost == depth[p] = 1
  IN  /\ Inside(t)
      /\ depth' = [depth EXCEPT ![p] = @ - 1]
      /\ flock' = IF outermost THEN NoProcess ELSE flock
      /\ gate' = IF outermost THEN [gate EXCEPT ![p] = NoThread] ELSE gate

\* An exception leaves every entry; a death takes the whole process along.
Freed(p) ==
  /\ gate' = [gate EXCEPT ![p] = NoThread]
  /\ depth' = [depth EXCEPT ![p] = 0]
  /\ flock' = IF flock = p THEN NoProcess ELSE flock

=============================================================================
