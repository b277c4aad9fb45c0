--------------------------- MODULE PublicationReaders ---------------------------
(***************************************************************************)
(* What callers observe while finalize runs: readers that go through       *)
(* CompletedRunQueryService and its gate require_completed_publication,    *)
(* and pollers that follow the events of a run with poll_events.           *)
(*                                                                         *)
(* Both read several stores one after the other, without a lock over all   *)
(* of them.  control reads the record before the stores; a completed run   *)
(* and what it published stay so, so one step stands for it.  A reader     *)
(* asks by lifecycle run or by result identifier, which it can know        *)
(* beforehand, for it is derived from the content of the submission.       *)
(***************************************************************************)
EXTENDS PublicationSaga

CONSTANTS
  Readers,
  Pollers,
  PageLimit   \* events one poll returns

ASSUME ReadersAssumption == PageLimit \in Nat \ {0}

VARIABLES
  reader,      \* the query each reader is in
  poller,      \* the cursor of each poller, and the poll it is in
  completedAt  \* sequence of the completed event of each run, 0 before it

readerVars == <<vars, reader, poller, completedAt>>

NoQuery == [at |-> "idle"]
Queries ==
  {NoQuery} \cup
  [at : {"origin", "alias", "resolve", "gate", "fetch", "served"},
   id : Runs \cup Results, origin : Bundles]

Polls ==
  [at : {"idle", "control"}, run : Runs, seen : Nat, cursor : Nat, delivered : SUBSET Nat]

ReaderInit ==
  /\ Init
  /\ reader = [q \in Readers |-> NoQuery]
  /\ \E run \in [Pollers -> Runs] :
       poller = [p \in Pollers |-> [at |-> "idle", run |-> run[p], seen |-> 0, cursor |-> 0,
                                    delivered |-> {}]]
  /\ completedAt = [run \in Runs |-> 0]

-----------------------------------------------------------------------------
(* require_completed_publication and CompletedRunQueryService.get            *)

Query(q, step, origin) ==
  reader' = [reader EXCEPT ![q].at = step, ![q].origin = origin]

Refuse(q) == reader' = [reader EXCEPT ![q] = NoQuery]

\* The identifier of the bundle: an alias resolves to the result of its run.
Resolved(q) == IF reader[q].id \in Runs THEN records[reader[q].id].result ELSE reader[q].id

Ask(q, id) ==
  /\ reader[q] = NoQuery
  /\ reader' = [reader EXCEPT ![q] = [at |-> "origin", id |-> id, origin |-> Nothing]]

\* No bundle is named after a lifecycle run.  A result without a bundle, and
\* one that was imported, need no gate.
LookForOrigin(q) ==
  /\ reader[q].at = "origin"
  /\ IF reader[q].id \in Runs
       THEN Query(q, "alias", Nothing)
       ELSE LET origin == published[reader[q].id]
            IN  Query(q, IF origin \in Runs THEN "gate" ELSE "fetch", origin)

CheckAlias(q) ==
  /\ reader[q].at = "alias"
  /\ IF PublicationReady(reader[q].id) THEN Query(q, "resolve", Nothing) ELSE Refuse(q)

ResolveAlias(q) ==
  /\ reader[q].at = "resolve"
  /\ LET origin == published[Resolved(q)]
     IN  Query(q, IF origin \in Runs THEN "gate" ELSE "fetch", origin)

Gate(q) ==
  /\ reader[q].at = "gate"
  /\ IF PublicationReady(reader[q].origin) /\ records[reader[q].origin].result = Resolved(q)
       THEN Query(q, "fetch", reader[q].origin)
       ELSE Refuse(q)

\* The bundle is read again, after the gate was passed.
Fetch(q) ==
  /\ reader[q].at = "fetch"
  /\ LET bundle == published[Resolved(q)]
     IN  IF bundle = Nothing THEN Refuse(q) ELSE Query(q, "served", bundle)

Finish(q) == reader[q].at = "served" /\ Refuse(q)

ReaderStep(q) ==
  \/ \E id \in Runs \cup Results : Ask(q, id)
  \/ LookForOrigin(q) \/ CheckAlias(q) \/ ResolveAlias(q) \/ Gate(q) \/ Fetch(q) \/ Finish(q)

-----------------------------------------------------------------------------
(* poll_events                                                               *)

Pending(run) == records[run].status \in {"finalizing", "completed"} /\ ~ PublicationReady(run)

\* Variant with a fault: events of a pending publication are not held back.
AllEvents(run, seen) == 1 .. seen

VisibleEvents(run, seen) ==
  {s \in 1 .. seen : ~ (Pending(run) /\ s = completedAt[run])}

\* Variant with a fault: the cursor moves to the last event of the record.
AdvancedToSeen(cursor, page, seen) == seen

Advanced(cursor, page, seen) ==
  IF page = {} THEN cursor ELSE CHOOSE s \in page : \A t \in page : t <= s

ReadEvents(p) ==
  /\ poller[p].at = "idle"
  /\ poller' = [poller EXCEPT ![p].at = "control", ![p].seen = records[poller[p].run].events]

Answer(p) ==
  LET k == poller[p]
      fresh == {s \in VisibleEvents(k.run, k.seen) : s > k.cursor}
      page == {s \in fresh : Cardinality({t \in fresh : t <= s}) <= PageLimit}
      cursor == Advanced(k.cursor, page, k.seen)
  IN  /\ k.at = "control"
      /\ poller' = [poller EXCEPT ![p] = [k EXCEPT
           !.at = "idle", !.seen = 0, !.cursor = cursor, !.delivered = @ \cup page]]

-----------------------------------------------------------------------------
\* The saga moves; the completed event is noted where it is emitted.
SagaMoves ==
  /\ Next
  /\ completedAt' = [run \in Runs |->
       IF records[run].status # "completed" /\ records'[run].status = "completed"
         THEN records'[run].events ELSE completedAt[run]]
  /\ UNCHANGED <<reader, poller>>

ReaderNext ==
  \/ SagaMoves
  \/ \E q \in Readers : ReaderStep(q) /\ UNCHANGED <<vars, poller, completedAt>>
  \/ \E p \in Pollers : (ReadEvents(p) \/ Answer(p)) /\ UNCHANGED <<vars, reader, completedAt>>

\* Pollers keep polling.
ReaderSpec ==
  /\ ReaderInit /\ [][ReaderNext]_readerVars
  /\ Fairness
  /\ \A p \in Pollers : WF_readerVars((ReadEvents(p) \/ Answer(p)) /\ UNCHANGED <<vars, reader, completedAt>>)

-----------------------------------------------------------------------------
(* Properties                                                                *)

\* Every lifecycle publication side effect of a run is durable.
SideEffectsDone(run) ==
  LET r == records[run]
  IN  /\ r.status = "completed"
      /\ quality[r.final] = "published"
      /\ "enabled" \in r.memory => decision[r.final] = "published"

\* A reader that asks by lifecycle run is handed a bundle only when every
\* side effect of the publication is durable, though it reads the gate and
\* the bundle at different times.  (One that asks by result identifier can
\* pass the gate before there is a bundle.)
LifecycleReadersSeeComplete ==
  \A q \in Readers :
    /\ reader[q].at = "served"
    /\ reader[q].id \in Runs
    /\ reader[q].origin \in Runs
    => SideEffectsDone(reader[q].origin)

\* Following the cursor loses no event: when a poller has moved to a
\* sequence it was given every event up to it, whatever was held back.
NoEventSkipped == \A p \in Pollers : poller[p].delivered = 1 .. poller[p].cursor

\* Whoever is given the completed event finds the publication done.
CompletedEventMeansDone ==
  \A p \in Pollers :
    completedAt[poller[p].run] \in poller[p].delivered => SideEffectsDone(poller[p].run)

\* The completed event is held back, not lost: it reaches every poller of a
\* run that was sealed.
CompletedEventArrives ==
  \A p \in Pollers :
    records[poller[p].run].status = "finalizing" ~>
      /\ completedAt[poller[p].run] # 0
      /\ completedAt[poller[p].run] \in poller[p].delivered

=============================================================================
