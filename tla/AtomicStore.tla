------------------------------ MODULE AtomicStore ------------------------------
(***************************************************************************)
(* What RunStore promises: a publication and the current pointer change    *)
(* in one step, nothing published is lost or turns into a partial run, and *)
(* partial event streams only belong to runs that are not published.       *)
(***************************************************************************)
EXTENDS Naturals

CONSTANTS Runs, Versions, Absent

VARIABLES
  published,    \* the publication of each run
  partial,      \* the length of the event stream of a run without one
  current       \* the run that "current" names

Init ==
  /\ published = [r \in Runs |-> Absent]
  /\ partial = [r \in Runs |-> 0]
  /\ current = Absent

Publish(r, v) ==
  /\ published' = [published EXCEPT ![r] = v]
  /\ partial' = [partial EXCEPT ![r] = 0]
  /\ current' = r

ReplaceEvents(r) ==
  /\ published[r] = Absent
  /\ partial'[r] > 0
  /\ partial' = [partial EXCEPT ![r] = partial'[r]]
  /\ UNCHANGED <<published, current>>

\* A partial run becomes current after its events are written.
PointAt(r) ==
  /\ published[r] = Absent
  /\ partial[r] > 0
  /\ current' = r
  /\ UNCHANGED <<published, partial>>

Next ==
  \E r \in Runs :
    \/ \E v \in Versions : Publish(r, v)
    \/ ReplaceEvents(r)
    \/ PointAt(r)

Spec == Init /\ [][Next]_<<published, partial, current>>

=============================================================================
