---------------------------- MODULE SourcePortfolio ----------------------------
(***************************************************************************)
(* One collection of the source portfolio: every registered route of a     *)
(* capability is asked once, in the order of the route identifiers, and    *)
(* the receipt keeps what each answered, the gaps, a status and the exact  *)
(* duplicates among the retained observations.                             *)
(*                                                                         *)
(* Batches, observations and URIs are records of the values the collector  *)
(* compares; a digest is the value it digests.  Texts, identifiers, the    *)
(* provider's name and its license receipts are left out.                  *)
(***************************************************************************)
EXTENDS Integers, FiniteSets, Sequences, SequencesExt

CONSTANTS
  MaxObservations,    \* MAX_SOURCE_PORTFOLIO_OBSERVATIONS
  Raises              \* the adapter raised instead of answering

NoBatch == [status |-> "none"]

BatchStatuses == {"complete", "partial", "unavailable", "denied", "rate_limited", "stale"}

\* SourceObservation: a text extract is digested as it stands.
ValidObservation(o) ==
  /\ o.id \in Nat
  /\ o.observed <= o.published
  /\ o.published <= o.available
  /\ o.available <= o.retrieved
  /\ o.scope = "bounded_extract" => o.extract

\* Pagination, completeness and entitlement have to agree with the status.
StatusIsHonest(b) ==
  /\ b.status \in BatchStatuses
  /\ b.complete = (b.status = "complete")
  /\ b.gaps # b.complete
  /\ b.status # "complete" => b.limited
  /\ b.more => b.status = "partial"
  /\ b.status \in {"unavailable", "denied", "rate_limited"} => b.items = {}
  /\ b.status \in {"partial", "stale"} => b.items # {}
  /\ (b.status = "denied") = (b.access = "denied")
  /\ b.status = "complete" => b.access = "allowed"
  /\ (\E o \in b.items : o.extract) => b.redistributable

UniqueSources(b) == \A o, p \in b.items : o.id = p.id => o = p

\* What the constructors let an adapter build for a cutoff of its own.
Constructible(b) ==
  /\ IsFiniteSet(b.items)
  /\ \A o \in b.items : ValidObservation(o)
  /\ \A o \in b.items : o.available <= b.query.cutoff /\ o.retrieved <= b.retrieved
  /\ UniqueSources(b)
  /\ StatusIsHonest(b)

\* validate_source_response.
Answers(b, query) == b.query = query

\* A port that passes on what it holds or is told: ReplaySourceAdapter,
\* FixtureSourceAdapter and SourceRouter.  A batch is built anew and has to
\* answer the query; there may be none.
PassedOn(query, answer) ==
  IF answer \in {NoBatch, Raises} THEN Raises
  ELSE IF Constructible(answer) /\ Answers(answer, query) THEN answer ELSE Raises

-----------------------------------------------------------------------------
Retained(attempt) == attempt.batch # NoBatch

ItemCount(attempts) ==
  FoldLeft(LAMBDA n, a : IF Retained(a) THEN n + Cardinality(a.batch.items) ELSE n, 0, attempts)

\* A batch that breaks its contract cannot be built: the adapter raises.
Attempted(route, answer, query, held) ==
  LET failed(status) == [route |-> route, status |-> status, batch |-> NoBatch]
  IN  IF answer = Raises THEN failed("error")
      ELSE IF ~ Constructible(answer) THEN failed("error")
      ELSE IF ~ Answers(answer, query) \/ held + Cardinality(answer.items) > MaxObservations
           THEN failed("invalid_response")
      ELSE [route |-> route, status |-> answer.status, batch |-> answer]

\* sorted: the i-th element of a set is the one that i - 1 of them precede.
InOrder(S, precedes(_, _)) ==
  [i \in 1 .. Cardinality(S) |-> CHOOSE x \in S : Cardinality({y \in S : precedes(y, x)}) = i - 1]

InRouteOrder(routes) == InOrder(routes, LAMBDA r, s : r.id < s.id)

\* Variant with a fault: the items of earlier routes do not count.
Attempts_as_unbounded(routes, answer, query) ==
  FoldLeft(LAMBDA done, r : Append(done, Attempted(r, answer[r.id], query, 0)),
           <<>>, InRouteOrder(routes))

Attempts(routes, answer, query) ==
  FoldLeft(LAMBDA done, r : Append(done, Attempted(r, answer[r.id], query, ItemCount(done))),
           <<>>, InRouteOrder(routes))

HasItems(attempt) == Retained(attempt) /\ attempt.batch.items # {}

\* _coverage_gaps: a gap is the route and what it lacks.
CoverageGaps(attempts) ==
  LET lacking == {a \in Range(attempts) : a.route.required /\ ~ (a.status = "complete" /\ HasItems(a))}
      required == {<<a.route.id, IF a.status = "complete" THEN "empty" ELSE a.status>> : a \in lacking}
  IN  IF required = {} /\ ~ \E a \in Range(attempts) : HasItems(a)
      THEN {<<0, "no_observations">>}
      ELSE required

PortfolioStatus(attempts, gaps) ==
  LET all == Range(attempts)
  IN  IF ~ \E a \in all : HasItems(a) THEN "unavailable"
      ELSE IF gaps # {} \/ ( (\A a \in all : ~ a.route.required)
                           /\ (\E a \in all : a.status # "complete") )
           THEN "partial"
      ELSE "complete"

-----------------------------------------------------------------------------
Bases == <<"content_digest", "canonical_uri", "provider_native_identity">>

\* The observations with the reference that the portfolio gives them.
Observed(attempts) ==
  UNION {{[route |-> a.route.id, family |-> a.route.family, item |-> o] : o \in a.batch.items} :
           a \in {b \in Range(attempts) : Retained(b)}}

Records(attempts) ==
  InOrder(Observed(attempts), LAMBDA x, y :
    x.route < y.route \/ (x.route = y.route /\ x.item.id < y.item.id))

Key(basis, x) ==
  CASE basis = "content_digest" -> <<x.item.scope, x.item.content>>
    [] basis = "canonical_uri" -> <<x.item.uri>>
    [] basis = "provider_native_identity" -> <<x.family, x.item.id>>

\* The first record of the group that record i belongs to.
Anchor(recs, basis, i) == CHOOSE j \in 1 .. i :
  /\ Key(basis, recs[j]) = Key(basis, recs[i])
  /\ \A k \in 1 .. j - 1 : Key(basis, recs[k]) # Key(basis, recs[i])

\* matching_edges: a record and its anchor, by the priority of the basis.
Edges(recs) ==
  {e \in [priority : 1 .. Len(Bases), left : DOMAIN recs, right : DOMAIN recs] :
     /\ e.left = Anchor(recs, Bases[e.priority], e.right)
     /\ e.left # e.right}

Find(parents, i) ==
  LET root[j \in DOMAIN parents] == IF parents[j] = j THEN j ELSE root[parents[j]]
  IN  root[i]

\* Variant with a fault: the parent of the record changes, not that of its root.
Union_as_leafwise(parents, left, right) == [parents EXCEPT ![right] = Find(parents, left)]

Union(parents, left, right) ==
  LET l == Find(parents, left)
      r == Find(parents, right)
  IN  IF l < r THEN [parents EXCEPT ![r] = l] ELSE [parents EXCEPT ![l] = r]

EdgesInOrder(recs) ==
  InOrder(Edges(recs), LAMBDA d, e :
    d.priority < e.priority \/ (d.priority = e.priority /\ d.right < e.right))

Joined(recs) ==
  FoldLeft(LAMBDA parents, e : Union(parents, e.left, e.right),
           [i \in DOMAIN recs |-> i], EdgesInOrder(recs))

\* _exact_duplicate_clusters: the components, with their strongest basis.
Clusters(attempts) ==
  LET recs == Records(attempts)
      parents == Joined(recs)
      members(root) == {i \in DOMAIN recs : Find(parents, i) = root}
      roots == {i \in DOMAIN recs : Find(parents, i) = i /\ Cardinality(members(i)) > 1}
      priorities(root) == {e.priority : e \in {d \in Edges(recs) : Find(parents, d.left) = root}}
  IN  {[basis |-> Bases[CHOOSE p \in priorities(root) : \A q \in priorities(root) : p <= q],
        representative |-> recs[root],
        members |-> {recs[i] : i \in members(root)}] : root \in roots}

-----------------------------------------------------------------------------
\* What SourcePortfolioReceipt checks whenever one is built or read.
ValidReceipt(p) ==
  /\ p.attempts # <<>>
  /\ \A i, j \in DOMAIN p.attempts : i < j => p.attempts[i].route.id < p.attempts[j].route.id
  /\ \A a \in Range(p.attempts) : Retained(a) =>
       Constructible(a.batch) /\ Answers(a.batch, p.query) /\ a.status = a.batch.status
  /\ ItemCount(p.attempts) <= MaxObservations
  /\ p.gaps = CoverageGaps(p.attempts)
  /\ p.status = PortfolioStatus(p.attempts, p.gaps)
  /\ p.clusters = Clusters(p.attempts)

\* collect.
Receipt(routes, answer, query) ==
  LET attempts == Attempts(routes, answer, query)
      gaps == CoverageGaps(attempts)
  IN  [query |-> query, attempts |-> attempts, gaps |-> gaps,
       status |-> PortfolioStatus(attempts, gaps), clusters |-> Clusters(attempts)]

=============================================================================
