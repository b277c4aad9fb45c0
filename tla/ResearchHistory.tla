---------------------------- MODULE ResearchHistory ----------------------------
(***************************************************************************)
(* Research runs one beside another over time: each recalls the earlier    *)
(* decisions, collects sources, submits its dossier and publishes its      *)
(* forecasts and its decision, which later runs recall and of which        *)
(* outcomes are recorded.                                                  *)
(*                                                                         *)
(* Instants are what the records state, not when a step happens: a host    *)
(* may prepare a run for a past cutoff at any time.  The publication keeps *)
(* the order of CompletedPublicationSaga, whose failures PublicationSaga   *)
(* models; a quality store that dies between the two files of an outcome   *)
(* is modelled here.                                                       *)
(***************************************************************************)
EXTENDS ChromeSource, ResearchConformance, ForecastQuality, DecisionRecall

CONSTANTS
  Runs,                         \* the runs to come
  EarlierDecisions,             \* the rows of the decision memory at the start
  CandidateRequests(_),         \* requests a host may prepare a run for
  Routes,                       \* the registered routes of the portfolio
  CandidateQueries(_, _),       \* queries a host may ask for a request
  CandidateWorlds(_, _),        \* what the sources of the routes hold for a query
  CandidateSubmissions(_, _),   \* what a host may submit for a request
  CandidateOutcomes(_),         \* observations a host may report of a forecast
  MemoryOutcomes,               \* instants at which a decision is reviewed
  Policies,                     \* conventions cohorts are evaluated by
  SameLimit, CrossLimit,        \* same_symbol_limit, cross_symbol_limit
  MaxReviews,                   \* bound on the outcomes of the decision memory
  MaxJournal,                   \* bound on the observations of a forecast
  MaxCohort                     \* bound on the forecasts of a cohort

ASSUME HistoryAssumption ==
  /\ IsFiniteSet(Routes) /\ Cardinality(Routes) >= 2
  /\ \A r, s \in Routes : r.id \in Nat /\ (r.id = s.id => r = s)
  /\ SameLimit \in 0 .. 5 /\ CrossLimit \in 0 .. 3
  /\ MaxObservations \in Nat
  /\ MaxReviews \in Nat /\ MaxJournal \in Nat /\ MaxCohort \in Nat
  /\ \A p \in Policies : ValidPolicy(p) /\ p.edges \in Seq(0 .. 100) /\ p.minimum \in Nat

\* A decision the program wrote, with instants: its row was created when the
\* run was completed, and its documents and facts were available by then.
IsDecision(row) ==
  /\ row = [run |-> row.run, symbol |-> row.symbol, as_of |-> row.as_of, created |-> row.created,
            stamps |-> row.stamps, published |-> row.published, evidence |-> row.evidence]
  /\ row.created \in Nat /\ row.published \in BOOLEAN
  /\ \A t \in row.evidence : t \in Nat /\ t <= row.created

ASSUME EarlierAssumption ==
  /\ EarlierDecisions \in Seq(Range(EarlierDecisions))
  /\ \A row \in Range(EarlierDecisions) : IsDecision(row)
  /\ \A i, j \in DOMAIN EarlierDecisions : EarlierDecisions[i].run = EarlierDecisions[j].run => i = j

\* What a host may give has instants and numbers where the contracts ask for
\* them.
ASSUME CandidatesAssumption ==
  \A r \in Runs : \A q \in CandidateRequests(r) :
    /\ q.cutoff \in Nat /\ q.requested \in Nat
    /\ \A s \in CandidateSubmissions(r, q) :
         /\ s.card.completed \in Nat /\ s.bundle.cutoff \in Nat
         /\ \A x \in s.bundle.facts : x.available \in Nat
         /\ \A i \in DOMAIN s.dossier.documents : s.dossier.documents[i].available \in Nat
         /\ \A m \in DOMAIN s.dossier.metrics :
              s.dossier.metrics[m].as_of \in Nat /\ s.dossier.metrics[m].value \in Int
         /\ \A k \in DOMAIN s.dossier.calculations :
              LET c == s.dossier.calculations[k]
              IN  /\ c.result \in Int
                  /\ \A x \in DOMAIN c.constants : c.constants[x] \in Int
         /\ \A f \in s.forecasts :
              /\ f.cutoff \in Nat /\ f.at \in Nat /\ f.resolve_after \in Nat
              /\ \A o \in CandidateOutcomes(f) : o.available \in Nat /\ o.resolved \in Nat

\* A host asks with instants, and what it asks is asked of providers.
ASSUME WorldsAssumption ==
  \A r \in Runs : \A q \in CandidateRequests(r) : \A query \in CandidateQueries(r, q) :
    /\ query.capability \in Windowed => query.after \in Nat /\ query.until \in Nat
    /\ query.capability \in Factual => IsFiniteSet(query.wanted)
    /\ \A world \in CandidateWorlds(r, query) : FittingWorld(query, world.public)

VARIABLES
  work,         \* how far each run is, and what it holds
  decisions,    \* the rows of the decision memory, by sequence
  reviews,      \* the outcomes of the decision memory, by sequence
  journals,     \* the observations of each registered forecast, by sequence
  scorecards    \* the scorecard files of each forecast, by sequence

vars == <<work, decisions, reviews, journals, scorecards>>

NotStarted == [step |-> "none"]

Steps ==
  {"none", "recalling", "planned", "collected", "submitted", "quality_staged",
   "memory_staged", "quality_published", "memory_published"}

\* A run has a registration, staged or published.
Registering == {"quality_staged", "memory_staged", "quality_published", "memory_published"}

Init ==
  /\ work = [r \in Runs |-> NotStarted]
  /\ decisions = EarlierDecisions
  /\ reviews = <<>>
  /\ journals = <<>>
  /\ scorecards = <<>>

At(r, step) == work[r].step = step

-----------------------------------------------------------------------------
(* Preparation: recall at the cutoff of the request                          *)

\* recall, first statement: the published rows of the symbol.
Plan(r) ==
  /\ At(r, "none")
  /\ \E q \in CandidateRequests(r) :
       /\ ValidRequest(q)
       /\ work' = [work EXCEPT ![r] =
            [step |-> "recalling", request |-> q, rows |-> SameSymbol(decisions, q.symbol)]]
  /\ UNCHANGED <<decisions, reviews, journals, scorecards>>

\* recall, second statement; outcomes are read for the entries that are kept.
RecallOthers(r) ==
  /\ At(r, "recalling")
  /\ LET q == work[r].request
     IN  work' = [work EXCEPT ![r] =
           [step |-> "planned", request |-> q,
            same |-> VisibleEntries(work[r].rows, reviews, SameLimit, q.cutoff),
            cross |-> VisibleEntries(CrossSymbol(decisions, q.symbol), reviews, CrossLimit, q.cutoff)]]
  /\ UNCHANGED <<decisions, reviews, journals, scorecards>>

-----------------------------------------------------------------------------
(* Research and publication                                                  *)

\* The port of a route: an adapter of the repository, a stored batch that is
\* read again, or an adapter of the host that may answer anything.
Answer(route, query, world) ==
  CASE route.adapter = "public" -> PublicAnswer(query, world.public)
    [] route.adapter = "chrome" -> ChromeAnswer(query, world.chrome)
    [] route.adapter = "replay" -> PassedOn(query, world.stored)
    [] route.adapter = "host" -> world.host

\* The host collects sources for the cutoff of its request.
Collect(r) ==
  /\ At(r, "planned")
  /\ \E query \in CandidateQueries(r, work[r].request) :
       /\ ValidQuery(query)
       /\ query.cutoff = work[r].request.cutoff
       /\ \E world \in CandidateWorlds(r, query) :
            LET answer == [id \in {route.id : route \in Routes} |->
                             Answer(CHOOSE route \in Routes : route.id = id, query, world)]
            IN  work' = [work EXCEPT ![r] =
                  [step |-> "collected", request |-> work[r].request, world |-> world,
                   receipt |-> Receipt(Routes, answer, query)]]
  /\ UNCHANGED <<decisions, reviews, journals, scorecards>>

\* When the documents and the facts of a submission became available.  The
\* other records of its bundle are not among them: nothing compares theirs.
EvidenceInstants(s) ==
  {s.dossier.documents[i].available : i \in DOMAIN s.dossier.documents}
  \cup {f.available : f \in s.bundle.facts}

\* stage_final_decision: the payload has no availability timestamp, and the
\* day is the one that the timestamp shows, at its own offset.
DecisionRow(r, s) ==
  [run |-> r, symbol |-> s.dossier.symbol, as_of |-> Day(s.dossier.as_of + s.dossier.offset),
   created |-> s.card.completed, stamps |-> {}, published |-> FALSE,
   evidence |-> EvidenceInstants(s)]

Submit(r) ==
  /\ work[r].step \in {"planned", "collected"}
  /\ \E s \in CandidateSubmissions(r, work[r].request) :
       /\ s.request = work[r].request
       /\ ValidSubmission(s)
       /\ ConformantRegistration(r, s.forecasts)
       /\ \A f \in s.forecasts : ValidForecast(f)
       /\ work' = [work EXCEPT ![r] = [step |-> "submitted", submission |-> s]]
  /\ UNCHANGED <<decisions, reviews, journals, scorecards>>

\* The forecasts of the registrations of the other runs, staged or published.
KnownForecasts(r) ==
  UNION {work[x].forecasts : x \in {y \in Runs \ {r} : work[y].step \in Registering}}

\* stage_registration: no forecast has the identifier of another run's.
StageQuality(r) ==
  /\ At(r, "submitted")
  /\ LET s == work[r].submission
     IN  /\ ConformantRegistration(r, s.forecasts)
         /\ \A f \in s.forecasts, g \in KnownForecasts(r) : f.id # g.id
         /\ work' = [work EXCEPT ![r] =
              [step |-> "quality_staged", row |-> DecisionRow(r, s), forecasts |-> s.forecasts]]
  /\ UNCHANGED <<decisions, reviews, journals, scorecards>>

StageDecision(r) ==
  /\ At(r, "quality_staged")
  /\ ~ Refused(decisions, work[r].row)
  /\ decisions' = StagedIn(decisions, work[r].row)
  /\ work' = [work EXCEPT ![r] = [step |-> "memory_staged", forecasts |-> work[r].forecasts]]
  /\ UNCHANGED <<reviews, journals, scorecards>>

\* publish_registration: the forecasts can be resolved from here on.
PublishQuality(r) ==
  /\ At(r, "memory_staged")
  /\ LET registered == {f.id : f \in work[r].forecasts}
         opened(files) == [i \in registered \cup DOMAIN files |->
                             IF i \in registered THEN <<>> ELSE files[i]]
     IN  /\ journals' = opened(journals)
         /\ scorecards' = opened(scorecards)
  /\ work' = [work EXCEPT ![r].step = "quality_published"]
  /\ UNCHANGED <<decisions, reviews>>

PublishDecision(r) ==
  /\ At(r, "quality_published")
  /\ decisions' = PublishedIn(decisions, r)
  /\ work' = [work EXCEPT ![r].step = "memory_published"]
  /\ UNCHANGED <<reviews, journals, scorecards>>

-----------------------------------------------------------------------------
(* Afterwards: outcomes                                                      *)

Registered ==
  UNION {work[r].forecasts :
           r \in {x \in Runs : work[x].step \in {"quality_published", "memory_published"}}}

\* ResearchHistoryRepository.append_outcome.
Review(row, instant) ==
  /\ Len(reviews) < MaxReviews
  /\ row.published
  /\ reviews' = Append(reviews, [run |-> row.run, observed |-> instant])
  /\ UNCHANGED <<work, decisions, journals, scorecards>>

\* A scorecard is a file of its own, under the sequence of its observation.
Filed(cards, i, card) == [j \in DOMAIN cards \cup {i} |-> IF j = i THEN card ELSE cards[j]]

\* QualityStore.append_outcome: the observation, then its scorecard; a process
\* that dies in between leaves the scorecard out, and a retry does not add it.
AppendOutcome(f, o, dies) ==
  /\ Len(journals[f.id]) < MaxJournal
  /\ ValidObservedOutcome(o)
  /\ Appendable(f, journals[f.id], o)
  /\ LET observations == Append(journals[f.id], o)
     IN  /\ journals' = [journals EXCEPT ![f.id] = observations]
         /\ scorecards' =
              IF dies THEN scorecards
              ELSE [scorecards EXCEPT ![f.id] = Filed(@, Len(observations), Score(f, observations))]
  /\ UNCHANGED <<work, decisions, reviews>>

Next ==
  \/ \E r \in Runs :
       \/ Plan(r) \/ RecallOthers(r) \/ Collect(r) \/ Submit(r)
       \/ StageQuality(r) \/ StageDecision(r) \/ PublishQuality(r) \/ PublishDecision(r)
  \/ \E i \in DOMAIN decisions, instant \in MemoryOutcomes : Review(decisions[i], instant)
  \/ \E f \in Registered : \E o \in CandidateOutcomes(f), dies \in BOOLEAN : AppendOutcome(f, o, dies)

Spec == Init /\ [][Next]_vars

-----------------------------------------------------------------------------
(* Properties                                                                *)

\* Every step is one of the lifecycle, every receipt that collect builds
\* passes the checks its constructor makes, and no run has two decisions.
TypeOK ==
  /\ \A r \in Runs : work[r].step \in Steps
  /\ \A r \in Runs : At(r, "collected") => ValidReceipt(work[r].receipt)
  /\ \A i, j \in DOMAIN decisions : decisions[i].run = decisions[j].run => i = j
  /\ Len(reviews) <= MaxReviews
  /\ DOMAIN scorecards = DOMAIN journals

SharesKey(x, y) == \E b \in DOMAIN Bases : Key(Bases[b], x) = Key(Bases[b], y)

\* Closed and connected under sharing a key: a duplicate cluster, by meaning.
IsCluster(C, all) ==
  /\ Cardinality(C) > 1
  /\ \A x \in C, y \in all \ C : ~ SharesKey(x, y)
  /\ \A D \in (SUBSET C) \ {{}, C} : \E x \in D, y \in C \ D : SharesKey(x, y)

\* The duplicate clusters of a receipt are the classes of the observations
\* that a chain of shared keys connects, whatever the order of the routes and
\* however the keys overlap; a cluster is named by the first basis on which
\* two of its members agree.
ClustersAreExactMatches ==
  \A r \in Runs : At(r, "collected") =>
    LET p == work[r].receipt
        all == Observed(p.attempts)
        agree(C, b) == \E x, y \in C : x # y /\ Key(Bases[b], x) = Key(Bases[b], y)
    IN  /\ {c.members : c \in p.clusters} = {C \in SUBSET all : IsCluster(C, all)}
        /\ \A c \in p.clusters :
             /\ c.representative \in c.members
             /\ \A b \in DOMAIN Bases : Bases[b] = c.basis <=>
                  /\ agree(c.members, b)
                  /\ \A a \in 1 .. b - 1 : ~ agree(c.members, a)

\* The observations that a provider could have given for a query: what it
\* holds of what was asked for that was available by the cutoff, whatever the
\* adapter asked for or received of it.  A filing in a file that could not be
\* read, or that was never asked for, is among them.  An article is told from
\* another one by its address, everything else by its content.
HeldFilings(query, world) ==
  LET index == Last(world.index).payload
      rows == index.recent \cup UNION {Held(f.request) : f \in Range(index.files)}
  IN  {row.content : row \in {x \in rows : MatchesFiling(x, query)}}

HeldFacts(query, world) ==
  {row.content : row \in {x \in Range(Last(world.index).payload) : MatchesFact(x, query)}}

HeldArticles(query, world) ==
  {x.uri : x \in {y \in Range(Last(world.index).payload) :
     query.after <= y.seen /\ y.seen <= query.until}}

HeldValues(query, world) ==
  {row.content : row \in {x \in UNION {UNION {Last(page.request).payload.rows : page \in Range(series)} :
                                      series \in Range(world.series)} :
     query.after <= x.year /\ x.year <= query.until}}

HeldMarkets(world) ==
  {x.content : x \in {y \in Range(Last(world.index).payload.markets) : y.open}}

Matching(query, world) ==
  CASE query.capability = "regulatory_filings" -> HeldFilings(query, world)
    [] query.capability \in Factual -> HeldFacts(query, world)
    [] query.capability \in {"company_news", "global_news"} -> HeldArticles(query, world)
    [] query.capability = "macro" -> HeldValues(query, world)
    [] query.capability = "prediction_markets" -> HeldMarkets(world)
    [] OTHER -> {}

\* An answer of a public provider that calls itself complete leaves out
\* nothing that the provider held: a file that fails, a limit that is reached
\* or a page that cannot be read always shows in the status.  What a page
\* without a list of observations would have held is not counted: the code
\* takes such a page for an empty one.
CompleteAnswersOmitNothing ==
  \A r \in Runs : At(r, "collected") =>
    \A a \in Range(work[r].receipt.attempts) :
      Retained(a) /\ a.route.adapter = "public" /\ a.status = "complete" =>
        Matching(work[r].receipt.query, work[r].world.public) \subseteq
          UNION {{o.content, o.uri} : o \in a.batch.items}

\* The metrics that a set of metrics is computed from, through any number of
\* calculations, itself included: the least set that holds their inputs.
Upstream(d, ms) ==
  LET inputsOf(m) == IF d.metrics[m].calculation = None THEN {}
                     ELSE d.calculations[d.metrics[m].calculation].inputs
      closed(S) == \A m \in S : inputsOf(m) \subseteq S
  IN  {n \in DOMAIN d.metrics : \A S \in SUBSET DOMAIN d.metrics : ms \subseteq S /\ closed(S) => n \in S}

\* No look-ahead: whatever a submitted claim rests on, through metrics and
\* calculations of any depth, became available by the cutoff of the request,
\* and what a metric is computed from became available by the metric's own
\* instant; the same of every observation that a portfolio retained.
EvidencePrecedesCutoff ==
  \A r \in Runs :
    /\ At(r, "collected") =>
         \A x \in Observed(work[r].receipt.attempts) : x.item.available <= work[r].request.cutoff
    /\ At(r, "submitted") =>
         LET s == work[r].submission
             d == s.dossier
             precedes(m, instant) == \A i \in d.metrics[m].documents : d.documents[i].available <= instant
         IN  /\ \A m \in DOMAIN d.metrics : \A n \in Upstream(d, {m}) :
                  /\ precedes(n, d.metrics[m].as_of)
                  /\ d.metrics[n].as_of <= s.request.cutoff
             /\ \A k \in DOMAIN d.claims :
                  /\ \A i \in d.claims[k].documents : d.documents[i].available <= s.request.cutoff
                  /\ \A m \in Upstream(d, d.claims[k].metrics) : precedes(m, s.request.cutoff)

\* A calculated metric of a submission that the conformance validator passes
\* is the value of its formula over the input metrics: without a rounding to
\* the tolerance that the contract and the validator each grant once, with
\* one to half a unit more for each of their two roundings.  They never stack
\* while the tolerance is below half a unit: the metric then is the rounded
\* value of the formula, to the tolerance once.
PassedMetricsReproduce ==
  \A r \in Runs : At(r, "submitted") =>
    LET d == work[r].submission.dossier
    IN  Conformant(d) =>
          \A m \in DOMAIN d.metrics : d.metrics[m].calculation # None =>
            LET c == d.calculations[d.metrics[m].calculation]
                v == FormulaValue(c.formula, [x \in Names(c.formula) |-> NumericInputs(d, c)[x]])
                unit == IF c.rounding = None THEN 0 ELSE c.rounding
            IN  /\ v[2] # 0
                /\ Abs(d.metrics[m].value * v[2] - Scale * v[1]) <= (2 * c.tolerance + unit) * Abs(v[2])
                /\ 2 * c.tolerance < unit =>
                     Abs(d.metrics[m].value - RoundedValue(v, unit)) <= c.tolerance

-----------------------------------------------------------------------------
\* The runs of the newest `limit` rows that are visible, by their rank.
NewestVisible(rows, limit, cutoff) ==
  LET visible == {i \in DOMAIN rows : Visible(rows[i], cutoff)}
      rank(i) == Cardinality({j \in visible : j <= i})
  IN  {<<rank(i), rows[i].run>> : i \in {j \in visible : rank(j) <= limit}}

\* A recall gives the newest visible decisions, as many as its limits allow:
\* decisions of a later day, however many, never push an older one out.
RecallTakesNewestVisible ==
  [][\A r \in Runs : At(r, "recalling") /\ work'[r].step = "planned" =>
       LET q == work[r].request
           ranked(entries) == {<<i, entries[i].run>> : i \in DOMAIN entries}
       IN  /\ ranked(work'[r].same) = NewestVisible(work[r].rows, SameLimit, q.cutoff)
           /\ ranked(work'[r].cross) = NewestVisible(CrossSymbol(decisions, q.symbol), CrossLimit, q.cutoff)
    ]_vars

\* What a run recalls was known at its cutoff: the decision was made, the
\* documents and facts behind it were available and its outcomes had been
\* observed, however late the recalled run was published and reviewed.
RecallNeverLooksAhead ==
  \A r \in Runs : At(r, "planned") =>
    \A entry \in Range(work[r].same) \cup Range(work[r].cross) :
      /\ \A o \in Range(entry.outcomes) : o.observed <= work[r].request.cutoff
      /\ \E i \in DOMAIN decisions :
           /\ decisions[i].run = entry.run /\ decisions[i].published
           /\ \A t \in decisions[i].evidence \cup decisions[i].stamps \cup {decisions[i].created} :
                t <= work[r].request.cutoff

-----------------------------------------------------------------------------
\* Whatever corrections are reported, and whenever a process dies, what the
\* quality store has on disk can be loaded again: the observations of a
\* forecast form one chain, none was made before its forecast could be
\* resolved, and each scorecard scores the observation it is filed under.
JournalStaysLoadable ==
  \A f \in Registered :
    LET observations == journals[f.id]
    IN  /\ \A i, j \in DOMAIN observations : i < j =>
             /\ observations[i].id # observations[j].id
             /\ (observations[j].supersedes = observations[i].id) = (j = i + 1)
        /\ \A i \in DOMAIN observations :
             observations[i].status = "resolved" => f.resolve_after <= observations[i].available
        /\ DOMAIN scorecards[f.id] \subseteq DOMAIN observations
        /\ \A i \in DOMAIN scorecards[f.id] :
             /\ scorecards[f.id][i] = Score(f, SubSeq(observations, 1, i))
             /\ scorecards[f.id][i].observation = observations[i].id

\* The cohorts a host may ask for: registered forecasts, each with what it
\* last read of the forecast's journal.
Cohorts ==
  LET members == UNION {{[forecast |-> f, observations |-> SubSeq(journals[f.id], 1, n)] :
                           n \in 0 .. Len(journals[f.id])} : f \in Registered}
  IN  UNION {[1 .. n -> members] : n \in 1 .. MaxCohort}

\* A cohort that is evaluated has a sample of distinct instruments of the
\* required size, no outcome of it was available before its forecast could be
\* resolved or after the evaluation cutoff, and every forecast counts in the
\* one bin that its probability lies in.
CohortIsLeakFree ==
  \A p \in Policies, cohort \in Cohorts :
    LET report == Report(p, cohort)
    IN  report.status = "evaluated" =>
          /\ Len(cohort) >= MinimumSampleFloor
          /\ \A i \in DOMAIN cohort :
               LET f == cohort[i].forecast
                   o == Last(cohort[i].observations)
               IN  /\ f.cutoff <= f.at /\ f.at <= o.available
                   /\ f.resolve_after <= o.available /\ o.resolved <= p.cutoff
                   /\ \A j \in DOMAIN cohort :
                        i # j => f.instrument # cohort[j].forecast.instrument
                   /\ \A b \in DOMAIN report.bins : i \in report.bins[b] <=>
                        /\ p.edges[b] <= f.estimate
                        /\ f.estimate < p.edges[b + 1] \/ (f.estimate = 100 /\ b = Len(p.edges) - 1)

=============================================================================
