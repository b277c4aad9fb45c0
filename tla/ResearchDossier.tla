---------------------------- MODULE ResearchDossier ----------------------------
(***************************************************************************)
(* What a completed research submission has to satisfy before it can be    *)
(* published: the request, the dossier with its documents, metrics,        *)
(* calculations, claims and arguments, and the analytics sidecars that     *)
(* are bound to them.                                                      *)
(*                                                                         *)
(* Instants are naturals.  A collection of the dossier is a function from  *)
(* its identifiers, which are therefore unique.  Filings, transcripts,     *)
(* factors, historical events and prior outcomes differ in the instant     *)
(* that has to precede the cutoff and in what they refer to: they are      *)
(* "dated" items.  Guidance, peers, risks, monitoring, entities and the    *)
(* portfolio only refer to the rest and are left out, as are texts, units, *)
(* bounds on sizes and digests.  Coverage is modelled for what it covers;  *)
(* what a dossier must declare when it has no valuations, events,          *)
(* guidance, peers, risks or monitoring is left out with them.  Of the     *)
(* conformance of an analytics bundle only the licensing of sources is     *)
(* kept.                                                                   *)
(*                                                                         *)
(* Values, results and tolerances are decimals: integers that count units  *)
(* of 1/Scale.  A calculation has no rounding, or rounds to a multiple of  *)
(* a unit, which is what 10^-rounding_digits is of 1/Scale.                *)
(***************************************************************************)
EXTENDS Integers, FiniteSets, Sequences

CONSTANTS None, Scale, RoundingUnits

ASSUME ScaleAssumption == Scale \in Nat \ {0} /\ RoundingUnits \subseteq Nat \ {0}

Accessible(d) == {i \in DOMAIN d.documents : d.documents[i].access # "entitlement_blocked"}

Abs(x) == IF x < 0 THEN - x ELSE x

\* round: the integer nearest to p / q, q > 0, and of two that are as near
\* the even one.
Nearest(p, q) ==
  LET below == p \div q
      rest == p - q * below
  IN  IF 2 * rest > q \/ (2 * rest = q /\ below % 2 = 1) THEN below + 1 ELSE below

-----------------------------------------------------------------------------
\* ResearchPlan and CompanyResearchRequest.
ValidRequest(q) ==
  /\ q.cutoff <= q.requested
  /\ DOMAIN q.plan # {} /\ q.windows # {}
  /\ \A w \in q.windows : w.area \in DOMAIN q.plan /\ w.start <= w.end /\ w.end <= q.cutoff

\* TemporalProvenance and SourceEntitlement of a document.
ValidDocument(x) ==
  /\ x.observed <= x.published /\ x.published <= x.available
  /\ x.available <= x.cutoff
  /\ x.available <= x.retrieved
  /\ x.access = "entitlement_blocked" => ~ x.redistributable
  /\ x.extract => x.redistributable

Arity == [identity |-> 1, add |-> 2, subtract |-> 2, multiply |-> 2, divide |-> 2]

\* CalculationLineage.
ValidCalculation(c) ==
  /\ c.inputs # {}
  /\ c.operation \in DOMAIN Arity => Cardinality(c.inputs) = Arity[c.operation]
  /\ c.rounding \in RoundingUnits \cup {None}
  /\ c.tolerance \in 0 .. Scale

\* Metric: only a calculated one has a calculation.
ValidMetric(m) ==
  /\ m.basis = "reported" => m.period_end <= m.as_of
  /\ (m.basis = "calculated") = (m.calculation # None)
  /\ m.documents = {} => m.basis = "assumption"

ValidClaim(c) == c.documents # {} \/ c.metrics # {}

ValidItems(d) ==
  /\ \A i \in DOMAIN d.documents : ValidDocument(d.documents[i])
  /\ \A i \in DOMAIN d.calculations : ValidCalculation(d.calculations[i])
  /\ \A i \in DOMAIN d.metrics : ValidMetric(d.metrics[i])
  /\ \A i \in DOMAIN d.claims : ValidClaim(d.claims[i])
  /\ \A i \in DOMAIN d.valuations : d.valuations[i].inputs # {} /\ d.valuations[i].calculations # {}
  /\ \A i \in DOMAIN d.arguments : d.arguments[i].claims # {}

\* A dossier has evidence, a challenge and a rebuttal, processed by its end.
CompletedContent(d) ==
  /\ d.as_of <= d.completed
  /\ \A i \in DOMAIN d.documents : d.documents[i].retrieved <= d.completed
  /\ d.checks # {} /\ \A t \in d.checks : t <= d.completed
  /\ DOMAIN d.documents # {} /\ DOMAIN d.claims # {}
  /\ Cardinality({d.arguments[i].role : i \in DOMAIN d.arguments}) > 1
  /\ \E i \in DOMAIN d.arguments : d.arguments[i].rebuts # None

\* _validate_temporal_cutoff.  A scheduled event may lie ahead.
TemporalCutoff(d) ==
  /\ \A i \in DOMAIN d.documents : d.documents[i].cutoff = d.as_of
  /\ \A i \in DOMAIN d.metrics :
       /\ d.metrics[i].as_of <= d.as_of
       /\ d.metrics[i].basis = "reported" => d.metrics[i].period_end <= d.as_of
  /\ \A x \in d.dated : x.kind # "scheduled" => x.at <= d.as_of

-----------------------------------------------------------------------------
\* A metric is not older than its documents or the inputs of its calculation.
\* Variant with a fault: only the documents are compared.
MetricFollowsSources_as_documents_only(d, i) ==
  LET m == d.metrics[i]
  IN  \A x \in m.documents : d.documents[x].available <= m.as_of

MetricFollowsSources(d, i) ==
  LET m == d.metrics[i]
  IN  /\ \A x \in m.documents : d.documents[x].available <= m.as_of
      /\ m.calculation # None =>
           \A j \in d.calculations[m.calculation].inputs : d.metrics[j].as_of <= m.as_of

\* The result that a receipt declares, by its own rounding.
RoundedResult(c) ==
  IF c.rounding = None THEN c.result ELSE c.rounding * Nearest(c.result, c.rounding)

\* The value of a calculated metric is the rounded result of its receipt.
\* Variant with a fault: the value is compared with the result as it is.
MetricMatchesResult_as_unrounded(d, i) ==
  LET m == d.metrics[i]
  IN  m.calculation # None =>
        LET c == d.calculations[m.calculation]
        IN  i \notin c.inputs /\ Abs(m.value - c.result) <= c.tolerance

MetricMatchesResult(d, i) ==
  LET m == d.metrics[i]
  IN  m.calculation # None =>
        LET c == d.calculations[m.calculation]
        IN  i \notin c.inputs /\ Abs(m.value - RoundedResult(c)) <= c.tolerance

\* The documents a claim rests on, its own and those of its metrics.
ClaimDocuments(d, c) == c.documents \cup UNION {d.metrics[j].documents : j \in c.metrics}

DatedReferences(d, x) ==
  /\ x.documents \subseteq DOMAIN d.documents
  /\ x.kind \in {"filing", "transcript"} => \A i \in x.documents : d.documents[i].kind = x.kind
  /\ x.kind = "transcript" /\ x.extract => \A i \in x.documents :
       d.documents[i].access # "entitlement_blocked" /\ d.documents[i].redistributable

\* _validate_references.
References(d) ==
  /\ \A c \in DOMAIN d.calculations : d.calculations[c].inputs \subseteq DOMAIN d.metrics
  /\ \A i \in DOMAIN d.metrics :
       /\ d.metrics[i].documents \subseteq DOMAIN d.documents
       /\ d.metrics[i].calculation \in DOMAIN d.calculations \cup {None}
       /\ MetricFollowsSources(d, i)
       /\ MetricMatchesResult(d, i)
       /\ d.metrics[i].basis # "assumption" => d.metrics[i].documents \cap Accessible(d) # {}
  /\ \A k \in DOMAIN d.claims :
       LET c == d.claims[k]
       IN  /\ c.documents \subseteq DOMAIN d.documents
           /\ c.metrics \subseteq DOMAIN d.metrics
           /\ c.against \subseteq DOMAIN d.claims \ {k}
           /\ ClaimDocuments(d, c) \cap Accessible(d) # {}
  /\ \A i \in DOMAIN d.arguments :
       LET a == d.arguments[i]
       IN  /\ a.claims \subseteq DOMAIN d.claims
           /\ a.rebuts = None \/ \E b \in DOMAIN d.arguments : d.arguments[b].id = a.rebuts /\ b # i
  /\ \A v \in DOMAIN d.valuations :
       /\ d.valuations[v].inputs \subseteq DOMAIN d.metrics
       /\ d.valuations[v].calculations \subseteq DOMAIN d.calculations
  /\ \A x \in d.dated : DatedReferences(d, x)
  /\ \A a \in DOMAIN d.coverage : d.coverage[a].documents \subseteq DOMAIN d.documents

\* CoverageItem, and what an empty optional collection has to declare.
Coverage(d) ==
  /\ DOMAIN d.coverage # {}
  /\ \A a \in DOMAIN d.coverage :
       IF d.coverage[a].status = "complete" THEN d.coverage[a].documents # {} ELSE d.coverage[a].limited
  /\ \A kind \in {"filing", "transcript", "factor"} :
       (\E x \in d.dated : x.kind = kind)
       \/ (kind \in DOMAIN d.coverage
           /\ d.coverage[kind].status \in {"not_applicable", "partial", "missing", "entitlement_blocked"})

ValidDossier(d) ==
  /\ ValidItems(d)
  /\ CompletedContent(d)
  /\ TemporalCutoff(d)
  /\ References(d)
  /\ Coverage(d)

-----------------------------------------------------------------------------
\* What the plan asked of one dimension.
PlanKept(dimension, receipt, d) ==
  LET used == {d.documents[i] : i \in receipt.documents}
  IN  /\ dimension.required => receipt.status # "not_applicable"
      /\ dimension.public_only => \A x \in used : x.access = "public"
      /\ receipt.status = "complete" =>
           /\ Cardinality(receipt.documents) >= dimension.minimum
           /\ \A x \in used : x.access # "entitlement_blocked"
           /\ dimension.preferred # {} => \E x \in used : x.kind \in dimension.preferred

\* CompanyResearchSubmissionV1.
ValidResearch(q, d) ==
  /\ q.cutoff = d.as_of
  /\ q.symbol = d.symbol
  /\ q.requested <= d.completed
  /\ DOMAIN q.plan \subseteq DOMAIN d.coverage
  /\ \A a \in DOMAIN q.plan : PlanKept(q.plan[a], d.coverage[a], d)

\* AnalyticsBundleV1: its cutoff is its own, and only facts have to be
\* available by then.  The other records, of opinions, estimates, insider
\* transactions, ownership and short interest, are available no earlier than
\* what they report, and are compared with nothing else.
ValidBundle(b) ==
  /\ b.cutoff <= b.completed
  /\ \A f \in b.facts : f.available <= b.cutoff /\ f.source \in DOMAIN b.licenses
  /\ \A x \in b.records : x.at <= x.available

\* evaluate_analytics_bundle, of the sources that the bundle refers to.
SourcesLicensed(b) ==
  LET sourced == {x \in b.records : x.kind \in {"opinion", "estimate", "transaction"}}
  IN  \A source \in {x.source : x \in b.facts \cup sourced} :
        source \in DOMAIN b.licenses /\ b.licenses[source].machine_use = "allowed"

\* SourceLineageCrosswalkV1 and _validate_source_lineage: one binding for
\* each document and each license, with the entitlements of both.
ValidLineage(s) ==
  LET d == s.dossier
      document(x) == d.documents[x.document]
      license(x) == s.bundle.licenses[x.document]
  IN  /\ s.lineage # {}
      /\ \A x, y \in s.lineage :
           x.document = y.document \/ (x.batch = y.batch /\ x.observation = y.observation) => x = y
      /\ {x.document : x \in s.lineage} = DOMAIN d.documents
      /\ {x.document : x \in s.lineage} = DOMAIN s.bundle.licenses
      /\ {x.batch : x \in s.lineage} = s.card.batches
      /\ \A x \in s.lineage :
           /\ x.access = document(x).access /\ x.redistributable = document(x).redistributable
           /\ license(x).access = x.access
           /\ x.redistributable = (license(x).redistribution \in {"allowed", "bounded_extract"})
           /\ x.access = "entitlement_blocked" => license(x).machine_use = "denied"

\* RunCardV1 bound to the request and to the analytics bundle.
\* Variant with a fault: a run may be completed before it started.
ValidCard_as_unordered(s) ==
  /\ s.card.started = s.request.requested
  /\ s.card.completed = s.bundle.completed

ValidCard(s) ==
  /\ s.card.started <= s.card.completed
  /\ s.card.started = s.request.requested
  /\ s.card.completed = s.bundle.completed

\* The forecasts of a submission name its instrument, claims and documents.
ForecastsBound(s) ==
  \A f \in s.forecasts :
    /\ f.instrument = s.dossier.symbol
    /\ f.claim \in DOMAIN s.dossier.claims
    /\ f.evidence \subseteq DOMAIN s.dossier.documents

\* CompanyAnalyticsSubmissionV1.
ValidSubmission(s) ==
  /\ ValidDossier(s.dossier)
  /\ ValidResearch(s.request, s.dossier)
  /\ ValidBundle(s.bundle)
  /\ SourcesLicensed(s.bundle)
  /\ ValidCard(s)
  /\ ForecastsBound(s)
  /\ ValidLineage(s)

=============================================================================
