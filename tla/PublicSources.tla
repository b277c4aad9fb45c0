----------------------------- MODULE PublicSources -----------------------------
(***************************************************************************)
(* PublicResearchDataAdapter: the typed queries, the one provider that     *)
(* each capability has, the retries of the transport, and what becomes of  *)
(* a provider's answer.                                                    *)
(*                                                                         *)
(* A world is what a provider would answer to each request of a fetch.  A  *)
(* request is the sequence of its attempts, an attempt an HTTP status with *)
(* a payload, and status 0 a network failure.  A payload that the          *)
(* normalization refuses is Malformed: which field is wrong, URLs, names   *)
(* and facts are left out, and an observation is identified by the number  *)
(* of its row.  The adapters of the repository emit one row once.          *)
(***************************************************************************)
EXTENDS SourcePortfolio, Instants

CONSTANTS
  Malformed,        \* a payload that raises ProviderPayloadError
  NotAnObject,      \* a payload of another shape
  Unstated,         \* a date the provider does not give
  MaxFiles,         \* MAX_SEC_SUBMISSION_FILES
  MaxFacts,         \* MAX_SEC_COMPANY_FACT_ITEMS
  MaxPages,         \* MAX_WORLD_BANK_PAGES
  MaxGaps,          \* the gaps and limitations that a batch may state
  MaxQueryItems     \* the largest max_items a query may ask for

ASSUME SourcesAssumption ==
  /\ MaxFiles \in Nat /\ MaxFacts \in Nat /\ MaxPages \in Nat /\ MaxGaps \in Nat /\ MaxQueryItems \in Nat
  /\ Malformed # NotAnObject

Windowed == {"prices", "indicators", "regulatory_filings", "company_news", "global_news",
             "stocktwits", "reddit", "macro"}
Limited == {"company_news", "global_news", "prediction_markets", "stocktwits", "reddit"}
Factual == {"fundamentals", "financial_statements"}

\* The typed queries: the cutoff is the end of the window, or the instant as
\* of which facts, markets or the vintage of a series are asked for.
ValidQuery(q) ==
  /\ q.capability \in Windowed => q.after <= q.until
  /\ IF q.capability = "macro" THEN q.until <= q.cutoff ELSE q.until = q.cutoff
  /\ q.capability \in Limited => q.max \in 1 .. MaxQueryItems
  /\ q.capability \in Factual => q.wanted # {}
  /\ q.capability = "regulatory_filings" => q.forms # {}

-----------------------------------------------------------------------------
(* Requests                                                                  *)

Retryable == {429, 500, 502, 503, 504}

\* get_json: the first attempt that is not worth another one, or the last.
\* A network failure is raised at once.
Reply(request) ==
  request[CHOOSE n \in DOMAIN request :
            /\ n = Len(request) \/ request[n].status \notin Retryable
            /\ \A m \in 1 .. n - 1 : request[m].status \in Retryable]

\* ProviderSupport.request, with the failures that fetch turns into an answer.
Disposition(reply) ==
  CASE reply.status \in 200 .. 299 -> IF reply.payload = Malformed THEN "unavailable" ELSE "answered"
    [] reply.status = 429 -> "rate_limited"
    [] reply.status \in {401, 403} -> "denied"
    [] OTHER -> "unavailable"

\* The first of some outcomes, in order, that ends the fetch.
Ending(outcomes) ==
  LET ends == {i \in DOMAIN outcomes : outcomes[i] # "answered"}
  IN  IF ends = {} THEN "answered" ELSE outcomes[Min(ends)]

\* ProviderSupport.terminal.
Terminal(query, status, now) ==
  [query |-> query, status |-> status, items |-> {}, complete |-> FALSE, gaps |-> TRUE,
   limited |-> TRUE, more |-> FALSE, access |-> IF status = "denied" THEN "denied" ELSE "unknown",
   redistributable |-> FALSE, retrieved |-> now]

\* ProviderSupport.batch.
Normalized(query, status, items, free, now) ==
  [query |-> query, status |-> status, items |-> items, complete |-> status = "complete",
   gaps |-> status # "complete", limited |-> TRUE, more |-> FALSE, access |-> "allowed",
   redistributable |-> free, retrieved |-> now]

\* ProviderSupport.observation.
Normal(row, observed, available, retrieved) ==
  [id |-> row.id, observed |-> observed, published |-> available, available |-> available,
   retrieved |-> retrieved, scope |-> "normalized_source_record", content |-> row.content,
   uri |-> row.uri, extract |-> FALSE]

Gapped(gap) == IF gap THEN "partial" ELSE "complete"

\* The first n of some places of a sequence.
FirstOf(places, n) == {i \in places : Cardinality({j \in places : j <= i}) <= n}

-----------------------------------------------------------------------------
(* SEC                                                                       *)

\* _available_at: a date without a time counts as its end.
Available(row) == IF row.accepted = Unstated THEN EndOfDay(row.filed) ELSE row.accepted

\* _resolve_cik: a number is taken as it is, a symbol is looked up.
Issuer(query, world) ==
  LET directory == Reply(world.directory)
  IN  IF query.numeric \/ Disposition(directory) # "answered"
        THEN IF query.numeric THEN "answered" ELSE Disposition(directory)
        ELSE IF query.symbol \in directory.payload THEN "answered" ELSE "unavailable"

\* The places of the historical files whose days meet the window.
Relevant(files, query) ==
  {i \in DOMAIN files : Day(files[i].to) >= Day(query.after) /\ Day(files[i].from) <= Day(query.until)}

MatchesFiling(row, query) ==
  /\ row.form \in query.forms
  /\ Day(query.after) <= Day(row.filed) /\ Day(row.filed) <= Day(query.until)
  /\ Available(row) <= query.cutoff

\* Variant with a fault: files beyond the limit are passed over in silence.
LeavesFilesOut_as_failures_only(listed, lost) == lost # {}

LeavesFilesOut(listed, lost) == lost # {} \/ Cardinality(listed) > MaxFiles

\* _filings: a historical file that answers with an error status or with
\* something else than an object is a gap; a network failure or a table that
\* is not well-formed loses the whole answer.
Filings(query, world) ==
  LET index == Reply(world.index)
      files == index.payload.files
      listed == Relevant(files, query)
      asked == FirstOf(listed, MaxFiles)
      reply(i) == Reply(files[i].request)
      raised == \/ \E i \in asked :
                     reply(i).status = 0 \/ (reply(i).status \in 200 .. 299 /\ reply(i).payload = Malformed)
                \/ \E f \in Range(files) : f.from > f.to
      lost == {i \in asked : Disposition(reply(i)) # "answered" \/ reply(i).payload = NotAnObject}
      rows == index.payload.recent \cup UNION {reply(i).payload : i \in asked \ lost}
      ends == Ending(<<IF query.domestic THEN "answered" ELSE "unavailable",
                       Issuer(query, world), Disposition(index)>>)
  IN  IF ends # "answered" THEN Terminal(query, ends, world.now)
      ELSE IF raised THEN Terminal(query, "unavailable", world.now)
      ELSE Normalized(query, Gapped(LeavesFilesOut(listed, lost)),
             {Normal(row, row.filed, Available(row), world.now) : row \in {x \in rows : MatchesFiling(x, query)}},
             TRUE, world.now)

\* A fact covers the metric, or the statement and periods, that it answers.
MatchesFact(row, query) == row.covers \cap query.wanted # {} /\ EndOfDay(row.filed) <= query.cutoff

\* _facts, for fundamentals and financial statements, over the facts of the
\* metrics or statements asked for; their filing dates have no time, which is
\* a limitation of its own.
Facts(query, world) ==
  LET index == Reply(world.index)
      rows == {i \in DOMAIN index.payload : MatchesFact(index.payload[i], query)}
      taken == {index.payload[i] : i \in FirstOf(rows, MaxFacts)}
      returned == UNION {row.covers : row \in taken}
      capped == IF Cardinality(rows) > MaxFacts THEN 1 ELSE 0
      gaps == capped + Cardinality(query.wanted \ returned)
      dated == IF index.payload = <<>> THEN 0 ELSE 1
      ends == Ending(<<Issuer(query, world), Disposition(index)>>)
  IN  IF ends # "answered" THEN Terminal(query, ends, world.now)
      ELSE IF gaps + dated > MaxGaps THEN Raises
      ELSE Normalized(query, IF taken = {} THEN "unavailable" ELSE Gapped(gaps > 0),
             {Normal(row, IF row.start = Unstated THEN row.filed ELSE row.start, EndOfDay(row.filed), world.now) :
                row \in taken},
             TRUE, world.now)

-----------------------------------------------------------------------------
(* GDELT, World Bank and Polymarket                                          *)

\* An article is published when it was seen; the first of each address counts.
News(query, world) ==
  LET index == Reply(world.index)
      articles == index.payload
      inside(i) == query.after <= articles[i].seen /\ articles[i].seen <= query.until
      kept == {i \in DOMAIN articles : inside(i) /\
                 \A j \in 1 .. i - 1 : inside(j) => articles[j].uri # articles[i].uri}
      taken == FirstOf(kept, query.max)
  IN  IF Disposition(index) # "answered" THEN Terminal(query, Disposition(index), world.now)
      ELSE Normalized(query, Gapped(Len(articles) >= query.max),
             {Normal(articles[i], articles[i].seen, articles[i].seen, world.now) : i \in taken},
             FALSE, world.now)

PageOutcome(query, page) ==
  IF Disposition(Reply(page.request)) = "answered" /\ page.at > query.cutoff
    THEN "unavailable" ELSE Disposition(Reply(page.request))

\* The first page says how many pages of a series there are.
Pages(series) == Reply(series[1].request).payload.pages

SeriesOutcome(query, series) ==
  IF PageOutcome(query, series[1]) # "answered" THEN PageOutcome(query, series[1])
  ELSE IF Pages(series) \notin 1 .. MaxPages THEN "unavailable"
  ELSE Ending([p \in 1 .. Pages(series) |-> PageOutcome(query, series[p])])

\* A value of the current vintage is available when it was retrieved.
Macro(query, world) ==
  LET ends == IF world.start > query.cutoff THEN "unavailable"
              ELSE Ending([i \in DOMAIN world.series |-> SeriesOutcome(query, world.series[i])])
      values(page) ==
        {Normal(row, row.year, page.at, page.at) : row \in
           {x \in Reply(page.request).payload.rows : query.after <= x.year /\ x.year <= query.until}}
  IN  IF ends # "answered" THEN Terminal(query, ends, world.now)
      ELSE Normalized(query, "complete",
             UNION {UNION {values(s[p]) : p \in 1 .. Pages(s)} : s \in Range(world.series)},
             TRUE, world.now)

\* Markets are read as they are now, which is of no use once the cutoff has
\* passed; a capped list without a market is an answer of its own.
PredictionMarkets(query, world) ==
  LET index == Reply(world.index)
      markets == index.payload.markets
      open == {i \in DOMAIN markets : markets[i].open}
      raised == \/ \E i, j \in open : i # j /\ markets[i].id = markets[j].id
                \/ \E i \in open : markets[i].updated > world.now
      precedes(i, j) == \/ markets[i].updated < markets[j].updated
                        \/ markets[i].updated = markets[j].updated /\ markets[i].id < markets[j].id
      taken == {markets[j] : j \in
                  {i \in open : Cardinality({k \in open : ~ precedes(i, k)}) <= query.max}}
      gap == index.payload.more \/ Cardinality(open) > query.max
  IN  IF Disposition(index) # "answered" THEN Terminal(query, Disposition(index), world.now)
      ELSE IF world.now > query.cutoff \/ raised \/ (gap /\ taken = {})
        THEN Terminal(query, "unavailable", world.now)
      ELSE Normalized(query, Gapped(gap),
             {Normal(x, world.now, world.now, world.now) : x \in taken}, FALSE, world.now)

-----------------------------------------------------------------------------
\* LicensedMarketDataProvider and DeniedSocialProvider pass on what the port
\* of the host answers, when there is one.
Delegated(query, world, otherwise) ==
  IF world.port = Unstated THEN Terminal(query, otherwise, world.now)
  ELSE PassedOn(query, world.port)

\* fetch, by the catalog: a capability has one provider and no fallback.
PublicAnswer(query, world) ==
  CASE query.capability = "regulatory_filings" -> Filings(query, world)
    [] query.capability \in Factual -> Facts(query, world)
    [] query.capability \in {"company_news", "global_news"} -> News(query, world)
    [] query.capability = "macro" -> Macro(query, world)
    [] query.capability = "prediction_markets" -> PredictionMarkets(query, world)
    [] query.capability \in {"prices", "indicators"} -> Delegated(query, world, "unavailable")
    [] query.capability = "reddit" -> Delegated(query, world, "denied")
    [] query.capability = "stocktwits" -> Terminal(query, "denied", world.now)

-----------------------------------------------------------------------------
(* What is assumed of the providers                                          *)

\* What the payload of the last attempt at a request holds, whether or not the
\* attempt succeeded.
Held(request) ==
  LET payload == Last(request).payload
  IN  IF payload \in {Malformed, NotAnObject} THEN {} ELSE payload

\* The attempts at a request: another one is made only after a retryable one.
Tried(request) ==
  /\ request \in Seq(Range(request)) /\ request # <<>>
  /\ \A n \in 1 .. Len(request) - 1 : request[n].status \in Retryable

\* SEC lists its historical files with the days of the filings in them.
FittingFile(f) ==
  /\ Tried(f.request)
  /\ f.from \in Nat /\ f.to \in Nat
  /\ f.from <= f.to => \A row \in Held(f.request) :
       row.filed \in Nat /\ Day(f.from) <= Day(row.filed) /\ Day(row.filed) <= Day(f.to)

\* World Bank has no page of a series beyond those that the first announces.
FittingSeries(query, series) ==
  /\ series \in Seq(Range(series)) /\ series # <<>>
  /\ \A page \in Range(series) : Tried(page.request)
  /\ PageOutcome(query, series[1]) = "answered" => Len(series) <= Pages(series)

FittingIndex(capability, payload) ==
  CASE capability = "regulatory_filings" ->
         payload.files \in Seq(Range(payload.files)) /\ \A f \in Range(payload.files) : FittingFile(f)
    [] capability = "prediction_markets" -> payload.markets \in Seq(Range(payload.markets))
    [] OTHER -> payload \in Seq(Range(payload))

Indexed == {"regulatory_filings", "company_news", "global_news", "prediction_markets"} \cup Factual

FittingWorld(query, world) ==
  /\ query.capability \in Indexed =>
       /\ Tried(world.index)
       /\ Disposition(Last(world.index)) = "answered" =>
            FittingIndex(query.capability, Last(world.index).payload)
  /\ query.capability = "macro" =>
       /\ world.series \in Seq(Range(world.series))
       /\ \A series \in Range(world.series) : FittingSeries(query, series)

=============================================================================
