--------------------------- MODULE MCResearchHistory ---------------------------
(* A small instance of ResearchHistory for TLC: r1 collects from many worlds *)
(* or submits in many variations, r2 does so once, for a choice of companies *)
(* and cutoffs.  A submission does not depend on what was collected, so r1   *)
(* varies the two under requests of their own.                               *)
EXTENDS ResearchHistory

Earlier == <<
  [run |-> "h1", symbol |-> "A", as_of |-> 0, created |-> 2, stamps |-> {}, published |-> TRUE, evidence |-> {1}],
  [run |-> "h2", symbol |-> "B", as_of |-> 1, created |-> 4, stamps |-> {6}, published |-> TRUE, evidence |-> {4}],
  [run |-> "h3", symbol |-> "A", as_of |-> 1, created |-> 6, stamps |-> {}, published |-> TRUE, evidence |-> {5}] >>

Request(symbol, cutoff) ==
  [symbol |-> symbol, requested |-> cutoff, cutoff |-> cutoff,
   plan |-> [financials |->
     [required |-> TRUE, minimum |-> 1, public_only |-> TRUE, preferred |-> {"filing"}]],
   windows |-> {[area |-> "financials", start |-> 0, end |-> cutoff]}]

\* A request for which nothing is collected and every submission is tried.
Uncollected ==
  [Request("A", 7) EXCEPT !.windows = {[area |-> "financials", start |-> 1, end |-> 7]}]

Requests(r) ==
  IF r = "r1"
  THEN {Request("A", 7), Uncollected, [Request("A", 7) EXCEPT !.requested = 6],
        [Request("A", 7) EXCEPT !.windows = {[area |-> "financials", start |-> 0, end |-> 8]}]}
  ELSE {Request("A", 5), Request("A", 8), Request("B", 8)}

-----------------------------------------------------------------------------
Portfolio == {[id |-> 1, family |-> "f1", required |-> TRUE, adapter |-> "public"],
              [id |-> 2, family |-> "f2", required |-> FALSE, adapter |-> "chrome"],
              [id |-> 3, family |-> "f3", required |-> FALSE, adapter |-> "replay"],
              [id |-> 4, family |-> "f3", required |-> FALSE, adapter |-> "host"]}

Query(capability, q) ==
  [capability |-> capability, after |-> 1, until |-> q.cutoff, cutoff |-> q.cutoff, max |-> 3,
   forms |-> {"10-K"}, wanted |-> {"x"}, numeric |-> FALSE, symbol |-> q.symbol, domestic |-> TRUE]

Queries(r, q) ==
  IF r # "r1" \/ q = Uncollected THEN {}
  ELSE {Query(c, q) : c \in {"prices", "company_news", "macro", "prediction_markets", "stocktwits", "reddit"}}
       \cup {Query("regulatory_filings", q), [Query("regulatory_filings", q) EXCEPT !.domestic = FALSE],
             Query("fundamentals", q), [Query("fundamentals", q) EXCEPT !.wanted = {"x", "y", "z"}],
             [Query("company_news", q) EXCEPT !.after = 8], [Query("company_news", q) EXCEPT !.max = 2],
             [Query("prediction_markets", q) EXCEPT !.max = 1]}

Content == <<"c1", "c2", "c3", "c4">>
Once(status, payload) == <<[status |-> status, payload |-> payload]>>
Busy(payload) == <<[status |-> 503, payload |-> payload], [status |-> 503, payload |-> payload]>>
\* The ways in which a request may go that holds a payload.
Failures(payload) ==
  {Once(429, payload), Once(403, payload), Once(404, payload), Once(0, payload), Busy(payload),
   Once(200, Malformed), <<[status |-> 503, payload |-> NotAnObject], [status |-> 200, payload |-> payload]>>}

Filing(id, filed, accepted, content) ==
  [id |-> id, form |-> "10-K", filed |-> filed, accepted |-> accepted, content |-> content, uri |-> content]
File(from, to, request) == [from |-> from, to |-> to, request |-> request]
Old == {Filing(1, 2, 3, "o")}
Recent == {Filing(2, 4, 5, "a"), Filing(3, 4, Unstated, "b"), Filing(4, 4, 8, "c"),
           [Filing(5, 4, 5, "d") EXCEPT !.form = "8-K"]}

FilingWorlds(q) ==
  LET world(recent, files) ==
        [directory |-> Once(200, {q.symbol}), now |-> 9,
         index |-> Once(200, [recent |-> recent, files |-> files])]
      base == world(Recent, <<File(0, 3, Once(200, Old))>>)
  IN  {base, [base EXCEPT !.directory = Once(200, {})], [base EXCEPT !.directory = Once(429, {})],
       world(Recent, <<File(0, 3, Once(200, NotAnObject))>>), world(Recent, <<File(3, 0, Once(200, Old))>>),
       world(Recent, <<File(0, 3, Once(200, {})), File(0, 3, Once(200, Old))>>),
       world(Recent, <<File(9, 9, Once(200, {})), File(0, 3, Once(200, Old))>>),
       world({Filing(2, 4, 3, "a")}, <<>>), world({}, <<File(0, 3, Once(404, Old))>>)}
      \cup {world(Recent, <<File(0, 3, request)>>) : request \in Failures(Old)}
      \cup {[base EXCEPT !.index = request] : request \in Failures(base.index[1].payload)}

FactWorlds(q) ==
  LET fact(id, covers, start, filed) ==
        [id |-> id, covers |-> covers, start |-> start, filed |-> filed, content |-> Content[id], uri |-> "u"]
      world(facts) == [directory |-> Once(200, {q.symbol}), index |-> Once(200, facts), now |-> 9]
  IN  {world(<<fact(1, {"x"}, 1, 2), fact(2, {"x"}, Unstated, 3)>>), world(<<fact(1, {"x"}, 1, 8)>>), world(<<>>),
       world(<<fact(1, {"x"}, 1, 2), fact(2, {"x"}, 1, 2), fact(3, {"x"}, 1, 2)>>),
       [world(<<>>) EXCEPT !.index = Once(429, <<>>)]}

Article(id, seen, uri, content) == [id |-> id, seen |-> seen, uri |-> uri, content |-> content]

TwoArticles == [index |-> Once(200, <<Article(1, 3, "u", "a"), Article(2, 4, "v", "a")>>), now |-> 9]

NewsWorlds(q) ==
  LET world(articles) == [index |-> Once(200, articles), now |-> 9]
  IN  {TwoArticles,
       world(<<Article(1, 3, "u", "a"), Article(1, 4, "u", "b")>>),
       world(<<Article(1, 3, "u", "a"), Article(2, 4, "v", "b"), Article(3, 9, "x", "e")>>),
       world(<<Article(1, 9, "u", "a"), Article(2, 9, "v", "a"), Article(3, 9, "x", "e")>>)}

MacroWorlds(q) ==
  LET row(id, year) == [id |-> id, year |-> year, content |-> Content[id], uri |-> "m"]
      page(at, pages, rows) == [request |-> Once(200, [pages |-> pages, rows |-> rows]), at |-> at]
      world(series) == [start |-> 6, series |-> series, now |-> 9]
      one == <<page(6, 2, {row(1, 2)}), page(7, 2, {row(2, 3), row(3, 0)})>>
  IN  {world(<<one>>), world(<<one, <<page(7, 1, {row(4, 4)})>>>>), world(<<<<page(8, 1, {row(1, 2)})>>>>),
       world(<<<<page(6, 3, {row(1, 2)}), page(6, 3, {}), page(6, 3, {})>>>>),
       [world(<<one>>) EXCEPT !.start = 8],
       world(<<<<one[1], [one[2] EXCEPT !.request = Once(404, [pages |-> 2, rows |-> {}])]>>>>)}

MarketWorlds(q) ==
  LET market(id, updated, open) ==
        [id |-> id, open |-> open, updated |-> updated, content |-> Content[id], uri |-> "p"]
      world(markets, more) == [index |-> Once(200, [markets |-> markets, more |-> more]), now |-> 7]
      two == <<market(1, 3, TRUE), market(2, 2, TRUE), market(3, 1, FALSE)>>
  IN  {world(two, FALSE), world(two, TRUE), world(<<market(3, 1, FALSE)>>, TRUE),
       world(<<market(1, 8, TRUE)>>, FALSE), world(<<market(1, 3, TRUE), market(1, 4, TRUE)>>, FALSE),
       [world(two, FALSE) EXCEPT !.now = 9]}

\* A batch of an adapter of the host.
Given(id, content, uri, available) ==
  [id |-> id, observed |-> 1, published |-> 2, available |-> available, retrieved |-> 9,
   scope |-> "normalized_source_record", content |-> content, uri |-> uri, extract |-> FALSE]

Batch(query, status, items) ==
  [query |-> query, status |-> status, items |-> items, complete |-> status = "complete",
   gaps |-> status # "complete", limited |-> status # "complete", more |-> FALSE,
   access |-> "allowed", redistributable |-> TRUE, retrieved |-> 9]

Hosted(q) ==
  {Batch(q, "complete", {Given(4, "c", "v", 4)}), Batch(q, "unavailable", {}), Raises,
   Batch(q, "complete", {Given(1, "d", "v", 4), Given(2, "b", "x", 5)}),
   Batch(q, "stale", {Given(1, "c", "w", 8)}),
   Batch([q EXCEPT !.cutoff = 8], "complete", {Given(1, "c", "w", 4)})}

Stored(q) ==
  {NoBatch, Batch(q, "complete", {Given(1, "c", "w", 4)}),
   Batch([q EXCEPT !.after = 2], "complete", {Given(1, "c", "w", 4)})}

PublicWorlds(q) ==
  CASE q.capability = "regulatory_filings" -> FilingWorlds(q)
    [] q.capability = "fundamentals" -> FactWorlds(q)
    [] q.capability = "company_news" -> NewsWorlds(q)
    [] q.capability = "macro" -> MacroWorlds(q)
    [] q.capability = "prediction_markets" -> MarketWorlds(q)
    [] OTHER -> {[port |-> b, now |-> 9] : b \in {Unstated} \cup Hosted(q)}

Page(id, content, uri) ==
  [id |-> id, host |-> "p", path |-> {"news"}, kind |-> "publisher", public |-> TRUE, relevant |-> TRUE,
   injected |-> FALSE, hops |-> <<"p">>, contacted |-> {"ip"}, receipt |-> "ok", observed |-> 1,
   published |-> 2, available |-> 4, content |-> content, uri |-> uri, extract |-> FALSE]

Reading ==
  [reply |-> "answered", state |-> "available", run_approved |-> TRUE, domain |-> "p", publisher |-> "P",
   terms |-> "p", redistributable |-> TRUE, now |-> 9,
   pages |-> <<Page(1, "c", "w"), [Page(3, "b", "w") EXCEPT !.extract = TRUE]>>]

ChromeWorlds ==
  {[Reading EXCEPT !.reply = "refused"], [Reading EXCEPT !.reply = "lost"],
   [Reading EXCEPT !.state = "unavailable"], [Reading EXCEPT !.run_approved = FALSE],
   [Reading EXCEPT !.pages = <<>>], [Reading EXCEPT !.publisher = Unstated],
   [Reading EXCEPT !.domain = "local"], [Reading EXCEPT !.terms = "q"],
   [Reading EXCEPT !.terms = Unstated], [Reading EXCEPT !.terms = Unstated, !.redistributable = FALSE],
   [Reading EXCEPT !.pages[1].hops = <<"q", "p">>], [Reading EXCEPT !.pages[1].path = {"login"}],
   [Reading EXCEPT !.pages[1].injected = TRUE], [Reading EXCEPT !.pages[1].available = Unstated],
   [Reading EXCEPT !.pages[1].available = 8], [Reading EXCEPT !.pages[1].published = 5],
   [Reading EXCEPT !.pages = <<[Page(1, "c", "w") EXCEPT !.available = 8]>>]}

\* Every answer of one route, and every choice of the others for the news.
Worlds(r, q) ==
  LET base == [public |-> IF q.capability = "company_news" THEN TwoArticles ELSE CHOOSE w \in PublicWorlds(q) : TRUE,
               chrome |-> Reading,
               stored |-> NoBatch, host |-> Batch(q, "unavailable", {})]
  IN  {[base EXCEPT !.public = w] : w \in PublicWorlds(q)} \cup
      (IF q.capability # "company_news" \/ q.max # 3 THEN {}
       ELSE {[base EXCEPT !.chrome = c] : c \in ChromeWorlds} \cup
            {[public |-> w, chrome |-> c, stored |-> b, host |-> h] :
               w \in {base.public}, c \in {Reading, [Reading EXCEPT !.pages = <<Page(1, "c", "w")>>]},
               b \in Stored(q), h \in Hosted(q)})

-----------------------------------------------------------------------------
Document(cutoff, available, kind) ==
  [observed |-> 1, published |-> 2, available |-> available, retrieved |-> cutoff, cutoff |-> cutoff,
   access |-> "public", redistributable |-> TRUE, extract |-> FALSE, kind |-> kind, locator |-> None]

Reported(value, instant, documents) ==
  [value |-> value, as_of |-> instant, period_end |-> 2, basis |-> "reported",
   documents |-> documents, calculation |-> None]
Calculated(value, instant, documents, c) ==
  [Reported(value, instant, documents) EXCEPT !.basis = "calculated", !.calculation = c]

Calculation(formula, operation, inputs, result) ==
  [formula |-> formula, operation |-> operation, inputs |-> inputs,
   constants |-> <<>>, result |-> result, rounding |-> None, tolerance |-> 0]

Turn(id, role, claim, rebuts) ==
  [id |-> id, debate |-> "main", role |-> role, claims |-> {claim}, rebuts |-> rebuts,
   concessions |-> {}, unresolved |-> {}]

Unavailable == [status |-> "missing", documents |-> {}, limited |-> TRUE]
Licensed == [access |-> "public", redistribution |-> "allowed", machine_use |-> "allowed"]
Binding(observation, document) ==
  [batch |-> "b1", observation |-> observation, document |-> document,
   access |-> "public", redistributable |-> TRUE]

Base(r, q) ==
  LET late == q.cutoff - 1
  IN  [request |-> q,
       dossier |->
         [symbol |-> q.symbol, as_of |-> q.cutoff, offset |-> 0, completed |-> q.cutoff + 1,
          documents |-> [d1 |-> Document(q.cutoff, 3, "filing"), d2 |-> Document(q.cutoff, late, "news")],
          metrics |-> [m1 |-> Reported(10, 4, {"d1"}), m2 |-> Reported(5, late, {"d2"}),
                       m3 |-> Calculated(15, late, {"d1"}, "c1")],
          calculations |->
            [c1 |-> Calculation(<<Input("m1"), Input("m2"), Operator("+")>>, "add", {"m1", "m2"}, 15)],
          claims |-> [k1 |-> [documents |-> {"d1"}, metrics |-> {"m3"}, against |-> {}],
                      k2 |-> [documents |-> {"d2"}, metrics |-> {}, against |-> {"k1"}]],
          arguments |-> <<Turn("a1", "bull", "k1", None), Turn("a2", "bear", "k2", "a1")>>,
          dated |-> {[kind |-> "filing", at |-> 3, documents |-> {"d1"}, extract |-> FALSE]},
          checks |-> {q.cutoff},
          valuations |-> [v1 |-> [inputs |-> {"m3"}, calculations |-> {"c1"}, fair_value |-> 15]],
          coverage |->
            [financials |-> [status |-> "complete", documents |-> {"d1", "d2"}, limited |-> FALSE],
             transcript |-> Unavailable, factor |-> Unavailable]],
       bundle |-> [cutoff |-> q.cutoff, completed |-> q.cutoff,
                   facts |-> {[available |-> 3, source |-> "d1"]}, records |-> {},
                   licenses |-> [d1 |-> Licensed, d2 |-> Licensed]],
       lineage |-> {Binding("o1", "d1"), Binding("o2", "d2")},
       card |-> [started |-> q.requested, completed |-> q.cutoff, batches |-> {"b1"}],
       forecasts |->
         {[id |-> [under |-> IF r = "r2" THEN {"r1", "r2"} ELSE {r}, name |-> r], run |-> r,
           instrument |-> q.symbol, claim |-> "k1", evidence |-> {"d1"},
           kind |-> "binary_event", estimate |-> 100, horizon |-> "h", rule |-> "u",
           cutoff |-> 5, at |-> 6, resolve_after |-> 8]}]

\* A record of the bundle that became available after the run was completed.
Late(kind, source) == [kind |-> kind, at |-> 2, available |-> 9, source |-> source]

Computed(s, calculation, value) ==
  [s EXCEPT !.dossier.calculations.c1 = calculation, !.dossier.metrics.m3.value = value,
            !.dossier.valuations.v1.fair_value = calculation.result]

BothInputs == {"m1", "m2"}

\* 1.0 and 0.5 added up, 1.5, with a declared result of their sum.
Rounding(unit, result, tolerance) ==
  [Calculation(<<Input("m1"), Input("m2"), Operator("+")>>, "add", BothInputs, result) EXCEPT
     !.rounding = unit, !.tolerance = tolerance]

\* The average of 1.0 and 0.5, 0.75, rounded to tenths.
RoundedAverage ==
  [Calculation(<<Input("m1"), Input("m2"), Operator("+"), Number(20), Operator("/")>>,
               "average", BothInputs, 8) EXCEPT !.rounding = 1]

\* Submissions that are accepted, conformant or not.
Accepted(s) ==
  {s,
   Computed(s, Calculation(<<Input("m1"), Input("m2"), Operator("*")>>, "multiply", BothInputs, 5), 5),
   Computed(s, Calculation(<<Input("m1"), Input("m2"), Operator("+")>>, "multiply", BothInputs, 15), 15),
   Computed(s, Calculation(<<Input("m1"), Number(5), Operator("+")>>, "add", BothInputs, 15), 15),
   Computed(s, Calculation(<<Input("m1"), Operator("+"), Input("m2")>>, "add", BothInputs, 15), 15),
   Computed(s, Calculation(<<Input("m1"), Input("m2"), Number(5), Operator("-"), Operator("/")>>,
                           "divide", BothInputs, 15), 15),
   Computed(s, [Calculation(<<Input("m1"), Input("m2"), Operator("+"), Number(20), Operator("/")>>,
                            "average", BothInputs, 7) EXCEPT !.tolerance = 1], 8),
   Computed(s, [s.dossier.calculations.c1 EXCEPT !.tolerance = 1, !.result = 16], 17),
   [s EXCEPT !.dossier.metrics.m2 = Calculated(5, 6, {"d2"}, "c2"),
             !.dossier.calculations = @ @@
               ("c2" :> Calculation(<<Input("m3"), Number(30), Number(10), Operator("^"), Operator("/")>>,
                                    "discounted_cash_flow", {"m3"}, 5))],
   Computed(s, Rounding(10, 20, 0), 20), Computed(s, Rounding(10, 15, 0), 20),
   Computed(s, Rounding(10, 21, 1), 19), Computed(s, Rounding(10, 26, 6), 36),
   Computed(s, RoundedAverage, 8),
   Computed(s, [s.dossier.calculations.c1 EXCEPT !.constants = [m1 |-> 10]], 15),
   Computed(s, [s.dossier.calculations.c1 EXCEPT !.constants = [m1 |-> 7]], 15),
   [s EXCEPT !.dossier.offset = 2],
   [s EXCEPT !.bundle.records = {Late("estimate", "d1"), Late("ownership", "d9")}],
   [s EXCEPT !.dossier.arguments = Reverse(@)],
   [s EXCEPT !.dossier.documents.d1.locator = "d9"],
   [s EXCEPT !.dossier.dated = @ \cup
      {[kind |-> "scheduled", at |-> 9, documents |-> {"d2"}, extract |-> FALSE]}],
   [s EXCEPT !.dossier.coverage.financials.status = "partial", !.dossier.coverage.financials.limited = TRUE],
   [s EXCEPT !.bundle.cutoff = 9, !.bundle.completed = 9, !.card.completed = 9,
             !.bundle.facts = {[available |-> 9, source |-> "d1"]}],
   [s EXCEPT !.forecasts = {[f EXCEPT !.estimate = 50] : f \in @}],
   [s EXCEPT !.forecasts = {[f EXCEPT !.id = [under |-> {"r1", "r2"}, name |-> "r2"]] : f \in @}]}

\* Submissions that the contracts refuse.
Refusable(s) ==
  {[s EXCEPT !.dossier.documents.d2.available = 8],
   [s EXCEPT !.dossier.metrics.m1.as_of = 2],
   [s EXCEPT !.dossier.metrics.m3.as_of = 5],
   [s EXCEPT !.dossier.calculations.c1.inputs = {"m1", "m3"}],
   [s EXCEPT !.dossier.metrics.m3.value = 16],
   Computed(s, Rounding(10, 21, 1), 22), Computed(s, Rounding(10, 26, 6), 23),
   Computed(s, Rounding(2, 15, 0), 15),
   [s EXCEPT !.bundle.records = {Late("opinion", "d9")}],
   [s EXCEPT !.bundle.records = {[Late("short_interest", "d1") EXCEPT !.available = 1]}],
   [s EXCEPT !.bundle.licenses.d1.machine_use = "unknown"],
   [s EXCEPT !.forecasts = {[f EXCEPT !.id.under = {"r2"}] : f \in @}],
   [s EXCEPT !.dossier.documents.d1.access = "entitlement_blocked",
             !.dossier.documents.d1.redistributable = FALSE],
   [s EXCEPT !.dossier.arguments[2].rebuts = "a2"],
   [s EXCEPT !.dossier.dated = {[x EXCEPT !.at = 8] : x \in @}],
   [s EXCEPT !.dossier.as_of = 6, !.dossier.documents.d1.cutoff = 6, !.dossier.documents.d2.cutoff = 6],
   [s EXCEPT !.dossier.completed = 6],
   [s EXCEPT !.dossier.coverage.financials.documents = {"d2"}],
   [s EXCEPT !.forecasts = {[f EXCEPT !.claim = "k9"] : f \in @}],
   [s EXCEPT !.forecasts = @ \cup {[f EXCEPT !.estimate = 50] : f \in @}],
   [s EXCEPT !.bundle.facts = {[available |-> 8, source |-> "d1"]}],
   [s EXCEPT !.bundle.licenses.d2.redistribution = "denied"],
   [s EXCEPT !.card.batches = {"b1", "b2"}],
   [s EXCEPT !.bundle.cutoff = 5, !.bundle.completed = 5, !.card.completed = 5]}

Submissions(r, q) ==
  IF q = Uncollected THEN Accepted(Base(r, q)) \cup Refusable(Base(r, q)) ELSE {Base(r, q)}

-----------------------------------------------------------------------------
Resolved(f, id, available, resolved, outcome, supersedes) ==
  [id |-> id, forecast |-> f.id, observed |-> available, available |-> available, resolved |-> resolved,
   status |-> "resolved", documents |-> {"x"}, binary |-> outcome, number |-> Missing,
   realized |-> Missing, benchmark |-> Missing, supersedes |-> supersedes]

Outcomes(f) ==
  {Resolved(f, "o1", 8, 8, TRUE, Missing)} \cup
  (IF f.run # "r1" THEN {}
   ELSE {Resolved(f, "o1", 7, 8, TRUE, Missing), Resolved(f, "o2", 8, 10, FALSE, "o1"),
         [Resolved(f, "o2", 8, 8, Missing, "o1") EXCEPT !.status = "unavailable"]})

Conventions ==
  {[minimum |-> 2, edges |-> <<0, 50, 100>>, cutoff |-> 9, horizon |-> "h", rule |-> "u"]}
=============================================================================
