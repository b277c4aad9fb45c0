---------------------------- MODULE ForecastQuality ----------------------------
(***************************************************************************)
(* Forecasts, their journals of observed outcomes, the score of a journal  *)
(* and the evaluation of a cohort of binary forecasts.                     *)
(*                                                                         *)
(* Instants are naturals, probabilities and values integers (percent).     *)
(* The logarithmic loss and the averages of a report are left out: the     *)
(* model keeps which observation is scored and where a forecast counts.    *)
(***************************************************************************)
EXTENDS Integers, Sequences, FiniteSets, SequencesExt

CONSTANTS
  Missing,              \* a field that is null
  MinimumSampleFloor    \* the least minimum_sample_size a policy may ask for

ASSUME FloorAssumption == MinimumSampleFloor \in Nat \ {0}

Kinds ==
  {"binary_event", "numeric_metric", "interval", "directional_return", "benchmark_relative_return"}

\* Forecast: its identifier lies under its run's (and under that of every run
\* whose identifier it starts with), the timestamps, and the estimate that
\* its kind requires.
ValidForecast(f) ==
  /\ f.run \in f.id.under
  /\ f.kind \in Kinds
  /\ f.cutoff <= f.at /\ f.at <= f.resolve_after
  /\ f.evidence # {}
  /\ CASE f.kind = "binary_event" -> f.estimate \in 0 .. 100
       [] f.kind = "numeric_metric" -> f.estimate \in Int
       [] f.kind = "interval" -> f.estimate \in Int \X Int /\ f.estimate[1] <= f.estimate[2]
       [] OTHER -> f.estimate \in {"up", "down", "flat"}

\* OutcomeObservation.
ValidObservedOutcome(o) ==
  /\ o.observed <= o.available /\ o.available <= o.resolved
  /\ o.status \in {"resolved", "unavailable"}
  /\ o.status = "resolved" => o.documents # {}

\* OutcomeLedger: unique identifiers in a chain of supersessions.
ValidLedger(forecast, observations) ==
  /\ \A i, j \in DOMAIN observations : observations[i].id = observations[j].id => i = j
  /\ \A i \in DOMAIN observations :
       /\ observations[i].forecast = forecast
       /\ observations[i].supersedes = IF i = 1 THEN Missing ELSE observations[i - 1].id

ActiveId(observations) == IF observations = <<>> THEN Missing ELSE Last(observations).id

-----------------------------------------------------------------------------
Square(x) == x * x
Magnitude(x) == IF x < 0 THEN - x ELSE x
Direction(x) == IF x > 0 THEN "up" ELSE IF x < 0 THEN "down" ELSE "flat"
Hit(holds) == IF holds THEN 1 ELSE 0

\* The value of the observation that the kind of a forecast is scored on.
Outcome(f, o) ==
  CASE f.kind = "binary_event" -> o.binary
    [] f.kind \in {"numeric_metric", "interval"} -> o.number
    [] f.kind = "directional_return" -> o.realized
    [] OTHER -> IF Missing \in {o.realized, o.benchmark} THEN Missing ELSE o.realized - o.benchmark

\* The Brier score in 1/10000, the absolute error, the coverage or the hit.
Metric(f, x) ==
  CASE f.kind = "binary_event" -> Square(f.estimate - 100 * Hit(x))
    [] f.kind = "numeric_metric" -> Magnitude(f.estimate - x)
    [] f.kind = "interval" -> Hit(f.estimate[1] <= x /\ x <= f.estimate[2])
    [] OTHER -> Hit(f.estimate = Direction(x))

\* Neither the availability nor the resolution may precede the forecast or
\* the instant from which it can be resolved.
Premature(f, o) ==
  o.available < f.at \/ o.available < f.resolve_after \/ o.resolved < f.resolve_after

\* score_forecast: the active observation is scored.
Score(f, observations) ==
  LET card(status, o, metric) == [status |-> status, observation |-> o, metric |-> metric]
  IN  IF observations = <<>> THEN card("insufficient_evidence", Missing, Missing)
      ELSE LET o == Last(observations)
           IN  CASE o.status # "resolved" -> card("insufficient_evidence", o.id, Missing)
                 [] o.status = "resolved" /\ Premature(f, o) -> card("policy_blocked", o.id, Missing)
                 [] o.status = "resolved" /\ ~ Premature(f, o) ->
                      IF Outcome(f, o) = Missing THEN card("insufficient_evidence", o.id, Missing)
                      ELSE card("scored", o.id, Metric(f, Outcome(f, o)))

\* validate_quality_bundle, at registration, when no ledger exists.
ConformantRegistration(run, forecasts) ==
  /\ \A f, g \in forecasts : f.id = g.id => f = g
  /\ \A f \in forecasts : f.run = run /\ f.cutoff <= f.at

-----------------------------------------------------------------------------
(* QualityStore.append_outcome                                               *)

\* A call with the observation that is already active changes nothing.
\* Variant with a fault: an observation need not supersede the active one.
Appendable_as_unchained(f, observations, o) ==
  /\ \A i \in DOMAIN observations : observations[i].id # o.id
  /\ Score(f, Append(observations, o)).status # "policy_blocked"

Appendable(f, observations, o) ==
  /\ o.id # ActiveId(observations)
  /\ o.supersedes = ActiveId(observations)
  /\ ValidLedger(f.id, Append(observations, o))
  /\ Score(f, Append(observations, o)).status # "policy_blocked"

-----------------------------------------------------------------------------
(* evaluate_binary_calibration                                               *)

\* BinaryCalibrationPolicy; the edges of the bins are percentages.
ValidPolicy(p) ==
  /\ p.minimum >= MinimumSampleFloor
  /\ Len(p.edges) \in 2 .. 21 /\ Head(p.edges) = 0 /\ Last(p.edges) = 100
  /\ \A i \in 2 .. Len(p.edges) : p.edges[i - 1] < p.edges[i]

\* bisect_right(edges, probability) - 1, counted from 1.
\* Variant with a fault: the last bin does not keep its upper edge.
Bin_as_unclamped(edges, probability) ==
  Cardinality({i \in DOMAIN edges : edges[i] <= probability})

Bin(edges, probability) ==
  LET index == Cardinality({i \in DOMAIN edges : edges[i] <= probability})
  IN  IF index < Len(edges) THEN index ELSE Len(edges) - 1

\* No two forecasts of a cohort share their value of a field.
Distinct(values) == \A i, j \in DOMAIN values : values[i] = values[j] => i = j

\* What admits a forecast and its observations to a cohort.
Admitted(p, f, observations) ==
  /\ f.kind = "binary_event"
  /\ f.horizon = p.horizon /\ f.rule = p.rule
  /\ observations # <<>>
  /\ LET o == Last(observations)
     IN  /\ o.status = "resolved" /\ o.binary # Missing
         /\ o.available <= p.cutoff /\ o.resolved <= p.cutoff
  /\ Score(f, observations).status = "scored"

Report(p, cohort) ==
  LET counted(b) ==
        {i \in DOMAIN cohort : Bin(p.edges, cohort[i].forecast.estimate) = b}
  IN  IF ~ /\ Distinct([i \in DOMAIN cohort |-> cohort[i].forecast.id])
           /\ Distinct([i \in DOMAIN cohort |-> cohort[i].forecast.instrument])
           /\ \A i \in DOMAIN cohort : Admitted(p, cohort[i].forecast, cohort[i].observations)
      THEN [status |-> "policy_blocked"]
      ELSE IF Len(cohort) < p.minimum THEN [status |-> "insufficient_sample"]
      ELSE [status |-> "evaluated", bins |-> [b \in 1 .. Len(p.edges) - 1 |-> counted(b)]]

=============================================================================
