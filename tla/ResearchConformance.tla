-------------------------- MODULE ResearchConformance --------------------------
(***************************************************************************)
(* The semantic validation of a completed dossier, which reports and does  *)
(* not gate: it repeats the temporal, reference and entitlement checks on  *)
(* the serialised dossier and recomputes every calculation.                *)
(*                                                                         *)
(* A formula is its postfix form, a sequence of tokens; its numbers are    *)
(* decimals of the dossier and its value is an exact rational <<numerator, *)
(* denominator>>, where a zero denominator is the error of a division.     *)
(* Unary signs, which every operation refuses, errors of binary floats,    *)
(* magnitudes, sensitivities, supersession, peers, the portfolio and the   *)
(* alternative names of keys are left out.                                 *)
(***************************************************************************)
EXTENDS ResearchDossier, SequencesExt

\* _validate_temporal, over every timestamp of the dossier by its key.
TemporalPasses(d) ==
  /\ d.as_of <= d.completed
  /\ \A i \in DOMAIN d.documents :
       LET x == d.documents[i]
       IN  /\ x.cutoff = d.as_of
           /\ \A t \in {x.observed, x.published, x.available} : t <= d.as_of
           /\ x.retrieved <= d.completed
  /\ \A t \in d.checks : t <= d.completed
  /\ \A i \in DOMAIN d.metrics :
       /\ d.metrics[i].as_of <= d.as_of
       /\ d.metrics[i].basis = "reported" => d.metrics[i].period_end <= d.as_of
  /\ \A x \in d.dated :
       /\ x.kind \in {"filing", "transcript", "factor", "historical"} => x.at <= d.as_of
       /\ x.kind = "prior_outcome" => x.at <= d.completed

\* _validate_references, with the document that a locator names.
ReferencesPass(d) ==
  /\ \A i \in DOMAIN d.documents : d.documents[i].locator \in DOMAIN d.documents \cup {None}
  /\ \A i \in DOMAIN d.metrics :
       /\ d.metrics[i].documents \subseteq DOMAIN d.documents
       /\ d.metrics[i].calculation \in DOMAIN d.calculations \cup {None}
  /\ \A c \in DOMAIN d.calculations : d.calculations[c].inputs \subseteq DOMAIN d.metrics
  /\ \A k \in DOMAIN d.claims :
       /\ ClaimDocuments(d, d.claims[k]) \subseteq DOMAIN d.documents
       /\ d.claims[k].against \subseteq DOMAIN d.claims
       /\ d.claims[k].documents # {} \/ d.claims[k].metrics # {}
  /\ \A i \in DOMAIN d.arguments :
       d.arguments[i].rebuts \in {d.arguments[j].id : j \in DOMAIN d.arguments} \cup {None}

EntitlementPasses(d) ==
  /\ \A i \in DOMAIN d.metrics :
       LET m == d.metrics[i]
       IN  m.basis # "assumption" /\ m.documents # {} => m.documents \cap Accessible(d) # {}
  /\ \A k \in DOMAIN d.claims :
       LET used == ClaimDocuments(d, d.claims[k])
       IN  used # {} => used \cap Accessible(d) # {}

-----------------------------------------------------------------------------
Input(id) == [t |-> "input", is |-> id]
Number(n) == [t |-> "number", is |-> n]
Operator(op) == [t |-> "operator", is |-> op]

Names(formula) == {x.is : x \in {y \in Range(formula) : y.t = "input"}}
Operators(formula) == {x.is : x \in {y \in Range(formula) : y.t = "operator"}}

\* The postfix form of an expression that parses: each operator finds two
\* operands.
IsFormula(formula) ==
  LET operators == {i \in DOMAIN formula : formula[i].t = "operator"}
      operands == DOMAIN formula \ operators
  IN  /\ formula \in Seq(Range(formula)) /\ formula # <<>>
      /\ \A k \in DOMAIN formula :
           /\ \/ formula[k].t = "input"
              \/ formula[k].t = "number" /\ formula[k].is \in Nat
              \/ formula[k].t = "operator" /\ formula[k].is \in {"+", "-", "*", "/", "^"}
           /\ Cardinality({i \in operators : i <= k}) < Cardinality({i \in operands : i <= k})

Raised(x, n) == LET p[k \in 0 .. n] == IF k = 0 THEN 1 ELSE x * p[k - 1] IN p[n]

\* An exponent is a bounded natural number here.
Exponents(b) == {n \in 0 .. 10 : b[2] # 0 /\ b[1] = n * b[2]}

Apply(op, a, b) ==
  CASE op = "+" -> <<a[1] * b[2] + b[1] * a[2], a[2] * b[2]>>
    [] op = "-" -> <<a[1] * b[2] - b[1] * a[2], a[2] * b[2]>>
    [] op = "*" -> <<a[1] * b[1], a[2] * b[2]>>
    [] op = "/" -> <<a[1] * b[2], a[2] * b[1]>>
    [] op = "^" -> IF Exponents(b) = {} THEN <<0, 0>>
                   ELSE LET n == CHOOSE x \in Exponents(b) : TRUE
                        IN  <<Raised(a[1], n), Raised(a[2], n)>>

\* _formula_value: the formula over the values of its inputs.
FormulaValue(formula, values) ==
  LET step(stack, x) ==
        LET n == Len(stack)
        IN  CASE x.t = "input" -> Append(stack, <<values[x.is], Scale>>)
              [] x.t = "number" -> Append(stack, <<x.is, Scale>>)
              [] x.t = "operator" ->
                   Append(SubSeq(stack, 1, n - 2), Apply(x.is, stack[n - 1], stack[n]))
  IN  Head(FoldLeft(step, <<>>, formula))

\* _numeric_inputs: the constants and the input metrics by name; a name that
\* stands for both has one value.
InputsAgree(d, c) ==
  \A x \in c.inputs \cap DOMAIN c.constants : c.constants[x] = d.metrics[x].value

NumericInputs(d, c) ==
  [x \in c.inputs \cup DOMAIN c.constants |->
     IF x \in c.inputs THEN d.metrics[x].value ELSE c.constants[x]]

\* A rational, rounded to the nearest multiple of a unit of 1/Scale.
RoundedValue(value, unit) ==
  IF value[2] > 0 THEN unit * Nearest(Scale * value[1], unit * value[2])
  ELSE unit * Nearest(- Scale * value[1], - unit * value[2])

\* _matches_declared_result: the tolerance is absolute and applied after the
\* rounding of the recomputed value.
MatchesDeclared(c, value) ==
  /\ value[2] # 0
  /\ IF c.rounding = None
     THEN Abs(Scale * value[1] - c.result * value[2]) <= c.tolerance * Abs(value[2])
     ELSE Abs(RoundedValue(value, c.rounding) - c.result) <= c.tolerance

\* The last operator is that of the operation, the others only those allowed.
Chain(formula, last, others) ==
  /\ formula[Len(formula)] = Operator(last)
  /\ Operators(formula) \subseteq others

Averages(formula, inputs) ==
  LET n == Len(formula)
  IN  /\ n > 2 /\ formula[n] = Operator("/")
      /\ formula[n - 1] = Number(Scale * Cardinality(inputs))
      /\ \A i \in 1 .. n - 2 : formula[i].t = "input" \/ formula[i] = Operator("+")
      /\ Cardinality({i \in 1 .. n - 2 : formula[i].t = "input"}) = Cardinality(inputs)

\* _operation_matches: every input is used, in the shape of the operation.
OperationMatches(c, inputs) ==
  /\ Names(c.formula) = inputs
  /\ CASE c.operation = "identity" -> Len(c.formula) = 1 /\ Cardinality(inputs) = 1
       [] c.operation \in {"add", "sum"} -> Chain(c.formula, "+", {"+"})
       [] c.operation = "subtract" -> Chain(c.formula, "-", {"+", "-"})
       [] c.operation = "multiply" -> Chain(c.formula, "*", {"*"})
       [] c.operation = "divide" -> Chain(c.formula, "/", {"*", "/"})
       [] c.operation = "average" -> Averages(c.formula, inputs)
       [] c.operation = "discounted_cash_flow" -> {"/", "^"} \subseteq Operators(c.formula)

\* A formula that does not parse is an issue, and its identifiers are resolved
\* before anything is computed.
Reproduces(d, c) ==
  LET inputs == NumericInputs(d, c)
  IN  /\ IsFormula(c.formula)
      /\ InputsAgree(d, c)
      /\ Names(c.formula) \subseteq DOMAIN inputs
      /\ MatchesDeclared(c, FormulaValue(c.formula, inputs))
      /\ OperationMatches(c, DOMAIN inputs)

\* _validate_reproducibility: a valuation repeats one of its calculations.
ReproducibilityPasses(d) ==
  /\ \A c \in DOMAIN d.calculations : Reproduces(d, d.calculations[c])
  /\ \A v \in DOMAIN d.valuations :
       LET x == d.valuations[v]
       IN  \E c \in x.calculations : d.calculations[c].result = x.fair_value

\* _validate_debate: a rebuttal answers an earlier turn of the same debate.
DebatePasses(d) ==
  \A i \in DOMAIN d.arguments :
    LET a == d.arguments[i]
    IN  /\ a.claims # {}
        /\ a.rebuts # None =>
             \E j \in 1 .. i - 1 : d.arguments[j].id = a.rebuts /\ d.arguments[j].debate = a.debate
        /\ a.concessions \cap a.unresolved = {}

CompletenessPasses(d) ==
  /\ DOMAIN d.coverage # {}
  /\ \A a \in DOMAIN d.coverage :
       IF d.coverage[a].status = "complete" THEN d.coverage[a].documents # {} ELSE d.coverage[a].limited

\* validate_research_dossier.
Conformant(d) ==
  /\ TemporalPasses(d)
  /\ ReferencesPass(d)
  /\ ReproducibilityPasses(d)
  /\ EntitlementPasses(d)
  /\ DebatePasses(d)
  /\ CompletenessPasses(d)

=============================================================================
