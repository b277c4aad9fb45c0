------------------------- MODULE ResearchHistoryProofs -------------------------
(***************************************************************************)
(* Theorems about ResearchHistory for any number of runs, decisions,       *)
(* sources and observations: no look-ahead in what a run recalls, collects *)
(* and submits, the newest decisions recalled, valid receipts with exact   *)
(* duplicates, complete answers that omit nothing, metrics that follow     *)
(* from their formulas, and a quality store that can be loaded again.      *)
(*                                                                         *)
(* The folds and recursive functions of the model are unrolled by          *)
(* induction, which the provers are given as a fact about sets of naturals *)
(* (AllNat): it needs no operator as a parameter.                          *)
(***************************************************************************)
EXTENDS ResearchHistory, FiniteSetTheorems, WellFoundedInduction, TLAPS

-----------------------------------------------------------------------------
(* Induction                                                                 *)

LEMMA LeastNat ==
  ASSUME NEW T \in SUBSET Nat, T # {}
  PROVE  \E n \in T : \A m \in T : n <= m
  <1> DEFINE R == OpToRel(<, Nat)
  <1>1. IsWellFoundedOn(R, Nat)
    BY NatLessThanWellFounded
  <1>2. \A x, y \in Nat : x < y => <<x, y>> \in R
    BY DEF OpToRel
  <1> HIDE DEF R
  <1>3. PICK x \in T : \A y \in T : ~ (<<y, x>> \in R)
    BY <1>1, WFMin
  <1>4. ASSUME NEW y \in T PROVE x <= y
    <2>1. x \in Nat /\ y \in Nat
      OBVIOUS
    <2>2. ~ (y < x)
      BY <1>2, <1>3, <2>1
    <2> QED BY <2>1, <2>2
  <1> QED BY <1>4

\* Induction, for the set of the numbers that satisfy what is proved.
LEMMA AllNat ==
  ASSUME NEW T, 0 \in T, \A k \in Nat : k \in T => k + 1 \in T
  PROVE  Nat \subseteq T
  <1> SUFFICES ASSUME Nat \ T # {} PROVE FALSE
    OBVIOUS
  <1>1. PICK n \in Nat \ T : \A m \in Nat \ T : n <= m
    BY LeastNat
  <1>2. n # 0 /\ n - 1 \in Nat /\ (n - 1) + 1 = n
    BY <1>1
  <1>3. n - 1 \in T
    BY <1>1, <1>2
  <1> QED BY <1>1, <1>2, <1>3

LEMMA MaxOfPrefix ==
  ASSUME NEW k \in Nat, NEW x \in SUBSET (1 .. k + 1), k + 1 \in x
  PROVE  Max(x) = k + 1
  <1>1. \A y \in x : y \in Int /\ k + 1 >= y
    OBVIOUS
  <1>2. ASSUME NEW z \in x, \A y \in x : z >= y PROVE z = k + 1
    BY <1>1, <1>2
  <1>3. Max(x) \in x /\ \A y \in x : Max(x) >= y
    BY <1>1 DEF Max
  <1> QED BY <1>2, <1>3

LEMMA MaxIsIn ==
  ASSUME NEW n \in Nat, NEW x \in SUBSET (1 .. n), x # {}
  PROVE  Max(x) \in x
  <1> DEFINE T == {n - y : y \in x}
  <1>1. \A y \in x : y \in 1 .. n /\ n - y \in Nat
    OBVIOUS
  <1>2. T \in SUBSET Nat /\ T # {}
    BY <1>1
  <1>3. PICK t \in T : \A u \in T : t <= u
    BY <1>2, LeastNat
  <1>4. PICK y \in x : t = n - y
    BY <1>3
  <1>5. ASSUME NEW z \in x PROVE y >= z
    <2>1. n - y <= n - z
      BY <1>3, <1>4
    <2> QED BY <1>1, <2>1
  <1>6. \E m \in x : \A z \in x : m >= z
    BY <1>5
  <1> HIDE DEF T
  <1> QED BY <1>6 DEF Max

-----------------------------------------------------------------------------
(* Folds.  FoldLeft over a sequence of length n is a function f of the sets  *)
(* of positions; there is one when each step stays within a set V.           *)

FoldsTo(f, k, base, G) ==
  \A x \in SUBSET (1 .. k) :
    f[x] = IF x = {} THEN base ELSE G[<<Max(x), f[x \ {Max(x)}]>>]

LEMMA FoldExists ==
  ASSUME NEW n \in Nat, NEW V, NEW base \in V, NEW G \in [(1 .. n) \X V -> V]
  PROVE  \E f \in [SUBSET (1 .. n) -> V] : FoldsTo(f, n, base, G)
  <1> DEFINE Has(k) == \E f \in [SUBSET (1 .. k) -> V] : FoldsTo(f, k, base, G)
             Solved == {k \in Nat : k <= n => Has(k)}
  <1>1. Has(0)
    <2> DEFINE f == [x \in SUBSET (1 .. 0) |-> base]
    <2>1. 1 .. 0 = {}
      OBVIOUS
    <2>2. f \in [SUBSET (1 .. 0) -> V] /\ FoldsTo(f, 0, base, G)
      BY <2>1 DEF FoldsTo
    <2> HIDE DEF f
    <2> QED BY <2>2
  <1>2. ASSUME NEW k \in Nat, k + 1 <= n, Has(k) PROVE Has(k + 1)
    <2>1. PICK f \in [SUBSET (1 .. k) -> V] : FoldsTo(f, k, base, G)
      BY <1>2
    <2> DEFINE g == [x \in SUBSET (1 .. k + 1) |->
                       IF k + 1 \in x THEN G[<<k + 1, f[x \ {k + 1}]>>] ELSE f[x]]
    <2>2. ASSUME NEW x \in SUBSET (1 .. k + 1), k + 1 \in x
          PROVE  /\ g[x] \in V
                 /\ g[x] = IF x = {} THEN base ELSE G[<<Max(x), g[x \ {Max(x)}]>>]
      <3>1. Max(x) = k + 1
        BY <2>2, MaxOfPrefix
      <3>2. \A y \in x \ {k + 1} : y \in 1 .. k
        OBVIOUS
      <3>3. /\ x \ {k + 1} \in SUBSET (1 .. k + 1) /\ k + 1 \notin x \ {k + 1}
            /\ x \ {k + 1} \in SUBSET (1 .. k) /\ k + 1 \in 1 .. n
        BY <1>2, <3>2
      <3>4. g[x \ {k + 1}] = f[x \ {k + 1}] /\ f[x \ {k + 1}] \in V
        BY <3>3
      <3>5. g[x] = G[<<k + 1, f[x \ {k + 1}]>>]
        BY <2>2
      <3>6. G[<<k + 1, f[x \ {k + 1}]>>] \in V
        BY <3>3, <3>4
      <3> HIDE DEF g
      <3> QED BY <2>2, <3>1, <3>4, <3>5, <3>6
    <2>3. ASSUME NEW x \in SUBSET (1 .. k + 1), k + 1 \notin x
          PROVE  /\ g[x] \in V
                 /\ g[x] = IF x = {} THEN base ELSE G[<<Max(x), g[x \ {Max(x)}]>>]
      <3>1. \A y \in x : y \in 1 .. k
        BY <2>3
      <3>2. /\ x \in SUBSET (1 .. k) /\ x \ {Max(x)} \in SUBSET (1 .. k + 1)
            /\ k + 1 \notin x \ {Max(x)}
        <4> HIDE DEF g
        <4> QED BY <2>3, <3>1
      <3>3. g[x] = f[x] /\ g[x \ {Max(x)}] = f[x \ {Max(x)}]
        BY <2>3, <3>2
      <3> HIDE DEF g
      <3> QED BY <2>1, <3>2, <3>3 DEF FoldsTo
    <2>4. g \in [SUBSET (1 .. k + 1) -> V]
      <3>1. g = [x \in SUBSET (1 .. k + 1) |-> g[x]]
        OBVIOUS
      <3>2. \A x \in SUBSET (1 .. k + 1) : g[x] \in V
        BY <2>2, <2>3
      <3> HIDE DEF g
      <3> QED BY <3>1, <3>2
    <2>5. FoldsTo(g, k + 1, base, G)
      <3> HIDE DEF g
      <3> QED BY <2>2, <2>3 DEF FoldsTo
    <2> HIDE DEF g
    <2> QED BY <2>4, <2>5
  <1> HIDE DEF Has
  <1>3. 0 \in Solved
    BY <1>1
  <1>4. ASSUME NEW k \in Nat, k \in Solved PROVE k + 1 \in Solved
    BY <1>2, <1>4
  <1>5. n \in Solved
    <2> HIDE DEF Solved
    <2> QED BY <1>3, <1>4, AllNat
  <1>6. Has(n)
    BY <1>5
  <1> QED BY <1>6 DEF Has

\* Each prefix of the positions extends the one before it by one step.
LEMMA Prefixes1 ==
  ASSUME NEW n \in Nat, NEW k \in 1 .. n
  PROVE  /\ 1 .. k \in SUBSET (1 .. n) /\ 1 .. k # {}
         /\ Max(1 .. k) = k /\ (1 .. k) \ {k} = 1 .. k - 1
  <1>1. k - 1 \in Nat /\ (k - 1) + 1 = k
    OBVIOUS
  <1>2. k \in 1 .. k /\ 1 .. k \in SUBSET (1 .. n)
    OBVIOUS
  <1>3. (1 .. k) \ {k} = 1 .. k - 1
    OBVIOUS
  <1>4. Max(1 .. k) = k
    BY <1>1, <1>2, MaxOfPrefix
  <1> QED BY <1>2, <1>3, <1>4

\* A function that solves the equation of a fold as long as its values stay
\* in V, and the values of the fold over the prefixes.
Iterates(iter, n, V, base, G) ==
  /\ iter[{}] = base
  /\ \A x \in SUBSET (1 .. n) : x # {} /\ iter[x \ {Max(x)}] \in V =>
       iter[x] = G[<<Max(x), iter[x \ {Max(x)}]>>]

PrefixValues(done, n, V, base, G, result) ==
  /\ done \in [0 .. n -> V]
  /\ done[0] = base /\ done[n] = result
  /\ \A k \in 1 .. n : done[k] = G[<<k, done[k - 1]>>]

LEMMA Unrolls ==
  ASSUME NEW n \in Nat, NEW V, NEW base \in V, NEW G \in [(1 .. n) \X V -> V], NEW iter,
         Iterates(iter, n, V, base, G)
  PROVE  \E done : PrefixValues(done, n, V, base, G, iter[1 .. n])
  <1> DEFINE Typed == {k \in Nat : k <= n => iter[1 .. k] \in V}
  <1>1. 0 \in Typed
    <2>1. 1 .. 0 = {}
      OBVIOUS
    <2> QED BY <2>1 DEF Iterates
  <1>2. ASSUME NEW k \in 1 .. n, iter[1 .. k - 1] \in V
        PROVE  iter[1 .. k] = G[<<k, iter[1 .. k - 1]>>] /\ iter[1 .. k] \in V
    <2>1. /\ 1 .. k \in SUBSET (1 .. n) /\ 1 .. k # {}
          /\ Max(1 .. k) = k /\ (1 .. k) \ {k} = 1 .. k - 1
      BY Prefixes1
    <2>2. iter[1 .. k] = G[<<k, iter[1 .. k - 1]>>]
      BY <1>2, <2>1 DEF Iterates
    <2>3. <<k, iter[1 .. k - 1]>> \in (1 .. n) \X V
      BY <1>2
    <2> QED BY <2>2, <2>3
  <1>3. ASSUME NEW k \in Nat, k \in Typed PROVE k + 1 \in Typed
    <2> SUFFICES ASSUME k + 1 <= n PROVE iter[1 .. k + 1] \in V
      OBVIOUS
    <2>1. iter[1 .. k] \in V /\ k + 1 \in 1 .. n /\ (k + 1) - 1 = k
      BY <1>3
    <2> QED BY <1>2, <2>1
  <1>4. \A k \in 0 .. n : iter[1 .. k] \in V
    <2>1. Nat \subseteq Typed
      <3> HIDE DEF Typed
      <3> QED BY <1>1, <1>3, AllNat
    <2> QED BY <2>1
  <1> DEFINE done == [k \in 0 .. n |-> iter[1 .. k]]
  <1>5. done \in [0 .. n -> V]
    BY <1>4
  <1>6. \A k \in 1 .. n : done[k] = G[<<k, done[k - 1]>>]
    <2> SUFFICES ASSUME NEW k \in 1 .. n PROVE done[k] = G[<<k, done[k - 1]>>]
      OBVIOUS
    <2>1. k \in 0 .. n /\ k - 1 \in 0 .. n
      OBVIOUS
    <2> QED BY <1>2, <1>4, <2>1
  <1>7. done[0] = base /\ done[n] = iter[1 .. n]
    <2>1. 1 .. 0 = {} /\ 0 \in 0 .. n /\ n \in 0 .. n
      OBVIOUS
    <2> QED BY <2>1 DEF Iterates
  <1> HIDE DEF done
  <1> QED BY <1>5, <1>6, <1>7 DEF PrefixValues

LEMMA Stays ==
  ASSUME NEW n \in Nat, NEW V, NEW base \in V, NEW G \in [(1 .. n) \X V -> V], NEW iter,
         Iterates(iter, n, V, base, G)
  PROVE  iter[1 .. n] \in V
  <1>1. PICK done : PrefixValues(done, n, V, base, G, iter[1 .. n])
    BY Unrolls
  <1>2. n \in 0 .. n
    OBVIOUS
  <1> QED BY <1>1, <1>2 DEF PrefixValues

-----------------------------------------------------------------------------
(* The folds of a recall                                                     *)

LEMMA KeptRange ==
  ASSUME NEW A, NEW s \in Seq(A), NEW S
  PROVE  Kept(s, S) \in Seq(A \cap S)
  <1> DEFINE n == Len(s)
             V == Seq(A \cap S)
             Add(t, x) == IF x \in S THEN Append(t, x) ELSE t
             Step(x, f) == IF x = {} THEN <<>> ELSE Add(f[x \ {Max(x)}], s[Max(x)])
             Solves(f) == f = [x \in SUBSET (1 .. n) |-> Step(x, f)]
             G == [p \in (1 .. n) \X V |-> Add(p[2], s[p[1]])]
  <1>1. n \in Nat /\ DOMAIN s = 1 .. n /\ \A i \in 1 .. n : s[i] \in A
    OBVIOUS
  <1> HIDE DEF n
  <1>2. G \in [(1 .. n) \X V -> V] /\ <<>> \in V
    BY <1>1
  <1>3. \A i \in 1 .. n, t \in V : G[<<i, t>>] = Add(t, s[i])
    OBVIOUS
  <1> HIDE DEF G, V
  <1>4. PICK f \in [SUBSET (1 .. n) -> V] : FoldsTo(f, n, <<>>, G)
    BY <1>1, <1>2, FoldExists
  <1>5. ASSUME NEW x \in SUBSET (1 .. n) PROVE f[x] = Step(x, f)
    <2>1. x # {} => Max(x) \in 1 .. n
      BY <1>1, MaxIsIn
    <2>2. x \ {Max(x)} \in SUBSET (1 .. n)
      OBVIOUS
    <2> QED BY <1>3, <1>4, <2>1, <2>2 DEF FoldsTo
  <1>6. Solves(f)
    <2> HIDE DEF Step
    <2> QED BY <1>5
  <1> DEFINE iter == CHOOSE g : Solves(g)
  <1>7. Solves(iter)
    <2> HIDE DEF Solves
    <2> QED BY <1>6
  <1>8. Kept(s, S) = iter[1 .. n]
    BY <1>1 DEF Kept, FoldLeft, MapThenFoldSet
  <1>9. \A x \in SUBSET (1 .. n) : iter[x] = Step(x, iter)
    <2> HIDE DEF iter, Step
    <2> QED BY <1>7
  <1> HIDE DEF iter
  <1>10. iter[{}] = <<>>
    BY <1>9
  <1>11. ASSUME NEW x \in SUBSET (1 .. n), x # {}, iter[x \ {Max(x)}] \in V
         PROVE  iter[x] = G[<<Max(x), iter[x \ {Max(x)}]>>]
    BY <1>1, <1>3, <1>9, <1>11, MaxIsIn
  <1>12. Iterates(iter, n, V, <<>>, G)
    BY <1>10, <1>11 DEF Iterates
  <1>14. iter[1 .. n] \in V
    BY <1>1, <1>2, <1>12, Stays
  <1> QED BY <1>8, <1>14 DEF V

\* The entries of the visible rows of a set.
EntriesOf(A, outcomes, cutoff) ==
  {Entry(row, outcomes, cutoff) : row \in {x \in A : Visible(x, cutoff)}}

RecallSteps(done, rows, outcomes, limit, cutoff) ==
  /\ done[0] = <<>> /\ done[Len(rows)] = VisibleEntries(rows, outcomes, limit, cutoff)
  /\ \A k \in 1 .. Len(rows) :
       done[k] = IF Len(done[k - 1]) < limit /\ Visible(rows[k], cutoff)
                 THEN Append(done[k - 1], Entry(rows[k], outcomes, cutoff)) ELSE done[k - 1]

LEMMA RecallUnrolls ==
  ASSUME NEW A, NEW rows \in Seq(A), NEW outcomes, NEW limit, NEW cutoff
  PROVE  \E done \in [0 .. Len(rows) -> Seq(EntriesOf(A, outcomes, cutoff))] :
           RecallSteps(done, rows, outcomes, limit, cutoff)
  <1> DEFINE n == Len(rows)
             V == Seq(EntriesOf(A, outcomes, cutoff))
             Add(t, row) == IF Len(t) < limit /\ Visible(row, cutoff)
                            THEN Append(t, Entry(row, outcomes, cutoff)) ELSE t
             Step(x, f) == IF x = {} THEN <<>> ELSE Add(f[x \ {Max(x)}], rows[Max(x)])
             Solves(f) == f = [x \in SUBSET (1 .. n) |-> Step(x, f)]
             G == [p \in (1 .. n) \X V |-> Add(p[2], rows[p[1]])]
  <1>1. n \in Nat /\ DOMAIN rows = 1 .. n /\ \A i \in 1 .. n : rows[i] \in A
    OBVIOUS
  <1> HIDE DEF n
  <1>2. G \in [(1 .. n) \X V -> V] /\ <<>> \in V
    <2>1. ASSUME NEW i \in 1 .. n, NEW t \in V PROVE Add(t, rows[i]) \in V
      <3>1. Visible(rows[i], cutoff) => Entry(rows[i], outcomes, cutoff) \in EntriesOf(A, outcomes, cutoff)
        BY <1>1 DEF EntriesOf
      <3> QED BY <3>1
    <2> HIDE DEF Add, V
    <2>2. <<>> \in V
      BY DEF V
    <2> QED BY <2>1, <2>2
  <1>3. \A i \in 1 .. n, t \in V : G[<<i, t>>] = Add(t, rows[i])
    <2> HIDE DEF Add, V
    <2> QED OBVIOUS
  <1> HIDE DEF G, V
  <1>4. PICK f \in [SUBSET (1 .. n) -> V] : FoldsTo(f, n, <<>>, G)
    BY <1>1, <1>2, FoldExists
  <1>5. ASSUME NEW x \in SUBSET (1 .. n) PROVE f[x] = Step(x, f)
    <2>1. x # {} => Max(x) \in 1 .. n
      BY <1>1, MaxIsIn
    <2>2. x \ {Max(x)} \in SUBSET (1 .. n)
      OBVIOUS
    <2> HIDE DEF Add
    <2> QED BY <1>3, <1>4, <2>1, <2>2 DEF FoldsTo
  <1>6. Solves(f)
    <2> HIDE DEF Step
    <2> QED BY <1>5
  <1> DEFINE iter == CHOOSE g : Solves(g)
  <1>7. Solves(iter)
    <2> HIDE DEF Solves
    <2> QED BY <1>6
  <1>8. VisibleEntries(rows, outcomes, limit, cutoff) = iter[1 .. n]
    BY <1>1 DEF VisibleEntries, FoldLeft, MapThenFoldSet
  <1>9. \A x \in SUBSET (1 .. n) : iter[x] = Step(x, iter)
    <2> HIDE DEF iter, Step
    <2> QED BY <1>7
  <1> HIDE DEF iter, Add
  <1>10. iter[{}] = <<>>
    BY <1>9
  <1>11. ASSUME NEW x \in SUBSET (1 .. n), x # {}, iter[x \ {Max(x)}] \in V
         PROVE  iter[x] = G[<<Max(x), iter[x \ {Max(x)}]>>]
    BY <1>1, <1>3, <1>9, <1>11, MaxIsIn
  <1>12. Iterates(iter, n, V, <<>>, G)
    BY <1>10, <1>11 DEF Iterates
  <1>13. PICK done : PrefixValues(done, n, V, <<>>, G, iter[1 .. n])
    BY <1>1, <1>2, <1>12, Unrolls
  <1>14. done \in [0 .. n -> V] /\ done[0] = <<>> /\ done[n] = iter[1 .. n]
    BY <1>13 DEF PrefixValues
  <1>15. ASSUME NEW k \in 1 .. n PROVE done[k] = Add(done[k - 1], rows[k])
    <2>1. k - 1 \in 0 .. n
      BY <1>1
    <2> QED BY <1>3, <1>13, <1>14, <2>1 DEF PrefixValues
  <1>16. RecallSteps(done, rows, outcomes, limit, cutoff)
    BY <1>8, <1>14, <1>15 DEF RecallSteps, n, Add
  <1> QED BY <1>14, <1>16 DEF n, V

LEMMA EntriesRange ==
  ASSUME NEW A, NEW rows \in Seq(A), NEW outcomes, NEW limit, NEW cutoff
  PROVE  VisibleEntries(rows, outcomes, limit, cutoff) \in Seq(EntriesOf(A, outcomes, cutoff))
  <1>1. PICK done \in [0 .. Len(rows) -> Seq(EntriesOf(A, outcomes, cutoff))] :
               RecallSteps(done, rows, outcomes, limit, cutoff)
    BY RecallUnrolls
  <1>2. Len(rows) \in 0 .. Len(rows)
    OBVIOUS
  <1> QED BY <1>1, <1>2 DEF RecallSteps

-----------------------------------------------------------------------------
(* What a run holds at each step                                             *)

\* A submission that passed the contracts, of a request of the run.
Admissible(r, s) ==
  /\ s.request \in CandidateRequests(r) /\ ValidRequest(s.request)
  /\ s \in CandidateSubmissions(r, s.request)
  /\ ValidSubmission(s) /\ ConformantRegistration(r, s.forecasts)
  /\ \A f \in s.forecasts : ValidForecast(f)

OwnForecasts(r, forecasts) ==
  /\ ConformantRegistration(r, forecasts)
  /\ \A f \in forecasts :
       /\ ValidForecast(f)
       /\ f.cutoff \in Nat /\ f.at \in Nat /\ f.resolve_after \in Nat
       /\ \A o \in CandidateOutcomes(f) : o.available \in Nat /\ o.resolved \in Nat

RunForm(r, w) ==
  /\ w.step \in Steps
  /\ w.step \in {"recalling", "planned", "collected"} =>
       w.request \in CandidateRequests(r) /\ ValidRequest(w.request)
  /\ w.step = "submitted" => Admissible(r, w.submission)
  /\ w.step \in Registering => OwnForecasts(r, w.forecasts)
  /\ w.step \in Registering \ {"quality_staged"} => w = [step |-> w.step, forecasts |-> w.forecasts]

WorkForm ==
  /\ work \in [Runs -> {work[r] : r \in Runs}]
  /\ \A r \in Runs : RunForm(r, work[r])

LEMMA AdmissibleForecasts ==
  ASSUME NEW r \in Runs, NEW s, Admissible(r, s)
  PROVE  OwnForecasts(r, s.forecasts)
  BY CandidatesAssumption DEF Admissible, OwnForecasts

\* A step of a run that puts w in its place keeps the form of the others.
LEMMA WorkReplaced ==
  ASSUME WorkForm, NEW r \in Runs, NEW w, RunForm(r, w), work' = [work EXCEPT ![r] = w]
  PROVE  WorkForm'
  <1>1. \A x \in Runs : work'[x] = IF x = r THEN w ELSE work[x]
    BY DEF WorkForm
  <1>2. work' \in [Runs -> {work'[x] : x \in Runs}]
    BY DEF WorkForm
  <1>3. \A x \in Runs : RunForm(x, work'[x])
    BY <1>1 DEF WorkForm
  <1> QED BY <1>2, <1>3 DEF WorkForm

LEMMA InitWorkForm == Init => WorkForm
  BY DEF Init, WorkForm, RunForm, NotStarted, Steps, Registering

LEMMA WorkFormStep ==
  ASSUME WorkForm, [Next]_vars
  PROVE  WorkForm'
  <1>1. ASSUME NEW r \in Runs, Plan(r) PROVE WorkForm'
    <2>1. PICK q \in CandidateRequests(r) :
            ValidRequest(q) /\
            work' = [work EXCEPT ![r] =
              [step |-> "recalling", request |-> q, rows |-> SameSymbol(decisions, q.symbol)]]
      BY <1>1 DEF Plan
    <2> DEFINE w == [step |-> "recalling", request |-> q, rows |-> SameSymbol(decisions, q.symbol)]
    <2>2. RunForm(r, w)
      BY <2>1 DEF RunForm, Steps, Registering
    <2> QED BY <2>1, <2>2, WorkReplaced
  <1>2. ASSUME NEW r \in Runs, RecallOthers(r) PROVE WorkForm'
    <2> DEFINE q == work[r].request
               w == [step |-> "planned", request |-> q,
                     same |-> VisibleEntries(work[r].rows, reviews, SameLimit, q.cutoff),
                     cross |-> VisibleEntries(CrossSymbol(decisions, q.symbol), reviews, CrossLimit, q.cutoff)]
    <2>1. q \in CandidateRequests(r) /\ ValidRequest(q)
      BY <1>2 DEF RecallOthers, WorkForm, RunForm, At
    <2>2. RunForm(r, w)
      BY <2>1 DEF RunForm, Steps, Registering
    <2>3. work' = [work EXCEPT ![r] = w]
      BY <1>2 DEF RecallOthers
    <2> QED BY <2>2, <2>3, WorkReplaced
  <1>3. ASSUME NEW r \in Runs, Collect(r) PROVE WorkForm'
    <2>1. work[r].request \in CandidateRequests(r) /\ ValidRequest(work[r].request)
      BY <1>3 DEF Collect, WorkForm, RunForm, At
    <2>2. PICK world, receipt :
            work' = [work EXCEPT ![r] = [step |-> "collected", request |-> work[r].request,
                                         world |-> world, receipt |-> receipt]]
      BY <1>3 DEF Collect
    <2> DEFINE w == [step |-> "collected", request |-> work[r].request,
                     world |-> world, receipt |-> receipt]
    <2>3. RunForm(r, w)
      BY <2>1 DEF RunForm, Steps, Registering
    <2> QED BY <2>2, <2>3, WorkReplaced
  <1>4. ASSUME NEW r \in Runs, Submit(r) PROVE WorkForm'
    <2>1. work[r].request \in CandidateRequests(r) /\ ValidRequest(work[r].request)
      BY <1>4 DEF Submit, WorkForm, RunForm
    <2>2. PICK s \in CandidateSubmissions(r, work[r].request) :
            /\ s.request = work[r].request /\ ValidSubmission(s)
            /\ ConformantRegistration(r, s.forecasts) /\ \A f \in s.forecasts : ValidForecast(f)
            /\ work' = [work EXCEPT ![r] = [step |-> "submitted", submission |-> s]]
      BY <1>4 DEF Submit
    <2> DEFINE w == [step |-> "submitted", submission |-> s]
    <2>3. Admissible(r, s)
      BY <2>1, <2>2 DEF Admissible
    <2>4. RunForm(r, w)
      BY <2>3 DEF RunForm, Steps, Registering
    <2> QED BY <2>2, <2>4, WorkReplaced
  <1>5. ASSUME NEW r \in Runs, StageQuality(r) PROVE WorkForm'
    <2> DEFINE s == work[r].submission
               w == [step |-> "quality_staged", row |-> DecisionRow(r, s), forecasts |-> s.forecasts]
    <2>1. OwnForecasts(r, s.forecasts)
      BY <1>5, AdmissibleForecasts DEF StageQuality, At, WorkForm, RunForm
    <2>2. RunForm(r, w)
      BY <2>1 DEF RunForm, Steps, Registering
    <2>3. work' = [work EXCEPT ![r] = w]
      BY <1>5 DEF StageQuality
    <2> QED BY <2>2, <2>3, WorkReplaced
  <1>6. ASSUME NEW r \in Runs, StageDecision(r) PROVE WorkForm'
    <2> DEFINE w == [step |-> "memory_staged", forecasts |-> work[r].forecasts]
    <2>1. OwnForecasts(r, work[r].forecasts)
      BY <1>6 DEF StageDecision, At, WorkForm, RunForm, Registering
    <2>2. RunForm(r, w)
      BY <2>1 DEF RunForm, Steps, Registering
    <2>3. work' = [work EXCEPT ![r] = w]
      BY <1>6 DEF StageDecision
    <2> QED BY <2>2, <2>3, WorkReplaced
  <1>7. ASSUME NEW r \in Runs, PublishQuality(r) PROVE WorkForm'
    <2> DEFINE w == [step |-> "quality_published", forecasts |-> work[r].forecasts]
    <2>1. /\ OwnForecasts(r, work[r].forecasts)
          /\ work[r] = [step |-> work[r].step, forecasts |-> work[r].forecasts]
      BY <1>7 DEF PublishQuality, At, WorkForm, RunForm, Registering
    <2>2. RunForm(r, w)
      BY <2>1 DEF RunForm, Steps, Registering
    <2>3. [work[r] EXCEPT !.step = "quality_published"] = w
      BY <2>1
    <2>4. work' = [work EXCEPT ![r] = [work[r] EXCEPT !.step = "quality_published"]]
      BY <1>7 DEF PublishQuality, WorkForm
    <2>5. work' = [work EXCEPT ![r] = w]
      BY <2>3, <2>4
    <2> QED BY <2>2, <2>5, WorkReplaced
  <1>8. ASSUME NEW r \in Runs, PublishDecision(r) PROVE WorkForm'
    <2> DEFINE w == [step |-> "memory_published", forecasts |-> work[r].forecasts]
    <2>1. /\ OwnForecasts(r, work[r].forecasts)
          /\ work[r] = [step |-> work[r].step, forecasts |-> work[r].forecasts]
      BY <1>8 DEF PublishDecision, At, WorkForm, RunForm, Registering
    <2>2. RunForm(r, w)
      BY <2>1 DEF RunForm, Steps, Registering
    <2>3. [work[r] EXCEPT !.step = "memory_published"] = w
      BY <2>1
    <2>4. work' = [work EXCEPT ![r] = [work[r] EXCEPT !.step = "memory_published"]]
      BY <1>8 DEF PublishDecision, WorkForm
    <2>5. work' = [work EXCEPT ![r] = w]
      BY <2>3, <2>4
    <2> QED BY <2>2, <2>5, WorkReplaced
  <1>9. CASE UNCHANGED work
    BY <1>9 DEF WorkForm
  <1> QED BY <1>1, <1>2, <1>3, <1>4, <1>5, <1>6, <1>7, <1>8, <1>9
          DEF Next, Review, AppendOutcome, vars

-----------------------------------------------------------------------------
(* Recall                                                                    *)

LEMMA SeqRange ==
  ASSUME NEW A, NEW s \in Seq(A)
  PROVE  Range(s) \subseteq A /\ s \in Seq(Range(s))
  BY DEF Range

LEMMA ReverseSeq ==
  ASSUME NEW A, NEW s \in Seq(A)
  PROVE  Reverse(s) \in Seq(A)
  <1>1. \A i \in 1 .. Len(s) : (Len(s) - i) + 1 \in 1 .. Len(s)
    OBVIOUS
  <1>2. \A i \in 1 .. Len(s) : s[(Len(s) - i) + 1] \in A
    BY <1>1
  <1> QED BY <1>2 DEF Reverse

PublishedRows(rows) == {row \in Range(rows) : row.published}

\* What RecallNeverLooksAhead says of one entry.
Known(entry, cutoff, rows) ==
  /\ \A o \in Range(entry.outcomes) : o.observed <= cutoff
  /\ \E i \in DOMAIN rows :
       /\ rows[i].run = entry.run /\ rows[i].published
       /\ \A t \in rows[i].evidence \cup rows[i].stamps \cup {rows[i].created} : t <= cutoff

\* What a run holds of the memory.
RecallForm(w, rows) ==
  /\ w.step = "recalling" => w.rows \in Seq(PublishedRows(rows))
  /\ w.step = "planned" =>
       \A entry \in Range(w.same) \cup Range(w.cross) : Known(entry, w.request.cutoff, rows)
  /\ w.step = "quality_staged" => IsDecision(w.row)

Decided == decisions \in Seq(Range(decisions)) /\ \A row \in Range(decisions) : IsDecision(row)

Memory == Decided /\ reviews \in Seq(Range(reviews))

\* The inductive invariant: the rows in the memory and the row to come are
\* decisions, the rows a recall has read are in the memory for good, and the
\* entries it made of them are known.
RecallInvariant ==
  /\ Memory
  /\ \A r \in Runs : RecallForm(work[r], decisions)

LEMMA StatementRows ==
  ASSUME RecallInvariant, NEW symbol
  PROVE  SameSymbol(decisions, symbol) \in Seq(PublishedRows(decisions)) /\ CrossSymbol(decisions, symbol) \in Seq(PublishedRows(decisions))
  <1> DEFINE D == Range(decisions)
             S == {row \in D : row.published /\ row.symbol = symbol}
             C == {row \in D : row.published /\ row.symbol # symbol}
  <1>1. D \cap S \subseteq PublishedRows(decisions) /\ D \cap C \subseteq PublishedRows(decisions)
    BY DEF PublishedRows
  <1>2. decisions \in Seq(D)
    BY DEF RecallInvariant, Memory, Decided
  <1> HIDE DEF D, S, C
  <1>3. Kept(decisions, S) \in Seq(D \cap S) /\ Kept(decisions, C) \in Seq(D \cap C)
    BY <1>2, KeptRange
  <1>4. Kept(decisions, S) \in Seq(PublishedRows(decisions)) /\ Kept(decisions, C) \in Seq(PublishedRows(decisions))
    BY <1>1, <1>3
  <1>5. Reverse(Kept(decisions, S)) \in Seq(PublishedRows(decisions)) /\ Reverse(Kept(decisions, C)) \in Seq(PublishedRows(decisions))
    BY <1>4, ReverseSeq
  <1> QED BY <1>5 DEF SameSymbol, CrossSymbol, S, C, D

LEMMA EntryIsKnown ==
  ASSUME RecallInvariant, NEW cutoff \in Nat, NEW row \in PublishedRows(decisions), Visible(row, cutoff)
  PROVE  Known(Entry(row, reviews, cutoff), cutoff, decisions)
  <1> DEFINE S == {o \in Range(reviews) : o.run = row.run /\ o.observed <= cutoff}
  <1>1. Kept(reviews, S) \in Seq(Range(reviews) \cap S)
    <2> HIDE DEF S
    <2> QED BY KeptRange DEF RecallInvariant, Memory, Decided
  <1>2. \A o \in Range(Kept(reviews, S)) : o.observed <= cutoff
    <2>1. Range(Kept(reviews, S)) \subseteq Range(reviews) \cap S
      <3> HIDE DEF S
      <3> QED BY <1>1, SeqRange
    <2> QED BY <2>1
  <1>3. PICK i \in DOMAIN decisions : decisions[i] = row
    BY DEF PublishedRows, Range
  <1>4. row.published /\ IsDecision(row)
    BY DEF PublishedRows, RecallInvariant, Memory, Decided
  <1>5. \A t \in row.evidence \cup row.stamps \cup {row.created} : t <= cutoff
    BY <1>4 DEF IsDecision, Visible
  <1> HIDE DEF S
  <1>6. Entry(row, reviews, cutoff) = [run |-> row.run, outcomes |-> Kept(reviews, S)]
    BY DEF Entry, S
  <1> QED BY <1>2, <1>3, <1>4, <1>5, <1>6 DEF Known

LEMMA EntriesAreKnown ==
  ASSUME RecallInvariant, NEW cutoff \in Nat, NEW rows \in Seq(PublishedRows(decisions)), NEW limit,
         NEW entry \in Range(VisibleEntries(rows, reviews, limit, cutoff))
  PROVE  Known(entry, cutoff, decisions)
  <1>1. entry \in EntriesOf(PublishedRows(decisions), reviews, cutoff)
    BY EntriesRange, SeqRange
  <1> QED BY <1>1, EntryIsKnown DEF EntriesOf

\* The row of a submission is a decision: what it rests on was available by
\* the cutoffs of the dossier and of the bundle, which precede its completion.
LEMMA SubmittedRow ==
  ASSUME NEW r \in Runs, NEW s, Admissible(r, s)
  PROVE  IsDecision(DecisionRow(r, s))
  <1>1. /\ s.request.cutoff \in Nat /\ s.request.requested \in Nat
        /\ s.card.completed \in Nat /\ s.bundle.cutoff \in Nat
        /\ \A x \in s.bundle.facts : x.available \in Nat
        /\ \A i \in DOMAIN s.dossier.documents : s.dossier.documents[i].available \in Nat
    BY CandidatesAssumption DEF Admissible
  <1>2. /\ ValidDossier(s.dossier) /\ ValidResearch(s.request, s.dossier)
        /\ ValidBundle(s.bundle) /\ ValidCard(s)
    BY DEF Admissible, ValidSubmission
  <1>3. s.request.cutoff <= s.card.completed
    <2>1. s.request.cutoff <= s.request.requested
      BY DEF Admissible, ValidRequest
    <2>2. s.request.requested <= s.card.completed
      BY <1>2 DEF ValidCard
    <2> QED BY <1>1, <2>1, <2>2
  <1>4. ASSUME NEW i \in DOMAIN s.dossier.documents
        PROVE  s.dossier.documents[i].available <= s.card.completed
    <2>1. s.dossier.documents[i].available <= s.request.cutoff
      BY <1>2 DEF ValidDossier, ValidItems, ValidDocument, TemporalCutoff, ValidResearch
    <2> QED BY <1>1, <1>3, <2>1
  <1>5. ASSUME NEW x \in s.bundle.facts PROVE x.available <= s.card.completed
    <2>1. x.available <= s.bundle.cutoff /\ s.bundle.cutoff <= s.card.completed
      BY <1>2 DEF ValidBundle, ValidCard
    <2> QED BY <1>1, <2>1
  <1>6. \A t \in EvidenceInstants(s) : t \in Nat /\ t <= s.card.completed
    BY <1>1, <1>4, <1>5 DEF EvidenceInstants
  <1> HIDE DEF EvidenceInstants
  <1> QED BY <1>1, <1>6 DEF DecisionRow, IsDecision

\* A published row stays as it is, at its sequence number.
PublishedStay ==
  \A i \in DOMAIN decisions : decisions[i].published =>
    i \in DOMAIN decisions' /\ decisions'[i] = decisions[i]

LEMMA PublishedForm ==
  ASSUME NEW row, IsDecision(row), NEW v
  PROVE  [row EXCEPT !.published = v] =
           [run |-> row.run, symbol |-> row.symbol, as_of |-> row.as_of, created |-> row.created,
            stamps |-> row.stamps, published |-> v, evidence |-> row.evidence]
  <1>1. PICK run, symbol, as_of, created, stamps, published, evidence :
          row = [run |-> run, symbol |-> symbol, as_of |-> as_of, created |-> created,
                 stamps |-> stamps, published |-> published, evidence |-> evidence]
    BY DEF IsDecision
  <1> QED BY <1>1

LEMMA DecidedStep ==
  ASSUME RecallInvariant, [Next]_vars
  PROVE  Decided' /\ PublishedStay
  <1>1. /\ decisions \in Seq(Range(decisions))
        /\ DOMAIN decisions = 1 .. Len(decisions) /\ Len(decisions) \in Nat
        /\ \A i \in DOMAIN decisions : IsDecision(decisions[i])
    BY DEF RecallInvariant, Memory, Decided, Range
  <1>2. ASSUME NEW r \in Runs, StageDecision(r) PROVE Decided' /\ PublishedStay
    <2> DEFINE row == work[r].row
    <2>1. IsDecision(row)
      BY <1>2 DEF StageDecision, At, RecallInvariant, RecallForm
    <2>2. CASE decisions' = decisions
      BY <1>1, <2>2 DEF PublishedStay, RecallInvariant, Memory, Decided
    <2>3. CASE decisions' = Append(decisions, row)
      <3> DEFINE A == Range(decisions) \cup {row}
      <3>1. decisions' \in Seq(A)
        BY <1>1, <2>3
      <3>2. decisions' \in Seq(Range(decisions')) /\ Range(decisions') \subseteq A
        <4> HIDE DEF A
        <4> QED BY <3>1, SeqRange
      <3>3. \A x \in A : IsDecision(x)
        BY <2>1 DEF RecallInvariant, Memory, Decided
      <3>4. PublishedStay
        BY <1>1, <2>3 DEF PublishedStay
      <3> QED BY <3>2, <3>3, <3>4 DEF Decided
    <2> QED BY <1>2, <2>2, <2>3 DEF StageDecision, StagedIn
  <1>3. ASSUME NEW r \in Runs, PublishDecision(r) PROVE Decided' /\ PublishedStay
    <2> DEFINE new(row) == IF row.run = r THEN [row EXCEPT !.published = TRUE] ELSE row
    <2>1. decisions' = [i \in DOMAIN decisions |-> new(decisions[i])]
      BY <1>3 DEF PublishDecision, PublishedIn
    <2>2. ASSUME NEW i \in DOMAIN decisions
          PROVE  IsDecision(new(decisions[i])) /\ (decisions[i].published => new(decisions[i]) = decisions[i])
      <3>1. IsDecision(decisions[i])
        BY <1>1
      <3> DEFINE row == decisions[i]
      <3>2. [row EXCEPT !.published = TRUE] =
              [run |-> row.run, symbol |-> row.symbol, as_of |-> row.as_of, created |-> row.created,
               stamps |-> row.stamps, published |-> TRUE, evidence |-> row.evidence]
        BY <3>1, PublishedForm
      <3>3. row.published => row.published = TRUE
        BY <3>1 DEF IsDecision
      <3> QED BY <3>1, <3>2, <3>3 DEF IsDecision
    <2> DEFINE A == {new(decisions[i]) : i \in DOMAIN decisions}
    <2>3. decisions' \in Seq(A)
      <3> HIDE DEF new
      <3> QED BY <1>1, <2>1
    <2>4. decisions' \in Seq(Range(decisions')) /\ Range(decisions') \subseteq A
      <3> HIDE DEF A
      <3> QED BY <2>3, SeqRange
    <2>5. \A x \in A : IsDecision(x)
      <3> HIDE DEF new
      <3> QED BY <2>2
    <2>6. PublishedStay
      <3> HIDE DEF new
      <3> QED BY <2>1, <2>2 DEF PublishedStay
    <2> HIDE DEF A
    <2> QED BY <2>4, <2>5, <2>6 DEF Decided
  <1>4. CASE UNCHANGED decisions
    BY <1>1, <1>4 DEF PublishedStay, RecallInvariant, Memory, Decided
  <1> QED BY <1>2, <1>3, <1>4
          DEF Next, Plan, RecallOthers, Collect, Submit, StageQuality, PublishQuality,
              Review, AppendOutcome, vars

LEMMA MemoryStep ==
  ASSUME RecallInvariant, [Next]_vars
  PROVE  Memory' /\ PublishedStay
  <1>1. ASSUME NEW row, NEW instant, Review(row, instant) PROVE reviews' \in Seq(Range(reviews'))
    <2> DEFINE o == [run |-> row.run, observed |-> instant]
               A == Range(reviews) \cup {o}
    <2>1. reviews' \in Seq(A)
      BY <1>1 DEF Review, RecallInvariant, Memory
    <2> HIDE DEF A
    <2> QED BY <2>1, SeqRange
  <1>2. ASSUME reviews' = reviews PROVE reviews' \in Seq(Range(reviews'))
    <2>1. reviews \in Seq(Range(reviews))
      BY DEF RecallInvariant, Memory
    <2> QED BY <1>2, <2>1
  <1>3. reviews' \in Seq(Range(reviews'))
    BY <1>1, <1>2
       DEF Next, Plan, RecallOthers, Collect, Submit, StageQuality, StageDecision, PublishQuality,
           PublishDecision, AppendOutcome, vars
  <1> QED BY <1>3, DecidedStep DEF Memory

LEMMA RecallFormStays ==
  ASSUME PublishedStay, NEW w, RecallForm(w, decisions)
  PROVE  RecallForm(w, decisions')
  <1>1. ASSUME NEW row \in PublishedRows(decisions) PROVE row \in PublishedRows(decisions')
    <2>1. PICK i \in DOMAIN decisions : decisions[i] = row
      BY DEF PublishedRows, Range
    <2>2. row.published
      BY DEF PublishedRows
    <2> QED BY <2>1, <2>2 DEF PublishedRows, PublishedStay, Range
  <1>2. \A s \in Seq(PublishedRows(decisions)) : s \in Seq(PublishedRows(decisions'))
    BY <1>1
  <1>3. ASSUME NEW entry, NEW cutoff, Known(entry, cutoff, decisions)
        PROVE  Known(entry, cutoff, decisions')
    BY <1>3 DEF PublishedStay, Known
  <1> QED BY <1>2, <1>3 DEF RecallForm

\* A step of a run that puts w in its place.
LEMMA RecallReplaced ==
  ASSUME WorkForm, RecallInvariant, Memory', PublishedStay,
         NEW r \in Runs, NEW w, RecallForm(w, decisions'), work' = [work EXCEPT ![r] = w]
  PROVE  RecallInvariant'
  <1> SUFFICES ASSUME NEW x \in Runs PROVE RecallForm(work'[x], decisions')
    BY DEF RecallInvariant
  <1>1. work'[x] = IF x = r THEN w ELSE work[x]
    BY DEF WorkForm
  <1>2. RecallForm(work[x], decisions')
    BY RecallFormStays DEF RecallInvariant
  <1> QED BY <1>1, <1>2

LEMMA RecallStep ==
  ASSUME WorkForm, RecallInvariant, [Next]_vars
  PROVE  RecallInvariant'
  <1>1. Memory' /\ PublishedStay
    BY MemoryStep
  <1>2. ASSUME NEW r \in Runs, Plan(r) PROVE RecallInvariant'
    <2>1. PICK q \in CandidateRequests(r) :
            /\ work' = [work EXCEPT ![r] =
                 [step |-> "recalling", request |-> q, rows |-> SameSymbol(decisions, q.symbol)]]
            /\ decisions' = decisions
      BY <1>2 DEF Plan
    <2> DEFINE w == [step |-> "recalling", request |-> q, rows |-> SameSymbol(decisions, q.symbol)]
    <2>2. RecallForm(w, decisions)
      BY StatementRows DEF RecallForm
    <2>3. RecallForm(w, decisions') /\ work' = [work EXCEPT ![r] = w]
      BY <2>1, <2>2
    <2> HIDE DEF w
    <2> QED BY <1>1, <2>3, RecallReplaced
  <1>3. ASSUME NEW r \in Runs, RecallOthers(r) PROVE RecallInvariant'
    <2> DEFINE q == work[r].request
               same == VisibleEntries(work[r].rows, reviews, SameLimit, q.cutoff)
               others == CrossSymbol(decisions, q.symbol)
               cross == VisibleEntries(others, reviews, CrossLimit, q.cutoff)
               w == [step |-> "planned", request |-> q, same |-> same, cross |-> cross]
    <2>1. q.cutoff \in Nat
      BY <1>3, CandidatesAssumption DEF RecallOthers, At, WorkForm, RunForm
    <2>2. work[r].rows \in Seq(PublishedRows(decisions)) /\ others \in Seq(PublishedRows(decisions))
      BY <1>3, StatementRows DEF RecallOthers, At, RecallInvariant, RecallForm
    <2>3. work' = [work EXCEPT ![r] = w] /\ decisions' = decisions
      BY <1>3 DEF RecallOthers
    <2> HIDE DEF others
    <2>4. \A entry \in Range(same) : Known(entry, q.cutoff, decisions)
      BY <2>1, <2>2, EntriesAreKnown
    <2>5. \A entry \in Range(cross) : Known(entry, q.cutoff, decisions)
      BY <2>1, <2>2, EntriesAreKnown
    <2> HIDE DEF same, cross
    <2>6. RecallForm(w, decisions)
      BY <2>4, <2>5 DEF RecallForm
    <2> HIDE DEF w
    <2> QED BY <1>1, <2>3, <2>6, RecallReplaced
  <1>4. ASSUME NEW r \in Runs, StageQuality(r) PROVE RecallInvariant'
    <2> DEFINE s == work[r].submission
               w == [step |-> "quality_staged", row |-> DecisionRow(r, s), forecasts |-> s.forecasts]
    <2>1. IsDecision(DecisionRow(r, s))
      BY <1>4, SubmittedRow DEF StageQuality, At, WorkForm, RunForm
    <2>2. work' = [work EXCEPT ![r] = w] /\ decisions' = decisions
      BY <1>4 DEF StageQuality
    <2>3. RecallForm(w, decisions)
      BY <2>1 DEF RecallForm
    <2> HIDE DEF w
    <2> QED BY <1>1, <2>2, <2>3, RecallReplaced
  <1>5. ASSUME NEW r \in Runs, NEW w, work' = [work EXCEPT ![r] = w],
               w.step \in {"collected", "submitted", "memory_staged", "quality_published", "memory_published"}
        PROVE  RecallInvariant'
    BY <1>1, <1>5, RecallReplaced DEF RecallForm
  <1>6. ASSUME NEW r \in Runs, Collect(r) \/ Submit(r) \/ StageDecision(r) PROVE RecallInvariant'
    BY <1>5, <1>6 DEF Collect, Submit, StageDecision
  <1>7. ASSUME NEW r \in Runs, PublishQuality(r) \/ PublishDecision(r) PROVE RecallInvariant'
    <2>1. work[r] = [step |-> work[r].step, forecasts |-> work[r].forecasts]
      BY <1>7 DEF PublishQuality, PublishDecision, At, WorkForm, RunForm, Registering
    <2>2. PICK step \in {"quality_published", "memory_published"} :
            work' = [work EXCEPT ![r] = [work[r] EXCEPT !.step = step]]
      BY <1>7 DEF PublishQuality, PublishDecision, WorkForm
    <2>3. [work[r] EXCEPT !.step = step].step = step
      BY <2>1
    <2> QED BY <1>5, <2>2, <2>3
  <1>8. CASE UNCHANGED <<work, decisions>>
    BY <1>1, <1>8 DEF RecallInvariant
  <1> QED BY <1>2, <1>3, <1>4, <1>6, <1>7, <1>8 DEF Next, Review, AppendOutcome, vars

LEMMA InitRecall == Init => RecallInvariant
  <1> SUFFICES ASSUME Init PROVE RecallInvariant
    OBVIOUS
  <1>1. decisions = EarlierDecisions /\ reviews = <<>>
    BY DEF Init
  <1>2. <<>> \in Seq(Range(<<>>))
    OBVIOUS
  <1>3. Memory
    BY <1>1, <1>2, EarlierAssumption DEF Memory, Decided
  <1>4. \A r \in Runs : RecallForm(work[r], decisions)
    BY DEF Init, NotStarted, RecallForm
  <1> QED BY <1>3, <1>4 DEF RecallInvariant

\* No look-ahead in memory: what a run recalls had been decided by its cutoff,
\* its documents and facts were available and its outcomes observed by then,
\* however late it was published and reviewed.
THEOREM RecallsKnown == Spec => []RecallNeverLooksAhead
  <1>1. Init => WorkForm /\ RecallInvariant
    BY InitWorkForm, InitRecall
  <1>2. WorkForm /\ RecallInvariant /\ [Next]_vars => (WorkForm /\ RecallInvariant)'
    BY WorkFormStep, RecallStep
  <1>3. RecallInvariant => RecallNeverLooksAhead
    BY DEF RecallInvariant, RecallForm, Known, RecallNeverLooksAhead, At
  <1> QED BY <1>1, <1>2, <1>3, PTL DEF Spec

-----------------------------------------------------------------------------
(* Sorting: in a strict total order of a finite set, each rank occurs once.  *)

StrictlyOrders(R, T) ==
  /\ \A x \in T : <<x, x>> \notin R
  /\ \A x, y, z \in T : <<x, y>> \in R /\ <<y, z>> \in R => <<x, z>> \in R
  /\ \A x, y \in T : x = y \/ <<x, y>> \in R \/ <<y, x>> \in R

Before(T, R, x) == {y \in T : <<y, x>> \in R}

LEMMA RankType ==
  ASSUME NEW T, IsFiniteSet(T), NEW R, StrictlyOrders(R, T), NEW x \in T
  PROVE  IsFiniteSet(Before(T, R, x)) /\ Cardinality(Before(T, R, x)) \in 0 .. Cardinality(T) - 1
  <1> DEFINE B == Before(T, R, x)
  <1>1. B \in SUBSET (T \ {x})
    BY DEF Before, StrictlyOrders
  <1>2. IsFiniteSet(T \ {x}) /\ Cardinality(T \ {x}) = Cardinality(T) - 1
    BY FS_RemoveElement
  <1> HIDE DEF B
  <1>3. IsFiniteSet(B) /\ Cardinality(B) <= Cardinality(T) - 1
    BY <1>1, <1>2, FS_Subset
  <1>4. Cardinality(B) \in Nat /\ Cardinality(T) \in Nat
    BY <1>3, FS_CardinalityType
  <1> QED BY <1>3, <1>4 DEF B

LEMMA RankIncreases ==
  ASSUME NEW T, IsFiniteSet(T), NEW R, StrictlyOrders(R, T),
         NEW x \in T, NEW y \in T, <<x, y>> \in R
  PROVE  Cardinality(Before(T, R, x)) < Cardinality(Before(T, R, y))
  <1> DEFINE B == Before(T, R, x)
             C == Before(T, R, y)
  <1>1. x \notin B /\ B \cup {x} \in SUBSET C
    BY DEF Before, StrictlyOrders
  <1>2. IsFiniteSet(B) /\ IsFiniteSet(C)
    BY RankType
  <1> HIDE DEF B, C
  <1>3. Cardinality(B \cup {x}) = Cardinality(B) + 1
    BY <1>1, <1>2, FS_AddElement
  <1>4. Cardinality(B \cup {x}) <= Cardinality(C)
    BY <1>1, <1>2, FS_Subset
  <1>5. Cardinality(B) \in Nat /\ Cardinality(C) \in Nat
    BY <1>2, FS_CardinalityType
  <1> QED BY <1>3, <1>4, <1>5 DEF B, C

LEMMA RankOccurs ==
  ASSUME NEW T, IsFiniteSet(T), NEW R, StrictlyOrders(R, T), NEW i \in 1 .. Cardinality(T)
  PROVE  \E x \in T : Cardinality(Before(T, R, x)) = i - 1
  <1> DEFINE n == Cardinality(T)
             f == [x \in T |-> Cardinality(Before(T, R, x))]
  <1>1. n \in Nat
    BY FS_CardinalityType
  <1>2. f \in [T -> 0 .. n - 1]
    BY RankType
  <1>3. \A x, y \in T : f[x] = f[y] => x = y
    <2> SUFFICES ASSUME NEW x \in T, NEW y \in T, f[x] = f[y], x # y PROVE FALSE
      OBVIOUS
    <2>1. <<x, y>> \in R \/ <<y, x>> \in R
      BY DEF StrictlyOrders
    <2>2. f[x] \in Nat /\ f[y] \in Nat
      BY <1>1, <1>2
    <2>3. f[x] < f[y] \/ f[y] < f[x]
      BY <2>1, RankIncreases
    <2> QED BY <2>2, <2>3
  <1> HIDE DEF f
  <1>4. f \in Injection(T, 0 .. n - 1)
    BY <1>2, <1>3 DEF Injection, IsInjective
  <1>5. IsFiniteSet(0 .. n - 1) /\ Cardinality(0 .. n - 1) = n
    <2> HIDE DEF n
    <2>1. 0 \in Int /\ n - 1 \in Int
      BY <1>1
    <2> QED BY <1>1, <2>1, FS_Interval
  <1>6. f \in Surjection(T, 0 .. n - 1)
    BY <1>4, <1>5, FS_Injection
  <1>7. i - 1 \in 0 .. n - 1
    BY <1>1
  <1>8. PICK x \in T : f[x] = i - 1
    BY <1>6, <1>7 DEF Surjection
  <1> QED BY <1>8 DEF f

LEMMA FunctionIsSeq ==
  ASSUME NEW T, NEW n \in Nat, NEW s \in [1 .. n -> T]
  PROVE  s \in Seq(T) /\ Len(s) = n /\ DOMAIN s = 1 .. n
  OBVIOUS

\* A sequence that holds each element of a set once, in order.
Lists(s, T, R) ==
  /\ s \in Seq(T)
  /\ \A x \in T : \E i \in DOMAIN s : s[i] = x
  /\ \A i, j \in DOMAIN s : i < j => <<s[i], s[j]>> \in R

LEMMA Listed ==
  ASSUME NEW T, IsFiniteSet(T), NEW R, StrictlyOrders(R, T),
         NEW s \in [1 .. Cardinality(T) -> T],
         \A i \in 1 .. Cardinality(T) : Cardinality(Before(T, R, s[i])) = i - 1
  PROVE  Lists(s, T, R) /\ Len(s) = Cardinality(T)
  <1> DEFINE n == Cardinality(T)
  <1>1. n \in Nat
    BY FS_CardinalityType
  <1> HIDE DEF n
  <1>2. s \in [1 .. n -> T]
    BY DEF n
  <1>3. s \in Seq(T) /\ Len(s) = n /\ DOMAIN s = 1 .. n
    BY <1>1, <1>2, FunctionIsSeq
  <1>4. ASSUME NEW x \in T PROVE \E i \in 1 .. n : s[i] = x
    <2> DEFINE r == Cardinality(Before(T, R, x))
    <2>1. r \in 0 .. n - 1
      BY RankType DEF n
    <2> HIDE DEF r
    <2>2. r + 1 \in 1 .. n /\ (r + 1) - 1 = r
      BY <1>1, <2>1
    <2>3. s[r + 1] \in T /\ Cardinality(Before(T, R, s[r + 1])) = r
      BY <2>2 DEF n
    <2>4. s[r + 1] = x
      <3> SUFFICES ASSUME s[r + 1] # x PROVE FALSE
        OBVIOUS
      <3>1. <<s[r + 1], x>> \in R \/ <<x, s[r + 1]>> \in R
        BY <2>3 DEF StrictlyOrders
      <3>2. r < r
        BY <2>3, <3>1, RankIncreases DEF r
      <3> QED BY <2>1, <3>2
    <2> QED BY <2>2, <2>4
  <1>5. ASSUME NEW i \in 1 .. n, NEW j \in 1 .. n, i < j PROVE <<s[i], s[j]>> \in R
    <2>1. /\ s[i] \in T /\ Cardinality(Before(T, R, s[i])) = i - 1
          /\ s[j] \in T /\ Cardinality(Before(T, R, s[j])) = j - 1
      BY DEF n
    <2>2. s[i] # s[j]
      BY <1>1, <1>5, <2>1
    <2>3. ASSUME <<s[j], s[i]>> \in R PROVE FALSE
      <3>1. j - 1 < i - 1
        BY <2>1, <2>3, RankIncreases
      <3> QED BY <1>1, <1>5, <3>1
    <2> QED BY <2>1, <2>2, <2>3 DEF StrictlyOrders
  <1> QED BY <1>3, <1>4, <1>5 DEF Lists, n

\* The registered routes, in the order of their identifiers.
RouteOrder == {p \in Routes \X Routes : p[1].id < p[2].id}

LEMMA RoutesListed ==
  /\ Lists(InRouteOrder(Routes), Routes, RouteOrder)
  /\ Len(InRouteOrder(Routes)) = Cardinality(Routes) /\ Cardinality(Routes) \in Nat
  <1> DEFINE s == InRouteOrder(Routes)
             n == Cardinality(Routes)
  <1>1. IsFiniteSet(Routes) /\ n \in Nat
    BY HistoryAssumption, FS_CardinalityType
  <1>2. StrictlyOrders(RouteOrder, Routes)
    <2>1. \A r, q \in Routes : r.id \in Nat /\ (r.id = q.id => r = q)
      BY HistoryAssumption
    <2> QED BY <2>1 DEF StrictlyOrders, RouteOrder
  <1>3. \A r \in Routes : Before(Routes, RouteOrder, r) = {q \in Routes : q.id < r.id}
    BY DEF Before, RouteOrder
  <1>4. ASSUME NEW i \in 1 .. n
        PROVE  s[i] \in Routes /\ Cardinality(Before(Routes, RouteOrder, s[i])) = i - 1
    <2>1. s[i] = CHOOSE r \in Routes : Cardinality({q \in Routes : q.id < r.id}) = i - 1
      BY DEF InRouteOrder, InOrder
    <2>2. PICK r \in Routes : Cardinality(Before(Routes, RouteOrder, r)) = i - 1
      BY <1>1, <1>2, RankOccurs
    <2>3. \E q \in Routes : Cardinality({x \in Routes : x.id < q.id}) = i - 1
      BY <1>3, <2>2
    <2>4. s[i] \in Routes /\ Cardinality({q \in Routes : q.id < s[i].id}) = i - 1
      <3> HIDE DEF s
      <3> QED BY <2>1, <2>3
    <2> HIDE DEF s
    <2> QED BY <1>3, <2>4
  <1>5. s \in [1 .. n -> Routes]
    <2> DEFINE e(i) == CHOOSE r \in Routes : Cardinality({q \in Routes : q.id < r.id}) = i - 1
    <2>1. s = [i \in 1 .. n |-> e(i)]
      BY DEF InRouteOrder, InOrder
    <2>2. \A i \in 1 .. n : s[i] \in Routes /\ s[i] = e(i)
      BY <1>4, <2>1
    <2> HIDE DEF e, s
    <2> QED BY <2>1, <2>2
  <1> HIDE DEF s
  <1> QED BY <1>1, <1>2, <1>4, <1>5, Listed DEF s

-----------------------------------------------------------------------------
(* The attempts of a collection: one of each route, in order                *)

\* What a route may leave behind: a failure, or a batch that could be built
\* and answers the query.
AttemptsAt(r, answer, query) ==
  {[route |-> r, status |-> status, batch |-> NoBatch] : status \in {"error", "invalid_response"}}
  \cup {[route |-> r, status |-> b.status, batch |-> b] :
          b \in {x \in {answer} : x # Raises /\ Constructible(x) /\ Answers(x, query)}}

LEMMA AttemptedIn ==
  ASSUME NEW r, NEW answer, NEW query, NEW held
  PROVE  Attempted(r, answer, query, held) \in AttemptsAt(r, answer, query)
  BY DEF Attempted, AttemptsAt

CountSteps(done, s) ==
  /\ done[0] = 0 /\ done[Len(s)] = ItemCount(s)
  /\ \A k \in 1 .. Len(s) :
       done[k] = IF Retained(s[k]) THEN done[k - 1] + Cardinality(s[k].batch.items) ELSE done[k - 1]

LEMMA CountUnrolls ==
  ASSUME NEW A, NEW s \in Seq(A), \A a \in A : Retained(a) => IsFiniteSet(a.batch.items)
  PROVE  \E done \in [0 .. Len(s) -> Nat] : CountSteps(done, s)
  <1> DEFINE n == Len(s)
             Add(c, a) == IF Retained(a) THEN c + Cardinality(a.batch.items) ELSE c
             Step(x, f) == IF x = {} THEN 0 ELSE Add(f[x \ {Max(x)}], s[Max(x)])
             Solves(f) == f = [x \in SUBSET (1 .. n) |-> Step(x, f)]
             G == [p \in (1 .. n) \X Nat |-> Add(p[2], s[p[1]])]
  <1>1. n \in Nat /\ DOMAIN s = 1 .. n /\ \A i \in 1 .. n : s[i] \in A
    OBVIOUS
  <1> HIDE DEF n
  <1>2. G \in [(1 .. n) \X Nat -> Nat]
    <2>1. ASSUME NEW i \in 1 .. n, NEW c \in Nat PROVE Add(c, s[i]) \in Nat
      <3>1. Retained(s[i]) => Cardinality(s[i].batch.items) \in Nat
        BY <1>1, FS_CardinalityType
      <3> QED BY <3>1
    <2> HIDE DEF Add
    <2> QED BY <2>1
  <1>3. \A i \in 1 .. n, c \in Nat : G[<<i, c>>] = Add(c, s[i])
    <2> HIDE DEF Add
    <2> QED OBVIOUS
  <1> HIDE DEF G
  <1>4. PICK f \in [SUBSET (1 .. n) -> Nat] : FoldsTo(f, n, 0, G)
    <2>1. 0 \in Nat
      OBVIOUS
    <2> QED BY <1>1, <1>2, <2>1, FoldExists
  <1>5. ASSUME NEW x \in SUBSET (1 .. n) PROVE f[x] = Step(x, f)
    <2>1. x # {} => Max(x) \in 1 .. n
      BY <1>1, MaxIsIn
    <2>2. x \ {Max(x)} \in SUBSET (1 .. n)
      OBVIOUS
    <2> HIDE DEF Add
    <2> QED BY <1>3, <1>4, <2>1, <2>2 DEF FoldsTo
  <1>6. Solves(f)
    <2> HIDE DEF Step
    <2> QED BY <1>5
  <1> DEFINE iter == CHOOSE g : Solves(g)
  <1>7. Solves(iter)
    <2> HIDE DEF Solves
    <2> QED BY <1>6
  <1>8. ItemCount(s) = iter[1 .. n]
    BY <1>1 DEF ItemCount, FoldLeft, MapThenFoldSet
  <1>9. \A x \in SUBSET (1 .. n) : iter[x] = Step(x, iter)
    <2> HIDE DEF iter, Step
    <2> QED BY <1>7
  <1> HIDE DEF iter, Add
  <1>10. iter[{}] = 0
    BY <1>9
  <1>11. ASSUME NEW x \in SUBSET (1 .. n), x # {}, iter[x \ {Max(x)}] \in Nat
         PROVE  iter[x] = G[<<Max(x), iter[x \ {Max(x)}]>>]
    BY <1>1, <1>3, <1>9, <1>11, MaxIsIn
  <1>12. Iterates(iter, n, Nat, 0, G)
    BY <1>10, <1>11 DEF Iterates
  <1>13. PICK done : PrefixValues(done, n, Nat, 0, G, iter[1 .. n])
    <2>1. 0 \in Nat
      OBVIOUS
    <2> QED BY <1>1, <1>2, <1>12, <2>1, Unrolls
  <1>14. ASSUME NEW k \in 1 .. n PROVE done[k] = Add(done[k - 1], s[k])
    <2>1. k - 1 \in 0 .. n
      BY <1>1
    <2>2. done[k - 1] \in Nat
      BY <1>13, <2>1 DEF PrefixValues
    <2> QED BY <1>3, <1>13, <2>2 DEF PrefixValues
  <1>15. CountSteps(done, s)
    BY <1>8, <1>13, <1>14 DEF CountSteps, PrefixValues, n, Add
  <1> QED BY <1>13, <1>15 DEF PrefixValues, n

LEMMA CountAppend ==
  ASSUME NEW A, NEW s \in Seq(A), NEW b \in A, \A a \in A : Retained(a) => IsFiniteSet(a.batch.items)
  PROVE  /\ ItemCount(s) \in Nat
         /\ ItemCount(Append(s, b)) = IF Retained(b) THEN ItemCount(s) + Cardinality(b.batch.items)
                                      ELSE ItemCount(s)
  <1> DEFINE n == Len(s)
             t == Append(s, b)
  <1>1. n \in Nat /\ t \in Seq(A) /\ Len(t) = n + 1 /\ t[n + 1] = b /\ \A i \in 1 .. n : t[i] = s[i]
    OBVIOUS
  <1>2. PICK c \in [0 .. n -> Nat] : CountSteps(c, s)
    BY CountUnrolls
  <1>3. PICK d \in [0 .. Len(t) -> Nat] : CountSteps(d, t)
    BY <1>1, CountUnrolls
  <1> HIDE DEF t, n
  <1> DEFINE T == {k \in Nat : k <= n => c[k] = d[k]}
  <1>4. 0 \in T
    BY <1>2, <1>3 DEF CountSteps
  <1>5. ASSUME NEW k \in Nat, k \in T PROVE k + 1 \in T
    <2> SUFFICES ASSUME k + 1 <= n PROVE c[k + 1] = d[k + 1]
      OBVIOUS
    <2>1. k + 1 \in 1 .. n /\ k + 1 \in 1 .. Len(t) /\ (k + 1) - 1 = k /\ c[k] = d[k]
      <3>1. n \in Nat /\ Len(t) = n + 1
        BY <1>1
      <3>2. c[k] = d[k]
        BY <1>5, <3>1
      <3> QED BY <3>1, <3>2
    <2>2. c[k + 1] = IF Retained(s[k + 1]) THEN c[k] + Cardinality(s[k + 1].batch.items) ELSE c[k]
      BY <1>2, <2>1 DEF CountSteps, n
    <2>3. d[k + 1] = IF Retained(t[k + 1]) THEN d[k] + Cardinality(t[k + 1].batch.items) ELSE d[k]
      BY <1>3, <2>1 DEF CountSteps
    <2>4. t[k + 1] = s[k + 1]
      BY <1>1, <2>1
    <2>5. c[k] = d[k]
      BY <2>1
    <2> HIDE DEF T
    <2> QED BY <2>2, <2>3, <2>4, <2>5
  <1>6. c[n] = d[n]
    <2>1. n \in T
      <3> HIDE DEF T
      <3> QED BY <1>1, <1>4, <1>5, AllNat
    <2> QED BY <1>1, <2>1
  <1>7. ItemCount(s) = c[n] /\ c[n] \in Nat
    <2>1. n \in 0 .. n
      BY <1>1
    <2> QED BY <1>2, <2>1 DEF CountSteps, n
  <1>8. ItemCount(t) = IF Retained(b) THEN d[n] + Cardinality(b.batch.items) ELSE d[n]
    <2>1. n + 1 \in 1 .. Len(t) /\ (n + 1) - 1 = n
      BY <1>1
    <2>2. ItemCount(t) = d[n + 1]
      BY <1>1, <1>3 DEF CountSteps
    <2>3. d[n + 1] = IF Retained(t[n + 1]) THEN d[n] + Cardinality(t[n + 1].batch.items) ELSE d[n]
      BY <1>3, <2>1 DEF CountSteps
    <2> QED BY <1>1, <2>2, <2>3
  <1> QED BY <1>6, <1>7, <1>8 DEF t

LEMMA CountEmpty == ItemCount(<<>>) = 0
  <1> SUFFICES ASSUME NEW A, A = {} PROVE ItemCount(<<>>) = 0
    OBVIOUS
  <1>1. <<>> \in Seq(A) /\ \A a \in A : Retained(a) => IsFiniteSet(a.batch.items)
    OBVIOUS
  <1>2. \E done \in [0 .. Len(<<>>) -> Nat] : CountSteps(done, <<>>)
    BY <1>1, CountUnrolls
  <1> QED BY <1>2 DEF CountSteps

\* What each route may have been recorded with.
AttemptSet(answer, query) == UNION {AttemptsAt(r, answer[r.id], query) : r \in Routes}

LEMMA FiniteItems ==
  ASSUME NEW answer, NEW query, NEW a \in AttemptSet(answer, query), Retained(a)
  PROVE  /\ Constructible(a.batch) /\ Answers(a.batch, query) /\ a.status = a.batch.status
         /\ IsFiniteSet(a.batch.items)
  <1>1. PICK r \in Routes : a \in AttemptsAt(r, answer[r.id], query)
    BY DEF AttemptSet
  <1>2. Constructible(a.batch) /\ Answers(a.batch, query) /\ a.status = a.batch.status
    BY <1>1 DEF AttemptsAt, Retained
  <1> QED BY <1>2 DEF Constructible

AttemptSteps(done, s, answer, query) ==
  /\ done[0] = <<>> /\ done[Len(s)] = Attempts(Routes, answer, query)
  /\ \A k \in 1 .. Len(s) :
       done[k] = Append(done[k - 1], Attempted(s[k], answer[s[k].id], query, ItemCount(done[k - 1])))

LEMMA AttemptsUnroll ==
  ASSUME NEW answer, NEW query
  PROVE  \E done \in [0 .. Cardinality(Routes) -> Seq(AttemptSet(answer, query))] :
           AttemptSteps(done, InRouteOrder(Routes), answer, query)
  <1> DEFINE s == InRouteOrder(Routes)
             n == Len(s)
             A == AttemptSet(answer, query)
             V == Seq(A)
             Add(t, r) == Append(t, Attempted(r, answer[r.id], query, ItemCount(t)))
             Step(x, f) == IF x = {} THEN <<>> ELSE Add(f[x \ {Max(x)}], s[Max(x)])
             Solves(f) == f = [x \in SUBSET (1 .. n) |-> Step(x, f)]
             G == [p \in (1 .. n) \X V |-> Add(p[2], s[p[1]])]
  <1>1. n \in Nat /\ n = Cardinality(Routes) /\ DOMAIN s = 1 .. n /\ \A i \in 1 .. n : s[i] \in Routes
    <2>1. s \in Seq(Routes) /\ Len(s) = Cardinality(Routes)
      BY RoutesListed DEF Lists
    <2> HIDE DEF s
    <2> QED BY <2>1
  <1> HIDE DEF n, s
  <1>2. G \in [(1 .. n) \X V -> V] /\ <<>> \in V
    <2>1. ASSUME NEW i \in 1 .. n, NEW t \in V PROVE Add(t, s[i]) \in V
      <3>1. Attempted(s[i], answer[s[i].id], query, ItemCount(t)) \in A
        BY <1>1, AttemptedIn DEF AttemptSet
      <3> HIDE DEF A
      <3> QED BY <3>1
    <2> HIDE DEF Add, A
    <2>2. <<>> \in V
      BY DEF V
    <2> HIDE DEF V
    <2> QED BY <2>1, <2>2
  <1> HIDE DEF A
  <1>3. \A i \in 1 .. n, t \in V : G[<<i, t>>] = Add(t, s[i])
    <2> HIDE DEF Add, V
    <2> QED OBVIOUS
  <1> HIDE DEF G, V
  <1>4. PICK f \in [SUBSET (1 .. n) -> V] : FoldsTo(f, n, <<>>, G)
    BY <1>1, <1>2, FoldExists
  <1>5. ASSUME NEW x \in SUBSET (1 .. n) PROVE f[x] = Step(x, f)
    <2>1. x # {} => Max(x) \in 1 .. n
      BY <1>1, MaxIsIn
    <2>2. x \ {Max(x)} \in SUBSET (1 .. n)
      OBVIOUS
    <2> HIDE DEF Add
    <2> QED BY <1>3, <1>4, <2>1, <2>2 DEF FoldsTo
  <1>6. Solves(f)
    <2> HIDE DEF Step
    <2> QED BY <1>5
  <1> DEFINE iter == CHOOSE g : Solves(g)
  <1>7. Solves(iter)
    <2> HIDE DEF Solves
    <2> QED BY <1>6
  <1>8. Attempts(Routes, answer, query) = iter[1 .. n]
    BY <1>1 DEF Attempts, FoldLeft, MapThenFoldSet, s
  <1>9. \A x \in SUBSET (1 .. n) : iter[x] = Step(x, iter)
    <2> HIDE DEF iter, Step
    <2> QED BY <1>7
  <1> HIDE DEF iter, Add
  <1>10. iter[{}] = <<>>
    BY <1>9
  <1>11. ASSUME NEW x \in SUBSET (1 .. n), x # {}, iter[x \ {Max(x)}] \in V
         PROVE  iter[x] = G[<<Max(x), iter[x \ {Max(x)}]>>]
    <2>1. Max(x) \in 1 .. n
      BY <1>1, <1>11, MaxIsIn
    <2>2. iter[x] = Add(iter[x \ {Max(x)}], s[Max(x)])
      BY <1>9, <1>11
    <2> QED BY <1>3, <1>11, <2>1, <2>2
  <1>12. Iterates(iter, n, V, <<>>, G)
    BY <1>10, <1>11 DEF Iterates
  <1>13. PICK done : PrefixValues(done, n, V, <<>>, G, iter[1 .. n])
    BY <1>1, <1>2, <1>12, Unrolls
  <1>14. ASSUME NEW k \in 1 .. n PROVE done[k] = Add(done[k - 1], s[k])
    <2>1. k - 1 \in 0 .. n
      BY <1>1
    <2>2. done[k - 1] \in V
      BY <1>13, <2>1 DEF PrefixValues
    <2> QED BY <1>3, <1>13, <2>2 DEF PrefixValues
  <1>15. AttemptSteps(done, s, answer, query)
    BY <1>8, <1>13, <1>14 DEF AttemptSteps, PrefixValues, n, Add
  <1> QED BY <1>1, <1>13, <1>15 DEF PrefixValues, V, A, s

\* One attempt of each route, in order, and no more observations than allowed.
AttemptsForm(attempts, answer, query) ==
  LET s == InRouteOrder(Routes)
  IN  /\ attempts \in Seq(AttemptSet(answer, query)) /\ Len(attempts) = Len(s)
      /\ \A i \in 1 .. Len(s) : attempts[i] \in AttemptsAt(s[i], answer[s[i].id], query)
      /\ ItemCount(attempts) \in Nat /\ ItemCount(attempts) <= MaxObservations

LEMMA AttemptsTaken ==
  ASSUME NEW answer, NEW query
  PROVE  AttemptsForm(Attempts(Routes, answer, query), answer, query)
  <1> DEFINE s == InRouteOrder(Routes)
             A == AttemptSet(answer, query)
             Option(i) == AttemptsAt(s[i], answer[s[i].id], query)
  <1>1. PICK n \in Nat : n = Cardinality(Routes) /\ Len(s) = n /\ \A i \in 1 .. n : s[i] \in Routes
    <2>1. s \in Seq(Routes) /\ Len(s) = Cardinality(Routes)
      BY RoutesListed DEF Lists
    <2> HIDE DEF s
    <2> QED BY <2>1
  <1>2. PICK done \in [0 .. n -> Seq(A)] : AttemptSteps(done, s, answer, query)
    BY <1>1, AttemptsUnroll
  <1> HIDE DEF A, s
  <1> DEFINE Good(k) == /\ done[k] \in Seq(A) /\ Len(done[k]) = k
                        /\ \A i \in 1 .. k : done[k][i] \in Option(i)
                        /\ ItemCount(done[k]) \in Nat /\ ItemCount(done[k]) <= MaxObservations
             T == {k \in Nat : k <= n => Good(k)}
  <1>3. Good(0)
    <2>1. done[0] = <<>> /\ ItemCount(done[0]) = 0
      BY <1>2, CountEmpty DEF AttemptSteps
    <2>2. <<>> \in Seq(A) /\ Len(<<>>) = 0
      OBVIOUS
    <2>3. MaxObservations \in Nat
      BY HistoryAssumption
    <2> QED BY <2>1, <2>2, <2>3
  <1>4. ASSUME NEW k \in Nat, k + 1 <= n, Good(k) PROVE Good(k + 1)
    <2> DEFINE t == done[k]
               a == Attempted(s[k + 1], answer[s[k + 1].id], query, ItemCount(t))
    <2>1. k + 1 \in 1 .. n /\ (k + 1) - 1 = k /\ s[k + 1] \in Routes
      BY <1>1, <1>4
    <2>2. done[k + 1] = Append(t, a)
      BY <1>1, <1>2, <2>1 DEF AttemptSteps
    <2>3. a \in Option(k + 1)
      BY AttemptedIn
    <2>4. a \in A
      BY <2>1, <2>3 DEF A, AttemptSet
    <2>5. \A b \in A : Retained(b) => IsFiniteSet(b.batch.items)
      BY FiniteItems DEF A
    <2>6. t \in Seq(A) /\ Len(t) = k /\ ItemCount(t) \in Nat /\ ItemCount(t) <= MaxObservations
          /\ \A i \in 1 .. k : t[i] \in Option(i)
      BY <1>4
    <2>7. Retained(a) => ~ (ItemCount(t) + Cardinality(a.batch.items) > MaxObservations)
      BY DEF Attempted, Retained
    <2>8. Retained(a) => Cardinality(a.batch.items) \in Nat
      BY <2>4, <2>5, FS_CardinalityType
    <2>9. MaxObservations \in Nat
      BY HistoryAssumption
    <2> HIDE DEF a, t, Option
    <2>10. ItemCount(Append(t, a)) = IF Retained(a) THEN ItemCount(t) + Cardinality(a.batch.items) ELSE ItemCount(t)
      BY <2>4, <2>5, <2>6, CountAppend
    <2>11. ItemCount(done[k + 1]) \in Nat /\ ItemCount(done[k + 1]) <= MaxObservations
      BY <2>2, <2>6, <2>7, <2>8, <2>9, <2>10
    <2>12. /\ Append(t, a) \in Seq(A) /\ Len(Append(t, a)) = k + 1
           /\ Append(t, a)[k + 1] = a /\ \A i \in 1 .. k : Append(t, a)[i] = t[i]
      BY <2>4, <2>6
    <2>13. \A i \in 1 .. k + 1 : Append(t, a)[i] \in Option(i)
      <3>1. \A i \in 1 .. k + 1 : i \in 1 .. k \/ i = k + 1
        OBVIOUS
      <3> QED BY <2>3, <2>6, <2>12, <3>1
    <2> QED BY <2>2, <2>11, <2>12, <2>13
  <1> HIDE DEF Good
  <1>5. n \in T
    <2>1. 0 \in T
      BY <1>3
    <2>2. \A k \in Nat : k \in T => k + 1 \in T
      BY <1>4
    <2> HIDE DEF T
    <2> QED BY <2>1, <2>2, AllNat
  <1>6. Good(n)
    BY <1>5
  <1>7. done[n] = Attempts(Routes, answer, query)
    BY <1>1, <1>2 DEF AttemptSteps
  <1> QED BY <1>1, <1>6, <1>7 DEF Good, AttemptsForm, A, s

\* What a route is recorded with could be built and answers the query.
LEMMA AttemptsAnswer ==
  ASSUME NEW answer, NEW query, NEW a \in Range(Attempts(Routes, answer, query)), Retained(a)
  PROVE  Constructible(a.batch) /\ Answers(a.batch, query) /\ a.status = a.batch.status
  <1> DEFINE A == AttemptSet(answer, query)
  <1>1. Attempts(Routes, answer, query) \in Seq(A)
    BY AttemptsTaken DEF AttemptsForm
  <1>2. a \in A
    <2> HIDE DEF A
    <2> QED BY <1>1, SeqRange
  <1> QED BY <1>2, FiniteItems

\* Every attempt is one of the route at its place.
LEMMA AttemptsAreOfRoutes ==
  ASSUME NEW answer, NEW query, NEW attempts, attempts = Attempts(Routes, answer, query)
  PROVE  /\ DOMAIN attempts = 1 .. Cardinality(Routes)
         /\ \A i \in DOMAIN attempts : attempts[i].route \in Routes
         /\ \A i, j \in DOMAIN attempts : i < j => attempts[i].route.id < attempts[j].route.id
  <1> DEFINE s == InRouteOrder(Routes)
  <1>1. /\ s \in Seq(Routes) /\ Len(s) = Cardinality(Routes)
        /\ \A i, j \in DOMAIN s : i < j => <<s[i], s[j]>> \in RouteOrder
    BY RoutesListed DEF Lists
  <1>2. /\ attempts \in Seq(AttemptSet(answer, query)) /\ Len(attempts) = Len(s)
        /\ \A i \in 1 .. Len(s) : attempts[i] \in AttemptsAt(s[i], answer[s[i].id], query)
    BY AttemptsTaken DEF AttemptsForm
  <1> HIDE DEF s
  <1>3. DOMAIN attempts = 1 .. Len(s) /\ DOMAIN s = 1 .. Len(s) /\ \A i \in 1 .. Len(s) : s[i] \in Routes
    BY <1>1, <1>2
  <1>4. \A i \in 1 .. Len(s) : attempts[i].route = s[i]
    BY <1>2 DEF AttemptsAt
  <1>5. ASSUME NEW i \in DOMAIN s, NEW j \in DOMAIN s, i < j PROVE s[i].id < s[j].id
    BY <1>1, <1>5 DEF RouteOrder
  <1> QED BY <1>1, <1>3, <1>4, <1>5

LEMMA ReceiptIsValid ==
  ASSUME NEW answer, NEW query
  PROVE  ValidReceipt(Receipt(Routes, answer, query))
  <1> DEFINE attempts == Attempts(Routes, answer, query)
             gaps == CoverageGaps(attempts)
             p == Receipt(Routes, answer, query)
  <1>1. /\ p.query = query /\ p.attempts = attempts /\ p.gaps = gaps
        /\ p.status = PortfolioStatus(attempts, gaps) /\ p.clusters = Clusters(attempts)
    BY DEF Receipt
  <1>2. attempts # <<>>
    <2>1. Cardinality(Routes) \in Nat /\ Cardinality(Routes) >= 2
      BY HistoryAssumption, FS_CardinalityType
    <2>2. DOMAIN attempts = 1 .. Cardinality(Routes)
      BY AttemptsAreOfRoutes
    <2>3. 1 \in DOMAIN attempts
      <3> HIDE DEF attempts
      <3> QED BY <2>1, <2>2
    <2> HIDE DEF attempts
    <2> QED BY <2>3
  <1>3. \A i, j \in DOMAIN attempts : i < j => attempts[i].route.id < attempts[j].route.id
    BY AttemptsAreOfRoutes
  <1>4. \A a \in Range(attempts) : Retained(a) =>
          Constructible(a.batch) /\ Answers(a.batch, query) /\ a.status = a.batch.status
    BY AttemptsAnswer
  <1>5. ItemCount(attempts) <= MaxObservations
    BY AttemptsTaken DEF AttemptsForm
  <1> HIDE DEF p, gaps, attempts
  <1>6. ValidReceipt(p)
    BY <1>1, <1>2, <1>3, <1>4, <1>5 DEF ValidReceipt, gaps
  <1> QED BY <1>6 DEF p

-----------------------------------------------------------------------------
(* Collection and submission                                                 *)

LEMMA UpstreamWithin ==
  ASSUME NEW d, NEW ms, NEW S \in SUBSET DOMAIN d.metrics, ms \subseteq S,
         \A m \in S : d.metrics[m].calculation # None =>
           d.calculations[d.metrics[m].calculation].inputs \subseteq S
  PROVE  Upstream(d, ms) \subseteq S
  BY DEF Upstream

\* What EvidencePrecedesCutoff says of a submission.
LEMMA SubmissionPrecedes ==
  ASSUME NEW r \in Runs, NEW s, Admissible(r, s)
  PROVE  /\ \A m \in DOMAIN s.dossier.metrics : \A n \in Upstream(s.dossier, {m}) :
              /\ \A i \in s.dossier.metrics[n].documents :
                   s.dossier.documents[i].available <= s.dossier.metrics[m].as_of
              /\ s.dossier.metrics[n].as_of <= s.request.cutoff
         /\ \A k \in DOMAIN s.dossier.claims :
              /\ \A i \in s.dossier.claims[k].documents :
                   s.dossier.documents[i].available <= s.request.cutoff
              /\ \A m \in Upstream(s.dossier, s.dossier.claims[k].metrics) :
                   \A i \in s.dossier.metrics[m].documents :
                     s.dossier.documents[i].available <= s.request.cutoff
  <1> DEFINE d == s.dossier
             M == DOMAIN d.metrics
             cutoff == s.request.cutoff
  <1>1. /\ cutoff \in Nat
        /\ \A i \in DOMAIN d.documents : d.documents[i].available \in Nat
        /\ \A m \in M : d.metrics[m].as_of \in Nat
    BY CandidatesAssumption DEF Admissible
  <1>2. ValidItems(d) /\ TemporalCutoff(d) /\ References(d) /\ d.as_of = cutoff
    BY DEF Admissible, ValidSubmission, ValidDossier, ValidResearch
  <1> HIDE DEF d, cutoff
  <1>3. \A i \in DOMAIN d.documents : d.documents[i].available <= cutoff
    BY <1>2 DEF ValidItems, ValidDocument, TemporalCutoff
  <1>4. \A m \in M : d.metrics[m].as_of <= cutoff
    BY <1>2 DEF TemporalCutoff
  <1>5. \A m \in M : /\ d.metrics[m].documents \subseteq DOMAIN d.documents
                     /\ \A i \in d.metrics[m].documents : d.documents[i].available <= d.metrics[m].as_of
    BY <1>2 DEF References, MetricFollowsSources
  <1>6. ASSUME NEW m \in M, d.metrics[m].calculation # None
        PROVE  \A j \in d.calculations[d.metrics[m].calculation].inputs :
                 j \in M /\ d.metrics[j].as_of <= d.metrics[m].as_of
    <2>1. d.metrics[m].calculation \in DOMAIN d.calculations
      BY <1>2, <1>6 DEF References
    <2>2. d.calculations[d.metrics[m].calculation].inputs \subseteq M
      BY <1>2, <2>1 DEF References
    <2> QED BY <1>2, <1>6, <2>2 DEF References, MetricFollowsSources
  <1>7. ASSUME NEW m \in M, NEW n \in Upstream(d, {m})
        PROVE  /\ \A i \in d.metrics[n].documents : d.documents[i].available <= d.metrics[m].as_of
               /\ d.metrics[n].as_of <= cutoff
    <2> DEFINE S == {x \in M : d.metrics[x].as_of <= d.metrics[m].as_of}
    <2>1. ASSUME NEW x \in S, d.metrics[x].calculation # None
          PROVE  d.calculations[d.metrics[x].calculation].inputs \subseteq S
      <3> SUFFICES ASSUME NEW j \in d.calculations[d.metrics[x].calculation].inputs PROVE j \in S
        OBVIOUS
      <3>1. j \in M /\ d.metrics[j].as_of <= d.metrics[x].as_of
        BY <1>6, <2>1
      <3> QED BY <1>1, <3>1
    <2>2. m \in S
      BY <1>1
    <2>3. S \in SUBSET M
      OBVIOUS
    <2>4. n \in S
      <3> HIDE DEF S
      <3> QED BY <2>1, <2>2, <2>3, UpstreamWithin
    <2>5. n \in M /\ d.metrics[n].as_of <= d.metrics[m].as_of
      BY <2>4
    <2>6. \A i \in d.metrics[n].documents :
            i \in DOMAIN d.documents /\ d.documents[i].available <= d.metrics[n].as_of
      BY <1>5, <2>5
    <2> QED BY <1>1, <1>4, <2>5, <2>6
  <1>8. ASSUME NEW k \in DOMAIN d.claims
        PROVE  /\ \A i \in d.claims[k].documents : d.documents[i].available <= cutoff
               /\ \A m \in Upstream(d, d.claims[k].metrics) :
                    \A i \in d.metrics[m].documents : d.documents[i].available <= cutoff
    <2>1. d.claims[k].documents \subseteq DOMAIN d.documents
      BY <1>2 DEF References
    <2>2. Upstream(d, d.claims[k].metrics) \subseteq M
      BY DEF Upstream
    <2> QED BY <1>3, <1>5, <2>1, <2>2
  <1> QED BY <1>7, <1>8 DEF d, cutoff

\* What the routes answer to a query in a world.
AnswersIn(query, world) ==
  [id \in {route.id : route \in Routes} |->
     Answer(CHOOSE route \in Routes : route.id = id, query, world)]

\* What a run has collected is the receipt of a query for its request, with
\* what its routes answer in the world of the run.
CollectedForm(r, w) ==
  w.step = "collected" =>
    \E query \in CandidateQueries(r, w.request) :
      /\ ValidQuery(query) /\ query.cutoff = w.request.cutoff
      /\ w.world \in CandidateWorlds(r, query)
      /\ w.receipt = Receipt(Routes, AnswersIn(query, w.world), query)

CollectedByPortfolio == \A r \in Runs : CollectedForm(r, work[r])

LEMMA CollectStep ==
  ASSUME NEW r \in Runs, WorkForm, Collect(r)
  PROVE  CollectedForm(r, work'[r])
  <1>1. PICK query \in CandidateQueries(r, work[r].request) :
          /\ ValidQuery(query) /\ query.cutoff = work[r].request.cutoff
          /\ \E world \in CandidateWorlds(r, query) :
               work' = [work EXCEPT ![r] =
                 [step |-> "collected", request |-> work[r].request, world |-> world,
                  receipt |-> Receipt(Routes, AnswersIn(query, world), query)]]
    BY DEF Collect, AnswersIn
  <1>2. PICK world \in CandidateWorlds(r, query) :
          work' = [work EXCEPT ![r] =
            [step |-> "collected", request |-> work[r].request, world |-> world,
             receipt |-> Receipt(Routes, AnswersIn(query, world), query)]]
    BY <1>1
  <1>3. /\ work'[r].request = work[r].request /\ work'[r].world = world
        /\ work'[r].receipt = Receipt(Routes, AnswersIn(query, world), query)
    BY <1>2 DEF WorkForm
  <1> QED BY <1>1, <1>3 DEF CollectedForm

LEMMA CollectedBefore ==
  ASSUME NEW r, NEW w, w.step = "collected", CollectedForm(r, w), NEW x \in Observed(w.receipt.attempts)
  PROVE  x.item.available <= w.request.cutoff
  <1>1. PICK query, answer : query.cutoff = w.request.cutoff /\ w.receipt = Receipt(Routes, answer, query)
    BY DEF CollectedForm
  <1>2. w.receipt.attempts = Attempts(Routes, answer, query)
    BY <1>1 DEF Receipt
  <1>3. PICK a \in Range(w.receipt.attempts) : Retained(a) /\ \E o \in a.batch.items : x.item = o
    BY DEF Observed
  <1>4. Constructible(a.batch) /\ Answers(a.batch, query)
    BY <1>2, <1>3, AttemptsAnswer
  <1> QED BY <1>1, <1>3, <1>4 DEF Constructible, Answers

LEMMA CollectedReplaced ==
  ASSUME WorkForm, CollectedByPortfolio, NEW r \in Runs, NEW w, CollectedForm(r, w), work' = [work EXCEPT ![r] = w]
  PROVE  CollectedByPortfolio'
  BY DEF WorkForm, CollectedByPortfolio

LEMMA CollectedStep ==
  ASSUME WorkForm, CollectedByPortfolio, [Next]_vars
  PROVE  CollectedByPortfolio'
  <1>1. ASSUME NEW r \in Runs, Collect(r) PROVE CollectedByPortfolio'
    <2>1. CollectedForm(r, work'[r])
      BY <1>1, CollectStep
    <2>2. \A x \in Runs : x # r => work'[x] = work[x]
      BY <1>1 DEF Collect, WorkForm
    <2> QED BY <2>1, <2>2 DEF CollectedByPortfolio
  <1>2. ASSUME NEW r \in Runs, NEW w, work' = [work EXCEPT ![r] = w], w.step \in Steps \ {"collected"}
        PROVE  CollectedByPortfolio'
    BY <1>2, CollectedReplaced DEF CollectedForm
  <1>3. ASSUME NEW r \in Runs,
               Plan(r) \/ RecallOthers(r) \/ Submit(r) \/ StageQuality(r) \/ StageDecision(r)
        PROVE  CollectedByPortfolio'
    <2>1. CASE Plan(r)
      BY <1>2, <2>1 DEF Plan, Steps
    <2>2. CASE RecallOthers(r)
      BY <1>2, <2>2 DEF RecallOthers, Steps
    <2>3. CASE Submit(r)
      BY <1>2, <2>3 DEF Submit, Steps
    <2>4. CASE StageQuality(r)
      BY <1>2, <2>4 DEF StageQuality, Steps
    <2>5. CASE StageDecision(r)
      BY <1>2, <2>5 DEF StageDecision, Steps
    <2> QED BY <1>3, <2>1, <2>2, <2>3, <2>4, <2>5
  <1>4. ASSUME NEW r \in Runs, PublishQuality(r) \/ PublishDecision(r) PROVE CollectedByPortfolio'
    <2>1. work[r] = [step |-> work[r].step, forecasts |-> work[r].forecasts]
      BY <1>4 DEF PublishQuality, PublishDecision, At, WorkForm, RunForm, Registering
    <2>2. PICK step \in {"quality_published", "memory_published"} :
            work' = [work EXCEPT ![r] = [work[r] EXCEPT !.step = step]]
      BY <1>4 DEF PublishQuality, PublishDecision, WorkForm
    <2>3. [work[r] EXCEPT !.step = step].step = step
      BY <2>1
    <2> QED BY <1>2, <2>2, <2>3 DEF Steps
  <1>5. CASE UNCHANGED work
    BY <1>5 DEF CollectedByPortfolio
  <1> QED BY <1>1, <1>3, <1>4, <1>5 DEF Next, Review, AppendOutcome, vars

\* No look-ahead in sources: neither what a portfolio retains nor what a
\* submitted claim rests on, through calculations of any depth, became
\* available after the cutoff of the request.
THEOREM NoLookAhead == Spec => []EvidencePrecedesCutoff
  <1>1. Init => WorkForm /\ CollectedByPortfolio
    BY InitWorkForm DEF Init, NotStarted, CollectedByPortfolio, CollectedForm
  <1>2. WorkForm /\ CollectedByPortfolio /\ [Next]_vars => (WorkForm /\ CollectedByPortfolio)'
    BY WorkFormStep, CollectedStep
  <1>3. ASSUME WorkForm, CollectedByPortfolio PROVE EvidencePrecedesCutoff
    <2>1. \A r \in Runs : At(r, "submitted") => Admissible(r, work[r].submission)
      BY <1>3 DEF WorkForm, RunForm, At
    <2>2. \A r \in Runs : At(r, "collected") =>
            \A x \in Observed(work[r].receipt.attempts) : x.item.available <= work[r].request.cutoff
      BY <1>3, CollectedBefore DEF CollectedByPortfolio, At
    <2> QED BY <2>1, <2>2, SubmissionPrecedes DEF EvidencePrecedesCutoff
  <1> QED BY <1>1, <1>2, <1>3, PTL DEF Spec

-----------------------------------------------------------------------------
(* Types                                                                     *)

\* A run has at most one row, and the reviews and the scorecard files are kept
\* within their bounds.
OneDecision == \A i, j \in DOMAIN decisions : decisions[i].run = decisions[j].run => i = j

Bounded == OneDecision /\ Len(reviews) <= MaxReviews /\ DOMAIN scorecards = DOMAIN journals

LEMMA BoundedStep ==
  ASSUME WorkForm, RecallInvariant, Bounded, [Next]_vars
  PROVE  Bounded'
  <1>1. /\ decisions \in Seq(Range(decisions)) /\ \A i \in DOMAIN decisions : IsDecision(decisions[i])
        /\ reviews \in Seq(Range(reviews))
    BY DEF RecallInvariant, Memory, Decided, Range
  <1>2. ASSUME NEW r \in Runs, StageDecision(r) PROVE Bounded'
    <2> DEFINE row == work[r].row
    <2>1. decisions' = decisions \/ (decisions' = Append(decisions, row) /\ \A i \in DOMAIN decisions : decisions[i].run # row.run)
      BY <1>2 DEF StageDecision, StagedIn
    <2>2. OneDecision'
      <3> HIDE DEF row
      <3>1. CASE decisions' = decisions
        BY <3>1 DEF OneDecision, Bounded
      <3>2. CASE decisions' = Append(decisions, row) /\ \A i \in DOMAIN decisions : decisions[i].run # row.run
        <4>1. DOMAIN decisions = 1 .. Len(decisions) /\ Len(decisions) \in Nat
          BY <1>1
        <4>2. DOMAIN decisions' = 1 .. Len(decisions) + 1
          BY <1>1, <3>2
        <4>3. \A i \in DOMAIN decisions : decisions'[i] = decisions[i]
          BY <1>1, <3>2
        <4>4. decisions'[Len(decisions) + 1] = row
          BY <1>1, <3>2
        <4>5. \A i \in DOMAIN decisions' : i \in DOMAIN decisions \/ i = Len(decisions) + 1
          BY <4>1, <4>2
        <4> QED BY <3>2, <4>3, <4>4, <4>5 DEF OneDecision, Bounded
      <3> QED BY <2>1, <3>1, <3>2
    <2> QED BY <1>2, <2>2 DEF StageDecision, Bounded
  <1>3. ASSUME NEW r \in Runs, PublishDecision(r) PROVE Bounded'
    <2>1. decisions' = [i \in DOMAIN decisions |->
            IF decisions[i].run = r THEN [decisions[i] EXCEPT !.published = TRUE] ELSE decisions[i]]
      BY <1>3 DEF PublishDecision, PublishedIn
    <2>2. ASSUME NEW i \in DOMAIN decisions PROVE decisions'[i].run = decisions[i].run
      <3>1. [decisions[i] EXCEPT !.published = TRUE].run = decisions[i].run
        BY <1>1, PublishedForm
      <3> QED BY <2>1, <3>1
    <2>3. OneDecision'
      BY <2>1, <2>2 DEF OneDecision, Bounded
    <2> QED BY <1>3, <2>3 DEF PublishDecision, Bounded
  <1>4. ASSUME NEW row, NEW instant, Review(row, instant) PROVE Bounded'
    <2>1. Len(reviews') <= MaxReviews
      <3>1. Len(reviews) < MaxReviews /\ Len(reviews') = Len(reviews) + 1 /\ Len(reviews) \in Nat
        BY <1>1, <1>4 DEF Review
      <3>2. MaxReviews \in Nat
        BY HistoryAssumption
      <3> QED BY <3>1, <3>2
    <2> QED BY <1>4, <2>1 DEF Review, Bounded, OneDecision
  <1>5. ASSUME NEW r \in Runs, PublishQuality(r) PROVE Bounded'
    BY <1>5 DEF PublishQuality, Bounded, OneDecision
  <1>6. ASSUME NEW f, NEW o, NEW dies, AppendOutcome(f, o, dies) PROVE Bounded'
    <2>1. DOMAIN journals' = DOMAIN journals /\ DOMAIN scorecards' = DOMAIN scorecards
      BY <1>6 DEF AppendOutcome
    <2> QED BY <1>6, <2>1 DEF AppendOutcome, Bounded, OneDecision
  <1>7. CASE UNCHANGED <<decisions, reviews, journals, scorecards>>
    BY <1>7 DEF Bounded, OneDecision
  <1> QED BY <1>2, <1>3, <1>4, <1>5, <1>6, <1>7
          DEF Next, Plan, RecallOthers, Collect, Submit, StageQuality, vars

\* Every step is one of the lifecycle, every receipt that a portfolio builds
\* passes the checks its own constructor makes of it (SourcePortfolioReceipt),
\* and append_decision leaves one row for each run.
THEOREM TypesHold == Spec => []TypeOK
  <1>1. Init => Bounded
    <2> SUFFICES ASSUME Init PROVE Bounded
      OBVIOUS
    <2>1. decisions = EarlierDecisions /\ reviews = <<>> /\ journals = <<>> /\ scorecards = <<>>
      BY DEF Init
    <2>2. Len(reviews) <= MaxReviews
      BY <2>1, HistoryAssumption
    <2> QED BY <2>1, <2>2, EarlierAssumption DEF Bounded, OneDecision
  <1>2. Init => CollectedByPortfolio
    BY DEF Init, NotStarted, CollectedByPortfolio, CollectedForm
  <1>3. ASSUME WorkForm, CollectedByPortfolio, Bounded PROVE TypeOK
    <2>1. \A r \in Runs : work[r].step \in Steps
      BY <1>3 DEF WorkForm, RunForm
    <2>2. \A r \in Runs : At(r, "collected") => ValidReceipt(work[r].receipt)
      BY <1>3, ReceiptIsValid DEF CollectedByPortfolio, CollectedForm, At
    <2> QED BY <1>3, <2>1, <2>2 DEF TypeOK, Bounded, OneDecision
  <1> DEFINE Inv == WorkForm /\ RecallInvariant /\ CollectedByPortfolio /\ Bounded
  <1>4. Init => Inv
    BY <1>1, <1>2, InitWorkForm, InitRecall
  <1>5. Inv /\ [Next]_vars => Inv'
    BY WorkFormStep, RecallStep, CollectedStep, BoundedStep
  <1> QED BY <1>3, <1>4, <1>5, PTL DEF Spec

-----------------------------------------------------------------------------
(* Duplicates: the forest that joins the records                             *)

\* No record has a parent after it.
Forests(n) == {p \in [1 .. n -> 1 .. n] : \A i \in 1 .. n : p[i] <= i}

\* Roots are found by following the parents, which ends as they decrease.
RootOf(root, p, k) == \A j \in 1 .. k : root[j] = IF p[j] = j THEN j ELSE root[p[j]]

LEMMA RootExists ==
  ASSUME NEW n \in Nat, NEW p \in Forests(n)
  PROVE  \E root \in [1 .. n -> 1 .. n] : RootOf(root, p, n)
  <1> DEFINE Has(k) == \E root \in [1 .. k -> 1 .. n] : RootOf(root, p, k)
             Solved == {k \in Nat : k <= n => Has(k)}
  <1>1. Has(0)
    <2> DEFINE root == [j \in 1 .. 0 |-> 1]
    <2>1. root \in [1 .. 0 -> 1 .. n] /\ RootOf(root, p, 0)
      BY DEF RootOf
    <2> HIDE DEF root
    <2> QED BY <2>1
  <1>2. ASSUME NEW k \in Nat, k + 1 <= n, Has(k) PROVE Has(k + 1)
    <2>1. PICK root \in [1 .. k -> 1 .. n] : RootOf(root, p, k)
      BY <1>2
    <2>2. \A j \in 1 .. n : p[j] \in 1 .. n /\ p[j] <= j
      BY DEF Forests
    <2>3. k + 1 \in 1 .. n
      BY <1>2
    <2> DEFINE new == [j \in 1 .. k + 1 |->
                         IF j = k + 1 THEN IF p[k + 1] = k + 1 THEN k + 1 ELSE root[p[k + 1]] ELSE root[j]]
    <2>4. ASSUME NEW j \in 1 .. k
          PROVE  new[j] = root[j] /\ new[j] \in 1 .. n /\ (p[j] # j => p[j] \in 1 .. k)
      <3>1. j \in 1 .. k + 1 /\ j # k + 1
        OBVIOUS
      <3>2. j \in 1 .. n
        BY <1>2
      <3> QED BY <2>2, <3>1, <3>2
    <2>5. /\ new[k + 1] = IF p[k + 1] = k + 1 THEN k + 1 ELSE root[p[k + 1]]
          /\ new[k + 1] \in 1 .. n /\ (p[k + 1] # k + 1 => p[k + 1] \in 1 .. k)
      <3>1. p[k + 1] # k + 1 => p[k + 1] \in 1 .. k
        BY <2>2, <2>3
      <3> QED BY <2>3, <3>1
    <2>6. \A j \in 1 .. k + 1 : j = k + 1 \/ j \in 1 .. k
      OBVIOUS
    <2>7. new \in [1 .. k + 1 -> 1 .. n]
      <3>1. \A j \in 1 .. k + 1 : new[j] \in 1 .. n
        BY <2>4, <2>5, <2>6
      <3>2. new = [j \in 1 .. k + 1 |-> new[j]]
        OBVIOUS
      <3> HIDE DEF new
      <3> QED BY <3>1, <3>2
    <2> HIDE DEF new
    <2>8. RootOf(new, p, k + 1)
      <3>1. ASSUME NEW j \in 1 .. k PROVE new[j] = IF p[j] = j THEN j ELSE new[p[j]]
        BY <2>1, <2>4 DEF RootOf
      <3>2. new[k + 1] = IF p[k + 1] = k + 1 THEN k + 1 ELSE new[p[k + 1]]
        BY <2>4, <2>5
      <3> QED BY <2>6, <3>1, <3>2 DEF RootOf
    <2> QED BY <2>7, <2>8
  <1> HIDE DEF Has
  <1>3. n \in Solved
    <2>1. 0 \in Solved
      BY <1>1
    <2>2. \A k \in Nat : k \in Solved => k + 1 \in Solved
      BY <1>2
    <2> HIDE DEF Solved
    <2> QED BY <2>1, <2>2, AllNat
  <1> QED BY <1>3 DEF Has

LEMMA FindSteps ==
  ASSUME NEW n \in Nat, NEW p \in Forests(n), NEW i \in 1 .. n
  PROVE  Find(p, i) = IF p[i] = i THEN i ELSE Find(p, p[i])
  <1> DEFINE Step(j, f) == IF p[j] = j THEN j ELSE f[p[j]]
             Solves(f) == f = [j \in DOMAIN p |-> Step(j, f)]
             root == CHOOSE f : Solves(f)
  <1>1. DOMAIN p = 1 .. n /\ p[i] \in 1 .. n
    BY DEF Forests
  <1>2. PICK f \in [1 .. n -> 1 .. n] : RootOf(f, p, n)
    BY RootExists
  <1>3. Solves(f)
    <2>1. \A j \in 1 .. n : f[j] = Step(j, f)
      BY <1>2 DEF RootOf
    <2> HIDE DEF Step
    <2> QED BY <1>1, <2>1
  <1>4. Solves(root)
    <2> HIDE DEF Solves
    <2> QED BY <1>3
  <1>5. \A j \in 1 .. n : Find(p, j) = root[j]
    BY DEF Find
  <1>6. \A j \in 1 .. n : root[j] = Step(j, root)
    <2> HIDE DEF root, Step
    <2> QED BY <1>1, <1>4
  <1> HIDE DEF root
  <1> QED BY <1>1, <1>5, <1>6

\* Induction over positions, for the set of those that satisfy what is proved.
LEMMA AllPositions ==
  ASSUME NEW n \in Nat, NEW T,
         \A i \in 1 .. n : (\A j \in 1 .. n : j < i => j \in T) => i \in T
  PROVE  1 .. n \subseteq T
  <1> SUFFICES ASSUME (1 .. n) \ T # {} PROVE FALSE
    OBVIOUS
  <1>1. PICK i \in (1 .. n) \ T : \A j \in (1 .. n) \ T : i <= j
    <2>1. (1 .. n) \ T \in SUBSET Nat
      OBVIOUS
    <2> QED BY <2>1, LeastNat
  <1>2. \A j \in 1 .. n : j < i => j \in T
    BY <1>1
  <1> QED BY <1>1, <1>2

LEMMA FindForm ==
  ASSUME NEW n \in Nat, NEW p \in Forests(n), NEW i \in 1 .. n
  PROVE  /\ Find(p, i) \in 1 .. n /\ Find(p, i) <= i
         /\ p[Find(p, i)] = Find(p, i) /\ Find(p, Find(p, i)) = Find(p, i)
  <1> DEFINE T == {k \in 1 .. n : Find(p, k) \in 1 .. n /\ Find(p, k) <= k /\ p[Find(p, k)] = Find(p, k)}
  <1>1. ASSUME NEW k \in 1 .. n, \A j \in 1 .. n : j < k => j \in T PROVE k \in T
    <2>1. Find(p, k) = IF p[k] = k THEN k ELSE Find(p, p[k])
      BY FindSteps
    <2>2. p[k] \in 1 .. n /\ p[k] <= k
      BY DEF Forests
    <2>3. CASE p[k] = k
      BY <2>1, <2>3
    <2>4. CASE p[k] # k
      <3>1. p[k] < k
        BY <2>2, <2>4
      <3>2. p[k] \in T
        BY <1>1, <2>2, <3>1
      <3> QED BY <2>1, <2>2, <2>4, <3>1, <3>2
    <2> QED BY <2>3, <2>4
  <1>2. i \in T
    <2> HIDE DEF T
    <2> QED BY <1>1, AllPositions
  <1>3. Find(p, i) \in 1 .. n /\ p[Find(p, i)] = Find(p, i)
    BY <1>2
  <1>4. Find(p, Find(p, i)) = Find(p, i)
    BY <1>3, FindSteps
  <1> QED BY <1>2, <1>4

\* Union joins the classes of two records, and leaves the others as they are.
Merges(p, q, a, b, n) ==
  \E low \in {Find(p, a), Find(p, b)} : \A i \in 1 .. n :
    Find(q, i) = IF Find(p, i) \in {Find(p, a), Find(p, b)} THEN low ELSE Find(p, i)

LEMMA UnionForm ==
  ASSUME NEW n \in Nat, NEW p \in Forests(n), NEW a \in 1 .. n, NEW b \in 1 .. n
  PROVE  Union(p, a, b) \in Forests(n) /\ Merges(p, Union(p, a, b), a, b, n)
  <1> DEFINE l == Find(p, a)
             r == Find(p, b)
             low == IF l < r THEN l ELSE r
             high == IF l < r THEN r ELSE l
             q == Union(p, a, b)
  <1>1. l \in 1 .. n /\ r \in 1 .. n /\ p[l] = l /\ p[r] = r
    BY FindForm
  <1>2. q = [p EXCEPT ![high] = low]
    BY DEF Union
  <1> HIDE DEF l, r
  <1>3. low \in 1 .. n /\ high \in 1 .. n /\ low <= high /\ p[low] = low /\ p[high] = high /\ {low, high} = {l, r}
    BY <1>1
  <1> HIDE DEF low, high, q
  <1>4. p \in [1 .. n -> 1 .. n] /\ \A i \in 1 .. n : p[i] \in 1 .. n /\ p[i] <= i
    BY DEF Forests
  <1>5. q[high] = low /\ \A i \in 1 .. n : i # high => q[i] = p[i]
    BY <1>2, <1>3, <1>4
  <1>6. q \in Forests(n)
    <2>1. q \in [1 .. n -> 1 .. n]
      BY <1>2, <1>3, <1>4
    <2>2. \A i \in 1 .. n : q[i] <= i
      BY <1>3, <1>4, <1>5
    <2> QED BY <2>1, <2>2 DEF Forests
  <1> DEFINE T == {i \in 1 .. n : Find(q, i) = IF Find(p, i) \in {low, high} THEN low ELSE Find(p, i)}
  <1>7. ASSUME NEW i \in 1 .. n, \A j \in 1 .. n : j < i => j \in T PROVE i \in T
    <2>1. Find(q, i) = IF q[i] = i THEN i ELSE Find(q, q[i])
      BY <1>6, FindSteps
    <2>2. Find(p, i) = IF p[i] = i THEN i ELSE Find(p, p[i])
      BY FindSteps
    <2>3. CASE i = high
      <3>1. Find(p, i) = high
        BY <1>3, <2>2, <2>3
      <3>2. Find(q, low) = low
        <4>1. q[low] = low
          BY <1>3, <1>5
        <4> QED BY <1>3, <1>6, <4>1, FindSteps
      <3>3. Find(q, i) = low
        BY <1>5, <2>1, <2>3, <3>2
      <3> QED BY <3>1, <3>3
    <2>4. CASE i # high /\ p[i] = i
      BY <1>5, <2>1, <2>2, <2>4
    <2>5. CASE i # high /\ p[i] # i
      <3>1. p[i] \in 1 .. n /\ p[i] < i
        BY <1>4, <2>5
      <3>2. p[i] \in T
        BY <1>7, <3>1
      <3>3. Find(q, i) = Find(q, p[i]) /\ Find(p, i) = Find(p, p[i])
        BY <1>5, <2>1, <2>2, <2>5
      <3> QED BY <3>2, <3>3
    <2> QED BY <2>3, <2>4, <2>5
  <1>8. 1 .. n \subseteq T
    <2> HIDE DEF T
    <2> QED BY <1>7, AllPositions
  <1> QED BY <1>3, <1>6, <1>8 DEF Merges, l, r, q

\* The first record with the key of record i.
LEMMA AnchorForm ==
  ASSUME NEW n \in Nat, NEW recs, NEW basis, NEW i \in 1 .. n
  PROVE  /\ Anchor(recs, basis, i) \in 1 .. i
         /\ Key(basis, recs[Anchor(recs, basis, i)]) = Key(basis, recs[i])
         /\ \A k \in 1 .. Anchor(recs, basis, i) - 1 : Key(basis, recs[k]) # Key(basis, recs[i])
  <1> DEFINE K(j) == Key(basis, recs[j])
             T == {j \in 1 .. i : K(j) = K(i)}
  <1>1. T \in SUBSET Nat /\ i \in T
    OBVIOUS
  <1>2. PICK j \in T : \A m \in T : j <= m
    <2> HIDE DEF T
    <2> QED BY <1>1, LeastNat
  <1>3. \A k \in 1 .. j - 1 : K(k) # K(i)
    <2> HIDE DEF K
    <2> SUFFICES ASSUME NEW k \in 1 .. j - 1, K(k) = K(i) PROVE FALSE
      OBVIOUS
    <2>1. k \in T
      OBVIOUS
    <2> QED BY <1>2, <2>1
  <1> HIDE DEF K
  <1>4. \E m \in 1 .. i : K(m) = K(i) /\ \A k \in 1 .. m - 1 : K(k) # K(i)
    BY <1>2, <1>3
  <1> QED BY <1>4 DEF Anchor, K

LEMMA SameAnchor ==
  ASSUME NEW n \in Nat, NEW recs, NEW basis, NEW i \in 1 .. n, NEW j \in 1 .. n,
         Key(basis, recs[i]) = Key(basis, recs[j])
  PROVE  Anchor(recs, basis, i) = Anchor(recs, basis, j)
  <1> DEFINE a == Anchor(recs, basis, i)
             b == Anchor(recs, basis, j)
             K(m) == Key(basis, recs[m])
  <1>1. a \in 1 .. i /\ K(a) = K(i) /\ \A k \in 1 .. a - 1 : K(k) # K(i)
    BY AnchorForm
  <1>2. b \in 1 .. j /\ K(b) = K(j) /\ \A k \in 1 .. b - 1 : K(k) # K(j)
    BY AnchorForm
  <1>3. K(i) = K(j)
    OBVIOUS
  <1> HIDE DEF a, b, K
  <1>4. ~ (a < b)
    BY <1>1, <1>2, <1>3
  <1>5. ~ (b < a)
    BY <1>1, <1>2, <1>3
  <1>6. a = b
    BY <1>1, <1>2, <1>4, <1>5
  <1> QED BY <1>6 DEF a, b

\* The edges, by the priority of their basis, then by their record.
EdgeOrder(recs) ==
  {x \in Edges(recs) \X Edges(recs) :
     x[1].priority < x[2].priority \/ (x[1].priority = x[2].priority /\ x[1].right < x[2].right)}

LEMMA EdgeForm ==
  ASSUME NEW n \in Nat, NEW recs, DOMAIN recs = 1 .. n, NEW e \in Edges(recs)
  PROVE  /\ e = [priority |-> e.priority, left |-> e.left, right |-> e.right]
         /\ e.priority \in 1 .. 3 /\ e.left \in 1 .. n /\ e.right \in 1 .. n /\ e.left # e.right
         /\ e.left = Anchor(recs, Bases[e.priority], e.right)
         /\ Key(Bases[e.priority], recs[e.left]) = Key(Bases[e.priority], recs[e.right])
  <1>1. Len(Bases) = 3
    BY DEF Bases
  <1>2. /\ e \in [priority : 1 .. 3, left : 1 .. n, right : 1 .. n]
        /\ e.left = Anchor(recs, Bases[e.priority], e.right) /\ e.left # e.right
    BY <1>1 DEF Edges
  <1>3. Key(Bases[e.priority], recs[e.left]) = Key(Bases[e.priority], recs[e.right])
    BY <1>2, AnchorForm
  <1> QED BY <1>2, <1>3

LEMMA EdgesFinite ==
  ASSUME NEW n \in Nat, NEW recs, DOMAIN recs = 1 .. n
  PROVE  IsFiniteSet(Edges(recs))
  <1> DEFINE P == (1 .. 3) \X (1 .. n)
             f == [e \in Edges(recs) |-> <<e.priority, e.right>>]
  <1>1. IsFiniteSet(P)
    <2>1. 1 \in Int /\ 3 \in Int /\ n \in Int
      OBVIOUS
    <2>2. IsFiniteSet(1 .. 3) /\ IsFiniteSet(1 .. n)
      BY <2>1, FS_Interval
    <2> QED BY <2>2, FS_Product
  <1>2. f \in [Edges(recs) -> P]
    BY EdgeForm
  <1>3. \A d, e \in Edges(recs) : f[d] = f[e] => d = e
    <2> SUFFICES ASSUME NEW d \in Edges(recs), NEW e \in Edges(recs), f[d] = f[e] PROVE d = e
      OBVIOUS
    <2>1. d.priority = e.priority /\ d.right = e.right
      OBVIOUS
    <2>2. d.left = e.left
      BY <2>1, EdgeForm
    <2> QED BY <2>1, <2>2, EdgeForm
  <1> HIDE DEF f
  <1>4. f \in Injection(Edges(recs), P)
    BY <1>2, <1>3 DEF Injection, IsInjective
  <1> QED BY <1>1, <1>4, FS_Injection

LEMMA EdgesListed ==
  ASSUME NEW n \in Nat, NEW recs, DOMAIN recs = 1 .. n
  PROVE  Lists(EdgesInOrder(recs), Edges(recs), EdgeOrder(recs))
  <1> DEFINE E == Edges(recs)
             s == EdgesInOrder(recs)
             R == EdgeOrder(recs)
             m == Cardinality(E)
  <1>1. IsFiniteSet(E) /\ m \in Nat
    BY EdgesFinite, FS_CardinalityType
  <1>2. StrictlyOrders(R, E)
    <2>1. \A e \in E : e.priority \in Nat /\ e.right \in Nat
      BY EdgeForm
    <2>2. ASSUME NEW d \in E, NEW e \in E, d.priority = e.priority, d.right = e.right PROVE d = e
      <3>1. d.left = e.left
        BY <2>2, EdgeForm
      <3> QED BY <2>2, <3>1, EdgeForm
    <2> HIDE DEF E
    <2>3. R = {x \in E \X E :
                 x[1].priority < x[2].priority \/ (x[1].priority = x[2].priority /\ x[1].right < x[2].right)}
      BY DEF EdgeOrder, E
    <2> QED BY <2>1, <2>2, <2>3 DEF StrictlyOrders
  <1> DEFINE B(e) == {d \in E : d.priority < e.priority \/ (d.priority = e.priority /\ d.right < e.right)}
  <1>3. \A e \in E : Before(E, R, e) = B(e)
    BY DEF Before, EdgeOrder
  <1>4. s = [i \in 1 .. m |-> CHOOSE e \in E : Cardinality(B(e)) = i - 1]
    BY DEF EdgesInOrder, InOrder
  <1> HIDE DEF s, B, E, R
  <1>5. ASSUME NEW i \in 1 .. m
        PROVE  s[i] \in E /\ Cardinality(Before(E, R, s[i])) = i - 1
    <2>1. s[i] = CHOOSE e \in E : Cardinality(B(e)) = i - 1
      BY <1>4
    <2>2. PICK e \in E : Cardinality(Before(E, R, e)) = i - 1
      BY <1>1, <1>2, RankOccurs
    <2>3. \E d \in E : Cardinality(B(d)) = i - 1
      BY <1>3, <2>2
    <2>4. s[i] \in E /\ Cardinality(B(s[i])) = i - 1
      BY <2>1, <2>3
    <2> QED BY <1>3, <2>4
  <1>6. s \in [1 .. m -> E]
    <2> DEFINE c(i) == CHOOSE e \in E : Cardinality(B(e)) = i - 1
    <2>1. \A i \in 1 .. m : s[i] \in E /\ s[i] = c(i)
      BY <1>4, <1>5
    <2>2. s = [i \in 1 .. m |-> c(i)]
      BY <1>4
    <2> HIDE DEF c
    <2> QED BY <2>1, <2>2
  <1>7. Lists(s, E, R)
    BY <1>1, <1>2, <1>5, <1>6, Listed
  <1> QED BY <1>7 DEF s, E, R

\* The records joined one edge at a time.
JoinSteps(done, es, n) ==
  /\ done \in [0 .. Len(es) -> Forests(n)]
  /\ done[0] = [i \in 1 .. n |-> i]
  /\ \A k \in 1 .. Len(es) : done[k] = Union(done[k - 1], es[k].left, es[k].right)

LEMMA JoinUnrolls ==
  ASSUME NEW n \in Nat, NEW recs, DOMAIN recs = 1 .. n
  PROVE  \E done : /\ JoinSteps(done, EdgesInOrder(recs), n)
                   /\ done[Len(EdgesInOrder(recs))] = Joined(recs)
  <1> DEFINE s == EdgesInOrder(recs)
             m == Len(s)
             V == Forests(n)
             self == [i \in 1 .. n |-> i]
             Add(p, e) == Union(p, e.left, e.right)
             Step(x, f) == IF x = {} THEN self ELSE Add(f[x \ {Max(x)}], s[Max(x)])
             Solves(f) == f = [x \in SUBSET (1 .. m) |-> Step(x, f)]
             G == [q \in (1 .. m) \X V |-> Add(q[2], s[q[1]])]
  <1>1. m \in Nat /\ DOMAIN s = 1 .. m /\ \A i \in 1 .. m : s[i].left \in 1 .. n /\ s[i].right \in 1 .. n
    <2>1. s \in Seq(Edges(recs))
      BY EdgesListed DEF Lists
    <2> HIDE DEF s
    <2>2. m \in Nat /\ DOMAIN s = 1 .. m /\ \A i \in 1 .. m : s[i] \in Edges(recs)
      BY <2>1
    <2> QED BY <2>2, EdgeForm
  <1>2. self \in V
    BY DEF Forests
  <1> HIDE DEF m, s, self
  <1>3. G \in [(1 .. m) \X V -> V]
    <2>1. ASSUME NEW i \in 1 .. m, NEW p \in V PROVE Add(p, s[i]) \in V
      BY <1>1, UnionForm
    <2> HIDE DEF Add, V
    <2> QED BY <2>1
  <1>4. \A i \in 1 .. m, p \in V : G[<<i, p>>] = Add(p, s[i])
    <2> HIDE DEF Add, V
    <2> QED OBVIOUS
  <1> HIDE DEF G, V
  <1>5. PICK f \in [SUBSET (1 .. m) -> V] : FoldsTo(f, m, self, G)
    BY <1>1, <1>2, <1>3, FoldExists
  <1>6. ASSUME NEW x \in SUBSET (1 .. m) PROVE f[x] = Step(x, f)
    <2>1. x # {} => Max(x) \in 1 .. m
      BY <1>1, MaxIsIn
    <2>2. x \ {Max(x)} \in SUBSET (1 .. m)
      OBVIOUS
    <2> HIDE DEF Add
    <2> QED BY <1>4, <1>5, <2>1, <2>2 DEF FoldsTo
  <1>7. Solves(f)
    <2> HIDE DEF Step
    <2> QED BY <1>6
  <1> DEFINE iter == CHOOSE g : Solves(g)
  <1>8. Solves(iter)
    <2> HIDE DEF Solves
    <2> QED BY <1>7
  <1>9. Joined(recs) = iter[1 .. m]
    BY <1>1 DEF Joined, FoldLeft, MapThenFoldSet, s, self
  <1>10. \A x \in SUBSET (1 .. m) : iter[x] = Step(x, iter)
    <2> HIDE DEF iter, Step
    <2> QED BY <1>8
  <1> HIDE DEF iter, Add
  <1>11. iter[{}] = self
    BY <1>10
  <1>12. ASSUME NEW x \in SUBSET (1 .. m), x # {}, iter[x \ {Max(x)}] \in V
         PROVE  iter[x] = G[<<Max(x), iter[x \ {Max(x)}]>>]
    <2>1. Max(x) \in 1 .. m
      BY <1>1, <1>12, MaxIsIn
    <2>2. iter[x] = Add(iter[x \ {Max(x)}], s[Max(x)])
      BY <1>10, <1>12
    <2> QED BY <1>4, <1>12, <2>1, <2>2
  <1>13. Iterates(iter, m, V, self, G)
    BY <1>11, <1>12 DEF Iterates
  <1>14. PICK done : PrefixValues(done, m, V, self, G, iter[1 .. m])
    BY <1>1, <1>2, <1>3, <1>13, Unrolls
  <1>15. ASSUME NEW k \in 1 .. m PROVE done[k] = Add(done[k - 1], s[k])
    <2>1. k - 1 \in 0 .. m
      BY <1>1
    <2>2. done[k - 1] \in V
      BY <1>14, <2>1 DEF PrefixValues
    <2> QED BY <1>4, <1>14, <2>2 DEF PrefixValues
  <1>16. JoinSteps(done, s, n) /\ done[m] = Joined(recs)
    BY <1>9, <1>14, <1>15 DEF JoinSteps, PrefixValues, m, V, self, Add
  <1> QED BY <1>16 DEF m, s

\* No set of records is cut off from the rest of its classes but by records
\* that share no key: the classes are connected.
CutOff(D, p, recs, n) ==
  \A x \in D, y \in (1 .. n) \ D : Find(p, x) = Find(p, y) => ~ SharesKey(recs[x], recs[y])
Apart(D, p, n) == \A x \in D, y \in (1 .. n) \ D : Find(p, x) # Find(p, y)
Connected(p, recs, n) == \A D \in SUBSET (1 .. n) : CutOff(D, p, recs, n) => Apart(D, p, n)

LEMMA ConnectedFirst ==
  ASSUME NEW n \in Nat, NEW recs, NEW p, p = [i \in 1 .. n |-> i]
  PROVE  Connected(p, recs, n)
  <1>1. p \in Forests(n)
    BY DEF Forests
  <1>2. \A i \in 1 .. n : Find(p, i) = i
    BY <1>1, FindSteps
  <1> QED BY <1>2 DEF Connected, Apart

\* Joining two records that share a key keeps the classes connected.
LEMMA ConnectedJoin ==
  ASSUME NEW n \in Nat, NEW recs, NEW p \in Forests(n), Connected(p, recs, n),
         NEW a \in 1 .. n, NEW b \in 1 .. n, SharesKey(recs[a], recs[b]), SharesKey(recs[b], recs[a])
  PROVE  Connected(Union(p, a, b), recs, n)
  <1> DEFINE q == Union(p, a, b)
             F(i) == Find(p, i)
             H(i) == Find(q, i)
  <1>1. PICK low \in {F(a), F(b)} : \A i \in 1 .. n : H(i) = IF F(i) \in {F(a), F(b)} THEN low ELSE F(i)
    BY UnionForm DEF Merges
  <1> SUFFICES ASSUME NEW D \in SUBSET (1 .. n), CutOff(D, q, recs, n), NEW x \in D, NEW y \in (1 .. n) \ D, H(x) = H(y)
               PROVE  FALSE
    BY DEF Connected, Apart
  <1>2. \A i, j \in 1 .. n : F(i) = F(j) => H(i) = H(j)
    <2> HIDE DEF F, H
    <2> QED BY <1>1
  <1>3. CutOff(D, p, recs, n)
    BY <1>2 DEF CutOff
  <1>4. \A i \in D, j \in (1 .. n) \ D : F(i) # F(j)
    BY <1>3 DEF Connected, Apart
  <1>5. H(a) = H(b)
    <2> HIDE DEF F, H
    <2> QED BY <1>1
  <1>6. ~ (a \in D /\ b \notin D) /\ ~ (b \in D /\ a \notin D)
    BY <1>5 DEF CutOff
  <1> HIDE DEF F, H
  <1>7. F(x) \in {F(a), F(b)} /\ F(y) \in {F(a), F(b)}
    BY <1>1, <1>4
  <1> QED BY <1>4, <1>6, <1>7

\* What the joined forest is: connected classes that hold both ends of every
\* edge.
JoinedForm(p, recs, n) ==
  /\ p \in Forests(n) /\ Connected(p, recs, n)
  /\ \A e \in Edges(recs) : Find(p, e.left) = Find(p, e.right)

LEMMA EdgeShares ==
  ASSUME NEW n \in Nat, NEW recs, DOMAIN recs = 1 .. n, NEW e \in Edges(recs)
  PROVE  SharesKey(recs[e.left], recs[e.right]) /\ SharesKey(recs[e.right], recs[e.left])
  <1>1. e.priority \in 1 .. 3 /\ Key(Bases[e.priority], recs[e.left]) = Key(Bases[e.priority], recs[e.right])
    BY EdgeForm
  <1>2. e.priority \in DOMAIN Bases
    BY <1>1 DEF Bases
  <1> QED BY <1>1, <1>2 DEF SharesKey

LEMMA JoinedIs ==
  ASSUME NEW n \in Nat, NEW recs, DOMAIN recs = 1 .. n
  PROVE  JoinedForm(Joined(recs), recs, n)
  <1> DEFINE s == EdgesInOrder(recs)
             m == Len(s)
  <1>1. PICK done : JoinSteps(done, s, n) /\ done[m] = Joined(recs)
    BY JoinUnrolls
  <1>2. m \in Nat /\ \A k \in 1 .. m : s[k] \in Edges(recs)
    <2>1. s \in Seq(Edges(recs))
      BY EdgesListed DEF Lists
    <2> HIDE DEF s
    <2> QED BY <2>1
  <1>3. \A e \in Edges(recs) : \E k \in 1 .. m : s[k] = e
    <2>1. s \in Seq(Edges(recs)) /\ \A e \in Edges(recs) : \E k \in DOMAIN s : s[k] = e
      BY EdgesListed DEF Lists
    <2> HIDE DEF s
    <2> QED BY <2>1
  <1> HIDE DEF m, s
  <1>4. done \in [0 .. m -> Forests(n)] /\ done[0] = [i \in 1 .. n |-> i]
        /\ \A k \in 1 .. m : done[k] = Union(done[k - 1], s[k].left, s[k].right)
    BY <1>1 DEF JoinSteps, m
  <1> DEFINE Good(k) == /\ Connected(done[k], recs, n)
                        /\ \A j \in 1 .. k : Find(done[k], s[j].left) = Find(done[k], s[j].right)
             T == {k \in Nat : k <= m => Good(k)}
  <1>5. Good(0)
    BY <1>4, ConnectedFirst
  <1>6. ASSUME NEW k \in Nat, k + 1 <= m, Good(k) PROVE Good(k + 1)
    <2> DEFINE e == s[k + 1]
    <2>1. k \in 0 .. m /\ k + 1 \in 1 .. m /\ (k + 1) - 1 = k
      BY <1>2, <1>6
    <2>2. e \in Edges(recs) /\ done[k] \in Forests(n) /\ done[k + 1] = Union(done[k], e.left, e.right)
      BY <1>2, <1>4, <2>1
    <2> HIDE DEF e
    <2>3. e.left \in 1 .. n /\ e.right \in 1 .. n
      BY <2>2, EdgeForm
    <2>4. Connected(done[k + 1], recs, n)
      BY <1>6, <2>2, <2>3, EdgeShares, ConnectedJoin
    <2>5. PICK low : \A i \in 1 .. n : Find(done[k + 1], i) =
            IF Find(done[k], i) \in {Find(done[k], e.left), Find(done[k], e.right)} THEN low ELSE Find(done[k], i)
      <3>1. Merges(done[k], done[k + 1], e.left, e.right, n)
        BY <2>2, <2>3, UnionForm
      <3> QED BY <3>1 DEF Merges
    <2>6. Find(done[k + 1], e.left) = Find(done[k + 1], e.right)
      BY <2>3, <2>5
    <2>7. ASSUME NEW j \in 1 .. k PROVE Find(done[k + 1], s[j].left) = Find(done[k + 1], s[j].right)
      <3>1. j \in 1 .. m
        BY <1>2, <2>1, <2>7
      <3>2. s[j].left \in 1 .. n /\ s[j].right \in 1 .. n
        BY <1>2, <3>1, EdgeForm
      <3>3. Find(done[k], s[j].left) = Find(done[k], s[j].right)
        BY <1>6
      <3> QED BY <2>5, <3>2, <3>3
    <2>8. \A j \in 1 .. k + 1 : j \in 1 .. k \/ j = k + 1
      OBVIOUS
    <2> QED BY <2>4, <2>6, <2>7, <2>8 DEF e
  <1> HIDE DEF Good
  <1>7. Good(m)
    <2>1. 0 \in T
      BY <1>5
    <2>2. \A k \in Nat : k \in T => k + 1 \in T
      BY <1>2, <1>6
    <2>3. m \in T
      <3> HIDE DEF T
      <3> QED BY <1>2, <2>1, <2>2, AllNat
    <2> QED BY <1>2, <2>3
  <1>8. done[m] \in Forests(n) /\ done[m] = Joined(recs)
    <2>1. m \in 0 .. m
      BY <1>2
    <2> QED BY <1>1, <1>4, <2>1 DEF m, s
  <1>9. ASSUME NEW e \in Edges(recs) PROVE Find(done[m], e.left) = Find(done[m], e.right)
    <2>1. PICK k \in 1 .. m : s[k] = e
      BY <1>3
    <2> QED BY <1>7, <2>1 DEF Good
  <1> QED BY <1>7, <1>8, <1>9 DEF Good, JoinedForm

\* Records that share a key are in one class, through an edge of their anchor.
LEMMA JoinedByKey ==
  ASSUME NEW n \in Nat, NEW recs, DOMAIN recs = 1 .. n, NEW p, JoinedForm(p, recs, n),
         NEW b \in 1 .. 3, NEW i \in 1 .. n, NEW j \in 1 .. n, i # j,
         Key(Bases[b], recs[i]) = Key(Bases[b], recs[j])
  PROVE  /\ Find(p, i) = Find(p, j)
         /\ \E e \in Edges(recs) : e.priority = b /\ Find(p, e.left) = Find(p, i)
  <1> DEFINE a == Anchor(recs, Bases[b], i)
             E(k) == [priority |-> b, left |-> a, right |-> k]
  <1>1. a = Anchor(recs, Bases[b], j)
    BY SameAnchor
  <1>2. a \in 1 .. n
    <2>1. a \in 1 .. i
      BY AnchorForm
    <2> HIDE DEF a
    <2> QED BY <2>1
  <1>3. Len(Bases) = 3
    BY DEF Bases
  <1>4. ASSUME NEW k \in {i, j}, k # a PROVE E(k) \in Edges(recs)
    <2>1. E(k) \in [priority : 1 .. Len(Bases), left : DOMAIN recs, right : DOMAIN recs]
      <3> HIDE DEF a
      <3> QED BY <1>2, <1>3, <1>4
    <2>2. E(k).left = a /\ E(k).right = k /\ E(k).priority = b
      OBVIOUS
    <2>3. a = Anchor(recs, Bases[b], k)
      BY <1>1, <1>4
    <2> HIDE DEF E
    <2> QED BY <1>4, <2>1, <2>2, <2>3 DEF Edges
  <1>5. ASSUME NEW k \in {i, j} PROVE Find(p, k) = Find(p, a)
    <2>1. CASE k = a
      BY <2>1
    <2>2. CASE k # a
      <3>1. E(k) \in Edges(recs)
        BY <1>4, <2>2
      <3>2. Find(p, E(k).left) = Find(p, E(k).right)
        BY <3>1 DEF JoinedForm
      <3> QED BY <3>2
    <2> QED BY <2>1, <2>2
  <1>6. PICK k \in {i, j} : k # a
    <2> HIDE DEF a
    <2> QED OBVIOUS
  <1>7. E(k) \in Edges(recs) /\ E(k).priority = b /\ E(k).left = a
    BY <1>4, <1>6
  <1> HIDE DEF a, E
  <1> QED BY <1>5, <1>7

-----------------------------------------------------------------------------
(* Duplicates: the clusters of a receipt                                     *)

RecordOrder(all) ==
  {p \in all \X all : p[1].route < p[2].route \/ (p[1].route = p[2].route /\ p[1].item.id < p[2].item.id)}

LEMMA ObservedForm ==
  ASSUME NEW answer, NEW query, NEW attempts, attempts = Attempts(Routes, answer, query),
         NEW x \in Observed(attempts)
  PROVE  \E i \in DOMAIN attempts :
           /\ Retained(attempts[i]) /\ attempts[i].route.id \in Nat /\ Constructible(attempts[i].batch)
           /\ x.route = attempts[i].route.id /\ x.item \in attempts[i].batch.items
           /\ x = [route |-> attempts[i].route.id, family |-> attempts[i].route.family, item |-> x.item]
  <1>1. PICK a \in Range(attempts) :
          /\ Retained(a)
          /\ \E o \in a.batch.items : x = [route |-> a.route.id, family |-> a.route.family, item |-> o]
    BY DEF Observed
  <1>2. PICK i \in DOMAIN attempts : a = attempts[i]
    BY <1>1 DEF Range
  <1>3. attempts[i].route \in Routes
    BY AttemptsAreOfRoutes
  <1>4. attempts[i].route.id \in Nat
    BY <1>3, HistoryAssumption
  <1>5. Constructible(a.batch)
    BY <1>1, AttemptsAnswer
  <1> QED BY <1>1, <1>2, <1>4, <1>5

LEMMA ObservedOnce ==
  ASSUME NEW answer, NEW query, NEW attempts, attempts = Attempts(Routes, answer, query),
         NEW x \in Observed(attempts), NEW y \in Observed(attempts), x.route = y.route, x.item.id = y.item.id
  PROVE  x = y
  <1>1. PICK i \in DOMAIN attempts :
          /\ attempts[i].route.id \in Nat /\ Constructible(attempts[i].batch)
          /\ x.route = attempts[i].route.id /\ x.item \in attempts[i].batch.items
          /\ x = [route |-> attempts[i].route.id, family |-> attempts[i].route.family, item |-> x.item]
    BY ObservedForm
  <1>2. PICK j \in DOMAIN attempts :
          /\ attempts[j].route.id \in Nat
          /\ y.route = attempts[j].route.id /\ y.item \in attempts[j].batch.items
          /\ y = [route |-> attempts[j].route.id, family |-> attempts[j].route.family, item |-> y.item]
    BY ObservedForm
  <1>3. i = j
    <2>1. DOMAIN attempts = 1 .. Cardinality(Routes) /\ Cardinality(Routes) \in Nat
      BY AttemptsAreOfRoutes, HistoryAssumption, FS_CardinalityType
    <2>2. \A k, l \in DOMAIN attempts : k < l => attempts[k].route.id < attempts[l].route.id
      BY AttemptsAreOfRoutes
    <2>3. attempts[i].route.id = attempts[j].route.id /\ attempts[i].route.id \in Nat
      BY <1>1, <1>2
    <2>4. ~ (i < j) /\ ~ (j < i)
      BY <2>2, <2>3
    <2> QED BY <2>1, <2>4
  <1>4. x.item = y.item
    BY <1>1, <1>2, <1>3 DEF Constructible, UniqueSources
  <1> QED BY <1>1, <1>2, <1>3, <1>4

LEMMA ObservedFinite ==
  ASSUME NEW answer, NEW query, NEW attempts, attempts = Attempts(Routes, answer, query)
  PROVE  IsFiniteSet(Observed(attempts))
  <1> DEFINE m == Cardinality(Routes)
             of(i) == {[route |-> attempts[i].route.id, family |-> attempts[i].route.family, item |-> o] :
                         o \in attempts[i].batch.items}
             sets == {of(i) : i \in {k \in 1 .. m : Retained(attempts[k])}}
  <1>1. DOMAIN attempts = 1 .. m /\ m \in Nat
    BY AttemptsAreOfRoutes, HistoryAssumption, FS_CardinalityType
  <1> HIDE DEF m
  <1>2. Observed(attempts) = UNION sets
    <2>1. Observed(attempts) \subseteq UNION sets
      <3> SUFFICES ASSUME NEW x \in Observed(attempts) PROVE x \in UNION sets
        OBVIOUS
      <3>1. PICK a \in Range(attempts) :
              /\ Retained(a)
              /\ \E o \in a.batch.items : x = [route |-> a.route.id, family |-> a.route.family, item |-> o]
        BY DEF Observed
      <3>2. PICK i \in 1 .. m : a = attempts[i]
        BY <1>1 DEF Range
      <3>3. of(i) \in sets
        BY <3>1, <3>2
      <3>4. x \in of(i)
        BY <3>1, <3>2
      <3> HIDE DEF sets, of
      <3> QED BY <3>3, <3>4
    <2>2. UNION sets \subseteq Observed(attempts)
      <3> SUFFICES ASSUME NEW i \in 1 .. m, Retained(attempts[i]), NEW o \in attempts[i].batch.items
                   PROVE  [route |-> attempts[i].route.id, family |-> attempts[i].route.family, item |-> o]
                            \in Observed(attempts)
        OBVIOUS
      <3>1. attempts[i] \in Range(attempts)
        BY <1>1 DEF Range
      <3> QED BY <3>1 DEF Observed
    <2> QED BY <2>1, <2>2
  <1>3. ASSUME NEW i \in 1 .. m, Retained(attempts[i]) PROVE IsFiniteSet(of(i))
    <2> DEFINE I == attempts[i].batch.items
               f == [o \in I |-> [route |-> attempts[i].route.id, family |-> attempts[i].route.family, item |-> o]]
    <2>1. attempts[i] \in Range(attempts)
      BY <1>1 DEF Range
    <2>2. IsFiniteSet(I)
      BY <1>3, <2>1, AttemptsAnswer DEF Constructible
    <2>3. f \in Surjection(I, of(i))
      BY DEF Surjection
    <2> HIDE DEF f, I, of
    <2> QED BY <2>2, <2>3, FS_Surjection
  <1>4. IsFiniteSet(sets)
    <2> DEFINE K == {k \in 1 .. m : Retained(attempts[k])}
               f == [k \in K |-> of(k)]
    <2>1. IsFiniteSet(1 .. m)
      <3>1. 1 \in Int /\ m \in Int
        BY <1>1
      <3> QED BY <3>1, FS_Interval
    <2>2. IsFiniteSet(K)
      <3>1. K \in SUBSET (1 .. m)
        OBVIOUS
      <3> QED BY <2>1, <3>1, FS_Subset
    <2> HIDE DEF of
    <2>3. f \in Surjection(K, sets)
      BY DEF Surjection
    <2> HIDE DEF f, K, sets
    <2> QED BY <2>2, <2>3, FS_Surjection
  <1>5. \A T \in sets : IsFiniteSet(T)
    <2> HIDE DEF of
    <2> QED BY <1>3
  <1> HIDE DEF sets
  <1> QED BY <1>2, <1>4, <1>5, FS_UNION

LEMMA RecordsListed ==
  ASSUME NEW answer, NEW query, NEW attempts, attempts = Attempts(Routes, answer, query)
  PROVE  Lists(Records(attempts), Observed(attempts), RecordOrder(Observed(attempts)))
  <1> DEFINE all == Observed(attempts)
             s == Records(attempts)
             R == RecordOrder(all)
             m == Cardinality(all)
             B(x) == {y \in all : y.route < x.route \/ (y.route = x.route /\ y.item.id < x.item.id)}
  <1>1. IsFiniteSet(all) /\ m \in Nat
    BY ObservedFinite, FS_CardinalityType
  <1>2. StrictlyOrders(R, all)
    <2>1. ASSUME NEW x \in all PROVE x.route \in Nat /\ x.item.id \in Nat
      <3>1. PICK i \in DOMAIN attempts :
              /\ attempts[i].route.id \in Nat /\ Constructible(attempts[i].batch)
              /\ x.route = attempts[i].route.id /\ x.item \in attempts[i].batch.items
        BY ObservedForm
      <3> QED BY <3>1 DEF Constructible, ValidObservation
    <2>2. \A x, y \in all : x.route = y.route /\ x.item.id = y.item.id => x = y
      BY ObservedOnce
    <2> HIDE DEF all
    <2> QED BY <2>1, <2>2 DEF StrictlyOrders, RecordOrder
  <1>3. \A x \in all : Before(all, R, x) = B(x)
    BY DEF Before, RecordOrder
  <1>4. s = [i \in 1 .. m |-> CHOOSE x \in all : Cardinality(B(x)) = i - 1]
    BY DEF Records, InOrder
  <1> HIDE DEF s, B, all, R
  <1>5. ASSUME NEW i \in 1 .. m
        PROVE  s[i] \in all /\ Cardinality(Before(all, R, s[i])) = i - 1
    <2>1. s[i] = CHOOSE x \in all : Cardinality(B(x)) = i - 1
      BY <1>4
    <2>2. PICK x \in all : Cardinality(Before(all, R, x)) = i - 1
      BY <1>1, <1>2, RankOccurs
    <2>3. \E y \in all : Cardinality(B(y)) = i - 1
      BY <1>3, <2>2
    <2>4. s[i] \in all /\ Cardinality(B(s[i])) = i - 1
      BY <2>1, <2>3
    <2> QED BY <1>3, <2>4
  <1>6. s \in [1 .. m -> all]
    <2> DEFINE c(i) == CHOOSE x \in all : Cardinality(B(x)) = i - 1
    <2>1. \A i \in 1 .. m : s[i] \in all /\ s[i] = c(i)
      BY <1>4, <1>5
    <2>2. s = [i \in 1 .. m |-> c(i)]
      BY <1>4
    <2> HIDE DEF c
    <2> QED BY <2>1, <2>2
  <1>7. Lists(s, all, R)
    BY <1>1, <1>2, <1>5, <1>6, Listed
  <1> QED BY <1>7 DEF s, all, R

\* The records list each observation once.
Numbers(recs, all, n) ==
  /\ n \in Nat /\ DOMAIN recs = 1 .. n
  /\ \A i \in 1 .. n : recs[i] \in all
  /\ \A x \in all : \E i \in 1 .. n : recs[i] = x
  /\ \A i, j \in 1 .. n : recs[i] = recs[j] => i = j

LEMMA RecordsNumber ==
  ASSUME NEW answer, NEW query, NEW attempts, attempts = Attempts(Routes, answer, query)
  PROVE  \E n \in Nat : Numbers(Records(attempts), Observed(attempts), n)
  <1> DEFINE all == Observed(attempts)
             s == Records(attempts)
             n == Len(s)
  <1>1. s \in Seq(all) /\ \A x \in all : \E i \in DOMAIN s : s[i] = x
    BY RecordsListed DEF Lists
  <1>2. \A i, j \in DOMAIN s : i < j => <<s[i], s[j]>> \in RecordOrder(all)
    BY RecordsListed DEF Lists
  <1>3. ASSUME NEW x \in all PROVE x.route \in Nat /\ x.item.id \in Nat
    <2>1. PICK i \in DOMAIN attempts :
            /\ attempts[i].route.id \in Nat /\ Constructible(attempts[i].batch)
            /\ x.route = attempts[i].route.id /\ x.item \in attempts[i].batch.items
      BY ObservedForm
    <2> QED BY <2>1 DEF Constructible, ValidObservation
  <1> HIDE DEF s, all
  <1>4. n \in Nat /\ DOMAIN s = 1 .. n /\ \A i \in 1 .. n : s[i] \in all
    BY <1>1
  <1>5. ASSUME NEW i \in 1 .. n, NEW j \in 1 .. n, s[i] = s[j] PROVE i = j
    <2>1. s[i].route \in Nat /\ s[i].item.id \in Nat
      BY <1>3, <1>4
    <2>2. ~ (<<s[i], s[j]>> \in RecordOrder(all)) /\ ~ (<<s[j], s[i]>> \in RecordOrder(all))
      BY <1>5, <2>1 DEF RecordOrder
    <2>3. ~ (i < j) /\ ~ (j < i)
      BY <1>2, <1>4, <2>2
    <2>4. i \in Int /\ j \in Int
      BY <1>4
    <2> QED BY <2>3, <2>4
  <1>6. Numbers(s, all, n)
    BY <1>1, <1>4, <1>5 DEF Numbers
  <1> QED BY <1>4, <1>6 DEF s, all

Class(p, root, n) == {i \in 1 .. n : Find(p, i) = root}
Members(recs, p, root, n) == {recs[i] : i \in Class(p, root, n)}

LEMMA SharingJoins ==
  ASSUME NEW recs, NEW all, NEW n, Numbers(recs, all, n), NEW p, JoinedForm(p, recs, n),
         NEW i \in 1 .. n, NEW j \in 1 .. n, SharesKey(recs[i], recs[j])
  PROVE  Find(p, i) = Find(p, j)
  <1>1. PICK b \in 1 .. 3 : Key(Bases[b], recs[i]) = Key(Bases[b], recs[j])
    BY DEF SharesKey, Bases
  <1>2. n \in Nat /\ DOMAIN recs = 1 .. n
    BY DEF Numbers
  <1>3. CASE i = j
    BY <1>3
  <1>4. CASE i # j
    BY <1>1, <1>2, <1>4, JoinedByKey
  <1> QED BY <1>3, <1>4

LEMMA MembersCount ==
  ASSUME NEW recs, NEW all, NEW n, Numbers(recs, all, n), NEW p, NEW root
  PROVE  /\ IsFiniteSet(Class(p, root, n)) /\ IsFiniteSet(Members(recs, p, root, n))
         /\ Cardinality(Members(recs, p, root, n)) = Cardinality(Class(p, root, n))
  <1> DEFINE M == Class(p, root, n)
             S == Members(recs, p, root, n)
             f == [i \in M |-> recs[i]]
  <1>1. IsFiniteSet(M)
    <2>1. 1 \in Int /\ n \in Int
      BY DEF Numbers
    <2>2. IsFiniteSet(1 .. n)
      BY <2>1, FS_Interval
    <2>3. M \in SUBSET (1 .. n)
      BY DEF Class
    <2> QED BY <2>2, <2>3, FS_Subset
  <1>2. f \in Bijection(M, S)
    <2>1. f \in [M -> S]
      BY DEF Members
    <2>2. \A i, j \in M : f[i] = f[j] => i = j
      BY DEF Class, Numbers
    <2>3. \A x \in S : \E i \in M : f[i] = x
      BY DEF Members
    <2> HIDE DEF f, M, S
    <2> QED BY <2>1, <2>2, <2>3 DEF Bijection, Injection, Surjection, IsInjective
  <1> HIDE DEF f, M, S
  <1>3. ExistsBijection(M, S)
    BY <1>2 DEF ExistsBijection
  <1> QED BY <1>1, <1>3, FS_Bijection DEF M, S

\* A class is closed and connected, ...
LEMMA ClassIsCluster ==
  ASSUME NEW recs, NEW all, NEW n, Numbers(recs, all, n), NEW p, JoinedForm(p, recs, n),
         NEW root \in 1 .. n, Cardinality(Class(p, root, n)) > 1
  PROVE  Members(recs, p, root, n) \in SUBSET all /\ IsCluster(Members(recs, p, root, n), all)
  <1> DEFINE M == Class(p, root, n)
             C == Members(recs, p, root, n)
  <1>1. /\ n \in Nat /\ \A i \in 1 .. n : recs[i] \in all
        /\ \A x \in all : \E i \in 1 .. n : recs[i] = x
        /\ \A i, j \in 1 .. n : recs[i] = recs[j] => i = j
    BY DEF Numbers
  <1>2. C \in SUBSET all
    BY <1>1 DEF Members, Class
  <1>3. Cardinality(C) > 1
    BY MembersCount
  <1>4. \A i \in 1 .. n : i \in M <=> Find(p, i) = root
    BY DEF Class
  <1>5. \A i \in 1 .. n : recs[i] \in C <=> i \in M
    BY <1>1 DEF Members, Class
  <1>6. \A x \in C : \E i \in M : recs[i] = x
    BY DEF Members
  <1>7. M \in SUBSET (1 .. n)
    BY DEF Class
  <1> HIDE DEF M, C
  <1>8. ASSUME NEW x \in C, NEW y \in all \ C, SharesKey(x, y) PROVE FALSE
    <2>1. PICK i \in M : recs[i] = x
      BY <1>6
    <2>2. PICK j \in 1 .. n : recs[j] = y
      BY <1>1
    <2>3. Find(p, i) = Find(p, j)
      BY <1>7, <1>8, <2>1, <2>2, SharingJoins
    <2>4. j \in M
      BY <1>4, <1>7, <2>3
    <2> QED BY <1>5, <2>2, <2>4
  <1>9. ASSUME NEW D \in (SUBSET C) \ {{}, C} PROVE \E x \in D, y \in C \ D : SharesKey(x, y)
    <2> SUFFICES ASSUME \A x \in D, y \in C \ D : ~ SharesKey(x, y) PROVE FALSE
      OBVIOUS
    <2> DEFINE E == {i \in 1 .. n : recs[i] \in D}
    <2>1. E \in SUBSET (1 .. n)
      OBVIOUS
    <2>2. \A i \in E : i \in M
      BY <1>5
    <2>3. CutOff(E, p, recs, n)
      <3> SUFFICES ASSUME NEW i \in E, NEW j \in (1 .. n) \ E, Find(p, i) = Find(p, j)
                   PROVE  ~ SharesKey(recs[i], recs[j])
        BY DEF CutOff
      <3>1. j \in M
        BY <1>4, <2>1, <2>2
      <3>2. recs[j] \in C \ D /\ recs[i] \in D
        BY <1>5, <3>1
      <3> QED BY <3>2
    <2>4. Apart(E, p, n)
      <3> HIDE DEF E
      <3> QED BY <2>1, <2>3 DEF JoinedForm, Connected
    <2>5. PICK x \in D : TRUE
      OBVIOUS
    <2>6. PICK y \in C : y \notin D
      OBVIOUS
    <2>7. PICK i \in M : recs[i] = x
      BY <1>6
    <2>8. PICK j \in M : recs[j] = y
      BY <1>6
    <2>9. i \in E /\ j \in (1 .. n) \ E /\ Find(p, i) = Find(p, j)
      BY <1>4, <1>7, <2>5, <2>6, <2>7, <2>8
    <2> QED BY <2>4, <2>9 DEF Apart
  <1>10. IsCluster(C, all)
    BY <1>3, <1>8, <1>9 DEF IsCluster
  <1> QED BY <1>2, <1>10 DEF C

\* ... and every closed and connected set of more than one is a class.
LEMMA ClusterIsClass ==
  ASSUME NEW recs, NEW all, NEW n, Numbers(recs, all, n), NEW p, JoinedForm(p, recs, n),
         NEW C \in SUBSET all, IsCluster(C, all)
  PROVE  \E root \in 1 .. n :
           Find(p, root) = root /\ Cardinality(Class(p, root, n)) > 1 /\ Members(recs, p, root, n) = C
  <1>1. /\ n \in Nat /\ \A i \in 1 .. n : recs[i] \in all
        /\ \A x \in all : \E i \in 1 .. n : recs[i] = x
    BY DEF Numbers
  <1>2. PICK i \in 1 .. n : recs[i] \in C
    <2>1. C # {}
      <3> SUFFICES ASSUME C = {} PROVE FALSE
        OBVIOUS
      <3>1. Cardinality(C) = 0 /\ Cardinality(C) > 1
        BY FS_EmptySet DEF IsCluster
      <3> QED BY <3>1
    <2> QED BY <1>1, <2>1
  <1> DEFINE root == Find(p, i)
             M == Class(p, root, n)
             S == Members(recs, p, root, n)
             E == {k \in 1 .. n : recs[k] \in C}
  <1>3. root \in 1 .. n /\ Find(p, root) = root
    BY <1>1, FindForm DEF JoinedForm
  <1> HIDE DEF root
  <1>4. i \in M /\ M \in SUBSET (1 .. n) /\ \A k \in 1 .. n : k \in M <=> Find(p, k) = root
    BY DEF Class, root
  <1>5. (\A x \in S : \E k \in M : recs[k] = x) /\ \A k \in M : recs[k] \in S
    BY DEF Members
  <1> HIDE DEF M, S
  <1>6. \A k \in M : recs[k] \in C
    <2>1. CutOff(E, p, recs, n)
      BY <1>1 DEF CutOff, IsCluster
    <2>2. Apart(E, p, n)
      <3>1. E \in SUBSET (1 .. n)
        OBVIOUS
      <3> HIDE DEF E
      <3> QED BY <2>1, <3>1 DEF JoinedForm, Connected
    <2> SUFFICES ASSUME NEW k \in M, recs[k] \notin C PROVE FALSE
      OBVIOUS
    <2>3. i \in E /\ k \in (1 .. n) \ E /\ Find(p, i) = Find(p, k)
      BY <1>2, <1>4
    <2> QED BY <2>2, <2>3 DEF Apart
  <1>7. S = C
    <2>1. S \subseteq C
      BY <1>5, <1>6
    <2>2. ASSUME S # C PROVE FALSE
      <3>1. S \in (SUBSET C) \ {{}, C}
        BY <1>4, <1>5, <2>1, <2>2
      <3>2. PICK x \in S, y \in C \ S : SharesKey(x, y)
        BY <3>1 DEF IsCluster
      <3>3. PICK k \in M : recs[k] = x
        BY <1>5
      <3>4. PICK j \in 1 .. n : recs[j] = y
        BY <1>1
      <3>5. Find(p, k) = Find(p, j)
        BY <1>4, <3>2, <3>3, <3>4, SharingJoins
      <3>6. j \in M
        BY <1>4, <3>5
      <3> QED BY <1>5, <3>2, <3>4, <3>6
    <2> QED BY <2>2
  <1>8. Cardinality(M) > 1
    <2>1. Cardinality(S) = Cardinality(M)
      BY MembersCount DEF M, S
    <2> QED BY <1>7, <2>1 DEF IsCluster
  <1> QED BY <1>3, <1>7, <1>8 DEF M, S

\* Two members of a class agree on a basis just when an edge of the class does.
Agree(C, b) == \E x, y \in C : x # y /\ Key(Bases[b], x) = Key(Bases[b], y)

Priorities(recs, p, root) == {e.priority : e \in {d \in Edges(recs) : Find(p, d.left) = root}}

LEMMA BasesOfClass ==
  ASSUME NEW recs, NEW all, NEW n, Numbers(recs, all, n), NEW p, JoinedForm(p, recs, n),
         NEW root \in 1 .. n
  PROVE  /\ Priorities(recs, p, root) \in SUBSET (1 .. 3)
         /\ \A b \in 1 .. 3 : b \in Priorities(recs, p, root) <=> Agree(Members(recs, p, root, n), b)
  <1> DEFINE P == Priorities(recs, p, root)
             C == Members(recs, p, root, n)
  <1>1. /\ n \in Nat /\ DOMAIN recs = 1 .. n
        /\ \A i, j \in 1 .. n : recs[i] = recs[j] => i = j
    BY DEF Numbers
  <1>2. P \in SUBSET (1 .. 3)
    BY <1>1, EdgeForm DEF Priorities
  <1>3. ASSUME NEW b \in 1 .. 3, b \in P PROVE Agree(C, b)
    <2>1. PICK e \in Edges(recs) : e.priority = b /\ Find(p, e.left) = root
      BY <1>3 DEF Priorities
    <2>2. /\ e.left \in 1 .. n /\ e.right \in 1 .. n /\ e.left # e.right
          /\ Key(Bases[b], recs[e.left]) = Key(Bases[b], recs[e.right])
      BY <1>1, <2>1, EdgeForm
    <2>3. Find(p, e.right) = root
      BY <2>1 DEF JoinedForm
    <2>4. recs[e.left] \in C /\ recs[e.right] \in C
      BY <2>1, <2>2, <2>3 DEF Members, Class
    <2>5. recs[e.left] # recs[e.right]
      BY <1>1, <2>2
    <2> HIDE DEF C
    <2> QED BY <2>2, <2>4, <2>5 DEF Agree
  <1>4. ASSUME NEW b \in 1 .. 3, Agree(C, b) PROVE b \in P
    <2>1. PICK x \in C, y \in C : x # y /\ Key(Bases[b], x) = Key(Bases[b], y)
      BY <1>4 DEF Agree
    <2>2. PICK i \in 1 .. n : Find(p, i) = root /\ recs[i] = x
      BY DEF Members, Class
    <2>3. PICK j \in 1 .. n : Find(p, j) = root /\ recs[j] = y
      BY DEF Members, Class
    <2>4. PICK e \in Edges(recs) : e.priority = b /\ Find(p, e.left) = Find(p, i)
      BY <1>1, <2>1, <2>2, <2>3, JoinedByKey
    <2> QED BY <2>2, <2>4 DEF Priorities
  <1> QED BY <1>2, <1>3, <1>4

\* A connected set of more than one agrees on some basis.
LEMMA ClusterAgrees ==
  ASSUME NEW C, NEW all, IsCluster(C, all), NEW x \in C
  PROVE  \E b \in 1 .. 3 : Agree(C, b)
  <1>1. {x} \in (SUBSET C) \ {{}, C}
    <2>1. {x} # C
      <3> SUFFICES ASSUME {x} = C PROVE FALSE
        OBVIOUS
      <3>1. Cardinality(C) = 1 /\ Cardinality(C) > 1
        BY FS_Singleton DEF IsCluster
      <3> QED BY <3>1
    <2> QED BY <2>1
  <1>2. PICK y \in C \ {x} : SharesKey(x, y)
    <2>1. \E z \in {x}, y \in C \ {x} : SharesKey(z, y)
      BY <1>1 DEF IsCluster
    <2> QED BY <2>1
  <1>3. PICK b \in 1 .. 3 : Key(Bases[b], x) = Key(Bases[b], y)
    BY <1>2 DEF SharesKey, Bases
  <1> QED BY <1>2, <1>3 DEF Agree

\* What a receipt makes of a class.
Strongest(recs, p, root) == CHOOSE b \in Priorities(recs, p, root) : \A q \in Priorities(recs, p, root) : b <= q

ClusterOf(recs, p, root, n) ==
  [basis |-> Bases[Strongest(recs, p, root)], representative |-> recs[root],
   members |-> Members(recs, p, root, n)]

Roots(p, n) == {i \in 1 .. n : Find(p, i) = i /\ Cardinality(Class(p, i, n)) > 1}

LEMMA ClustersForm ==
  ASSUME NEW attempts, NEW n, DOMAIN Records(attempts) = 1 .. n
  PROVE  LET recs == Records(attempts)
             p == Joined(recs)
         IN  Clusters(attempts) = {ClusterOf(recs, p, root, n) : root \in Roots(p, n)}
  BY DEF Clusters, ClusterOf, Strongest, Priorities, Members, Class, Roots

\* The basis of a cluster is the first that two of its members agree on.
LEMMA StrongestBasis ==
  ASSUME NEW recs, NEW all, NEW n, Numbers(recs, all, n), NEW p, JoinedForm(p, recs, n),
         NEW root \in Roots(p, n)
  PROVE  LET C == Members(recs, p, root, n)
         IN  \A b \in DOMAIN Bases : Bases[b] = ClusterOf(recs, p, root, n).basis <=>
               Agree(C, b) /\ \A a \in 1 .. b - 1 : ~ Agree(C, a)
  <1> DEFINE C == Members(recs, p, root, n)
             P == Priorities(recs, p, root)
             s == Strongest(recs, p, root)
  <1>1. root \in 1 .. n /\ Find(p, root) = root /\ Cardinality(Class(p, root, n)) > 1
    BY DEF Roots
  <1>2. P \in SUBSET (1 .. 3) /\ \A b \in 1 .. 3 : b \in P <=> Agree(C, b)
    BY <1>1, BasesOfClass
  <1>3. P # {}
    <2>1. IsCluster(C, all) /\ recs[root] \in C
      BY <1>1, ClassIsCluster DEF Members, Class
    <2>2. \E b \in 1 .. 3 : Agree(C, b)
      BY <2>1, ClusterAgrees
    <2> QED BY <1>2, <2>2
  <1> HIDE DEF C
  <1>4. s \in P /\ \A q \in P : s <= q
    <2>1. s = CHOOSE b \in P : \A q \in P : b <= q
      BY DEF Strongest
    <2> HIDE DEF P, s
    <2>2. P \in SUBSET Nat
      BY <1>2
    <2>3. \E b \in P : \A q \in P : b <= q
      BY <1>3, <2>2, LeastNat
    <2> QED BY <2>1, <2>3
  <1>5. ClusterOf(recs, p, root, n).basis = Bases[s]
    BY DEF ClusterOf
  <1> HIDE DEF P, s
  <1>6. DOMAIN Bases = 1 .. 3 /\ \A a, b \in 1 .. 3 : Bases[a] = Bases[b] => a = b
    <2>1. DOMAIN Bases = 1 .. 3
      BY DEF Bases
    <2>2. Bases[1] # Bases[2] /\ Bases[1] # Bases[3] /\ Bases[2] # Bases[3]
      BY DEF Bases
    <2>3. \A a \in 1 .. 3 : a = 1 \/ a = 2 \/ a = 3
      OBVIOUS
    <2> QED BY <2>1, <2>2, <2>3
  <1>7. s \in 1 .. 3
    BY <1>2, <1>4
  <1>8. ASSUME NEW b \in 1 .. 3
        PROVE  b = s <=> Agree(C, b) /\ \A a \in 1 .. b - 1 : ~ Agree(C, a)
    <2>1. ASSUME b = s PROVE Agree(C, b) /\ \A a \in 1 .. b - 1 : ~ Agree(C, a)
      <3>1. Agree(C, b)
        BY <1>2, <1>4, <1>7, <2>1
      <3>2. ASSUME NEW a \in 1 .. b - 1, Agree(C, a) PROVE FALSE
        <4>1. a \in 1 .. 3 /\ a < s
          BY <1>7, <2>1
        <4>2. a \in P
          BY <1>2, <3>2, <4>1
        <4> QED BY <1>4, <1>7, <4>1, <4>2
      <3> QED BY <3>1, <3>2
    <2>2. ASSUME Agree(C, b), \A a \in 1 .. b - 1 : ~ Agree(C, a) PROVE b = s
      <3>1. b \in P
        BY <1>2, <2>2
      <3>2. s <= b
        BY <1>4, <3>1
      <3>3. Agree(C, s)
        BY <1>2, <1>4, <1>7
      <3>4. ~ (s < b)
        <4>1. s < b => s \in 1 .. b - 1
          BY <1>7
        <4> QED BY <2>2, <3>3, <4>1
      <3> QED BY <1>7, <3>2, <3>4
    <2> QED BY <2>1, <2>2
  <1>9. \A b \in DOMAIN Bases : Bases[b] = Bases[s] <=> Agree(C, b) /\ \A a \in 1 .. b - 1 : ~ Agree(C, a)
    BY <1>6, <1>7, <1>8
  <1> QED BY <1>5, <1>9 DEF C

ExactClusters(clusters, all) ==
  /\ {c.members : c \in clusters} = {C \in SUBSET all : IsCluster(C, all)}
  /\ \A c \in clusters :
       /\ c.representative \in c.members
       /\ \A b \in DOMAIN Bases : Bases[b] = c.basis <=>
            /\ Agree(c.members, b)
            /\ \A a \in 1 .. b - 1 : ~ Agree(c.members, a)

LEMMA ClustersExact ==
  ASSUME NEW answer, NEW query, NEW attempts, attempts = Attempts(Routes, answer, query)
  PROVE  ExactClusters(Clusters(attempts), Observed(attempts))
  <1> DEFINE all == Observed(attempts)
             recs == Records(attempts)
             p == Joined(recs)
  <1>1. PICK n \in Nat : Numbers(recs, all, n)
    BY RecordsNumber
  <1>2. DOMAIN recs = 1 .. n
    BY <1>1 DEF Numbers
  <1>3. JoinedForm(p, recs, n)
    BY <1>2, JoinedIs
  <1>4. Clusters(attempts) = {ClusterOf(recs, p, root, n) : root \in Roots(p, n)}
    BY <1>2, ClustersForm
  <1> HIDE DEF p, recs, all
  <1>5. \A root \in Roots(p, n) : root \in 1 .. n /\ Find(p, root) = root /\ Cardinality(Class(p, root, n)) > 1
    BY DEF Roots
  <1>6. \A root : /\ ClusterOf(recs, p, root, n).members = Members(recs, p, root, n)
                  /\ ClusterOf(recs, p, root, n).representative = recs[root]
    BY DEF ClusterOf
  <1>7. ASSUME NEW c \in Clusters(attempts)
        PROVE  c.members \in {C \in SUBSET all : IsCluster(C, all)}
    <2>1. PICK root \in Roots(p, n) : c = ClusterOf(recs, p, root, n)
      BY <1>4
    <2> QED BY <1>1, <1>3, <1>5, <1>6, <2>1, ClassIsCluster
  <1>8. ASSUME NEW C \in SUBSET all, IsCluster(C, all) PROVE \E c \in Clusters(attempts) : c.members = C
    <2>1. PICK root \in 1 .. n :
            Find(p, root) = root /\ Cardinality(Class(p, root, n)) > 1 /\ Members(recs, p, root, n) = C
      BY <1>1, <1>3, <1>8, ClusterIsClass
    <2>2. ClusterOf(recs, p, root, n) \in Clusters(attempts)
      BY <1>4, <2>1 DEF Roots
    <2> QED BY <1>6, <2>1, <2>2
  <1>9. ASSUME NEW c \in Clusters(attempts)
        PROVE  /\ c.representative \in c.members
               /\ \A b \in DOMAIN Bases : Bases[b] = c.basis <=>
                    /\ Agree(c.members, b)
                    /\ \A a \in 1 .. b - 1 : ~ Agree(c.members, a)
    <2>1. PICK root \in Roots(p, n) : c = ClusterOf(recs, p, root, n)
      BY <1>4
    <2>2. c.representative \in c.members
      BY <1>5, <1>6, <2>1 DEF Members, Class
    <2>3. \A b \in DOMAIN Bases : Bases[b] = c.basis <=>
            /\ Agree(c.members, b)
            /\ \A a \in 1 .. b - 1 : ~ Agree(c.members, a)
      BY <1>1, <1>3, <1>6, <2>1, StrongestBasis
    <2> QED BY <2>2, <2>3
  <1>10. {c.members : c \in Clusters(attempts)} = {C \in SUBSET all : IsCluster(C, all)}
    BY <1>7, <1>8
  <1>11. ExactClusters(Clusters(attempts), all)
    BY <1>9, <1>10 DEF ExactClusters
  <1> QED BY <1>11 DEF all

\* Duplicates are exact: the union-find of the portfolio gives just the classes
\* of a receipt's observations that chains of shared keys connect, whatever
\* the routes answer, and names each by the first basis that two members share.
THEOREM DuplicatesExact == Spec => []ClustersAreExactMatches
  <1>1. Init => WorkForm /\ CollectedByPortfolio
    BY InitWorkForm DEF Init, NotStarted, CollectedByPortfolio, CollectedForm
  <1>2. WorkForm /\ CollectedByPortfolio /\ [Next]_vars => (WorkForm /\ CollectedByPortfolio)'
    BY WorkFormStep, CollectedStep
  <1>3. ASSUME CollectedByPortfolio PROVE ClustersAreExactMatches
    <2>1. ASSUME NEW r \in Runs, At(r, "collected")
          PROVE  ExactClusters(work[r].receipt.clusters, Observed(work[r].receipt.attempts))
      <3>1. PICK query, answer : work[r].receipt = Receipt(Routes, answer, query)
        BY <1>3, <2>1 DEF CollectedByPortfolio, CollectedForm, At
      <3>2. /\ work[r].receipt.attempts = Attempts(Routes, answer, query)
            /\ work[r].receipt.clusters = Clusters(Attempts(Routes, answer, query))
        BY <3>1 DEF Receipt
      <3> QED BY <3>2, ClustersExact
    <2> QED BY <2>1 DEF ExactClusters, Agree, ClustersAreExactMatches
  <1> QED BY <1>1, <1>2, <1>3, PTL DEF Spec

-----------------------------------------------------------------------------
(* Complete answers: what the public providers leave out                     *)

\* The attempt that is answered with is the last one that was made.
LEMMA ReplyIsLast ==
  ASSUME NEW request, Tried(request)
  PROVE  Reply(request) = Last(request)
  <1> DEFINE n == Len(request)
             P(k) == /\ k = n \/ request[k].status \notin Retryable
                     /\ \A m \in 1 .. k - 1 : request[m].status \in Retryable
  <1>1. request \in Seq(Range(request)) /\ request # <<>>
    BY DEF Tried
  <1>2. n \in Nat /\ DOMAIN request = 1 .. n /\ n >= 1
    <2> HIDE DEF n
    <2>1. n = Len(request)
      BY DEF n
    <2> QED BY <1>1, <2>1
  <1>3. \A m \in 1 .. n - 1 : request[m].status \in Retryable
    BY DEF Tried
  <1>4. n \in DOMAIN request /\ P(n)
    BY <1>2, <1>3
  <1>5. ASSUME NEW k \in DOMAIN request, P(k) PROVE k = n
    <2>1. k # n => k \in 1 .. n - 1
      BY <1>2
    <2> QED BY <1>3, <1>5, <2>1
  <1>6. Reply(request) = request[CHOOSE k \in DOMAIN request : P(k)]
    BY DEF Reply
  <1> HIDE DEF P, n
  <1>7. (CHOOSE k \in DOMAIN request : P(k)) = n
    BY <1>4, <1>5
  <1> QED BY <1>6, <1>7 DEF Last, n

\* A fetch goes on only when none of the outcomes ends it.
LEMMA EndingAnswered ==
  ASSUME NEW n \in Nat, NEW outcomes, DOMAIN outcomes = 1 .. n
  PROVE  /\ Ending(outcomes) = "answered" => \A i \in 1 .. n : outcomes[i] = "answered"
         /\ (\A i \in 1 .. n : outcomes[i] # "complete") => Ending(outcomes) # "complete"
  <1> DEFINE ends == {i \in DOMAIN outcomes : outcomes[i] # "answered"}
  <1>1. ends # {} => Min(ends) \in ends
    <2> SUFFICES ASSUME ends # {} PROVE Min(ends) \in ends
      OBVIOUS
    <2>1. ends \in SUBSET Nat
      OBVIOUS
    <2> HIDE DEF ends
    <2>2. \E x \in ends : \A y \in ends : x <= y
      BY <2>1, LeastNat
    <2> QED BY <2>2 DEF Min
  <1>2. Ending(outcomes) = IF ends = {} THEN "answered" ELSE outcomes[Min(ends)]
    BY DEF Ending
  <1>3. CASE ends = {}
    BY <1>2, <1>3
  <1>4. CASE ends # {}
    <2>1. Min(ends) \in 1 .. n /\ outcomes[Min(ends)] # "answered"
      BY <1>1, <1>4
    <2> HIDE DEF ends
    <2> QED BY <1>2, <1>4, <2>1
  <1> QED BY <1>3, <1>4

LEMMA PlacesFinite ==
  ASSUME NEW n \in Nat, NEW places \in SUBSET (1 .. n)
  PROVE  IsFiniteSet(places) /\ Cardinality(places) \in Nat /\ Cardinality(places) <= n
  <1>1. 1 \in Int /\ n \in Int
    OBVIOUS
  <1>2. IsFiniteSet(1 .. n) /\ Cardinality(1 .. n) = IF 1 > n THEN 0 ELSE n - 1 + 1
    BY <1>1, FS_Interval
  <1>3. Cardinality(1 .. n) = n
    BY <1>2
  <1>4. IsFiniteSet(places) /\ Cardinality(places) <= Cardinality(1 .. n)
    BY <1>2, FS_Subset
  <1> QED BY <1>3, <1>4, FS_CardinalityType

\* What fits within a limit is taken whole.
LEMMA FirstOfAll ==
  ASSUME NEW n \in Nat, NEW k \in Int, NEW places \in SUBSET (1 .. n), Cardinality(places) <= k
  PROVE  FirstOf(places, k) = places
  <1>1. IsFiniteSet(places)
    BY PlacesFinite
  <1>2. ASSUME NEW i \in places PROVE Cardinality({j \in places : j <= i}) <= k
    <2>1. {j \in places : j <= i} \subseteq places
      OBVIOUS
    <2>2. /\ Cardinality({j \in places : j <= i}) <= Cardinality(places)
          /\ Cardinality({j \in places : j <= i}) \in Nat /\ Cardinality(places) \in Nat
      BY <1>1, <2>1, FS_Subset, FS_CardinalityType
    <2> QED BY <2>2
  <1> QED BY <1>2 DEF FirstOf

LEMMA NotComplete ==
  /\ \A reply : Disposition(reply) # "complete"
  /\ \A query, world : Issuer(query, world) # "complete"
  /\ \A query, page : PageOutcome(query, page) # "complete"
  /\ \A query, status, now : Terminal(query, status, now).status = status
  <1>1. ASSUME NEW reply PROVE Disposition(reply) # "complete"
    BY DEF Disposition
  <1> QED BY <1>1 DEF Issuer, PageOutcome, Terminal

\* The contents and the addresses of some observations.
Shown(items) == UNION {{o.content, o.uri} : o \in items}

LEMMA ShownContent ==
  ASSUME NEW items, NEW row, NEW observed, NEW available, NEW retrieved,
         Normal(row, observed, available, retrieved) \in items
  PROVE  row.content \in Shown(items) /\ row.uri \in Shown(items)
  <1> DEFINE o == Normal(row, observed, available, retrieved)
  <1>1. o.content = row.content /\ o.uri = row.uri
    BY DEF Normal
  <1> HIDE DEF o
  <1> QED BY <1>1 DEF Shown, o

LEMMA FilingsComplete ==
  ASSUME NEW query, NEW world, query.capability = "regulatory_filings",
         query.after \in Nat, query.until \in Nat,
         FittingWorld(query, world), Filings(query, world).status = "complete"
  PROVE  HeldFilings(query, world) \subseteq Shown(Filings(query, world).items)
  <1> DEFINE index == Reply(world.index)
             files == index.payload.files
             listed == Relevant(files, query)
             asked == FirstOf(listed, MaxFiles)
             reply(i) == Reply(files[i].request)
             raised == \/ \E i \in asked :
                            reply(i).status = 0 \/ (reply(i).status \in 200 .. 299 /\ reply(i).payload = Malformed)
                       \/ \E f \in Range(files) : f.from > f.to
             lost == {i \in asked : Disposition(reply(i)) # "answered" \/ reply(i).payload = NotAnObject}
             rows == index.payload.recent \cup UNION {reply(i).payload : i \in asked \ lost}
             outcomes == <<IF query.domestic THEN "answered" ELSE "unavailable",
                           Issuer(query, world), Disposition(index)>>
             ends == Ending(outcomes)
             status == Gapped(LeavesFilesOut(listed, lost))
             items == {Normal(row, row.filed, Available(row), world.now) : row \in {x \in rows : MatchesFiling(x, query)}}
  <1>1. Filings(query, world) =
          IF ends # "answered" THEN Terminal(query, ends, world.now)
          ELSE IF raised THEN Terminal(query, "unavailable", world.now)
          ELSE Normalized(query, status, items, TRUE, world.now)
    BY DEF Filings
  <1>2. ends # "complete" /\ (ends = "answered" => Disposition(index) = "answered")
    <2>1. DOMAIN outcomes = 1 .. 3 /\ outcomes[1] # "complete" /\ outcomes[2] # "complete" /\ outcomes[3] # "complete"
          /\ outcomes[3] = Disposition(index)
      BY NotComplete
    <2> HIDE DEF outcomes
    <2>2. /\ Ending(outcomes) = "answered" => \A i \in 1 .. 3 : outcomes[i] = "answered"
          /\ (\A i \in 1 .. 3 : outcomes[i] # "complete") => Ending(outcomes) # "complete"
      BY <2>1, EndingAnswered
    <2>3. \A i \in 1 .. 3 : i = 1 \/ i = 2 \/ i = 3
      OBVIOUS
    <2>4. 3 \in 1 .. 3
      OBVIOUS
    <2> QED BY <2>1, <2>2, <2>3, <2>4
  <1> HIDE DEF ends, raised, status, items
  <1>3. ends = "answered" /\ ~ raised /\ status = "complete" /\ Filings(query, world).items = items
    BY <1>1, <1>2, NotComplete DEF Normalized
  <1>4. lost = {} /\ ~ (Cardinality(listed) > MaxFiles)
    BY <1>3 DEF status, Gapped, LeavesFilesOut
  <1>5. /\ index = Last(world.index)
        /\ files \in Seq(Range(files)) /\ \A f \in Range(files) : FittingFile(f)
    BY <1>2, <1>3, ReplyIsLast DEF FittingWorld, Indexed, FittingIndex
  <1> HIDE DEF files
  <1>6. Len(files) \in Nat /\ DOMAIN files = 1 .. Len(files) /\ \A i \in DOMAIN files : files[i] \in Range(files)
    BY <1>5 DEF Range
  <1>7. asked = listed
    <2>1. listed \in SUBSET (1 .. Len(files))
      BY <1>6 DEF Relevant
    <2>2. Cardinality(listed) \in Nat /\ MaxFiles \in Nat
      BY <1>6, <2>1, PlacesFinite, SourcesAssumption
    <2> HIDE DEF listed
    <2>3. MaxFiles \in Int /\ Cardinality(listed) <= MaxFiles
      BY <1>4, <2>2
    <2> QED BY <1>6, <2>1, <2>3, FirstOfAll
  <1>8. ASSUME NEW i \in DOMAIN files, NEW row \in Held(files[i].request), MatchesFiling(row, query)
        PROVE  row \in rows
    <2> DEFINE f == files[i]
    <2>1. FittingFile(f) /\ f \in Range(files)
      BY <1>5, <1>6
    <2>2. f.from \in Nat /\ f.to \in Nat /\ f.from <= f.to
      <3>1. f.from \in Nat /\ f.to \in Nat
        BY <2>1 DEF FittingFile
      <3>2. ~ (f.from > f.to)
        <4>1. ~ \E x \in Range(files) : x.from > x.to
          BY <1>3 DEF raised
        <4> HIDE DEF f
        <4> QED BY <2>1, <4>1
      <3> HIDE DEF f
      <3> QED BY <3>1, <3>2
    <2>3. row.filed \in Nat /\ Day(f.from) <= Day(row.filed) /\ Day(row.filed) <= Day(f.to)
      BY <1>8, <2>1, <2>2 DEF FittingFile
    <2>4. Day(query.after) <= Day(row.filed) /\ Day(row.filed) <= Day(query.until)
      BY <1>8 DEF MatchesFiling
    <2>5. \A t \in Nat : Day(t) \in Int
      BY DayAssumption DEF Day
    <2>6. i \in listed
      <3>1. Day(f.to) >= Day(query.after) /\ Day(f.from) <= Day(query.until)
        BY <2>2, <2>3, <2>4, <2>5
      <3> QED BY <3>1 DEF Relevant
    <2>7. i \in asked \ lost
      BY <1>4, <1>7, <2>6
    <2>8. reply(i) = Last(f.request)
      BY <2>1, ReplyIsLast DEF FittingFile
    <2>9. row \in reply(i).payload
      BY <1>8, <2>8 DEF Held
    <2> HIDE DEF reply, asked, lost
    <2> QED BY <2>7, <2>9
  <1>9. ASSUME NEW row \in rows, MatchesFiling(row, query)
        PROVE  row.content \in Shown(items)
    <2>1. Normal(row, row.filed, Available(row), world.now) \in items
      BY <1>9 DEF items
    <2> QED BY <2>1, ShownContent
  <1> DEFINE held == index.payload.recent \cup UNION {Held(f.request) : f \in Range(files)}
  <1>10. HeldFilings(query, world) = {row.content : row \in {x \in held : MatchesFiling(x, query)}}
    BY <1>5 DEF HeldFilings, files
  <1>11. ASSUME NEW row \in held, MatchesFiling(row, query) PROVE row \in rows
    <2>1. CASE row \in index.payload.recent
      BY <2>1
    <2>2. CASE row \in UNION {Held(f.request) : f \in Range(files)}
      <3>1. PICK i \in DOMAIN files : row \in Held(files[i].request)
        BY <2>2 DEF Range
      <3> QED BY <1>8, <1>11, <3>1
    <2> QED BY <1>11, <2>1, <2>2
  <1> HIDE DEF rows, held
  <1> QED BY <1>3, <1>9, <1>10, <1>11

LEMMA FactsComplete ==
  ASSUME NEW query, NEW world, query.capability \in Factual, IsFiniteSet(query.wanted),
         FittingWorld(query, world), Facts(query, world) # Raises, Facts(query, world).status = "complete"
  PROVE  HeldFacts(query, world) \subseteq Shown(Facts(query, world).items)
  <1> DEFINE index == Reply(world.index)
             payload == index.payload
             rows == {i \in DOMAIN payload : MatchesFact(payload[i], query)}
             taken == {payload[i] : i \in FirstOf(rows, MaxFacts)}
             returned == UNION {row.covers : row \in taken}
             gaps == (IF Cardinality(rows) > MaxFacts THEN 1 ELSE 0) + Cardinality(query.wanted \ returned)
             dated == IF payload = <<>> THEN 0 ELSE 1
             outcomes == <<Issuer(query, world), Disposition(index)>>
             ends == Ending(outcomes)
             status == IF taken = {} THEN "unavailable" ELSE Gapped(gaps > 0)
             items == {Normal(row, IF row.start = Unstated THEN row.filed ELSE row.start, EndOfDay(row.filed), world.now) :
                         row \in taken}
  <1>1. Facts(query, world) =
          IF ends # "answered" THEN Terminal(query, ends, world.now)
          ELSE IF gaps + dated > MaxGaps THEN Raises
          ELSE Normalized(query, status, items, TRUE, world.now)
    BY DEF Facts
  <1>2. ends # "complete" /\ (ends = "answered" => Disposition(index) = "answered")
    <2>1. DOMAIN outcomes = 1 .. 2 /\ outcomes[1] # "complete" /\ outcomes[2] # "complete"
          /\ outcomes[2] = Disposition(index)
      BY NotComplete
    <2> HIDE DEF outcomes
    <2>2. /\ Ending(outcomes) = "answered" => \A i \in 1 .. 2 : outcomes[i] = "answered"
          /\ (\A i \in 1 .. 2 : outcomes[i] # "complete") => Ending(outcomes) # "complete"
      BY <2>1, EndingAnswered
    <2>3. \A i \in 1 .. 2 : i = 1 \/ i = 2
      OBVIOUS
    <2>4. 2 \in 1 .. 2
      OBVIOUS
    <2> QED BY <2>1, <2>2, <2>3, <2>4
  <1> HIDE DEF ends, gaps, status, items, dated
  <1>3. ends = "answered" /\ status = "complete" /\ Facts(query, world).items = items
    BY <1>1, <1>2, NotComplete DEF Normalized
  <1>4. ~ (Cardinality(rows) > MaxFacts)
    <2>1. ~ (gaps > 0)
      BY <1>3 DEF status, Gapped
    <2>2. Cardinality(query.wanted \ returned) \in Nat
      BY FS_Difference, FS_CardinalityType
    <2> HIDE DEF rows, returned
    <2> QED BY <2>1, <2>2 DEF gaps
  <1>5. /\ index = Last(world.index) /\ payload \in Seq(Range(payload))
    <2>1. query.capability \notin {"regulatory_filings", "prediction_markets"}
      BY DEF Factual
    <2> QED BY <1>2, <1>3, <2>1, ReplyIsLast DEF FittingWorld, Indexed, FittingIndex
  <1> HIDE DEF payload
  <1>6. Len(payload) \in Nat /\ DOMAIN payload = 1 .. Len(payload)
    BY <1>5
  <1>7. FirstOf(rows, MaxFacts) = rows
    <2>1. rows \in SUBSET (1 .. Len(payload))
      BY <1>6
    <2> HIDE DEF rows
    <2>2. MaxFacts \in Int /\ Cardinality(rows) <= MaxFacts
      BY <1>4, <1>6, <2>1, PlacesFinite, SourcesAssumption
    <2> QED BY <1>6, <2>1, <2>2, FirstOfAll
  <1>8. HeldFacts(query, world) = {row.content : row \in {x \in Range(payload) : MatchesFact(x, query)}}
    BY <1>5 DEF HeldFacts, payload
  <1>9. ASSUME NEW row \in Range(payload), MatchesFact(row, query) PROVE row.content \in Shown(items)
    <2>1. PICK i \in DOMAIN payload : payload[i] = row
      BY DEF Range
    <2>2. row \in taken
      BY <1>7, <1>9, <2>1
    <2>3. Normal(row, IF row.start = Unstated THEN row.filed ELSE row.start, EndOfDay(row.filed), world.now) \in items
      BY <2>2 DEF items
    <2> QED BY <2>3, ShownContent
  <1> QED BY <1>3, <1>8, <1>9

\* The first article of an address within the window stands for all of them.
LEMMA NewsComplete ==
  ASSUME NEW query, NEW world, query.capability \in {"company_news", "global_news"}, query.max \in Int,
         FittingWorld(query, world), News(query, world).status = "complete"
  PROVE  HeldArticles(query, world) \subseteq Shown(News(query, world).items)
  <1> DEFINE index == Reply(world.index)
             articles == index.payload
             inside(i) == query.after <= articles[i].seen /\ articles[i].seen <= query.until
             kept == {i \in DOMAIN articles : inside(i) /\
                        \A j \in 1 .. i - 1 : inside(j) => articles[j].uri # articles[i].uri}
             taken == FirstOf(kept, query.max)
             status == Gapped(Len(articles) >= query.max)
             items == {Normal(articles[i], articles[i].seen, articles[i].seen, world.now) : i \in taken}
  <1>1. News(query, world) =
          IF Disposition(index) # "answered" THEN Terminal(query, Disposition(index), world.now)
          ELSE Normalized(query, status, items, FALSE, world.now)
    BY DEF News
  <1> HIDE DEF status, items
  <1>2. Disposition(index) = "answered" /\ status = "complete" /\ News(query, world).items = items
    BY <1>1, NotComplete DEF Normalized
  <1>3. ~ (Len(articles) >= query.max)
    BY <1>2 DEF status, Gapped
  <1>4. index = Last(world.index) /\ articles \in Seq(Range(articles))
    <2>1. query.capability \notin {"regulatory_filings", "prediction_markets"}
      OBVIOUS
    <2> QED BY <1>2, <2>1, ReplyIsLast DEF FittingWorld, Indexed, FittingIndex
  <1>5. HeldArticles(query, world) =
          {x.uri : x \in {y \in Range(articles) : query.after <= y.seen /\ y.seen <= query.until}}
    BY <1>4 DEF HeldArticles
  <1> HIDE DEF articles
  <1>6. Len(articles) \in Nat /\ DOMAIN articles = 1 .. Len(articles)
    BY <1>4
  <1>7. taken = kept
    <2>1. kept \in SUBSET (1 .. Len(articles))
      BY <1>6
    <2> HIDE DEF kept
    <2>2. Cardinality(kept) <= query.max
      BY <1>3, <1>6, <2>1, PlacesFinite
    <2> QED BY <1>6, <2>1, <2>2, FirstOfAll
  <1>8. ASSUME NEW x \in Range(articles), query.after <= x.seen /\ x.seen <= query.until
        PROVE  x.uri \in Shown(items)
    <2> DEFINE same == {i \in DOMAIN articles : inside(i) /\ articles[i].uri = x.uri}
    <2>1. same \in SUBSET Nat /\ same # {}
      BY <1>6, <1>8 DEF Range
    <2> HIDE DEF same
    <2>2. PICK i \in same : \A j \in same : i <= j
      BY <2>1, LeastNat
    <2>3. i \in DOMAIN articles /\ inside(i) /\ articles[i].uri = x.uri
      BY <2>2 DEF same
    <2>4. ASSUME NEW j \in 1 .. i - 1, inside(j) PROVE articles[j].uri # articles[i].uri
      <3>1. j \in DOMAIN articles /\ i \in Nat /\ j \in Nat /\ ~ (i <= j)
        BY <1>6, <2>3
      <3> QED BY <2>2, <2>3, <2>4, <3>1 DEF same
    <2>5. i \in taken
      BY <1>7, <2>3, <2>4
    <2>6. Normal(articles[i], articles[i].seen, articles[i].seen, world.now) \in items
      BY <2>5 DEF items
    <2> QED BY <2>3, <2>6, ShownContent
  <1> QED BY <1>2, <1>5, <1>8

LEMMA MarketsComplete ==
  ASSUME NEW query, NEW world, query.capability = "prediction_markets", query.max \in Int,
         FittingWorld(query, world), PredictionMarkets(query, world).status = "complete"
  PROVE  HeldMarkets(world) \subseteq Shown(PredictionMarkets(query, world).items)
  <1> DEFINE index == Reply(world.index)
             markets == index.payload.markets
             open == {i \in DOMAIN markets : markets[i].open}
             raised == \/ \E i, j \in open : i # j /\ markets[i].id = markets[j].id
                       \/ \E i \in open : markets[i].updated > world.now
             precedes(i, j) == \/ markets[i].updated < markets[j].updated
                               \/ markets[i].updated = markets[j].updated /\ markets[i].id < markets[j].id
             taken == {markets[j] : j \in
                         {i \in open : Cardinality({k \in open : ~ precedes(i, k)}) <= query.max}}
             gap == index.payload.more \/ Cardinality(open) > query.max
             status == Gapped(gap)
             items == {Normal(x, world.now, world.now, world.now) : x \in taken}
  <1>1. PredictionMarkets(query, world) =
          IF Disposition(index) # "answered" THEN Terminal(query, Disposition(index), world.now)
          ELSE IF world.now > query.cutoff \/ raised \/ (gap /\ taken = {})
            THEN Terminal(query, "unavailable", world.now)
          ELSE Normalized(query, status, items, FALSE, world.now)
    BY DEF PredictionMarkets
  <1> HIDE DEF status, items, raised, taken
  <1>2. Disposition(index) = "answered" /\ status = "complete" /\ PredictionMarkets(query, world).items = items
    BY <1>1, NotComplete DEF Normalized
  <1>3. ~ (Cardinality(open) > query.max)
    BY <1>2 DEF status, Gapped
  <1>4. index = Last(world.index) /\ markets \in Seq(Range(markets))
    BY <1>2, ReplyIsLast DEF FittingWorld, Indexed, FittingIndex
  <1>5. HeldMarkets(world) = {x.content : x \in {y \in Range(markets) : y.open}}
    BY <1>4 DEF HeldMarkets
  <1> HIDE DEF markets, precedes
  <1>6. Len(markets) \in Nat /\ DOMAIN markets = 1 .. Len(markets)
    BY <1>4
  <1>7. ASSUME NEW i \in open PROVE Cardinality({k \in open : ~ precedes(i, k)}) <= query.max
    <2>1. open \in SUBSET (1 .. Len(markets))
      BY <1>6
    <2> HIDE DEF open
    <2>2. IsFiniteSet(open) /\ Cardinality(open) \in Nat /\ Cardinality(open) <= query.max
      BY <1>3, <1>6, <2>1, PlacesFinite
    <2>3. {k \in open : ~ precedes(i, k)} \subseteq open
      OBVIOUS
    <2> DEFINE D == {k \in open : ~ precedes(i, k)}
    <2> HIDE DEF D
    <2>4. D \subseteq open
      BY <2>3 DEF D
    <2>5. Cardinality(D) \in Nat /\ Cardinality(D) <= Cardinality(open)
      BY <2>2, <2>4, FS_Subset, FS_CardinalityType
    <2>6. Cardinality(D) <= query.max
      BY <2>2, <2>5
    <2> QED BY <2>6 DEF D
  <1>8. ASSUME NEW x \in Range(markets), x.open PROVE x.content \in Shown(items)
    <2>1. PICK i \in DOMAIN markets : markets[i] = x
      BY DEF Range
    <2>2. x \in taken
      BY <1>7, <1>8, <2>1 DEF taken
    <2>3. Normal(x, world.now, world.now, world.now) \in items
      BY <2>2 DEF items
    <2> QED BY <2>3, ShownContent
  <1> QED BY <1>2, <1>5, <1>8

\* A series that is answered has been read page by page.
LEMMA SeriesAnswered ==
  ASSUME NEW query, NEW series, FittingSeries(query, series)
  PROVE  /\ SeriesOutcome(query, series) # "complete"
         /\ SeriesOutcome(query, series) = "answered" => DOMAIN series \subseteq 1 .. Pages(series)
  <1> DEFINE outcomes == [p \in 1 .. Pages(series) |-> PageOutcome(query, series[p])]
  <1>1. Len(series) \in Nat /\ DOMAIN series = 1 .. Len(series)
    BY DEF FittingSeries
  <1>2. MaxPages \in Nat
    BY SourcesAssumption
  <1>3. CASE PageOutcome(query, series[1]) # "answered" \/ Pages(series) \notin 1 .. MaxPages
    BY <1>3, NotComplete DEF SeriesOutcome
  <1>4. CASE PageOutcome(query, series[1]) = "answered" /\ Pages(series) \in 1 .. MaxPages
    <2>1. Pages(series) \in Nat /\ Len(series) <= Pages(series)
      BY <1>2, <1>4 DEF FittingSeries
    <2>2. SeriesOutcome(query, series) = Ending(outcomes)
      BY <1>4 DEF SeriesOutcome
    <2>3. DOMAIN outcomes = 1 .. Pages(series) /\ \A p \in 1 .. Pages(series) : outcomes[p] # "complete"
      BY NotComplete
    <2> HIDE DEF outcomes
    <2>4. Ending(outcomes) # "complete"
      BY <2>1, <2>3, EndingAnswered
    <2> QED BY <1>1, <2>1, <2>2, <2>4
  <1> QED BY <1>3, <1>4

LEMMA MacroComplete ==
  ASSUME NEW query, NEW world, query.capability = "macro",
         FittingWorld(query, world), Macro(query, world).status = "complete"
  PROVE  HeldValues(query, world) \subseteq Shown(Macro(query, world).items)
  <1> DEFINE outcomes == [i \in DOMAIN world.series |-> SeriesOutcome(query, world.series[i])]
             ends == IF world.start > query.cutoff THEN "unavailable" ELSE Ending(outcomes)
             wanted(x) == query.after <= x.year /\ x.year <= query.until
             values(page) ==
               {Normal(row, row.year, page.at, page.at) : row \in
                  {x \in Reply(page.request).payload.rows : query.after <= x.year /\ x.year <= query.until}}
             items == UNION {UNION {values(s[p]) : p \in 1 .. Pages(s)} : s \in Range(world.series)}
  <1>1. Macro(query, world) =
          IF ends # "answered" THEN Terminal(query, ends, world.now)
          ELSE Normalized(query, "complete", items, TRUE, world.now)
    BY DEF Macro
  <1>2. /\ world.series \in Seq(Range(world.series))
        /\ \A series \in Range(world.series) : FittingSeries(query, series)
    BY DEF FittingWorld
  <1>3. /\ Len(world.series) \in Nat /\ DOMAIN world.series = 1 .. Len(world.series)
        /\ \A i \in DOMAIN world.series : world.series[i] \in Range(world.series)
    BY <1>2 DEF Range
  <1>4. /\ DOMAIN outcomes = 1 .. Len(world.series)
        /\ \A i \in 1 .. Len(world.series) : outcomes[i] # "complete"
        /\ \A i \in 1 .. Len(world.series) : outcomes[i] = SeriesOutcome(query, world.series[i])
    BY <1>2, <1>3, SeriesAnswered
  <1> HIDE DEF outcomes
  <1>5. ends # "complete" /\ (ends = "answered" => \A i \in 1 .. Len(world.series) : outcomes[i] = "answered")
    BY <1>3, <1>4, EndingAnswered
  <1> HIDE DEF ends, items
  <1>6. ends = "answered" /\ Macro(query, world).items = items
    BY <1>1, <1>5, NotComplete DEF Normalized
  <1>7. ASSUME NEW series \in Range(world.series), NEW page \in Range(series),
               NEW row \in Last(page.request).payload.rows, wanted(row)
        PROVE  row.content \in Shown(items)
    <2>1. PICK i \in DOMAIN world.series : world.series[i] = series
      BY DEF Range
    <2>2. SeriesOutcome(query, series) = "answered" /\ FittingSeries(query, series)
      BY <1>2, <1>3, <1>4, <1>5, <1>6, <2>1
    <2>3. PICK p \in DOMAIN series : series[p] = page
      BY DEF Range
    <2>4. p \in 1 .. Pages(series)
      BY <2>2, <2>3, SeriesAnswered
    <2>5. Reply(page.request) = Last(page.request)
      BY <2>2, ReplyIsLast DEF FittingSeries
    <2>6. Normal(row, row.year, page.at, page.at) \in values(page)
      BY <1>7, <2>5
    <2> HIDE DEF values
    <2>7. Normal(row, row.year, page.at, page.at) \in items
      BY <2>3, <2>4, <2>6 DEF items
    <2> QED BY <2>7, ShownContent
  <1>8. HeldValues(query, world) =
          {row.content : row \in {x \in UNION {UNION {Last(page.request).payload.rows : page \in Range(series)} :
                                            series \in Range(world.series)} : wanted(x)}}
    BY DEF HeldValues
  <1> HIDE DEF wanted
  <1> QED BY <1>6, <1>7, <1>8

LEMMA PublicAnswerComplete ==
  ASSUME NEW r \in Runs, NEW request \in CandidateRequests(r), NEW query \in CandidateQueries(r, request),
         NEW world \in CandidateWorlds(r, query), ValidQuery(query),
         PublicAnswer(query, world.public) # Raises, PublicAnswer(query, world.public).status = "complete"
  PROVE  Matching(query, world.public) \subseteq Shown(PublicAnswer(query, world.public).items)
  <1> DEFINE held == world.public
  <1>1. /\ query.capability \in Windowed => query.after \in Nat /\ query.until \in Nat
        /\ query.capability \in Factual => IsFiniteSet(query.wanted)
        /\ FittingWorld(query, held)
    BY WorldsAssumption
  <1>2. query.capability \in Limited => query.max \in Int
    <2>1. MaxQueryItems \in Nat
      BY SourcesAssumption
    <2> QED BY <2>1 DEF ValidQuery
  <1> HIDE DEF held
  <1>3. PublicAnswer(query, held) # Raises /\ PublicAnswer(query, held).status = "complete"
    BY DEF held
  <1>4. CASE query.capability = "regulatory_filings"
    <2>1. PublicAnswer(query, held) = Filings(query, held) /\ Matching(query, held) = HeldFilings(query, held)
      BY <1>4 DEF PublicAnswer, Matching, Factual
    <2> QED BY <1>1, <1>3, <1>4, <2>1, FilingsComplete DEF Windowed, held
  <1>5. CASE query.capability \in Factual
    <2>1. PublicAnswer(query, held) = Facts(query, held) /\ Matching(query, held) = HeldFacts(query, held)
      BY <1>5 DEF PublicAnswer, Matching, Factual
    <2> QED BY <1>1, <1>3, <1>5, <2>1, FactsComplete DEF held
  <1>6. CASE query.capability \in {"company_news", "global_news"}
    <2>1. PublicAnswer(query, held) = News(query, held) /\ Matching(query, held) = HeldArticles(query, held)
      BY <1>6 DEF PublicAnswer, Matching, Factual
    <2> QED BY <1>1, <1>2, <1>3, <1>6, <2>1, NewsComplete DEF Limited, held
  <1>7. CASE query.capability = "macro"
    <2>1. PublicAnswer(query, held) = Macro(query, held) /\ Matching(query, held) = HeldValues(query, held)
      BY <1>7 DEF PublicAnswer, Matching, Factual
    <2> QED BY <1>1, <1>3, <1>7, <2>1, MacroComplete DEF held
  <1>8. CASE query.capability = "prediction_markets"
    <2>1. PublicAnswer(query, held) = PredictionMarkets(query, held) /\ Matching(query, held) = HeldMarkets(held)
      BY <1>8 DEF PublicAnswer, Matching, Factual
    <2> QED BY <1>1, <1>2, <1>3, <1>8, <2>1, MarketsComplete DEF Limited, held
  <1>9. CASE query.capability \notin Factual \cup
               {"regulatory_filings", "company_news", "global_news", "macro", "prediction_markets"}
    BY <1>9 DEF Matching, held
  <1> QED BY <1>4, <1>5, <1>6, <1>7, <1>8, <1>9

\* An answer of a public provider that calls itself complete leaves out
\* nothing that the provider held of what was asked for.
THEOREM CompleteAnswersAreWhole == Spec => []CompleteAnswersOmitNothing
  <1>1. Init => WorkForm /\ CollectedByPortfolio
    BY InitWorkForm DEF Init, NotStarted, CollectedByPortfolio, CollectedForm
  <1>2. WorkForm /\ CollectedByPortfolio /\ [Next]_vars => (WorkForm /\ CollectedByPortfolio)'
    BY WorkFormStep, CollectedStep
  <1>3. ASSUME WorkForm, CollectedByPortfolio PROVE CompleteAnswersOmitNothing
    <2> SUFFICES ASSUME NEW r \in Runs, At(r, "collected"),
                        NEW a \in Range(work[r].receipt.attempts),
                        Retained(a), a.route.adapter = "public", a.status = "complete"
                 PROVE  Matching(work[r].receipt.query, work[r].world.public) \subseteq Shown(a.batch.items)
      BY DEF CompleteAnswersOmitNothing, Shown
    <2> DEFINE world == work[r].world
               request == work[r].request
    <2>1. request \in CandidateRequests(r)
      BY <1>3 DEF WorkForm, RunForm, At
    <2>2. PICK query \in CandidateQueries(r, request) :
            /\ ValidQuery(query)
            /\ world \in CandidateWorlds(r, query)
            /\ work[r].receipt = Receipt(Routes, AnswersIn(query, world), query)
      BY <1>3 DEF CollectedByPortfolio, CollectedForm, At
    <2> DEFINE answer == AnswersIn(query, world)
               attempts == Attempts(Routes, answer, query)
    <2>3. work[r].receipt.query = query /\ work[r].receipt.attempts = attempts
      BY <2>2 DEF Receipt
    <2> HIDE DEF world, request, answer
    <2>4. a \in AttemptSet(answer, query)
      <3>1. attempts \in Seq(AttemptSet(answer, query))
        BY AttemptsTaken DEF AttemptsForm
      <3>2. a \in Range(attempts)
        BY <2>3
      <3> HIDE DEF attempts
      <3> QED BY <3>1, <3>2, SeqRange
    <2>5. PICK route \in Routes : a \in AttemptsAt(route, answer[route.id], query)
      BY <2>4 DEF AttemptSet
    <2>6. a.route = route /\ a.batch = answer[route.id] /\ a.status = a.batch.status
      BY <2>5 DEF AttemptsAt, Retained
    <2>7. answer[route.id] = Answer(route, query, world)
      <3>1. (CHOOSE x \in Routes : x.id = route.id) = route
        BY HistoryAssumption
      <3> QED BY <3>1 DEF answer, AnswersIn
    <2>8. Answer(route, query, world) = PublicAnswer(query, world.public)
      BY <2>6 DEF Answer
    <2>9. a.batch # Raises
      BY <2>5 DEF AttemptsAt, Retained
    <2>10. Matching(query, world.public) \subseteq Shown(PublicAnswer(query, world.public).items)
      BY <2>1, <2>2, <2>6, <2>7, <2>8, <2>9, PublicAnswerComplete
    <2> QED BY <2>3, <2>6, <2>7, <2>8, <2>10 DEF world
  <1> QED BY <1>1, <1>2, <1>3, PTL DEF Spec

-----------------------------------------------------------------------------
(* The quality store                                                         *)

Opened == {"quality_published", "memory_published"}

\* No forecast of a run has the identifier of a forecast of another one.
OwnIds ==
  \A r, x \in Runs : r # x /\ work[r].step \in Registering /\ work[x].step \in Registering =>
    \A f \in work[r].forecasts, g \in work[x].forecasts : f.id # g.id

\* What is on disk of one forecast.
Loadable(f, observations, cards) ==
  /\ observations \in Seq(CandidateOutcomes(f))
  /\ ValidLedger(f.id, observations)
  /\ \A i \in DOMAIN observations :
       observations[i].status = "resolved" => f.resolve_after <= observations[i].available
  /\ DOMAIN cards \subseteq DOMAIN observations
  /\ \A i \in DOMAIN cards : cards[i] = Score(f, SubSeq(observations, 1, i))

JournalInvariant ==
  /\ OwnIds
  /\ \A f \in Registered :
       /\ f.id \in DOMAIN journals /\ f.id \in DOMAIN scorecards
       /\ Loadable(f, journals[f.id], scorecards[f.id])

LEMMA RegisteredForm ==
  ASSUME WorkForm, NEW f \in Registered
  PROVE  \E r \in Runs : work[r].step \in Opened /\ f \in work[r].forecasts /\ OwnForecasts(r, work[r].forecasts)
  BY DEF Registered, Opened, WorkForm, RunForm, Registering

LEMMA RegisteredTypes ==
  ASSUME WorkForm, NEW f \in Registered
  PROVE  /\ f.at \in Nat /\ f.resolve_after \in Nat
         /\ \A o \in CandidateOutcomes(f) : o.available \in Nat /\ o.resolved \in Nat
  BY RegisteredForm DEF OwnForecasts

LEMMA SameForecast ==
  ASSUME WorkForm, OwnIds, NEW f \in Registered, NEW g \in Registered, f.id = g.id
  PROVE  f = g
  <1>1. PICK r \in Runs : work[r].step \in Opened /\ f \in work[r].forecasts /\ OwnForecasts(r, work[r].forecasts)
    BY RegisteredForm
  <1>2. PICK x \in Runs : work[x].step \in Opened /\ g \in work[x].forecasts /\ OwnForecasts(x, work[x].forecasts)
    BY RegisteredForm
  <1>3. r = x
    BY <1>1, <1>2 DEF OwnIds, Opened, Registering
  <1> QED BY <1>1, <1>2, <1>3 DEF OwnForecasts, ConformantRegistration

-----------------------------------------------------------------------------
LEMMA PrefixOfAppend ==
  ASSUME NEW A, NEW s \in Seq(A), NEW e \in A, NEW i \in 1 .. Len(s)
  PROVE  SubSeq(Append(s, e), 1, i) = SubSeq(s, 1, i)
  <1>1. \A j \in 1 .. i : Append(s, e)[j] = s[j]
    OBVIOUS
  <1>2. i \in Nat /\ i <= Len(s) /\ Append(s, e) \in Seq(A) /\ Len(Append(s, e)) = Len(s) + 1
    OBVIOUS
  <1> QED BY <1>1, <1>2

LEMMA WholePrefix ==
  ASSUME NEW A, NEW s \in Seq(A)
  PROVE  SubSeq(s, 1, Len(s)) = s
  OBVIOUS

LEMMA LastOfAppend ==
  ASSUME NEW A, NEW s \in Seq(A), NEW e \in A
  PROVE  Last(Append(s, e)) = e /\ Append(s, e) # <<>> /\ Append(s, e) \in Seq(A)
  BY DEF Last

\* An observation that may be appended was not made before its time.
LEMMA AppendableInTime ==
  ASSUME NEW f, NEW A, NEW observations \in Seq(A), NEW o \in A, Appendable(f, observations, o),
         f.resolve_after \in Nat, o.available \in Nat, o.status = "resolved"
  PROVE  f.resolve_after <= o.available
  <1>1. Score(f, Append(observations, o)).status # "policy_blocked"
    BY DEF Appendable
  <1>2. Last(Append(observations, o)) = o /\ Append(observations, o) # <<>>
    BY LastOfAppend
  <1>3. ~ Premature(f, o)
    BY <1>1, <1>2 DEF Score
  <1> QED BY <1>3 DEF Premature

\* A scorecard names the last of the observations that it scores.
LEMMA ScoreNames ==
  ASSUME NEW f, NEW A, NEW observations \in Seq(A), NEW i \in DOMAIN observations
  PROVE  Score(f, SubSeq(observations, 1, i)).observation = observations[i].id
  <1> DEFINE s == SubSeq(observations, 1, i)
  <1>1. s # <<>> /\ Last(s) = observations[i]
    BY DEF Last
  <1> DEFINE o == Last(s)
  <1>2. CASE o.status # "resolved"
    <2>1. Score(f, s) = [status |-> "insufficient_evidence", observation |-> o.id, metric |-> Missing]
      BY <1>1, <1>2 DEF Score
    <2> QED BY <1>1, <2>1
  <1>3. CASE o.status = "resolved" /\ Premature(f, o)
    <2>1. Score(f, s) = [status |-> "policy_blocked", observation |-> o.id, metric |-> Missing]
      BY <1>1, <1>3 DEF Score
    <2> QED BY <1>1, <2>1
  <1>4. CASE o.status = "resolved" /\ ~ Premature(f, o) /\ Outcome(f, o) = Missing
    <2>1. Score(f, s) = [status |-> "insufficient_evidence", observation |-> o.id, metric |-> Missing]
      BY <1>1, <1>4 DEF Score
    <2> QED BY <1>1, <2>1
  <1>5. CASE o.status = "resolved" /\ ~ Premature(f, o) /\ Outcome(f, o) # Missing
    <2>1. Score(f, s) = [status |-> "scored", observation |-> o.id, metric |-> Metric(f, Outcome(f, o))]
      BY <1>1, <1>5 DEF Score
    <2> QED BY <1>1, <2>1
  <1> QED BY <1>2, <1>3, <1>4, <1>5

LEMMA LoadableAppend ==
  ASSUME NEW f, NEW observations, NEW cards, Loadable(f, observations, cards),
         NEW o \in CandidateOutcomes(f), Appendable(f, observations, o),
         f.resolve_after \in Nat, o.available \in Nat
  PROVE  /\ Loadable(f, Append(observations, o), cards)
         /\ Loadable(f, Append(observations, o),
                     Filed(cards, Len(Append(observations, o)), Score(f, Append(observations, o))))
  <1> DEFINE A == CandidateOutcomes(f)
             new == Append(observations, o)
             n == Len(new)
  <1>1. observations \in Seq(A)
    BY DEF Loadable
  <1>2. /\ new \in Seq(A) /\ n = Len(observations) + 1 /\ Len(observations) \in Nat
        /\ DOMAIN new = 1 .. n /\ DOMAIN observations = 1 .. Len(observations)
        /\ new[n] = o /\ \A i \in DOMAIN observations : new[i] = observations[i]
    BY <1>1
  <1>3. ValidLedger(f.id, new)
    BY DEF Appendable
  <1>4. o.status = "resolved" => f.resolve_after <= o.available
    BY <1>1, AppendableInTime
  <1>5. \A i \in DOMAIN observations : SubSeq(new, 1, i) = SubSeq(observations, 1, i)
    BY <1>1, <1>2, PrefixOfAppend
  <1>6. SubSeq(new, 1, n) = new
    BY <1>2, WholePrefix
  <1> HIDE DEF A, new, n
  <1>7. \A i \in DOMAIN new : new[i].status = "resolved" => f.resolve_after <= new[i].available
    BY <1>2, <1>4 DEF Loadable
  <1>8. DOMAIN observations \subseteq DOMAIN new /\ n \in DOMAIN new /\ n \notin DOMAIN observations
    BY <1>2
  <1>9. /\ DOMAIN cards \subseteq DOMAIN observations
        /\ \A i \in DOMAIN cards : cards[i] = Score(f, SubSeq(new, 1, i))
    BY <1>5 DEF Loadable
  <1>10. Loadable(f, new, cards)
    BY <1>2, <1>3, <1>7, <1>8, <1>9 DEF Loadable, A
  <1>11. Loadable(f, new, Filed(cards, n, Score(f, new)))
    <2> DEFINE filed == Filed(cards, n, Score(f, new))
    <2>1. DOMAIN filed = DOMAIN cards \cup {n}
      BY DEF Filed
    <2>2. \A i \in DOMAIN filed : filed[i] = Score(f, SubSeq(new, 1, i))
      BY <1>6, <1>9 DEF Filed
    <2> HIDE DEF filed
    <2>3. DOMAIN filed \subseteq DOMAIN new
      BY <1>8, <1>9, <2>1
    <2>4. Loadable(f, new, filed)
      BY <1>2, <1>3, <1>7, <2>2, <2>3 DEF Loadable, A
    <2> QED BY <2>4 DEF filed
  <1> QED BY <1>10, <1>11 DEF new, n

LEMMA LoadableEmpty ==
  ASSUME NEW f
  PROVE  Loadable(f, <<>>, <<>>)
  BY DEF Loadable, ValidLedger

-----------------------------------------------------------------------------
\* The kinds of steps, by what they do to the forecasts of a run.
OutsideStep(r) == work[r].step \notin Registering /\ work'[r].step \notin Registering

InsideStep(r) ==
  /\ work[r].step \in Registering /\ work'[r].step \in Registering
  /\ work'[r].forecasts = work[r].forecasts

OthersStay(r) == \A x \in Runs \ {r} : work'[x] = work[x]

LEMMA PublishingStep ==
  ASSUME WorkForm, NEW r \in Runs, PublishQuality(r) \/ PublishDecision(r)
  PROVE  OthersStay(r) /\ InsideStep(r) /\ work'[r].step \in Opened
  <1>1. work[r].step \in Registering \ {"quality_staged"}
    BY DEF PublishQuality, PublishDecision, At, Registering
  <1>2. work[r] = [step |-> work[r].step, forecasts |-> work[r].forecasts]
    BY <1>1 DEF WorkForm, RunForm
  <1>3. PICK step \in Opened : work' = [work EXCEPT ![r] = [work[r] EXCEPT !.step = step]]
    BY DEF PublishQuality, PublishDecision, WorkForm, Opened
  <1>4. work'[r] = [work[r] EXCEPT !.step = step] /\ \A x \in Runs \ {r} : work'[x] = work[x]
    BY <1>3 DEF WorkForm
  <1>5. [work[r] EXCEPT !.step = step] = [step |-> step, forecasts |-> work[r].forecasts]
    BY <1>2
  <1>6. work'[r] = [step |-> step, forecasts |-> work[r].forecasts]
    BY <1>4, <1>5
  <1> QED BY <1>1, <1>3, <1>4, <1>6 DEF OthersStay, InsideStep, Opened, Registering

LEMMA StagingStep ==
  ASSUME WorkForm, NEW r \in Runs, StageQuality(r)
  PROVE  /\ OthersStay(r)
         /\ work[r].step \notin Registering
         /\ work'[r].step \in Registering \ Opened
         /\ \A f \in work'[r].forecasts, g \in KnownForecasts(r) : f.id # g.id
  BY DEF StageQuality, At, WorkForm, OthersStay, Opened, Registering

LEMMA DecidingStep ==
  ASSUME WorkForm, NEW r \in Runs, StageDecision(r)
  PROVE  /\ OthersStay(r) /\ InsideStep(r)
         /\ work[r].step \notin Opened /\ work'[r].step \notin Opened
  BY DEF StageDecision, At, WorkForm, OthersStay, InsideStep, Opened, Registering

LEMMA PreparingStep ==
  ASSUME WorkForm, NEW r \in Runs, Plan(r) \/ RecallOthers(r) \/ Collect(r) \/ Submit(r)
  PROVE  OthersStay(r) /\ OutsideStep(r)
  <1>1. ASSUME NEW w, work' = [work EXCEPT ![r] = w], w.step \in Steps \ Registering,
               work[r].step \in Steps \ Registering
        PROVE  OthersStay(r) /\ OutsideStep(r)
    BY <1>1 DEF OthersStay, OutsideStep, WorkForm
  <1>2. CASE Plan(r)
    BY <1>1, <1>2 DEF Plan, At, Steps, Registering
  <1>3. CASE RecallOthers(r)
    BY <1>1, <1>3 DEF RecallOthers, At, Steps, Registering
  <1>4. CASE Collect(r)
    BY <1>1, <1>4 DEF Collect, At, Steps, Registering
  <1>5. CASE Submit(r)
    BY <1>1, <1>5 DEF Submit, Steps, Registering
  <1> QED BY <1>2, <1>3, <1>4, <1>5

LEMMA OwnIdsStep ==
  ASSUME WorkForm, OwnIds, [Next]_vars
  PROVE  OwnIds'
  <1>1. ASSUME NEW r \in Runs, OthersStay(r), OutsideStep(r) \/ InsideStep(r) PROVE OwnIds'
    BY <1>1 DEF OwnIds, OthersStay, OutsideStep, InsideStep
  <1>2. ASSUME NEW r \in Runs, StageQuality(r) PROVE OwnIds'
    <2>1. /\ OthersStay(r)
          /\ \A f \in work'[r].forecasts, g \in KnownForecasts(r) : f.id # g.id
      BY <1>2, StagingStep
    <2>2. \A x \in Runs \ {r} : work[x].step \in Registering => work[x].forecasts \subseteq KnownForecasts(r)
      BY DEF KnownForecasts
    <2> QED BY <2>1, <2>2 DEF OwnIds, OthersStay
  <1>3. CASE UNCHANGED work
    BY <1>3 DEF OwnIds
  <1> QED BY <1>1, <1>2, <1>3, PublishingStep, DecidingStep, PreparingStep
          DEF Next, Review, AppendOutcome, vars

LEMMA RegisteredStays ==
  ASSUME NEW r \in Runs, OthersStay(r),
         \/ work[r].step \notin Opened /\ work'[r].step \notin Opened
         \/ /\ work[r].step \in Opened /\ work'[r].step \in Opened
            /\ work'[r].forecasts = work[r].forecasts
  PROVE  Registered' = Registered
  BY DEF Registered, OthersStay, Opened

LEMMA JournalUntouched ==
  ASSUME JournalInvariant, OwnIds', Registered' = Registered, UNCHANGED <<journals, scorecards>>
  PROVE  JournalInvariant'
  BY DEF JournalInvariant

LEMMA JournalStep ==
  ASSUME WorkForm, JournalInvariant, [Next]_vars
  PROVE  JournalInvariant'
  <1>1. OwnIds'
    BY OwnIdsStep DEF JournalInvariant
  <1>2. ASSUME NEW r \in Runs,
               Plan(r) \/ RecallOthers(r) \/ Collect(r) \/ Submit(r) \/ StageQuality(r) \/ StageDecision(r)
        PROVE  JournalInvariant'
    <2>1. OthersStay(r) /\ work[r].step \notin Opened /\ work'[r].step \notin Opened
      BY <1>2, PreparingStep, StagingStep, DecidingStep DEF OutsideStep, Opened, Registering
    <2>2. Registered' = Registered
      BY <2>1, RegisteredStays
    <2>3. UNCHANGED <<journals, scorecards>>
      BY <1>2 DEF Plan, RecallOthers, Collect, Submit, StageQuality, StageDecision
    <2> QED BY <1>1, <2>2, <2>3, JournalUntouched
  <1>3. ASSUME NEW r \in Runs, PublishDecision(r) PROVE JournalInvariant'
    <2>1. OthersStay(r) /\ InsideStep(r) /\ work'[r].step \in Opened
      BY <1>3, PublishingStep
    <2>2. work[r].step \in Opened
      BY <1>3 DEF PublishDecision, At, Opened
    <2>3. Registered' = Registered
      BY <2>1, <2>2, RegisteredStays DEF InsideStep
    <2> QED BY <1>1, <1>3, <2>3, JournalUntouched DEF PublishDecision
  <1>4. ASSUME NEW r \in Runs, PublishQuality(r) PROVE JournalInvariant'
    <2> DEFINE ids == {f.id : f \in work[r].forecasts}
               opened(files) == [i \in ids \cup DOMAIN files |-> IF i \in ids THEN <<>> ELSE files[i]]
    <2>1. OthersStay(r) /\ InsideStep(r)
      BY <1>4, PublishingStep
    <2>2. journals' = opened(journals) /\ scorecards' = opened(scorecards)
      BY <1>4 DEF PublishQuality
    <2>3. work[r].step = "memory_staged" /\ work[r].step \in Registering
      BY <1>4 DEF PublishQuality, At, Registering
    <2>4. ASSUME NEW f \in Registered'
          PROVE  /\ f.id \in DOMAIN journals' /\ f.id \in DOMAIN scorecards'
                 /\ Loadable(f, journals'[f.id], scorecards'[f.id])
      <3>1. CASE f \in work[r].forecasts
        <4>1. f.id \in ids
          BY <3>1
        <4> HIDE DEF ids
        <4>2. /\ f.id \in DOMAIN journals' /\ f.id \in DOMAIN scorecards'
              /\ journals'[f.id] = <<>> /\ scorecards'[f.id] = <<>>
          BY <2>2, <4>1
        <4> QED BY <4>2, LoadableEmpty
      <3>2. CASE f \notin work[r].forecasts
        <4>1. PICK x \in Runs : work'[x].step \in Opened /\ f \in work'[x].forecasts
          BY DEF Registered, Opened
        <4>2. x # r /\ work[x].step \in Opened /\ f \in work[x].forecasts
          BY <2>1, <3>2, <4>1 DEF OthersStay, InsideStep
        <4>3. f.id \notin ids
          BY <2>3, <4>2 DEF JournalInvariant, OwnIds, Opened, Registering
        <4>4. f \in Registered
          BY <4>2 DEF Registered, Opened
        <4>5. /\ f.id \in DOMAIN journals /\ f.id \in DOMAIN scorecards
              /\ Loadable(f, journals[f.id], scorecards[f.id])
          BY <4>4 DEF JournalInvariant
        <4> HIDE DEF ids
        <4>6. /\ f.id \in DOMAIN journals' /\ f.id \in DOMAIN scorecards'
              /\ journals'[f.id] = journals[f.id] /\ scorecards'[f.id] = scorecards[f.id]
          BY <2>2, <4>3, <4>5
        <4> QED BY <4>5, <4>6
      <3> QED BY <3>1, <3>2
    <2> QED BY <1>1, <2>4 DEF JournalInvariant
  <1>5. ASSUME NEW f \in Registered, NEW o \in CandidateOutcomes(f), NEW dies \in BOOLEAN,
               AppendOutcome(f, o, dies)
        PROVE  JournalInvariant'
    <2> DEFINE new == Append(journals[f.id], o)
               filed == Filed(scorecards[f.id], Len(new), Score(f, new))
    <2>1. Registered' = Registered
      BY <1>5 DEF AppendOutcome, Registered
    <2>2. /\ f.id \in DOMAIN journals /\ f.id \in DOMAIN scorecards
          /\ Loadable(f, journals[f.id], scorecards[f.id])
      BY DEF JournalInvariant
    <2>3. Loadable(f, new, scorecards[f.id]) /\ Loadable(f, new, filed)
      <3>1. f.resolve_after \in Nat /\ o.available \in Nat
        BY RegisteredTypes
      <3>2. Appendable(f, journals[f.id], o)
        BY <1>5 DEF AppendOutcome
      <3> QED BY <2>2, <3>1, <3>2, LoadableAppend
    <2> HIDE DEF new, filed
    <2>4. /\ journals' = [journals EXCEPT ![f.id] = new]
          /\ scorecards' = scorecards \/ scorecards' = [scorecards EXCEPT ![f.id] = filed]
      BY <1>5 DEF AppendOutcome, new, filed
    <2>5. ASSUME NEW g \in Registered
          PROVE  /\ g.id \in DOMAIN journals' /\ g.id \in DOMAIN scorecards'
                 /\ Loadable(g, journals'[g.id], scorecards'[g.id])
      <3>1. /\ g.id \in DOMAIN journals /\ g.id \in DOMAIN scorecards
            /\ Loadable(g, journals[g.id], scorecards[g.id])
        BY DEF JournalInvariant
      <3>2. CASE g.id # f.id
        BY <2>4, <3>1, <3>2
      <3>3. CASE g.id = f.id
        <4>1. g = f
          BY <3>3, SameForecast DEF JournalInvariant
        <4> QED BY <2>2, <2>3, <2>4, <4>1
      <3> QED BY <3>2, <3>3
    <2> QED BY <1>1, <2>1, <2>5 DEF JournalInvariant
  <1>6. CASE UNCHANGED <<work, journals, scorecards>>
    <2>1. Registered' = Registered
      BY <1>6 DEF Registered
    <2> QED BY <1>1, <1>6, <2>1, JournalUntouched
  <1> QED BY <1>2, <1>3, <1>4, <1>5, <1>6 DEF Next, Review, vars

LEMMA InitJournals == Init => JournalInvariant
  BY DEF Init, NotStarted, JournalInvariant, OwnIds, Registered, Registering

LEMMA LoadableReads ==
  ASSUME NEW f, NEW observations, NEW cards, Loadable(f, observations, cards)
  PROVE  /\ \A i, j \in DOMAIN observations : i < j =>
              /\ observations[i].id # observations[j].id
              /\ (observations[j].supersedes = observations[i].id) = (j = i + 1)
         /\ \A i \in DOMAIN observations :
              observations[i].status = "resolved" => f.resolve_after <= observations[i].available
         /\ DOMAIN cards \subseteq DOMAIN observations
         /\ \A i \in DOMAIN cards :
              /\ cards[i] = Score(f, SubSeq(observations, 1, i))
              /\ cards[i].observation = observations[i].id
  <1>1. observations \in Seq(CandidateOutcomes(f)) /\ ValidLedger(f.id, observations)
    BY DEF Loadable
  <1>2. Len(observations) \in Nat /\ DOMAIN observations = 1 .. Len(observations)
    BY <1>1
  <1>3. ASSUME NEW i \in DOMAIN observations, NEW j \in DOMAIN observations, i < j
        PROVE  /\ observations[i].id # observations[j].id
               /\ observations[j].supersedes = observations[i].id <=> j = i + 1
    <2>1. j # 1 /\ j - 1 \in DOMAIN observations /\ i # j
      BY <1>2, <1>3
    <2>2. observations[j].supersedes = observations[j - 1].id
      BY <1>1, <2>1 DEF ValidLedger
    <2>3. observations[j - 1].id = observations[i].id <=> j - 1 = i
      BY <1>1, <2>1 DEF ValidLedger
    <2>4. j - 1 = i <=> j = i + 1
      BY <1>2
    <2> QED BY <1>1, <2>1, <2>2, <2>3, <2>4 DEF ValidLedger
  <1>4. \A i \in DOMAIN cards : cards[i].observation = observations[i].id
    BY <1>1, ScoreNames DEF Loadable
  <1> QED BY <1>3, <1>4 DEF Loadable

\* Whatever corrections are reported, and whenever a process dies between an
\* observation and its scorecard, the quality store can be loaded again.
THEOREM QualityStoreLoads == Spec => []JournalStaysLoadable
  <1>1. Init => WorkForm /\ JournalInvariant
    BY InitWorkForm, InitJournals
  <1>2. WorkForm /\ JournalInvariant /\ [Next]_vars => (WorkForm /\ JournalInvariant)'
    BY WorkFormStep, JournalStep
  <1>3. ASSUME JournalInvariant PROVE JournalStaysLoadable
    <2>1. \A f \in Registered : Loadable(f, journals[f.id], scorecards[f.id])
      BY <1>3 DEF JournalInvariant
    <2> QED BY <2>1, LoadableReads DEF JournalStaysLoadable
  <1> QED BY <1>1, <1>2, <1>3, PTL DEF Spec

-----------------------------------------------------------------------------
(* Cohorts                                                                   *)

LEMMA SeqForm ==
  ASSUME NEW A, NEW s \in Seq(A)
  PROVE  Len(s) \in Nat /\ DOMAIN s = 1 .. Len(s) /\ \A k \in 1 .. Len(s) : s[k] \in A
  OBVIOUS

LEMMA Percentage ==
  ASSUME NEW y \in 0 .. 100
  PROVE  y \in Int /\ 0 <= y /\ y <= 100
  OBVIOUS

LEMMA EdgesForm ==
  ASSUME NEW edges \in Seq(0 .. 100)
  PROVE  /\ Len(edges) \in Nat /\ DOMAIN edges = 1 .. Len(edges)
         /\ \A k \in 1 .. Len(edges) : edges[k] \in Int /\ 0 <= edges[k] /\ edges[k] <= 100
  <1>1. \A k \in 1 .. Len(edges) : edges[k] \in 0 .. 100
    BY SeqForm
  <1>2. Len(edges) \in Nat /\ DOMAIN edges = 1 .. Len(edges)
    BY SeqForm
  <1> QED BY <1>1, <1>2, Percentage

LEMMA EdgesIncrease ==
  ASSUME NEW edges \in Seq(0 .. 100), \A i \in 2 .. Len(edges) : edges[i - 1] < edges[i],
         NEW i \in DOMAIN edges, NEW j \in DOMAIN edges, i < j
  PROVE  edges[i] < edges[j]
  <1> DEFINE T == {k \in Nat : i + k + 1 <= Len(edges) => edges[i] < edges[i + k + 1]}
  <1>1. Len(edges) \in Nat /\ DOMAIN edges = 1 .. Len(edges) /\ \A k \in 1 .. Len(edges) : edges[k] \in Int
    BY EdgesForm
  <1>2. 0 \in T
    <2> SUFFICES ASSUME i + 1 <= Len(edges) PROVE edges[i] < edges[i + 1]
      OBVIOUS
    <2>1. i + 1 \in 2 .. Len(edges) /\ (i + 1) - 1 = i
      BY <1>1
    <2> QED BY <2>1
  <1>3. ASSUME NEW k \in Nat, k \in T PROVE k + 1 \in T
    <2> SUFFICES ASSUME i + (k + 1) + 1 <= Len(edges) PROVE edges[i] < edges[i + (k + 1) + 1]
      OBVIOUS
    <2> DEFINE m == i + k + 1
    <2>1. m + 1 \in 2 .. Len(edges) /\ (m + 1) - 1 = m /\ m \in DOMAIN edges /\ m + 1 = i + (k + 1) + 1
      BY <1>1
    <2>2. edges[i] < edges[m]
      BY <1>1, <1>3, <2>1
    <2> HIDE DEF m
    <2>3. edges[m] < edges[m + 1]
      BY <2>1
    <2> QED BY <1>1, <2>1, <2>2, <2>3
  <1>4. Nat \subseteq T
    <2> HIDE DEF T
    <2> QED BY <1>2, <1>3, AllNat
  <1>5. j - i - 1 \in Nat /\ i + (j - i - 1) + 1 = j
    BY <1>1
  <1>6. j - i - 1 \in T
    <2> HIDE DEF T
    <2> QED BY <1>4, <1>5
  <1> QED BY <1>1, <1>5, <1>6

\* bisect_right finds the one bin that a probability lies in.
BinEdges(edges) ==
  /\ edges \in Seq(0 .. 100) /\ Len(edges) >= 2
  /\ edges[1] = 0 /\ edges[Len(edges)] = 100
  /\ \A i \in 2 .. Len(edges) : edges[i - 1] < edges[i]

LEMMA BinHolds ==
  ASSUME NEW edges, BinEdges(edges), NEW x \in Int, 0 <= x, x <= 100, NEW b \in 1 .. Len(edges) - 1
  PROVE  Bin(edges, x) = b <=> /\ edges[b] <= x
                               /\ x < edges[b + 1] \/ (x = 100 /\ b = Len(edges) - 1)
  <1> DEFINE n == Len(edges)
             below == {i \in DOMAIN edges : edges[i] <= x}
  <1>1. /\ n \in Nat /\ DOMAIN edges = 1 .. n
        /\ \A k \in 1 .. n : edges[k] \in Int /\ 0 <= edges[k] /\ edges[k] <= 100
    BY EdgesForm DEF BinEdges
  <1>2. ASSUME NEW i \in 1 .. n, NEW j \in 1 .. n, i < j PROVE edges[i] < edges[j]
    <2>1. i \in DOMAIN edges /\ j \in DOMAIN edges
      BY <1>1
    <2> QED BY <1>2, <2>1, EdgesIncrease DEF BinEdges
  <1> DEFINE above == {i \in 1 .. n : x < edges[i]}
  <1>3. \E k \in 1 .. n : below = 1 .. k
    <2>1. CASE above = {}
      <3>1. below = 1 .. n
        BY <1>1, <2>1
      <3>2. n \in 1 .. n
        BY <1>1
      <3> QED BY <3>1, <3>2
    <2>2. CASE above # {}
      <3>1. above \in SUBSET Nat
        BY <1>1
      <3>2. PICK m \in above : \A i \in above : m <= i
        <4> HIDE DEF above
        <4> QED BY <2>2, <3>1, LeastNat
      <3>3. m \in 1 .. n /\ x < edges[m]
        BY <3>2
      <3>4. m # 1
        BY <3>3 DEF BinEdges
      <3>5. m - 1 \in 1 .. n
        BY <1>1, <3>3, <3>4
      <3>6. ASSUME NEW i \in 1 .. n PROVE edges[i] <= x <=> i <= m - 1
        <4>1. CASE i < m
          BY <1>1, <3>2, <3>3, <4>1
        <4>2. CASE i >= m
          <5>1. edges[m] <= edges[i]
            <6>1. CASE m = i
              BY <1>1, <3>3, <6>1
            <6>2. CASE m < i
              <7>1. edges[m] < edges[i]
                BY <1>2, <3>3, <6>2
              <7> QED BY <1>1, <3>3, <7>1
            <6> QED BY <1>1, <3>3, <4>2, <6>1, <6>2
          <5> QED BY <1>1, <3>3, <4>2, <5>1
        <4> QED BY <1>1, <3>3, <4>1, <4>2
      <3>7. below = 1 .. m - 1
        BY <1>1, <3>3, <3>5, <3>6
      <3> QED BY <3>5, <3>7
    <2> QED BY <2>1, <2>2
  <1>4. PICK k \in 1 .. n : below = 1 .. k
    BY <1>3
  <1>5. Cardinality(below) = k
    <2>1. Cardinality(1 .. k) = IF 1 > k THEN 0 ELSE k - 1 + 1
      BY <1>1, FS_Interval
    <2> HIDE DEF below
    <2> QED BY <1>1, <1>4, <2>1
  <1>6. ASSUME NEW i \in 1 .. n PROVE edges[i] <= x <=> i <= k
    <2>1. i \in below <=> edges[i] <= x
      BY <1>1
    <2>2. i \in 1 .. k <=> i <= k
      BY <1>1
    <2> HIDE DEF below
    <2> QED BY <1>4, <2>1, <2>2
  <1>7. Bin(edges, x) = IF k < n THEN k ELSE n - 1
    BY <1>1, <1>5 DEF Bin
  <1> HIDE DEF n, below, above
  <1>8. b \in 1 .. n /\ b + 1 \in 1 .. n /\ b \in 1 .. n - 1
    BY <1>1 DEF n
  <1>9. edges[n] = 100 /\ n >= 2
    BY DEF n, BinEdges
  <1>10. edges[b] <= x <=> b <= k
    BY <1>6, <1>8
  <1>11. x < edges[b + 1] <=> ~ (b + 1 <= k)
    BY <1>1, <1>6, <1>8
  <1>12. x = 100 <=> k = n
    <2>1. n \in 1 .. n
      BY <1>1, <1>9
    <2>2. edges[n] <= x <=> n <= k
      BY <1>6, <2>1
    <2>3. x \in Int /\ x <= 100
      OBVIOUS
    <2>4. x = 100 <=> 100 <= x
      BY <2>3
    <2>5. k = n <=> n <= k
      BY <1>1
    <2> QED BY <1>9, <2>2, <2>4, <2>5
  <1>13. Bin(edges, x) = b <=> b <= k /\ (~ (b + 1 <= k) \/ (k = n /\ b = n - 1))
    BY <1>1, <1>7, <1>8, <1>9
  <1> QED BY <1>10, <1>11, <1>12, <1>13 DEF n

\* A member of a cohort: a registered forecast with a prefix of its journal.
MemberOf(member) ==
  \E f \in Registered : \E n \in 0 .. Len(journals[f.id]) :
    member = [forecast |-> f, observations |-> SubSeq(journals[f.id], 1, n)]

LEMMA CohortMembers ==
  ASSUME NEW cohort \in Cohorts
  PROVE  /\ DOMAIN cohort = 1 .. Len(cohort) /\ Len(cohort) \in Nat
         /\ \A i \in DOMAIN cohort : MemberOf(cohort[i])
  <1> DEFINE members == UNION {{[forecast |-> f, observations |-> SubSeq(journals[f.id], 1, n)] :
                                  n \in 0 .. Len(journals[f.id])} : f \in Registered}
  <1>1. \A m \in members : MemberOf(m)
    BY DEF MemberOf
  <1>2. PICK n \in 1 .. MaxCohort : cohort \in [1 .. n -> members]
    BY DEF Cohorts
  <1> HIDE DEF members
  <1> QED BY <1>1, <1>2

\* An admitted member has an observation that its forecast allows.
LEMMA AdmittedInTime ==
  ASSUME WorkForm, JournalInvariant, NEW member, MemberOf(member),
         NEW p, Admitted(p, member.forecast, member.observations)
  PROVE  LET f == member.forecast
             o == Last(member.observations)
         IN  /\ f.cutoff <= f.at /\ f.at <= o.available
             /\ f.resolve_after <= o.available /\ o.resolved <= p.cutoff
             /\ f.estimate \in 0 .. 100
  <1>1. PICK f \in Registered :
          \E n \in 0 .. Len(journals[f.id]) :
            member = [forecast |-> f, observations |-> SubSeq(journals[f.id], 1, n)]
    BY DEF MemberOf
  <1>2. PICK n \in 0 .. Len(journals[f.id]) :
          member = [forecast |-> f, observations |-> SubSeq(journals[f.id], 1, n)]
    BY <1>1
  <1> DEFINE observations == SubSeq(journals[f.id], 1, n)
             o == Last(observations)
  <1>3. member.forecast = f /\ member.observations = observations
    BY <1>2
  <1>4. journals[f.id] \in Seq(CandidateOutcomes(f))
    BY DEF JournalInvariant, Loadable
  <1>5. observations \in Seq(CandidateOutcomes(f))
    BY <1>4
  <1> HIDE DEF observations
  <1>6. /\ f.kind = "binary_event" /\ observations # <<>> /\ o.status = "resolved"
        /\ o.resolved <= p.cutoff /\ Score(f, observations).status = "scored"
    BY <1>3 DEF Admitted
  <1>7. o \in CandidateOutcomes(f)
    BY <1>5, <1>6 DEF Last
  <1>8. o.available \in Nat /\ f.at \in Nat /\ f.resolve_after \in Nat
    BY <1>7, RegisteredTypes
  <1>9. ~ Premature(f, o)
    <2> HIDE DEF o
    <2>1. ASSUME Premature(f, o) PROVE FALSE
      <3>1. Score(f, observations) = [status |-> "policy_blocked", observation |-> o.id, metric |-> Missing]
        BY <1>6, <2>1 DEF Score, o
      <3> QED BY <1>6, <3>1
    <2> QED BY <2>1
  <1>10. ValidForecast(f)
    BY RegisteredForm DEF OwnForecasts
  <1>11. f.cutoff <= f.at /\ f.estimate \in 0 .. 100
    BY <1>6, <1>10 DEF ValidForecast
  <1>12. f.at <= o.available /\ f.resolve_after <= o.available
    BY <1>8, <1>9 DEF Premature
  <1> QED BY <1>3, <1>6, <1>11, <1>12

LEMMA PolicyEdges ==
  ASSUME NEW p \in Policies
  PROVE  /\ BinEdges(p.edges)
         /\ p.minimum \in Nat /\ p.minimum >= MinimumSampleFloor
  <1>1. p.edges \in Seq(0 .. 100) /\ p.minimum \in Nat /\ ValidPolicy(p)
    BY HistoryAssumption
  <1> QED BY <1>1 DEF ValidPolicy, BinEdges, Last

\* An evaluated cohort is a sample of distinct instruments, none of which is
\* resolved early or late, and each counts in the bin of its probability.
THEOREM CohortsLeakFree == Spec => []CohortIsLeakFree
  <1>1. Init => WorkForm /\ JournalInvariant
    BY InitWorkForm, InitJournals
  <1>2. WorkForm /\ JournalInvariant /\ [Next]_vars => (WorkForm /\ JournalInvariant)'
    BY WorkFormStep, JournalStep
  <1>3. ASSUME WorkForm, JournalInvariant PROVE CohortIsLeakFree
    <2> SUFFICES ASSUME NEW p \in Policies, NEW cohort \in Cohorts, Report(p, cohort).status = "evaluated"
                 PROVE  /\ Len(cohort) >= MinimumSampleFloor
                        /\ \A i \in DOMAIN cohort :
                             LET f == cohort[i].forecast
                                 o == Last(cohort[i].observations)
                             IN  /\ f.cutoff <= f.at /\ f.at <= o.available
                                 /\ f.resolve_after <= o.available /\ o.resolved <= p.cutoff
                                 /\ \A j \in DOMAIN cohort :
                                      i # j => f.instrument # cohort[j].forecast.instrument
                                 /\ \A b \in DOMAIN Report(p, cohort).bins : i \in Report(p, cohort).bins[b] <=>
                                      /\ p.edges[b] <= f.estimate
                                      /\ f.estimate < p.edges[b + 1] \/ (f.estimate = 100 /\ b = Len(p.edges) - 1)
      BY DEF CohortIsLeakFree
    <2> DEFINE counted(b) == {i \in DOMAIN cohort : Bin(p.edges, cohort[i].forecast.estimate) = b}
    <2>1. /\ Distinct([i \in DOMAIN cohort |-> cohort[i].forecast.instrument])
          /\ \A i \in DOMAIN cohort : Admitted(p, cohort[i].forecast, cohort[i].observations)
          /\ ~ (Len(cohort) < p.minimum)
          /\ Report(p, cohort) = [status |-> "evaluated", bins |-> [b \in 1 .. Len(p.edges) - 1 |-> counted(b)]]
      BY DEF Report
    <2> DEFINE bins == [b \in 1 .. Len(p.edges) - 1 |-> counted(b)]
    <2>2. Report(p, cohort).bins = bins
      BY <2>1
    <2>3. Len(cohort) >= MinimumSampleFloor
      BY <2>1, CohortMembers, PolicyEdges, FloorAssumption
    <2>4. ASSUME NEW i \in DOMAIN cohort
          PROVE  /\ cohort[i].forecast.cutoff <= cohort[i].forecast.at
                 /\ cohort[i].forecast.at <= Last(cohort[i].observations).available
                 /\ cohort[i].forecast.resolve_after <= Last(cohort[i].observations).available
                 /\ Last(cohort[i].observations).resolved <= p.cutoff
                 /\ cohort[i].forecast.estimate \in 0 .. 100
      <3>1. MemberOf(cohort[i])
        BY CohortMembers
      <3> QED BY <1>3, <2>1, <3>1, AdmittedInTime
    <2>5. \A i, j \in DOMAIN cohort : i # j =>
            cohort[i].forecast.instrument # cohort[j].forecast.instrument
      BY <2>1 DEF Distinct
    <2>6. ASSUME NEW i \in DOMAIN cohort, NEW b \in 1 .. Len(p.edges) - 1
          PROVE  i \in bins[b] <=>
                   /\ p.edges[b] <= cohort[i].forecast.estimate
                   /\ \/ cohort[i].forecast.estimate < p.edges[b + 1]
                      \/ cohort[i].forecast.estimate = 100 /\ b = Len(p.edges) - 1
      <3>1. i \in bins[b] <=> Bin(p.edges, cohort[i].forecast.estimate) = b
        OBVIOUS
      <3>2. cohort[i].forecast.estimate \in 0 .. 100
        BY <2>4
      <3>3. /\ cohort[i].forecast.estimate \in Int
            /\ 0 <= cohort[i].forecast.estimate /\ cohort[i].forecast.estimate <= 100
        BY <3>2, Percentage
      <3> HIDE DEF bins
      <3> QED BY <3>1, <3>3, PolicyEdges, BinHolds
    <2>7. DOMAIN bins = 1 .. Len(p.edges) - 1
      OBVIOUS
    <2> HIDE DEF bins
    <2>8. \A b \in DOMAIN Report(p, cohort).bins : b \in 1 .. Len(p.edges) - 1 /\ Report(p, cohort).bins[b] = bins[b]
      BY <2>2, <2>7
    <2>9. ASSUME NEW i \in DOMAIN cohort, NEW b \in DOMAIN Report(p, cohort).bins
          PROVE  i \in Report(p, cohort).bins[b] <=>
                   /\ p.edges[b] <= cohort[i].forecast.estimate
                   /\ \/ cohort[i].forecast.estimate < p.edges[b + 1]
                      \/ cohort[i].forecast.estimate = 100 /\ b = Len(p.edges) - 1
      BY <2>6, <2>8
    <2> QED BY <2>3, <2>4, <2>5, <2>9
  <1> QED BY <1>1, <1>2, <1>3, PTL DEF Spec

-----------------------------------------------------------------------------
(* The newest visible decisions                                              *)

LEMMA CountUpTo ==
  ASSUME NEW n \in Nat, NEW vis \in SUBSET (1 .. n), NEW k \in 0 .. n
  PROVE  /\ IsFiniteSet({j \in vis : j <= k}) /\ Cardinality({j \in vis : j <= k}) \in Nat
         /\ k = 0 => Cardinality({j \in vis : j <= k}) = 0
         /\ k + 1 \in vis => Cardinality({j \in vis : j <= k + 1}) = Cardinality({j \in vis : j <= k}) + 1
         /\ k + 1 \notin vis => Cardinality({j \in vis : j <= k + 1}) = Cardinality({j \in vis : j <= k})
  <1> DEFINE upTo(m) == {j \in vis : j <= m}
  <1>1. IsFiniteSet(1 .. n)
    BY FS_Interval
  <1>2. upTo(k) \in SUBSET (1 .. n)
    OBVIOUS
  <1>3. \A j \in vis : j \in 1 .. n
    OBVIOUS
  <1>4. upTo(k) \in SUBSET (1 .. n) /\ \A j \in vis : j \in Nat /\ j >= 1
    BY <1>2, <1>3
  <1>5. IsFiniteSet(upTo(k)) /\ Cardinality(upTo(k)) \in Nat
    <2> HIDE DEF upTo
    <2> QED BY <1>1, <1>4, FS_Subset, FS_CardinalityType
  <1>6. k = 0 => Cardinality(upTo(k)) = 0
    <2>1. k = 0 => upTo(k) = {}
      BY <1>4
    <2> HIDE DEF upTo
    <2> QED BY <2>1, FS_EmptySet
  <1>7. ASSUME k + 1 \in vis PROVE Cardinality(upTo(k + 1)) = Cardinality(upTo(k)) + 1
    <2>1. \A j \in vis : j <= k + 1 <=> j <= k \/ j = k + 1
      BY <1>4
    <2>2. k + 1 \notin upTo(k)
      OBVIOUS
    <2>3. upTo(k + 1) = upTo(k) \cup {k + 1}
      BY <1>7, <2>1
    <2> HIDE DEF upTo
    <2> QED BY <1>5, <2>2, <2>3, FS_AddElement
  <1>8. ASSUME k + 1 \notin vis PROVE upTo(k + 1) = upTo(k)
    <2>1. \A j \in vis : j <= k + 1 <=> j <= k
      BY <1>4, <1>8
    <2> QED BY <2>1
  <1> QED BY <1>5, <1>6, <1>7, <1>8

\* What the prefix of the first k rows adds to a recall.
LEMMA RecallRanked ==
  ASSUME NEW A, NEW rows \in Seq(A), NEW outcomes, NEW limit \in Nat, NEW cutoff
  PROVE  LET entries == VisibleEntries(rows, outcomes, limit, cutoff)
         IN  {<<i, entries[i].run>> : i \in DOMAIN entries} = NewestVisible(rows, limit, cutoff)
  <1> DEFINE n == Len(rows)
             vis == {i \in DOMAIN rows : Visible(rows[i], cutoff)}
             c(k) == Cardinality({j \in vis : j <= k})
             E == EntriesOf(A, outcomes, cutoff)
  <1>1. n \in Nat /\ DOMAIN rows = 1 .. n /\ vis \in SUBSET (1 .. n)
    OBVIOUS
  <1>2. PICK done \in [0 .. n -> Seq(E)] : RecallSteps(done, rows, outcomes, limit, cutoff)
    BY RecallUnrolls
  <1>3. \A k \in 1 .. n : k \in vis <=> Visible(rows[k], cutoff)
    BY <1>1
  <1> HIDE DEF vis
  <1>4. \A k \in 0 .. n : /\ c(k) \in Nat /\ (k = 0 => c(k) = 0)
                          /\ k + 1 \in vis => c(k + 1) = c(k) + 1
                          /\ k + 1 \notin vis => c(k + 1) = c(k)
    BY <1>1, CountUpTo
  <1> HIDE DEF c, E
  <1> DEFINE given(t) == {<<i, t[i].run>> : i \in 1 .. Len(t)}
             ranked(k) == {<<c(i), rows[i].run>> : i \in {j \in vis : j <= k /\ c(j) <= limit}}
             Holds(k) == /\ Len(done[k]) = IF c(k) <= limit THEN c(k) ELSE limit
                         /\ given(done[k]) = ranked(k)
  <1>5. Holds(0)
    <2>1. done[0] = <<>> /\ 0 \in 0 .. n
      BY <1>1, <1>2 DEF RecallSteps
    <2>2. given(<<>>) = {} /\ ranked(0) = {}
      <3>1. Len(<<>>) = 0 /\ 1 .. 0 = {}
        OBVIOUS
      <3>2. given(<<>>) = {}
        BY <3>1
      <3>3. \A j \in vis : ~ (j <= 0)
        BY <1>1
      <3>4. ranked(0) = {}
        BY <3>3
      <3> QED BY <3>2, <3>4
    <2>3. c(0) = 0 /\ Len(<<>>) = 0 /\ 0 <= limit
      BY <1>4, <2>1
    <2>4. given(done[0]) = ranked(0)
      BY <2>1, <2>2
    <2>5. Len(done[0]) = IF c(0) <= limit THEN c(0) ELSE limit
      BY <2>1, <2>3
    <2> HIDE DEF given, ranked
    <2> QED BY <2>4, <2>5
  <1>6. ASSUME NEW k \in Nat, k + 1 <= n, Holds(k) PROVE Holds(k + 1)
    <2>1. k \in 0 .. n /\ k + 1 \in 1 .. n /\ (k + 1) - 1 = k /\ k + 1 \in 0 .. n
      BY <1>1, <1>6
    <2>2. /\ done[k] \in Seq(E) /\ Len(done[k]) \in Nat
          /\ c(k) \in Nat /\ c(k + 1) \in Nat
      BY <1>2, <1>4, <2>1
    <2>3. done[k + 1] = IF Len(done[k]) < limit /\ Visible(rows[k + 1], cutoff)
                        THEN Append(done[k], Entry(rows[k + 1], outcomes, cutoff)) ELSE done[k]
      BY <1>2, <2>1 DEF RecallSteps
    <2>4. CASE ~ Visible(rows[k + 1], cutoff)
      <3>1. k + 1 \notin vis /\ c(k + 1) = c(k) /\ done[k + 1] = done[k]
        BY <1>3, <1>4, <2>1, <2>3, <2>4
      <3>2. \A j \in vis : j <= k + 1 <=> j <= k
        BY <1>1, <3>1
      <3>3. ranked(k + 1) = ranked(k)
        BY <3>2
      <3> HIDE DEF given, ranked
      <3> QED BY <1>6, <3>1, <3>3
    <2>5. CASE Visible(rows[k + 1], cutoff) /\ c(k) >= limit
      <3>1. k + 1 \in vis /\ c(k + 1) = c(k) + 1
        BY <1>3, <1>4, <2>1, <2>5
      <3>2. Len(done[k]) = limit
        BY <1>6, <2>2, <2>5
      <3>3. done[k + 1] = done[k]
        BY <2>2, <2>3, <3>2
      <3>4. \A j \in vis : j <= k + 1 /\ c(j) <= limit <=> j <= k /\ c(j) <= limit
        <4>1. ASSUME NEW j \in vis, j <= k + 1, ~ (j <= k) PROVE j = k + 1
          BY <1>1, <4>1
        <4>2. ASSUME NEW j \in vis, j <= k PROVE j <= k + 1
          BY <1>1, <4>2
        <4>3. ~ (c(k + 1) <= limit)
          BY <2>2, <2>5, <3>1
        <4> QED BY <4>1, <4>2, <4>3
      <3>5. ranked(k + 1) = ranked(k)
        BY <3>4
      <3>6. ~ (c(k + 1) <= limit)
        BY <2>2, <2>5, <3>1
      <3> HIDE DEF given, ranked
      <3> QED BY <1>6, <3>2, <3>3, <3>5, <3>6
    <2>6. CASE Visible(rows[k + 1], cutoff) /\ c(k) < limit
      <3> DEFINE e == Entry(rows[k + 1], outcomes, cutoff)
                 t == done[k]
      <3>1. k + 1 \in vis /\ c(k + 1) = c(k) + 1 /\ c(k + 1) <= limit
        BY <1>3, <1>4, <2>1, <2>2, <2>6
      <3>2. Len(t) = c(k)
        BY <1>6, <2>2, <2>6
      <3>3. done[k + 1] = Append(t, e)
        BY <2>2, <2>3, <2>6, <3>2
      <3>4. e.run = rows[k + 1].run
        BY DEF Entry
      <3> HIDE DEF e
      <3>5. given(Append(t, e)) = given(t) \cup {<<Len(t) + 1, e.run>>} /\ Len(Append(t, e)) = Len(t) + 1
        <4>1. /\ Len(Append(t, e)) = Len(t) + 1
              /\ \A i \in 1 .. Len(t) : Append(t, e)[i] = t[i]
              /\ Append(t, e)[Len(t) + 1] = e
          BY <2>2
        <4>2. 1 .. Len(t) + 1 = (1 .. Len(t)) \cup {Len(t) + 1}
          BY <2>2
        <4> HIDE DEF t
        <4> QED BY <4>1, <4>2
      <3>6. ranked(k + 1) = ranked(k) \cup {<<c(k + 1), rows[k + 1].run>>}
        <4>1. \A j \in vis : j <= k + 1 <=> j <= k \/ j = k + 1
          BY <1>1, <3>1
        <4> QED BY <3>1, <4>1
      <3> HIDE DEF given, ranked, t
      <3> QED BY <1>6, <3>1, <3>2, <3>3, <3>4, <3>5, <3>6 DEF t
    <2> QED BY <2>2, <2>4, <2>5, <2>6
  <1> HIDE DEF Holds
  <1> DEFINE T == {k \in Nat : k <= n => Holds(k)}
  <1>7. n \in T
    <2>1. 0 \in T
      BY <1>5
    <2>2. ASSUME NEW k \in Nat, k \in T PROVE k + 1 \in T
      BY <1>1, <1>6, <2>2
    <2> HIDE DEF T
    <2> QED BY <1>1, <2>1, <2>2, AllNat
  <1>8. Holds(n)
    BY <1>1, <1>7
  <1>9. done[n] = VisibleEntries(rows, outcomes, limit, cutoff) /\ done[n] \in Seq(E)
    BY <1>1, <1>2 DEF RecallSteps
  <1>10. given(done[n]) = ranked(n)
    BY <1>8 DEF Holds
  <1>11. ranked(n) = NewestVisible(rows, limit, cutoff)
    <2>1. \A j \in vis : j <= n
      BY <1>1
    <2> QED BY <2>1 DEF NewestVisible, vis, c
  <1>12. DOMAIN done[n] = 1 .. Len(done[n])
    BY <1>9
  <1> QED BY <1>9, <1>10, <1>11, <1>12

\* What RecallTakesNewestVisible says of a step.
RecallsNewestStep ==
  \A r \in Runs : At(r, "recalling") /\ work'[r].step = "planned" =>
    LET q == work[r].request
        ranked(entries) == {<<i, entries[i].run>> : i \in DOMAIN entries}
    IN  /\ ranked(work'[r].same) = NewestVisible(work[r].rows, SameLimit, q.cutoff)
        /\ ranked(work'[r].cross) = NewestVisible(CrossSymbol(decisions, q.symbol), CrossLimit, q.cutoff)

LEMMA RecallOthersNewest ==
  ASSUME WorkForm, RecallInvariant, NEW r \in Runs, RecallOthers(r)
  PROVE  LET q == work[r].request
             ranked(entries) == {<<i, entries[i].run>> : i \in DOMAIN entries}
         IN  /\ ranked(work'[r].same) = NewestVisible(work[r].rows, SameLimit, q.cutoff)
             /\ ranked(work'[r].cross) = NewestVisible(CrossSymbol(decisions, q.symbol), CrossLimit, q.cutoff)
  <1> DEFINE q == work[r].request
             rows == work[r].rows
             others == CrossSymbol(decisions, q.symbol)
             same == VisibleEntries(rows, reviews, SameLimit, q.cutoff)
             cross == VisibleEntries(others, reviews, CrossLimit, q.cutoff)
             ranked(entries) == {<<i, entries[i].run>> : i \in DOMAIN entries}
  <1>1. rows \in Seq(PublishedRows(decisions)) /\ others \in Seq(PublishedRows(decisions))
    BY StatementRows DEF RecallOthers, At, RecallInvariant, RecallForm
  <1>2. SameLimit \in Nat /\ CrossLimit \in Nat
    BY HistoryAssumption
  <1>3. work'[r].same = same /\ work'[r].cross = cross
    BY DEF RecallOthers, WorkForm
  <1> HIDE DEF rows, others, q
  <1>4. ranked(same) = NewestVisible(rows, SameLimit, q.cutoff)
    BY <1>1, <1>2, RecallRanked
  <1>5. ranked(cross) = NewestVisible(others, CrossLimit, q.cutoff)
    BY <1>1, <1>2, RecallRanked
  <1> HIDE DEF same, cross
  <1> QED BY <1>3, <1>4, <1>5 DEF rows, others, q

\* Decisions of a later day, however many, never push an older one that was
\* visible at the cutoff out of a recall.
THEOREM RecallsNewest == Spec => RecallTakesNewestVisible
  <1>1. Init => WorkForm /\ RecallInvariant
    BY InitWorkForm, InitRecall
  <1>2. WorkForm /\ RecallInvariant /\ [Next]_vars => (WorkForm /\ RecallInvariant)'
    BY WorkFormStep, RecallStep
  <1>3. ASSUME WorkForm, RecallInvariant, Next PROVE RecallsNewestStep
    <2> SUFFICES ASSUME NEW r \in Runs, At(r, "recalling"), work'[r].step = "planned"
                 PROVE  RecallOthers(r)
      BY <1>3, RecallOthersNewest DEF RecallsNewestStep
    <2>1. ASSUME NEW x \in Runs, x # r, OthersStay(x) PROVE FALSE
      BY <2>1 DEF At, OthersStay
    <2>2. ASSUME NEW x \in Runs, Plan(x) \/ Collect(x) \/ Submit(x) PROVE FALSE
      <3>1. OthersStay(x)
        BY <1>3, <2>2, PreparingStep
      <3>2. CASE x = r
        BY <2>2, <3>2 DEF Plan, Collect, Submit, At
      <3> QED BY <2>1, <3>1, <3>2
    <2>3. ASSUME NEW x \in Runs,
                 StageQuality(x) \/ StageDecision(x) \/ PublishQuality(x) \/ PublishDecision(x)
          PROVE  FALSE
      <3>1. OthersStay(x)
        BY <1>3, <2>3, StagingStep, DecidingStep, PublishingStep
      <3>2. CASE x = r
        BY <2>3, <3>2 DEF StageQuality, StageDecision, PublishQuality, PublishDecision, At
      <3> QED BY <2>1, <3>1, <3>2
    <2>4. ASSUME NEW x \in Runs, RecallOthers(x) PROVE RecallOthers(r)
      <3>1. OthersStay(x)
        BY <1>3, <2>4, PreparingStep
      <3> QED BY <2>1, <2>4, <3>1
    <2>5. CASE UNCHANGED work
      BY <2>5 DEF At
    <2> QED BY <1>3, <2>2, <2>3, <2>4, <2>5 DEF Next, Review, AppendOutcome
  <1>4. WorkForm /\ RecallInvariant /\ [Next]_vars => [RecallsNewestStep]_vars
    BY <1>3
  <1>5. Spec => [][RecallsNewestStep]_vars
    BY <1>1, <1>2, <1>4, PTL DEF Spec
  <1> QED BY <1>5, PTL DEF RecallsNewestStep, RecallTakesNewestVisible

-----------------------------------------------------------------------------
(* Formulas                                                                  *)

LEMMA RaisedType ==
  ASSUME NEW x \in Int, NEW n \in Nat
  PROVE  Raised(x, n) \in Int
  <1> DEFINE Step(k, p) == IF k = 0 THEN 1 ELSE x * p[k - 1]
             Solves(p) == p = [k \in 0 .. n |-> Step(k, p)]
             G == [q \in (1 .. n) \X Int |-> x * q[2]]
  <1>1. G \in [(1 .. n) \X Int -> Int] /\ \A k \in 1 .. n, v \in Int : G[<<k, v>>] = x * v
    OBVIOUS
  <1> HIDE DEF G
  <1>2. PICK f \in [SUBSET (1 .. n) -> Int] : FoldsTo(f, n, 1, G)
    <2>1. 1 \in Int
      OBVIOUS
    <2> QED BY <1>1, <2>1, FoldExists
  <1> DEFINE power == [k \in 0 .. n |-> f[1 .. k]]
  <1>3. ASSUME NEW k \in 0 .. n PROVE power[k] = Step(k, power)
    <2>1. CASE k = 0
      <3>1. 1 .. 0 = {}
        OBVIOUS
      <3>2. f[{}] = 1
        BY <1>2 DEF FoldsTo
      <3> QED BY <2>1, <3>1, <3>2
    <2>2. CASE k # 0
      <3>1. k \in 1 .. n /\ k - 1 \in 0 .. n
        BY <2>2
      <3>2. /\ 1 .. k \in SUBSET (1 .. n) /\ 1 .. k # {}
            /\ Max(1 .. k) = k /\ (1 .. k) \ {k} = 1 .. k - 1
        BY <3>1, Prefixes1
      <3>3. f[1 .. k] = G[<<k, f[1 .. k - 1]>>]
        BY <1>2, <3>2 DEF FoldsTo
      <3>4. f[1 .. k - 1] \in Int
        BY <3>1
      <3>5. f[1 .. k] = x * f[1 .. k - 1]
        BY <1>1, <3>1, <3>3, <3>4
      <3> QED BY <2>2, <3>1, <3>5
    <2> QED BY <2>1, <2>2
  <1>4. Solves(power)
    <2> HIDE DEF Step
    <2> QED BY <1>3
  <1> DEFINE iter == CHOOSE p : Solves(p)
  <1>5. Solves(iter)
    <2> HIDE DEF Solves
    <2> QED BY <1>4
  <1>6. Raised(x, n) = iter[n]
    BY DEF Raised
  <1>7. \A k \in 0 .. n : iter[k] = Step(k, iter)
    <2> HIDE DEF iter, Step
    <2> QED BY <1>5
  <1> HIDE DEF iter
  <1> DEFINE T == {k \in Nat : k <= n => iter[k] \in Int}
  <1>8. n \in T
    <2>1. 0 \in T
      BY <1>7
    <2>2. ASSUME NEW k \in Nat, k \in T PROVE k + 1 \in T
      <3> SUFFICES ASSUME k + 1 <= n PROVE iter[k + 1] \in Int
        OBVIOUS
      <3>1. k + 1 \in 0 .. n /\ k + 1 # 0 /\ (k + 1) - 1 = k /\ iter[k] \in Int
        BY <2>2
      <3>2. iter[k + 1] = x * iter[k]
        BY <1>7, <3>1
      <3> QED BY <3>1, <3>2
    <2> HIDE DEF T
    <2> QED BY <2>1, <2>2, AllNat
  <1> QED BY <1>6, <1>8

LEMMA ApplyType ==
  ASSUME NEW op \in {"+", "-", "*", "/", "^"}, NEW a \in Int \X Int, NEW b \in Int \X Int
  PROVE  Apply(op, a, b) \in Int \X Int
  <1>1. a[1] \in Int /\ a[2] \in Int /\ b[1] \in Int /\ b[2] \in Int
    OBVIOUS
  <1>2. \A x, y, z \in Int : x * y \in Int /\ x + y \in Int /\ x - y \in Int
    OBVIOUS
  <1>3. CASE op = "+"
    BY <1>1, <1>3 DEF Apply
  <1>4. CASE op = "-"
    BY <1>1, <1>4 DEF Apply
  <1>5. CASE op = "*"
    BY <1>1, <1>5 DEF Apply
  <1>6. CASE op = "/"
    BY <1>1, <1>6 DEF Apply
  <1>7. CASE op = "^"
    <2>1. ASSUME NEW n \in Exponents(b)
          PROVE  Raised(a[1], n) \in Int /\ Raised(a[2], n) \in Int
      <3>1. n \in Nat
        BY DEF Exponents
      <3> QED BY <1>1, <3>1, RaisedType
    <2> DEFINE n == CHOOSE x \in Exponents(b) : TRUE
    <2>2. Exponents(b) # {} => n \in Exponents(b)
      OBVIOUS
    <2>3. Apply(op, a, b) = IF Exponents(b) = {} THEN <<0, 0>> ELSE <<Raised(a[1], n), Raised(a[2], n)>>
      BY <1>7 DEF Apply
    <2> HIDE DEF n
    <2> QED BY <2>1, <2>2, <2>3
  <1> QED BY <1>3, <1>4, <1>5, <1>6, <1>7

\* The stack after a token of a formula.
Pushed(stack, x, values) ==
  LET n == Len(stack)
  IN  CASE x.t = "input" -> Append(stack, <<values[x.is], Scale>>)
        [] x.t = "number" -> Append(stack, <<x.is, Scale>>)
        [] x.t = "operator" ->
             Append(SubSeq(stack, 1, n - 2), Apply(x.is, stack[n - 1], stack[n]))

\* The stack after each prefix of a formula.  Of other sets of positions the
\* step has no type to stay in, so FoldExists does not apply.
StackSteps(done, formula, values) ==
  /\ done[0] = <<>>
  /\ \A k \in 1 .. Len(formula) : done[k] = Pushed(done[k - 1], formula[k], values)

LEMMA FormulaUnrolls ==
  ASSUME NEW A, NEW formula \in Seq(A), NEW values
  PROVE  \E done : StackSteps(done, formula, values)
                   /\ FormulaValue(formula, values) = Head(done[Len(formula)])
  <1> DEFINE Step(x, f) == IF x = {} THEN <<>>
                           ELSE Pushed(f[x \ {Max(x)}], formula[Max(x)], values)
             Solves(k, f) == f = [x \in SUBSET (1 .. k) |-> Step(x, f)]
             Solved == {k \in Nat : \E f : Solves(k, f)}
  <1>1. 0 \in Solved
    <2> DEFINE f == [x \in SUBSET (1 .. 0) |-> <<>>]
    <2>1. 1 .. 0 = {}
      OBVIOUS
    <2>2. Solves(0, f)
      BY <2>1
    <2> QED BY <2>2
  <1>2. ASSUME NEW k \in Nat, k \in Solved PROVE k + 1 \in Solved
    <2>1. PICK f : Solves(k, f)
      BY <1>2
    <2> DEFINE g == [x \in SUBSET (1 .. k + 1) |->
                       IF k + 1 \in x THEN Pushed(f[x \ {k + 1}], formula[k + 1], values) ELSE f[x]]
    <2>2. \A x \in SUBSET (1 .. k) : f[x] = Step(x, f)
      <3> HIDE DEF Step
      <3> QED BY <2>1
    <2>3. ASSUME NEW x \in SUBSET (1 .. k + 1), k + 1 \in x PROVE g[x] = Step(x, g)
      <3>1. Max(x) = k + 1
        BY <2>3, MaxOfPrefix
      <3>2. x \ {k + 1} \in SUBSET (1 .. k + 1) /\ k + 1 \notin x \ {k + 1}
        OBVIOUS
      <3>3. g[x \ {k + 1}] = f[x \ {k + 1}]
        BY <3>2
      <3>4. g[x] = Pushed(f[x \ {k + 1}], formula[k + 1], values)
        BY <2>3
      <3> HIDE DEF g
      <3> QED BY <2>3, <3>1, <3>3, <3>4
    <2>4. ASSUME NEW x \in SUBSET (1 .. k + 1), k + 1 \notin x PROVE g[x] = Step(x, g)
      <3>1. x \in SUBSET (1 .. k) /\ x \ {Max(x)} \in SUBSET (1 .. k + 1) /\ k + 1 \notin x \ {Max(x)}
        <4>1. \A y \in x : y \in 1 .. k
          BY <2>4
        <4> HIDE DEF g
        <4> QED BY <2>4, <4>1
      <3>2. g[x] = f[x] /\ g[x \ {Max(x)}] = f[x \ {Max(x)}]
        BY <2>4, <3>1
      <3> HIDE DEF g
      <3> QED BY <2>2, <3>1, <3>2
    <2>5. Solves(k + 1, g)
      <3>1. g = [x \in SUBSET (1 .. k + 1) |-> g[x]]
        OBVIOUS
      <3>2. \A x \in SUBSET (1 .. k + 1) : g[x] = Step(x, g)
        BY <2>3, <2>4
      <3> HIDE DEF g, Step
      <3> QED BY <3>1, <3>2
    <2> HIDE DEF g, Solves
    <2> QED BY <2>5
  <1>3. Len(formula) \in Nat /\ DOMAIN formula = 1 .. Len(formula)
    OBVIOUS
  <1>4. Len(formula) \in Solved
    <2> HIDE DEF Solved
    <2> QED BY <1>1, <1>2, <1>3, AllNat
  <1> DEFINE iter == CHOOSE f : Solves(Len(formula), f)
  <1>5. Solves(Len(formula), iter)
    <2> HIDE DEF Solves
    <2> QED BY <1>4
  <1>6. FormulaValue(formula, values) = Head(iter[1 .. Len(formula)])
    BY <1>3 DEF FormulaValue, FoldLeft, MapThenFoldSet, Pushed
  <1> DEFINE done == [k \in 0 .. Len(formula) |-> iter[1 .. k]]
  <1>7. \A x \in SUBSET (1 .. Len(formula)) : iter[x] = Step(x, iter)
    <2> HIDE DEF iter, Step
    <2> QED BY <1>5
  <1> HIDE DEF iter
  <1>8. done[0] = <<>> /\ done[Len(formula)] = iter[1 .. Len(formula)]
    <2>1. 1 .. 0 = {} /\ {} \in SUBSET (1 .. Len(formula))
      OBVIOUS
    <2>2. iter[{}] = <<>>
      BY <1>7, <2>1
    <2> QED BY <1>3, <2>1, <2>2
  <1>9. ASSUME NEW k \in 1 .. Len(formula) PROVE done[k] = Pushed(done[k - 1], formula[k], values)
    <2>1. k - 1 \in 0 .. Len(formula) /\ k \in 0 .. Len(formula)
      BY <1>3
    <2>2. /\ 1 .. k \in SUBSET (1 .. Len(formula)) /\ 1 .. k # {}
          /\ Max(1 .. k) = k /\ (1 .. k) \ {k} = 1 .. k - 1
      BY <1>3, Prefixes1
    <2>3. iter[1 .. k] = Pushed(iter[1 .. k - 1], formula[k], values)
      BY <1>7, <2>2
    <2> QED BY <2>1, <2>3
  <1> HIDE DEF done
  <1> QED BY <1>6, <1>8, <1>9 DEF StackSteps

LEMMA StackTypes ==
  ASSUME NEW formula, IsFormula(formula), NEW values, \A x \in Names(formula) : values[x] \in Int
  PROVE  FormulaValue(formula, values) \in Int \X Int
  <1> DEFINE n == Len(formula)
             V == Int \X Int
             operators == {i \in DOMAIN formula : formula[i].t = "operator"}
             operands == DOMAIN formula \ operators
             pops(k) == Cardinality({i \in operators : i <= k})
             pushes(k) == Cardinality({i \in operands : i <= k})
  <1>1. /\ formula \in Seq(Range(formula)) /\ formula # <<>>
        /\ \A k \in DOMAIN formula :
             /\ \/ formula[k].t = "input"
                \/ formula[k].t = "number" /\ formula[k].is \in Nat
                \/ formula[k].t = "operator" /\ formula[k].is \in {"+", "-", "*", "/", "^"}
             /\ pops(k) < pushes(k)
    BY DEF IsFormula
  <1>2. n \in Nat /\ n >= 1 /\ DOMAIN formula = 1 .. n
    BY <1>1
  <1>3. operators \in SUBSET (1 .. n) /\ operands \in SUBSET (1 .. n)
    BY <1>2
  <1>4. ASSUME NEW k \in 1 .. n, formula[k].t = "input" PROVE values[formula[k].is] \in Int
    BY <1>2, <1>4 DEF Names, Range
  <1>5. PICK done : StackSteps(done, formula, values)
                    /\ FormulaValue(formula, values) = Head(done[Len(formula)])
    BY <1>1, FormulaUnrolls
  <1>6. /\ pops(0) = 0 /\ pushes(0) = 0
        /\ \A k \in 0 .. n : pops(k) \in Nat /\ pushes(k) \in Nat
    <2> HIDE DEF operators, operands, n
    <2>1. ASSUME NEW k \in 0 .. n
          PROVE  /\ pops(k) \in Nat /\ pushes(k) \in Nat
                 /\ k = 0 => pops(k) = 0 /\ pushes(k) = 0
      <3>1. pops(k) \in Nat /\ (k = 0 => pops(k) = 0)
        BY <1>2, <1>3, CountUpTo
      <3>2. pushes(k) \in Nat /\ (k = 0 => pushes(k) = 0)
        BY <1>2, <1>3, CountUpTo
      <3> QED BY <3>1, <3>2
    <2>2. 0 \in 0 .. n
      BY <1>2
    <2> HIDE DEF pops, pushes
    <2> QED BY <2>1, <2>2
  <1>7. ASSUME NEW k \in 1 .. n
        PROVE  /\ k \in operators => pops(k) = pops(k - 1) + 1 /\ pushes(k) = pushes(k - 1)
               /\ k \notin operators => pops(k) = pops(k - 1) /\ pushes(k) = pushes(k - 1) + 1
    <2>1. k - 1 \in 0 .. n /\ (k - 1) + 1 = k
      BY <1>2
    <2>2. k \in operands <=> k \notin operators
      BY <1>2
    <2> HIDE DEF operators, operands, n
    <2>3. /\ k \in operators => pops((k - 1) + 1) = pops(k - 1) + 1
          /\ k \notin operators => pops((k - 1) + 1) = pops(k - 1)
      <3>1. k \in operators <=> (k - 1) + 1 \in operators
        BY <2>1
      <3> QED BY <1>2, <1>3, <2>1, <3>1, CountUpTo
    <2>4. /\ k \in operands => pushes((k - 1) + 1) = pushes(k - 1) + 1
          /\ k \notin operands => pushes((k - 1) + 1) = pushes(k - 1)
      <3>1. k \in operands <=> (k - 1) + 1 \in operands
        BY <2>1
      <3> QED BY <1>2, <1>3, <2>1, <3>1, CountUpTo
    <2> HIDE DEF pops, pushes
    <2> QED BY <2>1, <2>2, <2>3, <2>4
  <1>8. \A k \in 1 .. n : (k \in operators) = (formula[k].t = "operator")
    BY <1>2
  <1> HIDE DEF operators, operands, pops, pushes, n
  <1> DEFINE Typed == {k \in Nat : k <= n => done[k] \in Seq(V) /\ Len(done[k]) = pushes(k) - pops(k)}
  <1>9. 0 \in Typed
    <2>1. done[0] = <<>>
      BY <1>5 DEF StackSteps
    <2>2. done[0] \in Seq(V) /\ Len(done[0]) = 0
      BY <2>1
    <2> HIDE DEF V
    <2> QED BY <1>6, <2>2
  <1>10. ASSUME NEW k \in 1 .. n, done[k - 1] \in Seq(V), Len(done[k - 1]) = pushes(k - 1) - pops(k - 1)
         PROVE  done[k] \in Seq(V) /\ Len(done[k]) = pushes(k) - pops(k)
    <2> DEFINE s == done[k - 1]
               m == Len(s)
    <2>1. done[k] = Pushed(s, formula[k], values)
      BY <1>5 DEF StackSteps, n
    <2>2. k - 1 \in 0 .. n /\ k \in 0 .. n /\ k \in DOMAIN formula
      BY <1>2
    <2>3. /\ pops(k) \in Nat /\ pushes(k) \in Nat /\ pops(k - 1) \in Nat /\ pushes(k - 1) \in Nat
          /\ pops(k) < pushes(k)
      BY <1>1, <1>6, <2>2
    <2>4. s \in Seq(V) /\ m = pushes(k - 1) - pops(k - 1) /\ m \in Nat
      BY <1>10
    <2> HIDE DEF s
    <2>5. CASE formula[k].t = "input"
      <3>1. done[k] = Append(s, <<values[formula[k].is], Scale>>)
        BY <2>1, <2>5 DEF Pushed
      <3>2. k \notin operators
        BY <1>8, <2>5
      <3>3. <<values[formula[k].is], Scale>> \in V
        BY <1>4, <2>5, ScaleAssumption
      <3>4. pushes(k) - pops(k) = m + 1
        BY <1>7, <2>3, <2>4, <3>2
      <3> QED BY <2>4, <3>1, <3>3, <3>4
    <2>6. CASE formula[k].t = "number"
      <3>1. done[k] = Append(s, <<formula[k].is, Scale>>)
        BY <2>1, <2>6 DEF Pushed
      <3>2. k \notin operators
        BY <1>8, <2>6
      <3>3. <<formula[k].is, Scale>> \in V
        BY <1>1, <2>2, <2>6, ScaleAssumption
      <3>4. pushes(k) - pops(k) = m + 1
        BY <1>7, <2>3, <2>4, <3>2
      <3> QED BY <2>4, <3>1, <3>3, <3>4
    <2>7. CASE formula[k].t = "operator"
      <3>1. done[k] = Append(SubSeq(s, 1, m - 2), Apply(formula[k].is, s[m - 1], s[m]))
        BY <2>1, <2>7 DEF Pushed
      <3>2. k \in operators
        BY <1>8, <2>7
      <3>3. pushes(k) - pops(k) = m - 1 /\ m >= 2
        BY <1>7, <2>3, <2>4, <3>2
      <3>4. m - 1 \in 1 .. m /\ m \in 1 .. m
        BY <2>4, <3>3
      <3>5. s[m - 1] \in V /\ s[m] \in V
        BY <2>4, <3>4
      <3>6. formula[k].is \in {"+", "-", "*", "/", "^"}
        BY <1>1, <2>2, <2>7
      <3>7. Apply(formula[k].is, s[m - 1], s[m]) \in V
        BY <3>5, <3>6, ApplyType
      <3>8. SubSeq(s, 1, m - 2) \in Seq(V) /\ Len(SubSeq(s, 1, m - 2)) = m - 2
        <4> HIDE DEF V
        <4> QED BY <2>4, <3>3
      <3> HIDE DEF m, V
      <3> QED BY <2>4, <3>1, <3>3, <3>7, <3>8
    <2> QED BY <1>1, <2>2, <2>5, <2>6, <2>7
  <1>11. ASSUME NEW k \in Nat, k \in Typed PROVE k + 1 \in Typed
    <2> SUFFICES ASSUME k + 1 <= n
                 PROVE  done[k + 1] \in Seq(V) /\ Len(done[k + 1]) = pushes(k + 1) - pops(k + 1)
      OBVIOUS
    <2>1. k + 1 \in 1 .. n /\ (k + 1) - 1 = k /\ k <= n
      BY <1>2
    <2>2. done[k] \in Seq(V) /\ Len(done[k]) = pushes(k) - pops(k)
      BY <1>11, <2>1
    <2> HIDE DEF V
    <2> QED BY <1>10, <2>1, <2>2
  <1>12. n \in Typed
    <2> HIDE DEF Typed
    <2> QED BY <1>2, <1>9, <1>11, AllNat
  <1>13. done[n] \in Seq(V) /\ Len(done[n]) = pushes(n) - pops(n)
    BY <1>2, <1>12
  <1>14. pops(n) \in Nat /\ pushes(n) \in Nat /\ pops(n) < pushes(n)
    BY <1>1, <1>2, <1>6
  <1>15. Len(done[n]) >= 1
    BY <1>13, <1>14
  <1>16. Head(done[n]) \in V
    <2> HIDE DEF V
    <2> QED BY <1>13, <1>15
  <1> QED BY <1>5, <1>16 DEF n

\* A rounding is off by half a unit at most.
LEMMA NearestIsNear ==
  ASSUME NEW p \in Int, NEW q \in Nat \ {0}
  PROVE  Nearest(p, q) \in Int /\ 2 * Abs(q * Nearest(p, q) - p) <= q
  <1> DEFINE below == p \div q
  <1>1. below \in Int
    OBVIOUS
  <1>2. PICK product \in Int : product = q * below
    BY <1>1
  <1>3. product <= p /\ p < product + q
    BY <1>2
  <1>4. q * (below + 1) = product + q
    BY <1>1, <1>2
  <1> HIDE DEF below
  <1>5. CASE Nearest(p, q) = below + 1
    <2>1. 2 * (p - product) >= q
      BY <1>1, <1>2, <1>3, <1>5 DEF Nearest, below
    <2>2. PICK x \in Int : x = q * Nearest(p, q)
      BY <1>1, <1>5
    <2>3. x = product + q
      BY <1>4, <1>5, <2>2
    <2> QED BY <1>1, <1>3, <1>5, <2>1, <2>2, <2>3 DEF Abs
  <1>6. CASE Nearest(p, q) = below
    <2>1. 2 * (p - product) <= q
      BY <1>1, <1>2, <1>3, <1>6 DEF Nearest, below
    <2>2. PICK x \in Int : x = q * Nearest(p, q)
      BY <1>1, <1>6
    <2> QED BY <1>1, <1>2, <1>3, <1>6, <2>1, <2>2 DEF Abs
  <1> QED BY <1>5, <1>6 DEF Nearest, below

\* A bound on a number bounds its multiples.
LEMMA ScaledBound ==
  ASSUME NEW a \in Int, NEW t \in Nat, NEW w \in Nat, Abs(a) <= t
  PROVE  Abs(a * w) <= t * w
  <1>1. /\ a * w \in Int /\ t * w \in Int
        /\ a * w <= t * w /\ - (t * w) <= a * w
    <2>1. PICK up \in Nat : up = t - a
      BY DEF Abs
    <2>2. PICK down \in Nat : down = t + a
      BY DEF Abs
    <2>3. up * w \in Nat /\ down * w \in Nat
      OBVIOUS
    <2>4. up * w = t * w - a * w /\ down * w = t * w + a * w
      BY <2>1, <2>2
    <2>5. a * w \in Int /\ t * w \in Int
      OBVIOUS
    <2> QED BY <2>3, <2>4, <2>5
  <1> QED BY <1>1 DEF Abs

\* A multiple of a unit is what every number within half a unit rounds to.
LEMMA NearestUnique ==
  ASSUME NEW p \in Int, NEW q \in Nat \ {0}, NEW k \in Int, 2 * Abs(q * k - p) < q
  PROVE  Nearest(p, q) = k
  <1>1. PICK n \in Int : n = Nearest(p, q) /\ 2 * Abs(q * n - p) <= q
    BY NearestIsNear
  <1>2. PICK x, y \in Int : x = q * n /\ y = q * k
    OBVIOUS
  <1>3. x - y < q /\ y - x < q
    BY <1>1, <1>2 DEF Abs
  <1>4. PICK e \in Int : e = n - k
    OBVIOUS
  <1>5. q * e = x - y
    BY <1>2, <1>4
  <1>6. CASE e >= 1
    <2>1. PICK rest \in Nat : e = rest + 1
      BY <1>6
    <2>2. q * e = q * rest + q /\ q * rest \in Nat
      BY <2>1
    <2> QED BY <1>2, <1>3, <1>5, <2>2
  <1>7. CASE e <= -1
    <2>1. PICK rest \in Nat : e = - rest - 1
      BY <1>7
    <2>2. q * e = - (q * rest) - q /\ q * rest \in Nat
      BY <2>1
    <2> QED BY <1>2, <1>3, <1>5, <2>2
  <1>8. CASE e = 0
    BY <1>1, <1>4, <1>8
  <1>9. e >= 1 \/ e <= -1 \/ e = 0
    OBVIOUS
  <1> QED BY <1>6, <1>7, <1>8, <1>9

\* Without a rounding the tolerance is granted once by the contract and once
\* by the validator.
LEMMA TwiceTolerated ==
  ASSUME NEW x \in Int, NEW r \in Int, NEW tolerance \in Nat,
         NEW sv \in Int, NEW v2 \in Int, NEW size \in Nat,
         size = Abs(v2), Abs(sv - r * v2) <= tolerance * size, Abs(x - r) <= tolerance
  PROVE  Abs(x * v2 - sv) <= (2 * tolerance) * size
  <1>1. PICK e \in Int : e = x - r
    OBVIOUS
  <1>2. PICK s \in Int, n \in Int, d \in Int, xv \in Int, sd \in Nat :
          /\ s = tolerance * size /\ n = r * v2 /\ d = e * v2 /\ xv = x * v2
          /\ sd = Abs(d)
    BY <1>1 DEF Abs
  <1>3. xv = n + d /\ (2 * tolerance) * size = 2 * s
    BY <1>1, <1>2
  <1>4. Abs(e * size) <= s
    BY <1>1, <1>2, ScaledBound
  <1>5. e * size = d \/ e * size = - d
    BY <1>2 DEF Abs
  <1>6. PICK f \in Int : f = e * size
    OBVIOUS
  <1>7. Abs(f) <= s /\ (f = d \/ f = - d)
    BY <1>4, <1>5, <1>6
  <1>8. Abs(sv - n) <= s
    BY <1>2
  <1>9. Abs(xv - sv) <= 2 * s
    BY <1>2, <1>3, <1>7, <1>8 DEF Abs
  <1> QED BY <1>2, <1>3, <1>9

\* With a rounding, for a denominator that is positive.
LEMMA RoundedTwice ==
  ASSUME NEW x \in Int, NEW r \in Int, NEW tolerance \in Nat, NEW unit \in Nat \ {0},
         NEW sv \in Int, NEW w \in Nat \ {0},
         Abs(unit * Nearest(sv, unit * w) - r) <= tolerance,
         Abs(x - unit * Nearest(r, unit)) <= tolerance
  PROVE  /\ Abs(x * w - sv) <= (2 * tolerance + unit) * w
         /\ 2 * tolerance < unit => Abs(x - unit * Nearest(sv, unit * w)) <= tolerance
  <1>1. unit * w \in Nat \ {0}
    <2>1. PICK a \in Nat, b \in Nat : unit = a + 1 /\ w = b + 1
      <3>1. unit - 1 \in Nat /\ w - 1 \in Nat /\ unit = (unit - 1) + 1 /\ w = (w - 1) + 1
        OBVIOUS
      <3> QED BY <3>1
    <2>2. unit * w = a * b + a + b + 1 /\ a * b \in Nat
      BY <2>1
    <2> QED BY <2>2
  <1>2. PICK k \in Int : k = Nearest(sv, unit * w) /\ 2 * Abs((unit * w) * k - sv) <= unit * w
    BY <1>1, NearestIsNear
  <1>3. PICK j \in Int : j = Nearest(r, unit) /\ 2 * Abs(unit * j - r) <= unit
    BY NearestIsNear
  <1>4. PICK value \in Int, declared \in Int : value = unit * k /\ declared = unit * j
    OBVIOUS
  <1>5. /\ Abs(value - r) <= tolerance /\ Abs(x - declared) <= tolerance
        /\ 2 * Abs(declared - r) <= unit
    BY <1>2, <1>3, <1>4
  <1>6. Abs(2 * (x - value)) <= 4 * tolerance + unit
    BY <1>4, <1>5 DEF Abs
  <1>7. PICK e \in Int, t \in Nat : e = 2 * (x - value) /\ t = 4 * tolerance + unit
    BY <1>4
  <1>8. Abs(e * w) <= t * w
    BY <1>6, <1>7, ScaledBound
  <1>9. PICK xw \in Int, vw \in Int, tw \in Int, uw \in Int :
          /\ xw = x * w /\ vw = value * w /\ tw = tolerance * w /\ uw = unit * w
    BY <1>4
  <1>10. e * w = 2 * xw - 2 * vw /\ t * w = 4 * tw + uw /\ (2 * tolerance + unit) * w = 2 * tw + uw
    BY <1>4, <1>7, <1>9
  <1>11. (unit * w) * k = vw
    BY <1>4, <1>9
  <1>12. Abs(2 * xw - 2 * vw) <= 4 * tw + uw /\ 2 * Abs(vw - sv) <= uw
    BY <1>2, <1>8, <1>9, <1>10, <1>11
  <1>13. Abs(xw - sv) <= 2 * tw + uw
    BY <1>9, <1>12 DEF Abs
  <1>14. ASSUME 2 * tolerance < unit PROVE j = k
    <2>1. 2 * Abs(unit * k - r) < unit
      BY <1>4, <1>5, <1>14 DEF Abs
    <2> QED BY <1>3, <2>1, NearestUnique
  <1>15. ASSUME 2 * tolerance < unit PROVE Abs(x - unit * Nearest(sv, unit * w)) <= tolerance
    BY <1>2, <1>3, <1>4, <1>5, <1>14, <1>15
  <1> QED BY <1>9, <1>10, <1>13, <1>15

\* The formula value of a rational with any sign of its denominator.
LEMMA RoundedTwiceSigned ==
  ASSUME NEW x \in Int, NEW r \in Int, NEW tolerance \in Nat, NEW unit \in Nat \ {0},
         NEW v \in Int \X Int, v[2] # 0,
         Abs(RoundedValue(v, unit) - r) <= tolerance,
         Abs(x - unit * Nearest(r, unit)) <= tolerance
  PROVE  /\ Abs(x * v[2] - Scale * v[1]) <= (2 * tolerance + unit) * Abs(v[2])
         /\ 2 * tolerance < unit => Abs(x - RoundedValue(v, unit)) <= tolerance
  <1>1. v[1] \in Int /\ v[2] \in Int /\ Scale \in Nat
    BY ScaleAssumption
  <1>2. PICK sv \in Int, v2 \in Int : sv = Scale * v[1] /\ v2 = v[2]
    BY <1>1
  <1>3. CASE v2 > 0
    <2>1. v2 \in Nat \ {0} /\ Abs(v[2]) = v2 /\ RoundedValue(v, unit) = unit * Nearest(sv, unit * v2)
      BY <1>2, <1>3 DEF Abs, RoundedValue
    <2> QED BY <1>2, <2>1, RoundedTwice
  <1>4. CASE v2 < 0
    <2>1. PICK w \in Nat \ {0}, sw \in Int : w = - v2 /\ sw = - sv
      BY <1>4
    <2>2. PICK product \in Int : product = unit * w
      BY <2>1
    <2>3. - (unit * v2) = product /\ x * w = - (x * v2)
      BY <2>1, <2>2
    <2>4. RoundedValue(v, unit) = unit * Nearest(sw, unit * w)
      <3>1. ~ (v[2] > 0)
        BY <1>2, <1>4
      <3>2. RoundedValue(v, unit) = unit * Nearest(- Scale * v[1], - unit * v[2])
        BY <3>1 DEF RoundedValue
      <3>3. - Scale * v[1] = sw
        BY <1>1, <1>2, <2>1
      <3>4. - unit * v[2] = unit * w
        BY <1>2, <2>2, <2>3
      <3> QED BY <3>2, <3>3, <3>4
    <2>5. /\ Abs(x * w - sw) <= (2 * tolerance + unit) * w
          /\ 2 * tolerance < unit => Abs(x - unit * Nearest(sw, unit * w)) <= tolerance
      BY <2>1, <2>4, RoundedTwice
    <2>6. PICK xw \in Int, xv \in Int : xw = x * w /\ xv = x * v2 /\ xw = - xv
      BY <2>3
    <2>7. Abs(xw - sw) = Abs(xv - sv)
      BY <2>1, <2>6 DEF Abs
    <2>8. Abs(v[2]) = w
      BY <1>2, <1>4, <2>1 DEF Abs
    <2> QED BY <1>2, <2>4, <2>5, <2>6, <2>7, <2>8
  <1> QED BY <1>2, <1>3, <1>4

LEMMA ReproducedMetric ==
  ASSUME NEW r \in Runs, NEW s, Admissible(r, s), Conformant(s.dossier),
         NEW m \in DOMAIN s.dossier.metrics, s.dossier.metrics[m].calculation # None
  PROVE  LET d == s.dossier
             c == d.calculations[d.metrics[m].calculation]
             v == FormulaValue(c.formula, [x \in Names(c.formula) |-> NumericInputs(d, c)[x]])
             unit == IF c.rounding = None THEN 0 ELSE c.rounding
         IN  /\ v[2] # 0
             /\ Abs(d.metrics[m].value * v[2] - Scale * v[1]) <= (2 * c.tolerance + unit) * Abs(v[2])
             /\ 2 * c.tolerance < unit => Abs(d.metrics[m].value - RoundedValue(v, unit)) <= c.tolerance
  <1> DEFINE d == s.dossier
             c == d.calculations[d.metrics[m].calculation]
             inputs == NumericInputs(d, c)
             v == FormulaValue(c.formula, inputs)
             x == d.metrics[m].value
             unit == IF c.rounding = None THEN 0 ELSE c.rounding
             bounded(w, u) == /\ w[2] # 0
                              /\ Abs(x * w[2] - Scale * w[1]) <= (2 * c.tolerance + u) * Abs(w[2])
                              /\ 2 * c.tolerance < u => Abs(x - RoundedValue(w, u)) <= c.tolerance
  <1>1. ValidItems(d) /\ References(d)
    BY DEF Admissible, ValidSubmission, ValidDossier, ValidResearch
  <1>2. d.metrics[m].calculation \in DOMAIN d.calculations
    BY <1>1 DEF References
  <1>3. /\ c.result \in Int /\ d.metrics[m].value \in Int
        /\ \A i \in DOMAIN c.constants : c.constants[i] \in Int
        /\ \A i \in DOMAIN d.metrics : d.metrics[i].value \in Int
    BY <1>2, CandidatesAssumption DEF Admissible
  <1>4. c.inputs \subseteq DOMAIN d.metrics
    BY <1>1, <1>2 DEF References
  <1>5. IsFormula(c.formula) /\ MatchesDeclared(c, v) /\ Names(c.formula) = DOMAIN inputs
    <2>1. Reproduces(d, c)
      BY <1>2 DEF Conformant, ReproducibilityPasses
    <2> HIDE DEF d, c
    <2> QED BY <2>1 DEF Reproduces, OperationMatches
  <1>6. c.tolerance \in Nat /\ (c.rounding # None => c.rounding \in Nat \ {0})
    <2>1. c.tolerance \in 0 .. Scale /\ c.rounding \in RoundingUnits \cup {None}
      BY <1>1, <1>2 DEF ValidItems, ValidCalculation
    <2> HIDE DEF d, c, v
    <2>2. \A u \in RoundingUnits : u \in Nat \ {0}
      BY ScaleAssumption
    <2>3. c.rounding # None => c.rounding \in RoundingUnits
      BY <2>1
    <2>4. \A t \in 0 .. Scale : t \in Nat
      BY ScaleAssumption
    <2> QED BY <2>1, <2>2, <2>3, <2>4
  <1>7. x \in Int /\ Abs(x - RoundedResult(c)) <= c.tolerance
    <2>1. MetricMatchesResult(d, m)
      BY <1>1 DEF References
    <2> QED BY <1>3, <2>1 DEF MetricMatchesResult
  <1> HIDE DEF d, c, x
  <1>8. inputs = [i \in c.inputs \cup DOMAIN c.constants |->
                    IF i \in c.inputs THEN d.metrics[i].value ELSE c.constants[i]]
    BY DEF NumericInputs
  <1>9. \A i \in DOMAIN inputs : inputs[i] \in Int
    BY <1>3, <1>4, <1>8
  <1>10. inputs = [i \in Names(c.formula) |-> inputs[i]]
    BY <1>5, <1>8
  <1> HIDE DEF inputs
  <1>11. v \in Int \X Int
    BY <1>3, <1>5, <1>9, StackTypes
  <1>12. v = FormulaValue(c.formula, [i \in Names(c.formula) |-> NumericInputs(d, c)[i]])
    BY <1>10 DEF inputs
  <1> HIDE DEF v
  <1>13. v[1] \in Int /\ v[2] \in Int
    BY <1>11
  <1>14. v[2] # 0
    BY <1>5 DEF MatchesDeclared
  <1>15. ASSUME c.rounding = None PROVE bounded(v, unit)
    <2>1. Abs(Scale * v[1] - c.result * v[2]) <= c.tolerance * Abs(v[2]) /\ Abs(x - c.result) <= c.tolerance
      BY <1>5, <1>7, <1>15 DEF MatchesDeclared, RoundedResult
    <2>2. PICK size \in Nat, sv \in Int : size = Abs(v[2]) /\ sv = Scale * v[1]
      BY <1>13, ScaleAssumption DEF Abs
    <2>3. Abs(x * v[2] - sv) <= (2 * c.tolerance) * size
      BY <1>3, <1>6, <1>7, <1>13, <2>1, <2>2, TwiceTolerated
    <2>4. unit = 0 /\ 2 * c.tolerance + 0 = 2 * c.tolerance /\ ~ (2 * c.tolerance < 0)
      BY <1>6, <1>15
    <2>5. bounded(v, 0)
      BY <1>14, <2>2, <2>3, <2>4
    <2> QED BY <2>4, <2>5
  <1>16. ASSUME c.rounding # None PROVE bounded(v, unit)
    <2>1. c.rounding \in Nat \ {0} /\ unit = c.rounding
      BY <1>6, <1>16
    <2>2. Abs(RoundedValue(v, c.rounding) - c.result) <= c.tolerance
      BY <1>5, <1>16 DEF MatchesDeclared
    <2>3. Abs(x - c.rounding * Nearest(c.result, c.rounding)) <= c.tolerance
      BY <1>7, <1>16 DEF RoundedResult
    <2>4. bounded(v, c.rounding)
      BY <1>3, <1>6, <1>7, <1>11, <1>14, <2>1, <2>2, <2>3, RoundedTwiceSigned
    <2> QED BY <2>1, <2>4
  <1>17. bounded(v, unit)
    BY <1>15, <1>16
  <1> QED BY <1>12, <1>17 DEF d, c, x

\* The reproducibility check: a calculated metric of a dossier that the
\* validator passes is what its formula gives for its inputs, within the two
\* tolerances and the two roundings, and is its rounded value when the
\* tolerance is below half a unit.
THEOREM PassedReproduce == Spec => []PassedMetricsReproduce
  <1>1. Init => WorkForm
    BY InitWorkForm
  <1>2. WorkForm /\ [Next]_vars => WorkForm'
    BY WorkFormStep
  <1>3. ASSUME WorkForm PROVE PassedMetricsReproduce
    <2>1. \A r \in Runs : At(r, "submitted") => Admissible(r, work[r].submission)
      BY <1>3 DEF WorkForm, RunForm, At
    <2> QED BY <2>1, ReproducedMetric DEF PassedMetricsReproduce
  <1> QED BY <1>1, <1>2, <1>3, PTL DEF Spec

================================================================================
