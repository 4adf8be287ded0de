---------------------------- MODULE Leaderboard ----------------------------
(***************************************************************************)
(* The leaderboard of agent_arena/core/metrics.py: how the rows of a sweep *)
(* become metrics (aggregate_model), how metrics become shares of 1        *)
(* (normalize), one number (_composite), and a ranking behind hard gates   *)
(* (_check_constraints, _rank).                                            *)
(*                                                                         *)
(* Every state is a sweep that ended with these rows, and its leaderboard; *)
(* a step is the same sweep with one row more.  Fractions are exact, where *)
(* the program rounds.  Five of the metrics are kept: pass_rate is         *)
(* computed like accuracy, tokens and custom metrics like latency.         *)
(***************************************************************************)
EXTENDS Integers, FiniteSets, Functions, FiniteSetsExt, Fractions

CONSTANTS
    Models,     \* keys of models, numbered in their order
    Rows,       \* call results: ok, score, the weight of the test, cost, latency
    Full,       \* the score of a right answer: scores are counted in 1/Full
    Configs,    \* the metrics and constraints sections of a config
    Cards,      \* what the price book knows of each model
    MaxRows,    \* bound: rows of each model
    None        \* not measured, or not set

Metric == {"accuracy", "reliability", "cost", "latency", "latency_p95"}

ASSUME LeaderboardAssumption ==
    /\ Models \subseteq Nat
    /\ IsFiniteSet(Models)
    /\ Rows \subseteq [ok: BOOLEAN, weight: Nat, score: Nat \cup {None},
                      cost: Nat \cup {None}, latency: Nat \cup {None}]
    /\ IsFiniteSet(Rows)
    /\ Full \in Nat \ {0}
    /\ MaxRows \in Nat
    /\ None \notin Int /\ None \notin Int \X Int

\* What the properties rest on in a config: its weights, and that a target is
\* a number.  Nothing keeps a target from being zero, or below.
ASSUME ConfigsAssumption ==
    \A c \in Configs :
        /\ c.weights \in [Metric -> Nat]
        /\ \A name \in DOMAIN c.targets : IsFraction(c.targets[name])

VARIABLES
    config,     \* the config of the sweep
    card,       \* the model cards
    results,    \* how often each row occurs among a model's results
    aggregates, \* the metrics of each model
    status,     \* "ranked", "failed" or "no_data"
    board       \* the entries of the models that are ranked

vars == <<config, card, results, aggregates, status, board>>

Ranked == {m \in Models : status[m] = "ranked"}

-----------------------------------------------------------------------------
(* MetricSettings: what the config says of a metric *)

\* directions, normalize and targets name only the metrics the config does.
Direction(c, name) ==
    IF name \in DOMAIN c.directions THEN c.directions[name]
    ELSE IF name \in {"accuracy", "reliability"} THEN "max" ELSE "min"

\* "budget" is another word for "target".
NormalizeMode(c, name) ==
    IF name \in DOMAIN c.normalize THEN c.normalize[name]
    ELSE IF name \in DOMAIN c.targets THEN "target"
    ELSE IF name \in {"accuracy", "reliability"} THEN "raw" ELSE "minmax"

Target(c, name) == IF name \in DOMAIN c.targets THEN c.targets[name] ELSE Zero

-----------------------------------------------------------------------------
(* Aggregation: the bag of one model's rows *)

Completed(bag) == {r \in Rows : r.ok /\ bag[r] > 0}
Number(bag, rows) == SumFunctionOnSet(bag, rows)
Attempted(bag) == Number(bag, Rows)

MeanOf(bag, rows, field) ==
    IF rows = {} THEN None
    ELSE Fraction(SumFunctionOnSet([r \in rows |-> bag[r] * r[field]], rows), Number(bag, rows))

\* Weighted by each test's own weight, over the answers that have a score.
Accuracy(bag) ==
    LET graded == {r \in Completed(bag) : r.score # None}
        weight == SumFunctionOnSet([r \in graded |-> bag[r] * r.weight], graded)
    IN IF weight = 0 THEN None
       ELSE Fraction(SumFunctionOnSet([r \in graded |-> bag[r] * r.weight * r.score], graded),
                     weight * Full)

\* The share of calls that failed.  Mutant: in the place of Reliability.
ErrorRate(bag) ==
    IF Attempted(bag) = 0 THEN None
    ELSE Fraction(Number(bag, {r \in Rows : ~r.ok}), Attempted(bag))

Reliability(bag) ==
    IF Attempted(bag) = 0 THEN None
    ELSE Fraction(Number(bag, Completed(bag)), Attempted(bag))

\* Known only when every completed call has a price.
Cost(bag) ==
    IF \E r \in Completed(bag) : r.cost = None THEN None
    ELSE MeanOf(bag, Completed(bag), "cost")

Timed(bag) == {r \in Completed(bag) : r.latency # None}

\* The k-th of the latencies in ascending order, from 0.
Ordered(bag, k) ==
    Min({r.latency : r \in {q \in Timed(bag) :
            Number(bag, {s \in Timed(bag) : s.latency <= q.latency}) > k}})

\* percentile(latencies, 95): interpolated between two neighbours.
Percentile95(bag) ==
    IF Timed(bag) = {} THEN None
    ELSE LET position == (Number(bag, Timed(bag)) - 1) * 95
             lower == position \div 100
             upper == (position + 99) \div 100
         IN Fraction(100 * Ordered(bag, lower)
                       + (Ordered(bag, upper) - Ordered(bag, lower)) * (position % 100), 100)

Aggregate(bag) ==
    [accuracy |-> Accuracy(bag), reliability |-> Reliability(bag), cost |-> Cost(bag),
     latency |-> MeanOf(bag, Timed(bag), "latency"),
     latency_p95 |-> Percentile95(bag)]

-----------------------------------------------------------------------------
(* Normalisation and composite *)

Clamp(x) == IF Below(x, Zero) THEN Zero ELSE IF Below(One, x) THEN One ELSE x

\* Mutant: every metric is taken as it is.
NormalizeRaw(c, name, value, field) == IF value = None THEN None ELSE Clamp(value)

\* A raw value as a share of 1, where 1 is best; field holds the values of the
\* models in the ranking.  A target of zero counts as no target.
Normalize(c, name, value, field) ==
    LET down == Direction(c, name) = "min"
        low == Least(field)
        high == Greatest(field)
        target == Target(c, name)
    IN IF value = None THEN None
       ELSE CASE NormalizeMode(c, name) = "raw" -> Clamp(value)
              [] NormalizeMode(c, name) = "target" ->
                   IF target = Zero THEN Clamp(value)
                   ELSE IF down THEN Clamp(Minus(One, Over(value, target)))
                   ELSE Clamp(Over(value, target))
              [] OTHER ->
                   IF field = {} THEN Clamp(value)
                   ELSE IF low = high THEN One
                   ELSE IF down THEN Clamp(Over(Minus(high, value), Minus(high, low)))
                   ELSE Clamp(Over(Minus(value, low), Minus(high, low)))

\* One of the summands, if it is used.
Part(used, x) == IF used THEN x ELSE Zero

WeightedSum(c, metrics, names) ==
    LET part(name) == Part(name \in names, Times(metrics[name], <<c.weights[name], 1>>))
    IN Plus(part("accuracy"), Plus(part("reliability"),
            Plus(part("cost"), Plus(part("latency"), part("latency_p95")))))

Usable(c, metrics) == {name \in Metric : c.weights[name] > 0 /\ metrics[name] # None}

\* Mutant: what could not be measured counts as zero.
CompositeOfAll(c, metrics) ==
    IF Usable(c, metrics) = {} THEN None
    ELSE Over(WeightedSum(c, metrics, Usable(c, metrics)),
              <<SumFunctionOnSet(c.weights, Metric), 1>>)

\* The weight of a metric that could not be measured goes to the others.
Composite(c, metrics) ==
    LET usable == Usable(c, metrics)
    IN IF usable = {} THEN None
       ELSE Over(WeightedSum(c, metrics, usable),
                 <<SumFunctionOnSet(c.weights, usable), 1>>)

-----------------------------------------------------------------------------
(* Gates and ranking *)

Exceeds(value, limit) == limit # None /\ value # None /\ Below(limit, value)

\* _check_constraints: a value that was not measured passes.
Disqualified(c, cardOf, bag, raw) ==
    \/ cardOf = "unknown" /\ ~c.allow_unknown_card
    \/ cardOf = "lacking" /\ c.required_features
    \/ c.min_accuracy # None /\ raw.accuracy # None /\ Below(raw.accuracy, c.min_accuracy)
    \/ Exceeds(ErrorRate(bag), c.max_error_rate)
    \/ Exceeds(raw.cost, c.max_cost_per_1k_calls_usd)
    \/ Exceeds(raw.latency_p95, c.max_latency_p95_ms)

Status(c, cardOf, bag, raw) ==
    IF Completed(bag) = {} THEN "no_data"
    ELSE IF Disqualified(c, cardOf, bag, raw) THEN "failed" ELSE "ranked"

OrMinusOne(value) == IF value = None THEN <<-1, 1>> ELSE value

\* Does entry e come before entry f?  An entry's rank is its place in this order.
Ahead(e, f) ==
    \/ Below(OrMinusOne(f.composite), OrMinusOne(e.composite))
    \/ /\ f.composite = e.composite
       /\ \/ Below(OrMinusOne(f.breaker), OrMinusOne(e.breaker))
          \/ f.breaker = e.breaker /\ e.key < f.key

\* Mutant: the values of a metric among all models.
MetricRangeOfAll(raws, inRanking, name) == {raws[m][name] : m \in DOMAIN raws} \ {None}

\* The values of a metric among the models in the ranking.
MetricRange(raws, inRanking, name) == {raws[m][name] : m \in inRanking} \ {None}

\* _build_metric_values: a model's shares.
BuildMetricValues(c, raws, inRanking, m) ==
    [name \in Metric |-> Normalize(c, name, raws[m][name], MetricRange(raws, inRanking, name))]

ModelScore(c, raws, inRanking, m) ==
    LET normalized == BuildMetricValues(c, raws, inRanking, m)
    IN [key |-> m, normalized |-> normalized, composite |-> Composite(c, normalized),
        breaker |-> raws[m][c.tie_breaker]]

\* build_leaderboard, over the aggregates of the models that passed the gates.
BuildLeaderboard(c, raws, inRanking) == {ModelScore(c, raws, inRanking, m) : m \in inRanking}

-----------------------------------------------------------------------------
Init ==
    /\ config \in Configs
    /\ card \in Cards
    /\ results = [m \in Models |-> [r \in Rows |-> 0]]
    /\ aggregates = [m \in Models |-> Aggregate([r \in Rows |-> 0])]
    /\ status = [m \in Models |-> "no_data"]
    /\ board = {}

\* The sweep has one more row of this model.
Record(m) ==
    /\ Attempted(results[m]) < MaxRows
    /\ \E r \in Rows : results' = [results EXCEPT ![m][r] = @ + 1]
    /\ aggregates' = [aggregates EXCEPT ![m] = Aggregate(results'[m])]
    /\ status' = [status EXCEPT ![m] = Status(config, card[m], results'[m], aggregates'[m])]
    /\ board' = BuildLeaderboard(config, aggregates', Ranked')
    /\ UNCHANGED <<config, card>>

Next == \E m \in Models : Record(m)

Spec == Init /\ [][Next]_vars

-----------------------------------------------------------------------------
(* What must hold *)

Weighted == {name \in Metric : config.weights[name] > 0}

\* A disqualified model, or one without an answer, does not stretch the scale
\* the others are judged on: without it they keep their scores.
OutsidersDoNotMatter ==
    board = BuildLeaderboard(config, [m \in Ranked |-> aggregates[m]], Ranked)

\* The metrics whose share the program computes the right way round: one that
\* is better the lower it is needs a scale, the field's or a positive target.
Sound(name) ==
    \/ Direction(config, name) = "max"
    \/ NormalizeMode(config, name) = "minmax"
    \/ NormalizeMode(config, name) = "target" /\ Target(config, name) # Zero

NoWorse(name, x, y) ==
    IF x = None \/ y = None THEN x = y
    ELSE IF Direction(config, name) = "min" THEN AtMost(x, y) ELSE AtMost(y, x)

\* A model that is at least as good in every metric that counts does not have
\* the lower score; and if it is more accurate, where accuracy breaks a tie, it
\* comes first.
BetterIsNotBehind ==
    (\A name \in Weighted : Sound(name)) =>
    \A e, f \in board :
        (\A name \in Weighted :
            NoWorse(name, aggregates[e.key][name], aggregates[f.key][name])) =>
            /\ AtMost(OrMinusOne(f.composite), OrMinusOne(e.composite))
            /\ config.tie_breaker = "accuracy"
                 /\ Below(OrMinusOne(f.breaker), OrMinusOne(e.breaker))
               => Ahead(e, f)

\* "at or over budget scores 0.0" (metrics.py:290), and "a budget of 0 is a real (if
\* strict) ceiling" (config.py:404): what lies over it has no share of the weight.
BudgetsAreCeilings ==
    \A e \in board : \A name \in DOMAIN config.targets :
        LET value == aggregates[e.key][name]
        IN /\ Direction(config, name) = "min" /\ NormalizeMode(config, name) = "target"
           /\ value # None
           /\ Below(Target(config, name), value)
           => e.normalized[name] = Zero

\* A gap in the price catalog is not a score of zero: a composite is never
\* under the worst, nor over the best, of the shares that could be measured.
GapsAreNotPunished ==
    \A e \in board :
        LET shares == {e.normalized[name] : name \in Weighted} \ {None}
        IN IF shares = {} THEN e.composite = None
           ELSE AtMost(Least(shares), e.composite) /\ AtMost(e.composite, Greatest(shares))

\* One call more that failed never raises a model's own score.
FailuresDoNotHelp ==
    [][(\A name \in Weighted : Sound(name)) /\ Direction(config, "reliability") = "max" =>
       \A e \in board, f \in board' :
          /\ e.key = f.key
          /\ Attempted(results'[e.key]) > Attempted(results[e.key])
          /\ \A r \in Rows : r.ok => results'[e.key][r] = results[e.key][r]
          => AtMost(OrMinusOne(f.composite), OrMinusOne(e.composite))]_vars
=============================================================================
