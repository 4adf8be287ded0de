--------------------------- MODULE MCLeaderboard ---------------------------
(***************************************************************************)
(* Three models, up to two rows each, and configs that put every metric,   *)
(* every way of normalising it and every gate to use.                      *)
(***************************************************************************)
EXTENDS Leaderboard, TLC

Answer(score, weight, cost, latency) ==
    [ok |-> TRUE, score |-> score, weight |-> weight, cost |-> cost, latency |-> latency]

MCRows ==
    {[ok |-> FALSE, score |-> None, weight |-> 1, cost |-> None, latency |-> None],
     Answer(2, 1, 0, 4), Answer(1, 1, 1, 2), Answer(0, 3, 3, 2),
     Answer(None, 1, None, 2), Answer(2, 2, None, None)}

MCCards == {(0 :> "fitting" @@ 1 :> "unknown" @@ 2 :> "lacking")}

Nothing == [name \in {} |-> None]
Weights(accuracy, reliability, cost, latency) ==
    [accuracy |-> accuracy, reliability |-> reliability, cost |-> cost,
     latency |-> latency, latency_p95 |-> 0]

Plain ==
    [weights |-> Weights(5, 0, 3, 2), directions |-> Nothing, normalize |-> Nothing,
     targets |-> Nothing, tie_breaker |-> "accuracy", required_features |-> FALSE,
     allow_unknown_card |-> TRUE, min_accuracy |-> None, max_error_rate |-> None,
     max_cost_per_1k_calls_usd |-> None, max_latency_p95_ms |-> None]

MCConfigs ==
    {Plain,
     [Plain EXCEPT !.weights = Weights(0, 1, 1, 0), !.min_accuracy = <<1, 2>>,
                   !.normalize = [reliability |-> "minmax"]],
     [Plain EXCEPT !.targets = [cost |-> <<2, 1>>, latency |-> <<3, 1>>],
                   !.max_error_rate = <<1, 2>>, !.required_features = TRUE],
     [Plain EXCEPT !.weights = [Weights(1, 1, 0, 0) EXCEPT !.latency_p95 = 1],
                   !.max_cost_per_1k_calls_usd = <<2, 1>>, !.max_latency_p95_ms = <<3, 1>>],
     [Plain EXCEPT !.weights = Weights(1, 0, 0, 1), !.allow_unknown_card = FALSE,
                   !.targets = [accuracy |-> <<3, 4>>, latency |-> <<-1, 1>>]]}

\* A budget that leaves nothing for a call to cost.
ZeroBudget == {[Plain EXCEPT !.targets = [cost |-> <<0, 1>>]]}
=============================================================================
