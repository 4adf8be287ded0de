-------------------------- MODULE MCCallExecution --------------------------
(* Two workers share one target and one remote model. *)
EXTENDS CallExecution, TLC

CONSTANTS w1, w2, pipeline, remote

MCWorkers == {w1, w2}
MCTargets == {pipeline}
MCRemotes == {remote}
MCCardPrice == remote :> 1
MCScores == {-1, Half, NaN}
MCFailures ==
    {[status |-> 401, network |-> TRUE, name |-> "other"],
     [status |-> 429, network |-> FALSE, name |-> "retryable"],
     [status |-> None, network |-> TRUE, name |-> "other"],
     [status |-> None, network |-> FALSE, name |-> "terminal"],
     Unforeseen}
=============================================================================
