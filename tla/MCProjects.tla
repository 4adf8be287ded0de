----------------------------- MODULE MCProjects -----------------------------
(***************************************************************************)
(* Two names, two clients.  A project is the wizard's, or a person's, with *)
(* a config and cases in JSON, or a config.yml, cases in JSON lines and    *)
(* results in a folder of another name; two runs are recorded in it.       *)
(***************************************************************************)
EXTENDS Projects, TLC

MCHandMade ==
    {[paths |-> {"config.yaml", "tests.yaml", "results"}, output |-> "results", runs |-> 2],
     [paths |-> {"config.json", "tests.json", "results"}, output |-> "results", runs |-> 2],
     [paths |-> {"config.yml", "tests.ndjson", "elsewhere"}, output |-> "elsewhere", runs |-> 2]}
\* What the wizard sends, and the same with one thing wrong or repeated.
Model(key, model) == [key |-> key, model |-> model]
Example(id, input) == [id |-> id, input |-> input]
Good == [weights |-> {0, 70, 30}, constraint |-> 60, labels |-> 2,
         models |-> <<Model("a", "m"), Model(NULL, "n")>>,
         tests |-> <<Example(<<"case", 3>>, "x"), Example(<<"case", 3>>, NULL), Example(NULL, "y"),
                     Example(<<"case">>, "z"), Example(<<"case">>, "z"), Example(<<"case">>, "z")>>]
MCPayloads ==
    {Good, [Good EXCEPT !.weights = {0}], [Good EXCEPT !.constraint = 101],
     [Good EXCEPT !.labels = 1], [Good EXCEPT !.models = <<>>],
     [Good EXCEPT !.models = <<Model("a", NULL)>>],
     [Good EXCEPT !.models = <<Model(NULL, "n"), Model(NULL, "N")>>],
     [Good EXCEPT !.tests = <<Example(<<"case">>, NULL)>>]}
MCSlug == [a |-> "a", m |-> "m", n |-> "n", N |-> "n"]

Symmetry == Permutations(Clients) \cup Permutations(Names)
=============================================================================
