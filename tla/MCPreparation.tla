--------------------------- MODULE MCPreparation ----------------------------
(* One project at a time: a plain one, and others that differ in a few keys. *)
EXTENDS Preparation

Model(key, model) ==
    [key |-> key, model |-> model, run |-> None, provider |-> None, env |-> None,
     base |-> None, params |-> "taken", card |-> None, enabled |-> TRUE]
Profile(id, kind, ref) ==
    [id |-> id, kind |-> kind, ref |-> ref, rpm |-> None, timeout |-> None, attempts |-> None]
Ref(scheme, body) == [scheme |-> scheme, body |-> body]
NoFilter == [ids |-> {}, tags |-> {}, all_tags |-> {}, exclude_tags |-> {}, limit |-> 0]
Card(input, output) == [input |-> input, output |-> output]
Block(direction, normalize, target) ==
    [direction |-> direction, normalize |-> normalize, target |-> target]
Nothing == [name \in {} |-> 0]

Plain ==
    [models |-> <<Model("a", "claude"), Model(None, "mock")>>, providers |-> <<>>,
     run |-> [trials |-> 1, concurrency |-> 4, retries |-> 2],
     metrics |-> [weights |-> Nothing, blocks |-> Nothing],
     budgets |-> [run |-> None, model |-> None, confirm |-> None, on_exceed |-> "stop"],
     statistics |-> [confidence |-> 95, resamples |-> 2000],
     watch |-> [threshold |-> 5],
     testPaths |-> <<>>, scorerPaths |-> <<>>, filter |-> NoFilter, evalType |-> "exact_match",
     judge |-> None, hooks |-> {}, pricing |-> None]

With(models) == [Plain EXCEPT !.models = models]
Selects(spec, id) == [spec EXCEPT !.provider = id]
Own(spec, name) == [spec EXCEPT !.env = name]

Models ==
    {<<Model(None, "claude"), Model(None, "claude")>>,
     <<Model("a", "claude"), Own(Model("b", "claude"), "TEAM_KEY")>>,
     <<Own(Model("b", "ghost"), "TEAM_KEY"), Model("c", "gpt")>>,
     <<Own(Model("m", "mock"), "TEAM_KEY"), Model("a", "claude")>>,
     <<Own(Model("l", "llama"), "TEAM_KEY"), Model("c", "gpt")>>,
     <<Model("l", "llama"), [Model("t", None) EXCEPT !.run = "rag.py:answer"]>>,
     <<[Model("t", None) EXCEPT !.run = "gone.py:answer"]>>,
     <<[Model("s", "ghost") EXCEPT !.base = "http"], Model("x", None)>>,
     <<[Model("s", "ghost") EXCEPT !.base = "http"], Model("a", "claude")>>,
     <<[Model("m", "mock") EXCEPT !.params = "refused"], Model("a", "claude")>>,
     <<[Model("m", "mock") EXCEPT !.enabled = FALSE]>>,
     <<[Model("m", "claude") EXCEPT !.card = Card(3, None)],
       [Model("n", "claude") EXCEPT !.card = Card(5, 0)]>>,
     <<Selects(Model("a", "claude"), "openai"), Selects(Model("b", "gpt"), "vllm")>>,
     <<Selects(Model("a", "claude"), "unheard of")>>}

Gateways == <<Profile("gateway", "openai", Ref("env", "TEAM_KEY")),
              Profile("openai", "openai", Ref("keyring", "here")),
              Profile("vault", "anthropic", Ref("keyring", "gone")),
              Profile("open", "google", None)>>
Gated ==
    {[With(<<Selects(m, id), Model("c", "gpt")>>) EXCEPT !.providers = Gateways] :
        m \in {Model("a", "claude"), Own(Model("a", "claude"), "TEAM_KEY")},
        id \in {"gateway", "openai", "vault", "open"}}
    \cup {[With(<<Selects(Model("a", "claude"), "p")>>) EXCEPT
             !.providers = <<Profile("p", "anthropic", Ref(scheme, "x"))>>] :
             scheme \in {"literal", "file", "cmd", "unheard of"}}

Cases(filter) == [Plain EXCEPT !.filter = filter]

Raws ==
    {Plain} \cup {With(models) : models \in Models} \cup Gated
    \cup {[Plain EXCEPT !.providers = providers] : providers \in
            {<<Profile("p", "mock", None), Profile("p", "local", None)>>,
             <<Profile(None, "mock", None)>>, <<[Profile("p", "mock", None) EXCEPT !.rpm = 0]>>}}
    \cup {[Plain EXCEPT !.run.concurrency = 0], [Plain EXCEPT !.budgets.run = -1],
          [Plain EXCEPT !.statistics.resamples = 99], [Plain EXCEPT !.watch.threshold = 0]}
    \cup {[Plain EXCEPT !.metrics.weights = [cost |-> w]] : w \in {0, 1, None}}
    \cup {[Plain EXCEPT !.metrics.blocks = [cost |-> b]] : b \in
            {Block("down", None, None), Block("min", "target", None), Block("min", "target", 2)}}
    \cup {[Plain EXCEPT !.testPaths = paths] : paths \in
            {<<"tests">>, <<"one", "tests", "one">>, <<"nowhere">>}}
    \cup {[Plain EXCEPT !.scorerPaths = <<"nowhere">>], [Plain EXCEPT !.pricing = "prices"],
          [Plain EXCEPT !.hooks = {"gone"}], [Plain EXCEPT !.evalType = "llm_judge"],
          [Plain EXCEPT !.evalType = "llm_judge", !.judge = "claude"],
          [Plain EXCEPT !.evalType = "unheard of"]}
    \cup {Cases([NoFilter EXCEPT !.tags = {"slow"}]), Cases([NoFilter EXCEPT !.limit = 1]),
          Cases([NoFilter EXCEPT !.ids = {<<"b", 9>>}]),
          Cases([NoFilter EXCEPT !.exclude_tags = {"slow"}, !.all_tags = {"core"}])}

MCCommands ==
    {[do |-> do, models |-> models, trials |-> trials, concurrency |-> None, filter |-> Nothing] :
        do \in {"evaluate", "validate"}, models \in {{}, {"claude"}, {"nobody"}},
        trials \in {None, 2}}
    \cup {[do |-> "evaluate", models |-> {}, trials |-> None, concurrency |-> 1,
           filter |-> [limit |-> 1]]}

Line(kind, name, value) == [kind |-> kind, name |-> name, value |-> value]
Exported(anthropic, team) ==
    [name \in {"ANTHROPIC_API_KEY", "OPENAI_API_KEY", "GEMINI_API_KEY", "TEAM_KEY"} |->
        CASE name = "ANTHROPIC_API_KEY" -> anthropic [] name = "TEAM_KEY" -> team [] OTHER -> None]

\* The machine: what is exported, and what the two .env files say.
Environments ==
    {[exported |-> Exported(anthropic, None), userEnv |-> userEnv, projectEnv |-> projectEnv] :
        anthropic \in {None, "", "exported"},
        userEnv \in {<<>>, <<Line("export", "ANTHROPIC_API_KEY", "user"),
                             Line("plain", "OPENAI_API_KEY", "user")>>},
        projectEnv \in {<<>>, <<Line("plain", "ANTHROPIC_API_KEY", "old"),
                                Line("quoted", "ANTHROPIC_API_KEY", "project"),
                                Line("torn", "ANTHROPIC_API_KEY", "torn"),
                                Line("plain", "TEAM_KEY", "team")>>}}

Record(id, tags) ==
    [id |-> id, input |-> "asked", reference |-> "known", type |-> None, tags |-> tags,
     weight |-> None, off |-> FALSE]
File(stem, records) ==
    [stem |-> stem, records |-> records, defaults |-> [type |-> None, tags |-> {}, weight |-> 1]]

One == File("one", <<Record(None, {"core"}), Record(<<"a", 1>>, {"core", "slow"})>>)
Two == File("two", <<[Record(None, {}) EXCEPT !.off = TRUE], Record(None, None)>>)
Same == File("two", <<Record(<<"one", 0>>, {})>>)
Bare == File("bare", <<[Record(None, {}) EXCEPT !.reference = None]>>)
Wrong == File("wrong", <<[Record(None, {}) EXCEPT !.input = None]>>)
Trees == {[root |-> root, tests |-> tests, one |-> <<One>>, nowhere |-> <<>>] :
             root \in {<<>>, <<One>>}, tests \in {<<>>, <<Two>>}}
         \cup {[root |-> <<One>>, tests |-> <<file>>, one |-> <<One>>, nowhere |-> <<>>] :
                  file \in {Same, Bare, Wrong}}

Files(raw) == <<None, raw, None>>
Machine(environment, raw, tree, healthy, lucky) ==
    [exported |-> environment.exported, userEnv |-> environment.userEnv,
     projectEnv |-> environment.projectEnv, files |-> Files(raw), tree |-> tree,
     paths |-> {"tests", "one", "rag.py:answer", "prices"},
     prices |-> [claude |-> Card(2, None), mock |-> Card(None, 1)],
     scorers |-> {"exact_match", "llm_judge"}, strict |-> {"exact_match"}, hooks |-> {},
     keyring |-> {"here"}, keyfile |-> IF lucky THEN "private" ELSE "shared",
     logins |-> IF lucky THEN {"anthropic"} ELSE {},
     helper |-> IF lucky THEN "answers" ELSE "fails", healthy |-> healthy]

Plainly == [root |-> <<One>>, tests |-> <<Two>>, one |-> <<One>>, nowhere |-> <<>>]
MCWorlds ==
    {Machine(environment, raw, Plainly, healthy, lucky) :
        environment \in Environments, raw \in Raws, healthy \in {{}, {"l", "t", "s"}},
        lucky \in BOOLEAN}
    \cup {Machine(environment, raw, tree, {}, TRUE) :
            environment \in {e \in Environments : e.projectEnv # <<>>},
            raw \in {Plain, [Plain EXCEPT !.testPaths = <<"one", "tests">>]}, tree \in Trees}

MCPrefix == [id \in {"claude", "gpt", "mock", "llama", "ghost", "rag.py:answer",
                     "gone.py:answer"} |->
    CASE id = "claude" -> "anthropic" [] id = "gpt" -> "openai" [] id = "mock" -> "mock"
      [] id = "llama" -> "local" [] OTHER -> None]
MCLooser == [id \in DOMAIN MCPrefix \cup {"opus", "anthropic", "openai", "gemini", "local", "callable"} |->
    IF id = "claude" THEN <<"claude", "opus">> ELSE <<id>>]
MCCatalog == [id \in DOMAIN MCLooser |->
    CASE id = "opus" -> Card(9, 9) [] id = "claude" -> Card(8, 8) [] id = "local" -> Card(0, 0)
      [] OTHER -> Card(None, None)]
=============================================================================
