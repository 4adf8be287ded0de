--------------------------- MODULE ProjectConfig ---------------------------
(***************************************************************************)
(* What a project's config file is turned into (core/config.py): parsing,  *)
(* the checks across its blocks, the overrides of a command, and the test  *)
(* files it leads to.  Every function that raises is an operator that      *)
(* gives None instead; which exception and what it says is left out.       *)
(*                                                                         *)
(* A raw block is a record whose absent keys are None.  Spellings of one   *)
(* key (model, id and name; run, target and callable) are one field.       *)
(***************************************************************************)
EXTENDS TestCases, FiniteSetsExt

\* CONNECTORS: the vendor kinds.
Kinds == {"anthropic", "openai", "gemini", "google", "litellm", "local", "ollama", "lmstudio",
          "openai_compatible", "vllm", "llamacpp", "mock", "callable", "pipeline"}

\* a or b or c
FirstOf(values) ==
    IF \E i \in DOMAIN values : values[i] # None
    THEN values[Min({i \in DOMAIN values : values[i] # None})]
    ELSE None

Given(amount) == amount # None

\* The elements of a sequence, each at its first place.
Dedupe(seq) ==
    LET Add(kept, x) == IF Contains(kept, x) THEN kept ELSE Append(kept, x)
    IN FoldLeft(Add, <<>>, seq)

Distinct(seq) == Cardinality(ToSet(seq)) = Len(seq)

\* The elements of a sequence that are wanted, in their order.
Kept(seq, wanted) ==
    LET Keep(kept, x) == IF x \in wanted THEN Append(kept, x) ELSE kept
    IN FoldLeft(Keep, <<>>, seq)

-----------------------------------------------------------------------------
(* Parsing the blocks *)

\* A bare string is an entry whose other keys are absent.
ParseModel(raw) ==
    LET model == FirstOf(<<raw.model, raw.run>>)
    IN IF model = None THEN None
       ELSE [raw EXCEPT !.model = model, !.key = FirstOf(<<raw.key, model>>)]

ParseProvider(raw) ==
    IF \/ raw.id = None
       \/ raw.kind \notin Kinds
       \/ \E limit \in {raw.rpm, raw.timeout} : Given(limit) /\ limit <= 0
       \/ Given(raw.attempts) /\ raw.attempts < 0
    THEN None ELSE raw

RunRefused(run) == run.trials < 1 \/ run.concurrency < 1 \/ run.retries < 0

\* A weight that is no number is None; no weights at all means accuracy alone.
Weights(metrics) ==
    IF DOMAIN metrics.weights = {} THEN [accuracy |-> 1] ELSE metrics.weights

MetricsRefused(metrics) ==
    LET weights == Weights(metrics)
        blocks == {metrics.blocks[name] : name \in DOMAIN metrics.blocks}
    IN \/ \E name \in DOMAIN weights : weights[name] = None \/ weights[name] < 0
       \/ \A name \in DOMAIN weights : weights[name] = 0
       \/ \E block \in blocks :
             \/ block.direction \notin {None, "max", "min"}
             \/ block.normalize \notin {None, "minmax", "target", "budget", "raw"}

BudgetsRefused(budgets) ==
    \/ \E limit \in {budgets.run, budgets.model, budgets.confirm} : Given(limit) /\ limit < 0
    \/ budgets.on_exceed \notin {"stop", "warn"}

\* In hundredths.
StatisticsRefused(statistics) ==
    statistics.confidence \notin 51..99 \/ statistics.resamples < 100

WatchRefused(watch) == watch.threshold \notin 1..99

-----------------------------------------------------------------------------
(* The config as a whole *)

\* A profile with the id that a model names in `provider:`.
ProviderFor(config, spec) ==
    LET found == {i \in DOMAIN config.providers : config.providers[i].id = spec.provider}
    IN IF spec.provider = None \/ found = {} THEN None ELSE config.providers[Min(found)]

\* validate(): each model's provider is a declared profile or a vendor kind, a
\* target names a function, a metric measured against a target has one, and the
\* paths it names exist.
Valid(config, paths) ==
    /\ Distinct([i \in DOMAIN config.providers |-> config.providers[i].id])
    /\ \A spec \in ToSet(config.models) :
          /\ spec.provider = None \/ spec.provider \in Kinds \/ ProviderFor(config, spec) # None
          /\ spec.run = None \/ spec.run \in paths
    /\ \A name \in DOMAIN config.metrics.blocks :
          LET block == config.metrics.blocks[name]
          IN block.normalize \in {"target", "budget"} => Given(block.target)
    /\ ToSet(config.testPaths) \subseteq paths
    /\ ToSet(config.scorerPaths) \subseteq paths
    /\ config.pricing = None \/ config.pricing \in paths

FromDict(raw, paths) ==
    LET config == [raw EXCEPT !.models = [i \in DOMAIN @ |-> ParseModel(@[i])],
                              !.providers = [i \in DOMAIN @ |-> ParseProvider(@[i])]]
    IN IF \/ raw.models = <<>>
          \/ None \in ToSet(config.models) \cup ToSet(config.providers)
          \/ ~Distinct([i \in DOMAIN config.models |-> config.models[i].key])
          \/ RunRefused(raw.run) \/ MetricsRefused(raw.metrics) \/ BudgetsRefused(raw.budgets)
          \/ StatisticsRefused(raw.statistics) \/ WatchRefused(raw.watch)
          \/ ~Valid(config, paths)
       THEN None ELSE config

\* load(): the first of the names a config file may have.
Load(files, paths) ==
    LET raw == FirstOf(files) IN IF raw = None THEN None ELSE FromDict(raw, paths)

\* apply_overrides(): what the command says replaces what the file says, and is
\* not checked against the bounds of the run block.
ApplyOverrides(config, overrides) ==
    LET wanted == {spec \in ToSet(config.models) :
                      spec.key \in overrides.models \/ spec.model \in overrides.models}
        named == UNION {{spec.key, spec.model} : spec \in ToSet(config.models)}
        Over(new, old) == IF Given(new) THEN new ELSE old
    IN IF ~(overrides.models \subseteq named) THEN None
       ELSE [config EXCEPT
               !.models = IF overrides.models = {} THEN @ ELSE Kept(@, wanted),
               !.run.trials = Over(overrides.trials, @),
               !.run.concurrency = Over(overrides.concurrency, @),
               !.filter = [name \in DOMAIN @ |->
                             IF name \in DOMAIN overrides.filter THEN overrides.filter[name]
                             ELSE @[name]]]

EnabledModels(config) == Kept(config.models, {spec \in ToSet(config.models) : spec.enabled})

\* discover_test_files(): the files of each path that is named, or else those
\* at the places where tests usually are.
DiscoverTestFiles(config, tree) ==
    LET found == IF config.testPaths # <<>>
                 THEN FlattenSeq([i \in DOMAIN config.testPaths |-> tree[config.testPaths[i]]])
                 ELSE tree["root"] \o tree["tests"]
    IN IF config.testPaths = <<>> /\ found = <<>> THEN None ELSE Dedupe(found)
=============================================================================
