---------------------------- MODULE Preparation ----------------------------
(***************************************************************************)
(* From a command to a run that can start: cli.main and the commands       *)
(* evaluate and validate, the .env files (core/env.py), the config and the *)
(* test cases, the scorers, hooks and prices (ArenaRunner.__init__),       *)
(* ArenaRunner.preflight, and the connectors that run() builds once the    *)
(* run has its row (connectors/registry.py, core/secrets.py).              *)
(*                                                                         *)
(* What the machine and the project hold is one record, `world`, fixed     *)
(* when the command begins; the steps read it in the order of the code.    *)
(* Any exception ends the command; what matters is whether the run had     *)
(* its row by then.                                                        *)
(***************************************************************************)
EXTENDS ProjectConfig

CONSTANTS
    Worlds,     \* what the machine and the project may hold
    Commands,   \* commands with their overrides
    Prefix,     \* the provider that the beginning of a model id says, or None
    Looser,     \* _candidates: looser forms of a model id, most specific first
    Catalog     \* the price entries of the shipped catalog

\* What the steps below need of their inputs: lists are sequences, the price
\* entries give amounts, the first form of a model id is the id itself, and
\* `exported` has an entry for every variable that a config can name.
IsList(seq) == seq \in Seq(ToSet(seq))
HasKeys(record, names) ==
    /\ record = [name \in DOMAIN record |-> record[name]]
    /\ names \subseteq DOMAIN record

Cards == [{"input", "output"} -> Int \cup {None}]

IsModel(raw, environment) ==
    /\ HasKeys(raw, {"model", "key", "env", "card"})
    /\ FirstOf(<<raw.model, raw.run>>) \in DOMAIN Looser \cup {None}
    /\ raw.env \in DOMAIN environment \cup {None}
    /\ raw.card \in Cards \cup {None}

IsProfile(raw, environment) ==
    raw.ref # None /\ raw.ref.scheme = "env" => raw.ref.body \in DOMAIN environment

IsConfig(raw, environment) ==
    /\ HasKeys(raw, {"models", "providers"})
    /\ IsList(raw.models)
    /\ \A spec \in ToSet(raw.models) : IsModel(spec, environment)
    /\ IsList(raw.providers)
    /\ \A profile \in ToSet(raw.providers) : IsProfile(profile, environment)

ASSUME PreparationAssumption ==
    /\ None \notin {"callable", "local", "gemini"}
    /\ \A id \in DOMAIN Looser :
          /\ Looser[id] \in Seq(DOMAIN Looser)
          /\ Looser[id] # <<>> /\ Looser[id][1] = id
    /\ Catalog \in [DOMAIN Looser -> Cards]
    /\ \A w \in Worlds :
          /\ IsList(w.userEnv) /\ IsList(w.projectEnv) /\ IsList(w.files)
          /\ {"ANTHROPIC_API_KEY", "OPENAI_API_KEY", "GEMINI_API_KEY"} \subseteq DOMAIN w.exported
          /\ \A raw \in ToSet(w.files) \ {None} : IsConfig(raw, w.exported)
          /\ \A id \in DOMAIN w.prices : w.prices[id] \in Cards

VARIABLES
    pc,         \* the step the command has come to
    world,      \* what it reads
    command,    \* what was typed
    environ,    \* os.environ
    config,     \* the project's config
    cases,      \* the test cases
    overrides,  \* the price book's entries over the catalog
    skipped,    \* the models preflight leaves out
    row,        \* the run's row: none or running
    keys        \* the key that each model's connector was given

vars == <<pc, world, command, environ, config, cases, overrides, skipped, row, keys>>

Init ==
    /\ pc = "env"
    /\ world \in Worlds
    /\ command \in Commands
    /\ environ = world.exported
    /\ config = None
    /\ cases = <<>>
    /\ overrides = <<>>
    /\ skipped = {}
    /\ row = "none"
    /\ keys = <<>>

Refuse ==
    /\ pc' = "refused"
    /\ UNCHANGED <<world, command, environ, config, cases, overrides, skipped, row, keys>>

-----------------------------------------------------------------------------
(* The environment *)

\* What one line of a .env file sets.  A comment, a line without a name or a
\* `=`, an open quote and text after a closed one set nothing.
ParseLine(line) == line.kind \in {"plain", "export", "quoted"}

ParseEnv(file) ==
    LET Set(values, line) ==
            IF ParseLine(line) THEN [values EXCEPT ![line.name] = line.value] ELSE values
    IN FoldLeft(Set, [name \in DOMAIN world.exported |-> None], file)

\* Mutant: the user's own file is the nearer one.
FindEnvFilesFarthestLast == <<world.projectEnv, world.userEnv>>

\* The files that are there, nearest last; one that cannot be read is empty.
FindEnvFiles == <<world.userEnv, world.projectEnv>>

\* load_env: a variable that is in the environment already stays as it is.
LoadEnv ==
    /\ pc = "env"
    /\ LET Update(merged, file) ==
               LET values == ParseEnv(file)
               IN [name \in DOMAIN merged |->
                     IF values[name] = None THEN merged[name] ELSE values[name]]
           merged == FoldLeft(Update, [name \in DOMAIN environ |-> None], FindEnvFiles)
       IN environ' = [name \in DOMAIN environ |->
                        IF environ[name] = None THEN merged[name] ELSE environ[name]]
    /\ pc' = "config"
    /\ UNCHANGED <<world, command, config, cases, overrides, skipped, row, keys>>

\* A variable that is set to the empty text is as good as unset.
Environ(name) == IF environ[name] = "" THEN None ELSE environ[name]

-----------------------------------------------------------------------------
(* The project *)

\* load_config, with the overrides of the command.
LoadConfig ==
    /\ pc = "config"
    /\ LET loaded == Load(world.files, world.paths)
       IN IF loaded # None /\ ApplyOverrides(loaded, command) # None
          THEN /\ config' = ApplyOverrides(loaded, command)
               /\ pc' = "collaborators"
               /\ UNCHANGED <<world, command, environ, cases, overrides, skipped, row, keys>>
          ELSE Refuse

CanonicalProvider(provider) ==
    CASE provider \in {"ollama", "lmstudio", "openai_compatible", "vllm", "llamacpp"} -> "local"
      [] provider = "google" -> "gemini"
      [] provider = "pipeline" -> "callable"
      [] OTHER -> provider

\* A target first, then the profile's kind, the provider that is named, what
\* the id says, and an endpoint of its own; None if nothing says anything.
ResolveProvider(spec, profile) ==
    CanonicalProvider(
        FirstOf(<<IF spec.run = None THEN None ELSE "callable",
                  IF profile = None THEN None ELSE profile.kind,
                  spec.provider,
                  Prefix[spec.model],
                  IF spec.base = None THEN None ELSE "local">>))

\* One entry of the price book over another.
Over(entry, under) ==
    [field \in DOMAIN under |-> IF entry[field] = None THEN under[field] ELSE entry[field]]
NoEntry == [input |-> None, output |-> None]

\* _merge_entry
MergeEntry(book, id, entry) == [book EXCEPT ![id] = Over(entry, @)]

\* build_price_book: the project's pricing file and its pricing.models, then
\* the card of each model, later entries over earlier ones.
BuildPriceBook ==
    LET MergeCard(book, spec) ==
            IF spec.card = None THEN book ELSE MergeEntry(book, spec.model, spec.card)
    IN FoldLeft(MergeCard,
                [id \in DOMAIN Looser |->
                   IF config.pricing = None \/ id \notin DOMAIN world.prices THEN NoEntry
                   ELSE world.prices[id]],
                config.models)

\* Mutant: of one model id, the catalog is laid over the project's entry.
ResolveCardCatalogLast(book, id) ==
    LET Layer(card, form) == Over(Catalog[form], Over(book[form], card))
    IN FoldLeft(Layer, NoEntry, Reverse(Looser[id]))

\* PriceBook._resolve: broadest form first, the project's entry over the
\* catalog's for each.
ResolveCard(book, id) ==
    LET Layer(card, form) == Over(book[form], Over(Catalog[form], card))
    IN FoldLeft(Layer, NoEntry, Reverse(Looser[id]))

\* PriceBook.get: a model that nothing is known of is priced as its provider.
GetCard(book, spec) ==
    LET provider == ResolveProvider(spec, None)
    IN IF ResolveCard(book, spec.model) # NoEntry \/ provider = None
       THEN ResolveCard(book, spec.model) ELSE ResolveCard(book, provider)

\* ArenaRunner.__init__: a scorer file that defines none, a hook that is not
\* known or not there, and an entry of the price book that is no mapping, raise.
Collaborate ==
    /\ pc = "collaborators"
    /\ IF world.scorers # {} /\ config.hooks \subseteq world.hooks
       THEN /\ overrides' = BuildPriceBook
            /\ pc' = "cases"
            /\ UNCHANGED <<world, command, environ, config, cases, skipped, row, keys>>
       ELSE Refuse

LoadCases ==
    /\ pc = "cases"
    /\ LET files == DiscoverTestFiles(config, world.tree)
           loaded == LoadTestCases(files, config.evalType, config.filter)
       IN IF files # None /\ loaded # None
          THEN /\ cases' = loaded
               /\ pc' = "preflight"
               /\ UNCHANGED <<world, command, environ, config, overrides, skipped, row, keys>>
          ELSE Refuse

-----------------------------------------------------------------------------
(* Connectors *)

VendorKey(provider) ==
    CASE provider = "anthropic" -> "ANTHROPIC_API_KEY"
      [] provider = "openai" -> "OPENAI_API_KEY"
      [] provider = "gemini" -> "GEMINI_API_KEY"
      [] OTHER -> None

\* Mutant: the vendor's variable is asked for though the model names its own.
RequiresVendorKey(spec) == VendorKey(ResolveProvider(spec, None))

\* The profile is not looked at.
RequiresApiKey(spec) ==
    LET provider == ResolveProvider(spec, None)
    IN IF provider \in {None, "mock", "local", "callable"} THEN None
       ELSE FirstOf(<<spec.env, VendorKey(provider)>>)

\* resolve(): None if the reference names nothing, or raises.
ResolveSecret(ref) ==
    CASE ref.scheme = "literal" -> ref.body
      [] ref.scheme = "env" -> Environ(ref.body)
      [] ref.scheme = "keyring" /\ ref.body \in world.keyring -> "from the keyring"
      [] ref.scheme = "file" /\ world.keyfile = "private" -> "from a file"
      [] ref.scheme = "cmd" /\ world.helper = "answers" -> "from a command"
      [] OTHER -> None

\* The key for a model: from the reference of its profile, the variable its
\* entry names, or its vendor's variable.
ApiKey(spec, profile) ==
    IF profile # None /\ profile.ref # None THEN ResolveSecret(profile.ref)
    ELSE IF spec.env # None THEN Environ(spec.env)
    ELSE LET name == VendorKey(ResolveProvider(spec, profile))
         IN IF name = None THEN None ELSE Environ(name)

\* build_connector() gives a connector unless the id leads nowhere, the key
\* that the profile or the model names is not there, or the connector of that
\* kind does not take its arguments.
Connects(spec, profile) ==
    /\ ResolveProvider(spec, profile) # None
    /\ spec.env # None \/ (profile # None /\ profile.ref # None) => ApiKey(spec, profile) # None
    /\ spec.params = "taken"

-----------------------------------------------------------------------------
(* Preflight and the run *)

\* Mutant: a server on this machine is taken to be there.
CheckedTargets(spec) ==
    /\ RequiresApiKey(spec) = None \/ Environ(RequiresApiKey(spec)) # None
    /\ ResolveProvider(spec, None) = "callable"

\* Models whose endpoint is asked, or whose target is imported, before the run.
Checked(spec) ==
    /\ RequiresApiKey(spec) = None \/ Environ(RequiresApiKey(spec)) # None
    /\ ResolveProvider(spec, None) \in {"local", "callable"}

\* ArenaRunner.preflight: the models it leaves out lack a variable, whether or not
\* their SDK would find credentials elsewhere (world.logins), or do not answer the
\* health check, for which they need a connector.
Preflight ==
    /\ pc = "preflight"
    /\ LET enabled == ToSet(EnabledModels(config))
           Missing(spec) == RequiresApiKey(spec) # None /\ Environ(RequiresApiKey(spec)) = None
       IN IF \/ cases = <<>> \/ enabled = {}
             \/ \E case \in ToSet(cases) :
                   \/ case.type \notin world.scorers
                   \/ case.type \in world.strict /\ case.reference = None
                   \/ case.type = "llm_judge" /\ config.judge = None
             \/ \E spec \in enabled : Checked(spec) /\ ~Connects(spec, ProviderFor(config, spec))
          THEN Refuse
          ELSE /\ skipped' = {spec \in enabled :
                                Missing(spec) \/ (Checked(spec) /\ spec.key \notin world.healthy)}
               /\ pc' = "report"
               /\ UNCHANGED <<world, command, environ, config, cases, overrides, row, keys>>

Runnable == Kept(EnabledModels(config), ToSet(EnabledModels(config)) \ skipped)

\* `arena validate` and `--dry-run` stop here.
Report ==
    /\ pc = "report"
    /\ command.do # "evaluate"
    /\ pc' = "reported"
    /\ UNCHANGED <<world, command, environ, config, cases, overrides, skipped, row, keys>>

\* store.start_run
StartRun ==
    /\ pc = "report"
    /\ command.do = "evaluate"
    /\ IF Runnable = <<>> THEN Refuse
       ELSE /\ row' = "running"
            /\ pc' = "connect"
            /\ UNCHANGED <<world, command, environ, config, cases, overrides, skipped, keys>>

\* connectors = {...}: outside the try that closes the run's row.
Connect ==
    /\ pc = "connect"
    /\ LET Profile(spec) == ProviderFor(config, spec)
       IN IF \A spec \in ToSet(Runnable) : Connects(spec, Profile(spec))
          THEN /\ keys' = [i \in DOMAIN Runnable |-> ApiKey(Runnable[i], Profile(Runnable[i]))]
               /\ pc' = "ready"
               /\ UNCHANGED <<world, command, environ, config, cases, overrides, skipped, row>>
          ELSE Refuse

Next == LoadEnv \/ LoadConfig \/ Collaborate \/ LoadCases \/ Preflight \/ Report \/ StartRun
        \/ Connect

Spec == Init /\ [][Next]_vars

-----------------------------------------------------------------------------
(* What must hold *)

\* The last thing a file says of a variable.
LastSaid(file, name) ==
    LET said == {i \in DOMAIN file : ParseLine(file[i]) /\ file[i].name = name}
    IN IF said = {} THEN None
       ELSE file[CHOOSE i \in said : \A j \in said : j <= i].value

\* The account a variable stands for: "an explicitly exported key always beats
\* a stale file", and the project's file beats the user's.
Account(name) ==
    LET value == FirstOf(<<world.exported[name], LastSaid(world.projectEnv, name),
                           LastSaid(world.userEnv, name)>>)
    IN IF value = "" THEN None ELSE value

\* A run that starts uses the account the user meant for each model: the one
\* its profile refers to, else the one its entry names, else the vendor's.
TheRightKeyIsUsed ==
    pc = "ready" => \A i \in DOMAIN Runnable :
        LET spec == Runnable[i]
            profile == ProviderFor(config, spec)
            meant == IF profile # None /\ profile.ref # None
                     THEN IF profile.ref.scheme = "env" THEN Account(profile.ref.body)
                          ELSE ResolveSecret(profile.ref)
                     ELSE IF spec.env # None THEN Account(spec.env)
                     ELSE IF VendorKey(ResolveProvider(spec, profile)) = None THEN None
                     ELSE Account(VendorKey(ResolveProvider(spec, profile)))
        IN keys[i] = meant

\* "An unset ANTHROPIC_API_KEY does not mean there are no credentials: the SDK
\* also resolves auth tokens and `ant auth login` profiles" (providers.py:63): the
\* model names no variable and selects no profile, and its vendor's SDK has
\* credentials of its own.
HasLogin(spec) ==
    /\ ProviderFor(config, spec) = None /\ spec.env = None
    /\ ResolveProvider(spec, None) \in world.logins

\* No model is left out for want of a variable that its SDK does not need.
LoginsAreCredentials == \A spec \in skipped : ~HasLogin(spec)

\* A model that is left out, has no such login and selects no profile could not
\* have been called: it would have had no credentials, or nobody answers at its
\* place.
SkippedModelsCouldNotRun ==
    \A spec \in skipped :
        LET provider == ResolveProvider(spec, None)
        IN ProviderFor(config, spec) = None /\ ~HasLogin(spec) =>
              \/ ~Connects(spec, None)
              \/ provider \in {"local", "callable"} /\ spec.key \notin world.healthy
              \/ /\ VendorKey(provider) # None
                 /\ ApiKey(spec, None) = None /\ provider \notin world.logins

\* A run whose row stays "running" though nothing runs had a model whose id
\* leads nowhere, whose parameters its connector does not take, or whose key is
\* not where its profile, or a mock model, says: all else is found before.
StuckRowsHaveACause ==
    pc = "refused" /\ row = "running" =>
        \E spec \in ToSet(Runnable) :
            LET profile == ProviderFor(config, spec)
            IN \/ ResolveProvider(spec, profile) = None
               \/ spec.params # "taken"
               \/ profile # None /\ profile.ref # None /\ ResolveSecret(profile.ref) = None
               \/ ResolveProvider(spec, None) = "mock" /\ spec.env # None
                     /\ Environ(spec.env) = None

\* What a model's own card says is what its calls are priced at, unless a later
\* entry of the same model says otherwise.
InlineCardsWin ==
    pc \in {"reported", "ready"} =>
        \A i \in DOMAIN config.models : \A field \in DOMAIN NoEntry :
            LET spec == config.models[i]
                Says(j) == /\ config.models[j].model = spec.model
                           /\ config.models[j].card # None
                           /\ config.models[j].card[field] # None
            IN Says(i) /\ ~(\E j \in DOMAIN config.models : j > i /\ Says(j))
               => GetCard(overrides, spec)[field] = spec.card[field]
=============================================================================
