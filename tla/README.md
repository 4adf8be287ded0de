# Agent Arena in TLA+

Agent Arena runs a sweep of calls (every model × every test case × every trial) against language-model
providers, writes each answer into an SQLite file, scores the models against each other and ranks them.
A sweep costs money, runs in a thread pool, can be stopped by a budget or a person, can be killed and can be
resumed by another process; a browser and a command line share its database and its settings files.

Beside it lies a study (`studies/multi_agent_handoff/`) that runs four architectures of agents on two tasks and
grades what they leave behind.

This directory holds TLA+ models of that program, the TLC configurations that check them on small instances,
and theorems with proofs that TLAPS checks: every safety property the runs check is proved for all values of the constants. Paths below are relative to the repository;
`core/`, `service/`, `web/`, `connectors/` and `scorers/` are under `agent_arena/`.

1. [Inventory](#1-inventory)
2. [Modules and the code they model](#2-modules-and-the-code-they-model)
3. [Runs: what is checked, under which bounds](#3-runs-what-is-checked-under-which-bounds)
4. [Where the code and its words disagree](#4-where-the-code-and-its-words-disagree)
5. [Fairness](#5-fairness)
6. [Proofs](#6-proofs)
7. [Only model-checked, abstracted, left out](#7-only-model-checked-abstracted-left-out)
8. [Plan](#8-plan)
9. [Running it](#9-running-it)

## 1. Inventory

"M" marks a component with a module here, "–" one without.

| | Component (code) | State it keeps | Operations | What is hard | What makes it correct |
|---|---|---|---|---|---|
| M | **Runner** (`core/runner.py`) | the pool's futures, the list of results, `stopped_early`, the run's row and the rows of `results` | start or resume a run, submit, execute, collect, stop, abort, report | workers and the collecting loop interleave; cancel, Ctrl-C, kill at any line; an `ArenaError` in one call with others in flight | nothing paid for and stored is paid for again; nothing counted is unstored; a run that says it is complete is; a stop starves the pool; a run ends |
| M | **Results database** (`core/store.py`) | `runs`, `results`, `rankings` | create, record, finish, abort, soft and hard delete, restore, vacuum, label, archive | each method commits by itself; every process has a connection of its own | recorded rows survive until the run is deleted; lifecycle operations leave measurements alone |
| M | **Run lifecycle service** (`service/runs.py`) | the database and `results/<run_id>/` | label, archive, delete with its files, restore, vacuum | two resources, no transaction over both | files and rows do not outlive a run without a nameable cause |
| M | **Job manager** (`web/api.py`) | dict of jobs, index by project, a `cancel_event` each | start, publish, cancel, evict | the lock covers the dict but not a job's status, nor the look before a start | a live job is never forgotten; a truncated sweep is never "done" |
| M | **Rate limits** (`core/ratelimit.py`) | tokens and time of two buckets, a semaphore per profile | enter, acquire, exit | sleeping outside the lock, leaving by an exception, an amount above the capacity | slots are conserved; a bucket grants its burst and its refill; no call waits for ever |
| M | **Retries** (`core/retry.py`, `runner._generate_with_retries`) | the attempt's number | attempt, back off, give up | retries run inside the limiter | at most `retries + 1` requests a call |
| M | **Reports** (`core/report.py`) | `results/<run_id>/` | write, remove | written by the caller after the run's row is closed | only that the directory is there or not is modelled |
| M | **Leaderboard** (`core/metrics.py`) | none, a function of rows, config and cards | aggregate, normalise, weigh, gate, rank | unmeasured metrics, min/max over a field that excludes some models, directions, targets | a score depends only on whom it should depend on, in the right direction |
| M | **User settings, profiles, credentials** (`service/settings.py`, `service/providers.py`, `core/secrets.py`, `service/secrets.py`) | `settings.json`, its `.corrupt` copy, the fallback key file | load, save, quarantine, reset, save or remove a profile, set or drop a key | no lock; a save is read, merge, replace; the key file is truncated and then written | an operation changes only what it is about; a profile's key is there |
| M | **Configuration** (`core/config.py`, `core/env.py`, `core/loaders.py`) | the config, the process's environment | parse, check across blocks, override, find test files, load `.env` files | four places may say a key; bounds and refusals; overrides that skip the bounds | a run uses the account the user meant |
| M | **Test cases** (`core/testcase.py`) | none | load, name, refuse, filter | ids that are made up; defaults of a file | what a scorer needs is there before money is spent |
| M | **Hooks** (`core/hooks.py`) | user code in a worker | change a call, score it, raise | malformed results, exceptions after the answer came | the cost of an answer is in its row |
| M | **Pricing** (`connectors/pricing.py`) | catalog, overrides | merge, look up, charge | names from broad to narrow, two books over each other | what a project says is what a call costs |
| M | **Connectors** (`connectors/`) | a target that is imported on first use | resolve, build, generate, health check | shared by workers; what cannot be built is known late | a target gets what it declares |
| M | **Scorers** (`scorers/`) | a registry, a judge built on first use | register, score, judge | raise, or give an error, or no number | one judge; a broken scorer costs its call only |
| M | **Projects service** (`service/projects.py`) | the folder of each project | copy, archive, delete | texts written in place, many calls on the file system, no lock | no text is broken, no history lost or misfiled without a nameable cause |
| M | **Web interface** (`web/api.py`, `web/server.py`, `web/language.py`) | the same folders, the jobs | create, update, save examples | a request between two steps of another, or of a command | edits stay; examples are not doubled |
| M | **Watch** (`core/watch.py`) | the history of runs | run, then compare with earlier runs | the newest row may be another process's | a tick compares with what came before it |
| M | **Command line** (`cli.py`) | none | layer overrides, validate, evaluate, confirm, watch | what was confirmed may have changed | as the services |
| M | **Hand-off study** (`studies/multi_agent_handoff/`) | the trace, the ticket table, the manifest of a sweep | four architectures, two graders, a sweep, a report | nested agents; a grader that reads words; a process that is stopped | grades say what happened; both summaries agree; what was recorded can be read |
| – | **Statistics** (`core/statistics.py`) | none | bootstrap intervals, paired comparison, cases that discriminate | resampling | numbers printed beside a leaderboard |
| – | **CI action** (`.github/actions/agent-arena-eval`) | none | comment on a pull request | – | – |
| – | **Site builder, demo server** (`site/`, `demo/`) | none | not part of an evaluation | – | – |

How they interact: a command or a request starts the **runner**; from a browser, through the **job manager**,
which gives it a thread and a `cancel_event`. The runner asks **connectors** for answers from its pool's workers,
each through its profile's **rate limiter** and its **retries**; **scorers** and **hooks** run in the same worker. Only
the main thread writes to the **database**. When the loop ends the runner builds the **leaderboard**, closes the
run's row, and the caller writes the **report**. The **lifecycle service** works on the same database and
directories from other processes and threads, with nothing between it and a live run. Connectors resolve their keys
through the **profiles** and **credentials**. Before all that the command line and the server load the `.env` files,
the **configuration** and the **test cases**, build the **price book**, and `preflight` leaves out what cannot run. The
**editor** of the web interface and the **projects service** write in the folders that runs and **watch** record in,
again without a lock. The **study** uses none of this: `run_all.py` starts a process for each trial, which
writes a trace and a ticket table for a grader to read.

`PROJECT.json` lists the hazards one by one, at the line where each bites, with the properties that would catch
it going wrong, or the reason why there is none yet.

## 2. Modules and the code they model

```
modelled            uses                                     proved about in
--------------------------------------------------------------------------------
ArenaRunner         RunLedger (which it implements)          RunProofs
JobManager                                                   RunProofs
CallExecution                                                CallProofs
RateLimit                                                    CallProofs
ResultStore                                                  StoredProofs
UserFiles                                                    StoredProofs
Leaderboard         Fractions                                LeaderboardProofs
Preparation         ProjectConfig, which uses TestCases      PreparationProofs
Projects                                                     ProjectsProofs
HandoffSweep        HandoffTrial, HandoffGrader              HandoffProofs
```

Each `MC...` module extends one of the first column and gives TLC its constants. `FoldFacts` holds the lemmas several proof modules cite.
Where one proof module is about two models, the second has names of its own (`JobsSpec`, `LimiterSpec`, `StoreSpec`).

**`ArenaRunner`** – `run()` of `core/runner.py` with its pool. `pc` is where the main thread of the process is:
`setup` (after the run's row exists or was resumed), `collect` (the `as_completed` loop), `cancelling` (the inner
loop over the futures), `drain` and `unwind` (the pool's `__exit__` after a normal end and after an exception),
`report`, `abort`, `returned`, and `idle` when no process works on the run. `future` and `outcome` are the pool's
futures, `results` the list of that name, `stop` is `stopped_early`, `run` and `rows` what is in the database.
`StartRun`/`ResumeRun` are the two ways in (a resume rehydrates the last stored success of each cell);
`SubmitJobs` the submission; `StartCall`/`FinishCall` a worker; `CollectResult`, `CollectArenaError` and
`RecordFails` one turn of the loop, with the row it writes and the question whether to stop; `CancelPending`,
`BreakLoop` the stop; `LeavePool`, `FinishRun`, `ReportFails`, `AbortRun` the end. `Interrupt`, `Cancel`, `Crash`,
`DeleteRun` and `Exit` are the world. A crash keeps `run` and `rows` and nothing else.

**`RunLedger`** – what a run promises to a reader of the database, with no thread in sight: a ledger of rows that
only grows, at most one success per cell, and a run closed as complete only if it covers what the attempt planned
or says that it does not. `ArenaRunner` implements it (`ImplementsLedger`; the mapping is at the end of
`ArenaRunner`): `StartRun` and `ResumeRun` are its `Open`, a collected result its `Record`, `FinishRun` its
`Complete`, `AbortRun` its `Abort` when the write goes through; an end that leaves the row as it was (a crash, an error before
the `try` or after it, an abort that could not be written) is its `Abandon`, and every other step a stutter.

**`JobManager`** – `Job`, `JobManager` and `start_run` of `web/api.py`. `held` and `index` are `_jobs` and
`_by_project`; `asking` is what a request thread found free between `active_for` and `jobs.start`, which are two
critical sections. `StartJob` is `start` with its eviction. The job's thread is `RunStarts`, `RunReturns`,
`Publish`, `JobFails`. The run inside is reduced to its verdict: whole, stopped by the budget, or cut short.

**`RateLimit`** – one `ProviderLimiter` and the calls of the workers through it, including the attempts each makes
while it is inside. `slots` is the semaphore, `tokens`/`idle` a bucket's amount and the time since `_updated`. Time
is a `Tick`. `Take` and `FallShort` are the two outcomes of one turn of `acquire`'s loop. A call takes its slot,
then `requests`, then `tokens`. `age`, `granted`, `entered` and `sent` count over one stretch of time that may
begin at any moment (`BeginWindow`).

**`ResultStore`** – the database and the report directories under several runners and several lifecycle
operations at once; a step is one committed transaction or one look at the file system. A runner's rows are
counted. It says what several processes do to each other's runs, where `ArenaRunner` says what one does
in detail. `recorded` and `disturbed` are history: rows ever committed, and runs that a deletion met while a runner
had them open.

**`UserFiles`** – `settings.json`, `settings.json.corrupt` and the fallback key file. An operation is a list of
`Stages` taken from the code's order (`save_provider`: key file, parse, settings; `delete_provider`: settings,
then key file; and so on), each stage one call on the file system. A load that meets a text it cannot read goes through a stage
more (`Aside`), in which that text is put aside; `Truncate` and `WriteKeys` are the two halves of writing the key file. A client may die between any two stages. `HandEdit` is a person who leaves a text in the settings file
that does not parse.

**`Leaderboard`** – `core/metrics.py`: `Aggregate`, `Normalize`, `Composite`, `Disqualified`, `Ahead` and
`BuildLeaderboard` translate the functions of those names. Every state is a sweep that ended with these rows and
its leaderboard, and a step is the same sweep with one row more, so that an action property can say what a row
changes. **`Fractions`** is exact arithmetic for it, on pairs of integers in lowest terms,
so that equal numbers are equal pairs.

**`CallExecution`** – `ArenaRunner._execute`, a call from request to row, by workers that share the connector of a model.
`fn` and `accepts` are the two fields that `callable_target._load` sets one after the other (`Import`, `Inspect`), `judge` and
`judgeLock` those of `_judge`. A failure (`Fail`) goes through `Classify` (`core/retry.py`); after an answer (`Send`) a hook, a scorer, a person or
the judge grades it (`GradeByHook` and so on), which ends in a row, or in an exception that takes the call out. The pool around
a call is `ArenaRunner`, the limiter `RateLimit`: both see a call as one step with an outcome.

**`ProjectConfig`**, **`TestCases`**, **`Preparation`** – the way from a command to a run that can start. The first two are pure:
`FromDict`, `Load`, `ApplyOverrides`, `DiscoverTestFiles`, `LoadTestCases`, with `None` for a function that raises. `Preparation` is
the state machine over them: `LoadEnv`, `LoadConfig`, `Collaborate` (`ArenaRunner.__init__`), `LoadCases`, `Preflight`, then
`Report` (`arena validate`) or `StartRun` (the row is there) and `Connect` (connectors are built, outside the `try`).
`world` is what machine and project hold, `environ` the process's environment, `keys` what the connectors got.

**`Projects`** – the folders of projects: who creates, edits, copies, archives, deletes, runs and watches them. An operation
is a list of `Stages` in the order of the code, each one call on the file system or the database; other clients fall
between any two, and `Die` ends one anywhere. `disk` is what is at each path; `fd` is the file a client has open,
which is the same file when its name changes (two writers of one `.tmp` meet in it); `runs` what the databases
hold, wherever a copy or a removal has carried them. `BuildConfig`, `CleanModels`, `CleanTests` and `TestId` are what the editor
makes of what it is sent. `believed` is history: each config as if every edit had been one step; `causes` names what has happened to
a folder that may explain damage: a copy, removal or in-place rewrite that died (`half`), a save that died before it removed
the old format (`left`), a save beside a file in a format that saves do not know, `.yml`, `.jsonl` or `.ndjson` (`beside`), two operations at once (`overlap`), a copy taken of a folder that has two
test files already (`copied`).

**`HandoffTrial`**, **`HandoffGrader`**, **`HandoffSweep`** – the study. `HandoffTrial` has the stack of agents at work, the trace they
log and the ticket table; an agent's turn is any of a few batches of tool calls, or words. Of words the model keeps
two things that do not depend on each other: which of the spellings that a grader looks for they contain (`Spellings`: "credit_hold",
"credit hold", neither), and whether they really tell of the hold, which only an agent that knows of it can do.
`HandoffGrader` reads a trace and a table as the graders do, and nothing else: of a hand-off one spelling, of a worker's
summary two. `HandoffSweep` goes through the plan by `position` (`run_all.py`), a trial or a skip at a time; after each trial it empties
its manifest (`TruncateManifest`) and fills it (`WriteManifest`), may be interrupted anywhere (`CrashSweep`), and at its end sums up in two ways.

Each property is accompanied by a mutant: a definition of the model altered the way a plausible mistake in the code
would alter it (`CollectAfterStop`, `BreakWithoutCancel`, `MetricRangeOfAll`, `TmpOfInPlace`...), under
which the property's own run fails. They stand just before the definition they replace, with a comment
`Mutant:`.

## 3. Runs: what is checked, under which bounds

| Run | Module, cfg | Distinct states | Properties |
|---|---|---|---|
| `sweep` | `MCArenaRunner`, `MCSweep` | 1,760,913 | `UnstoppedRunCoversPlan`, `NoCollectingOverBudget`, `StoppedPoolIsStarved` |
| `resume` | `MCArenaRunner`, `MCResume` | 408,381 | `NeverRepaid`, `ImplementsLedger`, `RunEnds` |
| `jobs` | `MCJobManager`, `MCJobManager` | 332,143 | `LiveJobsAreHeld`, `IndexFindsTheNewest`, `CancelledIsNeverDone` |
| `double_click` | `MCJobManager`, `MCDoubleClick` | | `OneLiveRunPerProject`, violated: [section 4](#4-where-the-code-and-its-words-disagree) |
| `rate` | `MCRateLimit`, `MCRateLimit` | 283,760 | `GrantsWithinBucket`, `RequestsAreBounded`, `EveryCallEnds` |
| `store` | `MCResultStore`, `MCResultStore` | 91,117 | `NothingRecordedIsLost`, `LeftoversHaveACause` |
| `files` | `MCUserFiles`, `MCUserFiles` | 1,445,231 | `SavesAreKept`, `ReferencesHaveKeys`, `EditsSurviveOneAtATime` |
| `leaderboard` | `MCLeaderboard`, `MCLeaderboard` | 109,760 | `OutsidersDoNotMatter`, `BetterIsNotBehind`, `GapsAreNotPunished`, `FailuresDoNotHelp` |
| `calls` | `MCCallExecution`, `MCCallExecution` | 789,832 | `PaidAnswersAreCounted`, `OnlyRejectionsAreFinal`, `OneJudge`, `StarvedCallsNeedARace` |
| `prepare` | `MCPreparation`, `MCPreparation` | 166,054 | `TheRightKeyIsUsed`, `SkippedModelsCouldNotRun`, `StuckRowsHaveACause`, `InlineCardsWin` |
| `projects` | `MCProjects`, `MCProjects` | 523,698 | `BrokenConfigsHaveACause`, `EditsAreNotUndone`, `ExamplesAreNotDoubled`, `HistoryIsNotMisattributed`, `KeptHistorySurvives`, `WatchComparesWithThePast` |
| `handoff` | `MCHandoff`, `MCHandoff` | 182,097 | `TraceExplainsTheTickets`, `OnlyWordingMisleadsTheBlame`, `IncompleteWasCutOff`, `SummaryAgreesWithTheReport`, `ReadableManifestIsComplete` |

What a theorem of section 6 says for every instance is checked by a run only where it is of interest by itself: the type
invariants, and invariants that follow from the ones listed (`OneSuccessPerCell` and `ResultsAreStored` from the
refinement), are not in the table. Five more configurations state what the repository says of itself and end in a counterexample;
they are in [section 4](#4-where-the-code-and-its-words-disagree).

**`sweep`**: two models × two tests, two workers, calls of price 0, 2 or 3, a run cap of 4, a model cap of 3, one
process. Two workers are the least for one to take a future while the loop cancels the others, four cells the least
for some to be done, some running and some queued at that moment; the prices let either cap be met exactly, crossed by one call, or
crossed by two. It shows that a run reported without a note of a stop has a result for each planned cell, that the loop does not
go on once what it collected is over a cap, and that nothing queued survives a stop.

**`resume`**: two models × one test, one worker, three processes one after the other, `fail_fast`. Two cells let one
be done and one not; three processes let a resume of a resume happen, and a model be skipped by the second
and measured by the third. It shows that no stored success is bought again, whatever killed the processes before, that what
the leaderboard counts is in the database, that the database only ever shows what `RunLedger` allows, and that a
process ends.

**`jobs`**: two request threads, two projects, three jobs, a table that retains one. Three jobs over a cap of one
make eviction run with live jobs, with finished jobs of the same project, and with a job whose project has a newer one.

**`rate`**: three workers on two slots, a bucket that one request empties, an estimate above what the
other bucket can hold, one retry, three calls, a stretch of three ticks that may begin anywhere. Every wait happens:
for a slot, for requests and for tokens; the clamp of `acquire` is what keeps the oversized estimate from waiting
for ever. `MaxIdle` only stops counting when a bucket is full anyway (`RateAssumption` says so).

**`store`**: one run, two runners, two lifecycle operations, two rows. Runs share nothing but a vacuum's list, so one run
is enough to see every conflict about it; two users are what a vacuum and a restore need, two runners what two resumes need.

**`files`**: two clients, two profiles, three operations, two edits by hand. Two clients are the least for an overlap,
three operations let a third one find what two left. The invariants separate what the order of the writes
guarantees by itself (one operation at a time, each dying anywhere) from what takes an overlap to break.

**`leaderboard`**: three models with up to two rows each of six kinds (failed; right, half right, wrong; unpriced;
untimed), five configs that between them use every normalisation, every gate and both treatments of unknown
cards; one has a target below zero, which no check of the program refuses. Three models are the least for one to be outside the ranking while two are compared.

**`calls`**: two workers, one target and one remote model, five kinds of exceptions (one for each branch of `classify`), one retry,
scores below 0, inside and not a number. Two workers are the least for one to come between the two assignments of
`_load`, or to want the judge while the other builds it. It shows that what was paid for is counted in a row, went with an
exception that takes the call out (of a hook, a scorer or the judge's reply), or is in a row without a cost, because what a hook or a scorer
returned could not be merged; that only rejections end a call before its retries are used up, and that a target goes
without the arguments it declares in that one race only.

**`prepare`**: 34,086 starting states: three values of a key in the environment, two `.env` files with and without it (quoted, torn,
overwritten in the file), some fifty configs that differ from a plain one in a key or two (models with own variables, profiles of each
scheme, a profile with the name of a vendor, refusals of each block, filters), vendors whose SDK has a login of its own, seven arrangements of test files, machines with and
without a local server, `evaluate` and `validate` with overrides. Nothing runs concurrently here; what is hard is that four modules
decide separately what a key, a provider and a price are.

**`projects`**: two clients, two names, two operations out of ten, on projects that the wizard or a person made (YAML, JSON, a
`config.yml` with JSON lines and results elsewhere; `.yml`, `.jsonl` and `.ndjson` are alike here), each with two runs. Two operations are the least for one to come between the stages of another, or to
find what another left half done (the theorems of `ProjectsProofs` are about any number); a history of one run is the least for the newest to crowd out the baseline. The payloads are a
good one, with repeated and missing ids, and seven with one thing wrong.

**`handoff`**: trials by hand of every architecture and task (of one agent also with a CRM that fails), and sweeps of up to two
runs with and without keys, one to three turns an agent. That is enough for a supervisor to delegate to both workers at once, for
a worker to be cut off under a supervisor that goes on, and for runs to be skipped first, last or throughout. It shows that
how a text is worded is the only way in which the grader's blame goes wrong, that the table is explained by the trace, and that
a manifest that can be read has every record of a trial but, at most, the newest.

Symmetry is used where the identifiers are interchangeable and the run has no liveness property: models and tests in
`sweep`, clients and projects in `jobs`, clients in `files`, runners and users in `store`, clients and names in `projects`. `CHECK_DEADLOCK FALSE` is set where the
system really stops (a bounded number of processes, jobs or operations is used up, a leaderboard is full, a run is ready, a sweep is over), and is
absent from `rate`, where time goes on.

## 4. Where the code and its words disagree

Six configurations state sentences of the repository that TLC finds a behaviour of the code to break: the run `double_click`, and five
that stand beside the runs, one counterexample each (`tlc -config MCBlame.cfg MCHandoff`). Where it is not the whole
story that a sentence is broken, a property of a passing run says what holds instead.

| Configuration, property | The repository says | What happens |
|---|---|---|
| `MCDoubleClick` of `MCJobManager`, `OneLiveRunPerProject` | `web/api.py:601`: "Double-clicking "Run" must not spend twice." | Two requests both ask `active_for` (`api.py:599`) before either starts its job. With one request at a time it cannot happen (theorem `OneClientSpendsOnce`). |
| `MCZeroBudget` of `MCLeaderboard`, `BudgetsAreCeilings` | `core/metrics.py:290`: "at or over budget scores 0.0"; `core/config.py:404`: "a budget of 0 is a real (if strict) ceiling" | `normalize` (`metrics.py:304`) takes a target of 0 for none: the more a model costs the better it scores. `BetterIsNotBehind` excludes it (`Sound`). |
| `MCLogin` of `MCPreparation`, `LoginsAreCredentials` | `connectors/providers.py:63-64`: "An unset ANTHROPIC_API_KEY does not mean there are no credentials: the SDK also resolves auth tokens and `ant auth login` profiles." | `preflight` (`runner.py:241-247`) leaves the model out. `SkippedModelsCouldNotRun` is about the models without such a login. |
| `MCFormats` of `MCProjects`, `SavesLeaveOneFormat` | `web/api.py:999-1000`: "an existing file of the other format is replaced so a project never ends up with both" | A save writes `.yaml` and removes `.json` only. Beside a `tests.yml`, `.jsonl` or `.ndjson`, all of which are read (`loaders.py:19`), it leaves two files of examples; where their ids are the same the project no longer loads. `ExamplesAreNotDoubled` names what else can double them: a save that died before it removed the old format, and operations that met. |
| `MCBlame` of `MCHandoff`, `BlamedBoundariesLostTheHold` | `task_02_credit_hold_escalation.py:217`: "The agent responsible for the final ticketing action never had access to credit_hold." | A hand-off that tells of it as "credit hold", or in other words, does not count (line 113); a worker's summary may say "credit hold" too (line 118). `OnlyWordingMisleadsTheBlame` says that nothing else misleads the grader. |
| `MCInterrupted` of `MCHandoff`, `ManifestSurvivesACrash` | `run_all.py:243`: "Save manifest after every run (safe against crashes)" | The file is emptied when it is opened (line 244) and filled afterwards. `ReadableManifestIsComplete` says what holds of a manifest that can be read. |

Others were met while modelling. They follow from a module's actions, or were seen by running the code, and no run is spent on them:

- **Answers in flight at a stop.** `core/runner.py:152`: "a request already sent has already been paid for, so abandoning its answer
  wastes the money without saving any". After a stop (`runner.py:398-403`) the pool waits for the calls in flight, and nobody collects them
  (`BreakLoop`, `LeavePool` of `ArenaRunner`).
- **What-if after a resume.** `web/api.py:855`: "a what-if and a fresh run with the same config can never disagree". A resumed run keeps the failed row
  of a cell beside the success that replaced it; its leaderboard counts one, `_leaderboard_from_store` (`api.py:888`) both.
- **Vacuum.** `core/store.py:500`: "Hard-delete every soft-deleted run". A run restored or resumed between the vacuum's list (`store.py:505`) and
  its deletes (`store.py:526`) is erased (`VacuumOne` of `ResultStore`).
- **Everything else is ready to run.** `cli.py:612-619`. A model id that leads nowhere, parameters its connector refuses or a key its profile promises
  pass `arena validate`, and fail after the run has its row, which stays at `running` (`StuckRowsHaveACause`; `runner.py:405-408` says that it does not).
- **A profile with a vendor's name.** `requires_api_key` (`connectors/registry.py`) looks at the entry and not at the profile, so `preflight` leaves out a
  model whose profile has the id `openai` when that vendor's variable is unset, although its profile has the key.
- **The subset a target declares.** `connectors/callable_target.py:43-45`: "exactly the subset it declares". Not while another worker is between
  lines 91 and 92 (`StarvedCallsNeedARace`).
- **A broken scorer.** `core/runner.py:606`: "a broken scorer fails its call, not the run". A judge's reply that does not parse is a `ScorerError`, which
  is raised again (`runner.py:604`) and ends the run. A verdict whose `metrics` or `detail` cannot be merged raises outside the `try`
  (`runner.py:614-615`): the call gets a bare row without a cost, and a budget does not see what was paid (`RaiseOther` of `CallExecution`).
- **Two models, one slug.** `update_project` writes before the config is loaded again (`api.py:567`): two models whose ids have one slug are saved,
  then every load of the project fails, the editor's own too. `create_project` makes the folder before `_build_config` may refuse
  (`api.py:530-531`), and the name is taken from then on.
- **A year of run history.** `service/projects.py:175-178`: keeping results "should not be able to destroy" it. It is kept by the name `results`; a history
  under another `output.dir` is removed (`KeptHistorySurvives`). A project that is deleted while a run or a tick of watch is under
  way comes back as a folder with a database and nothing else (`Start`, `Compare` of `Projects`).
- **Infrastructure is not failure.** `report_generator.py:6`: "'incomplete' runs (quota exhaustion, crash) are EXCLUDED from the denominator". A run whose
  process was stopped has no grade and counts as failed; one in which one agent was cut off while another finished is graded as a failure.

## 5. Fairness

Safety is checked and proved of `Spec` (`JobsSpec`, `LimiterSpec`, `StoreSpec`), without fairness. Two runs check liveness.

- `ArenaRunner`: weak fairness of the main thread of a process that exists, and of the worker of each cell.
  Threads that can run are scheduled, and a call ends: connectors carry `run.timeout_s` and a call makes at
  most `retries + 1` attempts. Nothing is assumed of people: no run is ever started, cancelled, deleted or
  interrupted by fairness, and crashes may happen or not. Which future `as_completed` yields next is open.
- `RateLimit`: weak fairness of `Tick` and of each worker's own step. A sleep ends, a request answers or times
  out. Nothing decides who gets the semaphore's next slot or the next token, so `EveryCallEnds` does not rest on
  a queue; it does rest on the number of calls being finite (`MaxCalls`), as a sweep is.

The other modules have no liveness property: their operations run to their end or die, and what a person asks for next is free. A sweep of
the study is a `for` loop over its plan, which ends whatever is recorded.

## 6. Proofs

Theorems hold for every value of the constants that the named assumptions of the modules allow. Each state machine has
an inductive invariant, `IInv` (`JobsIInv`, `LimiterIInv`, `StoreIInv`, `BoardInv`), checked by TLC before it was
proved; its parts are commented where they are defined. Every safety invariant and every action property of the passing runs
is stated by a theorem.

**`RunProofs`, the runner** (from `PriceAssumption`, `ConcurrencyAssumption`, `StartsAssumption`, `NullAssumption`:
any models, tests, trials, workers, caps, number of processes). `OneSuccessPerCell` is not inductive: it holds because
a cell whose success is stored is never submitted. `ResultsKnowSuccesses` says that while a process collects, every
stored success is in its list of results; `PlanIsPursued` that each planned cell is in the list, or its future is
still on its way, unless the loop was left early; `StoredSoFar` that the list is in the rows; `StoppedPoolIsStarved`
and `NoProcess` say the rest of what the pool looks like at each place. That the loop does not go on over a cap needs
no sum to be computed: only a collected cell changes what the sums are taken of, and the step that collects it asks
the question (`BudgetStep`). From it: `BudgetIsKept`, `TypeCorrect`, `OneSuccess`, `SuccessIsNeverRepaid` (an action
property), `UnstoppedCovers`, `ResultsStored`, `StoppedStarves`, and **`Refinement`**: `Spec => Ledger!LSpec`, initial
state and step by step under `IInv`.

**`RunProofs`, the jobs** (from `JobBoundsAssumption`, `NoProjectAssumption`: any number of clients, projects, jobs;
any retention). `IndexInv` strengthens `IndexFindsTheNewest` to jobs that are finished but held, without which
eviction could leave an entry that names a forgotten job; `VerdictInv` relates what a run returned to its
`cancel_event` and status. From it: `JobTypeCorrect`, `LiveJobsStay`, `IndexIsRight`, `CancelledStaysCancelled`.
`OneClientSpendsOnce` assumes a single client and proves the property `double_click` refutes for two, so it says
exactly what is missing.

**`CallProofs`, the limiter** (from `RateAssumption`: any finite set of workers, any integer rates, capacities, costs
and window). `BucketInv` is the potential argument: what a bucket has granted since the stretch began, plus what it
holds now, is at most its capacity plus what it earned. `RequestInv` is one more potential: the requests sent, and
those that the threads inside may still send (`Owed`, summed over all threads), are at most `Retries + 1` for each
call let through and each slot. From them: `LimiterTypeCorrect` (no bucket is ever above its capacity),
`SlotsConserved`, `BucketPromise`, `RequestsBounded`.

**`CallProofs`, the calls** (from `CallExecutionAssumption`: any finite set of workers, any targets, remote models,
prices, exceptions and number of retries). `JudgeInv` says that whoever builds the judge holds the lock and the judge
is not there yet; `LoadInv` that a connector with its function and without its signature has a worker between the two
assignments, and that a worker past the load has a function to call; `RetryInv` bounds what a call has been through by
the retries, and rests on `TerminalIsRejected`: of the overlapping tests of `classify`, exactly a rejection says
"terminal"; `MoneyInv` that what was paid is in a row, was dropped by an exception, was lost with a verdict that could not be
merged (`unseen`, and then such a row is there), or is the answer that a worker holds (`HeldInAll`). From it: `OneJudgeIsBuilt`, `RejectionsAreFinal`, `EveryAnswerIsCounted`, `StarvingNeedsARace`
(an action property).

**`StoredProofs`, the database** (from `StoreAssumption`: any runs, runners, users). `DeletedUnderARunner` and
`HiddenReports` name the situations in which a deletion meets an open run or a directory, `RowsAreRecorded` relates
counted and recorded rows; together they make `LeftoversHaveACause` inductive. From it: `StoreTypeCorrect`,
`RecordsAreKept`, `LeftoversExplained`, `MeasurementsAreImmutable` (an action property).

**`StoredProofs`, the user's files** (from `UserFilesAssumption`: any clients and any profiles, at least one). `Place`
and `After` replace the sequence of stages by where an operation is and what comes next (`Linked` says that the two
agree). While operations come one at a time (`OneAtATime`), `SettingsInv` says that the file is what was believed and
that what the one client has read or will write is what was meant; `KeysInv` that every profile with a stored key
finds it in the key file, in what is about to be written, or was disowned by name. A death leaves both as they are,
because each order of the writes puts the key before the reference to it and takes the reference before the key. From
it: `TypeCorrect`, `NoSaveIsLost`, `NoReferenceDangles`, `NoEditIsLost`.

**`PreparationProofs`** (from `PreparationAssumption`: any worlds, that is any exported variables, `.env` files,
configs, test files, machines and commands of the shapes the program parses). The invariant is what each step leaves
for those after it: `EnvironIs` (a variable has the value exported, else the last that the project's `.env` gives it,
else the user's), `ConfigIs` (what was loaded and overridden has the shape the checks leave), `PricesAre` (the price
book has the models' own cards), `SkippedAre` (what is left out lacks a key or failed its health check), `PassedAre`
(the others have a key, and connect if they were checked), `RowIs`, `KeysAre`. The program goes through lists in every
step; a fold's result is stated by what it keeps (`KeptType` and the lemmas after it), with the help of `FoldFacts`.
From it: `RunsUseTheKeysThatWereMeant`, `OnlyHopelessModelsAreSkipped`, `RefusedRowsAreExplained`, `OwnPricesWin`.

**`ProjectsProofs`** (from `ProjectsAssumption`, `FilesAssumption` and `PayloadsAssumption`: any clients, names,
folders made by hand, payloads and number of operations). Call a folder clean if no operations have met in it and no
copy or removal was left half done in it. `MeetingsAreKnown` says that a clean folder belongs to one operation, so
what it holds follows from that operation's stage: `Undisturbed` is that knowledge for a save under another name
(`SavesInPlace`), an in-place rewrite (`RewritesInPlace`), a copy (`Copies`), a removal (`Removes`) and a run
(`Records`), and `FolderOK` says that a clean folder's config parses and is the one that was believed unless the one
operation is where it `Disturbs` it. `FilesOK` and `HoldsOK` are what is true in unclean folders too. The proof that a
step keeps this is one lemma for each action; the rest of it (`OthersKeep`) says that a step of one client leaves the
folders of the others alone. From it: `Invariance`, `BrokenConfigs`, `EditsStay`, `HistoryIsOnesOwn`, and
`HistorySurvives` (an action property).

A second invariant, `TestsInv`, is about test files. `OneFile` says that a folder has one, or a cause, or the one
operation there is between writing the new and removing the old (`AtUnlink`: then there is none in a format that saves do not know); `CopiesOne` that a copy in progress gets
no second one; `DistinctIds` and `CarriesTests` that ids are distinct in what is written and in what is about to be;
`MeetingsOverlap` that two operations at once are in the causes. That the loop which looks for a free id ends with one
(`NewId`) is a pigeonhole argument. From it: `ExamplesStaySingle`. The third, `RunsInv`, says that each database holds
finitely many runs, each with a number (`Numbered`), and what a tick of watch knows of its own run (`KnowsItsRun`).
Finitely many runs can be sorted (`CanBeSorted`), and of the sorted ones the tick takes the newest but its own
(`NewestOfTheOthers`). From it: `TicksCompareWithThePast` (an action property).

The run allows two operations, and two were too few to see three mistakes earlier forms of this model had, which the
proofs found: a client's second copy began with what its first had left unfinished; a config that changed while it was
copied was believed to be the older one; and a copy of a copy of a folder with two test files had two itself without a
cause, which is what `copied` is for.

**`HandoffProofs`** (from `TrialAssumption` and `SweepAssumption`: any tasks, any tool calls the models may ask for,
any number of turns, any plan). `StackFits` says which agents of an architecture can be at work above which,
`TraceFits` what their events look like from the agent's first on, `KnowledgeShows` that whoever may change a ticket
and knows of the hold learned it where the grader looks for it, from a tool or a text, however that text was worded, `TurnsCounted` that the first agent's turns are used
up by calls of the model and by nothing else; and the trace's calls, done again one by one on the seeded table, give
the table that is there (`Explains`). The invariant of the sweep says how many records a position of the loop goes with, and that a whole manifest
is the beginning of them up to the last trial. From it: `OnlyTheCutOffAreIncomplete`, `OnlyWordsMisleadTheBlame`, `TheTwoCountsAgree`,
`ReadableManifests`, `TheTraceTellsTheTable`. The provers do not
know a literal as an element of `STRING`, so the types name the model's own words beside it (`Text`).

**`LeaderboardProofs`** (from `LeaderboardAssumption` and `ConfigsAssumption`: any finite set of models, any cards,
any finite set of kinds of rows and number of them, any weights that are not negative, any targets, even negative
ones). `BoardInv` says that aggregates, status and leaderboard are what config, cards and rows make of them, so that
the three invariants are facts about the operators. A fraction in lowest terms is unique (`Over`, through Bezout's
identity), finitely many fractions have a common denominator, and what is said of fractions becomes arithmetic of
their numerators. `OutsidersInvariance`: equal values, range and weights make equal composites. `GapsInvariance`: a
weighted mean lies between its least and its greatest part. `BetterInvariance`: normalising keeps the order, term by
term; a negative target does no harm, because no raw value is below zero, and a target of 0 is excluded where the code
goes wrong (`Sound`, [section 4](#4-where-the-code-and-its-words-disagree)). `FailureInvariance` (an action property):
a failed call lowers the model's own reliability, which may also stretch the scale for all; `ShorterScale` and
`NormalizeFallen` say that the model that failed never gains by it.

**`FoldFacts`** – what several of these rest on. A fold over a sequence is followed from one position to the next
(`FoldChain`); an induction over positions is made by taking a least set for which the claim fails (`UpTo`), since the
library's own induction theorems take an operator. A sum over a finite set equals the number of its units, which the
library's theorems about cardinality can count; `SumType` and `SumChange` say what it is and what it becomes when one
summand changes. `FiniteImage`: the image of a finite set is finite.

## 7. Only model-checked, abstracted, left out

**Only model-checked.** Liveness (`RunEnds`, `EveryCallEnds`), with everything that has `ENABLED` in it,
is out of the prover's reach. The violated properties are refuted by a counterexample each. The library's
induction over data is out of reach too; where a loop of the program is a fold, the proofs say what its result keeps,
and for the graders of the study only what the properties need of them.

**Abstractions to know when reading a result.**
- `ArenaRunner` has one process at a time on a run. Two at once, which nothing in the code prevents, are in `ResultStore`, where rows
  are only counted.
- The report is written by different callers (command line, web) after `run()`; `ResultStore` has it as one step of the
  runner.
- In `UserFiles` a person edits only while no operation is under way, the write of the key file after its truncation is one
  call, and the operating system's own key stores are left out.
- `Leaderboard` computes with exact fractions, where the program has floats, an epsilon and rounding. `pass_rate`, token
  counts, custom metrics, privacy and context gates, notes and the breakdown by tag are left out; the first two are
  computed like metrics that are there, the gates are shaped like `required_features`.
- In `RateLimit` amounts and time are integers, and a concurrency is a whole number of slots. A limit that is not set
  is a bucket with cost 0, or as many slots as workers.

- In `CallExecution` what a worker does without touching anything shared is one step, and scores are halves.
- In `Preparation` a text is parsed already: a raw block is a record, spellings of one key are one field. The cache of the price book is
  left out, since no override comes after a lookup. What a program on the way changes in the environment by itself is not there.
- In `Projects` the fields of a config are the number of the edit that last changed them; a test file is its ids; PyYAML is installed. Of the names of a config `arena.yaml` and
  `arena.json` are left out: they are looked for last, and saved under that stem as `config` is under its own. Test files have the stem `tests` and lie in
  the folder itself; other stems, a `tests/` folder and `tests.paths` are in `ProjectConfig` only. A run is
  three steps (load, start, finish); deleting one is one step here, `ResultStore` has its parts. A folder removed under an open database
  takes the file away, and what is written later is lost, as on a POSIX file system.
- In the study, words are a spelling and a bit (do they tell of the hold); a text with both spellings counts as one with "credit_hold". Scores are
  hundredths. The table of tickets, `eval_db.sqlite` in the working directory (`run_baseline.py:117`), is one trial's: two processes that
  share it at once are not modelled. Where nothing was run, one summary prints 0% and the other a dash; the counts are compared, not the text.
- In `Preparation` whether a vendor's SDK has a login of its own is a fact of the machine; which variables and files make one is the SDK's.

**Left out:** everything marked "–" in the inventory, for the reason given in `PROJECT.json`; progress events and dry
runs, which change no state; the schema migration and most aggregate queries of `core/store.py`; the comparison of texts in
`scorers/builtin.py`; `web/language.py`, the server's routing and static files, argument parsing and printing in `cli.py`; the wording and
layout of reports, messages and pages.

The map in `PROJECT.json` names, for each definition, the lines it stands for: about 5,900 lines, a third of the
program and the study.

## 8. Plan

Done: the runner and its ledger, the job manager, the rate limiter, the store, the user's files, the leaderboard; one call with its
retries, hooks, scorers and judge; the way from a command to a run; the folders of projects with the editor, the lifecycle commands and
watch; the study; and proofs of all of their safety properties. The order was by how much a mistake costs the user: money first, then data, then scores.

Next proof: that a `ResultStore` with one runner agrees with `RunLedger` on what is recorded, which would join the two views of the database.

Modules that would still add something: the `ALTER TABLE`s of `core/store.py` under crashes and two processes (`store.py:144`); the paired
comparisons of `core/statistics.py` as pure operators; profiles that do not parse in `UserFiles` (`service/providers.py:42`); a
composition of `ArenaRunner` with `Leaderboard` for a resume that plans other models (`runner.py:415`). Each of them would share a
run with a module that is there.

## 9. Running it

```
tlc -workers 2 -config MCSweep.cfg MCArenaRunner     # each run: a cfg and its MC module
tlapm RunProofs.tla                                  # each *Proofs module, and FoldFacts
```

The longest runs take a minute or two with two workers (`leaderboard`, `projects`, `resume`, `sweep`); the longest proofs take several minutes (`ProjectsProofs`, then
`HandoffProofs` and `LeaderboardProofs`).
