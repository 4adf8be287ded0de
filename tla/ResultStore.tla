---------------------------- MODULE ResultStore ----------------------------
(***************************************************************************)
(* The database of runs under everyone who writes to it at once: the       *)
(* runners of agent_arena/core/runner.py, and the lifecycle operations of  *)
(* service/runs.py (CLI and web), each with a connection of its own to     *)
(* core/store.py's sqlite file.                                            *)
(*                                                                         *)
(* A step is one committed transaction, or one look at the file system.    *)
(* What an operation does is several of them, and others fall between.     *)
(* A run's rows are counted; what they say is module ArenaRunner's.        *)
(***************************************************************************)
EXTENDS Naturals, FiniteSets

CONSTANTS
    Runs,       \* run ids
    Runners,    \* processes that may evaluate at once
    Users,      \* lifecycle operations that may be under way at once
    MaxRows,    \* bound: result rows recorded for one run
    NoRun

ASSUME StoreAssumption == MaxRows \in Nat /\ NoRun \notin Runs

VARIABLES
    status,     \* runs.status, or whether the row is not yet / no longer there
    deleted,    \* runs.deleted_at is set
    archived,   \* runs.archived_at is set
    notes,      \* whose words runs.notes_json holds
    results,    \* the number of rows in results
    ranked,     \* rankings has rows
    report,     \* results/<run_id>/ is there
    rpc, rrun,  \* each runner's place, and its run
    upc, urun,  \* each user's place, and the run it is about
    plan,       \* the run ids a vacuum read and has yet to delete
    recorded,   \* history: rows ever committed for the run
    disturbed   \* history: runs a deletion of which met something (see below)

rowVars == <<status, deleted, archived, notes, results, ranked>>
runnerVars == <<rpc, rrun>>
userVars == <<upc, urun, plan>>
storeVars == <<rowVars, report, runnerVars, userVars, recorded, disturbed>>

Exists(r) == status[r] \in {"running", "completed", "aborted"}
Gone(r) == status[r] = "gone"
Open(r) == \E w \in Runners : rpc[w] # "idle" /\ rrun[w] = r

StoreTypeOK ==
    /\ status \in [Runs -> {"unused", "running", "completed", "aborted", "gone"}]
    /\ deleted \in [Runs -> BOOLEAN]
    /\ archived \in [Runs -> BOOLEAN]
    /\ notes \in [Runs -> {"none", "runner", "user"}]
    /\ results \in [Runs -> 0..MaxRows]
    /\ ranked \in [Runs -> BOOLEAN]
    /\ report \in [Runs -> BOOLEAN]
    /\ rpc \in [Runners -> {"idle", "resuming", "calling", "saving"}]
    /\ rrun \in [Runners -> Runs \cup {NoRun}]
    /\ \A w \in Runners : rpc[w] = "idle" <=> rrun[w] = NoRun
    /\ upc \in [Users -> {"idle", "delete", "erase", "rmtree", "restore", "label",
                           "archive", "vacuum"}]
    /\ urun \in [Users -> Runs \cup {NoRun}]
    /\ plan \in [Users -> SUBSET Runs]
    /\ recorded \in [Runs -> 0..MaxRows]
    /\ disturbed \subseteq Runs
    /\ \A r \in Runs : status[r] = "unused" =>
          results[r] = 0 /\ ~ranked[r] /\ ~deleted[r] /\ ~report[r] /\ recorded[r] = 0

StoreInit ==
    /\ status = [r \in Runs |-> "unused"]
    /\ deleted = [r \in Runs |-> FALSE]
    /\ archived = [r \in Runs |-> FALSE]
    /\ notes = [r \in Runs |-> "none"]
    /\ results = [r \in Runs |-> 0]
    /\ ranked = [r \in Runs |-> FALSE]
    /\ report = [r \in Runs |-> FALSE]
    /\ rpc = [w \in Runners |-> "idle"]
    /\ rrun = [w \in Runners |-> NoRun]
    /\ upc = [u \in Users |-> "idle"]
    /\ urun = [u \in Users |-> NoRun]
    /\ plan = [u \in Users |-> {}]
    /\ recorded = [r \in Runs |-> 0]
    /\ disturbed = {}

-----------------------------------------------------------------------------
(* A runner *)

RunnerAt(w, place) == rpc' = [rpc EXCEPT ![w] = place]

RunnerDone(w) == RunnerAt(w, "idle") /\ rrun' = [rrun EXCEPT ![w] = NoRun]

\* store.start_run: the id is new.
StartRun(w, r) ==
    /\ rpc[w] = "idle"
    /\ status[r] = "unused"
    /\ status' = [status EXCEPT ![r] = "running"]
    /\ RunnerAt(w, "calling")
    /\ rrun' = [rrun EXCEPT ![w] = r]
    /\ UNCHANGED <<deleted, archived, notes, results, ranked, report, userVars, recorded, disturbed>>

\* --resume: the run is read, deleted or not, whatever its status and whoever
\* else has it open ...
ReadRun(w, r) ==
    /\ rpc[w] = "idle"
    /\ Exists(r)
    /\ RunnerAt(w, "resuming")
    /\ rrun' = [rrun EXCEPT ![w] = r]
    /\ UNCHANGED <<rowVars, report, userVars, recorded, disturbed>>

\* ... and set_run_flags undoes its deletion, if the row is still there.
ClearDeleted(w) ==
    /\ rpc[w] = "resuming"
    /\ deleted' = [deleted EXCEPT ![rrun[w]] = FALSE]
    /\ RunnerAt(w, "calling")
    /\ UNCHANGED <<status, archived, notes, results, ranked, report, rrun, userVars,
                   recorded, disturbed>>

\* record_results never looks whether the run has a row.
RecordResult(w) ==
    /\ rpc[w] = "calling"
    /\ recorded[rrun[w]] < MaxRows
    /\ results' = [results EXCEPT ![rrun[w]] = @ + 1]
    /\ recorded' = [recorded EXCEPT ![rrun[w]] = @ + 1]
    /\ UNCHANGED <<status, deleted, archived, notes, ranked, report, runnerVars, userVars, disturbed>>

\* finish_run: the UPDATE finds the row or does not; the rankings are
\* inserted either way.  The CLI goes on to write the report.
FinishRun(w) ==
    /\ rpc[w] = "calling"
    /\ LET r == rrun[w]
       IN /\ status' = IF Exists(r) THEN [status EXCEPT ![r] = "completed"] ELSE status
          /\ notes' = IF Exists(r) THEN [notes EXCEPT ![r] = "runner"] ELSE notes
          /\ ranked' = [ranked EXCEPT ![r] = TRUE]
    /\ RunnerAt(w, "saving")
    /\ UNCHANGED <<deleted, archived, results, report, rrun, userVars, recorded, disturbed>>

\* _abort_run: finish_run with an empty leaderboard.
AbortRun(w) ==
    /\ rpc[w] = "calling"
    /\ LET r == rrun[w]
       IN /\ status' = IF Exists(r) THEN [status EXCEPT ![r] = "aborted"] ELSE status
          /\ notes' = IF Exists(r) THEN [notes EXCEPT ![r] = "runner"] ELSE notes
    /\ RunnerDone(w)
    /\ UNCHANGED <<deleted, archived, results, ranked, report, userVars, recorded, disturbed>>

\* write_reports: mkdir and write, whatever became of the run.
WriteReport(w) ==
    /\ rpc[w] = "saving"
    /\ report' = [report EXCEPT ![rrun[w]] = TRUE]
    /\ RunnerDone(w)
    /\ UNCHANGED <<rowVars, userVars, recorded, disturbed>>

\* The process dies, or is the web server's, which writes no report.
RunnerDies(w) ==
    /\ rpc[w] # "idle"
    /\ RunnerDone(w)
    /\ UNCHANGED <<rowVars, report, userVars, recorded, disturbed>>

-----------------------------------------------------------------------------
(* The lifecycle operations *)

UserAt(u, place) == upc' = [upc EXCEPT ![u] = place]

UserDone(u) == UserAt(u, "idle") /\ urun' = [urun EXCEPT ![u] = NoRun]

\* Every operation on a run looks it up first; a 404 is not a step.
\* Deletion and restoring find a soft-deleted run, the others do not.
Ask(u, r, what) ==
    /\ upc[u] = "idle"
    /\ Exists(r)
    /\ what \in {"label", "archive"} => ~deleted[r]
    /\ UserAt(u, what)
    /\ urun' = [urun EXCEPT ![u] = r]
    /\ UNCHANGED <<rowVars, report, runnerVars, plan, recorded, disturbed>>

\* label_run with notes: they replace what the runner noted.
Label(u) ==
    /\ upc[u] = "label"
    /\ notes' = IF Exists(urun[u]) THEN [notes EXCEPT ![urun[u]] = "user"] ELSE notes
    /\ UserDone(u)
    /\ UNCHANGED <<status, deleted, archived, results, ranked, report, runnerVars, plan,
                   recorded, disturbed>>

Archive(u) ==
    /\ upc[u] = "archive"
    /\ \E b \in BOOLEAN :
          archived' = IF Exists(urun[u]) THEN [archived EXCEPT ![urun[u]] = b] ELSE archived
    /\ UserDone(u)
    /\ UNCHANGED <<status, deleted, notes, results, ranked, report, runnerVars, plan,
                   recorded, disturbed>>

\* Mutant: a restored run starts afresh.
RestoreAfresh(u) ==
    /\ upc[u] = "restore"
    /\ deleted' = [deleted EXCEPT ![urun[u]] = FALSE]
    /\ results' = [results EXCEPT ![urun[u]] = 0]
    /\ UserDone(u)
    /\ UNCHANGED <<status, archived, notes, ranked, report, runnerVars, plan,
                   recorded, disturbed>>

\* restore_run: clears deleted_at, if the row is still there.
Restore(u) ==
    /\ upc[u] = "restore"
    /\ deleted' = [deleted EXCEPT ![urun[u]] = FALSE]
    /\ UserDone(u)
    /\ UNCHANGED <<status, archived, notes, results, ranked, report, runnerVars, plan,
                   recorded, disturbed>>

\* A deletion that meets an open runner: what that one still writes stays.
Meets(r) == IF Open(r) THEN disturbed \cup {r} ELSE disturbed

\* delete_run, softly: the row is hidden.  A row that is gone is left alone,
\* and the report files go in any case.
SoftDelete(u) ==
    /\ upc[u] = "delete"
    /\ deleted' = IF Exists(urun[u]) THEN [deleted EXCEPT ![urun[u]] = TRUE] ELSE deleted
    /\ disturbed' = Meets(urun[u])
    /\ UserAt(u, "rmtree")
    /\ UNCHANGED <<status, archived, notes, results, ranked, report, runnerVars, urun, plan, recorded>>

\* Mutant: leaves the rankings behind.
EraseSomeRows(r) ==
    /\ status' = [status EXCEPT ![r] = "gone"]
    /\ deleted' = [deleted EXCEPT ![r] = FALSE]
    /\ results' = [results EXCEPT ![r] = 0]
    /\ UNCHANGED ranked

\* delete_run(hard=True), one transaction: rankings, results and the row.
EraseRows(r) ==
    /\ status' = [status EXCEPT ![r] = "gone"]
    /\ deleted' = [deleted EXCEPT ![r] = FALSE]
    /\ results' = [results EXCEPT ![r] = 0]
    /\ ranked' = [ranked EXCEPT ![r] = FALSE]

HardDelete(u) ==
    /\ upc[u] = "erase"
    /\ IF Exists(urun[u]) THEN EraseRows(urun[u]) ELSE UNCHANGED <<status, deleted, results, ranked>>
    /\ disturbed' = Meets(urun[u])
    /\ UserAt(u, "rmtree")
    /\ UNCHANGED <<archived, notes, report, runnerVars, urun, plan, recorded>>

\* shutil.rmtree(report_dir)
RemoveReport(u) ==
    /\ upc[u] = "rmtree"
    /\ report' = [report EXCEPT ![urun[u]] = FALSE]
    /\ UserDone(u)
    /\ UNCHANGED <<rowVars, runnerVars, plan, recorded, disturbed>>

\* vacuum: the soft-deleted runs are listed ...
VacuumPlan(u) ==
    /\ upc[u] = "idle"
    /\ \E r \in Runs : Exists(r) /\ deleted[r]
    /\ plan' = [plan EXCEPT ![u] = {r \in Runs : Exists(r) /\ deleted[r]}]
    /\ UserAt(u, "vacuum")
    /\ UNCHANGED <<rowVars, report, runnerVars, urun, recorded, disturbed>>

\* ... and erased one by one, each in its own transaction, whatever became of
\* them meanwhile.  A run that was given back in between is erased too.
VacuumOne(u, r) ==
    /\ upc[u] = "vacuum"
    /\ r \in plan[u]
    /\ IF Exists(r) THEN EraseRows(r) ELSE UNCHANGED <<status, deleted, results, ranked>>
    /\ disturbed' = IF Exists(r) /\ ~deleted[r] THEN disturbed \cup {r} ELSE Meets(r)
    /\ plan' = [plan EXCEPT ![u] = @ \ {r}]
    /\ UNCHANGED <<archived, notes, report, runnerVars, upc, urun, recorded>>

\* The file is compacted: VACUUM changes no row.
VacuumEnds(u) ==
    /\ upc[u] = "vacuum"
    /\ plan[u] = {}
    /\ UserDone(u)
    /\ UNCHANGED <<rowVars, report, runnerVars, plan, recorded, disturbed>>

\* The process dies between two steps; a deletion may be left half done.
UserDies(u) ==
    /\ upc[u] # "idle"
    /\ disturbed' = IF upc[u] = "rmtree" THEN disturbed \cup {urun[u]} ELSE disturbed
    /\ plan' = [plan EXCEPT ![u] = {}]
    /\ UserDone(u)
    /\ UNCHANGED <<rowVars, report, runnerVars, recorded>>

-----------------------------------------------------------------------------
Runner(w) ==
    \/ \E r \in Runs : StartRun(w, r) \/ ReadRun(w, r)
    \/ ClearDeleted(w)
    \/ RecordResult(w)
    \/ FinishRun(w)
    \/ AbortRun(w)
    \/ WriteReport(w)
    \/ RunnerDies(w)

Vacuum(u) == VacuumPlan(u) \/ (\E r \in Runs : VacuumOne(u, r)) \/ VacuumEnds(u)

User(u) ==
    \/ \E r \in Runs, what \in {"delete", "erase", "restore", "label", "archive"} : Ask(u, r, what)
    \/ Label(u)
    \/ Archive(u)
    \/ Restore(u)
    \/ SoftDelete(u)
    \/ HardDelete(u)
    \/ RemoveReport(u)
    \/ Vacuum(u)
    \/ UserDies(u)

StoreNext == (\E w \in Runners : Runner(w)) \/ (\E u \in Users : User(u))

StoreSpec == StoreInit /\ [][StoreNext]_storeVars

-----------------------------------------------------------------------------
(* What must hold *)

\* set_run_flags: "a run's measurements are immutable by design".  Through
\* deletions, restores, vacuums and two runners at once, a run that has its
\* row has every result that was ever recorded for it.
NothingRecordedIsLost == \A r \in Runs : Exists(r) => results[r] = recorded[r]

\* The verdict on a run (its status, its rankings, its rows) is changed only by
\* a runner that has it open, or goes together with its row.
OnlyARunnerMeasures ==
    [][\A r \in Runs :
          Open(r) \/ Gone(r)' \/ status[r] = "unused"
            \/ (status'[r] = status[r] /\ results'[r] = results[r] /\ ranked'[r] = ranked[r])]_storeVars

\* delete_run: "leaving orphans would silently inflate every aggregate query".
\* Rows or files outlive their run only after a deletion met an open runner or
\* a run given back under a vacuum, or died before its rmtree, or is at it.
LeftoversHaveACause ==
    \A r \in Runs : Gone(r) =>
        /\ results[r] > 0 \/ ranked[r] => r \in disturbed
        /\ report[r] => \/ r \in disturbed
                        \/ \E u \in Users : upc[u] = "rmtree" /\ urun[u] = r
=============================================================================
