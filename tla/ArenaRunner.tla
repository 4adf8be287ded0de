---------------------------- MODULE ArenaRunner ----------------------------
(***************************************************************************)
(* One run of a project: ArenaRunner.run() of agent_arena/core/runner.py   *)
(* with its thread pool, and the rows it leaves in the results database.   *)
(*                                                                         *)
(* The main thread submits one future per cell, collects the futures as    *)
(* they complete, writes each one down, and after each one asks whether to *)
(* stop.  The workers execute the calls.  The process may be cancelled,    *)
(* interrupted or killed, and the run resumed by a later process.          *)
(*                                                                         *)
(* Abstracted: what a model said, scores, hooks' payloads, the totals of   *)
(* the run's row, the order of the pool's queue and of as_completed (any   *)
(* order here), the retries inside a call.                                 *)
(***************************************************************************)
EXTENDS Integers, Sequences, FiniteSets, FiniteSetsExt

CONSTANTS
    Models, Tests, Trials,  \* the sweep: every model x test x 1..Trials
    Concurrency,            \* run.concurrency, the pool's max_workers
    Price,                  \* what a single call may cost, 0 included
    MaxRunUSD,              \* budgets.max_run_usd, or NULL for no ceiling
    MaxModelUSD,            \* budgets.max_model_usd, or NULL
    OnExceed,               \* budgets.on_exceed: "stop" or "warn"
    FailFast,               \* run.fail_fast
    MaxStarts,              \* bound: processes that work on the run in turn
    NULL

ASSUME PriceAssumption == Price \subseteq Nat /\ 0 \in Price
ASSUME ConcurrencyAssumption == Concurrency \in Nat \ {0}
ASSUME StartsAssumption == MaxStarts \in Nat
ASSUME NullAssumption == NULL \notin [status : {"ok", "error"}, cost : Price]

VARIABLES
    pc,         \* where the main thread of the process is, "idle" without one
    runnable,   \* the models preflight() did not skip
    future,     \* the state of each cell's future
    outcome,    \* what a finished future holds
    results,    \* the list `results`: the CallResult of each cell, or NULL
    stop,       \* stopped_early
    cancelled,  \* cancel_event.is_set()
    starts,     \* processes so far
    run,        \* the row of `runs`
    rows        \* the rows of `results`, in id order

vars == <<pc, runnable, future, outcome, results, stop, cancelled, starts,
          run, rows>>

Cell == Models \X Tests \X (1..Trials)
Result == [status : {"ok", "error"}, cost : Price]

\* How _execute can end: a graded answer, an error it reports (a failed
\* generation costs nothing, a paid answer may break its scorer), an
\* exception it lets through, or an ArenaError of a scorer or a hook.
Outcome == [kind : {"ok", "error"}, cost : Price]
             \cup [kind : {"exception", "ArenaError"}, cost : {0}]

PlannedCells == runnable \X Tests \X (1..Trials)
Running == {c \in Cell : future[c] = "running"}
\* Mutant: a wait that counts a cancelled future as outstanding.
PoolIdleCountingCancelled ==
    \A c \in Cell : future[c] \notin {"pending", "running", "cancelled"}
PoolIdle == \A c \in Cell : future[c] \notin {"pending", "running"}

RunRow == [status : {"absent", "running", "completed", "aborted"},
           partial : BOOLEAN,      \* is the stopped-early note in notes_json?
           deleted : BOOLEAN]      \* deleted_at IS NOT NULL
ResultRow == [cell : Cell, status : {"ok", "error"}, cost : Price]

Live == {"setup", "collect", "cancelling", "drain", "report", "unwind", "abort"}

TypeOK ==
    /\ pc \in Live \cup {"idle", "returned"}
    /\ runnable \subseteq Models
    /\ future \in [Cell -> {"none", "pending", "running", "finished",
                            "cancelled", "collected"}]
    /\ outcome \in [Cell -> Outcome \cup {NULL}]
    /\ \A c \in Cell : future[c] = "finished" => outcome[c] \in Outcome
    /\ results \in [Cell -> Result \cup {NULL}]
    /\ stop \in {"none", "cancelled", "budget"}
    /\ cancelled \in BOOLEAN
    /\ starts \in 0..MaxStarts
    /\ run \in RunRow
    /\ rows \in Seq(ResultRow)

-----------------------------------------------------------------------------
(* Money *)

SpentOn(cells, res) ==
    MapThenSumSet(LAMBDA c : res[c].cost, {c \in cells : res[c] # NULL})

OverRunBudget(res) == MaxRunUSD # NULL /\ SpentOn(Cell, res) > MaxRunUSD

OverModelBudget(res) ==
    /\ MaxModelUSD # NULL
    /\ \E m \in Models : SpentOn({c \in Cell : c[1] = m}, res) > MaxModelUSD

ShouldStop(res) ==
    IF cancelled THEN "cancelled"
    ELSE IF OnExceed = "stop" /\ (OverRunBudget(res) \/ OverModelBudget(res))
         THEN "budget"
         ELSE "none"

-----------------------------------------------------------------------------
(* A process takes the run up: run(), up to the pool *)

OkIndexes(c) == {i \in DOMAIN rows : rows[i].cell = c /\ rows[i].status = "ok"}

\* `done` on a resume: the last stored success of each cell, rehydrated.
Rehydrated(c) ==
    IF OkIndexes(c) = {} THEN NULL
    ELSE LET last == CHOOSE i \in OkIndexes(c) :
                        \A j \in OkIndexes(c) : j <= i
         IN [status |-> "ok", cost |-> rows[last].cost]

NoRow == [status |-> "absent", partial |-> FALSE, deleted |-> FALSE]

Init ==
    /\ pc = "idle"
    /\ runnable = {}
    /\ future = [c \in Cell |-> "none"]
    /\ outcome = [c \in Cell |-> NULL]
    /\ results = [c \in Cell |-> NULL]
    /\ stop = "none"
    /\ cancelled = FALSE
    /\ starts = 0
    /\ run = NoRow
    /\ rows = <<>>

\* preflight() skips a model without credentials, and raises if none is left.
TakeUp ==
    /\ pc = "idle"
    /\ starts < MaxStarts
    /\ starts' = starts + 1
    /\ runnable' \in SUBSET Models \ {{}}
    /\ pc' = "setup"
    /\ UNCHANGED <<future, outcome, stop, cancelled, rows>>

StartRun ==
    /\ TakeUp
    /\ run.status = "absent"
    /\ run' = [run EXCEPT !.status = "running"]
    /\ results' = [c \in Cell |-> NULL]

\* A resume reads the rows of a deleted run too, and brings it back.
ResumeRun ==
    /\ TakeUp
    /\ run.status # "absent"
    /\ run' = [run EXCEPT !.deleted = FALSE]
    /\ results' = [c \in Cell |-> Rehydrated(c)]

\* Mutant: a resume that submits the whole sweep again.
SubmitAllJobs ==
    /\ pc = "setup"
    /\ pc' = "collect"
    /\ future' = [c \in Cell |-> IF c \in PlannedCells THEN "pending" ELSE "none"]
    /\ UNCHANGED <<runnable, outcome, results, stop, cancelled, starts, run, rows>>

SubmitJobs ==
    /\ pc = "setup"
    /\ pc' = "collect"
    /\ future' = [c \in Cell |-> IF c \in PlannedCells /\ results[c] = NULL
                                 THEN "pending" ELSE "none"]
    /\ UNCHANGED <<runnable, outcome, results, stop, cancelled, starts, run, rows>>

\* The connectors are built before the try: an error here reaches no handler.
SetupFails ==
    /\ pc = "setup"
    /\ pc' = "returned"
    /\ UNCHANGED <<runnable, future, outcome, results, stop, cancelled, starts,
                   run, rows>>

-----------------------------------------------------------------------------
(* The workers *)

StartCall(c) ==
    /\ future[c] = "pending"
    /\ Cardinality(Running) < Concurrency
    /\ future' = [future EXCEPT ![c] = "running"]
    /\ UNCHANGED <<pc, runnable, outcome, results, stop, cancelled, starts, run, rows>>

FinishCall(c) ==
    /\ future[c] = "running"
    /\ future' = [future EXCEPT ![c] = "finished"]
    /\ \E o \in Outcome : outcome' = [outcome EXCEPT ![c] = o]
    /\ UNCHANGED <<pc, runnable, results, stop, cancelled, starts, run, rows>>

-----------------------------------------------------------------------------
(* The collecting loop *)

\* The CallResult that the loop appends for a future that raised no ArenaError.
\* One built for a stray exception has lost the cost of its call.
Collected(o) == [status |-> IF o.kind = "ok" THEN "ok" ELSE "error", cost |-> o.cost]

RowOf(c, r) == [cell |-> c, status |-> r.status, cost |-> r.cost]

Yield(c) ==
    /\ pc = "collect"
    /\ future[c] = "finished"
    /\ future' = [future EXCEPT ![c] = "collected"]
    /\ outcome' = [outcome EXCEPT ![c] = NULL]

\* Mutant: asks whether to stop before the result is in the list.
CollectAfterStop(c) ==
    /\ Yield(c)
    /\ outcome[c].kind # "ArenaError"
    /\ results' = [results EXCEPT ![c] = Collected(outcome[c])]
    /\ rows' = Append(rows, RowOf(c, Collected(outcome[c])))
    /\ stop' = ShouldStop(results)
    /\ pc' = IF ShouldStop(results) = "none" THEN "collect" ELSE "cancelling"
    /\ UNCHANGED <<runnable, cancelled, starts, run>>

CollectResult(c) ==
    /\ Yield(c)
    /\ outcome[c].kind # "ArenaError"
    /\ LET r == Collected(outcome[c])
           res == [results EXCEPT ![c] = r]
       IN /\ results' = res
          /\ rows' = Append(rows, RowOf(c, r))
          /\ IF r.status # "ok" /\ FailFast
             THEN pc' = "unwind" /\ stop' = stop
             ELSE /\ stop' = ShouldStop(res)
                  /\ pc' = IF ShouldStop(res) = "none" THEN "collect" ELSE "cancelling"
    /\ UNCHANGED <<runnable, cancelled, starts, run>>

\* Mutant: an ArenaError of a call is skipped instead of raised.
SkipArenaError(c) ==
    /\ Yield(c)
    /\ outcome[c].kind = "ArenaError"
    /\ UNCHANGED <<pc, runnable, results, stop, cancelled, starts, run, rows>>

\* future.result() re-raises an ArenaError out of the loop.
CollectArenaError(c) ==
    /\ Yield(c)
    /\ outcome[c].kind = "ArenaError"
    /\ pc' = "unwind"
    /\ UNCHANGED <<runnable, results, stop, cancelled, starts, run, rows>>

\* The result is in the list and the database refuses the row.
RecordFails(c) ==
    /\ Yield(c)
    /\ outcome[c].kind # "ArenaError"
    /\ results' = [results EXCEPT ![c] = Collected(outcome[c])]
    /\ pc' = "unwind"
    /\ UNCHANGED <<runnable, stop, cancelled, starts, run, rows>>

AllCollected ==
    /\ pc = "collect"
    /\ \A c \in Cell : future[c] \in {"none", "collected"}
    /\ pc' = "drain"
    /\ UNCHANGED <<runnable, future, outcome, results, stop, cancelled, starts, run, rows>>

\* for pending in futures: pending.cancel(), while the workers take the next.
CancelPending(c) ==
    /\ pc = "cancelling"
    /\ future[c] = "pending"
    /\ future' = [future EXCEPT ![c] = "cancelled"]
    /\ UNCHANGED <<pc, runnable, outcome, results, stop, cancelled, starts, run, rows>>

\* Mutant: breaks out of the loop without cancelling what has not started.
BreakWithoutCancel ==
    /\ pc = "cancelling"
    /\ pc' = "drain"
    /\ UNCHANGED <<runnable, future, outcome, results, stop, cancelled, starts, run, rows>>

BreakLoop ==
    /\ pc = "cancelling"
    /\ \A c \in Cell : future[c] # "pending"
    /\ pc' = "drain"
    /\ UNCHANGED <<runnable, future, outcome, results, stop, cancelled, starts, run, rows>>

-----------------------------------------------------------------------------
(* Leaving the pool, and closing the run *)

\* The pool's __exit__ waits for everything submitted and not cancelled.
LeavePool ==
    /\ pc \in {"drain", "unwind"}
    /\ PoolIdle
    /\ pc' = IF pc = "drain" THEN "report" ELSE "abort"
    /\ UNCHANGED <<runnable, future, outcome, results, stop, cancelled, starts, run, rows>>

\* Ctrl-C, or an exception of the progress callback: out of the loop into the
\* pool's __exit__, and out of that wait a second time.
Interrupt ==
    /\ \/ pc \in {"collect", "cancelling"} /\ pc' = "unwind"
       \/ pc \in {"drain", "unwind"} /\ pc' = "abort"
    /\ UNCHANGED <<runnable, future, outcome, results, stop, cancelled, starts, run, rows>>

\* Mutant: a stopped run is reported as any other.
FinishRunSilently ==
    /\ pc = "report"
    /\ pc' = "returned"
    /\ run' = [run EXCEPT !.status = "completed", !.partial = FALSE]
    /\ UNCHANGED <<runnable, future, outcome, results, stop, cancelled, starts, rows>>

FinishRun ==
    /\ pc = "report"
    /\ pc' = "returned"
    /\ run' = [run EXCEPT !.status = "completed", !.partial = stop # "none"]
    /\ UNCHANGED <<runnable, future, outcome, results, stop, cancelled, starts, rows>>

\* The leaderboard, the statistics or finish_run itself raises, after the try.
ReportFails ==
    /\ pc = "report"
    /\ pc' = "returned"
    /\ UNCHANGED <<runnable, future, outcome, results, stop, cancelled, starts, run, rows>>

\* _abort_run, best effort: the write may fail, and the failure is swallowed.
AbortRun ==
    /\ pc = "abort"
    /\ pc' = "returned"
    /\ \/ run' = [run EXCEPT !.status = "aborted", !.partial = FALSE]
       \/ run' = run
    /\ UNCHANGED <<runnable, future, outcome, results, stop, cancelled, starts, rows>>

-----------------------------------------------------------------------------
(* The world outside *)

Gone ==
    /\ pc' = "idle"
    /\ future' = [c \in Cell |-> "none"]
    /\ outcome' = [c \in Cell |-> NULL]
    /\ stop' = "none"
    /\ cancelled' = FALSE
    /\ runnable' = {}
    /\ results' = [c \in Cell |-> NULL]
    /\ UNCHANGED <<starts, run, rows>>

\* The interpreter joins its worker threads before it exits.
Exit == pc = "returned" /\ PoolIdle /\ Gone

Crash == pc # "idle" /\ Gone

Cancel ==
    /\ pc # "idle"
    /\ ~cancelled
    /\ cancelled' = TRUE
    /\ UNCHANGED <<pc, runnable, future, outcome, results, stop, starts, run, rows>>

\* Someone soft-deletes the run, live or not.
DeleteRun ==
    /\ run.status # "absent"
    /\ ~run.deleted
    /\ run' = [run EXCEPT !.deleted = TRUE]
    /\ UNCHANGED <<pc, runnable, future, outcome, results, stop, cancelled, starts, rows>>

-----------------------------------------------------------------------------

Collect == \E c \in Cell : CollectResult(c) \/ CollectArenaError(c) \/ RecordFails(c)
CancelOne == \E c \in Cell : CancelPending(c)
Work(c) == StartCall(c) \/ FinishCall(c)

MainThread == \/ StartRun \/ ResumeRun \/ SubmitJobs \/ SetupFails
              \/ Collect \/ AllCollected \/ CancelOne \/ BreakLoop
              \/ LeavePool \/ FinishRun \/ ReportFails \/ AbortRun

Next == \/ MainThread
        \/ \E c \in Cell : Work(c)
        \/ Interrupt \/ Exit \/ Crash \/ Cancel \/ DeleteRun

Spec == Init /\ [][Next]_vars

\* A thread that can run is scheduled, and a call ends: connectors carry
\* run.timeout_s, and a call makes at most retries + 1 attempts.
Fairness ==
    /\ WF_vars(pc # "idle" /\ MainThread)
    /\ \A c \in Cell : WF_vars(Work(c))

FairSpec == Spec /\ Fairness

-----------------------------------------------------------------------------
(* What must hold *)

HasRow(c, r) == \E i \in DOMAIN rows : rows[i] = RowOf(c, r)

\* However often a run is interrupted, killed and resumed, no cell of it is
\* ever recorded as a success twice (runner.py, the `done` filter of run()).
OneSuccessPerCell ==
    \A i, j \in DOMAIN rows :
        (rows[i].status = "ok" /\ rows[j].status = "ok"
           /\ rows[i].cell = rows[j].cell) => i = j

\* A call that has succeeded is never made again: what a sweep has paid for
\* and stored, a resume does not pay for twice (runner.py, resume_run_id).
NeverRepaid ==
    [][\A c \in Cell : (future[c] = "pending" /\ future'[c] = "running")
                          => OkIndexes(c) = {}]_vars

\* A run about to be reported without a stopped-early note has a result for
\* every planned cell: no call is lost between the pool and the leaderboard.
UnstoppedRunCoversPlan ==
    pc = "report" /\ stop = "none" => \A c \in PlannedCells : results[c] # NULL

\* Everything the leaderboard will be built from is in the database, so that a
\* kill at any moment loses nothing that was collected.
ResultsAreStored ==
    pc \in {"collect", "cancelling", "drain", "report"} =>
        \A c \in Cell : results[c] # NULL => HasRow(c, results[c])

\* With on_exceed: stop, the loop never goes on to another result once what it
\* has collected, the newest result included, is over a cap.
NoCollectingOverBudget ==
    (pc = "collect" /\ OnExceed = "stop" /\ \E c \in Cell : future[c] = "collected")
        => ~OverRunBudget(results) /\ ~OverModelBudget(results)

\* When the loop has broken out to wait for the pool, nothing is left that a
\* worker could start: the stop stops the spending.
StoppedPoolIsStarved ==
    pc \in {"drain", "report"} => \A c \in Cell : future[c] # "pending"

\* The run as a reader of the database sees it (module RunLedger).
Ledger == INSTANCE RunLedger WITH
    state <- run.status, partial <- run.partial, ledger <- rows,
    open <- pc \in Live, plan <- IF pc \in Live THEN PlannedCells ELSE {}

ImplementsLedger == Ledger!LSpec

\* A run that a process has taken up ends, one way or another: no wait of the
\* main thread is forever (runner.py, as_completed and the pool's __exit__).
RunEnds == pc \in Live ~> pc \in {"returned", "idle"}
=============================================================================
