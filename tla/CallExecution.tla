--------------------------- MODULE CallExecution ---------------------------
(***************************************************************************)
(* One call of a sweep, from request to row: ArenaRunner._execute and what *)
(* it calls (core/hooks.py, core/retry.py, connectors/callable_target.py,  *)
(* connectors/pricing.py, scorers/base.py, the judge).  The workers of the *)
(* pool share the connector of each model, which imports its target on     *)
(* first use, and the judge, which is built on first use behind a lock.    *)
(*                                                                         *)
(* A worker's steps that touch nothing shared are one action.  Scores are  *)
(* counted in halves; the pool and the limiter around a call are the       *)
(* business of ArenaRunner and RateLimit.                                  *)
(***************************************************************************)
EXTENDS Integers, Sequences, FiniteSets, Functions

CONSTANTS
    Workers,    \* threads of the pool
    Targets,    \* models that are Python callables
    Remotes,    \* models behind an API
    Failures,   \* exceptions a connector may raise
    Scores,     \* what a scorer, a judge or a hook may give as a score
    Retries,    \* run.retries
    CardPrice,  \* the cost the price book works out for each remote model
    MaxCalls,   \* bound: calls begun
    NaN,        \* the float that is not a number
    None        \* None

ASSUME CallExecutionAssumption ==
    /\ Retries \in Nat /\ MaxCalls \in Nat
    /\ IsFiniteSet(Workers) /\ None \notin Workers
    /\ Targets \cup Remotes # {}
    /\ CardPrice \in [Remotes -> Nat]
    /\ \A e \in Failures : e.network \in BOOLEAN

Models == Targets \cup Remotes
Half == 1
Full == 2

VARIABLES
    declares,   \* does a target declare keyword arguments, and must it get them?
    fn,         \* _fn of each target's connector is set
    accepts,    \* so is _accepts
    judge,      \* the judge's connector is there
    judgeLock,  \* the worker inside _judge_lock
    pc,         \* where each worker is
    model,      \* the model its call is for
    tries,      \* the exceptions of its call so far
    answer,     \* the cost of the answer it holds
    rows,       \* the rows the calls have ended with
    begun,      \* calls begun
    judges,     \* history: judge connectors built
    starved,    \* history: how often a target was called without its arguments
    paid,       \* history: cost of the answers that came
    counted,    \* history: cost in the rows
    dropped,    \* history: cost of answers whose call an ArenaError took away
    unseen      \* history: cost of answers whose call has a bare row only

shared == <<fn, accepts, judge, judgeLock>>
history == <<judges, starved, paid, counted, dropped, unseen>>
vars == <<declares, shared, pc, model, tries, answer, rows, begun, history>>

Amount(cost) == IF cost = None THEN 0 ELSE cost

Init ==
    /\ declares \in [Targets -> {"prompt", "optional", "required"}]
    /\ fn = [t \in Targets |-> FALSE]
    /\ accepts = [t \in Targets |-> FALSE]
    /\ judge = FALSE
    /\ judgeLock = None
    /\ pc = [w \in Workers |-> "idle"]
    /\ model = [w \in Workers |-> CHOOSE m \in Models : TRUE]
    /\ tries = [w \in Workers |-> <<>>]
    /\ answer = [w \in Workers |-> None]
    /\ rows = {}
    /\ begun = 0
    /\ judges = 0
    /\ starved = 0
    /\ paid = 0
    /\ counted = 0
    /\ dropped = 0
    /\ unseen = 0

Goto(w, place) == pc' = [pc EXCEPT ![w] = place]

-----------------------------------------------------------------------------
(* Which failures are worth another attempt (core/retry.py) *)

\* A failure has the HTTP status an SDK hung on it (or None), may be one of the
\* interpreter's own network errors, and has a name.
TerminalStatus == {400, 401, 403, 404, 422}
RetryableStatus == {408, 409, 425, 429} \cup 500..599

\* Mutant: the class of the exception is looked at before its status.
ClassifyByType(e) ==
    IF e.network \/ e.name = "retryable" THEN "retryable"
    ELSE IF e.status \in TerminalStatus \/ e.name = "terminal" THEN "terminal"
    ELSE "unknown"

\* classify(): the status decides, if it is one that says something; then the
\* type; then the name.
Classify(e) ==
    CASE e.status \in TerminalStatus -> "terminal"
      [] e.status \in RetryableStatus -> "retryable"
      [] e.status \in 400..499 \ (TerminalStatus \cup RetryableStatus) -> "terminal"
      [] e.network /\ e.status \notin 400..599 -> "retryable"
      [] ~e.network /\ e.status \notin 400..599 /\ e.name = "retryable" -> "retryable"
      [] ~e.network /\ e.status \notin 400..599 /\ e.name = "terminal" -> "terminal"
      [] OTHER -> "unknown"

ShouldRetry(e) == Classify(e) # "terminal"

\* A TypeError of a target that misses an argument, or an import that failed:
\* no status, no name retry.py knows.
Unforeseen == [status |-> None, network |-> FALSE, name |-> "other"]

-----------------------------------------------------------------------------
(* Rows and verdicts *)

\* The row of worker w's call: what it ends with, and what went before.  The
\* code's status is "error" unless it is "ok"; the text of the error tells a
\* call that got no answer from one whose scorer broke.
Row(w, status, score, passed, hooked) ==
    [status |-> status, score |-> score, passed |-> passed, hooked |-> hooked,
     failures |-> tries[w], cost |-> answer[w]]

EndCall(w) ==
    /\ Goto(w, "idle")
    /\ tries' = [tries EXCEPT ![w] = <<>>]
    /\ answer' = [answer EXCEPT ![w] = None]

ReturnRow(w, row) ==
    /\ rows' = rows \cup {row}
    /\ counted' = counted + Amount(row.cost)
    /\ EndCall(w)
    /\ UNCHANGED <<dropped, unseen, paid, judges, starved>>

\* A HookError or a ScorerError leaves _execute: there is no row.
RaiseArenaError(w) ==
    /\ dropped' = dropped + Amount(answer[w])
    /\ EndCall(w)
    /\ UNCHANGED <<rows, counted, unseen, paid, judges, starved>>

\* Any other exception does too; ArenaRunner.run writes a bare row for it, which
\* has no cost.
RaiseOther(w) ==
    /\ rows' = rows \cup {[status |-> "broken", score |-> None, passed |-> None,
                          hooked |-> FALSE, failures |-> <<>>, cost |-> None]}
    /\ unseen' = unseen + Amount(answer[w])
    /\ EndCall(w)
    /\ UNCHANGED <<counted, dropped, paid, judges, starved>>

\* ScoreResult.__post_init__: min(1.0, nan) is 1.0.
Clamped(score) ==
    IF score = NaN THEN Full ELSE IF score < 0 THEN 0 ELSE IF score > Full THEN Full ELSE score

Verdict(score, passed) ==
    [score |-> Clamped(score),
     passed |-> IF passed = None THEN Clamped(score) >= Half ELSE passed]

\* A hook's own verdict: it is not clamped.
HookVerdict(score, passed) ==
    LET given == IF score # None THEN score ELSE IF passed THEN Full ELSE 0
    IN [score |-> given,
        passed |-> IF passed # None THEN passed ELSE given # NaN /\ given >= Half]

-----------------------------------------------------------------------------
(* The request *)

\* _execute of the next job; the pre_request hook may raise.
BeginCall(w) ==
    /\ pc[w] = "idle"
    /\ begun < MaxCalls
    /\ begun' = begun + 1
    /\ \E m \in Models :
          /\ model' = [model EXCEPT ![w] = m]
          /\ \/ Goto(w, IF m \in Targets THEN "load" ELSE "send")
             \/ UNCHANGED pc
    /\ UNCHANGED <<declares, shared, tries, answer, rows, history>>

\* An attempt failed: sleep and try again, or give up with an error row.
Fail(w, e) ==
    /\ IF ShouldRetry(e) /\ Len(tries[w]) < Retries
       THEN /\ tries' = [tries EXCEPT ![w] = Append(@, e)]
            /\ Goto(w, IF model[w] \in Targets THEN "load" ELSE "send")
            /\ UNCHANGED <<answer, rows, counted>>
       ELSE /\ rows' = rows \cup {[status |-> "unanswered", score |-> None, passed |-> None,
                                   hooked |-> FALSE, failures |-> Append(tries[w], e),
                                   cost |-> None]}
            /\ EndCall(w)
            /\ UNCHANGED counted
    /\ UNCHANGED <<paid, dropped, unseen, judges>>

\* _load: another worker may have come first.
Load(w) ==
    /\ pc[w] = "load"
    /\ Goto(w, IF fn[model[w]] THEN "send" ELSE "import")
    /\ UNCHANGED <<declares, shared, model, tries, answer, rows, begun, history>>

ImportFails(w) ==
    /\ pc[w] = "import"
    /\ Fail(w, Unforeseen)
    /\ UNCHANGED <<declares, shared, model, begun, starved>>

Import(w) ==
    /\ pc[w] = "import"
    /\ fn' = [fn EXCEPT ![model[w]] = TRUE]
    /\ Goto(w, "signature")
    /\ UNCHANGED <<declares, accepts, judge, judgeLock, model, tries, answer, rows, begun, history>>

\* Mutant: the signature is kept for the worker that read it.
InspectOnly(w) ==
    /\ pc[w] = "signature"
    /\ Goto(w, "send")
    /\ UNCHANGED <<declares, shared, model, tries, answer, rows, begun, history>>

\* The second assignment of _load.
Inspect(w) ==
    /\ pc[w] = "signature"
    /\ accepts' = [accepts EXCEPT ![model[w]] = TRUE]
    /\ Goto(w, "send")
    /\ UNCHANGED <<declares, fn, judge, judgeLock, model, tries, answer, rows, begun, history>>

\* The target is called without the keyword arguments it declares.
Starving(w) ==
    model[w] \in Targets /\ ~accepts[model[w]] /\ declares[model[w]] # "prompt"

\* What the connector reports beats what the price book works out; of a target
\* without a card nothing is known.
CostOf(m, own) == IF own # None THEN own ELSE IF m \in Targets THEN None ELSE CardPrice[m]

Send(w) ==
    /\ pc[w] = "send"
    /\ starved' = IF Starving(w) THEN starved + 1 ELSE starved
    /\ UNCHANGED <<declares, shared, model, begun>>
    /\ \/ \E e \in Failures : Fail(w, e)
       \/ /\ Starving(w) /\ declares[model[w]] = "required"
          /\ Fail(w, Unforeseen)
       \/ /\ ~(Starving(w) /\ declares[model[w]] = "required")
          /\ \E own \in IF model[w] \in Targets THEN {None, 0, 2} ELSE {None} :
                /\ answer' = [answer EXCEPT ![w] = CostOf(model[w], own)]
                /\ paid' = paid + Amount(CostOf(model[w], own))
          /\ Goto(w, "grade")
          /\ UNCHANGED <<tries, rows, counted, dropped, unseen, judges>>

-----------------------------------------------------------------------------
(* Grading *)

\* The row of a call whose answer is graded; on_result may still raise.
Graded(w, verdict, hooked) ==
    \/ ReturnRow(w, Row(w, "ok", verdict.score, verdict.passed, hooked))
    \/ RaiseArenaError(w)

\* Mutant: a call whose scorer broke costs nothing.
ScorerBreaksFree(w) ==
    ReturnRow(w, [Row(w, "ungraded", None, None, FALSE) EXCEPT !.cost = None])

\* A scorer that raises anything but a ScorerError fails its call.
ScorerBreaks(w) == ReturnRow(w, Row(w, "ungraded", None, None, FALSE))

\* The post_process hook gives the verdict, raises, or returns a mapping with
\* a `detail` or `metrics` that cannot be read.
GradeByHook(w) ==
    /\ pc[w] = "grade"
    /\ \/ \E score \in Scores \cup {None}, passed \in {TRUE, FALSE, None} :
             /\ score # None \/ passed # None
             /\ Graded(w, HookVerdict(score, passed), TRUE)
       \/ RaiseArenaError(w)
       \/ RaiseOther(w)
    /\ UNCHANGED <<declares, shared, model, begun>>

\* The hook, if any, leaves the verdict to a scorer of the project, which may
\* raise, or return a ScoreResult whose `metrics` or `detail` cannot be merged
\* into the row: that is found outside the try around the scorer.
GradeByScorer(w) ==
    /\ pc[w] = "grade"
    /\ \/ \E score \in Scores, passed \in {TRUE, FALSE, None} :
             Graded(w, Verdict(score, passed), FALSE)
       \/ ScorerBreaks(w)
       \/ RaiseArenaError(w)
       \/ RaiseOther(w)
    /\ UNCHANGED <<declares, shared, model, begun>>

\* ManualScorer: a half, and nothing said of passing.
GradeManually(w) ==
    /\ pc[w] = "grade"
    /\ Graded(w, Verdict(Half, None), FALSE)
    /\ UNCHANGED <<declares, shared, model, begun>>

\* LLMJudgeScorer asks the judge: the worker waits at the lock.
GradeByJudge(w) ==
    /\ pc[w] = "grade"
    /\ Goto(w, "judge")
    /\ UNCHANGED <<declares, shared, model, tries, answer, rows, begun, history>>

\* Mutant: the judge is looked for before the lock is taken.
EnterJudgeUnlocked(w) ==
    /\ pc[w] = "judge"
    /\ Goto(w, IF judge THEN "ask" ELSE "build")
    /\ UNCHANGED <<declares, shared, model, tries, answer, rows, begun, history>>

\* with self._judge_lock: a judge that is there is used as it is.
EnterJudge(w) ==
    /\ pc[w] = "judge"
    /\ judgeLock = None
    /\ IF judge THEN Goto(w, "ask") /\ UNCHANGED judgeLock
       ELSE Goto(w, "build") /\ judgeLock' = w
    /\ UNCHANGED <<declares, fn, accepts, judge, model, tries, answer, rows, begun, history>>

BuildJudge(w) ==
    /\ pc[w] = "build"
    /\ judgeLock' = None
    /\ judge' = TRUE
    /\ judges' = judges + 1
    /\ Goto(w, "ask")
    /\ UNCHANGED <<declares, fn, accepts, model, tries, answer, rows, begun, starved, paid,
                   counted, dropped, unseen>>

\* build_connector raises a ConnectorError, which the call of the scorer catches.
BuildJudgeFails(w) ==
    /\ pc[w] = "build"
    /\ judgeLock' = None
    /\ ScorerBreaks(w)
    /\ UNCHANGED <<declares, fn, accepts, judge, model, begun>>

\* The judge answers with a score, PASS or FAIL, or fails, once and for all; a
\* reply without a score is a ScorerError.
AskJudge(w) ==
    /\ pc[w] = "ask"
    /\ \/ \E score \in Scores, passed \in BOOLEAN : Graded(w, Verdict(score, passed), FALSE)
       \/ ScorerBreaks(w)
       \/ RaiseArenaError(w)
    /\ UNCHANGED <<declares, shared, model, begun>>

-----------------------------------------------------------------------------
Work(w) ==
    \/ BeginCall(w)
    \/ Load(w) \/ ImportFails(w) \/ Import(w) \/ Inspect(w)
    \/ Send(w)
    \/ GradeByHook(w) \/ GradeByScorer(w) \/ GradeManually(w) \/ GradeByJudge(w)
    \/ EnterJudge(w) \/ BuildJudge(w) \/ BuildJudgeFails(w) \/ AskJudge(w)

Next == \E w \in Workers : Work(w)

Spec == Init /\ [][Next]_vars

-----------------------------------------------------------------------------
(* What must hold *)

\* A target goes without the arguments it declares only while another worker is
\* between the two assignments of the first _load; once a load is through,
\* every call gets "exactly the subset it declares".
StarvedCallsNeedARace ==
    [][starved' # starved => \E w \in Workers : pc[w] = "signature"]_vars

\* What an answer cost is in its row, whatever hooks, scorers and the judge do
\* after it came.  It is lost in two ways: an ArenaError (of a hook, a scorer or
\* the judge's reply) takes the call away and ends the run, or what a hook or a
\* scorer returned cannot be merged, and the call has a bare row without a cost,
\* which no budget sees.
PaidAnswersAreCounted ==
    LET Held == [w \in Workers |-> Amount(answer[w])]
    IN /\ paid = counted + dropped + unseen + SumFunctionOnSet(Held, Workers)
       /\ unseen > 0 => \E row \in rows : row.status = "broken" /\ row.cost = None

\* The provider said that the request itself is wrong, in its status or, where
\* that says nothing, by the name of the exception.
Rejected(e) ==
    \/ e.status \in 400..499 \ RetryableStatus
    \/ e.status \notin 400..599 /\ ~e.network /\ e.name = "terminal"

\* A request that was rejected is never sent again, and a call that ends without
\* an answer was rejected or used up its retries.
OnlyRejectionsAreFinal ==
    /\ \A w \in Workers : \A i \in 1..Len(tries[w]) : ~Rejected(tries[w][i])
    /\ \A row \in rows : row.status = "unanswered" =>
          LET n == Len(row.failures) IN n = Retries + 1 \/ Rejected(row.failures[n])

\* However many workers want a judge that is not there yet, one is built.
OneJudge == judges <= 1
=============================================================================
