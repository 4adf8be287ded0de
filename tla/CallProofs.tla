----------------------------- MODULE CallProofs -----------------------------
(***************************************************************************)
(* A call, as the workers make it (CallExecution) and as the limiter of    *)
(* its provider lets it through (RateLimit).                               *)
(*                                                                         *)
(* Of the calls of a sweep, whatever the workers, the models and the       *)
(* exceptions are: the judge is built once, a target is starved only while *)
(* another worker is loading it, only a rejection or the end of the        *)
(* retries ends a call without an answer, and what answers cost is counted.*)
(*                                                                         *)
(* Of the limiter, for every number of threads and slots, and every rate,  *)
(* capacity, cost and number of retries: slots are conserved, a bucket     *)
(* never hands out more than its capacity and what it earned, and the      *)
(* provider sees no more requests than the calls let through may make.     *)
(***************************************************************************)
EXTENDS CallExecution, RateLimit, FoldFacts

-----------------------------------------------------------------------------
(* The calls of a sweep *)

Places == {"idle", "load", "import", "signature", "send", "grade", "judge", "build", "ask"}

PlacesOK == pc \in [Workers -> Places] /\ model \in [Workers -> Models]

\* Every action of Work changes pc at its own worker only, along these edges.
LEMMA PlacesStep == ASSUME PlacesOK, [Next]_vars PROVE PlacesOK'
<1> USE DEF PlacesOK, Places, EndCall, Goto
<1>1. CASE UNCHANGED vars
  BY <1>1 DEF vars
<1>2. ASSUME NEW w \in Workers, Work(w) PROVE PlacesOK'
  <2>1. CASE BeginCall(w)
    BY <2>1 DEF BeginCall
  <2>2. CASE Load(w)
    BY <2>2 DEF Load
  <2>3. CASE ImportFails(w)
    BY <2>3 DEF ImportFails, Fail
  <2>4. CASE Import(w)
    BY <2>4 DEF Import
  <2>5. CASE Inspect(w)
    BY <2>5 DEF Inspect
  <2>6. CASE Send(w)
    BY <2>6 DEF Send, Fail
  <2>7. CASE GradeByHook(w)
    BY <2>7 DEF GradeByHook, Graded, ReturnRow, RaiseArenaError, RaiseOther
  <2>8. CASE GradeByScorer(w)
    BY <2>8 DEF GradeByScorer, Graded, ScorerBreaks, ReturnRow, RaiseArenaError, RaiseOther
  <2>9. CASE GradeManually(w)
    BY <2>9 DEF GradeManually, Graded, ReturnRow, RaiseArenaError
  <2>10. CASE GradeByJudge(w)
    BY <2>10 DEF GradeByJudge
  <2>11. CASE EnterJudge(w)
    BY <2>11 DEF EnterJudge
  <2>12. CASE BuildJudge(w)
    BY <2>12 DEF BuildJudge
  <2>13. CASE BuildJudgeFails(w)
    BY <2>13 DEF BuildJudgeFails, ScorerBreaks, ReturnRow
  <2>14. CASE AskJudge(w)
    BY <2>14 DEF AskJudge, Graded, ScorerBreaks, ReturnRow, RaiseArenaError
  <2> QED
    BY <1>2, <2>1, <2>2, <2>3, <2>4, <2>5, <2>6, <2>7, <2>8, <2>9, <2>10, <2>11, <2>12,
       <2>13, <2>14 DEF Work
<1> QED
  BY <1>1, <1>2 DEF Next
-----------------------------------------------------------------------------
(* The judge is built once *)

\* Whoever builds the judge holds the lock, and it is not there yet; no other
\* worker can come to build it before the lock is free and the judge is seen.
JudgeInv ==
    /\ judge \in BOOLEAN
    /\ judges = IF judge THEN 1 ELSE 0
    /\ \A w \in Workers : pc[w] = "build" => judgeLock = w /\ ~judge

\* Only EnterJudge leads to "build", and only from a free lock.
LEMMA JudgeStep == ASSUME PlacesOK, JudgeInv, [Next]_vars PROVE JudgeInv'
<1> USE CallExecutionAssumption DEF PlacesOK, Places, JudgeInv, EndCall, Goto
<1>1. CASE UNCHANGED vars
  BY <1>1 DEF vars, shared, history
<1>2. ASSUME NEW w \in Workers, Work(w) PROVE JudgeInv'
  <2>1. CASE BeginCall(w)
    BY <1>2, <2>1 DEF BeginCall, history, shared
  <2>2. CASE Load(w)
    BY <1>2, <2>2 DEF Load, history, shared
  <2>3. CASE ImportFails(w)
    BY <1>2, <2>3 DEF ImportFails, Fail, history, shared
  <2>4. CASE Import(w)
    BY <1>2, <2>4 DEF Import, history, shared
  <2>5. CASE Inspect(w)
    BY <1>2, <2>5 DEF Inspect, history, shared
  <2>6. CASE Send(w)
    BY <1>2, <2>6 DEF Send, Fail, history, shared
  <2>7. CASE GradeByHook(w)
    BY <1>2, <2>7 DEF GradeByHook, Graded, ReturnRow, RaiseArenaError, RaiseOther,
        history, shared
  <2>8. CASE GradeByScorer(w)
    BY <1>2, <2>8 DEF GradeByScorer, Graded, ScorerBreaks, ReturnRow, RaiseArenaError, RaiseOther,
        history, shared
  <2>9. CASE GradeManually(w)
    BY <1>2, <2>9 DEF GradeManually, Graded, ReturnRow, RaiseArenaError, history, shared
  <2>10. CASE GradeByJudge(w)
    BY <1>2, <2>10 DEF GradeByJudge, history, shared
  <2>11. CASE EnterJudge(w)
    BY <1>2, <2>11 DEF EnterJudge, history, shared
  <2>12. CASE BuildJudge(w)
    BY <1>2, <2>12 DEF BuildJudge, history, shared
  <2>13. CASE BuildJudgeFails(w)
    BY <1>2, <2>13 DEF BuildJudgeFails, ScorerBreaks, ReturnRow, history, shared
  <2>14. CASE AskJudge(w)
    BY <1>2, <2>14 DEF AskJudge, Graded, ScorerBreaks, ReturnRow, RaiseArenaError, history, shared
  <2> QED
    BY <1>2, <2>1, <2>2, <2>3, <2>4, <2>5, <2>6, <2>7, <2>8, <2>9, <2>10, <2>11, <2>12,
       <2>13, <2>14 DEF Work
<1> QED
  BY <1>1, <1>2 DEF Next

-----------------------------------------------------------------------------
(* A target is starved by a race only *)

\* A connector whose function is there without its signature is being loaded by
\* a worker, and a worker that is past the load has a function to call.
LoadInv ==
    /\ fn \in [Targets -> BOOLEAN] /\ accepts \in [Targets -> BOOLEAN]
    /\ \A w \in Workers :
          /\ pc[w] \in {"load", "import", "signature"} => model[w] \in Targets
          /\ pc[w] \in {"signature", "send"} /\ model[w] \in Targets => fn[model[w]]
    /\ \A t \in Targets : fn[t] /\ ~accepts[t] =>
          \E w \in Workers : pc[w] = "signature" /\ model[w] = t

\* A worker past its load leaves the connectors as they are.
LEMMA LoadUndisturbed ==
  ASSUME PlacesOK, LoadInv, NEW w \in Workers, UNCHANGED <<fn, accepts, model>>,
         pc[w] # "signature", NEW place \in {"idle", "grade", "judge", "build", "ask"},
         Goto(w, place)
  PROVE  LoadInv'
<1>1. \A t \in Targets : fn[t] /\ ~accepts[t] =>
         \E v \in Workers : v # w /\ pc[v] = "signature" /\ model[v] = t
  BY DEF LoadInv
<1>2. \A v \in Workers : pc'[v] = IF v = w THEN place ELSE pc[v]
  BY DEF PlacesOK, Goto
<1> QED
  BY <1>1, <1>2 DEF LoadInv

\* Import opens the gap between the two assignments of _load, Inspect closes it.
LEMMA LoadStep == ASSUME PlacesOK, LoadInv, [Next]_vars PROVE LoadInv'
<1> USE DEF PlacesOK, Places, Models, LoadInv, EndCall, Goto
<1>1. CASE UNCHANGED vars
  BY <1>1 DEF vars, shared, history
<1>2. ASSUME NEW w \in Workers, Work(w) PROVE LoadInv'
  <2>1. CASE BeginCall(w)
    BY <1>2, <2>1 DEF BeginCall, history, shared
  <2>2. CASE Load(w)
    BY <1>2, <2>2 DEF Load, history, shared
  <2>3. CASE ImportFails(w)
    BY <1>2, <2>3 DEF ImportFails, Fail, history, shared
  <2>4. CASE Import(w)
    BY <1>2, <2>4 DEF Import, history, shared
  <2>5. CASE Inspect(w)
    <3>1. \A t \in Targets : fn[t] /\ ~accepts'[t] =>
             \E v \in Workers : v # w /\ pc[v] = "signature" /\ model[v] = t
      BY <1>2, <2>5 DEF Inspect
    <3>2. \A v \in Workers : pc'[v] = IF v = w THEN "send" ELSE pc[v]
      BY <2>5 DEF Inspect
    <3>3. fn[model[w]]
      BY <2>5 DEF Inspect
    <3> QED
      BY <1>2, <2>5, <3>1, <3>2, <3>3 DEF Inspect
  <2>6. CASE Send(w)
    BY <1>2, <2>6 DEF Send, Fail, history, shared
  <2>7. CASE GradeByHook(w)
    <3>1. pc[w] # "signature" /\ UNCHANGED <<fn, accepts, model>> /\ Goto(w, "idle")
      BY <2>7 DEF GradeByHook, Graded, ReturnRow, RaiseArenaError, RaiseOther, shared
    <3> QED
      BY <1>2, <3>1, LoadUndisturbed
  <2>8. CASE GradeByScorer(w)
    <3>1. pc[w] # "signature" /\ UNCHANGED <<fn, accepts, model>> /\ Goto(w, "idle")
      BY <2>8 DEF GradeByScorer, Graded, ScorerBreaks, ReturnRow, RaiseArenaError, RaiseOther, shared
    <3> QED
      BY <1>2, <3>1, LoadUndisturbed
  <2>9. CASE GradeManually(w)
    <3>1. pc[w] # "signature" /\ UNCHANGED <<fn, accepts, model>> /\ Goto(w, "idle")
      BY <2>9 DEF GradeManually, Graded, ReturnRow, RaiseArenaError, shared
    <3> QED
      BY <1>2, <3>1, LoadUndisturbed
  <2>10. CASE GradeByJudge(w)
    BY <1>2, <2>10 DEF GradeByJudge, history, shared
  <2>11. CASE EnterJudge(w)
    BY <1>2, <2>11 DEF EnterJudge, history, shared
  <2>12. CASE BuildJudge(w)
    BY <1>2, <2>12 DEF BuildJudge, history, shared
  <2>13. CASE BuildJudgeFails(w)
    BY <1>2, <2>13 DEF BuildJudgeFails, ScorerBreaks, ReturnRow, history, shared
  <2>14. CASE AskJudge(w)
    <3>1. pc[w] # "signature" /\ UNCHANGED <<fn, accepts, model>> /\ Goto(w, "idle")
      BY <2>14 DEF AskJudge, Graded, ScorerBreaks, ReturnRow, RaiseArenaError, shared
    <3> QED
      BY <1>2, <3>1, LoadUndisturbed
  <2> QED
    BY <1>2, <2>1, <2>2, <2>3, <2>4, <2>5, <2>6, <2>7, <2>8, <2>9, <2>10, <2>11, <2>12,
       <2>13, <2>14 DEF Work
<1> QED
  BY <1>1, <1>2 DEF Next

-----------------------------------------------------------------------------
(* Only a rejection or the end of the retries is final *)

Exceptions == Failures \cup {Unforeseen}

\* terminal, of the code's three classes, is what a provider said of the request
\* itself: no status that is worth another attempt hides a rejection.
LEMMA TerminalIsRejected ==
  ASSUME NEW e \in Exceptions PROVE ShouldRetry(e) <=> ~Rejected(e)
<1>1. e.network \in BOOLEAN
  <2>1. CASE e \in Failures
    BY <2>1, CallExecutionAssumption
  <2>2. CASE e = Unforeseen
    BY <2>2 DEF Unforeseen
  <2> QED
    BY <2>1, <2>2 DEF Exceptions
<1>2. /\ e.status \in TerminalStatus => e.status \in 400..499 /\ e.status \notin RetryableStatus
      /\ e.status \in RetryableStatus => e.status \in 400..599
      /\ e.status \in 400..499 => e.status \in 400..599
  BY SMT DEF TerminalStatus, RetryableStatus
<1>3. CASE e.status \in TerminalStatus
  <2>1. Classify(e) = "terminal"
    BY <1>2, <1>3 DEF Classify
  <2>2. Rejected(e)
    BY <1>2, <1>3 DEF Rejected
  <2> QED
    BY <2>1, <2>2 DEF ShouldRetry
<1>4. CASE e.status \in RetryableStatus
  <2>1. Classify(e) = "retryable"
    BY <1>2, <1>4 DEF Classify
  <2>2. ~Rejected(e)
    BY <1>2, <1>4 DEF Rejected
  <2> QED
    BY <2>1, <2>2 DEF ShouldRetry
<1>5. CASE e.status \in 400..499 \ (TerminalStatus \cup RetryableStatus)
  <2>1. Classify(e) = "terminal"
    BY <1>2, <1>5 DEF Classify
  <2>2. Rejected(e)
    BY <1>2, <1>5 DEF Rejected
  <2> QED
    BY <2>1, <2>2 DEF ShouldRetry
<1>6. CASE e.status \notin 400..599
  <2>1. Classify(e) = "terminal" <=> ~e.network /\ e.name = "terminal"
    BY <1>1, <1>2, <1>6 DEF Classify
  <2>2. Rejected(e) <=> ~e.network /\ e.name = "terminal"
    BY <1>2, <1>6 DEF Rejected
  <2> QED
    BY <2>1, <2>2 DEF ShouldRetry
<1>7. e.status \in 400..599 => e.status \in 400..499 \/ e.status \in RetryableStatus
  BY SMT DEF RetryableStatus
<1> QED
  BY <1>3, <1>4, <1>5, <1>6, <1>7

\* What a worker has been through is worth another attempt, and never more than
\* there are retries; a call without an answer has run out of them, or was
\* rejected last.
RetryInv ==
    /\ tries \in [Workers -> Seq(Exceptions)]
    /\ \A w \in Workers :
          /\ Len(tries[w]) <= Retries
          /\ \A i \in 1..Len(tries[w]) : ~Rejected(tries[w][i])
    /\ \A row \in rows : row.status = "unanswered" =>
          LET n == Len(row.failures) IN n = Retries + 1 \/ Rejected(row.failures[n])

\* Rows are added, of calls that had an answer.
Gained(before, after) == \A row \in after \ before : row.status # "unanswered"

LEMMA EndKeepsRetries ==
  ASSUME RetryInv, NEW w \in Workers, EndCall(w), Gained(rows, rows') PROVE RetryInv'
<1>1. \A v \in Workers : tries'[v] = IF v = w THEN <<>> ELSE tries[v]
  BY DEF RetryInv, EndCall
<1>2. tries' \in [Workers -> Seq(Exceptions)]
  BY DEF RetryInv, EndCall
<1> QED
  BY <1>1, <1>2, CallExecutionAssumption DEF RetryInv, Gained

\* An attempt that failed is either worth another, with a retry left, or the
\* last of its call.
LEMMA FailKeepsRetries ==
  ASSUME RetryInv, NEW w \in Workers, NEW e \in Exceptions, Fail(w, e) PROVE RetryInv'
<1> USE CallExecutionAssumption
<1> DEFINE longer == Append(tries[w], e)
<1>1. /\ longer \in Seq(Exceptions) /\ Len(longer) = Len(tries[w]) + 1
      /\ longer[Len(longer)] = e
      /\ \A i \in 1..Len(tries[w]) : longer[i] = tries[w][i]
      /\ Len(tries[w]) \in Nat
  BY DEF RetryInv
<1>2. CASE ShouldRetry(e) /\ Len(tries[w]) < Retries
  <2>1. tries' = [tries EXCEPT ![w] = longer] /\ UNCHANGED rows
    BY <1>2 DEF Fail
  <2>2. Len(longer) <= Retries /\ \A i \in 1..Len(longer) : ~Rejected(longer[i])
    BY <1>1, <1>2, TerminalIsRejected DEF RetryInv
  <2> QED
    BY <1>1, <2>1, <2>2 DEF RetryInv
<1>3. CASE ~(ShouldRetry(e) /\ Len(tries[w]) < Retries)
  <2> DEFINE row == [status |-> "unanswered", score |-> None, passed |-> None,
                     hooked |-> FALSE, failures |-> longer, cost |-> None]
  <2>1. rows' = rows \cup {row} /\ tries' = [tries EXCEPT ![w] = <<>>]
    BY <1>3 DEF Fail, EndCall
  <2>2. Len(longer) = Retries + 1 \/ Rejected(longer[Len(longer)])
    BY <1>1, <1>3, TerminalIsRejected DEF RetryInv
  <2>3. row.failures = longer
    OBVIOUS
  <2>4. \A r \in rows' : r.status = "unanswered" =>
          Len(r.failures) = Retries + 1 \/ Rejected(r.failures[Len(r.failures)])
    <3> HIDE DEF longer, row
    <3> QED
      BY <2>1, <2>2, <2>3 DEF RetryInv
  <2>5. \A v \in Workers : tries'[v] = IF v = w THEN <<>> ELSE tries[v]
    BY <2>1 DEF RetryInv
  <2>6. tries' \in [Workers -> Seq(Exceptions)]
    BY <2>1 DEF RetryInv
  <2> QED
    BY <2>4, <2>5, <2>6 DEF RetryInv
<1> QED
  BY <1>2, <1>3

\* Fail alone adds to the exceptions of a call and to the rows without an answer.
LEMMA RetryStep == ASSUME RetryInv, [Next]_vars PROVE RetryInv'
<1> USE DEF RetryInv
<1>1. CASE UNCHANGED vars
  BY <1>1 DEF vars, shared, history
<1>2. ASSUME NEW w \in Workers, Work(w) PROVE RetryInv'
  <2>1. CASE BeginCall(w)
    <3>1. UNCHANGED <<tries, rows>>
      BY <2>1 DEF BeginCall
    <3> QED
      BY <3>1
  <2>2. CASE Load(w)
    <3>1. UNCHANGED <<tries, rows>>
      BY <2>2 DEF Load
    <3> QED
      BY <3>1
  <2>3. CASE ImportFails(w)
    <3>1. Fail(w, Unforeseen)
      BY <2>3 DEF ImportFails
    <3> QED
      BY <1>2, <3>1, FailKeepsRetries DEF Exceptions
  <2>4. CASE Import(w)
    <3>1. UNCHANGED <<tries, rows>>
      BY <2>4 DEF Import
    <3> QED
      BY <3>1
  <2>5. CASE Inspect(w)
    <3>1. UNCHANGED <<tries, rows>>
      BY <2>5 DEF Inspect
    <3> QED
      BY <3>1
  <2>6. CASE Send(w)
    <3>1. (\E e \in Exceptions : Fail(w, e)) \/ UNCHANGED <<tries, rows>>
      BY <2>6 DEF Send, Exceptions
    <3> QED
      BY <1>2, <3>1, FailKeepsRetries
  <2>7. CASE GradeByHook(w)
    <3>1. (\E verdict, hooked : Graded(w, verdict, hooked)) \/ RaiseArenaError(w) \/ RaiseOther(w)
      BY <2>7 DEF GradeByHook
    <3>2. EndCall(w) /\ Gained(rows, rows')
      BY <3>1 DEF RaiseOther, Graded, ReturnRow, RaiseArenaError, Row, Gained
    <3> QED
      BY <1>2, <3>2, EndKeepsRetries
  <2>8. CASE GradeByScorer(w)
    <3>1. \/ \E verdict, hooked : Graded(w, verdict, hooked)
          \/ RaiseArenaError(w) \/ ScorerBreaks(w) \/ RaiseOther(w)
      BY <2>8 DEF GradeByScorer
    <3>2. EndCall(w) /\ Gained(rows, rows')
      BY <3>1 DEF ScorerBreaks, RaiseOther, Graded, ReturnRow, RaiseArenaError, Row, Gained
    <3> QED
      BY <1>2, <3>2, EndKeepsRetries
  <2>9. CASE GradeManually(w)
    <3>1. EndCall(w) /\ Gained(rows, rows')
      BY <2>9 DEF GradeManually, Graded, ReturnRow, RaiseArenaError, Row, Gained
    <3> QED
      BY <1>2, <3>1, EndKeepsRetries
  <2>10. CASE GradeByJudge(w)
    <3>1. UNCHANGED <<tries, rows>>
      BY <2>10 DEF GradeByJudge
    <3> QED
      BY <3>1
  <2>11. CASE EnterJudge(w)
    <3>1. UNCHANGED <<tries, rows>>
      BY <2>11 DEF EnterJudge
    <3> QED
      BY <3>1
  <2>12. CASE BuildJudge(w)
    <3>1. UNCHANGED <<tries, rows>>
      BY <2>12 DEF BuildJudge
    <3> QED
      BY <3>1
  <2>13. CASE BuildJudgeFails(w)
    <3>1. EndCall(w) /\ Gained(rows, rows')
      BY <2>13 DEF BuildJudgeFails, ScorerBreaks, ReturnRow, Row, Gained
    <3> QED
      BY <1>2, <3>1, EndKeepsRetries
  <2>14. CASE AskJudge(w)
    <3>1. EndCall(w) /\ Gained(rows, rows')
      BY <2>14 DEF AskJudge, Graded, ScorerBreaks, ReturnRow, RaiseArenaError, Row, Gained
    <3> QED
      BY <1>2, <3>1, EndKeepsRetries
  <2> QED
    BY <1>2, <2>1, <2>2, <2>3, <2>4, <2>5, <2>6, <2>7, <2>8, <2>9, <2>10, <2>11, <2>12,
       <2>13, <2>14 DEF Work
<1> QED
  BY <1>1, <1>2 DEF Next

-----------------------------------------------------------------------------
(* What the answers cost *)

Held == [w \in Workers |-> Amount(answer[w])]
HeldInAll == SumFunctionOnSet(Held, Workers)

\* Money is paid, then held with the answer, then in a row, dropped or unseen; a
\* worker that has no answer yet holds none.
MoneyInv ==
    /\ answer \in [Workers -> Nat \cup {None}]
    /\ paid \in Nat /\ counted \in Nat /\ dropped \in Nat /\ unseen \in Nat
    /\ \A w \in Workers : pc[w] \notin {"grade", "judge", "build", "ask"} => answer[w] = None
    /\ paid = counted + dropped + unseen + HeldInAll

\* What is held changes as the answer does of the one worker that takes a step.
LEMMA HeldChanges ==
  ASSUME answer \in [Workers -> Nat \cup {None}], NEW w \in Workers,
         NEW cost \in Nat \cup {None}, answer' = [answer EXCEPT ![w] = cost]
  PROVE  /\ answer' \in [Workers -> Nat \cup {None}]
         /\ HeldInAll \in Nat /\ HeldInAll' \in Nat
         /\ Amount(answer[w]) \in Nat /\ Amount(cost) \in Nat
         /\ HeldInAll' + Amount(answer[w]) = HeldInAll + Amount(cost)
<1>1. answer' \in [Workers -> Nat \cup {None}]
  OBVIOUS
<1>2. IsFiniteSet(Workers)
  BY CallExecutionAssumption
<1>3. \A v \in Workers : Held[v] = Amount(answer[v]) /\ Held'[v] = Amount(answer'[v])
  BY DEF Held
<1>4. \A v \in Workers : Held[v] \in Nat /\ Held'[v] \in Nat
  BY <1>1, <1>3 DEF Amount
<1>5. \A v \in Workers : v # w => Held[v] = Held'[v]
  BY <1>3
<1>6. Held[w] = Amount(answer[w]) /\ Held'[w] = Amount(cost)
  BY <1>3
<1> HIDE DEF Held
<1>7. HeldInAll \in Nat /\ HeldInAll' \in Nat
  BY <1>2, <1>4, SumType DEF HeldInAll
<1>8. HeldInAll' + Held[w] = HeldInAll + Held'[w]
  BY <1>2, <1>4, <1>5, SumChange DEF HeldInAll
<1> QED
  BY <1>1, <1>4, <1>6, <1>7, <1>8

LEMMA SameHeld ==
  ASSUME MoneyInv, NEW w \in Workers, UNCHANGED <<answer, paid, counted, dropped, unseen>>,
         NEW place, PlacesOK, Goto(w, place),
         answer[w] = None \/ place \in {"grade", "judge", "build", "ask"}
  PROVE  MoneyInv'
<1>1. HeldInAll' = HeldInAll
  BY DEF HeldInAll, Held
<1>2. \A v \in Workers : pc'[v] = IF v = w THEN place ELSE pc[v]
  BY DEF PlacesOK, Goto
<1> QED
  BY <1>1, <1>2 DEF MoneyInv

\* A call ends and what its answer cost is counted, dropped or unseen.
LEMMA EndKeepsMoney ==
  ASSUME MoneyInv, PlacesOK, NEW w \in Workers, EndCall(w), paid' = paid,
         \/ counted' = counted + Amount(answer[w]) /\ UNCHANGED <<dropped, unseen>>
         \/ dropped' = dropped + Amount(answer[w]) /\ UNCHANGED <<counted, unseen>>
         \/ unseen' = unseen + Amount(answer[w]) /\ UNCHANGED <<counted, dropped>>
  PROVE  MoneyInv'
<1>1. answer' = [answer EXCEPT ![w] = None] /\ None \in Nat \cup {None} /\ Amount(None) = 0
  BY DEF EndCall, Amount
<1>2. /\ answer' \in [Workers -> Nat \cup {None}]
      /\ HeldInAll \in Nat /\ HeldInAll' \in Nat /\ Amount(answer[w]) \in Nat
      /\ HeldInAll' + Amount(answer[w]) = HeldInAll
  <2>1. /\ answer' \in [Workers -> Nat \cup {None}]
        /\ HeldInAll \in Nat /\ HeldInAll' \in Nat /\ Amount(answer[w]) \in Nat
        /\ HeldInAll' + Amount(answer[w]) = HeldInAll + Amount(None)
    BY <1>1, HeldChanges DEF MoneyInv
  <2> QED
    BY <1>1, <2>1
<1>3. \A v \in Workers : /\ pc'[v] = IF v = w THEN "idle" ELSE pc[v]
                         /\ answer'[v] = IF v = w THEN None ELSE answer[v]
  BY <1>1 DEF PlacesOK, EndCall, Goto, MoneyInv
<1>4. /\ paid' = counted' + dropped' + unseen' + HeldInAll'
      /\ paid' \in Nat /\ counted' \in Nat /\ dropped' \in Nat /\ unseen' \in Nat
  BY <1>2 DEF MoneyInv
<1> QED
  BY <1>2, <1>3, <1>4 DEF MoneyInv

LEMMA GradedKeepsMoney ==
  ASSUME MoneyInv, PlacesOK, NEW w \in Workers,
         \/ \E verdict, hooked : Graded(w, verdict, hooked)
         \/ ScorerBreaks(w)
         \/ RaiseArenaError(w)
         \/ RaiseOther(w)
  PROVE  MoneyInv'
<1>1. CASE \/ \E verdict, hooked : Graded(w, verdict, hooked)
           \/ ScorerBreaks(w)
  <2>1. CASE RaiseArenaError(w)
    BY <2>1, EndKeepsMoney DEF RaiseArenaError
  <2>2. CASE \E row : ReturnRow(w, row) /\ row.cost = answer[w]
    BY <2>2, EndKeepsMoney DEF ReturnRow
  <2>3. \A status, score, passed, hooked :
          Row(w, status, score, passed, hooked).cost = answer[w]
    BY DEF Row
  <2>4. CASE ScorerBreaks(w)
    BY <2>4, EndKeepsMoney DEF ScorerBreaks, ReturnRow, Row
  <2>5. ASSUME NEW verdict, NEW hooked, Graded(w, verdict, hooked) PROVE MoneyInv'
    BY <2>1, <2>2, <2>3, <2>5 DEF Graded
  <2> QED
    BY <1>1, <2>4, <2>5
<1>2. CASE RaiseArenaError(w)
  BY <1>2, EndKeepsMoney DEF RaiseArenaError
<1>3. CASE RaiseOther(w)
  BY <1>3, EndKeepsMoney DEF RaiseOther
<1> QED
  BY <1>1, <1>2, <1>3

\* A failed attempt costs nothing.
LEMMA FailKeepsMoney ==
  ASSUME MoneyInv, PlacesOK, NEW w \in Workers, pc[w] \in {"import", "send"}, NEW e, Fail(w, e)
  PROVE  MoneyInv'
<1>1. answer[w] = None /\ Amount(answer[w]) = 0
  BY DEF MoneyInv, Amount
<1>2. UNCHANGED <<paid, counted, dropped, unseen>>
  BY DEF Fail
<1>3. CASE EndCall(w)
  BY <1>1, <1>2, <1>3, EndKeepsMoney DEF MoneyInv
<1>4. CASE answer' = answer /\ \E place : Goto(w, place)
  BY <1>1, <1>2, <1>4, SameHeld
<1> QED
  BY <1>3, <1>4 DEF Fail

\* An answer comes: it is paid for and held.
LEMMA AnswerKeepsMoney ==
  ASSUME MoneyInv, PlacesOK, NEW w \in Workers, pc[w] = "send", NEW cost \in Nat \cup {None},
         answer' = [answer EXCEPT ![w] = cost], paid' = paid + Amount(cost),
         UNCHANGED <<counted, dropped, unseen>>, Goto(w, "grade")
  PROVE  MoneyInv'
<1>1. Amount(answer[w]) = 0
  BY DEF MoneyInv, Amount
<1>2. /\ answer' \in [Workers -> Nat \cup {None}]
      /\ HeldInAll \in Nat /\ HeldInAll' \in Nat /\ Amount(cost) \in Nat
      /\ HeldInAll' + Amount(answer[w]) = HeldInAll + Amount(cost)
  BY HeldChanges DEF MoneyInv
<1>3. \A v \in Workers : /\ pc'[v] = IF v = w THEN "grade" ELSE pc[v]
                         /\ v # w => answer'[v] = answer[v]
  BY DEF PlacesOK, Goto, MoneyInv
<1>4. /\ paid' = counted' + dropped' + unseen' + HeldInAll'
      /\ paid' \in Nat /\ counted' \in Nat /\ dropped' \in Nat /\ unseen' \in Nat
  BY <1>1, <1>2 DEF MoneyInv
<1> QED
  BY <1>2, <1>3, <1>4 DEF MoneyInv

LEMMA MoneyStep == ASSUME PlacesOK, LoadInv, MoneyInv, [Next]_vars PROVE MoneyInv'
<1>1. CASE UNCHANGED vars
  BY <1>1 DEF vars, history, MoneyInv, HeldInAll, Held
<1>2. ASSUME NEW w \in Workers, Work(w) PROVE MoneyInv'
  <2>1. CASE BeginCall(w) \/ Load(w) \/ Import(w) \/ Inspect(w)
    <3>1. UNCHANGED <<answer, paid, counted, dropped, unseen>> /\ answer[w] = None
      BY <2>1 DEF BeginCall, Load, Import, Inspect, history, MoneyInv
    <3>2. (\E place : Goto(w, place)) \/ UNCHANGED pc
      BY <2>1 DEF BeginCall, Load, Import, Inspect
    <3>3. UNCHANGED pc => MoneyInv'
      BY <3>1 DEF MoneyInv, HeldInAll, Held
    <3> QED
      BY <1>2, <3>1, <3>2, <3>3, SameHeld
  <2>2. CASE ImportFails(w)
    BY <1>2, <2>2, FailKeepsMoney DEF ImportFails
  <2>3. CASE Send(w)
    <3>1. CASE \E e : Fail(w, e)
      BY <1>2, <2>3, <3>1, FailKeepsMoney DEF Send
    <3>2. CASE ~\E e : Fail(w, e)
      <4>1. PICK own \in IF model[w] \in Targets THEN {None, 0, 2} ELSE {None} :
              /\ answer' = [answer EXCEPT ![w] = CostOf(model[w], own)]
              /\ paid' = paid + Amount(CostOf(model[w], own))
        BY <2>3, <3>2 DEF Send
      <4>2. CostOf(model[w], own) \in Nat \cup {None}
        <5>1. model[w] \notin Targets => CardPrice[model[w]] \in Nat
          BY <1>2, CallExecutionAssumption DEF PlacesOK, Models
        <5> QED
          BY <5>1 DEF CostOf
      <4>3. pc[w] = "send" /\ Goto(w, "grade") /\ UNCHANGED <<counted, dropped, unseen>>
        BY <2>3, <3>2 DEF Send
      <4> QED
        BY <1>2, <4>1, <4>2, <4>3, AnswerKeepsMoney
    <3> QED
      BY <3>1, <3>2
  <2>4. CASE GradeByHook(w) \/ GradeByScorer(w) \/ GradeManually(w) \/ BuildJudgeFails(w)
             \/ AskJudge(w)
    <3>1. \/ \E verdict, hooked : Graded(w, verdict, hooked)
          \/ ScorerBreaks(w)
          \/ RaiseArenaError(w)
          \/ RaiseOther(w)
      BY <2>4 DEF GradeByHook, GradeByScorer, GradeManually, BuildJudgeFails, AskJudge
    <3> QED
      BY <1>2, <3>1, GradedKeepsMoney
  <2>5. CASE GradeByJudge(w) \/ EnterJudge(w) \/ BuildJudge(w)
    <3>1. UNCHANGED <<answer, paid, counted, dropped, unseen>>
      BY <2>5 DEF GradeByJudge, EnterJudge, BuildJudge, history
    <3>2. \E place \in {"judge", "ask", "build"} : Goto(w, place)
      BY <2>5 DEF GradeByJudge, EnterJudge, BuildJudge
    <3> QED
      BY <1>2, <3>1, <3>2, SameHeld
  <2> QED
    BY <1>2, <2>1, <2>2, <2>3, <2>4, <2>5 DEF Work
<1> QED
  BY <1>1, <1>2 DEF Next

\* Whoever's cost is unseen has a bare row.
BareInv == unseen # 0 => \E row \in rows : row.status = "broken" /\ row.cost = None

\* Rows are never removed, and RaiseOther, which alone adds to unseen, writes one.
LEMMA BareStep == ASSUME BareInv, [Next]_vars PROVE BareInv'
<1>1. CASE UNCHANGED vars
  BY <1>1 DEF vars, history, BareInv
<1>2. ASSUME NEW w \in Workers, RaiseOther(w) PROVE BareInv'
  <2> DEFINE bare == [status |-> "broken", score |-> None, passed |-> None,
                      hooked |-> FALSE, failures |-> <<>>, cost |-> None]
  <2>1. bare \in rows' /\ bare.status = "broken" /\ bare.cost = None
    BY <1>2 DEF RaiseOther
  <2> QED
    BY <2>1 DEF BareInv
<1>3. ASSUME rows \subseteq rows', unseen' = unseen PROVE BareInv'
  BY <1>3 DEF BareInv
<1>4. ASSUME NEW w \in Workers, Work(w), ~RaiseOther(w) PROVE rows \subseteq rows' /\ unseen' = unseen
  BY <1>4 DEF Work, BeginCall, Load, ImportFails, Import, Inspect, Send, Fail, GradeByHook,
     GradeByScorer, GradeManually, GradeByJudge, EnterJudge, BuildJudge, BuildJudgeFails,
     AskJudge, Graded, ScorerBreaks, ReturnRow, RaiseArenaError, history
<1> QED
  BY <1>1, <1>2, <1>3, <1>4 DEF Next

-----------------------------------------------------------------------------
(* The theorems *)

\* The parts together are inductive.
IInv == PlacesOK /\ JudgeInv /\ LoadInv /\ RetryInv /\ MoneyInv /\ BareInv

LEMMA IInvHolds == Spec => []IInv
<1>1. Init => IInv
  <2> SUFFICES ASSUME Init PROVE IInv
    OBVIOUS
  <2> USE DEF Init
  <2>1. PlacesOK
    <3>1. (CHOOSE m \in Models : TRUE) \in Models
      BY CallExecutionAssumption DEF Models
    <3> QED
      BY <3>1 DEF PlacesOK, Places
  <2>2. JudgeInv
    BY DEF JudgeInv
  <2>3. LoadInv
    BY DEF LoadInv
  <2>4. RetryInv
    BY CallExecutionAssumption DEF RetryInv
  <2>5. MoneyInv
    <3>1. \A w \in Workers : Held[w] = 0
      BY DEF Held, Amount
    <3>2. HeldInAll = 0
      BY <3>1, SumZero, CallExecutionAssumption DEF HeldInAll
    <3> QED
      BY <3>2 DEF MoneyInv
  <2>6. BareInv
    BY DEF BareInv
  <2> QED
    BY <2>1, <2>2, <2>3, <2>4, <2>5, <2>6 DEF IInv
<1>2. IInv /\ [Next]_vars => IInv'
  BY PlacesStep, JudgeStep, LoadStep, RetryStep, MoneyStep, BareStep DEF IInv
<1> QED
  BY <1>1, <1>2, PTL DEF Spec

\* However many workers come to a judge that is not there, one is built.
THEOREM OneJudgeIsBuilt == Spec => []OneJudge
<1>1. IInv => OneJudge
  BY DEF IInv, JudgeInv, OneJudge
<1> QED
  BY <1>1, IInvHolds, PTL

\* No rejected request is sent again, and only a rejection or the end of the
\* retries leaves a call without an answer.
THEOREM RejectionsAreFinal == Spec => []OnlyRejectionsAreFinal
<1>1. IInv => OnlyRejectionsAreFinal
  BY DEF IInv, RetryInv, OnlyRejectionsAreFinal
<1> QED
  BY <1>1, IInvHolds, PTL

\* However many workers there are and whatever the answers cost: what was paid
\* is in the rows, in answers that are still being graded, or went with one of the
\* two kinds of exception that leave ArenaRunner._execute: an ArenaError, which
\* ends the run, or another, whose call then has a bare row without a cost.
THEOREM EveryAnswerIsCounted == Spec => []PaidAnswersAreCounted
<1>1. IInv => PaidAnswersAreCounted
  BY DEF IInv, MoneyInv, BareInv, PaidAnswersAreCounted, HeldInAll, Held
<1> QED
  BY <1>1, IInvHolds, PTL

\* A target misses its arguments only while some worker is between the two
\* assignments of _load, for any number of workers and targets.
THEOREM StarvingNeedsARace == Spec => StarvedCallsNeedARace
<1>1. IInv /\ [Next]_vars => [starved' # starved => \E w \in Workers : pc[w] = "signature"]_vars
  <2> SUFFICES ASSUME IInv, [Next]_vars, starved' # starved
               PROVE  \E w \in Workers : pc[w] = "signature"
    OBVIOUS
  <2>1. PICK w \in Workers : Work(w)
    BY DEF Next, vars, history
  <2>2. Send(w)
    BY <2>1 DEF Work, BeginCall, Load, ImportFails, Import, Inspect, GradeByHook,
       GradeByScorer, GradeManually, GradeByJudge, EnterJudge, BuildJudge, BuildJudgeFails,
       AskJudge, Graded, ScorerBreaks, ReturnRow, RaiseArenaError, RaiseOther, history
  <2>3. pc[w] = "send" /\ model[w] \in Targets /\ ~accepts[model[w]]
    BY <2>2 DEF Send, Starving
  <2> QED
    BY <2>3 DEF IInv, LoadInv
<1> QED
  BY <1>1, IInvHolds, PTL DEF Spec, StarvedCallsNeedARace

-----------------------------------------------------------------------------
(* The limiter *)

\* A call that has an attempt to make has made MaxRetries at most.
AttemptInv ==
    \A t \in Threads :
        stage[t] \in {"slot", "requests", "tokens", "sending"} => attempt[t] <= MaxRetries

\* What was granted and what the bucket holds, together, are bounded while
\* the stretch lasts; what was granted is bounded for ever.
BucketBound(b) ==
    /\ granted[b] <= Capacity[b] + Rate[b] * age
    /\ age # Window => granted[b] + Level(b) <= Capacity[b] + Rate[b] * age

BucketInv == age # NotYet => \A b \in Buckets : BucketBound(b)

\* Nothing is counted before the stretch begins.
NothingYet == age = NotYet => \A b \in Buckets : granted[b] = 0

LimiterIInv == TypeOK /\ SlotsAreConserved /\ AttemptInv /\ BucketInv /\ NothingYet

USE RateAssumption

-----------------------------------------------------------------------------
(* Arithmetic *)

LEMMA LeastIsLower ==
    ASSUME NEW a \in Nat, NEW b \in Nat
    PROVE  /\ Least(a, b) \in Nat
           /\ Least(a, b) <= a
           /\ Least(a, b) <= b
           /\ Least(a, b) = a \/ Least(a, b) = b
    BY SMT DEF Least

LEMMA LevelType ==
    ASSUME TypeOK, NEW b \in Buckets
    PROVE  /\ Level(b) \in Nat
           /\ Level(b) <= Capacity[b]
           /\ Wanted(b) \in Nat
<1>1. tokens[b] \in Nat /\ idle[b] \in Nat /\ Rate[b] \in Nat /\ Capacity[b] \in Nat
      /\ Cost[b] \in Nat
    BY SMT DEF TypeOK
<1>2. tokens[b] + idle[b] * Rate[b] \in Nat
    BY <1>1, SMT
<1> QED
    BY <1>1, <1>2, LeastIsLower DEF Level, Wanted

\* A tick earns a bucket its rate, at most.
LEMMA TickEarnsTheRate ==
    ASSUME NEW c \in Nat, NEW k \in Nat, NEW i \in Nat, NEW r \in Nat, NEW m \in Nat
    PROVE  Least(c, k + Least(i + 1, m) * r) <= Least(c, k + i * r) + r
<1> DEFINE j == Least(i + 1, m)
<1>1. j \in Nat /\ j <= i + 1
    BY LeastIsLower
<1> HIDE DEF j
<1>2. j * r <= (i + 1) * r
  <2>1. PICK d \in Nat : i + 1 = j + d
    <3>1. (i + 1) - j \in Nat /\ i + 1 = j + ((i + 1) - j)
        BY <1>1, SMT
    <3> QED
        BY <3>1
  <2>2. (i + 1) * r = j * r + d * r /\ d * r \in Nat /\ j * r \in Nat
      BY <1>1, <2>1, SMT
  <2> QED
      BY <2>2, SMT
<1>3. (i + 1) * r = i * r + r /\ i * r \in Nat /\ j * r \in Nat
    BY <1>1, SMT
<1> DEFINE ir == i * r
           jr == j * r
<1>4. jr <= ir + r /\ ir \in Nat /\ jr \in Nat
    BY <1>2, <1>3, SMT
<1> HIDE DEF ir, jr
<1>5. Least(c, k + jr) <= Least(c, k + ir) + r
    BY <1>4, SMT DEF Least
<1> QED
    BY <1>5 DEF ir, jr, j

LEMMA BoundGrows ==
    ASSUME NEW r \in Nat, NEW a \in Nat
    PROVE  r * (a + 1) = r * a + r /\ r * a \in Nat
    BY SMT

-----------------------------------------------------------------------------
(* Slots *)

\* A worker that comes in or goes out changes the number inside by one.
LEMMA EnterInside ==
    ASSUME NEW S, IsFiniteSet(S), NEW t, t \notin S
    PROVE  Cardinality(S \cup {t}) = Cardinality(S) + 1 /\ Cardinality(S) \in Nat
    BY FS_AddElement, FS_CardinalityType

LEMMA LeaveInside ==
    ASSUME NEW S, IsFiniteSet(S), NEW t \in S
    PROVE  Cardinality(S \ {t}) = Cardinality(S) - 1 /\ Cardinality(S) \in Nat
    BY FS_RemoveElement, FS_CardinalityType

LEMMA InsideFinite == IsFiniteSet(Inside)
<1>1. Inside \subseteq Threads
    BY DEF Inside
<1> QED
    BY <1>1, FS_Subset

\* A step of one worker that keeps it inside, or outside, keeps the slots.
LEMMA SameInside ==
    ASSUME TypeOK, SlotsAreConserved, NEW t \in Threads, NEW s, slots' = slots,
           stage' = [stage EXCEPT ![t] = s],
           stage[t] \in {"requests", "tokens", "sending", "waiting"}
               <=> s \in {"requests", "tokens", "sending", "waiting"}
    PROVE  SlotsAreConserved'
<1>1. Inside' = Inside
    BY SMT DEF TypeOK, Inside
<1> QED
    BY <1>1 DEF SlotsAreConserved

\* A step that leaves the buckets and the counters alone keeps their bound.
LEMMA SameBuckets ==
    ASSUME BucketInv, UNCHANGED <<tokens, idle, granted, age>>
    PROVE  BucketInv'
    BY DEF BucketInv, BucketBound, Level

LEMMA StillNothing ==
    ASSUME NothingYet, UNCHANGED <<granted, age>>
    PROVE  NothingYet'
    BY DEF NothingYet

-----------------------------------------------------------------------------
(* One lemma per action *)

LEMMA InitLimiterIInv == LimiterInit => LimiterIInv
<1> SUFFICES ASSUME LimiterInit PROVE LimiterIInv
    OBVIOUS
<1>1. TypeOK
    BY SMT DEF LimiterInit, TypeOK, Buckets
<1>2. SlotsAreConserved
  <2>1. Inside = {}
      BY SMT DEF LimiterInit, Inside
  <2>2. Cardinality(Inside) = 0
      BY <2>1, FS_EmptySet
  <2> QED
      BY <2>2, SMT DEF LimiterInit, SlotsAreConserved
<1>3. AttemptInv /\ BucketInv /\ NothingYet
    BY SMT DEF LimiterInit, AttemptInv, BucketInv, NothingYet
<1> QED
    BY <1>1, <1>2, <1>3 DEF LimiterIInv

LEMMA StartCallIInv ==
    ASSUME LimiterIInv, NEW t \in Threads, StartCall(t)
    PROVE  LimiterIInv'
<1>1. TypeOK'
    BY SMT DEF LimiterIInv, StartCall, TypeOK, bucketVars, counters
<1>2. SlotsAreConserved'
    BY SameInside DEF LimiterIInv, StartCall
<1>3. AttemptInv'
    BY SMT DEF LimiterIInv, StartCall, TypeOK, AttemptInv
<1>4. BucketInv'
    BY SameBuckets DEF LimiterIInv, StartCall, bucketVars, counters
<1>5. NothingYet'
    BY StillNothing DEF LimiterIInv, StartCall, bucketVars, counters
<1> QED
    BY <1>1, <1>2, <1>3, <1>4, <1>5 DEF LimiterIInv

LEMMA TakeSlotIInv ==
    ASSUME LimiterIInv, NEW t \in Threads, TakeSlot(t)
    PROVE  LimiterIInv'
<1>1. TypeOK'
    BY SMT DEF LimiterIInv, TakeSlot, TypeOK, bucketVars, counters
<1>2. SlotsAreConserved'
  <2>1. Inside' = Inside \cup {t} /\ t \notin Inside
      BY SMT DEF LimiterIInv, TakeSlot, TypeOK, Inside
  <2>2. Cardinality(Inside') = Cardinality(Inside) + 1 /\ Cardinality(Inside) \in Nat
      BY <2>1, InsideFinite, EnterInside
  <2>3. slots' = slots - 1 /\ slots \in Nat
      BY SMT DEF LimiterIInv, TypeOK, TakeSlot
  <2> QED
      BY <2>2, <2>3, SMT DEF LimiterIInv, SlotsAreConserved
<1>3. AttemptInv'
    BY SMT DEF LimiterIInv, TakeSlot, TypeOK, AttemptInv
<1>4. BucketInv'
    BY SameBuckets DEF LimiterIInv, TakeSlot, bucketVars, counters
<1>5. NothingYet'
    BY StillNothing DEF LimiterIInv, TakeSlot, bucketVars, counters
<1> QED
    BY <1>1, <1>2, <1>3, <1>4, <1>5 DEF LimiterIInv

LEMMA TakeIInv ==
    ASSUME LimiterIInv, NEW t \in Threads, NEW b \in Buckets, Take(t, b)
    PROVE  LimiterIInv'
<1>1. /\ Level(b) \in Nat /\ Wanted(b) \in Nat /\ Level(b) >= Wanted(b)
      /\ Level(b) <= Capacity[b]
    BY LevelType DEF LimiterIInv, Take
<1>2. Level(b) - Wanted(b) \in Nat /\ Level(b) - Wanted(b) <= Capacity[b]
    BY <1>1, SMT
<1> DEFINE rest == Level(b) - Wanted(b)
<1>3. /\ tokens' = [tokens EXCEPT ![b] = rest]
      /\ idle' = [idle EXCEPT ![b] = 0]
      /\ granted' = IF Counting THEN [granted EXCEPT ![b] = @ + Wanted(b)] ELSE granted
      /\ stage' = [stage EXCEPT ![t] = AfterBucket(b)]
      /\ entered' \in {entered, entered + 1}
      /\ UNCHANGED <<slots, attempt, calls, age, sent>>
    BY DEF Take
<1>4. b \in {"requests", "tokens"} /\ stage[t] = b /\ AfterBucket(b) \in {"tokens", "sending"}
    BY DEF Take, Buckets, AfterBucket
<1> HIDE DEF rest
<1>5. TypeOK'
  <2>1. tokens' \in [Buckets -> Nat] /\ \A c \in Buckets : tokens'[c] <= Capacity[c]
      BY <1>2, <1>3, SMT DEF LimiterIInv, TypeOK, rest
  <2>2. idle' \in [Buckets -> 0..MaxIdle]
      BY <1>3, SMT DEF LimiterIInv, TypeOK
  <2>3. granted' \in [Buckets -> Nat]
      BY <1>1, <1>3, SMT DEF LimiterIInv, TypeOK
  <2>4. stage' \in [Threads -> {"idle", "slot", "requests", "tokens", "sending", "waiting"}]
      BY <1>3, <1>4, SMT DEF LimiterIInv, TypeOK
  <2>5. entered' \in Nat
      BY <1>3, SMT DEF LimiterIInv, TypeOK
  <2> QED
      BY <1>3, <2>1, <2>2, <2>3, <2>4, <2>5 DEF LimiterIInv, TypeOK
<1>6. SlotsAreConserved'
    BY <1>3, <1>4, SameInside DEF LimiterIInv
<1>7. AttemptInv'
    BY <1>3, <1>4, SMT DEF LimiterIInv, TypeOK, AttemptInv
<1>8. BucketInv'
  <2> SUFFICES ASSUME age # NotYet, NEW c \in Buckets PROVE BucketBound(c)'
      BY <1>3 DEF BucketInv
  <2>1. BucketBound(c)
      BY DEF LimiterIInv, BucketInv
  <2>2. CASE c # b
    <3>1. granted'[c] = granted[c] /\ tokens'[c] = tokens[c] /\ idle'[c] = idle[c] /\ age' = age
        BY <1>3, <2>2, SMT DEF LimiterIInv, TypeOK
    <3> QED
        BY <2>1, <3>1 DEF BucketBound, Level
  <2>3. CASE c = b
    <3>1. tokens'[b] = rest /\ idle'[b] = 0 /\ age' = age
        BY <1>3, SMT DEF LimiterIInv, TypeOK
    <3>2. Level(b)' = rest
      <4>1. rest + 0 * Rate[b] = rest /\ rest <= Capacity[b] /\ rest \in Nat /\ Capacity[b] \in Nat
          BY <1>2, SMT DEF rest
      <4>2. Level(b)' = Least(Capacity[b], rest + 0 * Rate[b])
          BY <3>1 DEF Level
      <4> HIDE DEF rest
      <4>3. Least(Capacity[b], rest) = rest
          BY <4>1, SMT DEF Least
      <4> QED
          BY <4>1, <4>2, <4>3
    <3>3. granted'[b] = IF Counting THEN granted[b] + Wanted(b) ELSE granted[b]
        BY <1>3, SMT DEF LimiterIInv, TypeOK
    <3>4. granted[b] \in Nat
        BY SMT DEF LimiterIInv, TypeOK
    <3>5. CASE Counting
      <4> DEFINE limit == Capacity[b] + Rate[b] * age
      <4>1. age \in Nat /\ limit \in Nat
          BY <3>5, SMT DEF Counting, LimiterIInv, TypeOK
      <4>2. granted[b] + Level(b) <= limit
          BY <2>1, <2>3, <3>5 DEF BucketBound, Counting
      <4> HIDE DEF limit
      <4>3. granted'[b] + Level(b)' <= limit /\ granted'[b] <= limit
          BY <1>1, <3>2, <3>3, <3>4, <3>5, <4>1, <4>2, SMT DEF rest
      <4> QED
          BY <2>3, <3>1, <4>3 DEF BucketBound, limit
    <3>6. CASE ~Counting
        BY <2>1, <2>3, <3>1, <3>3, <3>6 DEF BucketBound, Counting
    <3> QED
        BY <3>5, <3>6
  <2> QED
      BY <2>2, <2>3
<1>9. NothingYet'
    BY <1>3 DEF LimiterIInv, NothingYet, Counting
<1> QED
    BY <1>5, <1>6, <1>7, <1>8, <1>9 DEF LimiterIInv

LEMMA FallShortIInv ==
    ASSUME LimiterIInv, NEW t \in Threads, NEW b \in Buckets, FallShort(t, b)
    PROVE  LimiterIInv'
<1>1. Level(b) \in Nat /\ Level(b) <= Capacity[b]
    BY LevelType DEF LimiterIInv
<1> DEFINE level == Level(b)
<1>2. /\ tokens' = [tokens EXCEPT ![b] = level]
      /\ idle' = [idle EXCEPT ![b] = 0]
      /\ UNCHANGED <<stage, slots, attempt, calls, age, granted, entered, sent>>
    BY DEF FallShort, counters
<1> HIDE DEF level
<1>3. TypeOK'
    BY <1>1, <1>2, SMT DEF LimiterIInv, TypeOK, level
<1>4. SlotsAreConserved' /\ AttemptInv'
    BY <1>2 DEF LimiterIInv, SlotsAreConserved, Inside, AttemptInv
<1>5. BucketInv'
  <2> SUFFICES ASSUME NEW c \in Buckets PROVE Level(c)' = Level(c)
      BY <1>2 DEF LimiterIInv, BucketInv, BucketBound
  <2>1. CASE c # b
    <3>1. tokens'[c] = tokens[c] /\ idle'[c] = idle[c]
        BY <1>2, <2>1, SMT DEF LimiterIInv, TypeOK
    <3> QED
        BY <3>1 DEF Level
  <2>2. CASE c = b
    <3>1. tokens'[b] = level /\ idle'[b] = 0
        BY <1>2, SMT DEF LimiterIInv, TypeOK
    <3>2. level + 0 * Rate[b] = level /\ level <= Capacity[b] /\ level \in Nat /\ Capacity[b] \in Nat
        BY <1>1, SMT DEF level
    <3>3. Level(b)' = Least(Capacity[b], level + 0 * Rate[b])
        BY <3>1 DEF Level
    <3>4. Least(Capacity[b], level) = level
        <4> HIDE DEF level
        <4> QED
            BY <3>2 DEF Least
    <3> QED
        BY <2>2, <3>2, <3>3, <3>4 DEF level
  <2> QED
      BY <2>1, <2>2
<1>6. NothingYet'
    BY StillNothing DEF LimiterIInv, FallShort, bucketVars, counters
<1> QED
    BY <1>3, <1>4, <1>5, <1>6 DEF LimiterIInv

LEMMA SendIInv ==
    ASSUME LimiterIInv, NEW t \in Threads, SendRequest(t)
    PROVE  LimiterIInv'
<1>1. attempt[t] <= MaxRetries
    BY DEF LimiterIInv, AttemptInv, SendRequest
<1>2. TypeOK'
    BY <1>1, SMT DEF LimiterIInv, SendRequest, TypeOK, bucketVars
<1>3. SlotsAreConserved'
    BY SameInside DEF LimiterIInv, SendRequest
<1>4. AttemptInv'
    BY SMT DEF LimiterIInv, SendRequest, TypeOK, AttemptInv
<1>5. BucketInv'
    BY SameBuckets DEF LimiterIInv, SendRequest, bucketVars
<1>6. NothingYet'
    BY StillNothing DEF LimiterIInv, SendRequest, bucketVars, counters
<1> QED
    BY <1>2, <1>3, <1>4, <1>5, <1>6 DEF LimiterIInv

LEMMA LeaveIInv ==
    ASSUME LimiterIInv, NEW t \in Threads, Leave(t)
    PROVE  LimiterIInv'
<1>1. slots' = slots + 1 /\ slots \in Nat /\ stage' = [stage EXCEPT ![t] = "idle"] /\ stage[t] = "waiting"
    BY SMT DEF LimiterIInv, TypeOK, Leave
<1>2. Inside' = Inside \ {t} /\ t \in Inside
    BY <1>1, SMT DEF LimiterIInv, TypeOK, Inside
<1>3. Cardinality(Inside') = Cardinality(Inside) - 1 /\ Cardinality(Inside) \in Nat
    BY <1>2, InsideFinite, LeaveInside
<1>4. Cardinality(Inside') \in Nat
    BY <1>2, InsideFinite, FS_Subset, FS_CardinalityType
<1>5. SlotsAreConserved' /\ slots' \in 0..Slots
    BY <1>1, <1>3, <1>4, SMT DEF LimiterIInv, SlotsAreConserved
<1>6. TypeOK'
    BY <1>1, <1>5, SMT DEF LimiterIInv, Leave, TypeOK, bucketVars, counters
<1>7. AttemptInv'
    BY SMT DEF LimiterIInv, Leave, TypeOK, AttemptInv
<1>8. BucketInv'
    BY SameBuckets DEF LimiterIInv, Leave, bucketVars, counters
<1>9. NothingYet'
    BY StillNothing DEF LimiterIInv, Leave, bucketVars, counters
<1> QED
    BY <1>5, <1>6, <1>7, <1>8, <1>9 DEF LimiterIInv

LEMMA RetryIInv ==
    ASSUME LimiterIInv, NEW t \in Threads, Retry(t)
    PROVE  LimiterIInv'
<1>1. TypeOK'
    BY SMT DEF LimiterIInv, Retry, TypeOK, bucketVars, counters
<1>2. SlotsAreConserved'
    BY SameInside DEF LimiterIInv, Retry
<1>3. AttemptInv'
    BY SMT DEF LimiterIInv, Retry, TypeOK, AttemptInv
<1>4. BucketInv'
    BY SameBuckets DEF LimiterIInv, Retry, bucketVars, counters
<1>5. NothingYet'
    BY StillNothing DEF LimiterIInv, Retry, bucketVars, counters
<1> QED
    BY <1>1, <1>2, <1>3, <1>4, <1>5 DEF LimiterIInv

LEMMA TickIInv == LimiterIInv /\ Tick => LimiterIInv'
<1> SUFFICES ASSUME LimiterIInv, Tick PROVE LimiterIInv'
    OBVIOUS
<1>1. /\ idle' = [b \in Buckets |-> Least(idle[b] + 1, MaxIdle)]
      /\ age' = IF Counting THEN age + 1 ELSE age
      /\ UNCHANGED <<stage, slots, tokens, attempt, calls, granted, entered, sent>>
    BY DEF Tick
<1>2. TypeOK'
  <2>1. ASSUME NEW b \in Buckets PROVE Least(idle[b] + 1, MaxIdle) \in 0..MaxIdle
    <3>1. idle[b] + 1 \in Nat
        BY SMT DEF LimiterIInv, TypeOK
    <3> QED
        BY <3>1, SMT DEF Least
  <2>2. idle' \in [Buckets -> 0..MaxIdle]
      BY <1>1, <2>1
  <2>3. age' \in 0..Window \cup {NotYet}
      BY <1>1, SMT DEF LimiterIInv, TypeOK, Counting
  <2> QED
      BY <1>1, <2>2, <2>3 DEF LimiterIInv, TypeOK
<1>3. SlotsAreConserved' /\ AttemptInv'
    BY <1>1 DEF LimiterIInv, SlotsAreConserved, Inside, AttemptInv
<1>4. BucketInv'
  <2>1. CASE ~Counting
      BY <1>1, <2>1 DEF LimiterIInv, BucketInv, BucketBound, Counting
  <2>2. CASE Counting
    <3> SUFFICES ASSUME NEW b \in Buckets PROVE BucketBound(b)'
        BY DEF BucketInv
    <3>1. /\ age \in Nat /\ age' = age + 1 /\ granted[b] \in Nat /\ granted' = granted
          /\ Capacity[b] \in Nat /\ Rate[b] \in Nat /\ tokens[b] \in Nat /\ idle[b] \in Nat
        BY <1>1, <2>2, SMT DEF Counting, LimiterIInv, TypeOK
    <3>2. Level(b)' <= Level(b) + Rate[b]
      <4>1. idle'[b] = Least(idle[b] + 1, MaxIdle) /\ tokens' = tokens
          BY <1>1
      <4> QED
          BY <3>1, <4>1, TickEarnsTheRate DEF Level
    <3>3. granted[b] + Level(b) <= Capacity[b] + Rate[b] * age
        BY <2>2 DEF LimiterIInv, BucketInv, BucketBound, Counting
    <3>4. Rate[b] * (age + 1) = Rate[b] * age + Rate[b] /\ Rate[b] * age \in Nat
        BY <3>1, BoundGrows
    <3>5. Level(b) \in Nat /\ Level(b)' \in Nat
      <4>1. Level(b) \in Nat
          BY LevelType DEF LimiterIInv
      <4>2. tokens'[b] \in Nat /\ idle'[b] \in Nat
          BY <1>2, SMT DEF TypeOK
      <4>3. tokens'[b] + idle'[b] * Rate[b] \in Nat
          BY <3>1, <4>2, SMT
      <4>4. Level(b)' \in Nat
          BY <3>1, <4>3, LeastIsLower DEF Level
      <4> QED
          BY <4>1, <4>4
    <3> DEFINE earned == Rate[b] * age
               later == Rate[b] * age'
               r == Rate[b]
               full == Capacity[b]
    <3>6. later = earned + r /\ earned \in Nat /\ r \in Nat /\ full \in Nat
        BY <3>1, <3>4
    <3>7. granted[b] + Level(b) <= full + earned /\ Level(b)' <= Level(b) + r
        BY <3>2, <3>3
    <3> HIDE DEF earned, later, r, full
    <3>8. granted[b] + Level(b)' <= full + later /\ granted[b] <= full + later
        BY <3>1, <3>5, <3>6, <3>7, SMT
    <3> QED
        BY <3>1, <3>8 DEF BucketBound, later, full
  <2> QED
      BY <2>1, <2>2
<1>5. NothingYet'
    BY <1>1, SMT DEF LimiterIInv, TypeOK, NothingYet, Counting
<1> QED
    BY <1>2, <1>3, <1>4, <1>5 DEF LimiterIInv

LEMMA BeginWindowIInv == LimiterIInv /\ BeginWindow => LimiterIInv'
<1> SUFFICES ASSUME LimiterIInv, BeginWindow PROVE LimiterIInv'
    OBVIOUS
<1>1. age = NotYet /\ age' = 0
      /\ UNCHANGED <<stage, slots, tokens, idle, attempt, calls, granted, entered, sent>>
    BY DEF BeginWindow, bucketVars
<1>2. TypeOK'
    BY <1>1, SMT DEF LimiterIInv, TypeOK
<1>3. SlotsAreConserved' /\ AttemptInv'
    BY <1>1 DEF LimiterIInv, SlotsAreConserved, Inside, AttemptInv
<1>4. BucketInv'
  <2>1. ASSUME NEW b \in Buckets PROVE BucketBound(b)'
    <3>1. granted[b] = 0
        BY <1>1 DEF LimiterIInv, NothingYet
    <3>2. Level(b) \in Nat /\ Level(b) <= Capacity[b] /\ Capacity[b] \in Nat
        BY LevelType DEF LimiterIInv
    <3>3. Rate[b] * 0 = 0
        BY SMT
    <3>4. Level(b)' = Level(b) /\ granted'[b] = 0 /\ Rate[b] * age' = 0
        BY <1>1, <3>1, <3>3 DEF Level
    <3> QED
        BY <3>2, <3>4, SMT DEF BucketBound
  <2> QED
      BY <2>1 DEF BucketInv
<1>5. NothingYet'
    BY <1>1 DEF NothingYet
<1> QED
    BY <1>2, <1>3, <1>4, <1>5 DEF LimiterIInv

LEMMA Invariance == LimiterSpec => []LimiterIInv
<1>1. LimiterIInv /\ UNCHANGED limiterVars => LimiterIInv'
  <2> SUFFICES ASSUME LimiterIInv, UNCHANGED limiterVars PROVE LimiterIInv'
      OBVIOUS
  <2>1. UNCHANGED <<stage, slots, tokens, idle, attempt, calls, age, granted, entered, sent>>
      BY DEF limiterVars, bucketVars, counters
  <2>2. TypeOK'
      BY <2>1 DEF LimiterIInv, TypeOK
  <2>3. SlotsAreConserved' /\ AttemptInv' /\ NothingYet'
      BY <2>1 DEF LimiterIInv, SlotsAreConserved, Inside, AttemptInv, NothingYet
  <2>4. BucketInv'
      BY <2>1, SameBuckets DEF LimiterIInv
  <2> QED
      BY <2>2, <2>3, <2>4 DEF LimiterIInv
<1>2. LimiterIInv /\ [LimiterNext]_limiterVars => LimiterIInv'
    BY <1>1, StartCallIInv, TakeSlotIInv, TakeIInv, FallShortIInv, SendIInv, LeaveIInv,
       RetryIInv, TickIInv, BeginWindowIInv DEF LimiterNext, Worker
<1> QED
    BY InitLimiterIInv, <1>2, PTL DEF LimiterSpec

-----------------------------------------------------------------------------
(* What the provider may still see *)

\* A call past its buckets may make the attempts that it has left.
Owed == [t \in Threads |->
           IF stage[t] \in {"sending", "waiting"} THEN MaxRetries + 1 - attempt[t] ELSE 0]
OwedInAll == SumFunctionOnSet(Owed, Threads)

Bound == (MaxRetries + 1) * (entered + Slots)

\* While requests are counted, those sent and those still owed stay within the
\* bound; before, none is counted, and afterwards none any more.
RequestInv ==
    /\ age = NotYet => sent = 0
    /\ Counting => sent + OwedInAll <= Bound
    /\ sent <= Bound

OwedTypeOK ==
    /\ \A t \in Threads : Owed[t] \in 0..(MaxRetries + 1)
    /\ OwedInAll \in Nat
    /\ Bound \in Nat

LEMMA OwedType == TypeOK => OwedTypeOK
<1> SUFFICES ASSUME TypeOK PROVE OwedTypeOK
    OBVIOUS
<1>1. \A t \in Threads : Owed[t] \in 0..(MaxRetries + 1)
    BY SMT DEF TypeOK, Owed
<1>2. \A t \in Threads : Owed[t] \in Nat
    BY <1>1
<1> HIDE DEF Owed
<1>3. OwedInAll \in Nat
    BY <1>2, SumType DEF OwedInAll
<1>4. Bound \in Nat
    BY SMT DEF TypeOK, Bound
<1> QED
    BY <1>1, <1>3, <1>4 DEF OwedTypeOK

LEMMA OwedTypeNext == TypeOK' => OwedTypeOK'
    BY OwedType, PTL

\* A step of one worker changes what is owed in all by what it changes there.
LEMMA OwedChanges ==
    ASSUME TypeOK, TypeOK', NEW t \in Threads,
           \A u \in Threads : u # t => stage'[u] = stage[u] /\ attempt'[u] = attempt[u]
    PROVE  OwedInAll' + Owed[t] = OwedInAll + Owed'[t]
<1>1. \A u \in Threads : u # t => Owed[u] = Owed'[u]
    BY DEF Owed
<1>2. \A u \in Threads : Owed[u] \in Nat /\ Owed'[u] \in Nat
    BY OwedType, OwedTypeNext DEF OwedTypeOK
<1> HIDE DEF Owed
<1> QED
    BY <1>1, <1>2, SumChange DEF OwedInAll

\* A step that adds nothing to what is sent and owed.
LEMMA NothingMoreOwed ==
    ASSUME TypeOK, TypeOK', RequestInv, NEW t \in Threads,
           \A u \in Threads : u # t => stage'[u] = stage[u] /\ attempt'[u] = attempt[u],
           UNCHANGED <<age, entered, sent>>, Owed'[t] <= Owed[t]
    PROVE  RequestInv'
<1>1. OwedInAll' + Owed[t] = OwedInAll + Owed'[t]
    BY OwedChanges
<1>2. OwedInAll \in Nat /\ Owed[t] \in Nat /\ Bound \in Nat
    BY OwedType DEF OwedTypeOK
<1>3. OwedInAll' \in Nat /\ Owed'[t] \in Nat
    BY OwedTypeNext DEF OwedTypeOK
<1>4. OwedInAll' <= OwedInAll
    BY <1>1, <1>2, <1>3, SMT
<1>5. Bound' = Bound /\ sent \in Nat /\ sent' = sent
    BY DEF Bound, TypeOK
<1>6. Counting' = Counting
    BY DEF Counting
<1>7. sent \in Nat
    BY DEF TypeOK
<1>8. sent + OwedInAll <= Bound => sent + OwedInAll' <= Bound
  <2>1. \A few, many, seen, bound \in Nat :
           few <= many /\ seen + many <= bound => seen + few <= bound
    OBVIOUS
  <2> QED
    BY <1>2, <1>3, <1>4, <1>7, <2>1
<1> QED
    BY <1>5, <1>6, <1>8 DEF RequestInv

\* What one step of a worker does to what it owes.
LEMMA SendOwesLess ==
    ASSUME LimiterIInv, NEW t \in Threads, SendRequest(t)
    PROVE  /\ Owed'[t] = Owed[t] - 1
           /\ \A u \in Threads : u # t => stage'[u] = stage[u] /\ attempt'[u] = attempt[u]
<1>1. attempt[t] \in Nat /\ attempt'[t] = attempt[t] + 1 /\ stage[t] = "sending"
      /\ stage'[t] = "waiting"
    BY SMT DEF LimiterIInv, TypeOK, SendRequest
<1>2. Owed[t] = MaxRetries + 1 - attempt[t] /\ Owed'[t] = MaxRetries + 1 - attempt'[t]
    BY <1>1 DEF Owed
<1>3. Owed'[t] = Owed[t] - 1
    BY <1>1, <1>2, SMT
<1> QED
    BY <1>3 DEF LimiterIInv, TypeOK, SendRequest

LEMMA SendBounded ==
    ASSUME LimiterIInv, LimiterIInv', RequestInv, NEW t \in Threads, SendRequest(t)
    PROVE  RequestInv'
<1>1. OwedInAll' + Owed[t] = OwedInAll + Owed'[t]
    BY OwedChanges, SendOwesLess DEF LimiterIInv
<1>2. OwedInAll \in Nat /\ OwedInAll' \in Nat /\ Owed[t] \in Nat /\ Bound \in Nat /\ sent \in Nat
    BY OwedType, OwedTypeNext DEF OwedTypeOK, LimiterIInv, TypeOK
<1>3. Owed'[t] = Owed[t] - 1
    BY SendOwesLess
<1>4. OwedInAll' = OwedInAll - 1
  <2>1. \A new, was, due, left \in Nat :
           new + due = was + left /\ left = due - 1 => new = was - 1
    OBVIOUS
  <2>2. Owed'[t] \in Nat
    BY OwedTypeNext DEF OwedTypeOK, LimiterIInv
  <2> QED
    BY <1>1, <1>2, <1>3, <2>1, <2>2
<1>5. Bound' = Bound /\ Counting' = Counting /\ age' = age
    BY DEF SendRequest, Bound, Counting
<1>6. CASE Counting
  <2>1. sent' = sent + 1
      BY <1>6 DEF SendRequest
  <2>2. sent + OwedInAll <= Bound
      BY <1>6 DEF RequestInv
  <2>3. (sent + 1) + (OwedInAll - 1) <= Bound /\ sent + 1 <= Bound
      BY <1>2, <1>4, <2>2, SMT
  <2> QED
      BY <1>4, <1>5, <1>6, <2>1, <2>3 DEF RequestInv, Counting
<1>7. CASE ~Counting
  <2>1. sent' = sent
      BY <1>7 DEF SendRequest
  <2> QED
      BY <1>5, <1>7, <2>1 DEF RequestInv
<1> QED
    BY <1>6, <1>7

\* A call that gets its tokens is counted, and owes what one call may send.
LEMMA TakeBounded ==
    ASSUME LimiterIInv, LimiterIInv', RequestInv, NEW t \in Threads, NEW b \in Buckets, Take(t, b)
    PROVE  RequestInv'
<1>1. \A u \in Threads : u # t => stage'[u] = stage[u] /\ attempt'[u] = attempt[u]
    BY DEF LimiterIInv, TypeOK, Take
<1>2. stage[t] = b /\ stage'[t] = AfterBucket(b) /\ UNCHANGED <<age, sent>> /\ Counting' = Counting
    BY DEF LimiterIInv, TypeOK, Take, Counting
<1>3. Owed[t] = 0 /\ Owed'[t] \in 0..(MaxRetries + 1)
    BY <1>2, OwedTypeNext DEF Owed, Buckets, OwedTypeOK, LimiterIInv
<1>4. OwedInAll \in Nat /\ OwedInAll' \in Nat /\ Bound \in Nat /\ Bound' \in Nat /\ sent \in Nat
    BY OwedType, OwedTypeNext DEF OwedTypeOK, LimiterIInv, TypeOK
<1>5. OwedInAll' = OwedInAll + Owed'[t]
  <2>1. OwedInAll' + Owed[t] = OwedInAll + Owed'[t]
      BY <1>1, OwedChanges DEF LimiterIInv
  <2> QED
      BY <1>3, <1>4, <2>1, SMT
<1>6. CASE Counting /\ b = "tokens"
  <2>1. entered' = entered + 1 /\ entered + Slots \in Nat /\ entered' + Slots = (entered + Slots) + 1
    <3>1. entered' = entered + 1 /\ entered \in Nat
        BY <1>6 DEF Take, LimiterIInv, TypeOK
    <3> QED
        BY <3>1, SMT
  <2>2. MaxRetries + 1 \in Nat
      BY SMT
  <2>3. Bound' = Bound + (MaxRetries + 1)
      BY <2>1, <2>2, BoundGrows DEF Bound
  <2>4. sent + OwedInAll <= Bound
      BY <1>6 DEF RequestInv
  <2> DEFINE more == Owed'[t]
             later == Bound'
  <2>5. more \in 0..(MaxRetries + 1) /\ later \in Nat /\ later = Bound + (MaxRetries + 1)
      BY <1>3, <1>4, <2>3
  <2> HIDE DEF more, later
  <2>6. sent + (OwedInAll + more) <= later /\ sent <= later
      BY <1>4, <2>4, <2>5, SMT
  <2> QED
      BY <1>2, <1>5, <1>6, <2>6 DEF RequestInv, Counting, more, later
<1>7. CASE ~(Counting /\ b = "tokens")
  <2>1. entered' = entered /\ Bound' = Bound
      BY <1>7 DEF Take, Bound
  <2>2. b = "requests" => Owed'[t] = 0
      BY <1>2 DEF Owed, AfterBucket
  <2>3. Counting => OwedInAll' = OwedInAll
    <3>1. Counting => b = "requests"
        BY <1>7 DEF Buckets
    <3> QED
        BY <1>4, <1>5, <2>2, <3>1, SMT
  <2> QED
      BY <1>2, <2>1, <2>3 DEF RequestInv
<1> QED
    BY <1>6, <1>7

\* When counting begins, each call inside owes MaxRetries + 1 requests at most, and
\* there are no more of them than slots.
LEMMA BeginWindowBounded ==
    ASSUME LimiterIInv, RequestInv, BeginWindow
    PROVE  RequestInv'
<1>1. age = NotYet /\ age' = 0 /\ UNCHANGED <<stage, attempt, slots, entered, sent>>
    BY DEF BeginWindow
<1>2. sent = 0 /\ OwedInAll' = OwedInAll /\ Bound' = Bound
    BY <1>1 DEF RequestInv, OwedInAll, Owed, Bound
<1>3. MaxRetries + 1 \in Nat /\ Inside \in SUBSET Threads
    BY SMT DEF Inside
<1>4. \A t \in Threads : Owed[t] \in 0..(MaxRetries + 1) /\ (t \notin Inside => Owed[t] = 0)
    BY OwedType DEF OwedTypeOK, LimiterIInv, Owed, Inside
<1>5. OwedInAll <= Cardinality(Inside) * (MaxRetries + 1)
  <2> HIDE DEF Owed, Inside
  <2> QED
      BY <1>3, <1>4, SumBound DEF OwedInAll
<1>6. Cardinality(Inside) \in Nat /\ slots \in Nat /\ slots + Cardinality(Inside) = Slots
    BY InsideFinite, FS_CardinalityType DEF LimiterIInv, TypeOK, SlotsAreConserved
<1> DEFINE n == Cardinality(Inside)
           r == MaxRetries + 1
<1>7. n \in Nat /\ slots \in Nat /\ slots + n = Slots /\ r \in Nat /\ entered \in Nat
    BY <1>3, <1>6 DEF LimiterIInv, TypeOK
<1> HIDE DEF n, r
<1>8. n * r <= r * (entered + Slots)
  <2>1. r * (entered + Slots) = n * r + r * (entered + slots)
      BY <1>7, SMT
  <2>2. r * (entered + slots) \in Nat /\ n * r \in Nat
      BY <1>7, SMT
  <2> QED
      BY <2>1, <2>2, SMT
<1>9. n * r \in Nat /\ OwedInAll \in Nat /\ Bound \in Nat
    BY <1>7, OwedType, SMT DEF OwedTypeOK, LimiterIInv
<1>10. 0 + OwedInAll <= Bound /\ 0 <= Bound
  <2>1. OwedInAll <= n * r /\ n * r <= Bound
      BY <1>5, <1>8 DEF n, r, Bound
  <2> QED
      BY <1>9, <2>1, SMT
<1>11. NotYet # 0
    OBVIOUS
<1> QED
    BY <1>1, <1>2, <1>10, <1>11 DEF RequestInv

\* Time, and a bucket that falls short, change nothing but when counting ends.
LEMMA StillBounded ==
    ASSUME RequestInv, UNCHANGED <<stage, attempt, entered, sent>>,
           Counting' => Counting, age' = NotYet => age = NotYet
    PROVE  RequestInv'
<1>1. OwedInAll' = OwedInAll /\ Bound' = Bound
    BY DEF OwedInAll, Owed, Bound
<1> QED
    BY <1>1 DEF RequestInv

LEMMA RequestStep == LimiterIInv /\ LimiterIInv' /\ RequestInv /\ [LimiterNext]_limiterVars => RequestInv'
<1> SUFFICES ASSUME LimiterIInv, LimiterIInv', RequestInv, [LimiterNext]_limiterVars PROVE RequestInv'
    OBVIOUS
<1>1. ASSUME NEW t \in Threads, StartCall(t) \/ TakeSlot(t) \/ Leave(t) \/ Retry(t)
      PROVE  RequestInv'
  <2>1. \A u \in Threads : u # t => stage'[u] = stage[u] /\ attempt'[u] = attempt[u]
      BY <1>1 DEF LimiterIInv, TypeOK, StartCall, TakeSlot, Leave, Retry
  <2>2. UNCHANGED <<age, entered, sent>>
      BY <1>1 DEF StartCall, TakeSlot, Leave, Retry, counters
  <2>3. \/ stage'[t] \notin {"sending", "waiting"}
        \/ stage[t] \in {"sending", "waiting"} /\ attempt'[t] = attempt[t]
      BY <1>1 DEF LimiterIInv, TypeOK, StartCall, TakeSlot, Leave, Retry
  <2>4. Owed[t] \in Nat /\ Owed'[t] \in Nat /\ (Owed'[t] = 0 \/ Owed'[t] = Owed[t])
      BY <2>3, OwedType, OwedTypeNext DEF OwedTypeOK, LimiterIInv, Owed
  <2>5. Owed'[t] <= Owed[t]
      BY <2>4, SMT
  <2> QED
      BY <1>1, <2>1, <2>2, <2>5, NothingMoreOwed DEF LimiterIInv
<1>2. ASSUME NEW t \in Threads, NEW b \in Buckets, FallShort(t, b) PROVE RequestInv'
    BY <1>2, StillBounded DEF FallShort, counters, Counting
<1>3. CASE Tick
    BY <1>3, StillBounded DEF Tick, Counting, LimiterIInv, TypeOK
<1>4. CASE UNCHANGED limiterVars
    BY <1>4, StillBounded DEF limiterVars, counters, Counting
<1> QED
    BY <1>1, <1>2, <1>3, <1>4, TakeBounded, SendBounded, BeginWindowBounded DEF LimiterNext, Worker

-----------------------------------------------------------------------------
(* The theorems *)

\* The limiter's state keeps its shape: no bucket holds more than its
\* capacity, no slot appears, no call makes more than MaxRetries + 1 attempts.
THEOREM LimiterTypeCorrect == LimiterSpec => []TypeOK
<1>1. LimiterIInv => TypeOK
    BY DEF LimiterIInv
<1> QED
    BY <1>1, Invariance, PTL

\* __enter__ and __exit__ are balanced: the declared concurrency is never
\* exceeded and never shrinks.
THEOREM SlotsConserved == LimiterSpec => []SlotsAreConserved
<1>1. LimiterIInv => SlotsAreConserved
    BY DEF LimiterIInv
<1> QED
    BY <1>1, Invariance, PTL

\* TokenBucket keeps its promise over every stretch of time, for any number
\* of threads polling it.
THEOREM BucketPromise == LimiterSpec => []GrantsWithinBucket
<1>1. LimiterIInv => GrantsWithinBucket
    BY DEF LimiterIInv, BucketInv, BucketBound, GrantsWithinBucket
<1> QED
    BY <1>1, Invariance, PTL

\* However many threads, slots and retries there are: what the provider sees in
\* any stretch of time is MaxRetries + 1 requests at most for each call let through
\* and for each slot (_generate_with_retries inside `with limiter`).
THEOREM RequestsBounded == LimiterSpec => []RequestsAreBounded
<1>1. LimiterInit => RequestInv
  <2> SUFFICES ASSUME LimiterInit PROVE RequestInv
      OBVIOUS
  <2>1. TypeOK
      BY InitLimiterIInv DEF LimiterIInv
  <2>2. age = NotYet /\ sent = 0 /\ Bound \in Nat
      BY <2>1, OwedType DEF LimiterInit, OwedTypeOK
  <2> QED
      BY <2>2, SMT DEF RequestInv, Counting
<1>2. RequestInv => RequestsAreBounded
    BY DEF RequestInv, RequestsAreBounded, Bound
<1> QED
    BY <1>1, <1>2, Invariance, RequestStep, PTL DEF LimiterSpec
=============================================================================
