----------------------------- MODULE RunProofs ------------------------------
(***************************************************************************)
(* A run, as its process evaluates it (ArenaRunner) and as the web service *)
(* starts and cancels it in a thread (JobManager).                         *)
(*                                                                         *)
(* Of the process, for every sweep, every concurrency, every budget and    *)
(* any number of restarts: a cell has one success at most, what was paid   *)
(* for is kept and not paid again, a stop starves the pool, and the        *)
(* process implements the ledger of module RunLedger.                      *)
(*                                                                         *)
(* Of the jobs, for every number of clients, projects and jobs, and every  *)
(* cap: a live job is always reachable, the index always answers a click   *)
(* with the newest job, a cancelled run is never done; and, for a single   *)
(* client, a project never has two runs alive.                             *)
(***************************************************************************)
EXTENDS ArenaRunner, JobManager, TLAPS

-----------------------------------------------------------------------------
(* The process: the inductive invariant *)

\* Without a process there is no future and no reason to stop, and no row is
\* written for a run that has no row of its own.
NoProcess ==
    /\ pc \in {"idle", "setup"} => \A c \in Cell : future[c] = "none"
    /\ pc \in {"idle", "setup", "collect"} => stop = "none"
    /\ run.status = "absent" => pc = "idle" /\ rows = <<>>

\* What a process does not hold as a result is not a stored success, and a
\* cell with a result has no call left to make or to collect.
ResultsKnowSuccesses ==
    /\ pc # "idle" => \A c \in Cell : results[c] = NULL => OkIndexes(c) = {}
    /\ \A c \in Cell : future[c] \in {"pending", "running", "finished"}
                          => results[c] = NULL

\* As long as nobody stops the loop, a planned cell has its result or a
\* future that will yield it.
PlanIsPursued ==
    /\ pc = "collect" => \A c \in PlannedCells :
          results[c] # NULL \/ future[c] \in {"pending", "running", "finished"}
    /\ pc = "cancelling" => stop # "none"
    /\ pc \in {"drain", "report"} /\ stop = "none" =>
          \A c \in PlannedCells : results[c] # NULL

StoredSoFar ==
    pc \in {"setup", "collect", "cancelling", "drain", "report"} =>
        \A c \in Cell : results[c] # NULL => HasRow(c, results[c])

IInv == /\ TypeOK
        /\ NoProcess
        /\ OneSuccessPerCell
        /\ ResultsKnowSuccesses
        /\ PlanIsPursued
        /\ StoredSoFar
        /\ StoppedPoolIsStarved

-----------------------------------------------------------------------------
(* Lemmas *)

LEMMA PlannedAreCells == TypeOK => PlannedCells \subseteq Cell
  BY DEF TypeOK, PlannedCells, Cell

\* The result of a resume is the stored success, and there is one exactly for
\* the cells that have one.
LEMMA RehydratedStored ==
  ASSUME TypeOK, OneSuccessPerCell, NEW c \in Cell
  PROVE  /\ Rehydrated(c) \in Result \cup {NULL}
         /\ Rehydrated(c) = NULL => OkIndexes(c) = {}
         /\ Rehydrated(c) # NULL => HasRow(c, Rehydrated(c))
<1>1. CASE OkIndexes(c) = {}
  BY <1>1 DEF Rehydrated
<1>2. CASE OkIndexes(c) # {}
  <2> DEFINE last == CHOOSE i \in OkIndexes(c) : \A j \in OkIndexes(c) : j <= i
             r == [status |-> "ok", cost |-> rows[last].cost]
  <2>1. PICK k : k \in OkIndexes(c)
    BY <1>2
  <2>2. k \in DOMAIN rows /\ k \in Nat
    BY <2>1 DEF OkIndexes, TypeOK
  <2>3. \A j \in OkIndexes(c) : j <= k
    BY <2>1, <2>2 DEF OkIndexes, OneSuccessPerCell
  <2>4. last \in OkIndexes(c)
    BY <2>1, <2>3
  <2>5. /\ last \in DOMAIN rows
        /\ rows[last] \in ResultRow
        /\ rows[last].cell = c /\ rows[last].status = "ok"
    BY <2>4 DEF OkIndexes, TypeOK
  <2>6. r \in Result /\ rows[last] = RowOf(c, r)
    <3> DEFINE row == rows[last]
    <3>1. row \in ResultRow /\ row.cell = c /\ row.status = "ok"
      BY <2>5
    <3> HIDE DEF row
    <3>2. row.cost \in Price /\ row = [cell |-> c, status |-> "ok", cost |-> row.cost]
      BY <3>1 DEF ResultRow
    <3>3. r = [status |-> "ok", cost |-> row.cost]
      BY DEF row
    <3>4. r \in Result /\ row = RowOf(c, r)
      BY <3>2, <3>3 DEF Result, RowOf
    <3>. QED
      BY <3>4 DEF row
  <2>7. Rehydrated(c) = r
    BY <1>2 DEF Rehydrated
  <2>8. NULL \notin Result
    BY NullAssumption DEF Result
  <2>. HIDE DEF r, last
  <2>. QED
    BY <2>5, <2>6, <2>7, <2>8 DEF HasRow
<1>. QED
  BY <1>1, <1>2

\* A future that raised no ArenaError is collected as a result.
LEMMA CollectedResult ==
  ASSUME NEW o \in Outcome
  PROVE  /\ Collected(o) \in Result
         /\ Collected(o) # NULL
<1>1. Collected(o) \in Result
  BY PriceAssumption DEF Collected, Outcome, Result
<1>. QED
  BY <1>1, NullAssumption DEF Result

\* Writing one more row keeps the rows there are and adds that one.
LEMMA AppendRow ==
  ASSUME TypeOK, NEW row \in ResultRow, rows' = Append(rows, row)
  PROVE  /\ rows' \in Seq(ResultRow)
         /\ \A c, r : HasRow(c, r) => HasRow(c, r)'
         /\ \A i \in DOMAIN rows' : \/ i \in DOMAIN rows /\ rows'[i] = rows[i]
                                    \/ i = Len(rows) + 1 /\ rows'[i] = row
         /\ Len(rows) + 1 \in DOMAIN rows' /\ Len(rows) + 1 \notin DOMAIN rows
         /\ rows'[Len(rows) + 1] = row
<1>1. rows \in Seq(ResultRow)
  BY DEF TypeOK
<1>2. rows' \in Seq(ResultRow) /\ Len(rows') = Len(rows) + 1 /\ Len(rows) \in Nat
  BY <1>1
<1>3. DOMAIN rows = 1..Len(rows) /\ DOMAIN rows' = 1..(Len(rows) + 1)
  BY <1>1, <1>2
<1>4. \A i \in DOMAIN rows : i \in DOMAIN rows' /\ rows'[i] = rows[i]
  BY <1>1, <1>2, <1>3
<1>5. rows'[Len(rows) + 1] = row
  BY <1>1, <1>2, <1>3
<1>6. \A c, r : HasRow(c, r) => HasRow(c, r)'
  BY <1>4 DEF HasRow, RowOf
<1>. QED
  BY <1>2, <1>3, <1>4, <1>5, <1>6

-----------------------------------------------------------------------------
(* The invariant holds of the initial state, and every action keeps it *)

LEMMA InitKeepsIInv == Init => IInv
<1> SUFFICES ASSUME Init PROVE IInv
  OBVIOUS
<1>1. TypeOK
  <2>1. run \in RunRow /\ rows \in Seq(ResultRow)
    BY DEF Init, NoRow, RunRow
  <2>2. results \in [Cell -> Result \cup {NULL}] /\ outcome \in [Cell -> Outcome \cup {NULL}]
    BY DEF Init
  <2>3. starts \in 0..MaxStarts
    BY StartsAssumption DEF Init
  <2>4. \A c \in Cell : future[c] = "finished" => outcome[c] \in Outcome
    BY DEF Init
  <2>. QED
    BY <2>1, <2>2, <2>3, <2>4 DEF Init, TypeOK
<1>2. NoProcess /\ OneSuccessPerCell /\ ResultsKnowSuccesses
  BY DEF Init, NoProcess, OneSuccessPerCell, ResultsKnowSuccesses, OkIndexes, NoRow
<1>3. PlanIsPursued /\ StoredSoFar /\ StoppedPoolIsStarved
  BY DEF Init, PlanIsPursued, StoredSoFar, StoppedPoolIsStarved
<1>. QED
  BY <1>1, <1>2, <1>3 DEF IInv

\* Most actions write no row: what the rows say is then what it was.
LEMMA SameRows ==
  ASSUME rows' = rows
  PROVE  /\ OneSuccessPerCell => OneSuccessPerCell'
         /\ \A c : OkIndexes(c)' = OkIndexes(c)
         /\ \A c, r : HasRow(c, r)' = HasRow(c, r)
  BY DEF OneSuccessPerCell, OkIndexes, HasRow

LEMMA StartRunKeepsIInv == IInv /\ StartRun => IInv'
<1> SUFFICES ASSUME IInv, StartRun PROVE IInv'
  OBVIOUS
<1> USE DEF IInv, StartRun, TakeUp
<1>1. TypeOK'
  BY StartsAssumption DEF TypeOK, RunRow, Live
<1>2. NoProcess'
  BY DEF NoProcess, TypeOK, RunRow
<1>3. OneSuccessPerCell'
  BY SameRows
<1>4. ResultsKnowSuccesses'
  BY DEF ResultsKnowSuccesses, NoProcess, OkIndexes
<1>5. PlanIsPursued' /\ StoredSoFar' /\ StoppedPoolIsStarved'
  BY DEF PlanIsPursued, StoredSoFar, StoppedPoolIsStarved
<1>. QED
  BY <1>1, <1>2, <1>3, <1>4, <1>5

LEMMA ResumeRunKeepsIInv == IInv /\ ResumeRun => IInv'
<1> SUFFICES ASSUME IInv, ResumeRun PROVE IInv'
  OBVIOUS
<1> USE DEF IInv, ResumeRun, TakeUp
<1>1. \A c \in Cell : results'[c] = Rehydrated(c)
  OBVIOUS
<1>2. results' \in [Cell -> Result \cup {NULL}]
  BY RehydratedStored
<1>3. TypeOK'
  <2>1. run' \in RunRow
    BY DEF TypeOK, RunRow
  <2>2. starts' \in 0..MaxStarts /\ runnable' \subseteq Models
    BY StartsAssumption DEF TypeOK
  <2>3. pc' \in Live
    BY DEF Live
  <2>. QED
    BY <1>2, <2>1, <2>2, <2>3 DEF TypeOK
<1>4. NoProcess'
  BY DEF NoProcess, TypeOK, RunRow
<1>5. OneSuccessPerCell'
  BY SameRows
<1>6. ResultsKnowSuccesses'
  <2>1. \A c \in Cell : results'[c] = NULL => OkIndexes(c)' = {}
    BY <1>1, RehydratedStored, SameRows
  <2>. QED
    BY <2>1 DEF ResultsKnowSuccesses, NoProcess
<1>7. StoredSoFar'
  BY <1>1, RehydratedStored, SameRows DEF StoredSoFar
<1>8. PlanIsPursued' /\ StoppedPoolIsStarved'
  BY DEF PlanIsPursued, StoppedPoolIsStarved
<1>. QED
  BY <1>3, <1>4, <1>5, <1>6, <1>7, <1>8

LEMMA SubmitJobsKeepsIInv == IInv /\ SubmitJobs => IInv'
<1> SUFFICES ASSUME IInv, SubmitJobs PROVE IInv'
  OBVIOUS
<1> USE DEF IInv, SubmitJobs
<1>1. TypeOK'
  BY DEF TypeOK, Live
<1>2. NoProcess'
  BY DEF NoProcess
<1>3. OneSuccessPerCell'
  BY SameRows
<1>4. ResultsKnowSuccesses'
  BY SameRows DEF ResultsKnowSuccesses
<1>5. PlanIsPursued'
  BY PlannedAreCells DEF PlanIsPursued, PlannedCells
<1>6. StoredSoFar' /\ StoppedPoolIsStarved'
  BY SameRows DEF StoredSoFar, StoppedPoolIsStarved
<1>. QED
  BY <1>1, <1>2, <1>3, <1>4, <1>5, <1>6

LEMMA WorkKeepsIInv == ASSUME NEW c \in Cell PROVE IInv /\ Work(c) => IInv'
<1> SUFFICES ASSUME IInv, Work(c) PROVE IInv'
  OBVIOUS
<1> USE DEF IInv
<1>1. /\ pc' = pc /\ runnable' = runnable /\ results' = results /\ stop' = stop
      /\ run' = run /\ rows' = rows /\ starts' = starts /\ cancelled' = cancelled
  BY DEF Work, StartCall, FinishCall
<1>2. /\ future[c] \in {"pending", "running"}
      /\ future' = [future EXCEPT ![c] = future'[c]]
      /\ future'[c] \in {"running", "finished"}
  BY DEF Work, StartCall, FinishCall, TypeOK
<1>3. TypeOK'
  <2>1. CASE StartCall(c)
    BY <2>1 DEF StartCall, TypeOK
  <2>2. CASE FinishCall(c)
    BY <2>2 DEF FinishCall, TypeOK
  <2>. QED
    BY <2>1, <2>2 DEF Work
<1>4. NoProcess'
  BY <1>1, <1>2 DEF NoProcess, TypeOK
<1>5. OneSuccessPerCell'
  BY <1>1, SameRows
<1>6. ResultsKnowSuccesses'
  BY <1>1, <1>2, SameRows DEF ResultsKnowSuccesses, TypeOK
<1>7. PlanIsPursued'
  BY <1>1, <1>2, PlannedAreCells DEF PlanIsPursued, PlannedCells, TypeOK
<1>8. StoredSoFar' /\ StoppedPoolIsStarved'
  BY <1>1, <1>2, SameRows DEF StoredSoFar, StoppedPoolIsStarved, TypeOK
<1>. QED
  BY <1>3, <1>4, <1>5, <1>6, <1>7, <1>8

LEMMA CollectResultKeepsIInv ==
  ASSUME NEW c \in Cell PROVE IInv /\ CollectResult(c) => IInv'
<1> SUFFICES ASSUME IInv, CollectResult(c) PROVE IInv'
  OBVIOUS
<1> DEFINE r == Collected(outcome[c])
           res == [results EXCEPT ![c] = r]
<1> USE DEF IInv
<1>1. /\ pc = "collect" /\ future[c] = "finished" /\ outcome[c] \in Outcome
      /\ future' = [future EXCEPT ![c] = "collected"]
      /\ outcome' = [outcome EXCEPT ![c] = NULL]
      /\ results' = res /\ rows' = Append(rows, RowOf(c, r))
      /\ runnable' = runnable /\ run' = run
      /\ starts' = starts /\ cancelled' = cancelled
  BY DEF CollectResult, Yield, TypeOK
<1>2. r \in Result /\ r # NULL
  BY <1>1, CollectedResult
<1>3. RowOf(c, r) \in ResultRow
  BY <1>2 DEF RowOf, Result, ResultRow
<1>4. \/ pc' = "unwind" /\ stop' = stop
      \/ pc' = "collect" /\ stop' = "none"
      \/ pc' = "cancelling" /\ stop' \in {"cancelled", "budget"}
  BY DEF CollectResult, ShouldStop
<1>5. results[c] = NULL /\ OkIndexes(c) = {}
  BY <1>1 DEF ResultsKnowSuccesses
<1>6. \A d \in Cell : d # c => results'[d] = results[d] /\ future'[d] = future[d]
  BY <1>1 DEF TypeOK
<1>7. results'[c] = r /\ future'[c] = "collected"
  BY <1>1 DEF TypeOK
<1> HIDE DEF r, res
<1>8. TypeOK'
  <2>1. results' \in [Cell -> Result \cup {NULL}]
    BY <1>1, <1>2 DEF TypeOK, res
  <2>2. rows' \in Seq(ResultRow)
    BY <1>1, <1>3, AppendRow
  <2>3. future' \in [Cell -> {"none", "pending", "running", "finished",
                              "cancelled", "collected"}]
    BY <1>1 DEF TypeOK
  <2>4. \A d \in Cell : future'[d] = "finished" => outcome'[d] \in Outcome
    BY <1>1, <1>6, <1>7 DEF TypeOK
  <2>5. outcome' \in [Cell -> Outcome \cup {NULL}]
    BY <1>1 DEF TypeOK
  <2>6. pc' \in Live \cup {"idle", "returned"} /\ stop' \in {"none", "cancelled", "budget"}
    BY <1>4 DEF TypeOK, Live
  <2>. QED
    BY <1>1, <2>1, <2>2, <2>3, <2>4, <2>5, <2>6 DEF TypeOK
<1>9. NoProcess'
  BY <1>1, <1>4 DEF NoProcess
<1>10. OneSuccessPerCell'
  BY <1>1, <1>3, <1>5, AppendRow DEF OneSuccessPerCell, OkIndexes, RowOf
<1>11. \A d \in Cell : d # c /\ OkIndexes(d) = {} => OkIndexes(d)' = {}
  BY <1>1, <1>3, AppendRow DEF OkIndexes, RowOf
<1>12. ResultsKnowSuccesses'
  BY <1>1, <1>2, <1>6, <1>7, <1>11 DEF ResultsKnowSuccesses
<1>13. PlanIsPursued'
  BY <1>1, <1>2, <1>4, <1>6, <1>7, PlannedAreCells DEF PlanIsPursued, PlannedCells
<1>14. StoredSoFar'
  <2>1. \E i \in DOMAIN rows' : rows'[i] = RowOf(c, r)
    BY <1>1, <1>3, AppendRow
  <2>2. \A d \in Cell : HasRow(d, results[d]) =>
           \E i \in DOMAIN rows' : rows'[i] = RowOf(d, results[d])
    BY <1>1, <1>3, AppendRow DEF HasRow
  <2>. QED
    BY <1>1, <1>6, <1>7, <2>1, <2>2 DEF StoredSoFar, HasRow, RowOf
<1>15. StoppedPoolIsStarved'
  BY <1>4 DEF StoppedPoolIsStarved
<1>. QED
  BY <1>8, <1>9, <1>10, <1>12, <1>13, <1>14, <1>15

\* The loop is left by an exception: nothing is collected after it.
LEMMA LoopRaisesKeepsIInv ==
  ASSUME NEW c \in Cell PROVE IInv /\ (CollectArenaError(c) \/ RecordFails(c)) => IInv'
<1> SUFFICES ASSUME IInv, CollectArenaError(c) \/ RecordFails(c) PROVE IInv'
  OBVIOUS
<1> USE DEF IInv
<1>1. /\ pc = "collect" /\ pc' = "unwind" /\ future[c] = "finished"
      /\ future' = [future EXCEPT ![c] = "collected"]
      /\ outcome' = [outcome EXCEPT ![c] = NULL]
      /\ runnable' = runnable /\ run' = run /\ rows' = rows /\ stop' = stop
      /\ starts' = starts /\ cancelled' = cancelled
  BY DEF CollectArenaError, RecordFails, Yield
<1>2. Collected(outcome[c]) \in Result /\ Collected(outcome[c]) # NULL
  BY <1>1, CollectedResult DEF TypeOK
<1>3. \/ results' = results
      \/ results' = [results EXCEPT ![c] = Collected(outcome[c])]
  BY DEF CollectArenaError, RecordFails
<1>4. results' \in [Cell -> Result \cup {NULL}]
  BY <1>2, <1>3 DEF TypeOK
<1>5. \A d \in Cell : /\ results'[d] = NULL => results[d] = NULL
                      /\ future'[d] \in {"pending", "running", "finished"}
                            => future[d] = future'[d] /\ results'[d] = results[d]
                      /\ future'[d] = "finished" => outcome'[d] = outcome[d]
  BY <1>1, <1>2, <1>3 DEF TypeOK
<1>6. TypeOK'
  BY <1>1, <1>4, <1>5 DEF TypeOK, Live
<1>7. NoProcess' /\ PlanIsPursued' /\ StoredSoFar' /\ StoppedPoolIsStarved'
  BY <1>1 DEF NoProcess, PlanIsPursued, StoredSoFar, StoppedPoolIsStarved
<1>8. OneSuccessPerCell' /\ ResultsKnowSuccesses'
  BY <1>1, <1>5, SameRows DEF ResultsKnowSuccesses
<1>. QED
  BY <1>6, <1>7, <1>8

LEMMA CancelPendingKeepsIInv ==
  ASSUME NEW c \in Cell PROVE IInv /\ CancelPending(c) => IInv'
<1> SUFFICES ASSUME IInv, CancelPending(c) PROVE IInv'
  OBVIOUS
<1> USE DEF IInv, CancelPending
<1>1. TypeOK'
  BY DEF TypeOK
<1>2. OneSuccessPerCell' /\ ResultsKnowSuccesses'
  BY SameRows DEF ResultsKnowSuccesses, TypeOK
<1>3. NoProcess' /\ PlanIsPursued' /\ StoredSoFar' /\ StoppedPoolIsStarved'
  BY SameRows DEF NoProcess, PlanIsPursued, StoredSoFar, StoppedPoolIsStarved
<1>. QED
  BY <1>1, <1>2, <1>3

\* The actions that move the main thread on and touch neither future nor row.
MovesOn == \/ SetupFails \/ AllCollected \/ BreakLoop \/ LeavePool \/ Interrupt
           \/ ReportFails \/ FinishRun \/ AbortRun

LEMMA MovesOnKeepsIInv == IInv /\ MovesOn => IInv'
<1> SUFFICES ASSUME IInv, MovesOn PROVE IInv'
  OBVIOUS
<1> USE DEF IInv
<1>1. /\ runnable' = runnable /\ future' = future /\ outcome' = outcome
      /\ results' = results /\ stop' = stop /\ cancelled' = cancelled
      /\ starts' = starts /\ rows' = rows
  BY DEF MovesOn, SetupFails, AllCollected, BreakLoop, LeavePool, Interrupt,
         ReportFails, FinishRun, AbortRun
<1>2. /\ pc # "idle" /\ pc' \in {"drain", "report", "unwind", "abort", "returned"}
      /\ run' \in RunRow /\ run'.status # "absent"
  <2>1. CASE FinishRun
    BY <2>1 DEF FinishRun, TypeOK, RunRow, Live
  <2>2. CASE AbortRun
    BY <2>2 DEF AbortRun, TypeOK, RunRow, Live, NoProcess
  <2>3. CASE SetupFails \/ AllCollected \/ BreakLoop \/ LeavePool \/ Interrupt \/ ReportFails
    BY <2>3 DEF SetupFails, AllCollected, BreakLoop, LeavePool, Interrupt, ReportFails,
                TypeOK, Live, NoProcess
  <2>. QED
    BY <2>1, <2>2, <2>3 DEF MovesOn
<1>3. /\ pc' = "drain" => pc \in {"collect", "cancelling"}
      /\ pc' = "report" => pc = "drain"
  BY DEF MovesOn, SetupFails, AllCollected, BreakLoop, LeavePool, Interrupt,
         ReportFails, FinishRun, AbortRun
<1>4. TypeOK'
  BY <1>1, <1>2 DEF TypeOK, Live
<1>5. NoProcess' /\ OneSuccessPerCell' /\ ResultsKnowSuccesses'
  BY <1>1, <1>2, SameRows DEF NoProcess, ResultsKnowSuccesses, Live
<1>6. pc' = "drain" => /\ \A c \in Cell : future[c] # "pending"
                       /\ stop = "none" => \A c \in PlannedCells : results[c] # NULL
  <2>1. CASE AllCollected
    BY <2>1, PlannedAreCells DEF AllCollected, PlanIsPursued
  <2>2. CASE BreakLoop
    BY <2>2 DEF BreakLoop, PlanIsPursued
  <2>. QED
    BY <2>1, <2>2 DEF MovesOn, SetupFails, LeavePool, Interrupt, ReportFails,
                      FinishRun, AbortRun
<1>7. PlanIsPursued' /\ StoppedPoolIsStarved'
  BY <1>1, <1>2, <1>3, <1>6 DEF PlanIsPursued, StoppedPoolIsStarved, PlannedCells, Live
<1>8. StoredSoFar'
  BY <1>1, <1>2, <1>3, SameRows DEF StoredSoFar, Live
<1>. QED
  BY <1>4, <1>5, <1>7, <1>8

LEMMA GoneKeepsIInv == IInv /\ Gone => IInv'
<1> SUFFICES ASSUME IInv, Gone PROVE IInv'
  OBVIOUS
<1> USE DEF IInv, Gone
<1>1. TypeOK'
  BY DEF TypeOK
<1>2. NoProcess' /\ OneSuccessPerCell' /\ ResultsKnowSuccesses'
  BY SameRows DEF NoProcess, ResultsKnowSuccesses
<1>3. PlanIsPursued' /\ StoredSoFar' /\ StoppedPoolIsStarved'
  BY DEF PlanIsPursued, StoredSoFar, StoppedPoolIsStarved
<1>. QED
  BY <1>1, <1>2, <1>3

LEMMA OutsideKeepsIInv == IInv /\ (Cancel \/ DeleteRun) => IInv'
<1> SUFFICES ASSUME IInv, Cancel \/ DeleteRun PROVE IInv'
  OBVIOUS
<1> USE DEF IInv
<1>1. /\ pc' = pc /\ runnable' = runnable /\ future' = future /\ outcome' = outcome
      /\ results' = results /\ stop' = stop /\ starts' = starts /\ rows' = rows
      /\ cancelled' \in BOOLEAN
  BY DEF Cancel, DeleteRun, TypeOK
<1>2. run' \in RunRow /\ run'.status = run.status
  BY DEF Cancel, DeleteRun, TypeOK, RunRow
<1>3. TypeOK'
  BY <1>1, <1>2 DEF TypeOK
<1>4. NoProcess' /\ OneSuccessPerCell' /\ ResultsKnowSuccesses'
  BY <1>1, <1>2, SameRows DEF NoProcess, ResultsKnowSuccesses
<1>5. PlanIsPursued' /\ StoredSoFar' /\ StoppedPoolIsStarved'
  BY <1>1, SameRows DEF PlanIsPursued, PlannedCells, StoredSoFar, StoppedPoolIsStarved
<1>. QED
  BY <1>3, <1>4, <1>5

LEMMA StutterKeepsIInv == IInv /\ UNCHANGED vars => IInv'
  BY SameRows DEF vars, IInv, TypeOK, NoProcess, ResultsKnowSuccesses, PlanIsPursued,
         PlannedCells, StoredSoFar, StoppedPoolIsStarved, OneSuccessPerCell, OkIndexes,
         HasRow

LEMMA NextKeepsIInv == IInv /\ [Next]_vars => IInv'
<1> SUFFICES ASSUME IInv, [Next]_vars PROVE IInv'
  OBVIOUS
<1>1. CASE StartRun
  BY <1>1, StartRunKeepsIInv
<1>2. CASE ResumeRun
  BY <1>2, ResumeRunKeepsIInv
<1>3. CASE SubmitJobs
  BY <1>3, SubmitJobsKeepsIInv
<1>4. CASE Collect
  BY <1>4, CollectResultKeepsIInv, LoopRaisesKeepsIInv DEF Collect
<1>5. CASE CancelOne
  BY <1>5, CancelPendingKeepsIInv DEF CancelOne
<1>6. CASE MovesOn
  BY <1>6, MovesOnKeepsIInv
<1>7. ASSUME NEW c \in Cell, Work(c) PROVE IInv'
  BY <1>7, WorkKeepsIInv
<1>8. CASE Exit \/ Crash
  BY <1>8, GoneKeepsIInv DEF Exit, Crash
<1>9. CASE Cancel \/ DeleteRun
  BY <1>9, OutsideKeepsIInv
<1>10. CASE UNCHANGED vars
  BY <1>10, StutterKeepsIInv
<1>. QED
  BY <1>1, <1>2, <1>3, <1>4, <1>5, <1>6, <1>7, <1>8, <1>9, <1>10
     DEF Next, MainThread, MovesOn

\* The invariant above is one: the strengthening that the theorems below rest on.
THEOREM Invariance == Spec => []IInv
  BY InitKeepsIInv, NextKeepsIInv, PTL DEF Spec

-----------------------------------------------------------------------------
(* The theorems *)

\* Every variable keeps its type, for every sweep.
THEOREM TypeCorrect == Spec => []TypeOK
  BY Invariance, PTL DEF IInv

\* No cell of a run is recorded as a success twice, whatever crashes, errors,
\* interrupts and resumes it goes through.
THEOREM OneSuccess == Spec => []OneSuccessPerCell
  BY Invariance, PTL DEF IInv

\* A report without a stopped-early note covers every planned cell.
THEOREM UnstoppedCovers == Spec => []UnstoppedRunCoversPlan
<1>1. IInv => UnstoppedRunCoversPlan
  BY DEF IInv, PlanIsPursued, UnstoppedRunCoversPlan
<1>. QED
  BY <1>1, Invariance, PTL

\* What the leaderboard is built from is in the database.
THEOREM ResultsStored == Spec => []ResultsAreStored
<1>1. IInv => ResultsAreStored
  BY DEF IInv, StoredSoFar, ResultsAreStored
<1>. QED
  BY <1>1, Invariance, PTL

\* Once the loop has been left, no worker finds anything to start.
THEOREM StoppedStarves == Spec => []StoppedPoolIsStarved
  BY Invariance, PTL DEF IInv

\* While the loop goes on, the result it took last left the budgets unspent: what
\* is in the list changes with it only.
LEMMA BudgetStep == IInv /\ NoCollectingOverBudget /\ [Next]_vars => NoCollectingOverBudget'
<1> DEFINE Over == OverRunBudget(results) \/ OverModelBudget(results)
           SomeCollected == \E c \in Cell : future[c] = "collected"
<1> SUFFICES ASSUME IInv, NoCollectingOverBudget, [Next]_vars, pc' = "collect",
                    OnExceed = "stop", SomeCollected'
             PROVE  ~OverRunBudget(results') /\ ~OverModelBudget(results')
  BY DEF NoCollectingOverBudget, OverRunBudget, OverModelBudget
<1>1. ASSUME pc = "collect", SomeCollected, results' = results
      PROVE  ~OverRunBudget(results') /\ ~OverModelBudget(results')
  BY <1>1 DEF NoCollectingOverBudget
<1>2. CASE TakeUp \/ SetupFails \/ AllCollected \/ BreakLoop \/ LeavePool \/ FinishRun
           \/ ReportFails \/ AbortRun \/ Interrupt \/ Exit \/ Crash
  BY <1>2 DEF TakeUp, SetupFails, AllCollected, BreakLoop, LeavePool, FinishRun, ReportFails,
              AbortRun, Interrupt, Exit, Crash, Gone
<1>3. CASE SubmitJobs
  BY <1>3 DEF SubmitJobs
<1>4. ASSUME NEW c \in Cell, CollectResult(c)
      PROVE  ~OverRunBudget(results') /\ ~OverModelBudget(results')
  <2>1. ShouldStop(results') = "none"
    BY <1>4 DEF CollectResult
  <2> QED
    BY <2>1 DEF ShouldStop
<1>5. ASSUME NEW c \in Cell, CollectArenaError(c) \/ RecordFails(c) PROVE FALSE
  BY <1>5 DEF CollectArenaError, RecordFails
<1>6. ASSUME NEW c \in Cell, CancelPending(c) PROVE FALSE
  BY <1>6 DEF CancelPending
<1>7. ASSUME NEW c \in Cell, Work(c) PROVE pc = "collect" /\ SomeCollected /\ results' = results
  BY <1>7 DEF Work, StartCall, FinishCall, IInv, TypeOK
<1>8. ASSUME Cancel \/ DeleteRun \/ UNCHANGED vars
      PROVE  pc = "collect" /\ SomeCollected /\ results' = results
  BY <1>8 DEF Cancel, DeleteRun, vars
<1> QED
  BY <1>1, <1>2, <1>3, <1>4, <1>5, <1>6, <1>7, <1>8
     DEF Next, MainThread, StartRun, ResumeRun, Collect, CancelOne

\* For every sweep, price and cap: with on_exceed: stop, the loop goes on to another
\* result only while what it has collected is within every cap (_should_stop).
THEOREM BudgetIsKept == Spec => []NoCollectingOverBudget
<1>1. Init => NoCollectingOverBudget
  BY DEF Init, NoCollectingOverBudget
<1> QED
  BY <1>1, BudgetStep, Invariance, PTL DEF Spec

\* A call that has succeeded and is stored is never made again.
THEOREM SuccessIsNeverRepaid == Spec => NeverRepaid
<1> DEFINE Step == \A c \in Cell : (future[c] = "pending" /\ future'[c] = "running")
                                      => OkIndexes(c) = {}
<1>1. IInv /\ [Next]_vars => [Step]_vars
  <2> SUFFICES ASSUME IInv, NEW c \in Cell, future[c] = "pending"
               PROVE OkIndexes(c) = {}
    OBVIOUS
  <2>1. results[c] = NULL /\ pc # "idle"
    BY DEF IInv, ResultsKnowSuccesses, NoProcess
  <2>. QED
    BY <2>1 DEF IInv, ResultsKnowSuccesses
<1>. QED
  BY <1>1, Invariance, PTL DEF Spec, NeverRepaid

-----------------------------------------------------------------------------
(* ArenaRunner implements RunLedger *)

LEMMA InitImplements == Init => Ledger!LInit
  BY DEF Init, NoRow, Ledger!LInit, Live

LEMMA TakeUpImplements ==
  ASSUME IInv, StartRun \/ ResumeRun PROVE Ledger!Open
<1>1. /\ pc = "idle" /\ pc' = "setup" /\ rows' = rows /\ runnable' \subseteq Models
      /\ run'.status = IF run.status = "absent" THEN "running" ELSE run.status
      /\ run'.partial = run.partial
  BY DEF StartRun, ResumeRun, TakeUp, IInv, TypeOK, RunRow
<1>2. PlannedCells' \subseteq Cell
  BY <1>1 DEF PlannedCells, Cell
<1>. QED
  BY <1>1, <1>2 DEF Ledger!Open, Live

LEMMA CollectImplements ==
  ASSUME IInv, NEW c \in Cell, CollectResult(c) PROVE Ledger!Record
<1> DEFINE r == Collected(outcome[c])
           row == RowOf(c, r)
<1>1. /\ pc = "collect" /\ pc' \in Live /\ future[c] = "finished"
      /\ outcome[c] \in Outcome /\ rows' = Append(rows, row)
      /\ run' = run /\ runnable' = runnable
  BY DEF CollectResult, Yield, IInv, TypeOK, Live
<1>2. row \in Ledger!Row /\ row.cell = c
  BY <1>1, CollectedResult DEF RowOf, Result, Ledger!Row
<1>3. OkIndexes(c) = {}
  BY <1>1 DEF IInv, ResultsKnowSuccesses
<1>4. ~Ledger!Succeeded(c)
  BY <1>3 DEF Ledger!Succeeded, OkIndexes
<1>5. PlannedCells' = PlannedCells
  BY <1>1 DEF PlannedCells
<1> HIDE DEF r, row
<1>. QED
  BY <1>1, <1>2, <1>4, <1>5 DEF Ledger!Record, Live

LEMMA FinishImplements == ASSUME IInv, FinishRun PROVE Ledger!Complete
<1>1. /\ pc = "report" /\ pc' = "returned" /\ rows' = rows
      /\ run'.status = "completed"
  BY DEF FinishRun, IInv, TypeOK, RunRow
<1>2. run'.partial = (stop # "none") /\ run'.partial \in BOOLEAN
  BY DEF FinishRun, IInv, TypeOK, RunRow
<1>3. stop = "none" => \A c \in PlannedCells : Ledger!Measured(c)
  BY <1>1, PlannedAreCells DEF IInv, PlanIsPursued, StoredSoFar, HasRow, RowOf,
                               Ledger!Measured
<1>4. ~run'.partial => \A c \in PlannedCells : Ledger!Measured(c)
  BY <1>2, <1>3
<1>5. /\ pc \in Live /\ pc' \notin Live
      /\ (IF pc' \in Live THEN PlannedCells' ELSE {}) = {}
      /\ (IF pc \in Live THEN PlannedCells ELSE {}) = PlannedCells
  BY <1>1 DEF Live
<1>. QED
  BY <1>1, <1>2, <1>4, <1>5 DEF Ledger!Complete

LEMMA AbortImplements ==
  ASSUME IInv, AbortRun PROVE Ledger!Abort \/ Ledger!Abandon
<1>1. pc = "abort" /\ pc' = "returned" /\ rows' = rows
  BY DEF AbortRun
<1>2. \/ run' = run
      \/ run'.status = "aborted" /\ run'.partial = FALSE
  BY DEF AbortRun, IInv, TypeOK, RunRow
<1>. QED
  BY <1>1, <1>2 DEF Ledger!Abort, Ledger!Abandon, Live

\* A process that ends without closing its run, and one that ends after.
LEMMA GoneImplements ==
  ASSUME IInv, SetupFails \/ ReportFails \/ Exit \/ Crash
  PROVE  Ledger!Abandon \/ UNCHANGED Ledger!lvars
<1>1. rows' = rows /\ run' = run /\ pc' \in {"returned", "idle"}
  BY DEF SetupFails, ReportFails, Exit, Crash, Gone
<1>. QED
  BY <1>1 DEF Ledger!Abandon, Ledger!lvars, Live

\* Everything else is invisible in the ledger.
LEMMA OthersStutter ==
  ASSUME IInv,
         \/ SubmitJobs \/ AllCollected \/ CancelOne \/ BreakLoop \/ LeavePool
         \/ Interrupt \/ Cancel \/ DeleteRun
         \/ \E c \in Cell : CollectArenaError(c) \/ RecordFails(c) \/ Work(c)
         \/ UNCHANGED vars
  PROVE  UNCHANGED Ledger!lvars
<1>1. rows' = rows /\ runnable' = runnable /\ (pc' \in Live <=> pc \in Live)
  BY DEF SubmitJobs, AllCollected, CancelOne, CancelPending, BreakLoop, LeavePool,
         Interrupt, Cancel, DeleteRun, CollectArenaError, RecordFails, Yield, Work,
         StartCall, FinishCall, vars, Live
<1>2. run'.status = run.status /\ run'.partial = run.partial
  BY DEF SubmitJobs, AllCollected, CancelOne, CancelPending, BreakLoop, LeavePool,
         Interrupt, Cancel, DeleteRun, CollectArenaError, RecordFails, Yield, Work,
         StartCall, FinishCall, vars, IInv, TypeOK, RunRow
<1>3. PlannedCells' = PlannedCells
  BY <1>1 DEF PlannedCells
<1>. QED
  BY <1>1, <1>2, <1>3 DEF Ledger!lvars

\* The rows a run leaves behind are those the ledger promises: appended one at
\* a time, one success per cell, closed as complete only when complete.
THEOREM Refinement == Spec => ImplementsLedger
<1>1. IInv /\ [Next]_vars => [Ledger!LNext]_(Ledger!lvars)
  <2> SUFFICES ASSUME IInv, [Next]_vars PROVE [Ledger!LNext]_(Ledger!lvars)
    OBVIOUS
  <2>1. CASE StartRun \/ ResumeRun
    BY <2>1, TakeUpImplements DEF Ledger!LNext
  <2>2. ASSUME NEW c \in Cell, CollectResult(c) PROVE Ledger!LNext
    BY <2>2, CollectImplements DEF Ledger!LNext
  <2>3. CASE FinishRun
    BY <2>3, FinishImplements DEF Ledger!LNext
  <2>4. CASE AbortRun
    BY <2>4, AbortImplements DEF Ledger!LNext
  <2>5. CASE SetupFails \/ ReportFails \/ Exit \/ Crash
    BY <2>5, GoneImplements DEF Ledger!LNext
  <2>6. CASE \/ SubmitJobs \/ AllCollected \/ CancelOne \/ BreakLoop \/ LeavePool
             \/ Interrupt \/ Cancel \/ DeleteRun
             \/ \E c \in Cell : CollectArenaError(c) \/ RecordFails(c) \/ Work(c)
             \/ UNCHANGED vars
    BY <2>6, OthersStutter
  <2>. QED
    BY <2>1, <2>2, <2>3, <2>4, <2>5, <2>6 DEF Next, MainThread, Collect
<1>. QED
  BY <1>1, Invariance, InitImplements, PTL DEF Spec, ImplementsLedger, Ledger!LSpec

-----------------------------------------------------------------------------
(* The job manager *)

IsNewest(j) == \A k \in Job : project[k] = project[j] => k <= j

\* The newest job of a project, while it is held, is the one its index names;
\* an entry of the index is held and of its project.
IndexInv ==
    /\ \A p \in Projects : index[p] # 0 =>
          index[p] \in held /\ project[index[p]] = p
    /\ \A j \in held : IsNewest(j) => index[project[j]] = j

\* Only a set event makes runner.run() return early as cancelled.
VerdictInv ==
    \A j \in Job : verdict[j] = "cancelled" => j \in cancel /\ jobStatus[j] # "done"

JobsIInv == JobsTypeOK /\ LiveJobsAreHeld /\ IndexInv /\ VerdictInv

USE JobBoundsAssumption, NoProjectAssumption

-----------------------------------------------------------------------------
LEMMA InitJobsIInv == JobsInit => JobsIInv
<1> SUFFICES ASSUME JobsInit PROVE JobsIInv
    OBVIOUS
<1> USE DEF JobsInit
<1>1. JobsTypeOK
    BY SMT DEF JobsTypeOK, Job, LiveStatuses
<1>2. LiveJobsAreHeld /\ IndexInv /\ VerdictInv
    BY SMT DEF LiveJobsAreHeld, IndexInv, VerdictInv, IsLive, LiveStatuses, IsNewest
<1> QED
    BY <1>1, <1>2 DEF JobsIInv

\* A status that changes, from live, keeps everything that is about which jobs
\* are held and which the index names.
LEMMA StatusChanges ==
    ASSUME JobsIInv,
           NEW j \in Job, IsLive(j),
           NEW s \in {"running", "done", "error", "cancelled"},
           jobStatus' = [jobStatus EXCEPT ![j] = s],
           verdict[j] = "cancelled" => s # "done",
           UNCHANGED <<started, project, held, index, cancel, verdict, asking>>
    PROVE  JobsIInv'
<1>1. JobsTypeOK'
    BY SMT DEF JobsIInv, JobsTypeOK, Job, LiveStatuses, IsLive
<1>2. LiveJobsAreHeld'
    BY SMT DEF JobsIInv, JobsTypeOK, LiveJobsAreHeld, IsLive, LiveStatuses
<1>3. IndexInv'
    BY SMT DEF JobsIInv, IndexInv, IsNewest
<1>4. VerdictInv'
    BY SMT DEF JobsIInv, JobsTypeOK, VerdictInv
<1> QED
    BY <1>1, <1>2, <1>3, <1>4 DEF JobsIInv

LEMMA StartJobIInv ==
    ASSUME JobsIInv, NEW c \in Clients, StartJob(c)
    PROVE  JobsIInv'
<1> DEFINE new == started + 1
           gone == Forgettable(held)
<1>1. new \in Job /\ new \notin held /\ started' = new
    BY SMT DEF JobsIInv, JobsTypeOK, StartJob, Job
<1>2. /\ jobStatus' = [jobStatus EXCEPT ![new] = "starting"]
      /\ project' = [project EXCEPT ![new] = asking[c]]
      /\ held' = (held \cup {new}) \ gone
      /\ index' = [p \in Projects |-> IndexAfter(p, new, gone)]
      /\ UNCHANGED <<cancel, verdict>>
    BY <1>1, SMT DEF StartJob
<1>3. gone \subseteq held /\ \A j \in gone : ~IsLive(j)
    BY SMT DEF Forgettable, Finished
<1>4. asking[c] \in Projects /\ project'[new] = asking[c]
    BY <1>1, <1>2, SMT DEF JobsIInv, JobsTypeOK, StartJob
<1>5. \A j \in Job : j # new => project'[j] = project[j] /\ jobStatus'[j] = jobStatus[j]
    BY <1>1, <1>2, SMT DEF JobsIInv, JobsTypeOK
<1>6. \A p \in Projects : index'[p] = IF p = asking[c] THEN new
                                       ELSE IF index[p] \in gone THEN 0 ELSE index[p]
    BY <1>2, <1>4, SMT DEF IndexAfter
<1> HIDE DEF new, gone
<1>7. JobsTypeOK'
  <2>1. started' \in 0..MaxJobs /\ held' \subseteq 1..started' /\ cancel' \subseteq 1..started'
    <3>1. started \in Nat /\ started' \in 0..MaxJobs
        BY <1>1, SMT DEF JobsIInv, JobsTypeOK, Job, new
    <3>2. held \subseteq 1..started /\ cancel \subseteq 1..started
        BY SMT DEF JobsIInv, JobsTypeOK
    <3>3. 1..started \subseteq 1..started' /\ new \in 1..started'
        BY <1>1, <3>1, SMT DEF new
    <3> QED
        BY <1>2, <3>1, <3>2, <3>3
  <2>2. jobStatus' \in [Job -> LiveStatuses \cup {"none", "done", "error", "cancelled"}]
      BY <1>1, <1>2, SMT DEF JobsIInv, JobsTypeOK, LiveStatuses
  <2>3. project' \in [Job -> Projects \cup {NoProject}]
      BY <1>1, <1>2, <1>4, SMT DEF JobsIInv, JobsTypeOK
  <2>4. \A j \in Job : j <= started' <=> jobStatus'[j] # "none"
      BY <1>1, <1>2, SMT DEF JobsIInv, JobsTypeOK, Job, new
  <2>5. \A j \in Job : j <= started' <=> project'[j] # NoProject
      BY <1>1, <1>4, <1>5, SMT DEF JobsIInv, JobsTypeOK, Job, new
  <2>6. index' \in [Projects -> 0..started']
    <3>1. \A p \in Projects : index'[p] \in 0..started'
        BY <1>1, <1>6, SMT DEF JobsIInv, JobsTypeOK, new
    <3> QED
        BY <1>2, <3>1, Zenon
  <2>7. asking' \in [Clients -> Projects \cup {NoProject}]
      BY SMT DEF JobsIInv, JobsTypeOK, StartJob
  <2> QED
      BY <1>2, <2>1, <2>2, <2>3, <2>4, <2>5, <2>6, <2>7, SMT DEF JobsIInv, JobsTypeOK
<1>8. LiveJobsAreHeld'
    BY <1>1, <1>2, <1>3, <1>5, SMT DEF JobsIInv, LiveJobsAreHeld, IsLive
<1>9. IndexInv'
  <2>1. ASSUME NEW p \in Projects, index'[p] # 0
        PROVE  index'[p] \in held' /\ project'[index'[p]] = p
    <3>1. CASE p = asking[c]
        BY <1>1, <1>2, <1>3, <1>4, <1>6, <3>1, SMT
    <3>2. CASE p # asking[c]
      <4>1. index'[p] = index[p] /\ index[p] \notin gone
          BY <1>6, <2>1, <3>2, SMT
      <4>2. index[p] \in held /\ project[index[p]] = p
          BY <2>1, <4>1, SMT DEF JobsIInv, IndexInv
      <4>3. index[p] \in Job /\ index[p] # new
          BY <1>1, <4>2, SMT DEF JobsIInv, JobsTypeOK, Job
      <4> QED
          BY <1>2, <1>5, <4>1, <4>2, <4>3, SMT
    <3> QED
        BY <3>1, <3>2
  <2>2. ASSUME NEW j \in held', IsNewest(j)'
        PROVE  index'[project'[j]] = j
    <3>1. CASE j = new
        BY <1>4, <1>6, <3>1, SMT
    <3>2. CASE j # new
      <4>1. j \in held /\ j \in Job /\ j < new /\ j \notin gone
          BY <1>1, <1>2, <2>2, <3>2, SMT DEF JobsIInv, JobsTypeOK, Job, new
      <4>2. project[j] # asking[c]
          BY <1>1, <1>4, <1>5, <2>2, <4>1, SMT DEF IsNewest, Job
      <4>3. IsNewest(j)
        <5>1. ASSUME NEW k \in Job, project[k] = project[j] PROVE k <= j
          <6>1. CASE k = new
            <7>1. project[new] = NoProject
                BY <1>1, SMT DEF JobsIInv, JobsTypeOK, Job, new
            <7>2. project[j] # NoProject
                BY <4>1, SMT DEF JobsIInv, JobsTypeOK, Job
            <7> QED
                BY <5>1, <6>1, <7>1, <7>2
          <6>2. CASE k # new
              BY <1>5, <2>2, <3>2, <4>1, <5>1, <6>2, SMT DEF IsNewest
          <6> QED
              BY <6>1, <6>2
        <5> QED
            BY <5>1 DEF IsNewest
      <4>4. index[project[j]] = j /\ project[j] \in Projects
          BY <4>1, <4>3, SMT DEF JobsIInv, IndexInv, JobsTypeOK, Job
      <4> QED
          BY <1>5, <1>6, <3>2, <4>1, <4>2, <4>4, SMT
    <3> QED
        BY <3>1, <3>2
  <2> QED
      BY <2>1, <2>2 DEF IndexInv
<1>10. VerdictInv'
    BY <1>1, <1>2, <1>5, SMT DEF JobsIInv, VerdictInv
<1> QED
    BY <1>7, <1>8, <1>9, <1>10 DEF JobsIInv

LEMMA NextIInv == JobsIInv /\ [JobsNext]_jobVars => JobsIInv'
<1> SUFFICES ASSUME JobsIInv, [JobsNext]_jobVars PROVE JobsIInv'
    OBVIOUS
<1>1. ASSUME NEW c \in Clients, NEW p \in Projects, ClickRun(c, p) PROVE JobsIInv'
  <2>1. JobsTypeOK'
      BY <1>1, SMT DEF JobsIInv, JobsTypeOK, ClickRun
  <2>2. LiveJobsAreHeld' /\ IndexInv' /\ VerdictInv'
      BY <1>1, SMT DEF JobsIInv, ClickRun, LiveJobsAreHeld, IsLive, IndexInv, IsNewest, VerdictInv
  <2> QED
      BY <2>1, <2>2 DEF JobsIInv
<1>2. ASSUME NEW c \in Clients, StartJob(c) PROVE JobsIInv'
    BY <1>2, StartJobIInv
<1>3. ASSUME NEW j \in Job, RunStarts(j) PROVE JobsIInv'
  <2>1. verdict[j] = "cancelled" => "running" # "done"
      OBVIOUS
  <2> QED
      BY <1>3, <2>1, StatusChanges DEF RunStarts, IsLive, LiveStatuses
<1>4. ASSUME NEW j \in Job, RunReturns(j) PROVE JobsIInv'
  <2>1. JobsTypeOK'
      BY <1>4, SMT DEF JobsIInv, JobsTypeOK, RunReturns
  <2>2. LiveJobsAreHeld' /\ IndexInv'
      BY <1>4, SMT DEF JobsIInv, RunReturns, LiveJobsAreHeld, IsLive, IndexInv, IsNewest
  <2>3. VerdictInv'
      BY <1>4, SMT DEF JobsIInv, JobsTypeOK, RunReturns, VerdictInv
  <2> QED
      BY <2>1, <2>2, <2>3 DEF JobsIInv
<1>5. ASSUME NEW j \in Job, Publish(j) PROVE JobsIInv'
  <2> DEFINE s == IF j \in cancel THEN "cancelled" ELSE "done"
  <2>1. s \in {"running", "done", "error", "cancelled"}
      OBVIOUS
  <2>2. verdict[j] = "cancelled" => s # "done"
      BY DEF JobsIInv, VerdictInv
  <2>3. IsLive(j) /\ jobStatus' = [jobStatus EXCEPT ![j] = s]
      BY <1>5 DEF Publish, IsLive, LiveStatuses
  <2>4. UNCHANGED <<started, project, held, index, cancel, verdict, asking>>
      BY <1>5 DEF Publish
  <2> HIDE DEF s
  <2> QED
      BY <2>1, <2>2, <2>3, <2>4, StatusChanges
<1>6. ASSUME NEW j \in Job, JobFails(j) PROVE JobsIInv'
  <2>1. verdict[j] = "cancelled" => "error" # "done"
      OBVIOUS
  <2> QED
      BY <1>6, <2>1, StatusChanges DEF JobFails
<1>7. ASSUME NEW j \in Job, CancelJob(j) PROVE JobsIInv'
  <2>1. JobsTypeOK'
      BY <1>7, SMT DEF JobsIInv, JobsTypeOK, CancelJob
  <2>2. LiveJobsAreHeld' /\ IndexInv' /\ VerdictInv'
      BY <1>7, SMT DEF JobsIInv, CancelJob, LiveJobsAreHeld, IsLive, IndexInv, IsNewest, VerdictInv
  <2> QED
      BY <2>1, <2>2 DEF JobsIInv
<1>8. CASE UNCHANGED jobVars
  <2>1. JobsTypeOK'
      BY <1>8, SMT DEF JobsIInv, JobsTypeOK, jobVars
  <2>2. LiveJobsAreHeld' /\ IndexInv' /\ VerdictInv'
      BY <1>8, SMT DEF JobsIInv, jobVars, LiveJobsAreHeld, IsLive, IndexInv, IsNewest, VerdictInv
  <2> QED
      BY <2>1, <2>2 DEF JobsIInv
<1> QED
    BY <1>1, <1>2, <1>3, <1>4, <1>5, <1>6, <1>7, <1>8 DEF JobsNext, JobThread

LEMMA JobsInvariance == JobsSpec => []JobsIInv
    BY InitJobsIInv, NextIInv, PTL DEF JobsSpec

-----------------------------------------------------------------------------
(* The theorems *)

\* The state of the manager keeps its shape: every job that is held, indexed
\* or cancelled was started.
THEOREM JobTypeCorrect == JobsSpec => []JobsTypeOK
<1>1. JobsIInv => JobsTypeOK
    BY DEF JobsIInv
<1> QED
    BY <1>1, JobsInvariance, PTL

\* _forget_old_jobs never drops a job that may be spending money.
THEOREM LiveJobsStay == JobsSpec => []LiveJobsAreHeld
<1>1. JobsIInv => LiveJobsAreHeld
    BY DEF JobsIInv
<1> QED
    BY <1>1, JobsInvariance, PTL

\* active_for answers with the newest job of the project as long as it lives,
\* whatever was evicted meanwhile.
THEOREM IndexIsRight == JobsSpec => []IndexFindsTheNewest
<1>1. JobsIInv => IndexFindsTheNewest
  <2> SUFFICES ASSUME JobsIInv PROVE IndexFindsTheNewest
      OBVIOUS
  <2>1. ASSUME NEW j \in Job, IsLive(j), IsNewest(j)
        PROVE  ActiveFor(project[j]) = j
    <3>1. j \in held
        BY <2>1 DEF JobsIInv, LiveJobsAreHeld
    <3>2. index[project[j]] = j
        BY <2>1, <3>1 DEF JobsIInv, IndexInv
    <3> QED
        BY <2>1, <3>1, <3>2 DEF ActiveFor
  <2> QED
      BY <2>1 DEF JobsIInv, IndexInv, IndexFindsTheNewest, IsNewest
<1> QED
    BY <1>1, JobsInvariance, PTL

\* A run that stopped for a cancellation is never published as done.
THEOREM CancelledStaysCancelled == JobsSpec => []CancelledIsNeverDone
<1>1. JobsIInv => CancelledIsNeverDone
    BY DEF JobsIInv, VerdictInv, CancelledIsNeverDone
<1> QED
    BY <1>1, JobsInvariance, PTL

\* What one client at a time leaves true: a live job is the newest of its
\* project, and a project about to be started has none.
LoneInv ==
    /\ \A j \in Job : IsLive(j) => IsNewest(j)
    /\ \A c \in Clients, j \in Job : asking[c] # NoProject /\ IsLive(j) => project[j] # asking[c]

\* With requests that do not overlap, a second click never starts a second
\* run: the guard of start_run is enough when nothing runs between it and
\* jobs.start.
THEOREM OneClientSpendsOnce ==
    ASSUME \A c, d \in Clients : c = d
    PROVE  JobsSpec => []OneLiveRunPerProject
<1>1. JobsInit => LoneInv
    BY SMT DEF JobsInit, LoneInv, IsLive, LiveStatuses
<1>2. JobsIInv /\ LoneInv /\ [JobsNext]_jobVars => LoneInv'
  <2> SUFFICES ASSUME JobsIInv, LoneInv, [JobsNext]_jobVars PROVE LoneInv'
      OBVIOUS
  <2>1. ASSUME NEW c \in Clients, NEW p \in Projects, ClickRun(c, p) PROVE LoneInv'
    <3>1. ASSUME NEW j \in Job, IsLive(j) PROVE project[j] # p
      <4>1. j \in held /\ IsNewest(j)
          BY <3>1 DEF JobsIInv, LiveJobsAreHeld, LoneInv
      <4>2. index[project[j]] = j /\ j # 0
          BY <4>1, SMT DEF JobsIInv, IndexInv, Job
      <4> QED
          BY <2>1, <3>1, <4>1, <4>2 DEF ClickRun, ActiveFor
    <3>2. asking' = [asking EXCEPT ![c] = p] /\ UNCHANGED <<jobStatus, project>>
        BY <2>1 DEF ClickRun
    <3>3. \A d \in Clients : asking'[d] = p
        BY <3>2, SMT DEF JobsIInv, JobsTypeOK
    <3> QED
        BY <3>1, <3>2, <3>3, SMT DEF LoneInv, IsLive, IsNewest
  <2>2. ASSUME NEW c \in Clients, StartJob(c) PROVE LoneInv'
    <3> DEFINE new == started + 1
    <3>1. /\ new \in Job /\ asking[c] # NoProject
          /\ jobStatus' = [jobStatus EXCEPT ![new] = "starting"]
          /\ project' = [project EXCEPT ![new] = asking[c]]
        BY <2>2, SMT DEF JobsIInv, JobsTypeOK, StartJob, Job
    <3>2. \A d \in Clients : asking'[d] = NoProject
        BY <2>2, SMT DEF JobsIInv, JobsTypeOK, StartJob
    <3>3. /\ project'[new] = asking[c]
          /\ \A j \in Job : j # new => project'[j] = project[j] /\ jobStatus'[j] = jobStatus[j]
        BY <3>1, SMT DEF JobsIInv, JobsTypeOK
    <3>4. \A j \in Job : project[j] # NoProject => j <= new
        BY SMT DEF JobsIInv, JobsTypeOK, Job
    <3> HIDE DEF new
    <3>5. ASSUME NEW j \in Job, IsLive(j)' PROVE IsNewest(j)'
      <4>1. CASE j = new
          BY <3>1, <3>3, <3>4, <4>1, SMT DEF IsNewest, Job
      <4>2. CASE j # new
        <5>1. IsLive(j) /\ project'[j] = project[j]
            BY <3>3, <3>5, <4>2 DEF IsLive
        <5>2. IsNewest(j) /\ project[j] # asking[c]
            BY <3>1, <5>1 DEF LoneInv
        <5> QED
            BY <3>3, <5>1, <5>2, SMT DEF IsNewest
      <4> QED
          BY <4>1, <4>2
    <3> QED
        BY <3>2, <3>5 DEF LoneInv
  <2>3. ASSUME NEW j \in Job, JobThread(j) \/ CancelJob(j) PROVE LoneInv'
    <3>1. UNCHANGED <<project, asking>>
        BY <2>3, SMT DEF JobThread, RunStarts, RunReturns, Publish, JobFails, CancelJob
    <3>2. \A k \in Job : IsLive(k)' => IsLive(k)
        BY <2>3, SMT DEF JobsIInv, JobsTypeOK, JobThread, RunStarts, RunReturns, Publish, JobFails,
                         CancelJob, IsLive, LiveStatuses
    <3> QED
        BY <3>1, <3>2, SMT DEF LoneInv, IsNewest
  <2>4. CASE UNCHANGED jobVars
      BY <2>4, SMT DEF LoneInv, IsNewest, IsLive, jobVars
  <2> QED
      BY <2>1, <2>2, <2>3, <2>4 DEF JobsNext
<1>3. JobsIInv /\ LoneInv => OneLiveRunPerProject
    BY SMT DEF LoneInv, IsNewest, OneLiveRunPerProject, Job
<1> QED
    BY <1>1, <1>2, <1>3, JobsInvariance, PTL DEF JobsSpec
=============================================================================
