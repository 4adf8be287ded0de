---------------------------- MODULE HandoffSweep ----------------------------
(***************************************************************************)
(* The sweep of the hand-off study: run_all.py goes through its plan, one  *)
(* process of run_baseline.py per trial, and rewrites its manifest after   *)
(* each; report_generator.py reads the manifest.  A trial can also be      *)
(* started by hand, and only then can the CRM be made to fail.             *)
(***************************************************************************)
EXTENDS HandoffTrial, HandoffGrader, SequencesExt

CONSTANTS
    Arguments,  \* the arguments a sweep may be given
    ByHand,     \* the setups a trial started by hand may have
    Providers   \* the model providers, each with a key in the environment or not

VARIABLES
    phase,      \* "next", "running", "recorded", "truncated", "ended", "crashed" or "by_hand"
    plan,       \* the runs, in order
    position,   \* of the loop's run in the plan
    keys,       \* the providers with a key
    results,    \* the records in memory
    manifest    \* what the file holds: its state and its records

sweepVars == <<phase, plan, position, keys, results, manifest>>
vars == <<trialVars, sweepVars>>

ASSUME SweepAssumption ==
    /\ Arguments \subseteq [providers: Seq(Providers), archs: Seq(Architectures),
                            tasks: Seq(STRING), trials: Int, swTrials: Seq(Int)]
    /\ ByHand \subseteq [arch: Architectures, task: STRING, flaky: BOOLEAN]

Missing == [state |-> "missing", runs |-> <<>>]
Torn    == [state |-> "torn", runs |-> <<>>]
Whole(runs) == [state |-> "whole", runs |-> runs]

\* The runs, in order: providers, architectures, tasks, trials.  One cell may
\* have a number of trials of its own (`swTrials` is empty, or holds it).
Trials(args, arch, task) ==
    IF arch = "supervisor_worker" /\ task = "task_02" /\ args.swTrials # <<>>
    THEN args.swTrials[1] ELSE args.trials

Cell(args, provider, arch, task) ==
    [trial \in 1..Trials(args, arch, task) |->
        [arch |-> arch, task |-> task, provider |-> provider]]

PlanOf(args) ==
    LET ofArch(p, a) == FlattenSeq([t \in DOMAIN args.tasks |->
                            Cell(args, p, a, args.tasks[t])])
        ofProvider(p) == FlattenSeq([a \in DOMAIN args.archs |->
                            ofArch(p, args.archs[a])])
    IN  FlattenSeq([p \in DOMAIN args.providers |-> ofProvider(args.providers[p])])

Init ==
    /\ TrialInit
    /\ keys \in SUBSET Providers
    /\ position = 1
    /\ results = <<>>
    /\ manifest = Missing
    /\ \/ phase = "next" /\ plan \in {PlanOf(args) : args \in Arguments}
       \/ phase = "by_hand" /\ plan = <<>>

-----------------------------------------------------------------------------
Current == plan[position]
More == position <= Len(plan)

Record(skipped, grade) == [skipped |-> skipped, grade |-> grade]

\* No key: a record, no file, on to the next.
SkipRun ==
    /\ phase = "next" /\ More
    /\ Current.provider \notin keys
    /\ results' = Append(results, Record(TRUE, Ungraded))
    /\ position' = position + 1
    /\ UNCHANGED <<trialVars, phase, plan, keys, manifest>>

StartRun ==
    /\ phase = "next" /\ More
    /\ Current.provider \in keys
    /\ phase' = "running"
    /\ StartTrial(Current.arch, Current.task, FALSE)
    /\ UNCHANGED <<plan, position, keys, results, manifest>>

StartByHand ==
    /\ phase = "by_hand" /\ setup = NoTrial
    /\ \E s \in ByHand : StartTrial(s.arch, s.task, s.flaky)
    /\ UNCHANGED sweepVars

Work ==
    /\ phase \in {"running", "by_hand"}
    /\ TrialStep
    /\ UNCHANGED sweepVars

TrialOver == ~Running /\ setup # NoTrial

TrialGrade ==
    IF setup.task = "task_01" THEN GradeCustomerEscalation(trace, tickets)
                              ELSE GradeCreditHold(trace, tickets)

\* The process of the trial is over, and what it left is not read again.
Recorded(record) ==
    /\ results' = Append(results, record)
    /\ phase' = "recorded"
    /\ setup' = NoTrial
    /\ stack' = <<>> /\ trace' = <<>> /\ tickets' = <<>>
    /\ draft' = Plain
    /\ UNCHANGED <<plan, position, keys, manifest>>

GradeRun ==
    /\ phase = "running" /\ TrialOver
    /\ Recorded(Record(FALSE, TrialGrade))

\* 300 seconds are over, or the process died: no grade was printed.
RunIsStopped ==
    /\ phase = "running" /\ Running
    /\ Recorded(Record(FALSE, Ungraded))

\* open(manifest_path, "w") empties the file.
TruncateManifest ==
    /\ phase = "recorded"
    /\ manifest' = Torn
    /\ phase' = "truncated"
    /\ UNCHANGED <<trialVars, plan, position, keys, results>>

\* Mutant: the manifest is saved before the run's record is appended.
WriteManifestEarly ==
    /\ phase = "truncated"
    /\ manifest' = Whole(SubSeq(results, 1, Len(results) - 1))
    /\ phase' = "next"
    /\ position' = position + 1
    /\ UNCHANGED <<trialVars, plan, keys, results>>

WriteManifest ==
    /\ phase = "truncated"
    /\ manifest' = Whole(results)
    /\ phase' = "next"
    /\ position' = position + 1
    /\ UNCHANGED <<trialVars, plan, keys, results>>

EndSweep ==
    /\ phase = "next" /\ ~More
    /\ phase' = "ended"
    /\ UNCHANGED <<trialVars, plan, position, keys, results, manifest>>

\* The sweep itself is interrupted: what it had in memory is gone (`results` stays
\* as what it was).
CrashSweep ==
    /\ phase \in {"next", "running", "recorded", "truncated"}
    /\ phase' = "crashed"
    /\ UNCHANGED <<trialVars, plan, position, keys, results, manifest>>

Next ==
    \/ SkipRun \/ StartRun \/ StartByHand \/ Work \/ GradeRun \/ RunIsStopped
    \/ TruncateManifest \/ WriteManifest \/ EndSweep \/ CrashSweep

Spec == Init /\ [][Next]_vars

-----------------------------------------------------------------------------
(* What run_all prints at the end *)

Summary ==
    [passed   |-> Cardinality({i \in DOMAIN results : results[i].grade.passed}),
     adjusted |-> Len(plan)
                  - Cardinality({i \in DOMAIN results :
                                    results[i].grade.category = "incomplete"})
                  - Cardinality({i \in DOMAIN results : results[i].skipped})]

-----------------------------------------------------------------------------
(* Properties *)

\* The graders judge the table and the trace as two views of one trial: the
\* calls the trace shows as carried out, done again in their order on the
\* seeded table, give the table.
TraceExplainsTheTickets ==
    setup # NoTrial =>
        LET Redone(rows, e) ==
                IF e.type = "tool_result" /\ ~e.answer.error
                THEN TicketsAfter(rows, trace[e.call].call) ELSE rows
        IN  tickets = FoldLeft(Redone, Seeded, trace)

\* The grader blames the architecture (coordination_failure on task_02): "The
\* agent responsible for the final ticketing action never had access to
\* credit_hold" (task_02:217).  No agent that changed a ticket knew of the hold.
Blamed == TrialOver /\ setup.task = "task_02" /\ TrialGrade.category = "coordination_failure"

BlamedBoundariesLostTheHold ==
    Blamed => \A i \in EventsOf("tool_result") :
                  trace[i].answer.changed => ~trace[trace[i].call].knew

\* A text that passed a boundary and told of the hold, in words that the grader
\* does not look for there.
Unrecognised ==
    \/ \E i \in EventsOf("peer_handoff") :
          trace[i].words.tells /\ trace[i].words.spelling # "credit_hold"
    \/ \E i \in EventsOf("worker_finish") :
          trace[i].words.tells /\ trace[i].words.spelling = ""

\* The wording of a hand-off or a summary is all that can mislead the blame:
\* otherwise no agent that changed a ticket knew of the hold, by no other way
\* (a tool of its own, a draft, another worker, an earlier delegation).
OnlyWordingMisleadsTheBlame == Unrecognised \/ BlamedBoundariesLostTheHold

\* A run is graded incomplete only when some agent was cut off, by the service
\* or, the first one, by its number of turns: an answered run is judged by what
\* it did.  The first agent's start is the trace's second event.
IncompleteWasCutOff ==
    (TrialOver /\ TrialGrade.category = "incomplete") =>
        \/ EventsOf("error") # {}
        \/ Cardinality({i \in EventsOf("llm_call") : trace[i].parent = 2})
              >= Limit[FirstAgent(setup.arch)]

\* The rate run_all prints and the rate the report computes from the manifest
\* are counted differently (from the plan, from the records) and agree, though
\* runs skipped after the last executed one are never written.
SummaryAgreesWithTheReport ==
    (phase = "ended" /\ manifest.state = "whole") =>
        /\ Summary.passed = PassRates(manifest.runs).passed
        /\ Summary.adjusted = PassRates(manifest.runs).adjusted

\* The manifest has the record of every run of the plan up to the n-th that was
\* executed, each at its place.
Keeps(n) ==
    \A i \in 1..n : results[i].skipped
                    \/ (i \in DOMAIN manifest.runs /\ manifest.runs[i] = results[i])

\* Between two runs the manifest can be read and has every record that counts;
\* wherever the sweep is interrupted, a manifest that can be read lacks no more
\* than the record that was just made.
ReadableManifestIsComplete ==
    /\ phase \in {"next", "running", "ended"} => Keeps(Len(results))
    /\ manifest.state = "whole" => Keeps(Len(results) - 1)

\* "Save manifest after every run (safe against crashes)" (run_all.py:243): an
\* interrupted sweep loses the record that was just made, and no other.
ManifestSurvivesACrash == phase = "crashed" => Keeps(Len(results) - 1)
=============================================================================
