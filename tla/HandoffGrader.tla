--------------------------- MODULE HandoffGrader ----------------------------
(***************************************************************************)
(* The graders of the hand-off study (evals/tasks) and the report's        *)
(* classes and rates.  A grade is made from the trace file and the ticket  *)
(* table a trial leaves behind, by reading events and nothing else; scores *)
(* are in hundredths.                                                      *)
(***************************************************************************)
EXTENDS Naturals, Sequences, FiniteSets, FiniteSetsExt

Events(t, type) == {i \in DOMAIN t : t[i].type = type}
Count(t, type) == Cardinality(Events(t, type))
Delegations(t) == {i \in Events(t, "tool_call") : t[i].delegated}

\* Mutant: only the architectures' own events count.
ArchitectureFinishTypes == {"run_finish", "supervisor_finish", "revision_finish"}

FinishTypes == {"agent_finish", "run_finish", "supervisor_finish", "revision_finish"}
HasFinished(t) == \E i \in DOMAIN t : t[i].type \in FinishTypes

Grade(passed, score, category) ==
    [passed |-> passed, score |-> score, category |-> category]
Fails(category) == Grade(FALSE, 0, category)

\* Five hundredths off for every model call above what is expected, down to 70.
Efficiency(t) ==
    LET expected == 4 + Cardinality(Delegations(t)) + 2 * Count(t, "critic_review")
        calls == Count(t, "llm_call")
        penalty == IF calls > expected THEN 5 * (calls - expected) ELSE 0
    IN  IF penalty > 30 THEN 70 ELSE 100 - penalty

\* The tool calls that came back without an error, with what they asked for.
Answered(t, tool) ==
    {i \in Events(t, "tool_result") :
        ~t[i].answer.error /\ t[t[i].call].call.tool = tool}

\* A failed call is made good by a later call, with the same arguments, that
\* was answered.
Recovered(t, i) ==
    \E j \in Events(t, "tool_call") :
        /\ j > i /\ t[j].call = t[t[i].call].call
        /\ \E k \in Events(t, "tool_result") :
              k > j /\ t[k].call = j /\ ~t[k].answer.error

UnrecoveredError(t) ==
    \E i \in Events(t, "tool_result") : t[i].answer.error /\ ~Recovered(t, i)

\* The first row of the customer's, as SELECT ... fetchone() finds it.
RowsOf(rows) == {i \in DOMAIN rows : rows[i].customer = "asked"}
TheRow(rows) == rows[Min(RowsOf(rows))]
Row(rows, status) == RowsOf(rows) # {} /\ TheRow(rows).status = status

-----------------------------------------------------------------------------
(* task_01 *)

QueriedProfile(t) ==
    \E i \in Answered(t, "get_customer_profile") : t[i].answer.tier = "enterprise"

UpdatedTicket(t) ==
    \E i \in Answered(t, "update_ticket") :
        LET call == t[t[i].call].call
        IN  call.status = "escalated" /\ call.tier = "enterprise" /\ t[i].answer.changed

\* No part of the machinery of an architecture ever moved.
CoordinationMiss(t) ==
    \A type \in {"tool_call", "worker_start", "peer_handoff", "critic_review",
                 "revision_start"} : Events(t, type) = {}

GradeCustomerEscalation(t, rows) ==
    IF ~HasFinished(t) THEN Fails("incomplete")
    ELSE IF UnrecoveredError(t) THEN Fails("tool_error_unrecovered")
    ELSE IF /\ Row(rows, "escalated") /\ TheRow(rows).tier = "enterprise"
            /\ QueriedProfile(t) /\ UpdatedTicket(t)
         THEN Grade(TRUE, Efficiency(t), "")
    ELSE Fails(IF CoordinationMiss(t) THEN "coordination_failure" ELSE "task_failure")

-----------------------------------------------------------------------------
(* task_02 *)

HoldSeenInCrm(t) == \E i \in Answered(t, "get_customer_profile") : t[i].answer.hold

\* A hand-off has to spell the hold as the field of the CRM is spelled, a worker's
\* summary may write it in two words.
HoldInHandoff(t) ==
    \E i \in Events(t, "peer_handoff") : t[i].words.spelling = "credit_hold"
HoldInSummary(t) ==
    \E i \in Events(t, "worker_finish") : t[i].words.spelling \in {"credit_hold", "credit hold"}

AnyCoordination(t) ==
    \/ Delegations(t) # {}
    \/ \E type \in {"worker_start", "peer_handoff", "critic_review"} : Events(t, type) # {}

\* Did the agent that decides have access to the credit hold?
DecisionAgentSaw(t) ==
    IF Events(t, "peer_handoff") # {} THEN HoldInHandoff(t)
    ELSE IF Events(t, "worker_start") # {} THEN HoldInSummary(t)
    ELSE HoldSeenInCrm(t)

GradeCreditHold(t, rows) ==
    IF ~HasFinished(t) THEN Fails("incomplete")
    ELSE IF Row(rows, "on_hold") /\ TheRow(rows).tagged THEN Grade(TRUE, Efficiency(t), "")
    ELSE IF ~DecisionAgentSaw(t) /\ AnyCoordination(t) THEN Fails("coordination_failure")
    ELSE Fails("task_failure")

-----------------------------------------------------------------------------
(* The report *)

\* A run without a grade: its process was stopped, or printed no grade.
Ungraded == Grade(FALSE, 0, "none")

Classify(run) ==
    IF run.skipped THEN "skipped"
    ELSE IF run.grade.passed THEN "pass"
    ELSE IF run.grade.category = "incomplete" THEN "incomplete"
    ELSE "fail"

Classed(runs, class) == {i \in DOMAIN runs : Classify(runs[i]) = class}

\* Mutant: skipped runs stay in the denominators.
PassRatesOfAll(runs) ==
    [n        |-> Len(runs),
     passed   |-> Cardinality(Classed(runs, "pass")),
     adjusted |-> Len(runs) - Cardinality(Classed(runs, "incomplete"))]

\* pass_rates: what passed, of what was run, with and without the incomplete.
PassRates(runs) ==
    LET active == {i \in DOMAIN runs : ~runs[i].skipped}
        incomplete == Cardinality(Classed(runs, "incomplete"))
    IN  [n        |-> Cardinality(active),
         passed   |-> Cardinality(Classed(runs, "pass")),
         adjusted |-> Cardinality(active) - incomplete]
=============================================================================
