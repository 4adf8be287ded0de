---------------------------- MODULE HandoffTrial ----------------------------
(***************************************************************************)
(* One trial of the hand-off study (studies/multi_agent_handoff): a model  *)
(* is given a support task and the tools to carry it out, arranged in one  *)
(* of four architectures.  Every agent is the loop of core/agent.py: call  *)
(* the model, carry out the tool calls it answers with, call it again,     *)
(* until it answers in words, fails, or has had its number of turns.       *)
(*                                                                         *)
(*   single_agent       solo                                               *)
(*   peer_to_peer       crm, then ticketing with crm's words               *)
(*   supervisor_worker  a supervisor whose tools are two workers           *)
(*   debate_critic      proposer, then critic, then revision               *)
(*                                                                         *)
(* The agents are a stack, the running one on top; what they do is logged  *)
(* in the trace, in which an event names its parent by its position.  The  *)
(* model is free: any reply the tool schemas allow may come at any turn.   *)
(* Of what is said the specification keeps how the words spell the         *)
(* customer's credit hold, if they do, and whether they really tell of it, *)
(* in that spelling or in words of their own, which only an agent that     *)
(* knows of it can do.                                                     *)
(***************************************************************************)
EXTENDS Integers, Sequences

CONSTANTS
    Limit,      \* role |-> the turns its agent is given
    Batches     \* role |-> the sequences of tool calls its model may ask for

VARIABLES
    setup,      \* the arguments of run_baseline: architecture, task, flaky CRM
    stack,      \* the agents at work, the running one last
    trace,      \* the events of the trace file, in order
    tickets,    \* the rows of the ticket table, in the order of their ids
    draft       \* what the proposer answered (debate_critic)

trialVars == <<setup, stack, trace, tickets, draft>>

Architectures == {"single_agent", "peer_to_peer", "supervisor_worker", "debate_critic"}
Roles == {"solo", "crm", "ticketing", "supervisor", "crm_worker", "ticketing_worker",
          "proposer", "critic", "revision"}

\* A tool call: a tool's name, and the arguments of every tool, "" and 0 for the
\* others'.  `tells` is that the words of a delegation tell of the hold.
Calls == [tool: STRING, customer: STRING, ticket: Int, status: STRING,
          tier: STRING, description: STRING, tells: BOOLEAN]

ASSUME TrialAssumption ==
    /\ Limit \in [Roles -> Nat]
    /\ Batches \in [Roles -> SUBSET Seq(Calls)]

-----------------------------------------------------------------------------
(* Words and tools *)

\* The substrings that somebody looks for in a text, in either case of letters;
\* a text with both counts as one with "credit_hold", one with neither as "".
Spellings == {"", "credit hold", "credit_hold"}

Plain == [spelling |-> "", tells |-> FALSE]

\* What an agent may answer in words: only one that knows of the hold can tell of
\* it, but a text may name it without telling of it ("no credit hold"), and
\* tell of it without naming it ("payments are blocked").
Words(knows) == {w \in [spelling: Spellings, tells: BOOLEAN] : w.tells => knows}

CrmTools == {"get_customer_profile"}
TicketTools == {"create_ticket", "get_ticket", "update_ticket", "search_tickets"}

\* Mutant: the ticketing agents are given every tool.
AllTools(role) ==
    CASE role = "critic" -> {}
      [] role \in {"crm", "crm_worker"} -> CrmTools
      [] OTHER -> CrmTools \cup TicketTools

\* The tool providers an agent is built with.
Tools(role) ==
    CASE role \in {"solo", "proposer", "revision"} -> CrmTools \cup TicketTools
      [] role \in {"crm", "crm_worker"}            -> CrmTools
      [] role \in {"ticketing", "ticketing_worker"} -> TicketTools
      [] OTHER                                      -> {}

\* What the CRM holds of the customer the task is about: task_02's is on hold.
Profile(task) == [tier |-> "enterprise", hold |-> task = "task_02"]

\* The table after the task's seeding: one open ticket of that customer.
Seeded == <<[customer |-> "asked", status |-> "open", tier |-> "unknown", tagged |-> FALSE]>>

\* What a tool answers: `hold` and `tier` are those of a profile, `changed` is
\* that the answer says so ("updated", "created"), `error` that it was raised.
Answer(error, changed, tier, hold) ==
    [error |-> error, changed |-> changed, tier |-> tier, hold |-> hold]
Raised  == Answer(TRUE, FALSE, "", FALSE)
Nothing == Answer(FALSE, FALSE, "", FALSE)
Changed == Answer(FALSE, TRUE, "", FALSE)

\* get_customer_profile: another customer's profile tells nothing of the task.
CrmAnswer(task, call) ==
    IF call.customer = "asked"
    THEN Answer(FALSE, FALSE, Profile(task).tier, Profile(task).hold)
    ELSE Nothing

\* update_ticket: empty fields are left alone, and with no field at all, or
\* with no such ticket, the answer is an error message that nothing raised.
HasFields(call) == call.status # "" \/ call.tier # "" \/ call.description # ""
Updates(call) == HasFields(call) /\ call.ticket \in DOMAIN tickets

UpdatedRow(row, call) ==
    [row EXCEPT !.status = IF call.status = "" THEN @ ELSE call.status,
                !.tier   = IF call.tier = "" THEN @ ELSE call.tier,
                !.tagged = IF call.description = "" THEN @ ELSE call.description = "tagged"]

CreatedRow(call) ==
    [customer |-> call.customer,
     status   |-> IF call.status = "" THEN "open" ELSE call.status,
     tier     |-> IF call.tier = "" THEN "standard" ELSE call.tier,
     tagged   |-> call.description = "tagged"]

\* The table and the answer after a call of the ticketing system.
TicketsAfter(rows, call) ==
    CASE call.tool = "create_ticket" -> Append(rows, CreatedRow(call))
      [] call.tool = "update_ticket" /\ HasFields(call) /\ call.ticket \in DOMAIN rows
           -> [rows EXCEPT ![call.ticket] = UpdatedRow(@, call)]
      [] OTHER -> rows

TicketAnswer(call) ==
    IF call.tool = "create_ticket" \/ (call.tool = "update_ticket" /\ Updates(call))
    THEN Changed ELSE Nothing

-----------------------------------------------------------------------------
(* Events *)

Event(type, parent) == [type |-> type, parent |-> parent]
Spoken(type, parent, words) == [type |-> type, parent |-> parent, words |-> words]

\* `knew` is not in the file: it is what the properties ask of the caller.
ToolCall(parent, call, knew, delegated) ==
    [type |-> "tool_call", parent |-> parent, call |-> call,
     knew |-> knew, delegated |-> delegated]
ToolResult(parent, call, answer) ==
    [type |-> "tool_result", parent |-> parent, call |-> call, answer |-> answer]

EventsOf(type) == {i \in DOMAIN trace : trace[i].type = type}

-----------------------------------------------------------------------------
(* Agents *)

Top == stack[Len(stack)]
Below == SubSeq(stack, 1, Len(stack) - 1)
Running == stack # <<>>

Agent(role, start, knows) ==
    [role |-> role, start |-> start, left |-> Limit[role],
     pending |-> <<>>, knows |-> knows]

\* The stack without its top, and a new agent whose first event is logged
\* after `events`, under the one of them (or of the trace) it is given.
Replaced(role, knows, events, parent) ==
    /\ trace' = trace \o events \o <<Event("agent_start", parent)>>
    /\ stack' = Append(Below, Agent(role, Len(trace) + Len(events) + 1, knows))

\* What _extract_tool_call_summary shows the critic.
SummaryTells == \E i \in EventsOf("tool_result") : trace[i].answer.hold

(***************************************************************************)
(* The running agent returns these words; `last` are the events it logged  *)
(* on its way out (a finish event, an error, or none).  What happens next  *)
(* is the architecture's business.                                         *)
(***************************************************************************)
FinishAlone(role, last) ==
    /\ role \in {"solo", "supervisor"}
    /\ stack' = <<>>
    /\ trace' = trace \o last
    /\ UNCHANGED draft

FinishCrmPeer(role, last, words) ==
    /\ role = "crm"
    /\ Replaced("ticketing", words.tells,
                last \o <<Spoken("peer_handoff", 1, words)>>,
                Len(trace) + Len(last) + 1)
    /\ UNCHANGED draft

FinishTicketingPeer(role, last) ==
    /\ role = "ticketing"
    /\ stack' = <<>>
    /\ trace' = trace \o last \o <<Event("run_finish", 1)>>
    /\ UNCHANGED draft

FinishProposer(role, last, words) ==
    /\ role = "proposer"
    /\ draft' = words
    /\ Replaced("critic", words.tells \/ SummaryTells, last, 1)

FinishCritic(role, last, words) ==
    /\ role = "critic"
    /\ Replaced("revision", draft.tells \/ words.tells,
                last \o <<Event("critic_review", 1), Event("revision_start", 1)>>,
                Len(trace) + Len(last) + 2)
    /\ UNCHANGED draft

FinishRevision(role, last) ==
    /\ role = "revision"
    /\ stack' = <<>>
    /\ trace' = trace \o last
                      \o <<Event("revision_finish", trace[Top.start].parent),
                           Event("run_finish", 1)>>
    /\ UNCHANGED draft

\* A worker's words are the result of the supervisor's delegation.
FinishWorker(role, last, words) ==
    /\ role \in {"crm_worker", "ticketing_worker"}
    /\ LET started == trace[Top.start].parent
           delegation == trace[started].parent
           boss == Below[Len(Below)]
       IN  /\ trace' = trace \o last
                             \o <<Spoken("worker_finish", started, words),
                                  ToolResult(delegation, delegation, Nothing)>>
           /\ stack' = [Below EXCEPT ![Len(Below)] =
                           [boss EXCEPT !.pending = Tail(@),
                                        !.knows = @ \/ words.tells]]
    /\ UNCHANGED draft

Returns(last, words) ==
    \/ FinishAlone(Top.role, last)
    \/ FinishCrmPeer(Top.role, last, words)
    \/ FinishTicketingPeer(Top.role, last)
    \/ FinishProposer(Top.role, last, words)
    \/ FinishCritic(Top.role, last, words)
    \/ FinishRevision(Top.role, last)
    \/ FinishWorker(Top.role, last, words)

-----------------------------------------------------------------------------
(* The loop *)

CanCall == Running /\ Top.pending = <<>> /\ Top.left > 0

LlmCall == Event("llm_call", Top.start)
FinishEvent == IF Top.role = "supervisor" THEN "supervisor_finish" ELSE "agent_finish"

\* The provider gives up (its own retries included): the agent returns an
\* error text, and logs no finish event.
ModelFails ==
    /\ CanCall
    /\ Returns(<<LlmCall, Event("error", Len(trace) + 1)>>, Plain)
    /\ UNCHANGED <<setup, tickets>>

\* The model answers in words: the agent is finished.
ModelAnswers ==
    /\ CanCall
    /\ \E words \in Words(Top.knows) :
          Returns(<<LlmCall, Event("llm_response", Len(trace) + 1),
                    Event(FinishEvent, Top.start)>>, words)
    /\ UNCHANGED <<setup, tickets>>

\* The model asks for tools; they are carried out before the next turn.
ModelAsksForTools ==
    /\ CanCall
    /\ \E calls \in Batches[Top.role] :
          /\ \A k \in DOMAIN calls : calls[k].tells => Top.knows
          /\ stack' = [stack EXCEPT ![Len(stack)] =
                          [Top EXCEPT !.pending = calls, !.left = @ - 1]]
    /\ trace' = trace \o <<LlmCall, Event("llm_response", Len(trace) + 1)>>
    /\ UNCHANGED <<setup, tickets, draft>>

\* All turns used: an error text, and no event at all.
TurnsUsedUp ==
    /\ Running /\ Top.pending = <<>> /\ Top.left = 0
    /\ Returns(<<>>, Plain)
    /\ UNCHANGED <<setup, tickets>>

\* An agent's next tool call: a tool it was not given is an error result, as
\* is whatever the tool raises.
AnswersTo(call) ==
    IF call.tool \notin Tools(Top.role) THEN {Raised}
    ELSE IF call.tool \in CrmTools
         THEN {CrmAnswer(setup.task, call)} \cup (IF setup.flaky THEN {Raised} ELSE {})
         ELSE {TicketAnswer(call)}

\* Mutant: a tool is found whether or not the agent was given it.
ExecuteAnyTool ==
    /\ Running /\ Top.pending # <<>> /\ Top.role # "supervisor"
    /\ LET call == Head(Top.pending)
       IN  \E answer \in AnswersTo(call) :
              /\ trace' = trace \o <<ToolCall(Top.start, call, Top.knows, FALSE),
                                     ToolResult(Len(trace) + 1, Len(trace) + 1, answer)>>
              /\ stack' = [stack EXCEPT ![Len(stack)] =
                              [Top EXCEPT !.pending = Tail(@), !.knows = @ \/ answer.hold]]
              /\ tickets' = TicketsAfter(tickets, call)
    /\ UNCHANGED <<setup, draft>>

ExecuteTool ==
    /\ Running /\ Top.pending # <<>> /\ Top.role # "supervisor"
    /\ LET call == Head(Top.pending)
       IN  \E answer \in AnswersTo(call) :
              /\ trace' = trace \o <<ToolCall(Top.start, call, Top.knows, FALSE),
                                     ToolResult(Len(trace) + 1, Len(trace) + 1, answer)>>
              /\ stack' = [stack EXCEPT ![Len(stack)] =
                              [Top EXCEPT !.pending = Tail(@), !.knows = @ \/ answer.hold]]
              /\ tickets' = IF call.tool \in Tools(Top.role)
                            THEN TicketsAfter(tickets, call) ELSE tickets
    /\ UNCHANGED <<setup, draft>>

WorkerFor(tool) ==
    CASE tool = "delegate_to_crm_worker" -> "crm_worker"
      [] tool = "delegate_to_ticketing_worker" -> "ticketing_worker"

Delegates(call) == call.tool \in {"delegate_to_crm_worker", "delegate_to_ticketing_worker"}

\* The supervisor's tools are agents: the worker runs before the result.
Delegate ==
    /\ Running /\ Top.pending # <<>> /\ Top.role = "supervisor"
    /\ LET call == Head(Top.pending)
           id == Len(trace) + 1
       IN  /\ Delegates(call)
           /\ trace' = trace \o <<ToolCall(Top.start, call, Top.knows, TRUE),
                                  Event("worker_start", id),
                                  Event("agent_start", id + 1)>>
           /\ stack' = Append(stack, Agent(WorkerFor(call.tool), id + 2, call.tells))
    /\ UNCHANGED <<setup, tickets, draft>>

UnknownDelegate ==
    /\ Running /\ Top.pending # <<>> /\ Top.role = "supervisor"
    /\ LET call == Head(Top.pending)
       IN  /\ ~Delegates(call)
           /\ trace' = trace \o <<ToolCall(Top.start, call, Top.knows, TRUE),
                                  ToolResult(Len(trace) + 1, Len(trace) + 1, Raised)>>
           /\ stack' = [stack EXCEPT ![Len(stack)] = [Top EXCEPT !.pending = Tail(@)]]
    /\ UNCHANGED <<setup, tickets, draft>>

-----------------------------------------------------------------------------
(* A trial *)

FirstAgent(arch) ==
    CASE arch = "single_agent"      -> "solo"
      [] arch = "peer_to_peer"      -> "crm"
      [] arch = "supervisor_worker" -> "supervisor"
      [] arch = "debate_critic"     -> "proposer"

FirstEvent(arch) == IF arch = "supervisor_worker" THEN "supervisor_start" ELSE "agent_start"

NoTrial == [arch |-> "", task |-> "", flaky |-> FALSE]

TrialInit ==
    /\ setup = NoTrial
    /\ stack = <<>> /\ trace = <<>> /\ tickets = <<>>
    /\ draft = Plain

\* run_baseline: a seeded table, a new trace, the first agent.
StartTrial(arch, task, flaky) ==
    /\ setup' = [arch |-> arch, task |-> task, flaky |-> flaky]
    /\ tickets' = Seeded
    /\ trace' = <<Event("run_start", 0), Event(FirstEvent(arch), 1)>>
    /\ stack' = <<Agent(FirstAgent(arch), 2, FALSE)>>
    /\ draft' = Plain

TrialStep ==
    \/ ModelFails
    \/ ModelAnswers
    \/ ModelAsksForTools
    \/ TurnsUsedUp
    \/ ExecuteTool
    \/ Delegate
    \/ UnknownDelegate
=============================================================================
