----------------------------- MODULE MCHandoff ------------------------------
(* Small instances of the hand-off study. *)
EXTENDS HandoffSweep

Call(tool, customer, ticket, status, tier, description) ==
    [tool |-> tool, customer |-> customer, ticket |-> ticket, status |-> status,
     tier |-> tier, description |-> description, tells |-> FALSE]

Look     == Call("get_customer_profile", "asked", 0, "", "", "")
LookAway == Call("get_customer_profile", "other", 0, "", "", "")
Hold     == Call("update_ticket", "", 1, "on_hold", "", "tagged")
Escalate == Call("update_ticket", "", 1, "escalated", "enterprise", "")
Astray   == Call("update_ticket", "", 9, "escalated", "enterprise", "")
Create   == Call("create_ticket", "asked", 0, "on_hold", "", "tagged")
ToWorker(worker, tells) == [Call(worker, "", 0, "", "", "") EXCEPT !.tells = tells]

MCLimit ==
    [solo |-> 3, crm |-> 2, ticketing |-> 2, supervisor |-> 2, crm_worker |-> 1,
     ticketing_worker |-> 1, proposer |-> 2, critic |-> 1, revision |-> 1]

Ticketing == {<<Hold>>, <<Escalate>>, <<Astray>>, <<Create>>, <<Look>>}
MCBatches ==
    [solo       |-> {<<Look>>, <<Hold>>, <<Escalate>>, <<Astray>>, <<Look, Escalate>>},
     crm        |-> {<<Look>>, <<LookAway>>, <<Escalate>>},
     ticketing  |-> Ticketing,
     supervisor |-> {<<ToWorker("delegate_to_crm_worker", FALSE)>>,
                     <<ToWorker("delegate_to_ticketing_worker", FALSE)>>,
                     <<ToWorker("delegate_to_ticketing_worker", TRUE)>>,
                     <<ToWorker("delegate_to_nobody", FALSE)>>,
                     <<ToWorker("delegate_to_crm_worker", FALSE),
                       ToWorker("delegate_to_ticketing_worker", FALSE)>>},
     crm_worker |-> {<<Look>>, <<Escalate>>},
     ticketing_worker |-> {<<Hold>>, <<Escalate>>, <<Look>>},
     proposer   |-> {<<Look>>, <<Hold>>, <<Look, Escalate>>},
     critic     |-> {<<Look>>},
     revision   |-> {<<Hold>>, <<Escalate>>, <<Look>>}]

Tasks == {"task_01", "task_02"}
MCProviders == {"gemini", "anthropic"}

\* By hand: every architecture and task; the CRM may fail for the short ones.
MCByHand ==
    [arch: Architectures, task: Tasks, flaky: {FALSE}]
    \cup [arch: {"single_agent"}, task: Tasks, flaky: {TRUE}]

\* Sweeps of up to two runs: two providers, of which either may have no key, so
\* that runs are skipped first, last or throughout; two tasks; and a cell with a
\* number of trials of its own.
MCArguments ==
    {[providers |-> <<"gemini", "anthropic">>, archs |-> <<"peer_to_peer">>,
      tasks |-> <<"task_02">>, trials |-> 1, swTrials |-> <<>>],
     [providers |-> <<"gemini">>, archs |-> <<"single_agent">>,
      tasks |-> <<"task_01", "task_02">>, trials |-> 1, swTrials |-> <<>>],
     [providers |-> <<"anthropic">>, archs |-> <<"supervisor_worker", "single_agent">>,
      tasks |-> <<"task_02">>, trials |-> 1, swTrials |-> <<0>>]}
=============================================================================
