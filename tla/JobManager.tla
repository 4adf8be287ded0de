---------------------------- MODULE JobManager ----------------------------
(***************************************************************************)
(* The runs a browser starts: JobManager, Job and ArenaAPI.start_run of    *)
(* agent_arena/web/api.py.  Each HTTP request has a thread of its own, and *)
(* so has each job.  The manager's dict of jobs and its index of projects  *)
(* change under one lock; a job's status is read outside it.               *)
(*                                                                         *)
(* The run inside a job is reduced to what it returns (module ArenaRunner  *)
(* has the rest): a whole sweep, or one cut short by the budget or by the  *)
(* job's cancel_event.                                                     *)
(***************************************************************************)
EXTENDS Naturals, FiniteSets

CONSTANTS
    Clients,        \* the request threads that may be under way at once
    Projects,
    MaxRetained,    \* MAX_RETAINED_JOBS
    MaxJobs,        \* bound: jobs that are ever started
    NoProject

ASSUME JobBoundsAssumption == MaxRetained \in Nat /\ MaxJobs \in Nat
ASSUME NoProjectAssumption == NoProject \notin Projects

VARIABLES
    started,    \* how many jobs were started; a job's number is its dict order
    jobStatus,  \* Job.status
    project,    \* Job.project
    held,       \* the keys of _jobs
    index,      \* _by_project, 0 where it has no entry
    cancel,     \* the jobs whose cancel_event is set
    verdict,    \* what runner.run() returned, while the job is not published
    asking      \* the project a client found free and is about to start

jobVars == <<started, jobStatus, project, held, index, cancel, verdict, asking>>

Job == 1..MaxJobs
LiveStatuses == {"starting", "running"}
IsLive(j) == jobStatus[j] \in LiveStatuses
Finished(h) == {j \in h : ~IsLive(j)}

JobsTypeOK ==
    /\ started \in 0..MaxJobs
    /\ jobStatus \in [Job -> LiveStatuses \cup {"none", "done", "error", "cancelled"}]
    /\ project \in [Job -> Projects \cup {NoProject}]
    /\ \A j \in Job : j <= started <=> jobStatus[j] # "none"
    /\ \A j \in Job : j <= started <=> project[j] # NoProject
    /\ held \subseteq 1..started
    /\ index \in [Projects -> 0..started]
    /\ cancel \subseteq 1..started
    /\ verdict \in [Job -> {"none", "whole", "budget", "cancelled"}]
    /\ asking \in [Clients -> Projects \cup {NoProject}]

JobsInit ==
    /\ started = 0
    /\ jobStatus = [j \in Job |-> "none"]
    /\ project = [j \in Job |-> NoProject]
    /\ held = {}
    /\ index = [p \in Projects |-> 0]
    /\ cancel = {}
    /\ verdict = [j \in Job |-> "none"]
    /\ asking = [c \in Clients |-> NoProject]

\* Mutant: only a job that has not begun its calls counts as active.
ActiveForStarting(p) ==
    IF index[p] \in held /\ jobStatus[index[p]] = "starting" THEN index[p] ELSE 0

\* The job the manager would answer a second click with, or 0.
ActiveFor(p) ==
    IF index[p] \in held /\ IsLive(index[p]) THEN index[p] ELSE 0

\* POST .../run.  With a run active the client gets its snapshot and nothing
\* changes; otherwise it goes on to start one, holding no lock meanwhile.
ClickRun(c, p) ==
    /\ asking[c] = NoProject
    /\ ActiveFor(p) = 0
    /\ asking' = [asking EXCEPT ![c] = p]
    /\ UNCHANGED <<started, jobStatus, project, held, index, cancel, verdict>>

\* Mutant: counts every job against the cap and drops the oldest, live or not.
ForgettableAnyJob(h) == {j \in h : Cardinality({k \in h : k > j}) >= MaxRetained}

\* finished[: len(finished) - MAX_RETAINED_JOBS], in dict order.  A status may
\* change while the list is built; a job that ends then is counted next time.
Forgettable(h) ==
    {j \in Finished(h) : Cardinality({k \in Finished(h) : k > j}) >= MaxRetained}

\* Mutant: the index keeps the forgotten job's entry.
IndexAsItWas(p, j, forgotten) == IF p = project'[j] THEN j ELSE index[p]

\* _by_project[p] once job j is entered and the old ones are forgotten.
IndexAfter(p, j, forgotten) ==
    IF p = project'[j] THEN j
    ELSE IF index[p] \in forgotten THEN 0 ELSE index[p]

\* JobManager.start: under the lock, enter the job and forget the oldest.
StartJob(c) ==
    /\ asking[c] # NoProject
    /\ started < MaxJobs
    /\ started' = started + 1
    /\ jobStatus' = [jobStatus EXCEPT ![started'] = "starting"]
    /\ project' = [project EXCEPT ![started'] = asking[c]]
    /\ LET forgotten == Forgettable(held)
       IN /\ held' = (held \cup {started'}) \ forgotten
          /\ index' = [p \in Projects |-> IndexAfter(p, started', forgotten)]
    /\ asking' = [asking EXCEPT ![c] = NoProject]
    /\ UNCHANGED <<cancel, verdict>>

\* The job's thread: on_event("run_start").
RunStarts(j) ==
    /\ jobStatus[j] = "starting"
    /\ jobStatus' = [jobStatus EXCEPT ![j] = "running"]
    /\ UNCHANGED <<started, project, held, index, cancel, verdict, asking>>

\* runner.run() returns.  It looks at the event between calls only, so a flag
\* set too late leaves a whole sweep.
RunReturns(j) ==
    /\ jobStatus[j] = "running"
    /\ verdict[j] = "none"
    /\ \E v \in {"whole", "budget", "cancelled"} :
          /\ v = "cancelled" => j \in cancel
          /\ verdict' = [verdict EXCEPT ![j] = v]
    /\ UNCHANGED <<started, jobStatus, project, held, index, cancel, asking>>

\* Mutant: a run that returned is done.
PublishDone(j) ==
    /\ verdict[j] # "none"
    /\ jobStatus[j] = "running"
    /\ jobStatus' = [jobStatus EXCEPT ![j] = "done"]
    /\ UNCHANGED <<started, project, held, index, cancel, verdict, asking>>

Publish(j) ==
    /\ verdict[j] # "none"
    /\ jobStatus[j] = "running"
    /\ jobStatus' = [jobStatus EXCEPT ![j] = IF j \in cancel THEN "cancelled" ELSE "done"]
    /\ UNCHANGED <<started, project, held, index, cancel, verdict, asking>>

\* The config, the run or its presentation raises: shown to the browser.
JobFails(j) ==
    /\ IsLive(j)
    /\ jobStatus' = [jobStatus EXCEPT ![j] = "error"]
    /\ UNCHANGED <<started, project, held, index, cancel, verdict, asking>>

\* POST /api/jobs/{id}/cancel: a 404 for a forgotten job, idempotent otherwise.
CancelJob(j) ==
    /\ j \in held
    /\ cancel' = cancel \cup {j}
    /\ UNCHANGED <<started, jobStatus, project, held, index, verdict, asking>>

JobThread(j) == RunStarts(j) \/ RunReturns(j) \/ Publish(j) \/ JobFails(j)

JobsNext ==
    \/ \E c \in Clients : (\E p \in Projects : ClickRun(c, p)) \/ StartJob(c)
    \/ \E j \in Job : JobThread(j) \/ CancelJob(j)

JobsSpec == JobsInit /\ [][JobsNext]_jobVars

-----------------------------------------------------------------------------
(* What must hold *)

\* A job that is running can be polled and cancelled: losing it would leave a
\* run that spends money with no handle on it (_forget_old_jobs).
LiveJobsAreHeld == \A j \in Job : IsLive(j) => j \in held

\* The index never names a job that is gone or of another project, and the
\* newest job of a project, while it lives, is the one a click is answered with.
IndexFindsTheNewest ==
    /\ \A p \in Projects : index[p] # 0 =>
          index[p] \in held /\ project[index[p]] = p
    /\ \A j \in Job : (IsLive(j) /\ \A k \in Job : project[k] = project[j] => k <= j)
                         => ActiveFor(project[j]) = j

\* A sweep that was cut short by a cancellation is never shown as done.
CancelledIsNeverDone ==
    \A j \in Job : verdict[j] = "cancelled" => jobStatus[j] # "done"

\* api.py:601 "Double-clicking Run must not spend twice": a project never has
\* two runs alive.  True of clicks that come one after the other, false of two
\* requests that both ask active_for before either of them starts its job.
OneLiveRunPerProject ==
    \A j, k \in Job : (IsLive(j) /\ IsLive(k) /\ project[j] = project[k]) => j = k
=============================================================================
