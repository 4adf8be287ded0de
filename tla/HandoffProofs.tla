--------------------------- MODULE HandoffProofs ----------------------------
(***************************************************************************)
(* Theorems about the hand-off study, for every task, every set of tool    *)
(* calls the models may ask for, every number of turns, and every sweep.   *)
(***************************************************************************)
EXTENDS HandoffSweep, FoldFacts, SequenceTheorems

-----------------------------------------------------------------------------
(* The inductive invariant *)

\* STRING, with the model's own words spelled out: the provers know no literal
\* as an element of STRING.
Text == STRING \cup {"", "asked", "open", "unknown", "standard", "enterprise", "none",
                     "incomplete", "tool_error_unrecovered", "coordination_failure",
                     "task_failure"}

WordSet == [spelling: Spellings, tells: BOOLEAN]
AnswerSet == [error: BOOLEAN, changed: BOOLEAN, tier: Text, hold: BOOLEAN]
RowSet == [customer: Text, status: Text, tier: Text, tagged: BOOLEAN]
AgentSet == [role: Roles, start: Nat, left: Nat, pending: Seq(Calls), knows: BOOLEAN]
GradeSet == [passed: BOOLEAN, score: Nat, category: Text]
RecordSet == [skipped: BOOLEAN, grade: GradeSet]
RunSet == [arch: Architectures, task: Text, provider: Providers]

\* Events that only say that something happened.
OwnTypes == {"run_start", "agent_start", "supervisor_start", "llm_call", "llm_response",
             "error", "agent_finish", "supervisor_finish", "run_finish",
             "critic_review", "revision_start", "revision_finish"}

EventSet ==
    [type: OwnTypes \cup {"worker_start"}, parent: Nat]
    \cup [type: {"peer_handoff", "worker_finish"}, parent: Nat, words: WordSet]
    \cup [type: {"tool_call"}, parent: Nat, call: Calls, knew: BOOLEAN, delegated: BOOLEAN]
    \cup [type: {"tool_result"}, parent: Nat, call: Nat, answer: AnswerSet]

TrialTypes ==
    /\ setup \in [arch: Architectures \cup {""}, task: Text, flaky: BOOLEAN]
    /\ stack \in Seq(AgentSet)
    /\ trace \in Seq(EventSet)
    /\ tickets \in Seq(RowSet)
    /\ draft \in WordSet

SweepTypes ==
    /\ phase \in {"next", "running", "recorded", "truncated", "ended", "crashed", "by_hand"}
    /\ plan \in Seq(RunSet)
    /\ position \in Nat
    /\ results \in Seq(RecordSet)
    /\ manifest \in [state: {"missing", "torn", "whole"}, runs: Seq(RecordSet)]

TypeOK == TrialTypes /\ SweepTypes

RolesOf(arch) ==
    CASE arch = "single_agent"      -> {"solo"}
      [] arch = "peer_to_peer"      -> {"crm", "ticketing"}
      [] arch = "supervisor_worker" -> {"supervisor"}
      [] arch = "debate_critic"     -> {"proposer", "critic", "revision"}
Workers == {"crm_worker", "ticketing_worker"}

\* A worker's first event, the delegation's start and the delegation.
WorkerCalled(t, start) ==
    /\ start \in DOMAIN t /\ start - 1 \in DOMAIN t /\ start - 2 \in DOMAIN t
    /\ t[start].parent = start - 1
    /\ t[start - 1].type = "worker_start" /\ t[start - 1].parent = start - 2
    /\ t[start - 2].type = "tool_call" /\ Delegates(t[start - 2].call)

\* An architecture's agents follow one another; only a supervisor has one
\* above it.
StackFits ==
    /\ setup # NoTrial => setup.arch \in Architectures
    /\ stack # <<>> => setup # NoTrial /\ stack[1].role \in RolesOf(setup.arch)
    /\ Len(stack) \in 0..2
    /\ Len(stack) = 2 => /\ stack[1].role = "supervisor" /\ stack[1].pending # <<>>
                         /\ stack[2].role \in Workers
                         /\ WorkerCalled(trace, stack[2].start)
    /\ \A k \in DOMAIN stack : stack[k].start \in DOMAIN trace

\* Some event of the type tells of the hold, whatever its words.
Told(t, type) == \E i \in Events(t, type) : t[i].words.tells

\* Where the trace shows that the hold came through.
Seen(arch, t) ==
    CASE arch = "peer_to_peer"      -> Told(t, "peer_handoff")
      [] arch = "supervisor_worker" -> Told(t, "worker_finish")
      [] OTHER                      -> HoldSeenInCrm(t)

ResultFits(arch, t, i) ==
    /\ t[i].call \in DOMAIN t /\ t[t[i].call].type = "tool_call"
    /\ t[i].answer.hold =>
          ~t[i].answer.error /\ t[t[i].call].call.tool = "get_customer_profile"
    /\ t[i].answer.changed /\ t[t[i].call].knew => Seen(arch, t)

TraceFits(arch, t) ==
    /\ \A i \in Events(t, "tool_result") : ResultFits(arch, t, i)
    /\ Events(t, "peer_handoff") # {} => arch = "peer_to_peer"
    /\ Events(t, "worker_start") # {} => arch = "supervisor_worker"
    /\ Events(t, "worker_finish") # {} => Events(t, "worker_start") # {}

\* Whoever may change a ticket and knows of the hold learned it in the trace.
Informed(agent, arch, t) ==
    /\ agent.knows /\ agent.role \notin {"crm", "crm_worker"} => Seen(arch, t)
    /\ \A c \in DOMAIN agent.pending : agent.pending[c].tells => agent.knows

KnowledgeShows ==
    /\ \A k \in DOMAIN stack : Informed(stack[k], setup.arch, trace)
    /\ stack # <<>> /\ draft.tells => Seen(setup.arch, trace)

\* The first agent's turns are used up by calls of the model, and a trial ends
\* in a finish, an error, or with that agent's last turn.
LlmCalls(t) == Cardinality({i \in Events(t, "llm_call") : t[i].parent = 2})
CutOff ==
    \/ HasFinished(trace)
    \/ Events(trace, "error") # {}
    \/ LlmCalls(trace) >= Limit[FirstAgent(setup.arch)]

TurnsCounted ==
    /\ stack # <<>> /\ stack[1].role = FirstAgent(setup.arch) =>
          /\ stack[1].start = 2
          /\ LlmCalls(trace) + stack[1].left >= Limit[FirstAgent(setup.arch)]
    /\ stack = <<>> /\ setup # NoTrial => CutOff

\* Redoing one event of t, and all of them.
Redo(t, rows, e) ==
    IF e.type = "tool_result" /\ ~e.answer.error
    THEN TicketsAfter(rows, t[e.call].call) ELSE rows

Explains(t, rows) ==
    \E p \in [0..Len(t) -> Seq(RowSet)] :
        /\ p[0] = Seeded /\ p[Len(t)] = rows
        /\ \A k \in 1..Len(t) : p[k] = Redo(t, p[k - 1], t[k])

TrialInv ==
    /\ StackFits
    /\ TraceFits(setup.arch, trace)
    /\ KnowledgeShows
    /\ TurnsCounted
    /\ setup # NoTrial => Explains(trace, tickets)

\* The records and the manifest, and how far the plan has come.
RecordFits(r) == /\ r.skipped => r.grade = Ungraded
                 /\ r.grade.passed => r.grade.category # "incomplete"

ManifestFits ==
    /\ Len(manifest.runs) \in 0..Len(results)
    /\ \A i \in DOMAIN manifest.runs : manifest.runs[i] = results[i]
    /\ phase \in {"next", "running", "ended"} =>
          \A i \in DOMAIN results : i > Len(manifest.runs) => results[i].skipped
    /\ manifest.state = "whole" =>
          \A i \in DOMAIN results :
              i > Len(manifest.runs) /\ i < Len(results) => results[i].skipped

SweepInv ==
    /\ \A i \in DOMAIN results : RecordFits(results[i])
    /\ Len(results) \in 0..Len(plan)
    /\ phase \in {"next", "running", "ended"} => position = Len(results) + 1
    /\ phase \in {"recorded", "truncated"} => position = Len(results)
    /\ phase = "running" => More
    /\ phase = "ended" => Len(results) = Len(plan)
    /\ ManifestFits

IInv == TypeOK /\ TrialInv /\ SweepInv

-----------------------------------------------------------------------------
(* A trace that grows *)

Extended(t, m, u) ==
    /\ u \in Seq(EventSet)
    /\ Len(u) = Len(t) + Len(m)
    /\ \A i \in DOMAIN t : i \in DOMAIN u /\ u[i] = t[i]
    /\ \A j \in DOMAIN m : Len(t) + j \in DOMAIN u /\ u[Len(t) + j] = m[j]
    /\ \A i \in DOMAIN u : i \in DOMAIN t \/ (i - Len(t) \in DOMAIN m /\ u[i] = m[i - Len(t)])

LEMMA Grown ==
  \A t, m \in Seq(EventSet) : Extended(t, m, t \o m)
<1> SUFFICES ASSUME NEW t \in Seq(EventSet), NEW m \in Seq(EventSet)
             PROVE  Extended(t, m, t \o m)
  OBVIOUS
<1> HIDE DEF EventSet
<1>1. t \o m \in Seq(EventSet) /\ Len(t \o m) = Len(t) + Len(m)
  OBVIOUS
<1>2. /\ DOMAIN t = 1..Len(t) /\ DOMAIN m = 1..Len(m)
      /\ DOMAIN (t \o m) = 1..(Len(t) + Len(m))
      /\ Len(t) \in Nat /\ Len(m) \in Nat
  OBVIOUS
<1>3. \A i \in 1..(Len(t) + Len(m)) :
         (t \o m)[i] = IF i <= Len(t) THEN t[i] ELSE m[i - Len(t)]
  OBVIOUS
<1> QED
  BY <1>1, <1>2, <1>3 DEF Extended

\* What a longer trace still shows.
LEMMA SeenStays ==
  ASSUME NEW t \in Seq(EventSet), NEW m \in Seq(EventSet), NEW u, Extended(t, m, u),
         NEW arch, TraceFits(arch, t), Seen(arch, t)
  PROVE  Seen(arch, u)
<1>1. \A type : Told(t, type) => Told(u, type)
  BY DEF Told, Events, Extended
<1>2. HoldSeenInCrm(t) => HoldSeenInCrm(u)
  <2> SUFFICES ASSUME NEW i \in Answered(t, "get_customer_profile"), t[i].answer.hold
               PROVE  HoldSeenInCrm(u)
    BY DEF HoldSeenInCrm
  <2>1. i \in DOMAIN t /\ t[i].type = "tool_result" /\ ~t[i].answer.error
        /\ t[t[i].call].call.tool = "get_customer_profile"
    BY DEF Answered, Events
  <2>2. t[i].call \in DOMAIN t
    BY <2>1 DEF TraceFits, ResultFits, Events
  <2>3. i \in DOMAIN u /\ u[i] = t[i] /\ u[t[i].call] = t[t[i].call]
    BY <2>1, <2>2 DEF Extended
  <2>4. i \in Answered(u, "get_customer_profile")
    BY <2>1, <2>3 DEF Answered, Events
  <2> QED
    BY <2>3, <2>4 DEF HoldSeenInCrm
<1> QED
  BY <1>1, <1>2 DEF Seen

LEMMA EventsStay ==
  ASSUME NEW t \in Seq(EventSet), NEW m \in Seq(EventSet), NEW u, Extended(t, m, u)
  PROVE  /\ \A type : Events(t, type) \subseteq Events(u, type)
         /\ HasFinished(t) => HasFinished(u)
         /\ \A j \in DOMAIN m : Len(t) + j \in Events(u, m[j].type)
         /\ (\E j \in DOMAIN m : m[j].type \in FinishTypes) => HasFinished(u)
         /\ \A i \in DOMAIN u : u[i] \in EventSet
<1>1. u \in Seq(EventSet)
  BY DEF Extended
<1>2. \A i \in DOMAIN u : u[i] \in EventSet
  BY <1>1
<1> QED
  BY <1>2 DEF Extended, Events, HasFinished

\* The first agent's calls of the model are counted.
LEMMA CallsCounted ==
  ASSUME NEW t \in Seq(EventSet)
  PROVE  /\ LlmCalls(t) \in Nat
         /\ IsFiniteSet({i \in Events(t, "llm_call") : t[i].parent = 2})
         /\ \A type : IsFiniteSet(Events(t, type))
<1>1. IsFiniteSet(DOMAIN t)
  <2>1. DOMAIN t = 1..Len(t) /\ Len(t) \in Int /\ 1 \in Int
    OBVIOUS
  <2>2. IsFiniteSet(1..Len(t))
    BY <2>1, FS_Interval
  <2> QED
    BY <2>1, <2>2
<1>2. \A type : Events(t, type) \subseteq DOMAIN t
  BY DEF Events
<1>3. \A type : IsFiniteSet(Events(t, type))
  BY <1>1, <1>2, FS_Subset
<1> DEFINE T == {i \in Events(t, "llm_call") : t[i].parent = 2}
<1>4. IsFiniteSet(T)
  BY <1>3, FS_Subset
<1>5. Cardinality(T) \in Nat
  BY <1>4, FS_CardinalityType
<1> QED
  BY <1>3, <1>4, <1>5 DEF LlmCalls

LEMMA CallsStay ==
  ASSUME NEW t \in Seq(EventSet), NEW m \in Seq(EventSet), NEW u, Extended(t, m, u)
  PROVE  /\ LlmCalls(u) \in Nat
         /\ LlmCalls(u) >= LlmCalls(t)
         /\ (\E j \in DOMAIN m : m[j].type = "llm_call" /\ m[j].parent = 2)
               => LlmCalls(u) >= LlmCalls(t) + 1
<1> DEFINE T == {i \in Events(t, "llm_call") : t[i].parent = 2}
           U == {i \in Events(u, "llm_call") : u[i].parent = 2}
<1>1. u \in Seq(EventSet)
  BY DEF Extended
<1>2. LlmCalls(u) \in Nat /\ LlmCalls(t) \in Nat /\ IsFiniteSet(U) /\ IsFiniteSet(T)
  BY <1>1, CallsCounted
<1>3. T \subseteq U
  BY DEF Events, Extended
<1>4. LlmCalls(u) = Cardinality(U) /\ LlmCalls(t) = Cardinality(T)
  BY DEF LlmCalls
<1>5. ASSUME NEW j \in DOMAIN m, m[j].type = "llm_call", m[j].parent = 2
      PROVE  U # T
  <2>1. Len(t) + j \in U
    BY <1>5 DEF Events, Extended
  <2>2. Len(t) + j \notin T
    <3>1. DOMAIN t = 1..Len(t) /\ DOMAIN m = 1..Len(m) /\ Len(t) \in Nat
      OBVIOUS
    <3>2. Len(t) + j \notin DOMAIN t
      BY <3>1
    <3> QED
      BY <3>2 DEF Events
  <2> QED
    BY <2>1, <2>2
<1> HIDE DEF T, U
<1>6. Cardinality(T) <= Cardinality(U) /\ (Cardinality(T) = Cardinality(U) => T = U)
  BY <1>2, <1>3, FS_Subset
<1> QED
  BY <1>2, <1>4, <1>5, <1>6

\* What the new events must be like.
NewFits(arch, t, m, u) ==
    \A j \in DOMAIN m :
        /\ m[j].type = "tool_result" => ResultFits(arch, u, Len(t) + j)
        /\ m[j].type = "peer_handoff" => arch = "peer_to_peer"
        /\ m[j].type = "worker_start" => arch = "supervisor_worker"
        /\ m[j].type = "worker_finish" => Events(t, "worker_start") # {}

LEMMA Grow ==
  ASSUME NEW t \in Seq(EventSet), NEW m \in Seq(EventSet), NEW u, Extended(t, m, u),
         NEW arch, TraceFits(arch, t), NewFits(arch, t, m, u)
  PROVE  TraceFits(arch, u)
<1>1. Seen(arch, t) => Seen(arch, u)
  BY SeenStays
<1>2. \A i \in DOMAIN u : \/ i \in DOMAIN t /\ u[i] = t[i]
                          \/ \E j \in DOMAIN m : i = Len(t) + j /\ u[i] = m[j]
  <2>1. DOMAIN u = 1..Len(u) /\ Len(t) \in Nat
    BY DEF Extended
  <2>2. \A i \in DOMAIN u : i = Len(t) + (i - Len(t))
    BY <2>1
  <2> QED
    BY <2>2 DEF Extended
<1>3. ASSUME NEW i \in Events(u, "tool_result")
      PROVE  ResultFits(arch, u, i)
  <2>1. CASE i \in DOMAIN t
    <3>1. i \in Events(t, "tool_result") /\ u[i] = t[i]
      BY <1>3, <2>1 DEF Events, Extended
    <3>2. ResultFits(arch, t, i)
      BY <3>1 DEF TraceFits
    <3>3. t[i].call \in DOMAIN u /\ u[t[i].call] = t[t[i].call]
      BY <3>2 DEF ResultFits, Extended
    <3> QED
      BY <1>1, <3>1, <3>2, <3>3 DEF ResultFits
  <2>2. CASE i \notin DOMAIN t
    <3>1. i \in DOMAIN u /\ u[i].type = "tool_result"
      BY <1>3 DEF Events
    <3>2. PICK j \in DOMAIN m : i = Len(t) + j /\ u[i] = m[j]
      BY <1>2, <2>2, <3>1
    <3> QED
      BY <3>1, <3>2 DEF NewFits
  <2> QED
    BY <2>1, <2>2
<1>4. \A type : Events(t, type) \subseteq Events(u, type)
  BY EventsStay
<1>5. \A type : Events(u, type) # {} =>
         Events(t, type) # {} \/ \E j \in DOMAIN m : m[j].type = type
  BY <1>2 DEF Events
<1> HIDE DEF Extended
<1> QED
  BY <1>3, <1>4, <1>5 DEF TraceFits, NewFits

\* Events that only say that something happened change nothing of that.
Own(m) == \A j \in DOMAIN m : m[j].type \in OwnTypes

LEMMA GrowOwn ==
  ASSUME NEW t \in Seq(EventSet), NEW m \in Seq(EventSet), NEW u, Extended(t, m, u),
         NEW arch, TraceFits(arch, t), Own(m)
  PROVE  TraceFits(arch, u)
<1>1. NewFits(arch, t, m, u)
  BY DEF NewFits, Own, OwnTypes
<1> QED
  BY <1>1, Grow

-----------------------------------------------------------------------------
(* The calls done again *)

LEMMA Lengthened ==
  ASSUME NEW t \in Seq(EventSet), NEW m \in Seq(EventSet), NEW u, Extended(t, m, u),
         \A i \in DOMAIN t : t[i].type = "tool_result" => t[i].call \in DOMAIN t,
         NEW rows, Explains(t, rows),
         NEW q \in [0..Len(m) -> Seq(RowSet)], q[0] = rows,
         \A j \in 1..Len(m) : q[j] = Redo(u, q[j - 1], m[j])
  PROVE  Explains(u, q[Len(m)])
<1>1. PICK p \in [0..Len(t) -> Seq(RowSet)] :
        /\ p[0] = Seeded /\ p[Len(t)] = rows
        /\ \A k \in 1..Len(t) : p[k] = Redo(t, p[k - 1], t[k])
  BY DEF Explains
<1>2. Len(t) \in Nat /\ Len(m) \in Nat /\ Len(u) = Len(t) + Len(m)
      /\ DOMAIN t = 1..Len(t) /\ DOMAIN m = 1..Len(m)
  BY DEF Extended
<1> DEFINE r == [k \in 0..Len(u) |-> IF k <= Len(t) THEN p[k] ELSE q[k - Len(t)]]
<1>3. r \in [0..Len(u) -> Seq(RowSet)]
  BY <1>2
<1>4. r[0] = Seeded /\ r[Len(u)] = q[Len(m)]
  BY <1>1, <1>2
<1>5. ASSUME NEW k \in 1..Len(u)
      PROVE  r[k] = Redo(u, r[k - 1], u[k])
  <2>1. CASE k <= Len(t)
    <3>1. k \in DOMAIN t /\ k \in 1..Len(t)
      BY <1>2, <2>1
    <3>2. u[k] = t[k] /\ (t[k].type = "tool_result" => u[t[k].call] = t[t[k].call])
      BY <3>1 DEF Extended
    <3>3. r[k] = p[k] /\ r[k - 1] = p[k - 1]
      BY <1>2, <2>1, <3>1
    <3> HIDE DEF r
    <3>4. r[k] = Redo(t, r[k - 1], t[k])
      BY <1>1, <3>1, <3>3
    <3> QED
      BY <3>2, <3>4 DEF Redo
  <2>2. CASE k > Len(t)
    <3>1. k - Len(t) \in 1..Len(m)
      BY <1>2, <2>2
    <3>2. u[k] = m[k - Len(t)]
      <4>1. Len(t) + (k - Len(t)) = k
        BY <1>2
      <4> QED
        BY <1>2, <3>1, <4>1 DEF Extended
    <3>3. r[k] = q[k - Len(t)]
      BY <1>2, <2>2
    <3>4. r[k - 1] = q[(k - Len(t)) - 1]
      <4>1. CASE k - 1 = Len(t)
        BY <1>1, <1>2, <4>1
      <4>2. CASE k - 1 # Len(t)
        <5>1. k - 1 \in 0..Len(u) /\ ~(k - 1 <= Len(t))
              /\ (k - 1) - Len(t) = (k - Len(t)) - 1
          BY <1>2, <2>2, <4>2
        <5> QED
          BY <5>1
      <4> QED
        BY <4>1, <4>2
    <3> HIDE DEF r
    <3> QED
      BY <3>1, <3>2, <3>3, <3>4
  <2> QED
    BY <1>2, <2>1, <2>2
<1> HIDE DEF r
<1> QED
  BY <1>3, <1>4, <1>5 DEF Explains

LEMMA LengthenedQuietly ==
  ASSUME NEW t \in Seq(EventSet), NEW m \in Seq(EventSet), NEW u, Extended(t, m, u),
         \A i \in DOMAIN t : t[i].type = "tool_result" => t[i].call \in DOMAIN t,
         NEW rows \in Seq(RowSet), Explains(t, rows),
         \A j \in DOMAIN m : Redo(u, rows, m[j]) = rows
  PROVE  Explains(u, rows)
<1> DEFINE q == [j \in 0..Len(m) |-> rows]
<1>1. q \in [0..Len(m) -> Seq(RowSet)] /\ q[0] = rows /\ q[Len(m)] = rows
  OBVIOUS
<1>2. \A j \in 1..Len(m) : j \in DOMAIN m /\ j \in 0..Len(m) /\ j - 1 \in 0..Len(m)
  OBVIOUS
<1>3. \A j \in 1..Len(m) : q[j] = Redo(u, q[j - 1], m[j])
  BY <1>2
<1>4. Explains(u, q[Len(m)])
  <2> HIDE DEF q
  <2> QED
    BY <1>1, <1>3, Lengthened
<1> QED
  BY <1>1, <1>4

-----------------------------------------------------------------------------
(* The agents at work *)

LEMMA ArchitectureOf ==
  \A arch \in Architectures :
     /\ FirstAgent(arch) \in RolesOf(arch) /\ RolesOf(arch) \in SUBSET (Roles \ Workers)
     /\ "solo" \in RolesOf(arch) => arch = "single_agent" /\ FirstAgent(arch) = "solo"
     /\ "crm" \in RolesOf(arch) => arch = "peer_to_peer" /\ FirstAgent(arch) = "crm"
     /\ "ticketing" \in RolesOf(arch) => arch = "peer_to_peer" /\ FirstAgent(arch) = "crm"
     /\ "supervisor" \in RolesOf(arch) =>
           arch = "supervisor_worker" /\ FirstAgent(arch) = "supervisor"
     /\ "proposer" \in RolesOf(arch) => arch = "debate_critic" /\ FirstAgent(arch) = "proposer"
     /\ "critic" \in RolesOf(arch) => arch = "debate_critic" /\ FirstAgent(arch) = "proposer"
     /\ "revision" \in RolesOf(arch) => arch = "debate_critic" /\ FirstAgent(arch) = "proposer"
     /\ arch = "peer_to_peer" => RolesOf(arch) = {"crm", "ticketing"}
     /\ arch = "debate_critic" => RolesOf(arch) = {"proposer", "critic", "revision"}
BY DEF Architectures, FirstAgent, RolesOf, Roles, Workers

\* What the running agent is.
AtTop ==
    /\ setup.arch \in Architectures
    /\ Top \in AgentSet /\ Top.start \in DOMAIN trace
    /\ \/ Len(stack) = 1 /\ Top = stack[1] /\ Below = <<>> /\ stack = <<Top>>
          /\ Top.role \in RolesOf(setup.arch)
       \/ /\ Len(stack) = 2 /\ Top = stack[2] /\ Below = <<stack[1]>>
          /\ stack = <<stack[1], Top>> /\ stack[1] \in AgentSet
          /\ stack[1].role = "supervisor" /\ stack[1].pending # <<>>
          /\ setup.arch = "supervisor_worker"
          /\ Top.role \in Workers /\ WorkerCalled(trace, Top.start)

LEMMA TopIs ==
  ASSUME TrialTypes, TrialInv, Running
  PROVE  AtTop /\ Informed(Top, setup.arch, trace)
<1>1. stack \in Seq(AgentSet) /\ stack # <<>>
  BY DEF TrialTypes, Running
<1>2. Len(stack) \in 1..2 /\ DOMAIN stack = 1..Len(stack)
  BY <1>1 DEF TrialInv, StackFits
<1>3. setup # NoTrial /\ setup.arch \in Architectures /\ stack[1].role \in RolesOf(setup.arch)
  BY <1>1 DEF TrialInv, StackFits
<1> HIDE DEF AgentSet
<1>4. stack[Len(stack)] \in AgentSet /\ stack[1] \in AgentSet /\ Len(stack) \in DOMAIN stack
  BY <1>1, <1>2
<1>5. CASE Len(stack) = 1
  <2>1. stack = <<stack[1]>> /\ SubSeq(stack, 1, Len(stack) - 1) = <<>>
    BY <1>1, <1>5
  <2> QED
    BY <1>3, <1>4, <1>5, <2>1
       DEF AtTop, Top, Below, TrialInv, StackFits, KnowledgeShows
<1>6. CASE Len(stack) = 2
  <2>1. stack = <<stack[1], stack[2]>> /\ SubSeq(stack, 1, Len(stack) - 1) = <<stack[1]>>
    <3>1. stack = <<stack[1], stack[2]>>
      BY <1>1, <1>6
    <3>2. SubSeq(stack, 1, 1) \in Seq(AgentSet) /\ Len(SubSeq(stack, 1, 1)) = 1
          /\ SubSeq(stack, 1, 1)[1] = stack[1]
      BY <1>1, <1>6
    <3>3. \A s \in Seq(AgentSet) : Len(s) = 1 => s = <<s[1]>>
      OBVIOUS
    <3>4. SubSeq(stack, 1, 1) = <<stack[1]>>
      BY <3>2, <3>3
    <3> QED
      BY <1>6, <3>1, <3>4
  <2>2. stack[1].role = "supervisor" /\ stack[1].pending # <<>>
        /\ stack[2].role \in Workers
        /\ WorkerCalled(trace, stack[2].start)
    BY <1>6 DEF TrialInv, StackFits
  <2>3. setup.arch = "supervisor_worker"
    BY <1>3, <2>2, ArchitectureOf
  <2> QED
    BY <1>3, <1>4, <1>6, <2>1, <2>2, <2>3
       DEF AtTop, Top, Below, TrialInv, StackFits, KnowledgeShows
<1> QED
  BY <1>2, <1>5, <1>6

\* What one finds of the trial in its trace.
LEMMA TraceRefers ==
  ASSUME TrialTypes, TrialInv
  PROVE  /\ trace \in Seq(EventSet)
         /\ TraceFits(setup.arch, trace)
         /\ \A i \in DOMAIN trace :
               trace[i].type = "tool_result" => trace[i].call \in DOMAIN trace
BY DEF TrialTypes, TrialInv, TraceFits, ResultFits, Events

LEMMA EventTypes ==
  /\ \A type \in OwnTypes \cup {"worker_start"}, parent \in Nat :
        Event(type, parent) \in EventSet /\ Event(type, parent).type = type
        /\ Event(type, parent).parent = parent
  /\ \A type \in {"peer_handoff", "worker_finish"}, parent \in Nat, words \in WordSet :
        Spoken(type, parent, words) \in EventSet /\ Spoken(type, parent, words).type = type
        /\ Spoken(type, parent, words).words = words
  /\ \A parent \in Nat, call \in Calls, knew \in BOOLEAN, delegated \in BOOLEAN :
        LET e == ToolCall(parent, call, knew, delegated)
        IN  e \in EventSet /\ e.type = "tool_call" /\ e.call = call /\ e.knew = knew
  /\ \A parent \in Nat, call \in Nat, answer \in AnswerSet :
        LET e == ToolResult(parent, call, answer)
        IN  e \in EventSet /\ e.type = "tool_result" /\ e.call = call /\ e.answer = answer
<1>1. \A type \in OwnTypes \cup {"worker_start"}, parent \in Nat :
        Event(type, parent) \in EventSet /\ Event(type, parent).type = type
        /\ Event(type, parent).parent = parent
  BY DEF Event, EventSet
<1>2. \A type \in {"peer_handoff", "worker_finish"}, parent \in Nat, words \in WordSet :
        Spoken(type, parent, words) \in EventSet /\ Spoken(type, parent, words).type = type
        /\ Spoken(type, parent, words).words = words
  BY DEF Spoken, EventSet
<1>3. ASSUME NEW parent \in Nat, NEW call \in Calls, NEW knew \in BOOLEAN,
             NEW delegated \in BOOLEAN
      PROVE  LET e == ToolCall(parent, call, knew, delegated)
             IN  e \in EventSet /\ e.type = "tool_call" /\ e.call = call /\ e.knew = knew
  BY DEF ToolCall, EventSet
<1>4. ASSUME NEW parent \in Nat, NEW call \in Nat, NEW answer \in AnswerSet
      PROVE  LET e == ToolResult(parent, call, answer)
             IN  e \in EventSet /\ e.type = "tool_result" /\ e.call = call
                 /\ e.answer = answer
  BY DEF ToolResult, EventSet
<1> QED
  BY <1>1, <1>2, <1>3, <1>4

LEMMA EventKinds ==
  \A e \in EventSet :
     /\ e.parent \in Nat
     /\ e.type = "tool_call" => e.call \in Calls
     /\ e.type \in OwnTypes => e.type # "tool_result"
BY DEF EventSet, OwnTypes

LEMMA CallsLeft ==
  \A s \in Seq(Calls) : s # <<>> =>
     /\ Head(s) \in Calls /\ 1 \in DOMAIN s /\ Head(s) = s[1]
     /\ Tail(s) \in Seq(Calls)
     /\ \A c \in DOMAIN Tail(s) : c + 1 \in DOMAIN s /\ Tail(s)[c] = s[c + 1]
<1> SUFFICES ASSUME NEW s \in Seq(Calls), s # <<>>
             PROVE  /\ Head(s) \in Calls /\ 1 \in DOMAIN s /\ Head(s) = s[1]
                    /\ Tail(s) \in Seq(Calls)
                    /\ \A c \in DOMAIN Tail(s) :
                          c + 1 \in DOMAIN s /\ Tail(s)[c] = s[c + 1]
  OBVIOUS
<1> HIDE DEF Calls
<1>1. /\ Head(s) \in Calls /\ Tail(s) \in Seq(Calls) /\ Len(Tail(s)) = Len(s) - 1
      /\ \A c \in 1..Len(Tail(s)) : Tail(s)[c] = s[c + 1]
  BY HeadTailProperties
<1>2. DOMAIN Tail(s) = 1..Len(Tail(s)) /\ DOMAIN s = 1..Len(s) /\ Len(s) \in Nat
      /\ Len(s) > 0
  BY <1>1
<1>3. Head(s) = s[1]
  OBVIOUS
<1> QED
  BY <1>1, <1>2, <1>3

LEMMA AnswersAre ==
  /\ Raised \in AnswerSet /\ Raised.error /\ ~Raised.hold /\ ~Raised.changed
  /\ Nothing \in AnswerSet /\ ~Nothing.error /\ ~Nothing.hold /\ ~Nothing.changed
  /\ Changed \in AnswerSet /\ ~Changed.error /\ ~Changed.hold
<1>1. Raised \in AnswerSet /\ Nothing \in AnswerSet /\ Changed \in AnswerSet
  <2>1. \A error, changed, hold \in BOOLEAN, tier \in Text :
           Answer(error, changed, tier, hold) \in AnswerSet
    BY DEF Answer, AnswerSet
  <2>2. "" \in Text /\ TRUE \in BOOLEAN /\ FALSE \in BOOLEAN
    BY DEF Text
  <2> QED
    BY <2>1, <2>2 DEF Raised, Nothing, Changed
<1>2. /\ Raised.error /\ Raised.hold = FALSE /\ Raised.changed = FALSE
      /\ Nothing.error = FALSE /\ Nothing.hold = FALSE /\ Nothing.changed = FALSE
      /\ Changed.error = FALSE /\ Changed.hold = FALSE
  BY Zenon DEF Raised, Nothing, Changed, Answer
<1> QED
  BY <1>1, <1>2

-----------------------------------------------------------------------------
(* An agent returns: it leaves its last events, and its architecture some more *)

LastEvents == {m \in Seq(EventSet) : Own(m)}
Closes(m) == \E j \in DOMAIN m : m[j].type \in FinishTypes \cup {"error"}

\* What is known of a trace t after more events, the last of them in `tail`.
Shown(t, last, tail, u) ==
    /\ u \in Seq(EventSet)
    /\ TraceFits(setup.arch, u)
    /\ Explains(u, tickets)
    /\ Seen(setup.arch, t) => Seen(setup.arch, u)
    /\ LlmCalls(u) \in Nat /\ LlmCalls(t) \in Nat /\ LlmCalls(u) >= LlmCalls(t)
    /\ (\E j \in DOMAIN tail : tail[j].type = "llm_call" /\ tail[j].parent = 2)
          => LlmCalls(u) >= LlmCalls(t) + 1
    /\ \A i \in DOMAIN t : i \in DOMAIN u /\ u[i] = t[i]
    /\ Closes(last) \/ Closes(tail) => HasFinished(u) \/ Events(u, "error") # {}
    /\ \A j \in DOMAIN tail : /\ Len(t) + Len(last) + j \in DOMAIN u
                              /\ u[Len(t) + Len(last) + j] = tail[j]

LEMMA Closed ==
  ASSUME NEW t \in Seq(EventSet), NEW m \in Seq(EventSet), NEW u, Extended(t, m, u),
         Closes(m)
  PROVE  HasFinished(u) \/ Events(u, "error") # {}
<1>1. PICK j \in DOMAIN m : m[j].type \in FinishTypes \cup {"error"}
  BY DEF Closes
<1>2. Len(t) + j \in Events(u, m[j].type) /\
      ((\E i \in DOMAIN m : m[i].type \in FinishTypes) => HasFinished(u))
  BY <1>1, EventsStay
<1> QED
  BY <1>1, <1>2

LEMMA TailShown ==
  ASSUME TrialTypes, TrialInv, setup # NoTrial,
         NEW last \in LastEvents, NEW tail \in Seq(EventSet),
         NEW u, u = (trace \o last) \o tail,
         NewFits(setup.arch, trace \o last, tail, u),
         \A j \in DOMAIN tail : Redo(u, tickets, tail[j]) = tickets
  PROVE  Shown(trace, last, tail, u)
<1> DEFINE t == trace \o last
<1>1. trace \in Seq(EventSet) /\ last \in Seq(EventSet) /\ Own(last)
      /\ tickets \in Seq(RowSet)
  BY DEF LastEvents, TrialTypes
<1>2. Extended(trace, last, t)
  BY <1>1, Grown
<1>3. t \in Seq(EventSet)
  BY <1>2 DEF Extended
<1> HIDE DEF t
<1>4. Extended(t, tail, u)
  BY <1>3, Grown DEF t
<1>5. TraceFits(setup.arch, trace) /\ Explains(trace, tickets)
  BY DEF TrialInv
<1>6. TraceFits(setup.arch, t)
  BY <1>1, <1>2, <1>5, GrowOwn
<1>7. TraceFits(setup.arch, u)
  BY <1>3, <1>4, <1>6, Grow DEF t
<1>8. Seen(setup.arch, trace) => Seen(setup.arch, u)
  <2>1. Seen(setup.arch, trace) => Seen(setup.arch, t)
    BY <1>1, <1>2, <1>5, SeenStays
  <2>2. Seen(setup.arch, t) => Seen(setup.arch, u)
    BY <1>3, <1>4, <1>6, SeenStays
  <2> QED
    BY <2>1, <2>2
<1>9. Explains(t, tickets)
  <2>1. \A i \in DOMAIN trace :
           trace[i].type = "tool_result" => trace[i].call \in DOMAIN trace
    BY TraceRefers
  <2>2. \A j \in DOMAIN last : Redo(t, tickets, last[j]) = tickets
    BY <1>1 DEF Redo, Own, OwnTypes
  <2> QED
    BY <1>1, <1>2, <1>5, <2>1, <2>2, LengthenedQuietly
<1>10. Explains(u, tickets)
  <2>1. \A i \in DOMAIN t : t[i].type = "tool_result" => t[i].call \in DOMAIN t
    BY <1>6 DEF TraceFits, ResultFits, Events
  <2> QED
    BY <1>1, <1>3, <1>4, <1>9, <2>1, LengthenedQuietly
<1>11. /\ LlmCalls(u) \in Nat /\ LlmCalls(trace) \in Nat /\ LlmCalls(u) >= LlmCalls(trace)
       /\ (\E j \in DOMAIN tail : tail[j].type = "llm_call" /\ tail[j].parent = 2)
             => LlmCalls(u) >= LlmCalls(trace) + 1
  <2>1. LlmCalls(t) \in Nat /\ LlmCalls(t) >= LlmCalls(trace)
    BY <1>1, <1>2, CallsStay
  <2>2. /\ LlmCalls(u) \in Nat /\ LlmCalls(u) >= LlmCalls(t)
        /\ (\E j \in DOMAIN tail : tail[j].type = "llm_call" /\ tail[j].parent = 2)
              => LlmCalls(u) >= LlmCalls(t) + 1
    BY <1>3, <1>4, CallsStay
  <2>3. LlmCalls(trace) \in Nat
    BY <1>1, CallsCounted
  <2> QED
    BY <2>1, <2>2, <2>3
<1>12. Closes(last) \/ Closes(tail) => HasFinished(u) \/ Events(u, "error") # {}
  <2>1. Closes(last) => HasFinished(t) \/ Events(t, "error") # {}
    BY <1>1, <1>2, Closed
  <2>2. (HasFinished(t) => HasFinished(u)) /\ Events(t, "error") \subseteq Events(u, "error")
    BY <1>3, <1>4, EventsStay
  <2>3. Closes(tail) => HasFinished(u) \/ Events(u, "error") # {}
    BY <1>3, <1>4, Closed
  <2> QED
    BY <2>1, <2>2, <2>3
<1>13. \A i \in DOMAIN trace : i \in DOMAIN u /\ u[i] = trace[i]
  BY <1>2, <1>4 DEF Extended
<1>14. \A j \in DOMAIN tail : /\ Len(trace) + Len(last) + j \in DOMAIN u
                              /\ u[Len(trace) + Len(last) + j] = tail[j]
  BY <1>2, <1>4 DEF Extended
<1>15. u \in Seq(EventSet)
  BY <1>4 DEF Extended
<1> QED
  BY <1>7, <1>8, <1>10, <1>11, <1>12, <1>13, <1>14, <1>15 DEF Shown

\* The same when the architecture's events say no more than that something
\* happened.
LEMMA OwnTailShown ==
  ASSUME TrialTypes, TrialInv, setup # NoTrial,
         NEW last \in LastEvents, NEW tail \in LastEvents,
         NEW u, u = (trace \o last) \o tail
  PROVE  Shown(trace, last, tail, u)
<1>1. tail \in Seq(EventSet) /\ Own(tail)
  BY DEF LastEvents
<1>2. NewFits(setup.arch, trace \o last, tail, u)
  BY <1>1 DEF NewFits, Own, OwnTypes
<1>3. \A j \in DOMAIN tail : Redo(u, tickets, tail[j]) = tickets
  BY <1>1 DEF Redo, Own, OwnTypes
<1> QED
  BY <1>1, <1>2, <1>3, TailShown

\* A tail of two or three events, however it is put together.
LEMMA TailOfTwo ==
  \A t, last \in Seq(EventSet), a, b \in EventSet :
     /\ t \o (last \o <<a>>) \o <<b>> = (t \o last) \o <<a, b>>
     /\ Len(last \o <<a>>) = Len(last) + 1
<1> SUFFICES ASSUME NEW t \in Seq(EventSet), NEW last \in Seq(EventSet),
                    NEW a \in EventSet, NEW b \in EventSet
             PROVE  /\ t \o (last \o <<a>>) \o <<b>> = (t \o last) \o <<a, b>>
                    /\ Len(last \o <<a>>) = Len(last) + 1
  OBVIOUS
<1> HIDE DEF EventSet
<1>1. <<a>> \in Seq(EventSet) /\ <<b>> \in Seq(EventSet) /\ t \o last \in Seq(EventSet)
  OBVIOUS
<1>2. <<a>> \o <<b>> = <<a, b>>
  <2> DEFINE s == <<a>> \o <<b>>
  <2>1. s \in Seq(EventSet) /\ Len(s) = 2 /\ s[1] = a /\ s[2] = b
    BY <1>1
  <2> HIDE DEF s
  <2>2. s = <<s[1], s[2]>>
    BY <2>1
  <2> QED
    BY <2>1, <2>2 DEF s
<1>3. t \o (last \o <<a>>) = (t \o last) \o <<a>>
  BY <1>1, ConcatAssociative
<1>4. ((t \o last) \o <<a>>) \o <<b>> = (t \o last) \o (<<a>> \o <<b>>)
  BY <1>1, ConcatAssociative
<1>5. Len(last \o <<a>>) = Len(last) + 1
  BY <1>1
<1> QED
  BY <1>2, <1>3, <1>4, <1>5

LEMMA TailOfThree ==
  \A t, last \in Seq(EventSet), a, b, c \in EventSet :
     /\ t \o (last \o <<a, b>>) \o <<c>> = (t \o last) \o <<a, b, c>>
     /\ Len(last \o <<a, b>>) = Len(last) + 2
<1> SUFFICES ASSUME NEW t \in Seq(EventSet), NEW last \in Seq(EventSet),
                    NEW a \in EventSet, NEW b \in EventSet, NEW c \in EventSet
             PROVE  /\ t \o (last \o <<a, b>>) \o <<c>> = (t \o last) \o <<a, b, c>>
                    /\ Len(last \o <<a, b>>) = Len(last) + 2
  OBVIOUS
<1> HIDE DEF EventSet
<1>1. <<a, b>> \in Seq(EventSet) /\ <<c>> \in Seq(EventSet) /\ t \o last \in Seq(EventSet)
  OBVIOUS
<1>2. <<a, b>> \o <<c>> = <<a, b, c>>
  <2> DEFINE s == <<a, b>> \o <<c>>
  <2>1. s \in Seq(EventSet) /\ Len(s) = 3 /\ s[1] = a /\ s[2] = b /\ s[3] = c
    BY <1>1
  <2> HIDE DEF s
  <2>2. s = <<s[1], s[2], s[3]>>
    BY <2>1
  <2> QED
    BY <2>1, <2>2 DEF s
<1>3. t \o (last \o <<a, b>>) = (t \o last) \o <<a, b>>
  BY <1>1, ConcatAssociative
<1>4. ((t \o last) \o <<a, b>>) \o <<c>> = (t \o last) \o (<<a, b>> \o <<c>>)
  BY <1>1, ConcatAssociative
<1>5. Len(last \o <<a, b>>) = Len(last) + 2
  BY <1>1
<1> QED
  BY <1>2, <1>3, <1>4, <1>5

LEMMA WordsSay ==
  ASSUME TrialTypes, TrialInv, Running, NEW words \in Words(Top.knows)
  PROVE  words \in WordSet /\ (words.tells => Top.knows)
BY DEF Words, WordSet

LEMMA InTrial ==
  ASSUME TrialInv, Running
  PROVE  setup # NoTrial
BY DEF TrialInv, StackFits, Running

\* No agent is left.
LEMMA NobodyLeft ==
  ASSUME TrialTypes, TrialInv, Running, UNCHANGED <<setup, tickets, draft>>,
         NEW last, NEW tail, Shown(trace, last, tail, trace'), stack' = <<>>, CutOff'
  PROVE  (TrialTypes /\ TrialInv)'
<1>1. setup # NoTrial
  BY InTrial
<1>2. TrialTypes'
  <2>1. stack' \in Seq(AgentSet)
    OBVIOUS
  <2>2. trace' \in Seq(EventSet)
    BY DEF Shown
  <2> QED
    BY <2>1, <2>2 DEF TrialTypes
<1>3. StackFits'
  <2>1. Len(stack') = 0 /\ DOMAIN stack' = {}
    OBVIOUS
  <2> QED
    BY <2>1 DEF TrialInv, StackFits
<1>4. KnowledgeShows'
  <2>1. DOMAIN stack' = {}
    OBVIOUS
  <2> QED
    BY <2>1 DEF KnowledgeShows
<1>5. TraceFits(setup.arch, trace)' /\ Explains(trace, tickets)'
  BY DEF Shown
<1>6. TurnsCounted'
  BY DEF TurnsCounted
<1> QED
  BY <1>2, <1>3, <1>4, <1>5, <1>6 DEF TrialInv

\* The next agent of the architecture is at work.
LEMMA NextAtWork ==
  ASSUME TrialTypes, TrialInv, Running, UNCHANGED <<setup, tickets>>,
         NEW last, NEW tail, Shown(trace, last, tail, trace'),
         NEW role \in RolesOf(setup.arch), role # FirstAgent(setup.arch),
         NEW start \in DOMAIN trace', NEW knows \in BOOLEAN,
         stack' = <<Agent(role, start, knows)>>,
         draft' \in WordSet,
         knows => Seen(setup.arch, trace'), draft'.tells => Seen(setup.arch, trace')
  PROVE  (TrialTypes /\ TrialInv)'
<1> DEFINE agent == Agent(role, start, knows)
<1>1. setup # NoTrial /\ setup.arch \in Architectures
  BY InTrial DEF TrialInv, StackFits
<1>2. role \in Roles /\ start \in Nat
  <2>1. RolesOf(setup.arch) \in SUBSET (Roles \ Workers)
    BY <1>1, ArchitectureOf
  <2>2. trace' \in Seq(EventSet)
    BY DEF Shown
  <2>3. DOMAIN trace' = 1..Len(trace')
    BY <2>2
  <2> QED
    BY <2>1, <2>3
<1>3. /\ agent \in AgentSet /\ agent.role = role /\ agent.start = start
      /\ agent.knows = knows /\ agent.pending = <<>>
  <2>1. Limit[role] \in Nat
    BY <1>2, TrialAssumption
  <2>2. <<>> \in Seq(Calls)
    OBVIOUS
  <2> QED
    BY <1>2, <2>1, <2>2 DEF Agent, AgentSet
<1> HIDE DEF agent
<1>4. stack' = <<agent>>
  BY DEF agent
<1>5. Len(stack') = 1 /\ DOMAIN stack' = {1} /\ stack'[1] = agent /\ stack' # <<>>
  BY <1>4
<1>6. TrialTypes'
  <2>1. stack' \in Seq(AgentSet)
    <3> HIDE DEF AgentSet
    <3> QED
      BY <1>3, <1>4
  <2> QED
    BY <2>1 DEF TrialTypes, Shown
<1>7. StackFits'
  BY <1>1, <1>3, <1>5 DEF StackFits
<1>8. KnowledgeShows'
  BY <1>3, <1>5 DEF KnowledgeShows, Informed
<1>9. TraceFits(setup.arch, trace)' /\ Explains(trace, tickets)'
  BY DEF Shown
<1>10. TurnsCounted'
  BY <1>3, <1>5 DEF TurnsCounted
<1> QED
  BY <1>6, <1>7, <1>8, <1>9, <1>10 DEF TrialInv

\* Only a worker has an agent below it.
LEMMA AloneUnlessWorker ==
  ASSUME AtTop, Top.role \notin Workers
  PROVE  stack = <<Top>> /\ Top = stack[1] /\ Below = <<>> /\ Top.role \in RolesOf(setup.arch)
BY DEF AtTop

LEMMA ReturnAlone ==
  ASSUME TrialTypes, TrialInv, Running, UNCHANGED <<setup, tickets>>,
         NEW last \in LastEvents, Closes(last) \/ Top.left = 0,
         FinishAlone(Top.role, last)
  PROVE  (TrialTypes /\ TrialInv)'
<1>1. AtTop /\ setup # NoTrial /\ Top.role \in {"solo", "supervisor"} /\ stack' = <<>>
      /\ trace' = trace \o last /\ draft' = draft
  BY TopIs, InTrial DEF FinishAlone
<1>2. trace \in Seq(EventSet) /\ last \in Seq(EventSet)
  BY DEF TrialTypes, LastEvents
<1>3. trace' = (trace \o last) \o <<>>
  BY <1>1, <1>2, ConcatProperties, ConcatEmptySeq
<1>4. <<>> \in LastEvents
  BY DEF LastEvents, Own
<1>5. Shown(trace, last, <<>>, trace')
  BY <1>1, <1>3, <1>4, OwnTailShown
<1>6. CutOff'
  <2>1. CASE Closes(last)
    BY <1>5, <2>1 DEF Shown, CutOff
  <2>2. CASE Top.left = 0
    <3>1. Top = stack[1] /\ Top.role \in RolesOf(setup.arch) /\ stack # <<>>
      BY <1>1, AloneUnlessWorker DEF Workers, Running
    <3>2. Top.role = FirstAgent(setup.arch) /\ setup.arch \in Architectures
      BY <1>1, <3>1, ArchitectureOf DEF AtTop
    <3>3. LlmCalls(trace) + stack[1].left >= Limit[FirstAgent(setup.arch)]
      BY <3>1, <3>2 DEF TrialInv, TurnsCounted
    <3>4. Limit[FirstAgent(setup.arch)] \in Nat
      BY <3>2, ArchitectureOf, TrialAssumption
    <3>5. LlmCalls(trace') >= Limit[FirstAgent(setup.arch)]
      BY <1>5, <2>2, <3>1, <3>3, <3>4 DEF Shown
    <3> QED
      BY <3>5 DEF CutOff
  <2> QED
    BY <2>1, <2>2
<1> QED
  BY <1>1, <1>5, <1>6, NobodyLeft

LEMMA ReturnTicketingPeer ==
  ASSUME TrialTypes, TrialInv, Running, UNCHANGED <<setup, tickets>>,
         NEW last \in LastEvents, FinishTicketingPeer(Top.role, last)
  PROVE  (TrialTypes /\ TrialInv)'
<1> DEFINE finish == Event("run_finish", 1)
<1>1. setup # NoTrial /\ stack' = <<>> /\ draft' = draft
      /\ trace' = (trace \o last) \o <<finish>>
  BY InTrial DEF FinishTicketingPeer
<1>2. finish \in EventSet /\ finish.type = "run_finish"
  BY EventTypes DEF OwnTypes
<1> HIDE DEF finish
<1>3. <<finish>> \in LastEvents /\ Closes(<<finish>>)
  <2>1. <<finish>> \in Seq(EventSet) /\ DOMAIN <<finish>> = {1} /\ <<finish>>[1] = finish
    BY <1>2
  <2> QED
    BY <1>2, <2>1 DEF LastEvents, Own, OwnTypes, Closes, FinishTypes
<1>4. Shown(trace, last, <<finish>>, trace')
  BY <1>1, <1>3, OwnTailShown
<1>5. CutOff'
  BY <1>3, <1>4 DEF Shown, CutOff
<1> QED
  BY <1>1, <1>4, <1>5, NobodyLeft

LEMMA ReturnRevision ==
  ASSUME TrialTypes, TrialInv, Running, UNCHANGED <<setup, tickets>>,
         NEW last \in LastEvents, FinishRevision(Top.role, last)
  PROVE  (TrialTypes /\ TrialInv)'
<1> DEFINE revised == Event("revision_finish", trace[Top.start].parent)
           finish == Event("run_finish", 1)
<1>1. setup # NoTrial /\ stack' = <<>> /\ draft' = draft
      /\ trace' = (trace \o last) \o <<revised, finish>>
  BY InTrial DEF FinishRevision
<1>2. trace[Top.start].parent \in Nat
  <2>1. Top.start \in DOMAIN trace /\ trace \in Seq(EventSet)
    BY TopIs DEF AtTop, TrialTypes
  <2> QED
    BY <2>1, EventKinds
<1>3. finish \in EventSet /\ finish.type = "run_finish"
      /\ revised \in EventSet /\ revised.type = "revision_finish"
  BY <1>2, EventTypes DEF OwnTypes
<1> HIDE DEF finish, revised
<1>4. <<revised, finish>> \in LastEvents /\ Closes(<<revised, finish>>)
  <2>1. <<revised, finish>> \in Seq(EventSet) /\ DOMAIN <<revised, finish>> = {1, 2}
        /\ <<revised, finish>>[1] = revised /\ <<revised, finish>>[2] = finish
    BY <1>3
  <2> QED
    BY <1>3, <2>1 DEF LastEvents, Own, OwnTypes, Closes, FinishTypes
<1>5. Shown(trace, last, <<revised, finish>>, trace')
  BY <1>1, <1>4, OwnTailShown
<1>6. CutOff'
  BY <1>4, <1>5 DEF Shown, CutOff
<1> QED
  BY <1>1, <1>5, <1>6, NobodyLeft

LEMMA ReturnProposer ==
  ASSUME TrialTypes, TrialInv, Running, UNCHANGED <<setup, tickets>>,
         NEW last \in LastEvents, NEW words \in Words(Top.knows),
         FinishProposer(Top.role, last, words)
  PROVE  (TrialTypes /\ TrialInv)'
<1> DEFINE start == Event("agent_start", 1)
           knows == words.tells \/ SummaryTells
<1>1. setup # NoTrial /\ AtTop /\ Informed(Top, setup.arch, trace) /\ Top.role = "proposer" /\ draft' = words
      /\ trace' = (trace \o last) \o <<start>>
      /\ stack' = Append(Below, Agent("critic", Len(trace) + Len(last) + 1, knows))
  BY InTrial, TopIs DEF FinishProposer, Replaced
<1>2. start \in EventSet /\ start.type = "agent_start"
  BY EventTypes DEF OwnTypes
<1> HIDE DEF start
<1>3. <<start>> \in LastEvents /\ DOMAIN <<start>> = {1}
  <2>1. <<start>> \in Seq(EventSet) /\ DOMAIN <<start>> = {1} /\ <<start>>[1] = start
    BY <1>2
  <2> QED
    BY <1>2, <2>1 DEF LastEvents, Own, OwnTypes
<1>4. Shown(trace, last, <<start>>, trace')
  BY <1>1, <1>3, OwnTailShown
<1>5. Below = <<>> /\ setup.arch \in Architectures /\ setup.arch = "debate_critic"
      /\ FirstAgent(setup.arch) = "proposer" /\ "critic" \in RolesOf(setup.arch)
  BY <1>1, AloneUnlessWorker, ArchitectureOf DEF AtTop, Workers
<1>6. words \in WordSet /\ (words.tells => Top.knows) /\ knows \in BOOLEAN
  BY WordsSay DEF SummaryTells, WordSet
<1>7. words.tells => Seen(setup.arch, trace)
  BY <1>1, <1>6 DEF Informed
<1>8. SummaryTells => Seen(setup.arch, trace)
  <2> SUFFICES ASSUME NEW i \in EventsOf("tool_result"), trace[i].answer.hold
               PROVE  HoldSeenInCrm(trace)
    BY <1>5 DEF SummaryTells, Seen
  <2>1. i \in Events(trace, "tool_result")
    BY DEF EventsOf, Events
  <2>2. ~trace[i].answer.error /\ trace[trace[i].call].call.tool = "get_customer_profile"
    BY <2>1 DEF TrialInv, TraceFits, ResultFits
  <2>3. i \in Answered(trace, "get_customer_profile")
    BY <2>1, <2>2 DEF Answered
  <2> QED
    BY <2>3 DEF HoldSeenInCrm
<1>9. Len(trace) + Len(last) + 1 \in DOMAIN trace'
  BY <1>3, <1>4 DEF Shown
<1>10. (knows => Seen(setup.arch, trace')) /\ (words.tells => Seen(setup.arch, trace'))
  BY <1>4, <1>7, <1>8 DEF Shown
<1> HIDE DEF knows
<1>11. stack' = <<Agent("critic", Len(trace) + Len(last) + 1, knows)>>
  BY <1>1, <1>5
<1> QED
  BY <1>1, <1>4, <1>5, <1>6, <1>9, <1>10, <1>11, NextAtWork

LEMMA ReturnCrmPeer ==
  ASSUME TrialTypes, TrialInv, Running, UNCHANGED <<setup, tickets>>,
         NEW last \in LastEvents, NEW words \in Words(Top.knows),
         FinishCrmPeer(Top.role, last, words)
  PROVE  (TrialTypes /\ TrialInv)'
<1> DEFINE handoff == Spoken("peer_handoff", 1, words)
           at == Len(trace) + Len(last) + 1
           start == Event("agent_start", at)
           tail == <<handoff, start>>
<1>1. setup # NoTrial /\ AtTop /\ Top.role = "crm" /\ draft' = draft
      /\ trace' = trace \o (last \o <<handoff>>) \o <<start>>
      /\ stack' = Append(Below, Agent("ticketing", Len(trace) + Len(last \o <<handoff>>) + 1,
                                      words.tells))
  BY InTrial, TopIs DEF FinishCrmPeer, Replaced
<1>2. words \in WordSet /\ words.tells \in BOOLEAN
  BY WordsSay DEF WordSet
<1>3. trace \in Seq(EventSet) /\ last \in Seq(EventSet) /\ tickets \in Seq(RowSet)
      /\ Len(trace) \in Nat /\ Len(last) \in Nat /\ at \in Nat
  <2>1. trace \in Seq(EventSet) /\ last \in Seq(EventSet) /\ tickets \in Seq(RowSet)
    BY DEF TrialTypes, LastEvents
  <2> QED
    BY <2>1
<1>4. handoff \in EventSet /\ handoff.type = "peer_handoff" /\ handoff.words = words
      /\ start \in EventSet /\ start.type = "agent_start"
  BY <1>2, <1>3, EventTypes DEF OwnTypes
<1> HIDE DEF handoff, start
<1>5. tail \in Seq(EventSet) /\ DOMAIN tail = {1, 2} /\ tail[1] = handoff /\ tail[2] = start
  BY <1>4
<1> HIDE DEF tail
<1>6. trace' = (trace \o last) \o tail /\ Len(last \o <<handoff>>) = Len(last) + 1
  BY <1>1, <1>3, <1>4, TailOfTwo DEF tail
<1>7. Below = <<>> /\ setup.arch \in Architectures /\ setup.arch = "peer_to_peer"
      /\ FirstAgent(setup.arch) = "crm" /\ "ticketing" \in RolesOf(setup.arch)
  BY <1>1, AloneUnlessWorker, ArchitectureOf DEF AtTop, Workers
<1>8. Shown(trace, last, tail, trace')
  <2>1. NewFits(setup.arch, trace \o last, tail, trace')
    BY <1>4, <1>5, <1>7 DEF NewFits
  <2>2. \A j \in DOMAIN tail : Redo(trace', tickets, tail[j]) = tickets
    BY <1>4, <1>5 DEF Redo
  <2> QED
    BY <1>1, <1>5, <1>6, <2>1, <2>2, TailShown
<1>9. at \in DOMAIN trace' /\ trace'[at] = handoff
      /\ at + 1 \in DOMAIN trace'
  <2>1. 1 \in DOMAIN tail /\ 2 \in DOMAIN tail
    BY <1>5
  <2>2. at \in DOMAIN trace' /\ trace'[at] = tail[1]
        /\ Len(trace) + Len(last) + 2 \in DOMAIN trace'
    BY <1>8, <2>1 DEF Shown
  <2>3. Len(trace) + Len(last) + 2 = at + 1
    BY <1>3
  <2> QED
    BY <1>5, <2>2, <2>3
<1>10. words.tells => Seen(setup.arch, trace')
  <2>1. words.tells => Told(trace', "peer_handoff")
    BY <1>2, <1>4, <1>9 DEF Told, Events
  <2> QED
    BY <1>7, <2>1 DEF Seen
<1>11. stack' = <<Agent("ticketing", at + 1, words.tells)>>
  <2>1. Len(trace) + Len(last \o <<handoff>>) + 1 = at + 1
    BY <1>3, <1>6
  <2> HIDE DEF at
  <2> QED
    BY <1>1, <1>7, <2>1
<1>12. draft' \in WordSet /\ (draft'.tells => Seen(setup.arch, trace'))
  <2>1. draft.tells => Seen(setup.arch, trace)
    BY DEF TrialInv, KnowledgeShows, Running
  <2> QED
    BY <1>1, <1>8, <2>1 DEF Shown, TrialTypes
<1> HIDE DEF at
<1> QED
  BY <1>2, <1>7, <1>8, <1>9, <1>10, <1>11, <1>12, NextAtWork

LEMMA ReturnCritic ==
  ASSUME TrialTypes, TrialInv, Running, UNCHANGED <<setup, tickets>>,
         NEW last \in LastEvents, NEW words \in Words(Top.knows),
         FinishCritic(Top.role, last, words)
  PROVE  (TrialTypes /\ TrialInv)'
<1> DEFINE review == Event("critic_review", 1)
           revise == Event("revision_start", 1)
           at == Len(trace) + Len(last) + 2
           start == Event("agent_start", at)
           tail == <<review, revise, start>>
           knows == draft.tells \/ words.tells
<1>1. setup # NoTrial /\ AtTop /\ Informed(Top, setup.arch, trace) /\ Top.role = "critic" /\ draft' = draft
      /\ trace' = trace \o (last \o <<review, revise>>) \o <<start>>
      /\ stack' = Append(Below, Agent("revision",
                               Len(trace) + Len(last \o <<review, revise>>) + 1, knows))
  BY InTrial, TopIs DEF FinishCritic, Replaced
<1>2. words \in WordSet /\ (words.tells => Top.knows) /\ knows \in BOOLEAN
      /\ draft \in WordSet
  BY WordsSay DEF WordSet, TrialTypes
<1>3. trace \in Seq(EventSet) /\ last \in Seq(EventSet)
      /\ Len(trace) \in Nat /\ Len(last) \in Nat /\ at \in Nat
  <2>1. trace \in Seq(EventSet) /\ last \in Seq(EventSet)
    BY DEF TrialTypes, LastEvents
  <2> QED
    BY <2>1
<1>4. review \in EventSet /\ review.type = "critic_review"
      /\ revise \in EventSet /\ revise.type = "revision_start"
      /\ start \in EventSet /\ start.type = "agent_start"
  BY <1>3, EventTypes DEF OwnTypes
<1> HIDE DEF review, revise, start
<1>5. tail \in Seq(EventSet) /\ DOMAIN tail = {1, 2, 3}
      /\ tail[1] = review /\ tail[2] = revise /\ tail[3] = start
  BY <1>4
<1> HIDE DEF tail
<1>6. tail \in LastEvents
  BY <1>4, <1>5 DEF LastEvents, Own, OwnTypes
<1>7. trace' = (trace \o last) \o tail /\ Len(last \o <<review, revise>>) = Len(last) + 2
  <2>1. /\ trace \o (last \o <<review, revise>>) \o <<start>>
              = (trace \o last) \o <<review, revise, start>>
        /\ Len(last \o <<review, revise>>) = Len(last) + 2
    <3>1. \A a, b, c \in EventSet :
             /\ trace \o (last \o <<a, b>>) \o <<c>> = (trace \o last) \o <<a, b, c>>
             /\ Len(last \o <<a, b>>) = Len(last) + 2
      BY <1>3, TailOfThree
    <3> QED
      BY <1>4, <3>1
  <2> QED
    BY <1>1, <2>1 DEF tail
<1>8. Shown(trace, last, tail, trace')
  BY <1>1, <1>6, <1>7, OwnTailShown
<1>9. Below = <<>> /\ setup.arch \in Architectures
      /\ FirstAgent(setup.arch) = "proposer" /\ "revision" \in RolesOf(setup.arch)
  BY <1>1, AloneUnlessWorker, ArchitectureOf DEF AtTop, Workers
<1>10. at + 1 \in DOMAIN trace'
  <2>1. 3 \in DOMAIN tail /\ Len(trace) + Len(last) + 3 = at + 1
    BY <1>3, <1>5
  <2> HIDE DEF at
  <2> QED
    BY <1>8, <2>1 DEF Shown
<1>11. (draft.tells => Seen(setup.arch, trace)) /\ (words.tells => Seen(setup.arch, trace))
  BY <1>1, <1>2 DEF TrialInv, KnowledgeShows, Running, Informed
<1>12. (knows => Seen(setup.arch, trace')) /\ (draft'.tells => Seen(setup.arch, trace'))
  BY <1>1, <1>8, <1>11 DEF Shown
<1>13. stack' = <<Agent("revision", at + 1, knows)>>
  <2>1. Len(trace) + Len(last \o <<review, revise>>) + 1 = at + 1
    BY <1>3, <1>7
  <2> HIDE DEF at, knows
  <2> QED
    BY <1>1, <1>9, <2>1
<1> HIDE DEF at, knows
<1> QED
  BY <1>1, <1>2, <1>8, <1>9, <1>10, <1>12, <1>13, NextAtWork

LEMMA ReturnWorker ==
  ASSUME TrialTypes, TrialInv, Running, UNCHANGED <<setup, tickets>>,
         NEW last \in LastEvents, NEW words \in Words(Top.knows),
         FinishWorker(Top.role, last, words)
  PROVE  (TrialTypes /\ TrialInv)'
<1> DEFINE started == trace[Top.start].parent
           call == trace[started].parent
           finish == Spoken("worker_finish", started, words)
           result == ToolResult(call, call, Nothing)
           tail == <<finish, result>>
           boss == stack[1]
           told == [boss EXCEPT !.pending = Tail(@), !.knows = @ \/ words.tells]
           at == Len(trace) + Len(last) + 1
<1>1. setup # NoTrial /\ AtTop /\ Informed(Top, setup.arch, trace) /\ Top.role \in Workers /\ draft' = draft
      /\ trace' = (trace \o last) \o tail
  BY InTrial, TopIs DEF FinishWorker, Workers
<1>2. /\ Len(stack) = 2 /\ Top = stack[2] /\ Below = <<boss>> /\ stack = <<boss, Top>>
      /\ boss \in AgentSet /\ boss.role = "supervisor" /\ boss.pending # <<>>
      /\ setup.arch = "supervisor_worker" /\ setup.arch \in Architectures
      /\ WorkerCalled(trace, Top.start) /\ stack # <<>>
  <2>1. Top.role \notin RolesOf(setup.arch)
    BY <1>1, ArchitectureOf DEF AtTop
  <2> QED
    BY <1>1, <2>1 DEF AtTop, Running
<1>3. stack' = <<told>>
  <2>1. Below[Len(Below)] = boss /\ Len(Below) = 1
    BY <1>2
  <2>2. stack' = [Below EXCEPT ![1] = told]
    BY <2>1 DEF FinishWorker
  <2> HIDE DEF told
  <2>3. [<<boss>> EXCEPT ![1] = told] = <<told>>
    OBVIOUS
  <2> QED
    BY <1>2, <2>2, <2>3
<1>4. words \in WordSet /\ (words.tells => Top.knows)
      /\ words.tells \in BOOLEAN
  BY WordsSay DEF WordSet
<1>5. trace \in Seq(EventSet) /\ last \in Seq(EventSet) /\ tickets \in Seq(RowSet)
      /\ Len(trace) \in Nat /\ Len(last) \in Nat /\ at \in Nat
  <2>1. trace \in Seq(EventSet) /\ last \in Seq(EventSet) /\ tickets \in Seq(RowSet)
    BY DEF TrialTypes, LastEvents
  <2> QED
    BY <2>1
<1>6. /\ started \in DOMAIN trace /\ started \in Nat /\ trace[started].type = "worker_start"
      /\ call \in DOMAIN trace /\ call \in Nat
      /\ trace[call].type = "tool_call" /\ Delegates(trace[call].call)
  <2>1. started = Top.start - 1 /\ call = Top.start - 2
    BY <1>2 DEF WorkerCalled
  <2>2. started \in DOMAIN trace /\ call \in DOMAIN trace /\ DOMAIN trace = 1..Len(trace)
    BY <1>2, <1>5, <2>1 DEF WorkerCalled
  <2> QED
    BY <1>2, <2>1, <2>2 DEF WorkerCalled
<1>7. /\ finish \in EventSet /\ finish.type = "worker_finish" /\ finish.words = words
      /\ result \in EventSet /\ result.type = "tool_result" /\ result.call = call
      /\ ~result.answer.hold /\ ~result.answer.changed /\ ~result.answer.error
  <2>1. Nothing \in AnswerSet /\ ~Nothing.hold /\ ~Nothing.changed /\ ~Nothing.error
    BY AnswersAre
  <2> HIDE DEF started, call
  <2> QED
    BY <1>4, <1>6, <2>1, EventTypes
<1> HIDE DEF started, finish, result
<1>8. tail \in Seq(EventSet) /\ DOMAIN tail = {1, 2} /\ tail[1] = finish /\ tail[2] = result
  BY <1>7
<1> HIDE DEF tail, call
<1>9. Extended(trace, last, trace \o last) /\ Extended(trace \o last, tail, trace')
  <2>1. Extended(trace, last, trace \o last)
    BY <1>5, Grown
  <2>2. trace \o last \in Seq(EventSet)
    BY <2>1 DEF Extended
  <2> QED
    BY <1>1, <1>8, <2>1, <2>2, Grown
<1>10. call \in DOMAIN trace' /\ trace'[call] = trace[call]
  BY <1>6, <1>9 DEF Extended
<1>11. Shown(trace, last, tail, trace')
  <2>1. ResultFits(setup.arch, trace', Len(trace \o last) + 2)
    <3>1. 2 \in DOMAIN tail
      BY <1>8
    <3>2. trace'[Len(trace \o last) + 2] = result
      BY <1>8, <1>9, <3>1 DEF Extended
    <3> QED
      BY <1>6, <1>7, <1>10, <3>2 DEF ResultFits
  <2>2. Events(trace \o last, "worker_start") # {}
    <3>1. started \in DOMAIN (trace \o last) /\ (trace \o last)[started] = trace[started]
      BY <1>6, <1>9 DEF Extended
    <3> QED
      BY <1>6, <3>1 DEF Events
  <2>3. NewFits(setup.arch, trace \o last, tail, trace')
    BY <1>7, <1>8, <2>1, <2>2 DEF NewFits
  <2>4. Redo(trace', tickets, result) = tickets
    BY <1>6, <1>7, <1>10 DEF Redo, TicketsAfter, Delegates
  <2>5. \A j \in DOMAIN tail : Redo(trace', tickets, tail[j]) = tickets
    <3>1. Redo(trace', tickets, finish) = tickets
      BY <1>7 DEF Redo
    <3> QED
      BY <1>8, <2>4, <3>1
  <2> QED
    BY <1>1, <1>8, <2>3, <2>5, TailShown
<1>12. words.tells => Seen(setup.arch, trace')
  <2>1. 1 \in DOMAIN tail
    BY <1>8
  <2>2. at \in DOMAIN trace' /\ trace'[at] = finish
    BY <1>8, <1>11, <2>1 DEF Shown
  <2> HIDE DEF at
  <2>3. words.tells => Told(trace', "worker_finish")
    BY <1>4, <1>7, <2>2 DEF Told, Events
  <2> QED
    BY <1>2, <2>3 DEF Seen
<1>13. told \in AgentSet /\ told.role = "supervisor" /\ told.start = boss.start
       /\ told.left = boss.left /\ told.pending = Tail(boss.pending)
       /\ told.knows = (boss.knows \/ words.tells)
  <2>1. Tail(boss.pending) \in Seq(Calls)
    BY <1>2, CallsLeft DEF AgentSet
  <2> QED
    BY <1>2, <1>4, <2>1 DEF AgentSet
<1>14. Informed(told, setup.arch, trace')
  <2>1. Informed(boss, setup.arch, trace) /\ boss.pending \in Seq(Calls) /\ boss.pending # <<>>
    BY <1>1, <1>2 DEF TrialInv, KnowledgeShows, StackFits, AgentSet
  <2>2. told.knows => Seen(setup.arch, trace')
    <3>1. boss.knows => Seen(setup.arch, trace)
      BY <1>2, <2>1 DEF Informed
    <3>2. Seen(setup.arch, trace) => Seen(setup.arch, trace')
      BY <1>11 DEF Shown
    <3> QED
      BY <1>12, <1>13, <3>1, <3>2
  <2>3. \A c \in DOMAIN told.pending : told.pending[c].tells => told.knows
    <3> SUFFICES ASSUME NEW c \in DOMAIN Tail(boss.pending),
                        Tail(boss.pending)[c].tells
                 PROVE  boss.knows
      BY <1>13
    <3>1. c + 1 \in DOMAIN boss.pending /\ Tail(boss.pending)[c] = boss.pending[c + 1]
      BY <2>1, CallsLeft
    <3> QED
      BY <2>1, <3>1 DEF Informed
  <2> HIDE DEF told
  <2> QED
    BY <2>2, <2>3 DEF Informed
<1>15. Informed(told, setup.arch, trace') => KnowledgeShows'
  <2> HIDE DEF told
  <2>1. DOMAIN stack' = {1} /\ stack'[1] = told
    BY <1>3
  <2>2. draft.tells => Seen(setup.arch, trace)
    BY <1>2 DEF TrialInv, KnowledgeShows
  <2>3. draft'.tells => Seen(setup.arch, trace')
    BY <1>1, <1>11, <2>2 DEF Shown
  <2> QED
    BY <2>1, <2>3 DEF KnowledgeShows, Informed
<1> HIDE DEF told
<1>16. Len(stack') = 1 /\ DOMAIN stack' = {1} /\ stack'[1] = told /\ stack' # <<>>
  BY <1>3
<1>17. TrialTypes'
  <2>1. stack' \in Seq(AgentSet)
    <3> HIDE DEF AgentSet
    <3> QED
      BY <1>3, <1>13
  <2> QED
    BY <1>1, <1>11, <2>1 DEF TrialTypes, Shown
<1>18. StackFits'
  <2>1. "supervisor" \in RolesOf(setup.arch)
    BY <1>2 DEF RolesOf
  <2>2. boss.start \in DOMAIN trace'
    <3>1. boss.start \in DOMAIN trace
      BY <1>2 DEF TrialInv, StackFits
    <3> QED
      BY <1>11, <3>1 DEF Shown
  <2> QED
    BY <1>1, <1>2, <1>13, <1>16, <2>1, <2>2 DEF StackFits
<1>19. TurnsCounted'
  <2>1. FirstAgent(setup.arch) = "supervisor" /\ Limit[FirstAgent(setup.arch)] \in Nat
    BY <1>2, ArchitectureOf, TrialAssumption DEF FirstAgent, Roles
  <2>2. LlmCalls(trace) + boss.left >= Limit[FirstAgent(setup.arch)] /\ boss.left \in Nat
        /\ boss.start = 2
    BY <1>2, <2>1 DEF TrialInv, TurnsCounted, AgentSet
  <2>3. LlmCalls(trace') + boss.left >= Limit[FirstAgent(setup.arch)]
    BY <1>11, <2>1, <2>2 DEF Shown
  <2> QED
    BY <1>13, <1>16, <2>2, <2>3 DEF TurnsCounted
<1>20. TraceFits(setup.arch, trace)' /\ Explains(trace, tickets)'
  BY <1>11 DEF Shown
<1> QED
  BY <1>14, <1>15, <1>17, <1>18, <1>19, <1>20 DEF TrialInv

\* Whichever way the running agent returns.
LEMMA ReturnKeeps ==
  ASSUME TrialTypes, TrialInv, Running, UNCHANGED <<setup, tickets>>,
         NEW last \in LastEvents, Closes(last) \/ Top.left = 0,
         NEW words \in Words(Top.knows), Returns(last, words)
  PROVE  (TrialTypes /\ TrialInv)'
<1>1. CASE FinishAlone(Top.role, last)
  BY <1>1, ReturnAlone
<1>2. CASE FinishCrmPeer(Top.role, last, words)
  BY <1>2, ReturnCrmPeer
<1>3. CASE FinishTicketingPeer(Top.role, last)
  BY <1>3, ReturnTicketingPeer
<1>4. CASE FinishProposer(Top.role, last, words)
  BY <1>4, ReturnProposer
<1>5. CASE FinishCritic(Top.role, last, words)
  BY <1>5, ReturnCritic
<1>6. CASE FinishRevision(Top.role, last)
  BY <1>6, ReturnRevision
<1>7. CASE FinishWorker(Top.role, last, words)
  BY <1>7, ReturnWorker
<1> QED
  BY <1>1, <1>2, <1>3, <1>4, <1>5, <1>6, <1>7 DEF Returns

-----------------------------------------------------------------------------
(* The loop of an agent *)

LEMMA ModelFailsKeeps ==
  ASSUME TrialTypes, TrialInv, ModelFails
  PROVE  (TrialTypes /\ TrialInv)'
<1> DEFINE call == LlmCall
           error == Event("error", Len(trace) + 1)
           last == <<call, error>>
<1>1. Running /\ UNCHANGED <<setup, tickets>> /\ Returns(last, Plain)
  BY DEF ModelFails, CanCall
<1>2. call \in EventSet /\ call.type = "llm_call" /\ error \in EventSet /\ error.type = "error"
  <2>1. Top.start \in Nat /\ Len(trace) + 1 \in Nat
    <3>1. Top \in AgentSet /\ trace \in Seq(EventSet)
      BY <1>1, TopIs DEF AtTop, TrialTypes
    <3>2. Top.start \in Nat
      BY <3>1 DEF AgentSet
    <3>3. Len(trace) \in Nat
      BY <3>1
    <3> QED
      BY <3>2, <3>3
  <2> QED
    BY <2>1, EventTypes DEF LlmCall, OwnTypes
<1> HIDE DEF call, error
<1>3. last \in Seq(EventSet) /\ DOMAIN last = {1, 2} /\ last[1] = call /\ last[2] = error
  BY <1>2
<1> HIDE DEF last
<1>4. last \in LastEvents /\ Closes(last)
  BY <1>2, <1>3 DEF LastEvents, Own, OwnTypes, Closes
<1>5. Plain \in Words(Top.knows)
  BY DEF Plain, Words, Spellings
<1> QED
  BY <1>1, <1>4, <1>5, ReturnKeeps

LEMMA ModelAnswersKeeps ==
  ASSUME TrialTypes, TrialInv, ModelAnswers
  PROVE  (TrialTypes /\ TrialInv)'
<1> DEFINE call == LlmCall
           response == Event("llm_response", Len(trace) + 1)
           finish == Event(FinishEvent, Top.start)
           last == <<call, response, finish>>
<1>1. Running /\ UNCHANGED <<setup, tickets>>
  BY DEF ModelAnswers, CanCall
<1>2. PICK words \in Words(Top.knows) : Returns(last, words)
  BY DEF ModelAnswers
<1>3. /\ call \in EventSet /\ call.type = "llm_call"
      /\ response \in EventSet /\ response.type = "llm_response"
      /\ finish \in EventSet /\ finish.type \in {"agent_finish", "supervisor_finish"}
  <2>1. Top.start \in Nat /\ Len(trace) + 1 \in Nat
    <3>1. Top \in AgentSet /\ trace \in Seq(EventSet)
      BY <1>1, TopIs DEF AtTop, TrialTypes
    <3>2. Top.start \in Nat
      BY <3>1 DEF AgentSet
    <3>3. Len(trace) \in Nat
      BY <3>1
    <3> QED
      BY <3>2, <3>3
  <2>2. FinishEvent \in {"agent_finish", "supervisor_finish"}
    BY DEF FinishEvent
  <2> QED
    BY <2>1, <2>2, EventTypes DEF LlmCall, OwnTypes
<1> HIDE DEF call, response, finish
<1>4. last \in Seq(EventSet) /\ DOMAIN last = {1, 2, 3}
      /\ last[1] = call /\ last[2] = response /\ last[3] = finish
  BY <1>3
<1> HIDE DEF last
<1>5. last \in LastEvents /\ Closes(last)
  BY <1>3, <1>4 DEF LastEvents, Own, OwnTypes, Closes, FinishTypes
<1> QED
  BY <1>1, <1>2, <1>5, ReturnKeeps

LEMMA TurnsUsedUpKeeps ==
  ASSUME TrialTypes, TrialInv, TurnsUsedUp
  PROVE  (TrialTypes /\ TrialInv)'
<1>1. Running /\ UNCHANGED <<setup, tickets>> /\ Returns(<<>>, Plain) /\ Top.left = 0
  BY DEF TurnsUsedUp
<1>2. <<>> \in LastEvents
  BY DEF LastEvents, Own
<1>3. Plain \in Words(Top.knows)
  BY DEF Plain, Words, Spellings
<1> QED
  BY <1>1, <1>2, <1>3, ReturnKeeps

\* An agent that goes on: the same role, start and turns but those used.
LEMMA TopGoesOn ==
  ASSUME TrialTypes, TrialInv, Running, UNCHANGED <<setup, draft>>,
         tickets' \in Seq(RowSet),
         NEW top \in AgentSet, top.role = Top.role, top.start = Top.start,
         stack' = [stack EXCEPT ![Len(stack)] = top],
         trace' \in Seq(EventSet), TraceFits(setup.arch, trace'),
         \A i \in DOMAIN trace : i \in DOMAIN trace' /\ trace'[i] = trace[i],
         Seen(setup.arch, trace) => Seen(setup.arch, trace'),
         Informed(top, setup.arch, trace'), Explains(trace', tickets'),
         LlmCalls(trace') \in Nat, LlmCalls(trace) \in Nat,
         Top.start = 2 => LlmCalls(trace') + top.left >= LlmCalls(trace) + Top.left,
         LlmCalls(trace') >= LlmCalls(trace)
  PROVE  (TrialTypes /\ TrialInv)'
<1>1. AtTop /\ setup # NoTrial /\ stack \in Seq(AgentSet) /\ stack # <<>>
  BY TopIs, InTrial DEF TrialTypes, Running
<1>2. Len(stack) \in 1..2 /\ DOMAIN stack = 1..Len(stack) /\ Len(stack) \in DOMAIN stack
  BY <1>1 DEF AtTop
<1>3. /\ stack' \in Seq(AgentSet) /\ Len(stack') = Len(stack) /\ DOMAIN stack' = DOMAIN stack
      /\ stack'[Len(stack)] = top /\ stack' # <<>>
      /\ \A k \in DOMAIN stack : k # Len(stack) => stack'[k] = stack[k]
  <2> HIDE DEF AgentSet
  <2>1. /\ stack' \in Seq(AgentSet) /\ Len(stack') = Len(stack)
        /\ \A k \in 1..Len(stack) : stack'[k] = IF k = Len(stack) THEN top ELSE stack[k]
    BY <1>1, <1>2, ExceptSeq
  <2> QED
    BY <1>2, <2>1
<1>4. TrialTypes'
  BY <1>3 DEF TrialTypes
<1>5. \A k \in DOMAIN stack : /\ stack'[k].start = stack[k].start
                              /\ stack'[k].role = stack[k].role
  BY <1>3 DEF Top
<1>6. StackFits'
  <2>1. \A k \in DOMAIN stack' : stack'[k].start \in DOMAIN trace'
    BY <1>3, <1>5 DEF TrialInv, StackFits
  <2>2. ASSUME Len(stack) = 2
        PROVE  /\ stack'[1].role = "supervisor" /\ stack'[1].pending # <<>>
               /\ stack'[2].role \in Workers
               /\ WorkerCalled(trace', stack'[2].start)
    <3>1. stack'[1] = stack[1] /\ stack'[2].start = stack[2].start
          /\ stack'[2].role = stack[2].role
      BY <1>2, <1>3, <1>5, <2>2
    <3> QED
      BY <2>2, <3>1 DEF TrialInv, StackFits, WorkerCalled
  <2>3. stack'[1].role = stack[1].role
    BY <1>2, <1>5
  <2> QED
    BY <1>1, <1>3, <2>1, <2>2, <2>3 DEF TrialInv, StackFits
<1>7. KnowledgeShows'
  <2>1. ASSUME NEW k \in DOMAIN stack
        PROVE  Informed(stack'[k], setup.arch, trace')
    <3>1. CASE k = Len(stack)
      BY <1>3, <3>1
    <3>2. CASE k # Len(stack)
      BY <1>3, <3>2 DEF TrialInv, KnowledgeShows, Informed
    <3> QED
      BY <3>1, <3>2
  <2> QED
    BY <1>1, <1>3, <2>1 DEF TrialInv, KnowledgeShows
<1>8. TurnsCounted'
  <2>1. CASE Len(stack) = 1
    <3>1. Top = stack[1] /\ stack'[1] = top /\ Top.left \in Nat /\ top.left \in Nat
      BY <1>1, <1>3, <2>1 DEF AtTop, AgentSet
    <3>2. \A a, b, limit \in Nat, l1, l2 \in Nat :
             b + l2 >= a + l1 /\ a + l1 >= limit => b + l2 >= limit
      OBVIOUS
    <3>3. Limit[FirstAgent(setup.arch)] \in Nat
      BY <1>1, ArchitectureOf, TrialAssumption DEF AtTop
    <3>4. stack[1].role = stack'[1].role
      BY <1>2, <1>5, <2>1
    <3>5. stack'[1].role = FirstAgent(setup.arch) =>
             /\ stack'[1].start = 2
             /\ LlmCalls(trace') + top.left >= Limit[FirstAgent(setup.arch)]
      <4>1. stack[1].role = FirstAgent(setup.arch) =>
               /\ Top.start = 2
               /\ LlmCalls(trace) + Top.left >= Limit[FirstAgent(setup.arch)]
        BY <1>1, <3>1 DEF TrialInv, TurnsCounted
      <4> QED
        BY <3>1, <3>2, <3>3, <3>4, <4>1
    <3> QED
      BY <1>1, <1>3, <3>1, <3>5 DEF TurnsCounted
  <2>2. CASE Len(stack) = 2
    <3>1. stack'[1] = stack[1] /\ stack[1].left \in Nat
      BY <1>1, <1>2, <1>3, <2>2 DEF AtTop, AgentSet
    <3>2. \A a, b, limit, l \in Nat : b >= a /\ a + l >= limit => b + l >= limit
      OBVIOUS
    <3>3. Limit[FirstAgent(setup.arch)] \in Nat
      BY <1>1, ArchitectureOf, TrialAssumption DEF AtTop
    <3> QED
      BY <1>1, <1>3, <3>1, <3>2, <3>3 DEF TrialInv, TurnsCounted
  <2> QED
    BY <1>2, <2>1, <2>2
<1> QED
  BY <1>4, <1>6, <1>7, <1>8 DEF TrialInv

\* New events alone, without any before them.
LEMMA JustTail ==
  \A m \in Seq(EventSet) : /\ trace \in Seq(EventSet) => trace \o m = (trace \o <<>>) \o m
                           /\ <<>> \in LastEvents
<1>1. trace \in Seq(EventSet) => trace \o <<>> = trace
  BY ConcatEmptySeq
<1>2. <<>> \in LastEvents
  BY DEF LastEvents, Own
<1> QED
  BY <1>1, <1>2

LEMMA ModelAsksForToolsKeeps ==
  ASSUME TrialTypes, TrialInv, ModelAsksForTools
  PROVE  (TrialTypes /\ TrialInv)'
<1> DEFINE llm == LlmCall
           response == Event("llm_response", Len(trace) + 1)
           tail == <<llm, response>>
<1>1. Running /\ UNCHANGED <<setup, tickets, draft>> /\ Top.left > 0
      /\ trace' = trace \o tail
  BY DEF ModelAsksForTools, CanCall
<1>2. PICK calls \in Batches[Top.role] :
        /\ \A k \in DOMAIN calls : calls[k].tells => Top.knows
        /\ stack' = [stack EXCEPT ![Len(stack)] =
                        [Top EXCEPT !.pending = calls, !.left = Top.left - 1]]
  BY DEF ModelAsksForTools
<1> DEFINE top == [Top EXCEPT !.pending = calls, !.left = Top.left - 1]
<1>3. AtTop /\ Informed(Top, setup.arch, trace) /\ setup # NoTrial
      /\ Top \in AgentSet /\ trace \in Seq(EventSet) /\ tickets \in Seq(RowSet)
  BY <1>1, TopIs, InTrial DEF AtTop, TrialTypes
<1>4. calls \in Seq(Calls)
  BY <1>2, <1>3, TrialAssumption DEF AgentSet
<1>5. /\ top \in AgentSet /\ top.role = Top.role /\ top.start = Top.start
      /\ top.left = Top.left - 1 /\ top.pending = calls /\ top.knows = Top.knows
      /\ Top.left \in Nat
  <2> DEFINE less == Top.left - 1
  <2>1. Top.left \in Nat /\ less \in Nat
    BY <1>1, <1>3 DEF AgentSet
  <2> HIDE DEF less
  <2>2. [Top EXCEPT !.pending = calls, !.left = less].left = less
        /\ [Top EXCEPT !.pending = calls, !.left = less].pending = calls
        /\ [Top EXCEPT !.pending = calls, !.left = less].role = Top.role
        /\ [Top EXCEPT !.pending = calls, !.left = less].start = Top.start
        /\ [Top EXCEPT !.pending = calls, !.left = less].knows = Top.knows
        /\ [Top EXCEPT !.pending = calls, !.left = less] \in AgentSet
    BY <1>3, <1>4, <2>1 DEF AgentSet
  <2> QED
    BY <2>1, <2>2 DEF less
<1>6. /\ llm \in EventSet /\ llm.type = "llm_call" /\ llm.parent = Top.start
      /\ response \in EventSet /\ response.type = "llm_response"
  <2>1. Top.start \in Nat /\ Len(trace) + 1 \in Nat
    <3>1. Top.start \in Nat
      BY <1>3 DEF AgentSet
    <3>2. Len(trace) \in Nat
      BY <1>3
    <3> QED
      BY <3>1, <3>2
  <2> QED
    BY <2>1, EventTypes DEF LlmCall, OwnTypes
<1> HIDE DEF llm, response
<1>7. tail \in Seq(EventSet) /\ DOMAIN tail = {1, 2} /\ tail[1] = llm /\ tail[2] = response
  BY <1>6
<1> HIDE DEF tail
<1>8. tail \in LastEvents
  BY <1>6, <1>7 DEF LastEvents, Own, OwnTypes
<1>9. trace' = (trace \o <<>>) \o tail /\ <<>> \in LastEvents
  BY <1>1, <1>3, <1>7, JustTail
<1>10. Shown(trace, <<>>, tail, trace')
  BY <1>3, <1>8, <1>9, OwnTailShown
<1>11. Top.start = 2 => LlmCalls(trace') >= LlmCalls(trace) + 1
  BY <1>6, <1>7, <1>10 DEF Shown
<1>12. Informed(top, setup.arch, trace')
  BY <1>2, <1>3, <1>5, <1>10 DEF Informed, Shown
<1>13. stack' = [stack EXCEPT ![Len(stack)] = top]
  BY <1>2
<1> HIDE DEF top
<1>14. /\ LlmCalls(trace') \in Nat /\ LlmCalls(trace) \in Nat
       /\ Top.start = 2 => LlmCalls(trace') + top.left >= LlmCalls(trace) + Top.left
       /\ LlmCalls(trace') >= LlmCalls(trace)
  BY <1>5, <1>10, <1>11 DEF Shown, AgentSet
<1>15. /\ trace' \in Seq(EventSet) /\ TraceFits(setup.arch, trace')
       /\ \A i \in DOMAIN trace : i \in DOMAIN trace' /\ trace'[i] = trace[i]
       /\ Seen(setup.arch, trace) => Seen(setup.arch, trace')
       /\ Explains(trace', tickets') /\ tickets' \in Seq(RowSet)
  BY <1>1, <1>3, <1>10 DEF Shown
<1> QED
  BY <1>1, <1>5, <1>12, <1>13, <1>14, <1>15, TopGoesOn

\* What the supervisor asks of an agent there is not.
LEMMA UnknownDelegateKeeps ==
  ASSUME TrialTypes, TrialInv, UnknownDelegate
  PROVE  (TrialTypes /\ TrialInv)'
<1> DEFINE n == Len(trace) + 1
           call == Head(Top.pending)
           asked == ToolCall(Top.start, call, Top.knows, TRUE)
           result == ToolResult(n, n, Raised)
           tail == <<asked, result>>
           top == [Top EXCEPT !.pending = Tail(Top.pending)]
<1>1. Running /\ UNCHANGED <<setup, tickets, draft>> /\ Top.pending # <<>>
      /\ trace' = trace \o tail /\ stack' = [stack EXCEPT ![Len(stack)] = top]
  BY DEF UnknownDelegate
<1>2. AtTop /\ Informed(Top, setup.arch, trace) /\ setup # NoTrial
      /\ Top \in AgentSet /\ trace \in Seq(EventSet) /\ tickets \in Seq(RowSet)
  BY <1>1, TopIs, InTrial DEF AtTop, TrialTypes
<1>3. Top.pending \in Seq(Calls) /\ Top.start \in Nat /\ Top.knows \in BOOLEAN
      /\ Top.left \in Nat
  BY <1>2 DEF AgentSet
<1>4. call \in Calls /\ Tail(Top.pending) \in Seq(Calls)
      /\ \A c \in DOMAIN Tail(Top.pending) : c + 1 \in DOMAIN Top.pending
                           /\ Tail(Top.pending)[c] = Top.pending[c + 1]
  BY <1>1, <1>3, CallsLeft
<1>5. n \in Nat /\ n = Len(trace) + 1 /\ Len(trace) \in Nat
  BY <1>2
<1>6. /\ asked \in EventSet /\ asked.type = "tool_call"
      /\ result \in EventSet /\ result.type = "tool_result" /\ result.call = n
      /\ result.answer = Raised
  <2> HIDE DEF n, call
  <2>1. asked \in EventSet /\ asked.type = "tool_call"
    BY <1>3, <1>4 DEF ToolCall, EventSet
  <2>2. /\ result \in EventSet /\ result.type = "tool_result" /\ result.call = n
        /\ result.answer = Raised
    BY <1>5, AnswersAre, EventTypes
  <2> QED
    BY <2>1, <2>2
<1>7. /\ top \in AgentSet /\ top.role = Top.role /\ top.start = Top.start
      /\ top.left = Top.left /\ top.pending = Tail(Top.pending) /\ top.knows = Top.knows
  BY <1>2, <1>4 DEF AgentSet
<1> HIDE DEF call, asked, result, top, n
<1>8. tail \in Seq(EventSet) /\ DOMAIN tail = {1, 2} /\ tail[1] = asked /\ tail[2] = result
  BY <1>6
<1> HIDE DEF tail
<1>9. trace' = (trace \o <<>>) \o tail /\ <<>> \in LastEvents
  BY <1>1, <1>2, <1>8, JustTail
<1>10. Extended(trace, tail, trace') /\ trace \o <<>> = trace
  BY <1>1, <1>2, <1>8, Grown, ConcatEmptySeq
<1>11. Shown(trace, <<>>, tail, trace')
  <2>1. n \in DOMAIN trace' /\ trace'[n] = asked /\ trace'[Len(trace) + 2] = result
    BY <1>5, <1>8, <1>10 DEF Extended
  <2>2. ResultFits(setup.arch, trace', Len(trace) + 2)
    BY <1>6, <2>1, AnswersAre DEF ResultFits
  <2>3. NewFits(setup.arch, trace, tail, trace')
    BY <1>6, <1>8, <2>2 DEF NewFits
  <2>4. \A j \in DOMAIN tail : Redo(trace', tickets, tail[j]) = tickets
    BY <1>6, <1>8, AnswersAre DEF Redo
  <2> QED
    BY <1>2, <1>8, <1>9, <1>10, <2>3, <2>4, TailShown
<1>12. Informed(top, setup.arch, trace')
  <2>1. \A c \in DOMAIN top.pending : top.pending[c].tells => top.knows
    BY <1>2, <1>4, <1>7 DEF Informed
  <2>2. Seen(setup.arch, trace) => Seen(setup.arch, trace')
    BY <1>11 DEF Shown
  <2> QED
    BY <1>2, <1>7, <2>1, <2>2 DEF Informed
<1>13. /\ LlmCalls(trace') \in Nat /\ LlmCalls(trace) \in Nat
       /\ LlmCalls(trace') + top.left >= LlmCalls(trace) + Top.left
       /\ LlmCalls(trace') >= LlmCalls(trace)
  BY <1>3, <1>7, <1>11 DEF Shown
<1>14. /\ trace' \in Seq(EventSet) /\ TraceFits(setup.arch, trace')
       /\ \A i \in DOMAIN trace : i \in DOMAIN trace' /\ trace'[i] = trace[i]
       /\ Seen(setup.arch, trace) => Seen(setup.arch, trace')
       /\ Explains(trace', tickets') /\ tickets' \in Seq(RowSet)
  BY <1>1, <1>2, <1>11 DEF Shown
<1> QED
  BY <1>1, <1>7, <1>12, <1>13, <1>14, TopGoesOn

LEMMA DelegateKeeps ==
  ASSUME TrialTypes, TrialInv, Delegate
  PROVE  (TrialTypes /\ TrialInv)'
<1> DEFINE n == Len(trace) + 1
           call == Head(Top.pending)
           asked == ToolCall(Top.start, call, Top.knows, TRUE)
           started == Event("worker_start", n)
           first == Event("agent_start", n + 1)
           tail == <<asked, started, first>>
           worker == Agent(WorkerFor(call.tool), n + 2, call.tells)
<1>1. Running /\ UNCHANGED <<setup, tickets, draft>> /\ Top.pending # <<>>
      /\ Top.role = "supervisor" /\ Delegates(call)
      /\ trace' = trace \o tail /\ stack' = Append(stack, worker)
  BY DEF Delegate
<1>2. AtTop /\ Informed(Top, setup.arch, trace) /\ setup # NoTrial
      /\ Top \in AgentSet /\ trace \in Seq(EventSet) /\ tickets \in Seq(RowSet)
  BY <1>1, TopIs, InTrial DEF AtTop, TrialTypes
<1>3. Top.pending \in Seq(Calls) /\ Top.start \in Nat /\ Top.knows \in BOOLEAN
  BY <1>2 DEF AgentSet
<1>4. call \in Calls /\ 1 \in DOMAIN Top.pending /\ call = Top.pending[1]
  BY <1>1, <1>3, CallsLeft
<1>5. n \in Nat /\ n + 1 \in Nat /\ n + 2 \in Nat /\ n = Len(trace) + 1 /\ Len(trace) \in Nat
  BY <1>2
<1>6. /\ asked \in EventSet /\ asked.type = "tool_call" /\ asked.call = call
      /\ started \in EventSet /\ started.type = "worker_start" /\ started.parent = n
      /\ first \in EventSet /\ first.type = "agent_start" /\ first.parent = n + 1
  <2> HIDE DEF n, call
  <2>1. asked \in EventSet /\ asked.type = "tool_call" /\ asked.call = call
    BY <1>3, <1>4 DEF ToolCall, EventSet
  <2>2. started \in EventSet /\ started.type = "worker_start" /\ started.parent = n
    BY <1>5, EventTypes
  <2>3. first \in EventSet /\ first.type = "agent_start" /\ first.parent = n + 1
    BY <1>5, EventTypes DEF OwnTypes
  <2> QED
    BY <2>1, <2>2, <2>3
<1>7. /\ worker \in AgentSet /\ worker.role \in Workers /\ worker.start = n + 2
      /\ worker.knows = call.tells /\ worker.pending = <<>>
  <2>1. WorkerFor(call.tool) \in Workers
    BY <1>1 DEF WorkerFor, Workers, Delegates
  <2>2. WorkerFor(call.tool) \in Roles
    BY <2>1 DEF Workers, Roles
  <2>3. Limit[WorkerFor(call.tool)] \in Nat /\ call.tells \in BOOLEAN
    BY <1>4, <2>2, TrialAssumption DEF Calls
  <2>4. <<>> \in Seq(Calls)
    OBVIOUS
  <2> HIDE DEF call, n
  <2> QED
    BY <1>5, <2>1, <2>2, <2>3, <2>4 DEF Agent, AgentSet
<1>8. call.tells => Seen(setup.arch, trace)
  BY <1>1, <1>2, <1>4 DEF Informed
<1> HIDE DEF call, asked, started, first, worker, n
<1>9. tail \in Seq(EventSet) /\ DOMAIN tail = {1, 2, 3}
      /\ tail[1] = asked /\ tail[2] = started /\ tail[3] = first
  BY <1>6
<1> HIDE DEF tail
<1>10. setup.arch \in Architectures /\ setup.arch = "supervisor_worker" /\ stack = <<Top>>
       /\ Top = stack[1] /\ Top.role \in RolesOf(setup.arch)
  BY <1>1, <1>2, AloneUnlessWorker, ArchitectureOf DEF AtTop, Workers
<1>11. trace' = (trace \o <<>>) \o tail /\ <<>> \in LastEvents
  BY <1>1, <1>2, <1>9, JustTail
<1>12. Extended(trace, tail, trace') /\ trace \o <<>> = trace
  BY <1>1, <1>2, <1>9, Grown, ConcatEmptySeq
<1>13. Shown(trace, <<>>, tail, trace')
  <2>1. NewFits(setup.arch, trace, tail, trace')
    BY <1>6, <1>9, <1>10 DEF NewFits
  <2>2. \A j \in DOMAIN tail : Redo(trace', tickets, tail[j]) = tickets
    BY <1>6, <1>9 DEF Redo
  <2> QED
    BY <1>2, <1>9, <1>11, <1>12, <2>1, <2>2, TailShown
<1>14. WorkerCalled(trace', worker.start)
  <2>1. /\ n \in DOMAIN trace' /\ trace'[n] = asked
        /\ n + 1 \in DOMAIN trace' /\ trace'[n + 1] = started
        /\ n + 2 \in DOMAIN trace' /\ trace'[n + 2] = first
    <3>1. /\ Len(trace) + 1 \in DOMAIN trace' /\ trace'[Len(trace) + 1] = asked
          /\ Len(trace) + 2 \in DOMAIN trace' /\ trace'[Len(trace) + 2] = started
          /\ Len(trace) + 3 \in DOMAIN trace' /\ trace'[Len(trace) + 3] = first
      BY <1>9, <1>12 DEF Extended
    <3>2. Len(trace) + 1 = n /\ Len(trace) + 2 = n + 1 /\ Len(trace) + 3 = n + 2
      BY <1>5
    <3> QED
      BY <3>1, <3>2
  <2>2. (n + 2) - 1 = n + 1 /\ (n + 2) - 2 = n
    BY <1>5
  <2> QED
    BY <1>1, <1>6, <1>7, <2>1, <2>2 DEF WorkerCalled
<1>15. stack' = <<Top, worker>>
  <2> DEFINE s == Append(<<Top>>, worker)
  <2> HIDE DEF AgentSet
  <2>1. s \in Seq(AgentSet) /\ Len(s) = 2 /\ s[1] = Top /\ s[2] = worker
    BY <1>2, <1>7
  <2> HIDE DEF s
  <2>2. s = <<s[1], s[2]>>
    BY <2>1
  <2> QED
    BY <1>1, <1>10, <2>1, <2>2 DEF s
<1>16. Len(stack') = 2 /\ DOMAIN stack' = {1, 2} /\ stack'[1] = Top /\ stack'[2] = worker
       /\ stack' # <<>>
  BY <1>15
<1>17. TrialTypes'
  <2>1. stack' \in Seq(AgentSet)
    <3> HIDE DEF AgentSet
    <3> QED
      BY <1>2, <1>7, <1>15
  <2> QED
    BY <1>1, <1>13, <2>1 DEF TrialTypes, Shown
<1>18. StackFits'
  <2>1. Top.start \in DOMAIN trace' /\ worker.start \in DOMAIN trace'
    BY <1>2, <1>13, <1>14 DEF AtTop, Shown, WorkerCalled
  <2> QED
    BY <1>1, <1>2, <1>7, <1>10, <1>14, <1>16, <2>1 DEF StackFits
<1>19. KnowledgeShows'
  <2>1. Seen(setup.arch, trace) => Seen(setup.arch, trace')
    BY <1>13 DEF Shown
  <2>2. Informed(Top, setup.arch, trace') /\ Informed(worker, setup.arch, trace')
    BY <1>2, <1>7, <1>8, <2>1 DEF Informed
  <2> QED
    BY <1>1, <1>16, <2>1, <2>2 DEF TrialInv, KnowledgeShows, Running
<1>20. TurnsCounted'
  <2>1. LlmCalls(trace') \in Nat /\ LlmCalls(trace) \in Nat
        /\ LlmCalls(trace') >= LlmCalls(trace)
    BY <1>13 DEF Shown
  <2>2. Top.left \in Nat /\ Limit[FirstAgent(setup.arch)] \in Nat
    BY <1>2, <1>10, ArchitectureOf, TrialAssumption DEF AgentSet
  <2>3. \A a, b, limit, l \in Nat : b >= a /\ a + l >= limit => b + l >= limit
    OBVIOUS
  <2> QED
    BY <1>1, <1>10, <1>16, <2>1, <2>2, <2>3 DEF TrialInv, TurnsCounted, Running
<1>21. TraceFits(setup.arch, trace)' /\ Explains(trace, tickets)'
  BY <1>1, <1>13 DEF Shown
<1> QED
  BY <1>17, <1>18, <1>19, <1>20, <1>21 DEF TrialInv

-----------------------------------------------------------------------------
(* The tools *)

LEMMA RowsKept ==
  \A rows \in Seq(RowSet), call \in Calls :
     /\ TicketsAfter(rows, call) \in Seq(RowSet)
     /\ call.tool \in CrmTools => TicketsAfter(rows, call) = rows
<1> SUFFICES ASSUME NEW rows \in Seq(RowSet), NEW call \in Calls
             PROVE  /\ TicketsAfter(rows, call) \in Seq(RowSet)
                    /\ call.tool \in CrmTools => TicketsAfter(rows, call) = rows
  OBVIOUS
<1>1. /\ call.customer \in STRING /\ call.status \in STRING /\ call.tier \in STRING
      /\ call.tool \in STRING
  BY DEF Calls
<1>2. CreatedRow(call) \in RowSet
  <2>1. \A s \in STRING : s \in Text
    BY DEF Text
  <2>2. "open" \in Text /\ "standard" \in Text
    BY DEF Text
  <2> QED
    BY <1>1, <2>1, <2>2 DEF CreatedRow, RowSet
<1>3. \A row \in RowSet : UpdatedRow(row, call) \in RowSet
  <2>1. \A s \in STRING : s \in Text
    BY DEF Text
  <2> QED
    BY <1>1, <2>1 DEF UpdatedRow, RowSet
<1>4. CASE call.tool = "create_ticket"
  <2>1. TicketsAfter(rows, call) = Append(rows, CreatedRow(call))
    BY <1>4 DEF TicketsAfter
  <2>2. Append(rows, CreatedRow(call)) \in Seq(RowSet)
    BY <1>2, AppendProperties
  <2> QED
    BY <1>4, <2>1, <2>2 DEF CrmTools
<1>5. CASE call.tool = "update_ticket" /\ HasFields(call) /\ call.ticket \in DOMAIN rows
  <2>1. TicketsAfter(rows, call)
           = [rows EXCEPT ![call.ticket] = UpdatedRow(rows[call.ticket], call)]
    BY <1>5 DEF TicketsAfter
  <2>2. call.ticket \in 1..Len(rows) /\ rows[call.ticket] \in RowSet
    <3> HIDE DEF RowSet
    <3> QED
      BY <1>5
  <2>3. UpdatedRow(rows[call.ticket], call) \in RowSet
    BY <1>3, <2>2
  <2>4. [rows EXCEPT ![call.ticket] = UpdatedRow(rows[call.ticket], call)] \in Seq(RowSet)
    BY <2>2, <2>3, ExceptSeq
  <2> QED
    BY <1>5, <2>1, <2>4 DEF CrmTools
<1>6. CASE /\ call.tool # "create_ticket"
           /\ ~(call.tool = "update_ticket" /\ HasFields(call) /\ call.ticket \in DOMAIN rows)
  BY <1>6 DEF TicketsAfter
<1> QED
  BY <1>4, <1>5, <1>6

\* An answer that is none tells nothing and changes nothing; one that tells of
\* the hold is the customer system's, one that says it changed a ticket the
\* ticketing system's.
LEMMA AnswerIs ==
  ASSUME TrialTypes, NEW call \in Calls, NEW answer \in AnswersTo(call), Top.role \in Roles
  PROVE  /\ answer \in AnswerSet
         /\ answer.hold => /\ ~answer.error /\ call.tool = "get_customer_profile"
                           /\ Top.role \notin {"ticketing", "ticketing_worker", "critic",
                                               "supervisor"}
         /\ answer.changed => Top.role \notin {"crm", "crm_worker"}
         /\ (IF call.tool \in Tools(Top.role) THEN TicketsAfter(tickets, call) ELSE tickets)
               = (IF ~answer.error THEN TicketsAfter(tickets, call) ELSE tickets)
<1>0. tickets \in Seq(RowSet)
  BY DEF TrialTypes
<1>1. CASE call.tool \notin Tools(Top.role)
  BY <1>1, AnswersAre DEF AnswersTo
<1>2. CASE call.tool \in Tools(Top.role) /\ call.tool \in CrmTools
  <2>1. TicketsAfter(tickets, call) = tickets
    BY <1>0, <1>2, RowsKept
  <2>2. /\ call.tool = "get_customer_profile"
        /\ Top.role \notin {"ticketing", "ticketing_worker", "critic", "supervisor"}
    BY <1>2 DEF CrmTools, Tools, TicketTools
  <2>3. answer = Raised \/ answer = CrmAnswer(setup.task, call)
    BY <1>2 DEF AnswersTo
  <2>4. /\ CrmAnswer(setup.task, call) \in AnswerSet
        /\ ~CrmAnswer(setup.task, call).error
        /\ ~CrmAnswer(setup.task, call).changed
    <3>1. Profile(setup.task).tier \in Text /\ Profile(setup.task).hold \in BOOLEAN
      BY DEF Profile, Text
    <3>2. \A tier \in Text, hold \in BOOLEAN :
             /\ Answer(FALSE, FALSE, tier, hold) \in AnswerSet
             /\ Answer(FALSE, FALSE, tier, hold).error = FALSE
             /\ Answer(FALSE, FALSE, tier, hold).changed = FALSE
      BY DEF Answer, AnswerSet
    <3> HIDE DEF AnswerSet
    <3> QED
      BY <3>1, <3>2, AnswersAre DEF CrmAnswer
  <2> QED
    BY <1>2, <2>1, <2>2, <2>3, <2>4, AnswersAre
<1>3. CASE call.tool \in Tools(Top.role) /\ call.tool \notin CrmTools
  <2>1. answer = TicketAnswer(call)
    BY <1>3 DEF AnswersTo
  <2>2. answer \in {Changed, Nothing}
    BY <2>1 DEF TicketAnswer
  <2>3. Top.role \notin {"crm", "crm_worker"}
    BY <1>3 DEF Tools
  <2> QED
    BY <1>3, <2>2, <2>3, AnswersAre
<1> QED
  BY <1>1, <1>2, <1>3

LEMMA ExecuteToolKeeps ==
  ASSUME TrialTypes, TrialInv, ExecuteTool
  PROVE  (TrialTypes /\ TrialInv)'
<1> DEFINE n == Len(trace) + 1
           call == Head(Top.pending)
<1>1. Running /\ UNCHANGED <<setup, draft>> /\ Top.pending # <<>> /\ Top.role # "supervisor"
  BY DEF ExecuteTool
<1>2. PICK answer \in AnswersTo(call) :
        /\ trace' = trace \o <<ToolCall(Top.start, call, Top.knows, FALSE),
                               ToolResult(n, n, answer)>>
        /\ stack' = [stack EXCEPT ![Len(stack)] =
                        [Top EXCEPT !.pending = Tail(Top.pending),
                                    !.knows = Top.knows \/ answer.hold]]
        /\ tickets' = IF call.tool \in Tools(Top.role)
                      THEN TicketsAfter(tickets, call) ELSE tickets
  BY DEF ExecuteTool
<1> DEFINE asked == ToolCall(Top.start, call, Top.knows, FALSE)
           result == ToolResult(n, n, answer)
           tail == <<asked, result>>
           top == [Top EXCEPT !.pending = Tail(Top.pending),
                              !.knows = Top.knows \/ answer.hold]
<1>3. AtTop /\ Informed(Top, setup.arch, trace) /\ setup # NoTrial
      /\ Top \in AgentSet /\ trace \in Seq(EventSet) /\ tickets \in Seq(RowSet)
  BY <1>1, TopIs, InTrial DEF AtTop, TrialTypes
<1>4. Top.pending \in Seq(Calls) /\ Top.start \in Nat /\ Top.knows \in BOOLEAN
      /\ Top.left \in Nat /\ Top.role \in Roles
  BY <1>3 DEF AgentSet
<1>5. call \in Calls /\ Tail(Top.pending) \in Seq(Calls)
      /\ \A c \in DOMAIN Tail(Top.pending) : c + 1 \in DOMAIN Top.pending
                           /\ Tail(Top.pending)[c] = Top.pending[c + 1]
  BY <1>1, <1>4, CallsLeft
<1> HIDE DEF call
<1>6. /\ answer \in AnswerSet
      /\ answer.hold => /\ ~answer.error /\ call.tool = "get_customer_profile"
                        /\ Top.role \notin {"ticketing", "ticketing_worker", "critic",
                                            "supervisor"}
      /\ answer.changed => Top.role \notin {"crm", "crm_worker"}
      /\ tickets' = IF ~answer.error THEN TicketsAfter(tickets, call) ELSE tickets
  BY <1>2, <1>4, <1>5, AnswerIs
<1>7. n \in Nat /\ n = Len(trace) + 1 /\ Len(trace) \in Nat
  BY <1>3
<1>8. /\ asked \in EventSet /\ asked.type = "tool_call" /\ asked.call = call
      /\ asked.knew = Top.knows
      /\ result \in EventSet /\ result.type = "tool_result" /\ result.call = n
      /\ result.answer = answer
  <2> HIDE DEF n
  <2>1. asked \in EventSet /\ asked.type = "tool_call" /\ asked.call = call
        /\ asked.knew = Top.knows
    BY <1>4, <1>5 DEF ToolCall, EventSet
  <2>2. /\ result \in EventSet /\ result.type = "tool_result" /\ result.call = n
        /\ result.answer = answer
    BY <1>6, <1>7, EventTypes
  <2> QED
    BY <2>1, <2>2
<1>9. /\ top \in AgentSet /\ top.role = Top.role /\ top.start = Top.start
      /\ top.left = Top.left /\ top.pending = Tail(Top.pending)
      /\ top.knows = (Top.knows \/ answer.hold)
  <2>1. (Top.knows \/ answer.hold) \in BOOLEAN
    BY <1>4, <1>6 DEF AnswerSet
  <2> QED
    BY <1>3, <1>5, <2>1 DEF AgentSet
<1>10. trace' = trace \o tail /\ stack' = [stack EXCEPT ![Len(stack)] = top]
  BY <1>2
<1> HIDE DEF asked, result, top, n
<1>11. tail \in Seq(EventSet) /\ DOMAIN tail = {1, 2} /\ tail[1] = asked /\ tail[2] = result
       /\ Len(tail) = 2
  BY <1>8
<1> HIDE DEF tail
<1>12. Extended(trace, tail, trace')
  BY <1>3, <1>10, <1>11, Grown
<1>13. TraceFits(setup.arch, trace) /\ Explains(trace, tickets)
       /\ \A i \in DOMAIN trace :
             trace[i].type = "tool_result" => trace[i].call \in DOMAIN trace
  BY <1>3, TraceRefers DEF TrialInv
<1>14. Seen(setup.arch, trace) => Seen(setup.arch, trace')
  BY <1>3, <1>11, <1>12, <1>13, SeenStays
<1>15. n \in DOMAIN trace' /\ trace'[n] = asked
       /\ Len(trace) + 2 \in DOMAIN trace' /\ trace'[Len(trace) + 2] = result
  BY <1>7, <1>11, <1>12 DEF Extended
<1>16. ResultFits(setup.arch, trace', Len(trace) + 2)
  BY <1>3, <1>6, <1>8, <1>14, <1>15 DEF ResultFits, Informed
<1>17. TraceFits(setup.arch, trace')
  <2>1. NewFits(setup.arch, trace, tail, trace')
    BY <1>8, <1>11, <1>16 DEF NewFits
  <2> QED
    BY <1>3, <1>11, <1>12, <1>13, <2>1, Grow
<1>18. tickets' \in Seq(RowSet)
  BY <1>3, <1>5, <1>6, RowsKept
<1>19. Explains(trace', tickets')
  <2> DEFINE q == [j \in 0..2 |-> IF j = 2 THEN tickets' ELSE tickets]
  <2>1. Redo(trace', tickets, asked) = tickets
    BY <1>8 DEF Redo
  <2>2. Redo(trace', tickets, result) = tickets'
    BY <1>6, <1>8, <1>15 DEF Redo
  <2>3. q \in [0..Len(tail) -> Seq(RowSet)] /\ q[0] = tickets /\ q[Len(tail)] = tickets'
    BY <1>3, <1>11, <1>18
  <2>4. q[1] = tickets /\ q[2] = tickets'
    OBVIOUS
  <2> HIDE DEF q
  <2>5. \A j \in 1..2 : j = 1 \/ j = 2
    OBVIOUS
  <2>6. \A j \in 1..Len(tail) : q[j] = Redo(trace', q[j - 1], tail[j])
    <3>1. q[1] = Redo(trace', q[1 - 1], tail[1])
      BY <1>11, <2>1, <2>3, <2>4
    <3>2. q[2] = Redo(trace', q[2 - 1], tail[2])
      BY <1>11, <2>2, <2>4
    <3> QED
      BY <1>11, <2>5, <3>1, <3>2
  <2>7. Explains(trace', q[Len(tail)])
    BY <1>3, <1>11, <1>12, <1>13, <2>3, <2>6, Lengthened
  <2> QED
    BY <2>3, <2>7
<1>20. Informed(top, setup.arch, trace')
  <2>1. \A c \in DOMAIN top.pending : top.pending[c].tells => top.knows
    BY <1>3, <1>5, <1>9 DEF Informed
  <2>2. ASSUME answer.hold, Top.role \notin {"crm", "crm_worker"}
        PROVE  Seen(setup.arch, trace')
    <3>1. Len(trace) + 2 \in Answered(trace', "get_customer_profile")
      BY <1>6, <1>8, <1>15, <2>2 DEF Answered, Events
    <3>2. HoldSeenInCrm(trace')
      BY <1>8, <1>15, <2>2, <3>1 DEF HoldSeenInCrm
    <3>3. Top.role \in {"solo", "proposer", "revision"}
      BY <1>1, <1>4, <1>6, <2>2 DEF Roles
    <3>4. Top.role \in RolesOf(setup.arch) /\ setup.arch \in Architectures
      BY <1>3, <3>3, AloneUnlessWorker DEF Workers, AtTop
    <3>5. setup.arch \in {"single_agent", "debate_critic"}
      BY <3>3, <3>4, ArchitectureOf
    <3> QED
      BY <3>2, <3>5 DEF Seen
  <2> QED
    BY <1>3, <1>9, <1>14, <2>1, <2>2 DEF Informed
<1>21. /\ LlmCalls(trace') \in Nat /\ LlmCalls(trace) \in Nat
       /\ LlmCalls(trace') >= LlmCalls(trace)
  BY <1>3, <1>11, <1>12, CallsStay, CallsCounted
<1>22. LlmCalls(trace') + top.left >= LlmCalls(trace) + Top.left
  BY <1>4, <1>9, <1>21
<1>23. /\ trace' \in Seq(EventSet)
       /\ \A i \in DOMAIN trace : i \in DOMAIN trace' /\ trace'[i] = trace[i]
  BY <1>12 DEF Extended
<1> QED
  BY <1>1, <1>9, <1>10, <1>14, <1>17, <1>18, <1>19, <1>20, <1>21, <1>22, <1>23, TopGoesOn

LEMMA TrialStepKeeps ==
  ASSUME TrialTypes, TrialInv, TrialStep
  PROVE  (TrialTypes /\ TrialInv)'
BY ModelFailsKeeps, ModelAnswersKeeps, ModelAsksForToolsKeeps, TurnsUsedUpKeeps,
   ExecuteToolKeeps, DelegateKeeps, UnknownDelegateKeeps
   DEF TrialStep

-----------------------------------------------------------------------------
(* A trial begins, and is put away *)

LEMMA SeededRows == Seeded \in Seq(RowSet)
<1> DEFINE row == [customer |-> "asked", status |-> "open", tier |-> "unknown",
                   tagged |-> FALSE]
<1>1. row \in RowSet
  BY DEF RowSet, Text
<1>2. Seeded = <<row>>
  BY DEF Seeded
<1> HIDE DEF row, RowSet
<1> QED
  BY <1>1, <1>2

LEMMA StartTrialKeeps ==
  ASSUME NEW arch \in Architectures, NEW task \in Text, NEW flaky \in BOOLEAN,
         StartTrial(arch, task, flaky)
  PROVE  (TrialTypes /\ TrialInv)'
<1> DEFINE start == Event("run_start", 0)
           first == Event(FirstEvent(arch), 1)
           agent == Agent(FirstAgent(arch), 2, FALSE)
<1>1. /\ setup' = [arch |-> arch, task |-> task, flaky |-> flaky]
      /\ tickets' = Seeded /\ trace' = <<start, first>> /\ stack' = <<agent>>
      /\ draft' = Plain
  BY DEF StartTrial
<1>2. start \in EventSet /\ start.type = "run_start"
      /\ first \in EventSet /\ first.type \in {"supervisor_start", "agent_start"}
  <2>1. FirstEvent(arch) \in {"supervisor_start", "agent_start"}
    BY DEF FirstEvent
  <2> QED
    BY <2>1, EventTypes DEF OwnTypes
<1>3. FirstAgent(arch) \in RolesOf(arch) /\ FirstAgent(arch) \in Roles
  BY ArchitectureOf
<1>4. /\ agent \in AgentSet /\ agent.role = FirstAgent(arch) /\ agent.start = 2
      /\ agent.left = Limit[FirstAgent(arch)] /\ agent.pending = <<>>
      /\ agent.knows = FALSE
  <2>1. Limit[FirstAgent(arch)] \in Nat
    BY <1>3, TrialAssumption
  <2>2. <<>> \in Seq(Calls)
    OBVIOUS
  <2> QED
    BY <1>3, <2>1, <2>2 DEF Agent, AgentSet
<1> HIDE DEF start, first, agent
<1>5. trace' \in Seq(EventSet) /\ DOMAIN trace' = {1, 2} /\ Len(trace') = 2
      /\ trace'[1] = start /\ trace'[2] = first
  <2> HIDE DEF EventSet
  <2> QED
    BY <1>1, <1>2
<1>6. stack' \in Seq(AgentSet) /\ DOMAIN stack' = {1} /\ Len(stack') = 1
      /\ stack'[1] = agent /\ stack' # <<>>
  <2> HIDE DEF AgentSet
  <2> QED
    BY <1>1, <1>4
<1>7. setup'.arch = arch /\ setup' # NoTrial
  <2>1. arch # ""
    BY DEF Architectures
  <2> QED
    BY <1>1, <2>1 DEF NoTrial
<1>8. TrialTypes'
  <2>1. Plain \in WordSet
    BY DEF Plain, WordSet, Spellings
  <2> QED
    BY <1>1, <1>5, <1>6, <2>1, SeededRows DEF TrialTypes
<1>9. StackFits'
  BY <1>3, <1>4, <1>5, <1>6, <1>7 DEF StackFits
<1>10. TraceFits(setup.arch, trace)'
  <2>1. \A i \in DOMAIN trace' : trace'[i].type \in OwnTypes
    BY <1>2, <1>5 DEF OwnTypes
  <2>2. \A type \in {"tool_result", "peer_handoff", "worker_start", "worker_finish"} :
           Events(trace', type) = {}
    BY <2>1 DEF Events, OwnTypes
  <2> QED
    BY <2>2 DEF TraceFits
<1>11. KnowledgeShows'
  <2>1. ~draft'.tells
    BY <1>1 DEF Plain
  <2>2. DOMAIN agent.pending = {}
    BY <1>4
  <2> QED
    BY <1>4, <1>6, <2>1, <2>2 DEF KnowledgeShows, Informed
<1>12. TurnsCounted'
  <2>1. LlmCalls(trace') \in Nat
    BY <1>5, CallsCounted
  <2>2. Limit[FirstAgent(arch)] \in Nat
    BY <1>3, TrialAssumption
  <2>3. LlmCalls(trace') + agent.left >= Limit[FirstAgent(arch)]
    BY <1>4, <2>1, <2>2
  <2> QED
    BY <1>4, <1>6, <1>7, <2>3 DEF TurnsCounted
<1>13. Explains(trace, tickets)'
  <2> DEFINE p == [k \in 0..2 |-> Seeded]
  <2>1. p \in [0..Len(trace') -> Seq(RowSet)] /\ p[0] = Seeded /\ p[Len(trace')] = tickets'
    BY <1>1, <1>5, SeededRows
  <2>2. \A rows : /\ Redo(trace', rows, trace'[1]) = rows
                  /\ Redo(trace', rows, trace'[2]) = rows
    BY <1>2, <1>5 DEF Redo
  <2>3. \A k \in 1..2 : k = 1 \/ k = 2
    OBVIOUS
  <2>4. p[0] = Seeded /\ p[1] = Seeded /\ p[2] = Seeded
    OBVIOUS
  <2> HIDE DEF p
  <2>5. \A k \in 1..Len(trace') : p[k] = Redo(trace', p[k - 1], trace'[k])
    <3>1. p[1] = Redo(trace', p[1 - 1], trace'[1])
      BY <2>2, <2>4
    <3>2. p[2] = Redo(trace', p[2 - 1], trace'[2])
      BY <2>2, <2>4
    <3> QED
      BY <1>5, <2>3, <3>1, <3>2
  <2> QED
    BY <2>1, <2>5 DEF Explains
<1> QED
  BY <1>8, <1>9, <1>10, <1>11, <1>12, <1>13 DEF TrialInv

\* Between trials there is nothing.
Idle ==
    /\ setup = NoTrial /\ stack = <<>> /\ trace = <<>> /\ tickets = <<>> /\ draft = Plain

LEMMA IdleFits == Idle => TrialTypes /\ TrialInv
<1> SUFFICES ASSUME Idle PROVE TrialTypes /\ TrialInv
  OBVIOUS
<1>1. \A type : Events(<<>>, type) = {}
  BY DEF Events
<1>2. Len(stack) = 0 /\ DOMAIN stack = {}
  BY DEF Idle
<1>3. TrialTypes
  <2>1. NoTrial \in [arch: Architectures \cup {""}, task: Text, flaky: BOOLEAN]
    BY DEF NoTrial, Text
  <2>2. Plain \in WordSet
    BY DEF Plain, WordSet, Spellings
  <2>3. <<>> \in Seq(AgentSet) /\ <<>> \in Seq(EventSet) /\ <<>> \in Seq(RowSet)
    OBVIOUS
  <2> QED
    BY <2>1, <2>2, <2>3 DEF Idle, TrialTypes
<1>4. StackFits /\ TraceFits(setup.arch, trace) /\ KnowledgeShows /\ TurnsCounted
  BY <1>1, <1>2 DEF Idle, StackFits, TraceFits, KnowledgeShows, TurnsCounted
<1> QED
  BY <1>3, <1>4 DEF TrialInv, Idle

LEMMA PutAway == Idle' => (TrialTypes /\ TrialInv)'
<1> SUFFICES ASSUME Idle' PROVE (TrialTypes /\ TrialInv)'
  OBVIOUS
<1>1. \A type : Events(<<>>, type) = {}
  BY DEF Events
<1>2. Len(stack') = 0 /\ DOMAIN stack' = {}
  BY DEF Idle
<1>3. TrialTypes'
  <2>1. NoTrial \in [arch: Architectures \cup {""}, task: Text, flaky: BOOLEAN]
    BY DEF NoTrial, Text
  <2>2. Plain \in WordSet
    BY DEF Plain, WordSet, Spellings
  <2>3. <<>> \in Seq(AgentSet) /\ <<>> \in Seq(EventSet) /\ <<>> \in Seq(RowSet)
    OBVIOUS
  <2> QED
    BY <2>1, <2>2, <2>3 DEF Idle, TrialTypes
<1>4. StackFits' /\ TraceFits(setup.arch, trace)' /\ KnowledgeShows' /\ TurnsCounted'
  BY <1>1, <1>2 DEF Idle, StackFits, TraceFits, KnowledgeShows, TurnsCounted
<1> QED
  BY <1>3, <1>4 DEF TrialInv, Idle

LEMMA TrialStands ==
  ASSUME TrialTypes, TrialInv, UNCHANGED trialVars
  PROVE  (TrialTypes /\ TrialInv)'
<1>1. trace' = trace /\ stack' = stack /\ setup' = setup /\ tickets' = tickets
      /\ draft' = draft
  BY DEF trialVars
<1>2. TrialTypes'
  BY <1>1 DEF TrialTypes
<1>3. StackFits'
  BY <1>1 DEF TrialInv, StackFits
<1>4. TraceFits(setup.arch, trace)' /\ (setup' # NoTrial => Explains(trace, tickets)')
  BY <1>1 DEF TrialInv
<1>5. KnowledgeShows'
  BY <1>1 DEF TrialInv, KnowledgeShows
<1>6. TurnsCounted'
  BY <1>1 DEF TrialInv, TurnsCounted, CutOff
<1> QED
  BY <1>2, <1>3, <1>4, <1>5, <1>6 DEF TrialInv

-----------------------------------------------------------------------------
(* The plan *)

\* Lists of runs, one after the other, are a list of runs.
LEMMA Flattened ==
  \A seqs \in Seq(Seq(RunSet)) : FlattenSeq(seqs) \in Seq(RunSet)
<1> SUFFICES ASSUME NEW seqs \in Seq(Seq(RunSet))
             PROVE  FlattenSeq(seqs) \in Seq(RunSet)
  OBVIOUS
<1> HIDE DEF RunSet
<1> DEFINE n == Len(seqs)
           Step(g) == [i \in 1..n |-> IF i = 1 THEN seqs[i] ELSE g[i - 1] \o seqs[i]]
           flat == CHOOSE g : g = Step(g)
<1>1. n \in Nat
  OBVIOUS
<1>2. CASE n = 0
  <2>1. seqs = <<>> /\ FlattenSeq(seqs) = seqs
    BY <1>2 DEF FlattenSeq
  <2>2. <<>> \in Seq(RunSet)
    OBVIOUS
  <2> QED
    BY <2>1, <2>2
<1>3. CASE n # 0
  <2> DEFINE F == [x \in Seq(RunSet) \X (1..n) |-> x[1] \o seqs[x[2]]]
  <2>1. FlattenSeq(seqs) = flat[n]
    BY <1>3 DEF FlattenSeq
  <2>2. \A i \in 1..n : seqs[i] \in Seq(RunSet)
    OBVIOUS
  <2>3. /\ F \in [Seq(RunSet) \X (1..n) -> Seq(RunSet)]
        /\ \A v \in Seq(RunSet), k \in 1..n : F[<<v, k>>] = v \o seqs[k]
    <3>1. \A v \in Seq(RunSet), k \in 1..n : v \o seqs[k] \in Seq(RunSet)
      BY <2>2, ConcatProperties
    <3> QED
      BY <3>1
  <2> HIDE DEF F
  <2>4. <<>> \in Seq(RunSet)
    OBVIOUS
  <2>5. PICK h \in [SUBSET (1..n) -> Seq(RunSet)] : IsFold(h, n, <<>>, F)
    BY <1>1, <2>3, <2>4, FoldExists
  <2>6. IsFoldWithin(h, n, Seq(RunSet), <<>>, F)
    BY <2>5 DEF IsFold, IsFoldWithin
  <2>7. PICK p \in [0..n -> Seq(RunSet)] : IsChain(p, n, <<>>, F, h[1..n])
    BY <1>1, <2>3, <2>4, <2>6, FoldChain
  <2>8. \A k \in 1..n : p[k] = p[k - 1] \o seqs[k]
    <3> SUFFICES ASSUME NEW k \in 1..n PROVE p[k] = p[k - 1] \o seqs[k]
      OBVIOUS
    <3>1. k - 1 \in 0..n
      BY <1>1
    <3>2. p[k - 1] \in Seq(RunSet)
      BY <3>1
    <3> QED
      BY <2>3, <2>7, <3>2 DEF IsChain
  <2>9. p[0] = <<>>
    BY <2>7 DEF IsChain
  <2> DEFINE g == [i \in 1..n |-> p[i]]
  <2>10. g = Step(g)
    <3>1. ASSUME NEW i \in 1..n
          PROVE  g[i] = IF i = 1 THEN seqs[i] ELSE g[i - 1] \o seqs[i]
      <4>1. CASE i = 1
        <5>1. <<>> \o seqs[1] = seqs[1]
          BY <2>2, <4>1, ConcatEmptySeq
        <5>2. p[1] = p[1 - 1] \o seqs[1] /\ 1 - 1 = 0
          <6>1. 1 \in 1..n
            BY <4>1
          <6>2. p[1] = p[1 - 1] \o seqs[1]
            BY <2>8, <6>1
          <6> QED
            BY <6>2
        <5>3. p[1] = seqs[1]
          BY <2>9, <5>1, <5>2
        <5> QED
          BY <4>1, <5>3
      <4>2. CASE i # 1
        <5>1. i - 1 \in 1..n
          BY <1>1, <4>2
        <5> QED
          BY <2>8, <4>2, <5>1
      <4> QED
        BY <4>1, <4>2
    <3> QED
      BY <3>1
  <2>11. flat = Step(flat)
    <3> HIDE DEF g
    <3> QED
      BY <2>10
  <2> HIDE DEF flat, g
  <2>12. \A i \in 1..n : flat[i] = IF i = 1 THEN seqs[i] ELSE flat[i - 1] \o seqs[i]
    BY <2>11
  <2> DEFINE good == {k \in 0..n : k = 0 \/ flat[k] \in Seq(RunSet)}
  <2>13. good = 0..n
    <3>1. 0 \in good /\ good \in SUBSET (0..n)
      BY <1>1
    <3>2. ASSUME NEW k \in 1..n, k - 1 \in good
          PROVE  k \in good
      <4>1. CASE k = 1
        <5>1. flat[k] = seqs[k]
          BY <2>12, <4>1
        <5>2. flat[k] \in Seq(RunSet) /\ k \in 0..n
          BY <1>1, <2>2, <5>1
        <5> QED
          BY <5>2
      <4>2. CASE k # 1
        <5>1. flat[k - 1] \in Seq(RunSet) /\ seqs[k] \in Seq(RunSet)
          BY <1>1, <2>2, <3>2, <4>2
        <5>2. flat[k] = flat[k - 1] \o seqs[k]
          BY <2>12, <4>2
        <5>3. flat[k] \in Seq(RunSet)
          BY <5>1, <5>2, ConcatProperties
        <5> QED
          BY <5>3
      <4> QED
        BY <4>1, <4>2
    <3>3. \A b \in SUBSET (0..n) :
             0 \in b /\ (\A k \in 1..n : k - 1 \in b => k \in b) => b = 0..n
      BY <1>1, UpTo
    <3> HIDE DEF good
    <3> QED
      BY <3>1, <3>2, <3>3
  <2>14. n \in good
    <3> HIDE DEF good
    <3> QED
      BY <1>1, <2>13
  <2> QED
    BY <1>3, <2>1, <2>14
<1> QED
  BY <1>1, <1>2, <1>3

LEMMA PlanIsRuns ==
  \A args \in Arguments : PlanOf(args) \in Seq(RunSet)
<1> SUFFICES ASSUME NEW args \in Arguments PROVE PlanOf(args) \in Seq(RunSet)
  OBVIOUS
<1>1. /\ args.providers \in Seq(Providers) /\ args.archs \in Seq(Architectures)
      /\ args.tasks \in Seq(STRING) /\ args.trials \in Int /\ args.swTrials \in Seq(Int)
  BY SweepAssumption
<1> DEFINE ofTask(p, a, t) == Cell(args, p, a, args.tasks[t])
           ofArch(p, a) == FlattenSeq([t \in DOMAIN args.tasks |-> ofTask(p, a, t)])
           ofProvider(p) == FlattenSeq([a \in DOMAIN args.archs |-> ofArch(p, args.archs[a])])
<1>2. \A p \in Providers, a \in Architectures, t \in DOMAIN args.tasks :
         ofTask(p, a, t) \in Seq(RunSet)
  <2> SUFFICES ASSUME NEW p \in Providers, NEW a \in Architectures,
                      NEW t \in DOMAIN args.tasks
               PROVE  Cell(args, p, a, args.tasks[t]) \in Seq(RunSet)
    OBVIOUS
  <2>1. args.tasks[t] \in Text
    <3>1. args.tasks[t] \in STRING
      BY <1>1
    <3> QED
      BY <3>1 DEF Text
  <2> DEFINE run == [arch |-> a, task |-> args.tasks[t], provider |-> p]
             n == Trials(args, a, args.tasks[t])
  <2>2. run \in RunSet
    BY <2>1 DEF RunSet
  <2>3. n \in Int
    <3>1. args.swTrials # <<>> => args.swTrials[1] \in Int
      BY <1>1
    <3> QED
      BY <1>1, <3>1 DEF Trials
  <2>4. Cell(args, p, a, args.tasks[t]) = [trial \in 1..n |-> run]
    BY DEF Cell
  <2> HIDE DEF run, n, RunSet
  <2>5. PICK m \in Nat : 1..n = 1..m
    <3>1. CASE n >= 0
      BY <2>3, <3>1
    <3>2. CASE n < 0
      <4>1. 1..n = 1..0
        BY <2>3, <3>2
      <4> QED
        BY <4>1
    <3> QED
      BY <2>3, <3>1, <3>2
  <2>6. [trial \in 1..m |-> run] \in Seq(RunSet)
    BY <2>2
  <2> QED
    BY <2>4, <2>5, <2>6
<1> HIDE DEF ofTask
<1>3. \A p \in Providers, a \in Architectures : ofArch(p, a) \in Seq(RunSet)
  <2> SUFFICES ASSUME NEW p \in Providers, NEW a \in Architectures
               PROVE  ofArch(p, a) \in Seq(RunSet)
    OBVIOUS
  <2> HIDE DEF RunSet
  <2>1. [t \in DOMAIN args.tasks |-> ofTask(p, a, t)] \in Seq(Seq(RunSet))
    <3>1. DOMAIN args.tasks = 1..Len(args.tasks) /\ Len(args.tasks) \in Nat
      BY <1>1
    <3> QED
      BY <1>2, <3>1
  <2> QED
    BY <2>1, Flattened
<1> HIDE DEF ofArch
<1>4. \A p \in Providers : ofProvider(p) \in Seq(RunSet)
  <2> SUFFICES ASSUME NEW p \in Providers PROVE ofProvider(p) \in Seq(RunSet)
    OBVIOUS
  <2> HIDE DEF RunSet
  <2>1. [a \in DOMAIN args.archs |-> ofArch(p, args.archs[a])] \in Seq(Seq(RunSet))
    <3>1. DOMAIN args.archs = 1..Len(args.archs) /\ Len(args.archs) \in Nat
      BY <1>1
    <3>2. \A a \in DOMAIN args.archs : args.archs[a] \in Architectures
      BY <1>1
    <3> QED
      BY <1>3, <3>1, <3>2
  <2> QED
    BY <2>1, Flattened
<1> HIDE DEF ofProvider
<1>5. [p \in DOMAIN args.providers |-> ofProvider(args.providers[p])] \in Seq(Seq(RunSet))
  <2> HIDE DEF RunSet
  <2>1. DOMAIN args.providers = 1..Len(args.providers) /\ Len(args.providers) \in Nat
    BY <1>1
  <2>2. \A p \in DOMAIN args.providers : args.providers[p] \in Providers
    BY <1>1
  <2> QED
    BY <1>4, <2>1, <2>2
<1>6. PlanOf(args) = FlattenSeq([p \in DOMAIN args.providers |->
                                    ofProvider(args.providers[p])])
  BY DEF PlanOf, ofProvider, ofArch, ofTask
<1> QED
  BY <1>5, <1>6, Flattened

-----------------------------------------------------------------------------
(* The sweep *)

LEMMA GradesAre ==
  ASSUME TrialTypes
  PROVE  /\ TrialGrade \in GradeSet
         /\ TrialGrade.passed => TrialGrade.category # "incomplete"
         /\ Ungraded \in GradeSet /\ ~Ungraded.passed
<1>1. trace \in Seq(EventSet)
  BY DEF TrialTypes
<1>2. Efficiency(trace) \in Nat
  <2> DEFINE calls == Count(trace, "llm_call")
             expected == 4 + Cardinality(Delegations(trace)) + 2 * Count(trace, "critic_review")
  <2>1. \A type : IsFiniteSet(Events(trace, type))
    BY <1>1, CallsCounted
  <2>2. IsFiniteSet(Delegations(trace))
    <3>1. Delegations(trace) \subseteq Events(trace, "tool_call")
      BY DEF Delegations
    <3> QED
      BY <2>1, <3>1, FS_Subset
  <2>3. /\ Cardinality(Delegations(trace)) \in Nat
        /\ Count(trace, "llm_call") \in Nat /\ Count(trace, "critic_review") \in Nat
    BY <2>1, <2>2, FS_CardinalityType DEF Count
  <2>4. calls \in Nat /\ expected \in Nat
    BY <2>3
  <2>5. Efficiency(trace) =
           LET penalty == IF calls > expected THEN 5 * (calls - expected) ELSE 0
           IN  IF penalty > 30 THEN 70 ELSE 100 - penalty
    BY DEF Efficiency
  <2> HIDE DEF calls, expected
  <2> QED
    BY <2>4, <2>5
<1>3. \A category \in Text \ {"incomplete"} :
         /\ Grade(TRUE, Efficiency(trace), category) \in GradeSet
         /\ Grade(TRUE, Efficiency(trace), category).category = category
  BY <1>2 DEF Grade, GradeSet
<1>4. \A category \in Text : /\ Fails(category) \in GradeSet
                             /\ Fails(category).passed = FALSE
  BY DEF Fails, Grade, GradeSet
<1>5. "" \in Text /\ "incomplete" \in Text /\ "tool_error_unrecovered" \in Text
      /\ "coordination_failure" \in Text /\ "task_failure" \in Text /\ "none" \in Text
  BY DEF Text
<1> DEFINE good(grade) ==
             grade \in GradeSet /\ (grade.passed => grade.category # "incomplete")
<1>6. good(Grade(TRUE, Efficiency(trace), "")) /\ \A category \in Text : good(Fails(category))
  <2>1. good(Grade(TRUE, Efficiency(trace), ""))
    <3>1. "" \in Text \ {"incomplete"}
      BY DEF Text
    <3>2. /\ Grade(TRUE, Efficiency(trace), "") \in GradeSet
          /\ Grade(TRUE, Efficiency(trace), "").category = ""
      BY <1>3, <3>1
    <3> QED
      BY <3>2
  <2>2. \A category \in Text : good(Fails(category))
    <3> SUFFICES ASSUME NEW category \in Text PROVE good(Fails(category))
      OBVIOUS
    <3>1. Fails(category) \in GradeSet /\ Fails(category).passed = FALSE
      BY <1>4
    <3> QED
      BY <3>1
  <2> QED
    BY <2>1, <2>2
<1>7. Ungraded = Fails("none")
  BY DEF Ungraded, Fails
<1> HIDE DEF good
<1>8. good(GradeCustomerEscalation(trace, tickets)) /\ good(GradeCreditHold(trace, tickets))
  BY <1>5, <1>6 DEF GradeCustomerEscalation, GradeCreditHold
<1>9. good(TrialGrade)
  BY <1>8 DEF TrialGrade
<1> QED
  BY <1>4, <1>5, <1>7, <1>9 DEF good

\* The sweep's own state, while none of it changes but its phase.
LEMMA SweepStands ==
  ASSUME SweepTypes, SweepInv, UNCHANGED <<plan, position, keys, results, manifest>>,
         \/ phase' = phase
         \/ phase = "next" /\ phase' = "running" /\ More
         \/ phase = "next" /\ phase' = "ended" /\ Len(results) = Len(plan)
         \/ phase' = "crashed"
  PROVE  (SweepTypes /\ SweepInv)'
BY DEF SweepTypes, SweepInv, ManifestFits, More

\* One record more, of the plan's next run.
LEMMA OneMore ==
  ASSUME SweepTypes, SweepInv, NEW record \in RecordSet, RecordFits(record),
         phase \in {"next", "running"}, More,
         results' = Append(results, record), plan' = plan, manifest' = manifest
  PROVE  /\ results' \in Seq(RecordSet) /\ Len(results') = Len(results) + 1
         /\ Len(results') \in 0..Len(plan) /\ Len(results) \in Nat
         /\ \A i \in DOMAIN results' :
               \/ i \in DOMAIN results /\ results'[i] = results[i]
               \/ i = Len(results) + 1 /\ results'[i] = record
         /\ \A i \in DOMAIN results' : RecordFits(results'[i])
         /\ Len(manifest'.runs) \in 0..Len(results')
         /\ \A i \in DOMAIN manifest'.runs : manifest'.runs[i] = results'[i]
         /\ \A i \in DOMAIN results : i > Len(manifest'.runs) => results[i].skipped
<1>1. results \in Seq(RecordSet) /\ plan \in Seq(RunSet) /\ manifest.runs \in Seq(RecordSet)
  BY DEF SweepTypes
<1>2. /\ results' \in Seq(RecordSet) /\ Len(results') = Len(results) + 1
      /\ \A i \in 1..Len(results) : results'[i] = results[i]
      /\ results'[Len(results) + 1] = record
  BY <1>1, AppendProperties
<1>3. /\ DOMAIN results = 1..Len(results) /\ DOMAIN results' = 1..Len(results')
      /\ DOMAIN manifest.runs = 1..Len(manifest.runs)
      /\ Len(results) \in Nat /\ Len(plan) \in Nat /\ Len(manifest.runs) \in Nat
  BY <1>1, <1>2
<1>4. Len(results') \in 0..Len(plan)
  <2>1. position = Len(results) + 1
    BY DEF SweepInv
  <2> QED
    BY <1>2, <1>3, <2>1 DEF More
<1>5. \A i \in DOMAIN results' : i \in DOMAIN results \/ i = Len(results) + 1
  BY <1>2, <1>3
<1>6. \A i \in DOMAIN results : RecordFits(results[i])
  BY DEF SweepInv
<1>7. \A i \in DOMAIN results : i \in DOMAIN results' /\ results'[i] = results[i]
  BY <1>2, <1>3
<1>8. /\ Len(manifest.runs) \in 0..Len(results)
      /\ \A i \in DOMAIN manifest.runs : manifest.runs[i] = results[i]
      /\ \A i \in DOMAIN results : i > Len(manifest.runs) => results[i].skipped
  BY DEF SweepInv, ManifestFits
<1>9. DOMAIN manifest.runs \subseteq DOMAIN results /\ Len(manifest.runs) \in 0..Len(results')
  BY <1>2, <1>3, <1>8
<1> QED
  BY <1>2, <1>3, <1>4, <1>5, <1>6, <1>7, <1>8, <1>9

LEMMA SkipRunSweep ==
  ASSUME SweepTypes, SweepInv, SkipRun
  PROVE  (SweepTypes /\ SweepInv)'
<1> DEFINE record == Record(TRUE, Ungraded)
<1>1. /\ More /\ results' = Append(results, record) /\ phase = "next"
      /\ position' = position + 1 /\ UNCHANGED <<phase, plan, keys, manifest>>
  BY DEF SkipRun
<1>2. record \in RecordSet /\ RecordFits(record) /\ record.skipped
  <2>1. Ungraded \in GradeSet /\ Ungraded.passed = FALSE
    BY DEF Ungraded, Grade, GradeSet, Text
  <2>2. record.skipped = TRUE /\ record.grade = Ungraded
    BY DEF Record
  <2> QED
    BY <2>1, <2>2 DEF Record, RecordSet, RecordFits
<1> HIDE DEF record
<1>3. /\ results' \in Seq(RecordSet) /\ Len(results') = Len(results) + 1
      /\ Len(results') \in 0..Len(plan) /\ Len(results) \in Nat
      /\ \A i \in DOMAIN results' :
            \/ i \in DOMAIN results /\ results'[i] = results[i]
            \/ i = Len(results) + 1 /\ results'[i] = record
      /\ \A i \in DOMAIN results' : RecordFits(results'[i])
      /\ Len(manifest'.runs) \in 0..Len(results')
      /\ \A i \in DOMAIN manifest'.runs : manifest'.runs[i] = results'[i]
      /\ \A i \in DOMAIN results : i > Len(manifest'.runs) => results[i].skipped
  BY <1>1, <1>2, OneMore
<1>4. position' \in Nat /\ position' = Len(results') + 1
  BY <1>1, <1>3 DEF SweepTypes, SweepInv
<1>5. SweepTypes'
  BY <1>1, <1>3, <1>4 DEF SweepTypes
<1>6. ManifestFits'
  BY <1>2, <1>3 DEF ManifestFits
<1> QED
  BY <1>1, <1>3, <1>4, <1>5, <1>6 DEF SweepInv

LEMMA RecordedSweep ==
  ASSUME SweepTypes, SweepInv, phase = "running",
         NEW grade \in GradeSet, grade.passed => grade.category # "incomplete",
         Recorded(Record(FALSE, grade))
  PROVE  (SweepTypes /\ SweepInv)'
<1> DEFINE record == Record(FALSE, grade)
<1>1. /\ results' = Append(results, record) /\ phase' = "recorded"
      /\ UNCHANGED <<plan, position, keys, manifest>>
  BY DEF Recorded
<1>2. More
  BY DEF SweepInv
<1>3. record \in RecordSet /\ RecordFits(record)
  <2>1. record.skipped = FALSE /\ record.grade = grade
    BY DEF Record
  <2> QED
    BY <2>1 DEF Record, RecordSet, RecordFits
<1> HIDE DEF record
<1>4. /\ results' \in Seq(RecordSet) /\ Len(results') = Len(results) + 1
      /\ Len(results') \in 0..Len(plan) /\ Len(results) \in Nat
      /\ \A i \in DOMAIN results' :
            \/ i \in DOMAIN results /\ results'[i] = results[i]
            \/ i = Len(results) + 1 /\ results'[i] = record
      /\ \A i \in DOMAIN results' : RecordFits(results'[i])
      /\ Len(manifest'.runs) \in 0..Len(results')
      /\ \A i \in DOMAIN manifest'.runs : manifest'.runs[i] = results'[i]
      /\ \A i \in DOMAIN results : i > Len(manifest'.runs) => results[i].skipped
  BY <1>1, <1>2, <1>3, OneMore
<1>5. position' = Len(results')
  BY <1>1, <1>4 DEF SweepInv
<1>6. SweepTypes'
  BY <1>1, <1>4 DEF SweepTypes
<1>7. ManifestFits'
  BY <1>1, <1>4 DEF ManifestFits
<1> QED
  BY <1>1, <1>4, <1>5, <1>6, <1>7 DEF SweepInv

LEMMA TruncateManifestSweep ==
  ASSUME SweepTypes, SweepInv, TruncateManifest
  PROVE  (SweepTypes /\ SweepInv)'
<1>1. /\ phase = "recorded" /\ manifest' = Torn /\ phase' = "truncated"
      /\ UNCHANGED <<plan, position, keys, results>>
  BY DEF TruncateManifest
<1>2. /\ manifest' \in [state: {"missing", "torn", "whole"}, runs: Seq(RecordSet)]
      /\ manifest'.state = "torn" /\ Len(manifest'.runs) = 0 /\ DOMAIN manifest'.runs = {}
  <2>1. <<>> \in Seq(RecordSet) /\ Len(<<>>) = 0 /\ DOMAIN <<>> = {}
    OBVIOUS
  <2> QED
    BY <1>1, <2>1 DEF Torn
<1>3. Len(results) \in Nat
  BY DEF SweepTypes
<1> QED
  BY <1>1, <1>2, <1>3 DEF SweepTypes, SweepInv, ManifestFits

LEMMA WriteManifestSweep ==
  ASSUME SweepTypes, SweepInv, WriteManifest
  PROVE  (SweepTypes /\ SweepInv)'
<1>1. /\ phase = "truncated" /\ manifest' = Whole(results) /\ phase' = "next"
      /\ position' = position + 1 /\ UNCHANGED <<plan, keys, results>>
  BY DEF WriteManifest
<1>2. results \in Seq(RecordSet) /\ Len(results) \in Nat /\ DOMAIN results = 1..Len(results)
  <2>1. results \in Seq(RecordSet)
    BY DEF SweepTypes
  <2> QED
    BY <2>1
<1>3. manifest'.state = "whole" /\ manifest'.runs = results
      /\ manifest' \in [state: {"missing", "torn", "whole"}, runs: Seq(RecordSet)]
  BY <1>1, <1>2 DEF Whole
<1>4. ManifestFits'
  <2>1. \A i \in DOMAIN results : ~(i > Len(results))
    BY <1>2
  <2>2. Len(results) \in 0..Len(results)
    BY <1>2
  <2> QED
    BY <1>1, <1>3, <2>1, <2>2 DEF ManifestFits
<1>5. position' \in Nat /\ position' = Len(results) + 1
  BY <1>1 DEF SweepTypes, SweepInv
<1> QED
  BY <1>1, <1>3, <1>4, <1>5 DEF SweepTypes, SweepInv

-----------------------------------------------------------------------------
(* The invariant holds *)

LEMMA InitIInv == Init => IInv
<1> SUFFICES ASSUME Init PROVE IInv
  OBVIOUS
<1>1. TrialTypes /\ TrialInv
  BY IdleFits DEF Init, TrialInit, Idle
<1>2. plan \in Seq(RunSet)
  <2>1. <<>> \in Seq(RunSet)
    OBVIOUS
  <2> QED
    BY <2>1, PlanIsRuns DEF Init
<1>3. Len(plan) \in Nat
  BY <1>2
<1>4. results = <<>> /\ Len(results) = 0 /\ DOMAIN results = {} /\ results \in Seq(RecordSet)
  BY DEF Init
<1>5. /\ manifest \in [state: {"missing", "torn", "whole"}, runs: Seq(RecordSet)]
      /\ manifest.state = "missing" /\ Len(manifest.runs) = 0 /\ DOMAIN manifest.runs = {}
  <2>1. <<>> \in Seq(RecordSet) /\ Len(<<>>) = 0 /\ DOMAIN <<>> = {}
    OBVIOUS
  <2> QED
    BY <2>1 DEF Init, Missing
<1> QED
  BY <1>1, <1>2, <1>3, <1>4, <1>5 DEF Init, IInv, TypeOK, SweepTypes, SweepInv, ManifestFits

LEMMA CurrentIsARun ==
  ASSUME SweepTypes, SweepInv, phase = "next", More
  PROVE  Current \in RunSet
<1>1. plan \in Seq(RunSet) /\ results \in Seq(RecordSet)
  BY DEF SweepTypes
<1>2. position \in DOMAIN plan
  BY <1>1 DEF SweepInv, More
<1> HIDE DEF RunSet
<1> QED
  BY <1>1, <1>2 DEF Current

LEMMA NextIInv == IInv /\ [Next]_vars => IInv'
<1> SUFFICES ASSUME IInv, [Next]_vars PROVE IInv'
  OBVIOUS
<1>1. TrialTypes /\ TrialInv /\ SweepTypes /\ SweepInv
  BY DEF IInv, TypeOK
<1> SUFFICES (TrialTypes /\ TrialInv)' /\ (SweepTypes /\ SweepInv)'
  BY DEF IInv, TypeOK
<1>2. CASE SkipRun
  BY <1>1, <1>2, SkipRunSweep, TrialStands DEF SkipRun
<1>3. CASE StartRun
  <2>1. Current.arch \in Architectures /\ Current.task \in Text
    BY <1>1, <1>3, CurrentIsARun DEF StartRun, RunSet
  <2>2. (TrialTypes /\ TrialInv)'
    BY <1>3, <2>1, StartTrialKeeps DEF StartRun
  <2>3. (SweepTypes /\ SweepInv)'
    BY <1>1, <1>3, SweepStands DEF StartRun, More
  <2> QED
    BY <2>2, <2>3
<1>4. CASE StartByHand
  <2>1. PICK s \in ByHand : StartTrial(s.arch, s.task, s.flaky)
    BY <1>4 DEF StartByHand
  <2>2. s.arch \in Architectures /\ s.task \in Text /\ s.flaky \in BOOLEAN
    BY SweepAssumption DEF Text
  <2>3. (TrialTypes /\ TrialInv)'
    BY <2>1, <2>2, StartTrialKeeps
  <2>4. (SweepTypes /\ SweepInv)'
    BY <1>1, <1>4, SweepStands DEF StartByHand, sweepVars
  <2> QED
    BY <2>3, <2>4
<1>5. CASE Work
  <2>1. (TrialTypes /\ TrialInv)'
    BY <1>1, <1>5, TrialStepKeeps DEF Work
  <2>2. (SweepTypes /\ SweepInv)'
    BY <1>1, <1>5, SweepStands DEF Work, sweepVars
  <2> QED
    BY <2>1, <2>2
<1>6. CASE GradeRun
  <2>1. TrialGrade \in GradeSet /\ (TrialGrade.passed => TrialGrade.category # "incomplete")
    BY <1>1, GradesAre
  <2>2. Recorded(Record(FALSE, TrialGrade)) /\ phase = "running"
    BY <1>6 DEF GradeRun
  <2>3. (SweepTypes /\ SweepInv)'
    BY <1>1, <2>1, <2>2, RecordedSweep
  <2>4. Idle'
    BY <2>2 DEF Recorded, Idle
  <2> QED
    BY <2>3, <2>4, PutAway
<1>7. CASE RunIsStopped
  <2>1. Ungraded \in GradeSet /\ ~Ungraded.passed
    BY <1>1, GradesAre
  <2>2. Recorded(Record(FALSE, Ungraded)) /\ phase = "running"
    BY <1>7 DEF RunIsStopped
  <2>3. (SweepTypes /\ SweepInv)'
    BY <1>1, <2>1, <2>2, RecordedSweep
  <2>4. Idle'
    BY <2>2 DEF Recorded, Idle
  <2> QED
    BY <2>3, <2>4, PutAway
<1>12. CASE TruncateManifest
  BY <1>1, <1>12, TruncateManifestSweep, TrialStands DEF TruncateManifest
<1>8. CASE WriteManifest
  BY <1>1, <1>8, WriteManifestSweep, TrialStands DEF WriteManifest
<1>9. CASE EndSweep
  <2>1. Len(results) = Len(plan)
    <3>1. Len(results) \in 0..Len(plan) /\ Len(plan) \in Nat
          /\ ~(Len(results) + 1 <= Len(plan))
      BY <1>1, <1>9 DEF SweepTypes, SweepInv, EndSweep, More
    <3> QED
      BY <3>1
  <2> QED
    BY <1>1, <1>9, <2>1, SweepStands, TrialStands DEF EndSweep
<1>10. CASE CrashSweep
  BY <1>1, <1>10, SweepStands, TrialStands DEF CrashSweep
<1>11. CASE UNCHANGED vars
  <2>1. UNCHANGED trialVars /\ UNCHANGED <<phase, plan, position, keys, results, manifest>>
    BY <1>11 DEF vars, sweepVars
  <2>2. (SweepTypes /\ SweepInv)'
    BY <1>1, <2>1, SweepStands
  <2> QED
    BY <1>1, <2>1, <2>2, TrialStands
<1> QED
  BY <1>2, <1>3, <1>4, <1>5, <1>6, <1>7, <1>8, <1>9, <1>10, <1>11, <1>12
     DEF Next

\* Every state of the study fits its invariant: what the traces, the agents,
\* the tickets, the records and the manifest have to do with each other.
THEOREM Invariance == Spec => []IInv
<1>1. Init => IInv
  BY InitIInv
<1>2. IInv /\ [Next]_vars => IInv'
  BY NextIInv
<1> QED
  BY <1>1, <1>2, PTL DEF Spec

-----------------------------------------------------------------------------
(* What follows from it *)

LEMMA IInvIncomplete == IInv => IncompleteWasCutOff
<1> SUFFICES ASSUME IInv, TrialOver, TrialGrade.category = "incomplete"
             PROVE  \/ EventsOf("error") # {}
                    \/ Cardinality({i \in EventsOf("llm_call") : trace[i].parent = 2})
                          >= Limit[FirstAgent(setup.arch)]
  BY DEF IncompleteWasCutOff
<1>1. CutOff
  BY DEF IInv, TrialInv, TurnsCounted, TrialOver, Running
<1>2. ~HasFinished(trace)
  <2> SUFFICES ASSUME HasFinished(trace) PROVE FALSE
    OBVIOUS
  <2>1. TrialGrade.category \in {"", "tool_error_unrecovered", "coordination_failure",
                                 "task_failure"}
    BY DEF TrialGrade, GradeCustomerEscalation, GradeCreditHold, Grade, Fails
  <2> QED
    BY <2>1
<1>3. \A type : EventsOf(type) = Events(trace, type)
  BY DEF EventsOf, Events
<1> QED
  BY <1>1, <1>2, <1>3 DEF CutOff, LlmCalls

\* A trial that is graded incomplete had an agent cut off by the service, or its
\* first one by the number of turns it is given: a run that answered is never
\* taken for one that did not.
THEOREM OnlyTheCutOffAreIncomplete == Spec => []IncompleteWasCutOff
BY Invariance, IInvIncomplete, PTL

LEMMA IInvBlamed == IInv => OnlyWordingMisleadsTheBlame
<1> SUFFICES ASSUME IInv, ~Unrecognised, TrialOver, setup.task = "task_02",
                    TrialGrade.category = "coordination_failure",
                    NEW i \in EventsOf("tool_result"), trace[i].answer.changed,
                    trace[trace[i].call].knew
             PROVE  FALSE
  BY DEF OnlyWordingMisleadsTheBlame, BlamedBoundariesLostTheHold, Blamed
<1>1. /\ trace \in Seq(EventSet)
      /\ TraceFits(setup.arch, trace) /\ setup.arch \in Architectures
  BY DEF IInv, TypeOK, TrialTypes, TrialInv, StackFits, TrialOver
<1>2. Seen(setup.arch, trace)
  <2>1. i \in Events(trace, "tool_result")
    BY DEF EventsOf, Events
  <2> QED
    BY <1>1, <2>1 DEF TraceFits, ResultFits
<1>3. Told(trace, "peer_handoff") => HoldInHandoff(trace)
  BY DEF Told, HoldInHandoff, Unrecognised, EventsOf, Events
<1>4. Told(trace, "worker_finish") => HoldInSummary(trace)
  <2> SUFFICES ASSUME NEW j \in Events(trace, "worker_finish"), trace[j].words.tells
               PROVE  trace[j].words.spelling \in {"credit_hold", "credit hold"}
    BY DEF Told, HoldInSummary
  <2>1. trace[j].words.spelling # ""
    BY DEF Unrecognised, EventsOf, Events
  <2>2. trace[j].words \in WordSet
    <3>1. trace[j] \in EventSet /\ trace[j].type = "worker_finish"
      <4> HIDE DEF EventSet
      <4> QED
        BY <1>1, ElementOfSeq DEF Events
    <3> QED
      BY <3>1 DEF EventSet, OwnTypes
  <2> QED
    BY <2>1, <2>2 DEF WordSet, Spellings
<1>5. DecisionAgentSaw(trace)
  <2>1. HoldInHandoff(trace) => Events(trace, "peer_handoff") # {}
    BY DEF HoldInHandoff
  <2>2. HoldInSummary(trace) => Events(trace, "worker_finish") # {}
    BY DEF HoldInSummary
  <2>3. CASE setup.arch = "peer_to_peer"
    BY <1>2, <1>3, <2>1, <2>3 DEF Seen, DecisionAgentSaw
  <2>4. CASE setup.arch = "supervisor_worker"
    BY <1>1, <1>2, <1>4, <2>2, <2>4 DEF Seen, DecisionAgentSaw, TraceFits
  <2>5. CASE setup.arch \notin {"peer_to_peer", "supervisor_worker"}
    BY <1>1, <1>2, <2>5 DEF Seen, DecisionAgentSaw, TraceFits
  <2> QED
    BY <2>3, <2>4, <2>5
<1>6. TrialGrade = GradeCreditHold(trace, tickets)
  BY DEF TrialGrade
<1>7. TrialGrade.category \in {"incomplete", "", "task_failure"}
  BY <1>5, <1>6 DEF GradeCreditHold, Grade, Fails
<1> QED
  BY <1>7

\* When the grader blames an architecture's boundaries for a credit hold that
\* was missed, either a text that crossed one told of the hold in words that the
\* grader does not look for there, or no agent that changed a ticket knew of it.
THEOREM OnlyWordsMisleadTheBlame == Spec => []OnlyWordingMisleadsTheBlame
BY Invariance, IInvBlamed, PTL

LEMMA IInvSummary == IInv => SummaryAgreesWithTheReport
<1> SUFFICES ASSUME IInv, phase = "ended", manifest.state = "whole"
             PROVE  /\ Summary.passed = PassRates(manifest.runs).passed
                    /\ Summary.adjusted = PassRates(manifest.runs).adjusted
  BY DEF SummaryAgreesWithTheReport
<1> DEFINE runs == manifest.runs
           skipped == {i \in DOMAIN results : results[i].skipped}
           active == {i \in DOMAIN runs : ~runs[i].skipped}
           incomplete == {i \in DOMAIN results : results[i].grade.category = "incomplete"}
<1>1. results \in Seq(RecordSet) /\ runs \in Seq(RecordSet)
  BY DEF IInv, TypeOK, SweepTypes
<1>2. /\ DOMAIN results = 1..Len(results) /\ DOMAIN runs = 1..Len(runs)
      /\ Len(results) \in Nat /\ Len(runs) \in Nat
  BY <1>1
<1>3. Len(plan) = Len(results)
  BY DEF IInv, SweepInv
<1>4. /\ Len(runs) \in 0..Len(results)
      /\ \A i \in DOMAIN runs : runs[i] = results[i]
      /\ \A i \in DOMAIN results : i > Len(runs) => results[i].skipped
  BY DEF IInv, SweepInv, ManifestFits
<1>5. \A i \in DOMAIN results :
         /\ results[i].skipped => /\ results[i].grade.passed = FALSE
                                  /\ results[i].grade.category = "none"
         /\ results[i].grade.passed => results[i].grade.category # "incomplete"
         /\ results[i].skipped \in BOOLEAN /\ results[i].grade.passed \in BOOLEAN
  <2>1. Ungraded.passed = FALSE /\ Ungraded.category = "none"
    BY DEF Ungraded, Grade
  <2>2. \A i \in DOMAIN results : results[i] \in RecordSet
    BY <1>1
  <2> QED
    BY <2>1, <2>2 DEF IInv, SweepInv, RecordFits, RecordSet, GradeSet
<1>6. \A i \in DOMAIN results : i \in DOMAIN runs \/ results[i].skipped
  BY <1>2, <1>4
<1>7. DOMAIN runs \subseteq DOMAIN results
  BY <1>2, <1>4
<1>8. {i \in DOMAIN results : results[i].grade.passed} = Classed(runs, "pass")
  BY <1>4, <1>5, <1>6, <1>7 DEF Classed, Classify
<1>9. incomplete = Classed(runs, "incomplete")
  BY <1>4, <1>5, <1>6, <1>7 DEF Classed, Classify
<1>10. active = (DOMAIN results) \ skipped
  BY <1>4, <1>6, <1>7
<1>11. IsFiniteSet(DOMAIN results) /\ Cardinality(DOMAIN results) = Len(results)
  <2>1. /\ IsFiniteSet(1..Len(results))
        /\ Cardinality(1..Len(results)) = IF 1 > Len(results) THEN 0 ELSE Len(results) - 1 + 1
    <3>1. 1 \in Int /\ Len(results) \in Int
      BY <1>2
    <3> QED
      BY <3>1, FS_Interval
  <2> QED
    BY <1>2, <2>1
<1>12. /\ IsFiniteSet(skipped) /\ Cardinality(skipped) \in Nat
       /\ IsFiniteSet(incomplete) /\ Cardinality(incomplete) \in Nat
  BY <1>11, FS_Subset, FS_CardinalityType
<1>13. Cardinality((DOMAIN results) \ skipped)
          = Cardinality(DOMAIN results) - Cardinality((DOMAIN results) \cap skipped)
  BY <1>11, FS_Difference
<1>14. (DOMAIN results) \cap skipped = skipped
  OBVIOUS
<1>15. Cardinality(active) = Len(results) - Cardinality(skipped)
  BY <1>10, <1>11, <1>13, <1>14
<1>16. Summary.passed = PassRates(runs).passed
  BY <1>8 DEF Summary, PassRates
<1>17. /\ Summary.adjusted = Len(plan) - Cardinality(incomplete) - Cardinality(skipped)
       /\ PassRates(runs).adjusted = Cardinality(active) - Cardinality(Classed(runs, "incomplete"))
  BY DEF Summary, PassRates
<1> HIDE DEF runs, skipped, active, incomplete
<1>18. Summary.adjusted = PassRates(runs).adjusted
  BY <1>2, <1>3, <1>9, <1>12, <1>15, <1>17
<1> QED
  BY <1>16, <1>18 DEF runs

\* The rates run_all prints, counted from its plan, are those of the report,
\* counted from the records it wrote, however many runs were skipped and
\* wherever.
THEOREM TheTwoCountsAgree == Spec => []SummaryAgreesWithTheReport
BY Invariance, IInvSummary, PTL

LEMMA IInvManifest == IInv => ReadableManifestIsComplete
<1> SUFFICES ASSUME IInv PROVE ReadableManifestIsComplete
  OBVIOUS
<1>1. results \in Seq(RecordSet) /\ manifest.runs \in Seq(RecordSet)
  BY DEF IInv, TypeOK, SweepTypes
<1>2. /\ DOMAIN results = 1..Len(results) /\ Len(results) \in Nat
      /\ DOMAIN manifest.runs = 1..Len(manifest.runs) /\ Len(manifest.runs) \in Nat
  BY <1>1
<1>3. ManifestFits
  BY DEF IInv, SweepInv
<1>4. phase \in {"next", "running", "ended"} => Keeps(Len(results))
  BY <1>2, <1>3 DEF ManifestFits, Keeps
<1>5. manifest.state = "whole" => Keeps(Len(results) - 1)
  BY <1>2, <1>3 DEF ManifestFits, Keeps
<1> QED
  BY <1>4, <1>5 DEF ReadableManifestIsComplete

\* Between two runs the manifest has every record that counts, and whenever it
\* can be read it lacks no more than the last, for every plan and wherever the
\* sweep is interrupted.
THEOREM ReadableManifests == Spec => []ReadableManifestIsComplete
BY Invariance, IInvManifest, PTL

-----------------------------------------------------------------------------
(* The calls done again, as the property folds them *)

LEMMA RedoneRows ==
  ASSUME TrialTypes, TrialInv, NEW rows \in Seq(RowSet), NEW k \in DOMAIN trace
  PROVE  Redo(trace, rows, trace[k]) \in Seq(RowSet)
<1>1. CASE trace[k].type = "tool_result"
  <2>1. ResultFits(setup.arch, trace, k)
    BY <1>1 DEF TrialInv, TraceFits, Events
  <2>2. trace[k].call \in DOMAIN trace /\ trace[trace[k].call].type = "tool_call"
    BY <2>1 DEF ResultFits
  <2>3. trace[trace[k].call] \in EventSet
    <3>1. trace \in Seq(EventSet)
      BY DEF TrialTypes
    <3> HIDE DEF EventSet
    <3> QED
      BY <2>2, <3>1, ElementOfSeq
  <2>4. trace[trace[k].call].call \in Calls
    BY <2>2, <2>3, EventKinds
  <2> QED
    BY <2>4, RowsKept DEF Redo
<1>2. CASE trace[k].type # "tool_result"
  BY <1>2 DEF Redo
<1> QED
  BY <1>1, <1>2

LEMMA IInvTickets == IInv => TraceExplainsTheTickets
<1> DEFINE n == Len(trace)
           V == Seq(RowSet)
           After(rows, k) == Redo(trace, rows, trace[k])
           F == [x \in V \X (1..n) |-> After(x[1], x[2])]
           Step(g) == [T \in SUBSET DOMAIN trace |->
                         IF T = {} THEN Seeded ELSE After(g[T \ {Max(T)}], Max(T))]
           iter == CHOOSE g : g = Step(g)
<1>1. SUFFICES ASSUME IInv, setup # NoTrial
               PROVE  tickets = iter[DOMAIN trace]
  BY DEF TraceExplainsTheTickets, FoldLeft, MapThenFoldSet, Redo
<1>2. TrialTypes /\ TrialInv
  BY <1>1 DEF IInv, TypeOK
<1>3. n \in Nat /\ DOMAIN trace = 1..n
  <2>1. trace \in Seq(EventSet)
    BY <1>2 DEF TrialTypes
  <2> HIDE DEF EventSet
  <2> QED
    BY <2>1, LenProperties
<1>4. Seeded \in V
  BY SeededRows
<1>5. \A v \in V, k \in 1..n : After(v, k) \in V
  BY <1>2, <1>3, RedoneRows
<1>6. PICK told \in [0..n -> V] :
        told[0] = Seeded /\ told[n] = tickets
        /\ \A k \in 1..n : told[k] = After(told[k - 1], k)
  BY <1>1, <1>2 DEF TrialInv, Explains
<1> HIDE DEF V, n, After
<1>7. F \in [V \X (1..n) -> V] /\ \A v \in V, k \in 1..n : F[<<v, k>>] = After(v, k)
  BY <1>5
<1>8. PICK g \in [SUBSET (1..n) -> V] : IsFold(g, n, Seeded, F)
  <2> HIDE DEF F
  <2> QED
    BY <1>3, <1>4, <1>7, FoldExists
<1>9. g = Step(g)
  <2>1. ASSUME NEW T \in SUBSET (1..n), T # {}
        PROVE  F[<<g[T \ {Max(T)}], Max(T)>>] = After(g[T \ {Max(T)}], Max(T))
    <3>1. Max(T) \in 1..n
      BY <1>3, <2>1, MaxIn
    <3>2. T \ {Max(T)} \in SUBSET (1..n) /\ g[T \ {Max(T)}] \in V
      OBVIOUS
    <3> HIDE DEF F
    <3> QED
      BY <1>7, <3>1, <3>2
  <2> HIDE DEF F
  <2> QED
    BY <1>3, <1>8, <2>1 DEF IsFold
<1>10. iter = Step(iter)
  BY <1>9
<1> HIDE DEF iter
<1>11. IsFoldWithin(iter, n, V, Seeded, F)
  <2>1. ASSUME NEW T \in SUBSET (1..n), T # {}, iter[T \ {Max(T)}] \in V
        PROVE  iter[T] = F[<<iter[T \ {Max(T)}], Max(T)>>]
    <3>1. Max(T) \in 1..n
      BY <1>3, <2>1, MaxIn
    <3>2. iter[T] = After(iter[T \ {Max(T)}], Max(T))
      BY <1>3, <1>10, <2>1
    <3> HIDE DEF F
    <3> QED
      BY <1>7, <2>1, <3>1, <3>2
  <2>2. iter[{}] = Seeded
    BY <1>10
  <2> HIDE DEF F
  <2> QED
    BY <2>1, <2>2 DEF IsFoldWithin
<1> HIDE DEF F
<1>12. PICK p \in [0..n -> V] : IsChain(p, n, Seeded, F, iter[1..n])
  BY <1>3, <1>4, <1>7, <1>11, FoldChain
<1>13. \A k \in 1..n : p[k] = After(p[k - 1], k)
  <2> SUFFICES ASSUME NEW k \in 1..n PROVE p[k] = After(p[k - 1], k)
    OBVIOUS
  <2>1. k - 1 \in 0..n
    BY <1>3
  <2>2. p[k - 1] \in V
    BY <2>1
  <2> QED
    BY <1>7, <1>12, <2>2 DEF IsChain
<1> DEFINE good == {k \in 0..n : p[k] = told[k]}
<1>14. n \in good
  <2>1. 0 \in good /\ good \in SUBSET (0..n)
    BY <1>3, <1>6, <1>12 DEF IsChain
  <2>2. ASSUME NEW k \in 1..n, k - 1 \in good
        PROVE  k \in good
    <3>1. k \in 0..n
      BY <1>3
    <3> QED
      BY <1>6, <1>13, <2>2, <3>1
  <2>3. \A b \in SUBSET (0..n) :
           0 \in b /\ (\A k \in 1..n : k - 1 \in b => k \in b) => b = 0..n
    BY <1>3, UpTo
  <2> HIDE DEF good
  <2> QED
    BY <1>3, <2>1, <2>2, <2>3
<1>15. iter[1..n] = tickets
  BY <1>6, <1>12, <1>14 DEF IsChain
<1> QED
  BY <1>3, <1>15

\* The calls the trace shows as carried out, done again in their order on the
\* seeded table, give the table the grader reads beside the trace.
THEOREM TheTraceTellsTheTable == Spec => []TraceExplainsTheTickets
BY Invariance, IInvTickets, PTL
=============================================================================
