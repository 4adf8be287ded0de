----------------------------- MODULE RateLimit -----------------------------
(***************************************************************************)
(* One provider profile's budget, ProviderLimiter of                       *)
(* agent_arena/core/ratelimit.py, and the calls of the runner's worker     *)
(* threads through it: ArenaRunner._execute enters the limiter once and    *)
(* then makes up to MaxRetries + 1 requests (_generate_with_retries).      *)
(*                                                                         *)
(* A call takes a slot of the semaphore, then waits on two token buckets,  *)
(* one after the other.  The clock is a Tick; amounts are integers, so a   *)
(* request may cost more than one unit.  A limit that is not set is a      *)
(* bucket with cost 0, or as many slots as threads.                        *)
(***************************************************************************)
EXTENDS Naturals, FiniteSets

CONSTANTS
    Threads,    \* the workers whose model routes to this profile
    Slots,      \* rate_limit.concurrency
    Rate,       \* TokenBucket.rate: units a tick, of each bucket
    Capacity,   \* TokenBucket.capacity: rpm or burst, and tpm
    Cost,       \* 1 request, and _estimate tokens
    MaxRetries, \* run.retries
    MaxThrough, \* bound: calls made through the limiter
    MaxIdle,    \* bound: ticks after which a bucket is full, whatever it held
    Window,     \* ticks of the stretch of time over which grants are counted
    NotYet      \* the stretch has not begun

Buckets == {"requests", "tokens"}

ASSUME RateAssumption ==
    /\ IsFiniteSet(Threads)
    /\ Slots \in Nat
    /\ MaxRetries \in Nat
    /\ MaxThrough \in Nat
    /\ Window \in Nat
    /\ Rate \in [Buckets -> Nat]
    /\ Capacity \in [Buckets -> Nat]
    /\ Cost \in [Buckets -> Nat]
    /\ MaxIdle \in Nat
    /\ \A b \in Buckets : MaxIdle * Rate[b] >= Capacity[b]
    /\ NotYet \notin Nat

VARIABLES
    stage,      \* where each worker is in its call
    slots,      \* the semaphore's counter
    tokens,     \* TokenBucket._tokens
    idle,       \* ticks since TokenBucket._updated, counted up to MaxIdle
    attempt,    \* requests made so far for the call a worker is in
    calls,      \* calls begun
    age,        \* ticks since the counted stretch began
    granted,    \* units taken from each bucket during it
    entered,    \* calls let through to the provider during it
    sent        \* requests sent to the provider during it

bucketVars == <<tokens, idle>>
counters == <<age, granted, entered, sent>>
limiterVars == <<stage, slots, bucketVars, attempt, calls, counters>>

Least(a, b) == IF a <= b THEN a ELSE b
Counting == age # NotYet /\ age # Window
Inside == {t \in Threads : stage[t] \in {"requests", "tokens", "sending", "waiting"}}

TypeOK ==
    /\ stage \in [Threads -> {"idle", "slot", "requests", "tokens", "sending", "waiting"}]
    /\ slots \in 0..Slots
    /\ tokens \in [Buckets -> Nat]
    /\ \A b \in Buckets : tokens[b] <= Capacity[b]
    /\ idle \in [Buckets -> 0..MaxIdle]
    /\ attempt \in [Threads -> 0..(MaxRetries + 1)]
    /\ calls \in 0..MaxThrough
    /\ age \in 0..Window \cup {NotYet}
    /\ granted \in [Buckets -> Nat]
    /\ entered \in Nat
    /\ sent \in Nat

LimiterInit ==
    /\ stage = [t \in Threads |-> "idle"]
    /\ slots = Slots
    /\ tokens = Capacity
    /\ idle = [b \in Buckets |-> 0]
    /\ attempt = [t \in Threads |-> 0]
    /\ calls = 0
    /\ age = NotYet
    /\ granted = [b \in Buckets |-> 0]
    /\ entered = 0
    /\ sent = 0

\* _execute comes to `with limiter`.
StartCall(t) ==
    /\ stage[t] = "idle"
    /\ calls < MaxThrough
    /\ calls' = calls + 1
    /\ attempt' = [attempt EXCEPT ![t] = 0]
    /\ stage' = [stage EXCEPT ![t] = "slot"]
    /\ UNCHANGED <<slots, bucketVars, counters>>

\* slots.acquire()
TakeSlot(t) ==
    /\ stage[t] = "slot"
    /\ slots > 0
    /\ slots' = slots - 1
    /\ stage' = [stage EXCEPT ![t] = "requests"]
    /\ UNCHANGED <<bucketVars, attempt, calls, counters>>

\* Mutant: the bucket may hold more than its capacity.
LevelUncapped(b) == tokens[b] + idle[b] * Rate[b]

\* _refill: what the bucket holds at this instant.
Level(b) == Least(Capacity[b], tokens[b] + idle[b] * Rate[b])

\* Mutant: waits for the whole amount, however small the bucket.
WantedWhole(b) == Cost[b]

\* An amount the bucket can never hold is clamped to its capacity.
Wanted(b) == Least(Cost[b], Capacity[b])

AfterBucket(b) == IF b = "requests" THEN "tokens" ELSE "sending"

\* acquire, when the bucket has the amount: refill and take it, in one go
\* under the bucket's lock.
Take(t, b) ==
    /\ stage[t] = b
    /\ Level(b) >= Wanted(b)
    /\ tokens' = [tokens EXCEPT ![b] = Level(b) - Wanted(b)]
    /\ idle' = [idle EXCEPT ![b] = 0]
    /\ stage' = [stage EXCEPT ![t] = AfterBucket(b)]
    /\ granted' = IF Counting THEN [granted EXCEPT ![b] = @ + Wanted(b)] ELSE granted
    /\ entered' = IF Counting /\ b = "tokens" THEN entered + 1 ELSE entered
    /\ UNCHANGED <<slots, attempt, calls, age, sent>>

\* acquire, when it falls short: the refill is kept and the thread sleeps.
\* It polls again when it wakes; nothing else depends on how long that is.
FallShort(t, b) ==
    /\ stage[t] = b
    /\ Level(b) < Wanted(b)
    /\ tokens' = [tokens EXCEPT ![b] = Level(b)]
    /\ idle' = [idle EXCEPT ![b] = 0]
    /\ UNCHANGED <<stage, slots, attempt, calls, counters>>

\* connector.generate(request).  A retry comes back here: it takes no token.
SendRequest(t) ==
    /\ stage[t] = "sending"
    /\ attempt' = [attempt EXCEPT ![t] = @ + 1]
    /\ sent' = IF Counting THEN sent + 1 ELSE sent
    /\ stage' = [stage EXCEPT ![t] = "waiting"]
    /\ UNCHANGED <<slots, bucketVars, calls, age, granted, entered>>

\* An answer, a terminal error, or the last attempt's error: __exit__.
Leave(t) ==
    /\ stage[t] = "waiting"
    /\ slots' = slots + 1
    /\ stage' = [stage EXCEPT ![t] = "idle"]
    /\ UNCHANGED <<bucketVars, attempt, calls, counters>>

\* Mutant: one attempt too many.
RetryOnceMore(t) ==
    /\ stage[t] = "waiting"
    /\ attempt[t] <= MaxRetries + 1
    /\ stage' = [stage EXCEPT ![t] = "sending"]
    /\ UNCHANGED <<slots, bucketVars, attempt, calls, counters>>

\* An error worth another attempt: back off, still inside the limiter.
Retry(t) ==
    /\ stage[t] = "waiting"
    /\ attempt[t] <= MaxRetries
    /\ stage' = [stage EXCEPT ![t] = "sending"]
    /\ UNCHANGED <<slots, bucketVars, attempt, calls, counters>>

\* Time passes.  A bucket that was idle for MaxIdle ticks is full and stays so.
Tick ==
    /\ idle' = [b \in Buckets |-> Least(idle[b] + 1, MaxIdle)]
    /\ age' = IF Counting THEN age + 1 ELSE age
    /\ UNCHANGED <<stage, slots, tokens, attempt, calls, granted, entered, sent>>

\* The counted stretch begins, at any time.
BeginWindow ==
    /\ age = NotYet
    /\ age' = 0
    /\ UNCHANGED <<stage, slots, bucketVars, attempt, calls, granted, entered, sent>>

Worker(t) ==
    \/ TakeSlot(t)
    \/ \E b \in Buckets : Take(t, b) \/ FallShort(t, b)
    \/ SendRequest(t)
    \/ Leave(t)
    \/ Retry(t)

LimiterNext ==
    \/ \E t \in Threads : StartCall(t) \/ Worker(t)
    \/ Tick
    \/ BeginWindow

LimiterSpec == LimiterInit /\ [][LimiterNext]_limiterVars

\* A worker that can go on does (a request answers or times out, a sleep
\* ends), and time passes.  Nothing decides who gets the next token.
FairSpec == LimiterSpec /\ WF_limiterVars(Tick) /\ \A t \in Threads : WF_limiterVars(Worker(t))

-----------------------------------------------------------------------------
(* What must hold *)

\* No more calls than the declared concurrency are inside the limiter, and
\* every way out gives the slot back: __exit__ loses none.
SlotsAreConserved == slots + Cardinality(Inside) = Slots

\* Over any stretch of time a bucket hands out its capacity at most, and what
\* it earned since the stretch began: the promise of TokenBucket.
GrantsWithinBucket ==
    age # NotYet => \A b \in Buckets : granted[b] <= Capacity[b] + Rate[b] * age

\* What the provider sees: every call let through, and every one that was
\* inside when counting began, makes MaxRetries + 1 requests at most.
RequestsAreBounded == sent <= (MaxRetries + 1) * (entered + Slots)

\* acquire: "being slightly over a limit is better than deadlocking a run".
\* Every call through the limiter ends, whatever the buckets hold.
EveryCallEnds == \A t \in Threads : stage[t] # "idle" ~> stage[t] = "idle"
=============================================================================
