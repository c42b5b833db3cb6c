--------------------------- MODULE RabbitMQTopology ---------------------------
(***************************************************************************)
(* The queues a consumer declares from its retry policy                    *)
(* (internal/infrastructure/messaging/rabbitmq_topology.go), and one       *)
(* request that keeps failing temporarily while the service is redeployed  *)
(* with another policy.                                                    *)
(*                                                                         *)
(* Queues are durable: what an earlier deployment declared is still there, *)
(* and a QueueDeclare with the same name but another TTL is refused by the *)
(* broker, so that the consumer would never connect again.  A publish to a *)
(* queue that was never declared would be dropped without an error.        *)
(***************************************************************************)
EXTENDS RetryPolicy, FiniteSets

CONSTANTS Millisecond, Second, Minute, Hour,   \* the units of time.Duration, in ticks
          MaxAttemptsBound,   \* deployments use 1..MaxAttemptsBound attempts
          DelayValues,        \* and these delays, in ticks
          MaxDeploys          \* number of deployments

ASSUME BoundsAssumption == MaxAttemptsBound \in Nat

ASSUME UnitsAssumption ==
    /\ Millisecond \in Nat \ {0} /\ {Second, Minute, Hour} \subseteq Nat
    /\ Second % Millisecond = 0 /\ Second > Millisecond
    /\ Minute % Second = 0 /\ Minute > Second
    /\ Hour % Minute = 0 /\ Hour > Minute

\* Doubling the longest delay must not wrap around, i.e. MAILER_RETRY_MAX_DELAY is below 2^62 ns
\* (146 years).  The configuration does not check it.
ASSUME NoOverflowAssumption == \A d \in DelayValues : d \in Nat \ {0} /\ 2 * d <= MaxDuration

VARIABLES
    policy,     \* of the running deployment
    connected,  \* FALSE when topology.declare failed
    declared,   \* the retry queues that exist on the broker: [name, ttl]
    deploys,    \* deployments so far
    attempt,    \* the attempt number the request carries (x-attempt)
    waiting     \* NoWait, or [queue, policy, attempt]: where it waits, and after which attempt

vars == << policy, connected, declared, deploys, attempt, waiting >>

NoWait == [queue |-> << 0, "" >>, policy |-> << >>, attempt |-> 0]

Policies ==
    {p \in [MaxAttempts: 1..MaxAttemptsBound, BaseDelay: DelayValues, MaxDelay: DelayValues] :
        ValidPolicy(p)}

-----------------------------------------------------------------------------
\* x-message-ttl of the queue declared for d: whole milliseconds.
MessageTTL(d) == d \div Millisecond

\* Mutant: a minute and more is named in whole minutes.
compactDurationRounded(d) ==
    IF d >= Minute THEN << d \div Minute, "m" >> ELSE << d \div Millisecond, "ms" >>

\* The part of a queue's name that depends on d: a number and a unit.
compactDuration(d) ==
    IF d % Hour = 0 THEN << d \div Hour, "h" >>
    ELSE IF d % Minute = 0 THEN << d \div Minute, "m" >>
    ELSE IF d % Second = 0 THEN << d \div Second, "s" >>
    ELSE << d \div Millisecond, "ms" >>

\* Mutant: always the first queue.
retryQueueFirst(delays, d) == compactDuration(delays[1])

\* The first queue that waits at least d, or the longest one.  The program indexes the list
\* directly, so an empty list would panic.
retryQueue(delays, d) ==
    LET fitting == {i \in 1..Len(delays) : delays[i] >= d}
        index == IF fitting = {} THEN Len(delays)
                 ELSE CHOOSE i \in fitting : \A j \in fitting : i <= j
    IN  compactDuration(delays[index])

QueueOf(d) == [name |-> compactDuration(d), ttl |-> MessageTTL(d)]

retryQueues(p) == {QueueOf(Delays(p)[i]) : i \in 1..Len(Delays(p))}

\* What the broker refuses: the same name with other arguments.
Conflicts(queues, q) == \E e \in queues : e.name = q.name /\ e.ttl # q.ttl

\* The retry queues of p, by their place, that topology.declare reaches and the broker accepts
\* while it holds queues: declare stops at the first refused one.
accepted(queues, p) ==
    LET Held(i) == queues \cup {QueueOf(Delays(p)[j]) : j \in 1..i - 1}
    IN  {n \in 1..Len(Delays(p)) :
            \A i \in 1..n : ~Conflicts(Held(i), QueueOf(Delays(p)[i]))}

declare(queues, p) == queues \cup {QueueOf(Delays(p)[i]) : i \in accepted(queues, p)}

-----------------------------------------------------------------------------
Init ==
    /\ policy \in Policies
    /\ connected = (accepted({}, policy) = 1..Len(Delays(policy)))
    /\ declared = declare({}, policy)
    /\ deploys = 1
    /\ attempt = 1
    /\ waiting = NoWait

\* The service starts with another policy and declares its topology (topology.declare).
Redeploy(p) ==
    /\ deploys < MaxDeploys
    /\ deploys' = deploys + 1
    /\ policy' = p
    /\ connected' = (accepted(declared, p) = 1..Len(Delays(p)))
    /\ declared' = declare(declared, p)
    /\ UNCHANGED << attempt, waiting >>

\* An attempt fails temporarily with attempts left: the request is republished to the retry
\* queue of RetryIn = Delay(attempt) with the next attempt number.
FailTemporarily ==
    /\ connected
    /\ waiting = NoWait
    /\ CanRetry(policy, attempt)
    /\ waiting' = [queue |-> retryQueue(Delays(policy), Delay(policy, attempt)),
                   policy |-> policy, attempt |-> attempt]
    /\ attempt' = attempt + 1
    /\ UNCHANGED << policy, connected, declared, deploys >>

\* The TTL passes and the broker dead-letters the request back to the main queue.
Expire ==
    /\ waiting # NoWait
    /\ waiting' = NoWait
    /\ UNCHANGED << policy, connected, declared, deploys, attempt >>

\* The last attempt's failure is final: nothing more happens to the request.
GiveUp ==
    /\ connected
    /\ waiting = NoWait
    /\ ~CanRetry(policy, attempt)
    /\ UNCHANGED vars

Next == FailTemporarily \/ Expire \/ GiveUp \/ \E p \in Policies : Redeploy(p)

Spec == Init /\ [][Next]_vars

-----------------------------------------------------------------------------
\* "BaseDelay doubled per attempt, capped at MaxDelay" (retry.go:16), of numbers that have no end.
Backoff(p, n) ==
    LET doubled[i \in Nat] == IF i = 0 THEN p.BaseDelay ELSE 2 * doubled[i - 1]
    IN  Least(doubled[n - 1], p.MaxDelay)

(***************************************************************************)
(* A request that waits is in a queue that exists on the broker and whose  *)
(* TTL is the documented backoff of the attempt that failed: retryQueue    *)
(* never falls back to another wait, never indexes an empty list, and      *)
(* never names a queue that declare did not create - whatever was deployed *)
(* before (rabbitmq_topology.go:29-72, retry.go:18-37).                    *)
(***************************************************************************)
WaitsAsLongAsThePolicySays ==
    waiting # NoWait =>
        \E q \in declared :
            /\ q.name = waiting.queue
            /\ q.ttl = MessageTTL(Backoff(waiting.policy, waiting.attempt))

(***************************************************************************)
(* "changing the policy declares new queues instead of conflicting with    *)
(* the TTL of existing ones" (rabbitmq_topology.go:68): no sequence of     *)
(* deployments makes the broker refuse a declaration.                      *)
(***************************************************************************)
RedeployNeverConflicts == connected

=============================================================================
