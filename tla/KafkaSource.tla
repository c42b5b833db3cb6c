------------------------------ MODULE KafkaSource ------------------------------
(***************************************************************************)
(* Replicas of the service consuming Kafka                                 *)
(* (internal/infrastructure/messaging/kafka_*.go).                         *)
(*                                                                         *)
(* Every replica runs two consumer loops, one on the main topic and one on *)
(* the retry topic, each a member of the consumer group of its topic.  A   *)
(* topic is one partition: a log, and the committed offset of its group.   *)
(* A loop polls a batch, hands its records in order to the service,        *)
(* produces retries and dead letters, stops at the first record that       *)
(* cannot be resolved, commits what was resolved and allows the rebalance. *)
(*                                                                         *)
(* The group gives the partition to one member.  It is moved only while    *)
(* the member is polling (BlockRebalanceOnPoll), or when its batch takes   *)
(* longer than the rebalance timeout: then the member is evicted, goes on  *)
(* with its batch unknowingly, and its commit is refused.  A call of the   *)
(* handler takes one unit of time and RebalanceTimeout is in those units;  *)
(* the wait for x-not-before is left open.                                 *)
(*                                                                         *)
(* ProduceSync retries what the broker says may be retried.  What ends it  *)
(* with an error is the cancelled context, or an error that is not         *)
(* retryable (message too large, unknown topic, not authorized), which     *)
(* PermanentErrors switches on.                                            *)
(***************************************************************************)
EXTENDS MailerService, Integers, Sequences

CONSTANTS
    Messages, Replicas, NoReplica,
    NoAttempt,          \* the x-attempt header is absent or not a number
    ProducerAttempts,   \* x-attempt headers that producers set
    RequestKinds,       \* requests the messages may carry
    SenderCodes,        \* error codes the sender may report
    MaxAttempts,        \* MAILER_MAX_ATTEMPTS
    MaxBatch,           \* records a poll may return
    RebalanceTimeout,   \* deliveries that use up the rebalance timeout
    PermanentErrors,    \* BOOLEAN: a produce may fail for good
    MaxUpsets           \* bound on crashes, shutdowns, rebalances, failed commits, refused produces

ASSUME KafkaAssumption ==
    /\ NoReplica \notin Replicas
    /\ NoAttempt \notin Int
    /\ ProducerAttempts \subseteq Int \cup {NoAttempt}
    /\ RequestKinds \subseteq Requests
    /\ SenderCodes \subseteq ErrorCodes
    /\ MaxAttempts \in Nat \ {0}
    /\ MaxBatch \in Nat \ {0}
    /\ RebalanceTimeout \in Nat \ {0}
    /\ PermanentErrors \in BOOLEAN
    /\ MaxUpsets \in Nat

Topics == {"main", "retry"}

VARIABLES
    \* the producers
    request,    \* the request each message carries
    published,  \* messages in the main topic
    \* the brokers
    log,        \* the records of each topic
    committed,  \* the committed offset of the topic's group: the records below it are done with
    dead,       \* messages in the dead-letter topic
    owner,      \* the replica the group has given the topic to, or NoReplica
    \* the replicas
    up,         \* "down", "running" or "cancelled": the context is done
    loop,       \* the consumer loop of each replica and topic
    \* what the outside world has seen
    sent,       \* how often the provider accepted each message
    told,       \* the callbacks that took an event of it
    upset,      \* what disturbed its processing
    upsets      \* number of upsets so far

producerVars == << request, published >>
brokerVars == << log, committed, dead, owner >>
worldVars == << sent, told >>
vars == << producerVars, brokerVars, up, loop, worldVars, upset, upsets >>

Loops == Replicas \X Topics

\* What may make a message be processed again.
Reasons == {"crash", "shutdown", "evicted", "commit_failed", "ambiguous", "refused"}

Records == [msg: Messages, header: Int \cup {NoAttempt}]

\* A loop: the offset to poll next; the batch from first up to last; the offset being processed;
\* and the action of the handler for it.  Offsets count the records before them.
LoopRecords ==
    [pc: {"polling", "processing", "applying", "committing"}, position: Nat,
     first: Nat, current: Nat, last: Nat, attempt: Nat, action: Actions]

NoLoop ==
    [pc |-> "polling", position |-> 0,
     first |-> 0, current |-> 0, last |-> 0, attempt |-> 0, action |-> "none"]

TypeOK ==
    /\ request \in [Messages -> RequestKinds]
    /\ published \subseteq Messages
    /\ \A t \in Topics : \A i \in 1..Len(log[t]) : log[t][i] \in Records
    /\ committed \in [Topics -> Nat]
    /\ dead \subseteq Messages
    /\ owner \in [Topics -> Replicas \cup {NoReplica}]
    /\ up \in [Replicas -> {"down", "running", "cancelled"}]
    /\ loop \in [Loops -> LoopRecords]
    /\ sent \in [Messages -> Nat]
    /\ told \in [Messages -> SUBSET {"sent", "failed"}]
    /\ upset \in [Messages -> SUBSET Reasons]
    /\ upsets \in 0..MaxUpsets

-----------------------------------------------------------------------------
\* The messages of the records from offset a up to offset b of topic t.
MessagesIn(t, a, b) == {log[t][i].msg : i \in (a + 1)..b}

Mark(ms, reason) ==
    upset' = [m \in Messages |-> IF m \in ms THEN upset[m] \cup {reason} ELSE upset[m]]

Upset == upsets < MaxUpsets /\ upsets' = upsets + 1

InBatch(l) == loop[l].pc # "polling"

\* The calls of the handler in the batch so far.
Elapsed(l) ==
    loop[l].current - loop[l].first + (IF loop[l].pc = "applying" THEN 1 ELSE 0)

\* The records the loop has begun to process since its last commit.
Begun(l) ==
    LET p == loop[l] IN
    MessagesIn(l[2], p.first, IF p.pc = "applying" THEN p.current + 1 ELSE p.current)

-----------------------------------------------------------------------------
(***************************************************************************)
(* Producers, processes and the consumer groups.                           *)
(***************************************************************************)

Publish(m) ==
    /\ m \notin published
    /\ published' = published \cup {m}
    /\ \E h \in ProducerAttempts :
          log' = [log EXCEPT !["main"] = Append(@, [msg |-> m, header |-> h])]
    /\ UNCHANGED << request, committed, dead, owner, up, loop, worldVars, upset, upsets >>

\* KafkaSource.Run: after connecting, the loops of both topics start.
Start(r) ==
    /\ up[r] = "down"
    /\ up' = [up EXCEPT ![r] = "running"]
    /\ UNCHANGED << producerVars, brokerVars, loop, worldVars, upset, upsets >>

\* Mutant: the member starts at the end of the log.
AssignAtEnd(l) ==
    /\ owner[l[2]] = NoReplica
    /\ up[l[1]] = "running"
    /\ ~InBatch(l)
    /\ owner' = [owner EXCEPT ![l[2]] = l[1]]
    /\ loop' = [loop EXCEPT ![l] = [NoLoop EXCEPT !.position = Len(log[l[2]])]]
    /\ UNCHANGED << producerVars, log, committed, dead, up, worldVars, upset, upsets >>

\* The group gives a topic nobody has to a running member, which reads on from the committed
\* offset.
Assign(l) ==
    /\ owner[l[2]] = NoReplica
    /\ up[l[1]] = "running"
    /\ ~InBatch(l)
    /\ owner' = [owner EXCEPT ![l[2]] = l[1]]
    /\ loop' = [loop EXCEPT ![l] = [NoLoop EXCEPT !.position = committed[l[2]]]]
    /\ UNCHANGED << producerVars, log, committed, dead, up, worldVars, upset, upsets >>

\* Mutant: rebalances are not blocked while a batch is in flight.
RevokeUnblocked(l) ==
    /\ Upset
    /\ owner[l[2]] = l[1]
    /\ owner' = [owner EXCEPT ![l[2]] = NoReplica]
    /\ UNCHANGED << producerVars, log, committed, dead, up, loop, worldVars, upset >>

\* A rebalance takes the topic from a member that is polling.
Revoke(l) ==
    /\ Upset
    /\ owner[l[2]] = l[1]
    /\ ~InBatch(l)
    /\ owner' = [owner EXCEPT ![l[2]] = NoReplica]
    /\ loop' = [loop EXCEPT ![l] = NoLoop]
    /\ UNCHANGED << producerVars, log, committed, dead, up, worldVars, upset >>

\* A rebalance is due while the member works on a batch: the group waits for it no longer than the
\* rebalance timeout.
Evict(l) ==
    /\ Upset
    /\ owner[l[2]] = l[1]
    /\ InBatch(l)
    /\ Elapsed(l) >= RebalanceTimeout
    /\ owner' = [owner EXCEPT ![l[2]] = NoReplica]
    /\ Mark(MessagesIn(l[2], loop[l].first, loop[l].last), "evicted")
    /\ UNCHANGED << producerVars, log, committed, dead, up, loop, worldVars >>

\* The service is asked to stop: the context of the loops is cancelled.
Cancel(r) ==
    /\ Upset
    /\ up[r] = "running"
    /\ up' = [up EXCEPT ![r] = "cancelled"]
    /\ UNCHANGED << producerVars, brokerVars, loop, worldVars, upset >>

Leave(r) ==
    /\ up' = [up EXCEPT ![r] = "down"]
    /\ loop' = [l \in Loops |-> IF l[1] = r THEN NoLoop ELSE loop[l]]
    /\ owner' = [t \in Topics |-> IF owner[t] = r THEN NoReplica ELSE owner[t]]

\* Both loops have returned: Run closes the clients, which leave their groups.
Exit(r) ==
    /\ up[r] = "cancelled"
    /\ \A t \in Topics : ~InBatch(<< r, t >>)
    /\ Leave(r)
    /\ UNCHANGED << producerVars, log, committed, dead, worldVars, upset, upsets >>

\* The process dies, whatever it is doing; its groups notice.
Crash(r) ==
    /\ Upset
    /\ up[r] # "down"
    /\ Leave(r)
    /\ Mark(UNION {Begun(<< r, t >>) : t \in Topics}, "crash")
    /\ UNCHANGED << producerVars, log, committed, dead, worldVars >>

-----------------------------------------------------------------------------
(***************************************************************************)
(* One batch: consume, processBatch and apply.                             *)
(***************************************************************************)

\* Records without a usable x-attempt are on attempt 1.
kafkaAttempt(h) == IF h = NoAttempt THEN 1 ELSE IF h < 1 THEN 1 ELSE h

CanRetry(attempt) == attempt < MaxAttempts

\* PollFetches returns records from the loop's position on and moves it past them.
Poll(l) ==
    LET p == loop[l]
        available == Len(log[l[2]]) - p.position
    IN  /\ up[l[1]] = "running"
        /\ owner[l[2]] = l[1]
        /\ p.pc = "polling"
        /\ \E n \in 1..MaxBatch :
              /\ n <= available
              /\ loop' = [loop EXCEPT ![l] =
                    [p EXCEPT !.pc = "processing", !.first = p.position, !.current = p.position,
                              !.last = p.position + n, !.position = p.position + n]]
        /\ UNCHANGED << producerVars, brokerVars, up, worldVars, upset, upsets >>

\* The next record of the batch is handed to the service; one of the retry topic is due.
Process(l) ==
    LET p == loop[l]
        rec == log[l[2]][p.current + 1]
        attempt == kafkaAttempt(rec.header)
        call == Handle(request[rec.msg], attempt, CanRetry(attempt))
    IN  /\ p.pc = "processing"
        /\ p.current < p.last
        /\ \E res \in CallResults(request[rec.msg], call, SenderCodes) :
              /\ sent' = [sent EXCEPT ![rec.msg] = @ + (IF res.accepted THEN 1 ELSE 0)]
              /\ told' = [told EXCEPT ![rec.msg] = @ \cup res.told]
              /\ Mark(IF res.accepted /\ res.err # NoError THEN {rec.msg} ELSE {}, "ambiguous")
              /\ loop' = [loop EXCEPT ![l] =
                    [p EXCEPT !.pc = "applying", !.attempt = attempt, !.action = res.job.action]]
        /\ UNCHANGED << producerVars, brokerVars, up, upsets >>

\* waitUntilDue returns false: the context was cancelled before the record was due.
StopWaiting(l) ==
    /\ loop[l].pc = "processing"
    /\ loop[l].current < loop[l].last
    /\ l[2] = "retry"
    /\ up[l[1]] = "cancelled"
    /\ loop' = [loop EXCEPT ![l].pc = "committing"]
    /\ UNCHANGED << producerVars, brokerVars, up, worldVars, upset, upsets >>

\* The record is resolved; on to the next one.
Advance(l) ==
    loop' = [loop EXCEPT ![l] = [loop[l] EXCEPT !.pc = "processing", !.current = @ + 1,
                                                !.attempt = 0, !.action = "none"]]

\* The record is not resolved: the rest of the batch is skipped.
Stop(l) ==
    loop' = [loop EXCEPT ![l] = [@ EXCEPT !.pc = "committing", !.attempt = 0, !.action = "none"]]

ApplyDone(l) ==
    /\ loop[l].pc = "applying"
    /\ loop[l].action = "done"
    /\ Advance(l)
    /\ UNCHANGED << producerVars, brokerVars, up, worldVars, upset, upsets >>

\* The broker takes the copy for the retry topic, with the next attempt number, or for the
\* dead-letter topic.
Produced(l) ==
    LET m == log[l[2]][loop[l].current + 1].msg IN
    IF loop[l].action = "retry"
    THEN /\ log' = [log EXCEPT !["retry"] = Append(@, [msg |-> m, header |-> loop[l].attempt + 1])]
         /\ UNCHANGED dead
    ELSE /\ dead' = dead \cup {m}
         /\ UNCHANGED log

Produce(l) ==
    /\ loop[l].pc = "applying"
    /\ loop[l].action \in {"retry", "dead_letter"}
    /\ Produced(l)
    /\ Advance(l)
    /\ UNCHANGED << producerVars, committed, owner, up, worldVars, upset, upsets >>

\* The context is cancelled during ProduceSync, which returns an error whether or not the broker
\* took the record.
ProduceCancelled(l) ==
    /\ loop[l].pc = "applying"
    /\ loop[l].action \in {"retry", "dead_letter"}
    /\ up[l[1]] = "cancelled"
    /\ Produced(l) \/ UNCHANGED << log, dead >>
    /\ Stop(l)
    /\ Mark({log[l[2]][loop[l].current + 1].msg}, "shutdown")
    /\ UNCHANGED << producerVars, committed, owner, up, worldVars, upsets >>

\* The produce fails for good.
ProduceRefused(l) ==
    /\ PermanentErrors
    /\ Upset
    /\ loop[l].pc = "applying"
    /\ loop[l].action \in {"retry", "dead_letter"}
    /\ Stop(l)
    /\ Mark(MessagesIn(l[2], loop[l].current, loop[l].last), "refused")
    /\ UNCHANGED << producerVars, brokerVars, up, worldVars >>

\* The batch is over when all its records are resolved, or at the first one that is not.
BatchOver(l) ==
    \/ loop[l].pc = "committing"
    \/ loop[l].pc = "processing" /\ loop[l].current = loop[l].last

\* AllowRebalance, and back to the poll.  An evicted member finds out here: the rebalance that
\* waited for it comes before the next poll.
EndBatch(l) ==
    loop' = [loop EXCEPT ![l] = [NoLoop EXCEPT !.position =
                IF owner[l[2]] = l[1] THEN loop[l].position ELSE 0]]

\* Nothing was resolved, so nothing is committed.
SkipCommit(l) ==
    /\ BatchOver(l)
    /\ loop[l].current = loop[l].first
    /\ EndBatch(l)
    /\ UNCHANGED << producerVars, brokerVars, up, worldVars, upset, upsets >>

\* Mutant: the whole batch is committed, not only what was resolved.
CommitBatch(l) ==
    /\ BatchOver(l)
    /\ loop[l].current > loop[l].first
    /\ owner[l[2]] = l[1]
    /\ committed' = [committed EXCEPT ![l[2]] = loop[l].last]
    /\ EndBatch(l)
    /\ UNCHANGED << producerVars, log, dead, owner, up, worldVars, upset, upsets >>

\* Mutant: the commit is not bound to the member's generation.
CommitUnfenced(l) ==
    /\ BatchOver(l)
    /\ loop[l].current > loop[l].first
    /\ committed' = [committed EXCEPT ![l[2]] = loop[l].current]
    /\ EndBatch(l)
    /\ UNCHANGED << producerVars, log, dead, owner, up, worldVars, upset, upsets >>

\* CommitRecords moves the group's offset past the last resolved record.
Commit(l) ==
    /\ BatchOver(l)
    /\ loop[l].current > loop[l].first
    /\ owner[l[2]] = l[1]
    /\ committed' = [committed EXCEPT ![l[2]] = loop[l].current]
    /\ EndBatch(l)
    /\ UNCHANGED << producerVars, log, dead, owner, up, worldVars, upset, upsets >>

\* CommitRecords fails, which is only logged: the member was evicted, the context it is given is
\* cancelled, or the request fails.
CommitFailed(l) ==
    /\ BatchOver(l)
    /\ loop[l].current > loop[l].first
    /\ \/ /\ owner[l[2]] # l[1]
          /\ Mark(Begun(l), "evicted")
          /\ UNCHANGED upsets
       \/ /\ up[l[1]] = "cancelled"
          /\ Mark(Begun(l), "shutdown")
          /\ UNCHANGED upsets
       \/ /\ Upset
          /\ Mark(Begun(l), "commit_failed")
    /\ EndBatch(l)
    /\ UNCHANGED << producerVars, brokerVars, up, worldVars >>

-----------------------------------------------------------------------------
Init ==
    /\ request \in [Messages -> RequestKinds]
    /\ published = {}
    /\ log = [t \in Topics |-> << >>]
    /\ committed = [t \in Topics |-> 0]
    /\ dead = {}
    /\ owner = [t \in Topics |-> NoReplica]
    /\ up = [r \in Replicas |-> "down"]
    /\ loop = [l \in Loops |-> NoLoop]
    /\ sent = [m \in Messages |-> 0]
    /\ told = [m \in Messages |-> {}]
    /\ upset = [m \in Messages |-> {}]
    /\ upsets = 0

\* The steps a loop takes on its own.
LoopStep(l) ==
    \/ Assign(l) \/ Poll(l) \/ Process(l) \/ StopWaiting(l)
    \/ ApplyDone(l) \/ Produce(l) \/ ProduceCancelled(l) \/ ProduceRefused(l)
    \/ SkipCommit(l) \/ Commit(l) \/ CommitFailed(l)

ProcessStep(r) == Start(r) \/ Exit(r)

Disturbance ==
    \/ \E r \in Replicas : Cancel(r) \/ Crash(r)
    \/ \E l \in Loops : Revoke(l) \/ Evict(l)

Next ==
    \/ \E m \in Messages : Publish(m)
    \/ \E r \in Replicas : ProcessStep(r)
    \/ \E l \in Loops : LoopStep(l)
    \/ Disturbance

Spec == Init /\ [][Next]_vars

\* The loops of a running process go on; a process that is asked to stop does; a process that is
\* down is started again; a retry record becomes due; the group assigns a free topic.
Fairness ==
    /\ \A r \in Replicas : WF_vars(ProcessStep(r))
    /\ \A l \in Loops : WF_vars(LoopStep(l))

FairSpec == Spec /\ Fairness

-----------------------------------------------------------------------------
(***************************************************************************)
(* Properties.                                                             *)
(***************************************************************************)

Undisturbed(m, reasons) == upset[m] \cap reasons = {}

Settled(m) == sent[m] > 0 \/ "failed" \in told[m] \/ m \in dead

\* The messages with a record that is still to be consumed.
Owed == UNION {MessagesIn(t, committed[t], Len(log[t])) : t \in Topics}

(***************************************************************************)
(* Delivery is at-least-once: a message whose records were all committed   *)
(* has reached an outcome - whatever crashes, shutdowns, evictions and     *)
(* failed commits happen - unless producing its retry or dead letter, or   *)
(* that of a record before it in a batch, was refused                      *)
(* (kafka_consume.go:44-65, kafka_dispatch.go:17-42).                      *)
(***************************************************************************)
LostOnlyAfterRefusal ==
    \A m \in published :
        Undisturbed(m, {"refused"}) => Settled(m) \/ m \in Owed

\* The message is settled, or its next attempt is in the retry topic.
Resolved(rec) ==
    \/ Settled(rec.msg)
    \/ \E j \in 1..Len(log["retry"]) :
          /\ log["retry"][j].msg = rec.msg
          /\ log["retry"][j].header = kafkaAttempt(rec.header) + 1

(***************************************************************************)
(* "Offsets are committed only after each record is resolved (sent, handed *)
(* to the failure callback, moved to the retry topic or to the DLQ)"       *)
(* (kafka_source.go:23-24).  The commit of a later batch skips a record    *)
(* whose produce was refused, and the property fails.                      *)
(***************************************************************************)
OnlyResolvedCommitted ==
    \A t \in Topics : \A i \in 1..committed[t] : Resolved(log[t][i])

(***************************************************************************)
(* What holds of the same claim: each attempt below a committed offset was *)
(* resolved - sent, reported, dead-lettered, or followed by the next       *)
(* attempt - whoever crashed, was stopped or evicted in its batch, unless  *)
(* its produce or that of a record before it in its batch was refused      *)
(* (kafka_consume.go:32-65).                                               *)
(***************************************************************************)
ResolvedUnlessRefused ==
    \A t \in Topics : \A i \in 1..committed[t] :
        Undisturbed(log[t][i].msg, {"refused"}) => Resolved(log[t][i])

\* Two members are between the handler and the resolution of the same record.
WorkedOnByTwo(k, l) ==
    /\ k # l
    /\ k[2] = l[2]
    /\ loop[k].pc = "applying"
    /\ loop[l].pc = "applying"
    /\ loop[k].current = loop[l].current

(***************************************************************************)
(* "a record is never processed twice by two members at the same time"     *)
(* (kafka_source.go:25-26).  A poll returns whatever the client has        *)
(* fetched (kafka_consume.go:20), so a batch may outlast the rebalance     *)
(* timeout (kafka_source.go:124), and the property fails.                  *)
(***************************************************************************)
OneMemberPerRecord == \A k, l \in Loops : ~WorkedOnByTwo(k, l)

(***************************************************************************)
(* What holds of the same claim, however long a batch takes: two members   *)
(* work on a record only when one of them was evicted with that record in  *)
(* its batch (kafka_source.go:113-126, kafka_consume.go:14-40).            *)
(***************************************************************************)
TwoMembersOnlyAfterEviction ==
    \A k, l \in Loops :
        WorkedOnByTwo(k, l) => "evicted" \in upset[log[l[2]][loop[l].current + 1].msg]

(***************************************************************************)
(* An email is sent twice only if its replica crashed, was stopped or was  *)
(* evicted before the commit, if the commit failed, or if the provider     *)
(* accepted it without the sender knowing (README.md:374-375).             *)
(***************************************************************************)
NoDuplicateSend ==
    \A m \in Messages :
        Undisturbed(m, {"crash", "shutdown", "evicted", "commit_failed", "ambiguous"})
            => sent[m] <= 1

(***************************************************************************)
(* The committed offset of a group never moves back, also when an evicted  *)
(* member commits late (kafka_consume.go:32-37).                           *)
(***************************************************************************)
CommitMonotone == [][\A t \in Topics : committed'[t] >= committed[t]]_vars

OutcomesReached ==
    [m \in Messages |->
        (IF sent[m] > 0 THEN {"sent"} ELSE {})
        \cup (IF "failed" \in told[m] THEN {"reported"} ELSE {})
        \cup (IF m \in dead THEN {"dead_lettered"} ELSE {})]

Evicted == {m \in Messages : "evicted" \in upset[m]}

Refused == {m \in Messages : "refused" \in upset[m]}

Contract == INSTANCE AtLeastOnceDelivery
            WITH accepted <- published, owed <- Owed, outcomes <- OutcomesReached,
                 doubled <- Evicted, excused <- Refused

(***************************************************************************)
(* The source keeps the at-least-once contract, with these exceptions: a   *)
(* message whose own produce, or that of a record before it in a batch,    *)
(* was refused for good may be let go without an outcome; and a message in *)
(* the batch of an evicted member may be owed again, by the retry that     *)
(* member still produces (kafka_consume.go:14-65, kafka_dispatch.go:17-42).*)
(***************************************************************************)
KeepsContract == Contract!ContractSpec

(***************************************************************************)
(* Every published message eventually reaches an outcome, however the      *)
(* bounded number of upsets falls.                                         *)
(***************************************************************************)
EventuallySettled ==
    \A m \in Messages : (m \in published) ~> Settled(m)

=============================================================================
