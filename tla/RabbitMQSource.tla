---------------------------- MODULE RabbitMQSource ----------------------------
(***************************************************************************)
(* Replicas of the service consuming one RabbitMQ queue                    *)
(* (internal/infrastructure/messaging/rabbitmq_*.go, with the delivery     *)
(* service of MailerService running inside the consumer loop).             *)
(*                                                                         *)
(* The broker holds copies of messages: a publish makes a new copy, and a  *)
(* copy waits in the main queue, in a retry queue or in the dead-letter    *)
(* queue, is unacked on a connection, or is orphaned: its connection is    *)
(* gone and the broker has yet to requeue it.  The order inside a queue is *)
(* left open, since requeues and several consumers permute it anyway.  One *)
(* unacked copy per connection is the consumer's prefetch count.           *)
(*                                                                         *)
(* A replica is the consumer loop of one process.  Receive stands for the  *)
(* broker's push and the select that takes it: what happens to a message   *)
(* that was pushed but not yet taken (the connection closes, the context   *)
(* is cancelled first) is what happens to one that was never pushed.  The  *)
(* context of a shutdown reaches neither the handler nor the republish, so *)
(* a replica only stops between two deliveries.                            *)
(***************************************************************************)
EXTENDS MailerService, Integers

CONSTANTS
    Messages,       \* messages that producers may publish
    Replicas,
    Copies,         \* identities of the copies on the broker
    NoCopy,
    NoMessage,
    NoAttempt,      \* the x-attempt header is absent
    ProducerAttempts, \* x-attempt headers that producers set
    RequestKinds,   \* requests the messages may carry
    SenderCodes,    \* error codes the sender may report
    MaxAttempts,    \* MAILER_MAX_ATTEMPTS
    MaxUpsets       \* bound on crashes, shutdowns, lost connections and failed publishes

ASSUME RabbitMQAssumption ==
    /\ NoCopy \notin Copies
    /\ NoMessage \notin Messages
    /\ NoAttempt \notin Int
    /\ ProducerAttempts \subseteq Int \cup {NoAttempt}
    /\ RequestKinds \subseteq Requests
    /\ SenderCodes \subseteq ErrorCodes
    /\ MaxAttempts \in Nat \ {0}
    /\ MaxUpsets \in Nat

VARIABLES
    \* the producers
    request,    \* the request each message carries
    published,  \* messages the broker has accepted
    \* the broker
    copy,       \* each copy: where it is, of which message, with which x-attempt header
    \* the replicas
    pc,         \* where the consumer loop is
    link,       \* TRUE: the connection works
    held,       \* the copy unacked on the replica's connection, or NoCopy
    job,        \* the call of the handler
    jobMsg,     \* and the message it was made for, or NoMessage
    \* what the outside world has seen
    sent,       \* how often the provider accepted each message
    tries,      \* how often each message was handed to the provider
    told,       \* the callbacks that took an event of it
    upset,      \* what disturbed its processing
    upsets      \* number of upsets so far

producerVars == << request, published >>
replicaVars == << pc, link, held, job, jobMsg >>
worldVars == << sent, tries, told >>
vars == << producerVars, copy, replicaVars, worldVars, upset, upsets >>

Places == {"none", "main", "retry", "dlq", "unacked", "orphan"}

PCs == {"stopped", "connecting", "consuming", "handling",
        "publishing", "confirming", "acking", "nacking"}

\* Why a message may be seen twice: its copy was requeued without an ack; its republish was
\* accepted but not confirmed in time; its republish was refused; the provider accepted it but the
\* sender reported a failure; the failure callback took its event but its answer was not heard.
Reasons == {"redelivered", "forked", "refused", "ambiguous", "unheard"}

CopyRecords ==
    [at: Places, msg: Messages \cup {NoMessage}, header: Int \cup {NoAttempt}]

Absent == [at |-> "none", msg |-> NoMessage, header |-> NoAttempt]

NoJob == [stage |-> "outcome", attempt |-> 1, canRetry |-> FALSE,
          code |-> NoError, action |-> "none"]

TypeOK ==
    /\ request \in [Messages -> RequestKinds]
    /\ published \subseteq Messages
    /\ copy \in [Copies -> CopyRecords]
    /\ pc \in [Replicas -> PCs]
    /\ link \in [Replicas -> BOOLEAN]
    /\ held \in [Replicas -> Copies \cup {NoCopy}]
    /\ job \in [Replicas -> Jobs]
    /\ jobMsg \in [Replicas -> Messages \cup {NoMessage}]
    /\ sent \in [Messages -> Nat]
    /\ tries \in [Messages -> Nat]
    /\ told \in [Messages -> SUBSET {"sent", "failed"}]
    /\ upset \in [Messages -> SUBSET Reasons]
    /\ upsets \in 0..MaxUpsets

-----------------------------------------------------------------------------
(***************************************************************************)
(* The broker.                                                             *)
(***************************************************************************)

\* The identity of the next copy: any that is free, since nothing depends on which.
NextCopy == CHOOSE c \in Copies : copy[c] = Absent

\* A publish that the broker accepts: a new copy of m in a queue.
Enqueue(place, m, attempt) ==
    \E c \in Copies :
        /\ copy[c] = Absent
        /\ c = NextCopy
        /\ copy' = [copy EXCEPT ![c] = [at |-> place, msg |-> m, header |-> attempt]]

\* A producer publishes a message, with or without an attempt number.
Publish(m) ==
    /\ m \notin published
    /\ published' = published \cup {m}
    /\ \E attempt \in ProducerAttempts : Enqueue("main", m, attempt)
    /\ UNCHANGED << request, replicaVars, worldVars, upset, upsets >>

\* The TTL of the retry queue passes: the copy is dead-lettered back to the main queue.
Expire(c) ==
    /\ copy[c].at = "retry"
    /\ copy' = [copy EXCEPT ![c].at = "main"]
    /\ UNCHANGED << producerVars, replicaVars, worldVars, upset, upsets >>

\* The broker notices that the connection of an unacked copy is gone.
Requeue(c) ==
    /\ copy[c].at = "orphan"
    /\ copy' = [copy EXCEPT ![c].at = "main"]
    /\ UNCHANGED << producerVars, replicaVars, worldVars, upset, upsets >>

-----------------------------------------------------------------------------
(***************************************************************************)
(* The life of a connection.                                               *)
(***************************************************************************)

Upset == upsets < MaxUpsets /\ upsets' = upsets + 1

\* What the broker and the message see when r's connection goes away.
LoseLink(r) ==
    /\ link' = [link EXCEPT ![r] = FALSE]
    /\ held' = [held EXCEPT ![r] = NoCopy]
    /\ copy' = [c \in Copies |-> IF c = held[r] THEN [copy[c] EXCEPT !.at = "orphan"] ELSE copy[c]]
    /\ upset' = [m \in Messages |->
                    IF held[r] # NoCopy /\ m = jobMsg[r]
                    THEN upset[m] \cup {"redelivered"} ELSE upset[m]]

\* The call of the handler is over.
ForgetJob(r) ==
    /\ job' = [job EXCEPT ![r] = NoJob]
    /\ jobMsg' = [jobMsg EXCEPT ![r] = NoMessage]

\* The process starts; Source.Run calls Connect.
Start(r) ==
    /\ pc[r] = "stopped"
    /\ pc' = [pc EXCEPT ![r] = "connecting"]
    /\ UNCHANGED << link, held, job, jobMsg, producerVars, copy, worldVars, upset, upsets >>

\* Connect: a dial that fails is repeated after a backoff, so only the one that succeeds shows.
Connect(r) ==
    /\ pc[r] = "connecting"
    /\ pc' = [pc EXCEPT ![r] = "consuming"]
    /\ link' = [link EXCEPT ![r] = TRUE]
    /\ UNCHANGED << held, job, jobMsg, producerVars, copy, worldVars, upset, upsets >>

\* The connection or the channel closes, whatever the loop is doing.
Disconnect(r) ==
    /\ Upset
    /\ link[r]
    /\ LoseLink(r)
    /\ UNCHANGED << pc, job, jobMsg, producerVars, worldVars >>

\* The select of consumeLoop sees that the connection is closed; Consume connects again.
Reconnect(r) ==
    /\ pc[r] = "consuming"
    /\ ~link[r]
    /\ pc' = [pc EXCEPT ![r] = "connecting"]
    /\ UNCHANGED << link, held, job, jobMsg, producerVars, copy, worldVars, upset, upsets >>

\* The context is cancelled: the loop returns and Close closes the connection.
Shutdown(r) ==
    /\ Upset
    /\ pc[r] \in {"connecting", "consuming"}
    /\ pc' = [pc EXCEPT ![r] = "stopped"]
    /\ LoseLink(r)
    /\ ForgetJob(r)
    /\ UNCHANGED << producerVars, worldVars >>

\* The process dies, whatever it is doing.
Crash(r) ==
    /\ Upset
    /\ pc[r] # "stopped"
    /\ pc' = [pc EXCEPT ![r] = "stopped"]
    /\ LoseLink(r)
    /\ ForgetJob(r)
    /\ UNCHANGED << producerVars, worldVars >>

-----------------------------------------------------------------------------
(***************************************************************************)
(* One delivery: consumeLoop receives it, runs the handler and applies the *)
(* outcome.                                                                *)
(***************************************************************************)

\* Mutant: the lower bound is dropped.
attemptOfUnclamped(h) == IF h = NoAttempt THEN 1 ELSE h

\* A header that is absent, or below 1, means attempt 1.
attemptOf(h) == IF h = NoAttempt THEN 1 ELSE IF h < 1 THEN 1 ELSE h

\* Mutant: one attempt too many.
CanRetryOffByOne(attempt) == attempt <= MaxAttempts

CanRetry(attempt) == attempt < MaxAttempts

Receive(r, c) ==
    /\ pc[r] = "consuming"
    /\ link[r]
    /\ copy[c].at = "main"
    /\ copy' = [copy EXCEPT ![c].at = "unacked"]
    /\ held' = [held EXCEPT ![r] = c]
    /\ jobMsg' = [jobMsg EXCEPT ![r] = copy[c].msg]
    /\ LET attempt == attemptOf(copy[c].header) IN
       job' = [job EXCEPT ![r] = Handle(request[copy[c].msg], attempt, CanRetry(attempt))]
    /\ pc' = [pc EXCEPT ![r] = "handling"]
    /\ UNCHANGED << link, producerVars, worldVars, upset, upsets >>

\* The handler hands the request to the provider.
Send(r) ==
    /\ pc[r] = "handling"
    /\ job[r].stage = "send"
    /\ LET m == jobMsg[r] IN
       \E res \in SendResults(request[m], SenderCodes) :
          /\ job' = [job EXCEPT ![r] = AfterSend(request[m], job[r], res.err)]
          /\ sent' = [sent EXCEPT ![m] = @ + (IF res.accepted THEN 1 ELSE 0)]
          /\ tries' = [tries EXCEPT ![m] = @ + 1]
          /\ upset' = [upset EXCEPT ![m] =
                         @ \cup (IF res.accepted /\ res.err # NoError THEN {"ambiguous"} ELSE {})]
    /\ UNCHANGED << pc, link, held, jobMsg, producerVars, copy, told, upsets >>

\* Notify posts the event to a callback target, which takes it or not; an error of the success
\* callback is only logged.
NotifySuccess(r) ==
    /\ pc[r] = "handling"
    /\ job[r].stage = "notify_success"
    /\ \E taken \in BOOLEAN :
          told' = [told EXCEPT ![jobMsg[r]] = @ \cup (IF taken THEN {"sent"} ELSE {})]
    /\ job' = [job EXCEPT ![r] = AfterNotifySuccess(job[r])]
    /\ UNCHANGED << pc, link, held, jobMsg, producerVars, copy, sent, tries, upset, upsets >>

NotifyFailure(r) ==
    /\ pc[r] = "handling"
    /\ job[r].stage = "notify_failure"
    /\ \E res \in NotifyResults :
          /\ told' = [told EXCEPT ![jobMsg[r]] = @ \cup (IF res.taken THEN {"failed"} ELSE {})]
          /\ job' = [job EXCEPT ![r] = AfterNotifyFailure(job[r], res.ok)]
          /\ upset' = [upset EXCEPT ![jobMsg[r]] =
                         @ \cup (IF res.taken /\ ~res.ok THEN {"unheard"} ELSE {})]
    /\ UNCHANGED << pc, link, held, jobMsg, producerVars, copy, sent, tries, upsets >>

\* apply: Done is acked; Retry and DeadLetter are published first.
Apply(r) ==
    /\ pc[r] = "handling"
    /\ job[r].stage = "outcome"
    /\ pc' = [pc EXCEPT ![r] = IF job[r].action = "done" THEN "acking" ELSE "publishing"]
    /\ UNCHANGED << link, held, job, jobMsg, producerVars, copy, worldVars, upset, upsets >>

\* publishConfirmed: the broker takes the copy for the retry queue, with the next attempt number,
\* or for the dead-letter queue.
PublishAccepted(r) ==
    /\ pc[r] = "publishing"
    /\ link[r]
    /\ IF job[r].action = "retry"
       THEN Enqueue("retry", jobMsg[r], job[r].attempt + 1)
       ELSE Enqueue("dlq", jobMsg[r], job[r].attempt)
    /\ pc' = [pc EXCEPT ![r] = "confirming"]
    /\ UNCHANGED << link, held, job, jobMsg, producerVars, worldVars, upset, upsets >>

\* Mutant: the original is nacked, not acked, after its republish was confirmed.
PublishConfirmedNacked(r) ==
    /\ pc[r] = "confirming"
    /\ link[r]
    /\ pc' = [pc EXCEPT ![r] = "nacking"]
    /\ UNCHANGED << link, held, job, jobMsg, producerVars, copy, worldVars, upset, upsets >>

\* The confirmation arrives in time.
PublishConfirmed(r) ==
    /\ pc[r] = "confirming"
    /\ link[r]
    /\ pc' = [pc EXCEPT ![r] = "acking"]
    /\ UNCHANGED << link, held, job, jobMsg, producerVars, copy, worldVars, upset, upsets >>

\* The publish or the wait for its confirmation ends with an error because the channel is closed.
PublishBroken(r) ==
    /\ pc[r] \in {"publishing", "confirming"}
    /\ ~link[r]
    /\ pc' = [pc EXCEPT ![r] = "nacking"]
    /\ UNCHANGED << link, held, job, jobMsg, producerVars, copy, worldVars, upset, upsets >>

\* Mutant: the broker's nack is taken for a confirmation.
PublishRefusedIgnored(r) ==
    /\ Upset
    /\ pc[r] = "publishing"
    /\ link[r]
    /\ pc' = [pc EXCEPT ![r] = "acking"]
    /\ upset' = [upset EXCEPT ![jobMsg[r]] = @ \cup {"refused"}]
    /\ UNCHANGED << link, held, job, jobMsg, producerVars, copy, worldVars >>

\* The broker answers the publish with a nack: it did not take the copy.
PublishRefused(r) ==
    /\ Upset
    /\ pc[r] = "publishing"
    /\ link[r]
    /\ pc' = [pc EXCEPT ![r] = "nacking"]
    /\ upset' = [upset EXCEPT ![jobMsg[r]] = @ \cup {"refused"}]
    /\ UNCHANGED << link, held, job, jobMsg, producerVars, copy, worldVars >>

\* The broker took the copy, but publishTimeout passes before its confirmation arrives.
PublishTimeout(r) ==
    /\ Upset
    /\ pc[r] = "confirming"
    /\ link[r]
    /\ pc' = [pc EXCEPT ![r] = "nacking"]
    /\ upset' = [upset EXCEPT ![jobMsg[r]] = @ \cup {"forked"}]
    /\ UNCHANGED << link, held, job, jobMsg, producerVars, copy, worldVars >>

\* Acks and nacks on a closed channel fail, which is only logged.
Settle(r, settled) ==
    /\ copy' = [c \in Copies |-> IF c = held[r] THEN settled ELSE copy[c]]
    /\ held' = [held EXCEPT ![r] = NoCopy]
    /\ ForgetJob(r)
    /\ pc' = [pc EXCEPT ![r] = "consuming"]
    /\ UNCHANGED << link, producerVars, worldVars, upset, upsets >>

\* Mutant: the message is not acked.
AckForgotten(r) ==
    /\ pc[r] = "acking"
    /\ Settle(r, IF held[r] = NoCopy THEN Absent ELSE copy[held[r]])

Ack(r) ==
    /\ pc[r] = "acking"
    /\ Settle(r, Absent)

Nack(r) ==
    /\ pc[r] = "nacking"
    /\ Settle(r, IF held[r] = NoCopy THEN Absent ELSE [copy[held[r]] EXCEPT !.at = "main"])

-----------------------------------------------------------------------------
Init ==
    /\ request \in [Messages -> RequestKinds]
    /\ published = {}
    /\ copy = [c \in Copies |-> Absent]
    /\ pc = [r \in Replicas |-> "stopped"]
    /\ link = [r \in Replicas |-> FALSE]
    /\ held = [r \in Replicas |-> NoCopy]
    /\ job = [r \in Replicas |-> NoJob]
    /\ jobMsg = [r \in Replicas |-> NoMessage]
    /\ sent = [m \in Messages |-> 0]
    /\ tries = [m \in Messages |-> 0]
    /\ told = [m \in Messages |-> {}]
    /\ upset = [m \in Messages |-> {}]
    /\ upsets = 0

\* The steps a replica takes on its own.
Step(r) ==
    \/ Start(r) \/ Connect(r) \/ Reconnect(r)
    \/ \E c \in Copies : Receive(r, c)
    \/ Send(r) \/ NotifySuccess(r) \/ NotifyFailure(r) \/ Apply(r)
    \/ PublishAccepted(r) \/ PublishConfirmed(r) \/ PublishBroken(r)
    \/ Ack(r) \/ Nack(r)

Disturbance(r) ==
    Disconnect(r) \/ Shutdown(r) \/ Crash(r) \/ PublishRefused(r) \/ PublishTimeout(r)

BrokerStep(c) == Expire(c) \/ Requeue(c)

Next ==
    \/ \E m \in Messages : Publish(m)
    \/ \E c \in Copies : BrokerStep(c)
    \/ \E r \in Replicas : Step(r) \/ Disturbance(r)

Spec == Init /\ [][Next]_vars

\* A running process makes its next step: the sender and the callback return, a dial eventually
\* succeeds, the orchestrator restarts a stopped process.  The broker expires and requeues.
Fairness ==
    /\ \A r \in Replicas : WF_vars(Step(r))
    /\ \A c \in Copies : WF_vars(BrokerStep(c))

FairSpec == Spec /\ Fairness

-----------------------------------------------------------------------------
(***************************************************************************)
(* Properties.                                                             *)
(***************************************************************************)

IsCopyOf(c, m) == copy[c].msg = m

Undisturbed(m, reasons) == upset[m] \cap reasons = {}

(***************************************************************************)
(* "so it is never lost" (rabbitmq_dispatch.go:18): a published message is *)
(* on the broker until the provider took it or the failure callback took   *)
(* its failure, whatever crashes, connections that drop and publishes that *)
(* fail happen in between.                                                 *)
(***************************************************************************)
NeverLost ==
    \A m \in published :
        \/ \E c \in Copies : IsCopyOf(c, m)
        \/ sent[m] > 0
        \/ "failed" \in told[m]

(***************************************************************************)
(* "Replicas can scale horizontally without sending an email twice in      *)
(* normal operation" (README.md:374): an email is sent twice only if its   *)
(* unacked copy was redelivered, its republish timed out after the broker  *)
(* had taken it, or the provider took it without the sender knowing.       *)
(***************************************************************************)
NoDuplicateSend ==
    \A m \in Messages :
        Undisturbed(m, {"redelivered", "forked", "ambiguous"}) => sent[m] <= 1

(***************************************************************************)
(* "retried up to MAILER_MAX_ATTEMPTS times" (README.md:34): the sender is *)
(* called at most MaxAttempts times for a message, unless a copy of it was *)
(* requeued with the attempt number it already had, or forked.             *)
(***************************************************************************)
AttemptsBounded ==
    \A m \in Messages :
        Undisturbed(m, {"redelivered", "forked", "refused"}) => tries[m] <= MaxAttempts

\* What may start a message again after a callback has taken an event of it.  Usually its copy is
\* acked then; where the answer of the failure callback was lost, it is republished to the dead
\* letters, and a refusal of that republish sends it back to the main queue.
Restarts(m) ==
    {"redelivered", "forked", "ambiguous"} \cup (IF "unheard" \in upset[m] THEN {"refused"} ELSE {})

(***************************************************************************)
(* "Callbacks are only called with the final outcome" (README.md:34): once *)
(* a callback has taken an event of an undisturbed message, the event told *)
(* the truth about the email and no copy of it waits for another attempt.  *)
(* A copy of it is a dead letter only if the answer of the failure         *)
(* callback was lost on its way (http_notifier.go:42-52), which is more    *)
(* than service.go:21-22 has: "ActionDone when it accepts the failure".    *)
(***************************************************************************)
CallbackIsFinal ==
    \A m \in Messages :
        (told[m] # {} /\ Undisturbed(m, Restarts(m))) =>
            /\ told[m] = IF sent[m] = 0 THEN {"failed"} ELSE {"sent"}
            /\ \A c \in Copies : IsCopyOf(c, m) =>
                  \/ copy[c].at = "unacked"
                  \/ copy[c].at = "dlq" /\ "unheard" \in upset[m]

\* A message is owed while a copy of it is anywhere but among the dead letters.
Owed == {m \in Messages : \E c \in Copies : IsCopyOf(c, m) /\ copy[c].at # "dlq"}

OutcomesReached ==
    [m \in Messages |->
        (IF sent[m] > 0 THEN {"sent"} ELSE {})
        \cup (IF "failed" \in told[m] THEN {"reported"} ELSE {})
        \cup (IF \E c \in Copies : IsCopyOf(c, m) /\ copy[c].at = "dlq"
              THEN {"dead_lettered"} ELSE {})]

Contract == INSTANCE AtLeastOnceDelivery
            WITH accepted <- published, owed <- Owed, outcomes <- OutcomesReached,
                 doubled <- {}, excused <- {}

(***************************************************************************)
(* The source keeps the at-least-once contract: a message leaves the       *)
(* queues only after it has reached an outcome, and then for good - no     *)
(* replica that is still working on it brings it back (rabbitmq_dispatch.go *)
(* 19-77, rabbitmq_consumer.go 114-163).                                   *)
(***************************************************************************)
KeepsContract == Contract!ContractSpec

(***************************************************************************)
(* Every published message is eventually settled: it leaves the queues for *)
(* good or ends among the dead letters, however the bounded number of      *)
(* upsets falls.                                                           *)
(***************************************************************************)
EventuallySettled ==
    \A m \in Messages : (m \in published) ~> (m \notin Owed)

=============================================================================
