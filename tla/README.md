# gomailer in TLA+

gomailer is a service that sends emails. Requests come from a RabbitMQ queue, a Kafka topic or an
HTTP API; the email goes out through SMTP, Resend, ZeptoMail or Zoho Mail; a temporary failure is
retried with a backoff, a final one is told to a failure callback or dead-lettered. This directory
holds TLA+ models of that service, TLC configurations that check them on small instances, and TLAPS
proofs. Paths below are relative to `src/`.

To run: `tlc -config EmailSenders.cfg EmailSenders`, `tlapm RabbitMQSourceProofs.tla`, and so on; the table
in [Runs](#runs) names the module and configuration of each run.

## Inventory

| Component | State it keeps | Operations | Correct when |
|---|---|---|---|
| **Delivery service** `internal/core/mailer/service.go`, `outcome.go`, `internal/adapter/consumer`, `internal/infrastructure/callback` | none between calls; a call goes through decoding, sending, callbacks, outcome | `Handle` / `Deliver` (retries left or not), `DeliverOnce`, `notifySuccess`, `handleFailure` | the outcome (done, retry, dead-letter) agrees with what the sender and the callbacks did; callbacks get the final outcome only |
| **Retry policy, queue topology** `retry.go`, `retry_config.go`, `rabbitmq_topology.go` | the durable queues of the broker | `Delay`, `Delays`, `declare`, `retryQueue` | a request waits the backoff of its attempt; no redeployment conflicts with existing queues |
| **RabbitMQ source** `internal/infrastructure/messaging/rabbitmq_{source,consumer,dispatch}.go` | per process: connection, channel, one unacked delivery; at the broker: main, retry and dead-letter queues, `x-attempt` header | `Connect`, `Consume`, `consumeLoop`, `apply`, `publishConfirmed`, ack, nack, `Close` | nothing is lost, duplicates and extra attempts only for named reasons, everything is eventually settled |
| **Kafka source** `kafka_{source,consume,dispatch,topics,client}.go` | per process: two consumer loops with a batch each; at the broker: log, committed offset and owner of each topic | `Run`, `consume`, `processBatch`, `waitUntilDue`, `apply`, `CommitRecords`, `AllowRebalance` | commits cover resolved records only; concurrent processing only after an eviction; nothing is lost; offsets never move back |
| **HTTP source, HTTP client** `internal/adapter/httpapi`, `client/http.go` | requests in flight | `requireBearer`, `ServeHTTP`, `HTTPSender.Deliver` | the answer and its status tell what happened to the email; no retry behind the producer's back |
| **SMTP sender** `internal/infrastructure/mailer/smtp_sender.go`, `content.go` | the session of one call | dial, greet, auth, MAIL, RCPT, DATA, write, end of data | taken at most once and for every recipient; temporary replies are retried |
| **Resend, ZeptoMail senders** `http_api.go`, `resend_sender.go`, `zeptomail_sender.go` | none | one POST; classification of the answer | taken twice only after a lost answer; outages and rate limits are retried unless the body names a refusal, refusals are not |
| **Zoho Mail sender** `zoho_mail_sender.go`, `zoho_token_source.go`, `zoho_mail_attachments.go` | access token cache behind a mutex, shared by all callers | `Token`, `refresh`, `Invalidate`, upload, send | no rejected token is handed out, and none that is about to expire; nobody waits for ever |
| **Process** `cmd/server/main.go`, `internal/application/runner`, `internal/infrastructure/health`, `config/sources.go` | goroutines, cancellation, ready flags | start, signal, failure, graceful shutdown, exit | the process stops as a whole, after the work in flight; not ready before it is connected, nor for ever after it is not |
| **Client library, queues** `client/rabbitmq`, `client/kafka`, `client/transport` | one shared connection behind a mutex; a shared Kafka client | `New`, `Send`, `HealthCheck`, `Close`, `ensureChannel`, `publish`, `reset` | a `Send` that succeeded is on the broker, twice only after silence; no connection is forgotten; every call returns |
| **Configuration** `internal/application/config`, `bean` | none | `InitMailer`, `InitSources` and the constructors they call, one per sender and source | exactly the deployments start that have what their choices and defaults require |
| **Message building** `smtp_message.go`, `decoder.go`, `recipients.go` | none | MIME and JSON | formatting only |
| **Development console** `.dev/console` | none; the failures live in Mailpit and the mock API, letters and counts at the brokers | send an email, change and reset the injected failures, view, count and purge dead letters | counts are right up to what happens meanwhile and to partitions answered with an error; a view waits only for letters that are there; a purge leaves only what a view holds; a reset stops the failures |
| **Mock API, callback server** `.dev/mockapi`, `.dev/callback` | requests still to fail and the error to answer; events received | `do_POST`, `do_PUT`, `do_DELETE` | each scenario of the table in `.dev/README.md` ends as it says |

How they interact. `main` builds one sender, one delivery service and the enabled sources, and gives
them to `runner.Run`, which starts a goroutine for each source and for the health server. A source
calls the delivery service from its loop (RabbitMQ, Kafka: one delivery at a time per loop) or from a
goroutine per request (HTTP); the service calls the sender and then the callbacks and returns an
outcome, which the source turns into an ack, a republish to a retry queue or topic, a dead letter, or
an HTTP answer. Sender and token cache are shared by all loops and requests of a process; the queues
and consumer groups are shared by all replicas.

What is hard here: a consumer works on while its connection is gone or its partition has been given
away; publishes are confirmed late, refused or never; a process dies between any two steps; two
replicas hold copies of one request; offsets cover batches of which only a prefix is resolved; a
client times out while its handler goes on; a token expires or is revoked between two calls of one
send; sources fail while others connect, work and shut down; the panels of the console ask the brokers in
several calls, every three seconds, while a purge runs. `PROJECT.json` lists each of these under
`hazards`, with its line and the properties that would notice it going wrong.

## Modules

| Module | Models | Used by |
|---|---|---|
| `MailerService` | the delivery service: a call as a record that goes from stage to stage | all sources and senders |
| `RetryPolicy`, `RabbitMQTopology` | the delays; the queues derived from them over several deployments | - |
| `AtLeastOnceDelivery` | the abstract promise of a queue source | refined by both queue sources |
| `RabbitMQSource` | replicas, connections, broker queues, every step of a delivery | `MCRabbitMQSource`, proofs |
| `KafkaSource` | replicas, loops, consumer groups, logs, offsets | `MCKafkaSource` |
| `HTTPSource` | HTTP server, its overlapping handlers, the HTTP client | `ClientTransport` |
| `ClientSender`, `RabbitMQClient`, `KafkaClient` | the `Sender` interface as callers use it; the senders of the two queues | `ClientTransport` |
| `ClientTransport` | composes the three transports as `transport.New` chooses one | `MCClientTransport` |
| `Configuration` | what every constructor accepts, and what the README says is required | `ServiceLifecycle`, `EmailSenders` |
| `ProviderErrors` | the classification of SMTP replies and API answers | all senders, `ChaosBench` |
| `DeliveryAttempts` | the attempts of one queued request, as a sender sees them | `SMTPSession`, `ProviderAPI` |
| `SMTPSession` | the SMTP dialogue over all attempts | `EmailSenders` |
| `ProviderAPI` | the API call of Resend and ZeptoMail over all attempts | `EmailSenders` |
| `ZohoMail` | token cache, mutex, uploads, clock and lifetimes at Zoho | `EmailSenders` |
| `EmailSenders` | composes the senders as `newSender` chooses one | - |
| `ServiceLifecycle` | one process from its configuration to its exit | - |
| `DeadLetterMonitor` | the dead-letter panel and the counts of the console, over both brokers | `DevStack` |
| `ChaosBench` | emails sent from the console while failures are injected, changed and reset | `DevStack` |
| `DevStack` | composes the two | `MCDevStack` |
| `MailerServiceProofs` | lemmas about the delivery service | the proofs below |
| `RabbitMQSourceProofs`, `RabbitMQTopologyProofs`, `KafkaSourceProofs`, `EmailSendersProofs`, `ClientTransportProofs`, `ServiceLifecycleProofs`, `DevStackProofs` | theorems about the module they are named after and those it composes | - |

### MailerService

`Handle(request, attempt, canRetry)` is the state of a call right after decoding; `AfterSend`,
`AfterNotifySuccess` and `AfterNotifyFailure` are what the service does with the answer of the sender
and of a callback, so that a source interleaves these with everything else that happens. A request is
reduced to what the service branches on: is it JSON, does its body decode, has it callbacks.
`SendResults` are the answers of a sender, including the one that costs duplicates: the provider
accepted the email and the sender reports an error. `NotifyResults` are those of a callback, which has
the same case: the target took the event and its answer was lost, late or not 2xx. `CallResults` folds a whole call into one step,
for the Kafka source, whose state it would otherwise multiply.

### RabbitMQSource

`copy` is the broker: every copy is in the main queue, in a retry queue, a dead letter, unacked on a
connection, or orphaned (its connection is gone and the broker has not noticed). `pc`, `link`, `held`
and `job` are the consumer loop of each replica. Publishing, its confirmation and the ack of the
original are three steps, and the connection or the process may go at each of them. The order inside
a queue is left open, since requeues and competing consumers permute it. `upset` records, per
message, which disturbance touched it, so that the properties can say that duplicates and extra
attempts have *only* the named causes. `told` has the callbacks that took an event, whatever `Notify`
made of it; when the two disagree, `upset` has `"unheard"`.

### KafkaSource

A topic is one partition: its log, the committed offset and the replica the group has given it to.
Each replica has a loop per topic. A rebalance takes a topic from a member that is polling
(`BlockRebalanceOnPoll`), or from one whose batch outlasts the rebalance timeout (`Evict`); the latter
goes on, unknowing, and its commit is refused by generation. `PollFetches` has no limit, so nothing
keeps a batch within the timeout. Only the prefix of the batch that was
resolved is committed. `ProduceSync` fails when the context is cancelled - having reached the broker
or not - or for good (`PermanentErrors`). The contract of `AtLeastOnceDelivery` has a place for both:
a message that two members may be working on is *doubled* and may be owed again, one that is skipped
after a refused produce is *excused*.

### HTTPSource

A producer posts an email, waits no longer than its timeout and may post it again. Handlers do not
notice that their client is gone, so the handlers of two calls run side by side; the process may crash.
A callback may have taken its event and be reported as failed.
`statusFor` is the table of status codes. What a sender may report is a set of three codes in the run,
one per kind of status: a lost connection (503), a limit (429) and a refusal (422).

### ClientSender, RabbitMQClient, KafkaClient, ClientTransport

`ClientSender` has the calls of the goroutines that share a sender: where each call is, how the last
one ended, how often the broker took the email, and in `unsure` who made a `Send` that the broker did
not answer. `RabbitMQClient` adds the mutex, `Sender.conn`, the connection `ensureChannel` is
preparing, and of each connection whether it is open, gone without the client knowing (`dead`), or
open with its channel closed. Dialing, preparing, publishing, waiting and resetting are separate
steps, so that drops, closed channels and a deleted queue fall between any two of them. Closing a
dead connection waits until the heartbeat notices it. `KafkaClient` has no shared state but the closed
flag; the retries of the Kafka library and its idempotence are inside one `Append`. `ClientTransport`
lets the configuration choose one sender; the others stay as they are, so the state spaces add up and
do not multiply.

### Configuration

An environment gives each variable what the constructors tell apart of its value: unset, blank,
only separators, usable, not parsable, too wide for its field, or the choice it makes. The two retry
delays are compared with each other, so that they are also short, between the two defaults, or long. The
constructors are operators over it, in the code's order of refusal. The second half of the module is
the account that the project's README gives of the same, which `StartsWhenComplete` compares with the
code: `UsesAPI`, `Announced`, `RequiredBy`, `NotRead`, `Complete`.

### SMTPSession, ProviderErrors, ProviderAPI, EmailSenders

The session takes one command per step; each is answered by ok, a 4xx, a 5xx or a connection that
drops, at the end of data also after the server has taken the message. `ProviderErrors` translates
the classification of answers case by case, and `ProviderAPI` runs it over all attempts of a request,
with answers that get lost or do not decode; any status may come with any body. `EmailSenders` lets the configuration choose one sender;
the others keep one of their initial states. It has the properties that are the same promise made by
several senders, of which `RetriedIfPassing` says for every reply, status and body whether the failure
may pass; the table in `README.md:118-132` promises more than that (see the findings below).

### ZohoMail

Zoho issues tokens with a lifetime, and may revoke one; time passes, an HTTP call takes at most
`Timeout`. Senders take the mutex, refresh under it, upload attachments, send, and on a 401 invalidate
the cache. `Timeout`, `Margin` and `ExpiresIn` are independent, as `HTTP_CLIENT_TIMEOUT` is of the other
two. `last` keeps how the latest send ended.

### ServiceLifecycle

The sources of one deployment as goroutines of one process: `ctx` is the context that a signal or the
first failure cancels, `returned` and `errs` what `Run` waits for and reports. Of each source it keeps
connecting, readiness, work in flight and stopping; `polled` has the result of the last poll of each
Kafka loop, `link` whether the consumer's connection and channel are there. Before that, `Configure` reads an environment.

### DeadLetterMonitor, ChaosBench, DevStack

`DeadLetterMonitor` has the requests that the page makes at the same time: each is a series of calls
to the RabbitMQ management API (take letters, requeue them, purge) and to the Kafka admin API (list
starts, list ends, fetch commits, delete records, poll). Between any two of them letters arrive, the
mailer commits, retention deletes, and another request purges. A letter of RabbitMQ is the number of
its arrival, so that the properties can say which one survived; a Kafka record is an offset. A partition
of a Kafka answer may carry an error and no offset (-1): the code looks for it among the ends only, so
starts and commits go on without, and `unknown` keeps which partitions these were. A reader placed at
-1 begins at the end (`Seek`).

`ChaosBench` is the bench around the mailer: Mailpit with a trigger per SMTP command, the mock API
with its counter of failures, the callback server. Setting and resetting the failures are steps of
their own - a reset is a read, a write and a call to the other fake, each of which may fail, with or
without having had its effect - and an email takes one command
or call at a time, so that the failures change under it. `email.injected` records which failure each
attempt met; `ScenarioTable` derives from it what the table of `.dev/README.md` says of the outcome.

## Runs

All runs finish in less than three minutes on two cores.

| Run | Module, configuration | Properties | Instance |
|---|---|---|---|
| `rabbitmq_topology` | `RabbitMQTopology` | `WaitsAsLongAsThePolicySays`, `RedeployNeverConflicts` | two deployments, eight delays with exact and fractional units, up to four attempts |
| `rabbitmq_source` | `MCRabbitMQSource` | `TypeOK`, `NeverLost`, `NoDuplicateSend`, `AttemptsBounded`, `CallbackIsFinal`, `KeepsContract`, `EventuallySettled` | one message of any kind, two replicas, two attempts, one upset |
| `kafka_source` | `MCKafkaSource` | `ResolvedUnlessRefused`, `TwoMembersOnlyAfterEviction`, `LostOnlyAfterRefusal`, `NoDuplicateSend`, `CommitMonotone`, `KeepsContract` | two messages, two replicas, batches of two, one upset, eviction after one delivery, refused produces |
| `kafka_liveness` | `MCKafkaSource`, `MCKafkaLiveness.cfg` | `EventuallySettled` | one message of any kind, eviction possible |
| `email_senders` | `EmailSenders` | `TakenAtMostOnce`, `TakenForEveryone`, `TakenOnceUnlessLost`, `RetriedIfPassing`, `RejectedTokenIsGone`, `LifeLeftAtHandOut`, `EverySendReturns` | every sender that a configuration leads to; three attempts; SMTP: up to three recipients; API: every status with every class of body; Zoho: two callers, three emails, one revocation, one expiry |
| `service_lifecycle` | `ServiceLifecycle` | `NothingIsCutOff`, `NotReadyUnconnected`, `EveryoneStops`, `LossIsNoticed`, `StartsWhenComplete` | every choice of transport, client and sources, with all other variables usable but at most one or, with every pair of values, the two retry delays; two requests in flight, two drops |
| `client_transport` | `MCClientTransport` | `AnswerIsTrue`, `SentTwiceOnlyAfterSilence`, `StatusIsTrue`, `HandedOverIsTaken`, `QueuedTwiceOnlyAfterSilence`, `NoConnectionIsForgotten`, `EveryCallReturns` | HTTP: one producer, three calls, one crash, six kinds of request; queues: two goroutines, two calls each, two faults |
| `dev_stack` | `MCDevStack` | `CountIsPlausible`, `PurgeLeavesOnlyHeldLetters`, `WaitsOnlyForLetters`, `ScenarioTable`, `ResetStopsInjection` | panel: two requests at a time, two letters, two partitions of two records, peeks of one; bench: two emails, four forms, three attempts, two changes of the failures, one reset |
| `kafka_refused_produce` | `MCKafkaSource`, `MCKafkaRefusedProduce.cfg` | `OnlyResolvedCommitted` - **violated** | see below |
| `service_rabbitmq_connections` | `ServiceLifecycle`, `ServiceRabbitMQConnections.cfg` | `NoConnectionIsLeft` - **violated** | see below |
| `kafka_eviction` | `MCKafkaSource`, `MCKafkaEviction.cfg` | `OneMemberPerRecord` - **violated** | see below |
| `rabbitmq_ready` | `ServiceLifecycle`, `ServiceRabbitMQReady.cfg` | `RabbitReadyIsOpen` - **violated** | see below |

What they show, beyond the table: both queue sources implement `AtLeastOnceDelivery` through the
mapping `accepted <- published`, `owed <-` what is still in the queues or uncommitted, `outcomes <-`
what the provider, the callback and the dead letters have got. RabbitMQ makes no exception: a message
is let go of only after an outcome and never comes back, whatever the replicas do. Kafka makes the two
that its batches force on it: after an eviction the evicted member may bring a message back (`doubled`),
and a refused produce may lose one (`excused`).

### Bounds, and why they are enough

- *Messages.* Deliveries of one RabbitMQ consumer do not share state other than the connection, and a
  copy carries everything about its message; one message is enough for its properties. Kafka commits
  offsets, which tie messages together: two messages and batches of two are the smallest instance in
  which a resolved and an unresolved record share a commit.
- *Replicas.* The hazards are between the one that works and the one that takes over: two.
- *Attempts.* Two attempts have a first, a last and a step in between where the number is written
  and read back. The header is also set by producers, to values out of range.
- *`MaxUpsets`.* Bounds crashes, shutdowns, lost connections, refused and timed-out publishes,
  rebalances, evictions, failed commits, refused produces: one of each kind at any moment. The proofs
  have no such bound.
- *`Copies`.* Four: the most that one message and one upset have on the broker at once, so that no
  publish ever waits for an identity. A new copy takes the one free identity that `NextCopy` chooses,
  which stands for all of them; the proofs leave the choice open.
- *`RebalanceTimeout`* counts deliveries of a batch: 1 lets the group evict a member after the first one,
  while the second is still to come.
- *Zoho's clock.* With a lifetime of 2, margin and timeout 1, a token issued at time 0 may arrive at
  time 1 and expires at time 2, where the clock stops.
- *Environments.* A constructor refuses at its first unusable variable, and the only two variables that
  are compared are the retry delays: one variable at a time, and all pairs of these two, under every
  choice, show every refusal. A delay is shorter than both defaults, between them, or longer than both.
- *The panel.* Requests interfere through what they leave at the brokers: two at a time, of which one
  purges. `PeekLimit` 1 makes a peek that stops short of the first record. What one broker holds does
  not matter to the calls to the other, so that only one of them holds anything.
- *The bench.* Two emails share the counter of the mock API; two changes are a failure and its end, or
  two failures.
- *`MaxInFlight`, `MaxDrops`, `MaxCalls`, `MaxCrashes`, `MaxQueueCalls`, `MaxFaults`, `MaxSends`, `MaxRevoked`,
  `MaxDeploys`, `MaxFailNext`, `MaxChanges`, `MaxLetters`* bound
  counters that only repeat; two or three of each interleave with each other.
- Kafka's safety runs use symmetry over messages and replicas, which no property or action tells
  apart; runs with liveness use none.

Deadlock is checked where the program never stops being able to move (`rabbitmq_topology`). The other runs stop where a bound is used up or a process has
exited and say `CHECK_DEADLOCK FALSE`; liveness covers getting stuck there.

### Fairness

- `RabbitMQSource`: weak fairness of each replica's own steps (a sender and a callback return, since
  HTTP clients have timeouts; a dial succeeds eventually, since `Connect` repeats it for ever; a
  stopped process is started again) and of the broker's expiry and requeue. Nothing disturbing is fair.
- `KafkaSource`: weak fairness of each loop and of starting and exiting. Assigning a free topic is
  the group's job.
- `ZohoMail`: weak fairness of HTTP calls, which `http.Client.Timeout` ends; strong fairness of taking
  the mutex, because `sync.Mutex` hands itself to a waiter that has waited for a millisecond.
- `RabbitMQClient`, `KafkaClient`: weak fairness of the steps of a call, since dial and publish are
  bounded by the timeout and everything else by the heartbeat, which is weakly fair too; strong
  fairness of taking the mutex, as for `ZohoMail`.
- `ServiceLifecycle`: weak fairness of the goroutines, except that a broker may stay unreachable for
  ever (connecting is not fair; noticing a lost connection and stopping are), and of the Kafka client refusing its options when
  it has no broker. `RabbitStops` is strongly fair: `consumeLoop`
  selects at random between a delivery and the end of the context, so it takes the latter sooner or later.

SMTP has no timeout in the code. A server that goes silent would keep a consumer loop for ever; the
fairness of `Step` assumes that it does not, and the hazard is listed without a property.

## Where code and documentation differ

Four runs end with a violation. Two of them show code that does not do what it is there for:

- `kafka_refused_produce`: `processBatch` stops at a record whose retry or dead letter cannot be
  produced, but `consume` polls on from after the batch, and the commit of the next batch moves the
  offset past that record. It is then neither sent, reported, retried nor dead-lettered, although
  `kafka_source.go:23-24` promises that offsets are committed "only after each record is resolved".
- `service_rabbitmq_connections`: when only the channel closes, `dialAndOpen` overwrites `conn`
  without closing the old connection, which stays open after `Close`.

The others show where a comment or the README says more than the code can keep:

- `kafka_eviction`: a batch may outlast the rebalance timeout, since a poll returns whatever the client
  has fetched (`kafka_consume.go:20`) and the timeout is the longest delay plus a minute
  (`kafka_source.go:124`). The partition then goes to another member while the first works on, although
  `kafka_source.go:25-26` says that a record is never processed by two members at the same time.
  `TwoMembersOnlyAfterEviction` says what is left of it.
- `rabbitmq_ready`: the consumer stays ready while it handles a delivery of a connection that is gone
  (`rabbitmq_consumer.go:42`). `NotReadyUnconnected` and `LossIsNoticed` say what the flags do keep.

The rest was met while modelling, follows from the models' actions and has no run of its own. Where the
documentation promises more than the code keeps, a property of a passing run says exactly what it keeps:

- A callback that took a failure whose answer was lost makes `Notify` fail (`http_notifier.go:42-52`), and
  the request is dead-lettered although it was accepted, against `service.go:21-22`. `CallbackIsFinal`:
  the callback is told one outcome only, and nothing but that dead letter is left.
- "Provider 5xx - retried" (`README.md:132`). The body of a 5xx or 429 answer of Resend or ZeptoMail that
  names a refusal makes it final (`resend_sender.go:101-125`, `zeptomail_sender.go:117-171`), every error
  of Zoho's accounts server is an authorization that was denied (`zoho_token_source.go:88-96`), and a
  connection that drops at AUTH, MAIL or RCPT is a final rejection (`smtp_sender.go:78-86`, against
  `README.md:119-121`). `RetriedIfPassing` divides all answers into the retried and the final ones.
- `Token` promises a valid token (`zoho_token_source.go:39`), but the margin of a minute is all that makes
  up for a slow answer, and `HTTP_CLIENT_TIMEOUT` may be longer (`env.go:18-29`). `LifeLeftAtHandOut`: the
  life left is bounded by margin and timeout, and may be none.
- The HTTP server is ready while `Shutdown` waits with its listener closed (`httpapi/server.go:43`), and
  the Kafka source while one of its loops fails, since both write the same flag (`kafka_source.go:46`).
  `NotReadyUnconnected` allows these two and no more.
- The panel looks at the dead letters by taking them and putting them back (`ack_requeue_true`), and a
  purge deletes what nobody has taken: it leaves the letters that a view holds at that moment, although
  `.dev/console/internal/monitor/rabbitmq.go:114` says "every message". `PurgeLeavesOnlyHeldLetters`.
- `offsets` looks at the errors of the ends only (`.dev/console/internal/monitor/kafka.go:161`). A
  partition whose start came with an error counts from offset -1, that is with records that are gone and
  one that never was (`CountIsPlausible`), and a view places its reader there, which begins at the end
  and waits out its timeout for records it does not read (`WaitsOnlyForLetters`).
- Stopping a replica cancels the context that `CommitRecords` gets, so emails sent in the last batch
  are sent again by the next owner, although `README.md:374` promises scaling without duplicates.
  `NoDuplicateSend` names `shutdown` among its causes for that reason.
- A 2xx answer with an unreadable body is reported as `api_connection_failed`, and the accepted email
  is sent again (`http_api.go:76`, against `README.md:124`).
- A late 401 invalidates whatever token is cached by then, also a newer, good one
  (`zoho_mail_sender.go:82`).
- `smtp_temporary_failure`, which is retried on a queue, is answered by the HTTP API with 502 and not
  with 503 (`httpapi/status.go:20-37`), unlike the temporary failures of the APIs.
- RabbitMQ credentials of spaces only are accepted (`rabbitmq_config.go:51-57` does not trim), and so is
  a list of brokers of commas only (`kafka_config.go:53-81`); the latter is refused by the client when
  the source starts, and stops the process.
- Partitions and replication factor are truncated to `int32` and `int16` (`kafka_config.go:74-75`): a
  number that is too wide passes as another one, and the topics may never be created.
- `PurgeDeadLetters` of Kafka does not look at the errors of the partitions in the answer of
  `DeleteRecords` (`.dev/console/internal/monitor/kafka.go:118`).

## Proofs

Every theorem is about the specification that the runs check, and holds for every value of the
constants that satisfies the assumptions of its module: any sets of messages, replicas, callers,
panels, emails, any limits on attempts, batches and upsets. `PROJECT.json` lists them; what follows
is the argument of each. No safety invariant of the runs is inductive as it stands, so each has an
inductive invariant, proved with one lemma per action (or per kind of action), and the theorem
follows by temporal logic.

### What the service does with a call (`MailerServiceProofs`)

Which stage and action each operator of `MailerService` returns (`HandleFacts`, `AfterSendFacts`,
`SendKeeps`, `CallFacts`, ...), stated once. All the other modules rest on these.

### Retry queues (`RabbitMQTopologyProofs`)

`RedeploysNeverConflict`, `RequestsWaitTheBackoff`, for any units of time that divide each other, any
number of attempts and deployments, and any delays whose double does not overflow
(`NoOverflowAssumption`: below 146 years, which the configuration does not check). Neither property
is inductive: `connected` says nothing of the queues that are there, and a waiting request nothing of
where the next one will be sent. `TopologyInv` says that every queue on the broker was declared for
some delay, that all queues of the running policy are there, and that a request waits as long as its
attempt's delay. The rest is about the operators:

- `DelayIsBackoff`: the loop that stops doubling at the longest delay, in wrapping arithmetic, returns
  the delay doubled without end and capped;
- `NamesTellTTL`: two delays with one queue name have one TTL, so nothing conflicts;
- `DelaysFacts`: the list of distinct delays is sorted and has the delay of every attempt, so that
  `retryQueue`, which takes the first that is long enough, finds exactly that one (`QueueOfAttempt`) and
  never the fallback.

These are inductions over the attempts. The induction theorems of the library take an operator as
a parameter, which the provers cannot instantiate, so `SetInduction` is proved for a *set* of numbers,
from the least counterexample that the well-foundedness of `<` gives; from it `RecursiveFunction`, that
a recursive definition has a function that satisfies it.

### RabbitMQ (`RabbitMQSourceProofs`)

`TypeCorrect` and `NothingIsLost`: a published message is on the broker, or the provider took it, or
the failure callback took its failure. `NeverLost` is not inductive: a state in which the only copy of
an unsent message is about to be acked satisfies it, and its next step does not. `IInv` adds what the
code relies on:

- `HoldingOK`: a replica holds a copy only while it works, the copy is unacked and of the message it
  works on, and nobody else holds it - so an ack removes no copy but its own;
- `CopiesOK`: copies are of published messages, so an identity that is not used can be taken;
- `JobOK`: an action is set exactly when the call is over, publishing has something to publish, and
  acking a request that is *done* means that it was sent or reported;
- `Kept`: every unresolved message has a copy that is not `Superseded`, i.e. not one whose republish
  was accepted and that is going to be acked. Publishing adds the new copy in the step in which the
  original becomes superseded; that is the whole reason for publishing before acking.

`SentOnce`, `AttemptsAreBounded`, `CallbacksAreFinal` and `ContractKept` need `DInv`: a message that
was neither redelivered nor forked has one *live* copy (`OneLiveCopy`), and whoever has that copy knows
how far the message has come - a message that was sent, or whose failure was taken, has its live copy
in the hands of the replica that sent it, which is finishing (`SentOK`), or among the dead letters if the
callback's answer was lost (`OnlyUnheard`); the tries of a message are below the attempt that its live
copy carries (`TriesOK`, `Due`); what a callback was told agrees with what happened (`ToldOK`).
`ContractKept` is the refinement: every step of the source, seen through the mapping of
`AtLeastOnceDelivery`, is a step of the contract or changes nothing of it.

### Kafka (`KafkaSourceProofs`)

Four invariants, each resting on the ones before:

- `BaseInv`: types; offsets lie within the log; a loop that owns its topic works on nothing that is
  committed; one that works without owning it was evicted. From it: `KafkaTypeCorrect`,
  `OffsetsNeverMoveBack` (the property that a late commit of an evicted member threatens), and
  `OnlyEvictionDoubles`.
- `ResolvedInv`: what is behind a loop, and below the committed offset, is resolved - the
  message is settled, or its next attempt is in the retry topic - or a produce was refused. From it:
  `CommitsAreResolved`.
- `ChainInv`: the records of a message are one chain, attempt by attempt, whose end is not lost.
  From it: `LostOnlyByRefusal`.
- `OnceInv`: one record of an undisturbed message is still to be processed. From it: `KafkaSentOnce`.

`KafkaContractKept` is the refinement of `AtLeastOnceDelivery`, for batches of any length and any
refusals. An eviction maps to `Double`: everything the evicted member has begun and not committed is
marked, so that the retry it may yet produce is an `OweAgain`. A refused produce maps to `Excuse` of the
messages that the next commit may skip. The proof shows that no other step needs either.
No theorem about Kafka assumes anything but what the modules do.

### Senders (`EmailSendersProofs`)

`SendersInv` has a part per sender. SMTP: what the session has transferred so far, and that a server
which took a message is followed only by success or by a code that is not retried - therefore
`HandedOverOnce`, `EveryoneIsServed`. API senders: the attempts before the last that were taken had
their answer lost, and an unanswered attempt is classified as temporary - `TakenOnce`,
`RetriesFollowFailures` (the latter for Zoho and SMTP as well, by cases over the answers). Zoho: the cached token was issued, expires
not before the expiry the cache believes in, and was not dropped; whoever refreshes has the mutex -
`RejectedStaysGone`, `TokensHaveLifeLeft`. The latter bounds by what the answer of a refresh was late:
nothing is assumed of lifetime, margin and timeout, and with the defaults of the code (a minute, and
15 seconds) it says that every token handed out lives for another 45 seconds.

### Client library and HTTP API (`ClientTransportProofs`)

`HTTPInv`: calls of a producer are made one after the other (`OrderOK`); the two ends of a call agree
unless the producer gave up (`EndsOK`); an email that was sent once without silence was sent by a call
that succeeds (`SentOK`). `AnswersAreTrue`, `PostedTwiceOnlyAfterSilence`, `StatusesAreTrue`; the last
assumes `SenderCodes \cap MessageCodes = {}`, since what `content.go` refuses before it contacts a
provider is modelled as a request without a body, not as an answer of a provider.
`QueueInv`, for the sender that the configuration chose: what each call has put on the queue
(`HandedOK`), who may hold the mutex (`MutexOK`), and which connections can be open while nobody, or
the holder of the mutex, is at which step (`ConnOK`). `HandedOverIsOnTheQueue`,
`QueuedTwiceOnlyUnanswered`, `ConnectionsAreKept`.

### Process and configuration (`ServiceLifecycleProofs`)

`LifeInv`: a source that has returned works on nothing and is not ready, `main` returns after all of
them, and no flag is set while its source is connecting. `EndsBetweenDeliveries`,
`ReadyAfterConnecting`.
`StartsIffComplete` is about the constructors alone, for *every* combination of values of all the
variables - the run has those in which at most one is unusable: they accept an environment if and only
if it is complete in the sense of the README, and enable the announced sources. `StartsAsAnnounced`
is the action property that follows.

### Development stack (`DevStackProofs`)

`ResetInv`: a side that answered the calls of a reset, and nobody has changed since, injects nothing -
`ResetEndsFailures`. `MonitorInv`: every letter is in the queue or taken by one call, and a purge that
has passed a broker left there only what was held (`PurgeOK`) - `PurgesLeaveOnlyHeldLetters`. `BenchInv`: every attempt of an email but the last met a temporary failure, the
report says what the last one met, and the callback server has one event of an email that is done with
and none of any other - `ScenariosComeOut`, the scenario table for any number of emails and attempts.

`CountsArePlausible` and `ViewsWaitOnlyForLetters` compare sums over partitions, for any finite set of
them. `Total` is `MapThenSumSet`, a recursion over the set. That there is such a function
(`SumsExist`), and that a sum is monotone, is positive only if a part is, and shrinks by what one part
loses (`TotalMonotone`, `TotalPositive`, `TotalMinus`), is proved again by the least counterexample:
a smallest set of partitions of which it is false. `TopicInv` then says of every request in which order
the offsets it has listed lie: starts, ends and commits are three calls, each bound by what there was
before and by what there is now (`CountOK`), unless it came with an error, and what a view waits for is
the sum of what its partitions still have (`ReadOK`).

### Model-checked only

- Liveness (`EventuallySettled`, `EveryoneStops`, `LossIsNoticed`, `EverySendReturns`,
  `EveryCallReturns`): temporal
  logic under fairness, and `ENABLED`, are out of the prover's reach.

Every invariant and every action property of the passing runs is stated by a theorem.

## Not modelled

- The wire format of the client library, the IDs it generates and the variables `FromEnv` reads.
- Message and content building (`smtp_message.go`, `decoder.go`, `recipients.go`, the request bodies of
  the APIs): pure functions on text, whose correctness is about characters.
- The text of messages, JSON bodies, log lines; of environment variables all but what a constructor
  tells apart.
- A signal that arrives before `signal.NotifyContext` is called: the process dies, having done nothing.
- `x-not-before` of Kafka retries as a time: when a record is due is left open, so the model allows
  every wait.
- More than one partition per topic in the source: partitions share nothing but the member that owns
  them. The console's counts add partitions up, and are modelled with two.
- Retention of the dead-letter topic: the records of the panel leave by a purge only. That of the topic
  whose lag is counted is modelled.
- Deleting queues by hand, brokers that lose confirmed messages.
- Of the development stack: the inbox and callback lists, which show and clear what Mailpit and the
  callback server hold; the publishers of the console and the command line, which the bench takes to
  deliver what they accept; RabbitMQ's counts, which are one call; the pages.

## Plan

Done: the modules above, in this order - delivery service, topology, RabbitMQ source and its proofs,
Kafka source, senders, process, HTTP, client library, configuration, development stack.

Proved: the safety and action properties of every passing run, and the refinements of both queue
sources.

Left: liveness of a silent SMTP server, which needs timeouts in the code; queues deleted by hand on the
broker; and the publishers and lists of the development console.
