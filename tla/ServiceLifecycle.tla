--------------------------- MODULE ServiceLifecycle ---------------------------
(***************************************************************************)
(* The life of one process: main reads its configuration, and runner.Run   *)
(* starts the health server and the enabled sources as goroutines, and     *)
(* stops them all when a signal arrives or one of them fails               *)
(* (cmd/server/main.go, internal/application/bean,                         *)
(* internal/application/runner/runner.go).  Of every source the module     *)
(* keeps how it connects, when it says it is ready, whether it is working  *)
(* on a delivery, and how its Run returns:                                 *)
(*                                                                         *)
(*   rabbitmq  internal/infrastructure/messaging/rabbitmq_consumer.go      *)
(*   kafka     internal/infrastructure/messaging/kafka_source.go           *)
(*   http      internal/adapter/httpapi/server.go                          *)
(*   health    internal/infrastructure/health/server.go                    *)
(***************************************************************************)
EXTENDS Configuration

CONSTANTS
    MaxInFlight,    \* HTTP requests handled at the same time
    MaxDrops        \* bound on dropped connections and failed polls

ASSUME LifecycleAssumption == MaxInFlight \in Nat /\ MaxDrops \in Nat

VARIABLES
    env,        \* the environment, until it has been read
    enabled,    \* the sources of the deployment
    brokers,    \* FALSE: KAFKA_BROKERS lists none
    topics,     \* FALSE: the brokers never create the topics the way they are asked to
    ctx,        \* TRUE: the context of Run is cancelled
    main,       \* "configuring", "running", or how the process exited: "clean" or "failed"
    returned,   \* the goroutines whose run function has returned
    errs,       \* those that returned an error
    ready,      \* the ready flag of each source
    rabbit,     \* where the consumer loop is
    link,       \* its connection: "up", "half" (only the channel is closed) or "down"
    conns,      \* the connections it has open at the broker
    kafka,      \* where KafkaSource.Run is
    loop,       \* where each of its two loops is
    polled,     \* TRUE: the last poll of the loop succeeded
    http,       \* where Server.Run is
    inflight,   \* HTTP requests being handled
    drops       \* drops so far

configVars == << env, enabled, brokers, topics >>
runVars == << ctx, returned, errs >>
rabbitVars == << rabbit, link, conns >>
kafkaVars == << kafka, loop, polled >>
httpVars == << http, inflight >>
vars == << configVars, main, runVars, ready, rabbitVars, kafkaVars, httpVars, drops >>

Loops == {"main", "retry"}

Goroutines == enabled \cup {"health"}

Ready == enabled # {} /\ \A s \in enabled : ready[s]

Working == inflight > 0 \/ rabbit = "handling" \/ \E l \in Loops : loop[l] = "batch"

\* Mutant: a failure does not cancel the others.
StopAlone(g, failed) ==
    /\ returned' = returned \cup {g}
    /\ errs' = IF failed THEN errs \cup {g} ELSE errs
    /\ UNCHANGED ctx

\* The run function of g returns; an error other than the cancellation stops the others.
Stop(g, failed) ==
    /\ returned' = returned \cup {g}
    /\ errs' = IF failed THEN errs \cup {g} ELSE errs
    /\ ctx' = (ctx \/ failed)

Running(g) == main = "running" /\ g \in Goroutines \ returned

SetReady(s, value) == ready' = [ready EXCEPT ![s] = value]

Drop == drops < MaxDrops /\ drops' = drops + 1

-----------------------------------------------------------------------------
(***************************************************************************)
(* main, and the health server.                                            *)
(***************************************************************************)

\* An environment that has been read.
Read == [listed |-> {}, var |-> [n \in {} |-> "unset"]]

\* main calls InitMailer and InitSources; a refused setting ends the process.  The number of
\* partitions or replicas that its field does not hold may become any other.
Configure ==
    /\ main = "configuring"
    /\ enabled' = IF InitMailer(env) THEN InitSources(env) ELSE {}
    /\ main' = IF enabled' # {} THEN "running" ELSE "failed"
    /\ brokers' = ("kafka" \in enabled' => splitList(env.var["KAFKA_BROKERS"]) # {})
    /\ topics' \in {TRUE, ~("kafka" \in enabled'
                            /\ "wide" \in {env.var["KAFKA_TOPIC_PARTITIONS"], env.var["KAFKA_TOPIC_REPLICATION"]})}
    /\ env' = Read
    /\ UNCHANGED << runVars, ready, rabbitVars, kafkaVars, httpVars, drops >>

\* SIGINT or SIGTERM.
Signal ==
    /\ main = "running" /\ ~ctx
    /\ ctx' = TRUE
    /\ UNCHANGED << configVars, main, returned, errs, ready, rabbitVars, kafkaVars, httpVars, drops >>

\* Mutant: Run returns as soon as the context is cancelled.
ExitEarly ==
    /\ main = "running"
    /\ ctx
    /\ main' = IF errs = {} THEN "clean" ELSE "failed"
    /\ UNCHANGED << configVars, runVars, ready, rabbitVars, kafkaVars, httpVars, drops >>

\* wg.Wait returns, and so do Run and main.
Exit ==
    /\ main = "running"
    /\ Goroutines \subseteq returned
    /\ main' = IF errs = {} THEN "clean" ELSE "failed"
    /\ UNCHANGED << configVars, runVars, ready, rabbitVars, kafkaVars, httpVars, drops >>

\* The port is taken, or the server fails.
HealthFails ==
    /\ Running("health")
    /\ Stop("health", TRUE)
    /\ UNCHANGED << configVars, main, ready, rabbitVars, kafkaVars, httpVars, drops >>

\* The context is done: Shutdown waits for the probes being answered, but not for ever.
HealthStops ==
    /\ Running("health")
    /\ ctx
    /\ \E timedOut \in BOOLEAN : Stop("health", timedOut)
    /\ UNCHANGED << configVars, main, ready, rabbitVars, kafkaVars, httpVars, drops >>

-----------------------------------------------------------------------------
(***************************************************************************)
(* The HTTP source.                                                        *)
(***************************************************************************)

HTTPListen ==
    /\ Running("http")
    /\ http = "starting"
    /\ \/ /\ http' = "serving"
          /\ SetReady("http", TRUE)
          /\ UNCHANGED << runVars, inflight >>
       \/ /\ Stop("http", TRUE)
          /\ UNCHANGED << httpVars, ready >>
    /\ UNCHANGED << configVars, main, rabbitVars, kafkaVars, drops >>

RequestBegins ==
    /\ Running("http")
    /\ http = "serving"
    /\ inflight < MaxInFlight
    /\ inflight' = inflight + 1
    /\ UNCHANGED << configVars, main, runVars, ready, rabbitVars, kafkaVars, http, drops >>

\* The handler answers; it may do so after Run has returned.
RequestEnds ==
    /\ main = "running"
    /\ inflight > 0
    /\ inflight' = inflight - 1
    /\ UNCHANGED << configVars, main, runVars, ready, rabbitVars, kafkaVars, http, drops >>

HTTPServeFails ==
    /\ Running("http")
    /\ http = "serving"
    /\ http' = "closed"
    /\ Stop("http", TRUE)
    /\ SetReady("http", FALSE)
    /\ UNCHANGED << configVars, main, rabbitVars, kafkaVars, inflight, drops >>

\* Shutdown closes the listener and waits.
HTTPShutdown ==
    /\ Running("http")
    /\ http = "serving"
    /\ ctx
    /\ http' = "closed"
    /\ UNCHANGED << configVars, main, runVars, ready, rabbitVars, kafkaVars, inflight, drops >>

\* Every request has been answered, or shutdownTimeout has passed.
HTTPShutDown ==
    /\ Running("http")
    /\ http = "closed"
    /\ Stop("http", inflight > 0)
    /\ SetReady("http", FALSE)
    /\ UNCHANGED << configVars, main, rabbitVars, kafkaVars, httpVars, drops >>

-----------------------------------------------------------------------------
(***************************************************************************)
(* The RabbitMQ source.                                                    *)
(***************************************************************************)

\* dialAndOpen succeeds: the new connection and channel replace the old ones.
RabbitConnected ==
    /\ Running("rabbitmq")
    /\ rabbit = "connecting"
    /\ rabbit' = "consuming"
    /\ link' = "up"
    /\ conns' = conns + 1
    /\ SetReady("rabbitmq", TRUE)
    /\ UNCHANGED << configVars, main, runVars, kafkaVars, httpVars, drops >>

\* The broker or the network closes the connection, or only the channel.
RabbitDrops ==
    /\ Drop
    /\ Running("rabbitmq")
    /\ link = "up"
    /\ \/ link' = "half" /\ UNCHANGED conns
       \/ link' = "down" /\ conns' = conns - 1
    /\ UNCHANGED << configVars, main, runVars, ready, rabbit, kafkaVars, httpVars >>

RabbitHandles ==
    /\ Running("rabbitmq")
    /\ \/ rabbit = "consuming" /\ link = "up" /\ rabbit' = "handling"
       \/ rabbit = "handling" /\ rabbit' = "consuming"
    /\ UNCHANGED << configVars, main, runVars, ready, link, conns, kafkaVars, httpVars, drops >>

\* Mutant: the flag is left alone when the connection drops.
RabbitReconnectsReady ==
    /\ Running("rabbitmq")
    /\ rabbit = "consuming"
    /\ link # "up"
    /\ ~ctx
    /\ rabbit' = "connecting"
    /\ UNCHANGED << configVars, main, runVars, ready, link, conns, kafkaVars, httpVars, drops >>

\* consumeLoop notices that the connection or the channel is closed; Consume connects again.
RabbitReconnects ==
    /\ Running("rabbitmq")
    /\ rabbit = "consuming"
    /\ link # "up"
    /\ ~ctx
    /\ rabbit' = "connecting"
    /\ SetReady("rabbitmq", FALSE)
    /\ UNCHANGED << configVars, main, runVars, link, conns, kafkaVars, httpVars, drops >>

\* The context is done between two deliveries or two dials; Close closes the current connection.
RabbitStops ==
    /\ Running("rabbitmq")
    /\ ctx
    /\ rabbit \in {"connecting", "consuming"}
    /\ Stop("rabbitmq", FALSE)
    /\ conns' = IF link \in {"up", "half"} THEN conns - 1 ELSE conns
    /\ link' = "down"
    /\ SetReady("rabbitmq", FALSE)
    /\ UNCHANGED << configVars, main, rabbit, kafkaVars, httpVars, drops >>

-----------------------------------------------------------------------------
(***************************************************************************)
(* The Kafka source.                                                       *)
(***************************************************************************)

\* The brokers answer and the topics exist: both loops start.
KafkaConnected ==
    /\ Running("kafka")
    /\ kafka = "connecting"
    /\ brokers /\ topics
    /\ kafka' = "running"
    /\ loop' = [l \in Loops |-> "polling"]
    /\ SetReady("kafka", TRUE)
    /\ UNCHANGED << configVars, main, runVars, polled, rabbitVars, httpVars, drops >>

\* connect gives up when the context is done.
KafkaConnectCancelled ==
    /\ Running("kafka")
    /\ kafka = "connecting"
    /\ ctx
    /\ Stop("kafka", FALSE)
    /\ UNCHANGED << configVars, main, ready, rabbitVars, kafkaVars, httpVars, drops >>

\* The options of a client are refused, as they are without a broker.
KafkaRefused ==
    /\ Running("kafka")
    /\ kafka = "connecting"
    /\ Stop("kafka", TRUE)
    /\ UNCHANGED << configVars, main, ready, rabbitVars, kafkaVars, httpVars, drops >>

\* A poll returns records, or an error of a partition; the flag of both loops is the same.
KafkaPolls(l) ==
    /\ Running("kafka")
    /\ loop[l] = "polling"
    /\ ~ctx
    /\ \/ /\ polled' = [polled EXCEPT ![l] = TRUE]
          /\ SetReady("kafka", TRUE)
          /\ UNCHANGED drops
       \/ /\ Drop
          /\ polled' = [polled EXCEPT ![l] = FALSE]
          /\ SetReady("kafka", FALSE)
    /\ loop' = [loop EXCEPT ![l] = "batch"]
    /\ UNCHANGED << configVars, main, runVars, kafka, rabbitVars, httpVars >>

KafkaBatchEnds(l) ==
    /\ Running("kafka")
    /\ loop[l] = "batch"
    /\ loop' = [loop EXCEPT ![l] = "polling"]
    /\ UNCHANGED << configVars, main, runVars, ready, kafka, polled, rabbitVars, httpVars, drops >>

\* The poll returns because the context is done.
KafkaLoopReturns(l) ==
    /\ Running("kafka")
    /\ loop[l] = "polling"
    /\ ctx
    /\ loop' = [loop EXCEPT ![l] = "returned"]
    /\ UNCHANGED << configVars, main, runVars, ready, kafka, polled, rabbitVars, httpVars, drops >>

KafkaStops ==
    /\ Running("kafka")
    /\ \A l \in Loops : loop[l] = "returned"
    /\ Stop("kafka", FALSE)
    /\ SetReady("kafka", FALSE)
    /\ UNCHANGED << configVars, main, kafkaVars, rabbitVars, httpVars, drops >>

-----------------------------------------------------------------------------
Init ==
    /\ env \in Environments
    /\ enabled = {}
    /\ brokers = TRUE
    /\ topics = TRUE
    /\ ctx = FALSE
    /\ main = "configuring"
    /\ returned = {}
    /\ errs = {}
    /\ ready = [s \in SourceNames |-> FALSE]
    /\ rabbit = "connecting"
    /\ link = "down"
    /\ conns = 0
    /\ kafka = "connecting"
    /\ loop = [l \in Loops |-> "idle"]
    /\ polled = [l \in Loops |-> TRUE]
    /\ http = "starting"
    /\ inflight = 0
    /\ drops = 0

HTTPStep == HTTPListen \/ HTTPShutdown \/ HTTPShutDown
RabbitStep == RabbitHandles \/ RabbitReconnects
KafkaStep == KafkaConnected \/ KafkaConnectCancelled \/ KafkaStops \/ \E l \in Loops : KafkaPolls(l) \/ KafkaBatchEnds(l)
KafkaStopping == \E l \in Loops : KafkaLoopReturns(l)

Next ==
    \/ Configure \/ Signal \/ Exit \/ HealthFails \/ HealthStops
    \/ HTTPStep \/ RequestBegins \/ RequestEnds \/ HTTPServeFails
    \/ RabbitConnected \/ RabbitStep \/ RabbitStops \/ RabbitDrops
    \/ KafkaStep \/ KafkaStopping \/ KafkaRefused

Spec == Init /\ [][Next]_vars

\* Goroutines run, and deliveries end; whether RabbitMQ can be reached again is not up to the
\* process.  A select between a delivery and the end of the context
\* takes the latter sooner or later.
Fairness ==
    /\ WF_vars(Exit) /\ WF_vars(HealthStops) /\ WF_vars(RequestEnds)
    /\ WF_vars(HTTPStep)
    /\ WF_vars(RabbitStep) /\ SF_vars(RabbitStops)
    /\ WF_vars(~brokers /\ KafkaRefused) /\ WF_vars(KafkaStep) /\ \A l \in Loops : WF_vars(KafkaLoopReturns(l))

FairSpec == Spec /\ Fairness

-----------------------------------------------------------------------------
(***************************************************************************)
(* Nothing is cut off by the end of the process: when main returns, no     *)
(* consumer is between a delivery and its ack or commit, and no HTTP       *)
(* request is being handled - unless the HTTP server reported that its     *)
(* graceful shutdown ran out of time or its listener failed (runner.go:    *)
(* 44-75, httpapi/server.go:50-75).                                        *)
(***************************************************************************)
NothingIsCutOff == main \in {"clean", "failed"} /\ "http" \notin errs => ~Working

(***************************************************************************)
(* "The first failure cancels the others; Run returns once all of them     *)
(* stopped" (runner.go:42-43): after a failure or a signal the process     *)
(* exits, whatever the sources are doing.                                  *)
(***************************************************************************)
EveryoneStops == (ctx \/ errs # {}) ~> (main # "running")

(***************************************************************************)
(* A source never says it is ready before it has connected for the first   *)
(* time or while it is connecting again, nor after its Run has returned;   *)
(* the HTTP server only while it serves, or while it is being stopped; and *)
(* of the two Kafka loops at least one succeeded in its last poll          *)
(* (runner.go:33-40, rabbitmq_consumer.go:44-66 and 114-126,               *)
(* kafka_source.go:51-94, kafka_consume.go:25-31, httpapi/server.go:51-75).*)
(* What the flags do not keep: RabbitReadyIsOpen; an HTTP server whose     *)
(* listener is closed stays ready in Shutdown (server.go:43, 64), and a    *)
(* Kafka source while one of its loops fails, since both write one flag    *)
(* (kafka_source.go:46, kafka_consume.go:30).                              *)
(***************************************************************************)
NotReadyUnconnected ==
    /\ \A s \in enabled \cap returned : ~ready[s]
    /\ ready["rabbitmq"] => rabbit # "connecting"
    /\ ready["kafka"] => kafka = "running" /\ \E l \in Loops : polled[l]
    /\ ready["http"] => http = "serving" \/ (http = "closed" /\ ctx)

(***************************************************************************)
(* A consumer whose connection or channel is gone, and an HTTP server that *)
(* no longer listens, do not stay ready for ever, even if the broker never *)
(* comes back (rabbitmq_consumer.go:112-163, httpapi/server.go:58-75).     *)
(***************************************************************************)
LossIsNoticed ==
    /\ (link # "up") ~> ~ready["rabbitmq"]
    /\ (http = "closed") ~> ~ready["http"]

(***************************************************************************)
(* "Ready reports whether the consumer has an open connection and channel" *)
(* (rabbitmq_consumer.go:42), at least while it handles a delivery.        *)
(* consumeLoop hears of a closed connection between two deliveries only    *)
(* (rabbitmq_consumer.go:146-162).                                         *)
(***************************************************************************)
RabbitReadyIsOpen == rabbit = "handling" /\ ready["rabbitmq"] => link = "up"

(***************************************************************************)
(* "The service refuses to start without HTTP_API_KEYS" (README.md:164),   *)
(* and without any other variable the README requires of the sender and of *)
(* the sources that its choices and defaults amount to; a deployment that  *)
(* has them, numbers that are positive and retry delays in order, starts   *)
(* with exactly those sources.  RabbitMQ takes spaces for a value          *)
(* (transport.go:34-49, retry_config.go:30-60, sources.go:35-72,           *)
(* bean/mailer.go:25-50, bean/sources.go:17-54).                           *)
(***************************************************************************)
StartsWhenComplete ==
    [][main = "configuring" =>
        IF Complete(env) THEN main' = "running" /\ enabled' = Announced(env)
        ELSE main' = "failed"]_vars

(***************************************************************************)
(* "Close closes the RabbitMQ channel and connection"                      *)
(* (rabbitmq_consumer.go:165): once the source has returned, none of the   *)
(* connections it opened is left.                                          *)
(***************************************************************************)
NoConnectionIsLeft == "rabbitmq" \in returned => conns = 0

=============================================================================
