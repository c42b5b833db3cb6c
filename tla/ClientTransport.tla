--------------------------- MODULE ClientTransport ----------------------------
(***************************************************************************)
(* The client library with the transport that its configuration chooses    *)
(* (client/transport/transport.go): one of the queue senders, or the HTTP  *)
(* sender together with the HTTP source that answers it.  What an          *)
(* application may rely on, whichever transport it is, is stated here.     *)
(***************************************************************************)
EXTENDS HTTPSource, RabbitMQClient, KafkaClient

VARIABLE transport      \* the sender that New has built, or "none"

clientVars == << transport, vars, rabbitVars, closed >>

ASSUME ClientAssumption ==
    /\ NoCaller \notin Callers
    /\ NoConnection \notin Connections
    /\ MaxQueueCalls \in Nat \ {0}
    /\ MaxFaults \in Nat

\* Config: the transport named, and is everything there that its sender requires (the URL, the
\* brokers, the URL and token)?
Configs == [transport: {"", "rabbitmq", "kafka", "http", "smtp"}, complete: BOOLEAN]

\* New refuses a transport it does not know, and each sender a configuration that is not complete.
NewSender(cfg) ==
    IF ~cfg.complete \/ cfg.transport = "smtp" THEN "none"
    ELSE IF cfg.transport = "" THEN "rabbitmq" ELSE cfg.transport

ClientTypeOK ==
    /\ transport \in {"none", "rabbitmq", "kafka", "http"}
    /\ TypeOK
    /\ transport # "kafka" => RabbitTypeOK
    /\ transport = "kafka" => KafkaTypeOK

\* A transport that is not used stays as it is; what its peer may be then does not matter.
ClientInit ==
    /\ \E cfg \in Configs : transport = NewSender(cfg)
    /\ Init
    /\ transport # "http" => kind = [p \in Producers |-> CHOOSE k \in Kinds : TRUE]
    /\ RabbitInit
    /\ transport # "rabbitmq" => ~queue
    /\ KafkaInit

ThroughHTTP == transport = "http" /\ Next /\ UNCHANGED << rabbitVars, closed >>

ThroughRabbitMQ == transport = "rabbitmq" /\ RabbitNext /\ UNCHANGED << vars, closed >>

ThroughKafka == transport = "kafka" /\ KafkaNext /\ UNCHANGED << vars, connVars, queue, deleted, faults >>

ClientNext ==
    /\ UNCHANGED transport
    /\ ThroughHTTP \/ ThroughRabbitMQ \/ ThroughKafka

\* The fairness of a sender that is not used asks for nothing: none of its steps can be taken.
ClientSpec == ClientInit /\ [][ClientNext]_clientVars /\ RabbitFairness /\ KafkaFairness

-----------------------------------------------------------------------------
(***************************************************************************)
(* "RabbitMQ and Kafka senders return once the broker acknowledged the     *)
(* message" (client/sender.go:5-6): a Send that succeeded has its email on *)
(* the broker, unless the queue was deleted while the sender was connected *)
(* (client/rabbitmq/sender.go:104-127, client/kafka/sender.go:84-89).      *)
(***************************************************************************)
HandedOverIsTaken ==
    \A c \in Callers : HandedOver(c) /\ ~deleted => taken[c] > 0

(***************************************************************************)
(* An application that calls Send again after an error puts its email on   *)
(* the queue twice only if one of its calls had no answer of the broker: a *)
(* refusal, a failed connection or a failed preparation is a definite no,  *)
(* also when other callers reconnect or close the sender in between        *)
(* (client/rabbitmq/sender.go:58-83, client/kafka/sender.go:73-91).        *)
(***************************************************************************)
QueuedTwiceOnlyAfterSilence ==
    \A c \in Callers : c \notin unsure => taken[c] <= 1

(***************************************************************************)
(* Every call of a queue sender returns, although the RabbitMQ sender      *)
(* holds its mutex while it waits for the network, and whatever breaks     *)
(* meanwhile (client/rabbitmq/sender.go:69-102).                           *)
(***************************************************************************)
EveryCallReturns == \A c \in Callers : pc[c] # "idle" ~> pc[c] = "idle"

=============================================================================
