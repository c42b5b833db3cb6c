----------------------------- MODULE KafkaClient ------------------------------
(***************************************************************************)
(* The Kafka sender of the client library (client/kafka/sender.go).        *)
(*                                                                         *)
(* ProduceSync waits, no longer than the timeout, until the broker has     *)
(* acknowledged the record.  The Kafka client retries behind it with an    *)
(* idempotent producer, so that one call appends at most one record.       *)
(* Calls run next to each other and share nothing but that client.         *)
(***************************************************************************)
EXTENDS ClientSender

VARIABLE closed     \* was the sender closed?

kafkaVars == << callVars, handedVars, closed >>

KafkaStages == {"producing", "appended", "pinging", "closing"}

KafkaTypeOK == SenderTypeOK(KafkaStages) /\ closed \in BOOLEAN

FirstStage == [send |-> "producing", health |-> "pinging", close |-> "closing"]

\* Send, HealthCheck or Close is called.
KafkaCall(c) ==
    /\ \E o \in Operations : Enter(c, o, FirstStage[o])
    /\ UNCHANGED << handedVars, closed >>

\* The broker appends the record.
Append(c) ==
    /\ pc[c] = "producing"
    /\ ~closed
    /\ Take(c, TRUE)
    /\ GoTo(c, "appended")
    /\ UNCHANGED << unsure, closed >>

\* The acknowledgement arrives.
Produced(c) ==
    /\ pc[c] = "appended"
    /\ ~closed
    /\ ReturnFrom(c, "ok")
    /\ UNCHANGED << handedVars, closed >>

\* The timeout passes, the caller's context ends or the sender is closed.  A record that is on
\* its way may still be appended.
NotProduced(c) ==
    /\ pc[c] \in {"producing", "appended"}
    /\ \E late \in BOOLEAN : (late => pc[c] = "producing" /\ ~closed) /\ Take(c, late)
    /\ NotAnswered(c)
    /\ ReturnFrom(c, "failed")
    /\ UNCHANGED closed

\* The broker refuses the record.
ProduceRejected(c) ==
    /\ pc[c] = "producing"
    /\ ~closed
    /\ ReturnFrom(c, "failed")
    /\ UNCHANGED << handedVars, closed >>

Ping(c) ==
    /\ pc[c] = "pinging"
    /\ \E how \in {"ok", "failed"} : (closed => how = "failed") /\ ReturnFrom(c, how)
    /\ UNCHANGED << handedVars, closed >>

\* Close closes the client: the calls that still wait fail.
CloseClient(c) ==
    /\ pc[c] = "closing"
    /\ closed' = TRUE
    /\ ReturnFrom(c, "ok")
    /\ UNCHANGED handedVars

-----------------------------------------------------------------------------
KafkaInit == SenderInit /\ closed = FALSE

KafkaStep(c) ==
    \/ Append(c) \/ Produced(c) \/ NotProduced(c) \/ ProduceRejected(c) \/ Ping(c) \/ CloseClient(c)

KafkaNext == \E c \in Callers : KafkaCall(c) \/ KafkaStep(c)

KafkaSpec == KafkaInit /\ [][KafkaNext]_kafkaVars

\* Every wait of a call is bounded by the timeout.
KafkaFairness == \A c \in Callers : WF_kafkaVars(KafkaStep(c))

=============================================================================
