---------------------------- MODULE RabbitMQClient ----------------------------
(***************************************************************************)
(* The RabbitMQ sender of the client library (client/rabbitmq/sender.go).  *)
(*                                                                         *)
(* All calls share one connection with one channel, behind a mutex that is *)
(* held while the sender dials, declares the queue, publishes, waits for   *)
(* the confirmation and closes.  The connection may go at each of these    *)
(* steps, at first without the client noticing, and the channel may be     *)
(* closed by the broker while the connection stays.                        *)
(***************************************************************************)
EXTENDS ClientSender

CONSTANTS
    NoCaller,
    Connections,    \* identities of connections; those that are closed are used again
    NoConnection,
    MaxFaults       \* bound on dropped connections, closed channels and deleted queues

VARIABLES
    mu,         \* the caller that holds the mutex, or NoCaller
    conn,       \* Sender.conn, whose channel is Sender.channel
    dialed,     \* the connection that ensureChannel is preparing
    link,       \* each connection, as client and broker see it
    flight,     \* the email published last: on its way, or answered by the broker
    queue,      \* does the queue exist?
    deleted,    \* has it ever been deleted?
    faults      \* faults so far

connVars == << mu, conn, dialed, link, flight >>
rabbitVars == << callVars, handedVars, connVars, queue, deleted, faults >>

\* "dead": gone, and the client has not noticed; "channel_closed": only the connection is open.
LinkStates == {"closed", "open", "dead", "channel_closed"}

RabbitStages ==
    {"locking", "ensuring", "dialing", "preparing", "publishing", "confirming",
     "checking", "resetting_ok", "resetting_failed"}

RabbitTypeOK ==
    /\ SenderTypeOK(RabbitStages)
    /\ mu \in Callers \cup {NoCaller}
    /\ {conn, dialed} \subseteq Connections \cup {NoConnection}
    /\ link \in [Connections -> LinkStates]
    /\ flight \in {"none", "sent", "acked", "nacked"}
    /\ queue \in BOOLEAN /\ deleted \in BOOLEAN
    /\ faults \in 0..MaxFaults

\* What IsClosed tells of the channel and the connection of the sender.
SeemsOpen == conn # NoConnection /\ link[conn] \in {"open", "dead"}

Closed(k) == [link EXCEPT ![k] = "closed"]

AfterEnsure(c) == IF op[c] = "health" THEN "checking" ELSE "publishing"

\* The call returns and its deferred Unlock lets the next one in.
Unlock(c, how) == mu' = NoCaller /\ ReturnFrom(c, how)

-----------------------------------------------------------------------------
\* Send, HealthCheck or Close is called.
RabbitCall(c) ==
    /\ \E o \in Operations : Enter(c, o, "locking")
    /\ UNCHANGED << handedVars, connVars, queue, deleted, faults >>

Lock(c) ==
    /\ pc[c] = "locking"
    /\ mu = NoCaller
    /\ mu' = c
    /\ GoTo(c, IF op[c] = "close" THEN "resetting_ok" ELSE "ensuring")
    /\ UNCHANGED << handedVars, conn, dialed, link, flight, queue, deleted, faults >>

(***************************************************************************)
(* ensureChannel.                                                          *)
(***************************************************************************)

Reuse(c) ==
    /\ pc[c] = "ensuring"
    /\ SeemsOpen
    /\ GoTo(c, AfterEnsure(c))
    /\ UNCHANGED << handedVars, connVars, queue, deleted, faults >>

\* Mutant: the old connection is forgotten without being closed.
EnsureForget(c) ==
    /\ pc[c] = "ensuring"
    /\ ~SeemsOpen
    /\ conn' = NoConnection
    /\ GoTo(c, "dialing")
    /\ UNCHANGED << handedVars, mu, dialed, link, flight, queue, deleted, faults >>

\* reset closes what is left of the old connection.
EnsureReset(c) ==
    /\ pc[c] = "ensuring"
    /\ ~SeemsOpen
    /\ link' = IF conn = NoConnection THEN link ELSE Closed(conn)
    /\ conn' = NoConnection
    /\ GoTo(c, "dialing")
    /\ UNCHANGED << handedVars, mu, dialed, flight, queue, deleted, faults >>

Dial(c) ==
    /\ pc[c] = "dialing"
    /\ \E k \in Connections : link[k] = "closed"
    /\ dialed' = CHOOSE k \in Connections : link[k] = "closed"
    /\ link' = [link EXCEPT ![dialed'] = "open"]
    /\ GoTo(c, "preparing")
    /\ UNCHANGED << handedVars, mu, conn, flight, queue, deleted, faults >>

DialFailed(c) ==
    /\ pc[c] = "dialing"
    /\ Unlock(c, "failed")
    /\ UNCHANGED << handedVars, conn, dialed, link, flight, queue, deleted, faults >>

\* The channel is opened and put into confirm mode, the queue is declared.
PrepareChannel(c) ==
    /\ pc[c] = "preparing"
    /\ link[dialed] = "open"
    /\ queue' = TRUE
    /\ conn' = dialed
    /\ dialed' = NoConnection
    /\ GoTo(c, AfterEnsure(c))
    /\ UNCHANGED << handedVars, mu, link, flight, deleted, faults >>

\* One of these is refused, or the connection goes, which ends the wait for the broker.
PrepareFailed(c) ==
    /\ pc[c] = "preparing"
    /\ link[dialed] # "dead"
    /\ link' = Closed(dialed)
    /\ dialed' = NoConnection
    /\ Unlock(c, "failed")
    /\ UNCHANGED << handedVars, conn, flight, queue, deleted, faults >>

(***************************************************************************)
(* publish.                                                                *)
(***************************************************************************)

Publish(c) ==
    /\ pc[c] = "publishing"
    /\ SeemsOpen
    /\ flight' = "sent"
    /\ GoTo(c, "confirming")
    /\ UNCHANGED << handedVars, mu, conn, dialed, link, queue, deleted, faults >>

\* The channel is closed, or writing to it fails, so that nothing reaches the broker.
PublishFailed(c) ==
    /\ pc[c] = "publishing"
    /\ link[conn] # "open"
    /\ GoTo(c, "resetting_failed")
    /\ UNCHANGED << handedVars, connVars, queue, deleted, faults >>

\* The broker takes the email, refuses it, or - the publish is not mandatory - drops it for want
\* of the queue, which it confirms as well.
BrokerAnswers(c) ==
    /\ pc[c] = "confirming"
    /\ flight = "sent"
    /\ link[conn] = "open"
    /\ \/ Take(c, queue) /\ flight' = "acked"
       \/ Take(c, FALSE) /\ flight' = "nacked"
    /\ UNCHANGED << callVars, unsure, mu, conn, dialed, link, queue, deleted, faults >>

\* Mutant: the confirmation is waited for with a context that is already done, and the broker's
\* silence is taken for its refusal.
AckTakenForRefusal(c) ==
    /\ pc[c] = "confirming"
    /\ flight = "acked"
    /\ link[conn] \in {"open", "dead"}
    /\ flight' = "none"
    /\ GoTo(c, "resetting_failed")
    /\ UNCHANGED << handedVars, mu, conn, dialed, link, queue, deleted, faults >>

Confirmed(c) ==
    /\ pc[c] = "confirming"
    /\ flight = "acked"
    /\ link[conn] \in {"open", "dead"}
    /\ flight' = "none"
    /\ Unlock(c, "ok")
    /\ UNCHANGED << handedVars, conn, dialed, link, queue, deleted, faults >>

\* Mutant: acked is not looked at.
RejectedIgnored(c) ==
    /\ pc[c] = "confirming"
    /\ flight = "nacked"
    /\ link[conn] \in {"open", "dead"}
    /\ flight' = "none"
    /\ Unlock(c, "ok")
    /\ UNCHANGED << handedVars, conn, dialed, link, queue, deleted, faults >>

Rejected(c) ==
    /\ pc[c] = "confirming"
    /\ flight = "nacked"
    /\ link[conn] \in {"open", "dead"}
    /\ flight' = "none"
    /\ GoTo(c, "resetting_failed")
    /\ UNCHANGED << handedVars, mu, conn, dialed, link, queue, deleted, faults >>

\* The timeout passes, the caller's context ends, or the channel closes before the answer comes.
\* On a connection that works the broker may still take the email, which precedes the close.
Unconfirmed(c) ==
    /\ pc[c] = "confirming"
    /\ \E late \in BOOLEAN :
          /\ late => flight = "sent" /\ link[conn] = "open" /\ queue
          /\ Take(c, late)
    /\ NotAnswered(c)
    /\ flight' = "none"
    /\ GoTo(c, "resetting_failed")
    /\ UNCHANGED << mu, conn, dialed, link, queue, deleted, faults >>

-----------------------------------------------------------------------------
\* HealthCheck declares the queue passively, for which it waits without a timeout.
Check(c) ==
    /\ pc[c] = "checking"
    /\ link[conn] = "open"
    /\ queue
    /\ Unlock(c, "ok")
    /\ UNCHANGED << handedVars, conn, dialed, link, flight, queue, deleted, faults >>

\* Mutant: the mutex stays locked when the check fails.
CheckFailedLocked(c) ==
    /\ pc[c] = "checking"
    /\ link[conn] # "dead"
    /\ link[conn] = "open" => ~queue
    /\ link' = IF link[conn] = "open" THEN [link EXCEPT ![conn] = "channel_closed"] ELSE link
    /\ ReturnFrom(c, "failed")
    /\ UNCHANGED << handedVars, mu, conn, dialed, flight, queue, deleted, faults >>

\* The broker closes the channel on which a missing queue is declared; or it was closed before.
CheckFailed(c) ==
    /\ pc[c] = "checking"
    /\ link[conn] # "dead"
    /\ link[conn] = "open" => ~queue
    /\ link' = IF link[conn] = "open" THEN [link EXCEPT ![conn] = "channel_closed"] ELSE link
    /\ GoTo(c, "resetting_failed")
    /\ UNCHANGED << handedVars, mu, conn, dialed, flight, queue, deleted, faults >>

\* reset closes channel and connection, waiting for the broker or for the end of the connection,
\* and the call returns.
Reset(c) ==
    /\ pc[c] \in {"resetting_ok", "resetting_failed"}
    /\ conn # NoConnection => link[conn] # "dead"
    /\ link' = IF conn = NoConnection THEN link ELSE Closed(conn)
    /\ conn' = NoConnection
    /\ Unlock(c, IF pc[c] = "resetting_ok" THEN "ok" ELSE "failed")
    /\ UNCHANGED << handedVars, dialed, flight, queue, deleted, faults >>

-----------------------------------------------------------------------------
(***************************************************************************)
(* The network and the broker.                                             *)
(***************************************************************************)

Fault == faults < MaxFaults /\ faults' = faults + 1

Drop(k) ==
    /\ link[k] \in {"open", "channel_closed"}
    /\ Fault
    /\ link' = [link EXCEPT ![k] = "dead"]
    /\ UNCHANGED << callVars, handedVars, mu, conn, dialed, flight, queue, deleted >>

\* A write fails, or no heartbeat comes.
Notice(k) ==
    /\ link[k] = "dead"
    /\ link' = Closed(k)
    /\ UNCHANGED << callVars, handedVars, mu, conn, dialed, flight, queue, deleted, faults >>

CloseChannel(k) ==
    /\ link[k] = "open"
    /\ Fault
    /\ link' = [link EXCEPT ![k] = "channel_closed"]
    /\ UNCHANGED << callVars, handedVars, mu, conn, dialed, flight, queue, deleted >>

DeleteQueue ==
    /\ queue
    /\ Fault
    /\ queue' = FALSE
    /\ deleted' = TRUE
    /\ UNCHANGED << callVars, handedVars, connVars >>

-----------------------------------------------------------------------------
RabbitInit ==
    /\ SenderInit
    /\ mu = NoCaller
    /\ conn = NoConnection
    /\ dialed = NoConnection
    /\ link = [k \in Connections |-> "closed"]
    /\ flight = "none"
    /\ queue \in BOOLEAN
    /\ deleted = FALSE
    /\ faults = 0

\* The steps of a call, once it has the mutex.
RabbitStep(c) ==
    \/ Reuse(c) \/ EnsureReset(c) \/ Dial(c) \/ DialFailed(c) \/ PrepareChannel(c) \/ PrepareFailed(c)
    \/ Publish(c) \/ PublishFailed(c) \/ BrokerAnswers(c)
    \/ Confirmed(c) \/ Rejected(c) \/ Unconfirmed(c)
    \/ Check(c) \/ CheckFailed(c) \/ Reset(c)

RabbitNext ==
    \/ \E c \in Callers : RabbitCall(c) \/ Lock(c) \/ RabbitStep(c)
    \/ \E k \in Connections : Drop(k) \/ Notice(k) \/ CloseChannel(k)
    \/ DeleteQueue

RabbitSpec == RabbitInit /\ [][RabbitNext]_rabbitVars

\* Every wait of a call has an end: the timeout of dial and publish, or the heartbeat of a
\* connection.  A goroutine that waits for the mutex gets it (sync.Mutex is not unfair for ever).
RabbitFairness ==
    /\ \A c \in Callers : WF_rabbitVars(RabbitStep(c)) /\ SF_rabbitVars(Lock(c))
    /\ \A k \in Connections : WF_rabbitVars(Notice(k))

-----------------------------------------------------------------------------
(***************************************************************************)
(* The sender never loses hold of a connection: each one that is not       *)
(* closed is Sender.conn, or the one that the call with the mutex is       *)
(* preparing - whatever drops, closed channels and failed preparations     *)
(* precede, and however calls queue up (sender.go:129-168).                *)
(***************************************************************************)
NoConnectionIsForgotten ==
    \A k \in Connections :
        link[k] # "closed" => k = conn \/ (k = dialed /\ mu # NoCaller)

=============================================================================
