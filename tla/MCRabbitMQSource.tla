--------------------------- MODULE MCRabbitMQSource ---------------------------
(***************************************************************************)
(* Small instances of RabbitMQSource.                                      *)
(***************************************************************************)
EXTENDS RabbitMQSource

\* A message that is not JSON, one whose body is not base64, and well-formed ones without and with
\* callbacks.
MCRequestKinds ==
    {[json |-> FALSE, body |-> FALSE, success |-> FALSE, failure |-> FALSE],
     [json |-> TRUE, body |-> FALSE, success |-> TRUE, failure |-> TRUE],
     [json |-> TRUE, body |-> TRUE, success |-> FALSE, failure |-> FALSE],
     [json |-> TRUE, body |-> TRUE, success |-> TRUE, failure |-> TRUE]}

\* Producers leave the header out, or send one that is out of range.
MCProducerAttempts == {NoAttempt, 0}

\* One temporary and one final failure.
MCSenderCodes == {"api_connection_failed", "smtp_message_rejected"}

=============================================================================
