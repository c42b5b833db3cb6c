----------------------------- MODULE MCKafkaSource -----------------------------
(***************************************************************************)
(* Small instances of KafkaSource.                                         *)
(***************************************************************************)
EXTENDS KafkaSource, TLC

\* A message that is not JSON, and well-formed ones without and with a failure callback.
MCRequestKinds ==
    {[json |-> FALSE, body |-> FALSE, success |-> FALSE, failure |-> FALSE],
     [json |-> TRUE, body |-> TRUE, success |-> FALSE, failure |-> FALSE],
     [json |-> TRUE, body |-> TRUE, success |-> TRUE, failure |-> TRUE]}

MCPlain == {[json |-> TRUE, body |-> TRUE, success |-> FALSE, failure |-> FALSE]}

\* Producers leave the header out, or send one that is out of range.
MCProducerAttempts == {NoAttempt, -1}

MCNoHeader == {NoAttempt}

\* One temporary and one final failure.
MCSenderCodes == {"api_connection_failed", "smtp_message_rejected"}

MCTemporaryOnly == {"api_connection_failed"}

Symmetry == Permutations(Messages) \cup Permutations(Replicas)
=============================================================================
