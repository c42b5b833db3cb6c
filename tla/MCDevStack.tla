------------------------------ MODULE MCDevStack ------------------------------
(***************************************************************************)
(* A small instance of DevStack for TLC.                                   *)
(***************************************************************************)
EXTENDS DevStack, TLC

\* Each channel, callbacks and no callbacks, and a body that is not base64.
MCForms ==
    {[channel |-> "rabbitmq", invalidBody |-> FALSE, success |-> TRUE, failure |-> TRUE],
     [channel |-> "kafka", invalidBody |-> FALSE, success |-> TRUE, failure |-> FALSE],
     [channel |-> "http", invalidBody |-> FALSE, success |-> TRUE, failure |-> TRUE],
     [channel |-> "rabbitmq", invalidBody |-> TRUE, success |-> FALSE, failure |-> TRUE]}

\* At most one step of the session fails.
MCTriggers ==
    {t \in [Triggers -> {"off", "4xx", "5xx"}] :
        Cardinality({s \in Triggers : t[s] # "off"}) <= 1}

Symmetry ==
    Permutations(Panels) \cup Permutations(Partitions) \cup Permutations(BenchEmails)

=============================================================================
