-------------------------- MODULE AtLeastOnceDelivery --------------------------
(***************************************************************************)
(* What a queue source promises of the messages it has accepted,           *)
(* whichever broker carries them: "Delivery is at-least-once" (README.md). *)
(*                                                                         *)
(* A message is owed from the moment it is accepted until the source lets  *)
(* go of it, and the source lets go only of a message that has reached an  *)
(* outcome: the provider took the email, the failure callback took the     *)
(* failure, or the message is among the dead letters.  An outcome may be   *)
(* reached more than once, and more than one of them may be reached, even  *)
(* after the message was let go (by a replica that lost its connection     *)
(* while it was working on it).                                            *)
(*                                                                         *)
(* Two sets of messages hold the exceptions.  A message that is doubled,   *)
(* because two consumers may be working on it, may be owed again after it  *)
(* was let go; any other message is let go for good.  A message that is    *)
(* excused may be let go without an outcome.  A source that keeps both     *)
(* sets empty makes no exception.                                          *)
(***************************************************************************)
CONSTANT Messages

VARIABLES
    accepted,   \* messages the source has accepted
    owed,       \* messages it still has to take care of
    outcomes,   \* the outcomes each message has reached
    doubled,    \* messages that may be owed again
    excused     \* messages that may be let go without an outcome

contractVars == << accepted, owed, outcomes, doubled, excused >>

Outcomes == {"sent", "reported", "dead_lettered"}

ContractInit ==
    /\ accepted = {}
    /\ owed = {}
    /\ outcomes = [m \in Messages |-> {}]
    /\ doubled = {}
    /\ excused = {}

Accept(m) ==
    /\ m \notin accepted
    /\ accepted' = accepted \cup {m}
    /\ owed' = owed \cup {m}
    /\ UNCHANGED << outcomes, doubled, excused >>

\* Two may be reached at once: the email was accepted unknown to the sender, and the failure
\* callback took what the sender reported.
Reach(m, os) ==
    /\ m \in accepted
    /\ outcomes' = [outcomes EXCEPT ![m] = @ \cup os]
    /\ UNCHANGED << accepted, owed, doubled, excused >>

\* Messages may be let go together (one commit of a Kafka offset covers a batch).
LetGo(ms) ==
    /\ ms \subseteq owed
    /\ \A m \in ms : outcomes[m] # {} \/ m \in excused
    /\ owed' = owed \ ms
    /\ UNCHANGED << accepted, outcomes, doubled, excused >>

\* A second consumer starts on messages that are still owed.
Double(ms) ==
    /\ ms \subseteq owed
    /\ doubled' = doubled \cup ms
    /\ UNCHANGED << accepted, owed, outcomes, excused >>

\* One of the two consumers asks for another attempt.
OweAgain(m) ==
    /\ m \in doubled
    /\ owed' = owed \cup {m}
    /\ UNCHANGED << accepted, outcomes, doubled, excused >>

Excuse(ms) ==
    /\ ms \subseteq accepted
    /\ excused' = excused \cup ms
    /\ UNCHANGED << accepted, owed, outcomes, doubled >>

ContractNext ==
    \/ \E m \in Messages : Accept(m) \/ OweAgain(m) \/ \E os \in SUBSET Outcomes : Reach(m, os)
    \/ \E ms \in SUBSET Messages : LetGo(ms) \/ Double(ms) \/ Excuse(ms)

ContractSpec == ContractInit /\ [][ContractNext]_contractVars

=============================================================================
