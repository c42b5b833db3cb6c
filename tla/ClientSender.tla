----------------------------- MODULE ClientSender -----------------------------
(***************************************************************************)
(* The Sender interface of the client library (client/sender.go) as the    *)
(* senders of both queues implement it: an application calls Send,         *)
(* HealthCheck and Close of one sender from several goroutines.  Each      *)
(* caller has one email, which it may hand over again as long as no call   *)
(* has succeeded.                                                          *)
(***************************************************************************)
EXTENDS Naturals

CONSTANTS
    Callers,        \* goroutines that use the sender
    MaxQueueCalls   \* bound on the calls of each

VARIABLES
    pc,         \* where the call of each goroutine is, "idle" when it makes none
    op,         \* the operation it calls, or called last
    result,     \* how its latest call ended: "none" before the first
    made,       \* the number of its calls
    taken,      \* how often the broker has taken its email
    unsure      \* callers of a Send that the broker did not answer

callVars == << pc, op, result, made >>
handedVars == << taken, unsure >>

Operations == {"send", "health", "close"}

Results == {"none", "ok", "invalid", "failed"}

\* An email, by the fields that are present.
Emails == [from: BOOLEAN, to: BOOLEAN, subject: BOOLEAN, html: BOOLEAN]

\* Prepare lets an email pass that Validate accepts; it also fills in the ID.
Prepare(email) == email.from /\ email.to /\ email.subject /\ email.html

\* What the latest Send of c has returned, if it was its latest call.
HandedOver(c) == op[c] = "send" /\ pc[c] = "idle" /\ result[c] = "ok"

SenderTypeOK(stages) ==
    /\ pc \in [Callers -> stages \cup {"idle"}]
    /\ op \in [Callers -> Operations]
    /\ result \in [Callers -> Results]
    /\ made \in [Callers -> 0..MaxQueueCalls]
    /\ taken \in [Callers -> Nat]
    /\ unsure \subseteq Callers

SenderInit ==
    /\ pc = [c \in Callers |-> "idle"]
    /\ op = [c \in Callers |-> "close"]
    /\ result = [c \in Callers |-> "none"]
    /\ made = [c \in Callers |-> 0]
    /\ taken = [c \in Callers |-> 0]
    /\ unsure = {}

\* c calls operation o, whose first step is stage.  An email that is not complete is refused
\* before anything else happens.
Enter(c, o, stage) ==
    /\ pc[c] = "idle"
    /\ made[c] < MaxQueueCalls
    /\ ~HandedOver(c)
    /\ made' = [made EXCEPT ![c] = @ + 1]
    /\ op' = [op EXCEPT ![c] = o]
    /\ \E email \in Emails :
          IF o = "send" /\ ~Prepare(email)
          THEN result' = [result EXCEPT ![c] = "invalid"] /\ UNCHANGED pc
          ELSE pc' = [pc EXCEPT ![c] = stage] /\ UNCHANGED result

\* The call of c goes on with another step.
GoTo(c, stage) ==
    /\ pc' = [pc EXCEPT ![c] = stage]
    /\ UNCHANGED << op, result, made >>

\* The call of c returns.
ReturnFrom(c, how) ==
    /\ pc' = [pc EXCEPT ![c] = "idle"]
    /\ result' = [result EXCEPT ![c] = how]
    /\ UNCHANGED << op, made >>

\* The broker takes the email of c, or does not.
Take(c, yes) == taken' = IF yes THEN [taken EXCEPT ![c] = @ + 1] ELSE taken

\* The Send of c ends without having heard of the broker.
NotAnswered(c) == unsure' = unsure \cup {c}

=============================================================================
