--------------------------- MODULE DeliveryAttempts ---------------------------
(***************************************************************************)
(* The attempts of one queued request, as a sender sees them: the delivery *)
(* service calls Send once per attempt and decides what becomes of the     *)
(* request (internal/core/mailer/service.go).  A request that is retried   *)
(* goes through a retry queue or topic, which loses nothing, and comes     *)
(* back with the next attempt number.                                      *)
(***************************************************************************)
EXTENDS ProviderErrors

CONSTANT MaxAttempts    \* MAILER_MAX_ATTEMPTS

ASSUME AttemptsAssumption == MaxAttempts \in Nat \ {0}

VARIABLES
    attempt,    \* the attempt being made
    job         \* the call of the delivery service; its stage is "outcome" after Send

attemptVars == << attempt, job >>

\* The queued request the email came in: no callbacks.
Request == [json |-> TRUE, body |-> TRUE, success |-> FALSE, failure |-> FALSE]

Call(n) == Handle(Request, n, n < MaxAttempts)

\* Send returns err and the service decides.
SendReturns(err) == job' = AfterSend(Request, job, err)

\* The request is delivered again.
NextAttempt ==
    /\ job.action = "retry"
    /\ attempt' = attempt + 1
    /\ job' = Call(attempt + 1)

FirstAttempt == attempt = 1 /\ job = Call(1)

=============================================================================
