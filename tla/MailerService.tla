----------------------------- MODULE MailerService -----------------------------
(***************************************************************************)
(* One call of the delivery service: MailerConsumer.Handle                 *)
(* (internal/adapter/consumer/mailer_consumer.go) and the service it calls *)
(* (internal/core/mailer/service.go).                                      *)
(*                                                                         *)
(* A call is a job that the sources carry through its stages, so that a    *)
(* crash or a lost connection can fall between any two of them:            *)
(*                                                                         *)
(*    send --> notify_success --> outcome(done)                            *)
(*      |----> notify_failure --> outcome(done | dead_letter)              *)
(*      |----> outcome(done | retry | dead_letter)                         *)
(*                                                                         *)
(* A request is abstracted to what the service tells apart: whether the    *)
(* message is JSON, whether its body is base64, and which callback targets *)
(* are usable (present, with a non-blank URL).                             *)
(***************************************************************************)
EXTENDS Naturals

Requests == [json: BOOLEAN, body: BOOLEAN, success: BOOLEAN, failure: BOOLEAN]

MessageCodes ==
    {"message_invalid_json", "message_invalid_body", "message_missing_sender",
     "message_missing_receiver", "message_missing_subject", "message_missing_body"}

SMTPCodes ==
    {"smtp_connection_failed", "smtp_authorization_denied", "smtp_sender_rejected",
     "smtp_receiver_rejected", "smtp_message_rejected", "smtp_temporary_failure"}

APICodes ==
    {"api_connection_failed", "api_authorization_denied", "api_sender_not_allowed",
     "api_invalid_receiver", "api_invalid_attachment", "api_invalid_request",
     "api_quota_exceeded", "api_rate_limited", "api_provider_unavailable",
     "api_unexpected_response"}

ErrorCodes == MessageCodes \cup SMTPCodes \cup APICodes \cup {"unknown_error"}

\* The temporary failures.
Retryable(code) ==
    code \in {"api_connection_failed", "api_rate_limited", "api_provider_unavailable",
              "smtp_connection_failed", "smtp_temporary_failure"}

NoError == "none"

Actions == {"none", "done", "retry", "dead_letter"}

Stages == {"send", "notify_success", "notify_failure", "outcome"}

Jobs ==
    [stage: Stages, attempt: Nat \ {0}, canRetry: BOOLEAN,
     code: ErrorCodes \cup {NoError}, action: Actions]

\* The call returns with this action.
Outcome(job, action) == [job EXCEPT !.stage = "outcome", !.action = action]

-----------------------------------------------------------------------------
\* A message that is not JSON goes straight to the dead letters, without any callback.
Handle(request, attempt, canRetry) ==
    LET job == [stage |-> "send", attempt |-> attempt, canRetry |-> canRetry,
                code |-> NoError, action |-> "none"]
    IN  IF request.json THEN job
        ELSE Outcome([job EXCEPT !.code = "message_invalid_json"], "dead_letter")

\* What the provider may do with the request (accepted: the email is on its way) and what Send
\* reports of it.  A body that is not base64 never reaches the provider.  An email may be accepted
\* and still be reported as failed: the answer was lost, late or unreadable.
SendResults(request, senderCodes) ==
    IF ~request.body THEN {[accepted |-> FALSE, err |-> "message_invalid_body"]}
    ELSE {[accepted |-> TRUE, err |-> NoError]} \cup [accepted: BOOLEAN, err: senderCodes]

\* A temporary failure with attempts left is retried and no callback is called; a final failure
\* goes to the failure callback, or to the dead letters when there is none.
handleFailure(request, job, code) ==
    LET failed == [job EXCEPT !.code = code]
        retry == job.canRetry /\ Retryable(code)
    IN  CASE retry -> Outcome(failed, "retry")
          [] ~retry /\ request.failure -> [failed EXCEPT !.stage = "notify_failure"]
          [] OTHER -> Outcome(failed, "dead_letter")

\* deliver, after send returned err.
AfterSend(request, job, err) ==
    CASE err # NoError -> handleFailure(request, job, err)
      [] err = NoError /\ request.success -> [job EXCEPT !.stage = "notify_success"]
      [] OTHER -> Outcome(job, "done")

\* Mutant: a success callback that failed makes the delivery a failure.
AfterNotifySuccessFailed(job) == Outcome([job EXCEPT !.code = "unknown_error"], "done")

\* notifySuccess: a failing success callback is only logged.
AfterNotifySuccess(job) == Outcome(job, "done")

\* What Notify may come to: whether the target took the event, and whether Notify says so (ok).  An
\* event may be taken and still be reported as failed: the answer was lost, late or not 2xx.
NotifyResults == {res \in [taken: BOOLEAN, ok: BOOLEAN] : res.ok => res.taken}

\* Mutant: the failure is dead-lettered although the callback answered that it took it.
AfterNotifyFailureBoth(job, ok) == Outcome(job, "dead_letter")

\* A failure that no callback is known to have taken is dead-lettered.
AfterNotifyFailure(job, ok) == Outcome(job, IF ok THEN "done" ELSE "dead_letter")

-----------------------------------------------------------------------------
\* Everything a whole call of the handler may come to, for sources in which nothing can fall
\* between its stages: whether the provider accepted the email, what the callbacks took, and the
\* finished job.
CallResults(request, job, senderCodes) ==
    LET Result(res, told, finished) ==
          [accepted |-> res.accepted, err |-> res.err, told |-> told, job |-> finished]
        Results(res) ==
          LET next == AfterSend(request, job, res.err) IN
          CASE next.stage = "notify_success" ->
                 {Result(res, t, AfterNotifySuccess(next)) : t \in {{}, {"sent"}}}
            [] next.stage = "notify_failure" ->
                 {Result(res, IF n.taken THEN {"failed"} ELSE {}, AfterNotifyFailure(next, n.ok)) :
                     n \in NotifyResults}
            [] OTHER -> {Result(res, {}, next)}
    IN  IF job.stage = "outcome"
        THEN {[accepted |-> FALSE, err |-> job.code, told |-> {}, job |-> job]}
        ELSE UNION {Results(res) : res \in SendResults(request, senderCodes)}

=============================================================================
