------------------------------ MODULE HTTPSource ------------------------------
(***************************************************************************)
(* The synchronous HTTP API (internal/adapter/httpapi) and the client      *)
(* library that calls it (client/http.go).                                 *)
(*                                                                         *)
(* A producer calls HTTPSender.Deliver and waits for the answer, no longer *)
(* than its timeout; when a call did not end well it may call again with   *)
(* the same email.  The handler of a call knows nothing of the timeout: it *)
(* goes on delivering, next to the handler of the next call.               *)
(***************************************************************************)
EXTENDS MailerService, FiniteSets

CONSTANTS
    Producers,
    Kinds,          \* requests the producers make
    SenderCodes,    \* error codes the sender may report
    MaxCalls,       \* calls a producer makes for its email
    MaxCrashes      \* bound on the crashes of the service

\* What the endpoint tells apart before the request is delivered, and the request itself.
KindRecords == [authorized: BOOLEAN, tooLarge: BOOLEAN, request: Requests]

ASSUME HTTPAssumption ==
    /\ Kinds \subseteq KindRecords
    /\ SenderCodes \subseteq ErrorCodes
    /\ MaxCalls \in Nat \ {0}
    /\ MaxCrashes \in Nat

VARIABLES
    kind,       \* what each producer posts
    client,     \* each call, as its producer sees it
    handler,    \* each call, as the service sees it
    status,     \* the HTTP status its producer got, 0 for none
    job,        \* the call of the delivery service
    sent,       \* how often the provider accepted the email of each producer
    told,       \* the callbacks that took an event of it
    silent,     \* producers with a call that was given up, or failed with the email accepted
    crashes     \* crashes so far

vars == << kind, client, status, handler, job, sent, told, silent, crashes >>

Calls == Producers \X (1..MaxCalls)

ClientStates == {"none", "waiting", "sent", "failed", "rejected", "gave_up"}

HandlerStates == {"none", "received", "delivering", "over"}

NoJob == [stage |-> "outcome", attempt |-> 1, canRetry |-> FALSE,
          code |-> NoError, action |-> "none"]

TypeOK ==
    /\ kind \in [Producers -> Kinds]
    /\ client \in [Calls -> ClientStates]
    /\ handler \in [Calls -> HandlerStates]
    /\ status \in [Calls -> {0, 200, 400, 401, 413, 422, 429, 502, 503}]
    /\ job \in [Calls -> Jobs]
    /\ sent \in [Producers -> Nat]
    /\ told \in [Producers -> SUBSET {"sent", "failed"}]
    /\ silent \subseteq Producers
    /\ crashes \in 0..MaxCrashes

RequestOf(c) == kind[c[1]].request

-----------------------------------------------------------------------------
\* Mutant: a request that is done with counts as sent.
SentDone(j) == j.action = "done"

\* The status of the event: Outcome.Sent.
Sent(j) == j.code = NoError

\* decodeResponse: an answer with an event is a delivery, or a DeliveryError.
decodeResponse(j) == IF Sent(j) THEN "sent" ELSE "failed"

\* The provider does not want this email.
isRejection(code) ==
    code \in {"api_invalid_receiver", "api_sender_not_allowed", "api_invalid_attachment",
              "api_invalid_request", "api_quota_exceeded", "smtp_sender_rejected",
              "smtp_receiver_rejected", "smtp_message_rejected"}

\* Mutant: a failure that the callback took is answered with 200.
statusForDone(j) ==
    CASE Sent(j) \/ j.action = "done" -> 200
      [] OTHER -> IF j.code \in MessageCodes THEN 400 ELSE IF isRejection(j.code) THEN 422 ELSE 502

\* Everything else - credentials, unexpected answers, temporary SMTP replies - is a bad gateway.
statusFor(j) ==
    CASE Sent(j) -> 200
      [] j.code \in MessageCodes -> 400
      [] isRejection(j.code) -> 422
      [] j.code = "api_rate_limited" -> 429
      [] j.code \in {"api_connection_failed", "api_provider_unavailable", "smtp_connection_failed"} -> 503
      [] OTHER -> 502

\* The status of a request that is refused before it is delivered.
refusal(k) == IF ~k.authorized THEN 401 ELSE IF k.tooLarge THEN 413 ELSE 400

\* The producer of c gets an answer, if it still waits for it.
AnswerTo(c, result, code) ==
    /\ client' = [client EXCEPT ![c] = IF @ = "waiting" THEN result ELSE @]
    /\ status' = [status EXCEPT ![c] = IF client[c] = "waiting" THEN code ELSE @]

-----------------------------------------------------------------------------
\* HTTPSender.Deliver posts an email; again only when the last call brought no success.
Post(c) ==
    /\ client[c] = "none"
    /\ c[2] > 1 => client[<< c[1], c[2] - 1 >>] \in {"failed", "gave_up"}
    /\ client' = [client EXCEPT ![c] = "waiting"]
    /\ handler' = [handler EXCEPT ![c] = "received"]
    /\ UNCHANGED << kind, status, job, sent, told, silent, crashes >>

\* The timeout of the client passes.
GiveUp(c) ==
    /\ client[c] = "waiting"
    /\ client' = [client EXCEPT ![c] = "gave_up"]
    /\ silent' = silent \cup {c[1]}
    /\ UNCHANGED << kind, status, handler, job, sent, told, crashes >>

\* requireBearer answers 401; ServeHTTP 413 or 400.  None of them is an event.
Reject(c) ==
    LET k == kind[c[1]] IN
    /\ handler[c] = "received"
    /\ ~k.authorized \/ k.tooLarge \/ ~k.request.json
    /\ AnswerTo(c, "rejected", refusal(k))
    /\ handler' = [handler EXCEPT ![c] = "over"]
    /\ UNCHANGED << kind, job, sent, told, silent, crashes >>

\* ServeHTTP calls DeliverOnce: the first attempt, and no other.
DeliverOnce(c) ==
    LET k == kind[c[1]] IN
    /\ handler[c] = "received"
    /\ k.authorized /\ ~k.tooLarge /\ k.request.json
    /\ handler' = [handler EXCEPT ![c] = "delivering"]
    /\ job' = [job EXCEPT ![c] = Handle(k.request, 1, FALSE)]
    /\ UNCHANGED << kind, client, status, sent, told, silent, crashes >>

Send(c) ==
    /\ handler[c] = "delivering"
    /\ job[c].stage = "send"
    /\ \E res \in SendResults(RequestOf(c), SenderCodes) :
          /\ job' = [job EXCEPT ![c] = AfterSend(RequestOf(c), job[c], res.err)]
          /\ sent' = [sent EXCEPT ![c[1]] = @ + (IF res.accepted THEN 1 ELSE 0)]
          /\ silent' = IF res.accepted /\ res.err # NoError THEN silent \cup {c[1]} ELSE silent
    /\ UNCHANGED << kind, client, status, handler, told, crashes >>

NotifySuccess(c) ==
    /\ handler[c] = "delivering"
    /\ job[c].stage = "notify_success"
    /\ \E taken \in BOOLEAN :
          told' = [told EXCEPT ![c[1]] = @ \cup (IF taken THEN {"sent"} ELSE {})]
    /\ job' = [job EXCEPT ![c] = AfterNotifySuccess(job[c])]
    /\ UNCHANGED << kind, client, status, handler, sent, silent, crashes >>

NotifyFailure(c) ==
    /\ handler[c] = "delivering"
    /\ job[c].stage = "notify_failure"
    /\ \E res \in NotifyResults :
          /\ told' = [told EXCEPT ![c[1]] = @ \cup (IF res.taken THEN {"failed"} ELSE {})]
          /\ job' = [job EXCEPT ![c] = AfterNotifyFailure(job[c], res.ok)]
    /\ UNCHANGED << kind, client, status, handler, sent, silent, crashes >>

\* The event is written, with the status of the outcome; the action is not looked at.
Answer(c) ==
    /\ handler[c] = "delivering"
    /\ job[c].stage = "outcome"
    /\ AnswerTo(c, decodeResponse(job[c]), statusFor(job[c]))
    /\ handler' = [handler EXCEPT ![c] = "over"]
    /\ UNCHANGED << kind, job, sent, told, silent, crashes >>

\* The process dies with all its handlers; the connections of those who wait are reset.
Crash ==
    /\ crashes < MaxCrashes
    /\ crashes' = crashes + 1
    /\ handler' = [c \in Calls |-> IF handler[c] = "none" THEN "none" ELSE "over"]
    /\ job' = [c \in Calls |-> IF handler[c] = "over" THEN job[c] ELSE NoJob]
    /\ client' = [c \in Calls |-> IF client[c] = "waiting" THEN "gave_up" ELSE client[c]]
    /\ silent' = silent \cup {c[1] : c \in {d \in Calls : client[d] = "waiting"}}
    /\ UNCHANGED << kind, status, sent, told >>

-----------------------------------------------------------------------------
Init ==
    /\ kind \in [Producers -> Kinds]
    /\ client = [c \in Calls |-> "none"]
    /\ handler = [c \in Calls |-> "none"]
    /\ status = [c \in Calls |-> 0]
    /\ job = [c \in Calls |-> NoJob]
    /\ sent = [p \in Producers |-> 0]
    /\ told = [p \in Producers |-> {}]
    /\ silent = {}
    /\ crashes = 0

Serve(c) ==
    \/ Reject(c) \/ DeliverOnce(c) \/ Send(c) \/ NotifySuccess(c) \/ NotifyFailure(c) \/ Answer(c)

Next ==
    \/ \E c \in Calls : Post(c) \/ GiveUp(c) \/ Serve(c)
    \/ Crash

Spec == Init /\ [][Next]_vars

-----------------------------------------------------------------------------
LastCall(c) == \A n \in c[2] + 1 .. MaxCalls : client[<< c[1], n >>] = "none"

(***************************************************************************)
(* What the client library returns is what happened: success only if the   *)
(* provider accepted the email in some call of the producer, a             *)
(* DeliveryError or a rejection, of its last call, only if it did not -    *)
(* unless the provider accepted it without the sender knowing, or in a     *)
(* call that was given up (client/http.go:66-102, handler.go:33-47).       *)
(***************************************************************************)
AnswerIsTrue ==
    \A c \in Calls :
        /\ client[c] = "sent" => sent[c[1]] > 0
        /\ client[c] \in {"failed", "rejected"} /\ c[1] \notin silent /\ LastCall(c) => sent[c[1]] = 0

(***************************************************************************)
(* An email that a producer posts again after a call that did not succeed  *)
(* is sent twice only if an earlier call was given up without an answer,   *)
(* or the provider accepted it without the sender knowing - although the   *)
(* handlers of both calls may run at the same time.                        *)
(***************************************************************************)
SentTwiceOnlyAfterSilence ==
    \A p \in Producers : p \notin silent => sent[p] <= 1

(***************************************************************************)
(* What a producer may conclude from the status (README.md:153-162): 200   *)
(* is exactly a success; 429 and 503 are temporary failures; 422 is not;   *)
(* and a request that was answered with 400, 401 or 413, however often it  *)
(* was posted and whatever happened to the other calls, reached neither    *)
(* the provider nor, when it was not delivered at all, a callback.  Of the *)
(* failures none is retried (README.md:50): a failed request is over, its  *)
(* failure callback took it, or it answers for itself.                     *)
(***************************************************************************)
StatusIsTrue ==
    \A c \in Calls :
        /\ status[c] = 200 <=> client[c] = "sent"
        /\ status[c] \in {429, 503} => Retryable(job[c].code)
        /\ status[c] = 422 => ~Retryable(job[c].code)
        /\ status[c] \in {400, 401, 413} => sent[c[1]] = 0
        /\ client[c] = "rejected" => told[c[1]] = {}
        /\ job[c].stage = "outcome" /\ job[c].code # NoError =>
              /\ job[c].action # "retry"
              /\ job[c].action = "done" => "failed" \in told[c[1]]

=============================================================================
