--------------------------- MODULE MailerServiceProofs ---------------------------
(***************************************************************************)
(* What one call of the delivery service may come to: the facts about the  *)
(* operators of MailerService that the proofs about the sources rest on.   *)
(***************************************************************************)
EXTENDS MailerService, TLAPS

\* The codes that the service itself assigns are error codes.
LEMMA ServiceCodes ==
    {"message_invalid_json", "message_invalid_body"} \subseteq ErrorCodes
BY DEF ErrorCodes, MessageCodes

\* An outcome is a job at its last stage.
LEMMA OutcomeFacts ==
    ASSUME NEW j \in Jobs, NEW action \in Actions
    PROVE  /\ Outcome(j, action) \in Jobs
           /\ Outcome(j, action).stage = "outcome"
           /\ Outcome(j, action).action = action
BY DEF Outcome, Jobs, Stages

\* Handle returns a job that is about to send, or one that dead-letters an unreadable message.
LEMMA HandleFacts ==
    ASSUME NEW req \in Requests, NEW attempt \in Nat \ {0}, NEW canRetry \in BOOLEAN
    PROVE  LET j == Handle(req, attempt, canRetry) IN
           /\ j \in Jobs
           /\ \/ j.stage = "send" /\ j.action = "none"
              \/ j.stage = "outcome" /\ j.action = "dead_letter"
BY ServiceCodes DEF Handle, Outcome, Jobs, Stages, Actions, Requests

\* After a failed send the job retries, notifies the failure or dead-letters.
LEMMA HandleFailureFacts ==
    ASSUME NEW req \in Requests, NEW j \in Jobs, NEW code \in ErrorCodes, j.action = "none"
    PROVE  LET k == handleFailure(req, j, code) IN
           /\ k \in Jobs
           /\ \/ k.stage = "notify_failure" /\ k.action = "none"
              \/ k.stage = "outcome" /\ k.action \in {"retry", "dead_letter"}
<1> DEFINE failed == [j EXCEPT !.code = code]
           retry == j.canRetry /\ Retryable(code)
<1>1. failed \in Jobs /\ failed.action = "none"
  BY DEF Jobs
<1>2. CASE retry
  BY <1>1, <1>2 DEF handleFailure, Outcome, Jobs, Stages, Actions
<1>3. CASE ~retry /\ req.failure
  BY <1>1, <1>3 DEF handleFailure, Outcome, Jobs, Stages, Actions
<1>4. CASE ~retry /\ ~req.failure
  BY <1>1, <1>4 DEF handleFailure, Outcome, Jobs, Stages, Actions
<1> QED
  BY <1>2, <1>3, <1>4 DEF Requests

\* Only a send without an error leads to the success callback or to an outcome that is done.
LEMMA AfterSendFacts ==
    ASSUME NEW req \in Requests, NEW j \in Jobs, NEW err \in ErrorCodes \cup {NoError},
           j.action = "none"
    PROVE  LET k == AfterSend(req, j, err) IN
           /\ k \in Jobs
           /\ k.stage # "send"
           /\ k.stage # "outcome" => k.action = "none"
           /\ k.stage = "outcome" => k.action # "none"
           /\ k.stage = "notify_success" \/ k.action = "done" => err = NoError
<1>1. CASE err # NoError
  <2>1. AfterSend(req, j, err) = handleFailure(req, j, err)
    BY <1>1 DEF AfterSend
  <2> QED
    BY <1>1, <2>1, HandleFailureFacts
<1>2. CASE err = NoError /\ req.success
  BY <1>2 DEF AfterSend, Jobs, Stages
<1>3. CASE err = NoError /\ ~req.success
  BY <1>3 DEF AfterSend, Outcome, Jobs, Stages, Actions
<1> QED
  BY <1>1, <1>2, <1>3 DEF Requests

\* The absence of an error is not an error code.
LEMMA NoErrorIsNoCode == NoError \notin ErrorCodes
BY DEF NoError, ErrorCodes, MessageCodes, SMTPCodes, APICodes

\* What a job keeps through a send, and when it is retried or finishing after it.
LEMMA SendKeeps ==
    ASSUME NEW req \in Requests, NEW j \in Jobs, NEW err \in ErrorCodes \cup {NoError},
           j.action = "none"
    PROVE  LET k == AfterSend(req, j, err) IN
           /\ k.attempt = j.attempt
           /\ k.canRetry = j.canRetry
           /\ k.action = "retry" => k.canRetry
           /\ err = NoError => k.stage = "notify_success" \/ k.action = "done"
<1>1. NoError \notin ErrorCodes
  BY NoErrorIsNoCode
<1>2. CASE err # NoError
  <2>1. AfterSend(req, j, err) = handleFailure(req, j, err)
    BY <1>2 DEF AfterSend
  <2>2. CASE j.canRetry /\ Retryable(err)
    BY <1>2, <2>1, <2>2 DEF handleFailure, Outcome, Jobs, Stages, Actions
  <2>3. CASE ~(j.canRetry /\ Retryable(err)) /\ req.failure
    BY <1>2, <2>1, <2>3 DEF handleFailure, Outcome, Jobs, Stages, Actions
  <2>4. CASE ~(j.canRetry /\ Retryable(err)) /\ ~req.failure
    BY <1>2, <2>1, <2>4 DEF handleFailure, Outcome, Jobs, Stages, Actions
  <2> QED
    BY <1>2, <2>2, <2>3, <2>4 DEF Requests
<1>3. CASE err = NoError /\ req.success
  BY <1>3 DEF AfterSend, Jobs, Stages
<1>4. CASE err = NoError /\ ~req.success
  BY <1>4 DEF AfterSend, Outcome, Jobs, Stages, Actions
<1> QED
  BY <1>2, <1>3, <1>4 DEF Requests

\* What Send may be told is an error code or no error; only an accepted email is free of error.
LEMMA SendResultFacts ==
    ASSUME NEW req \in Requests, NEW senderCodes \in SUBSET ErrorCodes,
           NEW res \in SendResults(req, senderCodes)
    PROVE  /\ res.accepted \in BOOLEAN
           /\ res.err \in ErrorCodes \cup {NoError}
           /\ res.err = NoError => res.accepted
<1>1. CASE ~req.body
  <2>1. res = [accepted |-> FALSE, err |-> "message_invalid_body"]
    BY <1>1 DEF SendResults
  <2> QED
    BY <2>1, ServiceCodes, NoErrorIsNoCode
<1>2. CASE req.body
  <2>1. CASE res = [accepted |-> TRUE, err |-> NoError]
    BY <2>1
  <2>2. CASE res \in [accepted: BOOLEAN, err: senderCodes]
    BY <2>2, NoErrorIsNoCode
  <2> QED
    BY <1>2, <2>1, <2>2 DEF SendResults
<1> QED
  BY <1>1, <1>2 DEF Requests

\* The job in which a call of Handle starts goes on to send, unless the message is not JSON.
LEMMA JobFacts ==
    ASSUME NEW req \in Requests, NEW attempt \in Nat \ {0}, NEW canRetry \in BOOLEAN
    PROVE  LET j == Handle(req, attempt, canRetry) IN
           /\ j.attempt = attempt
           /\ j.canRetry = canRetry
BY DEF Handle, Outcome

\* What a whole call may come to: it ends with an action; it is done only when the email was
\* accepted or its failure was; an email that was accepted beyond doubt is done; the success
\* callback hears only of accepted emails.
LEMMA CallFacts ==
    ASSUME NEW req \in Requests, NEW attempt \in Nat \ {0}, NEW canRetry \in BOOLEAN,
           NEW senderCodes \in SUBSET ErrorCodes,
           NEW res \in CallResults(req, Handle(req, attempt, canRetry), senderCodes)
    PROVE  /\ res.accepted \in BOOLEAN
           /\ res.told \in SUBSET {"sent", "failed"}
           /\ res.job.action \in {"done", "retry", "dead_letter"}
           /\ res.job.action = "done" => res.accepted \/ "failed" \in res.told
           /\ res.accepted /\ res.err = NoError => res.job.action = "done"
           /\ res.job.action = "retry" => canRetry
<1> DEFINE j == Handle(req, attempt, canRetry)
<1>1. /\ j \in Jobs /\ j.canRetry = canRetry
      /\ \/ j.stage = "send" /\ j.action = "none"
         \/ j.stage = "outcome" /\ j.action = "dead_letter"
  BY HandleFacts, JobFacts
<1> HIDE DEF j
<1>2. CASE j.stage = "outcome"
  <2>1. res = [accepted |-> FALSE, err |-> j.code, told |-> {}, job |-> j]
    BY <1>2 DEF CallResults, j
  <2> QED
    BY <1>1, <1>2, <2>1
<1>3. CASE j.stage # "outcome"
  <2>1. PICK sr \in SendResults(req, senderCodes) :
          LET next == AfterSend(req, j, sr.err) IN
          res \in (CASE next.stage = "notify_success" ->
                 {[accepted |-> sr.accepted, err |-> sr.err, told |-> t,
                   job |-> AfterNotifySuccess(next)] : t \in {{}, {"sent"}}}
            [] next.stage = "notify_failure" ->
                 {[accepted |-> sr.accepted, err |-> sr.err,
                   told |-> IF n.taken THEN {"failed"} ELSE {},
                   job |-> AfterNotifyFailure(next, n.ok)] : n \in NotifyResults}
            [] OTHER -> {[accepted |-> sr.accepted, err |-> sr.err, told |-> {}, job |-> next]})
    BY <1>3 DEF CallResults, j
  <2> DEFINE next == AfterSend(req, j, sr.err)
  <2>2. /\ sr.accepted \in BOOLEAN
        /\ sr.err \in ErrorCodes \cup {NoError}
        /\ sr.err = NoError => sr.accepted
    BY SendResultFacts
  <2>3. /\ next \in Jobs
        /\ next.stage # "send"
        /\ next.stage # "outcome" => next.action = "none"
        /\ next.stage = "outcome" => next.action # "none"
        /\ next.stage = "notify_success" \/ next.action = "done" => sr.err = NoError
        /\ sr.err = NoError => next.stage = "notify_success" \/ next.action = "done"
        /\ next.action = "retry" => canRetry
    BY <1>1, <1>3, <2>2, AfterSendFacts, SendKeeps
  <2> HIDE DEF next
  <2>4. CASE next.stage = "notify_success"
    <3>1. PICK t \in {{}, {"sent"}} :
            res = [accepted |-> sr.accepted, err |-> sr.err, told |-> t,
                   job |-> AfterNotifySuccess(next)]
      BY <2>1, <2>4 DEF next
    <3>2. AfterNotifySuccess(next).action = "done"
      BY <2>3, OutcomeFacts DEF AfterNotifySuccess, Actions
    <3> QED
      BY <2>2, <2>3, <2>4, <3>1, <3>2
  <2>5. CASE next.stage = "notify_failure"
    <3>1. PICK n \in NotifyResults :
            res = [accepted |-> sr.accepted, err |-> sr.err,
                   told |-> IF n.taken THEN {"failed"} ELSE {},
                   job |-> AfterNotifyFailure(next, n.ok)]
      BY <2>1, <2>5 DEF next
    <3>2. AfterNotifyFailure(next, n.ok).action = IF n.ok THEN "done" ELSE "dead_letter"
      BY <2>3, OutcomeFacts DEF AfterNotifyFailure, Actions
    <3>3. n.ok => n.taken
      BY DEF NotifyResults
    <3> QED
      BY <2>2, <2>3, <2>5, <3>1, <3>2, <3>3
  <2>6. CASE next.stage = "outcome"
    <3>1. res = [accepted |-> sr.accepted, err |-> sr.err, told |-> {}, job |-> next]
      BY <2>1, <2>6 DEF next
    <3> QED
      BY <2>2, <2>3, <2>6, <3>1 DEF Jobs, Actions
  <2> QED
    BY <2>3, <2>4, <2>5, <2>6 DEF Jobs, Stages
<1> QED
  BY <1>2, <1>3

=============================================================================
