------------------------ MODULE ClientTransportProofs ------------------------
(***************************************************************************)
(* What an application may rely on, whichever transport it uses, proved    *)
(* for any number of producers, callers, calls, connections and faults.    *)
(***************************************************************************)
EXTENDS ClientTransport, MailerServiceProofs

USE HTTPAssumption, ClientAssumption

-----------------------------------------------------------------------------
(***************************************************************************)
(* The HTTP transport.                                                     *)
(***************************************************************************)

\* The endpoint delivers such a request.
Deliverable(k) == k.authorized /\ ~k.tooLarge /\ k.request.json

\* The delivery that c asked for has succeeded, or is about to say so.
Succeeds(c) ==
    \/ client[c] = "sent"
    \/ handler[c] = "delivering" /\ job[c].stage # "send" /\ job[c].code = NoError

\* A producer posts again only after a call that did not succeed.
OrderOK ==
    \A c, d \in Calls :
        c[1] = d[1] /\ c[2] < d[2] /\ client[d] # "none" => client[c] \in {"failed", "gave_up"}

\* The two ends of a call agree, unless the producer gave up.
EndsOK ==
    \A c \in Calls :
        /\ client[c] = "none" <=> handler[c] = "none"
        /\ client[c] \in {"sent", "failed", "rejected"} => handler[c] = "over"
        /\ handler[c] \in {"received", "delivering"} => client[c] = "waiting" \/ c[1] \in silent
        /\ client[c] = "gave_up" => c[1] \in silent
        /\ client[c] \in {"none", "waiting", "gave_up"} => status[c] = 0

\* The jobs of the handlers: one attempt, without a retry.
JobsOK ==
    \A c \in Calls :
        /\ handler[c] \in {"none", "received"} => job[c] = NoJob
        /\ handler[c] = "delivering" =>
              /\ Deliverable(kind[c[1]])
              /\ ~job[c].canRetry
              /\ job[c].stage # "outcome" => job[c].action = "none"
              /\ job[c].stage \in {"send", "notify_success"} => job[c].code = NoError
              /\ job[c].stage = "notify_failure" => job[c].code # NoError
        /\ job[c].stage = "outcome" /\ job[c].code # NoError =>
              /\ job[c].action \in {"done", "dead_letter"}
              /\ job[c].action = "done" => "failed" \in told[c[1]]

\* An email is sent by a call that succeeds, once unless some call was given up.
SentOK ==
    /\ \A c \in Calls : Succeeds(c) => sent[c[1]] > 0
    /\ \A p \in Producers : p \notin silent =>
          sent[p] = 0 \/ (sent[p] = 1 /\ \E c \in Calls : c[1] = p /\ Succeeds(c))

\* A status says what the job came to, or that there was none.
StatusOK ==
    \A c \in Calls :
        /\ status[c] = 200 <=> client[c] = "sent"
        /\ client[c] = "rejected" => ~Deliverable(kind[c[1]])
        /\ status[c] \in {401, 413} => client[c] = "rejected"
        /\ status[c] = 400 => client[c] = "rejected" \/ job[c].code \in MessageCodes
        /\ status[c] \in {429, 503} => Retryable(job[c].code)
        /\ status[c] = 422 => ~Retryable(job[c].code)

\* A request that cannot be delivered, or has no body, leaves nothing behind.
NothingOK ==
    \A p \in Producers :
        /\ ~Deliverable(kind[p]) => sent[p] = 0 /\ told[p] = {}
        /\ ~kind[p].request.body => sent[p] = 0

HTTPInv == TypeOK /\ OrderOK /\ EndsOK /\ JobsOK /\ SentOK /\ StatusOK /\ NothingOK

\* A call is a producer with a number.
LEMMA CallsFacts ==
    /\ \A c \in Calls : c[1] \in Producers /\ c[2] \in 1..MaxCalls /\ c = << c[1], c[2] >>
    /\ \A c, d \in Calls : c[1] = d[1] /\ c # d => c[2] < d[2] \/ d[2] < c[2]
BY DEF Calls

LEMMA NoJobFacts ==
    /\ NoJob \in Jobs
    /\ NoJob.stage = "outcome" /\ NoJob.code = NoError
BY NoErrorIsNoCode DEF NoJob, Jobs, Stages, Actions

LEMMA InitHTTP == Init => HTTPInv
<1> SUFFICES ASSUME Init PROVE HTTPInv
  OBVIOUS
<1>1. TypeOK
  BY NoJobFacts DEF Init, TypeOK, ClientStates, HandlerStates
<1>2. OrderOK /\ EndsOK /\ JobsOK /\ StatusOK
  BY NoJobFacts DEF Init, OrderOK, EndsOK, JobsOK, StatusOK
<1>3. SentOK /\ NothingOK
  BY CallsFacts DEF Init, SentOK, NothingOK, Succeeds
<1> QED
  BY <1>1, <1>2, <1>3 DEF HTTPInv

\* The producers of calls that overlap: in a call that succeeds or waits nobody else is ahead.
LEMMA OnlyOneOpen ==
    ASSUME HTTPInv, NEW c \in Calls, NEW d \in Calls, c[1] = d[1], c[1] \notin silent,
           client[c] \in {"waiting", "sent", "rejected"}, client[d] \in {"waiting", "sent", "rejected"}
    PROVE  c = d
BY CallsFacts DEF HTTPInv, OrderOK

LEMMA KeepsPost ==
    ASSUME HTTPInv, NEW c \in Calls, Post(c) PROVE HTTPInv'
<1> USE CallsFacts, NoJobFacts DEF HTTPInv
<1>1. TypeOK'
  BY DEF Post, TypeOK, ClientStates, HandlerStates, AnswerTo
<1>2. OrderOK'
  <2> SUFFICES ASSUME NEW d \in Calls, NEW e \in Calls, d[1] = e[1], d[2] < e[2],
                      client'[e] # "none"
               PROVE  client'[d] \in {"failed", "gave_up"}
    BY DEF OrderOK
  <2>1. client' = [client EXCEPT ![c] = "waiting"] /\ client[c] = "none"
    BY DEF Post
  <2>2. CASE e # c
    BY <2>1, <2>2 DEF OrderOK, TypeOK
  <2>3. CASE e = c
    <3> DEFINE b == << c[1], c[2] - 1 >>
    <3>1. b \in Calls /\ client[b] \in {"failed", "gave_up"} /\ d[2] < c[2] /\ d # c
      BY <2>3 DEF Post, Calls
    <3>2. d = b \/ (d[1] = b[1] /\ d[2] < b[2])
      BY <2>3, <3>1
    <3> HIDE DEF b
    <3> QED
      BY <2>1, <3>1, <3>2 DEF OrderOK, TypeOK
  <2> QED
    BY <2>2, <2>3
<1>3. EndsOK'
  BY DEF Post, AnswerTo, TypeOK, EndsOK, StatusOK
<1>4. JobsOK'
  BY DEF Post, AnswerTo, TypeOK, EndsOK, JobsOK
<1>5. SentOK'
  BY DEF Post, AnswerTo, TypeOK, EndsOK, SentOK, Succeeds
<1>6. StatusOK'
  BY DEF Post, AnswerTo, TypeOK, EndsOK, StatusOK
<1>7. NothingOK'
  BY DEF Post, AnswerTo, TypeOK, NothingOK
<1> QED
  BY <1>1, <1>2, <1>3, <1>4, <1>5, <1>6, <1>7

LEMMA KeepsGiveUp ==
    ASSUME HTTPInv, NEW c \in Calls, GiveUp(c) PROVE HTTPInv'
<1> USE CallsFacts, NoJobFacts DEF HTTPInv
<1>1. TypeOK'
  BY DEF GiveUp, TypeOK, ClientStates, HandlerStates, AnswerTo
<1>2. OrderOK'
  BY DEF GiveUp, AnswerTo, TypeOK, OrderOK, EndsOK
<1>3. EndsOK'
  BY DEF GiveUp, AnswerTo, TypeOK, EndsOK, StatusOK
<1>4. JobsOK'
  BY DEF GiveUp, AnswerTo, TypeOK, EndsOK, JobsOK
<1>5. SentOK'
  BY DEF GiveUp, AnswerTo, TypeOK, EndsOK, SentOK, Succeeds
<1>6. StatusOK'
  BY DEF GiveUp, AnswerTo, TypeOK, EndsOK, StatusOK
<1>7. NothingOK'
  BY DEF GiveUp, AnswerTo, TypeOK, NothingOK
<1> QED
  BY <1>1, <1>2, <1>3, <1>4, <1>5, <1>6, <1>7

LEMMA KeepsReject ==
    ASSUME HTTPInv, NEW c \in Calls, Reject(c) PROVE HTTPInv'
<1> USE CallsFacts, NoJobFacts DEF HTTPInv
<1>1. /\ handler[c] = "received" /\ ~Deliverable(kind[c[1]])
      /\ \E code \in {400, 401, 413} : AnswerTo(c, "rejected", code)
      /\ handler' = [handler EXCEPT ![c] = "over"]
      /\ UNCHANGED << kind, job, sent, told, silent, crashes >>
  BY DEF Reject, Deliverable, refusal
<1>2. TypeOK'
  BY <1>1 DEF TypeOK, ClientStates, HandlerStates, AnswerTo
<1>3. OrderOK'
  BY <1>1 DEF AnswerTo, TypeOK, OrderOK, EndsOK
<1>4. EndsOK'
  BY <1>1 DEF AnswerTo, TypeOK, EndsOK, StatusOK
<1>5. JobsOK'
  BY <1>1 DEF AnswerTo, TypeOK, EndsOK, JobsOK
<1>6. SentOK'
  BY <1>1 DEF AnswerTo, TypeOK, EndsOK, SentOK, Succeeds
<1>7. StatusOK'
  BY <1>1 DEF AnswerTo, TypeOK, EndsOK, StatusOK
<1>8. NothingOK'
  BY <1>1 DEF AnswerTo, TypeOK, NothingOK
<1> QED
  BY <1>2, <1>3, <1>4, <1>5, <1>6, <1>7, <1>8

LEMMA KeepsDeliverOnce ==
    ASSUME HTTPInv, NEW c \in Calls, DeliverOnce(c) PROVE HTTPInv'
<1> USE CallsFacts, NoJobFacts DEF HTTPInv
<1> DEFINE j == Handle(RequestOf(c), 1, FALSE)
<1>1. /\ handler[c] = "received" /\ Deliverable(kind[c[1]]) /\ job[c] = NoJob
      /\ handler' = [handler EXCEPT ![c] = "delivering"] /\ job' = [job EXCEPT ![c] = j]
      /\ UNCHANGED << kind, client, status, sent, told, silent, crashes >>
  BY DEF DeliverOnce, Deliverable, RequestOf, JobsOK
<1>2. /\ j \in Jobs /\ ~j.canRetry /\ j.stage = "send" /\ j.action = "none" /\ j.code = NoError
  BY <1>1 DEF Handle, RequestOf, Deliverable, Jobs, Stages, Actions
<1> HIDE DEF j
<1>5. TypeOK'
  BY <1>1, <1>2 DEF TypeOK, ClientStates, HandlerStates, AnswerTo
<1>6. OrderOK'
  BY <1>1, <1>2 DEF AnswerTo, TypeOK, OrderOK, EndsOK
<1>7. EndsOK'
  BY <1>1, <1>2 DEF AnswerTo, TypeOK, EndsOK, StatusOK
<1>8. JobsOK'
  BY <1>1, <1>2 DEF AnswerTo, TypeOK, EndsOK, JobsOK
<1>9. SentOK'
  BY <1>1, <1>2 DEF AnswerTo, TypeOK, EndsOK, SentOK, Succeeds
<1>10. StatusOK'
  BY <1>1, <1>2 DEF AnswerTo, TypeOK, EndsOK, StatusOK
<1>11. NothingOK'
  BY <1>1, <1>2 DEF AnswerTo, TypeOK, NothingOK
<1> QED
  BY <1>5, <1>6, <1>7, <1>8, <1>9, <1>10, <1>11

LEMMA KeepsNotifySuccess ==
    ASSUME HTTPInv, NEW c \in Calls, NotifySuccess(c) PROVE HTTPInv'
<1> USE CallsFacts, NoJobFacts DEF HTTPInv
<1> DEFINE j == AfterNotifySuccess(job[c])
<1>1. PICK new \in SUBSET {"sent"} : told' = [told EXCEPT ![c[1]] = told[c[1]] \cup new]
  BY DEF NotifySuccess
<1>2. /\ handler[c] = "delivering" /\ job[c].stage = "notify_success" /\ job[c] \in Jobs
      /\ job' = [job EXCEPT ![c] = j] /\ Deliverable(kind[c[1]])
      /\ job[c].code = NoError /\ ~job[c].canRetry
      /\ UNCHANGED << kind, client, status, handler, sent, silent, crashes >>
  BY DEF NotifySuccess, JobsOK, TypeOK
<1>3. /\ j \in Jobs /\ ~j.canRetry /\ j.stage = "outcome" /\ j.code = NoError
  BY <1>2 DEF AfterNotifySuccess, Outcome, Jobs, Stages, Actions
<1> HIDE DEF j
<1>6. TypeOK'
  BY <1>1, <1>2, <1>3 DEF TypeOK, ClientStates, HandlerStates, AnswerTo
<1>7. OrderOK'
  BY <1>1, <1>2, <1>3 DEF AnswerTo, TypeOK, OrderOK, EndsOK
<1>8. EndsOK'
  BY <1>1, <1>2, <1>3 DEF AnswerTo, TypeOK, EndsOK, StatusOK
<1>9. JobsOK'
  BY <1>1, <1>2, <1>3 DEF AnswerTo, TypeOK, EndsOK, JobsOK
<1>10. SentOK'
  BY <1>1, <1>2, <1>3 DEF AnswerTo, TypeOK, EndsOK, SentOK, Succeeds
<1>11. StatusOK'
  BY <1>1, <1>2, <1>3 DEF AnswerTo, TypeOK, EndsOK, StatusOK
<1>12. NothingOK'
  BY <1>1, <1>2, <1>3 DEF AnswerTo, TypeOK, NothingOK
<1> QED
  BY <1>6, <1>7, <1>8, <1>9, <1>10, <1>11, <1>12

LEMMA KeepsNotifyFailure ==
    ASSUME HTTPInv, NEW c \in Calls, NotifyFailure(c) PROVE HTTPInv'
<1> USE CallsFacts, NoJobFacts DEF HTTPInv
<1>1. PICK res \in NotifyResults :
         /\ told' = [told EXCEPT ![c[1]] = told[c[1]] \cup (IF res.taken THEN {"failed"} ELSE {})]
         /\ job' = [job EXCEPT ![c] = AfterNotifyFailure(job[c], res.ok)]
  BY DEF NotifyFailure
<1> DEFINE j == AfterNotifyFailure(job[c], res.ok)
           new == IF res.taken THEN {"failed"} ELSE {}
<1>2. /\ handler[c] = "delivering" /\ job[c].stage = "notify_failure" /\ job[c] \in Jobs
      /\ job' = [job EXCEPT ![c] = j] /\ told' = [told EXCEPT ![c[1]] = told[c[1]] \cup new]
      /\ job[c].code # NoError /\ ~job[c].canRetry /\ Deliverable(kind[c[1]])
      /\ UNCHANGED << kind, client, status, handler, sent, silent, crashes >>
  BY <1>1 DEF NotifyFailure, JobsOK, TypeOK
<1>3. /\ j \in Jobs /\ ~j.canRetry /\ j.stage = "outcome" /\ j.code = job[c].code
      /\ j.action \in {"done", "dead_letter"} /\ new \in SUBSET {"failed"}
      /\ j.action = "done" => "failed" \in new
  BY <1>2 DEF AfterNotifyFailure, Outcome, Jobs, Stages, Actions, NotifyResults
<1> HIDE DEF j, new
<1>6. TypeOK'
  BY <1>2, <1>3 DEF TypeOK, ClientStates, HandlerStates, AnswerTo
<1>7. OrderOK'
  BY <1>2, <1>3 DEF AnswerTo, TypeOK, OrderOK, EndsOK
<1>8. EndsOK'
  BY <1>2, <1>3 DEF AnswerTo, TypeOK, EndsOK, StatusOK
<1>9. JobsOK'
  BY <1>2, <1>3 DEF AnswerTo, TypeOK, EndsOK, JobsOK
<1>10. SentOK'
  BY <1>2, <1>3 DEF AnswerTo, TypeOK, EndsOK, SentOK, Succeeds
<1>11. StatusOK'
  BY <1>2, <1>3 DEF AnswerTo, TypeOK, EndsOK, StatusOK
<1>12. NothingOK'
  BY <1>2, <1>3 DEF AnswerTo, TypeOK, NothingOK
<1> QED
  BY <1>6, <1>7, <1>8, <1>9, <1>10, <1>11, <1>12

LEMMA KeepsAnswer ==
    ASSUME HTTPInv, NEW c \in Calls, Answer(c) PROVE HTTPInv'
<1> USE CallsFacts, NoJobFacts DEF HTTPInv
<1> DEFINE code == statusFor(job[c])
           how == decodeResponse(job[c])
<1>1. /\ handler[c] = "delivering" /\ job[c].stage = "outcome" /\ job[c] \in Jobs
      /\ AnswerTo(c, how, code) /\ handler' = [handler EXCEPT ![c] = "over"]
      /\ UNCHANGED << kind, job, sent, told, silent, crashes >>
  BY DEF Answer, TypeOK
<1>2. /\ how = IF job[c].code = NoError THEN "sent" ELSE "failed"
      /\ code \in {200, 400, 422, 429, 502, 503}
      /\ code = 200 <=> job[c].code = NoError
      /\ code = 400 => job[c].code \in MessageCodes
      /\ code \in {429, 503} => Retryable(job[c].code)
      /\ code = 422 => ~Retryable(job[c].code)
  BY <1>1, NoErrorIsNoCode
     DEF decodeResponse, statusFor, Sent, isRejection, Retryable, MessageCodes, ErrorCodes, NoError
<1> HIDE DEF code, how
<1>5. TypeOK'
  BY <1>1, <1>2 DEF TypeOK, ClientStates, HandlerStates, AnswerTo
<1>6. OrderOK'
  BY <1>1, <1>2 DEF AnswerTo, TypeOK, OrderOK, EndsOK
<1>7. EndsOK'
  BY <1>1, <1>2 DEF AnswerTo, TypeOK, EndsOK, StatusOK
<1>8. JobsOK'
  BY <1>1, <1>2 DEF AnswerTo, TypeOK, EndsOK, JobsOK
<1>9. SentOK'
  BY <1>1, <1>2 DEF AnswerTo, TypeOK, EndsOK, SentOK, Succeeds
<1>10. StatusOK'
  BY <1>1, <1>2 DEF AnswerTo, TypeOK, EndsOK, StatusOK
<1>11. NothingOK'
  BY <1>1, <1>2 DEF AnswerTo, TypeOK, NothingOK
<1> QED
  BY <1>5, <1>6, <1>7, <1>8, <1>9, <1>10, <1>11

LEMMA KeepsCrash ==
    ASSUME HTTPInv, Crash PROVE HTTPInv'
<1> USE CallsFacts, NoJobFacts DEF HTTPInv
<1>1. TypeOK'
  BY DEF Crash, TypeOK, ClientStates, HandlerStates, AnswerTo
<1>2. OrderOK'
  BY DEF Crash, AnswerTo, TypeOK, OrderOK, EndsOK
<1>3. EndsOK'
  BY DEF Crash, AnswerTo, TypeOK, EndsOK, StatusOK
<1>4. JobsOK'
  BY DEF Crash, AnswerTo, TypeOK, EndsOK, JobsOK
<1>5. SentOK'
  BY DEF Crash, AnswerTo, TypeOK, EndsOK, SentOK, Succeeds
<1>6. StatusOK'
  <2> SUFFICES ASSUME NEW c \in Calls, status[c] # 0
               PROVE  handler[c] = "over"
    BY DEF Crash, TypeOK, StatusOK, EndsOK
  <2> QED
    BY DEF TypeOK, EndsOK, ClientStates
<1>7. NothingOK'
  BY DEF Crash, AnswerTo, TypeOK, NothingOK
<1> QED
  BY <1>1, <1>2, <1>3, <1>4, <1>5, <1>6, <1>7

\* What the service makes of the result of a send without a retry.
LEMMA AfterOnlySend ==
    ASSUME NEW req \in Requests, NEW j \in Jobs, j.action = "none", j.code = NoError, ~j.canRetry,
           NEW err \in ErrorCodes \cup {NoError}
    PROVE  LET k == AfterSend(req, j, err) IN
           /\ k \in Jobs /\ ~k.canRetry /\ k.code = err
           /\ \/ k.stage = "notify_success" /\ k.action = "none" /\ err = NoError
              \/ k.stage = "notify_failure" /\ k.action = "none" /\ err # NoError
              \/ k.stage = "outcome" /\ k.action = "done" /\ err = NoError
              \/ k.stage = "outcome" /\ k.action = "dead_letter" /\ err # NoError
<1>1. CASE err # NoError /\ req.failure
  BY <1>1 DEF AfterSend, handleFailure, Jobs, Stages, Actions
<1>2. CASE err # NoError /\ ~req.failure
  <2>1. AfterSend(req, j, err) = Outcome([j EXCEPT !.code = err], "dead_letter")
    BY <1>2 DEF AfterSend, handleFailure, Requests
  <2> QED
    BY <1>2, <2>1 DEF Outcome, Jobs, Stages, Actions
<1>3. CASE err = NoError /\ req.success
  BY <1>3 DEF AfterSend, Jobs, Stages
<1>4. CASE err = NoError /\ ~req.success
  BY <1>4 DEF AfterSend, Outcome, Jobs, Stages, Actions
<1> QED
  BY <1>1, <1>2, <1>3, <1>4

LEMMA KeepsSend ==
    ASSUME HTTPInv, NEW c \in Calls, Send(c) PROVE HTTPInv'
<1> USE CallsFacts DEF HTTPInv
<1> DEFINE p == c[1]
<1>1. PICK res \in SendResults(RequestOf(c), SenderCodes) :
         /\ job' = [job EXCEPT ![c] = AfterSend(RequestOf(c), job[c], res.err)]
         /\ sent' = [sent EXCEPT ![p] = sent[p] + (IF res.accepted THEN 1 ELSE 0)]
         /\ silent' = IF res.accepted /\ res.err # NoError THEN silent \cup {p} ELSE silent
  BY DEF Send
<1> DEFINE j == AfterSend(RequestOf(c), job[c], res.err)
<1>2. /\ handler[c] = "delivering" /\ job[c].stage = "send" /\ job[c] \in Jobs
      /\ Deliverable(kind[p]) /\ job[c].code = NoError /\ ~job[c].canRetry
      /\ job[c].action = "none" /\ p \in Producers
      /\ UNCHANGED << kind, client, status, handler, told, crashes >>
  BY DEF Send, JobsOK, TypeOK
<1>3. RequestOf(c) \in Requests /\ RequestOf(c) = kind[p].request
  BY <1>2 DEF RequestOf, TypeOK, KindRecords
<1>4. /\ res.accepted \in BOOLEAN /\ res.err \in ErrorCodes \cup {NoError}
      /\ res.err = NoError => res.accepted
  BY <1>3, SendResultFacts
<1>5. ~kind[p].request.body => res.accepted = FALSE
  BY <1>3 DEF SendResults
<1>6. /\ j \in Jobs /\ ~j.canRetry /\ j.code = res.err
      /\ \/ j.stage = "notify_success" /\ j.action = "none" /\ res.err = NoError
         \/ j.stage = "notify_failure" /\ j.action = "none" /\ res.err # NoError
         \/ j.stage = "outcome" /\ j.action = "done" /\ res.err = NoError
         \/ j.stage = "outcome" /\ j.action = "dead_letter" /\ res.err # NoError
  BY <1>2, <1>3, <1>4, AfterOnlySend
<1>7. job' = [job EXCEPT ![c] = j]
  BY <1>1
<1> HIDE DEF j
<1>8. TypeOK'
  BY <1>1, <1>2, <1>4, <1>6, <1>7 DEF TypeOK
<1>9. OrderOK' /\ EndsOK'
  BY <1>1, <1>2 DEF OrderOK, EndsOK
<1>10. JobsOK'
  BY <1>2, <1>6, <1>7 DEF TypeOK, JobsOK
<1>11. \A d \in Calls : d # c => (Succeeds(d))' = Succeeds(d)
  BY <1>2, <1>7 DEF Succeeds, TypeOK
<1>12. /\ ~Succeeds(c) /\ client[c] # "sent"
       /\ res.err = NoError => (Succeeds(c))'
       /\ (Succeeds(c))' => res.err = NoError
  BY <1>2, <1>6, <1>7 DEF Succeeds, TypeOK, EndsOK
<1>13. sent[p] \in Nat /\ sent' = [sent EXCEPT ![p] = sent[p] + (IF res.accepted THEN 1 ELSE 0)]
  BY <1>1, <1>2 DEF TypeOK
<1>14. SentOK'
  <2>1. \A d \in Calls : (Succeeds(d))' => sent'[d[1]] > 0
    <3> SUFFICES ASSUME NEW d \in Calls, (Succeeds(d))' PROVE sent'[d[1]] > 0
      OBVIOUS
    <3>1. CASE d = c
      BY <1>4, <1>12, <1>13, <3>1 DEF TypeOK
    <3>2. CASE d # c
      <4>1. sent[d[1]] > 0 /\ sent[d[1]] \in Nat /\ d[1] \in Producers
        BY <1>11, <3>2 DEF SentOK, TypeOK
      <4> QED
        BY <1>4, <1>13, <4>1 DEF TypeOK
    <3> QED
      BY <3>1, <3>2
  <2>2. ASSUME NEW q \in Producers, q \notin silent'
        PROVE  sent'[q] = 0 \/ (sent'[q] = 1 /\ \E d \in Calls : d[1] = q /\ (Succeeds(d))')
    <3>1. q \notin silent /\ (q = p => ~(res.accepted /\ res.err # NoError))
      BY <1>1, <2>2
    <3>2. sent[q] = 0 \/ (sent[q] = 1 /\ \E d \in Calls : d[1] = q /\ Succeeds(d))
      BY <3>1 DEF SentOK
    <3>3. CASE q = p /\ res.accepted
      <4>1. \A d \in Calls : d[1] = q => ~Succeeds(d)
        <5> SUFFICES ASSUME NEW d \in Calls, d[1] = q, Succeeds(d) PROVE FALSE
          OBVIOUS
        <5>1. client[c] = "waiting" /\ client[d] \in {"waiting", "sent"}
          BY <1>2, <3>1, <3>3 DEF Succeeds, EndsOK
        <5>2. c = d
          BY <3>1, <3>3, <5>1, OnlyOneOpen
        <5> QED
          BY <1>12, <5>2
      <4>2. sent[q] = 0
        BY <3>2, <4>1
      <4>3. sent'[q] = 1
        BY <1>2, <1>13, <3>3, <4>2 DEF TypeOK
      <4> QED
        BY <1>12, <3>1, <3>3, <4>3
    <3>4. CASE ~(q = p /\ res.accepted)
      <4>1. sent'[q] = sent[q]
        BY <1>4, <1>13, <3>4 DEF TypeOK
      <4> QED
        BY <1>11, <1>12, <3>2, <4>1
    <3> QED
      BY <3>3, <3>4
  <2> QED
    BY <2>1, <2>2 DEF SentOK
<1>15. StatusOK'
  <2>1. status[c] = 0 /\ client[c] # "rejected"
    BY <1>2 DEF EndsOK, TypeOK, ClientStates
  <2> QED
    BY <1>2, <1>7, <2>1 DEF TypeOK, StatusOK
<1>16. NothingOK'
  BY <1>2, <1>4, <1>5, <1>13 DEF TypeOK, NothingOK
<1> QED
  BY <1>8, <1>9, <1>10, <1>14, <1>15, <1>16

LEMMA NextHTTP == ASSUME HTTPInv, Next PROVE HTTPInv'
BY KeepsPost, KeepsGiveUp, KeepsReject, KeepsDeliverOnce, KeepsSend, KeepsNotifySuccess,
   KeepsNotifyFailure, KeepsAnswer, KeepsCrash DEF Next, Serve

LEMMA HTTPUntouched == ASSUME HTTPInv, UNCHANGED vars PROVE HTTPInv'
BY DEF vars, HTTPInv, TypeOK, OrderOK, EndsOK, JobsOK, SentOK, Succeeds, StatusOK, NothingOK

LEMMA HTTPInvariant == ClientSpec => []HTTPInv
<1>1. ClientInit => HTTPInv
  BY InitHTTP DEF ClientInit
<1>2. HTTPInv /\ [ClientNext]_clientVars => HTTPInv'
  BY NextHTTP, HTTPUntouched
  DEF ClientNext, clientVars, ThroughHTTP, ThroughRabbitMQ, ThroughKafka
<1> QED
  BY <1>1, <1>2, PTL DEF ClientSpec

\* A producer is told the truth about its email (client/http.go:66-102, handler.go:33-47).
THEOREM AnswersAreTrue == ClientSpec => []AnswerIsTrue
<1>1. HTTPInv => AnswerIsTrue
  <2> SUFFICES ASSUME HTTPInv, NEW c \in Calls
               PROVE  /\ client[c] = "sent" => sent[c[1]] > 0
                      /\ client[c] \in {"failed", "rejected"} /\ c[1] \notin silent /\ LastCall(c)
                            => sent[c[1]] = 0
    BY DEF AnswerIsTrue
  <2>1. client[c] = "sent" => sent[c[1]] > 0
    BY DEF HTTPInv, SentOK, Succeeds
  <2>2. ASSUME client[c] \in {"failed", "rejected"}, c[1] \notin silent, LastCall(c)
        PROVE  sent[c[1]] = 0
    <3> SUFFICES ASSUME NEW d \in Calls, d[1] = c[1], Succeeds(d) PROVE FALSE
      BY <2>2, CallsFacts DEF HTTPInv, SentOK
    <3>1. client[d] \in {"waiting", "sent"}
      BY <2>2 DEF HTTPInv, EndsOK, Succeeds
    <3>2. ~(c[2] < d[2])
      <4> SUFFICES ASSUME c[2] < d[2] PROVE FALSE
        OBVIOUS
      <4>1. d[2] \in c[2] + 1 .. MaxCalls /\ d = << c[1], d[2] >>
        BY CallsFacts
      <4>2. client[d] = "none"
        BY <2>2, <4>1 DEF LastCall
      <4> QED
        BY <3>1, <4>2
    <3>3. ~(d[2] < c[2])
      BY <2>2, <3>1 DEF HTTPInv, OrderOK
    <3> QED
      BY <2>2, <3>1, <3>2, <3>3, CallsFacts
  <2> QED
    BY <2>1, <2>2
<1> QED
  BY <1>1, HTTPInvariant, PTL

\* An email is sent twice only after a call without an answer, although the handlers of two calls
\* may run at the same time (client/http.go:66-102).
THEOREM PostedTwiceOnlyAfterSilence == ClientSpec => []SentTwiceOnlyAfterSilence
<1>1. HTTPInv => SentTwiceOnlyAfterSilence
  BY DEF HTTPInv, SentOK, SentTwiceOnlyAfterSilence
<1> QED
  BY <1>1, HTTPInvariant, PTL

\* Only an email without a body is refused by its contents, when the codes that the sender reports
\* are those of a provider.
BodyOK == \A c \in Calls : job[c].code \in MessageCodes => ~kind[c[1]].request.body

LEMMA KeepsBody ==
    ASSUME SenderCodes \cap MessageCodes = {}, HTTPInv, BodyOK, Next
    PROVE  BodyOK'
<1> USE DEF HTTPInv
<1>1. NoError \notin MessageCodes /\ NoJob.code = NoError
  BY NoErrorIsNoCode, NoJobFacts DEF ErrorCodes
<1> SUFFICES ASSUME NEW c \in Calls, job'[c].code \in MessageCodes
             PROVE  ~kind'[c[1]].request.body
  BY DEF BodyOK
<1>2. kind' = kind
  BY DEF Next, Post, GiveUp, Serve, Reject, DeliverOnce, Send, NotifySuccess, NotifyFailure, Answer,
         Crash
<1>3. CASE job'[c].code = job[c].code
  BY <1>2, <1>3 DEF BodyOK
<1>4. CASE Send(c)
  <2>1. PICK res \in SendResults(RequestOf(c), SenderCodes) :
           job' = [job EXCEPT ![c] = AfterSend(RequestOf(c), job[c], res.err)]
    BY <1>4 DEF Send
  <2>2. /\ job[c] \in Jobs /\ job[c].action = "none" /\ job[c].code = NoError /\ ~job[c].canRetry
        /\ RequestOf(c) \in Requests
    BY <1>4, CallsFacts DEF Send, TypeOK, JobsOK, RequestOf, KindRecords
  <2>3. res.err \in ErrorCodes \cup {NoError}
    BY <2>2, SendResultFacts
  <2>4. job'[c].code = res.err
    <3>1. AfterSend(RequestOf(c), job[c], res.err).code = res.err
      BY <2>2, <2>3, AfterOnlySend
    <3> QED
      BY <2>1, <3>1 DEF TypeOK
  <2>5. RequestOf(c).body => res.err \in SenderCodes \cup {NoError}
    BY DEF SendResults
  <2> QED
    BY <1>1, <1>2, <2>4, <2>5 DEF RequestOf
<1>5. CASE \E d \in Calls : Post(d) \/ GiveUp(d) \/ Reject(d) \/ Answer(d)
  BY <1>3, <1>5 DEF Post, GiveUp, Reject, Answer
<1>6. CASE \E d \in Calls : Send(d) /\ d # c
  <2>1. job'[c] = job[c]
    BY <1>6 DEF Send, TypeOK
  <2> QED
    BY <1>3, <2>1
<1>7. CASE \E d \in Calls : DeliverOnce(d)
  <2>1. PICK d \in Calls : DeliverOnce(d)
    BY <1>7
  <2> DEFINE j == Handle(kind[d[1]].request, 1, FALSE)
  <2>2. j.code = NoError /\ job' = [job EXCEPT ![d] = j]
    BY <2>1 DEF DeliverOnce, Handle
  <2> HIDE DEF j
  <2>3. job'[c] = job[c] \/ job'[c].code = NoError
    BY <2>2 DEF TypeOK
  <2> QED
    BY <1>1, <1>3, <2>3
<1>8. CASE \E d \in Calls : NotifySuccess(d)
  <2>1. PICK d \in Calls : NotifySuccess(d)
    BY <1>8
  <2>2. AfterNotifySuccess(job[d]).code = job[d].code
    BY DEF AfterNotifySuccess, Outcome, TypeOK, Jobs
  <2> QED
    BY <1>3, <2>1, <2>2 DEF NotifySuccess, TypeOK
<1>9. CASE \E d \in Calls : NotifyFailure(d)
  <2>1. PICK d \in Calls, res \in NotifyResults :
           job' = [job EXCEPT ![d] = AfterNotifyFailure(job[d], res.ok)]
    BY <1>9 DEF NotifyFailure
  <2>2. AfterNotifyFailure(job[d], res.ok).code = job[d].code
    BY DEF AfterNotifyFailure, Outcome, TypeOK, Jobs
  <2> QED
    BY <1>3, <2>1, <2>2 DEF TypeOK
<1>10. CASE Crash
  <2>1. job'[c] = job[c] \/ job'[c] = NoJob
    BY <1>10 DEF Crash
  <2> QED
    BY <1>1, <1>3, <2>1
<1> QED
  BY <1>4, <1>5, <1>6, <1>7, <1>8, <1>9, <1>10 DEF Next, Serve

\* Every status means what the README says of it (README.md:153-162), when the codes that the sender
\* reports are those of a provider: an email that is not complete counts as one without a body.
THEOREM StatusesAreTrue ==
    ASSUME SenderCodes \cap MessageCodes = {}
    PROVE  ClientSpec => []StatusIsTrue
<1>1. ClientInit => BodyOK
  <2>1. NoError \notin MessageCodes /\ NoJob.code = NoError
    BY NoErrorIsNoCode, NoJobFacts DEF ErrorCodes
  <2> QED
    BY <2>1 DEF ClientInit, Init, BodyOK
<1>2. HTTPInv /\ BodyOK /\ [ClientNext]_clientVars => BodyOK'
  <2>1. CASE UNCHANGED vars
    BY <2>1 DEF vars, BodyOK
  <2>2. CASE HTTPInv /\ BodyOK /\ Next
    BY <2>2, KeepsBody
  <2> QED
    BY <2>1, <2>2 DEF ClientNext, clientVars, ThroughHTTP, ThroughRabbitMQ, ThroughKafka
<1>3. HTTPInv /\ BodyOK => StatusIsTrue
  <2> SUFFICES ASSUME HTTPInv, BodyOK, NEW c \in Calls
               PROVE  /\ status[c] = 200 <=> client[c] = "sent"
                      /\ status[c] \in {429, 503} => Retryable(job[c].code)
                      /\ status[c] = 422 => ~Retryable(job[c].code)
                      /\ status[c] \in {400, 401, 413} => sent[c[1]] = 0
                      /\ client[c] = "rejected" => told[c[1]] = {}
                      /\ job[c].stage = "outcome" /\ job[c].code # NoError =>
                            /\ job[c].action # "retry"
                            /\ job[c].action = "done" => "failed" \in told[c[1]]
    BY DEF StatusIsTrue
  <2>1. c[1] \in Producers
    BY CallsFacts
  <2>2. client[c] = "rejected" => sent[c[1]] = 0 /\ told[c[1]] = {}
    BY <2>1 DEF HTTPInv, StatusOK, NothingOK
  <2>3. status[c] \in {400, 401, 413} => sent[c[1]] = 0
    BY <2>1, <2>2 DEF HTTPInv, StatusOK, NothingOK, BodyOK
  <2> QED
    BY <2>2, <2>3 DEF HTTPInv, StatusOK, JobsOK
<1> QED
  BY <1>1, <1>2, <1>3, HTTPInvariant, PTL DEF ClientSpec

-----------------------------------------------------------------------------
(***************************************************************************)
(* The queue transports.                                                   *)
(***************************************************************************)

\* The broker has told the Send of c that it took the email, and c is about to return.
Acked(c) == pc[c] = "appended" \/ (pc[c] = "confirming" /\ flight = "acked")

QueueTyped ==
    /\ op \in [Callers -> Operations]
    /\ result \in [Callers -> Results]
    /\ made \in [Callers -> Nat]
    /\ taken \in [Callers -> Nat]
    /\ unsure \subseteq Callers

\* An email that was handed over is on the queue; one without a call that went unanswered is there
\* once, and then its caller knows or is about to.
HandedOK ==
    \A c \in Callers :
        /\ (HandedOver(c) \/ Acked(c)) /\ ~deleted => taken[c] > 0
        /\ c \notin unsure => taken[c] = 0 \/ (taken[c] = 1 /\ (HandedOver(c) \/ Acked(c)))

\* Every stage is one of the operation that was called.
StagesOK ==
    \A c \in Callers :
        /\ pc[c] \in {"publishing", "confirming", "producing", "appended"} => op[c] = "send"
        /\ pc[c] \in {"checking", "pinging"} => op[c] = "health"
        /\ pc[c] \in {"ensuring", "dialing", "preparing"} => op[c] # "close"
        /\ pc[c] \in {"resetting_ok", "closing"} => op[c] = "close"

RabbitTyped ==
    /\ pc \in [Callers -> RabbitStages \cup {"idle"}]
    /\ mu \in Callers \cup {NoCaller}
    /\ conn \in Connections \cup {NoConnection}
    /\ dialed \in Connections \cup {NoConnection}
    /\ link \in [Connections -> LinkStates]
    /\ flight \in {"none", "sent", "acked", "nacked"}
    /\ queue \in BOOLEAN /\ deleted \in BOOLEAN

\* Only the caller with the mutex is past it.
MutexOK == \A c \in Callers : mu = c <=> pc[c] \notin {"idle", "locking"}

\* What a caller at its stage knows of the connections, and that there are no others.
ConnOK ==
    /\ \A c \in Callers :
          /\ pc[c] \in {"publishing", "confirming", "checking"} => conn # NoConnection
          /\ pc[c] = "dialing" => conn = NoConnection
          /\ pc[c] = "preparing" => conn = NoConnection /\ dialed # NoConnection
    /\ dialed # NoConnection => \E c \in Callers : pc[c] = "preparing"
    /\ \A k \in Connections : link[k] # "closed" => k = conn \/ k = dialed
    /\ conn # NoConnection => queue \/ deleted

RabbitInv == QueueTyped /\ HandedOK /\ StagesOK /\ RabbitTyped /\ MutexOK /\ ConnOK

LEMMA KeepsRabbitCall ==
    ASSUME RabbitInv, NEW c \in Callers, RabbitCall(c) PROVE RabbitInv'
<1> USE DEF RabbitInv
<1>1. QueueTyped'
  BY DEF RabbitCall, QueueTyped, RabbitTyped, Operations, Results, RabbitStages, LinkStates,
         Enter, handedVars, connVars
<1>2. HandedOK'
  BY DEF RabbitCall, QueueTyped, RabbitTyped, HandedOK, HandedOver, Acked, StagesOK, MutexOK,
         ConnOK, RabbitStages, LinkStates, Enter, handedVars, connVars
<1>3. StagesOK'
  BY DEF RabbitCall, QueueTyped, RabbitTyped, StagesOK, Operations, RabbitStages, LinkStates,
         Enter, handedVars, connVars
<1>4. RabbitTyped'
  BY DEF RabbitCall, RabbitTyped, QueueTyped, ConnOK, RabbitStages, LinkStates, Enter,
         handedVars, connVars
<1>5. MutexOK'
  BY DEF RabbitCall, RabbitTyped, MutexOK, RabbitStages, LinkStates, Enter, handedVars, connVars
<1>6. ConnOK'
  BY DEF RabbitCall, RabbitTyped, MutexOK, ConnOK, RabbitStages, LinkStates, Enter, handedVars,
         connVars
<1> QED
  BY <1>1, <1>2, <1>3, <1>4, <1>5, <1>6

LEMMA KeepsLock ==
    ASSUME RabbitInv, NEW c \in Callers, Lock(c) PROVE RabbitInv'
<1> USE DEF RabbitInv
<1>1. QueueTyped'
  BY DEF Lock, QueueTyped, RabbitTyped, Operations, Results, RabbitStages, LinkStates, GoTo,
         handedVars
<1>2. HandedOK'
  BY DEF Lock, QueueTyped, RabbitTyped, HandedOK, HandedOver, Acked, StagesOK, MutexOK, ConnOK,
         RabbitStages, LinkStates, GoTo, handedVars
<1>3. StagesOK'
  BY DEF Lock, QueueTyped, RabbitTyped, StagesOK, Operations, RabbitStages, LinkStates, GoTo,
         handedVars
<1>4. RabbitTyped'
  BY DEF Lock, RabbitTyped, QueueTyped, ConnOK, RabbitStages, LinkStates, GoTo, handedVars
<1>5. MutexOK'
  BY DEF Lock, RabbitTyped, MutexOK, RabbitStages, LinkStates, GoTo, handedVars
<1>6. ConnOK'
  BY DEF Lock, RabbitTyped, MutexOK, ConnOK, RabbitStages, LinkStates, GoTo, handedVars
<1> QED
  BY <1>1, <1>2, <1>3, <1>4, <1>5, <1>6

LEMMA KeepsReuse ==
    ASSUME RabbitInv, NEW c \in Callers, Reuse(c) PROVE RabbitInv'
<1> USE DEF RabbitInv
<1>1. QueueTyped'
  BY DEF Reuse, QueueTyped, RabbitTyped, Operations, Results, RabbitStages, LinkStates,
         AfterEnsure, GoTo, SeemsOpen, handedVars, connVars
<1>2. HandedOK'
  BY DEF Reuse, QueueTyped, RabbitTyped, HandedOK, HandedOver, Acked, StagesOK, MutexOK, ConnOK,
         RabbitStages, LinkStates, AfterEnsure, GoTo, SeemsOpen, handedVars, connVars
<1>3. StagesOK'
  BY DEF Reuse, QueueTyped, RabbitTyped, StagesOK, Operations, RabbitStages, LinkStates,
         AfterEnsure, GoTo, SeemsOpen, handedVars, connVars
<1>4. RabbitTyped'
  BY DEF Reuse, RabbitTyped, QueueTyped, ConnOK, RabbitStages, LinkStates, AfterEnsure, GoTo,
         SeemsOpen, handedVars, connVars
<1>5. MutexOK'
  BY DEF Reuse, RabbitTyped, MutexOK, RabbitStages, LinkStates, AfterEnsure, GoTo, SeemsOpen,
         handedVars, connVars
<1>6. ConnOK'
  BY DEF Reuse, RabbitTyped, MutexOK, ConnOK, RabbitStages, LinkStates, AfterEnsure, GoTo,
         SeemsOpen, handedVars, connVars
<1> QED
  BY <1>1, <1>2, <1>3, <1>4, <1>5, <1>6

LEMMA KeepsEnsureReset ==
    ASSUME RabbitInv, NEW c \in Callers, EnsureReset(c) PROVE RabbitInv'
<1> USE DEF RabbitInv
<1>1. QueueTyped'
  BY DEF EnsureReset, QueueTyped, RabbitTyped, Operations, Results, RabbitStages, LinkStates,
         GoTo, Closed, SeemsOpen, handedVars
<1>2. HandedOK'
  BY DEF EnsureReset, QueueTyped, RabbitTyped, HandedOK, HandedOver, Acked, StagesOK, MutexOK,
         ConnOK, RabbitStages, LinkStates, GoTo, Closed, SeemsOpen, handedVars
<1>3. StagesOK'
  BY DEF EnsureReset, QueueTyped, RabbitTyped, StagesOK, Operations, RabbitStages, LinkStates,
         GoTo, Closed, SeemsOpen, handedVars
<1>4. RabbitTyped'
  BY DEF EnsureReset, RabbitTyped, QueueTyped, ConnOK, RabbitStages, LinkStates, GoTo, Closed,
         SeemsOpen, handedVars
<1>5. MutexOK'
  BY DEF EnsureReset, RabbitTyped, MutexOK, RabbitStages, LinkStates, GoTo, Closed, SeemsOpen,
         handedVars
<1>6. ConnOK'
  BY DEF EnsureReset, RabbitTyped, MutexOK, ConnOK, RabbitStages, LinkStates, GoTo, Closed,
         SeemsOpen, handedVars
<1> QED
  BY <1>1, <1>2, <1>3, <1>4, <1>5, <1>6

LEMMA KeepsDial ==
    ASSUME RabbitInv, NEW c \in Callers, Dial(c) PROVE RabbitInv'
<1> USE DEF RabbitInv
<1>1. QueueTyped'
  BY DEF Dial, QueueTyped, RabbitTyped, Operations, Results, RabbitStages, LinkStates, GoTo,
         handedVars
<1>2. HandedOK'
  BY DEF Dial, QueueTyped, RabbitTyped, HandedOK, HandedOver, Acked, StagesOK, MutexOK, ConnOK,
         RabbitStages, LinkStates, GoTo, handedVars
<1>3. StagesOK'
  BY DEF Dial, QueueTyped, RabbitTyped, StagesOK, Operations, RabbitStages, LinkStates, GoTo,
         handedVars
<1>4. RabbitTyped'
  BY DEF Dial, RabbitTyped, QueueTyped, ConnOK, RabbitStages, LinkStates, GoTo, handedVars
<1>5. MutexOK'
  BY DEF Dial, RabbitTyped, MutexOK, RabbitStages, LinkStates, GoTo, handedVars
<1>6. ConnOK'
  BY DEF Dial, RabbitTyped, MutexOK, ConnOK, RabbitStages, LinkStates, GoTo, handedVars
<1> QED
  BY <1>1, <1>2, <1>3, <1>4, <1>5, <1>6

LEMMA KeepsDialFailed ==
    ASSUME RabbitInv, NEW c \in Callers, DialFailed(c) PROVE RabbitInv'
<1> USE DEF RabbitInv
<1>1. QueueTyped'
  BY DEF DialFailed, QueueTyped, RabbitTyped, Operations, Results, RabbitStages, LinkStates,
         ReturnFrom, Unlock, handedVars
<1>2. HandedOK'
  BY DEF DialFailed, QueueTyped, RabbitTyped, HandedOK, HandedOver, Acked, StagesOK, MutexOK,
         ConnOK, RabbitStages, LinkStates, ReturnFrom, Unlock, handedVars
<1>3. StagesOK'
  BY DEF DialFailed, QueueTyped, RabbitTyped, StagesOK, Operations, RabbitStages, LinkStates,
         ReturnFrom, Unlock, handedVars
<1>4. RabbitTyped'
  BY DEF DialFailed, RabbitTyped, QueueTyped, ConnOK, RabbitStages, LinkStates, ReturnFrom,
         Unlock, handedVars
<1>5. MutexOK'
  BY DEF DialFailed, RabbitTyped, MutexOK, RabbitStages, LinkStates, ReturnFrom, Unlock,
         handedVars
<1>6. ConnOK'
  BY DEF DialFailed, RabbitTyped, MutexOK, ConnOK, RabbitStages, LinkStates, ReturnFrom, Unlock,
         handedVars
<1> QED
  BY <1>1, <1>2, <1>3, <1>4, <1>5, <1>6

LEMMA KeepsPrepareChannel ==
    ASSUME RabbitInv, NEW c \in Callers, PrepareChannel(c) PROVE RabbitInv'
<1> USE DEF RabbitInv
<1>1. QueueTyped'
  BY DEF PrepareChannel, QueueTyped, RabbitTyped, Operations, Results, RabbitStages, LinkStates,
         AfterEnsure, GoTo, handedVars
<1>2. HandedOK'
  BY DEF PrepareChannel, QueueTyped, RabbitTyped, HandedOK, HandedOver, Acked, StagesOK,
         MutexOK, ConnOK, RabbitStages, LinkStates, AfterEnsure, GoTo, handedVars
<1>3. StagesOK'
  BY DEF PrepareChannel, QueueTyped, RabbitTyped, StagesOK, Operations, RabbitStages,
         LinkStates, AfterEnsure, GoTo, handedVars
<1>4. RabbitTyped'
  BY DEF PrepareChannel, RabbitTyped, QueueTyped, ConnOK, RabbitStages, LinkStates, AfterEnsure,
         GoTo, handedVars
<1>5. MutexOK'
  BY DEF PrepareChannel, RabbitTyped, MutexOK, RabbitStages, LinkStates, AfterEnsure, GoTo,
         handedVars
<1>6. ConnOK'
  BY DEF PrepareChannel, RabbitTyped, MutexOK, ConnOK, RabbitStages, LinkStates, AfterEnsure,
         GoTo, handedVars
<1> QED
  BY <1>1, <1>2, <1>3, <1>4, <1>5, <1>6

LEMMA KeepsPrepareFailed ==
    ASSUME RabbitInv, NEW c \in Callers, PrepareFailed(c) PROVE RabbitInv'
<1> USE DEF RabbitInv
<1>1. QueueTyped'
  BY DEF PrepareFailed, QueueTyped, RabbitTyped, Operations, Results, RabbitStages, LinkStates,
         ReturnFrom, Unlock, Closed, handedVars
<1>2. HandedOK'
  BY DEF PrepareFailed, QueueTyped, RabbitTyped, HandedOK, HandedOver, Acked, StagesOK, MutexOK,
         ConnOK, RabbitStages, LinkStates, ReturnFrom, Unlock, Closed, handedVars
<1>3. StagesOK'
  BY DEF PrepareFailed, QueueTyped, RabbitTyped, StagesOK, Operations, RabbitStages, LinkStates,
         ReturnFrom, Unlock, Closed, handedVars
<1>4. RabbitTyped'
  BY DEF PrepareFailed, RabbitTyped, QueueTyped, ConnOK, RabbitStages, LinkStates, ReturnFrom,
         Unlock, Closed, handedVars
<1>5. MutexOK'
  BY DEF PrepareFailed, RabbitTyped, MutexOK, RabbitStages, LinkStates, ReturnFrom, Unlock,
         Closed, handedVars
<1>6. ConnOK'
  BY DEF PrepareFailed, RabbitTyped, MutexOK, ConnOK, RabbitStages, LinkStates, ReturnFrom,
         Unlock, Closed, handedVars
<1> QED
  BY <1>1, <1>2, <1>3, <1>4, <1>5, <1>6

LEMMA KeepsPublish ==
    ASSUME RabbitInv, NEW c \in Callers, Publish(c) PROVE RabbitInv'
<1> USE DEF RabbitInv
<1>1. QueueTyped'
  BY DEF Publish, QueueTyped, RabbitTyped, Operations, Results, RabbitStages, LinkStates, GoTo,
         SeemsOpen, handedVars
<1>2. HandedOK'
  BY DEF Publish, QueueTyped, RabbitTyped, HandedOK, HandedOver, Acked, StagesOK, MutexOK,
         ConnOK, RabbitStages, LinkStates, GoTo, SeemsOpen, handedVars
<1>3. StagesOK'
  BY DEF Publish, QueueTyped, RabbitTyped, StagesOK, Operations, RabbitStages, LinkStates, GoTo,
         SeemsOpen, handedVars
<1>4. RabbitTyped'
  BY DEF Publish, RabbitTyped, QueueTyped, ConnOK, RabbitStages, LinkStates, GoTo, SeemsOpen,
         handedVars
<1>5. MutexOK'
  BY DEF Publish, RabbitTyped, MutexOK, RabbitStages, LinkStates, GoTo, SeemsOpen, handedVars
<1>6. ConnOK'
  BY DEF Publish, RabbitTyped, MutexOK, ConnOK, RabbitStages, LinkStates, GoTo, SeemsOpen,
         handedVars
<1> QED
  BY <1>1, <1>2, <1>3, <1>4, <1>5, <1>6

LEMMA KeepsPublishFailed ==
    ASSUME RabbitInv, NEW c \in Callers, PublishFailed(c) PROVE RabbitInv'
<1> USE DEF RabbitInv
<1>1. QueueTyped'
  BY DEF PublishFailed, QueueTyped, RabbitTyped, Operations, Results, RabbitStages, LinkStates,
         GoTo, handedVars, connVars
<1>2. HandedOK'
  BY DEF PublishFailed, QueueTyped, RabbitTyped, HandedOK, HandedOver, Acked, StagesOK, MutexOK,
         ConnOK, RabbitStages, LinkStates, GoTo, handedVars, connVars
<1>3. StagesOK'
  BY DEF PublishFailed, QueueTyped, RabbitTyped, StagesOK, Operations, RabbitStages, LinkStates,
         GoTo, handedVars, connVars
<1>4. RabbitTyped'
  BY DEF PublishFailed, RabbitTyped, QueueTyped, ConnOK, RabbitStages, LinkStates, GoTo,
         handedVars, connVars
<1>5. MutexOK'
  BY DEF PublishFailed, RabbitTyped, MutexOK, RabbitStages, LinkStates, GoTo, handedVars,
         connVars
<1>6. ConnOK'
  BY DEF PublishFailed, RabbitTyped, MutexOK, ConnOK, RabbitStages, LinkStates, GoTo,
         handedVars, connVars
<1> QED
  BY <1>1, <1>2, <1>3, <1>4, <1>5, <1>6

LEMMA KeepsBrokerAnswers ==
    ASSUME RabbitInv, NEW c \in Callers, BrokerAnswers(c) PROVE RabbitInv'
<1> USE DEF RabbitInv
<1>1. QueueTyped'
  BY DEF BrokerAnswers, QueueTyped, RabbitTyped, Operations, Results, RabbitStages, LinkStates,
         Take, callVars
<1>2. HandedOK'
  BY DEF BrokerAnswers, QueueTyped, RabbitTyped, HandedOK, HandedOver, Acked, StagesOK, MutexOK,
         ConnOK, RabbitStages, LinkStates, Take, callVars
<1>3. StagesOK'
  BY DEF BrokerAnswers, QueueTyped, RabbitTyped, StagesOK, Operations, RabbitStages, LinkStates,
         Take, callVars
<1>4. RabbitTyped'
  BY DEF BrokerAnswers, RabbitTyped, QueueTyped, ConnOK, RabbitStages, LinkStates, Take,
         callVars
<1>5. MutexOK'
  BY DEF BrokerAnswers, RabbitTyped, MutexOK, RabbitStages, LinkStates, Take, callVars
<1>6. ConnOK'
  BY DEF BrokerAnswers, RabbitTyped, MutexOK, ConnOK, RabbitStages, LinkStates, Take, callVars
<1> QED
  BY <1>1, <1>2, <1>3, <1>4, <1>5, <1>6

LEMMA KeepsConfirmed ==
    ASSUME RabbitInv, NEW c \in Callers, Confirmed(c) PROVE RabbitInv'
<1> USE DEF RabbitInv
<1>1. QueueTyped'
  BY DEF Confirmed, QueueTyped, RabbitTyped, Operations, Results, RabbitStages, LinkStates,
         ReturnFrom, Unlock, handedVars
<1>2. HandedOK'
  BY DEF Confirmed, QueueTyped, RabbitTyped, HandedOK, HandedOver, Acked, StagesOK, MutexOK,
         ConnOK, RabbitStages, LinkStates, ReturnFrom, Unlock, handedVars
<1>3. StagesOK'
  BY DEF Confirmed, QueueTyped, RabbitTyped, StagesOK, Operations, RabbitStages, LinkStates,
         ReturnFrom, Unlock, handedVars
<1>4. RabbitTyped'
  BY DEF Confirmed, RabbitTyped, QueueTyped, ConnOK, RabbitStages, LinkStates, ReturnFrom,
         Unlock, handedVars
<1>5. MutexOK'
  BY DEF Confirmed, RabbitTyped, MutexOK, RabbitStages, LinkStates, ReturnFrom, Unlock,
         handedVars
<1>6. ConnOK'
  BY DEF Confirmed, RabbitTyped, MutexOK, ConnOK, RabbitStages, LinkStates, ReturnFrom, Unlock,
         handedVars
<1> QED
  BY <1>1, <1>2, <1>3, <1>4, <1>5, <1>6

LEMMA KeepsRejected ==
    ASSUME RabbitInv, NEW c \in Callers, Rejected(c) PROVE RabbitInv'
<1> USE DEF RabbitInv
<1>1. QueueTyped'
  BY DEF Rejected, QueueTyped, RabbitTyped, Operations, Results, RabbitStages, LinkStates, GoTo,
         handedVars
<1>2. HandedOK'
  BY DEF Rejected, QueueTyped, RabbitTyped, HandedOK, HandedOver, Acked, StagesOK, MutexOK,
         ConnOK, RabbitStages, LinkStates, GoTo, handedVars
<1>3. StagesOK'
  BY DEF Rejected, QueueTyped, RabbitTyped, StagesOK, Operations, RabbitStages, LinkStates,
         GoTo, handedVars
<1>4. RabbitTyped'
  BY DEF Rejected, RabbitTyped, QueueTyped, ConnOK, RabbitStages, LinkStates, GoTo, handedVars
<1>5. MutexOK'
  BY DEF Rejected, RabbitTyped, MutexOK, RabbitStages, LinkStates, GoTo, handedVars
<1>6. ConnOK'
  BY DEF Rejected, RabbitTyped, MutexOK, ConnOK, RabbitStages, LinkStates, GoTo, handedVars
<1> QED
  BY <1>1, <1>2, <1>3, <1>4, <1>5, <1>6

LEMMA KeepsUnconfirmed ==
    ASSUME RabbitInv, NEW c \in Callers, Unconfirmed(c) PROVE RabbitInv'
<1> USE DEF RabbitInv
<1>1. QueueTyped'
  BY DEF Unconfirmed, QueueTyped, RabbitTyped, Operations, Results, RabbitStages, LinkStates,
         GoTo, Take, NotAnswered
<1>2. HandedOK'
  BY DEF Unconfirmed, QueueTyped, RabbitTyped, HandedOK, HandedOver, Acked, StagesOK, MutexOK,
         ConnOK, RabbitStages, LinkStates, GoTo, Take, NotAnswered
<1>3. StagesOK'
  BY DEF Unconfirmed, QueueTyped, RabbitTyped, StagesOK, Operations, RabbitStages, LinkStates,
         GoTo, Take, NotAnswered
<1>4. RabbitTyped'
  BY DEF Unconfirmed, RabbitTyped, QueueTyped, ConnOK, RabbitStages, LinkStates, GoTo, Take,
         NotAnswered
<1>5. MutexOK'
  BY DEF Unconfirmed, RabbitTyped, MutexOK, RabbitStages, LinkStates, GoTo, Take, NotAnswered
<1>6. ConnOK'
  BY DEF Unconfirmed, RabbitTyped, MutexOK, ConnOK, RabbitStages, LinkStates, GoTo, Take,
         NotAnswered
<1> QED
  BY <1>1, <1>2, <1>3, <1>4, <1>5, <1>6

LEMMA KeepsCheck ==
    ASSUME RabbitInv, NEW c \in Callers, Check(c) PROVE RabbitInv'
<1> USE DEF RabbitInv
<1>1. QueueTyped'
  BY DEF Check, QueueTyped, RabbitTyped, Operations, Results, RabbitStages, LinkStates,
         ReturnFrom, Unlock, handedVars
<1>2. HandedOK'
  BY DEF Check, QueueTyped, RabbitTyped, HandedOK, HandedOver, Acked, StagesOK, MutexOK, ConnOK,
         RabbitStages, LinkStates, ReturnFrom, Unlock, handedVars
<1>3. StagesOK'
  BY DEF Check, QueueTyped, RabbitTyped, StagesOK, Operations, RabbitStages, LinkStates,
         ReturnFrom, Unlock, handedVars
<1>4. RabbitTyped'
  BY DEF Check, RabbitTyped, QueueTyped, ConnOK, RabbitStages, LinkStates, ReturnFrom, Unlock,
         handedVars
<1>5. MutexOK'
  BY DEF Check, RabbitTyped, MutexOK, RabbitStages, LinkStates, ReturnFrom, Unlock, handedVars
<1>6. ConnOK'
  BY DEF Check, RabbitTyped, MutexOK, ConnOK, RabbitStages, LinkStates, ReturnFrom, Unlock,
         handedVars
<1> QED
  BY <1>1, <1>2, <1>3, <1>4, <1>5, <1>6

LEMMA KeepsCheckFailed ==
    ASSUME RabbitInv, NEW c \in Callers, CheckFailed(c) PROVE RabbitInv'
<1> USE DEF RabbitInv
<1>1. QueueTyped'
  BY DEF CheckFailed, QueueTyped, RabbitTyped, Operations, Results, RabbitStages, LinkStates,
         GoTo, handedVars
<1>2. HandedOK'
  BY DEF CheckFailed, QueueTyped, RabbitTyped, HandedOK, HandedOver, Acked, StagesOK, MutexOK,
         ConnOK, RabbitStages, LinkStates, GoTo, handedVars
<1>3. StagesOK'
  BY DEF CheckFailed, QueueTyped, RabbitTyped, StagesOK, Operations, RabbitStages, LinkStates,
         GoTo, handedVars
<1>4. RabbitTyped'
  BY DEF CheckFailed, RabbitTyped, QueueTyped, ConnOK, RabbitStages, LinkStates, GoTo,
         handedVars
<1>5. MutexOK'
  BY DEF CheckFailed, RabbitTyped, MutexOK, RabbitStages, LinkStates, GoTo, handedVars
<1>6. ConnOK'
  BY DEF CheckFailed, RabbitTyped, MutexOK, ConnOK, RabbitStages, LinkStates, GoTo, handedVars
<1> QED
  BY <1>1, <1>2, <1>3, <1>4, <1>5, <1>6

LEMMA KeepsReset ==
    ASSUME RabbitInv, NEW c \in Callers, Reset(c) PROVE RabbitInv'
<1> USE DEF RabbitInv
<1>1. QueueTyped'
  BY DEF Reset, QueueTyped, RabbitTyped, Operations, Results, RabbitStages, LinkStates,
         ReturnFrom, Unlock, Closed, handedVars
<1>2. HandedOK'
  BY DEF Reset, QueueTyped, RabbitTyped, HandedOK, HandedOver, Acked, StagesOK, MutexOK, ConnOK,
         RabbitStages, LinkStates, ReturnFrom, Unlock, Closed, handedVars
<1>3. StagesOK'
  BY DEF Reset, QueueTyped, RabbitTyped, StagesOK, Operations, RabbitStages, LinkStates,
         ReturnFrom, Unlock, Closed, handedVars
<1>4. RabbitTyped'
  BY DEF Reset, RabbitTyped, QueueTyped, ConnOK, RabbitStages, LinkStates, ReturnFrom, Unlock,
         Closed, handedVars
<1>5. MutexOK'
  BY DEF Reset, RabbitTyped, MutexOK, RabbitStages, LinkStates, ReturnFrom, Unlock, Closed,
         handedVars
<1>6. ConnOK'
  BY DEF Reset, RabbitTyped, MutexOK, ConnOK, RabbitStages, LinkStates, ReturnFrom, Unlock,
         Closed, handedVars
<1> QED
  BY <1>1, <1>2, <1>3, <1>4, <1>5, <1>6

LEMMA KeepsDrop ==
    ASSUME RabbitInv, NEW k \in Connections, Drop(k) PROVE RabbitInv'
<1> USE DEF RabbitInv
<1>1. QueueTyped'
  BY DEF Drop, QueueTyped, RabbitTyped, Operations, Results, RabbitStages, LinkStates, Fault,
         callVars, handedVars
<1>2. HandedOK'
  BY DEF Drop, QueueTyped, RabbitTyped, HandedOK, HandedOver, Acked, StagesOK, MutexOK, ConnOK,
         RabbitStages, LinkStates, Fault, callVars, handedVars
<1>3. StagesOK'
  BY DEF Drop, QueueTyped, RabbitTyped, StagesOK, Operations, RabbitStages, LinkStates, Fault,
         callVars, handedVars
<1>4. RabbitTyped'
  BY DEF Drop, RabbitTyped, QueueTyped, ConnOK, RabbitStages, LinkStates, Fault, callVars,
         handedVars
<1>5. MutexOK'
  BY DEF Drop, RabbitTyped, MutexOK, RabbitStages, LinkStates, Fault, callVars, handedVars
<1>6. ConnOK'
  BY DEF Drop, RabbitTyped, MutexOK, ConnOK, RabbitStages, LinkStates, Fault, callVars,
         handedVars
<1> QED
  BY <1>1, <1>2, <1>3, <1>4, <1>5, <1>6

LEMMA KeepsNotice ==
    ASSUME RabbitInv, NEW k \in Connections, Notice(k) PROVE RabbitInv'
<1> USE DEF RabbitInv
<1>1. QueueTyped'
  BY DEF Notice, QueueTyped, RabbitTyped, Operations, Results, RabbitStages, LinkStates, Closed,
         callVars, handedVars
<1>2. HandedOK'
  BY DEF Notice, QueueTyped, RabbitTyped, HandedOK, HandedOver, Acked, StagesOK, MutexOK,
         ConnOK, RabbitStages, LinkStates, Closed, callVars, handedVars
<1>3. StagesOK'
  BY DEF Notice, QueueTyped, RabbitTyped, StagesOK, Operations, RabbitStages, LinkStates,
         Closed, callVars, handedVars
<1>4. RabbitTyped'
  BY DEF Notice, RabbitTyped, QueueTyped, ConnOK, RabbitStages, LinkStates, Closed, callVars,
         handedVars
<1>5. MutexOK'
  BY DEF Notice, RabbitTyped, MutexOK, RabbitStages, LinkStates, Closed, callVars, handedVars
<1>6. ConnOK'
  BY DEF Notice, RabbitTyped, MutexOK, ConnOK, RabbitStages, LinkStates, Closed, callVars,
         handedVars
<1> QED
  BY <1>1, <1>2, <1>3, <1>4, <1>5, <1>6

LEMMA KeepsCloseChannel ==
    ASSUME RabbitInv, NEW k \in Connections, CloseChannel(k) PROVE RabbitInv'
<1> USE DEF RabbitInv
<1>1. QueueTyped'
  BY DEF CloseChannel, QueueTyped, RabbitTyped, Operations, Results, RabbitStages, LinkStates,
         Fault, callVars, handedVars
<1>2. HandedOK'
  BY DEF CloseChannel, QueueTyped, RabbitTyped, HandedOK, HandedOver, Acked, StagesOK, MutexOK,
         ConnOK, RabbitStages, LinkStates, Fault, callVars, handedVars
<1>3. StagesOK'
  BY DEF CloseChannel, QueueTyped, RabbitTyped, StagesOK, Operations, RabbitStages, LinkStates,
         Fault, callVars, handedVars
<1>4. RabbitTyped'
  BY DEF CloseChannel, RabbitTyped, QueueTyped, ConnOK, RabbitStages, LinkStates, Fault,
         callVars, handedVars
<1>5. MutexOK'
  BY DEF CloseChannel, RabbitTyped, MutexOK, RabbitStages, LinkStates, Fault, callVars,
         handedVars
<1>6. ConnOK'
  BY DEF CloseChannel, RabbitTyped, MutexOK, ConnOK, RabbitStages, LinkStates, Fault, callVars,
         handedVars
<1> QED
  BY <1>1, <1>2, <1>3, <1>4, <1>5, <1>6

LEMMA KeepsDeleteQueue ==
    ASSUME RabbitInv, DeleteQueue PROVE RabbitInv'
<1> USE DEF RabbitInv
<1>1. QueueTyped'
  BY DEF DeleteQueue, QueueTyped, RabbitTyped, Operations, Results, RabbitStages, LinkStates,
         Fault, callVars, handedVars, connVars
<1>2. HandedOK'
  BY DEF DeleteQueue, QueueTyped, RabbitTyped, HandedOK, HandedOver, Acked, StagesOK, MutexOK,
         ConnOK, RabbitStages, LinkStates, Fault, callVars, handedVars, connVars
<1>3. StagesOK'
  BY DEF DeleteQueue, QueueTyped, RabbitTyped, StagesOK, Operations, RabbitStages, LinkStates,
         Fault, callVars, handedVars, connVars
<1>4. RabbitTyped'
  BY DEF DeleteQueue, RabbitTyped, QueueTyped, ConnOK, RabbitStages, LinkStates, Fault,
         callVars, handedVars, connVars
<1>5. MutexOK'
  BY DEF DeleteQueue, RabbitTyped, MutexOK, RabbitStages, LinkStates, Fault, callVars,
         handedVars, connVars
<1>6. ConnOK'
  BY DEF DeleteQueue, RabbitTyped, MutexOK, ConnOK, RabbitStages, LinkStates, Fault, callVars,
         handedVars, connVars
<1> QED
  BY <1>1, <1>2, <1>3, <1>4, <1>5, <1>6

\* The Kafka sender has no connection of its own, and leaves the RabbitMQ sender as it is.
KafkaTyped ==
    /\ pc \in [Callers -> KafkaStages \cup {"idle"}]
    /\ \A k \in Connections : link[k] = "closed"

KafkaInv == QueueTyped /\ HandedOK /\ StagesOK /\ KafkaTyped

LEMMA KeepsKafkaCall ==
    ASSUME KafkaInv, NEW c \in Callers, KafkaCall(c),
           UNCHANGED << connVars, queue, deleted, faults >>
    PROVE  KafkaInv'
<1> USE DEF KafkaInv
<1>1. QueueTyped'
  BY DEF KafkaCall, Enter, FirstStage, Operations, handedVars, connVars, QueueTyped, KafkaTyped,
         KafkaStages, Results
<1>2. HandedOK'
  BY DEF KafkaCall, Enter, FirstStage, Operations, handedVars, connVars, QueueTyped, KafkaTyped,
         KafkaStages, HandedOK, HandedOver, Acked, StagesOK
<1>3. StagesOK'
  BY DEF KafkaCall, Enter, FirstStage, Operations, handedVars, connVars, QueueTyped, KafkaTyped,
         KafkaStages, StagesOK
<1>4. KafkaTyped'
  BY DEF KafkaCall, Enter, FirstStage, Operations, handedVars, connVars, QueueTyped, KafkaTyped,
         KafkaStages
<1> QED
  BY <1>1, <1>2, <1>3, <1>4

LEMMA KeepsAppend ==
    ASSUME KafkaInv, NEW c \in Callers, Append(c),
           UNCHANGED << connVars, queue, deleted, faults >>
    PROVE  KafkaInv'
<1> USE DEF KafkaInv
<1>1. QueueTyped'
  BY DEF Append, Take, GoTo, connVars, QueueTyped, KafkaTyped, KafkaStages, Results, Operations
<1>2. HandedOK'
  BY DEF Append, Take, GoTo, connVars, QueueTyped, KafkaTyped, KafkaStages, HandedOK,
         HandedOver, Acked, StagesOK
<1>3. StagesOK'
  BY DEF Append, Take, GoTo, connVars, QueueTyped, KafkaTyped, KafkaStages, StagesOK, Operations
<1>4. KafkaTyped'
  BY DEF Append, Take, GoTo, connVars, QueueTyped, KafkaTyped, KafkaStages, Operations
<1> QED
  BY <1>1, <1>2, <1>3, <1>4

LEMMA KeepsProduced ==
    ASSUME KafkaInv, NEW c \in Callers, Produced(c),
           UNCHANGED << connVars, queue, deleted, faults >>
    PROVE  KafkaInv'
<1> USE DEF KafkaInv
<1>1. QueueTyped'
  BY DEF Produced, ReturnFrom, handedVars, connVars, QueueTyped, KafkaTyped, KafkaStages,
         Results, Operations
<1>2. HandedOK'
  BY DEF Produced, ReturnFrom, handedVars, connVars, QueueTyped, KafkaTyped, KafkaStages,
         HandedOK, HandedOver, Acked, StagesOK
<1>3. StagesOK'
  BY DEF Produced, ReturnFrom, handedVars, connVars, QueueTyped, KafkaTyped, KafkaStages,
         StagesOK, Operations
<1>4. KafkaTyped'
  BY DEF Produced, ReturnFrom, handedVars, connVars, QueueTyped, KafkaTyped, KafkaStages,
         Operations
<1> QED
  BY <1>1, <1>2, <1>3, <1>4

LEMMA KeepsNotProduced ==
    ASSUME KafkaInv, NEW c \in Callers, NotProduced(c),
           UNCHANGED << connVars, queue, deleted, faults >>
    PROVE  KafkaInv'
<1> USE DEF KafkaInv
<1>1. QueueTyped'
  BY DEF NotProduced, Take, NotAnswered, ReturnFrom, connVars, QueueTyped, KafkaTyped,
         KafkaStages, Results, Operations
<1>2. HandedOK'
  BY DEF NotProduced, Take, NotAnswered, ReturnFrom, connVars, QueueTyped, KafkaTyped,
         KafkaStages, HandedOK, HandedOver, Acked, StagesOK
<1>3. StagesOK'
  BY DEF NotProduced, Take, NotAnswered, ReturnFrom, connVars, QueueTyped, KafkaTyped,
         KafkaStages, StagesOK, Operations
<1>4. KafkaTyped'
  BY DEF NotProduced, Take, NotAnswered, ReturnFrom, connVars, QueueTyped, KafkaTyped,
         KafkaStages, Operations
<1> QED
  BY <1>1, <1>2, <1>3, <1>4

LEMMA KeepsProduceRejected ==
    ASSUME KafkaInv, NEW c \in Callers, ProduceRejected(c),
           UNCHANGED << connVars, queue, deleted, faults >>
    PROVE  KafkaInv'
<1> USE DEF KafkaInv
<1>1. QueueTyped'
  BY DEF ProduceRejected, ReturnFrom, handedVars, connVars, QueueTyped, KafkaTyped, KafkaStages,
         Results, Operations
<1>2. HandedOK'
  BY DEF ProduceRejected, ReturnFrom, handedVars, connVars, QueueTyped, KafkaTyped, KafkaStages,
         HandedOK, HandedOver, Acked, StagesOK
<1>3. StagesOK'
  BY DEF ProduceRejected, ReturnFrom, handedVars, connVars, QueueTyped, KafkaTyped, KafkaStages,
         StagesOK, Operations
<1>4. KafkaTyped'
  BY DEF ProduceRejected, ReturnFrom, handedVars, connVars, QueueTyped, KafkaTyped, KafkaStages,
         Operations
<1> QED
  BY <1>1, <1>2, <1>3, <1>4

LEMMA KeepsPing ==
    ASSUME KafkaInv, NEW c \in Callers, Ping(c),
           UNCHANGED << connVars, queue, deleted, faults >>
    PROVE  KafkaInv'
<1> USE DEF KafkaInv
<1>1. QueueTyped'
  BY DEF Ping, ReturnFrom, handedVars, connVars, QueueTyped, KafkaTyped, KafkaStages, Results,
         Operations
<1>2. HandedOK'
  BY DEF Ping, ReturnFrom, handedVars, connVars, QueueTyped, KafkaTyped, KafkaStages, HandedOK,
         HandedOver, Acked, StagesOK
<1>3. StagesOK'
  BY DEF Ping, ReturnFrom, handedVars, connVars, QueueTyped, KafkaTyped, KafkaStages, StagesOK,
         Operations
<1>4. KafkaTyped'
  BY DEF Ping, ReturnFrom, handedVars, connVars, QueueTyped, KafkaTyped, KafkaStages, Operations
<1> QED
  BY <1>1, <1>2, <1>3, <1>4

LEMMA KeepsCloseClient ==
    ASSUME KafkaInv, NEW c \in Callers, CloseClient(c),
           UNCHANGED << connVars, queue, deleted, faults >>
    PROVE  KafkaInv'
<1> USE DEF KafkaInv
<1>1. QueueTyped'
  BY DEF CloseClient, ReturnFrom, handedVars, connVars, QueueTyped, KafkaTyped, KafkaStages,
         Results, Operations
<1>2. HandedOK'
  BY DEF CloseClient, ReturnFrom, handedVars, connVars, QueueTyped, KafkaTyped, KafkaStages,
         HandedOK, HandedOver, Acked, StagesOK
<1>3. StagesOK'
  BY DEF CloseClient, ReturnFrom, handedVars, connVars, QueueTyped, KafkaTyped, KafkaStages,
         StagesOK, Operations
<1>4. KafkaTyped'
  BY DEF CloseClient, ReturnFrom, handedVars, connVars, QueueTyped, KafkaTyped, KafkaStages,
         Operations
<1> QED
  BY <1>1, <1>2, <1>3, <1>4

-----------------------------------------------------------------------------
\* A sender that is not used stays as it was.
QueueInv == IF transport = "kafka" THEN KafkaInv ELSE RabbitInv

LEMMA InitQueue == ClientInit => QueueInv
<1> SUFFICES ASSUME ClientInit PROVE QueueInv
  OBVIOUS
<1> USE DEF ClientInit, RabbitInit, SenderInit
<1>1. QueueTyped
  BY DEF QueueTyped, Operations, Results
<1>2. HandedOK
  BY DEF HandedOK, HandedOver, Acked
<1>3. StagesOK
  BY DEF StagesOK
<1>4. KafkaTyped
  BY DEF KafkaTyped
<1>5. RabbitTyped
  BY DEF RabbitTyped, LinkStates
<1>6. MutexOK /\ ConnOK
  BY DEF MutexOK, ConnOK
<1> QED
  BY <1>1, <1>2, <1>3, <1>4, <1>5, <1>6 DEF QueueInv, KafkaInv, RabbitInv

LEMMA NextRabbit == RabbitInv /\ RabbitNext => RabbitInv'
<1>1. ASSUME RabbitInv, NEW c \in Callers, RabbitCall(c) \/ Lock(c) \/ RabbitStep(c)
      PROVE  RabbitInv'
  BY <1>1, KeepsRabbitCall, KeepsLock, KeepsReuse, KeepsEnsureReset, KeepsDial, KeepsDialFailed,
     KeepsPrepareChannel, KeepsPrepareFailed, KeepsPublish, KeepsPublishFailed,
     KeepsBrokerAnswers, KeepsConfirmed, KeepsRejected, KeepsUnconfirmed, KeepsCheck,
     KeepsCheckFailed, KeepsReset
  DEF RabbitStep
<1>2. ASSUME RabbitInv, NEW k \in Connections, Drop(k) \/ Notice(k) \/ CloseChannel(k)
      PROVE  RabbitInv'
  BY <1>2, KeepsDrop, KeepsNotice, KeepsCloseChannel
<1> QED
  BY <1>1, <1>2, KeepsDeleteQueue DEF RabbitNext

LEMMA NextKafka ==
    KafkaInv /\ KafkaNext /\ UNCHANGED << connVars, queue, deleted, faults >> => KafkaInv'
<1>1. ASSUME KafkaInv, NEW c \in Callers, KafkaCall(c) \/ KafkaStep(c),
             UNCHANGED << connVars, queue, deleted, faults >>
      PROVE  KafkaInv'
  BY <1>1, KeepsKafkaCall, KeepsAppend, KeepsProduced, KeepsNotProduced, KeepsProduceRejected,
     KeepsPing, KeepsCloseClient
  DEF KafkaStep
<1> QED
  BY <1>1 DEF KafkaNext

LEMMA QueueUntouched == QueueInv /\ UNCHANGED << transport, rabbitVars >> => QueueInv'
<1> SUFFICES ASSUME QueueInv, UNCHANGED << transport, rabbitVars >> PROVE QueueInv'
  OBVIOUS
<1> USE DEF rabbitVars, callVars, handedVars, connVars
<1>1. QueueTyped => QueueTyped'
  BY DEF QueueTyped
<1>2. HandedOK => HandedOK'
  BY DEF HandedOK, HandedOver, Acked
<1>3. StagesOK => StagesOK'
  BY DEF StagesOK
<1>4. (KafkaTyped => KafkaTyped') /\ (RabbitTyped => RabbitTyped')
  BY DEF KafkaTyped, RabbitTyped
<1>5. (MutexOK => MutexOK') /\ (ConnOK => ConnOK')
  BY DEF MutexOK, ConnOK
<1> QED
  BY <1>1, <1>2, <1>3, <1>4, <1>5 DEF QueueInv, KafkaInv, RabbitInv

\* What is true of the queue transports and of their callers, all the time.
LEMMA QueueInvariant == ClientSpec => []QueueInv
<1>1. QueueInv /\ [ClientNext]_clientVars => QueueInv'
  <2> SUFFICES ASSUME QueueInv, [ClientNext]_clientVars PROVE QueueInv'
    OBVIOUS
  <2>1. transport' = transport
    BY DEF ClientNext, clientVars
  <2>2. CASE ThroughRabbitMQ
    BY <2>1, <2>2, NextRabbit DEF ThroughRabbitMQ, QueueInv
  <2>3. CASE ThroughKafka
    BY <2>1, <2>3, NextKafka DEF ThroughKafka, QueueInv
  <2>4. CASE UNCHANGED rabbitVars
    BY <2>1, <2>4, QueueUntouched
  <2> QED
    BY <2>2, <2>3, <2>4 DEF ClientNext, clientVars, ThroughHTTP
<1> QED
  BY InitQueue, <1>1, PTL DEF ClientSpec

\* A Send of a queue sender that succeeded has its email on the broker, unless the queue was
\* deleted meanwhile (client/rabbitmq/sender.go:104-127, client/kafka/sender.go:84-89).
THEOREM HandedOverIsOnTheQueue == ClientSpec => []HandedOverIsTaken
<1>1. QueueInv => HandedOverIsTaken
  BY DEF QueueInv, KafkaInv, RabbitInv, HandedOK, HandedOverIsTaken
<1> QED
  BY <1>1, QueueInvariant, PTL

\* Calling Send again after an error puts an email on the queue twice only if the broker left a
\* call unanswered (client/rabbitmq/sender.go:58-83, client/kafka/sender.go:73-91).
THEOREM QueuedTwiceOnlyUnanswered == ClientSpec => []QueuedTwiceOnlyAfterSilence
<1>1. QueueInv => QueuedTwiceOnlyAfterSilence
  BY DEF QueueInv, KafkaInv, RabbitInv, QueueTyped, HandedOK, QueuedTwiceOnlyAfterSilence
<1> QED
  BY <1>1, QueueInvariant, PTL

\* Every connection that is not closed is the one of the sender, or the one that the caller with
\* the mutex prepares (client/rabbitmq/sender.go:129-168).
THEOREM ConnectionsAreKept == ClientSpec => []NoConnectionIsForgotten
<1>1. KafkaInv => NoConnectionIsForgotten
  BY DEF KafkaInv, KafkaTyped, NoConnectionIsForgotten
<1>2. RabbitInv => NoConnectionIsForgotten
  <2> SUFFICES ASSUME RabbitInv, NEW k \in Connections, link[k] # "closed", k # conn
               PROVE  k = dialed /\ mu # NoCaller
    BY DEF NoConnectionIsForgotten
  <2>1. k = dialed
    BY DEF RabbitInv, ConnOK
  <2>2. PICK c \in Callers : pc[c] = "preparing"
    BY <2>1 DEF RabbitInv, ConnOK
  <2>3. mu = c
    BY <2>2 DEF RabbitInv, MutexOK
  <2> QED
    BY <2>1, <2>3
<1>3. QueueInv => NoConnectionIsForgotten
  BY <1>1, <1>2 DEF QueueInv
<1> QED
  BY <1>3, QueueInvariant, PTL

=============================================================================
